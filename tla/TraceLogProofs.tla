--------------------------- MODULE TraceLogProofs ---------------------------
(***************************************************************************)
(* What TLAPS proves of TraceLog for any number of runs, spans and faults: *)
(* a run that is saved is over, and one tree in which work hangs in the    *)
(* newest turn; and of the runs that no fault has touched, nor any newer   *)
(* one, the file has all but those the size limit dropped, and the newest  *)
(* in order.                                                               *)
(***************************************************************************)
EXTENDS TraceLog, SequenceTheorems, WellFoundedInduction, TLAPS

Kinds == Works \cup {"bootstrap", "loop", "turn", "finalize"}
Span  == [kind : Kinds, parent : Nat, group : Nat, own : Nat, open : BOOLEAN]

(* While a run is open its second span is the loop, which is closed when   *)
(* the run is handed over; no other span is a loop, and only turns and     *)
(* finalize are left open.  The current turn is the newest.                *)
RunInv ==
  /\ run \in 0..MaxRuns /\ runs \in 0..MaxRuns /\ saving \in BOOLEAN
  /\ status \in Statuses \cup {"none", "running"}
  /\ spans \in Seq(Span)
  /\ saving => run # 0 /\ status \in Statuses
  /\ run = 0 => turn = 0 /\ Len(spans) = 0
  /\ run # 0 => Len(spans) > 1 /\ spans[2].kind = "loop" /\ (spans[2].open <=> ~saving)
  /\ \A i \in 1..Len(spans) :
       /\ spans[i].open => spans[i].kind \in {"turn", "finalize", "loop"}
       /\ spans[i].kind = "loop" => i = 2
  /\ turn # 0 => turn \in 1..Len(spans) /\ spans[turn].kind = "turn"
  /\ turn \in Nat /\ \A i \in 1..Len(spans) : spans[i].kind = "turn" => i <= turn

(* What the collector remembers of a turn is the last act span it has.     *)
ActsInv ==
  /\ \A t \in DOMAIN acts : /\ acts[t] \in 1..Len(spans)
                            /\ spans[acts[t]].kind = "act" /\ spans[acts[t]].group = t
  /\ \A i \in 1..Len(spans) :
       spans[i].kind = "act" => spans[i].group \in DOMAIN acts /\ i <= acts[spans[i].group]

Tree == \A i \in 1..Len(spans) : WellPlaced(i)

IInv == RunInv /\ ActsInv /\ Tree

-----------------------------------------------------------------------------
(* Spans are appended and closed, never moved.                             *)

SameSpan(s, t) ==
  t.kind = s.kind /\ t.parent = s.parent /\ t.group = s.group /\ t.own = s.own

LEMMA SpansStay ==
  ASSUME spans \in Seq(Span), spans' \in Seq(Span), Len(spans') >= Len(spans),
         \A j \in 1..Len(spans) : SameSpan(spans[j], spans'[j])
  PROVE  \A i \in 1..Len(spans) : WellPlaced(i) => WellPlaced(i)'
<1> SUFFICES ASSUME NEW i \in 1..Len(spans), WellPlaced(i) PROVE WellPlaced(i)'
  OBVIOUS
<1>1. \A j \in 1..i : j \in 1..Len(spans) /\ SameSpan(spans[j], spans'[j])
  OBVIOUS
<1>2. \A j \in 1..i - 1 : j \in 1..i
  OBVIOUS
<1>3. \A kind : Before(kind, i)' = Before(kind, i)
  BY <1>1, <1>2 DEF Before, SameSpan
<1>4. Before("act", i)' = Before("act", i) /\ Before("turn", i)' = Before("turn", i)
      /\ Before("loop", i)' = Before("loop", i)
  BY <1>3
<1>5. SameSpan(spans[i], spans'[i])
  BY <1>1
<1>6. ActsBefore(i)' = ActsBefore(i)
  BY <1>1, <1>2, <1>4, <1>5 DEF ActsBefore, Before, SameSpan
<1> QED  BY <1>4, <1>5, <1>6 DEF WellPlaced, SameSpan

LEMMA Append2 ==
  ASSUME NEW ss \in Seq(Span), NEW s \in Span
  PROVE  /\ Append(ss, s) \in Seq(Span) /\ Len(Append(ss, s)) = Len(ss) + 1
         /\ Append(ss, s)[Len(ss) + 1] = s
         /\ \A j \in 1..Len(ss) : Append(ss, s)[j] = ss[j]
OBVIOUS

\* The loop of an open run is found.
LEMMA LoopFound ==
  ASSUME RunInv, run # 0, ~saving
  PROVE  OpenLoop(spans) = 2 /\ 2 \in 1..Len(spans)
<1>1. {i \in DOMAIN spans : spans[i].kind = "loop" /\ spans[i].open} = {2}
  BY DEF RunInv
<1>2. Min({2}) = 2
  BY DEF Min
<1>3. OpenLoop(spans) = 2
  <2> DEFINE S == {i \in DOMAIN spans : spans[i].kind = "loop" /\ spans[i].open}
  <2>1. OpenLoop(spans) = IF S = {} THEN 0 ELSE Min(S)
    BY DEF OpenLoop
  <2>2. S = {2}
    BY <1>1
  <2> HIDE DEF S
  <2> QED  BY <2>1, <2>2, <1>2
<1>4. 2 \in 1..Len(spans)
  BY DEF RunInv
<1> QED  BY <1>3, <1>4

\* The latest act span is the one that was remembered.
LEMMA MaxIs ==
  ASSUME NEW S \in SUBSET Nat, NEW m \in S, \A x \in S : x <= m
  PROVE  Max(S) = m
<1>1. \E x \in S : \A y \in S : x >= y
  OBVIOUS
<1>2. Max(S) \in S /\ \A y \in S : Max(S) >= y
  BY <1>1 DEF Max
<1>3. Max(S) \in Nat /\ m \in Nat /\ Max(S) >= m /\ Max(S) <= m
  BY <1>2
<1> QED  BY <1>3

-----------------------------------------------------------------------------
LEMMA Nothing ==
  ASSUME NEW s, s = <<>>
  PROVE  s \in Seq(Span) /\ Len(s) = 0 /\ DOMAIN s = {}
OBVIOUS

LEMMA InitInv == Init => IInv
<1> SUFFICES ASSUME Init PROVE IInv
  OBVIOUS
<1>1. /\ run = 0 /\ turn = 0 /\ runs = 0 /\ saving = FALSE /\ status = "none"
      /\ spans \in Seq(Span) /\ Len(spans) = 0 /\ DOMAIN acts = {}
  BY Nothing DEF Init
<1>2. RunInv
  <2>1. run \in 0..MaxRuns /\ runs \in 0..MaxRuns
    BY <1>1, TraceAssumption
  <2>3. saving \in BOOLEAN /\ ~saving
    BY <1>1
  <2>2. \A i \in 1..Len(spans) : FALSE
    BY ONLY <1>1
  <2> QED  BY ONLY <1>1, <2>1, <2>2, <2>3 DEF RunInv
<1>3. ActsInv /\ Tree
  BY ONLY <1>1 DEF ActsInv, Tree
<1> QED  BY <1>2, <1>3 DEF IInv

\* end_span leaves everything of a span but that it is open.
LEMMA CloseOne ==
  ASSUME NEW ss \in Seq(Span), NEW i \in 1..Len(ss)
  PROVE  /\ Closed(ss, i) \in Seq(Span) /\ Len(Closed(ss, i)) = Len(ss)
         /\ \A j \in 1..Len(ss) : /\ SameSpan(ss[j], Closed(ss, i)[j])
                                  /\ j # i => Closed(ss, i)[j] = ss[j]
         /\ ~Closed(ss, i)[i].open
<1> DEFINE x == [ss[i] EXCEPT !.open = FALSE]
<1>1. ss[i] \in Span
  OBVIOUS
<1>2. x \in Span /\ SameSpan(ss[i], x) /\ ~x.open
  BY <1>1 DEF Span, SameSpan
<1>3. Closed(ss, i) = [ss EXCEPT ![i] = x]
  BY DEF Closed
<1> HIDE DEF x
<1>4. /\ Closed(ss, i) \in Seq(Span) /\ Len(Closed(ss, i)) = Len(ss) /\ Closed(ss, i)[i] = x
      /\ \A j \in 1..Len(ss) : j # i => Closed(ss, i)[j] = ss[j]
  BY <1>2, <1>3
<1> QED  BY <1>2, <1>4 DEF SameSpan

LEMMA BeginRunStep == ASSUME IInv, BeginRun PROVE IInv'
<1> DEFINE o == <<OpenTop("bootstrap")>>
           c == Closed(o, 1)
           l == OpenTop("loop")
<1>1. /\ OpenTop("bootstrap") \in Span /\ OpenTop("bootstrap").kind = "bootstrap"
      /\ OpenTop("bootstrap").parent = 0
      /\ l \in Span /\ l.kind = "loop" /\ l.parent = 0 /\ l.open
  BY DEF Span, Kinds, OpenTop, NewSpan
<1>2. o \in Seq(Span) /\ Len(o) = 1 /\ o[1] = OpenTop("bootstrap") /\ 1 \in 1..Len(o)
  BY <1>1
<1>3. spans' = Append(c, l)
  BY DEF BeginRun
<1> HIDE DEF o, l
<1>4. /\ c \in Seq(Span) /\ Len(c) = 1
      /\ c[1].kind = "bootstrap" /\ c[1].parent = 0 /\ ~c[1].open
  <2>1. 1 \in 1..Len(o)
    BY <1>2
  <2>2. /\ c \in Seq(Span) /\ Len(c) = Len(o) /\ ~c[1].open
        /\ \A j \in 1..Len(o) : SameSpan(o[j], c[j])
    BY <1>2, <2>1, CloseOne
  <2>3. SameSpan(OpenTop("bootstrap"), c[1])
    BY <1>2, <2>1, <2>2
  <2> QED  BY <1>1, <1>2, <2>2, <2>3 DEF SameSpan
<1> HIDE DEF c
<1>5. /\ spans' \in Seq(Span) /\ Len(spans') = 2 /\ spans'[1] = c[1] /\ spans'[2] = l
  <2>1. /\ Append(c, l) \in Seq(Span) /\ Len(Append(c, l)) = Len(c) + 1
        /\ Append(c, l)[Len(c) + 1] = l
        /\ \A j \in 1..Len(c) : Append(c, l)[j] = c[j]
    BY <1>1, <1>4, Append2
  <2>2. 1 \in 1..Len(c) /\ Len(c) + 1 = 2
    BY <1>4
  <2> QED  BY <1>3, <2>1, <2>2
<1>6. /\ run' \in 1..MaxRuns /\ runs' \in 0..MaxRuns /\ saving' = FALSE /\ status' = "running"
      /\ turn' = 0
  BY TraceAssumption DEF IInv, RunInv, BeginRun
<1>7. DOMAIN acts' = {}
  BY Nothing DEF BeginRun
<1>8. \A i \in 1..Len(spans') : i = 1 \/ i = 2
  BY <1>5
<1>9. RunInv'
  <2>1. run' \in 0..MaxRuns /\ run' # 0
    BY <1>6, TraceAssumption
  <2>4. saving' \in BOOLEAN /\ ~saving'
    BY <1>6
  <2>2. \A i \in 1..Len(spans') : /\ spans'[i].open => spans'[i].kind \in {"turn", "finalize", "loop"}
                                  /\ spans'[i].kind = "loop" => i = 2
    BY ONLY <1>1, <1>4, <1>5, <1>8
  <2>3. Len(spans') > 1 /\ spans'[2].kind = "loop" /\ spans'[2].open
    BY ONLY <1>1, <1>5
  <2>5. /\ spans' \in Seq(Span) /\ runs' \in 0..MaxRuns /\ turn' = 0
        /\ status' \in Statuses \cup {"none", "running"}
    BY <1>5, <1>6
  <2>6. spans'[2].open <=> ~saving'
    BY ONLY <2>3, <2>4
  <2>7. run' # 0 => Len(spans') > 1 /\ spans'[2].kind = "loop" /\ (spans'[2].open <=> ~saving')
    BY ONLY <2>3, <2>6
  <2>8. /\ saving' => run' # 0 /\ status' \in Statuses
        /\ run' = 0 => turn' = 0 /\ Len(spans') = 0
        /\ turn' # 0 => turn' \in 1..Len(spans') /\ spans'[turn'].kind = "turn"
    BY ONLY <2>1, <2>4, <2>5
  <2>9. turn' \in Nat /\ \A i \in 1..Len(spans') : spans'[i].kind = "turn" => i <= turn'
    BY ONLY <1>1, <1>4, <1>5, <1>6, <1>8
  <2> QED  BY ONLY <2>1, <2>2, <2>4, <2>5, <2>7, <2>8, <2>9 DEF RunInv
<1>10. ActsInv'
  BY ONLY <1>1, <1>4, <1>5, <1>7, <1>8 DEF ActsInv
<1>11. Tree'
  BY ONLY <1>1, <1>4, <1>5, <1>8 DEF Tree, WellPlaced, Works
<1> QED  BY <1>9, <1>10, <1>11 DEF IInv

\* What a new last span must be for the invariant to hold, when nothing else changes
\* in the run but, perhaps, that earlier spans are closed.
LEMMA Grown ==
  ASSUME RunInv, Tree, NEW n \in Nat, n = Len(spans) + 1,
         spans' \in Seq(Span), Len(spans') = n,
         \A j \in 1..Len(spans) : SameSpan(spans[j], spans'[j]),
         WellPlaced(n)'
  PROVE  Tree'
<1>1. spans \in Seq(Span) /\ Len(spans) \in Nat
  BY DEF RunInv
<1>2. \A i \in 1..Len(spans) : WellPlaced(i)'
  BY <1>1, SpansStay DEF Tree
<1>3. \A i \in 1..Len(spans') : i \in 1..Len(spans) \/ i = n
  BY <1>1
<1> QED  BY <1>2, <1>3 DEF Tree

LEMMA BeginTurnStep == ASSUME IInv, BeginTurn PROVE IInv'
<1> SUFFICES ASSUME NEW n \in Nat, n = Len(spans) + 1 PROVE IInv'
  BY DEF IInv, RunInv
<1> DEFINE s == NewSpan("turn", 2, n, n, TRUE)
<1>1. spans \in Seq(Span) /\ n > 2 /\ run # 0 /\ ~saving
  BY DEF IInv, RunInv, BeginTurn
<1>2. spans' = Append(spans, s) /\ turn' = n /\ UNCHANGED <<run, status, acts, saving, runs>>
  BY <1>1, LoopFound DEF BeginTurn, IInv
<1>3. s \in Span /\ s.kind = "turn" /\ s.parent = 2 /\ s.group = n
  BY <1>1 DEF Span, Kinds, NewSpan
<1> HIDE DEF s
<1>4. /\ spans' \in Seq(Span) /\ Len(spans') = n /\ spans'[n] = s
      /\ \A j \in 1..Len(spans) : spans'[j] = spans[j]
  BY <1>1, <1>2, <1>3, Append2
<1>5. /\ \A j \in 1..n : j \in 1..Len(spans) \/ j = n
      /\ \A j \in 1..Len(spans) : SameSpan(spans[j], spans'[j])
  BY <1>1, <1>4 DEF SameSpan
<1>6. RunInv'
  BY <1>1, <1>2, <1>3, <1>4, <1>5 DEF IInv, RunInv
<1>7. ActsInv'
  BY <1>1, <1>2, <1>3, <1>4, <1>5 DEF IInv, ActsInv
<1>8. WellPlaced(n)'
  <2>1. 2 \in 1..n - 1 /\ spans'[2].kind = "loop"
    BY <1>1, <1>4 DEF IInv, RunInv
  <2>2. 2 \in Before("loop", n)'
    BY <2>1 DEF Before
  <2> QED  BY <1>3, <1>4, <2>2 DEF WellPlaced, Works
<1>9. Tree'
  BY <1>1, <1>3, <1>4, <1>5, <1>8, Grown DEF IInv
<1> QED  BY <1>6, <1>7, <1>9 DEF IInv

LEMMA RecordStep ==
  ASSUME IInv, NEW kind \in Works, NEW own \in Reacts, Record(kind, own)
  PROVE  IInv'
<1> SUFFICES ASSUME NEW n \in Nat, n = Len(spans) + 1 PROVE IInv'
  BY DEF IInv, RunInv
<1> DEFINE p == ParentOf(kind)
           s == NewSpan(kind, p, turn, own, FALSE)
<1>1. /\ spans \in Seq(Span) /\ turn \in 1..Len(spans) /\ turn # 0
      /\ ~saving /\ run # 0 /\ spans[turn].kind = "turn"
      /\ own \in Nat /\ own <= turn
  BY DEF IInv, RunInv, Record, Reacts
<1>2. spans' = Append(spans, s) /\ UNCHANGED <<run, turn, status, saving, runs>>
  BY DEF Record, InTurn
<1>3. p \in 1..Len(spans)
  BY <1>1 DEF ParentOf, IInv, ActsInv
<1>4. /\ s \in Span /\ s.kind = kind /\ s.parent = p /\ s.group = turn /\ s.own = own /\ ~s.open
      /\ kind \notin {"turn", "finalize", "loop", "bootstrap"}
  <2>1. kind \in Kinds /\ kind \notin {"turn", "finalize", "loop", "bootstrap"}
    BY DEF Kinds, Works
  <2>2. p \in Nat /\ turn \in Nat /\ own \in Nat
    BY <1>1, <1>3
  <2> HIDE DEF p
  <2> QED  BY <2>1, <2>2 DEF Span, NewSpan
<1>5. p = IF kind = "tool" /\ turn \in DOMAIN acts THEN acts[turn] ELSE turn
  BY DEF ParentOf
<1> HIDE DEF s, p
<1>6. /\ spans' \in Seq(Span) /\ Len(spans') = n /\ spans'[n] = s
      /\ \A j \in 1..Len(spans) : spans'[j] = spans[j]
  BY <1>1, <1>2, <1>4, Append2
<1>7. kind = "act" => acts' = [t \in DOMAIN acts \cup {turn} |-> IF t = turn THEN n ELSE acts[t]]
  BY DEF Record
<1>8. kind # "act" => acts' = acts
  BY DEF Record
<1>9. /\ \A j \in 1..n : j \in 1..Len(spans) \/ j = n
      /\ \A j \in 1..Len(spans) : SameSpan(spans[j], spans'[j]) /\ j < n /\ j \in 1..n
      /\ n \in 1..n
  BY <1>1, <1>6 DEF SameSpan
<1>10. RunInv'
  BY <1>1, <1>2, <1>4, <1>6, <1>9 DEF IInv, RunInv
<1>11. ActsInv'
  <2>1. CASE kind = "act"
    <3>1. ASSUME NEW t \in DOMAIN acts'
          PROVE  /\ acts'[t] \in 1..Len(spans')
                 /\ spans'[acts'[t]].kind = "act" /\ spans'[acts'[t]].group = t
      <4>1. CASE t = turn
        BY <4>1, <2>1, <1>7, <1>4, <1>6, <1>9
      <4>2. CASE t # turn
        <5>1. t \in DOMAIN acts /\ acts'[t] = acts[t]
          BY <4>2, <2>1, <1>7
        <5> QED  BY <5>1, <1>6, <1>9 DEF IInv, ActsInv
      <4> QED  BY <4>1, <4>2
    <3>2. ASSUME NEW i \in 1..Len(spans'), spans'[i].kind = "act"
          PROVE  spans'[i].group \in DOMAIN acts' /\ i <= acts'[spans'[i].group]
      <4>1. CASE i = n
        BY <4>1, <2>1, <1>7, <1>4, <1>6, <1>1
      <4>2. CASE i \in 1..Len(spans)
        <5>1. spans[i].group \in DOMAIN acts /\ i <= acts[spans[i].group] /\ i <= n
          BY <4>2, <3>2, <1>6, <1>9, <1>1 DEF IInv, ActsInv
        <5> QED  BY <5>1, <4>2, <2>1, <1>7, <1>6
      <4> QED  BY <4>1, <4>2, <1>6, <1>9
    <3> QED  BY <3>1, <3>2 DEF ActsInv
  <2>2. CASE kind # "act"
    BY <2>2, <1>8, <1>4, <1>6, <1>9 DEF IInv, ActsInv
  <2> QED  BY <2>1, <2>2
<1>12. WellPlaced(n)'
  <2> DEFINE earlier == {j \in 1..Len(spans) : spans[j].kind = "act" /\ spans[j].group = turn}
  <2>0. n - 1 = Len(spans)
    BY <1>1
  <2>1. ActsBefore(n)' = earlier
    BY <2>0, <1>4, <1>6 DEF ActsBefore, Before
  <2>2. turn \in DOMAIN acts => acts[turn] \in earlier /\ Max(earlier) = acts[turn]
    <3>1. turn \in DOMAIN acts => acts[turn] \in earlier /\ \A x \in earlier : x <= acts[turn]
      BY DEF IInv, ActsInv
    <3>2. earlier \in SUBSET Nat
      OBVIOUS
    <3> HIDE DEF earlier
    <3> QED  BY <3>1, <3>2, MaxIs
  <2>3. turn \notin DOMAIN acts => earlier = {}
    BY DEF IInv, ActsInv
  <2> HIDE DEF earlier
  <2>4. p = IF kind = "tool" /\ earlier # {} THEN Max(earlier) ELSE turn
    BY <1>5, <2>2, <2>3
  <2>5. Before("turn", n)' # {} /\ Max(Before("turn", n)') = turn
    <3> DEFINE T == Before("turn", n)'
    <3>1. T = {j \in 1..Len(spans) : spans[j].kind = "turn"}
      BY <1>6, <2>0 DEF Before
    <3>2. T \in SUBSET Nat /\ turn \in T /\ \A x \in T : x <= turn
      BY <1>1, <3>1 DEF IInv, RunInv
    <3> HIDE DEF T
    <3>3. T # {} /\ Max(T) = turn
      BY <3>2, MaxIs
    <3> QED  BY <3>3 DEF T
  <2> QED  BY <1>1, <1>4, <1>6, <2>1, <2>4, <2>5 DEF WellPlaced
<1>13. Tree'
  BY <1>1, <1>4, <1>6, <1>9, <1>12, Grown DEF IInv
<1> QED  BY <1>10, <1>11, <1>13 DEF IInv

LEMMA CloseRunStep == ASSUME IInv, NEW st \in Statuses, CloseRun(st) PROVE IInv'
<1> SUFFICES ASSUME NEW n \in Nat, n = Len(spans) + 1 PROVE IInv'
  BY DEF IInv, RunInv
<1> DEFINE c == Closed(spans, 2)
           s == NewSpan("finalize", 0, 0, 0, TRUE)
<1>1. spans \in Seq(Span) /\ n > 2 /\ run # 0 /\ ~saving
  BY DEF IInv, RunInv, CloseRun
<1>2. OpenLoop(spans) = 2 /\ 2 \in 1..Len(spans)
  BY LoopFound, <1>1 DEF IInv
<1>3. /\ spans' = Append(c, s) /\ status' = st /\ saving' = TRUE
      /\ UNCHANGED <<run, turn, acts, runs>>
  BY <1>2 DEF CloseRun, OpenTop
<1>4. /\ c \in Seq(Span) /\ Len(c) = Len(spans)
      /\ \A j \in 1..Len(spans) : SameSpan(spans[j], c[j]) /\ (j # 2 => c[j] = spans[j])
      /\ ~c[2].open
  BY <1>1, <1>2, CloseOne
<1>5. s \in Span /\ s.kind = "finalize" /\ s.parent = 0
  BY DEF Span, Kinds, NewSpan
<1> HIDE DEF c, s
<1>6. /\ spans' \in Seq(Span) /\ Len(spans') = n /\ spans'[n] = s
      /\ \A j \in 1..Len(spans) : spans'[j] = c[j]
  BY <1>3, <1>4, <1>5, Append2
<1>7. /\ \A j \in 1..n : j \in 1..Len(spans) \/ j = n
      /\ \A j \in 1..Len(spans) : SameSpan(spans[j], spans'[j]) /\ (j # 2 => spans'[j] = spans[j])
      /\ ~spans'[2].open
  BY <1>1, <1>2, <1>4, <1>6
<1>8. RunInv'
  <2>1. \A i \in 1..Len(spans') : spans'[i].kind = "turn" => i <= turn'
    BY <1>3, <1>5, <1>6, <1>7 DEF IInv, RunInv, SameSpan
  <2>2. turn' # 0 => turn' \in 1..Len(spans') /\ spans'[turn'].kind = "turn"
    BY <1>1, <1>3, <1>6, <1>7 DEF IInv, RunInv, SameSpan
  <2>3. \A i \in 1..Len(spans') : /\ spans'[i].open => spans'[i].kind \in {"turn", "finalize", "loop"}
                                  /\ spans'[i].kind = "loop" => i = 2
    BY <1>1, <1>2, <1>5, <1>6, <1>7 DEF IInv, RunInv, SameSpan
  <2>4. Len(spans') > 1 /\ spans'[2].kind = "loop" /\ ~spans'[2].open
    BY <1>1, <1>2, <1>6, <1>7 DEF IInv, RunInv, SameSpan
  <2> QED  BY <1>1, <1>3, <1>6, <2>1, <2>2, <2>3, <2>4 DEF IInv, RunInv
<1>9. ActsInv'
  BY <1>1, <1>3, <1>5, <1>6, <1>7 DEF IInv, ActsInv, SameSpan
<1>10. WellPlaced(n)'
  BY <1>5, <1>6 DEF WellPlaced, Works
<1>11. Tree'
  BY <1>1, <1>5, <1>6, <1>7, <1>10, Grown DEF IInv
<1> QED  BY <1>8, <1>9, <1>11 DEF IInv

\* The collector begins anew: the run was saved, or the session or process is gone.
LEMMA Forgotten ==
  ASSUME IInv, run' = 0, turn' = 0, spans' = <<>>, status' = "none", acts' = <<>>,
         saving' = FALSE, runs' = runs
  PROVE  IInv'
<1>1. spans' \in Seq(Span) /\ Len(spans') = 0 /\ DOMAIN acts' = {}
  BY Nothing
<1>2. /\ run' = 0 /\ turn' = 0 /\ saving' = FALSE /\ status' = "none"
      /\ runs' \in 0..MaxRuns
  BY DEF IInv, RunInv
<1>3. RunInv'
  <2>1. run' \in 0..MaxRuns
    BY <1>2, TraceAssumption
  <2>3. saving' \in BOOLEAN /\ ~saving'
    BY <1>2
  <2>2. \A i \in 1..Len(spans') : FALSE
    BY ONLY <1>1
  <2> QED  BY ONLY <1>1, <1>2, <2>1, <2>2, <2>3 DEF RunInv
<1>4. ActsInv' /\ Tree'
  BY ONLY <1>1 DEF ActsInv, Tree
<1> QED  BY <1>3, <1>4 DEF IInv

LEMMA Unchanged ==
  ASSUME IInv, UNCHANGED collectorVars
  PROVE  IInv'
<1>1. UNCHANGED <<run, turn, spans, status, acts, saving, runs>>
  BY DEF collectorVars
<1>2. RunInv' /\ ActsInv'
  BY <1>1 DEF IInv, RunInv, ActsInv
<1>3. Tree'
  BY <1>1, SpansStay DEF IInv, RunInv, Tree, SameSpan
<1> QED  BY <1>2, <1>3 DEF IInv

LEMMA Invariance == Spec => []IInv
<1>1. IInv /\ [Next]_vars => IInv'
  <2> SUFFICES ASSUME IInv, [Next]_vars PROVE IInv'
    OBVIOUS
  <2>1. CASE BeginRun
    BY <2>1, BeginRunStep
  <2>2. CASE BeginTurn
    BY <2>2, BeginTurnStep
  <2>3. CASE \E kind \in Works, own \in Reacts : Record(kind, own)
    BY <2>3, RecordStep
  <2>4. CASE \E st \in Statuses : CloseRun(st)
    BY <2>4, CloseRunStep
  <2>5. CASE RunSaved \/ Recreate \/ Crash
    BY <2>5, Forgotten DEF RunSaved, Recreate, Crash
  <2>6. CASE DebugReads \/ Done \/ (\E r \in Runs : Thread(r)) \/ UNCHANGED vars
    BY <2>6, Unchanged DEF DebugReads, Done, Thread, ReadFile, ReadFails, OpenFile, CloseFile, WriteFails,
                          vars, collectorVars
  <2> QED  BY <2>1, <2>2, <2>3, <2>4, <2>5, <2>6 DEF Next, Engine
<1> QED  BY InitInv, <1>1, PTL DEF Spec

-----------------------------------------------------------------------------
\* The types of what collector and engine keep of the run in progress.
THEOREM TypeCorrect == Spec => []TypeOK
<1>1. IInv => TypeOK
  BY DEF IInv, RunInv, TypeOK, Span, Kinds
<1> QED  BY <1>1, Invariance, PTL

\* A saved run is one tree, whichever reacts recorded: turns under the loop, work in the
\* newest turn, tools under the last act recorded there.
THEOREM SavedIsTree == Spec => []SpanTree
<1>1. IInv => SpanTree
  BY DEF IInv, RunInv, Tree, SpanTree
<1> QED  BY <1>1, Invariance, PTL

\* A saved run has a final status, its loop is closed, and the only spans that are
\* open in it are turns and the finalize span.
THEOREM SavedIsOver == Spec => []SavedRunIsOver
<1>1. IInv => SavedRunIsOver
  BY DEF IInv, RunInv, SavedRunIsOver
<1> QED  BY <1>1, Invariance, PTL

-----------------------------------------------------------------------------
(* The file.  s is the end of t.                                           *)

IsEnd(s, t) == Len(s) <= Len(t) /\ \A i \in 1..Len(s) : s[i] = t[(Len(t) - Len(s)) + i]

LEMMA LeastExists ==
  ASSUME NEW S \in SUBSET Nat, S # {}
  PROVE  \E x \in S : \A y \in S : x <= y
<1> DEFINE R == {p \in Nat \X Nat : p[1] < p[2]}
<1>1. IsWellFoundedOn(R, Nat)
  BY NatLessThanWellFounded DEF OpToRel
<1>2. PICK x \in S : \A y \in S : <<y, x>> \notin R
  BY <1>1, WFMin
<1>3. ASSUME NEW y \in S PROVE x =< y
  <2>1. x \in Nat /\ y \in Nat
    OBVIOUS
  <2>2. <<y, x>> \in R <=> y < x
    BY <2>1
  <2> HIDE DEF R
  <2> QED  BY <2>1, <2>2, <1>2
<1> QED  BY <1>3

LEMMA MinExists ==
  ASSUME NEW S \in SUBSET Nat, S # {}
  PROVE  Min(S) \in S /\ \A y \in S : Min(S) <= y
BY LeastExists DEF Min

LEMMA MaxExists ==
  ASSUME NEW n \in Nat, NEW S \in SUBSET (0..n), S # {}
  PROVE  Max(S) \in S /\ \A y \in S : y <= Max(S)
<1> DEFINE T == {n - x : x \in S}
<1>1. T \in SUBSET Nat /\ T # {}
  <2>1. \A x \in 0..n : n - x \in Nat
    OBVIOUS
  <2> QED  BY <2>1
<1>2. PICK t \in T : \A u \in T : t <= u
  <2> HIDE DEF T
  <2> QED  BY <1>1, LeastExists
<1>3. PICK x \in S : t = n - x
  OBVIOUS
<1>4. ASSUME NEW y \in S PROVE x >= y
  <2>1. n - x <= n - y
    BY <1>2, <1>3
  <2>2. x \in 0..n /\ y \in 0..n
    OBVIOUS
  <2> QED  BY <2>1, <2>2
<1>5. Max(S) \in S /\ \A y \in S : Max(S) >= y
  BY <1>4 DEF Max
<1>6. S \subseteq Nat
  OBVIOUS
<1>7. ASSUME NEW y \in S PROVE y <= Max(S)
  <2>1. Max(S) >= y /\ Max(S) \in Nat /\ y \in Nat
    BY <1>5, <1>6
  <2> QED  BY <2>1
<1> QED  BY <1>5, <1>7

\* A file without lines has no bytes.
LEMMA NoBytes == Bytes(<<>>) = 0
<1>1. Bytes(<<>>) = MapThenFoldSet(LAMBDA r, n : size[r] + n, 0, LAMBDA i : <<>>[i],
                                   LAMBDA s : CHOOSE x \in s : TRUE, {})
  <2>1. DOMAIN <<>> = {}
    OBVIOUS
  <2> QED  BY <2>1 DEF Bytes, FoldSeq, FoldFunction, FoldFunctionOnSet
<1> QED  BY <1>1 DEF MapThenFoldSet

\* A file of one line has the bytes of its run.
LEMMA OneLine ==
  ASSUME NEW r, size[r] \in Nat
  PROVE  Bytes(<<r>>) = size[r]
<1> DEFINE Pick(s) == CHOOSE x \in s : TRUE
           Sums(f) == [s \in SUBSET {1} |-> IF s = {} THEN 0
                                            ELSE size[<<r>>[Pick(s)]] + f[s \ {Pick(s)}]]
           g == [s \in SUBSET {1} |-> IF s = {} THEN 0 ELSE size[r] + 0]
<1>1. DOMAIN <<r>> = {1} /\ <<r>>[1] = r
  OBVIOUS
<1>2. Bytes(<<r>>) = (CHOOSE f : f = Sums(f))[{1}]
  BY <1>1 DEF Bytes, FoldSeq, FoldFunction, FoldFunctionOnSet, MapThenFoldSet
<1>3. g = Sums(g)
  <2>1. ASSUME NEW s \in SUBSET {1}, s # {} PROVE s = {1} /\ Pick(s) = 1 /\ s \ {Pick(s)} = {}
    BY <2>1
  <2>2. ASSUME NEW s \in SUBSET {1} PROVE g[s] = Sums(g)[s]
    <3>1. CASE s = {}
      BY <3>1
    <3>2. CASE s # {}
      <4>1. Pick(s) = 1 /\ s \ {Pick(s)} = {}
        BY <2>1, <3>2
      <4> HIDE DEF Pick
      <4>2. g[{}] = 0
        OBVIOUS
      <4> QED  BY <1>1, <3>2, <4>1, <4>2
    <3> QED  BY <3>1, <3>2
  <2> QED  BY <2>2
<1> DEFINE h == CHOOSE f : f = Sums(f)
<1>4. h = Sums(h)
  <2>1. \E f : f = Sums(f)
    BY <1>3
  <2> HIDE DEF Sums
  <2> QED  BY <2>1
<1> HIDE DEF h
<1>5. h[{}] = 0
  BY <1>4
<1>6. h[{1}] = size[r] + 0
  <2>1. Pick({1}) = 1 /\ {1} \ {1} = {}
    OBVIOUS
  <2> HIDE DEF Pick
  <2>2. h[{1}] = size[<<r>>[Pick({1})]] + h[{1} \ {Pick({1})}]
    BY <1>4
  <2> QED  BY <1>1, <1>5, <2>1, <2>2
<1> QED  BY <1>2, <1>6 DEF h

\* What the size limit keeps are the newest lines, the last one if it is within the limit.
LEMMA KeptIsEnd ==
  ASSUME NEW S, NEW lines \in Seq(S), NEW n \in Nat, n = Len(lines), n > 0,
         size[lines[n]] \in Nat
  PROVE  /\ Kept(lines) \in Seq(S) /\ IsEnd(Kept(lines), lines)
         /\ size[lines[n]] < MaxFileBytes => Len(Kept(lines)) > 0
<1>1. CASE Bytes(lines) <= MaxFileBytes
  BY <1>1 DEF Kept, IsEnd
<1>2. CASE ~(Bytes(lines) <= MaxFileBytes)
  <2> DEFINE from == {i \in 1..Len(lines) + 1 : Bytes(SubSeq(lines, i, Len(lines))) < MaxFileBytes}
             k == Min(from)
  <2>1. Len(lines) + 1 \in from
    <3>1. SubSeq(lines, Len(lines) + 1, Len(lines)) = <<>>
      OBVIOUS
    <3>2. 0 < MaxFileBytes
      BY TraceAssumption
    <3>3. Bytes(SubSeq(lines, Len(lines) + 1, Len(lines))) < MaxFileBytes
      BY <3>1, <3>2, NoBytes, Zenon
    <3> QED  BY <3>3
  <2>2. from \in SUBSET Nat
    OBVIOUS
  <2>3. k \in from /\ \A i \in from : k <= i
    <3> HIDE DEF from
    <3> QED  BY <2>1, <2>2, MinExists
  <2>4. k \in 1..Len(lines) + 1
    BY <2>3
  <2>5. size[lines[n]] < MaxFileBytes => n \in from
    <3>1. SubSeq(lines, n, n) = <<lines[n]>> /\ n \in 1..Len(lines) + 1
      <4>1. /\ n \in 1..Len(lines) /\ lines[n] \in S /\ SubSeq(lines, n, n) \in Seq(S)
            /\ Len(SubSeq(lines, n, n)) = 1 /\ SubSeq(lines, n, n)[1] = lines[n]
        OBVIOUS
      <4>2. /\ <<lines[n]>> \in Seq(S) /\ Len(<<lines[n]>>) = 1
            /\ <<lines[n]>>[1] = lines[n]
        BY <4>1
      <4>3. \A i \in 1..1 : i = 1
        OBVIOUS
      <4>4. SubSeq(lines, n, n) = <<lines[n]>>
        BY <4>1, <4>2, <4>3, SeqEqual
      <4> QED  BY <4>1, <4>4
    <3>2. Bytes(<<lines[n]>>) = size[lines[n]]
      BY OneLine
    <3>3. Bytes(SubSeq(lines, n, Len(lines))) = size[lines[n]]
      BY <3>1, <3>2, Zenon
    <3> QED  BY <3>1, <3>3
  <2>6. Kept(lines) = SubSeq(lines, k, Len(lines))
    BY <1>2 DEF Kept
  <2>7. size[lines[n]] < MaxFileBytes => k <= n
    BY <2>3, <2>5
  <2> HIDE DEF k
  <2>8. /\ Kept(lines) \in Seq(S) /\ Len(Kept(lines)) = Len(lines) + 1 - k
        /\ \A i \in 1..Len(lines) + 1 - k : Kept(lines)[i] = lines[k + i - 1]
    BY <2>4, <2>6
  <2>9. /\ Len(Kept(lines)) <= Len(lines) /\ k \in Nat
        /\ \A i \in Nat : (Len(lines) - Len(Kept(lines))) + i = k + i - 1
        /\ k <= n => Len(Kept(lines)) > 0
    BY <2>4, <2>8
  <2> QED  BY <2>7, <2>8, <2>9 DEF IsEnd
<1> QED  BY <1>1, <1>2

LEMMA RangeIs ==
  ASSUME NEW S, NEW s \in Seq(S)
  PROVE  /\ Range(s) = {s[i] : i \in 1..Len(s)} /\ Range(s) \subseteq S
         /\ \A x \in Range(s) : \E i \in 1..Len(s) : x = s[i]
         /\ \A i \in 1..Len(s) : s[i] \in Range(s)
BY DEF Range

LEMMA RangeOfEnd ==
  ASSUME NEW S, NEW s \in Seq(S), NEW t \in Seq(S), IsEnd(s, t)
  PROVE  Range(s) \subseteq Range(t)
<1> SUFFICES ASSUME NEW i \in 1..Len(s) PROVE s[i] \in Range(t)
  BY DEF Range
<1>1. (Len(t) - Len(s)) + i \in 1..Len(t) /\ s[i] = t[(Len(t) - Len(s)) + i]
  BY DEF IsEnd
<1> QED  BY <1>1 DEF Range

LEMMA RangeAppended ==
  ASSUME NEW S, NEW s \in Seq(S), NEW x \in S
  PROVE  Append(s, x) \in Seq(S) /\ Range(Append(s, x)) = Range(s) \cup {x}
<1>1. Append(s, x) \in Seq(S) /\ Len(Append(s, x)) = Len(s) + 1
  OBVIOUS
<1>2. \A i \in 1..Len(s) : Append(s, x)[i] = s[i] /\ i \in 1..Len(s) + 1
  OBVIOUS
<1>3. Append(s, x)[Len(s) + 1] = x /\ Len(s) + 1 \in 1..Len(s) + 1
  OBVIOUS
<1>4. \A i \in 1..Len(s) + 1 : i \in 1..Len(s) \/ i = Len(s) + 1
  OBVIOUS
<1>5. DOMAIN s = 1..Len(s) /\ DOMAIN Append(s, x) = 1..Len(s) + 1
  BY <1>1
<1> QED  BY ONLY <1>1, <1>2, <1>3, <1>4, <1>5 DEF Range

-----------------------------------------------------------------------------
(* The rewrites of the file.  Runs up to disturbed may be missing; the     *)
(* others are fresh.                                                       *)

Active(r) == writer[r].pc # "none"
Live(r)   == writer[r].pc = "writing" /\ writer[r].at = "live"
Writers == [pc : {"none", "read", "write", "writing"}, lines : Seq(Runs),
            at : {"live", "archive"}]

(* A run that no thread has opened the file for.                           *)
Unopened(r) == r > runs \/ (r = run /\ ~saving) \/ writer[r].pc = "read"

(* A run is written once, by a thread that started when it was closed.     *)
(* Threads that overlap have disturbed each other, so that a thread is     *)
(* ahead of every fresh run that was written.                              *)
WriterInv ==
  /\ writer \in [Runs -> Writers] /\ written \in Seq(Runs) /\ disturbed \in 0..MaxRuns
  /\ size \in [Runs -> Nat] /\ runs \in 0..MaxRuns
  /\ run # 0 => run = runs
  /\ \A r \in Range(written) : r <= runs
  /\ run # 0 /\ ~saving => run \notin Range(written) /\ ~Active(run)
  /\ \A r \in Runs :
       /\ writer[r].at = "archive" => writer[r].pc = "writing" /\ r <= disturbed
       /\ Active(r) => /\ r <= runs /\ r \notin Range(written)
                       /\ \A k \in Range(written) : k > disturbed => k < r
  /\ \A r, q \in Runs : Active(r) /\ Active(q) /\ r # q => r <= disturbed

(* What a file of these lines must be when these runs are written, a fault *)
(* may have cost those up to d, the size limit dropped some, of sizes z.   *)
GoodFile(s, done, d, dropped, z) ==
  /\ \A k \in done : k > d => k \in Range(s) \cup dropped
  /\ \A k \in Range(s) : k > d => k \in done
  /\ \A i, j \in 1..Len(s) : i < j /\ s[i] > d => s[i] < s[j]
  /\ \A a, b \in done : d < a /\ a < b /\ a \in Range(s) => b \in Range(s)
  /\ \A a \in done : d < a /\ (\A b \in done : b <= a)
                       => a \in Range(s) \/ z[a] >= MaxFileBytes
Good(s, done) == GoodFile(s, done, disturbed, cut, size)

FileInv ==
  /\ file.lines \in Seq(Runs)
  /\ (\A r \in Runs : ~Live(r)) => Good(file.lines, Range(written))
  /\ \A k \in Range(file.lines) :
       k > disturbed => k \in Range(written) \/ writer[k].pc = "writing"
  /\ \A r \in Runs : writer[r].pc \in {"write", "writing"}
                       => Good(writer[r].lines, Range(written) \cup {r})
  /\ \A r \in Runs : Unopened(r) => /\ r \notin Range(file.lines)
                                    /\ \A q \in Runs : r \notin Range(writer[q].lines)

StoreInv == WriterInv /\ FileInv

-----------------------------------------------------------------------------
LEMMA NoLines == ASSUME NEW S, NEW s, s = <<>> PROVE s \in Seq(S) /\ Range(s) = {} /\ Len(s) = 0
<1>1. s \in Seq(S) /\ DOMAIN s = {}
  OBVIOUS
<1> QED  BY <1>1 DEF Range

LEMMA Idle ==
  /\ NoWriter \in Writers /\ NoWriter.pc = "none" /\ NoWriter.at = "live"
  /\ Range(NoWriter.lines) = {}
<1>1. <<>> \in Seq(Runs)
  OBVIOUS
<1>2. NoWriter.lines = <<>>
  BY DEF NoWriter
<1>3. Range(NoWriter.lines) = {}
  BY <1>2, NoLines
<1> QED  BY <1>1, <1>3 DEF NoWriter, Writers

\* Where nothing is fresh, nothing is asked.
LEMMA NothingFresh ==
  ASSUME NEW s \in Seq(Runs), NEW done \in SUBSET Runs, NEW d \in Nat, NEW dropped, NEW z,
         \A k \in done : ~(k > d), \A k \in Range(s) : ~(k > d)
  PROVE  GoodFile(s, done, d, dropped, z)
<1>1. \A k \in done : k \in Nat
  BY DEF Runs
<1>2. \A a \in done : ~(d < a)
  BY <1>1
<1>3. \A i \in 1..Len(s) : ~(s[i] > d)
  BY RangeIs
<1> QED  BY <1>2, <1>3 DEF GoodFile

\* A run that a fault may have cost changes nothing for the others when it is written.
LEMMA OldOneMore ==
  ASSUME NEW s \in Seq(Runs), NEW done \in SUBSET Runs, NEW d \in Nat, NEW dropped, NEW z,
         NEW r \in Runs, r <= d, GoodFile(s, done, d, dropped, z)
  PROVE  GoodFile(s, done \cup {r}, d, dropped, z)
<1>1. ~(r > d) /\ \A b \in done \cup {r} : b \in Nat
  BY DEF Runs
<1>2. \A a, b \in done \cup {r} : d < a /\ a < b => a \in done /\ b \in done
  BY <1>1
<1>3. \A k \in done \cup {r} : k > d => k \in done
  BY <1>1
<1>4. \A a \in done \cup {r} : d < a => a \in done
  BY <1>1
<1> QED  BY <1>2, <1>3, <1>4 DEF GoodFile

\* A fault, a line that is dropped, the size of another run: all that was good stays so.
LEMMA GoodStays ==
  ASSUME NEW s \in Seq(Runs), NEW done \in SUBSET Runs, NEW d \in Nat, NEW e \in Nat,
         NEW c1, NEW c2, NEW z1, NEW z2,
         GoodFile(s, done, d, c1, z1), d <= e, c1 \subseteq c2, \A k \in done : z2[k] = z1[k]
  PROVE  GoodFile(s, done, e, c2, z2)
<1>1. \A k \in Runs : (k > e => k > d) /\ (e < k => d < k)
  BY DEF Runs
<1>2. Range(s) \subseteq Runs /\ \A i \in 1..Len(s) : s[i] \in Runs
  BY RangeIs
<1>4. \A k \in done : k > e => k \in Range(s) \cup c2
  BY <1>1 DEF GoodFile
<1>5. \A k \in Range(s) : k > e => k \in done
  BY <1>1, <1>2 DEF GoodFile
<1>6. \A i, j \in 1..Len(s) : i < j /\ s[i] > e => s[i] < s[j]
  BY <1>1, <1>2 DEF GoodFile
<1>7. \A a, b \in done : e < a /\ a < b /\ a \in Range(s) => b \in Range(s)
  BY <1>1 DEF GoodFile
<1>8. \A a \in done : e < a /\ (\A b \in done : b <= a)
                        => a \in Range(s) \/ z2[a] >= MaxFileBytes
  BY <1>1 DEF GoodFile
<1> QED  BY <1>4, <1>5, <1>6, <1>7, <1>8 DEF GoodFile

\* A fault raises disturbed to the newest of its runs.
LEMMA Raised ==
  ASSUME disturbed \in 0..MaxRuns, NEW rs \in SUBSET (0..MaxRuns), Disturb(rs)
  PROVE  /\ disturbed' \in 0..MaxRuns /\ disturbed <= disturbed'
         /\ \A r \in rs : r <= disturbed'
         /\ rs = {} => disturbed' = disturbed
<1> DEFINE S == rs \cup {disturbed}
<1>1. MaxRuns \in Nat
  BY TraceAssumption
<1>2. S \in SUBSET (0..MaxRuns) /\ S # {} /\ disturbed \in S /\ rs \subseteq S
  OBVIOUS
<1>3. disturbed' = Max(S)
  BY DEF Disturb
<1>4. rs = {} => S = {disturbed}
  OBVIOUS
<1> HIDE DEF S
<1>5. Max(S) \in S /\ \A y \in S : y <= Max(S)
  BY <1>1, <1>2, MaxExists
<1>6. rs = {} => disturbed' = disturbed
  BY <1>3, <1>4, <1>5
<1>7. disturbed' \in S /\ \A y \in S : y <= disturbed'
  BY <1>3, <1>5
<1> QED  BY <1>2, <1>6, <1>7

LEMMA StoreInit == Init => StoreInv
<1> SUFFICES ASSUME Init PROVE StoreInv
  OBVIOUS
<1>1. /\ file.lines = <<>> /\ written = <<>> /\ run = 0 /\ runs = 0 /\ disturbed = 0
      /\ MaxRuns \in Nat
  BY TraceAssumption DEF Init, NoFile
<1>2. \A r \in Runs : writer[r] = NoWriter /\ ~Active(r) /\ ~Live(r)
  BY Idle DEF Init, Active, Live
<1>3. writer \in [Runs -> Writers] /\ size \in [Runs -> Nat]
  BY Idle DEF Init
<1>4. /\ file.lines \in Seq(Runs) /\ written \in Seq(Runs)
      /\ Range(file.lines) = {} /\ Range(written) = {} /\ Len(file.lines) = 0
  BY <1>1, NoLines
<1>5. WriterInv
  BY <1>1, <1>2, <1>3, <1>4, Idle DEF WriterInv
<1>6. Good(file.lines, Range(written))
  <2>1. \A i \in 1..Len(file.lines) : FALSE
    BY <1>4
  <2> QED  BY <1>4, <2>1 DEF Good, GoodFile
<1>7. FileInv
  BY <1>2, <1>4, <1>6, Idle DEF FileInv
<1> QED  BY <1>5, <1>7 DEF StoreInv

-----------------------------------------------------------------------------
\* A fresh run, newer than all that was written, is appended, and the size limit keeps
\* the end of it.
LEMMA NewestGoesLast ==
  ASSUME NEW s \in Seq(Runs), NEW done \in SUBSET Runs, NEW r \in Runs,
         NEW kept \in Seq(Runs), NEW d \in Nat, NEW dropped, NEW z,
         GoodFile(s, done, d, dropped, z), r > d, r \notin done, r \notin Range(s),
         \A k \in done : k > d => k < r,
         IsEnd(kept, Append(s, r)), z[r] < MaxFileBytes => Len(kept) > 0,
         z[r] \in Nat,
         Range(Append(s, r)) \ Range(kept) \subseteq dropped
  PROVE  GoodFile(kept, done \cup {r}, d, dropped, z)
<1> DEFINE t == Append(s, r)  n == Len(s)  m == Len(t) - Len(kept)
<1>1. t \in Seq(Runs) /\ Range(t) = Range(s) \cup {r} /\ Range(kept) \subseteq Range(t)
  <2>1. t \in Seq(Runs) /\ Range(t) = Range(s) \cup {r}
    BY RangeAppended
  <2> QED  BY <2>1, RangeOfEnd
<1>2. /\ n \in Nat /\ Len(t) = n + 1 /\ t[n + 1] = r /\ \A i \in 1..n : t[i] = s[i]
  <2>1. s \in Seq(Runs) /\ r \in Runs
    OBVIOUS
  <2> QED  BY ONLY <2>1
<1>3. /\ Len(kept) \in Nat /\ Len(kept) <= n + 1 /\ m \in Nat /\ m = n + 1 - Len(kept)
      /\ \A i \in 1..Len(kept) : kept[i] = t[m + i] /\ m + i \in 1..n + 1
  <2>1. Len(kept) \in Nat /\ Len(kept) <= Len(t) /\ \A i \in 1..Len(kept) : kept[i] = t[m + i]
    <3>1. Len(kept) \in Nat
      OBVIOUS
    <3> QED  BY <3>1, Zenon DEF IsEnd
  <2>2. m = Len(t) - Len(kept)
    OBVIOUS
  <2> HIDE DEF t, m, n
  <2> QED  BY ONLY <1>2, <2>1, <2>2
<1>4. /\ \A k \in done : k > d => k \in Range(s) \cup dropped
      /\ \A k \in Range(s) : k > d => k \in done
      /\ \A i, j \in 1..Len(s) : i < j /\ s[i] > d => s[i] < s[j]
      /\ \A a, b \in done : d < a /\ a < b /\ a \in Range(s) => b \in Range(s)
  BY DEF GoodFile
<1>5. \A x \in Runs : x \in Nat
  BY DEF Runs
<1>6. \A i \in 1..n + 1 : t[i] \in Runs
  BY <1>1, <1>2
<1> HIDE DEF t, n, m
<1>7. d \in Nat /\ r > d /\ \A k \in done : k > d => k < r
  OBVIOUS
\* t is sorted where it is fresh.
<1>8. ASSUME NEW i \in 1..n + 1, NEW j \in 1..n + 1, i < j, t[i] > d PROVE t[i] < t[j]
  <2>1. i \in 1..n /\ t[i] = s[i] /\ s[i] \in Range(s)
    BY <1>2, <1>8, RangeIs DEF n
  <2>2. CASE j \in 1..n
    BY <1>2, <1>4, <1>8, <2>1, <2>2 DEF n
  <2>3. CASE j = n + 1
    <3>1. s[i] \in done
      BY <1>4, <1>8, <2>1
    <3> QED  BY <1>2, <1>7, <1>8, <2>1, <2>3, <3>1
  <2> QED  BY <1>2, <2>2, <2>3
<1>9. Len(kept) > 0 => r \in Range(kept)
  <2> SUFFICES ASSUME Len(kept) > 0 PROVE r \in Range(kept)
    OBVIOUS
  <2>1. Len(kept) \in 1..Len(kept) /\ m + Len(kept) = n + 1
    BY <1>2, <1>3
  <2>2. kept[Len(kept)] = r
    BY <1>2, <1>3, <2>1
  <2> QED  BY <2>1, <2>2, RangeIs
<1>10. \A k \in Range(kept) : Len(kept) > 0
  <2>1. \A k \in Range(kept) : \E i \in 1..Len(kept) : k = kept[i]
    BY RangeIs
  <2>2. \A i \in 1..Len(kept) : Len(kept) > 0
    BY <1>3
  <2> QED  BY <2>1, <2>2
<1>11. \A k \in done \cup {r} : k > d => k \in Range(kept) \cup dropped
  BY <1>1, <1>4 DEF t
<1>12. \A k \in Range(kept) : k > d => k \in done \cup {r}
  BY <1>1, <1>4
<1>13. ASSUME NEW i \in 1..Len(kept), NEW j \in 1..Len(kept), i < j, kept[i] > d
       PROVE  kept[i] < kept[j]
  <2>1. kept[i] = t[m + i] /\ kept[j] = t[m + j] /\ m + i \in 1..n + 1 /\ m + j \in 1..n + 1
    BY <1>3
  <2>2. m + i < m + j
    BY <1>3, <1>13
  <2>3. t[m + i] < t[m + j]
    <3> DEFINE p == m + i  q == m + j
    <3>1. p \in 1..n + 1 /\ q \in 1..n + 1 /\ p < q /\ t[p] > d
      BY <1>13, <2>1, <2>2
    <3> HIDE DEF p, q
    <3>2. t[p] < t[q]
      BY <1>8, <3>1
    <3> QED  BY <3>2 DEF p, q
  <2> QED  BY <2>1, <2>3
<1>14. ASSUME NEW a \in done \cup {r}, NEW b \in done \cup {r}, d < a, a < b, a \in Range(kept)
       PROVE  b \in Range(kept)
  <2>1. a \in Nat /\ b \in Nat /\ r \in Nat
    BY <1>5
  <2>2. CASE b = r
    BY <1>9, <1>10, <1>14, <2>2
  <2>3. CASE b \in done
    <3>1. b < r /\ a # r /\ a \in done
      BY <1>7, <1>14, <2>1, <2>3
    <3>2. a \in Range(s)
      BY <1>1, <1>14, <3>1
    <3>3. b \in Range(s)
      BY <1>4, <1>14, <2>3, <3>1, <3>2
    <3>4. PICK j \in 1..n : b = s[j]
      BY <3>3, RangeIs DEF n
    <3>5. PICK i \in 1..Len(kept) : a = kept[i]
      BY <1>14, RangeIs
    <3>6. j \in 1..n + 1 /\ b = t[j] /\ a = t[m + i] /\ m + i \in 1..n + 1
      BY <1>2, <1>3, <3>4, <3>5
    <3>7. ~(j < m + i)
      <4> DEFINE p == m + i
      <4>1. p \in 1..n + 1 /\ a = t[p]
        BY <3>6
      <4> HIDE DEF p
      <4>2. ~(j < p)
        BY <1>8, <1>14, <2>1, <3>6, <4>1, <1>7
      <4> QED  BY <4>2 DEF p
    <3>8. j - m \in 1..Len(kept) /\ m + (j - m) = j
      BY <1>2, <1>3, <3>4, <3>7
    <3>9. kept[j - m] = b
      BY <1>3, <3>6, <3>8
    <3> QED  BY <3>8, <3>9, RangeIs
  <2> QED  BY <2>2, <2>3
<1>15. ASSUME NEW a \in done \cup {r}, d < a, \A b \in done \cup {r} : b <= a
       PROVE  a \in Range(kept) \/ z[a] >= MaxFileBytes
  <2>1. a = r
    <3>1. a \in Nat /\ r \in Nat /\ r <= a
      BY <1>5, <1>15
    <3> QED  BY <1>7, <1>15, <3>1
  <2>2. MaxFileBytes \in Nat
    BY TraceAssumption
  <2> QED  BY <1>9, <2>1, <2>2
<1> QED  BY <1>11, <1>12, <1>13, <1>14, <1>15 DEF GoodFile

-----------------------------------------------------------------------------
(* The steps.  In each, what a fault does not touch is as good as it was.  *)

LEMMA Types ==
  ASSUME WriterInv
  PROVE  /\ disturbed \in Nat /\ runs \in Nat /\ Range(written) \subseteq Runs
         /\ \A r \in Runs : r \in Nat /\ r # 0
         /\ \A r \in Runs : writer[r] \in Writers /\ writer[r].lines \in Seq(Runs)
                            /\ Range(writer[r].lines) \subseteq Runs
<1>1. disturbed \in Nat /\ runs \in Nat /\ \A r \in Runs : r \in Nat /\ r # 0
  BY TraceAssumption DEF WriterInv, Runs
<1>2. Range(written) \subseteq Runs
  BY RangeIs DEF WriterInv
<1>3. \A r \in Runs : writer[r] \in Writers /\ writer[r].lines \in Seq(Runs)
  BY DEF WriterInv, Writers
<1>4. \A r \in Runs : Range(writer[r].lines) \subseteq Runs
  BY <1>3, RangeIs
<1> QED  BY <1>1, <1>2, <1>3, <1>4

\* The collector begins runs, and forgets what is saved.
LEMMA CollectStep ==
  ASSUME StoreInv, UNCHANGED storeVars, runs' \in 0..MaxRuns, runs <= runs',
         run' # 0 => run' = runs',
         run' # 0 /\ ~saving' => (run' = run /\ ~saving) \/ run' > runs
  PROVE  StoreInv'
<1> USE DEF StoreInv
<1>1. /\ UNCHANGED <<size, writer, file, written, cut, disturbed>>
      /\ Range(written)' = Range(written) /\ Range(file.lines)' = Range(file.lines)
      /\ \A r \in Runs : (Range(writer[r].lines))' = Range(writer[r].lines)
  BY DEF storeVars, Range
<1>2. /\ \A r \in Runs : r \in Nat /\ r # 0
      /\ runs \in Nat /\ runs' \in Nat
  BY Types DEF Runs
<1>3. \A r \in Runs : (Active(r)' <=> Active(r)) /\ (Live(r)' <=> Live(r))
  BY <1>1 DEF Active, Live
<1>4. \A r \in Runs : Unopened(r)' => Unopened(r)
  BY <1>1, <1>2 DEF Unopened
<1>5. run' # 0 /\ ~saving' => run' \notin Range(written) /\ (run' \in Runs => ~Active(run'))
  BY <1>2 DEF WriterInv
<1>6. run' # 0 => run' \in Runs
  BY <1>2 DEF Runs
<1>7. \A r \in Range(written) : r <= runs'
  BY <1>2, Types DEF WriterInv
<1>8. \A r \in Runs : Active(r) => r <= runs'
  BY <1>2 DEF WriterInv
<1>9. run' # 0 /\ ~saving' => ~(Active(run))'
  BY <1>1, <1>5, <1>6 DEF Active
<1>10. WriterInv'
  BY <1>1, <1>3, <1>5, <1>6, <1>7, <1>8, <1>9 DEF WriterInv
<1>11. FileInv'
  BY <1>1, <1>3, <1>4 DEF FileInv, Good
<1> QED  BY <1>10, <1>11

\* A run is closed: its thread starts, and if another is at work they may disturb each
\* other.
LEMMA CloseStep ==
  ASSUME StoreInv, IInv, IInv', NEW st \in Statuses, CloseRun(st)
  PROVE  StoreInv'
<1> USE DEF StoreInv
<1>1. /\ run \in Runs /\ run = runs /\ ~saving /\ ~Active(run) /\ run \notin Range(written)
      /\ runs' = runs /\ run' = run /\ saving' = TRUE
      /\ UNCHANGED <<file, written, cut>>
  <2>1. run # 0 /\ run \in 0..MaxRuns => run \in Runs
    BY TraceAssumption DEF Runs
  <2> QED  BY <2>1 DEF CloseRun, WriterInv, IInv, RunInv
<1>2. /\ \A r \in Runs : r \in Nat /\ r # 0
      /\ runs \in Nat /\ disturbed \in Nat /\ disturbed \in 0..MaxRuns
      /\ Range(written) \subseteq Runs
      /\ \A r \in Runs : Range(writer[r].lines) \subseteq Runs
      /\ \A r \in Runs : writer[r].lines \in Seq(Runs)
  BY Types DEF WriterInv
<1>3. /\ Range(written)' = Range(written) /\ Range(file.lines)' = Range(file.lines)
  BY <1>1 DEF Range
<1>4. /\ disturbed' \in 0..MaxRuns /\ disturbed <= disturbed'
      /\ \A r \in Runs : Active(r) => run <= disturbed'
  <2> DEFINE rs == IF \E r \in Runs : writer[r].pc # "none" THEN {run} ELSE {}
  <2>1. rs \in SUBSET (0..MaxRuns) /\ Disturb(rs)
    BY <1>1 DEF CloseRun, Runs
  <2>2. \A r \in Runs : Active(r) => run \in rs
    BY DEF Active
  <2> HIDE DEF rs
  <2>3. /\ disturbed' \in 0..MaxRuns /\ disturbed <= disturbed'
        /\ \A r \in rs : r <= disturbed'
    BY <1>2, <2>1, Raised
  <2> QED  BY <2>2, <2>3
<1>5. disturbed' \in Nat
  BY <1>4
<1>6. /\ writer' = [writer EXCEPT ![run].pc = "read"]
      /\ size' = [size EXCEPT ![run] = Len(spans')]
  BY DEF CloseRun
<1>7. /\ writer'[run].pc = "read" /\ writer'[run].at = writer[run].at
      /\ writer'[run].lines = writer[run].lines /\ writer'[run] \in Writers
      /\ writer[run].at # "archive" /\ writer[run].pc = "none"
  BY <1>1, <1>6 DEF WriterInv, Writers, Active
<1>8. \A r \in Runs : r # run => writer'[r] = writer[r]
  BY <1>1, <1>6 DEF WriterInv
<1>9. writer' \in [Runs -> Writers]
  BY <1>1, <1>6, <1>7, <1>8 DEF WriterInv
<1>10. size' \in [Runs -> Nat] /\ \A r \in Runs : r # run => size'[r] = size[r]
  <2>1. Len(spans') \in Nat
    BY DEF IInv, RunInv
  <2> QED  BY <1>1, <1>6, <2>1 DEF WriterInv
<1>11. /\ \A r \in Runs : Active(r)' <=> (Active(r) \/ r = run)
       /\ \A r \in Runs : Live(r)' <=> Live(r)
       /\ \A r \in Runs : (Range(writer[r].lines))' = Range(writer[r].lines)
  BY <1>7, <1>8 DEF Active, Live, Range
<1>12. \A r, q \in Runs : Active(r)' /\ Active(q)' /\ r # q => r <= disturbed'
  <2> SUFFICES ASSUME NEW r \in Runs, NEW q \in Runs, Active(r)', Active(q)', r # q
               PROVE  r <= disturbed'
    OBVIOUS
  <2>1. CASE r # run /\ q # run
    <3>1. r <= disturbed
      BY <1>11, <2>1 DEF WriterInv
    <3> QED  BY <1>2, <1>4, <1>5, <3>1
  <2>2. CASE r = run \/ q = run
    <3>1. run <= disturbed' /\ r <= run
      <4>1. Active(r) \/ Active(q)
        BY <1>11, <2>2
      <4>2. Active(r) => r <= run
        BY <1>1 DEF WriterInv
      <4> QED  BY <1>1, <1>2, <1>4, <1>11, <4>1, <4>2
    <3> QED  BY <1>1, <1>2, <1>5, <3>1
  <2> QED  BY <2>1, <2>2
<1>13. \A k \in Runs : k > disturbed' => k > disturbed
  BY <1>2, <1>4, <1>5
<1>14. ASSUME NEW r \in Runs, Active(r)'
       PROVE  /\ r <= runs /\ r \notin Range(written)
              /\ \A k \in Range(written) : k > disturbed' => k < r
  <2>1. CASE r = run
    <3>1. \A k \in Range(written) : k <= run /\ k # run
      BY <1>1 DEF WriterInv
    <3> QED  BY <1>1, <1>2, <2>1, <3>1
  <2>2. CASE r # run
    <3>1. Active(r)
      BY <1>11, <1>14, <2>2
    <3> QED  BY <1>2, <1>13, <3>1 DEF WriterInv
  <2> QED  BY <2>1, <2>2
<1>15. ASSUME NEW r \in Runs, writer'[r].at = "archive"
       PROVE  writer'[r].pc = "writing" /\ r <= disturbed'
  <2>1. r # run /\ writer[r].at = "archive"
    BY <1>7, <1>8, <1>15
  <2>2. writer[r].pc = "writing" /\ r <= disturbed
    BY <2>1 DEF WriterInv
  <2> QED  BY <1>2, <1>4, <1>5, <1>8, <2>1, <2>2
<1>16. WriterInv'
  <2>1. /\ written' \in Seq(Runs) /\ runs' \in 0..MaxRuns /\ (run' # 0 => run' = runs')
        /\ \A r \in Range(written) : r <= runs'
    BY <1>1 DEF WriterInv
  <2> QED  BY <1>1, <1>3, <1>4, <1>9, <1>10, <1>12, <1>14, <1>15, <2>1 DEF WriterInv
<1>17. ASSUME NEW s \in Seq(Runs), NEW done \in SUBSET Runs, run \notin done, Good(s, done)
       PROVE  GoodFile(s, done, disturbed', cut', size')
  <2>1. \A k \in done : size'[k] = size[k]
    BY <1>10, <1>17
  <2> QED  BY <1>1, <1>2, <1>4, <1>5, <1>17, <2>1, GoodStays DEF Good
<1>18. \A r \in Runs : Unopened(r)' => Unopened(r)
  BY <1>1, <1>8 DEF Unopened
<1>19. (\A r \in Runs : ~Live(r))' => (Good(file.lines, Range(written)))'
  <2>1. file.lines \in Seq(Runs)
    BY DEF FileInv
  <2>2. (\A r \in Runs : ~Live(r)) => GoodFile(file.lines, Range(written), disturbed', cut', size')
    BY <1>1, <1>2, <1>17, <2>1 DEF FileInv
  <2> QED  BY <1>1, <1>3, <1>11, <2>2 DEF Good
<1>20. ASSUME NEW r \in Runs, writer'[r].pc \in {"write", "writing"}
       PROVE  (Good(writer[r].lines, Range(written) \cup {r}))'
  <2>1. r # run
    BY <1>7, <1>20
  <2>2. Good(writer[r].lines, Range(written) \cup {r})
    BY <1>8, <1>20, <2>1 DEF FileInv
  <2>3. /\ writer[r].lines \in Seq(Runs) /\ Range(written) \cup {r} \in SUBSET Runs
        /\ run \notin Range(written) \cup {r}
    BY <1>1, <1>2, <2>1
  <2>4. GoodFile(writer[r].lines, Range(written) \cup {r}, disturbed', cut', size')
    BY <1>17, <2>2, <2>3
  <2> QED  BY <1>3, <1>8, <2>1, <2>4 DEF Good
<1>21. /\ \A k \in Range(file.lines) :
            k > disturbed' => k \in Range(written) \/ writer'[k].pc = "writing"
       /\ file'.lines \in Seq(Runs)
  <2>1. \A k \in Range(file.lines) : k \in Runs
    BY RangeIs DEF FileInv
  <2> QED  BY <1>1, <1>7, <1>8, <1>13, <2>1 DEF FileInv
<1>22. \A r \in Runs : Unopened(r) => /\ r \notin Range(file.lines)
                                      /\ \A q \in Runs : r \notin Range(writer[q].lines)
  BY DEF FileInv
<1>23. FileInv'
  BY <1>1, <1>3, <1>11, <1>18, <1>19, <1>20, <1>21, <1>22 DEF FileInv
<1> QED  BY <1>16, <1>23

\* A thread has read the file, or taken it to be empty: it goes on with these lines.
LEMMA RewriteStep ==
  ASSUME StoreInv, NEW r \in Runs, writer[r].pc = "read",
         NEW lines \in Seq(Runs), Rewrite(r, lines),
         NEW all, all = Append(Without(lines, r), r), all \in Seq(Runs),
         Range(all) \subseteq Range(file.lines) \cup {r},
         disturbed' \in 0..MaxRuns, disturbed <= disturbed',
         UNCHANGED <<run, runs, saving, size, file, written>>,
         GoodFile(Kept(all), Range(written) \cup {r}, disturbed', cut', size)
  PROVE  StoreInv'
<1> USE DEF StoreInv
<1>1. /\ \A q \in Runs : q \in Nat /\ q # 0
      /\ disturbed \in Nat /\ disturbed' \in Nat /\ Range(written) \subseteq Runs
      /\ \A q \in Runs : writer[q].lines \in Seq(Runs)
      /\ cut \subseteq cut'
  BY Types DEF Rewrite, Runs
<1>2. Kept(all) \in Seq(Runs) /\ Range(Kept(all)) \subseteq Range(file.lines) \cup {r}
  <2>1. /\ Len(all) \in Nat /\ Len(all) > 0 /\ all[Len(all)] = r
    <3>1. Without(lines, r) \in Seq(Runs)
      BY DEF Without
    <3> QED  BY <3>1
  <2>2. size[r] \in Nat
    BY DEF WriterInv
  <2>3. Kept(all) \in Seq(Runs) /\ IsEnd(Kept(all), all)
    BY <2>1, <2>2, KeptIsEnd
  <2> QED  BY <2>3, RangeOfEnd
<1>3. /\ Range(written)' = Range(written) /\ Range(file.lines)' = Range(file.lines)
  BY DEF Range
<1>4. /\ \A q \in Runs : q # r => writer'[q] = writer[q]
      /\ writer'[r].pc = "write" /\ writer'[r].lines = Kept(all) /\ writer'[r].at = "live"
      /\ writer' \in [Runs -> Writers]
  <2> DEFINE x == [pc |-> "write", lines |-> Kept(all), at |-> "live"]
  <2>1. x \in Writers /\ x.pc = "write" /\ x.lines = Kept(all) /\ x.at = "live"
    BY <1>2 DEF Writers
  <2>2. writer' = [writer EXCEPT ![r] = x]
    BY DEF Rewrite
  <2> HIDE DEF x
  <2> QED  BY <2>1, <2>2 DEF WriterInv
<1>5. /\ \A q \in Runs : Active(q)' <=> Active(q)
      /\ \A q \in Runs : Live(q)' <=> Live(q)
      /\ Active(r)
  BY <1>4 DEF Active, Live
<1>6. \A k \in Runs : /\ k > disturbed' => k > disturbed
                      /\ k <= disturbed => k <= disturbed'
  BY <1>1
<1>7. WriterInv'
  <2>1. ASSUME NEW q \in Runs, Active(q)
        PROVE  /\ q <= runs /\ q \notin Range(written)
               /\ \A k \in Range(written) : k > disturbed' => k < q
    BY <1>1, <1>6, <2>1 DEF WriterInv
  <2>2. \A q \in Runs : writer'[q].at = "archive" => writer'[q].pc = "writing" /\ q <= disturbed'
    BY <1>4, <1>6 DEF WriterInv
  <2>3. \A p, q \in Runs : Active(p) /\ Active(q) /\ p # q => p <= disturbed'
    BY <1>6 DEF WriterInv
  <2>4. (run # 0 /\ ~saving => ~Active(run))'
    <3>1. run # 0 /\ ~saving => run # r /\ ~Active(run)
      BY <1>5 DEF WriterInv
    <3>2. run # 0 /\ ~saving => run \in Runs
      BY DEF WriterInv, Runs
    <3> QED  BY <1>4, <3>1, <3>2 DEF Active
  <2>5. /\ written' \in Seq(Runs) /\ size' \in [Runs -> Nat] /\ runs' \in 0..MaxRuns
        /\ (run' # 0 => run' = runs') /\ \A k \in Range(written) : k <= runs'
        /\ (run' # 0 /\ ~saving' => run' \notin Range(written))
    BY DEF WriterInv
  <2> QED  BY <1>3, <1>4, <1>5, <2>1, <2>2, <2>3, <2>4, <2>5 DEF WriterInv
<1>8. ASSUME NEW s \in Seq(Runs), NEW done \in SUBSET Runs, Good(s, done)
      PROVE  GoodFile(s, done, disturbed', cut', size')
  BY <1>1, <1>8, GoodStays DEF Good
<1>9. \A q \in Runs : Unopened(q)' => Unopened(q) /\ q # r
  <2>1. r <= runs /\ ~(r = run /\ ~saving) /\ runs \in Nat
    <3>1. r # 0 /\ r <= runs /\ runs \in Nat /\ (r = run /\ ~saving => ~Active(r))
      BY <1>1, <1>5 DEF WriterInv
    <3> QED  BY <1>5, <3>1
  <2> QED  BY <1>1, <1>4, <2>1 DEF Unopened
<1>10. (\A q \in Runs : ~Live(q))' => (Good(file.lines, Range(written)))'
  <2>1. (\A q \in Runs : ~Live(q)) => GoodFile(file.lines, Range(written), disturbed', cut', size')
    BY <1>1, <1>8 DEF FileInv
  <2> QED  BY <1>3, <1>5, <2>1 DEF Good
<1>11. ASSUME NEW q \in Runs, writer'[q].pc \in {"write", "writing"}
       PROVE  (Good(writer[q].lines, Range(written) \cup {q}))'
  <2>1. CASE q = r
    BY <1>3, <1>4, <2>1 DEF Good
  <2>2. CASE q # r
    <3>1. Good(writer[q].lines, Range(written) \cup {q})
      BY <1>4, <1>11, <2>2 DEF FileInv
    <3>2. GoodFile(writer[q].lines, Range(written) \cup {q}, disturbed', cut', size')
      BY <1>1, <1>8, <3>1
    <3> QED  BY <1>3, <1>4, <2>2, <3>2 DEF Good
  <2> QED  BY <2>1, <2>2
<1>12. \A k \in Range(file.lines) :
         k > disturbed' => k \in Range(written) \/ writer'[k].pc = "writing"
  <2>1. \A k \in Range(file.lines) : k \in Runs
    BY RangeIs DEF FileInv
  <2> QED  BY <1>4, <1>6, <2>1 DEF FileInv
<1>13. ASSUME NEW q \in Runs, Unopened(q), q # r
       PROVE  /\ q \notin Range(file.lines)
              /\ \A p \in Runs : q \notin (Range(writer[p].lines))'
  <2>1. q \notin Range(file.lines) /\ \A p \in Runs : q \notin Range(writer[p].lines)
    BY <1>13 DEF FileInv
  <2>2. ASSUME NEW p \in Runs PROVE q \notin (Range(writer[p].lines))'
    <3>1. CASE p = r
      BY <1>2, <1>4, <1>13, <2>1, <3>1
    <3>2. CASE p # r
      BY <1>4, <2>1, <3>2
    <3> QED  BY <3>1, <3>2
  <2> QED  BY <2>1, <2>2
<1>14. file'.lines \in Seq(Runs)
  BY DEF FileInv
<1>15. FileInv'
  BY <1>3, <1>9, <1>10, <1>11, <1>12, <1>13, <1>14 DEF FileInv
<1> QED  BY <1>7, <1>15

LEMMA ReadStep ==
  ASSUME StoreInv, NEW r \in Runs, ReadFile(r)
  PROVE  StoreInv'
<1>1. /\ writer[r].pc = "read" /\ Rewrite(r, file.lines)
      /\ UNCHANGED <<run, runs, saving, size, file, written, disturbed>>
  BY DEF ReadFile, collectorVars
<1>2. /\ disturbed \in 0..MaxRuns /\ disturbed \in Nat /\ Range(written) \subseteq Runs
      /\ \A q \in Runs : q \in Nat /\ q # 0
      /\ file.lines \in Seq(Runs) /\ size[r] \in Nat
  BY Types DEF StoreInv, WriterInv, FileInv
<1>3. r \notin Range(file.lines) /\ Without(file.lines, r) = file.lines
  BY <1>1 DEF StoreInv, FileInv, Unopened, Without
<1>4. Active(r) /\ r \notin Range(written) /\ \A k \in Range(written) : k > disturbed => k < r
  <2>1. Active(r)
    BY <1>1 DEF Active
  <2> QED  BY <2>1 DEF StoreInv, WriterInv
<1> DEFINE all == Append(file.lines, r)
<1>5. all \in Seq(Runs) /\ Range(all) = Range(file.lines) \cup {r}
  BY <1>2, RangeAppended
<1>6. Len(all) \in Nat /\ Len(all) > 0 /\ all[Len(all)] = r
  BY <1>2
<1>7. /\ Kept(all) \in Seq(Runs) /\ IsEnd(Kept(all), all)
      /\ size[r] < MaxFileBytes => Len(Kept(all)) > 0
  <2> HIDE DEF all
  <2> QED  BY <1>2, <1>5, <1>6, KeptIsEnd
<1>8. Range(Kept(all)) \subseteq Range(all)
  <2> HIDE DEF all
  <2> QED  BY <1>5, <1>7, RangeOfEnd
<1>9. cut' = cut \cup (Range(all) \ Range(Kept(all)))
  BY <1>1, <1>3 DEF Rewrite
<1>10. GoodFile(Kept(all), Range(written) \cup {r}, disturbed', cut', size)
  <2>1. CASE r <= disturbed
    <3>1. \A k \in Range(written) \cup {r} : ~(k > disturbed)
      BY <1>2, <1>4, <2>1
    <3>2. ASSUME NEW k \in Range(Kept(all)) PROVE ~(k > disturbed)
      <4>1. k \in Range(file.lines) \/ k = r
        BY <1>5, <1>8
      <4>2. CASE k = r
        BY <1>2, <2>1, <4>2
      <4>3. CASE k \in Range(file.lines) /\ k # r
        <5>1. k \in Runs /\ (k > disturbed => k \in Range(written) \/ writer[k].pc = "writing")
          BY <1>2, <4>3, RangeIs DEF StoreInv, FileInv
        <5>2. writer[k].pc = "writing" => k <= disturbed
          BY <1>4, <4>3, <5>1 DEF StoreInv, WriterInv, Active
        <5> QED  BY <1>2, <3>1, <5>1, <5>2
      <4> QED  BY <4>1, <4>2, <4>3
    <3> HIDE DEF all
    <3>3. GoodFile(Kept(all), Range(written) \cup {r}, disturbed, cut', size)
      BY <1>2, <1>7, <3>1, <3>2, NothingFresh
    <3> QED  BY <1>1, <3>3
  <2>2. CASE r > disturbed
    <3>1. \A q \in Runs : ~Live(q)
      <4>1. \A q \in Runs : Active(q) => q = r
        BY <1>2, <1>4, <2>2 DEF StoreInv, WriterInv
      <4> QED  BY <1>1, <4>1 DEF Live, Active
    <3>2. GoodFile(file.lines, Range(written), disturbed, cut, size)
      BY <3>1 DEF StoreInv, FileInv, Good
    <3>3. GoodFile(file.lines, Range(written), disturbed, cut', size)
      <4>1. cut \subseteq cut'
        BY <1>9
      <4>2. disturbed <= disturbed /\ \A k \in Range(written) : size[k] = size[k]
        BY <1>2
      <4> QED  BY <1>2, <3>2, <4>1, <4>2, GoodStays
    <3>4. IsEnd(Kept(all), Append(file.lines, r)) /\ Range(Append(file.lines, r)) \ Range(Kept(all)) \subseteq cut'
      BY <1>7, <1>9
    <3> DEFINE kept == Kept(all)
    <3>5. kept \in Seq(Runs) /\ (size[r] < MaxFileBytes => Len(kept) > 0)
      BY <1>7
    <3> HIDE DEF kept, all
    <3>6. IsEnd(kept, Append(file.lines, r)) /\ Range(Append(file.lines, r)) \ Range(kept) \subseteq cut'
      BY <3>4 DEF kept
    <3>7. GoodFile(kept, Range(written) \cup {r}, disturbed, cut', size)
      BY <1>2, <1>3, <1>4, <2>2, <3>3, <3>5, <3>6, NewestGoesLast
    <3> QED  BY <1>1, <3>7 DEF kept
  <2> QED  BY <1>2, <2>1, <2>2
<1>11. all = Append(Without(file.lines, r), r) /\ disturbed <= disturbed' /\ disturbed' \in 0..MaxRuns
  BY <1>1, <1>2, <1>3
<1>12. /\ UNCHANGED <<run, runs, saving, size, file, written>>
       /\ Range(all) \subseteq Range(file.lines) \cup {r}
  BY <1>1, <1>5
<1> HIDE DEF all
<1> QED  BY <1>1, <1>2, <1>5, <1>10, <1>11, <1>12, RewriteStep

\* What was written before, a read that fails may cost; nothing of it is fresh.
LEMMA ReadFailsStep ==
  ASSUME StoreInv, NEW r \in Runs, ReadFails(r)
  PROVE  StoreInv'
<1>1. /\ writer[r].pc = "read" /\ Rewrite(r, <<>>) /\ Disturb({r - 1})
      /\ UNCHANGED <<run, runs, saving, size, file, written>>
  BY DEF ReadFails, collectorVars
<1>2. /\ disturbed \in 0..MaxRuns /\ disturbed \in Nat /\ Range(written) \subseteq Runs
      /\ \A q \in Runs : q \in Nat /\ q # 0
      /\ <<>> \in Seq(Runs) /\ Range(<<>>) = {} /\ size[r] \in Nat
  <2>1. Range(<<>>) = {}
    BY DEF Range
  <2> QED  BY <2>1, Types DEF StoreInv, WriterInv, FileInv
<1>3. /\ disturbed' \in 0..MaxRuns /\ disturbed <= disturbed' /\ r - 1 <= disturbed'
      /\ disturbed' \in Nat
  <2>1. {r - 1} \in SUBSET (0..MaxRuns)
    BY TraceAssumption DEF Runs
  <2>2. /\ disturbed' \in 0..MaxRuns /\ disturbed <= disturbed'
        /\ \A q \in {r - 1} : q <= disturbed'
    BY <1>1, <1>2, <2>1, Raised
  <2> QED  BY <2>2
<1>4. \A k \in Range(written) : ~(k > disturbed')
  <2>1. Active(r)
    BY <1>1 DEF Active
  <2>2. \A k \in Range(written) : k > disturbed => k < r
    BY <2>1 DEF StoreInv, WriterInv
  <2> QED  BY <1>2, <1>3, <2>2
<1> DEFINE all == Append(<<>>, r)
<1>5. all = <<r>> /\ all \in Seq(Runs) /\ Len(all) = 1 /\ all[1] = r /\ Range(all) = {r}
  <2>1. all = <<r>> /\ all \in Seq(Runs) /\ Len(all) = 1 /\ all[1] = r
    OBVIOUS
  <2> HIDE DEF all
  <2>2. \A i \in 1..1 : i = 1
    OBVIOUS
  <2>3. DOMAIN all = 1..1
    BY <2>1
  <2>4. Range(all) = {r}
    BY ONLY <2>1, <2>2, <2>3 DEF Range
  <2> QED  BY <2>1, <2>4
<1>6. all = Append(Without(<<>>, r), r)
  BY <1>2 DEF Without
<1> HIDE DEF all
<1>7. /\ Kept(all) \in Seq(Runs) /\ IsEnd(Kept(all), all)
      /\ size[r] < MaxFileBytes => Len(Kept(all)) > 0
  <2>1. all[1] = r /\ 1 = Len(all) /\ 1 > 0 /\ 1 \in Nat /\ size[all[1]] \in Nat
    BY <1>2, <1>5
  <2>2. all \in Seq(Runs)
    BY <1>5
  <2>3. /\ Kept(all) \in Seq(Runs) /\ IsEnd(Kept(all), all)
        /\ size[all[1]] < MaxFileBytes => Len(Kept(all)) > 0
    BY ONLY <2>1, <2>2, KeptIsEnd
  <2> QED  BY <2>1, <2>3
<1>8. /\ Range(Kept(all)) \subseteq {r} /\ Len(Kept(all)) <= 1
      /\ Len(Kept(all)) > 0 => r \in Range(Kept(all))
  <2>1. Range(Kept(all)) \subseteq {r} /\ Len(Kept(all)) <= 1 /\ Len(Kept(all)) \in Nat
    <3>1. Range(Kept(all)) \subseteq Range(all)
      BY <1>5, <1>7, RangeOfEnd
    <3>2. Len(Kept(all)) <= Len(all) /\ Len(Kept(all)) \in Nat
      BY <1>7 DEF IsEnd
    <3> QED  BY <1>5, <3>1, <3>2
  <2>2. ASSUME Len(Kept(all)) > 0 PROVE r \in Range(Kept(all))
    <3>1. 1 \in 1..Len(Kept(all))
      BY <2>1, <2>2
    <3>2. Kept(all)[1] \in Range(Kept(all))
      BY <1>7, <3>1, RangeIs
    <3> QED  BY <2>1, <3>2
  <2> QED  BY <2>1, <2>2
<1>9. cut' = cut \cup ({r} \ Range(Kept(all)))
  BY <1>1, <1>5, <1>6 DEF Rewrite
<1>10. GoodFile(Kept(all), Range(written) \cup {r}, disturbed', cut', size)
  <2> DEFINE done == Range(written) \cup {r}  s == Kept(all)  d == disturbed'
  <2>1. \A a \in done : a \in Nat /\ (a > d => a = r) /\ (d < a => a = r)
    BY <1>2, <1>3, <1>4
  <2>2. \A k \in done : k > d => k \in Range(s) \cup cut'
    BY <1>9, <2>1
  <2>3. \A k \in Range(s) : k > d => k \in done
    BY <1>8
  <2>4. \A i, j \in 1..Len(s) : ~(i < j)
    <3>1. Len(s) \in Nat /\ Len(s) <= 1
      BY <1>7, <1>8
    <3> HIDE DEF s
    <3> QED  BY <3>1
  <2>5. \A a, b \in done : d < a /\ a < b => FALSE
    BY <1>3, <2>1
  <2>6. size[r] < MaxFileBytes \/ size[r] >= MaxFileBytes
    BY <1>2, TraceAssumption
  <2>7. \A a \in done : d < a => a \in Range(s) \/ size[a] >= MaxFileBytes
    BY <1>7, <1>8, <2>1, <2>6
  <2> HIDE DEF done, s, d
  <2>8. GoodFile(s, done, d, cut', size)
    BY <2>2, <2>3, <2>4, <2>5, <2>7 DEF GoodFile
  <2> QED  BY <2>8 DEF done, s, d
<1>11. Range(all) \subseteq Range(file.lines) \cup {r}
  BY <1>5
<1> QED  BY <1>1, <1>2, <1>3, <1>5, <1>6, <1>10, <1>11, RewriteStep

\* The file is truncated; the thread is live, and what is asked of the file waits for it.
LEMMA OpenStep ==
  ASSUME StoreInv, NEW r \in Runs, OpenFile(r)
  PROVE  StoreInv'
<1> USE DEF StoreInv
<1>1. /\ writer[r].pc = "write" /\ writer' = [writer EXCEPT ![r].pc = "writing"]
      /\ UNCHANGED <<run, runs, saving, size, written, cut, disturbed>>
  BY DEF OpenFile, collectorVars
<1>2. /\ \A q \in Runs : q \in Nat /\ q # 0
      /\ \A q \in Runs : writer[q] \in Writers /\ writer[q].lines \in Seq(Runs)
      /\ Range(written) \subseteq Runs
  BY Types
<1>3. file'.lines \in Seq(Runs) /\ Range(file'.lines) \subseteq Range(writer[r].lines)
  <2>1. PICK k \in 0..Len(writer[r].lines), torn \in BOOLEAN :
          file' = [lines |-> SubSeq(writer[r].lines, 1, k), torn |-> torn]
    BY DEF OpenFile
  <2> SUFFICES ASSUME NEW l \in Seq(Runs), l = writer[r].lines
               PROVE  file'.lines \in Seq(Runs) /\ Range(file'.lines) \subseteq Range(l)
    BY <1>2
  <2>2. file'.lines = SubSeq(l, 1, k) /\ k \in 0..Len(l)
    BY <2>1
  <2>3. /\ SubSeq(l, 1, k) \in Seq(Runs) /\ Len(SubSeq(l, 1, k)) = k /\ k \in Nat /\ k <= Len(l)
        /\ \A i \in 1..k : SubSeq(l, 1, k)[i] = l[i]
    BY <2>2
  <2>4. \A i \in 1..k : i \in 1..Len(l) /\ l[i] \in Range(l)
    BY <2>3, RangeIs
  <2>5. \A x \in Range(SubSeq(l, 1, k)) : \E i \in 1..k : x = SubSeq(l, 1, k)[i]
    BY <2>3, RangeIs
  <2> QED  BY <2>2, <2>3, <2>4, <2>5
<1>4. /\ \A q \in Runs : q # r => writer'[q] = writer[q]
      /\ writer'[r].pc = "writing" /\ writer'[r].lines = writer[r].lines
      /\ writer'[r].at = "live" /\ writer'[r] \in Writers
      /\ writer' \in [Runs -> Writers]
  <2>1. writer[r].at = "live"
    BY <1>1, <1>2 DEF WriterInv, Writers
  <2>2. /\ \A q \in Runs : q # r => writer'[q] = writer[q]
        /\ writer'[r] = [writer[r] EXCEPT !.pc = "writing"]
    BY <1>1 DEF WriterInv
  <2>3. /\ writer'[r].pc = "writing" /\ writer'[r].lines = writer[r].lines
        /\ writer'[r].at = "live" /\ writer'[r] \in Writers
    BY <1>2, <2>1, <2>2 DEF Writers
  <2>4. writer' \in [Runs -> Writers]
    BY <1>1, <1>2, <2>2, <2>3 DEF WriterInv
  <2> QED  BY <2>2, <2>3, <2>4
<1>5. /\ Range(written)' = Range(written)
      /\ \A q \in Runs : (Range(writer[q].lines))' = Range(writer[q].lines)
      /\ \A q \in Runs : Active(q)' <=> Active(q)
      /\ Live(r)' /\ Active(r)
  BY <1>1, <1>4 DEF Range, Active, Live
<1>6. WriterInv'
  <2>1. (run # 0 /\ ~saving => ~Active(run))'
    <3>1. run # 0 /\ ~saving => run # r /\ ~Active(run) /\ run \in Runs
      BY <1>5 DEF WriterInv, Runs
    <3> QED  BY <1>1, <1>4, <3>1 DEF Active
  <2>2. \A q \in Runs : writer'[q].at = "archive" => writer'[q].pc = "writing" /\ q <= disturbed
    BY <1>4 DEF WriterInv
  <2>3. /\ \A q \in Runs :
             Active(q) => /\ q <= runs /\ q \notin Range(written)
                          /\ \A k \in Range(written) : k > disturbed => k < q
        /\ \A p, q \in Runs : Active(p) /\ Active(q) /\ p # q => p <= disturbed
        /\ written \in Seq(Runs) /\ disturbed \in 0..MaxRuns
        /\ size \in [Runs -> Nat] /\ runs \in 0..MaxRuns
        /\ (run # 0 => run = runs) /\ \A q \in Range(written) : q <= runs
        /\ (run # 0 /\ ~saving => run \notin Range(written))
    BY DEF WriterInv
  <2> QED  BY <1>1, <1>4, <1>5, <2>1, <2>2, <2>3 DEF WriterInv
<1>7. \A q \in Runs : Unopened(q)' => Unopened(q) /\ q # r
  <2>1. r <= runs /\ runs \in Nat /\ (r = run /\ ~saving => ~Active(r))
    BY <1>2, <1>5, Types DEF WriterInv
  <2> QED  BY <1>1, <1>2, <1>4, <1>5, <2>1 DEF Unopened
<1>8. \A k \in Range(file'.lines) : k > disturbed => k \in Range(written) \/ writer'[k].pc = "writing"
  <2>1. Good(writer[r].lines, Range(written) \cup {r})
    BY <1>1 DEF FileInv
  <2>2. \A k \in Range(writer[r].lines) : k > disturbed => k \in Range(written) \cup {r}
    BY <2>1 DEF Good, GoodFile
  <2> QED  BY <1>3, <1>4, <2>2
<1>9. \A q \in Runs : writer'[q].pc \in {"write", "writing"}
                        => (Good(writer[q].lines, Range(written) \cup {q}))'
  <2>1. \A q \in Runs : writer'[q].pc \in {"write", "writing"} => writer[q].pc \in {"write", "writing"}
    BY <1>1, <1>4
  <2>2. \A q \in Runs : writer[q].pc \in {"write", "writing"}
                          => Good(writer[q].lines, Range(written) \cup {q})
    BY DEF FileInv
  <2> QED  BY <1>1, <1>4, <1>5, <2>1, <2>2 DEF Good
<1>10. \A q \in Runs : Unopened(q) => \A p \in Runs : q \notin Range(writer[p].lines)
  BY DEF FileInv
<1>11. Range(file.lines)' = Range(file'.lines)
  BY DEF Range
<1>12. FileInv'
  BY <1>1, <1>3, <1>5, <1>7, <1>8, <1>9, <1>10, <1>11 DEF FileInv
<1> QED  BY <1>6, <1>12

\* A thread is done, one way or the other.
LEMMA FinishStep ==
  ASSUME StoreInv, NEW r \in Runs, writer[r].pc \in {"write", "writing"},
         written' = Append(written, r), writer' = [writer EXCEPT ![r] = NoWriter],
         UNCHANGED <<run, runs, saving, size, cut>>,
         disturbed' \in 0..MaxRuns, disturbed <= disturbed',
         file'.lines \in Seq(Runs),
         Range(file'.lines) \subseteq Range(file.lines) \cup Range(writer[r].lines),
         (\A q \in Runs : q # r => ~Live(q))
           => GoodFile(file'.lines, Range(written) \cup {r}, disturbed', cut, size)
  PROVE  StoreInv'
<1> USE DEF StoreInv
<1>1. /\ \A q \in Runs : q \in Nat /\ q # 0
      /\ \A q \in Runs : writer[q].lines \in Seq(Runs) /\ Range(writer[q].lines) \subseteq Runs
      /\ Range(written) \subseteq Runs /\ disturbed \in Nat /\ disturbed' \in Nat /\ runs \in Nat
  BY Types DEF Runs
<1>2. written' \in Seq(Runs) /\ (Range(written))' = Range(written) \cup {r}
  <2>1. written \in Seq(Runs)
    BY DEF WriterInv
  <2>2. Append(written, r) \in Seq(Runs) /\ Range(Append(written, r)) = Range(written) \cup {r}
    BY <2>1, RangeAppended
  <2>3. (Range(written))' = Range(written')
    BY DEF Range
  <2> QED  BY <2>2, <2>3
<1>3. /\ \A q \in Runs : q # r => writer'[q] = writer[q]
      /\ writer'[r] = NoWriter /\ writer' \in [Runs -> Writers]
      /\ writer'[r].pc = "none" /\ writer'[r].at = "live" /\ Range(writer'[r].lines) = {}
  BY Idle DEF WriterInv
<1>4. /\ \A q \in Runs : Active(q)' <=> Active(q) /\ q # r
      /\ \A q \in Runs : Live(q)' <=> Live(q) /\ q # r
      /\ Active(r)
  BY <1>3 DEF Active, Live
<1>5. \A k \in Runs : /\ k > disturbed' => k > disturbed
                      /\ k <= disturbed => k <= disturbed' /\ ~(k > disturbed')
  BY <1>1
\* A thread that is still at work has overlapped this one: nothing written is fresh.
<1>6. ASSUME NEW q \in Runs, Active(q), q # r
      PROVE  /\ q <= disturbed /\ r <= disturbed
             /\ \A k \in Range(written) \cup {r, q} : ~(k > disturbed')
  <2>1. q <= disturbed /\ r <= disturbed
    BY <1>4, <1>6 DEF WriterInv
  <2>2. \A k \in Range(written) : k > disturbed => k < q
    BY <1>6 DEF WriterInv
  <2>3. \A k \in Range(written) : ~(k > disturbed')
    BY <1>1, <1>5, <2>1, <2>2
  <2> QED  BY <1>5, <2>1, <2>3
<1>7. WriterInv'
  <2>1. r <= runs /\ \A q \in Range(written) : q <= runs
    BY <1>4 DEF WriterInv
  <2>2. ASSUME NEW q \in Runs, Active(q), q # r
        PROVE  /\ q <= runs /\ q \notin Range(written) \cup {r}
               /\ \A k \in Range(written) \cup {r} : k > disturbed' => k < q
    <3>1. q <= runs /\ q \notin Range(written)
      BY <2>2 DEF WriterInv
    <3>2. \A k \in Range(written) \cup {r} : ~(k > disturbed')
      BY <1>6, <2>2
    <3> QED  BY <2>2, <3>1, <3>2
  <2>3. \A q \in Runs : writer'[q].at = "archive" => writer'[q].pc = "writing" /\ q <= disturbed'
    BY <1>3, <1>5 DEF WriterInv
  <2>4. \A p, q \in Runs : Active(p) /\ Active(q) /\ p # q => p <= disturbed'
    BY <1>5 DEF WriterInv
  <2>5. (run # 0 /\ ~saving => run \notin Range(written) /\ ~Active(run))'
    <3>1. run # 0 /\ ~saving => run # r /\ run \notin Range(written) /\ ~Active(run) /\ run \in Runs
      BY <1>4 DEF WriterInv, Runs
    <3> QED  BY <1>2, <1>3, <3>1 DEF Active
  <2>6. size' \in [Runs -> Nat] /\ runs' \in 0..MaxRuns /\ (run' # 0 => run' = runs')
    BY DEF WriterInv
  <2> QED  BY <1>2, <1>3, <1>4, <2>1, <2>2, <2>3, <2>4, <2>5, <2>6 DEF WriterInv
<1>8. \A q \in Runs : Unopened(q)' => Unopened(q) /\ q # r
  <2>1. r <= runs /\ (r = run /\ ~saving => ~Active(r))
    BY <1>1, <1>4 DEF WriterInv
  <2> QED  BY <1>1, <1>3, <1>4, <2>1 DEF Unopened
<1>9. (\A q \in Runs : ~Live(q))' => (Good(file.lines, Range(written)))'
  <2>1. (\A q \in Runs : ~Live(q))' => \A q \in Runs : q # r => ~Live(q)
    BY <1>4
  <2> QED  BY <1>2, <2>1 DEF Good
<1>10. ASSUME NEW k \in Range(file'.lines), k > disturbed'
       PROVE  k \in Range(written) \cup {r} \/ writer'[k].pc = "writing"
  <2>1. k \in Runs
    BY RangeIs
  <2>2. k > disturbed
    BY <1>5, <1>10, <2>1
  <2>3. CASE k \in Range(file.lines)
    <3>1. k \in Range(written) \/ writer[k].pc = "writing"
      BY <2>2, <2>3 DEF FileInv
    <3> QED  BY <1>3, <2>1, <3>1
  <2>4. CASE k \in Range(writer[r].lines)
    <3>1. Good(writer[r].lines, Range(written) \cup {r})
      BY DEF FileInv
    <3> QED  BY <2>2, <2>4, <3>1 DEF Good, GoodFile
  <2> QED  BY <2>3, <2>4
<1>11. ASSUME NEW q \in Runs, writer'[q].pc \in {"write", "writing"}
       PROVE  (Good(writer[q].lines, Range(written) \cup {q}))'
  <2>1. q # r /\ writer'[q] = writer[q] /\ Active(q)
    BY <1>3, <1>11 DEF Active
  <2>2. Good(writer[q].lines, Range(written) \cup {q})
    BY <1>11, <2>1 DEF FileInv
  <2>3. \A k \in Range(written) \cup {r, q} : ~(k > disturbed')
    BY <1>6, <2>1
  <2>4. \A k \in Range(writer[q].lines) : ~(k > disturbed')
    <3>1. \A k \in Range(writer[q].lines) : k > disturbed => k \in Range(written) \cup {q}
      BY <2>2 DEF Good, GoodFile
    <3> QED  BY <1>1, <1>5, <2>3, <3>1
  <2>5. GoodFile(writer[q].lines, Range(written) \cup {r} \cup {q}, disturbed', cut', size')
    <3>1. /\ Range(written) \cup {r} \cup {q} \in SUBSET Runs
          /\ \A k \in Range(written) \cup {r} \cup {q} : ~(k > disturbed')
      BY <1>1, <2>3
    <3> QED  BY <1>1, <2>4, <3>1, NothingFresh
  <2> QED  BY <1>2, <2>1, <2>5 DEF Good
<1>12. ASSUME NEW q \in Runs, Unopened(q), q # r
       PROVE  q \notin Range(file'.lines) /\ \A p \in Runs : q \notin (Range(writer[p].lines))'
  <2>1. q \notin Range(file.lines) /\ \A p \in Runs : q \notin Range(writer[p].lines)
    BY <1>12 DEF FileInv
  <2>2. ASSUME NEW p \in Runs PROVE q \notin Range(writer'[p].lines)
    <3>1. CASE p = r
      BY <1>3, <3>1
    <3>2. CASE p # r
      BY <1>3, <2>1, <3>2
    <3> QED  BY <3>1, <3>2
  <2>3. \A p \in Runs : (Range(writer[p].lines))' = Range(writer'[p].lines)
    BY DEF Range
  <2> QED  BY <2>1, <2>2, <2>3
<1>13. Range(file.lines)' = Range(file'.lines)
  BY DEF Range
<1>14. FileInv'
  BY <1>2, <1>8, <1>9, <1>10, <1>11, <1>12, <1>13 DEF FileInv
<1> QED  BY <1>7, <1>14

LEMMA CloseFileStep ==
  ASSUME StoreInv, NEW r \in Runs, CloseFile(r)
  PROVE  StoreInv'
<1>1. /\ writer[r].pc = "writing" /\ written' = Append(written, r)
      /\ writer' = [writer EXCEPT ![r] = NoWriter]
      /\ UNCHANGED <<run, runs, saving, size, cut, disturbed>>
  BY DEF CloseFile, collectorVars
<1>2. /\ writer[r].lines \in Seq(Runs) /\ writer[r].at \in {"live", "archive"}
      /\ file.lines \in Seq(Runs) /\ Range(written) \subseteq Runs
      /\ disturbed \in Nat /\ disturbed \in 0..MaxRuns
  BY Types DEF StoreInv, WriterInv, FileInv, Writers
<1>3. CASE writer[r].at = "live"
  <2>1. file'.lines = writer[r].lines
    BY <1>3 DEF CloseFile
  <2>2. GoodFile(file'.lines, Range(written) \cup {r}, disturbed', cut, size)
    BY <1>1, <2>1 DEF StoreInv, FileInv, Good
  <2>3. disturbed' \in 0..MaxRuns /\ disturbed <= disturbed'
    BY <1>1, <1>2
  <2> QED  BY <1>1, <1>2, <2>1, <2>2, <2>3, FinishStep
<1>4. CASE writer[r].at = "archive"
  <2>1. file' = file /\ r <= disturbed /\ ~Live(r)
    BY <1>4 DEF CloseFile, StoreInv, WriterInv, Live
  <2>2. ASSUME \A q \in Runs : q # r => ~Live(q)
        PROVE  GoodFile(file'.lines, Range(written) \cup {r}, disturbed', cut, size)
    <3>1. GoodFile(file.lines, Range(written), disturbed, cut, size)
      BY <2>1, <2>2 DEF StoreInv, FileInv, Good
    <3>2. GoodFile(file.lines, Range(written) \cup {r}, disturbed, cut, size)
      BY <1>2, <2>1, <3>1, OldOneMore
    <3> QED  BY <1>1, <2>1, <3>2
  <2>3. disturbed' \in 0..MaxRuns /\ disturbed <= disturbed'
    BY <1>1, <1>2
  <2>4. file'.lines \in Seq(Runs) /\ Range(file'.lines) \subseteq Range(file.lines) \cup Range(writer[r].lines)
    BY <1>2, <2>1
  <2> QED  BY <1>1, <2>2, <2>3, <2>4, FinishStep
<1> QED  BY <1>2, <1>3, <1>4

\* A write that fails may cost its run and every one before it; none is fresh then.
LEMMA WriteFailsStep ==
  ASSUME StoreInv, NEW r \in Runs, WriteFails(r)
  PROVE  StoreInv'
<1>1. /\ writer[r].pc \in {"write", "writing"} /\ written' = Append(written, r)
      /\ writer' = [writer EXCEPT ![r] = NoWriter] /\ Disturb({r})
      /\ UNCHANGED <<run, runs, saving, size, cut, file>>
  BY DEF WriteFails, collectorVars
<1>2. /\ \A q \in Runs : q \in Nat /\ q # 0
      /\ file.lines \in Seq(Runs) /\ Range(written) \subseteq Runs
      /\ disturbed \in Nat /\ disturbed \in 0..MaxRuns
  BY Types DEF StoreInv, WriterInv, FileInv
<1>3. disturbed' \in 0..MaxRuns /\ disturbed <= disturbed' /\ r <= disturbed'
  <2>1. {r} \in SUBSET (0..MaxRuns)
    BY DEF Runs
  <2>2. /\ disturbed' \in 0..MaxRuns /\ disturbed <= disturbed'
        /\ \A q \in {r} : q <= disturbed'
    BY <1>1, <1>2, <2>1, Raised
  <2> QED  BY <2>2
<1>4. disturbed' \in Nat /\ Active(r)
  BY <1>1, <1>3 DEF Active
<1>5. \A k \in Range(written) \cup {r} : ~(k > disturbed')
  <2>1. \A k \in Range(written) : k > disturbed => k < r
    BY <1>4 DEF StoreInv, WriterInv
  <2> QED  BY <1>2, <1>3, <1>4, <2>1
<1>6. ASSUME NEW k \in Range(file.lines) PROVE ~(k > disturbed')
  <2>1. k \in Runs
    BY <1>2, RangeIs
  <2>2. k > disturbed => k \in Range(written) \/ Active(k)
    BY DEF StoreInv, FileInv, Active
  <2>3. Active(k) /\ k # r => k <= disturbed
    BY <1>4, <2>1 DEF StoreInv, WriterInv
  <2> QED  BY <1>2, <1>3, <1>4, <1>5, <2>1, <2>2, <2>3
<1>7. GoodFile(file'.lines, Range(written) \cup {r}, disturbed', cut, size)
  <2>1. Range(written) \cup {r} \in SUBSET Runs
    BY <1>2
  <2>2. GoodFile(file.lines, Range(written) \cup {r}, disturbed', cut, size)
    BY <1>2, <1>4, <1>5, <1>6, <2>1, NothingFresh
  <2> QED  BY <1>1, <2>2
<1>8. file'.lines \in Seq(Runs) /\ Range(file'.lines) \subseteq Range(file.lines) \cup Range(writer[r].lines)
  BY <1>1, <1>2
<1> QED  BY <1>1, <1>3, <1>7, <1>8, FinishStep

\* Where a thread is writing and all that write become old, nothing written is fresh.
LEMMA NoneFresh ==
  ASSUME StoreInv, disturbed' \in Nat, disturbed <= disturbed',
         \A r \in Runs : writer[r].pc = "writing" => r <= disturbed'
  PROVE  /\ \A k \in Range(file.lines) : k > disturbed' => k \in Range(written)
         /\ (\E r \in Runs : writer[r].pc = "writing")
              => \A k \in Range(written) : ~(k > disturbed')
<1>1. /\ \A q \in Runs : q \in Nat /\ q # 0
      /\ file.lines \in Seq(Runs) /\ Range(written) \subseteq Runs /\ disturbed \in Nat
  BY Types DEF StoreInv, FileInv
<1>2. ASSUME NEW k \in Range(file.lines), k > disturbed' PROVE k \in Range(written)
  <2>1. k \in Runs
    BY <1>1, RangeIs
  <2>2. k > disturbed /\ ~(k <= disturbed')
    BY <1>1, <1>2, <2>1
  <2> QED  BY <2>1, <2>2 DEF StoreInv, FileInv
<1>3. ASSUME NEW r \in Runs, writer[r].pc = "writing", NEW k \in Range(written)
      PROVE  ~(k > disturbed')
  <2>1. r <= disturbed' /\ (k > disturbed => k < r) /\ k \in Nat /\ r \in Nat
    BY <1>1, <1>3 DEF StoreInv, WriterInv, Active
  <2> QED  BY <1>1, <2>1
<1> QED  BY <1>2, <1>3

\* A store is opened, by a debug server or with a new session: the file may be renamed,
\* and takes along those that are writing it.
LEMMA OpenedStep ==
  ASSUME StoreInv, OpenStore, UNCHANGED <<size, written, cut, runs>>,
         run' # 0 => run' = run /\ saving' = saving
  PROVE  StoreInv'
<1>1. CASE ~(file.lines = <<>> /\ file.torn)
  <2>1. UNCHANGED storeVars
    BY <1>1 DEF OpenStore, storeVars
  <2>2. /\ runs' \in 0..MaxRuns /\ runs <= runs' /\ (run' # 0 => run' = runs')
        /\ (run' # 0 /\ ~saving' => (run' = run /\ ~saving) \/ run' > runs)
    BY TraceAssumption DEF StoreInv, WriterInv
  <2> QED  BY <2>1, <2>2, CollectStep
<1>2. CASE file.lines = <<>> /\ file.torn
  <2> USE DEF StoreInv
  <2> DEFINE W == {r \in Runs : writer[r].pc = "writing"}
  <2>1. /\ file' = NoFile /\ Disturb(W)
        /\ writer' = [r \in Runs |-> IF writer[r].pc = "writing"
                                       THEN [writer[r] EXCEPT !.at = "archive"] ELSE writer[r]]
    BY <1>2 DEF OpenStore
  <2>2. /\ \A q \in Runs : q \in Nat /\ q # 0
        /\ \A q \in Runs : writer[q] \in Writers /\ writer[q].lines \in Seq(Runs)
        /\ \A q \in Runs : Range(writer[q].lines) \subseteq Runs
        /\ Range(written) \subseteq Runs /\ disturbed \in 0..MaxRuns /\ disturbed \in Nat
    BY Types DEF WriterInv
  <2>3. /\ disturbed' \in 0..MaxRuns /\ disturbed <= disturbed'
        /\ \A r \in Runs : writer[r].pc = "writing" => r <= disturbed'
    <3>1. W \in SUBSET (0..MaxRuns)
      BY DEF Runs
    <3> HIDE DEF W
    <3>2. /\ disturbed' \in 0..MaxRuns /\ disturbed <= disturbed'
          /\ \A r \in W : r <= disturbed'
      BY <2>1, <2>2, <3>1, Raised
    <3> QED  BY <3>2 DEF W
  <2>4. disturbed' \in Nat
    BY <2>3
  <2>5. /\ \A q \in Runs : /\ writer'[q].pc = writer[q].pc /\ writer'[q].lines = writer[q].lines
                           /\ writer'[q].pc = "writing" => writer'[q].at = "archive"
                           /\ writer'[q].pc # "writing" => writer'[q].at = writer[q].at
                           /\ writer'[q] \in Writers
        /\ writer' \in [Runs -> Writers]
    <3>1. ASSUME NEW q \in Runs
          PROVE  /\ writer'[q].pc = writer[q].pc /\ writer'[q].lines = writer[q].lines
                 /\ writer'[q].pc = "writing" => writer'[q].at = "archive"
                 /\ writer'[q].pc # "writing" => writer'[q].at = writer[q].at
                 /\ writer'[q] \in Writers
      <4>1. CASE writer[q].pc = "writing"
        <5>1. writer'[q] = [writer[q] EXCEPT !.at = "archive"]
          BY <2>1, <4>1
        <5> QED  BY <2>2, <4>1, <5>1 DEF Writers
      <4>2. CASE writer[q].pc # "writing"
        <5>1. writer'[q] = writer[q]
          BY <2>1, <4>2
        <5> QED  BY <2>2, <4>2, <5>1
      <4> QED  BY <4>1, <4>2
    <3> QED  BY <2>1, <3>1
  <2>6. /\ Range(written)' = Range(written) /\ file'.lines = <<>> /\ (Range(file.lines))' = {}
        /\ \A q \in Runs : (Range(writer[q].lines))' = Range(writer[q].lines)
        /\ \A q \in Runs : Active(q)' <=> Active(q)
        /\ \A q \in Runs : ~Live(q)'
        /\ file'.lines \in Seq(Runs) /\ Range(file.lines) = {}
    <3>1. file'.lines = <<>> /\ <<>> \in Seq(Runs) /\ Range(<<>>) = {}
      BY <2>1, NoLines DEF NoFile
    <3>2. (Range(file.lines))' = Range(file'.lines)
      BY DEF Range
    <3> QED  BY <1>2, <2>5, <3>1, <3>2 DEF Range, Active, Live
  <2>7. \A k \in Runs : /\ k > disturbed' => k > disturbed
                        /\ k <= disturbed => k <= disturbed'
    BY <2>2, <2>3, <2>4
  <2>8. WriterInv'
    <3>1. \A q \in Runs : writer'[q].at = "archive" => writer'[q].pc = "writing" /\ q <= disturbed'
      BY <2>3, <2>5 DEF WriterInv
    <3>2. \A q \in Runs : Active(q) => /\ q <= runs /\ q \notin Range(written)
                                       /\ \A k \in Range(written) : k > disturbed' => k < q
      BY <2>2, <2>7 DEF WriterInv
    <3>3. \A p, q \in Runs : Active(p) /\ Active(q) /\ p # q => p <= disturbed'
      BY <2>7 DEF WriterInv
    <3>4. (run # 0 /\ ~saving => run \notin Range(written) /\ ~Active(run))'
      <4>1. run' # 0 /\ ~saving' => run' = run /\ run # 0 /\ ~saving /\ run \in Runs
        BY DEF WriterInv, Runs
      <4>2. run # 0 /\ ~saving => run \notin Range(written) /\ ~Active(run)
        BY DEF WriterInv
      <4> QED  BY <2>5, <2>6, <4>1, <4>2 DEF Active
    <3>5. /\ written' \in Seq(Runs) /\ size' \in [Runs -> Nat] /\ runs' \in 0..MaxRuns
          /\ (run' # 0 => run' = runs') /\ \A k \in Range(written) : k <= runs'
      BY DEF WriterInv
    <3> QED  BY <2>3, <2>5, <2>6, <3>1, <3>2, <3>3, <3>4, <3>5 DEF WriterInv
  <2>9. ASSUME NEW s \in Seq(Runs), NEW done \in SUBSET Runs, Good(s, done)
        PROVE  GoodFile(s, done, disturbed', cut', size')
    BY <2>2, <2>3, <2>4, <2>9, GoodStays DEF Good
  <2>10. GoodFile(<<>>, Range(written), disturbed', cut', size')
    <3>1. <<>> \in Seq(Runs) /\ Range(<<>>) = {}
      BY NoLines
    <3>2. CASE W = {}
      <4>1. Good(<<>>, Range(written))
        BY <1>2, <3>2 DEF FileInv, Live
      <4> QED  BY <2>2, <2>9, <3>1, <4>1
    <3>3. CASE W # {}
      <4>1. \A k \in Range(written) : ~(k > disturbed')
        BY <2>3, <2>4, <3>3, NoneFresh
      <4> QED  BY <2>2, <2>4, <3>1, <4>1, NothingFresh
    <3> QED  BY <3>2, <3>3
  <2>11. ASSUME NEW q \in Runs, writer'[q].pc \in {"write", "writing"}
         PROVE  (Good(writer[q].lines, Range(written) \cup {q}))'
    <3>1. Good(writer[q].lines, Range(written) \cup {q})
      BY <2>5, <2>11 DEF FileInv
    <3>2. GoodFile(writer[q].lines, Range(written) \cup {q}, disturbed', cut', size')
      BY <2>2, <2>9, <3>1
    <3> QED  BY <2>5, <2>6, <3>2 DEF Good
  <2>12. \A q \in Runs : Unopened(q)' => Unopened(q)
    BY <2>2, <2>5 DEF Unopened
  <2>13. \A q \in Runs : Unopened(q) => \A p \in Runs : q \notin Range(writer[p].lines)
    BY DEF FileInv
  <2>14. (Good(file.lines, Range(written)))'
    BY <2>6, <2>10 DEF Good
  <2>15. FileInv'
    BY <2>6, <2>11, <2>12, <2>13, <2>14 DEF FileInv
  <2> QED  BY <2>8, <2>15
<1> QED  BY <1>1, <1>2

\* The process dies: what was being written is old, and no thread is left.
LEMMA CrashStep ==
  ASSUME StoreInv, Crash
  PROVE  StoreInv'
<1> USE DEF StoreInv
<1> DEFINE W == {r \in Runs : writer[r].pc = "writing"}
<1>1. /\ run' = 0 /\ saving' = FALSE /\ writer' = [r \in Runs |-> NoWriter] /\ Disturb(W)
      /\ UNCHANGED <<runs, size, written, cut>>
  BY DEF Crash
<1>2. file'.lines = file.lines
  BY DEF Crash, NoFile
<1>3. /\ \A q \in Runs : q \in Nat /\ q # 0
      /\ Range(written) \subseteq Runs /\ disturbed \in 0..MaxRuns /\ disturbed \in Nat
      /\ file.lines \in Seq(Runs)
  BY Types DEF WriterInv, FileInv
<1>4. /\ disturbed' \in 0..MaxRuns /\ disturbed <= disturbed'
      /\ \A r \in Runs : writer[r].pc = "writing" => r <= disturbed'
  <2>1. W \in SUBSET (0..MaxRuns)
    BY DEF Runs
  <2> HIDE DEF W
  <2>2. /\ disturbed' \in 0..MaxRuns /\ disturbed <= disturbed'
        /\ \A r \in W : r <= disturbed'
    BY <1>1, <1>3, <2>1, Raised
  <2> QED  BY <2>2 DEF W
<1>5. disturbed' \in Nat
  BY <1>4
<1>6. \A q \in Runs : /\ writer'[q] = NoWriter /\ writer'[q].pc = "none" /\ writer'[q].at = "live"
                      /\ (Range(writer[q].lines))' = {}
                      /\ ~Active(q)' /\ ~Live(q)'
  BY <1>1, Idle DEF Active, Live, Range
<1>7. /\ Range(written)' = Range(written) /\ (Range(file.lines))' = Range(file.lines)
      /\ writer' \in [Runs -> Writers]
  BY <1>1, <1>2, Idle DEF Range
<1>8. WriterInv'
  <2>1. /\ written' \in Seq(Runs) /\ size' \in [Runs -> Nat] /\ runs' \in 0..MaxRuns
        /\ \A k \in Range(written) : k <= runs'
    BY <1>1 DEF WriterInv
  <2> QED  BY <1>1, <1>4, <1>6, <1>7, <2>1 DEF WriterInv
<1>9. \A k \in Range(file.lines) : k > disturbed' => k \in Range(written)
  BY <1>4, <1>5, NoneFresh
<1>10. GoodFile(file.lines, Range(written), disturbed', cut', size')
  <2>1. CASE W = {}
    <3>1. Good(file.lines, Range(written))
      BY <2>1 DEF FileInv, Live
    <3>2. GoodFile(file.lines, Range(written), disturbed, cut, size)
      BY <3>1 DEF Good
    <3> QED  BY <1>1, <1>3, <1>4, <1>5, <3>2, GoodStays
  <2>2. CASE W # {}
    <3>1. \A k \in Range(written) : ~(k > disturbed')
      BY <1>4, <1>5, <2>2, NoneFresh
    <3>2. \A k \in Range(file.lines) : ~(k > disturbed')
      BY <1>9, <3>1
    <3> QED  BY <1>3, <1>5, <3>1, <3>2, NothingFresh
  <2> QED  BY <2>1, <2>2
<1>11. (Good(file.lines, Range(written)))'
  BY <1>2, <1>7, <1>10 DEF Good
<1>12. \A q \in Runs : Unopened(q)' => Unopened(q) /\ q \notin Range(file.lines)
  BY <1>1, <1>3, <1>6 DEF Unopened, FileInv
<1>13. FileInv'
  BY <1>2, <1>3, <1>6, <1>7, <1>9, <1>11, <1>12 DEF FileInv
<1> QED  BY <1>8, <1>13

-----------------------------------------------------------------------------
LEMMA StoreInvariance == Spec => []StoreInv
<1>1. IInv /\ IInv' /\ StoreInv /\ [Next]_vars => StoreInv'
  <2> SUFFICES ASSUME IInv, IInv', StoreInv, [Next]_vars PROVE StoreInv'
    OBVIOUS
  <2>1. runs \in Nat /\ runs \in 0..MaxRuns /\ MaxRuns \in Nat /\ (run # 0 => run = runs)
    BY Types, TraceAssumption DEF StoreInv, WriterInv
  <2>2. CASE BeginRun
    <3>1. UNCHANGED storeVars /\ runs' = runs + 1 /\ run' = runs + 1 /\ runs < MaxRuns
      BY <2>2 DEF BeginRun
    <3> QED  BY <2>1, <3>1, CollectStep
  <2>3. CASE \/ BeginTurn \/ UNCHANGED vars \/ Done
             \/ \E kind \in Works, own \in Reacts : Record(kind, own)
    <3>1. UNCHANGED storeVars /\ UNCHANGED <<run, runs, saving>>
      BY <2>3 DEF BeginTurn, Record, Done, vars, storeVars
    <3> QED  BY <2>1, <3>1, CollectStep
  <2>4. CASE RunSaved
    <3>1. UNCHANGED storeVars /\ runs' = runs /\ run' = 0
      BY <2>4 DEF RunSaved
    <3> QED  BY <2>1, <3>1, CollectStep
  <2>5. CASE \E st \in Statuses : CloseRun(st)
    BY <2>5, CloseStep
  <2>6. ASSUME NEW r \in Runs, Thread(r) PROVE StoreInv'
    BY <2>6, ReadStep, ReadFailsStep, OpenStep, CloseFileStep, WriteFailsStep DEF Thread
  <2>7. CASE DebugReads
    <3>1. OpenStore /\ UNCHANGED <<size, written, cut, run, runs, saving>>
      BY <2>7 DEF DebugReads, collectorVars
    <3> QED  BY <3>1, OpenedStep
  <2>8. CASE Recreate
    <3>1. OpenStore /\ UNCHANGED <<size, written, cut, runs>> /\ run' = 0
      BY <2>8 DEF Recreate
    <3> QED  BY <3>1, OpenedStep
  <2>9. CASE Crash
    BY <2>9, CrashStep
  <2> QED  BY <2>2, <2>3, <2>4, <2>5, <2>6, <2>7, <2>8, <2>9 DEF Next, Engine
<1> QED  BY <1>1, StoreInit, Invariance, PTL DEF Spec

\* While no thread writes, no thread is live.
LEMMA AtRest ==
  ASSUME StoreInv, ~Writing
  PROVE  /\ Good(file.lines, Range(written))
         /\ \A i \in DOMAIN written : written[i] \in Range(written) /\ written[i] \in Runs
         /\ \A x \in Range(written) : \E i \in DOMAIN written : x = written[i]
         /\ DOMAIN file.lines = 1..Len(file.lines)
<1>1. written \in Seq(Runs) /\ file.lines \in Seq(Runs)
  BY DEF StoreInv, WriterInv, FileInv
<1>2. Good(file.lines, Range(written))
  BY DEF StoreInv, FileInv, Live, Writing
<1>3. DOMAIN written = 1..Len(written) /\ DOMAIN file.lines = 1..Len(file.lines)
  BY <1>1
<1> QED  BY <1>1, <1>2, <1>3, RangeIs

\* A run that was written can be found until the size limit drops it, whatever threads
\* overlap, reads and writes fail and crashes come between, unless one of these, at it or
\* at a later run, may have cost it.
THEOREM NoRunLost == Spec => []NothingVanishes
<1>1. StoreInv => NothingVanishes
  <2> SUFFICES ASSUME StoreInv, ~Writing, NEW i \in DOMAIN written, written[i] > disturbed
               PROVE  written[i] \in Found \cup cut
    BY DEF NothingVanishes
  <2> QED  BY AtRest DEF Good, GoodFile, Found
<1> QED  BY <1>1, StoreInvariance, PTL

\* Of the runs no fault has touched the file holds the newest, in order and behind what
\* else it has; the very newest too, if its line is shorter than the limit.
THEOREM NewestInOrder == Spec => []FileHoldsNewest
<1>1. StoreInv => FileHoldsNewest
  <2> SUFFICES ASSUME StoreInv, ~Writing PROVE FileHoldsNewest
    BY DEF FileHoldsNewest
  <2>1. GoodFile(file.lines, Range(written), disturbed, cut, size)
    BY AtRest DEF Good
  <2>2. \A i, j \in DOMAIN written :
          disturbed < written[i] /\ written[i] < written[j] /\ written[i] \in Found
            => written[j] \in Found
    BY <2>1, AtRest DEF GoodFile, Found
  <2>3. \A i, j \in DOMAIN file.lines :
          i < j /\ disturbed < file.lines[i] => file.lines[i] < file.lines[j]
    <3>1. \A i \in DOMAIN file.lines : file.lines[i] \in Nat
      <4>1. DOMAIN file.lines = 1..Len(file.lines) /\ file.lines \in Seq(Runs)
        BY AtRest DEF StoreInv, FileInv
      <4>2. \A i \in 1..Len(file.lines) : file.lines[i] \in Runs
        BY <4>1
      <4> QED  BY <4>1, <4>2 DEF Runs
    <3>2. disturbed \in Nat
      BY Types DEF StoreInv
    <3> QED  BY <2>1, <3>1, <3>2, AtRest DEF GoodFile
  <2>4. ASSUME NEW i \in DOMAIN written, disturbed < written[i],
               \A j \in DOMAIN written : written[j] <= written[i]
        PROVE  written[i] \in Found \/ size[written[i]] >= MaxFileBytes
    <3>1. written[i] \in Range(written) /\ \A b \in Range(written) : b <= written[i]
      BY <2>4, AtRest
    <3> QED  BY <2>1, <2>4, <3>1 DEF GoodFile, Found
  <2> QED  BY <2>2, <2>3, <2>4 DEF FileHoldsNewest
<1> QED  BY <1>1, StoreInvariance, PTL
=============================================================================
