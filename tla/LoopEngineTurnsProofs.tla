----------------------- MODULE LoopEngineTurnsProofs ------------------------
(***************************************************************************)
(* What TLAPS proves of LoopEngine for clients that take turns: they wait  *)
(* for the end of a turn before they send, and never interrupt.  Then one  *)
(* react works at a time, the LLM never sees a conversation in which a     *)
(* call is without its results, a restart rebuilds the conversation, and   *)
(* every step of the engine is a step of the session such a client is      *)
(* promised (SessionTurns) or changes nothing of it: for any number of     *)
(* messages, turns and calls, and wherever the conversation is folded.     *)
(***************************************************************************)
EXTENDS LoopEngineProofs

-----------------------------------------------------------------------------
(* SingleReact, for clients that wait for the end of a turn and never       *)
(* interrupt: one message at most is on its way to run(), and none while a  *)
(* step works.                                                              *)
Quiet == Len(inputQ) = 0 /\ Len(subQ) = 0 /\ ga = None /\ cur = None

OnePending ==
  \/ Len(inputQ) = 1 /\ Len(subQ) = 0 /\ ga = None /\ cur = None
  \/ Len(inputQ) = 0 /\ Len(subQ) = 1 /\ ga = None /\ cur = None
  \/ Len(inputQ) = 0 /\ Len(subQ) = 0 /\ ga # None /\ cur = None
  \/ Len(inputQ) = 0 /\ Len(subQ) = 0 /\ ga = None /\ cur # None

NoInterrupt ==
  intrLeft = 0 /\ intrQ = 0 /\ ~gb /\ inputQ \in Seq(Msgs) /\ runPc # "hwait"

(* The end of the turn is shown only when nothing is on its way; what is   *)
(* sent then may find run() still closing the trace of a step that went    *)
(* well, and nothing else of a step.                                       *)
ByTurns ==
  /\ ui \in TurnOver => Quiet /\ (stepTask = None \/ runPc = "closing")
  /\ ui \in TurnOver /\ runPc = "closing" => react[stepTask].res \notin Aborted
  /\ Quiet \/ OnePending
  /\ ~Quiet => \/ stepTask = None
               \/ runPc = "closing" /\ react[stepTask].res \notin Aborted
  /\ ~overlapped

PoliteInv == NoInterrupt /\ ByTurns

Polite == ~Pipelined /\ MaxInterrupts = 0

\* Of a list with one element.
LEMMA OneTaken ==
  ASSUME NEW S, NEW q \in Seq(S), q # <<>>
  PROVE  /\ Len(q) > 0 /\ Head(q) \in S
         /\ Tail(q) \in Seq(S) /\ Len(Tail(q)) = Len(q) - 1
OBVIOUS

LEMMA PoliteInit == Polite /\ Init => PoliteInv
<1> SUFFICES ASSUME Polite, Init PROVE PoliteInv
  OBVIOUS
<1>1. inputQ \in Seq(Msgs) /\ Len(inputQ) = 0 /\ Len(subQ) = 0
  BY DEF Init
<1> QED  BY <1>1 DEF Polite, Init, PoliteInv, NoInterrupt, ByTurns, Quiet

\* A message is sent when all is quiet, and the pumper passes it on.
LEMMA PoliteClient ==
  ASSUME Polite, TypeInv, PoliteInv,
         SendInterrupt \/ Pump \/ \E m \in Msgs : SendMessage(m)
  PROVE  PoliteInv'
<1>0. inputQ \in Seq(Msgs) /\ subQ \in Seq(Msgs) /\ Intr \notin Msgs
  BY MsgsAssumption DEF TypeInv, TypeOK, PoliteInv, NoInterrupt
<1>1. ~SendInterrupt
  BY DEF SendInterrupt, PoliteInv, NoInterrupt
<1>2. CASE Pump
  <2>1. /\ Len(inputQ) > 0 /\ Head(inputQ) \in Msgs
        /\ inputQ' \in Seq(Msgs) /\ Len(inputQ') = Len(inputQ) - 1
    BY <1>0, <1>2, OneTaken DEF Pump
  <2>2. /\ subQ' = Append(subQ, Head(inputQ)) /\ intrQ' = intrQ
        /\ UNCHANGED <<client, ui, runVars, react>>
    BY <1>0, <1>2, <2>1 DEF Pump
  <2>3. Len(subQ') = Len(subQ) + 1
    BY <1>0, <2>1, <2>2
  <2>4. ~Quiet /\ OnePending /\ ui \notin TurnOver
    BY <2>1 DEF PoliteInv, ByTurns, Quiet
  <2>5. ~Quiet' /\ OnePending'
    BY <1>0, <2>1, <2>2, <2>3, <2>4 DEF OnePending, Quiet, runVars
  <2> QED  BY <2>1, <2>2, <2>4, <2>5 DEF PoliteInv, NoInterrupt, ByTurns, client, runVars
<1>3. ASSUME NEW m \in Msgs, SendMessage(m) PROVE PoliteInv'
  <2>1. /\ ui \in TurnOver /\ inputQ' = Append(inputQ, m) /\ ui' = "sent"
        /\ UNCHANGED <<intrLeft, subQ, intrQ, runVars, react>>
    BY <1>3 DEF SendMessage, Polite
  <2>2. /\ Quiet
        /\ \/ stepTask = None
           \/ runPc = "closing" /\ react[stepTask].res \notin Aborted
    BY <2>1 DEF PoliteInv, ByTurns
  <2>3. inputQ' \in Seq(Msgs) /\ Len(inputQ') = Len(inputQ) + 1
    BY <1>0, <2>1
  <2>4. OnePending' /\ ui' \notin TurnOver
    BY <2>1, <2>2, <2>3 DEF OnePending, Quiet, runVars, TurnOver
  <2> QED  BY <2>1, <2>2, <2>3, <2>4 DEF PoliteInv, NoInterrupt, ByTurns, runVars
<1> QED  BY <1>1, <1>2, <1>3

\* A react works only while nothing is on its way.
LEMMA PoliteReact ==
  ASSUME TypeInv, OnlyTheStep, PoliteInv, NEW m \in Msgs, React(m)
  PROVE  PoliteInv'
<1>1. ReactStep(m) /\ UNCHANGED <<client, inputQ, runVars>>
  BY ReactSteps, ReactFrame
<1>2. m = stepTask /\ runPc # "closing" /\ stepTask # None
  BY <1>1, MsgsAssumption DEF ReactStep, OnlyTheStep, Running, Done, PoliteInv, ByTurns
<1>3. Quiet /\ ui \notin TurnOver
  BY <1>2 DEF PoliteInv, ByTurns
<1>4. Len(subQ') = 0 /\ intrQ' = 0
  <2>1. Len(subQ) = 0 /\ intrQ = 0
    BY <1>3 DEF Quiet, PoliteInv, NoInterrupt
  <2>2. subQ' = subQ \/ subQ' = <<>>
    BY ReactFrame
  <2>3. intrQ' = intrQ
    BY <2>1, ReactFrame
  <2> QED  BY <2>1, <2>2, <2>3
<1>5. ui' \notin TurnOver
  BY <1>3, ReactFrame DEF ReactUi, TurnOver
<1>6. Quiet'
  BY <1>1, <1>3, <1>4 DEF Quiet, runVars
<1> QED  BY <1>1, <1>2, <1>4, <1>5, <1>6 DEF PoliteInv, NoInterrupt, ByTurns, client, runVars

LEMMA PoliteRun ==
  ASSUME TypeInv, PoliteInv, Run
  PROVE  PoliteInv'
<1>0. /\ subQ \in Seq(Msgs) /\ ga \in Msgs \cup {None} /\ cur \in Msgs \cup {None}
      /\ intrQ = 0 /\ ~gb /\ None \notin Msgs
      /\ runPc = "msave" => cur \in Msgs
      /\ runPc = "closing" => stepTask \in Msgs
  BY MsgsAssumption DEF TypeInv, TypeOK, RunFilled, PoliteInv, NoInterrupt
<1>1. CASE GetMessage
  <2>1. /\ ga = None /\ ga' \in Msgs /\ Len(subQ) > 0 /\ Len(subQ') = Len(subQ) - 1
    BY <1>0, <1>1, OneTaken DEF GetMessage
  <2>2. UNCHANGED <<client, inputQ, intrQ, ui, gb, cur, stepTask, runPc, overlapped, react>>
    BY <1>1 DEF GetMessage
  <2>3. ~Quiet /\ OnePending
    BY <2>1 DEF PoliteInv, ByTurns, Quiet
  <2>4. ~Quiet' /\ OnePending'
    BY <1>0, <2>1, <2>2, <2>3 DEF OnePending, Quiet
  <2> QED  BY <2>2, <2>3, <2>4 DEF PoliteInv, NoInterrupt, ByTurns, client
<1>2. CASE RaceMessage
  <2>1. /\ ga # None /\ cur' = ga /\ ga' = None
        /\ UNCHANGED <<client, queues, ui, gb, stepTask, overlapped, react>>
        /\ runPc = "race" /\ runPc' = "msave"
    BY <1>2 DEF RaceMessage
  <2>2. ~Quiet /\ OnePending
    BY <2>1 DEF PoliteInv, ByTurns, Quiet
  <2>3. ~Quiet' /\ OnePending'
    BY <1>0, <2>1, <2>2 DEF OnePending, Quiet, queues
  <2> QED  BY <2>1, <2>2, <2>3 DEF PoliteInv, NoInterrupt, ByTurns, client, queues
<1>3. CASE MessageSaved
  <2>1. /\ cur # None /\ cur' = None /\ runPc = "msave" /\ runPc' = "race" /\ intrQ' = 0
        /\ overlapped' = (overlapped \/ stepTask # None)
        /\ UNCHANGED <<client, ui, inputQ, subQ, ga, gb>>
    BY <1>0, <1>3 DEF MessageSaved
  <2>2. ~Quiet /\ OnePending /\ ui \notin TurnOver /\ stepTask = None /\ ~overlapped
    BY <2>1 DEF PoliteInv, ByTurns, Quiet
  <2>3. Quiet'
    BY <2>1, <2>2 DEF Quiet, OnePending
  <2> QED  BY <2>1, <2>2, <2>3 DEF PoliteInv, NoInterrupt, ByTurns, client
<1>4. CASE RaceDone
  <2>1. /\ stepTask \in Msgs /\ runPc = "race" /\ runPc' = "closing" /\ ga' = None /\ gb' = FALSE
        /\ UNCHANGED <<client, queues, cur, stepTask, overlapped>>
    BY <1>0, <1>4 DEF RaceDone, DoneWins, StepDone, TypeInv, TypeOK
  <2>2. Quiet /\ ui \notin TurnOver
    BY <1>0, <2>1 DEF PoliteInv, ByTurns
  <2>3. Quiet'
    BY <2>1, <2>2 DEF Quiet, queues
  <2>4. ui' \in TurnOver => react'[stepTask].res \notin Aborted
    BY <1>4, <2>2 DEF RaceDone
  <2> QED  BY <2>1, <2>2, <2>3, <2>4 DEF PoliteInv, NoInterrupt, ByTurns, client, queues
<1>5. CASE RunClosed
  <2>1. /\ runPc = "closing" /\ runPc' = "race" /\ stepTask' = None /\ intrQ' = 0
        /\ ui' = ClosedUi(react[stepTask].res)
        /\ UNCHANGED <<client, inputQ, subQ, ga, gb, cur, overlapped, react>>
    BY <1>0, <1>5 DEF RunClosed, Park
  <2>2. (Quiet' <=> Quiet) /\ (OnePending' <=> OnePending)
    BY <2>1 DEF Quiet, OnePending
  <2>3. ui' \in TurnOver => Quiet
    <3>1. CASE react[stepTask].res \in Aborted
      BY <1>0, <2>1, <3>1 DEF PoliteInv, ByTurns
    <3>2. CASE react[stepTask].res \notin Aborted
      BY <2>1, <3>2 DEF ClosedUi, PoliteInv, ByTurns
    <3> QED  BY <3>1, <3>2
  <2> QED  BY <2>1, <2>2, <2>3 DEF PoliteInv, NoInterrupt, ByTurns, client
<1>6. ~GetInterrupt /\ ~RaceInterrupted /\ ~InterruptHandled
  BY <1>0 DEF GetInterrupt, RaceInterrupted, InterruptHandled, PoliteInv, NoInterrupt
<1> QED  BY <1>1, <1>2, <1>3, <1>4, <1>5, <1>6 DEF Run

LEMMA PoliteStep ==
  TypeInv /\ OnlyTheStep /\ PoliteInv /\ Polite /\ [Next]_vars => PoliteInv'
<1> SUFFICES ASSUME TypeInv, OnlyTheStep, PoliteInv, Polite, [Next]_vars PROVE PoliteInv'
  OBVIOUS
<1>1. CASE UNCHANGED vars
  <2>1. UNCHANGED <<intrLeft, intrQ, gb, inputQ, runPc, ui, stepTask, react, subQ, ga, cur,
                    overlapped>>
    BY <1>1 DEF vars, client, queues, runVars
  <2> QED  BY <2>1 DEF PoliteInv, NoInterrupt, ByTurns, Quiet, OnePending
<1> QED  BY <1>1, PoliteClient, PoliteReact, PoliteRun DEF Next

\* Clients that wait for the end of a turn before they send the next message, and
\* never interrupt, never see two reacts at once, although the end of a turn is
\* reported before run() has closed it (engine.py 293-331).
THEOREM TurnsDoNotOverlap == Polite => (Spec => []SingleReact)
<1>1. OnlyTheStep /\ PoliteInv => SingleReact
  BY DEF OnlyTheStep, PoliteInv, ByTurns, SingleReact
<1> SUFFICES ASSUME Polite PROVE Spec => []SingleReact
  OBVIOUS
<1> QED  BY <1>1, PoliteInit, PoliteStep, TypeInvariance, StepInit, StepStep, PTL DEF Spec

-----------------------------------------------------------------------------
(* LLMSeesWellFormed, for the same clients, from a well-formed conversation. *)

(* The entry at i of a conversation stands with what belongs to it.         *)
Good(q, i) ==
  /\ q[i].role = "assistant" =>
       \A k \in 1..q[i].n : i + k \in 1..Len(q) /\ q[i + k] = ToolMsg(q[i].by, q[i].step, k)
  /\ q[i].role = "tool" =>
       /\ i > q[i].n /\ q[i - q[i].n].role = "assistant"
       /\ q[i - q[i].n].by = q[i].by /\ q[i - q[i].n].step = q[i].step
       /\ q[i - q[i].n].n >= q[i].n

(* It ends with n calls of which j have their results; the rest is good.   *)
MidCalls(q, m, it, n, j) ==
  /\ j \in 0..n /\ Len(q) - j >= 1
  /\ q[Len(q) - j] = Assistant(m, it, n)
  /\ \A k \in 1..j : q[Len(q) - j + k] = ToolMsg(m, it, k)
  /\ \A i \in 1..Len(q) : i # Len(q) - j => Good(q, i)

LEMMA EntryAt ==
  ASSUME NEW q \in Seq(Entry), NEW i \in 1..Len(q)
  PROVE  q[i] \in Entry /\ q[i].n \in Nat
<1>1. q[i] \in Entry
  OBVIOUS
<1> QED  BY <1>1 DEF Entry

LEMMA FormOfEach ==
  ASSUME NEW q \in Seq(Entry)
  PROVE  WellFormed(q) <=> \A i \in 1..Len(q) : Good(q, i)
<1>1. DOMAIN q = 1..Len(q)
  OBVIOUS
<1> QED  BY <1>1, Zenon DEF WellFormed, Good

\* What a good result says of the calls it belongs to.
LEMMA GoodResult ==
  ASSUME NEW q, NEW i, NEW e, NEW a, Good(q, i), e = q[i], e.role = "tool", a = i - e.n
  PROVE  /\ i > e.n /\ q[a].role = "assistant" /\ q[a].by = e.by
         /\ q[a].step = e.step /\ q[a].n >= e.n
BY DEF Good

LEMMA Extended ==
  ASSUME NEW q \in Seq(Entry), NEW e \in Entry
  PROVE  /\ Append(q, e) \in Seq(Entry) /\ Len(Append(q, e)) = Len(q) + 1
         /\ Append(q, e)[Len(q) + 1] = e
         /\ \A i \in 1..Len(q) : Append(q, e)[i] = q[i]
OBVIOUS

\* What is good stays good when an entry is appended.
LEMMA GoodStays ==
  ASSUME NEW q \in Seq(Entry), NEW p \in Seq(Entry), Len(p) >= Len(q),
         \A i \in 1..Len(q) : p[i] = q[i],
         NEW i \in 1..Len(q), Good(q, i)
  PROVE  Good(p, i)
<1>1. p[i] = q[i] /\ q[i].n \in Nat
  BY EntryAt
<1>2. ASSUME q[i].role = "assistant", NEW k \in 1..q[i].n
      PROVE  i + k \in 1..Len(p) /\ p[i + k] = ToolMsg(q[i].by, q[i].step, k)
  BY <1>2 DEF Good
<1>3. ASSUME q[i].role = "tool"
      PROVE  i > q[i].n /\ p[i - q[i].n] = q[i - q[i].n]
  <2>1. i > q[i].n /\ i - q[i].n \in 1..Len(q)
    BY <1>1, <1>3 DEF Good
  <2> QED  BY <2>1
<1> QED  BY <1>1, <1>2, <1>3 DEF Good

LEMMA PlainAppended ==
  ASSUME NEW q \in Seq(Entry), WellFormed(q), NEW e \in Entry,
         e.role = "user" \/ (e.role = "assistant" /\ e.n = 0)
  PROVE  WellFormed(Append(q, e))
<1> DEFINE p == Append(q, e)
<1>1. /\ p \in Seq(Entry) /\ Len(p) = Len(q) + 1 /\ p[Len(q) + 1] = e
      /\ \A i \in 1..Len(q) : p[i] = q[i]
  BY Extended
<1> HIDE DEF p
<1>2. \A i \in 1..Len(q) : Good(p, i)
  BY <1>1, FormOfEach, GoodStays
<1>3. Good(p, Len(q) + 1)
  BY <1>1 DEF Good
<1>4. \A i \in 1..Len(p) : i \in 1..Len(q) \/ i = Len(q) + 1
  BY <1>1
<1> QED  BY <1>1, <1>2, <1>3, <1>4, FormOfEach DEF p

LEMMA CallsAppended ==
  ASSUME NEW q \in Seq(Entry), WellFormed(q), NEW m \in Msgs, NEW it \in Nat, NEW n \in Nat
  PROVE  MidCalls(Append(q, Assistant(m, it, n)), m, it, n, 0)
<1> DEFINE e == Assistant(m, it, n)
           p == Append(q, e)
<1>1. e \in Entry
  BY EntryTypes
<1> HIDE DEF e
<1>2. /\ p \in Seq(Entry) /\ Len(p) = Len(q) + 1 /\ p[Len(q) + 1] = e
      /\ \A i \in 1..Len(q) : p[i] = q[i]
  BY <1>1, Extended
<1> HIDE DEF p
<1>3. \A i \in 1..Len(q) : Good(p, i)
  BY <1>2, FormOfEach, GoodStays
<1>4. \A i \in 1..Len(p) : i # Len(p) - 0 => Good(p, i)
  BY <1>2, <1>3
<1>5. MidCalls(p, m, it, n, 0)
  BY <1>2, <1>4 DEF MidCalls, e
<1> QED  BY <1>5 DEF p, e

\* The next result of the calls joins those that are there.
LEMMA ResultAppended ==
  ASSUME NEW q \in Seq(Entry), NEW m \in Msgs, NEW it \in Nat, NEW n \in Nat, NEW j \in Nat,
         j < n, MidCalls(q, m, it, n, j)
  PROVE  MidCalls(Append(q, ToolMsg(m, it, j + 1)), m, it, n, j + 1)
<1> DEFINE e == ToolMsg(m, it, j + 1)
           p == Append(q, e)
           a == Len(q) - j
<1>1. /\ e \in Entry /\ e.role = "tool" /\ e.by = m /\ e.step = it /\ e.n = j + 1
  BY EntryTypes DEF ToolMsg
<1>2. e = ToolMsg(m, it, j + 1)
  OBVIOUS
<1> HIDE DEF e
<1>3. /\ p \in Seq(Entry) /\ Len(p) = Len(q) + 1 /\ p[Len(q) + 1] = e
      /\ \A i \in 1..Len(q) : p[i] = q[i]
  BY <1>1, Extended
<1> HIDE DEF p
<1>4. /\ a \in 1..Len(q) /\ a = Len(p) - (j + 1) /\ q[a] = Assistant(m, it, n)
      /\ \A k \in 1..j : q[a + k] = ToolMsg(m, it, k)
      /\ \A i \in 1..Len(q) : i # a => Good(q, i)
  BY <1>3 DEF MidCalls
<1>5. p[a] = Assistant(m, it, n)
  BY <1>3, <1>4
<1>6. ASSUME NEW k \in 1..j + 1
      PROVE  p[a + k] = ToolMsg(m, it, k)
  <2>1. CASE k \in 1..j
    <3>1. a + k \in 1..Len(q)
      BY <1>4, <2>1
    <3>2. p[a + k] = q[a + k]
      BY <1>3, <3>1
    <3> QED  BY <1>4, <2>1, <3>2
  <2>2. CASE k = j + 1
    BY <1>2, <1>3, <1>4, <2>2
  <2> QED  BY <2>1, <2>2
<1>7. ASSUME NEW i \in 1..Len(p), i # a
      PROVE  Good(p, i)
  <2>1. CASE i \in 1..Len(q)
    BY <1>3, <1>4, <1>7, <2>1, GoodStays
  <2>2. CASE i = Len(q) + 1
    <3>1. p[i] = e /\ i - e.n = a /\ i > e.n
      BY <1>1, <1>3, <1>4, <2>2
    <3>2. p[a].role = "assistant" /\ p[a].by = m /\ p[a].step = it /\ p[a].n = n
      BY <1>5 DEF Assistant
    <3> QED  BY <1>1, <3>1, <3>2 DEF Good
  <2> QED  BY <1>3, <2>1, <2>2
<1> HIDE DEF a
<1>8. MidCalls(p, m, it, n, j + 1)
  BY <1>3, <1>4, <1>5, <1>6, <1>7 DEF MidCalls
<1> QED  BY <1>2, <1>8 DEF p

\* When the last result is there, all is good.
LEMMA CallsComplete ==
  ASSUME NEW q \in Seq(Entry), NEW m \in Msgs, NEW it \in Nat, NEW n \in Nat,
         MidCalls(q, m, it, n, n)
  PROVE  WellFormed(q)
<1> DEFINE a == Len(q) - n
<1>1. /\ a \in 1..Len(q) /\ q[a] = Assistant(m, it, n)
      /\ \A k \in 1..n : q[a + k] = ToolMsg(m, it, k)
      /\ \A i \in 1..Len(q) : i # a => Good(q, i)
  BY DEF MidCalls
<1>2. q[a].role = "assistant" /\ q[a].by = m /\ q[a].step = it /\ q[a].n = n
  BY <1>1 DEF Assistant
<1>3. \A k \in 1..n : a + k \in 1..Len(q)
  BY <1>1
<1>4. Good(q, a)
  BY <1>1, <1>2, <1>3 DEF Good
<1> QED  BY <1>1, <1>4, FormOfEach

\* A fold cuts just before a user message, so never between a call and its results.
LEMMA CutAtUser ==
  ASSUME NEW q \in Seq(Entry), FoldEnd(q) > 0
  PROVE  FoldEnd(q) + 1 \in 1..Len(q) /\ q[FoldEnd(q) + 1].role = "user"
<1> DEFINE n == Cardinality(Turns(q)) - Kept
           first == {i \in Turns(q) : Cardinality({j \in Turns(q) : j < i}) = n}
<1>1. ~(n <= 0 \/ first = {})
  BY DEF FoldEnd
<1>2. FoldEnd(q) = (CHOOSE i \in first : TRUE) - 1
  BY <1>1 DEF FoldEnd
<1>3. (CHOOSE i \in first : TRUE) \in first
  BY <1>1
<1>4. (CHOOSE i \in first : TRUE) \in Turns(q)
  BY <1>3
<1> HIDE DEF first
<1> QED  BY <1>2, <1>4 DEF Turns

LEMMA FoldKeepsForm ==
  ASSUME NEW q \in Seq(Entry), WellFormed(q), FoldEnd(q) > 0
  PROVE  WellFormed(Folded(q, FoldEnd(q)))
<1> SUFFICES ASSUME NEW f \in Nat, f > 0, f + 1 \in 1..Len(q), q[f + 1].role = "user"
             PROVE  WellFormed(Folded(q, f))
  BY CutAtUser, FoldEndType
<1> DEFINE p == Folded(q, f)
<1>1. /\ p \in Seq(Entry) /\ Len(p) = Len(q) - f
      /\ \A i \in 1..Len(p) : p[i] = q[f + i]
  BY DEF Folded
<1> HIDE DEF p
<1>2. ASSUME NEW i \in 1..Len(p)
      PROVE  Good(p, i)
  <2>1. PICK e \in Entry : e = q[f + i] /\ e = p[i]
    BY <1>1, EntryAt
  <2>2. e.n \in Nat /\ f + i \in 1..Len(q)
    <3>1. e.n \in Nat
      BY DEF Entry
    <3>2. f + i \in 1..Len(q)
      BY <1>1
    <3> QED  BY <3>1, <3>2
  <2>3. Good(q, f + i)
    BY <2>2, FormOfEach
  <2>4. ASSUME e.role = "assistant", NEW k \in 1..e.n
        PROVE  i + k \in 1..Len(p) /\ p[i + k] = ToolMsg(e.by, e.step, k)
    <3>1. f + i + k \in 1..Len(q) /\ q[f + i + k] = ToolMsg(e.by, e.step, k)
      BY <2>1, <2>3, <2>4 DEF Good
    <3>2. i + k \in 1..Len(p) /\ f + (i + k) = f + i + k
      BY <1>1, <2>2, <3>1
    <3> QED  BY <1>1, <3>1, <3>2
  <2>5. ASSUME e.role = "tool"
        PROVE  /\ i > e.n /\ p[i - e.n].role = "assistant"
               /\ p[i - e.n].by = e.by /\ p[i - e.n].step = e.step /\ p[i - e.n].n >= e.n
    <3>1. PICK a \in Int : a = (f + i) - e.n
      BY <2>2
    <3>2. /\ f + i > e.n /\ q[a].role = "assistant" /\ q[a].by = e.by
          /\ q[a].step = e.step /\ q[a].n >= e.n
      <4>1. Good(q, f + i) /\ e = q[f + i] /\ e.role = "tool"
        BY <2>1, <2>3, <2>5
      <4>2. a = (f + i) - e.n
        BY <2>2, <3>1
      <4> QED  BY <4>1, <4>2, GoodResult
    <3>3. a \in 1..Len(q)
      BY <2>2, <3>1, <3>2
    <3>4. Good(q, a) /\ q[a].n \in Nat
      BY <3>3, FormOfEach, EntryAt
    <3>5. a > f
      <4>1. SUFFICES ASSUME a <= f PROVE FALSE
        BY <3>3
      <4>2. PICK k \in Nat : k = f + 1 - a
        BY <3>3, <4>1
      <4>3. k \in 1..q[a].n /\ a + k = f + 1
        <5>1. k <= e.n
          BY <2>2, <3>1, <4>2
        <5>2. k <= q[a].n
          BY <2>2, <3>2, <3>4, <5>1
        <5> QED  BY <3>3, <3>4, <4>1, <4>2, <5>2
      <4>4. q[f + 1] = ToolMsg(q[a].by, q[a].step, k)
        BY <3>2, <3>4, <4>3 DEF Good
      <4> QED  BY <4>4 DEF ToolMsg
    <3>6. i > e.n /\ i - e.n \in 1..Len(p) /\ f + (i - e.n) = a
      BY <1>1, <2>2, <3>1, <3>3, <3>5
    <3>7. p[i - e.n] = q[a]
      BY <1>1, <3>6
    <3> QED  BY <3>2, <3>6, <3>7
  <2> QED  BY <2>1, <2>4, <2>5 DEF Good
<1> QED  BY <1>1, <1>2, FormOfEach DEF p

-----------------------------------------------------------------------------
(* What the conversation looks like at each suspension point of the react  *)
(* that works.                                                             *)
Calling == {"csave", "exec", "tsave"}     \* a call is without its result, or may be

Answered(r) == IF r.pc = "exec" THEN r.call - 1 ELSE r.call

InCalls(r, m, q) ==
  /\ r.call + Len(r.calls) = r.total
  /\ r.pc = "csave" => r.call = 0
  /\ r.pc \in {"exec", "tsave"} => r.call >= 1
  /\ MidCalls(q, m, r.iter, r.total, Answered(r))

InTurn(r, m, q) ==
  /\ ~r.cancelled
  /\ r.pc \in Calling => InCalls(r, m, q)
  /\ r.pc \notin Calling => WellFormed(q)
  /\ r.pc = "fold" => r.held = <<>> /\ FoldEnd(q) = r.foldAt /\ r.foldAt > 0

FormInv ==
  /\ WellFormed(before)
  /\ \A m \in Msgs : Running(m) => InTurn(react[m], m, messages)
  /\ (\A m \in Msgs : ~Running(m)) => WellFormed(messages)

\* A react that neither calls nor folds.
LEMMA PlainTurn ==
  ASSUME NEW r, NEW m, NEW q, ~r.cancelled, WellFormed(q),
         r.pc \notin Calling, r.pc # "fold"
  PROVE  InTurn(r, m, q)
BY DEF InTurn

LEMMA EndedTurn ==
  ASSUME NEW m, NEW q, NEW why \in Results, WellFormed(q)
  PROVE  InTurn(Ended(why), m, q)
<1>1. ~Ended(why).cancelled
  BY DEF Ended, Idle
<1>2. Ended(why).pc = "done"
  BY LocalTypes
<1> QED  BY <1>1, <1>2, PlainTurn DEF Calling

LEMMA BeginTurnForm ==
  ASSUME NEW m \in Msgs, NEW r \in Locals, NEW q \in Seq(Entry), react \in [Msgs -> Locals],
         ~r.cancelled, WellFormed(q), BeginTurn(m, r, q)
  PROVE  InTurn(react'[m], m, messages')
<1>1. messages' = q
  BY DEF BeginTurn
<1>2. CASE Set(m, [r EXCEPT !.pc = "stream", !.pend = <<>>])
  <2> DEFINE s == [r EXCEPT !.pc = "stream", !.pend = <<>>]
  <2>1. s.pc = "stream" /\ ~s.cancelled
    BY DEF Locals
  <2>2. react'[m] = s
    BY <1>2 DEF Set
  <2> HIDE DEF s
  <2> QED  BY <1>1, <2>1, <2>2, PlainTurn DEF Calling
<1>3. CASE /\ FoldEnd(q) > 0
           /\ Set(m, [r EXCEPT !.pc = "fold", !.pend = <<>>,
                               !.foldAt = FoldEnd(q), !.held = <<>>])
  <2> DEFINE s == [r EXCEPT !.pc = "fold", !.pend = <<>>, !.foldAt = FoldEnd(q), !.held = <<>>]
  <2>1. s.pc = "fold" /\ ~s.cancelled /\ s.foldAt = FoldEnd(q) /\ s.held = <<>>
    BY DEF Locals
  <2>2. react'[m] = s
    BY <1>3 DEF Set
  <2> HIDE DEF s
  <2> QED  BY <1>1, <1>3, <2>1, <2>2 DEF InTurn, Calling
<1> QED  BY <1>2, <1>3 DEF BeginTurn

\* With nothing to drain and no interrupt, the top of the loop leaves the
\* conversation as it is.
LEMMA LoopHeadForm ==
  ASSUME NEW m \in Msgs, NEW r \in Locals, NEW q \in Seq(Entry), react \in [Msgs -> Locals],
         ~r.cancelled, WellFormed(q), intrQ = 0, subQ = <<>>, LoopHead(m, r, q)
  PROVE  InTurn(react'[m], m, messages')
<1> DEFINE s == [r EXCEPT !.iter = @ + 1]
<1>1. s \in Locals
  BY NextIter
<1>2. ~s.cancelled
  BY DEF Locals
<1>3. CASE messages' = q /\ Set(m, Ended("maxsteps"))
  <2>1. "maxsteps" \in Results
    BY DEF Results
  <2> HIDE DEF s
  <2>2. react'[m] = Ended("maxsteps")
    BY <1>3 DEF Set
  <2> QED  BY <1>3, <2>1, <2>2, EndedTurn
<1>4. BeginTurn(m, s, q) \/ (messages' = q /\ Set(m, Ended("maxsteps")))
  BY DEF LoopHead
<1> HIDE DEF s
<1> QED  BY <1>1, <1>2, <1>3, <1>4, BeginTurnForm

\* The next call: its result is the next that joins the conversation.
LEMMA NextCallForm ==
  ASSUME NEW m \in Msgs, react \in [Msgs -> Locals], messages \in Seq(Entry),
         react[m].calls # <<>>, react[m].pc \in {"csave", "tsave"},
         InTurn(react[m], m, messages), NextCall(m)
  PROVE  InTurn(react'[m], m, messages')
<1> DEFINE r == react[m]
           t == [r EXCEPT !.calls = Tail(@), !.call = @ + 1]
           x == [t EXCEPT !.pc = "exec"]
           w == [t EXCEPT !.pc = "tsave", !.waitIo = TRUE]
<1>1. /\ r \in Locals /\ r.call \in Nat /\ r.total \in Nat /\ r.iter \in Nat
      /\ r.calls \in Seq({"tool", "wait_io"})
  BY LocalFields
<1>2. /\ x.pc = "exec" /\ x.call = r.call + 1 /\ x.total = r.total /\ x.iter = r.iter
      /\ x.calls = Tail(r.calls) /\ x.cancelled = r.cancelled
      /\ w.pc = "tsave" /\ w.call = r.call + 1 /\ w.total = r.total /\ w.iter = r.iter
      /\ w.calls = Tail(r.calls) /\ w.cancelled = r.cancelled
  BY <1>1 DEF Locals
<1>3. /\ r.call + Len(r.calls) = r.total /\ ~r.cancelled
      /\ MidCalls(messages, m, r.iter, r.total, r.call)
  BY DEF InTurn, InCalls, Calling, Answered
<1>4. Len(Tail(r.calls)) = Len(r.calls) - 1 /\ Len(r.calls) >= 1
  BY <1>1
<1>5. \/ react' = [react EXCEPT ![m] = x] /\ messages' = messages
      \/ react' = [react EXCEPT ![m] = w]
         /\ messages' = Append(messages, ToolMsg(m, r.iter, r.call + 1))
  BY DEF NextCall, Set
<1> HIDE DEF t, x, w, r
<1>6. (r.call + 1) - 1 = r.call /\ r.call + 1 >= 1 /\ r.call < r.total
      /\ (r.call + 1) + Len(Tail(r.calls)) = r.total
  BY <1>1, <1>3, <1>4
<1>7. CASE react' = [react EXCEPT ![m] = x] /\ messages' = messages
  <2>1. react'[m] = x
    BY <1>7
  <2>2. Answered(x) = r.call
    BY <1>2, <1>6 DEF Answered
  <2> QED  BY <1>2, <1>3, <1>6, <1>7, <2>1, <2>2 DEF InTurn, InCalls, Calling
<1>8. CASE react' = [react EXCEPT ![m] = w]
           /\ messages' = Append(messages, ToolMsg(m, r.iter, r.call + 1))
  <2>1. react'[m] = w
    BY <1>8
  <2>2. Answered(w) = r.call + 1
    BY <1>2 DEF Answered
  <2>3. MidCalls(messages', m, r.iter, r.total, r.call + 1)
    BY <1>1, <1>3, <1>6, <1>8, ResultAppended
  <2> QED  BY <1>2, <1>3, <1>6, <2>1, <2>2, <2>3 DEF InTurn, InCalls, Calling
<1> QED  BY <1>5, <1>7, <1>8

\* A step of the react that works leaves the conversation as its new suspension
\* point promises, and as well-formed when it ends.
LEMMA ReactForm ==
  ASSUME TypeInv, NEW m \in Msgs, subQ = <<>>, intrQ = 0,
         InTurn(react[m], m, messages), React(m)
  PROVE  InTurn(react'[m], m, messages')
<1> DEFINE r == react[m]
<1>0. /\ r \in Locals /\ react \in [Msgs -> Locals] /\ messages \in Seq(Entry)
      /\ LocalsFilled(react) /\ r.iter \in Nat /\ r.call \in Nat /\ r.total \in Nat
      /\ r.calls \in Seq({"tool", "wait_io"}) /\ r.pend \in Seq(Msgs)
  BY LocalFields DEF TypeInv, TypeOK
<1>1. ~r.cancelled /\ (r.pc \notin Calling => WellFormed(messages))
  BY DEF InTurn
<1>2. ASSUME NEW s, ~s.cancelled, s.pc \notin Calling, s.pc # "fold",
             WellFormed(messages'), react'[m] = s
      PROVE  InTurn(react'[m], m, messages')
  BY <1>2, PlainTurn
<1>3. \A x \in Msgs : User(x) \in Entry /\ User(x).role = "user"
  BY DEF User, Entry
<1>4. CASE ReactStart(m)
  <2>1. r.pc = "created" /\ LoopHead(m, r, messages)
    BY <1>4 DEF ReactStart, Live
  <2> QED  BY <1>0, <1>1, <2>1, LoopHeadForm DEF Calling
<1>5. CASE DrainSaved(m) \/ AggregateSaved(m)
  <2>1. r.pc \in {"dsave", "fdsave"} /\ r.pend # <<>> /\ WellFormed(messages)
    BY <1>0, <1>1, <1>5 DEF DrainSaved, AggregateSaved, Live, LocalsFilled, Calling
  <2>2. ASSUME Tail(r.pend) # <<>>,
               messages' = Append(messages, User(Head(Tail(r.pend)))),
               Set(m, [r EXCEPT !.pend = Tail(r.pend)])
        PROVE  InTurn(react'[m], m, messages')
    <3> DEFINE s == [r EXCEPT !.pend = Tail(r.pend)]
    <3>1. s.pc = r.pc /\ ~s.cancelled
      BY <1>0, <1>1 DEF Locals
    <3>2. react'[m] = s
      BY <1>0, <2>2 DEF Set
    <3>3. Head(Tail(r.pend)) \in Msgs
      BY <1>0, <2>1, <2>2
    <3>4. WellFormed(messages')
      BY <1>0, <1>3, <2>1, <2>2, <3>3, PlainAppended
    <3> HIDE DEF s
    <3> QED  BY <1>2, <2>1, <3>1, <3>2, <3>4 DEF Calling
  <2>3. ASSUME LoopHead(m, [r EXCEPT !.pend = <<>>], messages)
        PROVE  InTurn(react'[m], m, messages')
    <3> DEFINE s == [r EXCEPT !.pend = <<>>]
    <3>1. s \in Locals /\ ~s.cancelled
      BY <1>0, <1>1, EmptyLists DEF Locals
    <3> HIDE DEF s
    <3> QED  BY <1>0, <2>1, <2>3, <3>1, LoopHeadForm DEF s
  <2>4. ASSUME BeginTurn(m, r, messages)
        PROVE  InTurn(react'[m], m, messages')
    BY <1>0, <1>1, <2>1, <2>4, BeginTurnForm
  <2> QED  BY <1>5, <2>2, <2>3, <2>4 DEF DrainSaved, AggregateSaved
<1>6. CASE FoldReturns(m)
  <2>1. /\ r.pc = "fold" /\ r.held = <<>> /\ FoldEnd(messages) = r.foldAt /\ r.foldAt > 0
        /\ WellFormed(messages)
    BY <1>1, <1>6 DEF FoldReturns, Live, InTurn, Calling
  <2>2. ASSUME NEW h, NEW pc \in {"ksave", "stream"},
               \/ react' = [DetachAll EXCEPT ![m] = [r EXCEPT !.pc = pc, !.held = h]]
               \/ react' = [react EXCEPT ![m] = [r EXCEPT !.pc = pc, !.held = h]],
               WellFormed(messages')
        PROVE  InTurn(react'[m], m, messages')
    <3> DEFINE s == [r EXCEPT !.pc = pc, !.held = h]
    <3>1. s.pc = pc /\ ~s.cancelled
      BY <1>0, <1>1 DEF Locals
    <3>2. react'[m] = s
      BY <1>0, <2>2, DetachAllType
    <3> HIDE DEF s
    <3> QED  BY <1>2, <2>2, <3>1, <3>2 DEF Calling
  <2>3. \/ /\ messages' = Folded(messages, r.foldAt)
           /\ react' = [DetachAll EXCEPT ![m] = [r EXCEPT !.pc = "ksave",
                            !.held = <<Folded(messages, r.foldAt)>>]]
        \/ /\ messages' = messages
           /\ react' = [react EXCEPT ![m] = [r EXCEPT !.pc = "stream", !.held = <<>>]]
    BY <1>6, <2>1 DEF FoldReturns
  <2>4. WellFormed(Folded(messages, r.foldAt))
    BY <1>0, <2>1, FoldKeepsForm
  <2> QED  BY <2>1, <2>2, <2>3, <2>4
<1>7. CASE CompactSaved(m)
  <2> DEFINE s == [r EXCEPT !.pc = "stream", !.held = <<>>]
  <2>1. s.pc = "stream" /\ ~s.cancelled
    BY <1>0, <1>1 DEF Locals
  <2>2. react'[m] = s /\ messages' = messages /\ r.pc = "ksave"
    BY <1>0, <1>7 DEF CompactSaved, Live, Set
  <2> HIDE DEF s
  <2> QED  BY <1>1, <1>2, <2>1, <2>2 DEF Calling
<1>8. CASE StreamFatal(m) \/ StreamUnreachable(m)
  <2>1. r.pc = "stream" /\ WellFormed(messages)
    BY <1>1, <1>8 DEF StreamFatal, StreamUnreachable, Live, Calling
  <2>2. WellFormed(messages')
    <3>1. Note(m, r.iter) \in Entry /\ Note(m, r.iter).role = "user"
      BY <1>0 DEF Note, Entry
    <3>2. messages' = messages \/ messages' = Append(messages, Note(m, r.iter))
      BY <1>8 DEF StreamFatal, StreamUnreachable, ctx
    <3> QED  BY <1>0, <2>1, <3>1, <3>2, PlainAppended
  <2>3. PICK why \in Results : react'[m] = Ended(why)
    BY <1>0, <1>8 DEF StreamFatal, StreamUnreachable, Set, Results
  <2> QED  BY <2>2, <2>3, EndedTurn
<1>9. CASE StreamText(m)
  <2> DEFINE s == [r EXCEPT !.pc = "fsave"]
  <2>1. s.pc = "fsave" /\ ~s.cancelled
    BY <1>0, <1>1 DEF Locals
  <2>2. /\ react'[m] = s /\ r.pc = "stream"
        /\ messages' = Append(messages, Assistant(m, r.iter, 0))
    BY <1>0, <1>9 DEF StreamText, Live, Set
  <2>3. /\ Assistant(m, r.iter, 0) \in Entry /\ Assistant(m, r.iter, 0).role = "assistant"
        /\ Assistant(m, r.iter, 0).n = 0
    BY <1>0 DEF Assistant, Entry
  <2>4. WellFormed(messages')
    BY <1>0, <1>1, <2>2, <2>3, PlainAppended DEF Calling
  <2> HIDE DEF s
  <2> QED  BY <1>2, <2>1, <2>2, <2>4 DEF Calling
<1>10. CASE StreamCalls(m)
  <2>1. PICK n \in 1..MaxCalls : \E calls \in [1..n -> {"tool", "wait_io"}] :
          /\ messages' = Append(messages, Assistant(m, r.iter, n))
          /\ Set(m, [r EXCEPT !.pc = "csave", !.calls = calls, !.call = 0,
                              !.total = n, !.waitIo = FALSE])
    BY <1>10 DEF StreamCalls
  <2>2. PICK calls \in [1..n -> {"tool", "wait_io"}] :
          /\ messages' = Append(messages, Assistant(m, r.iter, n))
          /\ Set(m, [r EXCEPT !.pc = "csave", !.calls = calls, !.call = 0,
                              !.total = n, !.waitIo = FALSE])
    BY <2>1
  <2> DEFINE s == [r EXCEPT !.pc = "csave", !.calls = calls, !.call = 0,
                            !.total = n, !.waitIo = FALSE]
  <2>3. n \in Nat /\ Len(calls) = n
    BY BoundsAssumption
  <2>4. /\ s.pc = "csave" /\ ~s.cancelled /\ s.call = 0 /\ s.total = n /\ s.calls = calls
        /\ s.iter = r.iter
    BY <1>0, <1>1 DEF Locals
  <2>5. react'[m] = s /\ r.pc = "stream"
    BY <1>0, <1>10, <2>2 DEF StreamCalls, Live, Set
  <2>6. MidCalls(messages', m, r.iter, n, 0)
    BY <1>0, <1>1, <2>2, <2>3, <2>5, CallsAppended DEF Calling
  <2> HIDE DEF s
  <2>7. InCalls(s, m, messages')
    BY <2>3, <2>4, <2>6 DEF InCalls, Answered
  <2> QED  BY <2>4, <2>5, <2>7 DEF InTurn, Calling
<1>11. CASE StreamReasoning(m)
  <2>1. r.pc = "stream" /\ WellFormed(messages)
        /\ LoopHead(m, r, Append(messages, Note(m, r.iter)))
    BY <1>1, <1>11 DEF StreamReasoning, Live, Calling
  <2>2. Note(m, r.iter) \in Entry /\ Note(m, r.iter).role = "user"
    BY <1>0 DEF Note, Entry
  <2>3. /\ WellFormed(Append(messages, Note(m, r.iter)))
        /\ Append(messages, Note(m, r.iter)) \in Seq(Entry)
    BY <1>0, <2>1, <2>2, PlainAppended
  <2> QED  BY <1>0, <1>1, <2>1, <2>3, LoopHeadForm
<1>12. CASE FinalSaved(m)
  <2>1. react'[m] = Ended("text") /\ messages' = messages /\ r.pc = "fsave"
    BY <1>0, <1>12 DEF FinalSaved, Live, Set
  <2>2. "text" \in Results
    BY DEF Results
  <2> QED  BY <1>1, <2>1, <2>2, EndedTurn DEF Calling
<1>13. CASE CallsSaved(m)
  <2>1. r.pc = "csave" /\ r.calls # <<>> /\ NextCall(m)
    BY <1>0, <1>13 DEF CallsSaved, Live, LocalsFilled
  <2> QED  BY <1>0, <2>1, NextCallForm
<1>14. CASE ToolReturns(m)
  <2> DEFINE s == [r EXCEPT !.pc = "tsave"]
  <2>1. /\ s.pc = "tsave" /\ ~s.cancelled /\ s.call = r.call /\ s.total = r.total
        /\ s.calls = r.calls /\ s.iter = r.iter
    BY <1>0, <1>1 DEF Locals
  <2>2. /\ react'[m] = s /\ r.pc = "exec"
        /\ messages' = Append(messages, ToolMsg(m, r.iter, r.call))
    BY <1>0, <1>14 DEF ToolReturns, Live, Set
  <2>3. /\ r.call + Len(r.calls) = r.total /\ r.call >= 1
        /\ MidCalls(messages, m, r.iter, r.total, r.call - 1)
    BY <2>2 DEF InTurn, InCalls, Calling, Answered
  <2>4. MidCalls(messages', m, r.iter, r.total, r.call)
    <3>1. PICK j \in Nat : j = r.call - 1
      BY <1>0, <2>3
    <3>2. j < r.total /\ j + 1 = r.call
      BY <1>0, <2>3, <3>1
    <3> QED  BY <1>0, <2>2, <2>3, <3>1, <3>2, ResultAppended
  <2> HIDE DEF s
  <2>5. InCalls(s, m, messages')
    BY <2>1, <2>3, <2>4 DEF InCalls, Answered
  <2> QED  BY <2>1, <2>2, <2>5 DEF InTurn, Calling
<1>15. CASE ToolSaved(m)
  <2>1. r.pc = "tsave"
    BY <1>15 DEF ToolSaved, Live
  <2>2. CASE r.calls # <<>> /\ NextCall(m)
    BY <1>0, <2>1, <2>2, NextCallForm
  <2>3. CASE r.calls = <<>>
    <3>1. /\ r.call + Len(r.calls) = r.total
          /\ MidCalls(messages, m, r.iter, r.total, r.call)
      BY <2>1 DEF InTurn, InCalls, Calling, Answered
    <3>2. r.call = r.total
      BY <1>0, <2>3, <3>1
    <3>3. WellFormed(messages)
      BY <1>0, <3>1, <3>2, CallsComplete
    <3>4. CASE LoopHead(m, r, messages)
      BY <1>0, <1>1, <3>3, <3>4, LoopHeadForm
    <3>5. CASE messages' = messages /\ react'[m] = Ended("text")
      <4>1. "text" \in Results
        BY DEF Results
      <4> QED  BY <3>3, <3>5, <4>1, EndedTurn
    <3> QED  BY <1>0, <1>15, <2>3, <3>4, <3>5 DEF ToolSaved, Set
  <2> QED  BY <1>15, <2>2, <2>3 DEF ToolSaved
<1>16. ~StreamInterrupted(m) /\ ~CancelDelivered(m)
  BY <1>1 DEF StreamInterrupted, CancelDelivered
<1> QED
  BY <1>4, <1>5, <1>6, <1>7, <1>8, <1>9, <1>10, <1>11, <1>12, <1>13, <1>14, <1>15, <1>16
     DEF React, Save, Stream

LEMMA FormReact ==
  ASSUME TypeInv, OnlyTheStep, PoliteInv, FormInv, NEW m \in Msgs, React(m)
  PROVE  FormInv'
<1>1. ReactStep(m) /\ UNCHANGED runVars
  BY ReactSteps, ReactFrame
<1>2. Running(m) /\ m = stepTask /\ runPc # "closing" /\ stepTask # None
  BY <1>1, MsgsAssumption DEF ReactStep, OnlyTheStep, Running, Done, PoliteInv, ByTurns
<1>3. subQ = <<>> /\ intrQ = 0
  <2>1. Quiet /\ subQ \in Seq(Msgs)
    BY <1>2 DEF PoliteInv, ByTurns, TypeInv, TypeOK
  <2> QED  BY <2>1 DEF Quiet, PoliteInv, NoInterrupt
<1>4. InTurn(react'[m], m, messages')
  BY <1>2, <1>3, ReactForm DEF FormInv
<1>5. \A x \in Msgs \ {m} : ~Running(x) /\ ~Running(x)'
  BY <1>1, <1>2 DEF OnlyTheStep, PoliteInv, ByTurns, ReactStep, Running
<1>6. ASSUME \A x \in Msgs : ~Running(x)' PROVE WellFormed(messages')
  <2>1. react'[m].pc \notin Calling
    BY <1>6 DEF Running, Calling
  <2> QED  BY <1>4, <2>1 DEF InTurn
<1>7. WellFormed(before')
  BY <1>1 DEF runVars, FormInv
<1> QED  BY <1>4, <1>5, <1>6, <1>7 DEF FormInv

\* run() touches the conversation only when no react works.
LEMMA FormRun ==
  ASSUME TypeInv, OnlyTheStep, PoliteInv, FormInv, Run
  PROVE  FormInv'
<1>0. /\ messages \in Seq(Entry) /\ react \in [Msgs -> Locals]
      /\ ga \in Msgs \cup {None} /\ intrQ = 0 /\ ~gb
      /\ runPc = "msave" => cur \in Msgs
      /\ None \notin Msgs /\ ~overlapped
  BY MsgsAssumption DEF TypeInv, TypeOK, RunFilled, PoliteInv, NoInterrupt, ByTurns
<1>1. CASE GetMessage \/ RunClosed
  <2>1. UNCHANGED <<messages, before, react>>
    BY <1>1 DEF GetMessage, RunClosed, ctx
  <2> QED  BY <2>1 DEF FormInv, Running
<1>2. CASE RaceMessage
  <2>1. /\ ga \in Msgs /\ stepTask = None /\ UNCHANGED <<before, react>>
        /\ messages' = Append(messages, User(ga))
    BY <1>0, <1>2 DEF RaceMessage, PoliteInv, ByTurns, Quiet
  <2>2. \A x \in Msgs : ~Running(x) /\ ~Running(x)'
    BY <1>0, <2>1 DEF OnlyTheStep, Running
  <2>3. User(ga) \in Entry /\ User(ga).role = "user"
    BY <2>1 DEF User, Entry
  <2>4. WellFormed(messages')
    BY <1>0, <2>1, <2>2, <2>3, PlainAppended DEF FormInv
  <2> QED  BY <2>1, <2>2, <2>4 DEF FormInv
<1>3. CASE MessageSaved
  <2>1. /\ cur \in Msgs /\ stepTask = None /\ messages' = messages /\ before' = messages
        /\ react' = [react EXCEPT ![cur] = [Idle EXCEPT !.pc = "created",
                                                         !.cancelled = intrQ > 0]]
    BY <1>0, <1>3 DEF MessageSaved, PoliteInv, ByTurns, Quiet
  <2>2. \A x \in Msgs : ~Running(x)
    BY <1>0, <2>1 DEF OnlyTheStep
  <2>3. WellFormed(messages)
    BY <2>2 DEF FormInv
  <2> DEFINE s == [Idle EXCEPT !.pc = "created", !.cancelled = intrQ > 0]
  <2>4. s.pc = "created" /\ ~s.cancelled
    <3>1. s.pc = "created" /\ s.cancelled = (intrQ > 0)
      BY DEF Idle
    <3>2. ~(intrQ > 0)
      BY <1>0
    <3> QED  BY <3>1, <3>2
  <2>5. react'[cur] = s /\ \A x \in Msgs \ {cur} : react'[x] = react[x]
    BY <1>0, <2>1
  <2> HIDE DEF s
  <2>6. InTurn(s, cur, messages')
    BY <2>1, <2>3, <2>4, PlainTurn DEF Calling
  <2>7. \A x \in Msgs \ {cur} : ~Running(x)'
    BY <2>2, <2>5 DEF Running
  <2> QED  BY <2>1, <2>3, <2>5, <2>6, <2>7 DEF FormInv
<1>4. CASE RaceDone
  <2>1. /\ StepDone /\ before' = before
        /\ \/ messages' = before /\ react' = DetachAll
           \/ messages' = messages /\ react' = react
    BY <1>4 DEF RaceDone, DoneWins, RolledBack
  <2>2. \A x \in Msgs : ~Running(x)
    BY <1>0, <2>1 DEF StepDone, Done, OnlyTheStep, Running
  <2>3. \A x \in Msgs : ~Running(x)'
    BY <1>0, <2>1, <2>2, DetachAllType DEF Running
  <2> QED  BY <2>1, <2>2, <2>3 DEF FormInv
<1>5. ~GetInterrupt /\ ~RaceInterrupted /\ ~InterruptHandled
  BY <1>0 DEF GetInterrupt, RaceInterrupted, InterruptHandled, PoliteInv, NoInterrupt
<1> QED  BY <1>1, <1>2, <1>3, <1>4, <1>5 DEF Run

\* From well-formed conversations of the past, the LLM of such clients never sees
\* a call without its results or a result without its call: whatever it answers,
\* whichever tools it calls, and wherever the conversation is folded or rolled
\* back (compression.py 109-129, engine.py 293-331 and 837-893).
THEOREM TurnsAreWellFormed ==
  Polite /\ (\A h \in Histories : WellFormed(h)) => (Spec => []LLMSeesWellFormed)
<1> SUFFICES ASSUME Polite, \A h \in Histories : WellFormed(h)
             PROVE  Spec => []LLMSeesWellFormed
  OBVIOUS
<1>1. Init => FormInv
  <2> SUFFICES ASSUME Init PROVE FormInv
    OBVIOUS
  <2>1. \A m \in Msgs : react[m].pc = "none"
    BY DEF Init, Idle
  <2> QED  BY <2>1 DEF Init, FormInv, Running
<1>2. TypeInv /\ OnlyTheStep /\ PoliteInv /\ FormInv /\ [Next]_vars => FormInv'
  <2> SUFFICES ASSUME TypeInv, OnlyTheStep, PoliteInv, FormInv, [Next]_vars PROVE FormInv'
    OBVIOUS
  <2>1. CASE UNCHANGED vars \/ SendInterrupt \/ Pump \/ \E m \in Msgs : SendMessage(m)
    <3>1. UNCHANGED <<messages, before, react>>
      BY <2>1 DEF vars, runVars, ctx, SendInterrupt, Pump, SendMessage
    <3> QED  BY <3>1 DEF FormInv, Running
  <2> QED  BY <2>1, FormReact, FormRun DEF Next
<1>3. FormInv => LLMSeesWellFormed
  BY DEF FormInv, LLMSeesWellFormed, InTurn, Running, Calling
<1> QED
  BY <1>1, <1>2, <1>3, PoliteInit, PoliteStep, TypeInvariance, StepInit, StepStep, PTL
     DEF Spec
-----------------------------------------------------------------------------
(* ReplayAgrees, for the same clients.  Facts about the lasting messages of *)
(* a conversation and their places from the end.                            *)
Lasts(e, gone) == e.step = 0 \/ (e.role # "user" /\ e.by \notin gone)

LEMMA LastingTypes ==
  ASSUME NEW q \in Seq(Entry), NEW G
  PROVE  /\ Lasting(q, G) \subseteq 1..Len(q) /\ IsFiniteSet(Lasting(q, G))
         /\ Cardinality(Lasting(q, G)) \in Nat
         /\ \A i \in 1..Len(q) : /\ IsFiniteSet({j \in Lasting(q, G) : j >= i})
                                 /\ FromEnd(q, G, i) \in Nat
         /\ \A i \in Lasting(q, G) : FromEnd(q, G, i) >= 1
         /\ \A i \in 1..Len(q) : i \in Lasting(q, G) <=> Lasts(q[i], G)
<1>1. DOMAIN q = 1..Len(q)
  OBVIOUS
<1>2. /\ Lasting(q, G) \subseteq 1..Len(q)
      /\ \A i \in 1..Len(q) : i \in Lasting(q, G) <=> Lasts(q[i], G)
  BY <1>1 DEF Lasting, Lasts
<1>3. IsFiniteSet(1..Len(q))
  BY FS_Interval
<1>4. IsFiniteSet(Lasting(q, G)) /\ Cardinality(Lasting(q, G)) \in Nat
  BY <1>2, <1>3, FS_Subset, FS_CardinalityType
<1>5. ASSUME NEW i \in 1..Len(q)
      PROVE  /\ IsFiniteSet({j \in Lasting(q, G) : j >= i}) /\ FromEnd(q, G, i) \in Nat
             /\ i \in Lasting(q, G) => FromEnd(q, G, i) >= 1
  <2> DEFINE S == {j \in Lasting(q, G) : j >= i}
  <2>1. S \in SUBSET Lasting(q, G) /\ (i \in Lasting(q, G) => i \in S)
    BY <1>2
  <2>2. IsFiniteSet(S) /\ Cardinality(S) \in Nat
    BY <1>4, <2>1, FS_Subset, FS_CardinalityType
  <2>3. i \in Lasting(q, G) => Cardinality(S) # 0
    BY <2>1, <2>2, FS_EmptySet
  <2>4. FromEnd(q, G, i) = Cardinality(S)
    BY DEF FromEnd
  <2> HIDE DEF S
  <2>5. i \in Lasting(q, G) => Cardinality(S) >= 1
    BY <2>2, <2>3
  <2> QED  BY <2>2, <2>4, <2>5 DEF S
<1> QED  BY <1>2, <1>4, <1>5

\* What an appended message adds to them.
Grown(p, q, e) == p = Append(q, e)

LEMMA LastingGrown ==
  ASSUME NEW q \in Seq(Entry), NEW e \in Entry, NEW G, NEW p, Grown(p, q, e)
  PROVE  /\ ~Lasts(e, G) => Lasting(p, G) = Lasting(q, G)
         /\ Lasts(e, G) =>
              /\ Lasting(p, G) = Lasting(q, G) \cup {Len(q) + 1}
              /\ Cardinality(Lasting(p, G)) = Cardinality(Lasting(q, G)) + 1
              /\ \A i \in Lasting(q, G) : FromEnd(p, G, i) = FromEnd(q, G, i) + 1
              /\ FromEnd(p, G, Len(q) + 1) = 1
<1>1. /\ p \in Seq(Entry) /\ Len(p) = Len(q) + 1 /\ p[Len(q) + 1] = e
      /\ \A i \in 1..Len(q) : p[i] = q[i]
  BY Extended DEF Grown
<1>2. PICK n \in Nat : n = Len(q)
  OBVIOUS
<1> DEFINE L == Lasting(q, G)
           M == Lasting(p, G)
<1>3. /\ L \subseteq 1..n /\ M \subseteq 1..n + 1
      /\ \A i \in 1..n : i \in L <=> Lasts(q[i], G)
      /\ \A i \in 1..n + 1 : i \in M <=> Lasts(p[i], G)
      /\ IsFiniteSet(L)
  BY <1>1, <1>2, LastingTypes
<1>9. /\ \A i : FromEnd(p, G, i) = Cardinality({j \in M : j >= i})
      /\ \A i : FromEnd(q, G, i) = Cardinality({j \in L : j >= i})
  BY DEF FromEnd
<1> HIDE DEF L, M
<1>4. \A i \in 1..n : i \in M <=> i \in L
  BY <1>1, <1>2, <1>3
<1>5. n + 1 \in M <=> Lasts(e, G)
  BY <1>1, <1>2, <1>3
<1>6. n + 1 \notin L
  BY <1>3
<1>7. \A i \in 1..n + 1 : i \in 1..n \/ i = n + 1
  OBVIOUS
<1>8. ASSUME ~Lasts(e, G) PROVE M = L
  BY <1>3, <1>4, <1>5, <1>6, <1>7, <1>8
<1>10. ASSUME Lasts(e, G)
       PROVE  /\ M = L \cup {n + 1} /\ Cardinality(M) = Cardinality(L) + 1
              /\ \A i \in L : FromEnd(p, G, i) = FromEnd(q, G, i) + 1
              /\ FromEnd(p, G, n + 1) = 1
  <2>1. ASSUME NEW i PROVE i \in M <=> i \in L \cup {n + 1}
    BY <1>3, <1>4, <1>5, <1>7, <1>10
  <2>2. M = L \cup {n + 1}
    BY <2>1
  <2>3. Cardinality(M) = Cardinality(L) + 1
    BY <1>3, <1>6, <2>2, FS_AddElement
  <2>4. ASSUME NEW i \in L PROVE FromEnd(p, G, i) = FromEnd(q, G, i) + 1
    <3> DEFINE S == {j \in L : j >= i}
    <3>1. i \in 1..n
      BY <1>3
    <3>2. {j \in M : j >= i} = S \cup {n + 1}
      BY <2>2, <3>1
    <3>3. S \subseteq L /\ n + 1 \notin S
      BY <1>6
    <3>4. IsFiniteSet(S)
      BY <1>3, <3>3, FS_Subset
    <3>5. Cardinality(S \cup {n + 1}) = Cardinality(S) + 1
      BY <3>3, <3>4, FS_AddElement
    <3> QED  BY <1>9, <3>2, <3>5
  <2>5. FromEnd(p, G, n + 1) = 1
    <3>1. \A j \in L : ~(j >= n + 1)
      BY <1>3
    <3>2. {j \in M : j >= n + 1} = {n + 1}
      BY <2>2, <3>1
    <3>3. Cardinality({n + 1}) = 1
      BY FS_Singleton
    <3> QED  BY <1>9, <3>2, <3>3
  <2> QED  BY <2>2, <2>3, <2>4, <2>5
<1> QED  BY <1>2, <1>8, <1>10 DEF L, M

LEMMA OtherGrown ==
  ASSUME NEW q \in Seq(Entry), NEW e \in Entry, NEW G, ~Lasts(e, G), NEW p, Grown(p, q, e)
  PROVE  /\ Lasting(p, G) = Lasting(q, G)
         /\ \A i : FromEnd(p, G, i) = FromEnd(q, G, i)
<1>1. Lasting(p, G) = Lasting(q, G)
  BY LastingGrown
<1> QED  BY <1>1 DEF FromEnd

LEMMA LastingKept ==
  ASSUME NEW q \in Seq(Entry), NEW e \in Entry, NEW G, NEW p, Grown(p, q, e)
  PROVE  (\A i \in Lasting(q, G) : p[i] = q[i]) /\ p[Len(q) + 1] = e
<1>1. Lasting(q, G) \subseteq 1..Len(q)
  BY LastingTypes
<1>2. p[Len(q) + 1] = e /\ \A i \in 1..Len(q) : p[i] = q[i]
  BY Extended DEF Grown
<1> QED  BY <1>1, <1>2


\* A conversation ends with itself.
LEMMA EndsSelf ==
  ASSUME NEW q \in Seq(Entry), NEW G
  PROVE  EndsWith(q, q, G)
<1> DEFINE L == Lasting(q, G)
           S(i) == {k \in L : k >= i}
<1>0. L \subseteq 1..Len(q) /\ Len(q) \in Nat /\ Cardinality(L) \in Nat /\ IsFiniteSet(L)
  BY LastingTypes
<1>9. \A i : FromEnd(q, G, i) = Cardinality(S(i))
  BY DEF FromEnd
<1> HIDE DEF L
<1>1. ASSUME NEW i \in L, NEW j \in L, i < j
      PROVE  Cardinality(S(i)) # Cardinality(S(j))
  <2>1. \A k \in L : k \in Nat
    BY <1>0
  <2>2. i \in S(i) /\ i \notin S(j) /\ S(j) \subseteq S(i) /\ S(i) \subseteq L
    BY <1>1, <2>1
  <2>3. IsFiniteSet(S(i))
    BY <1>0, <2>2, FS_Subset
  <2> QED  BY <2>2, <2>3, FS_Subset
<1>2. \A i \in L : i \in Nat
  BY <1>0
<1>3. ASSUME NEW i \in L, NEW j \in L, FromEnd(q, G, i) = FromEnd(q, G, j)
      PROVE  i = j
  <2>1. i < j \/ j < i \/ i = j
    BY <1>2
  <2>2. Cardinality(S(i)) = Cardinality(S(j))
    BY <1>3, <1>9
  <2> QED  BY <1>1, <2>1, <2>2
<1>4. Cardinality(L) <= Cardinality(L)
  BY <1>0
<1> QED  BY <1>3, <1>4 DEF EndsWith, L

\* One lasting message more in both.
LEMMA EndsBothGrown ==
  ASSUME NEW p \in Seq(Entry), NEW q \in Seq(Entry), NEW G, EndsWith(p, q, G),
         NEW e \in Entry, Lasts(e, G)
  PROVE  EndsWith(Append(p, e), Append(q, e), G)
<1> DEFINE u == Append(p, e)
           v == Append(q, e)
<1>u. Grown(u, p, e)
  BY DEF Grown
<1>v. Grown(v, q, e)
  BY DEF Grown
<1> HIDE DEF u, v
<1>1. /\ Lasting(u, G) = Lasting(p, G) \cup {Len(p) + 1}
      /\ Cardinality(Lasting(u, G)) = Cardinality(Lasting(p, G)) + 1
      /\ \A i \in Lasting(p, G) : FromEnd(u, G, i) = FromEnd(p, G, i) + 1
      /\ FromEnd(u, G, Len(p) + 1) = 1
  BY <1>u, LastingGrown
<1>1k. u[Len(p) + 1] = e /\ \A i \in Lasting(p, G) : u[i] = p[i]
  BY <1>u, LastingKept
<1>2. /\ Lasting(v, G) = Lasting(q, G) \cup {Len(q) + 1}
      /\ Cardinality(Lasting(v, G)) = Cardinality(Lasting(q, G)) + 1
      /\ \A i \in Lasting(q, G) : FromEnd(v, G, i) = FromEnd(q, G, i) + 1
      /\ FromEnd(v, G, Len(q) + 1) = 1
  BY <1>v, LastingGrown
<1>2k. v[Len(q) + 1] = e /\ \A i \in Lasting(q, G) : v[i] = q[i]
  <2>1. v[Len(q) + 1] = e
    BY <1>v, LastingKept
  <2>2. \A i \in Lasting(q, G) : v[i] = q[i]
    BY <1>v, LastingKept
  <2> QED  BY <2>1, <2>2
<1>3. /\ Cardinality(Lasting(p, G)) \in Nat /\ Cardinality(Lasting(q, G)) \in Nat
      /\ \A i \in Lasting(p, G) : FromEnd(p, G, i) \in Nat /\ FromEnd(p, G, i) >= 1
      /\ \A i \in Lasting(q, G) : FromEnd(q, G, i) \in Nat /\ FromEnd(q, G, i) >= 1
  BY LastingTypes
<1>4. Cardinality(Lasting(v, G)) <= Cardinality(Lasting(u, G))
  BY <1>1, <1>2, <1>3 DEF EndsWith
<1>5. ASSUME NEW i \in Lasting(u, G), NEW j \in Lasting(v, G), FromEnd(u, G, i) = FromEnd(v, G, j)
      PROVE  u[i] = v[j]
  <2>1. CASE i \in Lasting(p, G) /\ j \in Lasting(q, G)
    <3>1. FromEnd(p, G, i) = FromEnd(q, G, j)
      BY <1>1, <1>2, <1>3, <1>5, <2>1
    <3> QED  BY <1>1k, <1>2k, <2>1, <3>1 DEF EndsWith
  <2>2. CASE i = Len(p) + 1 /\ j = Len(q) + 1
    BY <1>1k, <1>2k, <2>2
  <2>3. CASE i \in Lasting(p, G) /\ j = Len(q) + 1
    BY <1>1, <1>2, <1>3, <1>5, <2>3
  <2>4. CASE i = Len(p) + 1 /\ j \in Lasting(q, G)
    BY <1>1, <1>2, <1>3, <1>5, <2>4
  <2> QED  BY <1>1, <1>2, <2>1, <2>2, <2>3, <2>4
<1> QED  BY <1>4, <1>5 DEF EndsWith, u, v

\* A message that does not last, in either.
LEMMA EndsOneGrown ==
  ASSUME NEW p \in Seq(Entry), NEW q \in Seq(Entry), NEW G, EndsWith(p, q, G),
         NEW e \in Entry, ~Lasts(e, G)
  PROVE  EndsWith(Append(p, e), q, G) /\ EndsWith(p, Append(q, e), G)
<1> DEFINE u == Append(p, e)
           v == Append(q, e)
<1>u. Grown(u, p, e)
  BY DEF Grown
<1>v. Grown(v, q, e)
  BY DEF Grown
<1> HIDE DEF u, v
<1>2. /\ Lasting(u, G) = Lasting(p, G)
      /\ \A i \in Lasting(p, G) : FromEnd(u, G, i) = FromEnd(p, G, i)
  BY <1>u, OtherGrown
<1>2k. \A i \in Lasting(p, G) : u[i] = p[i]
  BY <1>u, LastingKept
<1>3. /\ Lasting(v, G) = Lasting(q, G)
      /\ \A i \in Lasting(q, G) : FromEnd(v, G, i) = FromEnd(q, G, i)
  BY <1>v, OtherGrown
<1>3k. \A i \in Lasting(q, G) : v[i] = q[i]
  BY <1>v, LastingKept
<1>4. EndsWith(u, q, G)
  BY <1>2, <1>2k DEF EndsWith
<1>5. EndsWith(p, v, G)
  BY <1>3, <1>3k DEF EndsWith
<1> QED  BY <1>4, <1>5 DEF u, v

\* Its oldest messages may go.
LEMMA EndsDropped ==
  ASSUME NEW p \in Seq(Entry), NEW q \in Seq(Entry), NEW G, EndsWith(p, q, G),
         NEW k \in Nat, k <= Len(q)
  PROVE  EndsWith(p, SubSeq(q, k + 1, Len(q)), G)
<1> DEFINE v == SubSeq(q, k + 1, Len(q))
           L == Lasting(q, G)
           M == Lasting(v, G)
<1>1. v \in Seq(Entry) /\ Len(v) = Len(q) - k /\ \A j \in 1..Len(q) - k : v[j] = q[k + j]
  OBVIOUS
<1> HIDE DEF v
<1>2. PICK n \in Nat : n = Len(q)
  OBVIOUS
<1>3. /\ L \subseteq 1..n /\ IsFiniteSet(L) /\ \A i \in 1..n : i \in L <=> Lasts(q[i], G)
      /\ M \subseteq 1..n - k /\ IsFiniteSet(M) /\ \A i \in 1..n - k : i \in M <=> Lasts(v[i], G)
  BY <1>1, <1>2, LastingTypes
<1>4. /\ \A i : FromEnd(v, G, i) = Cardinality({j \in M : j >= i})
      /\ \A i : FromEnd(q, G, i) = Cardinality({j \in L : j >= i})
  BY DEF FromEnd
<1>5. \A j \in 1..n - k : v[j] = q[k + j] /\ k + j \in 1..n
  BY <1>1, <1>2
<1> HIDE DEF L, M
<1>6. \A j \in M : j + k \in L /\ v[j] = q[j + k]
  BY <1>3, <1>5
<1>7. \A i \in L : i > k => i - k \in M
  BY <1>3, <1>5
<1>8. ASSUME NEW i \in Nat
      PROVE  Cardinality({j \in M : j >= i}) = Cardinality({j \in L : j >= i + k /\ j > k})
  <2> DEFINE S == {j \in M : j >= i}
             T == {j \in L : j >= i + k /\ j > k}
             f == [j \in S |-> j + k]
  <2>1. \A j \in M : j \in Nat /\ j >= 1
    BY <1>3
  <2>2. \A j \in L : j \in Nat
    BY <1>3
  <2>3. \A j \in S : j + k \in T
    BY <1>6, <2>1
  <2>4. \A t \in T : t - k \in S /\ (t - k) + k = t
    BY <1>7, <2>2
  <2>5. f \in Injection(S, T)
    <3>1. \A a, b \in S : a + k = b + k => a = b
      BY <2>1
    <3> QED  BY <2>3, <3>1 DEF Injection, IsInjective
  <2>6. f \in Surjection(S, T)
    BY <2>3, <2>4 DEF Surjection
  <2>7. f \in Bijection(S, T)
    BY <2>5, <2>6 DEF Bijection
  <2>8. S \subseteq M /\ T \subseteq L
    OBVIOUS
  <2>9. IsFiniteSet(S) /\ IsFiniteSet(T)
    BY <1>3, <2>8, FS_Subset
  <2> HIDE DEF S, T, f
  <2>10. Cardinality(S) = Cardinality(T)
    BY <2>7, <2>9, FS_Bijection DEF ExistsBijection
  <2> QED  BY <2>10 DEF S, T
<1>9. Cardinality(M) <= Cardinality(L)
  <2> DEFINE T == {j \in L : j >= 0 + k /\ j > k}
  <2>1. {j \in M : j >= 0} = M
    <3>1. \A j \in M : j >= 0
      BY <1>3
    <3> QED  BY <3>1
  <2>2. Cardinality(M) = Cardinality(T)
    BY <1>8, <2>1
  <2>3. T \subseteq L
    OBVIOUS
  <2> HIDE DEF T
  <2> QED  BY <1>3, <2>2, <2>3, FS_Subset
<1>10. ASSUME NEW j \in M
       PROVE  FromEnd(v, G, j) = FromEnd(q, G, j + k)
  <2>1. j \in Nat /\ j >= 1
    BY <1>3
  <2>2. {i \in L : i >= j + k /\ i > k} = {i \in L : i >= j + k}
    <3>1. ASSUME NEW i \in L, i >= j + k PROVE i > k
      <4>1. i \in Nat
        BY <1>3
      <4> HIDE DEF L
      <4> QED  BY <2>1, <3>1, <4>1
    <3> QED  BY <3>1
  <2> QED  BY <1>4, <1>8, <2>1, <2>2
<1>11. /\ Cardinality(L) <= Cardinality(Lasting(p, G))
       /\ \A i \in Lasting(p, G), j \in L : FromEnd(p, G, i) = FromEnd(q, G, j) => p[i] = q[j]
  BY DEF EndsWith, L
<1>12. ASSUME NEW i \in Lasting(p, G), NEW j \in M, FromEnd(p, G, i) = FromEnd(v, G, j)
       PROVE  p[i] = v[j]
  BY <1>6, <1>10, <1>11, <1>12
<1>13. Cardinality(M) <= Cardinality(Lasting(p, G))
  <2>1. Cardinality(M) \in Nat /\ Cardinality(L) \in Nat /\ Cardinality(Lasting(p, G)) \in Nat
    BY <1>3, LastingTypes, FS_CardinalityType
  <2> QED  BY <1>9, <1>11, <2>1
<1> QED  BY <1>12, <1>13 DEF EndsWith, M, v

\* What a react that has not begun has not said cannot be forgotten either.
NotBy(q, x) == \A i \in 1..Len(q) : q[i].by = x => q[i].step = 0

LEMMA EndsForgotten ==
  ASSUME NEW p \in Seq(Entry), NEW q \in Seq(Entry), NEW G, NEW x, EndsWith(p, q, G),
         NotBy(p, x), NotBy(q, x)
  PROVE  EndsWith(p, q, G \cup {x})
<1>1. ASSUME NEW s \in Seq(Entry), NotBy(s, x)
      PROVE  /\ Lasting(s, G \cup {x}) = Lasting(s, G)
             /\ \A i : FromEnd(s, G \cup {x}, i) = FromEnd(s, G, i)
  <2>1. \A i \in 1..Len(s) : Lasts(s[i], G \cup {x}) <=> Lasts(s[i], G)
    BY <1>1 DEF NotBy, Lasts
  <2>2. Lasting(s, G \cup {x}) = Lasting(s, G)
    <3>1. /\ Lasting(s, G \cup {x}) \subseteq 1..Len(s)
          /\ \A i \in 1..Len(s) : i \in Lasting(s, G \cup {x}) <=> Lasts(s[i], G \cup {x})
      BY LastingTypes
    <3>2. /\ Lasting(s, G) \subseteq 1..Len(s)
          /\ \A i \in 1..Len(s) : i \in Lasting(s, G) <=> Lasts(s[i], G)
      BY LastingTypes
    <3>3. ASSUME NEW i PROVE i \in Lasting(s, G \cup {x}) <=> i \in Lasting(s, G)
      BY <2>1, <3>1, <3>2
    <3> QED  BY <3>3
  <2> QED  BY <2>2 DEF FromEnd
<1> QED  BY <1>1 DEF EndsWith

LEMMA EndsEmpty ==
  ASSUME NEW p \in Seq(Entry), NEW G
  PROVE  EndsWith(p, <<>>, G)
<1>1. Lasting(<<>>, G) = {}
  BY DEF Lasting
<1>2. Cardinality(Lasting(<<>>, G)) = 0
  BY <1>1, FS_EmptySet
<1>3. Cardinality(Lasting(p, G)) \in Nat
  BY LastingTypes
<1> QED  BY <1>1, <1>2, <1>3 DEF EndsWith

LEMMA EndsFolded ==
  ASSUME NEW p \in Seq(Entry), NEW q \in Seq(Entry), NEW G, EndsWith(p, q, G), NEW k \in Nat
  PROVE  EndsWith(p, Folded(q, k), G)
<1>1. CASE k <= Len(q)
  BY <1>1, EndsDropped DEF Folded
<1>2. CASE k > Len(q)
  <2>1. SubSeq(q, k + 1, Len(q)) = <<>>
    BY <1>2
  <2> QED  BY <2>1, EndsEmpty DEF Folded
<1> QED  BY <1>1, <1>2

\* What memory and log are to agree on, and whose words they hold.
Agree(p, q, G) ==
  /\ EndsWith(p, q, G)
  /\ G = {} => Cardinality(Lasting(q, {})) = Cardinality(Lasting(p, {}))

By(q, B) == \A i \in 1..Len(q) : q[i].step = 0 \/ q[i].by \in B

LEMMA AgreeGrown ==
  ASSUME NEW p \in Seq(Entry), NEW q \in Seq(Entry), NEW G, NEW e \in Entry, Agree(p, q, G)
  PROVE  /\ Lasts(e, G) => Agree(Append(p, e), Append(q, e), G)
         /\ ~Lasts(e, G) => Agree(Append(p, e), q, G)
<1> DEFINE u == Append(p, e)
           v == Append(q, e)
<1>u. Grown(u, p, e)
  BY DEF Grown
<1>v. Grown(v, q, e)
  BY DEF Grown
<1>1. Lasts(e, G) => EndsWith(u, v, G)
  BY EndsBothGrown DEF Agree
<1>2. ~Lasts(e, G) => EndsWith(u, q, G)
  BY EndsOneGrown DEF Agree
<1> HIDE DEF u, v
<1>3. ASSUME Lasts(e, G), G = {}
      PROVE  Cardinality(Lasting(v, {})) = Cardinality(Lasting(u, {}))
  <2>1. Cardinality(Lasting(u, G)) = Cardinality(Lasting(p, G)) + 1
    BY <1>u, <1>3, LastingGrown
  <2>2. Cardinality(Lasting(v, G)) = Cardinality(Lasting(q, G)) + 1
    BY <1>v, <1>3, LastingGrown
  <2> QED  BY <1>3, <2>1, <2>2 DEF Agree
<1>4. ASSUME ~Lasts(e, G), G = {}
      PROVE  Cardinality(Lasting(q, {})) = Cardinality(Lasting(u, {}))
  <2>1. Lasting(u, G) = Lasting(p, G)
    BY <1>u, <1>4, OtherGrown
  <2> QED  BY <1>4, <2>1 DEF Agree
<1> QED  BY <1>1, <1>2, <1>3, <1>4 DEF Agree, u, v

LEMMA AgreeSelf ==
  ASSUME NEW q \in Seq(Entry), NEW G
  PROVE  Agree(q, q, G)
BY EndsSelf DEF Agree

LEMMA ByGrown ==
  ASSUME NEW q \in Seq(Entry), NEW e \in Entry, NEW B, By(q, B), e.step = 0 \/ e.by \in B
  PROVE  By(Append(q, e), B)
<1> DEFINE v == Append(q, e)
<1>1. /\ Len(v) = Len(q) + 1 /\ v[Len(q) + 1] = e
      /\ \A i \in 1..Len(q) : v[i] = q[i]
  BY Extended
<1> HIDE DEF v
<1>2. \A i \in 1..Len(v) : i \in 1..Len(q) \/ i = Len(q) + 1
  BY <1>1
<1>3. By(v, B)
  BY <1>1, <1>2 DEF By
<1> QED  BY <1>3 DEF v

(* What a step that works on p keeps of it, of the log q it will have       *)
(* written, and of the conversation b it began with: should it fail, what   *)
(* it has said itself does not count.                                       *)
Carry(p, q, b, m, G, B) ==
  /\ Agree(p, q, G)
  /\ EndsWith(p, q, G \cup {m}) /\ EndsWith(b, q, G \cup {m}) /\ EndsWith(b, p, G \cup {m})
  /\ By(p, B) /\ By(q, B) /\ By(b, B)

Said(e, m) == e \in Entry /\ e.by = m /\ e.step > 0

LEMMA CarryGrown ==
  ASSUME NEW p \in Seq(Entry), NEW q \in Seq(Entry), NEW b \in Seq(Entry), NEW m, NEW G, NEW B,
         Carry(p, q, b, m, G, B), m \notin G, m \in B, NEW e, Said(e, m)
  PROVE  /\ e.role # "user" => Carry(Append(p, e), Append(q, e), b, m, G, B)
         /\ e.role = "user" => Carry(Append(p, e), q, b, m, G, B)
<1>1. e \in Entry /\ e.by = m /\ e.step \in Nat /\ e.step # 0
  BY DEF Said, Entry
<1>2. ~Lasts(e, G \cup {m}) /\ (e.role # "user" <=> Lasts(e, G))
  BY <1>1 DEF Lasts
<1>3. By(Append(p, e), B) /\ By(Append(q, e), B)
  BY <1>1, ByGrown DEF Carry
<1>4. Append(p, e) \in Seq(Entry) /\ Append(q, e) \in Seq(Entry)
  BY <1>1
<1>5. EndsWith(Append(p, e), q, G \cup {m}) /\ EndsWith(b, Append(p, e), G \cup {m})
  BY <1>1, <1>2, EndsOneGrown DEF Carry
<1>6. EndsWith(b, Append(q, e), G \cup {m})
  BY <1>1, <1>2, EndsOneGrown DEF Carry
<1>7. EndsWith(Append(p, e), Append(q, e), G \cup {m})
  BY <1>1, <1>2, <1>4, <1>5, EndsOneGrown
<1>8. /\ e.role # "user" => Agree(Append(p, e), Append(q, e), G)
      /\ e.role = "user" => Agree(Append(p, e), q, G)
  BY <1>1, <1>2, AgreeGrown DEF Carry
<1> QED  BY <1>3, <1>5, <1>6, <1>7, <1>8 DEF Carry

LEMMA CarryFolded ==
  ASSUME NEW p \in Seq(Entry), NEW q, NEW b \in Seq(Entry), NEW m, NEW G, NEW B,
         Carry(p, q, b, m, G, B), NEW k \in Nat, Folded(p, k) \in Seq(Entry)
  PROVE  Carry(Folded(p, k), Folded(p, k), b, m, G, B)
<1>1. EndsWith(b, Folded(p, k), G \cup {m})
  BY EndsFolded DEF Carry
<1>2. By(Folded(p, k), B)
  <2> DEFINE v == SubSeq(p, k + 1, Len(p))
  <2>1. \A i \in 1..Len(v) : v[i] = p[k + i] /\ k + i \in 1..Len(p)
    OBVIOUS
  <2> HIDE DEF v
  <2>2. \A i \in 1..Len(v) : v[i].step = 0 \/ v[i].by \in B
    BY <2>1 DEF Carry, By
  <2> QED  BY <2>2 DEF By, Folded, v
<1>3. /\ Agree(Folded(p, k), Folded(p, k), G)
      /\ EndsWith(Folded(p, k), Folded(p, k), G \cup {m})
  BY AgreeSelf, EndsSelf
<1> QED  BY <1>1, <1>2, <1>3 DEF Carry

LEMMA CarryBegun ==
  ASSUME NEW p \in Seq(Entry), NEW q \in Seq(Entry), NEW m, NEW G, NEW A, NEW B,
         Agree(p, q, G), By(p, A), By(q, A), m \notin A, A \subseteq B
  PROVE  Carry(p, q, p, m, G, B)
<1>1. NotBy(p, m) /\ NotBy(q, m)
  BY DEF By, NotBy
<1>2. EndsWith(p, q, G \cup {m})
  BY <1>1, EndsForgotten DEF Agree
<1>3. EndsWith(p, p, G \cup {m})
  BY EndsSelf
<1>4. By(p, B) /\ By(q, B)
  BY DEF By
<1> QED  BY <1>2, <1>3, <1>4 DEF Carry

(* The log behind the append a react is suspended in, and what it replays  *)
(* to after it.                                                            *)
After(r, m, log) ==
  CASE r.pc \in {"dsave", "fdsave"} -> Append(log, User(Head(r.pend)))
    [] r.pc = "fsave"               -> Append(log, Assistant(m, r.iter, 0))
    [] r.pc = "csave"               -> Append(log, Assistant(m, r.iter, r.total))
    [] r.pc = "tsave"               -> Append(log, ToolMsg(m, r.iter, r.call))
    [] r.pc = "ksave"               -> r.held[1]
    [] OTHER                        -> log

(* Where a react stands: the log, with the append it waits for, agrees with *)
(* the conversation, and both with what it began with; and its notes, which *)
(* are not written, can be told from messages, as turns count from 1.       *)
(* Nobody cancels it, it drains nothing, and a fold works on the            *)
(* conversation itself.                                                     *)
InLog(r, m, q, log, b, G, B) ==
  /\ Carry(q, After(r, m, log), b, m, G, B)
  /\ r.pc \notin {"created", "done"} => r.iter >= 1
  /\ r.pc = "ksave" => r.held = <<q>>
  /\ r.pc = "fold" => r.held = <<>>
  /\ r.pc \notin {"none", "dsave", "fdsave"} /\ ~r.cancelled

Begun == {x \in Msgs : react[x].pc # "none"} \cup Past
Log == IF runPc = "msave" THEN Append(durable, User(cur)) ELSE durable

LogInv ==
  /\ \A m \in Msgs : react[m].pc # "done" => react[m].res = "none"
  /\ \A m \in Msgs : Running(m) =>
       InLog(react[m], m, messages, durable, before, RolledBackSteps, Begun)
  /\ (\A m \in Msgs : ~Running(m)) =>
       Agree(messages, Log, RolledBackSteps) /\ By(messages, Begun) /\ By(Log, Begun)
  /\ runPc = "race" /\ StepDone /\ react[stepTask].res \in Aborted =>
       EndsWith(before, durable, RolledBackSteps) /\ By(before, Begun)

Saving == {"dsave", "fdsave", "fsave", "csave", "tsave", "ksave"}

LEMMA AfterPlain ==
  ASSUME NEW r, NEW m, NEW log, r.pc \notin Saving
  PROVE  After(r, m, log) = log
BY DEF After, Saving

LEMMA AfterSave ==
  ASSUME NEW r, NEW m, NEW log
  PROVE  /\ r.pc = "fsave" => After(r, m, log) = Append(log, Assistant(m, r.iter, 0))
         /\ r.pc = "csave" => After(r, m, log) = Append(log, Assistant(m, r.iter, r.total))
         /\ r.pc = "tsave" => After(r, m, log) = Append(log, ToolMsg(m, r.iter, r.call))
         /\ r.pc = "ksave" => After(r, m, log) = r.held[1]
BY DEF After

LEMMA WrittenAfter ==
  ASSUME NEW m
  PROVE  Written(m) = After(react[m], m, durable)
BY DEF Written, After

\* A react that saves nothing, or ends.
LEMMA PlainLog ==
  ASSUME NEW r, NEW m, NEW q, NEW log, NEW b, NEW G, NEW B, r.pc \notin Saving \cup {"none"},
         Carry(q, log, b, m, G, B),
         r.pc \in {"created", "done"} \/ r.iter >= 1,
         r.pc = "fold" => r.held = <<>>, ~r.cancelled
  PROVE  InLog(r, m, q, log, b, G, B)
BY AfterPlain DEF InLog, Saving

LEMMA EndedLog ==
  ASSUME NEW m, NEW q, NEW log, NEW b, NEW G, NEW B, NEW why \in Results,
         Carry(q, log, b, m, G, B)
  PROVE  InLog(Ended(why), m, q, log, b, G, B)
<1>1. ~Ended(why).cancelled
  BY DEF Ended, Idle
<1>2. Ended(why).pc = "done"
  BY LocalTypes
<1> QED  BY <1>1, <1>2, PlainLog DEF Saving

\* What a react says.
LEMMA Persisted ==
  ASSUME NEW m \in Msgs, NEW i \in Nat, NEW n \in Nat
  PROVE  /\ i >= 1 => /\ Said(Assistant(m, i, n), m) /\ Said(ToolMsg(m, i, n), m)
                      /\ Said(Note(m, i), m)
         /\ Assistant(m, i, n).role # "user" /\ ToolMsg(m, i, n).role # "user"
         /\ Note(m, i).role = "user"
BY EntryTypes DEF Said, Assistant, ToolMsg, Note

LEMMA BeginTurnLog ==
  ASSUME NEW m \in Msgs, NEW r \in Locals, NEW q, NEW b, NEW G, NEW B,
         react \in [Msgs -> Locals], r.iter >= 1, ~r.cancelled,
         Carry(q, durable', b, m, G, B), BeginTurn(m, r, q)
  PROVE  InLog(react'[m], m, messages', durable', b, G, B)
<1>1. messages' = q
  BY DEF BeginTurn
<1>2. /\ react'[m].pc \in {"stream", "fold"} /\ react'[m].iter = r.iter
      /\ react'[m].pc = "fold" => react'[m].held = <<>>
      /\ ~react'[m].cancelled
  <2>1. CASE Set(m, [r EXCEPT !.pc = "stream", !.pend = <<>>])
    <3>1. react'[m] = [r EXCEPT !.pc = "stream", !.pend = <<>>]
      BY <2>1 DEF Set
    <3> QED  BY <3>1 DEF Locals
  <2>2. CASE Set(m, [r EXCEPT !.pc = "fold", !.pend = <<>>, !.foldAt = FoldEnd(q), !.held = <<>>])
    <3>1. react'[m] = [r EXCEPT !.pc = "fold", !.pend = <<>>, !.foldAt = FoldEnd(q), !.held = <<>>]
      BY <2>2 DEF Set
    <3> QED  BY <3>1 DEF Locals
  <2> QED  BY <2>1, <2>2 DEF BeginTurn
<1> QED  BY <1>1, <1>2, PlainLog DEF Saving

LEMMA LoopHeadLog ==
  ASSUME NEW m \in Msgs, NEW r \in Locals, NEW q, NEW b, NEW G, NEW B,
         react \in [Msgs -> Locals], ~r.cancelled, intrQ = 0, subQ = <<>>,
         Carry(q, durable', b, m, G, B), LoopHead(m, r, q)
  PROVE  InLog(react'[m], m, messages', durable', b, G, B)
<1> DEFINE s == [r EXCEPT !.iter = @ + 1]
<1>1. s \in Locals /\ s.iter >= 1 /\ ~s.cancelled
  <2>1. s \in Locals /\ s.iter = r.iter + 1 /\ r.iter \in Nat /\ ~s.cancelled
    BY NextIter, LocalFields DEF Locals
  <2> HIDE DEF s
  <2> QED  BY <2>1
<1>2. BeginTurn(m, s, q) \/ (messages' = q /\ Set(m, Ended("maxsteps")))
  BY DEF LoopHead
<1> HIDE DEF s
<1>3. CASE BeginTurn(m, s, q)
  BY <1>1, <1>3, BeginTurnLog
<1>4. CASE messages' = q /\ Set(m, Ended("maxsteps"))
  <2>1. "maxsteps" \in Results
    BY DEF Results
  <2>2. react'[m] = Ended("maxsteps")
    BY <1>4 DEF Set
  <2> QED  BY <1>4, <2>1, <2>2, EndedLog
<1> QED  BY <1>2, <1>3, <1>4

LEMMA NextCallLog ==
  ASSUME NEW m \in Msgs, NEW b \in Seq(Entry), NEW G, NEW B, m \notin G, m \in B,
         react \in [Msgs -> Locals], messages \in Seq(Entry), durable' \in Seq(Entry),
         Carry(messages, durable', b, m, G, B), NextCall(m),
         react[m].iter >= 1, ~react[m].cancelled
  PROVE  InLog(react'[m], m, messages', durable', b, G, B)
<1> DEFINE r == react[m]
           t == [r EXCEPT !.calls = Tail(@), !.call = @ + 1]
           x == [t EXCEPT !.pc = "exec"]
           w == [t EXCEPT !.pc = "tsave", !.waitIo = TRUE]
<1>1. r \in Locals /\ r.call + 1 \in Nat /\ r.iter \in Nat /\ r.iter >= 1
  BY LocalFields
<1>2. /\ x.pc = "exec" /\ x.iter = r.iter /\ ~x.cancelled /\ ~w.cancelled
      /\ w.pc = "tsave" /\ w.call = r.call + 1 /\ w.iter = r.iter
  BY <1>1 DEF Locals
<1>3. \/ react'[m] = x /\ messages' = messages
      \/ react'[m] = w /\ messages' = Append(messages, ToolMsg(m, r.iter, r.call + 1))
  BY DEF NextCall, Set
<1> HIDE DEF t, x, w, r
<1>4. CASE react'[m] = x /\ messages' = messages
  BY <1>1, <1>2, <1>4, PlainLog DEF Saving
<1>5. CASE react'[m] = w /\ messages' = Append(messages, ToolMsg(m, r.iter, r.call + 1))
  <2>1. /\ Said(ToolMsg(m, r.iter, r.call + 1), m)
        /\ ToolMsg(m, r.iter, r.call + 1).role # "user"
    BY <1>1, Persisted
  <2>2. After(w, m, durable') = Append(durable', ToolMsg(m, r.iter, r.call + 1))
    BY <1>2, AfterSave
  <2>3. Carry(messages', After(w, m, durable'), b, m, G, B)
    BY <1>5, <2>1, <2>2, CarryGrown
  <2> QED  BY <1>1, <1>2, <1>5, <2>3 DEF InLog
<1> QED  BY <1>3, <1>4, <1>5

\* A step of the working react.
LEMMA ReactLog ==
  ASSUME TypeInv, TypeOK', NEW m \in Msgs, subQ = <<>>, intrQ = 0,
         NEW b \in Seq(Entry), NEW G, NEW B, m \notin G, m \in B,
         InLog(react[m], m, messages, durable, b, G, B),
         React(m)
  PROVE  InLog(react'[m], m, messages', durable', b, G, B)
<1> DEFINE r == react[m]
<1>0. /\ r \in Locals /\ react \in [Msgs -> Locals] /\ messages \in Seq(Entry)
      /\ durable \in Seq(Entry) /\ durable' \in Seq(Entry)
      /\ LocalsFilled(react) /\ r.iter \in Nat /\ r.call \in Nat /\ r.total \in Nat
      /\ r.pend \in Seq(Msgs) /\ MaxSteps \in Nat
  BY LocalFields, BoundsAssumption DEF TypeInv, TypeOK
<1>1. /\ Carry(messages, After(r, m, durable), b, m, G, B) /\ ~r.cancelled
      /\ r.pc \notin {"created", "done"} => r.iter >= 1
      /\ r.pc = "ksave" => r.held = <<messages>>
      /\ r.pc = "fold" => r.held = <<>>
      /\ r.pc \notin {"dsave", "fdsave"}
      /\ Written(m) = After(r, m, durable)
  BY WrittenAfter DEF InLog
<1>2. r.pc \notin Saving => Carry(messages, durable, b, m, G, B)
  BY <1>1, AfterPlain
<1>3. durable' = Written(m) => Carry(messages, durable', b, m, G, B)
  BY <1>1
<1>4. CASE ReactStart(m)
  <2>1. LoopHead(m, r, messages) /\ durable' = durable /\ r.pc = "created"
    BY <1>4 DEF ReactStart, Live
  <2> QED  BY <1>0, <1>1, <1>2, <2>1, LoopHeadLog DEF Saving
<1>5. ~DrainSaved(m) /\ ~AggregateSaved(m)
  BY <1>1 DEF DrainSaved, AggregateSaved, Live
<1>6. CASE FoldReturns(m)
  <2>1. r.pc = "fold" /\ r.held = <<>> /\ durable' = durable /\ r.iter >= 1
    BY <1>1, <1>6 DEF FoldReturns, Live
  <2>2. \/ /\ messages' = Folded(messages, r.foldAt)
           /\ react' = [DetachAll EXCEPT ![m] = [r EXCEPT !.pc = "ksave",
                            !.held = <<Folded(messages, r.foldAt)>>]]
        \/ /\ messages' = messages
           /\ react' = [react EXCEPT ![m] = [r EXCEPT !.pc = "stream", !.held = <<>>]]
    BY <1>6, <2>1 DEF FoldReturns
  <2>3. CASE /\ messages' = Folded(messages, r.foldAt)
             /\ react' = [DetachAll EXCEPT ![m] = [r EXCEPT !.pc = "ksave",
                              !.held = <<Folded(messages, r.foldAt)>>]]
    <3> DEFINE s == [r EXCEPT !.pc = "ksave", !.held = <<Folded(messages, r.foldAt)>>]
    <3>1. s.pc = "ksave" /\ s.held = <<messages'>> /\ s.iter = r.iter /\ ~s.cancelled
      BY <1>0, <1>1, <2>3 DEF Locals
    <3>2. react'[m] = s
      BY <1>0, <2>3, DetachAllType
    <3> HIDE DEF s
    <3>3. messages' \in Seq(Entry) /\ r.foldAt \in Nat
      BY <1>0 DEF TypeOK, Locals
    <3>4. After(s, m, durable') = messages'
      BY <3>1, AfterSave
    <3>5. Carry(messages, durable, b, m, G, B)
      BY <1>2, <2>1 DEF Saving
    <3>6. Carry(messages', messages', b, m, G, B)
      BY <1>0, <2>3, <3>3, <3>5, CarryFolded
    <3> QED  BY <2>1, <3>1, <3>2, <3>4, <3>6 DEF InLog
  <2>4. CASE /\ messages' = messages
             /\ react' = [react EXCEPT ![m] = [r EXCEPT !.pc = "stream", !.held = <<>>]]
    <3> DEFINE s == [r EXCEPT !.pc = "stream", !.held = <<>>]
    <3>1. s.pc = "stream" /\ s.iter = r.iter /\ ~s.cancelled
      BY <1>0, <1>1 DEF Locals
    <3>2. react'[m] = s
      BY <1>0, <2>4
    <3> HIDE DEF s
    <3> QED  BY <1>2, <2>1, <2>4, <3>1, <3>2, PlainLog DEF Saving
  <2> QED  BY <2>2, <2>3, <2>4
<1>7. CASE CompactSaved(m)
  <2> DEFINE s == [r EXCEPT !.pc = "stream", !.held = <<>>]
  <2>1. s.pc = "stream" /\ s.iter = r.iter /\ ~s.cancelled
    BY <1>0, <1>1 DEF Locals
  <2>2. react'[m] = s /\ messages' = messages /\ r.pc = "ksave" /\ durable' = Written(m)
    BY <1>0, <1>7 DEF CompactSaved, Live, Set
  <2> HIDE DEF s
  <2> QED  BY <1>1, <1>3, <2>1, <2>2, PlainLog DEF Saving
<1>8. CASE StreamUnreachable(m)
  <2>1. /\ r.pc = "stream" /\ r.iter >= 1 /\ durable' = durable
        /\ messages' = Append(messages, Note(m, r.iter)) /\ react'[m] = Ended("neterr")
    BY <1>0, <1>1, <1>8 DEF StreamUnreachable, Live, Set
  <2>2. Said(Note(m, r.iter), m) /\ Note(m, r.iter).role = "user"
    BY <1>0, <2>1, Persisted
  <2>3. Carry(messages, durable, b, m, G, B)
    BY <1>2, <2>1 DEF Saving
  <2>4. Carry(messages', durable', b, m, G, B)
    BY <1>0, <2>1, <2>2, <2>3, CarryGrown
  <2> QED  BY <2>1, <2>4, EndedLog DEF Results
<1>9. CASE StreamText(m)
  <2> DEFINE s == [r EXCEPT !.pc = "fsave"]
  <2>1. s.pc = "fsave" /\ s.iter = r.iter /\ ~s.cancelled
    BY <1>0, <1>1 DEF Locals
  <2>2. /\ react'[m] = s /\ r.pc = "stream" /\ r.iter >= 1 /\ durable' = durable
        /\ messages' = Append(messages, Assistant(m, r.iter, 0))
    BY <1>0, <1>1, <1>9 DEF StreamText, Live, Set
  <2>0. 0 \in Nat
    OBVIOUS
  <2>3. Said(Assistant(m, r.iter, 0), m) /\ Assistant(m, r.iter, 0).role # "user"
    BY <1>0, <2>0, <2>2, Persisted
  <2> HIDE DEF s
  <2>4. After(s, m, durable') = Append(durable, Assistant(m, r.iter, 0))
    BY <2>1, <2>2, AfterSave
  <2>6. Carry(messages, durable, b, m, G, B)
    BY <1>2, <2>2 DEF Saving
  <2>5. Carry(messages', After(s, m, durable'), b, m, G, B)
    BY <1>0, <2>2, <2>3, <2>4, <2>6, CarryGrown
  <2> QED  BY <2>1, <2>2, <2>5 DEF InLog
<1>10. CASE StreamCalls(m)
  <2>1. PICK n \in 1..MaxCalls : \E calls \in [1..n -> {"tool", "wait_io"}] :
          /\ messages' = Append(messages, Assistant(m, r.iter, n))
          /\ Set(m, [r EXCEPT !.pc = "csave", !.calls = calls, !.call = 0,
                              !.total = n, !.waitIo = FALSE])
    BY <1>10 DEF StreamCalls
  <2>2. PICK calls \in [1..n -> {"tool", "wait_io"}] :
          /\ messages' = Append(messages, Assistant(m, r.iter, n))
          /\ Set(m, [r EXCEPT !.pc = "csave", !.calls = calls, !.call = 0,
                              !.total = n, !.waitIo = FALSE])
    BY <2>1
  <2> DEFINE s == [r EXCEPT !.pc = "csave", !.calls = calls, !.call = 0,
                            !.total = n, !.waitIo = FALSE]
  <2>3. s.pc = "csave" /\ s.total = n /\ s.iter = r.iter /\ ~s.cancelled
    BY <1>0, <1>1 DEF Locals
  <2>4. react'[m] = s /\ r.pc = "stream" /\ r.iter >= 1 /\ durable' = durable
    BY <1>0, <1>1, <1>10, <2>2 DEF StreamCalls, Live, Set
  <2>5. n \in Nat
    BY BoundsAssumption
  <2>6. Said(Assistant(m, r.iter, n), m) /\ Assistant(m, r.iter, n).role # "user"
    BY <1>0, <2>4, <2>5, Persisted
  <2> HIDE DEF s
  <2>7. After(s, m, durable') = Append(durable, Assistant(m, r.iter, n))
    BY <2>3, <2>4, AfterSave
  <2>9. Carry(messages, durable, b, m, G, B)
    BY <1>2, <2>4 DEF Saving
  <2>8. Carry(messages', After(s, m, durable'), b, m, G, B)
    BY <1>0, <2>2, <2>6, <2>7, <2>9, CarryGrown
  <2> QED  BY <2>3, <2>4, <2>8 DEF InLog
<1>11. CASE StreamReasoning(m)
  <2>1. /\ r.pc = "stream" /\ r.iter >= 1 /\ durable' = durable
        /\ LoopHead(m, r, Append(messages, Note(m, r.iter)))
    BY <1>1, <1>11 DEF StreamReasoning, Live
  <2>2. Said(Note(m, r.iter), m) /\ Note(m, r.iter).role = "user"
    BY <1>0, <2>1, Persisted
  <2>3. Carry(messages, durable, b, m, G, B)
    BY <1>2, <2>1 DEF Saving
  <2>4. Carry(Append(messages, Note(m, r.iter)), durable', b, m, G, B)
    BY <1>0, <2>1, <2>2, <2>3, CarryGrown
  <2> QED  BY <1>0, <1>1, <2>1, <2>4, LoopHeadLog
<1>12. CASE FinalSaved(m)
  <2>1. react'[m] = Ended("text") /\ messages' = messages /\ durable' = Written(m)
    BY <1>0, <1>12 DEF FinalSaved, Set
  <2> QED  BY <1>3, <2>1, EndedLog DEF Results
<1>13. CASE CallsSaved(m)
  <2>1. r.pc = "csave" /\ NextCall(m) /\ durable' = Written(m) /\ r.iter >= 1
    BY <1>1, <1>13 DEF CallsSaved, Live
  <2> QED  BY <1>0, <1>1, <1>3, <2>1, NextCallLog
<1>14. CASE ToolReturns(m)
  <2> DEFINE s == [r EXCEPT !.pc = "tsave"]
  <2>1. s.pc = "tsave" /\ s.call = r.call /\ s.iter = r.iter /\ ~s.cancelled
    BY <1>0, <1>1 DEF Locals
  <2>2. /\ react'[m] = s /\ r.pc = "exec" /\ r.iter >= 1 /\ durable' = durable
        /\ messages' = Append(messages, ToolMsg(m, r.iter, r.call))
    BY <1>0, <1>1, <1>14 DEF ToolReturns, Live, Set
  <2>3. Said(ToolMsg(m, r.iter, r.call), m) /\ ToolMsg(m, r.iter, r.call).role # "user"
    BY <1>0, <2>2, Persisted
  <2> HIDE DEF s
  <2>4. After(s, m, durable') = Append(durable, ToolMsg(m, r.iter, r.call))
    BY <2>1, <2>2, AfterSave
  <2>6. Carry(messages, durable, b, m, G, B)
    BY <1>2, <2>2 DEF Saving
  <2>5. Carry(messages', After(s, m, durable'), b, m, G, B)
    BY <1>0, <2>2, <2>3, <2>4, <2>6, CarryGrown
  <2> QED  BY <2>1, <2>2, <2>5 DEF InLog
<1>15. CASE ToolSaved(m)
  <2>1. r.pc = "tsave" /\ durable' = Written(m) /\ r.iter >= 1
    BY <1>1, <1>15 DEF ToolSaved, Live
  <2>2. CASE NextCall(m)
    BY <1>0, <1>1, <1>3, <2>1, <2>2, NextCallLog
  <2>3. CASE LoopHead(m, r, messages)
    BY <1>0, <1>1, <1>3, <2>1, <2>3, LoopHeadLog
  <2>4. CASE messages' = messages /\ Set(m, Ended("text"))
    <3>1. react'[m] = Ended("text")
      BY <1>0, <2>4 DEF Set
    <3> QED  BY <1>3, <2>1, <2>4, <3>1, EndedLog DEF Results
  <2> QED  BY <1>15, <2>2, <2>3, <2>4 DEF ToolSaved
<1>16. ~StreamInterrupted(m) /\ ~CancelDelivered(m)
  BY <1>1 DEF StreamInterrupted, CancelDelivered
<1>17. CASE StreamFatal(m)
  <2>1. /\ r.pc = "stream" /\ messages' = messages /\ durable' = durable
        /\ react'[m] = Ended("error")
    BY <1>0, <1>17 DEF StreamFatal, Live, Set, ctx
  <2>2. Carry(messages', durable', b, m, G, B)
    BY <1>2, <2>1 DEF Saving
  <2> QED  BY <2>1, <2>2, EndedLog DEF Results
<1> QED
  BY <1>4, <1>5, <1>6, <1>7, <1>8, <1>9, <1>10, <1>11, <1>12, <1>13, <1>14, <1>15, <1>16,
     <1>17
     DEF React, Save, Stream

\* A step of a react gives it a result only with its end, and no other react one.
Leaves(m) ==
  \E s : /\ \/ react' = [react EXCEPT ![m] = s]
            \/ react' = [DetachAll EXCEPT ![m] = s]
         /\ s.res = react[m].res \/ s.pc = "done"

LEMMA LeavesLoop ==
  ASSUME NEW m \in Msgs, NEW u \in Locals, u.res = react[m].res, NEW q,
         LoopHead(m, u, q) \/ BeginTurn(m, u, q)
  PROVE  Leaves(m)
<1>1. ASSUME NEW v \in Locals, v.res = react[m].res, BeginTurn(m, v, q)
      PROVE  Leaves(m)
  <2>1. CASE Set(m, [v EXCEPT !.pc = "stream", !.pend = <<>>])
    <3>1. [v EXCEPT !.pc = "stream", !.pend = <<>>].res = react[m].res
      BY <1>1 DEF Locals
    <3> QED  BY <2>1, <3>1 DEF Leaves, Set
  <2>2. CASE Set(m, [v EXCEPT !.pc = "fold", !.pend = <<>>, !.foldAt = FoldEnd(q), !.held = <<>>])
    <3>1. [v EXCEPT !.pc = "fold", !.pend = <<>>, !.foldAt = FoldEnd(q), !.held = <<>>].res
            = react[m].res
      BY <1>1 DEF Locals
    <3> QED  BY <2>2, <3>1 DEF Leaves, Set
  <2> QED  BY <1>1, <2>1, <2>2 DEF BeginTurn
<1> DEFINE s == [u EXCEPT !.iter = @ + 1]
<1>2. s \in Locals /\ s.res = react[m].res
  BY NextIter DEF Locals
<1>3. CASE \E why \in Results : Set(m, Ended(why))
  BY <1>3, LocalTypes DEF Leaves, Set
<1>4. CASE Set(m, [s EXCEPT !.pc = "dsave", !.pend = subQ])
  <2> HIDE DEF s
  <2>1. [s EXCEPT !.pc = "dsave", !.pend = subQ].res = react[m].res
    BY <1>2 DEF Locals
  <2> QED  BY <1>4, <2>1 DEF Leaves, Set
<1>5. \/ BeginTurn(m, u, q) \/ BeginTurn(m, s, q)
      \/ \E why \in Results : Set(m, Ended(why))
      \/ Set(m, [s EXCEPT !.pc = "dsave", !.pend = subQ])
  BY DEF LoopHead, Results
<1> HIDE DEF s
<1> QED  BY <1>1, <1>2, <1>3, <1>4, <1>5

LEMMA LeavesCall ==
  ASSUME NEW m \in Msgs, react[m] \in Locals, NextCall(m)
  PROVE  Leaves(m)
<1> DEFINE r == react[m]
           t == [r EXCEPT !.calls = Tail(@), !.call = @ + 1]
           x == [t EXCEPT !.pc = "exec"]
           w == [t EXCEPT !.pc = "tsave", !.waitIo = TRUE]
<1>1. x.res = r.res /\ w.res = r.res
  BY DEF Locals
<1>2. Set(m, x) \/ Set(m, w)
  BY DEF NextCall
<1> HIDE DEF t, x, w
<1> QED  BY <1>1, <1>2 DEF Leaves, Set

LEMMA ReactLeaves ==
  ASSUME TypeInv, NEW m \in Msgs, React(m)
  PROVE  Leaves(m)
<1> DEFINE r == react[m]
<1>0. r \in Locals /\ react \in [Msgs -> Locals]
  BY DEF TypeInv, TypeOK
<1>1. ASSUME NEW s, s.res = r.res,
             react' = [react EXCEPT ![m] = s] \/ react' = [DetachAll EXCEPT ![m] = s]
      PROVE  Leaves(m)
  BY <1>1 DEF Leaves
<1>2. CASE \E why \in Results : Set(m, Ended(why))
  BY <1>2, LocalTypes DEF Leaves, Set
<1>3. CASE ReactStart(m) \/ StreamReasoning(m)
  BY <1>0, <1>3, LeavesLoop DEF ReactStart, StreamReasoning
<1>4. CASE DrainSaved(m) \/ AggregateSaved(m)
  <2> DEFINE p == [r EXCEPT !.pend = Tail(r.pend)]
             z == [r EXCEPT !.pend = <<>>]
  <2>1. p.res = r.res /\ z.res = r.res /\ z \in Locals
    BY <1>0, EmptyLists DEF Locals
  <2>2. \/ Set(m, p) \/ \E q : BeginTurn(m, r, q)
        \/ \E q : LoopHead(m, z, q)
    BY <1>4 DEF DrainSaved, AggregateSaved
  <2> HIDE DEF p, z
  <2> QED  BY <1>0, <1>1, <2>1, <2>2, LeavesLoop DEF Set
<1>5. CASE FoldReturns(m)
  <2> DEFINE short == Folded(IF r.held = <<>> THEN messages ELSE r.held[1], r.foldAt)
             a == [r EXCEPT !.pc = "ksave", !.held = <<short>>]
             b == [r EXCEPT !.pc = "stream", !.held = <<>>]
  <2>1. a.res = r.res /\ b.res = r.res
    BY <1>0 DEF Locals
  <2>2. \/ react' = [DetachAll EXCEPT ![m] = a]
        \/ react' = [(IF r.held = <<>> THEN react ELSE DetachAll) EXCEPT ![m] = b]
    BY <1>5 DEF FoldReturns
  <2> HIDE DEF a, b
  <2> QED  BY <1>1, <2>1, <2>2
<1>6. CASE CompactSaved(m)
  <2>1. [r EXCEPT !.pc = "stream", !.held = <<>>].res = r.res
    BY <1>0 DEF Locals
  <2> QED  BY <1>1, <1>6, <2>1 DEF CompactSaved, Set
<1>7. CASE StreamText(m) \/ ToolReturns(m)
  <2>1. [r EXCEPT !.pc = "fsave"].res = r.res /\ [r EXCEPT !.pc = "tsave"].res = r.res
    BY <1>0 DEF Locals
  <2>2. Set(m, [r EXCEPT !.pc = "fsave"]) \/ Set(m, [r EXCEPT !.pc = "tsave"])
    BY <1>7 DEF StreamText, ToolReturns
  <2> QED  BY <1>1, <2>1, <2>2 DEF Set
<1>8. CASE StreamCalls(m)
  <2>1. PICK n, calls : Set(m, [r EXCEPT !.pc = "csave", !.calls = calls, !.call = 0,
                                         !.total = n, !.waitIo = FALSE])
    BY <1>8 DEF StreamCalls
  <2>2. [r EXCEPT !.pc = "csave", !.calls = calls, !.call = 0,
                  !.total = n, !.waitIo = FALSE].res = r.res
    BY <1>0 DEF Locals
  <2> QED  BY <1>1, <2>1, <2>2 DEF Set
<1>9. CASE FinalSaved(m)
  <2>1. [r EXCEPT !.pc = "fdsave", !.pend = subQ].res = r.res
    BY <1>0 DEF Locals
  <2>2. Set(m, Ended("text")) \/ Set(m, [r EXCEPT !.pc = "fdsave", !.pend = subQ])
    BY <1>9 DEF FinalSaved
  <2> QED  BY <1>1, <1>2, <2>1, <2>2 DEF Set, Results
<1>10. CASE CallsSaved(m)
  BY <1>0, <1>10, LeavesCall DEF CallsSaved
<1>11. CASE ToolSaved(m)
  <2>1. NextCall(m) \/ Set(m, Ended("text")) \/ LoopHead(m, r, messages)
    BY <1>11 DEF ToolSaved
  <2> QED  BY <1>0, <1>2, <2>1, LeavesCall, LeavesLoop DEF Results
<1>12. CASE StreamInterrupted(m) \/ StreamUnreachable(m) \/ StreamFatal(m) \/ CancelDelivered(m)
  BY <1>2, <1>12 DEF StreamInterrupted, StreamUnreachable, StreamFatal, CancelDelivered, Results
<1> QED
  BY <1>3, <1>4, <1>5, <1>6, <1>7, <1>8, <1>9, <1>10, <1>11, <1>12 DEF React, Save, Stream

LEMMA DetachedResult ==
  ASSUME react \in [Msgs -> Locals]
  PROVE  \A x \in Msgs : DetachAll[x].res = react[x].res /\ DetachAll[x].pc = react[x].pc
<1>1. ASSUME NEW x \in Msgs
      PROVE  Detached(x).res = react[x].res /\ Detached(x).pc = react[x].pc
  <2>1. LET d == [react[x] EXCEPT !.held = <<messages>>] IN
        d.res = react[x].res /\ d.pc = react[x].pc
    BY DEF Locals
  <2> QED  BY <2>1 DEF Detached
<1> QED  BY <1>1 DEF DetachAll

LEMMA LogReact ==
  ASSUME TypeInv, TypeOK', OnlyTheStep, PoliteInv, LogInv, NEW m \in Msgs, React(m)
  PROVE  LogInv'
<1> DEFINE G == RolledBackSteps
           B == Begun
<1>0. react \in [Msgs -> Locals] /\ before \in Seq(Entry)
  BY DEF TypeInv, TypeOK
<1>1. ReactStep(m) /\ UNCHANGED runVars
  BY ReactSteps, ReactFrame
<1>2. Running(m) /\ m = stepTask /\ runPc # "closing" /\ stepTask # None
  BY <1>1, MsgsAssumption DEF ReactStep, OnlyTheStep, Running, Done, PoliteInv, ByTurns
<1>3. Quiet /\ subQ = <<>> /\ intrQ = 0 /\ runPc # "msave"
  <2>1. Quiet /\ subQ \in Seq(Msgs) /\ (runPc = "msave" => cur # None)
    BY <1>2, MsgsAssumption DEF PoliteInv, ByTurns, TypeInv, TypeOK, RunFilled
  <2> QED  BY <2>1 DEF Quiet, PoliteInv, NoInterrupt
<1>4. \A x \in Msgs \ {m} : ~Running(x) /\ ~Running(x)'
  BY <1>1, <1>2 DEF OnlyTheStep, PoliteInv, ByTurns, ReactStep, Running
<1>5. PICK s : /\ \/ react' = [react EXCEPT ![m] = s]
                  \/ react' = [DetachAll EXCEPT ![m] = s]
               /\ s.res = react[m].res \/ s.pc = "done"
  BY ReactLeaves DEF Leaves
<1>6. /\ react'[m] = s
      /\ \A x \in Msgs \ {m} : react'[x].res = react[x].res /\ react'[x].pc = react[x].pc
  BY <1>0, <1>5, OnlyOne, DetachedResult DEF DetachAll, TypeInv, TypeOK
<1>7. react[m].pc \notin {"none", "done"} /\ react[m].res = "none"
  BY <1>2 DEF Running, LogInv
<1>8. \A x \in Msgs : react'[x].pc # "done" => react'[x].res = "none"
  BY <1>5, <1>6, <1>7 DEF LogInv
<1>9. m \notin G /\ m \in B
  BY <1>7 DEF RolledBackSteps, Aborted, Begun
<1>10. InLog(react'[m], m, messages', durable', before, G, B)
  <2>1. InLog(react[m], m, messages, durable, before, G, B)
    BY <1>2 DEF LogInv
  <2> HIDE DEF G, B
  <2> QED  BY <1>0, <1>3, <1>9, <2>1, ReactLog
<1>11. react'[m].pc # "none"
  BY <1>10 DEF InLog
<1>12. Begun' = B
  <2>1. \A x \in Msgs : react'[x].pc # "none" <=> react[x].pc # "none"
    BY <1>6, <1>7, <1>11
  <2> QED  BY <2>1 DEF Begun
<1>13. RolledBackSteps' = IF react'[m].res \in Aborted THEN G \cup {m} ELSE G
  <2>1. \A x \in Msgs : x # m => (react'[x].res \in Aborted <=> react[x].res \in Aborted)
    BY <1>6
  <2>2. RolledBackSteps' = {x \in Msgs : react'[x].res \in Aborted}
    BY DEF RolledBackSteps, Aborted
  <2> QED  BY <1>9, <2>1, <2>2 DEF RolledBackSteps
<1>14. runPc' # "msave" /\ stepTask' = m /\ before' = before
  BY <1>1, <1>2, <1>3 DEF runVars
<1> HIDE DEF G, B
<1>15. CASE Running(m)'
  <2>1. react'[m].res \notin Aborted /\ ~StepDone'
    BY <1>8, <1>14, <1>15 DEF Running, Aborted, StepDone, Done
  <2>2. RolledBackSteps' = G
    BY <1>13, <2>1
  <2>3. \A x \in Msgs : Running(x)' => x = m
    BY <1>4
  <2> QED  BY <1>8, <1>10, <1>12, <1>14, <1>15, <2>1, <2>2, <2>3 DEF LogInv
<1>16. CASE ~Running(m)'
  <2>1. react'[m].pc \notin Saving
    BY <1>16 DEF Running, Saving
  <2>2. Carry(messages', durable', before, m, G, B)
    BY <1>10, <2>1, AfterPlain DEF InLog
  <2>3. Log' = durable'
    BY <1>14 DEF Log
  <2>4. By(messages', B) /\ By(durable', B) /\ By(before, B)
    BY <2>2 DEF Carry
  <2>5. Agree(messages', durable', RolledBackSteps')
    <3>1. CASE react'[m].res \in Aborted
      <4>1. G \cup {m} # {}
        OBVIOUS
      <4> QED  BY <1>13, <2>2, <3>1, <4>1 DEF Carry, Agree
    <3>2. CASE react'[m].res \notin Aborted
      BY <1>13, <2>2, <3>2 DEF Carry
    <3> QED  BY <3>1, <3>2
  <2>6. react'[m].res \in Aborted => EndsWith(before, durable', RolledBackSteps')
    BY <1>13, <2>2 DEF Carry
  <2>7. \A x \in Msgs : ~Running(x)'
    BY <1>4, <1>16
  <2>8. (react[stepTask].res \in Aborted)' => react'[m].res \in Aborted
    BY <1>14 DEF Aborted
  <2> QED  BY <1>8, <1>12, <1>14, <2>3, <2>4, <2>5, <2>6, <2>7, <2>8 DEF LogInv
<1> QED  BY <1>15, <1>16

\* run() appends a message and saves it while no react works, and takes a failed
\* step back.
LEMMA LogRun ==
  ASSUME TypeInv, OnTheWay, OnlyTheStep, PoliteInv, LogInv, Run
  PROVE  LogInv'
<1>0. /\ messages \in Seq(Entry) /\ durable \in Seq(Entry) /\ react \in [Msgs -> Locals]
      /\ ga \in Msgs \cup {None} /\ intrQ = 0 /\ ~gb
      /\ runPc = "msave" => cur \in Msgs
      /\ None \notin Msgs /\ ~overlapped /\ Msgs \cap Past = {}
  BY MsgsAssumption DEF TypeInv, TypeOK, RunFilled, PoliteInv, NoInterrupt, ByTurns
<1>1. CASE GetMessage \/ RunClosed
  <2>1. UNCHANGED <<messages, durable, react, before>> /\ runPc # "msave" /\ runPc' # "msave"
    BY <1>1 DEF GetMessage, RunClosed, Park, ctx
  <2>2. UNCHANGED <<RolledBackSteps, Begun, Log>>
    BY <2>1 DEF RolledBackSteps, Begun, Log, Aborted
  <2>3. \/ UNCHANGED <<runPc, stepTask>>
        \/ stepTask' = None
    BY <1>1 DEF GetMessage, RunClosed, Park
  <2>4. stepTask' = None => ~StepDone'
    BY DEF StepDone
  <2>5. UNCHANGED stepTask => (StepDone' <=> StepDone)
    BY <2>1 DEF StepDone, Done
  <2>6. \A x \in Msgs : Running(x)' <=> Running(x)
    BY <2>1 DEF Running
  <2>7. /\ runPc' = "race" /\ StepDone' /\ (react[stepTask].res \in Aborted)' =>
             EndsWith(before', durable', RolledBackSteps') /\ By(before', Begun')
    BY <2>1, <2>2, <2>3, <2>4, <2>5 DEF LogInv, Aborted
  <2> QED  BY <2>1, <2>2, <2>6, <2>7 DEF LogInv
<1>2. CASE RaceMessage
  <2>1. /\ ga \in Msgs /\ stepTask = None /\ UNCHANGED <<durable, react>> /\ cur' = ga
        /\ messages' = Append(messages, User(ga)) /\ runPc = "race" /\ runPc' = "msave"
    BY <1>0, <1>2 DEF RaceMessage, PoliteInv, ByTurns, Quiet
  <2>2. \A x \in Msgs : ~Running(x) /\ ~Running(x)'
    BY <1>0, <2>1 DEF OnlyTheStep, Running
  <2>3. User(ga) \in Entry /\ User(ga).step = 0 /\ Lasts(User(ga), RolledBackSteps)
    BY <2>1 DEF User, Entry, Lasts
  <2>4. UNCHANGED <<RolledBackSteps, Begun>> /\ Log = durable /\ Log' = Append(durable, User(ga))
    BY <2>1 DEF RolledBackSteps, Begun, Log, Aborted, User
  <2>5. Agree(messages, durable, RolledBackSteps) /\ By(messages, Begun) /\ By(durable, Begun)
    BY <2>2, <2>4 DEF LogInv
  <2>6. Agree(messages', Log', RolledBackSteps)
    BY <1>0, <2>1, <2>3, <2>4, <2>5, AgreeGrown
  <2>7. By(messages', Begun) /\ By(Log', Begun)
    BY <1>0, <2>1, <2>3, <2>4, <2>5, ByGrown
  <2> QED  BY <2>1, <2>2, <2>4, <2>6, <2>7 DEF LogInv
<1>3. CASE MessageSaved
  <2>1. /\ cur \in Msgs /\ stepTask = None /\ messages' = messages /\ runPc = "msave"
        /\ durable' = Append(durable, User(cur)) /\ runPc' # "msave" /\ before' = messages
        /\ stepTask' = cur
        /\ react' = [react EXCEPT ![cur] = [Idle EXCEPT !.pc = "created",
                                                         !.cancelled = intrQ > 0]]
    BY <1>0, <1>3 DEF MessageSaved, PoliteInv, ByTurns, Quiet
  <2>2. \A x \in Msgs : ~Running(x)
    BY <1>0, <2>1 DEF OnlyTheStep
  <2> DEFINE s == [Idle EXCEPT !.pc = "created", !.cancelled = intrQ > 0]
  <2>3. s.pc = "created" /\ s.res = "none" /\ ~s.cancelled
    <3>1. s.pc = "created" /\ s.res = "none" /\ s.cancelled = (intrQ > 0)
      BY DEF Idle
    <3>2. ~(intrQ > 0)
      BY <1>0
    <3> QED  BY <3>1, <3>2
  <2>4. react'[cur] = s /\ \A x \in Msgs \ {cur} : react'[x] = react[x]
    BY <1>0, <2>1
  <2> HIDE DEF s
  <2>5. react[cur].res = "none" /\ react[cur].pc = "none"
    <3>1. cur \in Msgs \cap Waiting
      BY <2>1 DEF Waiting
    <3>2. react[cur].pc = "none"
      BY <3>1 DEF OnTheWay
    <3> QED  BY <2>1, <3>2 DEF LogInv
  <2>6. \A x \in Msgs \ {cur} : ~Running(x)'
    BY <2>2, <2>4 DEF Running
  <2>7. (\E x \in Msgs : Running(x)') /\ ~StepDone'
    <3>1. ASSUME NEW x \in Msgs, x = cur PROVE Running(x)'
      BY <2>3, <2>4, <3>1 DEF Running
    <3>2. react'[stepTask'].pc = "created"
      BY <2>1, <2>3, <2>4
    <3>3. ~StepDone'
      BY <3>2 DEF StepDone, Done
    <3> QED  BY <2>1, <3>1, <3>3
  <2>8. RolledBackSteps' = RolledBackSteps
    <3>1. \A x \in Msgs : react'[x].res \in Aborted <=> react[x].res \in Aborted
      BY <2>3, <2>4, <2>5 DEF Aborted
    <3>2. RolledBackSteps' = {x \in Msgs : react'[x].res \in Aborted}
      BY DEF RolledBackSteps, Aborted
    <3> QED  BY <3>1, <3>2 DEF RolledBackSteps
  <2>9. cur \notin Begun /\ Begun \subseteq Begun'
    <3>1. \A x \in Msgs : react[x].pc # "none" => react'[x].pc # "none"
      BY <2>4, <2>5
    <3> QED  BY <1>0, <2>1, <2>5, <3>1 DEF Begun
  <2>10. Log = durable' /\ durable' \in Seq(Entry)
    <3>1. User(cur) \in Entry
      BY <2>1 DEF User, Entry
    <3> QED  BY <1>0, <2>1, <3>1 DEF Log
  <2>11. Agree(messages, durable', RolledBackSteps) /\ By(messages, Begun) /\ By(durable', Begun)
    BY <2>2, <2>10 DEF LogInv
  <2>12. Carry(messages', durable', before', cur, RolledBackSteps', Begun')
    BY <1>0, <2>1, <2>8, <2>9, <2>10, <2>11, CarryBegun
  <2>13. InLog(s, cur, messages', durable', before', RolledBackSteps', Begun')
    BY <2>3, <2>12, PlainLog DEF Saving
  <2>14. \A x \in Msgs : react'[x].pc # "done" => react'[x].res = "none"
    BY <2>3, <2>4 DEF LogInv
  <2>15. ASSUME NEW x \in Msgs, Running(x)'
         PROVE  InLog(react'[x], x, messages', durable', before', RolledBackSteps', Begun')
    BY <2>4, <2>6, <2>13, <2>15
  <2> QED  BY <2>1, <2>7, <2>14, <2>15 DEF LogInv
<1>4. CASE RaceDone
  <2>1. /\ StepDone /\ durable' = durable /\ runPc = "race" /\ runPc' = "closing"
        /\ before' = before
        /\ \/ react[stepTask].res \in Aborted /\ react' = DetachAll /\ messages' = before
           \/ messages' = messages /\ react' = react
    BY <1>4 DEF RaceDone, DoneWins, RolledBack
  <2>2. stepTask \in Msgs
    BY <2>1 DEF StepDone, TypeInv, TypeOK
  <2>3. \A x \in Msgs : react'[x].res = react[x].res /\ react'[x].pc = react[x].pc
    BY <1>0, <2>1, DetachedResult
  <2>4. RolledBackSteps' = RolledBackSteps /\ Begun' = Begun
    BY <2>3 DEF RolledBackSteps, Begun, Aborted
  <2>5. Log = durable /\ Log' = durable
    BY <2>1 DEF Log
  <2>6. \A x \in Msgs : Running(x)' <=> Running(x)
    BY <2>3 DEF Running
  <2>7. \A x \in Msgs : ~Running(x)
    BY <1>0, <2>1 DEF OnlyTheStep, StepDone, Done, Running
  <2>8. \A x \in Msgs : react'[x].pc # "done" => react'[x].res = "none"
    BY <2>3 DEF LogInv
  <2>9. Agree(messages', durable, RolledBackSteps) /\ By(messages', Begun) /\ By(durable, Begun)
    <3>1. CASE messages' = messages
      BY <2>5, <2>7, <3>1 DEF LogInv
    <3>2. CASE react[stepTask].res \in Aborted /\ messages' = before
      <4>1. EndsWith(before, durable, RolledBackSteps) /\ By(before, Begun)
        BY <2>1, <3>2 DEF LogInv
      <4>2. RolledBackSteps # {}
        BY <2>2, <3>2 DEF RolledBackSteps
      <4>3. By(durable, Begun)
        BY <2>5, <2>7 DEF LogInv
      <4> QED  BY <3>2, <4>1, <4>2, <4>3 DEF Agree
    <3> QED  BY <2>1, <3>1, <3>2
  <2> QED  BY <2>1, <2>4, <2>5, <2>6, <2>7, <2>8, <2>9 DEF LogInv
<1>5. ~GetInterrupt /\ ~RaceInterrupted /\ ~InterruptHandled
  BY <1>0 DEF GetInterrupt, RaceInterrupted, InterruptHandled, PoliteInv, NoInterrupt
<1> QED  BY <1>1, <1>2, <1>3, <1>4, <1>5 DEF Run

\* When no step of such clients runs, a restart rebuilds the conversation of the running
\* engine, if what a restart restored is of an earlier process: whatever was called, noted,
\* folded, failed or rolled back, the log's messages, but for those of failed steps, are the
\* newest of the conversation, in order and none left out, and all of them as long as no
\* step has failed (checkpoint.py 44-58 against the appends and the roll-back of engine.py).
THEOREM RestartRebuilds ==
  Polite /\ (\A h \in Histories : \A i \in DOMAIN h : h[i].by \in Past)
    => (Spec => []ReplayAgrees)
<1> SUFFICES ASSUME Polite, \A h \in Histories : \A i \in DOMAIN h : h[i].by \in Past
             PROVE  Spec => []ReplayAgrees
  OBVIOUS
<1>1. Init => LogInv
  <2> SUFFICES ASSUME Init PROVE LogInv
    OBVIOUS
  <2>1. \A m \in Msgs : react[m].pc = "none" /\ react[m].res = "none"
    BY DEF Init, Idle
  <2>2. /\ messages \in Seq(Entry) /\ durable = messages /\ runPc = "race" /\ stepTask = None
        /\ messages \in Histories
    BY HistoriesAssumption DEF Init
  <2>3. By(messages, Begun)
    <3>1. DOMAIN messages = 1..Len(messages)
      BY <2>2
    <3> QED  BY <2>2, <3>1 DEF By, Begun
  <2>4. Log = messages /\ Agree(messages, messages, RolledBackSteps)
    BY <2>2, AgreeSelf DEF Log
  <2> QED  BY <2>1, <2>2, <2>3, <2>4 DEF LogInv, Running, StepDone
<1>2. TypeInv /\ OnTheWay /\ OnlyTheStep /\ PoliteInv /\ LogInv /\ [Next]_vars => LogInv'
  <2> SUFFICES ASSUME TypeInv, OnTheWay, OnlyTheStep, PoliteInv, LogInv, [Next]_vars
               PROVE  LogInv'
    OBVIOUS
  <2>1. CASE UNCHANGED vars \/ SendInterrupt \/ Pump \/ \E m \in Msgs : SendMessage(m)
    <3>1. UNCHANGED <<messages, durable, before, react, runPc, cur, stepTask>>
      BY <2>1 DEF vars, runVars, ctx, SendInterrupt, Pump, SendMessage
    <3>2. UNCHANGED <<RolledBackSteps, Begun, Log>> /\ (StepDone' <=> StepDone)
      BY <3>1 DEF RolledBackSteps, Begun, Log, Aborted, StepDone, Done, User
    <3>3. \A x \in Msgs : Running(x)' <=> Running(x)
      BY <3>1 DEF Running
    <3> QED  BY <3>1, <3>2, <3>3 DEF LogInv, Aborted
  <2>2. TypeOK'
    BY TypeStep DEF TypeInv
  <2> QED  BY <2>1, <2>2, LogReact, LogRun DEF Next
<1>3. LogInv => ReplayAgrees
  <2>1. runPc \in {"race", "closing"} => Log = durable
    BY DEF Log
  <2> QED  BY <2>1 DEF LogInv, ReplayAgrees, Agree
<1> QED
  BY <1>1, <1>2, <1>3, PoliteInit, PoliteStep, TypeInvariance, StepInit, StepStep,
     WayInit, BracketInit, BracketStep, PTL
     DEF Spec
-----------------------------------------------------------------------------
(* ImplementsSession.  A step writes only what is its own and drains        *)
(* nothing; what run() is closing without having shown an end has failed.   *)
Drains == {"dsave", "fdsave"}

InSession(r, q) ==
  /\ ~r.cancelled /\ r.pc \notin Drains
  /\ r.pc \notin {"none", "created", "done"} => r.iter >= 1
  /\ r.pc = "fold" => r.held = <<>> /\ r.foldAt = FoldEnd(q) /\ r.foldAt > 0

WorkInv ==
  /\ \A m \in Msgs : Running(m) => InSession(react[m], messages)
  /\ runPc = "closing" /\ ui \notin TurnOver /\ Quiet => react[stepTask].res \in Aborted
  /\ cur # None => runPc = "msave"

(* What a step does to the conversation.                                    *)
Advances(m) ==
  \/ messages' = messages
  \/ \E e \in OwnEntries(m) : messages' = Append(messages, e)
  \/ \E k \in 1..(Len(messages) - 1) :
       messages[k + 1].role = "user" /\ messages' = SubSeq(messages, k + 1, Len(messages))

LEMMA EndedSession ==
  ASSUME NEW why \in Results, NEW q
  PROVE  InSession(Ended(why), q)
<1>1. ~Ended(why).cancelled
  BY DEF Ended, Idle
<1>2. Ended(why).pc = "done"
  BY LocalTypes
<1> QED  BY <1>1, <1>2 DEF InSession, Drains

LEMMA BeginTurnSession ==
  ASSUME NEW m \in Msgs, NEW r \in Locals, NEW q \in Seq(Entry), react \in [Msgs -> Locals],
         ~r.cancelled, r.iter >= 1, BeginTurn(m, r, q)
  PROVE  InSession(react'[m], q) /\ messages' = q
<1>1. CASE Set(m, [r EXCEPT !.pc = "stream", !.pend = <<>>])
  <2> DEFINE s == [r EXCEPT !.pc = "stream", !.pend = <<>>]
  <2>1. s.pc = "stream" /\ ~s.cancelled /\ s.iter >= 1
    BY DEF Locals
  <2>2. react'[m] = s
    BY <1>1 DEF Set
  <2> HIDE DEF s
  <2> QED  BY <2>1, <2>2 DEF InSession, Drains, BeginTurn
<1>2. CASE /\ FoldEnd(q) > 0
           /\ Set(m, [r EXCEPT !.pc = "fold", !.pend = <<>>,
                               !.foldAt = FoldEnd(q), !.held = <<>>])
  <2> DEFINE s == [r EXCEPT !.pc = "fold", !.pend = <<>>, !.foldAt = FoldEnd(q), !.held = <<>>]
  <2>1. /\ s.pc = "fold" /\ ~s.cancelled /\ s.iter >= 1
        /\ s.foldAt = FoldEnd(q) /\ s.held = <<>>
    BY DEF Locals
  <2>2. react'[m] = s
    BY <1>2 DEF Set
  <2> HIDE DEF s
  <2> QED  BY <1>2, <2>1, <2>2 DEF InSession, Drains, BeginTurn
<1> QED  BY <1>1, <1>2 DEF BeginTurn

LEMMA LoopHeadSession ==
  ASSUME NEW m \in Msgs, NEW r \in Locals, NEW q \in Seq(Entry), react \in [Msgs -> Locals],
         ~r.cancelled, intrQ = 0, subQ = <<>>, LoopHead(m, r, q)
  PROVE  InSession(react'[m], q) /\ messages' = q
<1> DEFINE s == [r EXCEPT !.iter = @ + 1]
<1>1. s \in Locals
  BY NextIter
<1>2. ~s.cancelled /\ s.iter >= 1
  BY DEF Locals
<1>3. CASE messages' = q /\ Set(m, Ended("maxsteps"))
  <2>1. react'[m] = Ended("maxsteps")
    BY <1>3 DEF Set
  <2> QED  BY <1>3, <2>1, EndedSession DEF Results
<1>4. BeginTurn(m, s, q) \/ (messages' = q /\ Set(m, Ended("maxsteps")))
  BY DEF LoopHead
<1> HIDE DEF s
<1> QED  BY <1>1, <1>2, <1>3, <1>4, BeginTurnSession

LEMMA NextCallSession ==
  ASSUME NEW m \in Msgs, react \in [Msgs -> Locals], react[m].calls # <<>>,
         ~react[m].cancelled, react[m].iter >= 1, NextCall(m)
  PROVE  InSession(react'[m], messages') /\ Advances(m)
<1> DEFINE r == react[m]
           t == [r EXCEPT !.calls = Tail(@), !.call = @ + 1]
<1>0. r \in Locals /\ r.iter \in Nat /\ r.call \in Nat
  BY LocalFields
<1>1. t \in Locals /\ t.iter = r.iter /\ ~t.cancelled
  <2>1. Tail(r.calls) \in Seq({"tool", "wait_io"})
    <3>1. r.calls \in Seq({"tool", "wait_io"})
      BY LocalFields
    <3> QED  BY <3>1
  <2>2. t \in Locals
    BY <1>0, <2>1, NextCalls
  <2>3. t.iter = r.iter /\ t.cancelled = r.cancelled
    BY <1>0 DEF Locals
  <2> HIDE DEF t
  <2> QED  BY <2>2, <2>3
<1> DEFINE x == [t EXCEPT !.pc = "exec"]
           w == [t EXCEPT !.pc = "tsave", !.waitIo = TRUE]
<1>2. /\ x.pc = "exec" /\ x.iter = r.iter /\ ~x.cancelled
      /\ w.pc = "tsave" /\ w.iter = r.iter /\ ~w.cancelled
  <2> HIDE DEF t
  <2> QED  BY <1>1 DEF Locals
<1>3. \/ messages' = messages /\ react'[m] = x
      \/ messages' = Append(messages, ToolMsg(m, r.iter, r.call + 1)) /\ react'[m] = w
  BY DEF NextCall, Set
<1>4. ToolMsg(m, r.iter, r.call + 1) \in OwnEntries(m)
  BY <1>0 DEF ToolMsg, OwnEntries
<1> HIDE DEF x, w
<1>5. InSession(x, messages') /\ InSession(w, messages')
  BY <1>2 DEF InSession, Drains
<1> QED  BY <1>3, <1>4, <1>5 DEF Advances

\* A step that began with nothing to drain writes what is its own, or folds.
LEMMA ReactAdvances ==
  ASSUME TypeInv, NEW m \in Msgs, subQ = <<>>, intrQ = 0,
         InSession(react[m], messages), React(m)
  PROVE  InSession(react'[m], messages') /\ Advances(m)
<1> DEFINE r == react[m]
<1>0. /\ r \in Locals /\ react \in [Msgs -> Locals] /\ messages \in Seq(Entry)
      /\ LocalsFilled(react) /\ r.iter \in Nat /\ r.call \in Nat
  BY LocalFields DEF TypeInv, TypeOK
<1>1. ~r.cancelled /\ r.pc \notin Drains
  BY DEF InSession
<1>2. r.pc \notin {"none", "created", "done"} => r.iter >= 1
  BY DEF InSession
\* the common cases: the react ends, or goes on in a point that is no fold
<1>3. ASSUME NEW why \in Results, Set(m, Ended(why)) PROVE InSession(react'[m], messages')
  <2>1. react'[m] = Ended(why)
    BY <1>0, <1>3 DEF Set
  <2> QED  BY <1>3, <2>1, EndedSession
<1>4. ASSUME NEW s, s.pc \notin Drains \cup {"fold"}, s.iter >= 1, ~s.cancelled, react'[m] = s
      PROVE  InSession(react'[m], messages')
  BY <1>4 DEF InSession
<1>5. \A n \in Nat : r.iter >= 1 => /\ Assistant(m, r.iter, n) \in OwnEntries(m)
                                    /\ ToolMsg(m, r.iter, n) \in OwnEntries(m)
                                    /\ Note(m, r.iter) \in OwnEntries(m)
  BY <1>0 DEF Assistant, ToolMsg, Note, OwnEntries
<1>6. CASE ReactStart(m)
  <2>1. LoopHead(m, r, messages)
    BY <1>6 DEF ReactStart
  <2> QED  BY <1>0, <1>1, <2>1, LoopHeadSession DEF Advances
<1>7. ~DrainSaved(m) /\ ~AggregateSaved(m)
  BY <1>1 DEF DrainSaved, AggregateSaved, Live, Drains
<1>8. CASE FoldReturns(m)
  <2>1. /\ r.pc = "fold" /\ r.held = <<>> /\ r.foldAt = FoldEnd(messages) /\ FoldEnd(messages) > 0
        /\ r.iter >= 1
    BY <1>2, <1>8 DEF FoldReturns, Live, InSession
  <2>2. FoldEnd(messages) \in 1..(Len(messages) - 1) /\ messages[FoldEnd(messages) + 1].role = "user"
    <3>1. FoldEnd(messages) \in Nat /\ Len(messages) \in Nat
      BY <1>0, FoldEndType
    <3>2. FoldEnd(messages) + 1 \in 1..Len(messages) /\ messages[FoldEnd(messages) + 1].role = "user"
      BY <1>0, <2>1, CutAtUser
    <3> QED  BY <2>1, <3>1, <3>2
  <2> DEFINE f == [r EXCEPT !.pc = "ksave", !.held = <<Folded(messages, r.foldAt)>>]
             s == [r EXCEPT !.pc = "stream", !.held = <<>>]
  <2>3. \/ messages' = Folded(messages, FoldEnd(messages)) /\ react' = [DetachAll EXCEPT ![m] = f]
        \/ messages' = messages /\ react' = [react EXCEPT ![m] = s]
    BY <1>8, <2>1 DEF FoldReturns
  <2>4. Advances(m)
    BY <2>2, <2>3 DEF Advances, Folded
  <2>5. f.pc = "ksave" /\ f.iter = r.iter /\ ~f.cancelled /\ s.pc = "stream" /\ s.iter = r.iter /\ ~s.cancelled
    BY <1>0, <1>1 DEF Locals
  <2>6. react'[m] = f \/ react'[m] = s
    BY <1>0, <2>3 DEF DetachAll
  <2> HIDE DEF f, s
  <2> QED  BY <1>4, <2>1, <2>4, <2>5, <2>6 DEF Drains
<1>9. CASE CompactSaved(m)
  <2> DEFINE s == [r EXCEPT !.pc = "stream", !.held = <<>>]
  <2>1. s.pc = "stream" /\ s.iter = r.iter /\ ~s.cancelled /\ r.pc = "ksave"
    BY <1>0, <1>1, <1>9 DEF Locals, CompactSaved, Live
  <2>2. react'[m] = s /\ messages' = messages
    BY <1>0, <1>9 DEF CompactSaved, Set
  <2> HIDE DEF s
  <2> QED  BY <1>2, <1>4, <2>1, <2>2 DEF Drains, Advances
<1>10. CASE StreamText(m)
  <2> DEFINE s == [r EXCEPT !.pc = "fsave"]
  <2>1. s.pc = "fsave" /\ s.iter = r.iter /\ ~s.cancelled /\ r.pc = "stream"
    BY <1>0, <1>1, <1>10 DEF Locals, StreamText, Live
  <2>2. react'[m] = s /\ messages' = Append(messages, Assistant(m, r.iter, 0))
    BY <1>0, <1>10 DEF StreamText, Set
  <2> HIDE DEF s
  <2> QED  BY <1>2, <1>4, <1>5, <2>1, <2>2 DEF Drains, Advances
<1>11. CASE StreamCalls(m)
  <2>1. PICK n \in 1..MaxCalls : \E c \in [1..n -> {"tool", "wait_io"}] :
          /\ messages' = Append(messages, Assistant(m, r.iter, n))
          /\ Set(m, [r EXCEPT !.pc = "csave", !.calls = c, !.call = 0,
                              !.total = n, !.waitIo = FALSE])
    BY <1>11 DEF StreamCalls
  <2>c. PICK calls \in [1..n -> {"tool", "wait_io"}] :
          /\ messages' = Append(messages, Assistant(m, r.iter, n))
          /\ Set(m, [r EXCEPT !.pc = "csave", !.calls = calls, !.call = 0,
                              !.total = n, !.waitIo = FALSE])
    BY <2>1
  <2> DEFINE s == [r EXCEPT !.pc = "csave", !.calls = calls, !.call = 0,
                            !.total = n, !.waitIo = FALSE]
  <2>2. s.pc = "csave" /\ s.iter = r.iter /\ ~s.cancelled /\ r.pc = "stream"
    BY <1>0, <1>1, <1>11 DEF Locals, StreamCalls, Live
  <2>3. react'[m] = s
    BY <1>0, <2>c DEF Set
  <2>4. n \in Nat
    BY BoundsAssumption
  <2> HIDE DEF s
  <2> QED  BY <1>2, <1>4, <1>5, <2>c, <2>2, <2>3, <2>4 DEF Drains, Advances
<1>12. CASE StreamReasoning(m)
  <2> DEFINE q == Append(messages, Note(m, r.iter))
  <2>1. r.pc = "stream" /\ LoopHead(m, r, q)
    BY <1>12 DEF StreamReasoning, Live
  <2>2. q \in Seq(Entry)
    BY <1>0, EntryTypes
  <2> HIDE DEF q
  <2>3. InSession(react'[m], q) /\ messages' = q
    BY <1>0, <1>1, <2>1, <2>2, LoopHeadSession
  <2> QED  BY <1>2, <1>5, <2>1, <2>3 DEF Advances, q
<1>13. CASE StreamUnreachable(m)
  <2>1. /\ r.pc = "stream" /\ Set(m, Ended("neterr"))
        /\ messages' = Append(messages, Note(m, r.iter))
    BY <1>13 DEF StreamUnreachable, Live
  <2> QED  BY <1>2, <1>3, <1>5, <2>1 DEF Advances, Results
<1>14. CASE StreamFatal(m)
  BY <1>3, <1>14 DEF StreamFatal, Advances, Results, ctx
<1>15. ~StreamInterrupted(m) /\ ~CancelDelivered(m)
  BY <1>1 DEF StreamInterrupted, CancelDelivered
<1>16. CASE FinalSaved(m)
  BY <1>3, <1>16 DEF FinalSaved, Advances, Results
<1>17. CASE CallsSaved(m)
  <2>1. r.pc = "csave" /\ r.calls # <<>> /\ NextCall(m)
    BY <1>0, <1>17 DEF CallsSaved, Live, LocalsFilled
  <2> QED  BY <1>0, <1>1, <1>2, <2>1, NextCallSession
<1>18. CASE ToolReturns(m)
  <2> DEFINE s == [r EXCEPT !.pc = "tsave"]
  <2>1. s.pc = "tsave" /\ s.iter = r.iter /\ ~s.cancelled /\ r.pc = "exec"
    BY <1>0, <1>1, <1>18 DEF Locals, ToolReturns, Live
  <2>2. react'[m] = s /\ messages' = Append(messages, ToolMsg(m, r.iter, r.call))
    BY <1>0, <1>18 DEF ToolReturns, Set
  <2> HIDE DEF s
  <2> QED  BY <1>0, <1>2, <1>4, <1>5, <2>1, <2>2 DEF Drains, Advances
<1>19. CASE ToolSaved(m)
  <2>1. r.pc = "tsave"
    BY <1>19 DEF ToolSaved, Live
  <2>2. CASE r.calls # <<>> /\ NextCall(m)
    BY <1>0, <1>1, <1>2, <2>1, <2>2, NextCallSession
  <2>3. CASE Set(m, Ended("text")) /\ messages' = messages
    BY <1>3, <2>3 DEF Advances, Results
  <2>4. CASE LoopHead(m, r, messages)
    BY <1>0, <1>1, <2>4, LoopHeadSession DEF Advances
  <2> QED  BY <1>19, <2>2, <2>3, <2>4 DEF ToolSaved
<1> QED
  BY <1>6, <1>7, <1>8, <1>9, <1>10, <1>11, <1>12, <1>13, <1>14, <1>15, <1>16, <1>17, <1>18, <1>19
     DEF React, Save, Stream

LEMMA WorkReact ==
  ASSUME TypeInv, OnlyTheStep, PoliteInv, WorkInv, NEW m \in Msgs, React(m)
  PROVE  WorkInv' /\ Advances(m) /\ m = stepTask /\ ui \notin TurnOver /\ Quiet /\ Quiet'
         /\ ui' \notin TurnOver /\ runPc # "closing"
<1>1. ReactStep(m) /\ UNCHANGED <<client, inputQ, runVars>>
  BY ReactSteps, ReactFrame
<1>2. Running(m) /\ m = stepTask /\ runPc # "closing" /\ stepTask # None
  BY <1>1, MsgsAssumption DEF ReactStep, OnlyTheStep, Running, Done, PoliteInv, ByTurns
<1>3. Quiet /\ ui \notin TurnOver /\ subQ = <<>> /\ intrQ = 0
  <2>1. Quiet /\ subQ \in Seq(Msgs) /\ ui \notin TurnOver
    BY <1>2 DEF PoliteInv, ByTurns, TypeInv, TypeOK
  <2> QED  BY <2>1 DEF Quiet, PoliteInv, NoInterrupt
<1>4. InSession(react'[m], messages') /\ Advances(m)
  BY <1>2, <1>3, ReactAdvances DEF WorkInv
<1>5. \A x \in Msgs \ {m} : ~Running(x)'
  BY <1>1, <1>2 DEF OnlyTheStep, PoliteInv, ByTurns, ReactStep, Running
<1>6. runPc' # "closing" /\ (cur' # None => runPc' = "msave")
  BY <1>1, <1>2 DEF runVars, WorkInv
<1>7. Quiet'
  <2>1. subQ' = <<>>
    BY <1>3, ReactFrame
  <2> QED  BY <1>1, <1>3, <2>1 DEF Quiet, runVars
<1>8. ui' \notin TurnOver
  BY <1>3, ReactFrame DEF ReactUi, TurnOver
<1> QED  BY <1>2, <1>3, <1>4, <1>5, <1>6, <1>7, <1>8 DEF WorkInv

LEMMA WorkRun ==
  ASSUME TypeInv, OnlyTheStep, PoliteInv, WorkInv, Run
  PROVE  WorkInv'
<1>0. /\ react \in [Msgs -> Locals] /\ messages \in Seq(Entry)
      /\ ga \in Msgs \cup {None} /\ intrQ = 0 /\ ~gb
      /\ runPc = "msave" => cur \in Msgs
      /\ None \notin Msgs /\ ~overlapped
  BY MsgsAssumption DEF TypeInv, TypeOK, RunFilled, PoliteInv, NoInterrupt, ByTurns
<1>1. CASE GetMessage \/ RunClosed
  <2>1. UNCHANGED <<messages, react, cur>> /\ runPc' # "closing" /\ runPc # "msave"
    BY <1>1 DEF GetMessage, RunClosed, Park, ctx
  <2> QED  BY <2>1 DEF WorkInv, Running
<1>2. CASE RaceMessage
  <2>1. /\ ga \in Msgs /\ stepTask = None /\ react' = react /\ runPc' = "msave"
    BY <1>0, <1>2 DEF RaceMessage, PoliteInv, ByTurns, Quiet
  <2>2. \A x \in Msgs : ~Running(x)'
    BY <1>0, <2>1 DEF OnlyTheStep, Running
  <2> QED  BY <2>1, <2>2 DEF WorkInv
<1>3. CASE MessageSaved
  <2>1. /\ cur \in Msgs /\ stepTask = None /\ runPc' # "closing" /\ cur' = None
        /\ react' = [react EXCEPT ![cur] = [Idle EXCEPT !.pc = "created",
                                                         !.cancelled = intrQ > 0]]
    BY <1>0, <1>3 DEF MessageSaved, PoliteInv, ByTurns, Quiet
  <2>2. \A x \in Msgs : ~Running(x)
    BY <1>0, <2>1 DEF OnlyTheStep
  <2> DEFINE s == [Idle EXCEPT !.pc = "created", !.cancelled = intrQ > 0]
  <2>3. s.pc = "created" /\ ~s.cancelled
    <3>1. s.pc = "created" /\ s.cancelled = (intrQ > 0)
      BY DEF Idle
    <3>2. ~(intrQ > 0)
      BY <1>0
    <3> QED  BY <3>1, <3>2
  <2>4. react'[cur] = s /\ \A x \in Msgs \ {cur} : react'[x] = react[x]
    BY <1>0, <2>1
  <2> HIDE DEF s
  <2>5. InSession(s, messages')
    BY <2>3 DEF InSession, Drains
  <2>6. \A x \in Msgs \ {cur} : ~Running(x)'
    BY <2>2, <2>4 DEF Running
  <2> QED  BY <2>1, <2>4, <2>5, <2>6 DEF WorkInv
<1>4. CASE RaceDone
  <2>1. /\ StepDone /\ stepTask' = stepTask /\ cur' = cur /\ runPc = "race"
        /\ react' = react \/ react' = DetachAll
        /\ react[stepTask].res \in Aborted \/ ui' = "final"
    BY <1>4 DEF RaceDone, DoneWins
  <2>2. \A x \in Msgs : ~Running(x)
    BY <1>0, <2>1 DEF StepDone, Done, OnlyTheStep, Running
  <2>3. stepTask \in Msgs
    BY <2>1 DEF StepDone, TypeInv, TypeOK
  <2>4. \A x \in Msgs : react'[x].res = react[x].res /\ react'[x].pc = react[x].pc
    BY <1>0, <2>1, DetachedResult
  <2> QED  BY <2>1, <2>2, <2>3, <2>4 DEF WorkInv, Running, TurnOver
<1>5. ~GetInterrupt /\ ~RaceInterrupted /\ ~InterruptHandled
  BY <1>0 DEF GetInterrupt, RaceInterrupted, InterruptHandled, PoliteInv, NoInterrupt
<1> QED  BY <1>1, <1>2, <1>3, <1>4, <1>5 DEF Run

LEMMA WorkStep ==
  TypeInv /\ OnlyTheStep /\ PoliteInv /\ Polite /\ WorkInv /\ [Next]_vars => WorkInv'
<1> SUFFICES ASSUME TypeInv, OnlyTheStep, PoliteInv, Polite, WorkInv, [Next]_vars
             PROVE  WorkInv'
  OBVIOUS
<1>1. CASE UNCHANGED vars
  <2>1. UNCHANGED <<messages, react, runPc, stepTask, ui, inputQ, subQ, ga, cur>>
    BY <1>1 DEF vars, runVars, ctx, queues
  <2> QED  BY <2>1 DEF WorkInv, Running, Quiet
<1>2. CASE SendInterrupt \/ Pump \/ \E m \in Msgs : SendMessage(m)
  <2>1. UNCHANGED <<messages, react, runPc, stepTask, cur>>
    BY <1>2 DEF SendInterrupt, Pump, SendMessage, runVars, ctx
  <2>2. ui' \notin TurnOver => ~Quiet'
    <3>1. inputQ \in Seq(Msgs \cup {Intr}) /\ subQ \in Seq(Msgs)
      BY DEF TypeInv, TypeOK
    <3>2. CASE SendInterrupt
      BY <3>2 DEF SendInterrupt, PoliteInv, NoInterrupt
    <3>3. CASE Pump
      <4>1. ~Quiet
        BY <3>1, <3>3 DEF Pump, Quiet
      <4>2. Head(inputQ) \in Msgs
        BY <3>3 DEF Pump, PoliteInv, NoInterrupt
      <4>3. subQ' = Append(subQ, Head(inputQ))
        BY <3>3, <4>2, MsgsAssumption DEF Pump
      <4> QED  BY <3>1, <4>2, <4>3 DEF Quiet
    <3>4. ASSUME NEW m \in Msgs, SendMessage(m) PROVE ~Quiet'
      BY <3>1, <3>4 DEF SendMessage, Quiet
    <3> QED  BY <1>2, <3>2, <3>3, <3>4
  <2> QED  BY <2>1, <2>2 DEF WorkInv, Running
<1>3. ASSUME NEW m \in Msgs, React(m) PROVE WorkInv'
  BY <1>3, WorkReact
<1> QED  BY <1>1, <1>2, <1>3, WorkRun DEF Next

-----------------------------------------------------------------------------
(* The steps of SessionTurns.                                               *)

Waits == inputQ # <<>> \/ subQ # <<>> \/ ga # None
KeptHere == IF cur # None THEN messages ELSE before
Same == UNCHANGED <<TurnPhase, TurnMessage, unsent, messages, KeptHere>>

\* A message that waits is the only one, and run() has not saved one.
LEMMA OneWaits ==
  ASSUME TypeInv, PoliteInv
  PROVE  /\ Waits => ui \notin TurnOver /\ cur = None
         /\ inputQ # <<>> => subQ = <<>> /\ ga = None
         /\ subQ # <<>> => inputQ = <<>> /\ ga = None
         /\ Quiet <=> ~Waits /\ cur = None
<1>1. inputQ \in Seq(Msgs \cup {Intr}) /\ subQ \in Seq(Msgs)
  BY DEF TypeInv, TypeOK
<1>2. (Len(inputQ) = 0 <=> inputQ = <<>>) /\ (Len(subQ) = 0 <=> subQ = <<>>)
  BY <1>1
<1>3. Quiet \/ OnePending
  BY DEF PoliteInv, ByTurns
<1>4. Quiet <=> ~Waits /\ cur = None
  BY <1>2 DEF Quiet, Waits
<1>5. ui \in TurnOver => Quiet
  BY DEF PoliteInv, ByTurns
<1>6. /\ inputQ # <<>> => subQ = <<>> /\ ga = None /\ cur = None
      /\ subQ # <<>> => inputQ = <<>> /\ ga = None /\ cur = None
      /\ ga # None => cur = None
  BY <1>2, <1>3 DEF Quiet, OnePending
<1> QED  BY <1>4, <1>5, <1>6 DEF Waits

\* The client's steps and the pumper's.
LEMMA SessionClient ==
  ASSUME TypeInv, PoliteInv, Polite,
         SendInterrupt \/ Pump \/ \E m \in Msgs : SendMessage(m)
  PROVE  Session!Next \/ Same
<1>0. inputQ \in Seq(Msgs) /\ subQ \in Seq(Msgs) /\ Intr \notin Msgs /\ None \notin Msgs
  BY MsgsAssumption DEF TypeInv, TypeOK, PoliteInv, NoInterrupt
<1>1. ~SendInterrupt
  BY DEF SendInterrupt, PoliteInv, NoInterrupt
<1>2. CASE Pump
  <2>1. /\ inputQ # <<>> /\ inputQ' = Tail(inputQ) /\ subQ' = Append(subQ, Head(inputQ))
        /\ Head(inputQ) \in Msgs
        /\ UNCHANGED <<unsent, ui, ga, cur, messages, before>>
    <3>1. Head(inputQ) \in Msgs
      BY <1>0, <1>2 DEF Pump
    <3> QED  BY <1>0, <1>2, <3>1 DEF Pump, client, runVars, ctx
  <2>2. Waits /\ ui \notin TurnOver /\ subQ = <<>> /\ ga = None
    BY <2>1, OneWaits DEF Waits
  <2>3. subQ' # <<>> /\ Head(subQ') = Head(inputQ)
    BY <1>0, <2>1, <2>2
  <2>4. inputQ' = <<>>
    <3>1. Len(inputQ) = 1
      BY <1>0, <2>1 DEF PoliteInv, ByTurns, Quiet, OnePending
    <3> QED  BY <1>0, <2>1, <3>1
  <2>5. TurnPhase = "asked" /\ TurnPhase' = "asked"
    BY <2>1, <2>2, <2>3 DEF TurnPhase
  <2>6. TurnMessage = Head(inputQ) /\ TurnMessage' = Head(inputQ)
    BY <2>1, <2>3, <2>4, <2>5 DEF TurnMessage
  <2> QED  BY <2>1, <2>5, <2>6 DEF Same, KeptHere
<1>3. ASSUME NEW m \in Msgs, SendMessage(m) PROVE Session!Next
  <2>1. /\ m \in unsent /\ ui \in TurnOver /\ unsent' = unsent \ {m} /\ ui' = "sent"
        /\ inputQ' = Append(inputQ, m) /\ UNCHANGED <<subQ, ga, cur, messages, before>>
    BY <1>3 DEF SendMessage, Polite, runVars, ctx
  <2>2. inputQ = <<>>
    BY <2>1, OneWaits DEF Waits
  <2>3. inputQ' # <<>> /\ Head(inputQ') = m
    BY <1>0, <2>1, <2>2
  <2>4. TurnPhase = "over" /\ TurnPhase' = "asked"
    BY <2>1, <2>3 DEF TurnPhase, TurnOver
  <2>5. TurnMessage' = m
    BY <2>3, <2>4 DEF TurnMessage
  <2>6. KeptHere' = KeptHere
    BY <2>1 DEF KeptHere
  <2>7. Session!Ask(m)
    BY <2>1, <2>4, <2>5, <2>6 DEF Session!Ask, KeptHere
  <2> QED  BY <2>7 DEF Session!Next
<1> QED  BY <1>1, <1>2, <1>3

\* The react writes, folds, or leaves the conversation as it is.
LEMMA SessionReact ==
  ASSUME TypeInv, OnlyTheStep, PoliteInv, PoliteInv', TypeInv', WorkInv,
         NEW m \in Msgs, React(m)
  PROVE  Session!Next \/ Same
<1>1. /\ Advances(m) /\ m = stepTask /\ Quiet /\ Quiet' /\ runPc # "closing"
      /\ ui \notin TurnOver /\ ui' \notin TurnOver
  BY WorkReact
<1>2. UNCHANGED <<unsent, inputQ, ga, cur, stepTask, runPc, before>>
  BY ReactFrame DEF client, runVars
<1>3. /\ inputQ = <<>> /\ subQ = <<>> /\ subQ' = <<>> /\ ga = None /\ cur = None
  <2>1. inputQ \in Seq(Msgs \cup {Intr}) /\ subQ \in Seq(Msgs) /\ subQ' \in Seq(Msgs)
    BY DEF TypeInv, TypeOK
  <2> QED  BY <1>1, <2>1 DEF Quiet
<1>4. TurnPhase = "working" /\ TurnPhase' = "working"
  BY <1>1, <1>2, <1>3 DEF TurnPhase
<1>5. TurnMessage = m /\ TurnMessage' = m
  BY <1>1, <1>2, <1>3, <1>4 DEF TurnMessage
<1>6. KeptHere = before /\ KeptHere' = before
  BY <1>2, <1>3 DEF KeptHere
<1>7. CASE messages' = messages
  BY <1>2, <1>4, <1>5, <1>6, <1>7 DEF Same
<1>8. CASE \E x \in OwnEntries(m) : messages' = Append(messages, x)
  <2>1. PICK x \in OwnEntries(m) : messages' = Append(messages, x)
    BY <1>8
  <2>2. messages \in Seq(Entry) /\ x \in Entry
    BY DEF TypeInv, TypeOK, OwnEntries, Entry
  <2>3. Len(messages') = Len(messages) + 1 /\ messages'[Len(messages')] = x
    BY <2>1, <2>2
  <2>4. [y \in Msgs |-> OwnEntries(y)][m] = OwnEntries(m)
    OBVIOUS
  <2>5. Session!Write
    BY <1>2, <1>4, <1>5, <1>6, <2>1, <2>3, <2>4 DEF Session!Write, KeptHere
  <2> QED  BY <2>5 DEF Session!Next
<1>9. CASE \E k \in 1..(Len(messages) - 1) :
             /\ messages[k + 1].role = "user"
             /\ messages' = SubSeq(messages, k + 1, Len(messages))
  <2>1. Session!Fold
    BY <1>2, <1>4, <1>5, <1>6, <1>9 DEF Session!Fold, KeptHere
  <2> QED  BY <2>1 DEF Session!Next
<1> QED  BY <1>1, <1>7, <1>8, <1>9 DEF Advances

LEMMA SessionRun ==
  ASSUME TypeInv, PoliteInv, PoliteInv', TypeInv', WorkInv, Run
  PROVE  Session!Next \/ Same
<1>0. /\ inputQ \in Seq(Msgs) /\ subQ \in Seq(Msgs) /\ None \notin Msgs
      /\ ga \in Msgs \cup {None} /\ intrQ = 0 /\ ~gb /\ intrQ = 0
      /\ runPc = "msave" => cur \in Msgs
      /\ runPc = "closing" => stepTask \in Msgs
  BY MsgsAssumption DEF TypeInv, TypeOK, RunFilled, PoliteInv, NoInterrupt
<1>1. CASE GetMessage
  <2>1. /\ ga = None /\ subQ # <<>> /\ ga' = Head(subQ) /\ subQ' = Tail(subQ) /\ ga' \in Msgs
        /\ UNCHANGED <<unsent, ui, inputQ, cur, messages, before>>
    BY <1>0, <1>1, OneTaken DEF GetMessage, client, ctx
  <2>2. ui \notin TurnOver /\ inputQ = <<>> /\ ga' # None
    BY <1>0, <2>1, OneWaits DEF Waits
  <2>3. subQ' = <<>>
    <3>1. Len(subQ) = 1
      BY <1>0, <2>1 DEF PoliteInv, ByTurns, Quiet, OnePending
    <3> QED  BY <1>0, <2>1, <3>1
  <2>4. TurnPhase = "asked" /\ TurnPhase' = "asked"
    BY <2>1, <2>2 DEF TurnPhase
  <2>5. TurnMessage' = TurnMessage
    BY <2>1, <2>2, <2>3, <2>4 DEF TurnMessage
  <2> QED  BY <2>1, <2>4, <2>5 DEF Same, KeptHere
<1>2. CASE RaceMessage
  <2>1. /\ ga # None /\ ga \in Msgs /\ cur' = ga /\ ga' = None /\ runPc' = "msave"
        /\ messages' = Append(messages, User(ga))
        /\ UNCHANGED <<unsent, ui, inputQ, subQ>>
    BY <1>0, <1>2 DEF RaceMessage, client, queues
  <2>2. ui \notin TurnOver /\ inputQ = <<>> /\ subQ = <<>>
    BY <2>1, OneWaits DEF Waits
  <2>3. TurnPhase = "asked" /\ TurnPhase' = "working"
    BY <2>1, <2>2 DEF TurnPhase
  <2>4. TurnMessage = ga /\ TurnMessage' = ga
    BY <2>1, <2>2, <2>3 DEF TurnMessage
  <2>5. KeptHere' = messages'
    BY <2>1 DEF KeptHere
  <2>6. [m \in Msgs |-> User(m)][ga] = User(ga)
    BY <2>1
  <2>7. Session!Take
    BY <2>1, <2>3, <2>4, <2>5, <2>6 DEF Session!Take, KeptHere
  <2> QED  BY <2>7 DEF Session!Next
<1>3. CASE MessageSaved
  <2>1. /\ runPc = "msave" /\ cur \in Msgs /\ cur' = None /\ stepTask' = cur /\ before' = messages
        /\ runPc' = "race"
        /\ UNCHANGED <<unsent, ui, inputQ, subQ, ga, messages>>
    BY <1>0, <1>3 DEF MessageSaved, client
  <2>2. ui \notin TurnOver /\ ~Waits
    <3>1. ~Quiet
      BY <1>0, <2>1 DEF Quiet
    <3> QED  BY <1>0, <2>1, <3>1, OneWaits DEF PoliteInv, ByTurns
  <2>3. TurnPhase = "working" /\ TurnPhase' = "working"
    BY <2>1, <2>2 DEF TurnPhase, Waits
  <2>4. TurnMessage = cur /\ TurnMessage' = cur
    BY <1>0, <2>1, <2>3 DEF TurnMessage
  <2>5. KeptHere = messages /\ KeptHere' = messages
    BY <1>0, <2>1 DEF KeptHere
  <2> QED  BY <2>1, <2>3, <2>4, <2>5 DEF Same
<1>4. CASE RaceDone
  <2>1. /\ runPc = "race" /\ runPc' = "closing" /\ stepTask \in Msgs /\ ga' = None
        /\ UNCHANGED <<unsent, inputQ, subQ, cur, stepTask, before>>
        /\ \/ messages' = before /\ ui' = ui
           \/ ui' = "final" /\ messages' = messages
    BY <1>4 DEF RaceDone, DoneWins, StepDone, RolledBack, client, queues, TypeInv, TypeOK
  <2>2. Quiet /\ ui \notin TurnOver
    BY <1>0, <2>1, MsgsAssumption DEF PoliteInv, ByTurns
  <2>3. inputQ = <<>> /\ subQ = <<>> /\ ga = None /\ cur = None
    BY <2>2, OneWaits DEF Waits
  <2>4. TurnPhase = "working"
    BY <2>1, <2>2, <2>3 DEF TurnPhase
  <2>5. KeptHere = before /\ KeptHere' = before
    BY <2>1, <2>3 DEF KeptHere
  <2>6. CASE messages' = before /\ ui' = ui
    <3>1. TurnPhase' = "failed"
      BY <2>1, <2>2, <2>3, <2>6 DEF TurnPhase
    <3>2. TurnMessage = stepTask /\ TurnMessage' = stepTask
      BY <2>1, <2>3, <2>4, <3>1 DEF TurnMessage
    <3>3. Session!Fail
      BY <2>1, <2>4, <2>5, <2>6, <3>1, <3>2 DEF Session!Fail, KeptHere
    <3> QED  BY <3>3 DEF Session!Next
  <2>7. CASE ui' = "final" /\ messages' = messages
    <3>1. TurnPhase' = "over"
      BY <2>7 DEF TurnPhase, TurnOver
    <3>2. TurnMessage' = None
      BY <3>1 DEF TurnMessage
    <3>3. Session!Answer
      BY <2>1, <2>4, <2>5, <2>7, <3>1, <3>2 DEF Session!Answer, KeptHere
    <3> QED  BY <3>3 DEF Session!Next
  <2> QED  BY <2>1, <2>6, <2>7
<1>5. CASE RunClosed
  <2>1. /\ runPc = "closing" /\ runPc' = "race" /\ ui' = ClosedUi(react[stepTask].res)
        /\ UNCHANGED <<unsent, inputQ, subQ, ga, cur, messages, before>>
    BY <1>0, <1>5 DEF RunClosed, Park, client, ctx
  <2>2. KeptHere' = KeptHere
    BY <2>1 DEF KeptHere
  <2>3. CASE react[stepTask].res \notin Aborted
    <3>1. ui' = ui
      BY <2>1, <2>3 DEF ClosedUi
    <3>2. ui \in TurnOver \/ Waits
      <4>1. ui \in TurnOver \/ ~Quiet
        BY <2>1, <2>3 DEF WorkInv
      <4>2. cur = None
        BY <2>1 DEF WorkInv
      <4> QED  BY <4>1, <4>2, OneWaits
    <3>3. TurnPhase' = TurnPhase /\ TurnPhase \in {"over", "asked"}
      BY <2>1, <3>1, <3>2 DEF TurnPhase, Waits
    <3>4. TurnMessage' = TurnMessage
      BY <2>1, <3>3 DEF TurnMessage
    <3> QED  BY <2>1, <2>2, <3>3, <3>4 DEF Same
  <2>4. CASE react[stepTask].res \in Aborted
    <3>1. ui' = "idle"
      BY <2>1, <2>4 DEF ClosedUi
    <3>2. ui \notin TurnOver /\ Quiet
      BY <1>0, <2>1, <2>4 DEF PoliteInv, ByTurns
    <3>3. inputQ = <<>> /\ subQ = <<>> /\ ga = None /\ cur = None
      BY <3>2, OneWaits DEF Waits
    <3>4. TurnPhase = "failed" /\ TurnPhase' = "over"
      BY <2>1, <3>1, <3>2, <3>3 DEF TurnPhase, TurnOver
    <3>5. TurnMessage' = None
      BY <3>4 DEF TurnMessage
    <3>6. Session!FailureSaid
      BY <2>1, <2>2, <3>4, <3>5 DEF Session!FailureSaid, KeptHere
    <3> QED  BY <3>6 DEF Session!Next
  <2> QED  BY <2>3, <2>4
<1>6. ~GetInterrupt /\ ~RaceInterrupted /\ ~InterruptHandled
  BY <1>0 DEF GetInterrupt, RaceInterrupted, InterruptHandled, PoliteInv, NoInterrupt
<1> QED  BY <1>1, <1>2, <1>3, <1>4, <1>5, <1>6 DEF Run

\* For clients that take turns the engine implements SessionTurns: one question at a
\* time, a conversation that nobody but its turn touches and that a failed turn
\* leaves exactly as it was when the turn began, however long the trace of one turn
\* is still being saved while the next message is on its way (engine.py 293-331,
\* 366-383).
THEOREM TurnsImplementation == Polite => (Spec => ImplementsSession)
<1> SUFFICES ASSUME Polite PROVE Spec => ImplementsSession
  OBVIOUS
<1>1. Init => WorkInv /\ Session!Init
  <2> SUFFICES ASSUME Init PROVE WorkInv /\ Session!Init
    OBVIOUS
  <2>1. \A m \in Msgs : react[m].pc = "none"
    BY DEF Init, Idle
  <2>2. WorkInv
    BY <2>1 DEF WorkInv, Running, Init
  <2>3. TurnPhase = "over" /\ TurnMessage = None
    BY DEF Init, TurnPhase, TurnMessage, TurnOver
  <2> QED  BY <2>2, <2>3 DEF Init, Session!Init
<1>2. TypeInv /\ TypeInv' /\ OnlyTheStep /\ PoliteInv /\ PoliteInv' /\ WorkInv /\ [Next]_vars
      => [Session!Next]_(Session!vars)
  <2> SUFFICES ASSUME TypeInv, TypeInv', OnlyTheStep, PoliteInv, PoliteInv', WorkInv, [Next]_vars
               PROVE  Session!Next \/ UNCHANGED Session!vars
    OBVIOUS
  <2>1. Same => UNCHANGED Session!vars
    BY DEF Same, Session!vars, KeptHere
  <2>2. CASE UNCHANGED vars
    <3>1. UNCHANGED <<unsent, ui, inputQ, subQ, ga, cur, stepTask, runPc, messages, before>>
      BY <2>2 DEF vars, client, queues, runVars, ctx
    <3>2. Same
      BY <3>1 DEF Same, TurnPhase, TurnMessage, KeptHere
    <3> QED  BY <2>1, <3>2
  <2> QED  BY <2>1, <2>2, SessionClient, SessionReact, SessionRun DEF Next
<1> QED
  BY <1>1, <1>2, PoliteInit, PoliteStep, TypeInvariance, StepInit, StepStep, WorkStep, PTL
     DEF Spec, ImplementsSession, Session!Spec
=============================================================================
