--------------------------- MODULE LoopEngineProofs ---------------------------
(***************************************************************************)
(* What TLAPS proves of LoopEngine for every value of its constants: type  *)
(* correctness, and the three safety properties that hold without any      *)
(* discipline of the clients: ToolBracket, IdleMeansStopped and            *)
(* DeliveredOnce.                                                          *)
(***************************************************************************)
EXTENDS LoopEngine, FiniteSetTheorems, TLAPS

(* TypeOK is not inductive alone: an action that takes the head of a local *)
(* list relies on the pc for its not being empty.                          *)
LocalsFilled(re) ==
  \A m \in Msgs :
    /\ re[m].pc \in {"dsave", "fdsave"} => re[m].pend # <<>>
    /\ re[m].pc = "csave" => re[m].calls # <<>>
    /\ re[m].pc = "ksave" => re[m].held # <<>>

RunFilled ==
  /\ runPc = "msave" => cur \in Msgs
  /\ runPc \in {"hwait", "closing"} => stepTask \in Msgs

TypeInv == TypeOK /\ LocalsFilled(react) /\ RunFilled

Ui == {"idle", "final", "sent", "compressing", "thinking", "tooling", "wait_io"}

-----------------------------------------------------------------------------
(* Facts about the operators the actions are built from.                   *)

LEMMA EntryTypes ==
  ASSUME NEW m \in Msgs, NEW i \in Nat, NEW n \in Nat
  PROVE  /\ User(m) \in Entry /\ Note(m, i) \in Entry
         /\ Assistant(m, i, n) \in Entry /\ ToolMsg(m, i, n) \in Entry
BY DEF User, Note, Assistant, ToolMsg, Entry

LEMMA FoldEndType ==
  ASSUME NEW msgs \in Seq(Entry)
  PROVE  FoldEnd(msgs) \in Nat
<1> DEFINE n == Cardinality(Turns(msgs)) - Kept
           first == {i \in Turns(msgs) : Cardinality({j \in Turns(msgs) : j < i}) = n}
<1>1. CASE n <= 0 \/ first = {}
  BY <1>1 DEF FoldEnd
<1>2. CASE ~(n <= 0 \/ first = {})
  <2>1. (CHOOSE i \in first : TRUE) \in first
    BY <1>2
  <2>2. first \subseteq 1..Len(msgs)
    BY DEF Turns
  <2> QED  BY <1>2, <2>1, <2>2 DEF FoldEnd
<1> QED  BY <1>1, <1>2

LEMMA FoldedType ==
  ASSUME NEW msgs \in Seq(Entry), NEW end \in Nat
  PROVE  Folded(msgs, end) \in Seq(Entry)
BY DEF Folded

LEMMA EmptyLists ==
  <<>> \in Seq(Msgs) /\ <<>> \in Seq({"tool", "wait_io"}) /\ <<>> \in Seq(Seq(Entry))
OBVIOUS

LEMMA NoneIsAResult == "none" \in Results
BY DEF Results

LEMMA LocalTypes ==
  ASSUME NEW why \in Results
  PROVE  /\ Idle \in Locals
         /\ Ended(why) \in Locals /\ Ended(why).pc = "done"
<1>1. Idle \in Locals
  BY EmptyLists, NoneIsAResult DEF Idle, Locals
<1>2. [Idle EXCEPT !.pc = "done", !.res = why] \in Locals
  BY <1>1 DEF Locals
<1> QED  BY <1>1, <1>2 DEF Ended, Locals

LEMMA LocalFields ==
  ASSUME NEW r \in Locals
  PROVE  /\ r.iter \in Nat /\ r.call \in Nat /\ r.total \in Nat /\ r.foldAt \in Nat
         /\ r.calls \in Seq({"tool", "wait_io"}) /\ r.pend \in Seq(Msgs)
         /\ r.held \in Seq(Seq(Entry)) /\ r.res \in Results
BY DEF Locals

\* The updates the actions make to a react's local state.
LEMMA NextIter ==
  ASSUME NEW r \in Locals
  PROVE  [r EXCEPT !.iter = @ + 1] \in Locals
<1>1. r.iter + 1 \in Nat
  BY LocalFields
<1> QED  BY <1>1 DEF Locals

LEMMA NextPend ==
  ASSUME NEW r \in Locals, NEW p \in Seq(Msgs), NEW pc \in {"dsave", "fdsave"}
  PROVE  /\ [r EXCEPT !.pend = p] \in Locals
         /\ [r EXCEPT !.pc = pc, !.pend = p] \in Locals
         /\ [r EXCEPT !.pc = pc, !.pend = p].pend = p
         /\ [r EXCEPT !.pc = pc, !.pend = p].pc = pc
BY DEF Locals

LEMMA NextPc ==
  ASSUME NEW r \in Locals,
         NEW pc \in {"created", "stream", "fsave", "tsave", "exec"}
  PROVE  /\ [r EXCEPT !.pc = pc] \in Locals /\ [r EXCEPT !.pc = pc].pc = pc
         /\ [r EXCEPT !.pc = pc, !.waitIo = TRUE] \in Locals
         /\ [r EXCEPT !.pc = pc, !.waitIo = TRUE].pc = pc
BY DEF Locals

LEMMA NextHeld ==
  ASSUME NEW r \in Locals, NEW h \in Seq(Seq(Entry)), NEW pc \in {"stream", "ksave"}
  PROVE  /\ [r EXCEPT !.held = h] \in Locals
         /\ [r EXCEPT !.pc = pc, !.held = h] \in Locals
         /\ [r EXCEPT !.pc = pc, !.held = h].pc = pc
         /\ [r EXCEPT !.pc = pc, !.held = h].held = h
BY DEF Locals

LEMMA NextTurn ==
  ASSUME NEW r \in Locals, NEW end \in Nat
  PROVE  /\ [r EXCEPT !.pc = "stream", !.pend = <<>>] \in Locals
         /\ [r EXCEPT !.pc = "fold", !.pend = <<>>, !.foldAt = end, !.held = <<>>] \in Locals
BY EmptyLists DEF Locals

LEMMA NextCalls ==
  ASSUME NEW r \in Locals, NEW c \in Seq({"tool", "wait_io"}), NEW n \in Nat
  PROVE  /\ [r EXCEPT !.pc = "csave", !.calls = c, !.call = 0, !.total = n,
                      !.waitIo = FALSE] \in Locals
         /\ [r EXCEPT !.calls = c, !.call = @ + 1] \in Locals
<1>1. r.call + 1 \in Nat
  BY LocalFields
<1> QED  BY <1>1 DEF Locals

\* The operators that end an atomic segment leave well-typed values behind.
LEMMA SetLocal ==
  ASSUME NEW m \in Msgs, NEW r \in Locals, Set(m, r),
         react \in [Msgs -> Locals], LocalsFilled(react),
         r.pc \in {"dsave", "fdsave"} => r.pend # <<>>,
         r.pc = "csave" => r.calls # <<>>,
         r.pc = "ksave" => r.held # <<>>
  PROVE  react' \in [Msgs -> Locals] /\ LocalsFilled(react')
BY DEF Set, LocalsFilled

LEMMA BeginTurnType ==
  ASSUME NEW m \in Msgs, NEW r \in Locals, NEW msgs \in Seq(Entry),
         react \in [Msgs -> Locals], LocalsFilled(react), BeginTurn(m, r, msgs)
  PROVE  /\ messages' \in Seq(Entry) /\ ui' \in Ui
         /\ react' \in [Msgs -> Locals] /\ LocalsFilled(react')
<1>1. messages' \in Seq(Entry) /\ ui' \in Ui
  BY DEF BeginTurn, Ui
<1>2. CASE Set(m, [r EXCEPT !.pc = "stream", !.pend = <<>>])
  <2>1. [r EXCEPT !.pc = "stream", !.pend = <<>>].pc = "stream"
    BY DEF Locals
  <2> QED  BY <1>1, <1>2, <2>1, NextTurn, SetLocal
<1>3. CASE Set(m, [r EXCEPT !.pc = "fold", !.pend = <<>>, !.foldAt = FoldEnd(msgs),
                            !.held = <<>>])
  <2>1. [r EXCEPT !.pc = "fold", !.pend = <<>>, !.foldAt = FoldEnd(msgs),
                  !.held = <<>>].pc = "fold"
    BY DEF Locals
  <2> QED  BY <1>1, <1>3, <2>1, FoldEndType, NextTurn, SetLocal
<1> QED  BY <1>2, <1>3 DEF BeginTurn

LEMMA LoopHeadType ==
  ASSUME NEW m \in Msgs, NEW r \in Locals, NEW msgs \in Seq(Entry),
         react \in [Msgs -> Locals], LocalsFilled(react),
         subQ \in Seq(Msgs), intrQ \in Nat, ui \in Ui, LoopHead(m, r, msgs)
  PROVE  /\ messages' \in Seq(Entry) /\ ui' \in Ui
         /\ react' \in [Msgs -> Locals] /\ LocalsFilled(react')
         /\ subQ' \in Seq(Msgs) /\ intrQ' \in Nat
<1> DEFINE s == [r EXCEPT !.iter = @ + 1]
<1>1. s \in Locals
  BY NextIter
<1>2. CASE Set(m, Ended("maxsteps")) /\ messages' = msgs /\ UNCHANGED <<subQ, intrQ, ui>>
  BY <1>2, LocalTypes, SetLocal DEF Results
<1>3. CASE intrQ > 0 /\ intrQ' = intrQ - 1 /\ Set(m, Ended("interrupted"))
           /\ messages' = msgs /\ UNCHANGED <<subQ, ui>>
  BY <1>3, LocalTypes, SetLocal DEF Results
<1>4. CASE subQ # <<>> /\ subQ' = AfterDrain /\ messages' = Append(msgs, User(Head(subQ)))
           /\ Set(m, [s EXCEPT !.pc = "dsave", !.pend = subQ]) /\ UNCHANGED <<intrQ, ui>>
  <2> DEFINE d == [s EXCEPT !.pc = "dsave", !.pend = subQ]
  <2>1. User(Head(subQ)) \in Entry
    BY <1>4, EntryTypes
  <2>2. d \in Locals /\ d.pc = "dsave" /\ d.pend = subQ
    BY <1>1, NextPend
  <2>3. react' \in [Msgs -> Locals] /\ LocalsFilled(react')
    <3>1. Set(m, d) /\ subQ # <<>>
      BY <1>4
    <3> HIDE DEF d
    <3> QED  BY <2>2, <3>1, SetLocal
  <2>4. messages' \in Seq(Entry)
    BY <1>4, <2>1
  <2> QED  BY <1>4, <2>3, <2>4, EmptyLists DEF AfterDrain
<1>5. CASE BeginTurn(m, s, msgs) /\ UNCHANGED <<subQ, intrQ>>
  <2> HIDE DEF s
  <2> QED  BY <1>1, <1>5, BeginTurnType
<1> QED  BY <1>2, <1>3, <1>4, <1>5 DEF LoopHead

LEMMA WrittenType ==
  ASSUME NEW m \in Msgs, react \in [Msgs -> Locals], LocalsFilled(react),
         durable \in Seq(Entry)
  PROVE  Written(m) \in Seq(Entry)
<1> DEFINE r == react[m]
<1>1. /\ r.iter \in Nat /\ r.call \in Nat /\ r.total \in Nat
      /\ r.pend \in Seq(Msgs) /\ r.held \in Seq(Seq(Entry))
  BY LocalFields
<1>2. CASE r.pc \in {"dsave", "fdsave"}
  <2>1. User(Head(r.pend)) \in Entry
    BY <1>1, <1>2, EntryTypes DEF LocalsFilled
  <2> QED  BY <1>2, <2>1 DEF Written
<1>3. CASE r.pc \in {"fsave", "csave", "tsave"}
  <2>1. /\ Assistant(m, r.iter, 0) \in Entry /\ Assistant(m, r.iter, r.total) \in Entry
        /\ ToolMsg(m, r.iter, r.call) \in Entry
    BY <1>1, EntryTypes
  <2> QED  BY <1>3, <2>1 DEF Written
<1>4. CASE r.pc = "ksave"
  BY <1>1, <1>4 DEF Written, LocalsFilled
<1>5. CASE r.pc \notin {"dsave", "fdsave", "fsave", "csave", "tsave", "ksave"}
  BY <1>5 DEF Written
<1> QED  BY <1>2, <1>3, <1>4, <1>5

LEMMA NextCallType ==
  ASSUME NEW m \in Msgs, react \in [Msgs -> Locals], LocalsFilled(react),
         messages \in Seq(Entry), openTools \subseteq CallIds,
         react[m].calls # <<>>, NextCall(m)
  PROVE  /\ messages' \in Seq(Entry) /\ openTools' \subseteq CallIds
         /\ react' \in [Msgs -> Locals] /\ LocalsFilled(react')
<1> DEFINE r == react[m]
           s == [r EXCEPT !.calls = Tail(@), !.call = @ + 1]
<1>1. r.iter \in Nat /\ r.call \in Nat /\ Tail(r.calls) \in Seq({"tool", "wait_io"})
  <2>1. r.calls \in Seq({"tool", "wait_io"}) /\ r.iter \in Nat /\ r.call \in Nat
    BY LocalFields
  <2> QED  BY <2>1
<1>2. s \in Locals
  BY <1>1, NextCalls
<1>3. CASE openTools' = openTools \cup {[by |-> m, step |-> r.iter, n |-> r.call + 1]}
           /\ Set(m, [s EXCEPT !.pc = "exec"]) /\ UNCHANGED messages
  <2>1. [by |-> m, step |-> r.iter, n |-> r.call + 1] \in CallIds
    BY <1>1 DEF CallIds
  <2>2. openTools' \subseteq CallIds
    BY <1>3, <2>1
  <2> HIDE DEF s
  <2> QED  BY <1>2, <1>3, <2>2, NextPc, SetLocal
<1>4. CASE messages' = Append(messages, ToolMsg(m, r.iter, r.call + 1))
           /\ Set(m, [s EXCEPT !.pc = "tsave", !.waitIo = TRUE]) /\ UNCHANGED openTools
  <2>1. ToolMsg(m, r.iter, r.call + 1) \in Entry
    BY <1>1, EntryTypes
  <2>2. messages' \in Seq(Entry)
    BY <1>4, <2>1
  <2> HIDE DEF s
  <2> QED  BY <1>2, <1>4, <2>2, NextPc, SetLocal
<1> QED  BY <1>3, <1>4 DEF NextCall

LEMMA DetachAllType ==
  ASSUME react \in [Msgs -> Locals], messages \in Seq(Entry)
  PROVE  /\ DetachAll \in [Msgs -> Locals]
         /\ LocalsFilled(react) => LocalsFilled(DetachAll)
         /\ \A x \in Msgs : DetachAll[x].pc = react[x].pc
<1>1. ASSUME NEW x \in Msgs
      PROVE  Detached(x) \in Locals /\ Detached(x).pc = react[x].pc
             /\ (Detached(x) = react[x] \/ Detached(x).pc = "fold")
  <2>1. [react[x] EXCEPT !.held = <<messages>>] \in Locals
    <3>1. <<messages>> \in Seq(Seq(Entry))
      OBVIOUS
    <3> QED  BY <3>1, NextHeld
  <2>2. [react[x] EXCEPT !.held = <<messages>>].pc = react[x].pc
    BY DEF Locals
  <2> QED  BY <2>1, <2>2 DEF Detached
<1> QED  BY <1>1 DEF DetachAll, LocalsFilled

-----------------------------------------------------------------------------
(* Type correctness.                                                       *)

LEMMA TypeInit == Init => TypeInv
<1> SUFFICES ASSUME Init PROVE TypeInv
  OBVIOUS
<1>1. react \in [Msgs -> Locals] /\ LocalsFilled(react)
  BY LocalTypes, NoneIsAResult DEF Init, LocalsFilled, Idle
<1>2. durable \in Seq(Entry)
  BY HistoriesAssumption DEF Init
<1>3. inputQ \in Seq(Msgs \cup {Intr}) /\ subQ \in Seq(Msgs)
  BY DEF Init
<1>4. messages \in Seq(Entry) /\ before \in Seq(Entry)
  BY <1>2 DEF Init
<1> QED  BY <1>1, <1>2, <1>3, <1>4, BoundsAssumption DEF Init, TypeInv, TypeOK, RunFilled

LEMMA TypeClient ==
  ASSUME TypeInv,
         SendInterrupt \/ Pump \/ \E m \in Msgs : SendMessage(m)
  PROVE  TypeInv'
<1> USE DEF TypeInv, TypeOK, RunFilled, runVars, ctx
<1>1. CASE SendInterrupt
  BY <1>1 DEF SendInterrupt
<1>2. CASE Pump
  <2>1. Head(inputQ) \in Msgs \cup {Intr} /\ Tail(inputQ) \in Seq(Msgs \cup {Intr})
    BY <1>2 DEF Pump
  <2>2. subQ' \in Seq(Msgs) /\ intrQ' \in Nat
    <3>1. CASE Head(inputQ) = Intr
      BY <1>2, <3>1 DEF Pump
    <3>2. CASE Head(inputQ) # Intr
      <4>1. subQ' = Append(subQ, Head(inputQ)) /\ intrQ' = intrQ
        BY <1>2, <3>2 DEF Pump
      <4> QED  BY <2>1, <3>2, <4>1
    <3> QED  BY <3>1, <3>2
  <2> QED  BY <1>2, <2>1, <2>2 DEF Pump, client
<1>3. CASE \E m \in Msgs : SendMessage(m)
  BY <1>3 DEF SendMessage
<1> QED  BY <1>1, <1>2, <1>3

LEMMA ParkType ==
  ASSUME NEW state \in Ui, Park(state)
  PROVE  runPc' = "race" /\ stepTask' = None /\ intrQ' \in Nat /\ ui' \in Ui
BY DEF Park, Ui

LEMMA TypeRun == ASSUME TypeInv, Run PROVE TypeInv'
<1> USE DEF TypeInv, TypeOK, RunFilled, Ui
<1>0. react \in [Msgs -> Locals] /\ LocalsFilled(react)
  OBVIOUS
<1>1. CASE GetMessage
  BY <1>1 DEF GetMessage, client, ctx
<1>2. CASE GetInterrupt
  BY <1>2 DEF GetInterrupt, client, ctx
<1>3. CASE RaceInterrupted
  <2>1. CASE StepRunning /\ StepCancellation
    <3>1. stepTask \in Msgs
      BY <2>1 DEF StepRunning
    <3>2. [react[stepTask] EXCEPT !.cancelled = TRUE] \in Locals
      BY <1>0, <3>1 DEF Locals
    <3>3. /\ [react[stepTask] EXCEPT !.cancelled = TRUE].pc = react[stepTask].pc
          /\ [react[stepTask] EXCEPT !.cancelled = TRUE].pend = react[stepTask].pend
          /\ [react[stepTask] EXCEPT !.cancelled = TRUE].calls = react[stepTask].calls
          /\ [react[stepTask] EXCEPT !.cancelled = TRUE].held = react[stepTask].held
      BY <1>0, <3>1 DEF Locals
    <3>4. react' \in [Msgs -> Locals] /\ LocalsFilled(react')
      BY <1>0, <2>1, <3>1, <3>2, <3>3 DEF StepCancellation, LocalsFilled
    <3> QED  BY <1>3, <2>1, <3>1, <3>4 DEF RaceInterrupted, StepCancellation, client, ctx
  <2>2. CASE Park("idle") /\ UNCHANGED <<before, react>>
    BY <1>3, <2>2, ParkType DEF RaceInterrupted, client, ctx
  <2> QED  BY <1>3, <2>1, <2>2 DEF RaceInterrupted
<1>4. CASE InterruptHandled
  BY <1>4, ParkType DEF InterruptHandled, client, ctx
<1>5. CASE RaceDone
  <2>1. stepTask \in Msgs
    BY <1>5 DEF RaceDone, DoneWins, StepDone
  <2>2. /\ react' \in [Msgs -> Locals] /\ LocalsFilled(react')
        /\ messages' \in Seq(Entry) /\ ui' \in Ui
    BY <1>0, <1>5, DetachAllType DEF RaceDone, RolledBack
  <2> QED  BY <1>5, <2>1, <2>2 DEF RaceDone, client, queues
<1>6. CASE RunClosed
  <2>1. ClosedUi(react[stepTask].res) \in Ui
    BY DEF ClosedUi
  <2> QED  BY <1>6, <2>1, ParkType DEF RunClosed, client, ctx
<1>7. CASE RaceMessage
  <2>1. ga \in Msgs
    BY <1>7 DEF RaceMessage
  <2>2. messages' \in Seq(Entry)
    BY <1>7, <2>1, EntryTypes DEF RaceMessage
  <2> QED  BY <1>7, <2>1, <2>2 DEF RaceMessage, client, queues
<1>8. CASE MessageSaved
  <2>1. cur \in Msgs /\ User(cur) \in Entry
    BY <1>8, EntryTypes DEF MessageSaved
  <2> DEFINE new == [Idle EXCEPT !.pc = "created", !.cancelled = intrQ > 0]
  <2>2. new \in Locals /\ new.pc = "created"
    <3>1. Idle \in Locals /\ (intrQ > 0) \in BOOLEAN
      BY LocalTypes, NoneIsAResult
    <3> QED  BY <3>1 DEF Locals
  <2>3. react' \in [Msgs -> Locals] /\ LocalsFilled(react')
    <3>1. react' = [react EXCEPT ![cur] = new]
      BY <1>8 DEF MessageSaved
    <3> HIDE DEF new
    <3> QED  BY <1>0, <2>1, <2>2, <3>1 DEF LocalsFilled
  <2> QED  BY <1>8, <2>1, <2>3 DEF MessageSaved, client
<1> QED  BY <1>1, <1>2, <1>3, <1>4, <1>5, <1>6, <1>7, <1>8 DEF Run

LEMMA TypeReact ==
  ASSUME TypeInv, NEW m \in Msgs, React(m)
  PROVE  TypeInv'
<1> DEFINE r == react[m]
<1>0. /\ r \in Locals /\ react \in [Msgs -> Locals] /\ LocalsFilled(react)
      /\ messages \in Seq(Entry) /\ durable \in Seq(Entry) /\ subQ \in Seq(Msgs)
      /\ intrQ \in Nat /\ ui \in Ui /\ openTools \subseteq CallIds /\ reminders \in Nat
  BY DEF TypeInv, TypeOK, Ui
<1>f. /\ r.iter \in Nat /\ r.call \in Nat /\ r.total \in Nat /\ r.foldAt \in Nat
      /\ r.calls \in Seq({"tool", "wait_io"}) /\ r.pend \in Seq(Msgs)
      /\ r.held \in Seq(Seq(Entry))
  BY <1>0, LocalFields
<1>w. Written(m) \in Seq(Entry)
  BY <1>0, WrittenType
\* what a step of a react may change, and what is left to show of its new values
<1>q. ASSUME /\ messages' \in Seq(Entry) /\ durable' \in Seq(Entry)
             /\ subQ' \in Seq(Msgs) /\ intrQ' \in Nat /\ ui' \in Ui
             /\ react' \in [Msgs -> Locals] /\ LocalsFilled(react')
             /\ openTools' \subseteq CallIds /\ reminders' \in Nat
             /\ UNCHANGED <<client, inputQ, runVars>>
      PROVE  TypeInv'
  BY <1>q DEF TypeInv, TypeOK, RunFilled, client, runVars, Ui
<1> USE DEF queues, ctx
<1>1. CASE ReactStart(m)
  BY <1>0, <1>1, <1>q, LoopHeadType DEF ReactStart
<1>2. ASSUME NEW s \in Locals, Set(m, s),
             s.pc \notin {"dsave", "fdsave", "csave", "ksave"}
      PROVE  react' \in [Msgs -> Locals] /\ LocalsFilled(react')
  BY <1>0, <1>2, SetLocal
<1>3. CASE DrainSaved(m) \/ AggregateSaved(m)
  <2>1. r.pend # <<>> /\ r.pc \in {"dsave", "fdsave"}
    BY <1>0, <1>3 DEF DrainSaved, AggregateSaved, Live, LocalsFilled
  <2>2. Tail(r.pend) \in Seq(Msgs)
    BY <1>f, <2>1
  <2>3. CASE Tail(r.pend) # <<>>
    <3> DEFINE s == [r EXCEPT !.pend = Tail(r.pend)]
    <3>1. Set(m, s) /\ messages' = Append(messages, User(Head(Tail(r.pend))))
          /\ UNCHANGED <<subQ, intrQ, ui>>
      BY <1>3, <2>3 DEF DrainSaved, AggregateSaved
    <3>2. s \in Locals /\ s.pend = Tail(r.pend) /\ s.pc = r.pc
      BY <1>0, <2>2, NextPend DEF Locals
    <3>3. react' \in [Msgs -> Locals] /\ LocalsFilled(react')
      <4> HIDE DEF s
      <4> QED  BY <1>0, <2>1, <2>3, <3>1, <3>2, SetLocal
    <3>4. User(Head(Tail(r.pend))) \in Entry
      BY <2>2, <2>3, EntryTypes
    <3>5. messages' \in Seq(Entry)
      <4> DEFINE e == User(Head(Tail(r.pend)))
      <4>1. messages' = Append(messages, e) /\ e \in Entry
        BY <3>1, <3>4
      <4> HIDE DEF e
      <4> QED  BY <1>0, <4>1
    <3> QED  BY <1>0, <1>3, <1>w, <1>q, <3>1, <3>3, <3>5 DEF DrainSaved, AggregateSaved
  <2>4. CASE Tail(r.pend) = <<>> /\ DrainSaved(m)
    <3>1. BeginTurn(m, r, messages)
      BY <2>4 DEF DrainSaved
    <3> QED  BY <1>0, <1>w, <1>q, <2>4, <3>1, BeginTurnType DEF DrainSaved
  <2>5. CASE Tail(r.pend) = <<>> /\ AggregateSaved(m)
    <3> DEFINE s == [r EXCEPT !.pend = <<>>]
    <3>1. LoopHead(m, s, messages)
      BY <2>5 DEF AggregateSaved
    <3>2. s \in Locals
      BY <1>0, EmptyLists, NextPend
    <3> HIDE DEF s
    <3> QED  BY <1>0, <1>w, <1>q, <2>5, <3>1, <3>2, LoopHeadType DEF AggregateSaved
  <2> QED  BY <1>3, <2>3, <2>4, <2>5
<1>4. CASE FoldReturns(m)
  <2> DEFINE base == IF r.held = <<>> THEN messages ELSE r.held[1]
             short == Folded(base, r.foldAt)
             k == [r EXCEPT !.pc = "ksave", !.held = <<short>>]
             g == [r EXCEPT !.pc = "stream", !.held = <<>>]
  <2>1. base \in Seq(Entry)
    BY <1>0, <1>f
  <2>2. short \in Seq(Entry) /\ <<short>> \in Seq(Seq(Entry)) /\ <<short>> # <<>>
    <3> HIDE DEF base
    <3>1. short \in Seq(Entry)
      BY <1>f, <2>1, FoldedType
    <3> HIDE DEF short
    <3> QED  BY <3>1
  <2>3. k \in Locals /\ k.pc = "ksave" /\ k.held = <<short>>
    <3> HIDE DEF short
    <3> QED  BY <1>0, <2>2, NextHeld
  <2>4. g \in Locals /\ g.pc = "stream"
    BY <1>0, EmptyLists, NextHeld
  <2>5. CASE messages' = short /\ react' = [DetachAll EXCEPT ![m] = k] /\ UNCHANGED ui
    <3> HIDE DEF k, short
    <3>1. react' \in [Msgs -> Locals] /\ LocalsFilled(react')
      BY <1>0, <2>2, <2>3, <2>5, DetachAllType DEF LocalsFilled
    <3> QED  BY <1>0, <1>4, <1>q, <2>2, <2>5, <3>1 DEF FoldReturns
  <2>6. CASE messages' = base /\ ui' = "thinking"
             /\ react' = [(IF r.held = <<>> THEN react ELSE DetachAll) EXCEPT ![m] = g]
    <3> HIDE DEF g, base
    <3>1. react' \in [Msgs -> Locals] /\ LocalsFilled(react')
      BY <1>0, <2>4, <2>6, DetachAllType DEF LocalsFilled
    <3> QED  BY <1>0, <1>4, <1>q, <2>1, <2>6, <3>1 DEF FoldReturns, Ui
  <2> QED  BY <1>4, <2>5, <2>6 DEF FoldReturns
<1>5. CASE CompactSaved(m)
  <2> DEFINE s == [r EXCEPT !.pc = "stream", !.held = <<>>]
  <2>1. s \in Locals /\ s.pc = "stream"
    BY <1>0, EmptyLists, NextHeld
  <2>2. Set(m, s)
    BY <1>5 DEF CompactSaved
  <2>3. react' \in [Msgs -> Locals] /\ LocalsFilled(react')
    <3> HIDE DEF s
    <3> QED  BY <1>2, <2>1, <2>2
  <2> QED  BY <1>0, <1>5, <1>w, <1>q, <2>3 DEF CompactSaved, Ui
<1>6. CASE StreamInterrupted(m) \/ StreamUnreachable(m) \/ StreamFatal(m)
  <2>1. \E why \in Results : Set(m, Ended(why))
    BY <1>6 DEF StreamInterrupted, StreamUnreachable, StreamFatal, Results
  <2>2. react' \in [Msgs -> Locals] /\ LocalsFilled(react')
    BY <1>2, <2>1, LocalTypes
  <2>3. messages' \in Seq(Entry)
    <3>1. Note(m, r.iter) \in Entry
      BY <1>f, EntryTypes
    <3>2. messages' \in {messages, Append(messages, Note(m, r.iter))}
      BY <1>6 DEF StreamInterrupted, StreamUnreachable, StreamFatal
    <3> HIDE DEF r
    <3> QED  BY <1>0, <3>1, <3>2
  <2> QED
    BY <1>0, <1>6, <1>q, <2>2, <2>3 DEF StreamInterrupted, StreamUnreachable, StreamFatal
<1>7. CASE StreamText(m)
  <2>1. Assistant(m, r.iter, 0) \in Entry
    BY <1>f, EntryTypes
  <2>2. messages' \in Seq(Entry)
    BY <1>0, <1>7, <2>1 DEF StreamText
  <2> DEFINE s == [r EXCEPT !.pc = "fsave"]
  <2>3. Set(m, s) /\ s \in Locals /\ s.pc = "fsave"
    BY <1>0, <1>7, NextPc DEF StreamText
  <2>4. react' \in [Msgs -> Locals] /\ LocalsFilled(react')
    <3> HIDE DEF s
    <3> QED  BY <1>2, <2>3
  <2> QED  BY <1>0, <1>7, <1>q, <2>2, <2>4 DEF StreamText
<1>8. CASE StreamCalls(m)
  <2>1. PICK n \in 1..MaxCalls : \E calls \in [1..n -> {"tool", "wait_io"}] :
          /\ messages' = Append(messages, Assistant(m, r.iter, n))
          /\ Set(m, [r EXCEPT !.pc = "csave", !.calls = calls, !.call = 0,
                              !.total = n, !.waitIo = FALSE])
    BY <1>8 DEF StreamCalls
  <2>2. PICK calls \in [1..n -> {"tool", "wait_io"}] :
          /\ messages' = Append(messages, Assistant(m, r.iter, n))
          /\ Set(m, [r EXCEPT !.pc = "csave", !.calls = calls, !.call = 0,
                              !.total = n, !.waitIo = FALSE])
    BY <2>1
  <2>3. n \in Nat /\ calls \in Seq({"tool", "wait_io"}) /\ calls # <<>>
    BY BoundsAssumption
  <2> DEFINE s == [r EXCEPT !.pc = "csave", !.calls = calls, !.call = 0,
                            !.total = n, !.waitIo = FALSE]
  <2>4. s \in Locals /\ s.pc = "csave" /\ s.calls = calls
    BY <1>0, <2>3, NextCalls DEF Locals
  <2>5. react' \in [Msgs -> Locals] /\ LocalsFilled(react')
    <3>1. Set(m, s)
      BY <2>2
    <3> HIDE DEF s
    <3> QED  BY <1>0, <2>3, <2>4, <3>1, SetLocal
  <2>6. Assistant(m, r.iter, n) \in Entry
    BY <1>f, <2>3, EntryTypes
  <2>7. messages' \in Seq(Entry)
    BY <1>0, <2>2, <2>6
  <2> QED  BY <1>0, <1>8, <1>q, <2>5, <2>7 DEF StreamCalls
<1>9. CASE StreamReasoning(m)
  <2>1. Note(m, r.iter) \in Entry
    BY <1>f, EntryTypes
  <2>2. Append(messages, Note(m, r.iter)) \in Seq(Entry)
    BY <1>0, <2>1
  <2>3. /\ LoopHead(m, r, Append(messages, Note(m, r.iter)))
        /\ reminders' = reminders + 1
        /\ UNCHANGED <<client, inputQ, runVars, durable, openTools>>
    BY <1>9 DEF StreamReasoning
  <2>4. /\ messages' \in Seq(Entry) /\ ui' \in Ui
        /\ react' \in [Msgs -> Locals] /\ LocalsFilled(react')
        /\ subQ' \in Seq(Msgs) /\ intrQ' \in Nat
    <3> DEFINE noted == Append(messages, Note(m, r.iter))
    <3>1. LoopHead(m, r, noted) /\ noted \in Seq(Entry)
      BY <2>2, <2>3
    <3> HIDE DEF noted, r
    <3> QED  BY <1>0, <3>1, LoopHeadType
  <2> QED  BY <1>0, <1>q, <2>3, <2>4
<1>10. CASE FinalSaved(m)
  <2>1. CASE ui' = "wait_io" /\ Set(m, Ended("text")) /\ UNCHANGED <<subQ, messages>>
    <3>1. react' \in [Msgs -> Locals] /\ LocalsFilled(react')
      BY <1>2, <2>1, LocalTypes DEF Results
    <3> QED  BY <1>0, <1>10, <1>w, <1>q, <2>1, <3>1 DEF FinalSaved, Ui
  <2>2. CASE /\ subQ # <<>> /\ subQ' = AfterDrain
             /\ messages' = Append(messages, User(Head(subQ)))
             /\ Set(m, [r EXCEPT !.pc = "fdsave", !.pend = subQ]) /\ UNCHANGED ui
    <3> DEFINE s == [r EXCEPT !.pc = "fdsave", !.pend = subQ]
    <3>1. s \in Locals /\ s.pc = "fdsave" /\ s.pend = subQ
      BY <1>0, NextPend
    <3>2. react' \in [Msgs -> Locals] /\ LocalsFilled(react')
      <4>1. Set(m, s) /\ subQ # <<>>
        BY <2>2
      <4> HIDE DEF s
      <4> QED  BY <1>0, <3>1, <4>1, SetLocal
    <3>3. User(Head(subQ)) \in Entry
      BY <1>0, <2>2, EntryTypes
    <3>4. messages' \in Seq(Entry) /\ subQ' \in Seq(Msgs)
      BY <1>0, <2>2, <3>3, EmptyLists DEF AfterDrain
    <3> QED  BY <1>0, <1>10, <1>w, <1>q, <2>2, <3>2, <3>4 DEF FinalSaved
  <2> QED  BY <1>10, <2>1, <2>2 DEF FinalSaved
<1>11. CASE CallsSaved(m)
  <2>1. r.calls # <<>>
    BY <1>0, <1>11 DEF CallsSaved, Live, LocalsFilled
  <2> QED  BY <1>0, <1>11, <1>w, <1>q, <2>1, NextCallType DEF CallsSaved, DispatchUi, Ui
<1>12. CASE ToolReturns(m)
  <2>1. ToolMsg(m, r.iter, r.call) \in Entry
    BY <1>f, EntryTypes
  <2>2. messages' \in Seq(Entry)
    BY <1>0, <1>12, <2>1 DEF ToolReturns
  <2> DEFINE s == [r EXCEPT !.pc = "tsave"]
  <2>3. Set(m, s) /\ s \in Locals /\ s.pc = "tsave"
    BY <1>0, <1>12, NextPc DEF ToolReturns
  <2>4. react' \in [Msgs -> Locals] /\ LocalsFilled(react')
    <3> HIDE DEF s
    <3> QED  BY <1>2, <2>3
  <2> QED  BY <1>0, <1>12, <1>q, <2>2, <2>4 DEF ToolReturns
<1>13. CASE ToolSaved(m)
  <2>1. CASE r.calls # <<>> /\ NextCall(m) /\ UNCHANGED <<subQ, intrQ, ui>>
    BY <1>0, <1>13, <1>w, <1>q, <2>1, NextCallType DEF ToolSaved
  <2>2. CASE /\ ui' = "wait_io" /\ Set(m, Ended("text"))
             /\ UNCHANGED <<subQ, intrQ, messages, openTools>>
    <3>1. react' \in [Msgs -> Locals] /\ LocalsFilled(react')
      BY <1>2, <2>2, LocalTypes DEF Results
    <3> QED  BY <1>0, <1>13, <1>w, <1>q, <2>2, <3>1 DEF ToolSaved, Ui
  <2>3. CASE LoopHead(m, r, messages) /\ UNCHANGED openTools
    BY <1>0, <1>13, <1>w, <1>q, <2>3, LoopHeadType DEF ToolSaved
  <2> QED  BY <1>13, <2>1, <2>2, <2>3 DEF ToolSaved
<1>14. CASE CancelDelivered(m)
  <2>1. react' \in [Msgs -> Locals] /\ LocalsFilled(react')
    BY <1>2, <1>14, LocalTypes DEF CancelDelivered, Results
  <2>2. openTools' \subseteq CallIds
    BY <1>0, <1>14 DEF CancelDelivered, ToolsAfterCancel
  <2> QED  BY <1>0, <1>14, <1>w, <1>q, <2>1, <2>2 DEF CancelDelivered
<1> QED
  BY <1>1, <1>3, <1>4, <1>5, <1>6, <1>7, <1>8, <1>9, <1>10, <1>11, <1>12, <1>13, <1>14
     DEF React, Save, Stream

LEMMA TypeStep == TypeInv /\ [Next]_vars => TypeInv'
<1> SUFFICES ASSUME TypeInv, [Next]_vars PROVE TypeInv'
  OBVIOUS
<1>1. CASE UNCHANGED vars
  BY <1>1 DEF vars, client, queues, runVars, ctx, TypeInv, TypeOK, RunFilled
<1>2. CASE Next
  BY <1>2, TypeClient, TypeRun, TypeReact DEF Next
<1> QED  BY <1>1, <1>2

LEMMA TypeInvariance == Spec => []TypeInv
BY TypeInit, TypeStep, PTL DEF Spec

\* Type correctness: the queues hold what they should, every local list is
\* well-typed at every suspension point, and no interrupt passes the pumper into
\* the conversation, for any number of messages, steps, calls and interrupts.
THEOREM TypeCorrect == Spec => []TypeOK
BY TypeInvariance, PTL DEF TypeInv

-----------------------------------------------------------------------------
(* A step of react m leaves the other reacts where they are.               *)

LEMMA OnlyOne ==
  ASSUME NEW m \in Msgs, react \in [Msgs -> Locals], messages \in Seq(Entry),
         NEW s, react' = [react EXCEPT ![m] = s] \/ react' = [DetachAll EXCEPT ![m] = s]
  PROVE  /\ react'[m] = s
         /\ \A x \in Msgs \ {m} : /\ react'[x].pc = react[x].pc
                                  /\ react'[x].iter = react[x].iter
                                  /\ react'[x].call = react[x].call
<1>1. ASSUME NEW x \in Msgs
      PROVE  /\ Detached(x).pc = react[x].pc /\ Detached(x).iter = react[x].iter
             /\ Detached(x).call = react[x].call
  <2>1. react[x] \in Locals
    OBVIOUS
  <2>2. LET d == [react[x] EXCEPT !.held = <<messages>>] IN
        d.pc = react[x].pc /\ d.iter = react[x].iter /\ d.call = react[x].call
    BY <2>1 DEF Locals
  <2> QED  BY <2>2 DEF Detached
<1>2. CASE react' = [react EXCEPT ![m] = s]
  BY <1>2
<1>3. CASE react' = [DetachAll EXCEPT ![m] = s]
  BY <1>1, <1>3 DEF DetachAll
<1> QED  BY <1>2, <1>3

\* What becomes of the react and of the open tools at the loop's decision points.
LEMMA LoopHeadPc ==
  ASSUME NEW m \in Msgs, NEW r \in Locals, NEW msgs, react \in [Msgs -> Locals],
         LoopHead(m, r, msgs) \/ BeginTurn(m, r, msgs)
  PROVE  \E s : /\ react' = [react EXCEPT ![m] = s]
                /\ s.pc \in {"done", "dsave", "stream", "fold"}
<1> DEFINE t == [r EXCEPT !.iter = @ + 1]
<1>1. t \in Locals
  BY NextIter
<1>2. ASSUME NEW u \in Locals, BeginTurn(m, u, msgs)
      PROVE  \E s : react' = [react EXCEPT ![m] = s] /\ s.pc \in {"stream", "fold"}
  <2>1. /\ [u EXCEPT !.pc = "stream", !.pend = <<>>].pc = "stream"
        /\ [u EXCEPT !.pc = "fold", !.pend = <<>>, !.foldAt = FoldEnd(msgs),
                     !.held = <<>>].pc = "fold"
    BY DEF Locals
  <2> QED  BY <1>2, <2>1 DEF BeginTurn, Set
<1>3. CASE BeginTurn(m, r, msgs) \/ BeginTurn(m, t, msgs)
  <2> HIDE DEF t
  <2> QED  BY <1>1, <1>2, <1>3
<1>4. CASE Set(m, Ended("maxsteps")) \/ Set(m, Ended("interrupted"))
  BY <1>4, LocalTypes DEF Set, Results
<1>5. CASE Set(m, [t EXCEPT !.pc = "dsave", !.pend = subQ])
  <2>1. [t EXCEPT !.pc = "dsave", !.pend = subQ].pc = "dsave"
    BY <1>1 DEF Locals
  <2> QED  BY <1>5, <2>1 DEF Set
<1> QED  BY <1>3, <1>4, <1>5 DEF LoopHead

LEMMA NextCallPc ==
  ASSUME NEW m \in Msgs, react \in [Msgs -> Locals], react[m].calls # <<>>, NextCall(m)
  PROVE  \E s : /\ react' = [react EXCEPT ![m] = s]
                /\ \/ s.pc = "tsave" /\ openTools' = openTools
                   \/ /\ s.pc = "exec"
                      /\ openTools' = openTools \cup
                           {[by |-> m, step |-> s.iter, n |-> s.call]}
<1> DEFINE r == react[m]
           t == [r EXCEPT !.calls = Tail(@), !.call = @ + 1]
<1>1. t \in Locals /\ t.iter = r.iter /\ t.call = r.call + 1
  <2>1. r \in Locals /\ Tail(r.calls) \in Seq({"tool", "wait_io"})
    <3>1. r.calls \in Seq({"tool", "wait_io"})
      BY LocalFields
    <3> QED  BY <3>1
  <2> QED  BY <2>1, NextCalls DEF Locals
<1>2. LET e == [t EXCEPT !.pc = "exec"]
          w == [t EXCEPT !.pc = "tsave", !.waitIo = TRUE] IN
      e.pc = "exec" /\ e.iter = r.iter /\ e.call = r.call + 1 /\ w.pc = "tsave"
  <2> HIDE DEF t
  <2> QED  BY <1>1 DEF Locals
<1> QED  BY <1>2 DEF NextCall, Set

\* ReactStep: m was running, only m moves, and the tools move with it.
ReactStep(m) ==
  /\ react[m].pc \notin {"none", "done"}
  /\ \A x \in Msgs \ {m} : /\ react'[x].pc = react[x].pc
                           /\ react'[x].iter = react[x].iter
                           /\ react'[x].call = react[x].call
  /\ openTools' = (openTools \ (IF react[m].pc = "exec" THEN {Call(m)} ELSE {}))
                  \cup (IF react'[m].pc = "exec" THEN {Call(m)'} ELSE {})

LEMMA ReactSteps ==
  ASSUME TypeInv, NEW m \in Msgs, React(m)
  PROVE  ReactStep(m)
<1> DEFINE r == react[m]
<1>0. /\ react \in [Msgs -> Locals] /\ r \in Locals /\ messages \in Seq(Entry)
      /\ LocalsFilled(react) /\ subQ \in Seq(Msgs)
  BY DEF TypeInv, TypeOK
\* the common case: no tool starts or ends
<1>1. ASSUME NEW s, s.pc # "exec", r.pc \notin {"none", "done", "exec"},
             react' = [react EXCEPT ![m] = s] \/ react' = [DetachAll EXCEPT ![m] = s],
             openTools' = openTools
      PROVE  ReactStep(m)
  BY <1>0, <1>1, OnlyOne DEF ReactStep
<1>2. ASSUME NEW msgs, NEW u \in Locals, LoopHead(m, u, msgs) \/ BeginTurn(m, u, msgs),
             r.pc \notin {"none", "done", "exec"}, openTools' = openTools
      PROVE  ReactStep(m)
  BY <1>0, <1>1, <1>2, LoopHeadPc
<1>3. ASSUME r.calls # <<>>, NextCall(m), r.pc \notin {"none", "done", "exec"}
      PROVE  ReactStep(m)
  <2>1. PICK s : /\ react' = [react EXCEPT ![m] = s]
                 /\ \/ s.pc = "tsave" /\ openTools' = openTools
                    \/ /\ s.pc = "exec"
                       /\ openTools' = openTools \cup
                            {[by |-> m, step |-> s.iter, n |-> s.call]}
    BY <1>0, <1>3, NextCallPc
  <2>2. CASE s.pc = "tsave"
    BY <1>1, <1>3, <2>1, <2>2
  <2>3. CASE s.pc = "exec"
    BY <1>0, <1>3, <2>1, <2>3, OnlyOne DEF ReactStep, Call
  <2> QED  BY <2>1, <2>2, <2>3
<1>4. CASE ReactStart(m)
  BY <1>0, <1>2, <1>4 DEF ReactStart, Live
<1>5. CASE DrainSaved(m) \/ AggregateSaved(m)
  <2>1. r.pc \in {"dsave", "fdsave"} /\ openTools' = openTools
    BY <1>5 DEF DrainSaved, AggregateSaved, Live
  <2>2. CASE Set(m, [r EXCEPT !.pend = Tail(r.pend)])
    <3>1. [r EXCEPT !.pend = Tail(r.pend)].pc = r.pc
      BY <1>0 DEF Locals
    <3> QED  BY <1>1, <2>1, <2>2, <3>1 DEF Set
  <2>3. [r EXCEPT !.pend = <<>>] \in Locals
    BY <1>0, EmptyLists, NextPend
  <2>4. CASE BeginTurn(m, r, messages) \/ LoopHead(m, [r EXCEPT !.pend = <<>>], messages)
    <3> DEFINE u == [r EXCEPT !.pend = <<>>]
    <3> HIDE DEF u
    <3> QED  BY <1>0, <1>2, <2>1, <2>3, <2>4 DEF u
  <2> QED  BY <1>5, <2>2, <2>4 DEF DrainSaved, AggregateSaved
<1>6. CASE FoldReturns(m)
  <2>1. ASSUME NEW h
        PROVE  /\ [r EXCEPT !.pc = "ksave", !.held = h].pc = "ksave"
               /\ [r EXCEPT !.pc = "stream", !.held = h].pc = "stream"
    BY <1>0 DEF Locals
  <2>2. r.pc = "fold" /\ openTools' = openTools
    BY <1>6 DEF FoldReturns, Live
  <2>3. ASSUME NEW h, NEW pc \in {"ksave", "stream"},
               \/ react' = [react EXCEPT ![m] = [r EXCEPT !.pc = pc, !.held = h]]
               \/ react' = [DetachAll EXCEPT ![m] = [r EXCEPT !.pc = pc, !.held = h]]
        PROVE  ReactStep(m)
    <3> DEFINE s == [r EXCEPT !.pc = pc, !.held = h]
    <3>1. s.pc # "exec"
      BY <2>1
    <3> HIDE DEF s
    <3> QED  BY <1>1, <2>2, <2>3, <3>1 DEF s
  <2>4. \/ \E h : react' = [DetachAll EXCEPT ![m] = [r EXCEPT !.pc = "ksave", !.held = h]]
        \/ react' = [(IF r.held = <<>> THEN react ELSE DetachAll)
                     EXCEPT ![m] = [r EXCEPT !.pc = "stream", !.held = <<>>]]
    BY <1>6 DEF FoldReturns
  <2> QED  BY <2>3, <2>4
<1>7. CASE CompactSaved(m)
  <2>1. [r EXCEPT !.pc = "stream", !.held = <<>>].pc = "stream"
    BY <1>0 DEF Locals
  <2> QED  BY <1>1, <1>7, <2>1 DEF CompactSaved, Live, Set
<1>8. CASE StreamInterrupted(m) \/ StreamUnreachable(m) \/ StreamFatal(m)
  <2>1. \E why \in Results : Set(m, Ended(why))
    BY <1>8 DEF StreamInterrupted, StreamUnreachable, StreamFatal, Results
  <2>2. r.pc = "stream" /\ openTools' = openTools
    BY <1>8 DEF StreamInterrupted, StreamUnreachable, StreamFatal, Live
  <2> QED  BY <1>1, <2>1, <2>2, LocalTypes DEF Set
<1>9. CASE StreamText(m)
  <2>1. [r EXCEPT !.pc = "fsave"].pc = "fsave"
    BY <1>0, NextPc
  <2> QED  BY <1>1, <1>9, <2>1 DEF StreamText, Live, Set
<1>10. CASE StreamCalls(m)
  <2>1. PICK n, calls : react' = [react EXCEPT ![m] =
                          [r EXCEPT !.pc = "csave", !.calls = calls, !.call = 0,
                                    !.total = n, !.waitIo = FALSE]]
    BY <1>10 DEF StreamCalls, Set
  <2>2. [r EXCEPT !.pc = "csave", !.calls = calls, !.call = 0,
                  !.total = n, !.waitIo = FALSE].pc = "csave"
    BY <1>0 DEF Locals
  <2>3. r.pc = "stream" /\ openTools' = openTools
    BY <1>10 DEF StreamCalls, Live
  <2> QED  BY <1>1, <2>1, <2>2, <2>3
<1>11. CASE StreamReasoning(m)
  BY <1>0, <1>2, <1>11 DEF StreamReasoning, Live
<1>12. CASE FinalSaved(m)
  <2>1. [r EXCEPT !.pc = "fdsave", !.pend = subQ].pc = "fdsave"
    BY <1>0, NextPend
  <2>2. Ended("text").pc = "done"
    BY LocalTypes DEF Results
  <2> QED  BY <1>1, <1>12, <2>1, <2>2 DEF FinalSaved, Live, Set
<1>13. CASE CallsSaved(m)
  <2>1. r.pc = "csave" /\ r.calls # <<>>
    BY <1>0, <1>13 DEF CallsSaved, Live, LocalsFilled
  <2> QED  BY <1>3, <1>13, <2>1 DEF CallsSaved
<1>14. CASE ToolReturns(m)
  <2>1. [r EXCEPT !.pc = "tsave"].pc = "tsave"
    BY <1>0, NextPc
  <2> QED  BY <1>0, <1>14, <2>1, OnlyOne DEF ToolReturns, Live, Set, ReactStep
<1>15. CASE ToolSaved(m)
  <2>1. r.pc = "tsave"
    BY <1>15 DEF ToolSaved, Live
  <2>2. Ended("text").pc = "done"
    BY LocalTypes DEF Results
  <2> QED  BY <1>0, <1>1, <1>2, <1>3, <1>15, <2>1, <2>2 DEF ToolSaved, Set
<1>16. CASE CancelDelivered(m)
  <2>1. Ended("cancelled").pc = "done"
    BY LocalTypes DEF Results
  <2> QED
    BY <1>0, <1>16, <2>1, OnlyOne
       DEF CancelDelivered, Running, Set, ReactStep, ToolsAfterCancel
<1> QED
  BY <1>4, <1>5, <1>6, <1>7, <1>8, <1>9, <1>10, <1>11, <1>12, <1>13, <1>14, <1>15, <1>16
     DEF React, Save, Stream


\* A react leaves run()'s variables alone, takes all of sub_queue or nothing, takes
\* an interrupt only if there is one, and never reports the end of the turn.
ReactUi == {"thinking", "compressing", "tooling", "wait_io"}

LEMMA ReactFrame ==
  ASSUME NEW m \in Msgs, React(m)
  PROVE  /\ UNCHANGED <<client, inputQ, runVars>>
         /\ subQ' = subQ \/ subQ' = <<>>
         /\ intrQ' = intrQ \/ intrQ > 0
         /\ ui' = ui \/ ui' \in ReactUi
<1>1. ASSUME NEW u, NEW msgs, BeginTurn(m, u, msgs)
      PROVE  ui' \in ReactUi
  BY <1>1 DEF BeginTurn, ReactUi
<1>2. ASSUME NEW u, NEW msgs, LoopHead(m, u, msgs)
      PROVE  /\ subQ' = subQ \/ subQ' = <<>>
             /\ intrQ' = intrQ \/ intrQ > 0
             /\ ui' = ui \/ ui' \in ReactUi
  BY <1>1, <1>2 DEF LoopHead, AfterDrain
<1>3. CASE ReactStart(m) \/ StreamReasoning(m) \/ ToolSaved(m)
  BY <1>2, <1>3 DEF ReactStart, StreamReasoning, ToolSaved, queues, ReactUi
<1>4. CASE DrainSaved(m) \/ AggregateSaved(m)
  BY <1>1, <1>2, <1>4 DEF DrainSaved, AggregateSaved, queues
<1>5. CASE FoldReturns(m) \/ CompactSaved(m) \/ FinalSaved(m) \/ CallsSaved(m)
  BY <1>5 DEF FoldReturns, CompactSaved, FinalSaved, CallsSaved, queues, AfterDrain,
              DispatchUi, ReactUi
<1>6. CASE StreamInterrupted(m) \/ StreamText(m) \/ StreamCalls(m) \/ StreamFatal(m)
           \/ StreamUnreachable(m) \/ ToolReturns(m) \/ CancelDelivered(m)
  BY <1>6 DEF StreamInterrupted, StreamText, StreamCalls, StreamFatal,
              StreamUnreachable, ToolReturns, CancelDelivered, queues
<1> QED  BY <1>3, <1>4, <1>5, <1>6 DEF React, Save, Stream

\* Detaching a list never moves a react.
LEMMA DetachPc ==
  ASSUME react \in [Msgs -> Locals], messages \in Seq(Entry), NEW x \in Msgs
  PROVE  /\ DetachAll[x].pc = react[x].pc
         /\ DetachAll[x].iter = react[x].iter
         /\ DetachAll[x].call = react[x].call
<1>1. react[x] \in Locals
  OBVIOUS
<1>2. LET d == [react[x] EXCEPT !.held = <<messages>>] IN
      d.pc = react[x].pc /\ d.iter = react[x].iter /\ d.call = react[x].call
  BY <1>1 DEF Locals
<1> QED  BY <1>2 DEF DetachAll, Detached

-----------------------------------------------------------------------------
(* IdleMeansStopped.  Unless a step was orphaned, the only react that can  *)
(* run is the one run() holds; and run() closes a trace run only after its *)
(* step is over.                                                           *)
OnlyTheStep ==
  /\ ~overlapped => \A m \in Msgs : Running(m) => m = stepTask
  /\ runPc = "closing" => Done(stepTask)

\* What run() does to the reacts: it starts one, and otherwise leaves each
\* where it is.
LEMMA RunKeepsReacts ==
  ASSUME TypeInv, Run, ~MessageSaved
  PROVE  \A x \in Msgs : /\ react'[x].pc = react[x].pc
                         /\ react'[x].iter = react[x].iter
                         /\ react'[x].call = react[x].call
<1> SUFFICES ASSUME NEW x \in Msgs
             PROVE  /\ react'[x].pc = react[x].pc
                    /\ react'[x].iter = react[x].iter
                    /\ react'[x].call = react[x].call
  OBVIOUS
<1>0. react \in [Msgs -> Locals] /\ messages \in Seq(Entry) /\ react[x] \in Locals
  BY DEF TypeInv, TypeOK
<1>1. CASE UNCHANGED react
  BY <1>1
<1>2. CASE react' = DetachAll
  BY <1>0, <1>2, DetachPc
<1>3. CASE react' = [react EXCEPT ![stepTask].cancelled = TRUE]
  <2>1. LET c == [react[x] EXCEPT !.cancelled = TRUE] IN
        c.pc = react[x].pc /\ c.iter = react[x].iter /\ c.call = react[x].call
    BY <1>0 DEF Locals
  <2>2. react'[x] = react[x] \/ react'[x] = [react[x] EXCEPT !.cancelled = TRUE]
    BY <1>0, <1>3
  <2> QED  BY <2>1, <2>2
<1> QED
  BY <1>1, <1>2, <1>3 DEF Run, GetMessage, GetInterrupt, RaceInterrupted, StepCancellation,
     InterruptHandled, RaceDone, RunClosed, RaceMessage

LEMMA StepInit == Init => OnlyTheStep
<1> SUFFICES ASSUME Init PROVE OnlyTheStep
  OBVIOUS
<1>1. \A m \in Msgs : react[m].pc = "none"
  BY DEF Init, Idle
<1> QED  BY <1>1 DEF Init, OnlyTheStep, Running

\* A spawned react is in its first suspension point.
LEMMA MessageSavedReacts ==
  ASSUME TypeInv, MessageSaved
  PROVE  /\ cur \in Msgs /\ react'[cur].pc = "created"
         /\ \A x \in Msgs \ {cur} : react'[x] = react[x]
<1>1. cur \in Msgs /\ react \in [Msgs -> Locals]
  BY DEF TypeInv, TypeOK, RunFilled, MessageSaved
<1>2. [Idle EXCEPT !.pc = "created", !.cancelled = intrQ > 0].pc = "created"
  BY DEF Idle
<1> QED  BY <1>1, <1>2 DEF MessageSaved

LEMMA StepStep == TypeInv /\ OnlyTheStep /\ [Next]_vars => OnlyTheStep'
<1> SUFFICES ASSUME TypeInv, OnlyTheStep, [Next]_vars PROVE OnlyTheStep'
  OBVIOUS
<1>0. None \notin Msgs
  BY MsgsAssumption
<1>1. CASE UNCHANGED vars \/ SendInterrupt \/ Pump \/ \E m \in Msgs : SendMessage(m)
  <2>1. UNCHANGED <<react, runVars>>
    BY <1>1 DEF vars, SendInterrupt, Pump, SendMessage
  <2> QED  BY <2>1 DEF OnlyTheStep, Running, Done, runVars
<1>2. ASSUME NEW m \in Msgs, React(m) PROVE OnlyTheStep'
  <2>1. ReactStep(m) /\ UNCHANGED runVars
    BY <1>2, ReactSteps, ReactFrame
  <2>2. ~overlapped => m = stepTask
    BY <2>1 DEF ReactStep, OnlyTheStep, Running
  <2>3. runPc = "closing" => m # stepTask /\ stepTask \in Msgs
    BY <2>1 DEF ReactStep, OnlyTheStep, Done, TypeInv, RunFilled
  <2> QED  BY <2>1, <2>2, <2>3 DEF ReactStep, OnlyTheStep, Running, Done, runVars
<1>3. CASE MessageSaved
  <2>1. /\ cur \in Msgs /\ react'[cur].pc = "created" /\ stepTask' = cur
        /\ \A x \in Msgs \ {cur} : react'[x] = react[x]
        /\ overlapped' = (overlapped \/ stepTask # None)
        /\ runPc' # "closing"
    BY <1>3, MessageSavedReacts DEF MessageSaved
  <2> QED  BY <1>0, <2>1 DEF OnlyTheStep, Running
<1>4. CASE Run /\ ~MessageSaved
  <2>1. \A x \in Msgs : Running(x)' = Running(x) /\ Done(x)' = Done(x)
    BY <1>4, RunKeepsReacts DEF Running, Done
  <2>2. overlapped' = overlapped
    BY <1>4 DEF Run, GetMessage, GetInterrupt, RaceInterrupted, InterruptHandled,
                RaceDone, RunClosed, RaceMessage
  <2>3. \/ stepTask' = stepTask
        \/ stepTask' = None /\ runPc' = "race" /\ (~StepRunning \/ Done(stepTask))
    BY <1>4 DEF Run, GetMessage, GetInterrupt, RaceInterrupted, StepCancellation,
       InterruptHandled, RaceDone, RunClosed, RaceMessage, Park, OnlyTheStep
  <2>4. runPc' = "closing" => /\ StepDone /\ stepTask' = stepTask
    BY <1>4 DEF Run, GetMessage, GetInterrupt, RaceInterrupted, StepCancellation,
       InterruptHandled, RaceDone, RunClosed, RaceMessage, Park, DoneWins
  <2>5. stepTask' = None /\ stepTask' # stepTask /\ ~overlapped
        => \A x \in Msgs : ~Running(x)
    BY <2>3 DEF OnlyTheStep, StepRunning, Running, Done
  <2>6. stepTask \in Msgs \cup {None}
    BY DEF TypeInv, TypeOK
  <2> QED  BY <2>1, <2>2, <2>3, <2>4, <2>5, <2>6 DEF OnlyTheStep, StepDone, Running, Done
<1> QED  BY <1>1, <1>2, <1>3, <1>4 DEF Next

\* run() reports idle only where it has no step, or one that is over.
LEMMA IdleStep ==
  TypeInv /\ OnlyTheStep /\ [Next]_vars
  => [ui # "idle" /\ ui' = "idle" /\ ~overlapped' => \A m \in Msgs : ~Running(m)']_vars
<1> SUFFICES ASSUME TypeInv, OnlyTheStep, Next, ui # "idle", ui' = "idle", ~overlapped',
                    NEW m \in Msgs
             PROVE  ~Running(m)'
  BY DEF vars
<1>1. Run
  BY ReactFrame DEF Next, SendInterrupt, Pump, SendMessage, ReactUi
<1>2. ~MessageSaved
  BY DEF MessageSaved
<1>3. ~overlapped
  BY <1>1, <1>2 DEF Run, GetMessage, GetInterrupt, RaceInterrupted, InterruptHandled,
                RaceDone, RunClosed, RaceMessage
<1>4. ~StepRunning \/ Done(stepTask)
  BY <1>1, <1>2 DEF Run, GetMessage, GetInterrupt, RaceInterrupted, StepCancellation,
       InterruptHandled, RaceDone, RunClosed, RaceMessage, OnlyTheStep
<1>5. None \notin Msgs
  BY MsgsAssumption
<1>6. ~Running(m)
  BY <1>3, <1>4, <1>5 DEF OnlyTheStep, StepRunning, Running, Done
<1>7. Running(m)' = Running(m)
  BY <1>1, <1>2, RunKeepsReacts DEF Running
<1> QED  BY <1>6, <1>7

\* When the engine tells the UI it is idle, no react runs, unless one was orphaned
\* by a message taken while it ran: for any interleaving of interrupts, messages
\* and steps.
THEOREM IdleIsStopped == Spec => IdleMeansStopped
BY TypeInvariance, StepInit, StepStep, IdleStep, PTL DEF Spec, IdleMeansStopped

-----------------------------------------------------------------------------
(* ToolBracket.  A react that executes a tool could only be lost by being  *)
(* started again; a message is on its way to run() once, and its react     *)
(* has not been started before it gets there.                              *)
Waiting == unsent \cup Range(inputQ) \cup Range(subQ) \cup {ga, cur}

OnTheWay ==
  /\ \A i, j \in DOMAIN inputQ : inputQ[i] = inputQ[j] /\ inputQ[i] \in Msgs => i = j
  /\ \A i, j \in DOMAIN subQ : subQ[i] = subQ[j] => i = j
  /\ \A i \in DOMAIN inputQ : inputQ[i] \in Msgs => inputQ[i] \notin unsent \cup {ga, cur}
  /\ \A i \in DOMAIN subQ : subQ[i] \notin unsent \cup {ga, cur}
  /\ \A i \in DOMAIN inputQ, j \in DOMAIN subQ : inputQ[i] # subQ[j]
  /\ ga \notin unsent /\ cur \notin unsent
  /\ ga # None => ga # cur
  /\ \A m \in Msgs \cap Waiting : react[m].pc = "none"

QueueTypes == inputQ \in Seq(Msgs \cup {Intr}) /\ subQ \in Seq(Msgs)

LEMMA WayInit == Init => OnTheWay
<1> SUFFICES ASSUME Init PROVE OnTheWay
  OBVIOUS
<1>1. \A m \in Msgs : react[m].pc = "none"
  BY DEF Init, Idle
<1>2. DOMAIN inputQ = {} /\ DOMAIN subQ = {} /\ ga = None /\ cur = None /\ unsent = Msgs
  BY DEF Init
<1> QED  BY <1>1, <1>2, MsgsAssumption DEF OnTheWay

LEMMA WayClient ==
  ASSUME TypeInv, OnTheWay, SendInterrupt \/ Pump \/ \E m \in Msgs : SendMessage(m)
  PROVE  OnTheWay'
<1>0. QueueTypes /\ Intr \notin Msgs /\ None \notin Msgs /\ unsent \subseteq Msgs
      /\ ga \in Msgs \cup {None} /\ cur \in Msgs \cup {None}
  BY MsgsAssumption DEF TypeInv, TypeOK, QueueTypes
<1>1. CASE SendInterrupt
  <2>1. /\ inputQ' = Append(inputQ, Intr)
        /\ UNCHANGED <<unsent, subQ, ga, cur, react>>
    BY <1>1 DEF SendInterrupt, runVars
  <2> QED  BY <1>0, <2>1 DEF OnTheWay, QueueTypes, Waiting, Range
<1>2. ASSUME NEW m \in Msgs, SendMessage(m) PROVE OnTheWay'
  <2>1. /\ m \in unsent /\ unsent' = unsent \ {m} /\ inputQ' = Append(inputQ, m)
        /\ UNCHANGED <<subQ, ga, cur, react>>
    BY <1>2 DEF SendMessage, runVars
  <2> QED  BY <1>0, <2>1 DEF OnTheWay, QueueTypes, Waiting, Range
<1>3. CASE Pump
  <2>1. /\ inputQ # <<>> /\ inputQ' = Tail(inputQ)
        /\ \/ Head(inputQ) = Intr /\ subQ' = subQ
           \/ Head(inputQ) # Intr /\ subQ' = Append(subQ, Head(inputQ))
        /\ UNCHANGED <<unsent, ga, cur, react>>
    BY <1>3 DEF Pump, runVars, client
  <2> DEFINE h == Head(inputQ)
  <2>2. /\ DOMAIN inputQ' = 1..(Len(inputQ) - 1) /\ h = inputQ[1] /\ 1 \in DOMAIN inputQ
        /\ DOMAIN inputQ = 1..Len(inputQ) /\ Len(inputQ) \in Nat
        /\ \A i \in DOMAIN inputQ' : inputQ'[i] = inputQ[i + 1] /\ i + 1 \in DOMAIN inputQ
                                    /\ i + 1 # 1
    BY <1>0, <2>1 DEF QueueTypes
  <2>3. CASE h = Intr /\ subQ' = subQ
    <3>1. Waiting' \subseteq Waiting
      BY <2>1, <2>2, <2>3 DEF Waiting, Range
    <3> QED  BY <1>0, <2>1, <2>2, <2>3, <3>1 DEF OnTheWay, QueueTypes
  <2>4. CASE h # Intr /\ subQ' = Append(subQ, h)
    <3>1. /\ h \in Msgs /\ h \notin unsent \cup {ga, cur}
          /\ \A j \in DOMAIN subQ : h # subQ[j]
          /\ \A i \in DOMAIN inputQ' : inputQ'[i] # h
      BY <1>0, <2>2, <2>4 DEF OnTheWay, QueueTypes
    <3>2. /\ DOMAIN subQ' = 1..(Len(subQ) + 1) /\ DOMAIN subQ = 1..Len(subQ)
          /\ Len(subQ) \in Nat /\ subQ'[Len(subQ) + 1] = h
          /\ \A j \in DOMAIN subQ : subQ'[j] = subQ[j]
      BY <1>0, <2>4, <3>1 DEF QueueTypes
    <3> HIDE DEF h
    <3>3. \A j \in DOMAIN subQ' : subQ'[j] = h \/ (j \in DOMAIN subQ /\ subQ'[j] = subQ[j])
      BY <3>2
    <3>4. Waiting' \subseteq Waiting
      BY <2>1, <2>2, <3>3 DEF Waiting, Range
    <3>5. \A i, j \in DOMAIN subQ' : subQ'[i] = subQ'[j] => i = j
      BY <3>1, <3>2 DEF OnTheWay
    <3>6. \A i, j \in DOMAIN inputQ' : inputQ'[i] = inputQ'[j] /\ inputQ'[i] \in Msgs => i = j
      BY <2>2 DEF OnTheWay
    <3>7. /\ \A i \in DOMAIN inputQ' : inputQ'[i] \in Msgs
                                      => inputQ'[i] \notin unsent \cup {ga, cur}
          /\ \A j \in DOMAIN subQ' : subQ'[j] \notin unsent \cup {ga, cur}
          /\ \A i \in DOMAIN inputQ', j \in DOMAIN subQ' : inputQ'[i] # subQ'[j]
      BY <2>2, <3>1, <3>3 DEF OnTheWay
    <3> QED  BY <2>1, <3>4, <3>5, <3>6, <3>7 DEF OnTheWay
  <2> QED  BY <2>1, <2>3, <2>4
<1> QED  BY <1>1, <1>2, <1>3

LEMMA WayReact ==
  ASSUME TypeInv, OnTheWay, NEW m \in Msgs, React(m)
  PROVE  OnTheWay'
<1>1. ReactStep(m) /\ UNCHANGED <<client, inputQ, runVars>> /\ subQ' \in {subQ, <<>>}
  BY ReactSteps, ReactFrame
<1>2. m \notin Waiting
  BY <1>1 DEF ReactStep, OnTheWay
<1>3. Waiting' \subseteq Waiting
  BY <1>1 DEF Waiting, runVars, client, Range
<1> QED  BY <1>1, <1>2, <1>3 DEF OnTheWay, ReactStep, runVars, client

LEMMA WayRun ==
  ASSUME TypeInv, OnTheWay, Run
  PROVE  OnTheWay'
<1>0. QueueTypes /\ Intr \notin Msgs /\ None \notin Msgs /\ unsent \subseteq Msgs
      /\ ga \in Msgs \cup {None} /\ cur \in Msgs \cup {None}
  BY MsgsAssumption DEF TypeInv, TypeOK, QueueTypes
<1>1. UNCHANGED <<unsent, inputQ>>
  BY DEF Run, GetMessage, GetInterrupt, RaceInterrupted, InterruptHandled,
         RaceDone, RunClosed, RaceMessage, MessageSaved, client, queues
<1>2. CASE GetMessage
  <2>1. /\ subQ # <<>> /\ ga = None /\ ga' = Head(subQ) /\ subQ' = Tail(subQ)
        /\ UNCHANGED <<cur, react>>
    BY <1>2 DEF GetMessage
  <2> QED  BY <1>0, <1>1, <2>1 DEF OnTheWay, QueueTypes, Waiting, Range
<1>3. CASE MessageSaved
  <2>1. /\ cur \in Msgs /\ cur' = None /\ UNCHANGED <<subQ, ga>>
        /\ \A x \in Msgs \ {cur} : react'[x] = react[x]
    BY <1>3, MessageSavedReacts DEF MessageSaved
  <2>2. cur \notin Waiting'
    BY <1>0, <1>1, <2>1 DEF OnTheWay, QueueTypes, Waiting, Range
  <2> QED  BY <1>0, <1>1, <2>1, <2>2 DEF OnTheWay, QueueTypes, Waiting, Range
<1>4. CASE Run /\ ~MessageSaved /\ ~GetMessage
  <2>1. \A x \in Msgs : react'[x].pc = react[x].pc
    BY <1>4, RunKeepsReacts
  <2>2. /\ subQ' = subQ
        /\ \/ ga' = ga /\ cur' = cur
           \/ ga' = None /\ cur' = cur
           \/ ga' = None /\ cur' = ga
    BY <1>4 DEF Run, GetInterrupt, RaceInterrupted, InterruptHandled,
                RaceDone, RunClosed, RaceMessage, queues
  <2> QED  BY <1>0, <1>1, <2>1, <2>2 DEF OnTheWay, QueueTypes, Waiting, Range
<1> QED  BY <1>2, <1>3, <1>4

LEMMA BracketInit == Init => ToolBracket
<1> SUFFICES ASSUME Init PROVE ToolBracket
  OBVIOUS
<1>1. \A m \in Msgs : react[m].pc = "none"
  BY DEF Init, Idle
<1> QED  BY <1>1 DEF Init, ToolBracket

LEMMA BracketStep ==
  TypeInv /\ OnTheWay /\ ToolBracket /\ [Next]_vars => OnTheWay' /\ ToolBracket'
<1> SUFFICES ASSUME TypeInv, OnTheWay, ToolBracket, [Next]_vars
             PROVE  OnTheWay' /\ ToolBracket'
  OBVIOUS
<1>1. CASE UNCHANGED vars
  BY <1>1 DEF vars, client, queues, runVars, OnTheWay, ToolBracket, Waiting, Call
<1>2. CASE SendInterrupt \/ Pump \/ \E m \in Msgs : SendMessage(m)
  <2>1. UNCHANGED <<react, openTools>>
    BY <1>2 DEF SendInterrupt, Pump, SendMessage
  <2> QED  BY <1>2, <2>1, WayClient DEF ToolBracket, Call
<1>3. ASSUME NEW m \in Msgs, React(m) PROVE ToolBracket'
  <2>1. ReactStep(m)
    BY <1>3, ReactSteps
  <2>2. \A x \in Msgs \ {m} : Call(x)' = Call(x) /\ Call(x) # Call(m) /\ Call(x) # Call(m)'
    BY <2>1 DEF ReactStep, Call
  <2>3. \A x \in Msgs \ {m} : react'[x].pc = react[x].pc
    BY <2>1 DEF ReactStep
  <2>4. openTools' = (openTools \ (IF react[m].pc = "exec" THEN {Call(m)} ELSE {}))
                     \cup (IF react'[m].pc = "exec" THEN {Call(m)'} ELSE {})
    BY <2>1 DEF ReactStep
  <2> QED  BY <2>2, <2>3, <2>4 DEF ToolBracket
<1>4. CASE Run
  <2>1. openTools' = openTools
    BY <1>4 DEF Run, GetMessage, GetInterrupt, RaceInterrupted, InterruptHandled,
         RaceDone, RunClosed, RaceMessage, MessageSaved
  <2>2. \A x \in Msgs : /\ (react'[x].pc = "exec") = (react[x].pc = "exec")
                        /\ react[x].pc = "exec" => Call(x)' = Call(x)
    <3>1. CASE MessageSaved
      <4>1. /\ cur \in Msgs /\ react[cur].pc = "none" /\ react'[cur].pc = "created"
            /\ \A x \in Msgs \ {cur} : react'[x] = react[x]
        BY <3>1, MessageSavedReacts DEF OnTheWay, Waiting
      <4> QED  BY <4>1 DEF Call
    <3>2. CASE ~MessageSaved
      BY <1>4, <3>2, RunKeepsReacts DEF Call
    <3> QED  BY <3>1, <3>2
  <2>3. {x \in Msgs : react'[x].pc = "exec"} = {x \in Msgs : react[x].pc = "exec"}
    BY <2>2
  <2> QED  BY <1>4, <2>1, <2>2, <2>3, WayRun DEF ToolBracket
<1> QED  BY <1>1, <1>2, <1>3, <1>4, WayClient, WayReact, WayRun DEF Next

\* Every ToolStart is closed by exactly one ToolEnd, for any number of reacts and
\* of calls in a turn, also when an interrupt cancels the react in execute().
THEOREM ToolsBracketed == Spec => []ToolBracket
BY TypeInvariance, WayInit, BracketInit, TypeStep, BracketStep, PTL DEF Spec
-----------------------------------------------------------------------------
(* DeliveredOnce.  A message is in one place at a time: not sent, in one   *)
(* of the queues, taken by t_a, or in the list of drained messages of one  *)
(* react, whose first one is in the conversation already.  And no          *)
(* conversation anyone may bring back (the snapshot of run(), a list a     *)
(* fold works on) holds a message twice or one that is still on its way.   *)
Rest(p) == {p[i] : i \in 2..Len(p)}
Apart(p) == \A i, j \in 2..Len(p) : p[i] = p[j] => i = j

Arriving == unsent \cup Range(inputQ) \cup Range(subQ) \cup {ga}
Drained(re) == UNION {Rest(re[x].pend) : x \in Msgs}
OnItsWay == Arriving \cup Drained(react)

PendInv ==
  /\ \A x \in Msgs : Apart(react[x].pend) /\ Rest(react[x].pend) \cap Arriving = {}
  /\ \A x, y \in Msgs : x # y => Rest(react[x].pend) \cap Rest(react[y].pend) = {}

(* A conversation holds each message once, and none of S.                  *)
Users == {User(x) : x \in Msgs}
Clean(q, S) ==
  /\ \A i, j \in 1..Len(q) : q[i] = q[j] /\ q[i] \in Users => i = j
  /\ \A i \in 1..Len(q), x \in S \cap Msgs : q[i] # User(x)

Known == {messages, before} \cup UNION {Range(react[x].held) : x \in Msgs}
ListInv == \A q \in Known : Clean(q, OnItsWay)

(* A reminder of a turn is no user message: turns are counted from 1.      *)
IterInv == \A x \in Msgs : react[x].pc \notin {"none", "created", "done"} => react[x].iter >= 1

OnceInv == PendInv /\ ListInv /\ IterInv

LEMMA PlainEntries ==
  ASSUME NEW m \in Msgs, NEW i \in Nat, NEW n \in Nat
  PROVE  /\ Assistant(m, i, n) \in Entry \ Users /\ ToolMsg(m, i, n) \in Entry \ Users
         /\ i >= 1 => Note(m, i) \in Entry \ Users
<1>1. \A u \in Users : u.role = "user" /\ u.step = 0
  BY DEF Users, User
<1>2. /\ Assistant(m, i, n).role = "assistant" /\ ToolMsg(m, i, n).role = "tool"
      /\ Note(m, i).step = i
  BY DEF Assistant, ToolMsg, Note
<1>3. /\ Assistant(m, i, n) \in Entry /\ ToolMsg(m, i, n) \in Entry /\ Note(m, i) \in Entry
  BY EntryTypes
<1> QED  BY <1>1, <1>2, <1>3

LEMMA UserNames ==
  ASSUME NEW x, NEW y, User(x) = User(y)
  PROVE  x = y
<1>1. User(x).by = x /\ User(y).by = y
  BY DEF User
<1> QED  BY <1>1

LEMMA CleanLess ==
  ASSUME NEW q, NEW S, NEW T, T \cap Msgs \subseteq S, Clean(q, S)
  PROVE  Clean(q, T)
BY DEF Clean

LEMMA CleanPlain ==
  ASSUME NEW q \in Seq(Entry), NEW e \in Entry \ Users, NEW S, Clean(q, S)
  PROVE  Clean(Append(q, e), S)
<1> DEFINE p == Append(q, e)
<1>1. /\ Len(p) = Len(q) + 1 /\ p[Len(q) + 1] = e /\ Len(q) \in Nat
      /\ \A i \in 1..Len(q) : p[i] = q[i]
  OBVIOUS
<1> HIDE DEF p
<1>2. \A i \in 1..Len(p) : (i \in 1..Len(q) /\ p[i] = q[i]) \/ p[i] = e
  BY <1>1
<1>3. \A x \in Msgs : User(x) \in Users
  BY DEF Users
<1>4. Clean(p, S)
  BY <1>2, <1>3 DEF Clean
<1> QED  BY <1>4 DEF p

\* A message joins the conversation as it leaves the ways to it.
LEMMA CleanUser ==
  ASSUME NEW q \in Seq(Entry), NEW S, NEW x \in S \cap Msgs, Clean(q, S)
  PROVE  Clean(Append(q, User(x)), S \ {x})
<1> DEFINE e == User(x)
           p == Append(q, e)
<1>0. e \in Entry
  BY EntryTypes
<1> HIDE DEF e
<1>1. /\ Len(p) = Len(q) + 1 /\ p[Len(q) + 1] = e /\ Len(q) \in Nat
      /\ \A i \in 1..Len(q) : p[i] = q[i]
  BY <1>0
<1> HIDE DEF p
<1>2. \A i \in 1..Len(p) : (i \in 1..Len(q) /\ p[i] = q[i]) \/ (i = Len(q) + 1 /\ p[i] = e)
  BY <1>1
<1>3. \A i \in 1..Len(q) : q[i] # e
  BY DEF Clean, e
<1>4. \A i, j \in 1..Len(p) : p[i] = p[j] /\ p[i] \in Users => i = j
  BY <1>2, <1>3 DEF Clean
<1>5. \A i \in 1..Len(p), y \in (S \ {x}) \cap Msgs : p[i] # User(y)
  BY <1>2, UserNames DEF Clean, e
<1> QED  BY <1>4, <1>5 DEF Clean, p, e

LEMMA CleanFolded ==
  ASSUME NEW q \in Seq(Entry), NEW k \in Nat, NEW S, Clean(q, S)
  PROVE  Clean(Folded(q, k), S)
<1> DEFINE p == Folded(q, k)
<1>1. \A i \in 1..Len(p) : i + k \in 1..Len(q) /\ p[i] = q[i + k]
  BY DEF Folded
<1> HIDE DEF p
<1>2. \A i, j \in 1..Len(p) : p[i] = p[j] /\ p[i] \in Users => i = j
  <2> SUFFICES ASSUME NEW i \in 1..Len(p), NEW j \in 1..Len(p), p[i] = p[j], p[i] \in Users
               PROVE  i = j
    OBVIOUS
  <2>1. i + k = j + k
    BY <1>1 DEF Clean
  <2>2. i \in Int /\ j \in Int
    OBVIOUS
  <2> QED  BY <2>1, <2>2
<1>3. Clean(p, S)
  BY <1>1, <1>2 DEF Clean
<1> QED  BY <1>3 DEF p

-----------------------------------------------------------------------------
(* What a step of react m does to the conversations and to the messages it  *)
(* has drained: it goes on with a conversation that is known, or with the   *)
(* rest of one, adds what is no user message, and then at most one message, *)
(* the first of sub_queue or the next of its drained ones.                  *)
Cuts == {q \in Seq(Entry) : \E p \in Known : q = p \/ \E k \in Nat : q = Folded(p, k)}
Continued == {q \in Seq(Entry) : q \in Cuts \/ \E p \in Cuts, e \in Entry \ Users : q = Append(p, e)}

Others(m) ==
  \A x \in Msgs \ {m} : /\ react'[x].pend = react[x].pend
                        /\ react'[x].held = react[x].held \/ react'[x].held = <<messages>>

TakesNone(m, s) ==
  subQ' = subQ /\ s.pend \in {react[m].pend, <<>>} /\ messages' \in Continued

TakesFirst(m, s) ==
  /\ subQ # <<>> /\ subQ' = <<>> /\ s.pend = subQ
  /\ \E q \in Continued : messages' = Append(q, User(Head(subQ)))

TakesNext(m, s) ==
  /\ subQ' = subQ /\ react[m].pend # <<>> /\ Tail(react[m].pend) # <<>>
  /\ s.pend = Tail(react[m].pend)
  /\ messages' = Append(messages, User(Head(s.pend)))

Mine(m, s) ==
  /\ s.held \in {react[m].held, <<>>} \/ \E q \in Cuts : s.held = <<q>>
  /\ s.pc \notin {"none", "created", "done"} => s.iter >= 1
  /\ TakesNone(m, s) \/ TakesFirst(m, s) \/ TakesNext(m, s)

ListStep(m) == Others(m) /\ Mine(m, react'[m])

LEMMA OthersKept ==
  ASSUME NEW m \in Msgs, react \in [Msgs -> Locals], NEW s,
         react' = [react EXCEPT ![m] = s] \/ react' = [DetachAll EXCEPT ![m] = s]
  PROVE  react'[m] = s /\ Others(m)
<1>1. ASSUME NEW x \in Msgs
      PROVE  /\ Detached(x).pend = react[x].pend
             /\ Detached(x).held = react[x].held \/ Detached(x).held = <<messages>>
  <2>1. LET d == [react[x] EXCEPT !.held = <<messages>>] IN
        d.pend = react[x].pend /\ d.held = <<messages>>
    BY DEF Locals
  <2> QED  BY <2>1 DEF Detached
<1>2. CASE react' = [react EXCEPT ![m] = s]
  BY <1>2 DEF Others
<1>3. CASE react' = [DetachAll EXCEPT ![m] = s]
  BY <1>1, <1>3 DEF DetachAll, Others
<1> QED  BY <1>2, <1>3

LEMMA KnownTypes ==
  ASSUME TypeInv
  PROVE  /\ Known \subseteq Seq(Entry) /\ Known \subseteq Cuts /\ Cuts \subseteq Continued
         /\ messages \in Cuts
         /\ \A q \in Cuts, e \in Entry \ Users : Append(q, e) \in Continued
         /\ \A q \in Known, k \in Nat : Folded(q, k) \in Cuts
<1>1. messages \in Seq(Entry) /\ before \in Seq(Entry) /\ react \in [Msgs -> Locals]
  BY DEF TypeInv, TypeOK
<1>2. \A x \in Msgs : Range(react[x].held) \subseteq Seq(Entry)
  <2> SUFFICES ASSUME NEW x \in Msgs PROVE Range(react[x].held) \subseteq Seq(Entry)
    OBVIOUS
  <2>1. react[x].held \in Seq(Seq(Entry))
    BY <1>1, LocalFields
  <2> QED  BY <2>1 DEF Range
<1>3. Known \subseteq Seq(Entry)
  BY <1>1, <1>2 DEF Known
<1>4. messages \in Known
  BY DEF Known
<1>5. \A q \in Known, k \in Nat : Folded(q, k) \in Seq(Entry)
  BY <1>3, FoldedType
<1>6. \A q \in Cuts, e \in Entry \ Users : Append(q, e) \in Seq(Entry)
  BY DEF Cuts
<1> QED  BY <1>3, <1>4, <1>5, <1>6 DEF Cuts, Continued

\* The conversations a step can go on with are as clean as the known ones.
LEMMA CutsClean ==
  ASSUME TypeInv, ListInv
  PROVE  \A q \in Continued : q \in Seq(Entry) /\ Clean(q, OnItsWay)
<1>1. Known \subseteq Seq(Entry)
  BY KnownTypes
<1>2. ASSUME NEW q \in Cuts PROVE Clean(q, OnItsWay)
  <2>1. PICK p \in Known : q = p \/ \E k \in Nat : q = Folded(p, k)
    BY DEF Cuts
  <2>2. Clean(p, OnItsWay) /\ p \in Seq(Entry)
    BY <1>1, <2>1 DEF ListInv
  <2> QED  BY <2>1, <2>2, CleanFolded
<1>3. ASSUME NEW q \in Cuts, NEW e \in Entry \ Users PROVE Clean(Append(q, e), OnItsWay)
  <2>1. q \in Seq(Entry) /\ Clean(q, OnItsWay)
    BY <1>2 DEF Cuts
  <2> QED  BY <2>1, CleanPlain
<1> QED  BY <1>2, <1>3 DEF Continued

LEMMA BeginTurnLists ==
  ASSUME NEW m \in Msgs, NEW r \in Locals, NEW msgs \in Continued, react \in [Msgs -> Locals],
         r.held = react[m].held, r.iter >= 1, subQ' = subQ, BeginTurn(m, r, msgs)
  PROVE  ListStep(m)
<1>1. CASE Set(m, [r EXCEPT !.pc = "stream", !.pend = <<>>])
  <2> DEFINE s == [r EXCEPT !.pc = "stream", !.pend = <<>>]
  <2>1. s.pend = <<>> /\ s.held = react[m].held /\ s.iter >= 1
    BY DEF Locals
  <2>2. react' = [react EXCEPT ![m] = s] /\ messages' = msgs
    BY <1>1 DEF Set, BeginTurn
  <2> HIDE DEF s
  <2> QED  BY <2>1, <2>2, OthersKept DEF ListStep, Mine, TakesNone
<1>2. CASE Set(m, [r EXCEPT !.pc = "fold", !.pend = <<>>, !.foldAt = FoldEnd(msgs),
                            !.held = <<>>])
  <2> DEFINE s == [r EXCEPT !.pc = "fold", !.pend = <<>>, !.foldAt = FoldEnd(msgs),
                            !.held = <<>>]
  <2>1. s.pend = <<>> /\ s.held = <<>> /\ s.iter >= 1
    BY DEF Locals
  <2>2. react' = [react EXCEPT ![m] = s] /\ messages' = msgs
    BY <1>2 DEF Set, BeginTurn
  <2> HIDE DEF s
  <2> QED  BY <2>1, <2>2, OthersKept DEF ListStep, Mine, TakesNone
<1> QED  BY <1>1, <1>2 DEF BeginTurn

LEMMA EndedLists ==
  ASSUME NEW m \in Msgs, react \in [Msgs -> Locals], NEW why \in Results, Set(m, Ended(why)),
         subQ' = subQ, messages' \in Continued
  PROVE  ListStep(m)
<1>1. Ended(why).pc = "done" /\ Ended(why).pend = <<>> /\ Ended(why).held = <<>>
  BY DEF Ended, Idle
<1>2. react' = [react EXCEPT ![m] = Ended(why)]
  BY DEF Set
<1> QED  BY <1>1, <1>2, OthersKept DEF ListStep, Mine, TakesNone

LEMMA LoopHeadLists ==
  ASSUME NEW m \in Msgs, NEW r \in Locals, NEW msgs \in Continued, react \in [Msgs -> Locals],
         r.held = react[m].held, LoopHead(m, r, msgs)
  PROVE  ListStep(m)
<1> DEFINE t == [r EXCEPT !.iter = @ + 1]
<1>1. t \in Locals /\ t.held = react[m].held /\ t.iter >= 1
  <2>1. t \in Locals
    BY NextIter
  <2>2. t.held = r.held /\ t.iter = r.iter + 1
    BY DEF Locals
  <2>3. r.iter \in Nat
    BY LocalFields
  <2>4. r.iter + 1 >= 1
    BY <2>3
  <2> HIDE DEF t
  <2> QED  BY <2>1, <2>2, <2>4
<1>2. CASE messages' = msgs /\ (Set(m, Ended("maxsteps")) \/ Set(m, Ended("interrupted")))
           /\ UNCHANGED subQ
  BY <1>2, EndedLists DEF Results
<1>3. CASE subQ # <<>> /\ subQ' = AfterDrain /\ messages' = Append(msgs, User(Head(subQ)))
           /\ Set(m, [t EXCEPT !.pc = "dsave", !.pend = subQ])
  <2> DEFINE s == [t EXCEPT !.pc = "dsave", !.pend = subQ]
  <2>1. s.pend = subQ /\ s.held = react[m].held /\ s.iter >= 1
    <3> HIDE DEF t
    <3> QED  BY <1>1 DEF Locals
  <2>2. react' = [react EXCEPT ![m] = s]
    BY <1>3 DEF Set
  <2> HIDE DEF s
  <2> QED  BY <1>3, <2>1, <2>2, OthersKept DEF ListStep, Mine, TakesFirst, AfterDrain
<1>4. CASE BeginTurn(m, t, msgs) /\ UNCHANGED subQ
  <2> HIDE DEF t
  <2> QED  BY <1>1, <1>4, BeginTurnLists
<1> QED  BY <1>2, <1>3, <1>4 DEF LoopHead

LEMMA NextCallLists ==
  ASSUME TypeInv, NEW m \in Msgs, react[m].calls # <<>>, react[m].iter >= 1, NextCall(m),
         subQ' = subQ
  PROVE  ListStep(m)
<1> DEFINE r == react[m]
           t == [r EXCEPT !.calls = Tail(@), !.call = @ + 1]
<1>0. react \in [Msgs -> Locals] /\ r \in Locals /\ messages \in Continued
  BY KnownTypes DEF TypeInv, TypeOK
<1>1. r.iter \in Nat /\ r.call + 1 \in Nat /\ Tail(r.calls) \in Seq({"tool", "wait_io"})
  <2>1. r.calls \in Seq({"tool", "wait_io"}) /\ r.iter \in Nat /\ r.call \in Nat
    BY <1>0, LocalFields
  <2> QED  BY <2>1
<1>2. t \in Locals /\ t.pend = r.pend /\ t.held = r.held /\ t.iter = r.iter
  BY <1>0, <1>1, NextCalls DEF Locals
<1>3. CASE Set(m, [t EXCEPT !.pc = "exec"]) /\ UNCHANGED messages
  <2> DEFINE s == [t EXCEPT !.pc = "exec"]
  <2>1. s.pend = r.pend /\ s.held = r.held /\ s.iter = r.iter
    <3> HIDE DEF t
    <3> QED  BY <1>2 DEF Locals
  <2>2. react' = [react EXCEPT ![m] = s]
    BY <1>3 DEF Set
  <2> HIDE DEF s
  <2> QED  BY <1>0, <1>3, <2>1, <2>2, OthersKept DEF ListStep, Mine, TakesNone
<1>4. CASE /\ messages' = Append(messages, ToolMsg(m, r.iter, r.call + 1))
           /\ Set(m, [t EXCEPT !.pc = "tsave", !.waitIo = TRUE])
  <2> DEFINE s == [t EXCEPT !.pc = "tsave", !.waitIo = TRUE]
  <2>1. s.pend = r.pend /\ s.held = r.held /\ s.iter = r.iter
    <3> HIDE DEF t
    <3> QED  BY <1>2 DEF Locals
  <2>2. react' = [react EXCEPT ![m] = s]
    BY <1>4 DEF Set
  <2>3. messages' \in Continued
    BY <1>1, <1>4, PlainEntries, KnownTypes
  <2> HIDE DEF s
  <2> QED  BY <1>0, <2>1, <2>2, <2>3, OthersKept DEF ListStep, Mine, TakesNone
<1> QED  BY <1>3, <1>4 DEF NextCall

LEMMA ReactLists ==
  ASSUME TypeInv, IterInv, NEW m \in Msgs, React(m)
  PROVE  ListStep(m)
<1> DEFINE r == react[m]
<1>0. /\ react \in [Msgs -> Locals] /\ r \in Locals /\ messages \in Seq(Entry)
      /\ LocalsFilled(react) /\ subQ \in Seq(Msgs) /\ messages \in Continued
      /\ r.iter \in Nat /\ r.call \in Nat /\ r.foldAt \in Nat /\ r.held \in Seq(Seq(Entry))
      /\ r.pend \in Seq(Msgs)
  BY KnownTypes, LocalFields DEF TypeInv, TypeOK
<1>i. r.pc \notin {"none", "created", "done"} => r.iter >= 1
  BY DEF IterInv
\* the common case: the conversation grows by an entry of the react
<1>1. ASSUME NEW s, react' = [react EXCEPT ![m] = s], s.pend = r.pend, s.held = r.held,
             s.iter = r.iter, r.iter >= 1, subQ' = subQ, messages' \in Continued
      PROVE  ListStep(m)
  BY <1>1, <1>0, OthersKept DEF ListStep, Mine, TakesNone
<1>2. CASE ReactStart(m)
  BY <1>0, <1>2, LoopHeadLists DEF ReactStart
<1>3. CASE DrainSaved(m) \/ AggregateSaved(m)
  <2>1. r.pc \in {"dsave", "fdsave"} /\ r.iter >= 1 /\ r.pend # <<>>
    BY <1>0, <1>3, <1>i DEF DrainSaved, AggregateSaved, Live, LocalsFilled
  <2>2. CASE /\ Tail(r.pend) # <<>> /\ messages' = Append(messages, User(Head(Tail(r.pend))))
             /\ Set(m, [r EXCEPT !.pend = Tail(r.pend)]) /\ UNCHANGED subQ
    <3> DEFINE s == [r EXCEPT !.pend = Tail(r.pend)]
    <3>1. s.pend = Tail(r.pend) /\ s.held = r.held /\ s.iter = r.iter
      BY <1>0 DEF Locals
    <3>2. react' = [react EXCEPT ![m] = s]
      BY <2>2 DEF Set
    <3> HIDE DEF s
    <3> QED  BY <1>0, <2>1, <2>2, <3>1, <3>2, OthersKept DEF ListStep, Mine, TakesNext
  <2>3. CASE BeginTurn(m, r, messages) /\ UNCHANGED subQ
    BY <1>0, <2>1, <2>3, BeginTurnLists
  <2>4. CASE LoopHead(m, [r EXCEPT !.pend = <<>>], messages)
    <3> DEFINE u == [r EXCEPT !.pend = <<>>]
    <3>1. u \in Locals /\ u.held = r.held
      BY <1>0, EmptyLists DEF Locals
    <3> HIDE DEF u
    <3> QED  BY <1>0, <2>4, <3>1, LoopHeadLists DEF u
  <2> QED  BY <1>3, <2>2, <2>3, <2>4 DEF DrainSaved, AggregateSaved, queues
<1>4. CASE FoldReturns(m)
  <2> DEFINE base == IF r.held = <<>> THEN messages ELSE r.held[1]
             short == Folded(base, r.foldAt)
  <2>1. base \in Known
    <3>1. CASE r.held = <<>>
      BY <3>1 DEF Known
    <3>2. CASE r.held # <<>>
      <4>1. 1 \in DOMAIN r.held
        BY <1>0, <3>2
      <4>2. r.held[1] \in Range(r.held)
        BY <4>1 DEF Range
      <4> QED  BY <3>2, <4>2 DEF Known
    <3> QED  BY <3>1, <3>2
  <2>2. base \in Cuts /\ short \in Cuts /\ base \in Continued /\ short \in Continued
    BY <1>0, <2>1, KnownTypes
  <2>3. r.iter >= 1 /\ subQ' = subQ
    BY <1>4, <1>i DEF FoldReturns, Live, queues
  <2>4. ASSUME NEW h, NEW pc \in {"ksave", "stream"}, h = <<>> \/ h = <<short>>,
               \/ react' = [react EXCEPT ![m] = [r EXCEPT !.pc = pc, !.held = h]]
               \/ react' = [DetachAll EXCEPT ![m] = [r EXCEPT !.pc = pc, !.held = h]],
               messages' \in Continued
        PROVE  ListStep(m)
    <3> DEFINE s == [r EXCEPT !.pc = pc, !.held = h]
    <3>1. s.held = h /\ s.pend = r.pend /\ s.iter = r.iter
      BY <1>0 DEF Locals
    <3>2. h = <<>> \/ \E q \in Cuts : h = <<q>>
      BY <2>2, <2>4
    <3> HIDE DEF s, short
    <3>3. react'[m] = s /\ Others(m)
      BY <1>0, <2>4, OthersKept DEF s
    <3> QED  BY <2>3, <2>4, <3>1, <3>2, <3>3 DEF ListStep, Mine, TakesNone
  <2>5. \/ /\ messages' = short
           /\ react' = [DetachAll EXCEPT ![m] = [r EXCEPT !.pc = "ksave", !.held = <<short>>]]
        \/ /\ messages' = base
           /\ react' = [(IF r.held = <<>> THEN react ELSE DetachAll)
                        EXCEPT ![m] = [r EXCEPT !.pc = "stream", !.held = <<>>]]
    BY <1>4 DEF FoldReturns
  <2> HIDE DEF base, short
  <2> QED  BY <2>2, <2>4, <2>5
<1>5. CASE CompactSaved(m)
  <2> DEFINE s == [r EXCEPT !.pc = "stream", !.held = <<>>]
  <2>1. s.pend = r.pend /\ s.held = <<>> /\ s.iter = r.iter
    BY <1>0 DEF Locals
  <2>2. react' = [react EXCEPT ![m] = s] /\ messages' = messages /\ subQ' = subQ /\ r.iter >= 1
    BY <1>5, <1>i DEF CompactSaved, Set, queues, Live
  <2> HIDE DEF s
  <2> QED  BY <1>0, <2>1, <2>2, OthersKept DEF ListStep, Mine, TakesNone
<1>6. CASE StreamInterrupted(m) \/ StreamUnreachable(m) \/ StreamFatal(m) \/ CancelDelivered(m)
  <2>1. PICK why \in Results : Set(m, Ended(why))
    BY <1>6 DEF StreamInterrupted, StreamUnreachable, StreamFatal, CancelDelivered, Results
  <2>2. subQ' = subQ
    BY <1>6 DEF StreamInterrupted, StreamUnreachable, StreamFatal, CancelDelivered, queues
  <2>3. messages' = messages \/ (messages' = Append(messages, Note(m, r.iter)) /\ r.iter >= 1)
    BY <1>6, <1>i DEF StreamInterrupted, StreamUnreachable, StreamFatal, CancelDelivered, ctx, Live
  <2>4. messages' \in Continued
    BY <1>0, <2>3, PlainEntries, KnownTypes
  <2> QED  BY <1>0, <2>1, <2>2, <2>4, EndedLists
<1>7. CASE StreamText(m)
  <2> DEFINE s == [r EXCEPT !.pc = "fsave"]
  <2>1. s.pend = r.pend /\ s.held = r.held /\ s.iter = r.iter
    BY <1>0 DEF Locals
  <2>2. /\ react' = [react EXCEPT ![m] = s] /\ subQ' = subQ /\ r.iter >= 1
        /\ messages' = Append(messages, Assistant(m, r.iter, 0))
    BY <1>7, <1>i DEF StreamText, Set, queues, Live
  <2>3. messages' \in Continued
    BY <1>0, <2>2, PlainEntries, KnownTypes
  <2> HIDE DEF s
  <2> QED  BY <1>1, <2>1, <2>2, <2>3
<1>8. CASE StreamCalls(m)
  <2>0. PICK n \in 1..MaxCalls : \E calls \in [1..n -> {"tool", "wait_io"}] :
          /\ messages' = Append(messages, Assistant(m, r.iter, n))
          /\ Set(m, [r EXCEPT !.pc = "csave", !.calls = calls, !.call = 0,
                              !.total = n, !.waitIo = FALSE])
    BY <1>8 DEF StreamCalls
  <2>1. PICK calls \in [1..n -> {"tool", "wait_io"}] :
          /\ messages' = Append(messages, Assistant(m, r.iter, n))
          /\ Set(m, [r EXCEPT !.pc = "csave", !.calls = calls, !.call = 0,
                              !.total = n, !.waitIo = FALSE])
    BY <2>0
  <2> DEFINE s == [r EXCEPT !.pc = "csave", !.calls = calls, !.call = 0,
                            !.total = n, !.waitIo = FALSE]
  <2>2. s.pend = r.pend /\ s.held = r.held /\ s.iter = r.iter
    BY <1>0 DEF Locals
  <2>3. subQ' = subQ /\ r.iter >= 1 /\ n \in Nat
    <3>1. Live(m, "stream") /\ UNCHANGED queues
      BY <1>8 DEF StreamCalls
    <3> QED  BY <1>i, <3>1, BoundsAssumption DEF queues, Live
  <2>5. react' = [react EXCEPT ![m] = s]
    BY <2>1 DEF Set
  <2>4. messages' \in Continued
    BY <1>0, <2>1, <2>3, PlainEntries, KnownTypes
  <2> HIDE DEF s
  <2> QED  BY <1>1, <2>2, <2>3, <2>4, <2>5
<1>9. CASE StreamReasoning(m)
  <2>1. r.iter >= 1 /\ LoopHead(m, r, Append(messages, Note(m, r.iter)))
    BY <1>9, <1>i DEF StreamReasoning, Live
  <2>2. Append(messages, Note(m, r.iter)) \in Continued
    BY <1>0, <2>1, PlainEntries, KnownTypes
  <2> QED  BY <1>0, <2>1, <2>2, LoopHeadLists
<1>10. CASE FinalSaved(m)
  <2>1. CASE Set(m, Ended("text")) /\ UNCHANGED <<subQ, messages>>
    BY <1>0, <2>1, EndedLists DEF Results
  <2>2. CASE /\ subQ # <<>> /\ subQ' = AfterDrain /\ messages' = Append(messages, User(Head(subQ)))
             /\ Set(m, [r EXCEPT !.pc = "fdsave", !.pend = subQ])
    <3> DEFINE s == [r EXCEPT !.pc = "fdsave", !.pend = subQ]
    <3>1. s.pend = subQ /\ s.held = r.held /\ s.iter = r.iter
      BY <1>0 DEF Locals
    <3>2. react' = [react EXCEPT ![m] = s] /\ r.iter >= 1
      BY <1>10, <1>i, <2>2 DEF Set, FinalSaved, Live
    <3> HIDE DEF s
    <3> QED  BY <1>0, <2>2, <3>1, <3>2, OthersKept DEF ListStep, Mine, TakesFirst, AfterDrain
  <2> QED  BY <1>10, <2>1, <2>2 DEF FinalSaved
<1>11. CASE CallsSaved(m)
  <2>1. r.calls # <<>> /\ r.iter >= 1 /\ NextCall(m) /\ subQ' = subQ
    BY <1>0, <1>11, <1>i DEF CallsSaved, Live, LocalsFilled, queues
  <2> QED  BY <2>1, NextCallLists
<1>12. CASE ToolReturns(m)
  <2> DEFINE s == [r EXCEPT !.pc = "tsave"]
  <2>1. s.pend = r.pend /\ s.held = r.held /\ s.iter = r.iter
    BY <1>0 DEF Locals
  <2>2. /\ react' = [react EXCEPT ![m] = s] /\ subQ' = subQ /\ r.iter >= 1
        /\ messages' = Append(messages, ToolMsg(m, r.iter, r.call))
    BY <1>12, <1>i DEF ToolReturns, Set, queues, Live
  <2>3. messages' \in Continued
    BY <1>0, <2>2, PlainEntries, KnownTypes
  <2> HIDE DEF s
  <2> QED  BY <1>1, <2>1, <2>2, <2>3
<1>13. CASE ToolSaved(m)
  <2>1. r.iter >= 1
    BY <1>13, <1>i DEF ToolSaved, Live
  <2>2. CASE r.calls # <<>> /\ NextCall(m) /\ UNCHANGED subQ
    BY <2>1, <2>2, NextCallLists
  <2>3. CASE Set(m, Ended("text")) /\ UNCHANGED <<subQ, messages>>
    BY <1>0, <2>3, EndedLists DEF Results
  <2>4. CASE LoopHead(m, r, messages)
    BY <1>0, <2>4, LoopHeadLists
  <2> QED  BY <1>13, <2>2, <2>3, <2>4 DEF ToolSaved
<1> QED
  BY <1>2, <1>3, <1>4, <1>5, <1>6, <1>7, <1>8, <1>9, <1>10, <1>11, <1>12, <1>13
     DEF React, Save, Stream

-----------------------------------------------------------------------------
LEMMA RestEmpty == Rest(<<>>) = {} /\ Apart(<<>>)
<1>1. Len(<<>>) = 0
  OBVIOUS
<1>2. 2..0 = {}
  OBVIOUS
<1> QED  BY <1>1, <1>2 DEF Rest, Apart

LEMMA RestTail ==
  ASSUME NEW p \in Seq(Msgs), p # <<>>, Tail(p) # <<>>, Apart(p)
  PROVE  /\ Head(Tail(p)) \in Rest(p) /\ Head(Tail(p)) \in Msgs
         /\ Apart(Tail(p)) /\ Rest(Tail(p)) \subseteq Rest(p) \ {Head(Tail(p))}
<1> DEFINE t == Tail(p)
<1>1. /\ Len(t) \in Nat /\ Len(p) = Len(t) + 1 /\ Len(t) >= 1 /\ Head(t) = p[2]
      /\ \A i \in 1..Len(t) : t[i] = p[i + 1]
  OBVIOUS
<1>4. 2 \in 2..Len(p) /\ p[2] \in Msgs
  BY <1>1
<1> HIDE DEF t
<1>2. \A i \in 2..Len(t) : t[i] = p[i + 1] /\ i + 1 \in 2..Len(p) /\ i + 1 # 2
  BY <1>1
<1>3. ASSUME NEW i \in 2..Len(t), NEW j \in 2..Len(t), t[i] = t[j] PROVE i = j
  <2>1. i + 1 = j + 1
    BY <1>2, <1>3 DEF Apart
  <2> QED  BY <2>1
<1>5. \A i \in 2..Len(t) : t[i] \in Rest(p) /\ t[i] # p[2]
  BY <1>2, <1>4 DEF Apart, Rest
<1>6. Rest(t) \subseteq Rest(p) \ {Head(t)}
  BY <1>1, <1>5 DEF Rest
<1>7. Head(t) \in Rest(p) /\ Head(t) \in Msgs /\ Apart(t)
  BY <1>1, <1>3, <1>4 DEF Rest, Apart
<1> QED  BY <1>6, <1>7 DEF t

LEMMA RestQueue ==
  ASSUME NEW q \in Seq(Msgs), q # <<>>, \A i, j \in DOMAIN q : q[i] = q[j] => i = j
  PROVE  /\ Head(q) \in Range(q) /\ Head(q) \in Msgs
         /\ Apart(q) /\ Rest(q) \subseteq Range(q) \ {Head(q)}
<1>1. /\ DOMAIN q = 1..Len(q) /\ Head(q) = q[1] /\ 1 \in DOMAIN q /\ q[1] \in Msgs
      /\ \A i \in 2..Len(q) : i \in DOMAIN q /\ i # 1
  OBVIOUS
<1> QED  BY <1>1 DEF Range, Rest, Apart

\* The messages a react takes leave the ways to the conversation.
LEMMA PendReact ==
  ASSUME TypeInv, OnTheWay, PendInv, NEW m \in Msgs, ListStep(m),
         UNCHANGED <<unsent, inputQ, ga>>
  PROVE  /\ PendInv' /\ OnItsWay' \subseteq OnItsWay
         /\ TakesFirst(m, react'[m]) =>
              Head(subQ) \in OnItsWay \cap Msgs /\ Head(subQ) \notin OnItsWay'
         /\ TakesNext(m, react'[m]) =>
              LET x == Head(react'[m].pend) IN x \in OnItsWay \cap Msgs /\ x \notin OnItsWay'
<1>0. /\ react \in [Msgs -> Locals] /\ subQ \in Seq(Msgs) /\ react[m].pend \in Seq(Msgs)
  BY LocalFields DEF TypeInv, TypeOK
<1> DEFINE p == react[m].pend
           s == react'[m].pend
           A == Arriving
           B == Arriving'
<1>1. /\ \A x \in Msgs \ {m} : react'[x].pend = react[x].pend
      /\ Apart(p) /\ Rest(p) \cap A = {}
      /\ \A x \in Msgs : Apart(react[x].pend) /\ Rest(react[x].pend) \cap A = {}
      /\ \A x, y \in Msgs : x # y => Rest(react[x].pend) \cap Rest(react[y].pend) = {}
  BY DEF ListStep, Others, PendInv
<1>2. OnItsWay = A \cup UNION {Rest(react[x].pend) : x \in Msgs}
      /\ OnItsWay' = B \cup UNION {Rest(react'[x].pend) : x \in Msgs}
  BY DEF OnItsWay, Drained
\* what follows when the new list is taken from S, which only p and sub_queue held
<1>3. ASSUME NEW S, Rest(s) \subseteq S, Apart(s), S \cap B = {}, B \subseteq A,
             S \subseteq A \cup Rest(p)
      PROVE  PendInv' /\ OnItsWay' \subseteq OnItsWay
  <2>1. \A x \in Msgs \ {m} : S \cap Rest(react[x].pend) = {}
    BY <1>1, <1>3
  <2>2. \A x \in Msgs : Apart(react'[x].pend) /\ Rest(react'[x].pend) \cap B = {}
    BY <1>1, <1>3
  <2>3. \A x, y \in Msgs : x # y => Rest(react'[x].pend) \cap Rest(react'[y].pend) = {}
    BY <1>1, <1>3, <2>1
  <2>4. PendInv'
    BY <2>2, <2>3 DEF PendInv
  <2>5. \A x \in Msgs : Rest(react'[x].pend) \subseteq OnItsWay
    BY <1>1, <1>2, <1>3
  <2> QED  BY <1>2, <1>3, <2>4, <2>5
<1>4. CASE TakesNone(m, react'[m])
  <2>1. B = A
    BY <1>4 DEF Arriving, TakesNone
  <2>2. Rest(s) \subseteq Rest(p) /\ Apart(s)
    BY <1>1, <1>4, RestEmpty DEF TakesNone
  <2>3. PendInv' /\ OnItsWay' \subseteq OnItsWay
    BY <1>1, <1>3, <2>1, <2>2
  <2>4. ~TakesFirst(m, react'[m]) /\ ~TakesNext(m, react'[m])
    <3>1. ~TakesFirst(m, react'[m])
      BY <1>4 DEF TakesNone, TakesFirst
    <3>2. Len(Tail(p)) # Len(p) \/ p = <<>>
      BY <1>0
    <3>3. ~TakesNext(m, react'[m])
      BY <1>4, <3>2 DEF TakesNone, TakesNext
    <3> QED  BY <3>1, <3>3
  <2> QED  BY <2>3, <2>4
<1>5. CASE TakesFirst(m, react'[m])
  <2>1. subQ # <<>> /\ subQ' = <<>> /\ s = subQ
    BY <1>5 DEF TakesFirst
  <2>2. /\ Head(subQ) \in Range(subQ) /\ Head(subQ) \in Msgs
        /\ Apart(subQ) /\ Rest(subQ) \subseteq Range(subQ) \ {Head(subQ)}
    BY <1>0, <2>1, RestQueue DEF OnTheWay
  <2>3. Range(subQ) \subseteq A /\ B = unsent \cup Range(inputQ) \cup {ga}
    <3>1. Range(subQ') = {}
      BY <2>1 DEF Range
    <3> QED  BY <3>1 DEF Arriving
  <2>4. Range(subQ) \cap B = {}
    BY <2>3 DEF OnTheWay, Range
  <2>5. B \subseteq A
    BY <2>3 DEF Arriving
  <2>6. PendInv' /\ OnItsWay' \subseteq OnItsWay
    <3>1. Rest(s) \subseteq Range(subQ) /\ Apart(s) /\ Range(subQ) \subseteq A \cup Rest(p)
      BY <2>1, <2>2, <2>3
    <3> QED  BY <1>3, <2>4, <2>5, <3>1
  <2>7. Head(subQ) \notin Rest(s)
    BY <2>1, <2>2
  <2>8. \A x \in Msgs \ {m} : Head(subQ) \notin Rest(react'[x].pend)
    BY <1>1, <2>2, <2>3
  <2>9. Head(subQ) \notin OnItsWay' /\ Head(subQ) \in OnItsWay \cap Msgs
    BY <1>2, <2>2, <2>3, <2>4, <2>7, <2>8
  <2>10. ~TakesNext(m, react'[m])
    BY <2>1 DEF TakesNext
  <2> QED  BY <2>6, <2>9, <2>10
<1>6. CASE TakesNext(m, react'[m])
  <2>1. subQ' = subQ /\ p # <<>> /\ Tail(p) # <<>> /\ s = Tail(p)
    BY <1>6 DEF TakesNext
  <2>2. /\ Head(s) \in Rest(p) /\ Head(s) \in Msgs
        /\ Apart(s) /\ Rest(s) \subseteq Rest(p) \ {Head(s)}
    BY <1>0, <1>1, <2>1, RestTail
  <2>3. B = A
    BY <2>1 DEF Arriving
  <2>4. PendInv' /\ OnItsWay' \subseteq OnItsWay
    BY <1>1, <1>3, <2>2, <2>3
  <2>5. \A x \in Msgs \ {m} : Head(s) \notin Rest(react'[x].pend)
    BY <1>1, <2>2
  <2>6. Head(s) \in OnItsWay \cap Msgs /\ Head(s) \notin OnItsWay'
    BY <1>1, <1>2, <2>2, <2>3, <2>5
  <2>7. ~TakesFirst(m, react'[m])
    BY <2>1 DEF TakesFirst
  <2> QED  BY <2>4, <2>6, <2>7
<1> QED  BY <1>4, <1>5, <1>6 DEF ListStep, Mine

LEMMA OnceReact ==
  ASSUME TypeInv, OnTheWay, OnceInv, NEW m \in Msgs, React(m)
  PROVE  OnceInv'
<1>1. ListStep(m) /\ UNCHANGED <<unsent, inputQ, ga, before>>
  BY ReactLists, ReactFrame DEF OnceInv, client, runVars
<1>2. /\ PendInv' /\ OnItsWay' \subseteq OnItsWay
      /\ TakesFirst(m, react'[m]) =>
           Head(subQ) \in OnItsWay \cap Msgs /\ Head(subQ) \notin OnItsWay'
      /\ TakesNext(m, react'[m]) =>
           LET x == Head(react'[m].pend) IN x \in OnItsWay \cap Msgs /\ x \notin OnItsWay'
  BY <1>1, PendReact DEF OnceInv
<1>3. \A q \in Continued : q \in Seq(Entry) /\ Clean(q, OnItsWay)
  BY CutsClean DEF OnceInv
<1>4. ASSUME NEW q \in Continued PROVE Clean(q, OnItsWay')
  BY <1>2, <1>3, CleanLess
<1>5. ASSUME NEW q \in Continued, NEW x \in OnItsWay \cap Msgs, x \notin OnItsWay'
      PROVE  Clean(Append(q, User(x)), OnItsWay')
  <2>1. Clean(Append(q, User(x)), OnItsWay \ {x})
    BY <1>3, CleanUser
  <2> QED  BY <1>2, <1>5, <2>1, CleanLess
<1>6. Clean(messages', OnItsWay')
  <2>1. CASE TakesNone(m, react'[m])
    BY <1>4, <2>1 DEF TakesNone
  <2>2. CASE TakesFirst(m, react'[m])
    BY <1>2, <1>5, <2>2 DEF TakesFirst
  <2>3. CASE TakesNext(m, react'[m])
    <3>1. messages \in Continued
      BY KnownTypes
    <3> QED  BY <1>2, <1>5, <2>3, <3>1 DEF TakesNext
  <2> QED  BY <1>1, <2>1, <2>2, <2>3 DEF ListStep, Mine
<1>7. ASSUME NEW q \in Known' PROVE q = messages' \/ q \in Continued
  <2>1. Known \subseteq Continued /\ Cuts \subseteq Continued /\ messages \in Known /\ before \in Known
    BY KnownTypes DEF Known
  <2>2. ASSUME NEW x \in Msgs, q \in Range(react'[x].held) PROVE q \in Continued
    <3>1. CASE react'[x].held = react[x].held
      BY <2>1, <2>2, <3>1 DEF Known
    <3>2. ASSUME NEW h \in Cuts, react'[x].held = <<h>> PROVE q \in Continued
      BY <2>1, <2>2, <3>2 DEF Range
    <3>3. CASE react'[x].held = <<>>
      BY <2>2, <3>3 DEF Range
    <3>4. messages \in Cuts
      BY KnownTypes
    <3> QED  BY <1>1, <3>1, <3>2, <3>3, <3>4 DEF ListStep, Others, Mine
  <2> QED  BY <1>1, <2>1, <2>2 DEF Known
<1>8. ListInv'
  BY <1>4, <1>6, <1>7 DEF ListInv
<1>9. IterInv'
  BY <1>1, ReactSteps DEF OnceInv, IterInv, ListStep, Mine, ReactStep
<1> QED  BY <1>2, <1>8, <1>9 DEF OnceInv

\* The clients and the pumper move messages from one way to the next.
LEMMA OnceClient ==
  ASSUME TypeInv, OnTheWay, OnceInv,
         SendInterrupt \/ Pump \/ \E m \in Msgs : SendMessage(m)
  PROVE  OnceInv'
<1>0. QueueTypes /\ UNCHANGED <<react, messages, before, ga>>
  BY DEF TypeInv, TypeOK, QueueTypes, SendInterrupt, Pump, SendMessage, runVars, ctx
<1>1. Arriving' \subseteq Arriving \cup {Intr}
  <2>1. CASE SendInterrupt
    <3>1. inputQ' = Append(inputQ, Intr) /\ UNCHANGED <<unsent, subQ, ga>>
      BY <2>1 DEF SendInterrupt, runVars
    <3>2. Range(inputQ') \subseteq Range(inputQ) \cup {Intr}
      BY <1>0, <3>1 DEF QueueTypes, Range
    <3> QED  BY <3>1, <3>2 DEF Arriving
  <2>2. ASSUME NEW m \in Msgs, SendMessage(m) PROVE Arriving' \subseteq Arriving
    <3>1. /\ m \in unsent /\ unsent' = unsent \ {m} /\ inputQ' = Append(inputQ, m)
          /\ UNCHANGED <<subQ, ga>>
      BY <2>2 DEF SendMessage, runVars
    <3>2. Range(inputQ') \subseteq Range(inputQ) \cup {m}
      BY <1>0, <3>1 DEF QueueTypes, Range
    <3> QED  BY <3>1, <3>2 DEF Arriving
  <2>3. CASE Pump
    <3>1. /\ inputQ # <<>> /\ inputQ' = Tail(inputQ) /\ UNCHANGED <<unsent, ga>>
          /\ subQ' = subQ \/ (Head(inputQ) # Intr /\ subQ' = Append(subQ, Head(inputQ)))
      BY <2>3 DEF Pump, runVars, client
    <3>2. Range(inputQ') \subseteq Range(inputQ) /\ Head(inputQ) \in Range(inputQ)
      BY <1>0, <3>1 DEF QueueTypes, Range
    <3>3. Range(subQ') \subseteq Range(subQ) \cup {Head(inputQ)}
      <4>1. CASE subQ' = subQ
        BY <4>1
      <4>2. CASE Head(inputQ) # Intr /\ subQ' = Append(subQ, Head(inputQ))
        <5>1. Head(inputQ) \in Msgs
          BY <1>0, <3>1, <4>2 DEF QueueTypes
        <5> QED  BY <1>0, <4>2, <5>1 DEF QueueTypes, Range
      <4> QED  BY <3>1, <4>1, <4>2
    <3> QED  BY <3>1, <3>2, <3>3 DEF Arriving
  <2> QED  BY <2>1, <2>2, <2>3
<1>2. /\ Known' = Known /\ Drained(react)' = Drained(react)
  BY <1>0 DEF Known, Drained
<1>3. Intr \notin Msgs
  BY MsgsAssumption
<1>4. ASSUME NEW x \in Msgs PROVE Rest(react[x].pend) \subseteq Msgs
  <2>1. react[x].pend \in Seq(Msgs)
    BY LocalFields DEF TypeInv, TypeOK
  <2> QED  BY <2>1 DEF Rest
<1>5. PendInv'
  BY <1>0, <1>1, <1>3, <1>4 DEF OnceInv, PendInv
<1>6. OnItsWay' \cap Msgs \subseteq OnItsWay
  BY <1>1, <1>2, <1>3 DEF OnItsWay
<1>7. ListInv'
  BY <1>2, <1>6, CleanLess DEF OnceInv, ListInv
<1> QED  BY <1>0, <1>5, <1>7 DEF OnceInv, IterInv

LEMMA OnceRun ==
  ASSUME TypeInv, OnTheWay, OnceInv, Run
  PROVE  OnceInv'
<1>0. /\ QueueTypes /\ react \in [Msgs -> Locals] /\ messages \in Seq(Entry)
      /\ None \notin Msgs /\ ga \in Msgs \cup {None}
  BY MsgsAssumption DEF TypeInv, TypeOK, QueueTypes
\* what run() does to the reacts and to the conversations
<1>1. ASSUME NEW x \in Msgs
      PROVE  /\ react'[x].pend = react[x].pend \/ react'[x].pend = <<>>
             /\ \/ react'[x].held \in {react[x].held, <<>>}
                \/ react'[x].held = <<messages>>
             /\ \/ react'[x].pc = react[x].pc /\ react'[x].iter = react[x].iter
                \/ react'[x].pc = "created"
  <2>1. CASE MessageSaved
    <3>1. /\ cur \in Msgs
          /\ react' = [react EXCEPT ![cur] = [Idle EXCEPT !.pc = "created",
                                                          !.cancelled = intrQ > 0]]
      BY <2>1 DEF TypeInv, RunFilled, MessageSaved
    <3>2. LET n == [Idle EXCEPT !.pc = "created", !.cancelled = intrQ > 0] IN
          n.pend = <<>> /\ n.held = <<>> /\ n.pc = "created"
      BY DEF Idle
    <3> QED  BY <1>0, <3>1, <3>2
  <2>2. CASE Run /\ ~MessageSaved
    <3>1. react'[x].pc = react[x].pc /\ react'[x].iter = react[x].iter
      BY <2>2, RunKeepsReacts
    <3>2. \/ UNCHANGED react \/ react' = DetachAll
          \/ react' = [react EXCEPT ![stepTask].cancelled = TRUE]
      BY <2>2 DEF Run, GetMessage, GetInterrupt, RaceInterrupted, StepCancellation,
         InterruptHandled, RaceDone, RunClosed, RaceMessage
    <3>3. LET c == [react[x] EXCEPT !.cancelled = TRUE]
              d == [react[x] EXCEPT !.held = <<messages>>] IN
          /\ c.pend = react[x].pend /\ c.held = react[x].held
          /\ d.pend = react[x].pend /\ d.held = <<messages>>
      BY <1>0 DEF Locals
    <3>4. CASE react' = DetachAll
      BY <1>0, <3>1, <3>3, <3>4 DEF DetachAll, Detached
    <3>5. CASE react' = [react EXCEPT ![stepTask].cancelled = TRUE]
      <4>1. react'[x] = react[x] \/ react'[x] = [react[x] EXCEPT !.cancelled = TRUE]
        BY <1>0, <3>5
      <4> QED  BY <3>1, <3>3, <4>1
    <3> QED  BY <3>1, <3>2, <3>4, <3>5
  <2> QED  BY <2>1, <2>2
<1>2. IterInv'
  BY <1>1 DEF OnceInv, IterInv
<1>3. Arriving' \subseteq Arriving \cup {None}
  <2>1. UNCHANGED <<unsent, inputQ>>
    BY DEF Run, GetMessage, GetInterrupt, RaceInterrupted, InterruptHandled,
           RaceDone, RunClosed, RaceMessage, MessageSaved, client, queues
  <2>2. CASE GetMessage
    <3>1. subQ # <<>> /\ ga' = Head(subQ) /\ subQ' = Tail(subQ)
      BY <2>2 DEF GetMessage
    <3>2. Head(subQ) \in Range(subQ) /\ Range(subQ') \subseteq Range(subQ)
      BY <1>0, <3>1 DEF QueueTypes, Range
    <3> QED  BY <2>1, <3>1, <3>2 DEF Arriving
  <2>3. CASE ~GetMessage
    <3>1. subQ' = subQ /\ ga' \in {ga, None}
      BY <2>3 DEF Run, GetInterrupt, RaceInterrupted, InterruptHandled,
                  RaceDone, RunClosed, RaceMessage, MessageSaved, queues
    <3> QED  BY <2>1, <3>1 DEF Arriving
  <2> QED  BY <2>2, <2>3
<1>4. ASSUME NEW x \in Msgs
      PROVE  /\ Rest(react'[x].pend) \subseteq Rest(react[x].pend) /\ Apart(react'[x].pend)
             /\ Rest(react[x].pend) \subseteq Msgs
  <2>1. react[x].pend \in Seq(Msgs) /\ Apart(react[x].pend)
    BY <1>0, LocalFields DEF OnceInv, PendInv
  <2> QED  BY <1>1, <2>1, RestEmpty DEF Rest
<1>5. PendInv'
  <2>1. \A x \in Msgs : Rest(react[x].pend) \cap Arriving = {}
    BY DEF OnceInv, PendInv
  <2>2. \A x \in Msgs : Rest(react'[x].pend) \cap Arriving' = {}
    BY <1>0, <1>3, <1>4, <2>1
  <2>3. \A x, y \in Msgs : x # y => Rest(react'[x].pend) \cap Rest(react'[y].pend) = {}
    BY <1>4 DEF OnceInv, PendInv
  <2> QED  BY <1>4, <2>2, <2>3 DEF PendInv
<1>6. OnItsWay' \cap Msgs \subseteq OnItsWay
  <2>1. Drained(react)' \subseteq Drained(react)
    BY <1>4 DEF Drained
  <2> QED  BY <1>0, <1>3, <2>1 DEF OnItsWay
<1>7. Known \subseteq Seq(Entry) /\ messages \in Known /\ before \in Known
  BY KnownTypes DEF Known
<1>8. \A q \in Known : Clean(q, OnItsWay')
  BY <1>6, CleanLess DEF OnceInv, ListInv
<1>9. \A x \in Msgs : Range(react'[x].held) \subseteq Known
  <2> SUFFICES ASSUME NEW x \in Msgs PROVE Range(react'[x].held) \subseteq Known
    OBVIOUS
  <2>1. Range(react[x].held) \subseteq Known
    BY DEF Known
  <2>2. Range(<<>>) = {} /\ Range(<<messages>>) = {messages}
    BY DEF Range
  <2> QED  BY <1>1, <1>7, <2>1, <2>2
<1>10. CASE RaceMessage
  <2>1. /\ ga \in Msgs /\ ga' = None /\ messages' = Append(messages, User(ga))
        /\ UNCHANGED <<before, react, unsent, inputQ, subQ>>
    BY <1>0, <1>10 DEF RaceMessage, client, queues
  <2>2. ga \in Arriving /\ ga \notin Arriving'
    BY <1>0, <2>1 DEF Arriving, OnTheWay, Range
  <2>3. ga \in OnItsWay \cap Msgs /\ ga \notin OnItsWay'
    <3>1. \A x \in Msgs : ga \notin Rest(react[x].pend)
      BY <2>2 DEF OnceInv, PendInv
    <3> QED  BY <2>1, <2>2, <3>1 DEF OnItsWay, Drained
  <2>4. Clean(messages', OnItsWay')
    <3>1. Clean(messages, OnItsWay)
      BY <1>7 DEF OnceInv, ListInv
    <3>2. Clean(messages', OnItsWay \ {ga})
      BY <1>0, <2>1, <2>3, <3>1, CleanUser
    <3> QED  BY <1>6, <2>3, <3>2, CleanLess
  <2>5. \A q \in Known' : q = messages' \/ q \in Known
    BY <1>7, <1>9, <2>1 DEF Known
  <2>6. ListInv'
    BY <1>8, <2>4, <2>5 DEF ListInv
  <2> QED  BY <1>2, <1>5, <2>6 DEF OnceInv
<1>11. CASE ~RaceMessage
  <2>1. messages' \in {messages, before} /\ before' \in {messages, before}
    BY <1>11 DEF Run, GetMessage, GetInterrupt, RaceInterrupted, StepCancellation, Park,
       InterruptHandled, RaceDone, RolledBack, RunClosed, MessageSaved, ctx
  <2>2. Known' \subseteq Known
    BY <1>7, <1>9, <2>1 DEF Known
  <2>3. ListInv'
    BY <1>8, <2>2 DEF ListInv
  <2> QED  BY <1>2, <1>5, <2>3 DEF OnceInv
<1> QED  BY <1>10, <1>11

LEMMA OnceInit ==
  ASSUME \A h \in Histories : \A i \in DOMAIN h : h[i].by \in Past, Init
  PROVE  OnceInv
<1>1. \A x \in Msgs : react[x].pc = "none" /\ react[x].pend = <<>> /\ react[x].held = <<>>
  BY DEF Init, Idle
<1>2. PendInv /\ IterInv
  BY <1>1, RestEmpty DEF PendInv, IterInv
<1>3. \A q \in Known : q \in Histories
  <2>1. Range(<<>>) = {}
    BY DEF Range
  <2> QED  BY <1>1, <2>1 DEF Init, Known
<1>4. ASSUME NEW q \in Histories, NEW i \in 1..Len(q), NEW x \in Msgs PROVE q[i] # User(x)
  <2>1. q \in Seq(Entry)
    BY HistoriesAssumption
  <2>2. q[i].by \in Past
    BY <2>1
  <2>3. User(x).by = x /\ x \notin Past
    BY MsgsAssumption DEF User
  <2> QED  BY <2>2, <2>3
<1>5. ListInv
  BY <1>3, <1>4 DEF ListInv, Clean, Users
<1> QED  BY <1>2, <1>5 DEF OnceInv

\* A message is taken into the conversation once, however it gets there (run()
\* takes it, or a react drains or aggregates it) and whatever is cancelled, rolled
\* back or folded; and it waits nowhere any more once it is there.
THEOREM DeliveredAtMostOnce ==
  ASSUME \A h \in Histories : \A i \in DOMAIN h : h[i].by \in Past
  PROVE  Spec => []DeliveredOnce
<1>1. Init => OnceInv
  BY OnceInit
<1>2. TypeInv /\ OnTheWay /\ OnceInv /\ [Next]_vars => OnceInv'
  <2> SUFFICES ASSUME TypeInv, OnTheWay, OnceInv, [Next]_vars PROVE OnceInv'
    OBVIOUS
  <2>1. CASE UNCHANGED vars
    <3>1. UNCHANGED <<unsent, inputQ, subQ, ga, before, messages, react>>
      BY <2>1 DEF vars, client, queues, runVars, ctx
    <3>2. UNCHANGED <<Arriving, OnItsWay, Known>>
      BY <3>1 DEF Arriving, OnItsWay, Drained, Known
    <3> QED  BY <3>1, <3>2 DEF OnceInv, PendInv, ListInv, IterInv
  <2> QED  BY <2>1, OnceClient, OnceRun, OnceReact DEF Next
<1>3. TypeInv /\ OnceInv => DeliveredOnce
  <2> SUFFICES ASSUME TypeInv, OnceInv, NEW m \in Msgs
               PROVE  LET at == {i \in DOMAIN messages : messages[i] = User(m)} IN
                      Cardinality(at) <= IF Queued(m) THEN 0 ELSE 1
    BY DEF DeliveredOnce
  <2> DEFINE at == {i \in DOMAIN messages : messages[i] = User(m)}
  <2>1. Clean(messages, OnItsWay) /\ messages \in Seq(Entry) /\ User(m) \in Users
    BY DEF TypeInv, TypeOK, OnceInv, ListInv, Known, Users
  <2>2. DOMAIN messages = 1..Len(messages)
    BY <2>1
  <2>3. CASE Queued(m)
    <3>1. m \in OnItsWay
      BY <2>3 DEF Queued, OnItsWay, Arriving, Drained, Rest
    <3>2. at = {}
      BY <2>1, <2>2, <3>1 DEF Clean
    <3> HIDE DEF at
    <3>3. Cardinality(at) = 0
      BY <3>2, FS_EmptySet
    <3> QED  BY <2>3, <3>3 DEF at
  <2>4. CASE ~Queued(m)
    <3>1. \A i, j \in at : i = j
      BY <2>1, <2>2 DEF Clean
    <3> HIDE DEF at
    <3>2. at = {} \/ \E i : at = {i}
      BY <3>1
    <3>3. Cardinality(at) = 0 \/ Cardinality(at) = 1
      BY <3>2, FS_EmptySet, FS_Singleton
    <3> QED  BY <2>4, <3>3 DEF at
  <2> QED  BY <2>3, <2>4
<1>4. Init => OnTheWay /\ ToolBracket
  BY WayInit, BracketInit
<1>5. TypeInv /\ OnTheWay /\ ToolBracket /\ [Next]_vars => OnTheWay' /\ ToolBracket'
  BY BracketStep
<1> QED  BY <1>1, <1>2, <1>3, <1>4, <1>5, TypeInvariance, PTL DEF Spec
=============================================================================
