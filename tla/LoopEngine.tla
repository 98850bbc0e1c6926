------------------------------ MODULE LoopEngine ------------------------------
(***************************************************************************)
(* LoopEngine (core/loop/engine.py): the ReAct loop of one session.        *)
(*                                                                         *)
(* Three kinds of asyncio tasks share the engine object: the pumper, which *)
(* splits the session's input queue into messages and interrupts; run(),   *)
(* which waits for a message, an interrupt or the end of the current step; *)
(* and the react steps that run() spawns, one per message it takes while   *)
(* waiting.  A react is named after that message.  The event loop switches *)
(* tasks only where a coroutine really suspends, so an action is the code  *)
(* from one suspension point to the next, and a "pc" names the point where *)
(* the coroutine is suspended.                                             *)
(*                                                                         *)
(* Abstractions: message texts, metrics, spans and step numbers are left   *)
(* out; the LLM, the tools and the summarizer are nondeterministic; the    *)
(* size test of the L2 fold is a free choice; a checkpoint line lands when *)
(* the coroutine that appends it resumes.  "durable" is what               *)
(* load_messages would rebuild from the log.                               *)
(***************************************************************************)
EXTENDS Compression, Functions

CONSTANTS
  Msgs,           \* messages (kind "message" or "system") that may arrive
  Past,           \* messages of turns before a restart
  None,           \* no message
  Intr,           \* an interrupt event in the session's input queue
  MaxInterrupts,  \* bound: interrupts sent
  MaxSteps,       \* max_steps: LLM turns per react
  MaxCalls,       \* bound: tool calls in one LLM turn
  MaxReminders,   \* the no-tool-call reminder's limit (3 in the code)
  Pipelined,      \* TRUE: clients may send while a turn is in progress
  Histories       \* conversations a restart may restore

ASSUME MsgsAssumption == None \notin Msgs /\ Intr \notin Msgs /\ IsFiniteSet(Msgs) /\ Msgs \cap Past = {}
ASSUME BoundsAssumption ==
  /\ MaxInterrupts \in Nat /\ MaxSteps \in Nat /\ MaxReminders \in Nat
  /\ MaxCalls \in Nat /\ Pipelined \in BOOLEAN

(* Messages of the conversation: a user message, a system note a react     *)
(* injects (also of role "user"), an assistant message with n tool calls,  *)
(* and the result of the n-th call of an assistant message.                *)
Entry == [role : {"user", "assistant", "tool"}, by : Msgs \cup Past, step : Nat, n : Nat]

ASSUME HistoriesAssumption == Histories \subseteq Seq(Entry)

User(m)            == [role |-> "user", by |-> m, step |-> 0, n |-> 0]
Note(m, i)         == [role |-> "user", by |-> m, step |-> i, n |-> 0]
Assistant(m, i, n) == [role |-> "assistant", by |-> m, step |-> i, n |-> n]
ToolMsg(m, i, n)   == [role |-> "tool", by |-> m, step |-> i, n |-> n]

VARIABLES
  unsent,      \* messages no client has sent yet
  intrLeft,    \* interrupts the clients may still send
  ui,          \* what the client last saw or did: the state of the turn
  inputQ,      \* the SessionLoop's input queue
  subQ,        \* sub_queue: messages behind the pumper
  intrQ,       \* length of interrupt_queue
  runPc,       \* where run() is suspended
  ga,          \* the message t_a has taken from sub_queue, or None
  gb,          \* t_b has taken an interrupt
  cur,         \* the message run() is saving
  stepTask,    \* _step_task: the current react, or None
  before,      \* _msgs_before, the rollback snapshot
  runOpen,     \* a trace run is open (_run_id)
  messages,    \* _messages, the conversation
  durable,     \* the conversation the checkpoint log replays to
  reminders,   \* _no_tool_reminder_count
  react,       \* the react steps and their local state
  openTools,   \* calls whose ToolStart was emitted and ToolEnd was not
  lost,        \* history: messages _race_get took and dropped
  overlapped   \* history: run() replaced a step whose result it had not taken

client == <<unsent, intrLeft>>
queues == <<inputQ, subQ, intrQ>>
runVars == <<runPc, ga, gb, cur, stepTask, before, runOpen, lost, overlapped>>
ctx == <<messages, durable>>
vars == <<client, ui, queues, runVars, ctx, reminders, react, openTools>>

Idle == [pc |-> "none", iter |-> 0, calls |-> <<>>, call |-> 0, total |-> 0,
         pend |-> <<>>, waitIo |-> FALSE, res |-> "none", foldAt |-> 0,
         held |-> <<>>, cancelled |-> FALSE]

Init ==
  /\ unsent = Msgs /\ intrLeft = MaxInterrupts /\ ui = "idle"
  /\ inputQ = <<>> /\ subQ = <<>> /\ intrQ = 0
  /\ runPc = "race" /\ ga = None /\ gb = FALSE /\ cur = None
  /\ stepTask = None /\ runOpen = FALSE /\ lost = {} /\ overlapped = FALSE
  /\ durable \in Histories /\ messages = durable /\ before = durable   \* _restore
  /\ reminders = 0 /\ openTools = {}
  /\ react = [m \in Msgs |-> Idle]

-----------------------------------------------------------------------------
(* The clients, through SessionManager.dispatch_inbound, and the pumper.   *)

TurnOver == {"idle", "final"}       \* the states in which a polite client sends

SendMessage(m) ==
  /\ m \in unsent
  /\ Pipelined \/ ui \in TurnOver
  /\ unsent' = unsent \ {m}
  /\ inputQ' = Append(inputQ, m)
  /\ ui' = "sent"
  /\ UNCHANGED <<intrLeft, subQ, intrQ, runVars, ctx, reminders, react, openTools>>

SendInterrupt ==
  /\ intrLeft > 0
  /\ intrLeft' = intrLeft - 1
  /\ inputQ' = Append(inputQ, Intr)
  /\ UNCHANGED <<unsent, ui, subQ, intrQ, runVars, ctx, reminders, react, openTools>>

\* Bug form of Pump: one queue for everything (the design interrupt.md replaced).
Pump_OneQueue ==
  /\ inputQ # <<>>
  /\ inputQ' = Tail(inputQ)
  /\ IF Head(inputQ) = Intr /\ stepTask = None
     THEN intrQ' = intrQ + 1 /\ subQ' = subQ
     ELSE subQ' = Append(subQ, Head(inputQ)) /\ intrQ' = intrQ
  /\ UNCHANGED <<client, ui, runVars, ctx, reminders, react, openTools>>

Pump ==
  /\ inputQ # <<>>
  /\ inputQ' = Tail(inputQ)
  /\ IF Head(inputQ) = Intr
     THEN intrQ' = intrQ + 1 /\ subQ' = subQ
     ELSE subQ' = Append(subQ, Head(inputQ)) /\ intrQ' = intrQ
  /\ UNCHANGED <<client, ui, runVars, ctx, reminders, react, openTools>>

-----------------------------------------------------------------------------
(* The react steps.  Operators that take r are the tail of an atomic       *)
(* segment of react m, r being its local state so far.                     *)

Live(m, pc) == react[m].pc = pc /\ ~react[m].cancelled

Done(m) == react[m].pc = "done"
Running(m) == react[m].pc \notin {"none", "done"}

Ended(why) == [Idle EXCEPT !.pc = "done", !.res = why]
Set(m, r) == react' = [react EXCEPT ![m] = r]

Call(m) == [by |-> m, step |-> react[m].iter, n |-> react[m].call]

\* _messages is bound to another list while a fold awaits the summary: the
\* fold keeps working on the list object it was given.
Detached(x) == IF react[x].pc = "fold" /\ react[x].held = <<>>
               THEN [react[x] EXCEPT !.held = <<messages>>] ELSE react[x]
DetachAll == [x \in Msgs |-> Detached(x)]

\* L2 compression if the context is large, then assemble and call the LLM.
BeginTurn(m, r, msgs) ==
  /\ messages' = msgs
  /\ \/ ui' = "thinking" /\ Set(m, [r EXCEPT !.pc = "stream", !.pend = <<>>])
     \/ /\ FoldEnd(msgs) > 0
        /\ ui' = "compressing"
        /\ Set(m, [r EXCEPT !.pc = "fold", !.pend = <<>>,
                            !.foldAt = FoldEnd(msgs), !.held = <<>>])

\* Bug form of AfterDrain: the drained messages stay in the queue.
AfterDrain_Peek == subQ

AfterDrain == <<>>

\* The top of the loop: the step limit, C2, the drain of sub_queue.
LoopHead(m, r, msgs) ==
  LET s == [r EXCEPT !.iter = @ + 1] IN
  \/ /\ r.iter = MaxSteps
     /\ messages' = msgs /\ Set(m, Ended("maxsteps"))
     /\ UNCHANGED <<subQ, intrQ, ui>>
  \/ /\ r.iter < MaxSteps /\ intrQ > 0
     /\ intrQ' = intrQ - 1
     /\ messages' = msgs /\ Set(m, Ended("interrupted"))
     /\ UNCHANGED <<subQ, ui>>
  \/ /\ r.iter < MaxSteps /\ intrQ = 0 /\ subQ # <<>>
     /\ subQ' = AfterDrain
     /\ messages' = Append(msgs, User(Head(subQ)))
     /\ Set(m, [s EXCEPT !.pc = "dsave", !.pend = subQ])
     /\ UNCHANGED <<intrQ, ui>>
  \/ /\ r.iter < MaxSteps /\ intrQ = 0 /\ subQ = <<>>
     /\ BeginTurn(m, s, msgs)
     /\ UNCHANGED <<subQ, intrQ>>

\* Bug form of Written: the tool result of a call is not appended to the log.
Written_NoToolResult(m) ==
  LET r == react[m] IN
  CASE r.pc \in {"dsave", "fdsave"} -> Append(durable, User(Head(r.pend)))
    [] r.pc = "fsave"               -> Append(durable, Assistant(m, r.iter, 0))
    [] r.pc = "csave"               -> Append(durable, Assistant(m, r.iter, r.total))
    [] r.pc = "ksave"               -> r.held[1]
    [] OTHER                        -> durable

\* The checkpoint append react m is suspended in, applied to the log.
Written(m) ==
  LET r == react[m] IN
  CASE r.pc \in {"dsave", "fdsave"} -> Append(durable, User(Head(r.pend)))
    [] r.pc = "fsave"               -> Append(durable, Assistant(m, r.iter, 0))
    [] r.pc = "csave"               -> Append(durable, Assistant(m, r.iter, r.total))
    [] r.pc = "tsave"               -> Append(durable, ToolMsg(m, r.iter, r.call))
    [] r.pc = "ksave"               -> r.held[1]
    [] OTHER                        -> durable

\* The task spawned by run() gets its first time slice.
ReactStart(m) ==
  /\ Live(m, "created")
  /\ LoopHead(m, react[m], messages)
  /\ UNCHANGED <<client, inputQ, runVars, durable, reminders, openTools>>

\* A message drained at the top of the loop is saved; then the next, if any.
DrainSaved(m) ==
  /\ Live(m, "dsave")
  /\ durable' = Written(m)
  /\ LET r == react[m]
         rest == Tail(r.pend) IN
     IF rest # <<>>
     THEN /\ messages' = Append(messages, User(Head(rest)))
          /\ Set(m, [r EXCEPT !.pend = rest]) /\ UNCHANGED ui
     ELSE BeginTurn(m, r, messages)
  /\ UNCHANGED <<client, queues, runVars, reminders, openTools>>

\* The summarizer answers, or fails or returns nothing and the fold is given up.
FoldReturns(m) ==
  /\ Live(m, "fold")
  /\ LET r == react[m]
         base == IF r.held = <<>> THEN messages ELSE r.held[1]
         short == Folded(base, r.foldAt) IN
     \/ /\ messages' = short
        /\ react' = [DetachAll EXCEPT ![m] = [r EXCEPT !.pc = "ksave", !.held = <<short>>]]
        /\ UNCHANGED ui
     \/ /\ messages' = base
        /\ react' = [(IF r.held = <<>> THEN react ELSE DetachAll)
                     EXCEPT ![m] = [r EXCEPT !.pc = "stream", !.held = <<>>]]
        /\ ui' = "thinking"
  /\ UNCHANGED <<client, queues, runVars, durable, reminders, openTools>>

\* The compact record is saved.
CompactSaved(m) ==
  /\ Live(m, "ksave")
  /\ durable' = Written(m)
  /\ ui' = "thinking"
  /\ Set(m, [react[m] EXCEPT !.pc = "stream", !.held = <<>>])
  /\ UNCHANGED <<client, queues, runVars, messages, reminders, openTools>>

\* C3: a chunk arrives while an interrupt is queued.
StreamInterrupted(m) ==
  /\ Live(m, "stream") /\ intrQ > 0
  /\ intrQ' = intrQ - 1
  /\ Set(m, Ended("interrupted"))
  /\ UNCHANGED <<client, ui, inputQ, subQ, runVars, ctx, reminders, openTools>>

\* The stream ends with a final message: text, or nothing usable.
StreamText(m) ==
  /\ Live(m, "stream")
  /\ messages' = Append(messages, Assistant(m, react[m].iter, 0))
  /\ Set(m, [react[m] EXCEPT !.pc = "fsave"])
  /\ UNCHANGED <<client, ui, queues, runVars, durable, reminders, openTools>>

\* The stream ends with n tool calls.
StreamCalls(m) ==
  /\ Live(m, "stream")
  /\ \E n \in 1..MaxCalls : \E calls \in [1..n -> {"tool", "wait_io"}] :
       /\ messages' = Append(messages, Assistant(m, react[m].iter, n))
       /\ Set(m, [react[m] EXCEPT !.pc = "csave", !.calls = calls, !.call = 0,
                                  !.total = n, !.waitIo = FALSE])
  /\ UNCHANGED <<client, ui, queues, runVars, durable, reminders, openTools>>

\* The turn produced reasoning only: a reminder note, and the next turn.
StreamReasoning(m) ==
  /\ Live(m, "stream") /\ reminders < MaxReminders
  /\ reminders' = reminders + 1
  /\ LoopHead(m, react[m], Append(messages, Note(m, react[m].iter)))
  /\ UNCHANGED <<client, inputQ, runVars, durable, openTools>>

\* retry_stream gives up on a network error: a system note, and "" returned.
StreamUnreachable(m) ==
  /\ Live(m, "stream")
  /\ messages' = Append(messages, Note(m, react[m].iter))
  /\ Set(m, Ended("neterr"))
  /\ UNCHANGED <<client, ui, queues, runVars, durable, reminders, openTools>>

\* Any other exception ends the react.
StreamFatal(m) ==
  /\ Live(m, "stream")
  /\ Set(m, Ended("error"))
  /\ UNCHANGED <<client, ui, queues, runVars, ctx, reminders, openTools>>

\* The final answer is saved; messages that came meanwhile are aggregated.
FinalSaved(m) ==
  /\ Live(m, "fsave")
  /\ durable' = Written(m)
  /\ \/ /\ subQ = <<>>
        /\ ui' = "wait_io" /\ Set(m, Ended("text"))
        /\ UNCHANGED <<subQ, messages>>
     \/ /\ subQ # <<>>
        /\ subQ' = AfterDrain
        /\ messages' = Append(messages, User(Head(subQ)))
        /\ Set(m, [react[m] EXCEPT !.pc = "fdsave", !.pend = subQ])
        /\ UNCHANGED ui
  /\ UNCHANGED <<client, inputQ, intrQ, runVars, reminders, openTools>>

AggregateSaved(m) ==
  /\ Live(m, "fdsave")
  /\ durable' = Written(m)
  /\ LET r == react[m]
         rest == Tail(r.pend) IN
     IF rest # <<>>
     THEN /\ messages' = Append(messages, User(Head(rest)))
          /\ Set(m, [r EXCEPT !.pend = rest])
          /\ UNCHANGED <<subQ, intrQ, ui>>
     ELSE LoopHead(m, [r EXCEPT !.pend = <<>>], messages)
  /\ UNCHANGED <<client, inputQ, runVars, reminders, openTools>>

\* The next call of the turn.  wait_io runs to its end at once; any other tool
\* is suspended in execute() between its ToolStart and its ToolEnd.
NextCall(m) ==
  LET r == react[m]
      s == [r EXCEPT !.calls = Tail(@), !.call = @ + 1] IN
  \/ /\ Head(r.calls) = "tool"
     /\ openTools' = openTools \cup {[by |-> m, step |-> r.iter, n |-> r.call + 1]}
     /\ Set(m, [s EXCEPT !.pc = "exec"])
     /\ UNCHANGED messages
  \/ /\ Head(r.calls) = "wait_io"
     /\ messages' = Append(messages, ToolMsg(m, r.iter, r.call + 1))
     /\ Set(m, [s EXCEPT !.pc = "tsave", !.waitIo = TRUE])
     /\ UNCHANGED openTools

\* Bug form of DispatchUi: text that came with the calls is published as final.
DispatchUi_Final == "final"

DispatchUi == "tooling"

CallsSaved(m) ==
  /\ Live(m, "csave")
  /\ durable' = Written(m)
  /\ ui' = DispatchUi
  /\ NextCall(m)
  /\ UNCHANGED <<client, queues, runVars, reminders>>

\* execute() returns or raises: ToolEnd, and the result joins the context.
ToolReturns(m) ==
  /\ Live(m, "exec")
  /\ openTools' = openTools \ {Call(m)}
  /\ messages' = Append(messages, ToolMsg(m, react[m].iter, react[m].call))
  /\ Set(m, [react[m] EXCEPT !.pc = "tsave"])
  /\ UNCHANGED <<client, ui, queues, runVars, durable, reminders>>

ToolSaved(m) ==
  /\ Live(m, "tsave")
  /\ durable' = Written(m)
  /\ \/ /\ react[m].calls # <<>>
        /\ NextCall(m)
        /\ UNCHANGED <<subQ, intrQ, ui>>
     \/ /\ react[m].calls = <<>> /\ react[m].waitIo
        /\ ui' = "wait_io" /\ Set(m, Ended("text"))
        /\ UNCHANGED <<subQ, intrQ, messages, openTools>>
     \/ /\ react[m].calls = <<>> /\ ~react[m].waitIo
        /\ LoopHead(m, react[m], messages)
        /\ UNCHANGED openTools
  /\ UNCHANGED <<client, inputQ, runVars, reminders>>

\* Bug form of ToolsAfterCancel: the cancelled tool gets no ToolEnd.
ToolsAfterCancel_NoToolEnd(m) == openTools

\* A tool cancelled in execute() still gets a ToolEnd.
ToolsAfterCancel(m) ==
  IF react[m].pc = "exec" THEN openTools \ {Call(m)} ELSE openTools

\* CancelledError reaches the suspended react.  Of a checkpoint append it was
\* waiting for, the line may or may not be written.
CancelDelivered(m) ==
  /\ Running(m) /\ react[m].cancelled
  /\ openTools' = ToolsAfterCancel(m)
  /\ durable' \in {durable, Written(m)}
  /\ Set(m, Ended("cancelled"))
  /\ UNCHANGED <<client, ui, queues, runVars, messages, reminders>>

-----------------------------------------------------------------------------
(* run(): the race, the interrupt handler, the end of a step.              *)

Aborted == {"interrupted", "cancelled", "error"}   \* results that are rolled back

\* Back to the top of the loop with no step: C1 swallows what interrupts wait.
Park(state) ==
  /\ runPc' = "race" /\ stepTask' = None
  /\ intrQ' = 0
  /\ ui' = IF intrQ > 0 THEN "idle" ELSE state

\* Bug form of StepCancellation: idle is reported without waiting for the end.
StepCancellation_NoWait ==
  /\ before' = messages
  /\ react' = [react EXCEPT ![stepTask].cancelled = TRUE]
  /\ runPc' = "race" /\ stepTask' = None /\ ui' = "idle"
  /\ UNCHANGED intrQ

\* handle_interrupt with a step that runs: snapshot, cancel, wait for its end.
StepCancellation ==
  /\ before' = messages
  /\ react' = [react EXCEPT ![stepTask].cancelled = TRUE]
  /\ runPc' = "hwait"
  /\ UNCHANGED <<stepTask, intrQ, ui>>

GetMessage ==                     \* t_a
  /\ runPc = "race" /\ ga = None /\ subQ # <<>>
  /\ ga' = Head(subQ) /\ subQ' = Tail(subQ)
  /\ UNCHANGED <<client, ui, inputQ, intrQ, runPc, gb, cur, stepTask, before,
                 runOpen, lost, overlapped, ctx, reminders, react, openTools>>

GetInterrupt ==                   \* t_b
  /\ runPc = "race" /\ ~gb /\ intrQ > 0
  /\ gb' = TRUE /\ intrQ' = intrQ - 1
  /\ UNCHANGED <<client, ui, inputQ, subQ, runPc, ga, cur, stepTask, before,
                 runOpen, lost, overlapped, ctx, reminders, react, openTools>>

StepRunning == stepTask # None /\ Running(stepTask)
StepDone    == stepTask # None /\ Done(stepTask)

\* The interrupt wins every tie.
RaceInterrupted ==
  /\ runPc = "race" /\ gb
  /\ gb' = FALSE /\ ga' = None
  /\ lost' = lost \cup ({ga} \ {None})
  /\ \/ StepRunning /\ StepCancellation
     \/ ~StepRunning /\ Park("idle") /\ UNCHANGED <<before, react>>
  /\ UNCHANGED <<client, inputQ, subQ, cur, runOpen, overlapped, ctx,
                 reminders, openTools>>

\* wait_for returns: the cancelled step has ended.
InterruptHandled ==
  /\ runPc = "hwait" /\ Done(stepTask)
  /\ Park("idle")
  /\ UNCHANGED <<client, inputQ, subQ, ga, gb, cur, before, runOpen, lost,
                 overlapped, ctx, reminders, react, openTools>>


DoneWins == ~gb /\ StepDone

\* Bug form of RolledBack: what the failed step has written stays.
RolledBack_Not == messages

RolledBack == before

\* The step is done: its result is published or rolled back, then end_run.
RaceDone ==
  /\ runPc = "race" /\ DoneWins
  /\ ga' = None /\ gb' = FALSE
  /\ lost' = lost \cup ({ga} \ {None})
  /\ runPc' = "closing"
  /\ \/ /\ react[stepTask].res \in Aborted
        /\ messages' = RolledBack /\ react' = DetachAll
        /\ UNCHANGED ui
     \/ /\ react[stepTask].res \notin Aborted
        /\ ui' = "final"
        /\ UNCHANGED <<messages, react>>
  /\ UNCHANGED <<client, queues, cur, stepTask, before, runOpen, overlapped,
                 durable, reminders, openTools>>

\* Bug form of ClosedUi: the error path forgets the idle.
ClosedUi_NoIdle(res) == IF res = "cancelled" THEN "idle" ELSE ui

ClosedUi(res) == IF res \in Aborted THEN "idle" ELSE ui

\* end_run has saved the trace.
RunClosed ==
  /\ runPc = "closing"
  /\ runOpen' = FALSE
  /\ Park(ClosedUi(react[stepTask].res))
  /\ UNCHANGED <<client, inputQ, subQ, ga, gb, cur, before, lost, overlapped,
                 ctx, reminders, react, openTools>>

\* A message was taken, whether a step runs or not.
RaceMessage ==
  /\ runPc = "race" /\ ga # None /\ ~gb /\ ~StepDone
  /\ messages' = Append(messages, User(ga))
  /\ cur' = ga /\ ga' = None
  /\ runPc' = "msave"
  /\ UNCHANGED <<client, ui, queues, gb, stepTask, before, runOpen, lost,
                 overlapped, durable, reminders, react, openTools>>

\* The message is saved: snapshot, open the trace run, spawn a react; C1.
MessageSaved ==
  /\ runPc = "msave"
  /\ durable' = Append(durable, User(cur))
  /\ before' = messages
  /\ runOpen' = TRUE
  /\ overlapped' = (overlapped \/ stepTask # None)
  /\ stepTask' = cur /\ cur' = None
  /\ react' = [react EXCEPT ![cur] = [Idle EXCEPT !.pc = "created", !.cancelled = intrQ > 0]]
  /\ runPc' = IF intrQ > 0 THEN "hwait" ELSE "race"
  /\ intrQ' = 0
  /\ UNCHANGED <<client, ui, inputQ, subQ, ga, gb, lost, messages, reminders, openTools>>

-----------------------------------------------------------------------------
Run == GetMessage \/ GetInterrupt \/ RaceInterrupted \/ InterruptHandled
       \/ RaceDone \/ RunClosed \/ RaceMessage \/ MessageSaved

Stream(m) == StreamText(m) \/ StreamCalls(m) \/ StreamReasoning(m)
             \/ StreamUnreachable(m) \/ StreamFatal(m)

Save(m) == ReactStart(m) \/ DrainSaved(m) \/ CompactSaved(m) \/ FinalSaved(m)
           \/ AggregateSaved(m) \/ CallsSaved(m) \/ ToolSaved(m)

React(m) == Save(m) \/ Stream(m) \/ StreamInterrupted(m) \/ FoldReturns(m)
            \/ ToolReturns(m) \/ CancelDelivered(m)

Next == SendInterrupt \/ Pump \/ Run \/ \E m \in Msgs : SendMessage(m) \/ React(m)

Spec == Init /\ [][Next]_vars

\* The event loop runs every task that is ready and the checkpoint's worker
\* thread finishes; nothing is assumed of the LLM, the tools or the clients.
Scheduling ==
  /\ WF_vars(Pump) /\ WF_vars(GetMessage) /\ WF_vars(GetInterrupt)
  /\ WF_vars(RaceInterrupted \/ RaceDone \/ RaceMessage)
  /\ WF_vars(InterruptHandled) /\ WF_vars(RunClosed) /\ WF_vars(MessageSaved)
  /\ \A m \in Msgs : WF_vars(Save(m)) /\ WF_vars(CancelDelivered(m))

\* The LLM, the summarizer and the tools answer in the end (their clients have
\* timeouts).
Answering ==
  \A m \in Msgs : WF_vars(Stream(m)) /\ WF_vars(FoldReturns(m)) /\ WF_vars(ToolReturns(m))

FairSpec == Spec /\ Scheduling
AnsweringSpec == FairSpec /\ Answering

-----------------------------------------------------------------------------
(* Properties.                                                             *)

CallIds == [by : Msgs, step : Nat, n : Nat]
Results == {"none", "text", "maxsteps", "neterr", "interrupted", "cancelled", "error"}
Locals == [pc : {"none", "created", "dsave", "fold", "ksave", "stream", "fsave",
                 "fdsave", "csave", "exec", "tsave", "done"},
           iter : Nat, calls : Seq({"tool", "wait_io"}), call : Nat, total : Nat,
           pend : Seq(Msgs), waitIo : BOOLEAN,
           res : Results,
           foldAt : Nat, held : Seq(Seq(Entry)), cancelled : BOOLEAN]

\* Types of the engine's state: in particular only messages, never interrupts,
\* pass the pumper into sub_queue and from there into the conversation.
TypeOK ==
  /\ unsent \subseteq Msgs /\ intrLeft \in Nat
  /\ ui \in {"idle", "final", "sent", "compressing", "thinking", "tooling", "wait_io"}
  /\ inputQ \in Seq(Msgs \cup {Intr}) /\ subQ \in Seq(Msgs) /\ intrQ \in Nat
  /\ runPc \in {"race", "msave", "hwait", "closing"}
  /\ ga \in Msgs \cup {None} /\ gb \in BOOLEAN /\ cur \in Msgs \cup {None}
  /\ stepTask \in Msgs \cup {None} /\ before \in Seq(Entry) /\ runOpen \in BOOLEAN
  /\ messages \in Seq(Entry) /\ durable \in Seq(Entry) /\ reminders \in Nat
  /\ react \in [Msgs -> Locals]
  /\ openTools \subseteq CallIds
  /\ lost \subseteq Msgs /\ overlapped \in BOOLEAN

\* Every ToolStart is closed by exactly one ToolEnd: the tool blocks open in
\* the UI are exactly the calls some react is executing now, also after an
\* interrupt that cancels the react inside execute() (engine.py 837-893).
ToolBracket ==
  openTools = {Call(m) : m \in {x \in Msgs : react[x].pc = "exec"}}

\* A conversation the LLM API accepts: an assistant message with tool calls is
\* followed by the results of its calls, in order, and a result stands nowhere
\* else.
WellFormed(msgs) ==
  \A i \in DOMAIN msgs :
    LET e == msgs[i] IN
    /\ e.role = "assistant" =>
         \A k \in 1..e.n : i + k \in DOMAIN msgs /\ msgs[i + k] = ToolMsg(e.by, e.step, k)
    /\ e.role = "tool" =>
         /\ i > e.n /\ msgs[i - e.n].role = "assistant"
         /\ msgs[i - e.n].by = e.by /\ msgs[i - e.n].step = e.step /\ msgs[i - e.n].n >= e.n

\* Whenever a react waits for the LLM, the conversation it works on is
\* well-formed: no dangling tool call, whatever was drained, reminded, folded
\* (compression.py 109-129) or restored before.
LLMSeesWellFormed ==
  \A m \in Msgs : react[m].pc = "stream" => WellFormed(messages)

\* The messages that memory and log are to agree on: all but the system notes, which
\* are not written, and what the steps in gone have said, which memory forgets.
Lasting(msgs, gone) ==
  {i \in DOMAIN msgs : msgs[i].step = 0 \/ (msgs[i].role # "user" /\ msgs[i].by \notin gone)}
FromEnd(msgs, gone, i) == Cardinality({j \in Lasting(msgs, gone) : j >= i})

\* The lasting messages of q are the last ones of p.
EndsWith(p, q, gone) ==
  /\ Cardinality(Lasting(q, gone)) <= Cardinality(Lasting(p, gone))
  /\ \A i \in Lasting(p, gone), j \in Lasting(q, gone) :
       FromEnd(p, gone, i) = FromEnd(q, gone, j) => p[i] = q[j]

RolledBackSteps == {m \in Msgs : react[m].res \in Aborted}

\* When no step runs, a restart would rebuild the conversation of the running engine,
\* but for what rolled-back steps have left in the log; and only a fold of such a step,
\* which memory takes back and the log does not, makes the log reach less far back
\* (checkpoint.py 44-58 against the appends and the roll-back of engine.py).
ReplayAgrees ==
  runPc \in {"race", "closing"} /\ (\A m \in Msgs : ~Running(m)) =>
    /\ EndsWith(messages, durable, RolledBackSteps)
    /\ RolledBackSteps = {} =>
         Cardinality(Lasting(durable, {})) = Cardinality(Lasting(messages, {}))

\* At most one react works on the conversation (engine.py 334: a message that
\* comes while a step runs is aggregated by that step).
SingleReact ==
  \A m, n \in Msgs : Running(m) /\ Running(n) => m = n

Queued(m) ==
  \/ m \in Range(inputQ) \cup Range(subQ) \cup {ga}
  \/ \E x \in Msgs : \E i \in 2..Len(react[x].pend) : react[x].pend[i] = m

\* A message is taken into the conversation once: it never stands there twice
\* and is not in a queue any more once it is there.
DeliveredOnce ==
  \A m \in Msgs :
    LET at == {i \in DOMAIN messages : messages[i] = User(m)} IN
    Cardinality(at) <= IF Queued(m) THEN 0 ELSE 1

\* When the engine tells the UI it is idle, nothing runs any more: the
\* cancelled or finished step is really over (engine.py 197-217, 185), unless
\* an earlier step was orphaned.
IdleMeansStopped ==
  [][ui # "idle" /\ ui' = "idle" /\ ~overlapped' => \A m \in Msgs : ~Running(m)']_vars

InterruptPending == intrQ > 0 \/ gb \/ Intr \in Range(inputQ)


\* A message sent when the turn is over is answered: by a final message, or by
\* idle after an error.
MessageAnswered == ui = "sent" ~> ui \in TurnOver

\* The turn a client that takes turns is in: its message is still on its way to
\* run(), or is saved, or its step works, or failed.
TurnPhase ==
  CASE ui \in TurnOver -> "over"
    [] ui \notin TurnOver /\ (inputQ # <<>> \/ subQ # <<>> \/ ga # None) -> "asked"
    [] OTHER -> IF runPc = "closing" THEN "failed" ELSE "working"

TurnMessage ==
  CASE TurnPhase = "over"  -> None
    [] TurnPhase = "asked" -> IF inputQ # <<>> THEN Head(inputQ)
                              ELSE IF subQ # <<>> THEN Head(subQ) ELSE ga
    [] OTHER               -> IF cur # None THEN cur ELSE stepTask

OwnEntries(m) == [role : {"user", "assistant", "tool"}, by : {m}, step : Nat \ {0}, n : Nat]

\* For clients that take turns the engine does what module SessionTurns says, from
\* the question to the answer or the error: one question at a time, a conversation
\* that only its turn touches, and a roll-back to exactly what the step began with
\* (engine.py 293-331, 197-217, 366-383).
Session == INSTANCE SessionTurns WITH
  phase   <- TurnPhase,
  turn    <- TurnMessage,
  unasked <- unsent,
  conv    <- messages,
  kept    <- IF cur # None THEN messages ELSE before,
  Said    <- [m \in Msgs |-> User(m)],
  Own     <- [m \in Msgs |-> OwnEntries(m)]
ImplementsSession == Session!Spec

\* engine.py 225: a get task that loses the race is cancelled, its data not consumed and
\* not lost.
LoserKeepsItsData == lost = {}
=============================================================================
