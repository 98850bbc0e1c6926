--------------------------- MODULE TaskLifeProofs ---------------------------
(***************************************************************************)
(* AsyncTask implements TaskLife, for any set of tasks, however nested.    *)
(* The status on disk is the life of the task.  It agrees with the one in  *)
(* memory but for the bash task shutdown() waits for, and nothing works    *)
(* for a task that was never forked: so what ends a task finds it running  *)
(* on disk, and what was told is never overwritten.                        *)
(***************************************************************************)
EXTENDS AsyncTaskProofs

(* Only the task shutdown() waits for is behind on disk.                   *)
SavedInv ==
  \A t \in Tasks :
    \/ disk[t] = status[t]
    \/ /\ up = "stopping" /\ stopping = t
       /\ status[t] = "cancelled" /\ disk[t] = "running"

(* Nobody works for a task that was not started.                           *)
ForkedInv ==
  \A t \in Tasks : status[t] = "none" =>
    canceller[t] = "none" /\ bridge[t] = "none" /\ run[t] = "none" /\ stopping # t

LifeInv == IInv /\ SavedInv /\ ForkedInv

(* What a step of AsyncTask is in TaskLife.                                *)
LifeStep == Life!Next \/ UNCHANGED <<disk, told>>

-----------------------------------------------------------------------------
LEMMA LifeInit == Init => LifeInv /\ Life!Init
<1>1. Init => SavedInv /\ ForkedInv /\ Life!Init
  BY TasksAssumption DEF Init, SavedInv, ForkedInv, Life!Init
<1> QED  BY <1>1, InitInv DEF LifeInv

\* An action that starts nothing and leaves the records alone is a stutter.
LEMMA RecordsAlone ==
  ASSUME LifeInv, UNCHANGED <<up, stopping, status, disk, told>>
  PROVE  SavedInv' /\ LifeStep
BY DEF LifeInv, SavedInv, LifeStep

\* _finish: the end of a running task, or nothing.
LEMMA FinishLife ==
  ASSUME LifeInv, NEW t \in Tasks, NEW s \in Life!Outcomes, Finish(t, s), status[t] # "none",
         UNCHANGED <<up, stopping>>
  PROVE  /\ SavedInv' /\ LifeStep
         /\ \A x \in Tasks : status'[x] = "none" => status[x] = "none"
<1>1. CASE status[t] \in Terminal /\ UNCHANGED <<record, child>>
  <2>1. UNCHANGED <<status, disk, told>>
    BY <1>1 DEF record
  <2> QED  BY <2>1, RecordsAlone
<1>2. CASE status[t] \notin Terminal /\ Ends(t, s) /\ disk' = [disk EXCEPT ![t] = s]
  <2>1. status \in [Tasks -> Statuses] /\ disk \in [Tasks -> Statuses] /\ told[t] = <<>>
        /\ told \in [Tasks -> {<<>>} \cup {<<x>> : x \in Terminal}]
    BY <1>2 DEF LifeInv, IInv, RecordInv
  <2>2. status[t] = "running" /\ disk[t] = "running"
    BY <1>2, <2>1 DEF LifeInv, SavedInv, Statuses, Terminal
  <2>3. told' = [told EXCEPT ![t] = <<s>>]
    BY <1>2, <2>1 DEF Ends
  <2>4. Life!Ended(t, s)
    BY <1>2, <2>2, <2>3 DEF Life!Ended
  <2>5. LifeStep
    BY <2>4 DEF Life!Next, LifeStep
  <2>6. SavedInv'
    BY <1>2, <2>1 DEF LifeInv, SavedInv, Ends
  <2>7. \A x \in Tasks : status'[x] = "none" => status[x] = "none"
    BY <1>2, <2>1, <2>2 DEF Ends, Life!Outcomes
  <2> QED  BY <2>5, <2>6, <2>7
<1> QED  BY <1>1, <1>2 DEF Finish

-----------------------------------------------------------------------------
LEMMA StartLife ==
  ASSUME LifeInv, NEW t \in Tasks, Start(t)
  PROVE  SavedInv' /\ ForkedInv' /\ LifeStep
<1>1. status \in [Tasks -> Statuses] /\ disk \in [Tasks -> Statuses]
  BY DEF LifeInv, IInv, RecordInv
<1>2. disk[t] = "none"
  BY DEF LifeInv, SavedInv, Start
<1>3. SavedInv'
  BY <1>1 DEF LifeInv, SavedInv, Start, runtime
<1>4. ForkedInv'
  BY <1>1 DEF LifeInv, IInv, SessionInv, BashInv, ForkedInv, runtime, Start, cancelVars
<1>5. Life!Forked(t)
  BY <1>2 DEF Life!Forked, Start
<1> QED  BY <1>3, <1>4, <1>5 DEF LifeStep, Life!Next

LEMMA CancelLife ==
  ASSUME LifeInv, NEW t \in Tasks, Cancel(t) \/ TimeoutCancel(t) \/ TimerFires(t)
  PROVE  SavedInv' /\ ForkedInv' /\ LifeStep
<1>0. canceller \in [Tasks -> {"none", "idlewait", "destroy", "procwait"}]
  BY DEF LifeInv, IInv, CancelInv
<1>1. ASSUME NEW s \in {"cancelled", "timed_out"}, CancelWaits(t, s)
      PROVE  SavedInv' /\ ForkedInv' /\ LifeStep
  <2>1. SavedInv' /\ LifeStep
    BY <1>1, RecordsAlone DEF CancelWaits, runtime
  <2>2. ForkedInv'
    BY <1>0, <1>1 DEF LifeInv, ForkedInv, runtime, CancelWaits, Open
  <2> QED  BY <2>1, <2>2
<1>2. ASSUME NEW s \in {"cancelled", "timed_out"}, CancelAtOnce(t, s)
      PROVE  SavedInv' /\ ForkedInv' /\ LifeStep
  <2>1. /\ SavedInv' /\ LifeStep
        /\ \A x \in Tasks : status'[x] = "none" => status[x] = "none"
    BY <1>2, FinishLife DEF CancelAtOnce, Open, runtime, Life!Outcomes
  <2>2. ForkedInv'
    BY <1>2, <2>1 DEF LifeInv, ForkedInv, runtime, CancelAtOnce
  <2> QED  BY <2>1, <2>2
<1>3. ASSUME UNCHANGED <<status, disk, told, canceller, bridge, run, runtime>>
      PROVE  SavedInv' /\ ForkedInv' /\ LifeStep
  BY <1>3, RecordsAlone DEF runtime, LifeInv, ForkedInv
<1> QED  BY <1>1, <1>2, <1>3 DEF Cancel, TimeoutCancel, TimerFires, cancelVars, sessions, bash

LEMMA CancellerLife ==
  ASSUME LifeInv, NEW t \in Tasks, Canceller(t) \/ CancelAborted(t)
  PROVE  SavedInv' /\ ForkedInv' /\ LifeStep
<1>0. /\ canceller \in [Tasks -> {"none", "idlewait", "destroy", "procwait"}]
      /\ run \in [Tasks -> {"none", "spawn", "communicate", "emit", "finishing",
                            "returned", "failed"}]
      /\ canceller[t] # "none" /\ status[t] # "none"
  BY DEF LifeInv, IInv, CancelInv, BashInv, ForkedInv, Canceller, CancelAborted,
         CancelDestroys, CancelDestroyed, ProcWaitEnds, CancelRaises
<1>1. CASE CancelDestroyed(t) \/ ProcWaitEnds(t)
  <2>1. verdict[t] \in Life!Outcomes /\ Finish(t, verdict[t]) /\ UNCHANGED <<up, stopping>>
    BY <1>0, <1>1 DEF LifeInv, IInv, CancelInv, CancelDestroyed, ProcWaitEnds, runtime,
                      Life!Outcomes
  <2>2. /\ SavedInv' /\ LifeStep
        /\ \A x \in Tasks : status'[x] = "none" => status[x] = "none"
    BY <1>0, <2>1, FinishLife
  <2>3. ForkedInv'
    BY <1>0, <1>1, <2>2 DEF LifeInv, ForkedInv, runtime, CancelDestroyed, ProcWaitEnds, bash
  <2> QED  BY <2>2, <2>3
<1>2. CASE CancelDestroys(t) \/ CancelRaises(t) \/ CancelAborted(t)
  <2>1. SavedInv' /\ LifeStep
    BY <1>2, RecordsAlone DEF CancelDestroys, CancelRaises, CancelAborted, record, runtime
  <2>2. ForkedInv'
    BY <1>0, <1>2 DEF LifeInv, ForkedInv, runtime, CancelDestroys, CancelRaises, CancelAborted,
                      record, sessions, bash
  <2> QED  BY <2>1, <2>2
<1> QED  BY <1>1, <1>2 DEF Canceller

LEMMA BridgeLife ==
  ASSUME LifeInv, NEW t \in Subagents, Bridge(t)
  PROVE  SavedInv' /\ ForkedInv' /\ LifeStep
<1>0. /\ t \in Tasks
      /\ bridge \in [Tasks -> {"none", "get", "emit", "finishing", "exited"}]
  BY DEF LifeInv, IInv, SessionInv, Tasks
<1>1. bridge[t] # "none" /\ status[t] # "none"
  BY <1>0 DEF LifeInv, ForkedInv, Bridge, BridgeTakes, BridgeEmitted, BridgeFinished
<1>2. /\ UNCHANGED <<canceller, run, up, stopping>>
      /\ \A x \in Tasks : x # t => bridge'[x] = bridge[x]
  BY <1>0 DEF Bridge, BridgeTakes, BridgeForwards, BridgeDone, BridgeEmitted, BridgeFinished,
              cancelVars, bash, runtime
<1>3. /\ SavedInv' /\ LifeStep
      /\ \A x \in Tasks : status'[x] = "none" => status[x] = "none"
  <2>1. CASE UNCHANGED record
    BY <1>2, <2>1, RecordsAlone DEF record
  <2>2. ASSUME NEW s \in {"completed", "failed"}, Finish(t, s)
        PROVE  /\ SavedInv' /\ LifeStep
               /\ \A x \in Tasks : status'[x] = "none" => status[x] = "none"
    <3>1. s \in Life!Outcomes
      BY DEF Life!Outcomes
    <3> QED  BY <1>0, <1>1, <1>2, <2>2, <3>1, FinishLife
  <2> QED  BY <2>1, <2>2 DEF Bridge, BridgeTakes, BridgeForwards, BridgeDone, BridgeEmitted,
                             BridgeFinished
<1>4. ForkedInv'
  BY <1>1, <1>2, <1>3 DEF LifeInv, ForkedInv
<1> QED  BY <1>3, <1>4

LEMMA ChildLife ==
  ASSUME LifeInv, NEW t \in Subagents, Child(t)
  PROVE  SavedInv' /\ ForkedInv' /\ LifeStep
<1>1. UNCHANGED <<bridge, bash, cancelVars, record, runtime>>
  BY DEF Child, ChildReports, ChildEnds, ChildInterrupted, ChildSwept
<1>2. SavedInv' /\ LifeStep
  BY <1>1, RecordsAlone DEF record, runtime
<1> QED  BY <1>1, <1>2 DEF LifeInv, ForkedInv, runtime, bash, cancelVars, record

LEMMA BashLife ==
  ASSUME LifeInv, NEW t \in Tasks, Spawned(t) \/ ProcExits(t) \/ RunOf(t)
  PROVE  SavedInv' /\ ForkedInv' /\ LifeStep
<1>0. run \in [Tasks -> {"none", "spawn", "communicate", "emit", "finishing",
                         "returned", "failed"}]
  BY DEF LifeInv, IInv, BashInv
<1>1. CASE RunFinishes(t)
  <2>1. status[t] # "none"
    BY <1>1 DEF LifeInv, ForkedInv, RunFinishes
  <2>2. /\ SavedInv' /\ LifeStep
        /\ \A x \in Tasks : status'[x] = "none" => status[x] = "none"
    BY <1>1, <2>1, FinishLife DEF RunFinishes, runtime, Life!Outcomes
  <2>3. ForkedInv'
    BY <1>0, <1>1, <2>1, <2>2 DEF LifeInv, ForkedInv, runtime, RunFinishes, cancelVars
  <2> QED  BY <2>2, <2>3
<1>2. CASE Spawned(t) \/ ProcExits(t) \/ RunCollects(t) \/ RunReturns(t)
  <2>1. UNCHANGED <<sessions, cancelVars, record, runtime>>
    BY <1>2 DEF Spawned, ProcExits, RunCollects, RunReturns
  <2>2. SavedInv' /\ LifeStep
    BY <2>1, RecordsAlone DEF record, runtime
  <2>3. ForkedInv'
    BY <1>0, <1>2, <2>1 DEF LifeInv, ForkedInv, runtime, Spawned, ProcExits, RunCollects,
                            RunReturns, sessions, cancelVars, record
  <2> QED  BY <2>2, <2>3
<1> QED  BY <1>1, <1>2 DEF RunOf

-----------------------------------------------------------------------------
(* A shutdown stops what runs, a restart finds it lost.                    *)

LEMMA ShutdownLife ==
  ASSUME LifeInv, NEW t \in Tasks, ShutdownVisits(t)
  PROVE  SavedInv' /\ ForkedInv' /\ LifeStep
<1>0. /\ status \in [Tasks -> Statuses] /\ disk \in [Tasks -> Statuses]
      /\ UNCHANGED <<up, told, canceller, bridge, run>>
  BY DEF LifeInv, IInv, RecordInv, ShutdownVisits, cancelVars
<1>1. CASE status[t] \in Terminal /\ UNCHANGED <<status, disk, out, proc, stopping>>
  BY <1>0, <1>1, RecordsAlone DEF LifeInv, ForkedInv
<1>2. CASE /\ status[t] = "running" /\ status' = [status EXCEPT ![t] = "cancelled"]
           /\ stopping' = t /\ UNCHANGED disk
  <2>1. stopping = Main /\ up = "stopping"
    BY DEF ShutdownVisits
  <2>2. \A x \in Tasks : disk[x] = status[x]
    BY <2>1, TasksAssumption DEF LifeInv, SavedInv
  <2> QED  BY <1>0, <1>2, <2>1, <2>2 DEF SavedInv, LifeInv, ForkedInv, LifeStep
<1>3. CASE /\ status[t] = "running" /\ status' = [status EXCEPT ![t] = "cancelled"]
           /\ disk' = [disk EXCEPT ![t] = "cancelled"] /\ UNCHANGED stopping
  <2>1. disk[t] = "running"
    BY <1>3 DEF LifeInv, SavedInv
  <2>2. Life!Stopped(t)
    BY <1>0, <1>3, <2>1 DEF Life!Stopped
  <2>3. SavedInv' /\ ForkedInv'
    BY <1>0, <1>3 DEF SavedInv, LifeInv, ForkedInv
  <2> QED  BY <2>2, <2>3 DEF LifeStep, Life!Next
<1> QED  BY <1>1, <1>2, <1>3 DEF ShutdownVisits

LEMMA RuntimeLife ==
  ASSUME LifeInv, Runtime
  PROVE  SavedInv' /\ ForkedInv' /\ LifeStep
<1>0. status \in [Tasks -> Statuses] /\ disk \in [Tasks -> Statuses]
  BY DEF LifeInv, IInv, RecordInv
<1>1. CASE ShutdownBegins
  BY <1>1 DEF LifeInv, SavedInv, ForkedInv, LifeStep, ShutdownBegins, sessions, bash, cancelVars
<1>2. CASE ShutdownWaited
  <2>1. stopping \in Tasks /\ disk' = [disk EXCEPT ![stopping] = status[stopping]]
        /\ UNCHANGED <<up, status, told, canceller, bridge>>
    BY <1>2 DEF LifeInv, IInv, RuntimeInv, ShutdownWaited, Tasks, cancelVars, sessions
  <2>2. LifeStep
    <3>1. CASE disk[stopping] = status[stopping]
      BY <1>0, <2>1, <3>1 DEF LifeStep
    <3>2. CASE status[stopping] = "cancelled" /\ disk[stopping] = "running"
      <4>1. Life!Stopped(stopping)
        BY <2>1, <3>2 DEF Life!Stopped
      <4> QED  BY <2>1, <4>1 DEF LifeStep, Life!Next
    <3> QED  BY <2>1, <3>1, <3>2 DEF LifeInv, SavedInv
  <2>3. SavedInv'
    BY <1>0, <1>2, <2>1 DEF LifeInv, SavedInv, ShutdownWaited
  <2>4. status[stopping] # "none"
    BY <2>1 DEF LifeInv, ForkedInv
  <2>5. ForkedInv'
    BY <1>2, <2>1, <2>4, TasksAssumption DEF LifeInv, IInv, BashInv, ForkedInv, ShutdownWaited
  <2> QED  BY <2>2, <2>3, <2>5
<1>3. CASE GoesDown
  <2>1. SavedInv' /\ LifeStep
    BY <1>3 DEF SavedInv, LifeStep, GoesDown
  <2>2. ForkedInv'
    BY <1>3, TasksAssumption DEF ForkedInv, GoesDown
  <2> QED  BY <2>1, <2>2
<1>4. CASE Restart
  <2>1. Life!Lost
    BY <1>4 DEF Life!Lost, Restart, Reloaded
  <2>2. \A t \in Tasks : disk[t] = status[t]
    BY <1>4 DEF LifeInv, SavedInv, Restart
  <2>3. SavedInv'
    BY <1>4 DEF SavedInv, Restart
  <2>4. ForkedInv'
    BY <1>4, <2>2 DEF LifeInv, ForkedInv, Restart, Reloaded, cancelVars, sessions, bash
  <2> QED  BY <2>1, <2>3, <2>4 DEF LifeStep, Life!Next
<1> QED  BY <1>1, <1>2, <1>3, <1>4 DEF Runtime

LEMMA LifeStepInv == LifeInv /\ [Next]_vars => LifeInv' /\ [Life!Next]_<<disk, told>>
<1> SUFFICES ASSUME LifeInv, [Next]_vars PROVE LifeInv' /\ [Life!Next]_<<disk, told>>
  OBVIOUS
<1>1. IInv'
  BY StepInv DEF LifeInv
<1>2. CASE UNCHANGED vars
  BY <1>1, <1>2 DEF LifeInv, SavedInv, ForkedInv, vars, sessions, bash, cancelVars, record,
                    runtime
<1>3. CASE Next
  <2>1. SavedInv' /\ ForkedInv' /\ LifeStep
    BY <1>3, StartLife, CancelLife, CancellerLife, BridgeLife, ChildLife, BashLife,
       ShutdownLife, RuntimeLife DEF Next
  <2> QED  BY <1>1, <2>1 DEF LifeInv, LifeStep
<1> QED  BY <1>2, <1>3

\* Every behaviour of the manager is a life as TaskLife describes it: a task ends
\* once, its parent is told that very outcome when it ends or never, and neither a
\* crash nor a shutdown nor a restart takes anything back.
THEOREM Implementation == Spec => ImplementsTaskLife
<1>1. Spec => []LifeInv
  <2>1. LifeInv /\ [Next]_vars => LifeInv'
    BY LifeStepInv
  <2> QED  BY <2>1, LifeInit, PTL DEF Spec
<1>2. LifeInv /\ [Next]_vars => [Life!Next]_<<disk, told>>
  BY LifeStepInv
<1> QED  BY <1>1, <1>2, LifeInit, PTL DEF Spec, ImplementsTaskLife, Life!Spec
-----------------------------------------------------------------------------
(* No child is destroyed at its task unless the wait for its idle ran out. *)
(* A child works until its turn ends, or until a task of its own sends it  *)
(* a message, and never again; and what destroys it (a cancel that heard   *)
(* it, the bridge, the sweeper) acts on a sign that the turn has ended, on *)
(* its way through the queue, the bridge or `heard'.                       *)

(* The outputs that end a turn.                                            *)
TurnEnds == {"idle", "final", "error"}

Quiet(t) ==
  /\ child[t] = "working" =>
       /\ \A i \in DOMAIN out[t] : out[t][i] \notin TurnEnds
       /\ t \notin heard /\ bridge[t] # "finishing"
  /\ status[t] = "none" => child[t] = "none" /\ out[t] = <<>> /\ t \notin heard

QuietInv == \A t \in Subagents : Quiet(t)

RestInv == LifeInv /\ QuietInv

(* What a step may do to the children.                                     *)
CutStep ==
  \A t \in Subagents : child[t] = "working" /\ child'[t] = "gone" /\ up' # "down" =>
     canceller[t] = "idlewait" /\ t \notin heard

(* A child is left alone, or is sent a message.                            *)
Spared(t) == child'[t] = child[t] \/ (child[t] # "none" /\ child'[t] \in {"woken", "revived"})

LEMMA QuietInit == Init => QuietInv
BY DEF Init, QuietInv, Quiet, Tasks

LEMMA SparedUncut ==
  ASSUME \A x \in Tasks : Spared(x)
  PROVE  CutStep
BY DEF Spared, CutStep, Tasks

\* What spares a child and leaves its signs alone; a task once started stays so.
LEMMA QuietKept ==
  ASSUME NEW t \in Tasks, Quiet(t), status'[t] = "none" => status[t] = "none",
         Spared(t), out'[t] = out[t], t \in heard' => t \in heard,
         bridge'[t] = "finishing" => bridge[t] = "finishing"
  PROVE  Quiet(t)'
BY DEF Quiet, Spared

\* The bridge's sentinel ends no turn.
LEMMA QuietStop ==
  ASSUME LifeInv, NEW t \in Subagents, Quiet(t), out'[t] = Append(out[t], "stop"),
         status[t] # "none", status'[t] # "none",
         Spared(t), t \in heard' => t \in heard,
         bridge'[t] = "finishing" => bridge[t] = "finishing"
  PROVE  Quiet(t)'
<1>1. out[t] \in Seq(Outputs) /\ "stop" \in Outputs /\ "stop" \notin TurnEnds
  BY DEF LifeInv, IInv, SessionInv, Tasks, Outputs, TurnEnds
<1>2. \A i \in DOMAIN Append(out[t], "stop") :
        \/ Append(out[t], "stop")[i] = "stop"
        \/ i \in DOMAIN out[t] /\ Append(out[t], "stop")[i] = out[t][i]
  BY <1>1
<1> QED  BY <1>1, <1>2 DEF Quiet, Spared

\* Telling the parent wakes a child, at most.
LEMMA FinishSpares ==
  ASSUME LifeInv, NEW t \in Tasks, NEW s \in Terminal, Finish(t, s), status[t] # "none"
  PROVE  /\ \A x \in Tasks : Spared(x)
         /\ \A x \in Tasks : status'[x] = "none" => status[x] = "none"
<1>1. child \in [Tasks -> {"none", "working", "woken", "parked", "gone", "revived"}]
      /\ status \in [Tasks -> Statuses]
  BY DEF LifeInv, IInv, ChildInv, RecordInv
<1>2. CASE UNCHANGED <<record, child>>
  BY <1>2 DEF record, Spared
<1>3. CASE Ends(t, s)
  <2>1. \A x \in Tasks : Spared(x)
    BY <1>1, <1>3 DEF Ends, Woken, Spared
  <2>2. \A x \in Tasks : status'[x] = "none" => status[x] = "none"
    BY <1>1, <1>3 DEF Ends, Terminal
  <2> QED  BY <2>1, <2>2
<1> QED  BY <1>2, <1>3 DEF Finish

\* destroy_session.
LEMMA QuietDestroyed ==
  ASSUME LifeInv, QuietInv, NEW t \in Subagents, Destroyed(t),
         status[t] # "none", UNCHANGED <<status, heard, out>>,
         \A x \in Subagents : x # t => canceller'[x] = canceller[x] /\ bridge'[x] = bridge[x],
         child[t] = "working" => canceller[t] = "idlewait" /\ t \notin heard
  PROVE  QuietInv' /\ CutStep
<1>1. /\ child \in [Tasks -> {"none", "working", "woken", "parked", "gone", "revived"}]
      /\ t \in Tasks /\ Subagents \subseteq Tasks
  BY DEF LifeInv, IInv, ChildInv, Tasks
<1>2. /\ child'[t] = "gone"
      /\ \A x \in Tasks : x # t => child'[x] = child[x]
  BY <1>1 DEF Destroyed
<1>3. Quiet(t)'
  BY <1>2 DEF Quiet
<1>4. ASSUME NEW x \in Subagents, x # t PROVE Quiet(x)'
  BY <1>1, <1>2, <1>4, QuietKept DEF QuietInv, Spared
<1>5. CutStep
  BY <1>1, <1>2 DEF CutStep
<1> QED  BY <1>3, <1>4, <1>5 DEF QuietInv

LEMMA StartQuiet ==
  ASSUME RestInv, NEW t \in Tasks, Start(t)
  PROVE  QuietInv' /\ CutStep
<1>1. /\ child \in [Tasks -> {"none", "working", "woken", "parked", "gone", "revived"}]
      /\ status \in [Tasks -> Statuses] /\ Subagents \subseteq Tasks
      /\ bridge \in [Tasks -> {"none", "get", "emit", "finishing", "exited"}]
  BY DEF RestInv, LifeInv, IInv, ChildInv, RecordInv, SessionInv, Tasks
<1>2. UNCHANGED <<out, heard, canceller>>
  BY DEF Start, cancelVars
<1>3. /\ status'[t] = "running"
      /\ \A x \in Tasks : x # t => /\ status'[x] = status[x] /\ child'[x] = child[x]
                                   /\ bridge'[x] = bridge[x]
  BY <1>1 DEF Start
<1>4. ASSUME NEW x \in Subagents, x # t PROVE Quiet(x)'
  BY <1>1, <1>2, <1>3, <1>4, QuietKept DEF RestInv, QuietInv, Spared
<1>5. ASSUME t \in Subagents PROVE Quiet(t)'
  <2>1. status[t] = "none" /\ bridge'[t] = "get"
    BY <1>1, <1>5, TasksAssumption DEF Start
  <2>2. canceller[t] = "none" /\ out[t] = <<>> /\ t \notin heard
    BY <1>1, <1>5, <2>1 DEF RestInv, LifeInv, ForkedInv, QuietInv, Quiet
  <2> QED  BY <1>2, <1>3, <2>1, <2>2 DEF Quiet
<1>6. CutStep
  BY <1>1, <1>3 DEF CutStep, Start
<1> QED  BY <1>4, <1>5, <1>6 DEF QuietInv

LEMMA CancelQuiet ==
  ASSUME RestInv, NEW t \in Tasks, Cancel(t) \/ TimeoutCancel(t) \/ TimerFires(t)
  PROVE  QuietInv' /\ CutStep
<1>0. /\ canceller \in [Tasks -> {"none", "idlewait", "destroy", "procwait"}]
      /\ intr \in [Tasks -> BOOLEAN] /\ out \in [Tasks -> Seq(Outputs)]
      /\ Subagents \subseteq Tasks
  BY DEF RestInv, LifeInv, IInv, CancelInv, SessionInv, Tasks
<1>1. ASSUME NEW s \in {"cancelled", "timed_out"}, CancelWaits(t, s)
      PROVE  QuietInv' /\ CutStep
  <2>1. UNCHANGED <<status, child, out, bridge>> /\ heard' \subseteq heard
    BY <1>1 DEF CancelWaits
  <2>2. \A x \in Tasks : Spared(x)
    BY <2>1 DEF Spared
  <2>3. ASSUME NEW x \in Subagents PROVE Quiet(x)'
    BY <1>0, <2>1, <2>2, QuietKept DEF RestInv, QuietInv
  <2> QED  BY <2>2, <2>3, SparedUncut DEF QuietInv
<1>2. ASSUME NEW s \in {"cancelled", "timed_out"}, CancelAtOnce(t, s)
      PROVE  QuietInv' /\ CutStep
  <2>1. /\ UNCHANGED <<canceller, heard, intr, bridge>> /\ Finish(t, s)
        /\ status[t] = "running"
        /\ out' = [out EXCEPT ![t] = IF t \in Subagents THEN Append(@, "stop") ELSE @]
    BY <1>2 DEF CancelAtOnce, Open
  <2>2. (\A x \in Tasks : Spared(x)) /\ \A x \in Tasks : status'[x] = "none" => status[x] = "none"
    BY <2>1, FinishSpares DEF RestInv, Terminal
  <2>3. ASSUME NEW x \in Subagents, x # t PROVE Quiet(x)'
    BY <1>0, <2>1, <2>2, <2>3, QuietKept DEF RestInv, QuietInv
  <2>4. ASSUME t \in Subagents PROVE Quiet(t)'
    BY <1>0, <2>1, <2>2, <2>4, QuietStop DEF RestInv, QuietInv
  <2> QED  BY <2>2, <2>3, <2>4, SparedUncut DEF QuietInv
<1>3. ASSUME UNCHANGED <<status, canceller, heard, sessions>>
      PROVE  QuietInv' /\ CutStep
  BY <1>3 DEF RestInv, QuietInv, Quiet, CutStep, sessions
<1> QED  BY <1>1, <1>2, <1>3 DEF Cancel, TimeoutCancel, TimerFires, cancelVars

\* cancel() destroys the child: at rest when it was heard idle, or after the wait.
LEMMA CancellerQuiet ==
  ASSUME RestInv, NEW t \in Tasks, Canceller(t) \/ CancelAborted(t)
  PROVE  QuietInv' /\ CutStep
<1>0. /\ canceller \in [Tasks -> {"none", "idlewait", "destroy", "procwait"}]
      /\ out \in [Tasks -> Seq(Outputs)] /\ intr \in [Tasks -> BOOLEAN]
      /\ Subagents \subseteq Tasks /\ canceller[t] # "none" /\ status[t] # "none"
  BY DEF RestInv, LifeInv, IInv, CancelInv, SessionInv, ForkedInv, Canceller, CancelAborted,
         CancelDestroys, CancelDestroyed, ProcWaitEnds, CancelRaises, Tasks
<1>1. CASE CancelDestroys(t)
  <2>1. /\ t \in Subagents /\ canceller[t] = "idlewait" /\ Destroyed(t)
        /\ UNCHANGED <<status, heard, out, bridge>>
        /\ \A x \in Tasks : x # t => canceller'[x] = canceller[x]
    BY <1>0, <1>1 DEF RestInv, LifeInv, IInv, CancelInv, CancelDestroys, record
  <2>2. child[t] = "working" => t \notin heard
    BY <2>1 DEF RestInv, QuietInv, Quiet
  <2> QED  BY <1>0, <2>1, <2>2, QuietDestroyed DEF RestInv
<1>2. CASE CancelDestroyed(t)
  <2>1. /\ UNCHANGED <<heard, intr, bridge>> /\ Finish(t, verdict[t])
        /\ canceller' = [canceller EXCEPT ![t] = "none"]
        /\ out' = [out EXCEPT ![t] = Append(@, "stop")] /\ verdict[t] \in Terminal
    BY <1>0, <1>2 DEF RestInv, LifeInv, IInv, CancelInv, CancelDestroyed, Terminal
  <2>2. (\A x \in Tasks : Spared(x)) /\ \A x \in Tasks : status'[x] = "none" => status[x] = "none"
    BY <1>0, <2>1, FinishSpares DEF RestInv
  <2>3. ASSUME NEW x \in Subagents, x # t PROVE Quiet(x)'
    BY <1>0, <2>1, <2>2, <2>3, QuietKept DEF RestInv, QuietInv
  <2>4. ASSUME t \in Subagents PROVE Quiet(t)'
    BY <1>0, <2>1, <2>2, <2>4, QuietStop DEF RestInv, QuietInv
  <2> QED  BY <2>2, <2>3, <2>4, SparedUncut DEF QuietInv
<1>3. CASE ProcWaitEnds(t) \/ CancelRaises(t) \/ CancelAborted(t)
  <2>1. UNCHANGED <<heard, out, intr, bridge>>
        /\ canceller' = [canceller EXCEPT ![t] = "none"]
    BY <1>3 DEF ProcWaitEnds, CancelRaises, CancelAborted, sessions
  <2>2. (\A x \in Tasks : Spared(x)) /\ \A x \in Tasks : status'[x] = "none" => status[x] = "none"
    <3>1. CASE ProcWaitEnds(t)
      <4>1. Finish(t, verdict[t]) /\ verdict[t] \in Terminal
        BY <1>0, <3>1 DEF RestInv, LifeInv, IInv, CancelInv, ProcWaitEnds, Terminal
      <4> QED  BY <1>0, <4>1, FinishSpares DEF RestInv
    <3>2. CASE CancelRaises(t) \/ CancelAborted(t)
      BY <3>2 DEF CancelRaises, CancelAborted, record, sessions, Spared
    <3> QED  BY <1>3, <3>1, <3>2
  <2>3. ASSUME NEW x \in Subagents PROVE Quiet(x)'
    BY <1>0, <2>1, <2>2, QuietKept DEF RestInv, QuietInv
  <2> QED  BY <2>2, <2>3, SparedUncut DEF QuietInv
<1> QED  BY <1>1, <1>2, <1>3 DEF Canceller

\* The bridge hears, in order, what the child said; it destroys the child when its
\* outcome was in the queue.
LEMMA BridgeQuiet ==
  ASSUME RestInv, NEW t \in Subagents, Bridge(t)
  PROVE  QuietInv' /\ CutStep
<1>0. /\ t \in Tasks /\ Subagents \subseteq Tasks
      /\ bridge \in [Tasks -> {"none", "get", "emit", "finishing", "exited"}]
      /\ out \in [Tasks -> Seq(Outputs)] /\ heard \subseteq Subagents
      /\ bridge[t] # "none" /\ status[t] # "none"
  BY DEF RestInv, LifeInv, IInv, SessionInv, CancelInv, Tasks, ForkedInv, Bridge, BridgeTakes,
         BridgeEmitted, BridgeFinished
<1>1. CASE BridgeTakes(t)
  <2>1. out[t] # <<>> /\ out' = [out EXCEPT ![t] = Tail(@)]
    BY <1>1 DEF BridgeTakes
  <2>2. /\ \A x \in Tasks : x # t => bridge'[x] = bridge[x] /\ (x \in heard' => x \in heard)
        /\ bridge'[t] = "finishing" => bridge[t] = "finishing" \/ Head(out[t]) \in TurnEnds
        /\ t \in heard' => t \in heard \/ Head(out[t]) \in TurnEnds
    BY <1>0, <1>1 DEF BridgeTakes, BridgeForwards, BridgeDone, TurnEnds, Answered
  <2>3. (\A x \in Tasks : Spared(x)) /\ \A x \in Tasks : status'[x] = "none" => status[x] = "none"
    <3>1. ASSUME NEW s \in Terminal, Finish(t, s)
          PROVE  (\A x \in Tasks : Spared(x)) /\ \A x \in Tasks : status'[x] = "none" => status[x] = "none"
      BY <1>0, <3>1, FinishSpares DEF RestInv
    <3>2. CASE UNCHANGED <<record, child>>
      BY <3>2 DEF record, Spared
    <3> QED  BY <1>1, <3>1, <3>2 DEF BridgeTakes, BridgeForwards, BridgeDone, Terminal
  <2>4. ASSUME NEW x \in Subagents, x # t PROVE Quiet(x)'
    BY <1>0, <2>1, <2>2, <2>3, <2>4, QuietKept DEF RestInv, QuietInv
  <2>5. Quiet(t)'
    <3>1. /\ Head(out[t]) = out[t][1] /\ 1 \in DOMAIN out[t]
          /\ \A i \in DOMAIN Tail(out[t]) : i + 1 \in DOMAIN out[t] /\ Tail(out[t])[i] = out[t][i + 1]
      BY <1>0, <2>1
    <3>2. out'[t] = Tail(out[t]) /\ status'[t] # "none" /\ Quiet(t)
      BY <1>0, <2>1, <2>3 DEF RestInv, QuietInv
    <3> QED  BY <1>0, <2>2, <2>3, <3>1, <3>2 DEF Quiet, Spared
  <2> QED  BY <2>3, <2>4, <2>5, SparedUncut DEF QuietInv
<1>2. CASE BridgeEmitted(t)
  <2>1. UNCHANGED <<child, out, heard, status>>
        /\ \A x \in Tasks : bridge'[x] = "finishing" => bridge[x] = "finishing"
    BY <1>0, <1>2 DEF BridgeEmitted, cancelVars, record
  <2>2. \A x \in Tasks : Spared(x)
    BY <2>1 DEF Spared
  <2>3. ASSUME NEW x \in Subagents PROVE Quiet(x)'
    BY <1>0, <2>1, <2>2, QuietKept DEF RestInv, QuietInv
  <2> QED  BY <2>2, <2>3, SparedUncut DEF QuietInv
<1>3. CASE BridgeFinished(t)
  <2>1. /\ bridge[t] = "finishing" /\ Destroyed(t) /\ UNCHANGED <<status, heard, out, canceller>>
        /\ \A x \in Tasks : x # t => bridge'[x] = bridge[x]
    BY <1>0, <1>3 DEF BridgeFinished, record, cancelVars
  <2>2. child[t] # "working"
    BY <2>1 DEF RestInv, QuietInv, Quiet
  <2> QED  BY <1>0, <2>1, <2>2, QuietDestroyed DEF RestInv
<1> QED  BY <1>1, <1>2, <1>3 DEF Bridge

LEMMA ChildQuiet ==
  ASSUME RestInv, NEW t \in Subagents, Child(t)
  PROVE  QuietInv' /\ CutStep
<1>0. /\ t \in Tasks /\ Subagents \subseteq Tasks
      /\ child \in [Tasks -> {"none", "working", "woken", "parked", "gone", "revived"}]
      /\ out \in [Tasks -> Seq(Outputs)] /\ intr \in [Tasks -> BOOLEAN]
      /\ child[t] # "none" /\ status[t] # "none"
  BY DEF RestInv, LifeInv, IInv, ChildInv, SessionInv, Tasks, QuietInv, Quiet, HasSession,
         Child, ChildReports, ChildEnds, ChildInterrupted, ChildSwept
<1>1. CASE ChildSwept(t)
  <2>1. /\ Destroyed(t) /\ child[t] # "working" /\ UNCHANGED <<status, heard, out, canceller, bridge>>
    BY <1>1 DEF ChildSwept, cancelVars, record
  <2> QED  BY <1>0, <2>1, QuietDestroyed DEF RestInv
<1>2. CASE ChildReports(t) \/ ChildEnds(t) \/ ChildInterrupted(t)
  <2>1. UNCHANGED <<bridge, heard, status>>
    BY <1>2 DEF ChildReports, ChildEnds, ChildInterrupted, cancelVars, record
  <2>2. \A x \in Tasks : x # t => child'[x] = child[x] /\ out'[x] = out[x]
    BY <1>0, <1>2 DEF ChildReports, ChildEnds, ChildInterrupted, Say
  <2>3. ASSUME NEW x \in Subagents, x # t PROVE Quiet(x)'
    BY <1>0, <2>1, <2>2, <2>3, QuietKept DEF RestInv, QuietInv, Spared
  <2>4. Quiet(t)'
    <3>1. CASE ChildReports(t)
      <4>1. out'[t] = out[t] \o <<"event">> /\ child'[t] = child[t]
        BY <1>0, <3>1 DEF ChildReports, Say
      <4>2. \A i \in DOMAIN (out[t] \o <<"event">>) :
              \/ (out[t] \o <<"event">>)[i] = "event"
              \/ i \in DOMAIN out[t] /\ (out[t] \o <<"event">>)[i] = out[t][i]
        BY <1>0
      <4> QED  BY <1>0, <2>1, <4>1, <4>2 DEF RestInv, QuietInv, Quiet, TurnEnds
    <3>2. CASE ChildEnds(t) \/ ChildInterrupted(t)
      <4>1. child'[t] # "working"
        BY <1>0, <3>2 DEF ChildEnds, ChildInterrupted
      <4> QED  BY <1>0, <2>1, <4>1 DEF Quiet
    <3> QED  BY <1>2, <3>1, <3>2
  <2>5. CutStep
    <3>1. child'[t] # "gone" \/ child[t] = "gone"
      BY <1>0, <1>2 DEF ChildReports, ChildEnds, ChildInterrupted
    <3> QED  BY <1>0, <2>2, <3>1 DEF CutStep
  <2> QED  BY <2>3, <2>4, <2>5 DEF QuietInv
<1> QED  BY <1>1, <1>2 DEF Child

LEMMA BashQuiet ==
  ASSUME RestInv, NEW t \in Tasks, Spawned(t) \/ ProcExits(t) \/ RunOf(t)
  PROVE  QuietInv' /\ CutStep
<1>0. Subagents \subseteq Tasks
  BY DEF Tasks
<1>1. UNCHANGED <<out, bridge, heard>>
  BY DEF Spawned, ProcExits, RunOf, RunCollects, RunFinishes, RunReturns, sessions, cancelVars
<1>2. (\A x \in Tasks : Spared(x)) /\ \A x \in Tasks : status'[x] = "none" => status[x] = "none"
  <2>1. CASE RunFinishes(t)
    <3>1. status[t] # "none"
      BY <2>1 DEF RestInv, LifeInv, ForkedInv, RunFinishes
    <3> QED  BY <2>1, <3>1, FinishSpares DEF RestInv, RunFinishes, Terminal
  <2>2. CASE Spawned(t) \/ ProcExits(t) \/ RunCollects(t) \/ RunReturns(t)
    BY <2>2 DEF Spawned, ProcExits, RunCollects, RunReturns, sessions, record, Spared
  <2> QED  BY <2>1, <2>2 DEF RunOf
<1>3. ASSUME NEW x \in Subagents PROVE Quiet(x)'
  BY <1>0, <1>1, <1>2, QuietKept DEF RestInv, QuietInv
<1> QED  BY <1>2, <1>3, SparedUncut DEF QuietInv

LEMMA ShutdownQuiet ==
  ASSUME RestInv, NEW t \in Tasks, ShutdownVisits(t)
  PROVE  QuietInv' /\ CutStep
<1>0. /\ status \in [Tasks -> Statuses] /\ out \in [Tasks -> Seq(Outputs)]
      /\ Subagents \subseteq Tasks
      /\ UNCHANGED <<child, bridge, heard>>
  BY DEF RestInv, LifeInv, IInv, RecordInv, SessionInv, ShutdownVisits, cancelVars, Tasks
<1>1. \A x \in Tasks : status'[x] = "none" => status[x] = "none"
  BY <1>0 DEF ShutdownVisits
<1>2. \A x \in Tasks : x # t => out'[x] = out[x]
  BY <1>0 DEF ShutdownVisits
<1>3. t \in Subagents => out'[t] = out[t] \/ (out'[t] = Append(out[t], "stop") /\ status[t] # "none")
  BY <1>0 DEF ShutdownVisits
<1>4. ASSUME NEW x \in Subagents, out'[x] = out[x] PROVE Quiet(x)'
  BY <1>0, <1>1, <1>4, QuietKept DEF RestInv, QuietInv, Spared
<1>5. ASSUME t \in Subagents, out'[t] = Append(out[t], "stop"), status[t] # "none"
      PROVE  Quiet(t)'
  BY <1>0, <1>1, <1>5, QuietStop DEF RestInv, QuietInv, Spared
<1>6. CutStep
  BY <1>0 DEF CutStep
<1> QED  BY <1>0, <1>2, <1>3, <1>4, <1>5, <1>6 DEF QuietInv

\* A crash or a restart leaves no child at work, and does not forget a task.
LEMMA RuntimeQuiet ==
  ASSUME RestInv, Runtime
  PROVE  QuietInv' /\ CutStep
<1>0. Subagents \subseteq Tasks
  BY DEF Tasks
<1>1. CASE ShutdownBegins \/ ShutdownWaited
  <2>1. UNCHANGED <<sessions, heard, canceller, status>>
    BY <1>1 DEF ShutdownBegins, ShutdownWaited, cancelVars
  <2> QED  BY <2>1 DEF RestInv, QuietInv, Quiet, CutStep, sessions
<1>2. CASE GoesDown
  <2>1. ASSUME NEW x \in Subagents PROVE Quiet(x)'
    <3>1. /\ child'[x] = (IF child[x] = "none" THEN "none" ELSE "gone")
          /\ out'[x] = <<>> /\ heard' = {} /\ status' = disk
      BY <1>0, <1>2 DEF GoesDown
    <3>2. disk[x] = "none" => status[x] = "none"
      BY <1>0 DEF RestInv, LifeInv, SavedInv
    <3> QED  BY <3>1, <3>2 DEF RestInv, QuietInv, Quiet
  <2> QED  BY <1>2, <2>1 DEF GoesDown, QuietInv, CutStep
<1>3. CASE Restart
  <2>1. UNCHANGED <<sessions, cancelVars>>
    BY <1>3 DEF Restart
  <2>2. \A x \in Tasks : status'[x] = "none" => status[x] = "none"
    BY <1>3 DEF RestInv, LifeInv, SavedInv, Restart, Reloaded
  <2>3. ASSUME NEW x \in Subagents PROVE Quiet(x)'
    BY <1>0, <2>1, <2>2, QuietKept DEF RestInv, QuietInv, Spared, sessions, cancelVars
  <2> QED  BY <2>1, <2>3 DEF QuietInv, CutStep, sessions
<1> QED  BY <1>1, <1>2, <1>3 DEF Runtime

\* However the tasks are nested: a child at its task is destroyed only by a cancel()
\* that has waited for its idle in vain, whatever cancel, timeout, bridge, sweeper and
\* shutdown do to one another.
THEOREM DestroyedAtRest == Spec => NoTurnCutShort
<1>1. Init => RestInv
  BY LifeInit, QuietInit DEF RestInv
<1>2. RestInv /\ [Next]_vars => RestInv' /\ CutStep
  <2> SUFFICES ASSUME RestInv, [Next]_vars PROVE RestInv' /\ CutStep
    OBVIOUS
  <2>1. LifeInv'
    BY LifeStepInv DEF RestInv
  <2>2. CASE UNCHANGED vars
    BY <2>1, <2>2 DEF RestInv, QuietInv, Quiet, CutStep, vars, sessions, cancelVars, record
  <2>3. CASE Next
    <3>1. QuietInv' /\ CutStep
      BY <2>3, StartQuiet, CancelQuiet, CancellerQuiet, BridgeQuiet, ChildQuiet, BashQuiet,
         ShutdownQuiet, RuntimeQuiet DEF Next
    <3> QED  BY <2>1, <3>1 DEF RestInv
  <2> QED  BY <2>2, <2>3
<1>3. RestInv /\ [Next]_vars =>
        [\A t \in Subagents : child[t] = "working" /\ child'[t] = "gone" /\ up' # "down" =>
           canceller[t] = "idlewait" /\ t \notin heard]_vars
  BY <1>2 DEF CutStep
<1> QED  BY <1>1, <1>2, <1>3, PTL DEF Spec, NoTurnCutShort
=============================================================================
