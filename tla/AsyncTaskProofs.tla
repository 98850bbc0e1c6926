--------------------------- MODULE AsyncTaskProofs ---------------------------
(***************************************************************************)
(* What TLAPS proves of AsyncTask for any set of tasks, however nested:    *)
(* type correctness (a parent is told at most once), and that an outcome   *)
(* is never changed or contradicted, neither by a race nor by a restart.   *)
(***************************************************************************)
EXTENDS AsyncTask, TLAPS

(* The record of a task.  Told and saved outcomes agree with the status;   *)
(* only shutdown() lets the record on disk lag behind.                     *)
RecordInv ==
  /\ up \in {"up", "stopping", "down"}
  /\ status \in [Tasks -> Statuses] /\ disk \in [Tasks -> Statuses]
  /\ told \in [Tasks -> {<<>>} \cup {<<s>> : s \in Terminal}]
  /\ timer \in [Tasks -> {"none", "armed", "fired"}]
  /\ \A t \in Tasks : told[t] # <<>> => told[t] = <<status[t]>> /\ disk[t] = status[t]
  /\ up # "stopping" => disk = status

(* Only subagents have a session.                                          *)
ChildInv ==
  /\ child \in [Tasks -> {"none", "working", "woken", "parked", "gone", "revived"}]
  /\ \A t \in Tasks : child[t] # "none" => t \in Subagents

SessionInv ==
  /\ intr \in [Tasks -> BOOLEAN] /\ out \in [Tasks -> Seq(Outputs)]
  /\ bridge \in [Tasks -> {"none", "get", "emit", "finishing", "exited"}]

(* A cancel() in progress knows how the task is to end.                    *)
CancelInv ==
  /\ cancels \in Nat /\ heard \subseteq Subagents
  /\ canceller \in [Tasks -> {"none", "idlewait", "destroy", "procwait"}]
  /\ verdict \in [Tasks -> {"none", "cancelled", "timed_out"}]
  /\ \A t \in Tasks : canceller[t] # "none" => verdict[t] # "none"
  /\ \A t \in Tasks : canceller[t] = "idlewait" => t \in Subagents

BashInv ==
  /\ run \in [Tasks -> {"none", "spawn", "communicate", "emit", "finishing",
                        "returned", "failed"}]
  /\ proc \in [Tasks -> {"none", "alive", "dead"}]

RuntimeInv == downs \in Nat /\ toStop \subseteq Tasks /\ stopping \in Bashes \cup {Main}

IInv == RecordInv /\ ChildInv /\ SessionInv /\ CancelInv /\ BashInv /\ RuntimeInv

(* A step keeps the outcomes of the tasks that have ended.                 *)
Kept == \A t \in Tasks : up = "up" /\ status[t] \in Terminal => status'[t] = status[t]

-----------------------------------------------------------------------------
LEMMA InitInv == Init => IInv
<1> SUFFICES ASSUME Init PROVE IInv
  OBVIOUS
<1>1. RecordInv /\ RuntimeInv
  BY DEF Init, RecordInv, RuntimeInv, Statuses
<1>2. ChildInv /\ CancelInv /\ BashInv
  BY DEF Init, ChildInv, CancelInv, BashInv
<1>3. SessionInv
  <2>1. <<>> \in Seq(Outputs)
    OBVIOUS
  <2> QED  BY <2>1 DEF Init, SessionInv
<1> QED  BY <1>1, <1>2, <1>3 DEF IInv

LEMMA WokenType ==
  ASSUME ChildInv, NEW s
  PROVE  /\ Woken(s) \in [Tasks -> {"none", "working", "woken", "parked", "gone", "revived"}]
         /\ \A t \in Tasks : Woken(s)[t] # "none" => t \in Subagents
BY DEF ChildInv, Woken

\* _finish keeps the record consistent, whoever calls it and however often.
LEMMA FinishInv ==
  ASSUME RecordInv, ChildInv, NEW t \in Tasks, NEW s \in Terminal, Finish(t, s), up' = up
  PROVE  RecordInv' /\ ChildInv' /\ Kept
<1>1. CASE status[t] \in Terminal /\ UNCHANGED <<record, child>>
  BY <1>1 DEF record, RecordInv, ChildInv, Kept
<1>2. CASE status[t] \notin Terminal /\ Ends(t, s) /\ disk' = [disk EXCEPT ![t] = s]
  <2>1. ChildInv'
    <3>1. child' = Woken(Parent[t])
      BY <1>2 DEF Ends
    <3>2. /\ child' \in [Tasks -> {"none", "working", "woken", "parked", "gone", "revived"}]
          /\ \A x \in Tasks : child'[x] # "none" => x \in Subagents
      BY <3>1, WokenType
    <3> QED  BY <3>2 DEF ChildInv
  <2>2. told[t] = <<>>
    BY <1>2 DEF RecordInv
  <2>3. told' = [told EXCEPT ![t] = <<s>>]
    BY <1>2, <2>2 DEF Ends, RecordInv
  <2>4. RecordInv'
    <3>1. /\ status' = [status EXCEPT ![t] = s] /\ disk' = [disk EXCEPT ![t] = s]
          /\ timer' = [timer EXCEPT ![t] = "none"] /\ s \in Statuses
      BY <1>2 DEF Ends, Statuses
    <3>2. /\ status' \in [Tasks -> Statuses] /\ disk' \in [Tasks -> Statuses]
          /\ timer' \in [Tasks -> {"none", "armed", "fired"}]
          /\ up # "stopping" => disk' = status'
      BY <3>1 DEF RecordInv
    <3>3. told' \in [Tasks -> {<<>>} \cup {<<x>> : x \in Terminal}]
      <4>1. <<s>> \in {<<x>> : x \in Terminal}
        OBVIOUS
      <4> QED  BY <2>3, <4>1 DEF RecordInv
    <3>4. \A x \in Tasks : told'[x] # <<>> => told'[x] = <<status'[x]>> /\ disk'[x] = status'[x]
      BY <2>3, <3>1 DEF RecordInv
    <3> QED  BY <3>2, <3>3, <3>4 DEF RecordInv
  <2>5. Kept
    BY <1>2 DEF Ends, Kept, RecordInv
  <2> QED  BY <2>1, <2>4, <2>5
<1> QED  BY <1>1, <1>2 DEF Finish

\* What most actions leave alone.
LEMMA RecordKept ==
  ASSUME RecordInv, UNCHANGED <<up, status, disk, told>>,
         timer' \in [Tasks -> {"none", "armed", "fired"}]
  PROVE  RecordInv' /\ Kept
BY DEF RecordInv, Kept

LEMMA DestroyedInv ==
  ASSUME ChildInv, SessionInv, NEW t \in Subagents, Destroyed(t)
  PROVE  /\ ChildInv'
         /\ intr' \in [Tasks -> BOOLEAN]
BY DEF ChildInv, SessionInv, Destroyed

LEMMA SayType ==
  ASSUME SessionInv, NEW t \in Tasks, NEW evs \in Seq(Outputs), Say(t, evs)
  PROVE  out' \in [Tasks -> Seq(Outputs)]
<1>1. out[t] \o evs \in Seq(Outputs)
  BY DEF SessionInv
<1> QED  BY <1>1 DEF SessionInv, Say

LEMMA StopType ==
  ASSUME SessionInv, NEW t \in Tasks
  PROVE  /\ Append(out[t], "stop") \in Seq(Outputs)
         /\ out[t] # <<>> => Head(out[t]) \in Outputs /\ Tail(out[t]) \in Seq(Outputs)
<1>1. out[t] \in Seq(Outputs) /\ "stop" \in Outputs
  BY DEF SessionInv, Outputs
<1> QED  BY <1>1

-----------------------------------------------------------------------------
(* cancel()                                                                *)

LEMMA CancelWaitsInv ==
  ASSUME IInv, NEW t \in Tasks, NEW s \in {"cancelled", "timed_out"}, CancelWaits(t, s),
         timer' \in [Tasks -> {"none", "armed", "fired"}],
         cancels' \in Nat
  PROVE  IInv' /\ Kept
<1>1. RecordInv' /\ Kept
  BY RecordKept DEF IInv, CancelWaits, runtime
<1>2. ChildInv' /\ SessionInv'
  BY DEF IInv, ChildInv, SessionInv, CancelWaits, HasSession
<1>3. CancelInv'
  BY DEF IInv, ChildInv, CancelInv, CancelWaits, HasSession
<1>4. BashInv' /\ RuntimeInv'
  BY DEF IInv, BashInv, RuntimeInv, CancelWaits, Killed, runtime
<1> QED  BY <1>1, <1>2, <1>3, <1>4 DEF IInv

LEMMA CancelAtOnceInv ==
  ASSUME IInv, NEW t \in Tasks, NEW s \in {"cancelled", "timed_out"}, CancelAtOnce(t, s),
         cancels' \in Nat
  PROVE  IInv' /\ Kept
<1>1. RecordInv' /\ ChildInv' /\ Kept
  BY FinishInv DEF IInv, CancelAtOnce, Terminal, runtime
<1>2. SessionInv'
  BY StopType DEF IInv, SessionInv, CancelAtOnce
<1>3. CancelInv' /\ BashInv' /\ RuntimeInv'
  BY DEF IInv, CancelInv, BashInv, RuntimeInv, CancelAtOnce, Killed, runtime
<1> QED  BY <1>1, <1>2, <1>3 DEF IInv

LEMMA CancelStep ==
  ASSUME IInv, NEW t \in Tasks, Cancel(t) \/ TimeoutCancel(t) \/ TimerFires(t)
  PROVE  IInv' /\ Kept
<1>1. CASE Cancel(t)
  <2>1. cancels' \in Nat /\ timer \in [Tasks -> {"none", "armed", "fired"}]
    BY <1>1 DEF Cancel, IInv, CancelInv, RecordInv
  <2> QED  BY <1>1, <2>1, CancelWaitsInv, CancelAtOnceInv DEF Cancel
<1>2. CASE TimeoutCancel(t)
  <2>1. cancels' \in Nat
        /\ [timer EXCEPT ![t] = "none"] \in [Tasks -> {"none", "armed", "fired"}]
    BY <1>2 DEF TimeoutCancel, IInv, CancelInv, RecordInv
  <2>2. CASE UNCHANGED <<status, disk, told, canceller, verdict, heard, sessions, bash, runtime>>
             /\ timer' = [timer EXCEPT ![t] = "none"]
    <3>1. RecordInv' /\ Kept
      BY <2>1, <2>2, RecordKept DEF IInv, runtime
    <3> QED  BY <2>1, <2>2, <3>1 DEF IInv, ChildInv, SessionInv, CancelInv, BashInv, RuntimeInv,
                                   sessions, bash, runtime
  <2> QED  BY <1>2, <2>1, <2>2, CancelWaitsInv, CancelAtOnceInv DEF TimeoutCancel
<1>3. CASE TimerFires(t)
  <2>1. RecordInv' /\ Kept
    BY <1>3, RecordKept DEF IInv, TimerFires, runtime, RecordInv
  <2> QED  BY <1>3, <2>1 DEF IInv, ChildInv, SessionInv, CancelInv, BashInv, RuntimeInv,
                   TimerFires, sessions, bash, runtime, cancelVars
<1> QED  BY <1>1, <1>2, <1>3

LEMMA CancellerStep ==
  ASSUME IInv, NEW t \in Tasks, Canceller(t) \/ CancelAborted(t)
  PROVE  IInv' /\ Kept
<1>1. CASE CancelDestroys(t)
  <2>1. t \in Subagents
    BY <1>1 DEF IInv, CancelInv, CancelDestroys
  <2>2. RecordInv' /\ Kept
    BY <1>1, RecordKept DEF IInv, CancelDestroys, record, runtime, RecordInv
  <2>3. ChildInv' /\ SessionInv'
    BY <1>1, <2>1, DestroyedInv DEF IInv, CancelDestroys, SessionInv
  <2> QED  BY <1>1, <2>2, <2>3 DEF IInv, CancelInv, BashInv, RuntimeInv, CancelDestroys,
                                 bash, runtime
<1>2. ASSUME canceller[t] # "none", Finish(t, verdict[t]), UNCHANGED runtime
      PROVE  RecordInv' /\ ChildInv' /\ Kept
  BY <1>2, FinishInv DEF IInv, CancelInv, Terminal, runtime
<1>3. CASE CancelDestroyed(t)
  <2>1. RecordInv' /\ ChildInv' /\ Kept
    BY <1>2, <1>3 DEF CancelDestroyed
  <2>2. SessionInv'
    BY <1>3, StopType DEF IInv, SessionInv, CancelDestroyed
  <2> QED  BY <1>3, <2>1, <2>2 DEF IInv, CancelInv, BashInv, RuntimeInv, CancelDestroyed,
                                 bash, runtime
<1>4. CASE ProcWaitEnds(t)
  <2>1. RecordInv' /\ ChildInv' /\ Kept
    BY <1>2, <1>4 DEF ProcWaitEnds
  <2> QED  BY <1>4, <2>1 DEF IInv, SessionInv, CancelInv, BashInv, RuntimeInv, ProcWaitEnds,
                           runtime
<1>5. CASE CancelRaises(t) \/ CancelAborted(t)
  <2>1. RecordInv' /\ Kept
    BY <1>5, RecordKept DEF IInv, CancelRaises, CancelAborted, record, runtime, RecordInv
  <2> QED  BY <1>5, <2>1 DEF IInv, ChildInv, SessionInv, CancelInv, BashInv, RuntimeInv,
                           CancelRaises, CancelAborted, sessions, runtime
<1> QED  BY <1>1, <1>3, <1>4, <1>5 DEF Canceller

-----------------------------------------------------------------------------
(* The child session and the bridge.                                       *)

LEMMA ChildStep ==
  ASSUME IInv, NEW t \in Subagents, Child(t)
  PROVE  IInv' /\ Kept
<1>0. t \in Tasks /\ <<"event">> \in Seq(Outputs) /\ <<"final">> \in Seq(Outputs)
      /\ <<"error", "idle">> \in Seq(Outputs) /\ <<"idle">> \in Seq(Outputs)
  BY DEF Tasks, Outputs
<1>1. UNCHANGED <<cancelVars, bash, runtime, record>>
  BY DEF Child, ChildReports, ChildEnds, ChildInterrupted, ChildSwept
<1>2. RecordInv' /\ Kept /\ CancelInv' /\ BashInv' /\ RuntimeInv'
  BY <1>1, RecordKept DEF IInv, RecordInv, CancelInv, BashInv, RuntimeInv, cancelVars, bash,
                          runtime, record
<1>3. ChildInv' /\ SessionInv'
  <2>1. CASE ChildReports(t)
    BY <1>0, <2>1, SayType DEF IInv, ChildInv, SessionInv, ChildReports
  <2>2. CASE ChildEnds(t)
    BY <1>0, <2>2, SayType DEF IInv, ChildInv, SessionInv, ChildEnds
  <2>3. CASE ChildInterrupted(t)
    <3>1. out' \in [Tasks -> Seq(Outputs)]
      BY <1>0, <2>3, SayType DEF IInv, SessionInv, ChildInterrupted
    <3> QED  BY <1>0, <2>3, <3>1 DEF IInv, ChildInv, SessionInv, ChildInterrupted
  <2>4. CASE ChildSwept(t)
    BY <2>4, DestroyedInv DEF IInv, SessionInv, ChildSwept
  <2> QED  BY <2>1, <2>2, <2>3, <2>4 DEF Child
<1> QED  BY <1>2, <1>3 DEF IInv

LEMMA BridgeStep ==
  ASSUME IInv, NEW t \in Subagents, Bridge(t)
  PROVE  IInv' /\ Kept
<1>0. t \in Tasks
  BY DEF Tasks
<1>1. CASE BridgeTakes(t)
  <2>1. UNCHANGED <<canceller, verdict, cancels, intr, bash, runtime>>
    BY <1>1 DEF BridgeTakes
  <2>2. out' \in [Tasks -> Seq(Outputs)]
    BY <1>0, <1>1, StopType DEF IInv, SessionInv, BridgeTakes
  <2>3. ASSUME UNCHANGED <<record, child>> PROVE RecordInv' /\ ChildInv' /\ Kept
    BY <2>1, <2>3 DEF IInv, RecordInv, ChildInv, Kept, record, runtime
  <2>4. ASSUME NEW s \in {"completed", "failed"}, Finish(t, s)
        PROVE  RecordInv' /\ ChildInv' /\ Kept
    BY <1>0, <2>1, <2>4, FinishInv DEF IInv, Terminal, runtime
  <2>5. RecordInv' /\ ChildInv' /\ Kept
    BY <1>1, <2>3, <2>4 DEF BridgeTakes, BridgeForwards, BridgeDone
  <2>6. bridge' \in [Tasks -> {"none", "get", "emit", "finishing", "exited"}]
        /\ heard' \subseteq Subagents
    BY <1>0, <1>1 DEF IInv, SessionInv, CancelInv, BridgeTakes, BridgeForwards, BridgeDone
  <2> QED  BY <2>1, <2>2, <2>5, <2>6 DEF IInv, SessionInv, CancelInv, BashInv, RuntimeInv,
                                       bash, runtime
<1>2. CASE BridgeEmitted(t)
  <2>1. RecordInv' /\ Kept
    BY <1>2, RecordKept DEF IInv, BridgeEmitted, record, runtime, RecordInv
  <2> QED  BY <1>0, <1>2, <2>1 DEF IInv, ChildInv, SessionInv, CancelInv, BashInv, RuntimeInv,
                                 BridgeEmitted, bash, cancelVars, runtime
<1>3. CASE BridgeFinished(t)
  <2>1. RecordInv' /\ Kept
    BY <1>3, RecordKept DEF IInv, BridgeFinished, record, runtime, RecordInv
  <2>2. ChildInv' /\ SessionInv'
    BY <1>0, <1>3, DestroyedInv DEF IInv, BridgeFinished, SessionInv
  <2> QED  BY <1>3, <2>1, <2>2 DEF IInv, CancelInv, BashInv, RuntimeInv, BridgeFinished, bash,
                                 cancelVars, runtime
<1> QED  BY <1>1, <1>2, <1>3 DEF Bridge

-----------------------------------------------------------------------------
(* start(), _run() and the shell process.                                  *)

LEMMA StartStep ==
  ASSUME IInv, NEW t \in Tasks, Start(t)
  PROVE  IInv' /\ Kept
<1>1. told[t] = <<>> /\ status[t] \notin Terminal
  BY DEF Start, IInv, RecordInv, Terminal
<1>2. RecordInv' /\ Kept
  BY <1>1 DEF Start, IInv, RecordInv, Statuses, Kept, runtime
<1>3. ChildInv' /\ SessionInv' /\ CancelInv'
  BY DEF Start, IInv, ChildInv, SessionInv, CancelInv, cancelVars
<1>4. BashInv' /\ RuntimeInv'
  BY DEF Start, IInv, BashInv, RuntimeInv, runtime
<1> QED  BY <1>2, <1>3, <1>4 DEF IInv

LEMMA BashStep ==
  ASSUME IInv, NEW t \in Tasks, Spawned(t) \/ ProcExits(t) \/ RunOf(t)
  PROVE  IInv' /\ Kept
<1>1. CASE RunFinishes(t)
  <2>1. RecordInv' /\ ChildInv' /\ Kept
    BY <1>1, FinishInv DEF IInv, RunFinishes, Terminal, runtime
  <2> QED  BY <1>1, <2>1 DEF IInv, SessionInv, CancelInv, BashInv, RuntimeInv, RunFinishes,
                           cancelVars, runtime
<1>2. CASE Spawned(t) \/ ProcExits(t) \/ RunCollects(t) \/ RunReturns(t)
  <2>1. UNCHANGED <<sessions, cancelVars, record, runtime>>
    BY <1>2 DEF Spawned, ProcExits, RunCollects, RunReturns
  <2>2. RecordInv' /\ Kept
    BY <2>1, RecordKept DEF IInv, record, runtime, RecordInv
  <2>3. BashInv'
    BY <1>2 DEF IInv, BashInv, Spawned, ProcExits, RunCollects, RunReturns
  <2> QED  BY <2>1, <2>2, <2>3 DEF IInv, ChildInv, SessionInv, CancelInv, RuntimeInv, sessions,
                                 cancelVars, runtime
<1> QED  BY <1>1, <1>2 DEF RunOf

-----------------------------------------------------------------------------
(* shutdown(), the end of the process, the restart.                        *)

LEMMA ShutdownVisitsInv ==
  ASSUME IInv, NEW t \in Tasks, ShutdownVisits(t)
  PROVE  IInv' /\ Kept
<1>1. Kept
  BY DEF ShutdownVisits, Kept
<1>2. RecordInv'
  <2>1. CASE UNCHANGED <<status, disk>>
    BY <2>1 DEF IInv, RecordInv, ShutdownVisits
  <2>2. CASE status[t] = "running" /\ status' = [status EXCEPT ![t] = "cancelled"]
             /\ disk' \in {disk, [disk EXCEPT ![t] = "cancelled"]}
    <3>1. told[t] = <<>>
      BY <2>2 DEF IInv, RecordInv, Terminal
    <3> QED  BY <2>2, <3>1 DEF IInv, RecordInv, ShutdownVisits, Statuses, Terminal
  <2> QED  BY <2>1, <2>2 DEF ShutdownVisits
<1>3. ChildInv' /\ SessionInv' /\ CancelInv'
  BY StopType DEF IInv, ChildInv, SessionInv, CancelInv, ShutdownVisits, cancelVars
<1>4. BashInv' /\ RuntimeInv'
  BY DEF IInv, BashInv, RuntimeInv, ShutdownVisits, Killed, RunHeld
<1> QED  BY <1>1, <1>2, <1>3, <1>4 DEF IInv

LEMMA RuntimeStep ==
  ASSUME IInv, Runtime
  PROVE  IInv' /\ Kept
<1>1. CASE ShutdownBegins
  <2>1. RecordInv' /\ Kept
    BY <1>1 DEF IInv, RecordInv, ShutdownBegins, Kept
  <2> QED  BY <1>1, <2>1 DEF IInv, ChildInv, SessionInv, CancelInv, BashInv, RuntimeInv,
                           ShutdownBegins, sessions, bash, cancelVars
<1>2. CASE ShutdownWaited
  <2>1. RecordInv' /\ Kept
    BY <1>2 DEF IInv, RecordInv, RuntimeInv, ShutdownWaited, Kept, Tasks
  <2>2. BashInv' /\ RuntimeInv'
    BY <1>2 DEF IInv, BashInv, RuntimeInv, ShutdownWaited
  <2> QED  BY <1>2, <2>1, <2>2 DEF IInv, ChildInv, SessionInv, CancelInv, ShutdownWaited,
                                 sessions, cancelVars
<1>3. CASE GoesDown
  <2>1. RecordInv' /\ Kept
    BY <1>3 DEF IInv, RecordInv, GoesDown, Kept
  <2>2. SessionInv'
    <3>1. <<>> \in Seq(Outputs)
      OBVIOUS
    <3> QED  BY <1>3, <3>1 DEF SessionInv, GoesDown
  <2>3. ChildInv' /\ CancelInv' /\ BashInv' /\ RuntimeInv'
    BY <1>3 DEF IInv, ChildInv, CancelInv, BashInv, RuntimeInv, GoesDown
  <2> QED  BY <2>1, <2>2, <2>3 DEF IInv
<1>4. CASE Restart
  <2>1. RecordInv' /\ Kept
    BY <1>4 DEF IInv, RecordInv, Restart, Reloaded, Kept, Statuses, Terminal
  <2> QED  BY <1>4, <2>1 DEF IInv, ChildInv, SessionInv, CancelInv, BashInv, RuntimeInv,
                           Restart, sessions, bash, cancelVars
<1> QED  BY <1>1, <1>2, <1>3, <1>4 DEF Runtime

LEMMA StepInv == IInv /\ [Next]_vars => IInv' /\ (Kept \/ UNCHANGED vars)
<1> SUFFICES ASSUME IInv, [Next]_vars PROVE IInv' /\ (Kept \/ UNCHANGED vars)
  OBVIOUS
<1>1. CASE UNCHANGED vars
  BY <1>1 DEF vars, sessions, bash, cancelVars, record, runtime, IInv, RecordInv, ChildInv,
              SessionInv, CancelInv, BashInv, RuntimeInv
<1>2. CASE Next
  BY <1>2, CancelStep, CancellerStep, ChildStep, BridgeStep, StartStep, BashStep,
     ShutdownVisitsInv, RuntimeStep DEF Next
<1> QED  BY <1>1, <1>2

LEMMA Invariance == Spec => []IInv
BY InitInv, StepInv, PTL DEF Spec

\* Type correctness for any tasks and any nesting: in particular a parent is told
\* of a task at most once.
THEOREM TypeCorrect == Spec => []TypeOK
<1>1. IInv => TypeOK
  BY DEF IInv, RecordInv, ChildInv, SessionInv, CancelInv, BashInv, RuntimeInv, TypeOK
<1> QED  BY <1>1, Invariance, PTL

\* What a parent was told of a task stays the truth, through cancels, timeouts,
\* crashes, shutdowns and restarts.
THEOREM ToldIsTrue == Spec => []ToldTheOutcome
<1>1. IInv => ToldTheOutcome
  BY DEF IInv, RecordInv, ToldTheOutcome
<1> QED  BY <1>1, Invariance, PTL

\* While the runtime is up, the outcome of a task that has ended never changes,
\* whatever cancel(), timeout, bridge and _run() do at the same time.
THEOREM OutcomeStable == Spec => TerminalStable
<1>1. IInv /\ [Next]_vars
      => [\A t \in Tasks : up = "up" /\ status[t] \in Terminal => status'[t] = status[t]]_vars
  BY StepInv DEF Kept
<1> QED  BY <1>1, Invariance, PTL DEF Spec, TerminalStable
=============================================================================
