------------------------------ MODULE AsyncTask ------------------------------
(***************************************************************************)
(* AsyncTaskManager and AsyncTaskBridge (core/async_task.py): tasks forked *)
(* in the background, either a subagent (a child session whose output a    *)
(* bridge reads) or a long shell command, with one cancel path for users,  *)
(* agents and timeouts, a record on disk and a shutdown.                   *)
(*                                                                         *)
(* An action is the code between two suspension points.  The child session *)
(* (a LoopEngine) and the shell process are environment; task records,     *)
(* texts, events for the UI and the ring buffer are left out.  A wait with *)
(* a timeout may end by it at any time.  A record and the message to the   *)
(* parent are one step of _finish: write_text of a record is atomic, and   *)
(* nothing stops between the two but the creation of the parent's session. *)
(* _cancelling, _bridges, _bash_procs and _bash_tasks are not variables:   *)
(* their members follow from the pcs.                                      *)
(***************************************************************************)
EXTENDS Integers, Sequences, FiniteSets

CONSTANTS
  Subagents,    \* tasks of kind "subagent"
  Bashes,       \* tasks of kind "bash_long"
  Main,         \* a client's session
  Parent,       \* the session that forks each task: Main, or a subagent's child
  Faults,       \* which of the rare faults may happen
  MaxEvents,    \* bound: unread events of a child
  MaxCancels,   \* bound: cancels by agents and users
  MaxDowns      \* bound: times the runtime goes down

Tasks == Subagents \cup Bashes

ASSUME TasksAssumption == Subagents \cap Bashes = {} /\ Main \notin Tasks
ASSUME ParentAssumption == Parent \in [Tasks -> Subagents \cup {Main}]
ASSUME BoundsAssumption == MaxEvents \in Nat /\ MaxCancels \in Nat /\ MaxDowns \in Nat
ASSUME FaultsAssumption == Faults \subseteq {"spawn", "abort"}

VARIABLES
  up,         \* the runtime: "up", "stopping" or "down"
  downs,      \* times it went down
  status,     \* task.status, "none" before start()
  disk,       \* the status in task.json
  told,       \* the outcomes announced to the parent's session
  timer,      \* the timeout handle
  canceller,  \* where the cancel() in progress for the task is suspended
  verdict,    \* the status that cancel() will give
  cancels,    \* cancels by agents and users so far
  heard,      \* tasks whose _idle_events entry is set
  child,      \* the child session of a subagent
  intr,       \* the child has cancel()'s interrupt in its queue
  out,        \* the child's output_q
  bridge,     \* where the bridge is suspended
  run,        \* where _run() of a bash task is suspended
  proc,       \* the shell process
  toStop,     \* tasks shutdown() has still to visit
  stopping    \* the bash task shutdown() waits for, or Main

sessions == <<child, intr, out, bridge>>
bash == <<run, proc>>
cancelVars == <<canceller, verdict, heard, cancels>>
record == <<status, disk, told, timer>>
runtime == <<up, downs, toStop, stopping>>
vars == <<sessions, bash, cancelVars, record, runtime>>

Terminal == {"completed", "failed", "cancelled", "timed_out", "interrupted"}

Init ==
  /\ up = "up" /\ downs = 0
  /\ status = [t \in Tasks |-> "none"] /\ disk = [t \in Tasks |-> "none"]
  /\ told = [t \in Tasks |-> <<>>] /\ timer = [t \in Tasks |-> "none"]
  /\ canceller = [t \in Tasks |-> "none"] /\ verdict = [t \in Tasks |-> "none"]
  /\ heard = {} /\ cancels = 0
  /\ child = [t \in Tasks |-> "none"] /\ intr = [t \in Tasks |-> FALSE]
  /\ out = [t \in Tasks |-> <<>>] /\ bridge = [t \in Tasks |-> "none"]
  /\ run = [t \in Tasks |-> "none"] /\ proc = [t \in Tasks |-> "none"]
  /\ toStop = {} /\ stopping = Main

Cancelling(t) == canceller[t] # "none" \/ stopping = t     \* t in _cancelling
HasSession(t) == child[t] \notin {"none", "gone"}

-----------------------------------------------------------------------------
(* start(), _finish() and the timeout handle.                              *)

Start(t) ==
  /\ up # "down" /\ status[t] = "none"
  /\ Parent[t] \in {Main} \cup {s \in Subagents : child[s] \in {"working", "woken", "revived"}}
  /\ status' = [status EXCEPT ![t] = "running"]
  /\ disk' = [disk EXCEPT ![t] = "running"]
  /\ timer' = [timer EXCEPT ![t] = "armed"]
  /\ \/ /\ t \in Subagents
        /\ child' = [child EXCEPT ![t] = "working"]
        /\ bridge' = [bridge EXCEPT ![t] = "get"]
        /\ UNCHANGED run
     \/ /\ t \in Bashes
        /\ run' = [run EXCEPT ![t] = "spawn"]
        /\ UNCHANGED <<child, bridge>>
  /\ UNCHANGED <<told, cancelVars, intr, out, proc, runtime>>

\* A session gets a message (SessionManager.dispatch_inbound): a child takes it up,
\* in a turn of its own or beside its task's, and one that was destroyed is created again.
Woken(s) ==
  [t \in Tasks |-> IF t # s THEN child[t]
                   ELSE CASE child[t] \in {"working", "parked"} -> "woken"
                          [] child[t] = "gone" -> "revived"
                          [] OTHER             -> child[t]]

Ends(t, s) ==
  /\ status' = [status EXCEPT ![t] = s]
  /\ timer' = [timer EXCEPT ![t] = "none"]
  /\ told' = [told EXCEPT ![t] = Append(@, s)]
  /\ child' = Woken(Parent[t])

\* Bug form of Finish: no test whether the task has ended already.
Finish_NoGuard(t, s) == Ends(t, s) /\ disk' = [disk EXCEPT ![t] = s]

\* Bug form of Finish: the final status is not saved.
Finish_NoPersist(t, s) ==
  \/ status[t] \in Terminal /\ UNCHANGED <<record, child>>
  \/ status[t] \notin Terminal /\ Ends(t, s) /\ UNCHANGED disk

\* _finish: the status, the timer, task.json, and the message to the parent.
Finish(t, s) ==
  \/ status[t] \in Terminal /\ UNCHANGED <<record, child>>
  \/ status[t] \notin Terminal /\ Ends(t, s) /\ disk' = [disk EXCEPT ![t] = s]

\* _on_timer: cancel() becomes an asyncio task of its own.
TimerFires(t) ==
  /\ up # "down" /\ timer[t] = "armed"
  /\ timer' = [timer EXCEPT ![t] = IF status[t] \in Terminal THEN "none" ELSE "fired"]
  /\ UNCHANGED <<status, disk, told, cancelVars, sessions, bash, runtime>>

-----------------------------------------------------------------------------
(* cancel().                                                               *)

Open(t) == up # "down" /\ status[t] = "running" /\ ~Cancelling(t)

\* _cancel_bash's kill of the process group, when the process is known.
Killed(t) == [proc EXCEPT ![t] = IF @ = "alive" THEN "dead" ELSE @]

\* _bash_tasks still holds the task of _run().
RunHeld(t) == t \in Bashes /\ run[t] # "returned"

\* cancel() has something to wait for: the child's idle, or the end of _run().
CancelWaits(t, s) ==
  /\ Open(t)
  /\ verdict' = [verdict EXCEPT ![t] = s]
  /\ heard' = heard \ {t}
  /\ \/ /\ RunHeld(t)
        /\ proc' = Killed(t)
        /\ canceller' = [canceller EXCEPT ![t] = "procwait"]
        /\ UNCHANGED intr
     \/ /\ HasSession(t)
        /\ intr' = [intr EXCEPT ![t] = TRUE]
        /\ canceller' = [canceller EXCEPT ![t] = "idlewait"]
        /\ UNCHANGED proc
  /\ UNCHANGED <<status, disk, told, child, out, bridge, run, runtime>>

CancelAtOnce(t, s) ==
  /\ Open(t) /\ ~RunHeld(t) /\ ~HasSession(t)
  /\ proc' = Killed(t)
  /\ out' = [out EXCEPT ![t] = IF t \in Subagents THEN Append(@, "stop") ELSE @]
  /\ Finish(t, s)
  /\ UNCHANGED <<canceller, verdict, heard, intr, bridge, run, runtime>>

\* An agent's cancel_task, or a user's async_task_cancel.
Cancel(t) ==
  /\ cancels < MaxCancels
  /\ cancels' = cancels + 1
  /\ \/ CancelWaits(t, "cancelled") /\ UNCHANGED timer
     \/ CancelAtOnce(t, "cancelled")

\* The timeout's cancel(), which gives way to one that is in progress.
TimeoutCancel(t) ==
  /\ up # "down" /\ timer[t] = "fired"
  /\ \/ CancelWaits(t, "timed_out") /\ timer' = [timer EXCEPT ![t] = "none"]
     \/ CancelAtOnce(t, "timed_out")
     \/ /\ ~Open(t)
        /\ timer' = [timer EXCEPT ![t] = "none"]
        /\ UNCHANGED <<status, disk, told, canceller, verdict, heard, sessions, bash, runtime>>
  /\ UNCHANGED cancels

\* destroy_session: run() of the child is cancelled, a react of its is not.
Destroyed(t) ==
  /\ child' = [child EXCEPT ![t] = "gone"]
  /\ intr' = [intr EXCEPT ![t] = FALSE]

\* Bug form of CancelDestroys: the wait for idle has no timeout.
CancelDestroys_NoTimeout(t) ==
  /\ up # "down" /\ canceller[t] = "idlewait" /\ t \in heard
  /\ canceller' = [canceller EXCEPT ![t] = "destroy"]
  /\ Destroyed(t)
  /\ UNCHANGED <<verdict, heard, cancels, out, bridge, record, bash, runtime>>

\* The bridge has heard idle; or IDLE_WAIT_SEC have passed, whatever the child does.
CancelDestroys(t) ==
  /\ up # "down" /\ canceller[t] = "idlewait"
  /\ canceller' = [canceller EXCEPT ![t] = "destroy"]
  /\ Destroyed(t)
  /\ UNCHANGED <<verdict, heard, cancels, out, bridge, record, bash, runtime>>

\* Bug form of CancelDestroyed: the bridge is not told to stop.
CancelDestroyed_NoStop(t) ==
  /\ up # "down" /\ canceller[t] = "destroy"
  /\ canceller' = [canceller EXCEPT ![t] = "none"]
  /\ Finish(t, verdict[t])
  /\ UNCHANGED <<verdict, heard, cancels, out, intr, bridge, bash, runtime>>

\* destroy_session has returned: the bridge's sentinel, then _finish.
CancelDestroyed(t) ==
  /\ up # "down" /\ canceller[t] = "destroy"
  /\ canceller' = [canceller EXCEPT ![t] = "none"]
  /\ out' = [out EXCEPT ![t] = Append(@, "stop")]
  /\ Finish(t, verdict[t])
  /\ UNCHANGED <<verdict, heard, cancels, intr, bridge, bash, runtime>>

\* _run() has ended, or 5 s passed and wait_for has cancelled it.
ProcWaitEnds(t) ==
  /\ up # "down" /\ canceller[t] = "procwait" /\ run[t] # "failed"
  /\ run' = [run EXCEPT ![t] = "returned"]
  /\ canceller' = [canceller EXCEPT ![t] = "none"]
  /\ Finish(t, verdict[t])
  /\ UNCHANGED <<verdict, heard, cancels, intr, out, bridge, proc, runtime>>

\* wait_for raises what _run() raised: cancel() ends there.
CancelRaises(t) ==
  /\ up # "down" /\ canceller[t] = "procwait" /\ run[t] = "failed"
  /\ run' = [run EXCEPT ![t] = "returned"]
  /\ canceller' = [canceller EXCEPT ![t] = "none"]
  /\ UNCHANGED <<verdict, heard, cancels, record, sessions, proc, runtime>>

\* The tool call or the connection that called cancel() is itself cancelled.
CancelAborted(t) ==
  /\ "abort" \in Faults /\ up # "down" /\ verdict[t] = "cancelled"
  /\ canceller[t] \in {"idlewait", "procwait"}
  /\ canceller' = [canceller EXCEPT ![t] = "none"]
  /\ run' = [run EXCEPT ![t] = IF canceller[t] = "procwait" THEN "returned" ELSE @]
  /\ UNCHANGED <<verdict, heard, cancels, record, sessions, proc, runtime>>

-----------------------------------------------------------------------------
(* The child session of a subagent (a LoopEngine) and its bridge.          *)

Say(t, evs) == out' = [out EXCEPT ![t] = @ \o evs]

\* Tokens, tool events, status changes other than idle.
ChildReports(t) ==
  /\ up # "down" /\ child[t] \in {"working", "woken"} /\ Len(out[t]) < MaxEvents
  /\ Say(t, <<"event">>)
  /\ UNCHANGED <<child, intr, bridge, bash, cancelVars, record, runtime>>

\* The turn ends with a FinalMessage, or with an ErrorEvent and idle.
ChildEnds(t) ==
  /\ up # "down" /\ child[t] \in {"working", "woken"}
  /\ child' = [child EXCEPT ![t] = "parked"]
  /\ Say(t, <<"final">>) \/ Say(t, <<"error", "idle">>)
  /\ UNCHANGED <<intr, bridge, bash, cancelVars, record, runtime>>

\* An interrupt ends the turn, if there is one, and idle is reported.  A session
\* created again writes to a queue of its own, which no bridge reads.
ChildInterrupted(t) ==
  /\ up # "down" /\ HasSession(t) /\ intr[t]
  /\ intr' = [intr EXCEPT ![t] = FALSE]
  /\ child' = [child EXCEPT ![t] = IF @ = "revived" THEN @ ELSE "parked"]
  /\ IF child[t] = "revived" THEN UNCHANGED out ELSE Say(t, <<"idle">>)
  /\ UNCHANGED <<bridge, bash, cancelVars, record, runtime>>

\* The idle sweeper, minutes after the last message: no cancel() is in progress
\* and the bridge has caught up.
ChildSwept(t) ==
  /\ up # "down" /\ child[t] \in {"parked", "revived"} /\ canceller[t] = "none"
  /\ bridge[t] = "exited" \/ (bridge[t] = "get" /\ out[t] = <<>>)
  /\ Destroyed(t)
  /\ UNCHANGED <<out, bridge, bash, cancelVars, record, runtime>>

\* Bug form of Answered: any event of the child is taken for its idle.
Answered_AnyEvent(t) == canceller[t] = "idlewait"

\* The event is the idle a cancel() waits for.
Answered(t) == Head(out[t]) = "idle" /\ canceller[t] = "idlewait"

\* _on_child_event: nothing of a task that has ended is passed on.
BridgeForwards(t) ==
  /\ Head(out[t]) \in {"event", "idle"}
  /\ \/ status[t] \in Terminal /\ UNCHANGED <<bridge, heard>>
     \/ /\ status[t] \notin Terminal
        /\ bridge' = [bridge EXCEPT ![t] = "emit"]
        /\ heard' = heard \cup (IF Answered(t) THEN {t} ELSE {})
  /\ UNCHANGED <<record, child>>

\* _on_child_done: an outcome that comes too late, or during a cancel(), is dropped.
BridgeDone(t) ==
  /\ Head(out[t]) \in {"final", "error"}
  /\ \/ /\ status[t] \in Terminal \/ Cancelling(t)
        /\ bridge' = [bridge EXCEPT ![t] = "exited"]
        /\ UNCHANGED <<record, child>>
     \/ /\ status[t] \notin Terminal /\ ~Cancelling(t)
        /\ bridge' = [bridge EXCEPT ![t] = "finishing"]
        /\ Finish(t, IF Head(out[t]) = "final" THEN "completed" ELSE "failed")
  /\ UNCHANGED heard

BridgeTakes(t) ==
  /\ up # "down" /\ bridge[t] = "get" /\ out[t] # <<>>
  /\ out' = [out EXCEPT ![t] = Tail(@)]
  /\ \/ BridgeForwards(t)
     \/ BridgeDone(t)
     \/ /\ Head(out[t]) = "stop"
        /\ bridge' = [bridge EXCEPT ![t] = "exited"]
        /\ UNCHANGED <<heard, record, child>>
  /\ UNCHANGED <<canceller, verdict, cancels, intr, bash, runtime>>

\* The subscribers have been sent the event.
BridgeEmitted(t) ==
  /\ up # "down" /\ bridge[t] = "emit"
  /\ bridge' = [bridge EXCEPT ![t] = "get"]
  /\ UNCHANGED <<child, intr, out, bash, cancelVars, record, runtime>>

\* _finish has returned: the child's session is destroyed.
BridgeFinished(t) ==
  /\ up # "down" /\ bridge[t] = "finishing"
  /\ bridge' = [bridge EXCEPT ![t] = "exited"]
  /\ Destroyed(t)
  /\ UNCHANGED <<out, bash, cancelVars, record, runtime>>

-----------------------------------------------------------------------------
(* _run(), and the shell process of a bash task.                           *)

\* create_subprocess_shell returns, or raises.
Spawned(t) ==
  /\ up # "down" /\ run[t] = "spawn"
  /\ \/ /\ run' = [run EXCEPT ![t] = "communicate"]
        /\ proc' = [proc EXCEPT ![t] = "alive"]
     \/ /\ "spawn" \in Faults
        /\ run' = [run EXCEPT ![t] = "failed"]
        /\ UNCHANGED proc
  /\ UNCHANGED <<sessions, cancelVars, record, runtime>>

ProcExits(t) ==
  /\ proc[t] = "alive"
  /\ proc' = [proc EXCEPT ![t] = "dead"]
  /\ UNCHANGED <<run, sessions, cancelVars, record, runtime>>

\* communicate() returns: the output is sent, unless the task was killed.
RunCollects(t) ==
  /\ up # "down" /\ run[t] = "communicate" /\ proc[t] = "dead"
  /\ run' = [run EXCEPT ![t] = IF Cancelling(t) \/ status[t] \in Terminal
                               THEN "returned" ELSE "emit"]
  /\ UNCHANGED <<proc, sessions, cancelVars, record, runtime>>

\* The output was sent: _finish, by the exit code.
RunFinishes(t) ==
  /\ up # "down" /\ run[t] = "emit"
  /\ run' = [run EXCEPT ![t] = "finishing"]
  /\ \E s \in {"completed", "failed"} : Finish(t, s)
  /\ UNCHANGED <<proc, intr, out, bridge, cancelVars, runtime>>

RunReturns(t) ==
  /\ up # "down" /\ run[t] = "finishing"
  /\ run' = [run EXCEPT ![t] = "returned"]
  /\ UNCHANGED <<proc, sessions, cancelVars, record, runtime>>

-----------------------------------------------------------------------------
(* shutdown(), the end of the process, and load_from_disk.                 *)

ShutdownBegins ==
  /\ up = "up" /\ downs < MaxDowns
  /\ up' = "stopping"
  /\ toStop' = {t \in Tasks : status[t] # "none"}
  /\ timer' = [t \in Tasks |-> IF timer[t] = "armed" THEN "none" ELSE timer[t]]
  /\ UNCHANGED <<downs, stopping, status, disk, told, cancelVars, sessions, bash>>

\* The loop reaches task t.  A bash task is killed and waited for before its
\* record is saved.
ShutdownVisits(t) ==
  /\ up = "stopping" /\ stopping = Main /\ t \in toStop
  /\ toStop' = toStop \ {t}
  /\ \/ /\ status[t] \in Terminal
        /\ UNCHANGED <<status, disk, out, proc, stopping>>
     \/ /\ status[t] = "running"
        /\ status' = [status EXCEPT ![t] = "cancelled"]
        /\ proc' = Killed(t)
        /\ IF RunHeld(t) /\ canceller[t] = "none"
           THEN stopping' = t /\ UNCHANGED <<disk, out>>
           ELSE /\ disk' = [disk EXCEPT ![t] = "cancelled"]
                /\ out' = [out EXCEPT ![t] = IF t \in Subagents THEN Append(@, "stop") ELSE @]
                /\ UNCHANGED stopping
  /\ UNCHANGED <<up, downs, told, timer, cancelVars, child, intr, bridge, run>>

\* _cancel_bash has returned, or raised: its errors are suppressed here.
ShutdownWaited ==
  /\ up = "stopping" /\ stopping # Main
  /\ run' = [run EXCEPT ![stopping] = "returned"]
  /\ disk' = [disk EXCEPT ![stopping] = status[stopping]]
  /\ stopping' = Main
  /\ UNCHANGED <<up, downs, toStop, status, told, timer, cancelVars, sessions, proc>>

\* The process ends, killed or at the end of shutdown().  What is on disk stays,
\* and so do the shell processes.
GoesDown ==
  /\ up # "down" /\ downs < MaxDowns
  /\ up' = "down" /\ downs' = downs + 1
  /\ status' = disk
  /\ timer' = [t \in Tasks |-> "none"]
  /\ canceller' = [t \in Tasks |-> "none"] /\ verdict' = [t \in Tasks |-> "none"]
  /\ heard' = {} /\ toStop' = {} /\ stopping' = Main
  /\ child' = [t \in Tasks |-> IF child[t] = "none" THEN "none" ELSE "gone"]
  /\ intr' = [t \in Tasks |-> FALSE]
  /\ out' = [t \in Tasks |-> <<>>] /\ bridge' = [t \in Tasks |-> "none"]
  /\ run' = [t \in Tasks |-> "none"]
  /\ UNCHANGED <<disk, told, cancels, proc>>

\* Bug form of Reloaded: no test whether the task has ended.
Reloaded_All(s) == IF s = "none" THEN s ELSE "interrupted"

\* load_from_disk: the child or the process of a running task is out of reach.
Reloaded(s) == IF s = "running" THEN "interrupted" ELSE s

Restart ==
  /\ up = "down"
  /\ up' = "up"
  /\ status' = [t \in Tasks |-> Reloaded(disk[t])]
  /\ disk' = [t \in Tasks |-> Reloaded(disk[t])]
  /\ UNCHANGED <<downs, toStop, stopping, told, timer, cancelVars, sessions, bash>>

-----------------------------------------------------------------------------
Canceller(t) == CancelDestroys(t) \/ CancelDestroyed(t) \/ ProcWaitEnds(t) \/ CancelRaises(t)
Bridge(t) == BridgeTakes(t) \/ BridgeEmitted(t) \/ BridgeFinished(t)
Child(t) == ChildReports(t) \/ ChildEnds(t) \/ ChildInterrupted(t) \/ ChildSwept(t)
RunOf(t) == RunCollects(t) \/ RunFinishes(t) \/ RunReturns(t)

Runtime == ShutdownBegins \/ ShutdownWaited \/ GoesDown \/ Restart

Next ==
  \/ Runtime
  \/ \E t \in Tasks :
       \/ Start(t) \/ Cancel(t) \/ TimerFires(t) \/ TimeoutCancel(t) \/ Canceller(t)
       \/ CancelAborted(t) \/ Spawned(t) \/ ProcExits(t) \/ RunOf(t) \/ ShutdownVisits(t)
  \/ \E t \in Subagents : Bridge(t) \/ Child(t)

Spec == Init /\ [][Next]_vars

\* The event loop runs what is ready, time passes, and an engine takes its
\* interrupts.  Nothing is assumed of the LLM or of the shell command.
Scheduling ==
  \A t \in Tasks :
    /\ WF_vars(TimerFires(t)) /\ WF_vars(TimeoutCancel(t)) /\ WF_vars(Canceller(t))
    /\ WF_vars(Bridge(t)) /\ WF_vars(ChildInterrupted(t))
    /\ WF_vars(Spawned(t)) /\ WF_vars(RunOf(t))

FairSpec == Spec /\ Scheduling

-----------------------------------------------------------------------------
(* Properties.                                                             *)

Statuses == Terminal \cup {"none", "running"}
Outputs == {"event", "idle", "final", "error", "stop"}

\* Types; a parent is sent the outcome of a task at most once.
TypeOK ==
  /\ up \in {"up", "stopping", "down"} /\ downs \in Nat /\ cancels \in Nat
  /\ status \in [Tasks -> Statuses] /\ disk \in [Tasks -> Statuses]
  /\ told \in [Tasks -> {<<>>} \cup {<<s>> : s \in Terminal}]
  /\ timer \in [Tasks -> {"none", "armed", "fired"}]
  /\ canceller \in [Tasks -> {"none", "idlewait", "destroy", "procwait"}]
  /\ verdict \in [Tasks -> {"none", "cancelled", "timed_out"}]
  /\ heard \subseteq Subagents
  /\ child \in [Tasks -> {"none", "working", "woken", "parked", "gone", "revived"}]
  /\ intr \in [Tasks -> BOOLEAN] /\ out \in [Tasks -> Seq(Outputs)]
  /\ bridge \in [Tasks -> {"none", "get", "emit", "finishing", "exited"}]
  /\ run \in [Tasks -> {"none", "spawn", "communicate", "emit", "finishing",
                        "returned", "failed"}]
  /\ proc \in [Tasks -> {"none", "alive", "dead"}]
  /\ toStop \subseteq Tasks /\ stopping \in Bashes \cup {Main}

\* A task ends once: whatever cancel(), timeout, bridge and _run() do at the same
\* time, and however they are interleaved, no later one changes its outcome
\* (async_task.py 572), nor does a crash while the runtime is up.
TerminalStable ==
  [][\A t \in Tasks : up = "up" /\ status[t] \in Terminal => status'[t] = status[t]]_vars

\* What a parent was told of a task is what the runtime knows of it, also after a
\* crash, a shutdown and a restart (async_task.py 572-581, 467-469).
ToldTheOutcome ==
  \A t \in Tasks : told[t] # <<>> => told[t] = <<status[t]>>

\* The record on disk and what the parents are told live by module TaskLife: one
\* life, one outcome, told when it comes, through every crash, shutdown and restart
\* (async_task.py 570-581, 467-469, 494-520).
Life == INSTANCE TaskLife WITH life <- disk
ImplementsTaskLife == Life!Spec

\* A child at its task is destroyed only by a cancel() that has waited IDLE_WAIT_SEC
\* for its idle in vain: an idle that is heard, an outcome that is collected and a
\* session that is swept leave no react behind, whatever was cancelled or aborted
\* before (async_task.py 398-402, 540-543; async-task.md 309-314).  A child that a
\* task of its own has sent a message to is not spoken of.
NoTurnCutShort ==
  [][\A t \in Subagents : child[t] = "working" /\ child'[t] = "gone" /\ up' # "down" =>
       canceller[t] = "idlewait" /\ t \notin heard]_vars

\* Every task ends, at the latest by its timeout, as long as the runtime is up
\* (async_task.py 280).
TaskEnds ==
  \A t \in Tasks : status[t] = "running" ~> status[t] # "running" \/ up # "up"

\* When a subagent has ended its session is released and its bridge exits.
ChildReleased ==
  \A t \in Subagents :
    status[t] \in Terminal ~>
      (child[t] \in {"gone", "revived"} /\ bridge[t] \in {"none", "exited"}) \/ up # "up"
=============================================================================
