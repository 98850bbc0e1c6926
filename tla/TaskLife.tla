------------------------------ MODULE TaskLife ------------------------------
(***************************************************************************)
(* What AsyncTaskManager promises the session that forks a task, whatever  *)
(* cancels, timeouts, outcomes, shutdowns and crashes do to one another:   *)
(* a task is forked, runs and ends, once and for ever; its parent is told  *)
(* how it ended in the same step, unless the runtime went away under it.   *)
(* (Module AsyncTask implements this; `life' is the status in task.json.)  *)
(***************************************************************************)
CONSTANT Tasks
VARIABLES life, told

Outcomes == {"completed", "failed", "cancelled", "timed_out"}

Init == life = [t \in Tasks |-> "none"] /\ told = [t \in Tasks |-> <<>>]

Forked(t) ==
  /\ life[t] = "none"
  /\ life' = [life EXCEPT ![t] = "running"]
  /\ UNCHANGED told

Ended(t, outcome) ==
  /\ life[t] = "running"
  /\ life' = [life EXCEPT ![t] = outcome]
  /\ told' = [told EXCEPT ![t] = <<outcome>>]

\* The runtime is stopped: the task with it, and nobody listens any more.
Stopped(t) ==
  /\ life[t] = "running"
  /\ life' = [life EXCEPT ![t] = "cancelled"]
  /\ UNCHANGED told

\* The runtime comes back: what was running is out of reach.
Lost ==
  /\ life' = [t \in Tasks |-> IF life[t] = "running" THEN "interrupted" ELSE life[t]]
  /\ UNCHANGED told

Next ==
  \/ \E t \in Tasks : \/ Forked(t) \/ Stopped(t)
                     \/ \E outcome \in Outcomes : Ended(t, outcome)
  \/ Lost

Spec == Init /\ [][Next]_<<life, told>>
=============================================================================
