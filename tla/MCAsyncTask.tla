----------------------------- MODULE MCAsyncTask -----------------------------
(* Model values for AsyncTask: a subagent and a shell command, forked by a   *)
(* client's session or the second by the first one's child.                  *)
EXTENDS AsyncTask

CONSTANTS s1, b1

OneOfEach == {s1, b1}
Flat   == [t \in OneOfEach |-> Main]
Nested == [t \in OneOfEach |-> IF t = b1 THEN s1 ELSE Main]
=============================================================================
