---------------------------- MODULE MCLoopEngine ----------------------------
(* Small instances of LoopEngine for TLC.                                  *)
EXTENDS LoopEngine, TLC

CONSTANTS m1, m2, old

\* A fresh session.
Fresh == {<<>>}

\* A fresh session, or one restored after a turn of an earlier process: a
\* message, a tool call, its result, and the answer.
Restored ==
  {<<>>, <<User(old), Assistant(old, 1, 1), ToolMsg(old, 1, 1), Assistant(old, 2, 0)>>}

Sym == Permutations({m1, m2})
=============================================================================
