---------------------------- MODULE SessionTurns ----------------------------
(***************************************************************************)
(* What LoopEngine promises a client that waits for the end of a turn: it  *)
(* is asked, works on that question alone, and the turn is over with an    *)
(* answer or with an error.  The conversation belongs to the turn: it      *)
(* takes the question, what the turn itself writes, and whole old turns    *)
(* may be dropped from it; an error brings back exactly what it was when   *)
(* the question had joined it; between two turns nobody touches it.        *)
(* (Module LoopEngine implements this for clients that take turns.)        *)
(***************************************************************************)
EXTENDS Naturals, Sequences

CONSTANTS Msgs, None,
          Histories, \* conversations a session may begin with
          Said,      \* Said[m]: how question m stands in the conversation
          Own        \* Own[m]: what a turn on m may write into it

VARIABLES
  phase,   \* "over", "asked", "working", or "failed": rolled back, not yet said
  turn,    \* the question of this turn, None when it is over
  unasked, \* the questions nobody has asked
  conv,    \* the conversation
  kept     \* what an error brings back

vars == <<phase, turn, unasked, conv, kept>>

Init ==
  /\ phase = "over" /\ turn = None /\ unasked = Msgs
  /\ conv \in Histories /\ kept = conv

Ask(m) ==
  /\ phase = "over" /\ m \in unasked
  /\ phase' = "asked" /\ turn' = m /\ unasked' = unasked \ {m}
  /\ UNCHANGED <<conv, kept>>

Take ==
  /\ phase = "asked" /\ phase' = "working"
  /\ conv' = Append(conv, Said[turn]) /\ kept' = conv'
  /\ UNCHANGED <<turn, unasked>>

Write ==
  /\ phase = "working"
  /\ Len(conv') = Len(conv) + 1
  /\ conv' = Append(conv, conv'[Len(conv')]) /\ conv'[Len(conv')] \in Own[turn]
  /\ UNCHANGED <<phase, turn, unasked, kept>>

\* Whole turns are dropped, the oldest ones.
Fold ==
  /\ phase = "working"
  /\ \E k \in 1..(Len(conv) - 1) :
       conv[k + 1].role = "user" /\ conv' = SubSeq(conv, k + 1, Len(conv))
  /\ UNCHANGED <<phase, turn, unasked, kept>>

Answer ==
  /\ phase = "working" /\ phase' = "over" /\ turn' = None
  /\ UNCHANGED <<unasked, conv, kept>>

Fail ==
  /\ phase = "working" /\ phase' = "failed" /\ conv' = kept
  /\ UNCHANGED <<turn, unasked, kept>>

FailureSaid ==
  /\ phase = "failed" /\ phase' = "over" /\ turn' = None
  /\ UNCHANGED <<unasked, conv, kept>>

Next == (\E m \in Msgs : Ask(m)) \/ Take \/ Write \/ Fold \/ Answer \/ Fail \/ FailureSaid

Spec == Init /\ [][Next]_vars
=============================================================================
