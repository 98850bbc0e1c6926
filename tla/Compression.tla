----------------------------- MODULE Compression -----------------------------
(***************************************************************************)
(* The turn arithmetic of CompressionService (core/loop/compression.py):   *)
(* where the L2 fold cuts a conversation.  A conversation is a sequence of *)
(* messages with a "role"; a turn starts at a message of role "user" and   *)
(* ends before the next one.  The size test that decides whether a fold is *)
(* tried at all (characters against a threshold) is left to the users of   *)
(* this module as a nondeterministic choice.                               *)
(***************************************************************************)
EXTENDS Integers, Sequences, FiniteSets

CONSTANT KeepTurns           \* l2_keep_turns: the newest turns a fold leaves alone

ASSUME KeepTurnsAssumption == KeepTurns \in Nat

Kept == IF KeepTurns = 0 THEN 1 ELSE KeepTurns     \* at least one turn stays

Turns(msgs) == {i \in DOMAIN msgs : msgs[i].role = "user"}

\* Bug form of FoldEnd: the cut falls after the first message of the last
\* folded turn (spans[n-1][0] + 1) instead of after the turn.
FoldEnd_TurnStart(msgs) ==
  LET n == Cardinality(Turns(msgs)) - Kept
      last == {i \in Turns(msgs) : Cardinality({j \in Turns(msgs) : j <= i}) = n}
  IN IF n <= 0 \/ last = {} THEN 0 ELSE CHOOSE i \in last : TRUE

\* Bug form of FoldEnd: l2_keep_turns counts messages instead of turns.
FoldEnd_Messages(msgs) == IF Len(msgs) > Kept THEN Len(msgs) - Kept ELSE 0

\* _fold_earliest_turns: how many messages the fold drops, 0 for no fold.  The
\* n oldest turns go: the cut is just before the turn that has n before it.
FoldEnd(msgs) ==
  LET n == Cardinality(Turns(msgs)) - Kept
      first == {i \in Turns(msgs) : Cardinality({j \in Turns(msgs) : j < i}) = n}
  IN IF n <= 0 \/ first = {} THEN 0 ELSE (CHOOSE i \in first : TRUE) - 1

\* _try_summarize's messages[fold_end:]
Folded(msgs, end) == SubSeq(msgs, end + 1, Len(msgs))
=============================================================================
