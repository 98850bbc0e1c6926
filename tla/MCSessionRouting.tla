------------------------- MODULE MCSessionRouting -------------------------
(* Two connections of one source, which replace one another, and one of     *)
(* another source, which announces another session.                         *)
EXTENDS SessionRouting

CONSTANTS c1, c2, c3, s1, s2, k1, k2

SourceOf == [c \in Conns |-> IF c = c3 THEN s2 ELSE s1]
TopicOf  == [m \in Events |-> k1]
HomeOf   == [c \in Conns |-> IF c = c3 THEN k2 ELSE k1]
=============================================================================
