------------------------------ MODULE MCParts -------------------------------
(* A small instance of Parts for TLC.                                      *)
EXTENDS Parts

\* Three replies: two parallel tool calls, their arguments in pieces, after some text, the
\* first's id with each of them; one call, at once, under another id; and text alone.
Part(kind, call, id) == [kind |-> kind, call |-> call, id |-> id]
Text == Part("text", 0, 0)
Args(call) == Part("args", call, 0)
ThreeReplies ==
  {<<Text, Part("open", 1, 1), Args(1), Part("open", 2, 2), Part("open", 1, 1), Args(1), Args(2), Text>>,
   <<Part("open", 1, 3), Args(1), Part("finish", 0, 0)>>,
   <<Text, Text, Part("finish", 0, 0)>>}

\* Three skills, the first shipped whole, the second without a resource, the
\* third with a name that is refused; a text is 2, 3 or 4.
ADir(body, res) == [md |-> body, res |-> res, exists |-> TRUE]
TwoShipped == [n \in {1, 2} |-> ADir(n + 1, n = 1)]
TwoBodies == {2, 4}
FourPacks == {[n \in {1, 2} |-> ADir(2, TRUE)],
              [n \in {1, 2} |-> ADir(IF n = 1 THEN 2 ELSE 0, FALSE)],
              [n \in {1, 2} |-> ADir(IF n = 1 THEN 2 ELSE 0, TRUE)],
              [n \in {2, 3} |-> ADir(2, TRUE)]}

\* Two chats; of the messages one is of another type, one has no id of its own,
\* one is ignored.
AChat == CHOOSE c \in Chats : TRUE
OfChat == [m \in Msgs |-> IF m = 3 THEN CHOOSE c \in Chats : c # AChat ELSE AChat]
OfKind == [m \in Msgs |-> IF m = 2 THEN "type" ELSE IF m = 4 THEN "ignored" ELSE "text"]
=============================================================================
