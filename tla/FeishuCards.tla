----------------------------- MODULE FeishuCards ----------------------------
(***************************************************************************)
(* FeishuChannel (extensions/channels/feishu/__init__.py): messages come   *)
(* in on the thread of the Feishu client, perhaps twice; the events of the *)
(* session go out, one after the other, as cards that are patched.  All    *)
(* chats share the session "default", and what goes out goes to the chat   *)
(* that spoke last.  A call of the Feishu API may fail, which is logged.   *)
(***************************************************************************)
EXTENDS Naturals, SequencesExt, FiniteSetsExt

CONSTANTS Chats, Msgs,  \* message ids
          ChatOf,       \* ChatOf[m]: the chat of the message
          Kind,         \* Kind[m]: "text", another "type", or "ignored" (empty, chat not allowed)
          Anonymous,    \* messages that carry no message_id of their own
          Tasks,        \* async tasks of the session
          MaxSeen,      \* ids that are remembered before all are forgotten
          MaxEvents,    \* bounds the events of the session
          MaxQueue,     \* bounds the messages that wait in _sync_q
          None

VARIABLES
  syncQ,    \* _sync_q: what was received, "m" or the reply about a type
  seen,     \* _seen_msg_ids
  lastChat, \* _last_chat_id
  known,    \* chats in _open_id_by_chat
  card,     \* _card_by_session: chat -> card, 0 for none
  cards,    \* the cards in the chats: who sees them, their content, what they show
  texts,    \* plain messages in the chats: the number of the event they show
  taskCard, \* _async_card_by_task: task -> card, 0 for none
  events,   \* history: events sent
  shown     \* history: final events that the API accepted

vars == <<syncQ, seen, lastChat, known, card, cards, texts, taskCard, events, shown>>
inVars  == <<syncQ, seen, lastChat, known>>
outVars == <<card, cards, texts, taskCard, shown>>

Init ==
  /\ syncQ = <<>> /\ seen = {} /\ lastChat = None /\ known = {}
  /\ card = [c \in Chats |-> 0] /\ cards = <<>> /\ texts = <<>>
  /\ taskCard = [t \in Tasks |-> 0]
  /\ events = 0 /\ shown = {}

-----------------------------------------------------------------------------
\* The id is remembered; the set is emptied first when it has grown too large.
\* A message without an id is never known again.
Remember(m) ==
  seen' = IF m \in Anonymous THEN seen
          ELSE IF Cardinality(seen) > MaxSeen THEN {m} ELSE seen \cup {m}

\* _on_message: a text is queued and its chat is the last one; another type is
\* answered by a message of its own, put into the same queue, to the session.
OnMessage(m) ==
  /\ m \notin seen /\ Len(syncQ) < MaxQueue
  /\ Remember(m)
  /\ \/ Kind[m] = "ignored" /\ UNCHANGED <<syncQ, lastChat, known>>
     \/ Kind[m] = "type" /\ syncQ' = Append(syncQ, "reply") /\ UNCHANGED <<lastChat, known>>
     \/ /\ Kind[m] = "text" /\ syncQ' = Append(syncQ, "m")
        /\ lastChat' = ChatOf[m]
        /\ known' \in {known, known \cup {ChatOf[m]}}   \* an empty open_id is not kept
  /\ UNCHANGED <<outVars, events>>

\* listen() yields the next message; the runtime's session will answer it.
Listen ==
  /\ syncQ # <<>>
  /\ syncQ' = Tail(syncQ)
  /\ UNCHANGED <<seen, lastChat, known, outVars, events>>

-----------------------------------------------------------------------------
(* What the Feishu API is asked to do: it may refuse, which is only logged *)

\* A new card in the chat; its id is 0 when it was refused.
Create(chat, state, id) ==
  \/ id = Len(cards) + 1
     /\ cards' = Append(cards, [chat |-> chat, state |-> state, content |-> <<>>, shows |-> <<>>])
  \/ id = 0 /\ UNCHANGED cards

\* The content is kept here whether or not the card then shows it.
Patch(i, state, content) ==
  \/ cards' = [cards EXCEPT ![i] = [@ EXCEPT !.state = state, !.content = content, !.shows = content]]
  \/ cards' = [cards EXCEPT ![i].content = content]

SendText(e) == texts' = Append(texts, e) \/ UNCHANGED texts

-----------------------------------------------------------------------------
\* send(): the event goes to the last chat, if its user is known.  Events come in any
\* order: turns that overlap send theirs one among the other.
Sends ==
  /\ events < MaxEvents /\ events' = events + 1
  /\ UNCHANGED <<inVars, taskCard>>
Nowhere == lastChat \notin known /\ UNCHANGED <<card, cards, texts, shown>>

\* StatusChange(thinking): a new card, which takes the place of the chat's card.
Thinking ==
  /\ Sends
  /\ \/ Nowhere
     \/ /\ lastChat \in known
        /\ \E id \in 0..Len(cards) + 1 :
             /\ Create(lastChat, "thinking", id)
             /\ card' = IF id = 0 THEN card ELSE [card EXCEPT ![lastChat] = id]
        /\ UNCHANGED <<texts, shown>>

\* TokenChunk: added to the chat's card, dropped when there is none.
Token ==
  /\ Sends
  /\ \/ Nowhere
     \/ /\ lastChat \in known
        /\ LET i == card[lastChat] IN
             IF i = 0 THEN UNCHANGED cards
             ELSE Patch(i, "thinking", Append(cards[i].content, events'))
        /\ UNCHANGED <<card, texts, shown>>

\* The final text is asked to take the place of what card i shows, or to be a
\* message of its own when there is no card.
PutFinal(i) ==
  /\ IF i = 0 THEN SendText(events') /\ UNCHANGED cards
     ELSE Patch(i, "final", <<events'>>) /\ UNCHANGED texts
  /\ shown' = IF texts' # texts \/ (i # 0 /\ cards'[i].shows = <<events'>>)
              THEN shown \cup {events'} ELSE shown

\* Mutant: the card stays the chat's card after the final text.
Final_KeepsCard ==
  /\ Sends
  /\ \/ Nowhere
     \/ lastChat \in known /\ PutFinal(card[lastChat]) /\ UNCHANGED card

\* FinalMessage, ErrorEvent: whatever the API says, the card is done with.
Final ==
  /\ Sends
  /\ \/ Nowhere
     \/ /\ lastChat \in known /\ PutFinal(card[lastChat])
        /\ card' = [card EXCEPT ![lastChat] = 0]

\* Any other event, idle among them, changes no card.
Other == Sends /\ UNCHANGED <<card, cards, texts, shown>>

\* handle_raw_frame: a card per task, patched once when the task has ended.
TaskCreated(t) ==
  /\ taskCard[t] = 0 /\ lastChat \in known /\ events < MaxEvents /\ events' = events + 1
  /\ \E id \in 0..Len(cards) + 1 :
       /\ Create(lastChat, "task", id)
       /\ taskCard' = [taskCard EXCEPT ![t] = id]
  /\ UNCHANGED <<inVars, card, texts, shown>>
TaskStatus(t) ==
  /\ taskCard[t] # 0 /\ events < MaxEvents /\ events' = events + 1
  /\ Patch(taskCard[t], "ended", <<events'>>)
  /\ taskCard' = [taskCard EXCEPT ![t] = 0]
  /\ UNCHANGED <<inVars, card, texts, shown>>

Next ==
  \/ \E m \in Msgs : OnMessage(m)
  \/ Listen \/ Thinking \/ Token \/ Final \/ Other
  \/ \E t \in Tasks : TaskCreated(t) \/ TaskStatus(t)
Spec == Init /\ [][Next]_vars

-----------------------------------------------------------------------------
\* A final text that Feishu has accepted stays where it was put: it is shown
\* by exactly one card or message, for ever, and by nothing else of its card.
FinalStays ==
  \A e \in shown :
    Cardinality({i \in DOMAIN cards : cards[i].state = "final" /\ cards[i].shows = <<e>>})
      + Cardinality({i \in DOMAIN texts : texts[i] = e}) = 1
=============================================================================
