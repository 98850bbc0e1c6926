------------------------------- MODULE Parts --------------------------------
(***************************************************************************)
(* The parts that run on their own, one in each behaviour: the scene says  *)
(* which.  The fold (over every conversation of up to MaxLen messages,     *)
(* grown message by message), the wire conversions (over every event), an  *)
(* LLM call, the skills directory, a transcription, the Feishu cards, the  *)
(* history of the full-screen chat.                                        *)
(***************************************************************************)
EXTENDS Compression, WireFrames

CONSTANTS
  MaxLen, None, Tasks,
  Replies,                                          \* of the LLM
  Names, BadNames, Shipped, Packs, Bodies,   \* of the skills
  Silent, Durations, ChunkSec, Concurrency,         \* of a transcription
  Chats, Msgs, ChatOf, Kind, Anonymous,             \* of Feishu
  MaxSeen, MaxEvents, MaxQueue, MaxArrivals, MaxWaiting

\* A chunk of a tool call has the call's index, which is counted from 1 here; a reply
\* gives each of its calls one id, which it may repeat.
ASSUME RepliesAssumption ==
  \A r \in Replies :
    /\ r \in Seq([kind : {"text", "open", "args", "finish"}, call : Nat, id : Nat])
    /\ \A i \in DOMAIN r : /\ r[i].kind \in {"open", "args"} => r[i].call > 0
                           /\ r[i].kind = "open" => r[i].id > 0
    /\ \A i, j \in DOMAIN r : r[i].kind = "open" /\ r[j].kind = "open" /\ r[i].call = r[j].call
                                => r[i].id = r[j].id

\* What is shipped are directories with names; names are compared.
ASSUME NamesAssumption ==
  Names \subseteq Nat /\ DOMAIN Shipped \subseteq Names

\* Messages come from chats, and no chat is called None.
ASSUME ChatsAssumption ==
  ChatOf \in [Msgs -> Chats] /\ None \notin Chats /\ MaxEvents \in Nat

\* Audio is counted in whole units, and a chunk has a length.
ASSUME AudioAssumption == Durations \subseteq Nat /\ ChunkSec \in Nat \ {0}

VARIABLES
  scene, msgs, event,
  pc, attempt, reply, pos, text, calls, pending, finish, interrupt,         \* LlmStream
  dir, up, answer,                                                           \* SkillFiles
  phase, audio, lens, stage, tries, got, free, cutOff, result,               \* AsrJob
  syncQ, seen, lastChat, known, card, cards, texts, taskCard, events,        \* FeishuCards
  shown,
  outQ, history, cur, tokens, arrivals                                       \* ChatHistory

llmVars    == <<pc, attempt, reply, pos, text, calls, pending, finish, interrupt>>
skillVars  == <<dir, up, answer>>
asrVars    == <<phase, audio, lens, stage, tries, got, free, cutOff, result>>
feishuVars == <<syncQ, seen, lastChat, known, card, cards, texts, taskCard, events,
                shown>>
chatVars   == <<outQ, history, cur, tokens, arrivals>>

Llm    == INSTANCE LlmStream
Skills == INSTANCE SkillFiles
Asr    == INSTANCE AsrJob
Feishu == INSTANCE FeishuCards
Chat   == INSTANCE ChatHistory

\* A SKILL.md that is shipped or packed is not the mark for one that was cut short.
ASSUME PacksAssumption ==
  \A pack \in Packs : \A n \in DOMAIN pack : pack[n].md # Skills!Torn

NoEvent == [kind |-> "none", fields |-> Null]

Init ==
  /\ scene \in {"fold", "wire", "llm", "skills", "asr", "feishu", "chat"}
  /\ msgs = <<>>
  /\ event \in IF scene = "wire" THEN Events \cup InboundEvents ELSE {NoEvent}
  /\ Llm!Init /\ Skills!Init /\ Asr!Init /\ Feishu!Init /\ Chat!Init

Grow == /\ Len(msgs) < MaxLen
        /\ \E role \in {"user", "assistant", "tool"} : msgs' = Append(msgs, [role |-> role])

partVars == <<llmVars, skillVars, asrVars, feishuVars, chatVars>>

Next ==
  /\ UNCHANGED <<scene, event>>
  /\ \/ scene = "fold"   /\ Grow        /\ UNCHANGED partVars
     \/ scene = "llm"    /\ Llm!Next    /\ UNCHANGED <<msgs, skillVars, asrVars, feishuVars, chatVars>>
     \/ scene = "skills" /\ Skills!Next /\ UNCHANGED <<msgs, llmVars, asrVars, feishuVars, chatVars>>
     \/ scene = "asr"    /\ Asr!Next    /\ UNCHANGED <<msgs, llmVars, skillVars, feishuVars, chatVars>>
     \/ scene = "feishu" /\ Feishu!Next /\ UNCHANGED <<msgs, llmVars, skillVars, asrVars, chatVars>>
     \/ scene = "chat"   /\ Chat!Next   /\ UNCHANGED <<msgs, llmVars, skillVars, asrVars, feishuVars>>

Spec == Init /\ [][Next]_<<scene, event, msgs, partVars>>

-----------------------------------------------------------------------------
\* A fold drops whole turns and keeps the newest ones: what is left starts at a
\* user message and holds exactly the turns to keep, at least one; and a fold
\* happens as soon as there is a turn to drop (compression.py 109-129).
FoldKeepsNewestTurns ==
  LET rest == Folded(msgs, FoldEnd(msgs)) IN
  IF Cardinality(Turns(msgs)) > Kept
  THEN rest[1].role = "user" /\ Cardinality(Turns(rest)) = Kept
  ELSE rest = msgs

OutEvent == scene = "wire" /\ event \in Events
InEvent  == scene = "wire" /\ event \in InboundEvents

\* An event of the loop is read back as it was, but for bytes that are no text,
\* in its own frame and inside the frame of a task, and every frame says which
\* session it belongs to; what is no event of the stream gets no frame.
EventsSurviveTheWire ==
  OutEvent => \A sk \in Sessions :
    LET frame == ToFrame(event, sk)
        same  == [event EXCEPT !.fields = [n \in DOMAIN @ |-> IF @[n] = Binary THEN Garbled ELSE @[n]]]
    IN  IF event = NoEvent THEN frame = Null /\ TaskEventFrame(event, sk, X) = Null
        ELSE /\ frame.data.session_key = sk
             /\ FromFrame(frame) = same
             /\ FromFrame(TaskEventFrame(event, sk, X).data.event) = same

\* Whatever fields a peer of another version leaves out or sets to null, the
\* reader makes a well-formed event of the frame, or none; of a status without
\* a known state it makes none.
DamagedFramesAreRead ==
  OutEvent /\ event # NoEvent =>
    \A kept \in SUBSET DOMAIN ToFrame(event, X).data : \A nulls \in {{}, kept} :
      LET data == ToFrame(event, X).data
          got2 == FromFrame([type |-> event.kind,
                             data |-> [n \in kept |-> IF n \in nulls THEN Null ELSE data[n]]])
      IN  IF event.kind = "status" /\ ("state" \notin kept \/ "state" \in nulls) THEN got2 = Null
          ELSE \A n \in DOMAIN event.fields : got2.fields[n] \in Values(n) \cup {Garbled}

\* A channel's message reaches the server for its own session, with its text
\* and the attachments that have a path, in their order; an interrupt and a
\* command reach the session of the connection, whichever it was meant for.
InboundReachesItsSession ==
  InEvent => \A default \in Sessions :
    LET frame == InboundToFrame(event) IN
    IF event.kind \notin {"message", "command", "interrupt"} THEN frame = Null
    ELSE LET arrived == Inbound(frame, default) IN
         /\ arrived.kind = event.kind
         /\ IF event.kind = "message"
              THEN /\ arrived.session_key = event.session_key
                   /\ arrived.text = event.text /\ arrived.meta = event.meta
                   /\ \A i \in DOMAIN arrived.attachments : arrived.attachments[i] = X
                   /\ Len(arrived.attachments)
                        = Cardinality({i \in DOMAIN event.attachments : event.attachments[i] = X})
              ELSE arrived.session_key = default

\* What an LLM call returns ends with the whole reply of its last attempt.
LastReplyIsWhole == Llm!LastReplyIsWhole
\* A call id is announced to the UI once, whatever is retried.
AnnouncedOnce == Llm!AnnouncedOnce

\* A request refused for what it asks has written nothing, a damaged zip has harmed nothing.
RefusedChangesNothing == Skills!RefusedChangesNothing
\* A start leaves every directory alone that exists.
StartKeepsEdits == Skills!StartKeepsEdits

\* The chunks of a transcription cover its audio.
CutIsWhole == Asr!CutIsWhole
\* The transcript tells of every chunk in order, its whole text or its failure, but for
\* streams that end early.
TranscriptTellsAll == Asr!TranscriptTellsAll

\* A final text stays where it was shown, once.
FinalStays == Feishu!FinalStays

\* The answers in the chat are the tokens, drawn or about to be.
TextIsShown == Chat!TextIsShown
=============================================================================
