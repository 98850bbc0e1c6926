----------------------------- MODULE WireFrames -----------------------------
(***************************************************************************)
(* The frames between the runtime and a channel                            *)
(* (core/protocol/wire_frames.py): what is written into a frame, what is   *)
(* left out of it, and what the other side makes of what arrives.          *)
(*                                                                         *)
(* An event is its kind and its fields; a frame is its type and its data,  *)
(* both functions from names.  A value is X, or the Empty one of its type  *)
(* ("", 0, {}, FALSE), or Null; that is all the conversions tell apart.    *)
(* The version, seq and ts of the envelope are left out: nobody reads them.*)
(***************************************************************************)
EXTENDS Naturals, FiniteSets, SequencesExt

CONSTANTS Sessions, Null

X == "x"
Empty == ""

-----------------------------------------------------------------------------
(* Events of the loop, and the frames they travel in.                      *)

States == {"thinking", "tooling", "compressing", "wait_io", "idle"}

\* The fields that are always written, and those that are left out when they
\* are None (of tool_start: when empty), by type of frame.
Always(type) ==
  CASE type = "status"       -> {"state"}
    [] type \in {"token", "reasoning"} -> {"text"}
    [] type = "tool_pending" -> {"call_id", "name", "tool_index", "args_so_far"}
    [] type = "tool_start"   -> {"name", "args"}
    [] type = "tool_end"     -> {"name", "latency_ms", "result"}
    [] type = "metric"       -> {"metrics"}
    [] type = "final"        -> {"text", "metrics"}
    [] type = "card"         -> {"data"}
    [] type = "error"        -> {"code", "msg", "retryable"}
Sometimes(type) ==
  CASE type = "status"     -> {"trace_id", "turn_id"}
    [] type = "tool_start" -> {"call_id"}
    [] type = "metric"     -> {"trace_id", "turn_id", "model"}
    [] type = "final"      -> {"trace_id"}
    [] OTHER               -> {}
Types == {"status", "token", "reasoning", "tool_pending", "tool_start", "tool_end", "metric",
          "final", "card", "error"}
Fields(type) == Always(type) \cup Sometimes(type)

\* A tool result is X, or one with an artifact whose bytes are no text.
Binary  == "binary"
Garbled == "garbled"

\* None is no text and no dictionary.
ASSUME NullAssumption ==
  LET data(t) == UNION {[names -> States \cup Sessions \cup {X, Binary, Garbled, Empty, Null}] :
                          names \in SUBSET (Fields(t) \cup {"session_key"})}
  IN  /\ Null \notin States \cup {X, Binary, Garbled, Empty}
      /\ \A t \in Types : Null \notin data(t) /\ Null \notin [type : {t}, data : data(t)]

\* The key of a session is a text, and not the empty one.
ASSUME SessionsAssumption == Sessions \cap {Null, Empty} = {}

\* The values a field of an event may have.
Values(field) ==
  CASE field = "state"  -> States
    [] field = "result" -> {X, Binary}
    [] field \in {"trace_id", "turn_id", "model"} -> {Null, X}
    [] OTHER -> {Empty, X}

Events == {[kind |-> "none", fields |-> Null]} \cup
  UNION {{[kind |-> t, fields |-> f] :
            f \in {g \in [Fields(t) -> States \cup {X, Binary, Empty, Null}] :
                     \A n \in DOMAIN g : g[n] \in Values(n)}} : t \in Types}

\* _tool_result_to_dict: bytes that are no UTF-8 are replaced.
Written(v) == IF v = Binary THEN Garbled ELSE v

\* Of the fields that may be None, those that are.
LeftOut(ev) ==
  {n \in Sometimes(ev.kind) : ev.fields[n] = Null \/ (n = "call_id" /\ ev.fields[n] = Empty)}

\* to_frame: Null for what is no event of the stream.
ToFrame(ev, sk) ==
  IF ev.kind \notin Types THEN Null
  ELSE [type |-> ev.kind,
        data |-> [n \in (DOMAIN ev.fields \ LeftOut(ev)) \cup {"session_key"} |->
                    IF n = "session_key" THEN sk ELSE Written(ev.fields[n])]]

\* async_task_event_frame: the frame of the child's event, wrapped.
TaskEventFrame(ev, sk, task) ==
  LET inner == ToFrame(ev, sk)
  IN  IF inner = Null THEN Null
      ELSE [type |-> "async_task_event",
            data |-> [session_key |-> sk, task_id |-> task, event |-> inner]]

\* Mutant: every field that is not there is empty.
Read_Empty(data, n) ==
  LET v == IF n \in DOMAIN data THEN data[n] ELSE Null
  IN  IF v # Null THEN v ELSE IF n = "result" THEN X ELSE Empty

\* data.get(n, default) `or` the empty value, for the fields that are never None.
Read(data, n) ==
  LET v == IF n \in DOMAIN data THEN data[n] ELSE Null
  IN  IF v = Null /\ n \notin {"trace_id", "turn_id", "model", "state"} THEN
        IF n = "result" THEN X ELSE Empty
      ELSE v

\* Mutant: the state is not looked at.
FromFrame_AnyState(frame) ==
  IF frame.type \notin Types \/ frame.data = Null THEN Null
  ELSE [kind |-> frame.type,
        fields |-> [n \in Fields(frame.type) |-> Read(frame.data, n)]]

\* frame_to_stream_event: Null for a type or a status nobody knows, and for a
\* frame without data.  A result that is missing is an empty, good one.
FromFrame(frame) ==
  IF frame.type \notin Types \/ frame.data = Null THEN Null
  ELSE IF frame.type = "status" /\ Read(frame.data, "state") \notin States THEN Null
  ELSE [kind |-> frame.type,
        fields |-> [n \in Fields(frame.type) |-> Read(frame.data, n)]]

-----------------------------------------------------------------------------
(* What a channel sends.                                                   *)

Kinds == {"message", "command", "interrupt", "attachment", "system"}

\* Attachments with a path, with an empty one, and without.
InboundEvents ==
  [kind : Kinds, session_key : Sessions, text : {Empty, X}, meta : {Empty, X},
   attachments : UNION {[1..n -> {X, Empty, Null}] : n \in 0..2}]

\* inbound_to_frame: only a message says which session it is for.
InboundToFrame(ev) ==
  CASE ev.kind = "message" ->
         [type |-> "user_input",
          data |-> [session_key |-> ev.session_key, text |-> ev.text, meta |-> ev.meta,
                    attachments |-> [i \in DOMAIN ev.attachments |->
                       IF ev.attachments[i] = Null THEN Empty ELSE ev.attachments[i]]]]
    [] ev.kind = "command"   -> [type |-> "command", data |-> [text |-> ev.text]]
    [] ev.kind = "interrupt" -> [type |-> "interrupt", data |-> [ts |-> X]]
    [] OTHER -> Null

\* The session of a frame: its own, or the connection's.
SessionOf(data, default) ==
  IF "session_key" \in DOMAIN data /\ data.session_key \notin {Null, Empty}
  THEN data.session_key ELSE default

\* An attachment without a path is passed over.
WithPath(attachments) ==
  FlattenSeq([i \in DOMAIN attachments |->
                IF attachments[i] \in {Null, Empty} THEN <<>> ELSE <<attachments[i]>>])

\* Mutant: a message goes to the session of the connection's hello.
Inbound_Default(frame, default) ==
  CASE frame.type = "user_input" ->
         [kind |-> "message", session_key |-> default,
          text |-> frame.data.text, meta |-> frame.data.meta,
          attachments |-> WithPath(frame.data.attachments)]
    [] frame.type = "command" ->
         [kind |-> "command", session_key |-> default, text |-> frame.data.text,
          meta |-> Empty, attachments |-> <<>>]
    [] frame.type = "interrupt" ->
         [kind |-> "interrupt", session_key |-> SessionOf(frame.data, default),
          text |-> Empty, meta |-> Empty, attachments |-> <<>>]
    [] OTHER -> Null

\* from_frame: what the server dispatches; source and event_type are the
\* connection's and the kind's, whatever the channel had put into the event.
Inbound(frame, default) ==
  CASE frame.type = "user_input" ->
         [kind |-> "message", session_key |-> SessionOf(frame.data, default),
          text |-> frame.data.text, meta |-> frame.data.meta,
          attachments |-> WithPath(frame.data.attachments)]
    [] frame.type = "command" ->
         [kind |-> "command", session_key |-> default, text |-> frame.data.text,
          meta |-> Empty, attachments |-> <<>>]
    [] frame.type = "interrupt" ->
         [kind |-> "interrupt", session_key |-> SessionOf(frame.data, default),
          text |-> Empty, meta |-> Empty, attachments |-> <<>>]
    [] OTHER -> Null
=============================================================================
