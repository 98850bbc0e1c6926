----------------------------- MODULE LlmStream ------------------------------
(***************************************************************************)
(* One LLM call of the engine: LlmProxy.stream (core/llm_proxy/proxy.py)   *)
(* under retry_stream (retry.py), and the loop of _react that consumes the *)
(* chunks (core/loop/engine.py 504-567).  Every attempt is a new request:  *)
(* the provider samples a reply of its own, with its own call ids, and     *)
(* its connection may break, or send something that cannot be parsed,      *)
(* before any chunk.                                                       *)
(***************************************************************************)
EXTENDS Naturals, SequencesExt

CONSTANT Replies   \* what the provider may answer: sequences of chunks
                   \* [kind |-> "text" | "open" | "args" | "finish", call |-> index, id |-> of an "open"]

MaxLlmRetries == 3

VARIABLES
  pc,        \* where the call is
  attempt,   \* attempt of retry_stream
  reply,     \* what this attempt is answered
  pos,       \* the next chunk of this attempt's stream
  text,      \* full_text, and the TokenChunks put out: which chunk each comes from
  calls,     \* tool_calls: by index, the id (0 is none) and the arguments
  pending,   \* the ToolPendings put out: call ids
  finish,    \* finish_reason has been seen
  interrupt  \* the interrupt queue is not empty

vars == <<pc, attempt, reply, pos, text, calls, pending, finish, interrupt>>
received == <<text, calls, pending, finish>>

Init ==
  /\ pc = "asking" /\ attempt = 1 /\ reply = <<>> /\ pos = 1
  /\ text = <<>> /\ calls = <<>> /\ pending = <<>> /\ finish = FALSE
  /\ interrupt = FALSE

\* Mutant: the next attempt goes on where the last one broke.
Connect_Resumes ==
  /\ pc = "asking"
  /\ pc' = "streaming" /\ reply' \in Replies
  /\ UNCHANGED <<attempt, pos, received, interrupt>>

\* The stream factory is called; status 200, and the body is read line by line.  The
\* same messages are sent, without a seed: whatever was answered before does not count.
Connect ==
  /\ pc = "asking"
  /\ pc' = "streaming" /\ reply' \in Replies /\ pos' = 1
  /\ UNCHANGED <<attempt, received, interrupt>>

\* _merge_tool_calls: the list grows up to the index; an id is set (again),
\* arguments are appended to those the entry has.
Merged(tcs, c) ==
  LET n == IF Len(tcs) < c.call THEN c.call ELSE Len(tcs)
      grown == [i \in 1..n |-> IF i \in DOMAIN tcs THEN tcs[i] ELSE [id |-> 0, args |-> <<>>]]
  IN  IF c.kind = "open" THEN [grown EXCEPT ![c.call].id = c.id]
      ELSE [grown EXCEPT ![c.call].args = Append(@, pos)]

\* Mutant: a call is announced whenever its id arrives.
Announced_Again(tcs, c) == IF c.kind = "open" THEN Append(pending, c.id) ELSE pending

\* A call is announced when the id it has is first seen; after a retry it may be another.
Announced(tcs, c) ==
  IF c.kind \in {"open", "args"} /\ tcs[c.call].id \notin Range(pending) \cup {0}
  THEN Append(pending, tcs[c.call].id) ELSE pending

\* _parse_chunk of the next line.
Parsed == reply[pos]

\* A chunk arrives, is yielded through retry_stream and consumed by _react.
Chunk ==
  /\ pc = "streaming" /\ pos <= Len(reply) /\ ~interrupt
  /\ LET c == Parsed
         tcs == IF c.kind \in {"open", "args"} THEN Merged(calls, c) ELSE calls
     IN  /\ text' = IF c.kind = "text" THEN Append(text, pos) ELSE text
         /\ calls' = tcs
         /\ pending' = Announced(tcs, c)
         /\ finish' = (finish \/ c.kind = "finish")
  /\ pos' = pos + 1
  /\ UNCHANGED <<pc, attempt, reply, interrupt>>

\* A chunk arrives and an interrupt is waiting: it is taken, the call is left.
Interrupted ==
  /\ pc = "streaming" /\ pos <= Len(reply) /\ interrupt
  /\ interrupt' = FALSE /\ pc' = "interrupted"
  /\ UNCHANGED <<attempt, reply, pos, received>>

\* [DONE], or the end of the body.
EndOfStream ==
  /\ pc = "streaming" /\ pos > Len(reply)
  /\ pc' = "done"
  /\ UNCHANGED <<attempt, reply, pos, received, interrupt>>

\* A status that is not 200, a broken connection, a read timeout: the last
\* attempt raises it, the others sleep.
Breaks ==
  /\ pc \in {"asking", "streaming"}
  /\ pc' = IF attempt >= MaxLlmRetries THEN "failed" ELSE "sleeping"
  /\ UNCHANGED <<attempt, reply, pos, received, interrupt>>

\* A line that is not JSON: no network error, raised to the engine as it is.
Malformed ==
  /\ pc = "streaming" /\ pos <= Len(reply)
  /\ pc' = "raised"
  /\ UNCHANGED <<attempt, reply, pos, received, interrupt>>

\* The backoff is over: the factory is called again.  Nothing that was received goes.
Retry ==
  /\ pc = "sleeping"
  /\ pc' = "asking" /\ attempt' = attempt + 1
  /\ UNCHANGED <<reply, pos, received, interrupt>>

\* The pumper puts an interrupt into the queue; and run(), which races the same
\* queue, may be first to take it: it cancels the step wherever it is.
InterruptArrives ==
  /\ pc \in {"asking", "streaming", "sleeping"} /\ ~interrupt
  /\ interrupt' = TRUE
  /\ UNCHANGED <<pc, attempt, reply, pos, received>>
Cancelled ==
  /\ pc \in {"asking", "streaming", "sleeping"} /\ interrupt
  /\ interrupt' = FALSE /\ pc' = "cancelled"
  /\ UNCHANGED <<attempt, reply, pos, received>>

Next == Connect \/ Chunk \/ Interrupted \/ EndOfStream \/ Breaks \/ Malformed \/ Retry
        \/ InterruptArrives \/ Cancelled
Spec == Init /\ [][Next]_vars

-----------------------------------------------------------------------------
\* Whether a chunk adds to the arguments of a call, or (call 0) to the text.
Adds(c, call) == IF call = 0 THEN c.kind = "text" ELSE c.kind = "args" /\ c.call = call

\* The positions in the reply of those that do.
Gives(call) == FlattenSeq([i \in 1..Len(reply) |-> IF Adds(reply[i], call) THEN <<i>> ELSE <<>>])

Opens == {i \in DOMAIN reply : reply[i].kind = "open"}
Ids   == {reply[i].id : i \in Opens}

\* A call that succeeds has the whole reply of its last attempt, in order: the text and
\* each call's arguments end with it, and each call has the id that it gave.  Without a
\* retry there is nothing else.  What a failed attempt delivered stays in front, though
\* the reply begins anew: not what retry.py 11-14 says, see README.
LastReplyIsWhole ==
  pc = "done" =>
    /\ IsSuffix(Gives(0), text) /\ (attempt = 1 => text = Gives(0))
    /\ \A k \in DOMAIN calls : /\ IsSuffix(Gives(k), calls[k].args)
                               /\ attempt = 1 => calls[k].args = Gives(k)
    /\ \A i \in Opens : reply[i].call \in DOMAIN calls /\ calls[reply[i].call].id = reply[i].id

\* A call id is announced to the UI once, however often it arrives and the stream is
\* retried (engine.py 511-512, 554-563), before its arguments are complete; and each id of
\* the reply that counts is, but the ids of a failed attempt may have been as well.
AnnouncedOnce ==
  /\ IsInjective(pending)
  /\ pc = "done" => Ids \subseteq Range(pending)
  /\ attempt = 1 => Range(pending) \subseteq Ids
=============================================================================
