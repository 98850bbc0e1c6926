---------------------------- MODULE ChatHistory -----------------------------
(***************************************************************************)
(* The full-screen chat (extensions/channels/textual_chat/__init__.py):    *)
(* the events of the session go through _out_q to one worker, which grows  *)
(* the history of widgets; the text of an answer is drawn by a callback    *)
(* that Textual runs after its next refresh, whatever was handled by then. *)
(*                                                                         *)
(* A token is its number; the status bar and the debug panel are left out. *)
(* Texts are read as markup.  A tool's card refuses a bad result when      *)
(* completed; any other bad text ends the app when Textual draws it (the   *)
(* version of uv.lock reads it only then), which is left out.              *)
(***************************************************************************)
EXTENDS Naturals, SequencesExt

CONSTANTS MaxArrivals, \* bounds the events of the session
          MaxWaiting   \* bounds those that wait in _out_q

VARIABLES
  outQ,     \* _out_q
  history,  \* the widgets, in the order they were mounted
  cur,      \* _cur_assistant, _cur_reasoning, _cur_tool: 0 is None
  tokens,   \* history: tokens handled
  arrivals  \* history: events received

vars == <<outQ, history, cur, tokens, arrivals>>

Kinds == {"reasoning", "token", "tool_start", "tool_end", "status", "final", "metric",
          "card", "error", "task"}
Received == [kind : Kinds \ {"tool_end"}, bad : {FALSE}] \cup [kind : {"tool_end"}, bad : BOOLEAN]

NoWidget == [assistant |-> 0, reasoning |-> 0, tool |-> 0]

Init == outQ = <<>> /\ history = <<>> /\ cur = NoWidget /\ tokens = 0 /\ arrivals = 0

\* send() and handle_raw_frame() put into the queue what is to be shown.
Arrive(ev) ==
  /\ arrivals < MaxArrivals /\ Len(outQ) < MaxWaiting
  /\ outQ' = Append(outQ, ev) /\ arrivals' = arrivals + 1
  /\ UNCHANGED <<history, cur, tokens>>

-----------------------------------------------------------------------------
(* AssistantMessage: its buffer, what is drawn of it, and whether a callback  *)
(* is due.                                                                    *)

Mounted(h, kind) == Append(h, [kind |-> kind, buf |-> <<>>, drawn |-> <<>>, due |-> FALSE])

\* append_token: the callback is asked for once.
Appended(h, i, token) == [h EXCEPT ![i].buf = Append(@, token), ![i].due = TRUE]

\* _flush.  The callback of a frozen message finds nothing to do.
Flush(i) ==
  /\ history[i].due
  /\ history' = [history EXCEPT ![i] = [@ EXCEPT !.drawn = history[i].buf, !.due = FALSE]]
  /\ UNCHANGED <<outQ, cur, tokens, arrivals>>

\* Mutant: the callback that is due is relied upon, and then finds a frozen message.
Frozen_NotDrawn(h) ==
  IF cur.assistant = 0 THEN h ELSE [h EXCEPT ![cur.assistant].due = FALSE]

\* freeze: the callback is called off, and what it would have drawn is drawn.
Frozen(h) ==
  IF cur.assistant = 0 THEN h
  ELSE [h EXCEPT ![cur.assistant] = [@ EXCEPT !.drawn = h[cur.assistant].buf, !.due = FALSE]]

-----------------------------------------------------------------------------
(* _handle_event, called by the worker for one event after the other          *)

\* The handler is done with the event.
Handled == outQ' = Tail(outQ)

\* The handler stops there, and the worker puts an error, with the widget's words,
\* at the end of the queue.
Raised == outQ' = Append(Tail(outQ), [kind |-> "error", bad |-> FALSE])

\* Everything but more reasoning ends the reasoning, which is drawn as it comes.
Reasoning ==
  /\ history' = IF cur.reasoning = 0 THEN Mounted(history, "reasoning") ELSE history
  /\ cur' = [cur EXCEPT !.reasoning = IF @ = 0 THEN Len(history') ELSE @]
  /\ Handled /\ UNCHANGED tokens

\* An answer goes on where it was, also above the reasoning that came meanwhile.
Token ==
  /\ LET h == IF cur.assistant = 0 THEN Mounted(history, "assistant") ELSE history
         i == IF cur.assistant = 0 THEN Len(h) ELSE cur.assistant
     IN  /\ history' = Appended(h, i, tokens + 1)
         /\ cur' = [cur EXCEPT !.assistant = i, !.reasoning = 0]
  /\ tokens' = tokens + 1
  /\ Handled

\* A card is made, which is the current one from then on.
ToolStart ==
  /\ history' = Mounted(Frozen(history), "tool")
  /\ cur' = [assistant |-> 0, reasoning |-> 0, tool |-> Len(history')]
  /\ Handled /\ UNCHANGED tokens

\* The current card is completed, whichever call it was made for; one that
\* refuses the result stays current.
ToolEnd(bad) ==
  /\ IF bad /\ cur.tool # 0
     THEN Raised /\ cur' = [cur EXCEPT !.reasoning = 0]
     ELSE Handled /\ cur' = [cur EXCEPT !.reasoning = 0, !.tool = 0]
  /\ UNCHANGED <<history, tokens>>

\* A status, and the final message, whose text is the tokens' and not shown again.
Closes ==
  /\ history' = Frozen(history)
  /\ cur' = [cur EXCEPT !.assistant = 0, !.reasoning = 0]
  /\ Handled /\ UNCHANGED tokens

\* A card of the session, or an error.
Notice(kind) ==
  /\ history' = Mounted(Frozen(history), kind)
  /\ cur' = [cur EXCEPT !.assistant = 0, !.reasoning = 0]
  /\ Handled /\ UNCHANGED tokens

\* A line about an async task does not end the answer it comes in between.
TaskLine ==
  /\ history' = Mounted(history, "task")
  /\ cur' = [cur EXCEPT !.reasoning = 0]
  /\ Handled /\ UNCHANGED tokens

Metric == cur' = [cur EXCEPT !.reasoning = 0] /\ Handled /\ UNCHANGED <<history, tokens>>

Handle ==
  /\ outQ # <<>> /\ UNCHANGED arrivals
  /\ LET ev == Head(outQ) IN
     \/ ev.kind = "reasoning"           /\ Reasoning
     \/ ev.kind = "token"               /\ Token
     \/ ev.kind = "tool_start"          /\ ToolStart
     \/ ev.kind = "tool_end"            /\ ToolEnd(ev.bad)
     \/ ev.kind \in {"status", "final"} /\ Closes
     \/ ev.kind \in {"card", "error"}   /\ Notice(ev.kind)
     \/ ev.kind = "task"                /\ TaskLine
     \/ ev.kind = "metric"              /\ Metric

Next == Handle \/ (\E ev \in Received : Arrive(ev)) \/ (\E i \in DOMAIN history : Flush(i))
Spec == Init /\ [][Next]_vars

-----------------------------------------------------------------------------
\* No text of an answer is lost or shown twice, in whatever order callbacks,
\* ends of answers and refused results come: the answers hold the tokens, each
\* once and in order, and what is not drawn yet has a callback that is due.
TextIsShown ==
  LET answer(w) == IF w.kind = "assistant" THEN w.buf ELSE <<>>
  IN  /\ FlattenSeq([i \in DOMAIN history |-> answer(history[i])]) = [t \in 1..tokens |-> t]
      /\ \A i \in DOMAIN history :
           history[i].drawn # history[i].buf => history[i].due /\ i = cur.assistant
=============================================================================
