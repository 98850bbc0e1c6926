--------------------------- MODULE ChannelClient ---------------------------
(***************************************************************************)
(* A channel process: the supervisor and pumps of                          *)
(* extensions/channels/_runtime.py and the RuntimeWSClient of              *)
(* core/runtime_ws_client.py, which connects to the runtime, says hello    *)
(* and runs a send loop and a receive loop until both are over.            *)
(*                                                                         *)
(* Connections are numbered.  A frame that was sent is only on its way:    *)
(* ws.send hands it to the socket, whose buffer the few frames of a user   *)
(* never fill.  The other side may be gone for a while before the client   *)
(* notices (a keepalive that is not answered); what was on its way then is *)
(* lost.  A connection that the client has given up delivers no more: the  *)
(* runtime closes it before it reads a frame of the next (runtime_server.py *)
(* 268-285); what the runtime does with a frame is the subject of          *)
(* SessionRouting.  Events that come down are left out, but not that the   *)
(* handler of raw frames may fail.                                         *)
(***************************************************************************)
EXTENDS Naturals, Sequences, FiniteSets

CONSTANTS MaxFrames,   \* bounds the frames the channel's user produces
          MaxBreaks,   \* bounds the connections closed by the other side
          MaxRaw,      \* bounds the failures of the raw frame handler
          MaxStarts,   \* bounds the failures of channel.start()
          MaxCrashes   \* bounds the exceptions out of channel.listen()

ASSUME ChannelAssumption ==
  {MaxFrames, MaxBreaks, MaxRaw, MaxStarts, MaxCrashes} \subseteq Nat

\* The length of BACKOFF, and of SUPERVISOR_BACKOFF.
Delays == 6

VARIABLES
  sup,      \* run_channel: before start(), in _run_once, asleep after a crash
  ws,       \* ws_client.run(): no task, connecting, in its gather, asleep, returned
  stop,     \* _stop of the client
  attempt,  \* connections that failed since the last one that worked
  cur,      \* number of the last connection
  link,     \* that connection is open, as far as the client knows
  peer,     \* the runtime still has that connection
  wire,     \* frames sent on that connection and not received yet
  loops,    \* connections whose send loop waits for a frame
  outQ,     \* _out_q: frames, numbered
  typed,    \* frames produced so far
  got,      \* history: frames the runtime has received, and on which connection
  lost,     \* history: frames lost, with which connection, and whether late, that
            \* is taken from the queue when the client knew it to be closed
  runtime,  \* the runtime listens
  faults    \* history: breaks, raw failures, start failures, crashes so far

vars == <<sup, ws, stop, attempt, cur, link, peer, wire, loops, outQ, typed, got, lost, runtime,
          faults>>
linkVars   == <<link, peer, wire, lost>>
clientVars == <<ws, stop, attempt, cur, linkVars, loops>>
frameVars  == <<outQ, typed, got>>

Init ==
  /\ sup = "start" /\ ws = "none" /\ stop = FALSE
  /\ attempt = 0 /\ cur = 0 /\ loops = {}
  /\ link = FALSE /\ peer = FALSE /\ wire = <<>>
  /\ outQ = <<>> /\ typed = 0 /\ got = <<>> /\ lost = {}
  /\ runtime = TRUE
  /\ faults = [break |-> 0, raw |-> 0, start |-> 0, crash |-> 0]

Fault(kind) == faults' = [faults EXCEPT ![kind] = @ + 1]

-----------------------------------------------------------------------------
(* run_channel and _run_once *)

Start ==
  /\ sup = "start"
  /\ sup' = "run" /\ ws' = "dial"
  /\ UNCHANGED <<stop, attempt, cur, linkVars, loops, frameVars, runtime, faults>>

\* For instance a port that is still taken.  Nothing has been set up yet.
StartFails ==
  /\ sup = "start" /\ faults.start < MaxStarts
  /\ sup' = "sleep"
  /\ Fault("start")
  /\ UNCHANGED <<clientVars, frameVars, runtime>>

\* listen() yields an event; pump_inbound puts its frame into the queue.
Type ==
  /\ sup = "run" /\ typed < MaxFrames
  /\ typed' = typed + 1
  /\ outQ' = Append(outQ, typed')
  /\ UNCHANGED <<sup, clientVars, got, runtime, faults>>

\* The connection is over, and what is still on its way is lost with it.
Closed ==
  /\ link' = FALSE /\ peer' = FALSE /\ wire' = <<>>
  /\ lost' = lost \cup {[frame |-> wire[i], by |-> cur, late |-> FALSE] : i \in DOMAIN wire}

\* RuntimeWSClient.stop: _stop is set, for ever, and the connection closed.
Stopped == stop' = TRUE /\ Closed

\* listen() raises.  The finally stops the client, cancels its task with the two
\* loops of its gather, and stops the channel.
ListenCrashes ==
  /\ sup = "run" /\ faults.crash < MaxCrashes
  /\ sup' = "sleep"
  /\ Stopped /\ ws' = "none"
  /\ loops' = IF ws = "open" THEN loops \ {cur} ELSE loops
  /\ Fault("crash")
  /\ UNCHANGED <<attempt, cur, frameVars, runtime>>

Restart ==
  /\ sup = "sleep"
  /\ sup' = "start"
  /\ UNCHANGED <<clientVars, frameVars, runtime, faults>>

-----------------------------------------------------------------------------
(* RuntimeWSClient.run *)

\* The end of a round of the loop: asleep, unless the client was stopped.
EndRound == ws' = IF stop THEN "returned" ELSE "sleep"

\* Connected and greeted, the client starts its two loops.
Dial ==
  /\ ws = "dial" /\ ~stop /\ runtime
  /\ ws' = "open" /\ link' = TRUE /\ peer' = TRUE
  /\ cur' = cur + 1 /\ loops' = loops \cup {cur'}
  /\ attempt' = 0
  /\ UNCHANGED <<sup, stop, wire, lost, frameVars, runtime, faults>>

\* Mutant: a refused connection ends the client.
DialFails_Returns ==
  /\ ws = "dial" /\ ~stop /\ ~runtime
  /\ ws' = "returned"
  /\ UNCHANGED <<sup, stop, attempt, cur, linkVars, loops, frameVars, runtime, faults>>

\* Refused.
DialFails ==
  /\ ws = "dial" /\ ~stop /\ ~runtime
  /\ EndRound
  /\ UNCHANGED <<sup, stop, attempt, cur, linkVars, loops, frameVars, runtime, faults>>

DialStopped ==
  /\ ws = "dial" /\ stop
  /\ ws' = "returned"
  /\ UNCHANGED <<sup, stop, attempt, cur, linkVars, loops, frameVars, runtime, faults>>

\* The sleep is BACKOFF[min(attempt, len - 1)].
Awake ==
  /\ ws = "sleep"
  /\ ws' = "dial"
  /\ attempt' = IF attempt < Delays THEN attempt + 1 ELSE attempt
  /\ UNCHANGED <<sup, stop, cur, linkVars, loops, frameVars, runtime, faults>>

\* Taken from the queue when its connection is known to be closed.
Late(c) == [frame |-> Head(outQ), by |-> c, late |-> TRUE]

\* Mutant: a frame that could not be sent goes back to the end of the queue.
SendFrame_Requeue(c) ==
  /\ c \in loops /\ outQ # <<>>
  /\ IF c = cur /\ link
     THEN wire' = Append(wire, Head(outQ)) /\ outQ' = Tail(outQ) /\ UNCHANGED loops
     ELSE outQ' = Append(Tail(outQ), Head(outQ)) /\ loops' = loops \ {c} /\ UNCHANGED wire
  /\ UNCHANGED <<sup, ws, stop, attempt, cur, link, peer, typed, got, lost, runtime, faults>>

\* Mutant: the exception is caught inside the loop.
SendFrame_Swallow(c) ==
  /\ c \in loops /\ outQ # <<>>
  /\ outQ' = Tail(outQ)
  /\ IF c = cur /\ link
     THEN wire' = Append(wire, Head(outQ)) /\ UNCHANGED lost
     ELSE lost' = lost \cup {Late(c)} /\ UNCHANGED wire
  /\ UNCHANGED <<sup, ws, stop, attempt, cur, link, peer, loops, typed, got, runtime, faults>>

\* A send loop takes the next frame.  On an open connection it sends it, whether or not
\* the other side is still there; on a closed one the frame is lost and the loop over.
SendFrame(c) ==
  /\ c \in loops /\ outQ # <<>>
  /\ outQ' = Tail(outQ)
  /\ IF c = cur /\ link
     THEN /\ wire' = Append(wire, Head(outQ))
          /\ UNCHANGED <<loops, lost>>
     ELSE /\ lost' = lost \cup {Late(c)}
          /\ loops' = loops \ {c}
          /\ UNCHANGED wire
  /\ UNCHANGED <<sup, ws, stop, attempt, cur, link, peer, typed, got, runtime, faults>>

\* gather() returns when the receive loop (over as soon as the connection is) and
\* the send loop have returned.
BothLoopsOver ==
  /\ ws = "open" /\ ~link /\ cur \notin loops
  /\ EndRound
  /\ UNCHANGED <<sup, stop, attempt, cur, linkVars, loops, frameVars, runtime, faults>>

\* The handler raises: gather() raises at once and leaves the send loop behind.
RawHandlerFails ==
  /\ ws = "open" /\ link /\ faults.raw < MaxRaw
  /\ EndRound /\ Closed
  /\ Fault("raw")
  /\ UNCHANGED <<sup, stop, attempt, cur, loops, frameVars, runtime>>

\* The client notices that the other side is gone.
Notice ==
  /\ link /\ ~peer
  /\ Closed
  /\ UNCHANGED <<sup, ws, stop, attempt, cur, loops, frameVars, runtime, faults>>

-----------------------------------------------------------------------------
(* The runtime and the network *)

\* The next frame on its way arrives.
Arrive ==
  /\ peer /\ wire # <<>>
  /\ wire' = Tail(wire) /\ got' = Append(got, [frame |-> Head(wire), by |-> cur])
  /\ UNCHANGED <<sup, ws, stop, attempt, cur, link, peer, lost, loops, outQ, typed, runtime, faults>>

\* The runtime closes the connection (another one of the source replaces it), or goes
\* down, or the network does.
Break ==
  /\ peer /\ faults.break < MaxBreaks
  /\ peer' = FALSE
  /\ runtime' \in BOOLEAN
  /\ Fault("break")
  /\ UNCHANGED <<sup, ws, stop, attempt, cur, link, wire, lost, loops, frameVars>>

ComesUp ==
  /\ ~runtime
  /\ runtime' = TRUE
  /\ UNCHANGED <<sup, clientVars, frameVars, faults>>

Supervisor == Start \/ StartFails \/ Restart
Client == Dial \/ DialFails \/ DialStopped \/ Awake \/ BothLoopsOver \/ Notice
SendLoop == \E c \in loops : SendFrame(c)

Next == \/ Supervisor \/ Client \/ SendLoop
        \/ Type \/ Arrive \/ ListenCrashes \/ RawHandlerFails \/ Break \/ ComesUp

Spec == Init /\ [][Next]_vars

\* Coroutines that are ready run, sleeps and keepalives end, and the runtime is started
\* again.  Nothing is assumed of what is on its way.
FairSpec == Spec /\ WF_vars(Supervisor) /\ WF_vars(Client) /\ WF_vars(SendLoop) /\ WF_vars(ComesUp)

-----------------------------------------------------------------------------
(* Properties *)

\* What the variables hold.
TypeOK ==
  /\ sup \in {"start", "run", "sleep"}
  /\ ws \in {"none", "dial", "open", "sleep", "returned"}
  /\ stop \in BOOLEAN /\ link \in BOOLEAN /\ peer \in BOOLEAN /\ runtime \in BOOLEAN
  /\ attempt \in 0..Delays /\ cur \in Nat
  /\ loops \subseteq 1..cur
  /\ typed \in 0..MaxFrames /\ outQ \in Seq(1..typed) /\ wire \in Seq(1..typed)
  /\ got \in Seq([frame : 1..typed, by : 1..cur])
  /\ lost \subseteq [frame : 1..typed, by : 1..cur, late : BOOLEAN]
  /\ faults \in [{"break", "raw", "start", "crash"} -> Nat]

\* The runtime receives the user's frames in the order they were produced and none
\* twice, over all reconnects, whichever of several send loops takes them
\* (runtime_ws_client.py 103-109).
FramesInOrder ==
  \A i, j \in DOMAIN got : i < j => got[i].frame < got[j].frame

\* Where a frame may be.
Queued(f)   == \E i \in DOMAIN outQ : outQ[i] = f
OnItsWay(f) == \E i \in DOMAIN wire : wire[i] = f
Received(f) == \E i \in DOMAIN got : got[i].frame = f
LostWith(f) == {x.by : x \in {y \in lost : y.frame = f}}

\* A frame that has left the queue is on its way, received, or lost with a connection
\* that is over.  What a connection loses comes after all that it delivered; and once
\* the client knows that it is closed, it costs at most one frame more: the rest waits
\* for the next one (runtime_ws_client.py 103-109, multi-channel.md 147).
LossesEndConnections ==
  /\ \A f \in 1..typed : Queued(f) \/ OnItsWay(f) \/ Received(f) \/ LostWith(f) # {}
  /\ \A x \in lost : ~Received(x.frame) /\ (x.by # cur \/ ~link)
  /\ \A x \in lost, i \in DOMAIN got : x.by = got[i].by => got[i].frame < x.frame
  /\ \A x, y \in lost : x.by = y.by /\ x.late /\ y.late => x = y

\* A channel whose connection is gone is connected again, unless it was stopped, once
\* it has a frame for every send loop a dead connection has left behind
\* (runtime_ws_client.py 74-94).
SendingReconnects ==
  (ws # "none" /\ ~link /\ Len(outQ) >= Cardinality(loops) /\ ~stop) ~> (link \/ stop)

\* runtime_ws_client.py 10 and ARCHITECTURE.md 566: whenever the connection is gone
\* the client reconnects by itself.
Reconnects == []<>link
=============================================================================
