--------------------------- MODULE SessionRouting ---------------------------
(***************************************************************************)
(* RuntimeServer (core/runtime_server.py) composed with SessionManager     *)
(* (core/session_manager.py): connections that say hello, replace one      *)
(* another and die; the clients lock; sessions created by the first        *)
(* message and swept when idle; one consumer per session that sends what   *)
(* the session puts out to the source that spoke last.                     *)
(*                                                                         *)
(* A connection is one websocket.  What it will announce in its hello is   *)
(* fixed: Source and Home; one that says no hello has the server's default *)
(* values, and its first frame waits in its inbox like any other.  Of a    *)
(* session's engine (module LoopEngine) only this is kept: it takes a      *)
(* message, is busy, and puts one event into its output queue.             *)
(***************************************************************************)
EXTENDS Sequences, FiniteSets, Naturals, Functions

CONSTANTS Conns, Sources, Sessions,
          Source,      \* Source[c]: the channel the connection belongs to
          Home,        \* Home[c]: the session of its hello
          Subscribers, \* connections that ask for the async task frames
          Msgs,        \* messages of clients, each sent once
          Notices,     \* outcomes of tasks, each told once
          Topic,       \* Topic[m]: the session of the message or notice
          MaxClients,  \* cfg.max_clients
          MaxSweeps,   \* bounds the sweeps that destroy a session
          Stops,       \* TRUE when the runtime may be stopped
          None

ASSUME RoutingAssumption ==
  /\ Source \in [Conns -> Sources]
  /\ Home \in [Conns -> Sessions]
  /\ Subscribers \subseteq Conns
  /\ Msgs \cap Notices = {} /\ Topic \in [Msgs \cup Notices -> Sessions]
  /\ MaxClients \in Nat \ {0} /\ MaxSweeps \in Nat /\ Stops \in BOOLEAN
  /\ None \notin Conns \cup Sources \cup Sessions \cup Msgs \cup Notices

VARIABLES
  conn,        \* where _on_connect of the connection is
  open,        \* the server can still send on the connection
  inbox,       \* frames the peer has sent and the server has not received
  lock,        \* the connection whose handler holds _clients_lock over an await
  clients,     \* _clients: source -> connection
  lastActive,  \* _last_active_source: session -> source
  subs,        \* _async_task_subscribers
  live,        \* the session is in _sessions
  inputQ,      \* input_q of the session's loop
  step,        \* the message its engine is busy with
  outputQ,     \* output_q: events, each the answer to a message
  consumer,    \* _outbound_consumer of the session
  up,          \* the runtime has not been stopped
  asked,       \* history: who sent the message, and the server has it
  frame,       \* history: the last event sent, and the connection it was sent on
  gone,        \* history: events a destroyed session had not yet taken or not yet sent
  sweeps       \* history: sessions swept

vars == <<conn, open, inbox, lock, clients, lastActive, subs, live, inputQ, step,
          outputQ, consumer, up, asked, frame, gone, sweeps>>
serverVars  == <<clients, lastActive, subs>>
sessionVars == <<live, inputQ, step, outputQ, consumer>>
historyVars == <<asked, frame, gone, sweeps>>

Events == Msgs \cup Notices

\* The consumer waits for an event, for the lock, or in send().
NoEvent == [pc |-> "get", ev |-> None, src |-> None, ws |-> None]

Init ==
  /\ conn = [c \in Conns |-> "new"]
  /\ open = [c \in Conns |-> TRUE]
  /\ inbox = [c \in Conns |-> <<>>]
  /\ lock = None
  /\ clients = [s \in Sources |-> None]
  /\ lastActive = [k \in Sessions |-> None]
  /\ subs = {}
  /\ live = [k \in Sessions |-> FALSE]
  /\ inputQ = [k \in Sessions |-> <<>>]
  /\ step = [k \in Sessions |-> None]
  /\ outputQ = [k \in Sessions |-> <<>>]
  /\ consumer = [k \in Sessions |-> NoEvent]
  /\ up = TRUE
  /\ asked = [m \in Events |-> [from |-> None, received |-> FALSE]]
  /\ frame = [ev |-> None, ws |-> None]
  /\ gone = {} /\ sweeps = 0

-----------------------------------------------------------------------------
(* The peers *)

\* A frame sent before the connection is served waits unseen, as if sent later.
\* Every frame names its session.
PeerSends(c, m) ==
  /\ conn[c] = "serve" /\ open[c]
  /\ asked[m].from = None
  /\ asked' = [asked EXCEPT ![m] = [from |-> c, received |-> FALSE]]
  /\ inbox' = [inbox EXCEPT ![c] = Append(@, m)]
  /\ UNCHANGED <<conn, open, lock, serverVars, sessionVars, up, frame, gone, sweeps>>

\* The peer closes, or the server's keep-alive finds it dead.
PeerCloses(c) ==
  /\ conn[c] \in {"register", "replacing", "greet", "serve"} /\ open[c]
  /\ open' = [open EXCEPT ![c] = FALSE]
  /\ UNCHANGED <<conn, inbox, lock, serverVars, sessionVars, up, historyVars>>

-----------------------------------------------------------------------------
(* _on_connect *)

Registered == {s \in Sources : clients[s] # None}

\* A connection above the limit is closed with the lock held.
Connect(c) ==
  /\ conn[c] = "new" /\ lock = None /\ up
  /\ IF Cardinality(Registered) >= MaxClients
     THEN /\ conn' = [conn EXCEPT ![c] = "refused"]
          /\ open' = [open EXCEPT ![c] = FALSE]
          /\ lock' = c
     ELSE conn' = [conn EXCEPT ![c] = "hello"] /\ UNCHANGED <<open, lock>>
  /\ UNCHANGED <<inbox, serverVars, sessionVars, up, historyVars>>

Refused(c) ==
  /\ conn[c] = "refused"
  /\ conn' = [conn EXCEPT ![c] = "gone"]
  /\ lock' = None
  /\ UNCHANGED <<open, inbox, serverVars, sessionVars, up, historyVars>>

\* The first frame arrives in time; it may subscribe before it is registered.
Hello(c) ==
  /\ conn[c] = "hello"
  /\ conn' = [conn EXCEPT ![c] = "register"]
  /\ subs' = subs \cup ({c} \cap Subscribers)
  /\ UNCHANGED <<open, inbox, lock, clients, lastActive, sessionVars, up, historyVars>>

\* Timeout, a closed connection, or a first frame that is no object.
HelloFails(c) ==
  /\ conn[c] = "hello"
  /\ conn' = [conn EXCEPT ![c] = "gone"]
  /\ open' = [open EXCEPT ![c] = FALSE]
  /\ UNCHANGED <<inbox, lock, serverVars, sessionVars, up, historyVars>>

Enter(c) ==
  /\ clients' = [clients EXCEPT ![Source[c]] = c]
  /\ lastActive' = [lastActive EXCEPT ![Home[c]] = Source[c]]
  /\ conn' = [conn EXCEPT ![c] = "greet"]
  /\ UNCHANGED subs

\* An older connection of the source is closed first, with the lock held.
Register(c) ==
  /\ conn[c] = "register" /\ lock = None
  /\ LET old == clients[Source[c]] IN
     IF old = None
     THEN Enter(c) /\ UNCHANGED <<open, lock>>
     ELSE /\ open' = [open EXCEPT ![old] = FALSE]
          /\ lock' = c
          /\ conn' = [conn EXCEPT ![c] = "replacing"]
          /\ UNCHANGED serverVars
  /\ UNCHANGED <<inbox, sessionVars, up, historyVars>>

Replaced(c) ==
  /\ conn[c] = "replacing"
  /\ Enter(c)
  /\ lock' = None
  /\ UNCHANGED <<open, inbox, sessionVars, up, historyVars>>

\* The server's hello.  It is sent before the try whose finally cleans up: when it
\* fails the handler ends and the connection stays registered.
Greet(c) ==
  /\ conn[c] = "greet"
  /\ conn' = [conn EXCEPT ![c] = IF open[c] THEN "serve" ELSE "ghost"]
  /\ UNCHANGED <<open, inbox, lock, serverVars, sessionVars, up, historyVars>>

\* Mutant: the entry of the source is deleted whatever connection it names.
Leave_AnyConnection(c) ==
  /\ conn[c] = "serve" /\ ~open[c] /\ lock = None
  /\ conn' = [conn EXCEPT ![c] = "gone"]
  /\ clients' = [clients EXCEPT ![Source[c]] = None]
  /\ subs' = subs \ {c}
  /\ inbox' = [inbox EXCEPT ![c] = <<>>]
  /\ UNCHANGED <<open, lock, lastActive, sessionVars, up, historyVars>>

\* Mutant: the subscription outlives the connection.
Leave_StaysSubscribed(c) ==
  /\ conn[c] = "serve" /\ ~open[c] /\ lock = None
  /\ conn' = [conn EXCEPT ![c] = "gone"]
  /\ clients' = [s \in Sources |->
                   IF s = Source[c] /\ clients[s] = c THEN None ELSE clients[s]]
  /\ inbox' = [inbox EXCEPT ![c] = <<>>]
  /\ UNCHANGED <<open, lock, lastActive, subs, sessionVars, up, historyVars>>

\* The receive loop is over.
Leave(c) ==
  /\ conn[c] = "serve" /\ ~open[c] /\ lock = None
  /\ conn' = [conn EXCEPT ![c] = "gone"]
  /\ clients' = [s \in Sources |->
                   IF s = Source[c] /\ clients[s] = c THEN None ELSE clients[s]]
  /\ subs' = subs \ {c}
  /\ inbox' = [inbox EXCEPT ![c] = <<>>]
  /\ UNCHANGED <<open, lock, lastActive, sessionVars, up, historyVars>>

-----------------------------------------------------------------------------
(* dispatch_inbound, and the life of a session *)

\* A session starts with empty queues, its consumer (which the server is given
\* first) waiting for an event: what a destroyed session has left behind.
Created(k) == live' = [live EXCEPT ![k] = TRUE]

\* Created if it is not there, then given ev.
Deliver(k, ev) ==
  /\ Created(k)
  /\ inputQ' = [inputQ EXCEPT ![k] = Append(@, ev)]
  /\ UNCHANGED <<step, outputQ, consumer>>

\* _dispatch_inbound has no point of suspension: the source that spoke is noted
\* in the same step.
Dispatch(c) ==
  /\ conn[c] = "serve" /\ inbox[c] # <<>>
  /\ LET m == Head(inbox[c])
         k == Topic[m] IN
     /\ Deliver(k, m)
     /\ lastActive' = [lastActive EXCEPT ![k] = Source[c]]
     /\ asked' = [asked EXCEPT ![m].received = TRUE]
  /\ inbox' = [inbox EXCEPT ![c] = Tail(@)]
  /\ UNCHANGED <<conn, open, lock, clients, subs, up, frame, gone, sweeps>>

\* AsyncTaskManager tells a session the outcome of a task: no source speaks.
Notify(n) ==
  /\ ~asked[n].received /\ up
  /\ Deliver(Topic[n], n)
  /\ asked' = [asked EXCEPT ![n] = [from |-> None, received |-> TRUE]]
  /\ UNCHANGED <<conn, open, inbox, lock, serverVars, up, frame, gone, sweeps>>

Work(k) ==
  /\ live[k] /\ step[k] = None /\ inputQ[k] # <<>>
  /\ step' = [step EXCEPT ![k] = Head(inputQ[k])]
  /\ inputQ' = [inputQ EXCEPT ![k] = Tail(@)]
  /\ UNCHANGED <<conn, open, inbox, lock, serverVars, live, outputQ, consumer, up, historyVars>>

Answer(k) ==
  /\ step[k] # None
  /\ outputQ' = [outputQ EXCEPT ![k] = Append(@, step[k])]
  /\ step' = [step EXCEPT ![k] = None]
  /\ UNCHANGED <<conn, open, inbox, lock, serverVars, live, inputQ, consumer, up, historyVars>>

\* Their consumers are cancelled wherever they wait, and forget who spoke last.
Unregistered(ks) ==
  /\ consumer' = [k \in Sessions |-> IF k \in ks THEN NoEvent ELSE consumer[k]]
  /\ lastActive' = [k \in Sessions |-> IF k \in ks THEN None ELSE lastActive[k]]

\* What a set of sessions leaves when it is popped, unregistered and cancelled.
DestroySessions(ks) ==
  /\ Unregistered(ks)
  /\ live' = [k \in Sessions |-> live[k] /\ k \notin ks]
  /\ inputQ' = [k \in Sessions |-> IF k \in ks THEN <<>> ELSE inputQ[k]]
  /\ step' = [k \in Sessions |-> IF k \in ks THEN None ELSE step[k]]
  /\ outputQ' = [k \in Sessions |-> IF k \in ks THEN <<>> ELSE outputQ[k]]
  /\ gone' = gone \cup UNION {Range(inputQ[k]) \cup Range(outputQ[k])
                                 \cup ({consumer[k].ev} \ {None}) : k \in ks}

\* Mutant: a session is swept although a step of it runs.
Sweep_Busy(k) ==
  /\ live[k]
  /\ up /\ sweeps < MaxSweeps
  /\ DestroySessions({k})
  /\ sweeps' = sweeps + 1
  /\ UNCHANGED <<conn, open, inbox, lock, clients, subs, up, asked, frame>>

\* Five minutes after the last message; the session is spared while a step runs, but
\* nobody looks into its queues.
Sweep(k) ==
  /\ live[k] /\ step[k] = None
  /\ up /\ sweeps < MaxSweeps
  /\ DestroySessions({k})
  /\ sweeps' = sweeps + 1
  /\ UNCHANGED <<conn, open, inbox, lock, clients, subs, up, asked, frame>>

-----------------------------------------------------------------------------
(* _outbound_consumer *)

\* Mutant: without its source connected an event goes to whoever is.
Lookup_Anyone(k, ev, src) ==
  consumer' = [consumer EXCEPT ![k] =
                 IF Registered = {} THEN NoEvent
                 ELSE LET to == IF clients[src] # None THEN src ELSE CHOOSE s \in Registered : TRUE
                      IN  [pc |-> "send", ev |-> ev, src |-> to, ws |-> clients[to]]]

\* The client of the source, looked up with the lock held; without one the event
\* is dropped.
Lookup(k, ev, src) ==
  consumer' = [consumer EXCEPT ![k] =
                 IF clients[src] = None THEN NoEvent
                 ELSE [pc |-> "send", ev |-> ev, src |-> src, ws |-> clients[src]]]

\* The source is read before the lock is taken.
Take(k) ==
  /\ live[k] /\ consumer[k].pc = "get" /\ outputQ[k] # <<>> /\ up
  /\ outputQ' = [outputQ EXCEPT ![k] = Tail(@)]
  /\ LET ev  == Head(outputQ[k])
         src == lastActive[k] IN
     CASE src = None -> UNCHANGED consumer
       [] src # None /\ lock = None -> Lookup(k, ev, src)
       [] OTHER -> consumer' = [consumer EXCEPT ![k] =
                                  [pc |-> "lock", ev |-> ev, src |-> src, ws |-> None]]
  /\ UNCHANGED <<conn, open, inbox, lock, serverVars, live, inputQ, step, up, historyVars>>

Locked(k) ==
  /\ consumer[k].pc = "lock" /\ lock = None
  /\ Lookup(k, consumer[k].ev, consumer[k].src)
  /\ UNCHANGED <<conn, open, inbox, lock, serverVars, live, inputQ, step, outputQ, up, historyVars>>

\* send() may wait for a slow peer.  When it raises the connection is forgotten,
\* unless another one has taken its place.
Send(k) ==
  /\ consumer[k].pc = "send"
  /\ LET ws == consumer[k].ws IN
     IF open[ws]
     THEN frame' = [ev |-> consumer[k].ev, ws |-> ws] /\ UNCHANGED clients
     ELSE /\ lock = None
          /\ clients' = [s \in Sources |->
                           IF s = consumer[k].src /\ clients[s] = ws THEN None ELSE clients[s]]
          /\ UNCHANGED frame
  /\ consumer' = [consumer EXCEPT ![k] = NoEvent]
  /\ UNCHANGED <<conn, open, inbox, lock, lastActive, subs, live, inputQ, step, outputQ, up,
                 asked, gone, sweeps>>

\* broadcast_async_task: subscribers whose send fails are forgotten.
Broadcast ==
  /\ \E c \in subs : ~open[c]
  /\ subs' = {c \in subs : open[c]}
  /\ UNCHANGED <<conn, open, inbox, lock, clients, lastActive, sessionVars, up, historyVars>>

-----------------------------------------------------------------------------
(* The teardown in run.py: sessions are destroyed, then connections closed *)

\* RuntimeServer.stop: the connections are closed one after the other with the lock
\* held, here in one step.
AllClosed == lock = None /\ open' = [c \in Conns |-> FALSE]

Stop ==
  /\ Stops /\ up /\ AllClosed
  /\ up' = FALSE
  /\ DestroySessions({k \in Sessions : live[k]})
  /\ UNCHANGED <<conn, inbox, lock, clients, subs, asked, frame, sweeps>>

Handler(c)  == \/ Refused(c) \/ Register(c) \/ Replaced(c) \/ Greet(c) \/ Leave(c) \/ Dispatch(c)
Engine(k)   == Work(k) \/ Answer(k)
Outbound(k) == Take(k) \/ Locked(k) \/ Send(k)

Next ==
  \/ \E c \in Conns : \/ \E m \in Msgs : PeerSends(c, m)
                     \/ PeerCloses(c) \/ Connect(c) \/ Hello(c) \/ HelloFails(c)
                     \/ Handler(c)
  \/ \E k \in Sessions : Engine(k) \/ Outbound(k) \/ Sweep(k)
  \/ \E n \in Notices : Notify(n)
  \/ Broadcast \/ Stop

Spec == Init /\ [][Next]_vars

\* Every handler, consumer and engine that is ready runs: a close under the lock ends
\* by its timeout, and the engine answers (MessageAnswered of module LoopEngine).
Scheduling ==
  /\ \A c \in Conns : WF_vars(Handler(c))
  /\ \A k \in Sessions : WF_vars(Engine(k)) /\ WF_vars(Outbound(k))

FairSpec == Spec /\ Scheduling
-----------------------------------------------------------------------------
(* Properties *)

ConnPcs == {"new", "refused", "hello", "register", "replacing", "greet", "serve", "ghost", "gone"}

\* What the variables hold: an event is on its way only in a consumer that is not
\* waiting for one.
TypeOK ==
  /\ conn \in [Conns -> ConnPcs] /\ open \in [Conns -> BOOLEAN]
  /\ inbox \in [Conns -> Seq(Msgs)]
  /\ lock \in Conns \cup {None}
  /\ clients \in [Sources -> Conns \cup {None}]
  /\ lastActive \in [Sessions -> Sources \cup {None}]
  /\ subs \subseteq Subscribers
  /\ live \in [Sessions -> BOOLEAN]
  /\ inputQ \in [Sessions -> Seq(Events)] /\ outputQ \in [Sessions -> Seq(Events)]
  /\ step \in [Sessions -> Events \cup {None}]
  /\ consumer \in [Sessions ->
        {NoEvent} \cup [pc : {"lock"}, ev : Events, src : Sources, ws : {None}]
                  \cup [pc : {"send"}, ev : Events, src : Sources, ws : Conns]]
  /\ up \in BOOLEAN
  /\ asked \in [Events ->
        [from : Conns \cup {None}, received : BOOLEAN]]
  /\ frame \in [ev : Events \cup {None}, ws : Conns \cup {None}]
  /\ gone \subseteq Events /\ sweeps \in Nat

\* The connection that is greeted or served, and that nobody has closed, is the one
\* its source is reached by: what an older connection's end or a failing send cleans
\* up is never the newer one that took its place (runtime_server.py 297-300, 367-369).
ServedIsRegistered ==
  \A c \in Conns : conn[c] \in {"greet", "serve"} /\ open[c] => clients[Source[c]] = c

\* The lock is held over an await by exactly the handler that closes a connection
\* under it, so it cannot be leaked (runtime_server.py 217-220, 265-275).
LockHeldByCloser ==
  \A c \in Conns : lock = c <=> conn[c] \in {"refused", "replacing"}

\* No conversation leaks to a channel that never took part in it: an event is sent
\* only to a source that has announced or addressed its session (ARCHITECTURE.md 12.5).
NoLeak ==
  \A c \in Conns, e \in Events : frame = [ev |-> e, ws |-> c] =>
    \/ \E d \in Conns : Source[d] = Source[c] /\ Home[d] = Topic[e]
    \/ \E m \in Msgs : /\ asked[m].received /\ Topic[m] = Topic[e]
                       /\ Source[asked[m].from] = Source[c]

\* The message, or the answer to it, is with the session or its consumer.
InHand(m) ==
  \E k \in Sessions :
    m \in Range(inputQ[k]) \cup Range(outputQ[k]) \cup {step[k], consumer[k].ev}

\* A client that asks and stays connected sees the answer, unless another source
\* speaks up in the session, or the session is swept before its engine took the
\* message or a slow client the answer: a sweep never takes the work in progress
\* (session_manager.py 248-252).
AnswerReaches ==
  \A m \in Msgs :
    InHand(m) ~> \/ m \in gone \/ ~up
                 \/ \E c \in Conns :
                      /\ c = asked[m].from
                      /\ \/ frame = [ev |-> m, ws |-> c] \/ ~open[c]
                         \/ lastActive[Topic[m]] \notin {Source[c], None}

\* A served connection that dies is forgotten, whoever holds the lock meanwhile
\* (runtime_server.py 295-300).
DeadIsForgotten ==
  (\E c \in Conns : conn[c] = "serve" /\ ~open[c])
    ~> \A c \in Conns : conn[c] \in {"serve", "gone"} /\ ~open[c]
                        => clients[Source[c]] # c /\ c \notin subs
=============================================================================
