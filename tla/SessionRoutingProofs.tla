------------------------ MODULE SessionRoutingProofs ------------------------
(***************************************************************************)
(* What TLAPS proves of SessionRouting for any connections, sources,       *)
(* sessions and messages: the lock is never leaked, a connection that is   *)
(* served is the one its source is reached by, and an event is sent only   *)
(* to a source that has announced or addressed its session.                *)
(***************************************************************************)
EXTENDS SessionRouting, TLAPS

(* Source s may hear of session k, a being `asked': the core of NoLeak.    *)
Entitled(a, s, k) ==
  \/ \E d \in Conns : Source[d] = s /\ Home[d] = k
  \/ \E m \in Msgs : a[m].received /\ Topic[m] = k /\ Source[a[m].from] = s

About(k) == {e \in Events : Topic[e] = k}

ConnInv ==
  /\ conn \in [Conns -> ConnPcs] /\ open \in [Conns -> BOOLEAN]
  /\ lock \in Conns \cup {None}
  /\ clients \in [Sources -> Conns \cup {None}]
  /\ \A s \in Sources : clients[s] # None => Source[clients[s]] = s

(* While an older connection is closed, no open one of its source is served. *)
ReplacingInv ==
  \A c, d \in Conns :
    conn[c] = "replacing" /\ Source[d] = Source[c] /\ conn[d] \in {"greet", "serve"} => ~open[d]

AskedInv ==
  /\ asked \in [Events -> [from : Conns \cup {None}, received : BOOLEAN]]
  /\ inbox \in [Conns -> Seq(Msgs)]
  /\ \A c \in Conns : \A i \in DOMAIN inbox[c] : asked[inbox[c][i]].from = c
  /\ \A m \in Msgs : asked[m].received => asked[m].from # None

QueueInv ==
  /\ \A k \in Sessions : inputQ[k] \in Seq(About(k)) /\ outputQ[k] \in Seq(About(k))
  /\ \A k \in Sessions : step[k] \in About(k) \cup {None}
  /\ inputQ \in [Sessions -> Seq(Events)] /\ outputQ \in [Sessions -> Seq(Events)]
  /\ step \in [Sessions -> Events \cup {None}]

ConsumerInv ==
  /\ consumer \in [Sessions ->
        {NoEvent} \cup [pc : {"lock"}, ev : Events, src : Sources, ws : {None}]
                  \cup [pc : {"send"}, ev : Events, src : Sources, ws : Conns]]
  /\ \A k \in Sessions : consumer[k].pc # "get" => consumer[k].ev \in About(k)
  /\ \A k \in Sessions : consumer[k].pc = "send" => Source[consumer[k].ws] = consumer[k].src

(* Whoever an event is meant for, or was sent to, is entitled to it.       *)
EntitledInv ==
  /\ lastActive \in [Sessions -> Sources \cup {None}]
  /\ frame \in [ev : Events \cup {None}, ws : Conns \cup {None}]
  /\ \A k \in Sessions : lastActive[k] # None => Entitled(asked, lastActive[k], k)
  /\ \A k \in Sessions : consumer[k].pc # "get" => Entitled(asked, consumer[k].src, k)
  /\ frame.ev # None => frame.ws \in Conns /\ Entitled(asked, Source[frame.ws], Topic[frame.ev])

RestInv ==
  /\ subs \subseteq Subscribers /\ live \in [Sessions -> BOOLEAN] /\ up \in BOOLEAN
  /\ gone \subseteq Events /\ sweeps \in Nat

ServerInv == ConnInv /\ LockHeldByCloser /\ ServedIsRegistered /\ ReplacingInv
FlowInv   == AskedInv /\ QueueInv /\ ConsumerInv /\ EntitledInv

IInv == ServerInv /\ FlowInv /\ RestInv

-----------------------------------------------------------------------------
LEMMA InitInv == Init => IInv
<1> SUFFICES ASSUME Init PROVE IInv
  OBVIOUS
<1>1. ServerInv
  BY RoutingAssumption DEF Init, ServerInv, ConnInv, ConnPcs, LockHeldByCloser,
                           ServedIsRegistered, ReplacingInv
<1>2. AskedInv
  <2>1. <<>> \in Seq(Msgs) /\ DOMAIN <<>> = {}
    OBVIOUS
  <2> QED  BY <2>1 DEF Init, AskedInv, Events
<1>3. QueueInv
  <2>1. \A S : <<>> \in Seq(S)
    OBVIOUS
  <2> QED  BY <2>1 DEF Init, QueueInv
<1>4. ConsumerInv /\ EntitledInv
  BY DEF Init, ConsumerInv, EntitledInv, NoEvent
<1>5. RestInv
  BY DEF Init, RestInv
<1> QED  BY <1>1, <1>2, <1>3, <1>4, <1>5 DEF IInv, FlowInv

LEMMA Queued ==
  ASSUME NEW S, NEW q \in Seq(S), NEW e \in S
  PROVE  Append(q, e) \in Seq(S) /\ <<>> \in Seq(S)
OBVIOUS

LEMMA Taken ==
  ASSUME NEW S, NEW q \in Seq(S), q # <<>>
  PROVE  /\ Head(q) \in S /\ Tail(q) \in Seq(S)
         /\ 1 \in DOMAIN q /\ Head(q) = q[1]
         /\ \A i \in DOMAIN Tail(q) : i + 1 \in DOMAIN q /\ Tail(q)[i] = q[i + 1]
OBVIOUS

-----------------------------------------------------------------------------
(* The clients: who holds the lock, who is registered.                     *)

LEMMA ServerAlone ==
  ASSUME ServerInv, UNCHANGED <<conn, open, lock, clients>>
  PROVE  ServerInv'
BY DEF ServerInv, ConnInv, LockHeldByCloser, ServedIsRegistered, ReplacingInv

\* The connection is registered: nobody else of its source is open and served.
LEMMA EnterServer ==
  ASSUME ServerInv, NEW c \in Conns, Enter(c), UNCHANGED open, lock' = None,
         conn[c] \in {"register", "replacing"}, lock \in {None, c},
         \A d \in Conns : d # c /\ Source[d] = Source[c] /\ conn[d] \in {"greet", "serve"}
                            => ~open[d]
  PROVE  ServerInv'
<1>0. Source[c] \in Sources /\ None \notin Conns
  BY RoutingAssumption
<1>1. /\ conn' = [conn EXCEPT ![c] = "greet"] /\ clients' = [clients EXCEPT ![Source[c]] = c]
      /\ \A d \in Conns : Source[d] \in Sources
  BY RoutingAssumption DEF Enter
<1>2. ConnInv'
  BY <1>0, <1>1 DEF ServerInv, ConnInv, ConnPcs
<1>3. LockHeldByCloser'
  BY <1>0, <1>1 DEF ServerInv, ConnInv, LockHeldByCloser
<1>4. ServedIsRegistered'
  BY <1>0, <1>1 DEF ServerInv, ConnInv, ServedIsRegistered
<1>5. ReplacingInv'
  BY <1>0, <1>1 DEF ServerInv, ConnInv, LockHeldByCloser, ReplacingInv
<1> QED  BY <1>2, <1>3, <1>4, <1>5 DEF ServerInv

LEMMA RegisterServer ==
  ASSUME ServerInv, NEW c \in Conns, Register(c)
  PROVE  ServerInv'
<1>0. Source \in [Conns -> Sources] /\ None \notin Conns
  BY RoutingAssumption
<1>1. CASE clients[Source[c]] = None
  <2>1. Enter(c) /\ UNCHANGED <<open, lock>> /\ conn[c] = "register" /\ lock = None
    BY <1>1 DEF Register
  <2>2. \A d \in Conns : d # c /\ Source[d] = Source[c] /\ conn[d] \in {"greet", "serve"}
                           => ~open[d]
    BY <1>0, <1>1 DEF ServerInv, ServedIsRegistered
  <2> QED  BY <2>1, <2>2, EnterServer
<1>2. CASE clients[Source[c]] # None
  <2> DEFINE old == clients[Source[c]]
  <2>1. /\ open' = [open EXCEPT ![old] = FALSE] /\ lock' = c /\ lock = None
        /\ conn' = [conn EXCEPT ![c] = "replacing"] /\ clients' = clients
        /\ conn[c] = "register"
    BY <1>2 DEF Register, serverVars
  <2>2. old \in Conns
    BY <1>0, <1>2 DEF ServerInv, ConnInv
  <2>3. ConnInv'
    BY <1>0, <2>1, <2>2 DEF ServerInv, ConnInv, ConnPcs
  <2>4. LockHeldByCloser'
    BY <1>0, <2>1 DEF ServerInv, ConnInv, LockHeldByCloser
  <2>5. ServedIsRegistered'
    BY <1>0, <2>1, <2>2 DEF ServerInv, ConnInv, ServedIsRegistered
  <2>6. ReplacingInv'
    <3> SUFFICES ASSUME NEW x \in Conns, NEW d \in Conns, conn'[x] = "replacing",
                        Source[d] = Source[x], conn'[d] \in {"greet", "serve"}
                 PROVE  ~open'[d]
      BY DEF ReplacingInv
    <3>1. x = c
      BY <1>0, <2>1 DEF ServerInv, ConnInv, LockHeldByCloser
    <3>2. conn[d] \in {"greet", "serve"}
      BY <2>1 DEF ServerInv, ConnInv
    <3>3. CASE d = old
      BY <2>1, <2>2, <3>3 DEF ServerInv, ConnInv
    <3>4. CASE d # old
      BY <2>1, <2>2, <3>1, <3>2, <3>4 DEF ServerInv, ConnInv, ServedIsRegistered
    <3> QED  BY <3>3, <3>4
  <2> QED  BY <2>3, <2>4, <2>5, <2>6 DEF ServerInv
<1> QED  BY <1>1, <1>2

LEMMA HandlerServer ==
  ASSUME ServerInv, NEW c \in Conns,
         PeerCloses(c) \/ Connect(c) \/ Refused(c) \/ Hello(c) \/ HelloFails(c)
           \/ Register(c) \/ Replaced(c) \/ Greet(c) \/ Leave(c)
  PROVE  ServerInv'
<1>0. Source \in [Conns -> Sources] /\ None \notin Conns
  BY RoutingAssumption
<1>1. CASE Register(c)
  BY <1>1, RegisterServer
<1>2. CASE Replaced(c)
  <2>1. /\ Enter(c) /\ lock' = None /\ UNCHANGED open /\ conn[c] = "replacing" /\ lock = c
    BY <1>2 DEF Replaced, ServerInv, LockHeldByCloser
  <2>2. \A d \in Conns : d # c /\ Source[d] = Source[c] /\ conn[d] \in {"greet", "serve"}
                           => ~open[d]
    BY <2>1 DEF ServerInv, ReplacingInv
  <2> QED  BY <2>1, <2>2, EnterServer
<1>3. CASE Leave(c)
  <2>1. /\ conn' = [conn EXCEPT ![c] = "gone"] /\ ~open[c] /\ conn[c] = "serve"
        /\ clients' = [s \in Sources |->
                         IF s = Source[c] /\ clients[s] = c THEN None ELSE clients[s]]
        /\ UNCHANGED <<open, lock>>
    BY <1>3 DEF Leave
  <2>2. ConnInv' /\ LockHeldByCloser'
    BY <1>0, <2>1 DEF ServerInv, ConnInv, ConnPcs, LockHeldByCloser
  <2>3. ServedIsRegistered'
    BY <1>0, <2>1 DEF ServerInv, ConnInv, ServedIsRegistered
  <2>4. ReplacingInv'
    BY <2>1 DEF ServerInv, ConnInv, ReplacingInv
  <2> QED  BY <2>2, <2>3, <2>4 DEF ServerInv
<1>4. CASE PeerCloses(c)
  BY <1>4 DEF PeerCloses, serverVars, ServerInv, ConnInv, LockHeldByCloser,
              ServedIsRegistered, ReplacingInv
<1>5. CASE Connect(c) \/ Refused(c) \/ Hello(c) \/ HelloFails(c)
  <2>1. /\ clients' = clients
        /\ open' \in {open, [open EXCEPT ![c] = FALSE]}
        /\ \E pc \in {"refused", "hello", "gone", "register"} : conn' = [conn EXCEPT ![c] = pc]
        /\ lock' \in {lock, c, None}
    BY <1>5 DEF Connect, Refused, Hello, HelloFails, serverVars
  <2>2. ConnInv'
    BY <2>1 DEF ServerInv, ConnInv, ConnPcs
  <2>3. LockHeldByCloser'
    <3>1. CASE Connect(c)
      BY <1>0, <3>1 DEF Connect, ServerInv, ConnInv, LockHeldByCloser
    <3>2. CASE Refused(c)
      BY <1>0, <3>2 DEF Refused, ServerInv, ConnInv, LockHeldByCloser
    <3>3. CASE Hello(c) \/ HelloFails(c)
      BY <1>0, <3>3 DEF Hello, HelloFails, ServerInv, ConnInv, LockHeldByCloser
    <3> QED  BY <1>5, <3>1, <3>2, <3>3
  <2>4. ServedIsRegistered'
    BY <2>1 DEF ServerInv, ConnInv, ServedIsRegistered
  <2>5. ReplacingInv'
    BY <2>1 DEF ServerInv, ConnInv, ReplacingInv
  <2> QED  BY <2>2, <2>3, <2>4, <2>5 DEF ServerInv
<1>6. CASE Greet(c)
  BY <1>0, <1>6 DEF Greet, serverVars, ServerInv, ConnInv, ConnPcs, LockHeldByCloser,
                    ServedIsRegistered, ReplacingInv
<1> QED  BY <1>1, <1>2, <1>3, <1>4, <1>5, <1>6

\* What a failing send forgets is never a connection that is open.
LEMMA SendServer ==
  ASSUME ServerInv, ConsumerInv, NEW k \in Sessions, Send(k)
  PROVE  ServerInv'
<1>0. Source \in [Conns -> Sources] /\ None \notin Conns
  BY RoutingAssumption
<1>1. CASE open[consumer[k].ws]
  BY <1>1, ServerAlone DEF Send
<1>2. CASE ~open[consumer[k].ws]
  <2> DEFINE ws == consumer[k].ws
  <2>1. /\ clients' = [s \in Sources |->
                         IF s = consumer[k].src /\ clients[s] = ws THEN None ELSE clients[s]]
        /\ UNCHANGED <<conn, open, lock>> /\ ~open[ws]
    BY <1>2 DEF Send
  <2>2. ConnInv' /\ LockHeldByCloser' /\ ReplacingInv'
    BY <2>1 DEF ServerInv, ConnInv, LockHeldByCloser, ReplacingInv
  <2>3. ServedIsRegistered'
    BY <1>0, <2>1 DEF ServerInv, ServedIsRegistered
  <2> QED  BY <2>2, <2>3 DEF ServerInv
<1> QED  BY <1>1, <1>2

LEMMA StopServer ==
  ASSUME ServerInv, Stop
  PROVE  ServerInv'
BY DEF Stop, AllClosed, ServerInv, ConnInv, LockHeldByCloser, ServedIsRegistered, ReplacingInv

LEMMA ServerStep == IInv /\ Next => ServerInv'
<1> SUFFICES ASSUME IInv, Next PROVE ServerInv'
  OBVIOUS
<1>0. ServerInv /\ ConsumerInv
  BY DEF IInv, FlowInv
<1>1. ASSUME NEW c \in Conns,
             PeerCloses(c) \/ Connect(c) \/ Hello(c) \/ HelloFails(c) \/ Handler(c)
               \/ \E m \in Msgs : PeerSends(c, m)
      PROVE  ServerInv'
  <2>1. CASE Dispatch(c) \/ \E m \in Msgs : PeerSends(c, m)
    BY <1>0, <2>1, ServerAlone DEF Dispatch, PeerSends, serverVars
  <2> QED  BY <1>0, <1>1, <2>1, HandlerServer DEF Handler
<1>2. ASSUME NEW k \in Sessions, Engine(k) \/ Outbound(k) \/ Sweep(k)
      PROVE  ServerInv'
  <2>1. CASE Send(k)
    BY <1>0, <2>1, SendServer
  <2>2. CASE Engine(k) \/ Take(k) \/ Locked(k) \/ Sweep(k)
    BY <1>0, <2>2, ServerAlone DEF Engine, Work, Answer, Take, Locked, Sweep, serverVars
  <2> QED  BY <1>2, <2>1, <2>2 DEF Outbound
<1>3. CASE Broadcast \/ \E n \in Notices : Notify(n)
  BY <1>0, <1>3, ServerAlone DEF Broadcast, Notify, serverVars
<1>4. CASE Stop
  BY <1>0, <1>4, StopServer
<1> QED  BY <1>1, <1>2, <1>3, <1>4 DEF Next

-----------------------------------------------------------------------------
(* The messages and their answers: what they are about, whom they reach.   *)

LEMMA FlowAlone ==
  ASSUME FlowInv, UNCHANGED <<asked, inbox, inputQ, outputQ, step, consumer, lastActive, frame>>
  PROVE  FlowInv'
BY DEF FlowInv, AskedInv, QueueInv, ConsumerInv, EntitledInv

\* A message received stays so, with the connection it came from: nobody loses
\* the right to hear of a session.
AskedGrows == \A m \in Msgs : asked[m].received => asked'[m] = asked[m]

LEMMA EntitledStays ==
  ASSUME NEW a, NEW b, \A m \in Msgs : a[m].received => b[m] = a[m],
         NEW s, NEW k, Entitled(a, s, k)
  PROVE  Entitled(b, s, k)
BY DEF Entitled

\* Whatever is newly noted, meant or sent goes to a source with that right.
LEMMA EntitledStep ==
  ASSUME EntitledInv, AskedGrows,
         lastActive' \in [Sessions -> Sources \cup {None}],
         frame' \in [ev : Events \cup {None}, ws : Conns \cup {None}],
         \A k \in Sessions :
           lastActive'[k] \in {lastActive[k], None} \/ Entitled(asked', lastActive'[k], k),
         \A k \in Sessions : consumer'[k].pc # "get" =>
           \/ consumer[k].pc # "get" /\ consumer'[k].src = consumer[k].src
           \/ Entitled(asked', consumer'[k].src, k),
         \/ frame' = frame
         \/ frame'.ws \in Conns /\ Entitled(asked', Source[frame'.ws], Topic[frame'.ev])
  PROVE  EntitledInv'
<1>1. \A s, k : Entitled(asked, s, k) => Entitled(asked', s, k)
  BY EntitledStays DEF AskedGrows
<1>2. \A k \in Sessions : lastActive'[k] # None => Entitled(asked', lastActive'[k], k)
  BY <1>1 DEF EntitledInv
<1>3. \A k \in Sessions : consumer'[k].pc # "get" => Entitled(asked', consumer'[k].src, k)
  BY <1>1 DEF EntitledInv
<1>4. frame'.ev # None
        => frame'.ws \in Conns /\ Entitled(asked', Source[frame'.ws], Topic[frame'.ev])
  BY <1>1 DEF EntitledInv
<1> QED  BY <1>2, <1>3, <1>4 DEF EntitledInv

LEMMA PeerSendsFlow ==
  ASSUME FlowInv, NEW c \in Conns, NEW m \in Msgs, PeerSends(c, m)
  PROVE  FlowInv'
<1>0. None \notin Conns /\ m \in Events /\ Msgs \subseteq Events
  BY RoutingAssumption DEF Events
<1>1. /\ asked[m].from = None /\ asked' = [asked EXCEPT ![m] = [from |-> c, received |-> FALSE]]
      /\ inbox' = [inbox EXCEPT ![c] = Append(inbox[c], m)]
      /\ UNCHANGED <<inputQ, outputQ, step, consumer, lastActive, frame>>
  BY DEF PeerSends, serverVars, sessionVars
<1>2. AskedGrows
  BY <1>0, <1>1 DEF FlowInv, AskedInv, AskedGrows
<1>3. AskedInv'
  <2>1. inbox' \in [Conns -> Seq(Msgs)]
    BY <1>1, Queued DEF FlowInv, AskedInv
  <2>2. \A d \in Conns : \A i \in DOMAIN inbox[d] : inbox[d][i] # m
    BY <1>0, <1>1 DEF FlowInv, AskedInv
  <2>3. \A i \in DOMAIN Append(inbox[c], m) :
          \/ Append(inbox[c], m)[i] = m
          \/ i \in DOMAIN inbox[c] /\ Append(inbox[c], m)[i] = inbox[c][i]
    <3>1. inbox[c] \in Seq(Msgs)
      BY DEF FlowInv, AskedInv
    <3> QED  BY <3>1
  <2>4. ASSUME NEW d \in Conns, NEW i \in DOMAIN inbox'[d]
        PROVE  asked'[inbox'[d][i]].from = d
    <3>1. inbox \in [Conns -> Seq(Msgs)]
          /\ asked \in [Events -> [from : Conns \cup {None}, received : BOOLEAN]]
          /\ \A j \in DOMAIN inbox[d] : asked[inbox[d][j]].from = d
      BY DEF FlowInv, AskedInv
    <3>2. CASE inbox'[d][i] = m
      <4>1. d = c
        BY <1>1, <2>2, <3>1, <3>2
      <4> QED  BY <1>0, <1>1, <3>1, <3>2, <4>1
    <3>3. CASE inbox'[d][i] # m
      <4>1. i \in DOMAIN inbox[d] /\ inbox'[d][i] = inbox[d][i]
        BY <1>1, <2>3, <3>1, <3>3
      <4>2. asked'[inbox[d][i]] = asked[inbox[d][i]]
        BY <1>0, <1>1, <3>1, <3>3, <4>1
      <4> QED  BY <3>1, <4>1, <4>2
    <3> QED  BY <3>2, <3>3
  <2>5. /\ asked' \in [Events -> [from : Conns \cup {None}, received : BOOLEAN]]
        /\ \A x \in Msgs : asked'[x].received => asked'[x].from # None
    BY <1>0, <1>1 DEF FlowInv, AskedInv
  <2> QED  BY <2>1, <2>4, <2>5 DEF AskedInv
<1>4. QueueInv' /\ ConsumerInv'
  BY <1>1 DEF FlowInv, QueueInv, ConsumerInv
<1>5. EntitledInv'
  BY <1>1, <1>2, EntitledStep DEF FlowInv, EntitledInv
<1> QED  BY <1>3, <1>4, <1>5 DEF FlowInv

\* A session is given what is about it.
LEMMA DeliverFlow ==
  ASSUME QueueInv, ConsumerInv, NEW k \in Sessions, NEW e \in About(k), Deliver(k, e)
  PROVE  QueueInv' /\ ConsumerInv'
<1>1. /\ inputQ' = [inputQ EXCEPT ![k] = Append(inputQ[k], e)]
      /\ UNCHANGED <<step, outputQ, consumer>>
  BY DEF Deliver
<1>2. Append(inputQ[k], e) \in Seq(About(k)) /\ Append(inputQ[k], e) \in Seq(Events)
  <2>1. inputQ[k] \in Seq(About(k)) /\ inputQ[k] \in Seq(Events) /\ e \in Events
    BY DEF QueueInv, About
  <2> QED  BY <2>1, Queued
<1> QED  BY <1>1, <1>2 DEF QueueInv, ConsumerInv

LEMMA DispatchFlow ==
  ASSUME FlowInv, NEW c \in Conns, Dispatch(c)
  PROVE  FlowInv'
<1> DEFINE m == Head(inbox[c])
           k == Topic[m]
<1>0. /\ None \notin Conns /\ Msgs \subseteq Events /\ Topic \in [Events -> Sessions]
      /\ Source \in [Conns -> Sources]
  BY RoutingAssumption DEF Events
<1>1. /\ inbox[c] # <<>> /\ inbox[c] \in Seq(Msgs) /\ inbox \in [Conns -> Seq(Msgs)]
      /\ \A d \in Conns : \A i \in DOMAIN inbox[d] : asked[inbox[d][i]].from = d
      /\ asked \in [Events -> [from : Conns \cup {None}, received : BOOLEAN]]
  BY DEF Dispatch, FlowInv, AskedInv
<1>2. /\ m \in Msgs /\ asked[m].from = c /\ Tail(inbox[c]) \in Seq(Msgs)
      /\ \A i \in DOMAIN Tail(inbox[c]) : asked[Tail(inbox[c])[i]].from = c
  BY <1>1, Taken
<1>3. /\ Deliver(k, m) /\ lastActive' = [lastActive EXCEPT ![k] = Source[c]]
      /\ asked' = [asked EXCEPT ![m] = [asked[m] EXCEPT !.received = TRUE]]
      /\ inbox' = [inbox EXCEPT ![c] = Tail(inbox[c])] /\ frame' = frame
  BY DEF Dispatch
<1>4. k \in Sessions /\ m \in About(k)
  BY <1>0, <1>2 DEF About
<1>5. \A e \in Events : asked'[e].from = asked[e].from
  BY <1>0, <1>1, <1>2, <1>3
<1>6. AskedInv'
  <2>1. inbox' \in [Conns -> Seq(Msgs)]
    BY <1>1, <1>2, <1>3
  <2>2. \A d \in Conns : \A i \in DOMAIN inbox'[d] :
          inbox'[d][i] \in Msgs /\ asked[inbox'[d][i]].from = d
    BY <1>1, <1>2, <1>3
  <2>3. \A d \in Conns : \A i \in DOMAIN inbox'[d] : asked'[inbox'[d][i]].from = d
    BY <1>0, <1>5, <2>2
  <2>4. /\ asked' \in [Events -> [from : Conns \cup {None}, received : BOOLEAN]]
        /\ \A x \in Msgs : asked'[x].received => asked'[x].from # None
    BY <1>0, <1>1, <1>2, <1>3 DEF FlowInv, AskedInv
  <2> QED  BY <2>1, <2>3, <2>4 DEF AskedInv
<1>7. QueueInv' /\ ConsumerInv'
  BY <1>3, <1>4, DeliverFlow DEF FlowInv
<1>8. EntitledInv'
  <2>1. AskedGrows
    BY <1>0, <1>1, <1>2, <1>3 DEF AskedGrows
  <2>2. Entitled(asked', Source[c], k)
    BY <1>0, <1>1, <1>2, <1>3 DEF Entitled
  <2>3. lastActive \in [Sessions -> Sources \cup {None}]
        /\ frame \in [ev : Events \cup {None}, ws : Conns \cup {None}] /\ consumer' = consumer
    BY <1>3 DEF FlowInv, EntitledInv, Deliver
  <2> QED  BY <1>0, <1>3, <1>4, <2>1, <2>2, <2>3, EntitledStep DEF FlowInv
<1> QED  BY <1>6, <1>7, <1>8 DEF FlowInv

LEMMA NotifyFlow ==
  ASSUME FlowInv, NEW n \in Notices, Notify(n)
  PROVE  FlowInv'
<1>0. /\ n \in Events /\ n \notin Msgs /\ Msgs \subseteq Events /\ Topic[n] \in Sessions
  BY RoutingAssumption DEF Events
<1>1. /\ Deliver(Topic[n], n) /\ UNCHANGED <<inbox, lastActive, frame>>
      /\ asked' = [asked EXCEPT ![n] = [from |-> None, received |-> TRUE]]
  BY DEF Notify, serverVars
<1>2. AskedGrows
  BY <1>0, <1>1 DEF FlowInv, AskedInv, AskedGrows
<1>3. AskedInv'
  <2>1. asked' \in [Events -> [from : Conns \cup {None}, received : BOOLEAN]]
        /\ \A x \in Msgs : asked'[x] = asked[x]
    BY <1>0, <1>1 DEF FlowInv, AskedInv
  <2>2. \A d \in Conns : \A i \in DOMAIN inbox[d] : inbox[d][i] \in Msgs
    BY DEF FlowInv, AskedInv
  <2> QED  BY <1>1, <2>1, <2>2 DEF FlowInv, AskedInv
<1>4. n \in About(Topic[n])
  BY <1>0 DEF About
<1>5. QueueInv' /\ ConsumerInv'
  BY <1>0, <1>1, <1>4, DeliverFlow DEF FlowInv
<1>6. EntitledInv'
  BY <1>1, <1>2, EntitledStep DEF FlowInv, EntitledInv, Deliver
<1> QED  BY <1>3, <1>5, <1>6 DEF FlowInv

\* An engine takes a message about its session and answers it there.
LEMMA EngineFlow ==
  ASSUME FlowInv, NEW k \in Sessions, Engine(k)
  PROVE  FlowInv'
<1>0. /\ inputQ[k] \in Seq(About(k)) /\ inputQ[k] \in Seq(Events)
      /\ outputQ[k] \in Seq(About(k)) /\ outputQ[k] \in Seq(Events)
      /\ step[k] \in About(k) \cup {None} /\ step[k] \in Events \cup {None}
  BY DEF FlowInv, QueueInv
<1>1. UNCHANGED <<asked, inbox, consumer, lastActive, frame>>
  BY DEF Engine, Work, Answer, serverVars, historyVars
<1>2. AskedInv' /\ ConsumerInv' /\ EntitledInv'
  BY <1>1 DEF FlowInv, AskedInv, ConsumerInv, EntitledInv
<1>3. QueueInv'
  <2>1. CASE Work(k)
    <3>1. /\ inputQ[k] # <<>> /\ step' = [step EXCEPT ![k] = Head(inputQ[k])]
          /\ inputQ' = [inputQ EXCEPT ![k] = Tail(inputQ[k])] /\ outputQ' = outputQ
      BY <2>1 DEF Work
    <3>2. /\ Head(inputQ[k]) \in About(k) /\ Head(inputQ[k]) \in Events
          /\ Tail(inputQ[k]) \in Seq(About(k)) /\ Tail(inputQ[k]) \in Seq(Events)
      BY <1>0, <3>1, Taken
    <3> QED  BY <3>1, <3>2 DEF FlowInv, QueueInv
  <2>2. CASE Answer(k)
    <3>1. /\ step[k] # None /\ step' = [step EXCEPT ![k] = None] /\ inputQ' = inputQ
          /\ outputQ' = [outputQ EXCEPT ![k] = Append(outputQ[k], step[k])]
      BY <2>2 DEF Answer
    <3>2. /\ Append(outputQ[k], step[k]) \in Seq(About(k))
          /\ Append(outputQ[k], step[k]) \in Seq(Events)
      BY <1>0, <3>1, Queued
    <3> QED  BY <3>1, <3>2 DEF FlowInv, QueueInv
  <2> QED  BY <2>1, <2>2 DEF Engine
<1> QED  BY <1>2, <1>3 DEF FlowInv

\* A destroyed session leaves nothing that was meant for anybody.
LEMMA DestroyFlow ==
  ASSUME FlowInv, NEW ks, DestroySessions(ks), UNCHANGED <<asked, inbox, frame>>
  PROVE  FlowInv'
<1>1. /\ consumer' = [k \in Sessions |-> IF k \in ks THEN NoEvent ELSE consumer[k]]
      /\ lastActive' = [k \in Sessions |-> IF k \in ks THEN None ELSE lastActive[k]]
      /\ inputQ' = [k \in Sessions |-> IF k \in ks THEN <<>> ELSE inputQ[k]]
      /\ step' = [k \in Sessions |-> IF k \in ks THEN None ELSE step[k]]
      /\ outputQ' = [k \in Sessions |-> IF k \in ks THEN <<>> ELSE outputQ[k]]
  BY DEF DestroySessions, Unregistered
<1>2. AskedInv'
  BY DEF FlowInv, AskedInv
<1>3. QueueInv'
  <2>1. \A S : <<>> \in Seq(S)
    OBVIOUS
  <2> QED  BY <1>1, <2>1 DEF FlowInv, QueueInv
<1>4. ConsumerInv'
  <2>1. NoEvent.pc = "get"
    BY DEF NoEvent
  <2> QED  BY <1>1, <2>1 DEF FlowInv, ConsumerInv
<1>5. EntitledInv'
  <2>1. NoEvent.pc = "get"
    BY DEF NoEvent
  <2> QED  BY <1>1, <2>1 DEF FlowInv, EntitledInv
<1> QED  BY <1>2, <1>3, <1>4, <1>5 DEF FlowInv

\* The client that is looked up is of the source it is looked up for.
LEMMA LookupFlow ==
  ASSUME ServerInv, ConsumerInv, NEW k \in Sessions, NEW ev \in About(k),
         NEW src \in Sources, Lookup(k, ev, src)
  PROVE  /\ ConsumerInv'
         /\ \A x \in Sessions : x # k => consumer'[x] = consumer[x]
         /\ consumer'[k].pc # "get" => consumer'[k].src = src
<1> DEFINE new == IF clients[src] = None THEN NoEvent
                  ELSE [pc |-> "send", ev |-> ev, src |-> src, ws |-> clients[src]]
<1>1. consumer' = [consumer EXCEPT ![k] = new]
  BY DEF Lookup
<1>2. /\ new \in {NoEvent} \cup [pc : {"send"}, ev : Events, src : Sources, ws : Conns]
      /\ new.pc # "get" => new.ev = ev /\ new.src = src
      /\ new.pc = "send" => Source[new.ws] = new.src
  <2>1. CASE clients[src] = None
    BY <2>1 DEF NoEvent
  <2>2. CASE clients[src] # None
    BY <2>2 DEF ServerInv, ConnInv, About
  <2> QED  BY <2>1, <2>2
<1> HIDE DEF new
<1> QED  BY <1>1, <1>2 DEF ConsumerInv

LEMMA TakeFlow ==
  ASSUME IInv, NEW k \in Sessions, Take(k)
  PROVE  FlowInv'
<1> DEFINE ev == Head(outputQ[k])
           src == lastActive[k]
<1>0. /\ outputQ[k] \in Seq(About(k)) /\ outputQ[k] \in Seq(Events) /\ outputQ[k] # <<>>
      /\ src \in Sources \cup {None}
      /\ UNCHANGED <<asked, inbox, inputQ, step, lastActive, frame>>
      /\ outputQ' = [outputQ EXCEPT ![k] = Tail(outputQ[k])]
  BY DEF Take, IInv, FlowInv, QueueInv, EntitledInv, serverVars, historyVars
<1>1. /\ ev \in About(k) /\ ev \in Events
      /\ Tail(outputQ[k]) \in Seq(About(k)) /\ Tail(outputQ[k]) \in Seq(Events)
  BY <1>0, Taken
<1>2. AskedInv' /\ QueueInv'
  BY <1>0, <1>1 DEF IInv, FlowInv, AskedInv, QueueInv
<1>3. ConsumerInv' /\ EntitledInv'
  <2>1. CASE consumer' = consumer
    BY <1>0, <2>1 DEF IInv, FlowInv, ConsumerInv, EntitledInv
  <2>2. ASSUME src # None, ConsumerInv', consumer'[k].pc # "get" => consumer'[k].src = src,
               \A x \in Sessions : x # k => consumer'[x] = consumer[x]
        PROVE  EntitledInv'
    BY <1>0, <2>2 DEF IInv, FlowInv, EntitledInv
  <2>3. CASE src # None /\ Lookup(k, ev, src)
    <3>1. src \in Sources
      BY <1>0, <2>3
    <3> HIDE DEF ev, src
    <3>2. /\ ConsumerInv' /\ \A x \in Sessions : x # k => consumer'[x] = consumer[x]
          /\ consumer'[k].pc # "get" => consumer'[k].src = src
      BY <1>1, <2>3, <3>1, LookupFlow DEF IInv, FlowInv
    <3> QED  BY <2>2, <2>3, <3>2
  <2>4. CASE /\ src # None
             /\ consumer' = [consumer EXCEPT ![k] =
                               [pc |-> "lock", ev |-> ev, src |-> src, ws |-> None]]
    <3>1. src \in Sources
      BY <1>0, <2>4
    <3> HIDE DEF ev, src
    <3>2. ConsumerInv' /\ consumer'[k].src = src
      BY <1>1, <2>4, <3>1 DEF IInv, FlowInv, ConsumerInv
    <3>3. \A x \in Sessions : x # k => consumer'[x] = consumer[x]
      BY <2>4 DEF IInv, FlowInv, ConsumerInv
    <3> QED  BY <2>2, <2>4, <3>2, <3>3
  <2> QED  BY <2>1, <2>3, <2>4 DEF Take
<1> QED  BY <1>2, <1>3 DEF FlowInv

LEMMA LockedFlow ==
  ASSUME IInv, NEW k \in Sessions, Locked(k)
  PROVE  FlowInv'
<1> DEFINE ev == consumer[k].ev
           src == consumer[k].src
<1>1. /\ consumer[k].pc = "lock" /\ ev \in About(k) /\ src \in Sources /\ Lookup(k, ev, src)
      /\ UNCHANGED <<asked, inbox, inputQ, outputQ, step, lastActive, frame>>
  BY DEF Locked, IInv, FlowInv, ConsumerInv, NoEvent, serverVars, historyVars
<1>2. Entitled(asked, src, k)
  BY <1>1 DEF IInv, FlowInv, EntitledInv
<1> HIDE DEF ev, src
<1>3. /\ ConsumerInv' /\ \A x \in Sessions : x # k => consumer'[x] = consumer[x]
      /\ consumer'[k].pc # "get" => consumer'[k].src = src
  BY <1>1, LookupFlow DEF IInv, FlowInv
<1>4. EntitledInv'
  BY <1>1, <1>2, <1>3 DEF IInv, FlowInv, EntitledInv
<1>5. AskedInv' /\ QueueInv'
  BY <1>1 DEF IInv, FlowInv, AskedInv, QueueInv
<1> QED  BY <1>3, <1>4, <1>5 DEF FlowInv

LEMMA SendFlow ==
  ASSUME FlowInv, NEW k \in Sessions, Send(k)
  PROVE  FlowInv'
<1>1. /\ consumer[k].pc = "send" /\ consumer' = [consumer EXCEPT ![k] = NoEvent]
      /\ frame' \in {frame, [ev |-> consumer[k].ev, ws |-> consumer[k].ws]}
      /\ UNCHANGED <<asked, inbox, inputQ, outputQ, step, lastActive>>
  BY DEF Send
<1>2. /\ consumer[k].ev \in Events /\ Topic[consumer[k].ev] = k /\ consumer[k].ws \in Conns
      /\ Source[consumer[k].ws] = consumer[k].src /\ Entitled(asked, consumer[k].src, k)
  BY <1>1 DEF FlowInv, ConsumerInv, EntitledInv, About, NoEvent
<1>3. NoEvent.pc = "get"
  BY DEF NoEvent
<1>4. AskedInv' /\ QueueInv' /\ ConsumerInv'
  BY <1>1, <1>3 DEF FlowInv, AskedInv, QueueInv, ConsumerInv
<1>5. EntitledInv'
  <2>1. \A x \in Sessions : consumer'[x].pc # "get" => consumer'[x] = consumer[x]
    BY <1>1, <1>3 DEF FlowInv, ConsumerInv
  <2>2. CASE frame' = frame
    BY <1>1, <2>1, <2>2 DEF FlowInv, EntitledInv
  <2>3. CASE frame' = [ev |-> consumer[k].ev, ws |-> consumer[k].ws]
    BY <1>1, <1>2, <2>1, <2>3 DEF FlowInv, EntitledInv
  <2> QED  BY <1>1, <2>2, <2>3
<1> QED  BY <1>4, <1>5 DEF FlowInv

\* A source that announces a session has the right to hear of it.
LEMMA EnterFlow ==
  ASSUME FlowInv, NEW c \in Conns, Enter(c),
         UNCHANGED <<asked, inbox, inputQ, outputQ, step, consumer, frame>>
  PROVE  FlowInv'
<1>0. Source[c] \in Sources /\ Home[c] \in Sessions
  BY RoutingAssumption
<1>1. lastActive' = [lastActive EXCEPT ![Home[c]] = Source[c]]
  BY DEF Enter
<1>2. Entitled(asked, Source[c], Home[c])
  BY DEF Entitled
<1>3. EntitledInv'
  BY <1>0, <1>1, <1>2 DEF FlowInv, EntitledInv
<1> QED  BY <1>3 DEF FlowInv, AskedInv, QueueInv, ConsumerInv

LEMMA LeaveFlow ==
  ASSUME FlowInv, NEW c \in Conns, Leave(c)
  PROVE  FlowInv'
<1>1. inbox' = [inbox EXCEPT ![c] = <<>>]
      /\ UNCHANGED <<asked, inputQ, outputQ, step, consumer, lastActive, frame>>
  BY DEF Leave, sessionVars, historyVars
<1>2. <<>> \in Seq(Msgs) /\ DOMAIN <<>> = {}
  OBVIOUS
<1> QED  BY <1>1, <1>2 DEF FlowInv, AskedInv, QueueInv, ConsumerInv, EntitledInv

LEMMA FlowStep == IInv /\ Next => FlowInv'
<1> SUFFICES ASSUME IInv, Next PROVE FlowInv'
  OBVIOUS
<1>0. FlowInv
  BY DEF IInv
<1>1. ASSUME NEW c \in Conns,
             PeerCloses(c) \/ Connect(c) \/ Hello(c) \/ HelloFails(c) \/ Handler(c)
               \/ \E m \in Msgs : PeerSends(c, m)
      PROVE  FlowInv'
  <2>1. CASE PeerCloses(c) \/ Connect(c) \/ Hello(c) \/ HelloFails(c) \/ Refused(c) \/ Greet(c)
    BY <1>0, <2>1, FlowAlone DEF PeerCloses, Connect, Hello, HelloFails, Refused, Greet,
                                 serverVars, sessionVars, historyVars
  <2>2. CASE Register(c) \/ Replaced(c)
    <3>1. UNCHANGED <<asked, inbox, inputQ, outputQ, step, consumer, frame>>
          /\ (Enter(c) \/ UNCHANGED lastActive)
      BY <2>2 DEF Register, Replaced, serverVars, sessionVars, historyVars
    <3> QED  BY <1>0, <3>1, EnterFlow, FlowAlone
  <2>3. CASE Leave(c) \/ Dispatch(c) \/ \E m \in Msgs : PeerSends(c, m)
    BY <1>0, <2>3, LeaveFlow, DispatchFlow, PeerSendsFlow
  <2> QED  BY <1>1, <2>1, <2>2, <2>3 DEF Handler
<1>2. ASSUME NEW k \in Sessions, Engine(k) \/ Outbound(k) \/ Sweep(k)
      PROVE  FlowInv'
  <2>1. CASE Sweep(k)
    BY <1>0, <2>1, DestroyFlow DEF Sweep
  <2> QED  BY <1>0, <1>2, <2>1, EngineFlow, TakeFlow, LockedFlow, SendFlow DEF Outbound
<1>3. CASE Broadcast
  BY <1>0, <1>3, FlowAlone DEF Broadcast, sessionVars, historyVars
<1>4. CASE \E n \in Notices : Notify(n)
  BY <1>0, <1>4, NotifyFlow
<1>5. CASE Stop
  BY <1>0, <1>5, DestroyFlow DEF Stop
<1> QED  BY <1>1, <1>2, <1>3, <1>4, <1>5 DEF Next

-----------------------------------------------------------------------------
LEMMA DestroyRest ==
  ASSUME IInv, NEW ks \in SUBSET Sessions, DestroySessions(ks)
  PROVE  live' \in [Sessions -> BOOLEAN] /\ gone' \subseteq Events
<1>1. live' = [k \in Sessions |-> live[k] /\ k \notin ks]
      /\ gone' = gone \cup UNION {Range(inputQ[k]) \cup Range(outputQ[k])
                                    \cup ({consumer[k].ev} \ {None}) : k \in ks}
  BY DEF DestroySessions
<1>2. \A k \in Sessions : Range(inputQ[k]) \cup Range(outputQ[k]) \subseteq Events
  BY DEF IInv, FlowInv, QueueInv, Range
<1>3. \A k \in Sessions : {consumer[k].ev} \ {None} \subseteq Events
  BY DEF IInv, FlowInv, ConsumerInv, NoEvent
<1>4. gone' \subseteq Events
  BY <1>1, <1>2, <1>3 DEF IInv, RestInv
<1> QED  BY <1>1, <1>4 DEF IInv, RestInv

LEMMA RestStep == IInv /\ Next => RestInv'
<1> SUFFICES ASSUME IInv, Next PROVE RestInv'
  OBVIOUS
<1>1. ASSUME NEW c \in Conns,
             PeerCloses(c) \/ Connect(c) \/ Hello(c) \/ HelloFails(c) \/ Handler(c)
               \/ \E m \in Msgs : PeerSends(c, m)
      PROVE  RestInv'
  <2>1. CASE Hello(c) \/ Leave(c)
    BY <2>1 DEF Hello, Leave, IInv, RestInv, sessionVars, historyVars
  <2>2. CASE Dispatch(c)
    <3>1. live' = [live EXCEPT ![Topic[Head(inbox[c])]] = TRUE]
          /\ UNCHANGED <<subs, up, gone, sweeps>>
      BY <2>2 DEF Dispatch, Deliver, Created
    <3> QED  BY <3>1 DEF IInv, RestInv
  <2>3. UNCHANGED <<subs, live, up, gone, sweeps>> => RestInv'
    BY DEF IInv, RestInv
  <2>4. CASE Register(c) \/ Replaced(c)
    BY <2>3, <2>4 DEF Register, Replaced, Enter, serverVars, sessionVars, historyVars
  <2>5. CASE PeerCloses(c) \/ Connect(c) \/ HelloFails(c) \/ Refused(c) \/ Greet(c)
             \/ \E m \in Msgs : PeerSends(c, m)
    BY <2>3, <2>5 DEF PeerCloses, Connect, HelloFails, Refused, Greet, PeerSends,
                      serverVars, sessionVars, historyVars
  <2> QED  BY <1>1, <2>1, <2>2, <2>4, <2>5 DEF Handler
<1>2. ASSUME NEW k \in Sessions, Engine(k) \/ Outbound(k)
      PROVE  RestInv'
  <2>1. UNCHANGED <<subs, live, up, gone, sweeps>>
    BY <1>2 DEF Engine, Outbound, Work, Answer, Take, Locked, Send, serverVars, historyVars
  <2> QED  BY <2>1 DEF IInv, RestInv
<1>3. ASSUME NEW k \in Sessions, Sweep(k)
      PROVE  RestInv'
  BY <1>3, DestroyRest DEF Sweep, IInv, RestInv
<1>4. ASSUME NEW n \in Notices, Notify(n)
      PROVE  RestInv'
  BY <1>4 DEF Notify, Deliver, Created, serverVars, IInv, RestInv
<1>5. CASE Broadcast
  BY <1>5 DEF Broadcast, sessionVars, historyVars, IInv, RestInv
<1>6. CASE Stop
  BY <1>6, DestroyRest DEF Stop, IInv, RestInv
<1> QED  BY <1>1, <1>2, <1>3, <1>4, <1>5, <1>6 DEF Next

LEMMA Invariance == Spec => []IInv
<1>1. IInv /\ [Next]_vars => IInv'
  <2> SUFFICES ASSUME IInv, [Next]_vars PROVE IInv'
    OBVIOUS
  <2>1. CASE Next
    BY <2>1, ServerStep, FlowStep, RestStep DEF IInv
  <2>2. CASE UNCHANGED vars
    <3>1. UNCHANGED <<conn, open, lock, clients>>
          /\ UNCHANGED <<asked, inbox, inputQ, outputQ, step, consumer, lastActive, frame>>
      BY <2>2 DEF vars
    <3>2. RestInv'
      BY <2>2 DEF vars, IInv, RestInv
    <3> QED  BY <3>1, <3>2, ServerAlone, FlowAlone DEF IInv
  <2> QED  BY <2>1, <2>2
<1> QED  BY <1>1, InitInv, PTL DEF Spec

\* Type correctness, for any connections, sources, sessions and messages.
THEOREM TypeCorrect == Spec => []TypeOK
<1>1. IInv => TypeOK
  BY DEF IInv, ServerInv, ConnInv, FlowInv, AskedInv, QueueInv, ConsumerInv, EntitledInv,
         RestInv, TypeOK
<1> QED  BY <1>1, Invariance, PTL

\* The lock is held over an await by exactly one handler, one that closes a
\* connection and then releases it.
THEOREM LockNotLeaked == Spec => []LockHeldByCloser
<1>1. IInv => LockHeldByCloser
  BY DEF IInv, ServerInv
<1> QED  BY <1>1, Invariance, PTL

\* However connections of a source replace one another, die, and fail to be sent
\* to: the one that is served and open is the one its source is reached by.
THEOREM ServedStaysRegistered == Spec => []ServedIsRegistered
<1>1. IInv => ServedIsRegistered
  BY DEF IInv, ServerInv
<1> QED  BY <1>1, Invariance, PTL

\* However connections come and go while a consumer waits for the lock or for a
\* slow peer: no event is sent to a source with no part in its session.
THEOREM NothingLeaks == Spec => []NoLeak
<1>1. IInv => NoLeak
  <2> SUFFICES ASSUME IInv, NEW c \in Conns, NEW e \in Events, frame = [ev |-> e, ws |-> c]
               PROVE  \/ \E d \in Conns : Source[d] = Source[c] /\ Home[d] = Topic[e]
                      \/ \E m \in Msgs : /\ asked[m].received /\ Topic[m] = Topic[e]
                                         /\ Source[asked[m].from] = Source[c]
    BY DEF NoLeak
  <2>1. frame.ev = e /\ frame.ws = c /\ e # None
    BY RoutingAssumption DEF Events
  <2>2. Entitled(asked, Source[c], Topic[e])
    BY <2>1 DEF IInv, FlowInv, EntitledInv
  <2> QED  BY <2>2 DEF Entitled
<1> QED  BY <1>1, Invariance, PTL
=============================================================================
