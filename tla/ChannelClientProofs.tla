------------------------ MODULE ChannelClientProofs -------------------------
(***************************************************************************)
(* What TLAPS proves of ChannelClient for any number of frames, breaks,    *)
(* failures and restarts, however many send loops share the queue: frames  *)
(* are received in their order, none twice, and every frame that is        *)
(* missing was lost with a connection that is over, after all that this    *)
(* connection delivered.                                                   *)
(***************************************************************************)
EXTENDS ChannelClient, TLAPS

(* The frames up to Sent have left the queue, and the queue holds the others. *)
Sent == typed - Len(outQ)

QueueInv ==
  /\ typed \in Nat /\ outQ \in Seq(Nat) /\ Sent \in Nat
  /\ \A i \in 1..Len(outQ) : outQ[i] = Sent + i

(* What was received and what is on its way is one increasing sequence. *)
GotInv ==
  /\ got \in Seq([frame : Nat, by : Nat]) /\ wire \in Seq(Nat)
  /\ \A i \in 1..Len(got) : got[i].frame <= Sent /\ got[i].by <= cur
  /\ \A i, j \in 1..Len(got) : i < j => got[i].frame < got[j].frame
  /\ \A i \in 1..Len(wire) : wire[i] <= Sent
  /\ \A i, j \in 1..Len(wire) : i < j => wire[i] < wire[j]
  /\ \A i \in 1..Len(got), j \in 1..Len(wire) : got[i].frame < wire[j]

(* The connection that frames are on is the last one.                      *)
LinkInv ==
  /\ cur \in Nat /\ loops \subseteq 1..cur /\ link \in BOOLEAN /\ peer \in BOOLEAN
  /\ peer => link
  /\ link => cur # 0
  /\ link \/ wire = <<>>

(* A connection that has lost a frame is over.                             *)
LostInv ==
  /\ lost \subseteq [frame : Nat, by : 1..cur, late : BOOLEAN]
  /\ \A x \in lost : x.frame <= Sent /\ (x.by # cur \/ ~link)
  /\ \A x \in lost, i \in 1..Len(got) :
       x.frame # got[i].frame /\ (x.by = got[i].by => got[i].frame < x.frame)
  /\ \A x \in lost, i \in 1..Len(wire) : x.frame # wire[i]

(* The loop that took a frame late is over too.                            *)
LateInv ==
  /\ \A x \in lost : x.late => x.by \notin loops
  /\ \A x, y \in lost : x.by = y.by /\ x.late /\ y.late => x = y

(* No frame vanishes.                                                      *)
FoundInv == \A f \in 1..Sent : OnItsWay(f) \/ Received(f) \/ LostWith(f) # {}

IInv == QueueInv /\ GotInv /\ LinkInv /\ LostInv /\ LateInv /\ FoundInv

-----------------------------------------------------------------------------
LEMMA Empty ==
  ASSUME NEW S, NEW q, q = <<>>
  PROVE  q \in Seq(S) /\ Len(q) = 0
OBVIOUS

LEMMA InitInv == Init => IInv
<1> SUFFICES ASSUME Init PROVE IInv
  OBVIOUS
<1>1. typed = 0 /\ cur = 0 /\ loops = {} /\ lost = {}
  BY DEF Init
<1>2. /\ outQ \in Seq(Nat) /\ Len(outQ) = 0
      /\ got \in Seq([frame : Nat, by : Nat]) /\ Len(got) = 0
      /\ wire \in Seq(Nat) /\ Len(wire) = 0
  BY Empty DEF Init
<1>3. Sent = 0
  BY <1>1, <1>2 DEF Sent
<1>4. QueueInv /\ GotInv
  BY <1>1, <1>2, <1>3 DEF QueueInv, GotInv
<1>5. link = FALSE /\ peer = FALSE /\ wire = <<>>
  BY DEF Init
<1>6. LinkInv
  BY <1>1, <1>5 DEF LinkInv
<1>7. LostInv /\ LateInv /\ FoundInv
  BY <1>1, <1>3 DEF LostInv, LateInv, FoundInv
<1> QED  BY <1>4, <1>6, <1>7 DEF IInv

LEMMA Queue ==
  ASSUME NEW S, NEW q \in Seq(S), NEW e \in S
  PROVE  /\ Append(q, e) \in Seq(S) /\ Len(Append(q, e)) = Len(q) + 1
         /\ Append(q, e)[Len(q) + 1] = e
         /\ \A i \in 1..Len(q) : Append(q, e)[i] = q[i]
OBVIOUS

LEMMA Taken ==
  ASSUME NEW S, NEW q \in Seq(S), q # <<>>
  PROVE  /\ Head(q) \in S /\ Head(q) = q[1] /\ Len(q) \in Nat /\ Len(q) > 0
         /\ Tail(q) \in Seq(S) /\ Len(Tail(q)) = Len(q) - 1
         /\ \A i \in 1..Len(Tail(q)) : Tail(q)[i] = q[i + 1]
OBVIOUS

LEMMA Members ==
  ASSUME IInv
  PROVE  /\ Len(got) \in Nat /\ Len(wire) \in Nat
         /\ \A i \in 1..Len(got) : got[i].frame \in Nat /\ got[i].by \in Nat
         /\ \A i \in 1..Len(wire) : wire[i] \in Nat
<1> DEFINE Frames == [frame : Nat, by : Nat]
<1>1. got \in Seq(Frames) /\ wire \in Seq(Nat)
  BY DEF IInv, GotInv
<1>2. \A x \in Frames : x.frame \in Nat /\ x.by \in Nat
  OBVIOUS
<1> HIDE DEF Frames
<1>3. \A i \in 1..Len(got) : got[i] \in Frames
  BY <1>1
<1> QED  BY <1>1, <1>2, <1>3

\* The user's next frame goes to the end of the queue.
LEMMA TypeStep ==
  ASSUME IInv, Type
  PROVE  IInv'
<1>1. /\ typed' = typed + 1 /\ outQ' = Append(outQ, typed + 1)
      /\ UNCHANGED <<got, wire, lost, cur, loops, link, peer>>
  BY DEF Type, clientVars, linkVars
<1>2. /\ typed \in Nat /\ outQ \in Seq(Nat) /\ Len(outQ) \in Nat /\ typed + 1 \in Nat
  BY DEF IInv, QueueInv
<1>3. /\ outQ' \in Seq(Nat) /\ Len(outQ') = Len(outQ) + 1 /\ outQ'[Len(outQ) + 1] = typed + 1
      /\ \A i \in 1..Len(outQ) : outQ'[i] = outQ[i]
  BY <1>1, <1>2, Queue
<1>4. Sent' = Sent
  BY <1>1, <1>2, <1>3 DEF Sent
<1>5. QueueInv'
  <2>1. Sent + Len(outQ) = typed
    BY <1>2 DEF Sent
  <2>2. \A i \in 1..Len(outQ') : i \in 1..Len(outQ) \/ i = Len(outQ) + 1
    BY <1>2, <1>3
  <2>3. \A i \in 1..Len(outQ') : outQ'[i] = Sent + i
    <3> SUFFICES ASSUME NEW i \in 1..Len(outQ') PROVE outQ'[i] = Sent + i
      OBVIOUS
    <3>1. CASE i \in 1..Len(outQ)
      BY <1>3, <3>1 DEF IInv, QueueInv
    <3>2. CASE i = Len(outQ) + 1
      <4>1. Sent + i = typed + 1
        BY <1>2, <2>1, <3>2 DEF IInv, QueueInv
      <4> QED  BY <1>3, <3>2, <4>1
    <3> QED  BY <2>2, <3>1, <3>2
  <2> QED  BY <1>1, <1>2, <1>3, <1>4, <2>3 DEF IInv, QueueInv
<1>6. GotInv' /\ LinkInv' /\ LostInv' /\ LateInv'
  BY <1>1, <1>4 DEF IInv, GotInv, LinkInv, LostInv, LateInv
<1>7. FoundInv'
  BY <1>1, <1>4 DEF IInv, FoundInv, OnItsWay, Received, LostWith
<1> QED  BY <1>5, <1>6, <1>7 DEF IInv

\* A send loop takes the oldest frame, the only one after all that were sent.
LEMMA TakeStep ==
  ASSUME IInv, NEW c \in loops, SendFrame(c)
  PROVE  /\ QueueInv' /\ Sent \in Nat /\ Sent' = Sent + 1 /\ Head(outQ) = Sent + 1
         /\ 1..Sent' = 1..Sent \cup {Sent + 1}
<1>1. /\ outQ # <<>> /\ outQ' = Tail(outQ) /\ UNCHANGED <<typed, cur, link>>
  BY DEF SendFrame
<1>2. /\ typed \in Nat /\ outQ \in Seq(Nat) /\ Sent \in Nat /\ Len(outQ) \in Nat
  BY DEF IInv, QueueInv
<1>3. /\ Head(outQ) = outQ[1] /\ Len(outQ) > 0 /\ outQ' \in Seq(Nat)
      /\ Len(outQ') = Len(outQ) - 1 /\ \A i \in 1..Len(outQ') : outQ'[i] = outQ[i + 1]
  BY <1>1, <1>2, Taken
<1>4. Sent' = Sent + 1 /\ outQ[1] = Sent + 1
  BY <1>1, <1>2, <1>3 DEF IInv, QueueInv, Sent
<1>5. QueueInv'
  BY <1>1, <1>2, <1>3, <1>4 DEF IInv, QueueInv
<1> QED  BY <1>2, <1>3, <1>4, <1>5

\* On an open connection the frame goes to the end of what is on its way.
LEMMA SentStep ==
  ASSUME IInv, NEW c \in loops, SendFrame(c), c = cur /\ link
  PROVE  IInv'
<1> DEFINE f == Sent + 1
           n == Len(wire) + 1
<1>1. /\ wire' = Append(wire, f) /\ UNCHANGED <<loops, lost, got, cur, link, peer>>
      /\ QueueInv' /\ Sent \in Nat /\ Sent' = f /\ 1..Sent' = 1..Sent \cup {f}
  BY TakeStep DEF SendFrame
<1>2. wire \in Seq(Nat) /\ Len(wire) \in Nat /\ f \in Nat /\ n \in Nat
  BY <1>1 DEF IInv, GotInv
<1>3. /\ wire' \in Seq(Nat) /\ Len(wire') = n /\ wire'[n] = f
      /\ \A i \in 1..Len(wire) : wire'[i] = wire[i]
  BY <1>1, <1>2, Queue
<1>4. \A i \in 1..Len(wire') : i \in 1..Len(wire) \/ i = n
  BY <1>2, <1>3
<1>5. \A i \in 1..Len(wire) : wire[i] \in Nat /\ wire[i] <= Sent /\ wire[i] < f
  BY <1>1, <1>2 DEF IInv, GotInv
<1>6. \A i \in 1..Len(got) : got[i].frame \in Nat /\ got[i].frame <= Sent /\ got[i].frame < f
  BY <1>1, Members DEF IInv, GotInv
<1>7. \A x \in lost : x.frame \in Nat /\ x.frame <= Sent /\ x.frame # f
  BY <1>1 DEF IInv, LostInv
<1>8. n \in 1..Len(wire') /\ \A i \in 1..Len(wire) : i \in 1..Len(wire') /\ i < n
  BY <1>2, <1>3
<1>9. Sent <= f /\ \A k \in Nat : k <= Sent => k <= f
  BY <1>1
<1> HIDE DEF f, n
<1>10. GotInv'
  <2>1. /\ got' \in Seq([frame : Nat, by : Nat]) /\ wire' \in Seq(Nat)
        /\ \A i \in 1..Len(got') : got'[i].frame <= Sent' /\ got'[i].by <= cur'
        /\ \A i, j \in 1..Len(got') : i < j => got'[i].frame < got'[j].frame
    BY <1>1, <1>3, <1>6, <1>9 DEF IInv, GotInv
  <2>2. \A i \in 1..Len(wire') : wire'[i] <= Sent'
    BY <1>1, <1>2, <1>3, <1>4, <1>5
  <2>3. \A i, j \in 1..Len(wire') : i < j => wire'[i] < wire'[j]
    <3> SUFFICES ASSUME NEW i \in 1..Len(wire'), NEW j \in 1..Len(wire'), i < j
                 PROVE  wire'[i] < wire'[j]
      OBVIOUS
    <3>1. i \in 1..Len(wire)
      <4>1. i \in Nat /\ j \in Nat /\ 1 <= i /\ j <= Len(wire) + 1
        BY <1>2, <1>3, <1>4 DEF n
      <4> QED  BY <1>2, <4>1
    <3>2. CASE j \in 1..Len(wire)
      BY <1>3, <3>1, <3>2 DEF IInv, GotInv
    <3>3. CASE j = n
      BY <1>3, <1>5, <3>1, <3>3
    <3> QED  BY <1>4, <3>2, <3>3
  <2>4. \A i \in 1..Len(got'), j \in 1..Len(wire') : got'[i].frame < wire'[j]
    BY <1>1, <1>3, <1>4, <1>6 DEF IInv, GotInv
  <2> QED  BY <2>1, <2>2, <2>3, <2>4 DEF GotInv
<1>11. LinkInv'
  BY <1>1 DEF IInv, LinkInv
<1>12. LostInv'
  <2>1. \A x \in lost, i \in 1..Len(wire') : x.frame # wire'[i]
    BY <1>3, <1>4, <1>7 DEF IInv, LostInv
  <2>2. \A x \in lost : x.frame <= Sent'
    BY <1>1, <1>7, <1>9
  <2> QED  BY <1>1, <2>1, <2>2 DEF IInv, LostInv
<1>13. LateInv'
  BY <1>1 DEF IInv, LateInv
<1>14. FoundInv'
  <2> SUFFICES ASSUME NEW g \in 1..Sent'
               PROVE  OnItsWay(g)' \/ Received(g)' \/ LostWith(g)' # {}
    BY DEF FoundInv
  <2>1. CASE g = f
    BY <1>3, <1>8, <2>1 DEF OnItsWay
  <2>2. CASE g \in 1..Sent
    <3>1. CASE OnItsWay(g)
      <4>1. PICK i \in 1..Len(wire) : wire[i] = g
        BY <1>2, <3>1 DEF OnItsWay
      <4>2. i \in 1..Len(wire') /\ wire'[i] = g
        BY <1>3, <1>8, <4>1
      <4> QED  BY <1>3, <4>2 DEF OnItsWay
    <3>2. CASE Received(g)
      BY <1>1, <3>2 DEF Received
    <3>3. CASE LostWith(g) # {}
      BY <1>1, <3>3 DEF LostWith
    <3> QED  BY <2>2, <3>1, <3>2, <3>3 DEF IInv, FoundInv
  <2> QED  BY <1>1, <2>1, <2>2
<1> QED  BY <1>1, <1>10, <1>11, <1>12, <1>13, <1>14 DEF IInv

\* On a closed one it is lost, and the loop over.
LEMMA LateStep ==
  ASSUME IInv, NEW c \in loops, SendFrame(c), ~(c = cur /\ link)
  PROVE  IInv'
<1> DEFINE f == Sent + 1
           x == [frame |-> f, by |-> c, late |-> TRUE]
<1>1. /\ lost' = lost \cup {x} /\ loops' = loops \ {c}
      /\ UNCHANGED <<wire, got, cur, link, peer>>
      /\ QueueInv' /\ Sent \in Nat /\ Sent' = f /\ 1..Sent' = 1..Sent \cup {f}
  BY TakeStep DEF SendFrame, Late
<1>2. /\ x.frame = f /\ x.by = c /\ x.late /\ f \in Nat /\ Sent <= f
      /\ x \in [frame : Nat, by : 1..cur, late : BOOLEAN] /\ \A k \in Nat : k <= Sent => k <= f
  <2>1. c \in 1..cur
    BY DEF IInv, LinkInv
  <2>2. f \in Nat /\ Sent <= f /\ \A k \in Nat : k <= Sent => k <= f
    BY <1>1
  <2> HIDE DEF f
  <2>3. x.frame = f /\ x.by = c /\ x.late = TRUE
    OBVIOUS
  <2>4. x \in [frame : Nat, by : 1..cur, late : BOOLEAN]
    BY <2>1, <2>2
  <2> HIDE DEF x
  <2>5. x.late
    BY <2>3, Zenon
  <2> QED  BY <2>2, <2>3, <2>4, <2>5
<1>3. \A i \in 1..Len(got) : got[i].frame \in Nat /\ got[i].frame <= Sent /\ got[i].frame < f
  <2>1. \A k \in Nat : k <= Sent => k < f
    BY <1>1
  <2> HIDE DEF f
  <2>2. \A i \in 1..Len(got) : got[i].frame \in Nat /\ got[i].frame <= Sent
    BY Members DEF IInv, GotInv
  <2> QED  BY <2>1, <2>2
<1>4. \A i \in 1..Len(wire) : wire[i] \in Nat /\ wire[i] <= Sent /\ wire[i] < f
  BY <1>1 DEF IInv, GotInv
<1>5. \A y \in lost : y.frame \in Nat /\ y.frame <= Sent
  BY DEF IInv, LostInv
<1> HIDE DEF f, x
<1>6. GotInv'
  BY <1>1, <1>2, <1>3, <1>4 DEF IInv, GotInv
<1>7. LinkInv'
  BY <1>1 DEF IInv, LinkInv
<1>8. LostInv'
  <2>1. \A i \in 1..Len(got) : x.frame # got[i].frame /\ got[i].frame < x.frame
    BY <1>2, <1>3
  <2>2. \A i \in 1..Len(wire) : x.frame # wire[i]
    BY <1>2, <1>4
  <2>3. \A y \in lost' : y.frame <= Sent'
    BY <1>1, <1>2, <1>5
  <2>4. x.by # cur \/ ~link
    BY <1>2
  <2>5. lost' \subseteq [frame : Nat, by : 1..cur', late : BOOLEAN]
    BY <1>1, <1>2 DEF IInv, LostInv
  <2> QED  BY <1>1, <2>1, <2>2, <2>3, <2>4, <2>5 DEF IInv, LostInv
<1>9. LateInv'
  BY <1>1, <1>2 DEF IInv, LateInv
<1>10. FoundInv'
  <2> SUFFICES ASSUME NEW g \in 1..Sent'
               PROVE  OnItsWay(g)' \/ Received(g)' \/ LostWith(g)' # {}
    BY DEF FoundInv
  <2>1. CASE g = f
    BY <1>1, <1>2, <2>1 DEF LostWith
  <2>2. CASE g \in 1..Sent
    BY <1>1, <2>2 DEF IInv, FoundInv, OnItsWay, Received, LostWith
  <2> QED  BY <1>1, <2>1, <2>2
<1> QED  BY <1>1, <1>6, <1>7, <1>8, <1>9, <1>10 DEF IInv

\* The oldest frame on its way arrives.
LEMMA ArriveStep ==
  ASSUME IInv, Arrive
  PROVE  IInv'
<1> DEFINE f == Head(wire)
           x == [frame |-> f, by |-> cur]
           n == Len(got) + 1
           Frames == [frame : Nat, by : Nat]
<1>1. /\ peer /\ wire # <<>> /\ wire' = Tail(wire) /\ got' = Append(got, x)
      /\ UNCHANGED <<outQ, typed, lost, cur, link, peer, loops>> /\ Sent' = Sent
  BY DEF Arrive, Sent
<1>2. wire \in Seq(Nat) /\ got \in Seq(Frames) /\ Len(got) \in Nat /\ cur \in Nat
  BY DEF IInv, GotInv, LinkInv
<1>3. /\ f \in Nat /\ f = wire[1] /\ Len(wire) \in Nat /\ Len(wire) > 0
      /\ wire' \in Seq(Nat) /\ Len(wire') = Len(wire) - 1
      /\ \A i \in 1..Len(wire') : wire'[i] = wire[i + 1]
  BY <1>1, <1>2, Taken
<1>4. x \in Frames /\ x.frame = f /\ x.by = cur
  BY <1>2, <1>3
<1>5. 1 \in 1..Len(wire) /\ \A i \in 1..Len(wire') : i + 1 \in 1..Len(wire) /\ 1 < i + 1
  BY <1>3
<1> HIDE DEF f, x, Frames
<1>6. /\ got' \in Seq(Frames) /\ Len(got') = n /\ got'[n] = x
      /\ \A i \in 1..Len(got) : got'[i] = got[i]
  BY <1>1, <1>2, <1>4, Queue
<1>7. /\ \A i \in 1..Len(got') : i \in 1..Len(got) \/ i = n
      /\ n \in 1..Len(got') /\ 1..Len(got) \subseteq 1..Len(got')
      /\ \A i, j \in 1..Len(got') : i < j => i \in 1..Len(got)
  BY <1>2, <1>6
<1>8. f <= Sent /\ cur <= cur /\ \A i \in 1..Len(got) : got[i].frame < f
  BY <1>2, <1>3, <1>5 DEF IInv, GotInv
<1>9. \A i \in 1..Len(wire') : f < wire'[i]
  BY <1>3, <1>5 DEF IInv, GotInv
<1> HIDE DEF n
<1>10. GotInv'
  <2>1. \A i \in 1..Len(got') : got'[i].frame <= Sent' /\ got'[i].by <= cur'
    BY <1>1, <1>4, <1>6, <1>7, <1>8 DEF IInv, GotInv
  <2>2. \A i, j \in 1..Len(got') : i < j => got'[i].frame < got'[j].frame
    <3> SUFFICES ASSUME NEW i \in 1..Len(got'), NEW j \in 1..Len(got'), i < j
                 PROVE  got'[i].frame < got'[j].frame
      OBVIOUS
    <3>1. i \in 1..Len(got) /\ got'[i] = got[i]
      BY <1>6, <1>7
    <3>2. CASE j \in 1..Len(got)
      BY <1>6, <3>1, <3>2 DEF IInv, GotInv
    <3>3. CASE j = n
      BY <1>4, <1>6, <1>8, <3>1, <3>3
    <3> QED  BY <1>7, <3>2, <3>3
  <2>3. \A i \in 1..Len(wire') : wire'[i] <= Sent'
    BY <1>1, <1>3, <1>5 DEF IInv, GotInv
  <2>4. \A i, j \in 1..Len(wire') : i < j => wire'[i] < wire'[j]
    <3> SUFFICES ASSUME NEW i \in 1..Len(wire'), NEW j \in 1..Len(wire'), i < j
                 PROVE  wire'[i] < wire'[j]
      OBVIOUS
    <3>1. i + 1 < j + 1
      BY <1>3
    <3> QED  BY <1>3, <1>5, <3>1 DEF IInv, GotInv
  <2>5. \A i \in 1..Len(got'), j \in 1..Len(wire') : got'[i].frame < wire'[j]
    <3> SUFFICES ASSUME NEW i \in 1..Len(got'), NEW j \in 1..Len(wire')
                 PROVE  got'[i].frame < wire'[j]
      OBVIOUS
    <3>1. CASE i \in 1..Len(got)
      BY <1>3, <1>5, <1>6, <3>1 DEF IInv, GotInv
    <3>2. CASE i = n
      BY <1>4, <1>6, <1>9, <3>2
    <3> QED  BY <1>7, <3>1, <3>2
  <2> QED  BY <1>3, <1>6, <2>1, <2>2, <2>3, <2>4, <2>5 DEF GotInv, Frames
<1>11. LinkInv'
  BY <1>1 DEF IInv, LinkInv
<1>12. LostInv'
  <2>1. link /\ \A y \in lost : y.by # cur /\ y.frame # f
    BY <1>1, <1>3, <1>5 DEF IInv, LostInv, LinkInv
  <2>2. \A y \in lost, i \in 1..Len(got') :
          y.frame # got'[i].frame /\ (y.by = got'[i].by => got'[i].frame < y.frame)
    BY <1>4, <1>6, <1>7, <2>1 DEF IInv, LostInv
  <2>3. \A y \in lost, i \in 1..Len(wire') : y.frame # wire'[i]
    BY <1>3, <1>5 DEF IInv, LostInv
  <2> QED  BY <1>1, <2>2, <2>3 DEF IInv, LostInv
<1>13. LateInv'
  BY <1>1 DEF IInv, LateInv
<1>14. FoundInv'
  <2> SUFFICES ASSUME NEW g \in 1..Sent
               PROVE  OnItsWay(g)' \/ Received(g)' \/ LostWith(g)' # {}
    BY <1>1 DEF FoundInv
  <2>1. CASE OnItsWay(g)
    <3>1. PICK i \in 1..Len(wire) : wire[i] = g
      BY <1>2, <2>1 DEF OnItsWay
    <3>2. CASE i = 1
      <4>1. n \in 1..Len(got') /\ got'[n].frame = g /\ DOMAIN got' = 1..Len(got')
        BY <1>3, <1>4, <1>6, <1>7, <3>1, <3>2
      <4> QED  BY <4>1 DEF Received
    <3>3. CASE i # 1
      <4>1. i - 1 \in 1..Len(wire') /\ i - 1 + 1 = i
        BY <1>3, <3>3
      <4>2. wire'[i - 1] = g
        BY <1>3, <3>1, <4>1
      <4> QED  BY <1>3, <4>1, <4>2 DEF OnItsWay
    <3> QED  BY <3>2, <3>3
  <2>2. CASE Received(g)
    <3>1. PICK i \in 1..Len(got) : got[i].frame = g
      BY <1>2, <2>2 DEF Received
    <3> QED  BY <1>6, <1>7, <3>1 DEF Received
  <2>3. CASE LostWith(g) # {}
    BY <1>1, <2>3 DEF LostWith
  <2> QED  BY <2>1, <2>2, <2>3 DEF IInv, FoundInv
<1>15. QueueInv'
  BY <1>1 DEF IInv, QueueInv
<1> QED  BY <1>10, <1>11, <1>12, <1>13, <1>14, <1>15 DEF IInv

\* A connection is given up, and with it what is on its way.
LEMMA ClosedStep ==
  ASSUME IInv, Closed, UNCHANGED <<frameVars, cur>>, loops' \subseteq loops
  PROVE  IInv'
<1> DEFINE Dropped == {[frame |-> wire[i], by |-> cur, late |-> FALSE] : i \in DOMAIN wire}
<1>1. /\ UNCHANGED <<outQ, typed, got, cur>> /\ Sent' = Sent
      /\ link' = FALSE /\ peer' = FALSE /\ wire' = <<>> /\ lost' = lost \cup Dropped
  BY DEF frameVars, Sent, Closed
<1>2. wire \in Seq(Nat) /\ Len(wire) \in Nat /\ DOMAIN wire = 1..Len(wire) /\ cur \in Nat
  BY DEF IInv, GotInv, LinkInv
<1>3. wire' \in Seq(Nat) /\ Len(wire') = 0
  BY <1>1, Empty
<1>4. \A x \in Dropped : /\ x.by = cur /\ ~x.late
                          /\ \E i \in 1..Len(wire) : x.frame = wire[i]
  BY <1>2
<1>5. \A x \in Dropped : link /\ cur \in 1..cur /\ x \in [frame : Nat, by : 1..cur, late : BOOLEAN]
  <2> SUFFICES ASSUME NEW i \in 1..Len(wire)
               PROVE  /\ link /\ cur \in 1..cur
                      /\ [frame |-> wire[i], by |-> cur, late |-> FALSE]
                           \in [frame : Nat, by : 1..cur, late : BOOLEAN]
    BY <1>2
  <2>1. wire # <<>>
    BY <1>2, Empty
  <2>2. link /\ cur \in 1..cur
    BY <1>2, <2>1 DEF IInv, LinkInv
  <2> QED  BY <1>2, <2>2
<1>6. \A i \in 1..Len(wire) : \E x \in Dropped : x.frame = wire[i] /\ x.by = cur
  <2> SUFFICES ASSUME NEW i \in 1..Len(wire)
               PROVE  \E x \in Dropped : x.frame = wire[i] /\ x.by = cur
    OBVIOUS
  <2>1. [frame |-> wire[i], by |-> cur, late |-> FALSE] \in Dropped
    BY <1>2
  <2> QED  BY <2>1
<1> HIDE DEF Dropped
<1>7. QueueInv' /\ GotInv'
  BY <1>1, <1>2, <1>3 DEF IInv, QueueInv, GotInv
<1>11. LinkInv'
  BY <1>1, Zenon DEF IInv, LinkInv
<1>8. LostInv'
  <2>1. lost' \subseteq [frame : Nat, by : 1..cur', late : BOOLEAN]
    BY <1>1, <1>5 DEF IInv, LostInv
  <2>2. \A x \in lost' : x.frame <= Sent' /\ (x.by # cur' \/ ~link')
    BY <1>1, <1>4 DEF IInv, LostInv, GotInv
  <2>3. \A x \in Dropped, i \in 1..Len(got) : x.frame # got[i].frame /\ got[i].frame < x.frame
    <3> SUFFICES ASSUME NEW x \in Dropped, NEW i \in 1..Len(got)
                 PROVE  x.frame # got[i].frame /\ got[i].frame < x.frame
      OBVIOUS
    <3>1. PICK j \in 1..Len(wire) : x.frame = wire[j]
      BY <1>4
    <3>2. got[i].frame < wire[j] /\ got[i].frame \in Nat /\ wire[j] \in Nat
      BY <1>2, Members DEF IInv, GotInv
    <3> QED  BY <3>1, <3>2
  <2>4. \A x \in lost', i \in 1..Len(got') :
          x.frame # got'[i].frame /\ (x.by = got'[i].by => got'[i].frame < x.frame)
    BY <1>1, <2>3 DEF IInv, LostInv
  <2> QED  BY <1>3, <2>1, <2>2, <2>4 DEF LostInv
<1>9. LateInv'
  BY <1>1, <1>4 DEF IInv, LateInv
<1>10. FoundInv'
  <2> SUFFICES ASSUME NEW g \in 1..Sent
               PROVE  OnItsWay(g)' \/ Received(g)' \/ LostWith(g)' # {}
    BY <1>1 DEF FoundInv
  <2>1. CASE OnItsWay(g)
    <3>1. PICK x \in Dropped : x.frame = g
      BY <1>2, <1>6, <2>1 DEF OnItsWay
    <3> QED  BY <1>1, <3>1 DEF LostWith
  <2>2. CASE Received(g)
    BY <1>1, <2>2 DEF Received
  <2>3. CASE LostWith(g) # {}
    BY <1>1, <2>3 DEF LostWith
  <2> QED  BY <2>1, <2>2, <2>3 DEF IInv, FoundInv
<1> QED  BY <1>7, <1>8, <1>9, <1>10, <1>11 DEF IInv

\* A new connection has lost nothing and delivered nothing.
LEMMA DialStep ==
  ASSUME IInv, Dial
  PROVE  IInv'
<1>1. /\ UNCHANGED <<outQ, typed, got, wire, lost>> /\ Sent' = Sent
      /\ cur' = cur + 1 /\ loops' = loops \cup {cur + 1} /\ link' = TRUE /\ peer' = TRUE
  BY DEF Dial, frameVars, Sent
<1>2. cur \in Nat /\ loops \subseteq 1..cur
  BY DEF IInv, LinkInv
<1>3. /\ cur' \in Nat /\ loops' \subseteq 1..cur' /\ 1..cur \subseteq 1..cur' /\ cur' # 0
      /\ \A k \in Nat : k <= cur => k <= cur'
  BY <1>1, <1>2
<1>4. QueueInv' /\ LinkInv'
  BY <1>1, <1>2, <1>3 DEF IInv, QueueInv, LinkInv
<1>5. GotInv'
  <2>1. \A i \in 1..Len(got) : got[i].by \in Nat /\ got[i].by <= cur
    BY Members DEF IInv, GotInv
  <2> QED  BY <1>1, <1>3, <2>1 DEF IInv, GotInv
<1>6. \A x \in lost : x.by \in 1..cur /\ x.by # cur + 1
  BY <1>2 DEF IInv, LostInv
<1>7. LostInv'
  BY <1>1, <1>3, <1>6 DEF IInv, LostInv
<1>8. LateInv'
  BY <1>1, <1>6 DEF IInv, LateInv
<1>9. FoundInv'
  BY <1>1 DEF IInv, FoundInv, OnItsWay, Received, LostWith
<1> QED  BY <1>4, <1>5, <1>7, <1>8, <1>9 DEF IInv

\* What moves no frame and no connection.
LEMMA QuietStep ==
  ASSUME IInv, UNCHANGED <<frameVars, cur, link, wire, lost>>,
         loops' \subseteq loops, peer' \in {peer, FALSE}
  PROVE  IInv'
<1>1. UNCHANGED <<outQ, typed, got, wire, lost, cur, link>> /\ Sent' = Sent
  BY DEF frameVars, Sent
<1>2. (peer' => peer) /\ peer' \in BOOLEAN
  <2>1. peer \in BOOLEAN
    BY DEF IInv, LinkInv
  <2>2. CASE peer' = peer
    BY <2>1, <2>2, Zenon
  <2>3. CASE peer' = FALSE
    BY <2>3, Zenon
  <2> QED  BY <2>2, <2>3, Zenon
<1>3. QueueInv' /\ GotInv' /\ LostInv' /\ LateInv'
  BY <1>1 DEF IInv, QueueInv, GotInv, LostInv, LateInv
<1>5. LinkInv'
  BY <1>1, <1>2 DEF IInv, LinkInv
<1>4. FoundInv'
  BY <1>1 DEF IInv, FoundInv, OnItsWay, Received, LostWith
<1> QED  BY <1>3, <1>4, <1>5 DEF IInv

LEMMA Invariance == Spec => []IInv
<1>1. IInv /\ [Next]_vars => IInv'
  <2> SUFFICES ASSUME IInv, [Next]_vars PROVE IInv'
    OBVIOUS
  <2>1. CASE Type
    BY <2>1, TypeStep
  <2>2. CASE SendLoop
    <3>1. PICK c \in loops : SendFrame(c)
      BY <2>2 DEF SendLoop
    <3> QED  BY <3>1, SentStep, LateStep
  <2>3. CASE Arrive
    BY <2>3, ArriveStep
  <2>4. CASE Dial
    BY <2>4, DialStep
  <2>5. CASE ListenCrashes \/ RawHandlerFails \/ Notice
    <3>1. Closed /\ UNCHANGED <<frameVars, cur>> /\ loops' \subseteq loops
      BY <2>5 DEF ListenCrashes, Stopped, RawHandlerFails, Notice
    <3> QED  BY <3>1, ClosedStep
  <2>6. CASE DialFails \/ DialStopped \/ Awake \/ BothLoopsOver
    <3>1. UNCHANGED <<frameVars, cur, link, wire, lost, loops, peer>>
      BY <2>6 DEF DialFails, DialStopped, Awake, BothLoopsOver, linkVars
    <3> QED  BY <3>1, QuietStep
  <2>7. CASE Supervisor \/ ComesUp \/ UNCHANGED vars
    <3>1. UNCHANGED <<frameVars, cur, link, wire, lost, loops, peer>>
      BY <2>7 DEF Supervisor, Start, StartFails, Restart, ComesUp, clientVars, linkVars,
                  vars, frameVars
    <3> QED  BY <3>1, QuietStep
  <2>8. CASE Break
    <3>1. UNCHANGED <<frameVars, cur, link, wire, lost, loops>> /\ peer' = FALSE
      BY <2>8 DEF Break
    <3> QED  BY <3>1, QuietStep
  <2> QED  BY <2>1, <2>2, <2>3, <2>4, <2>5, <2>6, <2>7, <2>8 DEF Next, Client
<1> QED  BY <1>1, InitInv, PTL DEF Spec

\* The runtime receives frames in their order and none twice, over any number of
\* reconnects, also while loops of dead connections take frames from the queue.
THEOREM Ordered == Spec => []FramesInOrder
<1>1. IInv => FramesInOrder
  <2>1. ASSUME IInv PROVE DOMAIN got = 1..Len(got)
    BY <2>1 DEF IInv, GotInv
  <2> QED  BY <2>1 DEF IInv, GotInv, FramesInOrder
<1> QED  BY <1>1, Invariance, PTL

\* A frame is in the queue, on its way, received, or lost with a connection that is over,
\* after all that this connection delivered; at most one was taken too late for it.
THEOREM LossesComeLast == Spec => []LossesEndConnections
<1>1. IInv => LossesEndConnections
  <2> SUFFICES ASSUME IInv PROVE LossesEndConnections
    OBVIOUS
  <2>1. DOMAIN got = 1..Len(got) /\ DOMAIN outQ = 1..Len(outQ)
    BY DEF IInv, GotInv, QueueInv
  <2>2. ASSUME NEW f \in 1..typed
        PROVE  Queued(f) \/ OnItsWay(f) \/ Received(f) \/ LostWith(f) # {}
    <3>1. typed \in Nat /\ Sent \in Nat /\ Len(outQ) \in Nat /\ Sent + Len(outQ) = typed
      BY DEF IInv, QueueInv, Sent
    <3>2. CASE f <= Sent
      <4>1. f \in 1..Sent
        BY <3>1, <3>2
      <4> QED  BY <4>1 DEF IInv, FoundInv
    <3>3. CASE ~(f <= Sent)
      <4>1. f - Sent \in 1..Len(outQ) /\ Sent + (f - Sent) = f
        BY <3>1, <3>3
      <4>2. outQ[f - Sent] = f
        BY <4>1 DEF IInv, QueueInv
      <4> QED  BY <2>1, <4>1, <4>2 DEF Queued
    <3> QED  BY <3>2, <3>3
  <2>3. \A x \in lost : ~Received(x.frame) /\ (x.by # cur \/ ~link)
    BY <2>1 DEF IInv, LostInv, Received
  <2>4. \A x \in lost, i \in DOMAIN got : x.by = got[i].by => got[i].frame < x.frame
    BY <2>1 DEF IInv, LostInv
  <2>5. \A x, y \in lost : x.by = y.by /\ x.late /\ y.late => x = y
    BY DEF IInv, LateInv
  <2> QED  BY <2>2, <2>3, <2>4, <2>5 DEF LossesEndConnections
<1> QED  BY <1>1, Invariance, PTL

-----------------------------------------------------------------------------
(* Type correctness: frames move on the last connection, which has a number. *)
Linked == (peer => link) /\ (link => cur # 0) /\ (link \/ wire = <<>>)

TypeInv == TypeOK /\ Linked

Faults == {"break", "raw", "start", "crash"}

LEMMA Wider ==
  ASSUME NEW S, NEW T, S \subseteq T, NEW q \in Seq(S)
  PROVE  q \in Seq(T)
OBVIOUS

LEMMA Element ==
  ASSUME NEW S, NEW q \in Seq(S), NEW i \in 1..Len(q)
  PROVE  q[i] \in S
OBVIOUS

LEMMA FaultCounted ==
  ASSUME TypeOK, NEW kind \in Faults, Fault(kind)
  PROVE  faults' \in [Faults -> Nat]
BY DEF TypeOK, Fault, Faults

LEMMA TypeStart == Init => TypeInv
<1> SUFFICES ASSUME Init PROVE TypeInv
  OBVIOUS
<1>1. /\ outQ \in Seq(1..typed) /\ wire \in Seq(1..typed)
      /\ got \in Seq([frame : 1..typed, by : 1..cur])
      /\ loops \subseteq 1..cur /\ lost \subseteq [frame : 1..typed, by : 1..cur, late : BOOLEAN]
  BY DEF Init
<1>2. faults \in [Faults -> Nat]
  BY DEF Init, Faults
<1>3. typed \in 0..MaxFrames /\ cur \in Nat /\ attempt \in 0..Delays
  BY ChannelAssumption DEF Init, Delays
<1>4. stop \in BOOLEAN /\ link \in BOOLEAN /\ peer \in BOOLEAN /\ runtime \in BOOLEAN
  BY Zenon DEF Init
<1>5. sup \in {"start", "run", "sleep"} /\ ws \in {"none", "dial", "open", "sleep", "returned"}
  BY DEF Init
<1>6. Linked
  BY Zenon DEF Init, Linked
<1> QED  BY <1>1, <1>2, <1>3, <1>4, <1>5, <1>6 DEF TypeOK, TypeInv, Faults

\* What moves no frame: the program counters, the breaks, the end of a connection.
LEMMA TypeControl ==
  ASSUME TypeInv, UNCHANGED <<frameVars, cur>>,
         loops' \subseteq loops,
         \/ Closed
         \/ UNCHANGED <<link, wire, lost>> /\ peer' \in {peer, FALSE},
         stop' \in {stop, TRUE}, runtime' \in BOOLEAN,
         sup' \in {sup, "start", "run", "sleep"},
         ws' \in {ws, "none", "dial", "sleep", "returned"},
         attempt' \in 0..Delays,
         \/ UNCHANGED faults
         \/ \E kind \in Faults : Fault(kind)
  PROVE  TypeInv'
<1>1. faults' \in [Faults -> Nat]
  BY FaultCounted DEF TypeInv, TypeOK, Faults
<1>2. stop' \in BOOLEAN
  BY Zenon DEF TypeInv, TypeOK
<1>3. /\ sup' \in {"start", "run", "sleep"}
      /\ ws' \in {"none", "dial", "open", "sleep", "returned"}
  BY DEF TypeInv, TypeOK
<1>4. /\ link' \in BOOLEAN /\ peer' \in BOOLEAN /\ wire' \in Seq(1..typed)
      /\ lost' \subseteq [frame : 1..typed, by : 1..cur, late : BOOLEAN]
      /\ Linked'
  <2>1. CASE UNCHANGED <<link, wire, lost>> /\ peer' \in {peer, FALSE}
    <3>1. peer \in BOOLEAN /\ (peer' = peer \/ peer' = FALSE)
      BY <2>1 DEF TypeInv, TypeOK
    <3>2. peer' \in BOOLEAN /\ (peer' => peer)
      <4>1. CASE peer' = peer
        BY <3>1, <4>1, Zenon
      <4>2. CASE peer' = FALSE
        BY <4>2, Zenon
      <4> QED  BY <3>1, <4>1, <4>2, Zenon
    <3>3. Linked'
      <4>1. link' = link /\ wire' = wire /\ cur' = cur
        BY <2>1
      <4> QED  BY <3>2, <4>1, Zenon DEF TypeInv, Linked
    <3> QED  BY <2>1, <3>2, <3>3 DEF TypeInv, TypeOK
  <2>2. CASE Closed
    <3> DEFINE Dropped == {[frame |-> wire[i], by |-> cur, late |-> FALSE] : i \in DOMAIN wire}
    <3>1. link' = FALSE /\ peer' = FALSE /\ wire' = <<>> /\ lost' = lost \cup Dropped
      BY <2>2 DEF Closed
    <3>2. wire \in Seq(1..typed) /\ DOMAIN wire = 1..Len(wire) /\ cur \in Nat
      BY DEF TypeInv, TypeOK
    <3>3. ASSUME NEW i \in DOMAIN wire
          PROVE  wire[i] \in 1..typed /\ cur \in 1..cur
      <4>1. i \in 1..Len(wire)
        BY <3>2
      <4>2. wire # <<>>
        BY <3>2, <4>1, Empty
      <4>3. cur # 0
        BY <4>2 DEF TypeInv, Linked
      <4>4. wire[i] \in 1..typed
        BY <3>2, <4>1, Element
      <4>5. cur \in 1..cur
        BY <3>2, <4>3
      <4> QED  BY <4>4, <4>5
    <3>4. Dropped \subseteq [frame : 1..typed, by : 1..cur, late : BOOLEAN]
      <4> SUFFICES ASSUME NEW i \in DOMAIN wire
                   PROVE  [frame |-> wire[i], by |-> cur, late |-> FALSE]
                            \in [frame : 1..typed, by : 1..cur, late : BOOLEAN]
        OBVIOUS
      <4>1. wire[i] \in 1..typed /\ cur \in 1..cur
        BY <3>3
      <4> QED  BY <4>1
    <3>5. wire' \in Seq(1..typed)
      BY <3>1
    <3> HIDE DEF Dropped
    <3>6. Linked' /\ link' \in BOOLEAN /\ peer' \in BOOLEAN
      BY <3>1, Zenon DEF Linked
    <3> QED  BY <3>1, <3>4, <3>5, <3>6 DEF TypeInv, TypeOK
  <2> QED  BY <2>1, <2>2
<1>5. UNCHANGED <<outQ, typed, got, cur>>
  BY DEF frameVars
<1> QED  BY <1>1, <1>2, <1>3, <1>4, <1>5 DEF TypeInv, TypeOK, Faults

LEMMA TypeSent ==
  ASSUME TypeInv, NEW c \in loops, SendFrame(c)
  PROVE  TypeInv'
<1> DEFINE f == Head(outQ)
<1>1. /\ outQ \in Seq(1..typed) /\ outQ # <<>> /\ outQ' = Tail(outQ) /\ wire \in Seq(1..typed)
      /\ loops \subseteq 1..cur
      /\ UNCHANGED <<sup, ws, stop, attempt, cur, link, peer, typed, got, runtime, faults>>
  BY DEF TypeInv, TypeOK, SendFrame
<1>2. f \in 1..typed /\ outQ' \in Seq(1..typed)
  BY <1>1, Taken
<1> HIDE DEF f
<1>3. /\ wire' \in Seq(1..typed) /\ loops' \subseteq 1..cur /\ (link \/ wire' = <<>>)
      /\ lost' \subseteq [frame : 1..typed, by : 1..cur, late : BOOLEAN]
  <2>1. CASE c = cur /\ link
    <3>1. wire' = Append(wire, f) /\ lost' = lost /\ loops' = loops
      BY <2>1 DEF SendFrame, f
    <3>2. wire' \in Seq(1..typed)
      BY <1>1, <1>2, <3>1, Queue
    <3> QED  BY <1>1, <2>1, <3>1, <3>2 DEF TypeInv, TypeOK
  <2>2. CASE ~(c = cur /\ link)
    <3> DEFINE x == [frame |-> f, by |-> c, late |-> TRUE]
    <3>1. wire' = wire /\ lost' = lost \cup {x} /\ loops' = loops \ {c}
      BY <2>2 DEF SendFrame, Late, f
    <3>2. x \in [frame : 1..typed, by : 1..cur, late : BOOLEAN]
      BY <1>1, <1>2
    <3> HIDE DEF x
    <3> QED  BY <1>1, <3>1, <3>2 DEF TypeInv, TypeOK, Linked
  <2> QED  BY <2>1, <2>2
<1> QED  BY <1>1, <1>2, <1>3 DEF TypeInv, TypeOK, Linked

LEMMA TypeArrived ==
  ASSUME TypeInv, Arrive
  PROVE  TypeInv'
<1> DEFINE f == Head(wire)
           x == [frame |-> f, by |-> cur]
           Frames == [frame : 1..typed, by : 1..cur]
<1>1. /\ peer /\ wire # <<>> /\ wire' = Tail(wire) /\ got' = Append(got, x)
      /\ UNCHANGED <<sup, ws, stop, attempt, cur, link, peer, lost, loops, outQ, typed, runtime,
                     faults>>
  BY DEF Arrive
<1>2. wire \in Seq(1..typed) /\ got \in Seq(Frames) /\ cur \in Nat /\ link
  BY <1>1 DEF TypeInv, TypeOK, Linked
<1>3. f \in 1..typed /\ wire' \in Seq(1..typed)
  BY <1>1, <1>2, Taken
<1>4. cur \in 1..cur
  BY <1>2 DEF TypeInv, Linked
<1>5. x \in Frames
  BY <1>3, <1>4
<1> HIDE DEF f, x, Frames
<1>6. got' \in Seq(Frames)
  BY <1>1, <1>2, <1>5, Queue
<1> QED  BY <1>1, <1>2, <1>3, <1>6 DEF TypeInv, TypeOK, Linked, Frames

\* The client, its queue, its loops and connections keep their types, whatever breaks when.
THEOREM TypeCorrect == Spec => []TypeOK
<1>1. TypeInv /\ [Next]_vars => TypeInv'
  <2> SUFFICES ASSUME TypeInv, [Next]_vars PROVE TypeInv'
    OBVIOUS
  <2>1. CASE Type
    <3> DEFINE S == [frame : 1..typed, by : 1..cur]
               T == [frame : 1..typed', by : 1..cur]
    <3>1. /\ typed' \in 0..MaxFrames /\ typed' = typed + 1 /\ 1..typed \subseteq 1..typed'
          /\ outQ' = Append(outQ, typed') /\ typed' \in 1..typed'
      BY <2>1, ChannelAssumption DEF Type, TypeInv, TypeOK
    <3>2. UNCHANGED <<sup, ws, stop, attempt, cur, link, peer, wire, loops, got, lost, runtime,
                      faults>>
      BY <2>1 DEF Type, clientVars, linkVars
    <3>3. S \subseteq T
      BY <3>1
    <3>4. outQ \in Seq(1..typed') /\ wire' \in Seq(1..typed')
      BY <3>1, <3>2, Wider DEF TypeInv, TypeOK
    <3>5. outQ' \in Seq(1..typed')
      BY <3>1, <3>4
    <3>6. lost' \subseteq [frame : 1..typed', by : 1..cur', late : BOOLEAN]
      BY <3>1, <3>2 DEF TypeInv, TypeOK
    <3>7. got \in Seq(S)
      BY DEF TypeInv, TypeOK
    <3> HIDE DEF S, T
    <3>8. got' \in Seq(T)
      BY <3>2, <3>3, <3>7, Wider
    <3> QED  BY <3>1, <3>2, <3>4, <3>5, <3>6, <3>8 DEF TypeInv, TypeOK, Linked, T
  <2>2. CASE SendLoop
    BY <2>2, TypeSent DEF SendLoop
  <2>3. CASE Arrive
    BY <2>3, TypeArrived
  <2>4. CASE Dial
    <3> DEFINE S == [frame : 1..typed, by : 1..cur]
               T == [frame : 1..typed, by : 1..cur']
    <3>1. cur' = cur + 1 /\ cur' \in Nat /\ 1..cur \subseteq 1..cur' /\ cur' \in 1..cur'
      BY <2>4 DEF Dial, TypeInv, TypeOK
    <3>2. /\ loops' = loops \cup {cur'} /\ ws' = "open" /\ link' = TRUE /\ peer' = TRUE
          /\ attempt' = 0
          /\ UNCHANGED <<sup, stop, wire, outQ, typed, got, lost, runtime, faults>>
      BY <2>4 DEF Dial, frameVars
    <3>3. S \subseteq T /\ got \in Seq(S)
      BY <3>1 DEF TypeInv, TypeOK
    <3>4. loops' \subseteq 1..cur' /\ lost' \subseteq [frame : 1..typed', by : 1..cur', late : BOOLEAN]
      BY <3>1, <3>2 DEF TypeInv, TypeOK
    <3>5. attempt' \in 0..Delays /\ link' \in BOOLEAN /\ peer' \in BOOLEAN
      BY <3>2 DEF Delays
    <3> HIDE DEF S, T
    <3>6. got' \in Seq(T)
      BY <3>2, <3>3, Wider
    <3>7. Linked'
      BY <3>1, <3>2 DEF TypeInv, TypeOK, Linked
    <3> QED  BY <3>1, <3>2, <3>4, <3>5, <3>6, <3>7 DEF TypeInv, TypeOK, T
  <2>5. CASE DialFails \/ DialStopped \/ BothLoopsOver
    <3>1. /\ UNCHANGED <<frameVars, cur, loops, link, wire, lost, peer, stop, runtime, sup,
                         attempt, faults>>
          /\ ws' \in {"returned", "sleep"}
      BY <2>5 DEF DialFails, DialStopped, BothLoopsOver, EndRound, linkVars
    <3> QED  BY <3>1, TypeControl DEF TypeInv, TypeOK
  <2>6. CASE Awake
    <3>1. /\ UNCHANGED <<frameVars, cur, loops, link, wire, lost, peer, stop, runtime, sup, faults>>
          /\ ws' = "dial" /\ attempt' \in 0..Delays
      BY <2>6 DEF Awake, TypeInv, TypeOK, Delays, linkVars
    <3> QED  BY <3>1, TypeControl DEF TypeInv, TypeOK
  <2>7. CASE Supervisor
    <3>1. /\ UNCHANGED <<frameVars, cur, loops, link, wire, lost, peer, stop, runtime, attempt>>
          /\ sup' \in {"start", "run", "sleep"} /\ ws' \in {ws, "dial"}
          /\ (UNCHANGED faults \/ Fault("start"))
      BY <2>7 DEF Supervisor, Start, StartFails, Restart, clientVars, linkVars, frameVars
    <3> QED  BY <3>1, TypeControl DEF TypeInv, TypeOK, Faults
  <2>8. CASE ListenCrashes
    <3>1. /\ Fault("crash") /\ loops' \subseteq loops /\ UNCHANGED <<frameVars, cur>>
          /\ sup' = "sleep" /\ ws' = "none" /\ Closed /\ stop' = TRUE
          /\ attempt' = attempt /\ runtime' = runtime
      BY <2>8 DEF ListenCrashes, Stopped
    <3> QED  BY <3>1, TypeControl DEF TypeInv, TypeOK, Faults
  <2>9. CASE RawHandlerFails
    <3>1. /\ Fault("raw") /\ UNCHANGED <<frameVars, cur, loops, sup, stop, attempt, runtime>>
          /\ ws' \in {"returned", "sleep"} /\ Closed
      BY <2>9 DEF RawHandlerFails, EndRound
    <3> QED  BY <3>1, TypeControl DEF TypeInv, TypeOK, Faults
  <2>10. CASE Notice
    <3>1. /\ Closed /\ UNCHANGED <<frameVars, cur, loops, sup, ws, stop, attempt, runtime, faults>>
      BY <2>10 DEF Notice
    <3> QED  BY <3>1, TypeControl DEF TypeInv, TypeOK
  <2>11. CASE Break
    <3>1. /\ Fault("break") /\ runtime' \in BOOLEAN /\ peer' = FALSE
          /\ UNCHANGED <<frameVars, cur, loops, sup, ws, stop, attempt, link, wire, lost>>
      BY <2>11 DEF Break
    <3> QED  BY <3>1, TypeControl DEF TypeInv, TypeOK, Faults
  <2>12. CASE ComesUp
    <3>1. /\ UNCHANGED <<frameVars, cur, loops, link, wire, lost, peer, stop, sup, ws, attempt,
                         faults>>
          /\ runtime' = TRUE
      BY <2>12 DEF ComesUp, clientVars, linkVars
    <3> QED  BY <3>1, TypeControl DEF TypeInv, TypeOK
  <2>13. CASE UNCHANGED vars
    BY <2>13, TypeControl DEF vars, frameVars, TypeInv, TypeOK
  <2> QED  BY <2>1, <2>2, <2>3, <2>4, <2>5, <2>6, <2>7, <2>8, <2>9, <2>10, <2>11, <2>12, <2>13
           DEF Next, Client
<1>2. TypeInv => TypeOK
  BY DEF TypeInv
<1> QED  BY <1>1, <1>2, TypeStart, PTL DEF Spec
=============================================================================
