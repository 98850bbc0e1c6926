---------------------------- MODULE PartsProofs -----------------------------
(***************************************************************************)
(* What TLAPS proves of Parts, scene by scene, for every value of the      *)
(* constants that the assumptions of Parts, Compression and WireFrames     *)
(* allow:                                                                  *)
(*   - an LLM call announces no call id twice and every one of the reply   *)
(*     that counts, and ends with the whole of that reply, whatever each   *)
(*     attempt is answered and wherever it breaks (LlmInv, SentInv);       *)
(*   - a final text stays in the Feishu chat where it was shown, once, for *)
(*     every number of chats and messages (FeishuInv);                     *)
(*   - a fold drops whole turns and keeps the newest, for every            *)
(*     conversation (FoldIsRight, by counting);                            *)
(*   - a request for a skill that is refused for what it asks writes       *)
(*     nothing, a zip that is damaged inside takes no file away, and a     *)
(*     start changes no directory that is there;                           *)
(*   - an event is read back from its frame as it was, a damaged frame is  *)
(*     read as a well-formed event or as none, and a message the server    *)
(*     takes reaches the session it is for, for every session;             *)
(*   - audio is cut into parts that reach its end, or the end that ffprobe *)
(*     tells, and the transcript tells, in order, all of every part but of *)
(*     silent ones and those whose stream ended early (AsrInv);            *)
(*   - the answers on the screen hold every token once and in order, and   *)
(*     what is not drawn yet will be, for every order of events (ChatInv). *)
(* Several of these join sequences.  Induction over data is out of reach,  *)
(* so Unrolls finds the function inside FlattenSeq through the least       *)
(* length at which there would be none, and JoinedSame the least place     *)
(* where two joins would differ.                                           *)
(***************************************************************************)
EXTENDS Parts, FiniteSetTheorems, SequenceTheorems, TLAPS

-----------------------------------------------------------------------------
(* A retried LLM call announces each call id once.                         *)

Entries == [id : Nat, args : Seq(Nat)]
Told == {pending[i] : i \in 1..Len(pending)}

(* The ids of the calls this reply has opened so far are theirs, and told; *)
(* in the first attempt no others are.                                     *)
LlmInv ==
  /\ pos \in Nat \ {0} /\ calls \in Seq(Entries) /\ pending \in Seq(Nat)
  /\ attempt \in Nat \ {0}
  /\ reply \in Replies \cup {<<>>} /\ pos <= Len(reply) + 1
  /\ \A i, j \in 1..Len(pending) : pending[i] = pending[j] => i = j
  /\ \A i \in Llm!Opens : i < pos => /\ reply[i].id \in Told
                                     /\ reply[i].call \in 1..Len(calls)
                                     /\ calls[reply[i].call].id = reply[i].id
  /\ attempt = 1 => Told \subseteq Llm!Ids /\ \A k \in 1..Len(calls) : calls[k].id \in Llm!Ids \cup {0}
  /\ attempt = 1 /\ pc = "asking" => Len(calls) = 0 /\ Len(pending) = 0 /\ text = <<>>
  /\ pc = "done" => pos > Len(reply)

LEMMA RepliesAre ==
  ASSUME NEW r \in Replies \cup {<<>>}
  PROVE  /\ r \in Seq([kind : {"text", "open", "args", "finish"}, call : Nat, id : Nat])
         /\ Len(r) \in Nat /\ DOMAIN r = 1..Len(r)
         /\ \A i \in 1..Len(r) : /\ r[i].call \in Nat /\ r[i].id \in Nat
                                 /\ r[i].kind \in {"open", "args"} => r[i].call \in Nat \ {0}
                                 /\ r[i].kind = "open" => r[i].id # 0
         /\ \A i, j \in 1..Len(r) : r[i].kind = "open" /\ r[j].kind = "open" /\ r[i].call = r[j].call
                                      => r[i].id = r[j].id
<1> DEFINE C == [kind : {"text", "open", "args", "finish"}, call : Nat, id : Nat]
<1>1. r \in Seq(C)
  <2>1. <<>> \in Seq(C)
    OBVIOUS
  <2>2. \A q \in Replies : q \in Seq(C)
    BY RepliesAssumption
  <2> HIDE DEF C
  <2> QED  BY <2>1, <2>2
<1>2. Len(r) \in Nat /\ DOMAIN r = 1..Len(r) /\ \A i \in 1..Len(r) : r[i] \in C
  <2> HIDE DEF C
  <2> QED  BY <1>1
<1>3. \A i \in 1..Len(r) : r[i].call \in Nat /\ r[i].id \in Nat
  BY <1>2
<1>4. r = <<>> => \A i \in 1..Len(r) : FALSE
  OBVIOUS
<1>5. \A i \in 1..Len(r) : /\ r[i].kind \in {"open", "args"} => r[i].call > 0
                           /\ r[i].kind = "open" => r[i].id > 0
  <2>1. \A q \in Replies : \A i \in DOMAIN q : /\ q[i].kind \in {"open", "args"} => q[i].call > 0
                                               /\ q[i].kind = "open" => q[i].id > 0
    BY RepliesAssumption
  <2> QED  BY <1>2, <1>4, <2>1, Zenon
<1>6. \A i, j \in 1..Len(r) : r[i].kind = "open" /\ r[j].kind = "open" /\ r[i].call = r[j].call
                                => r[i].id = r[j].id
  <2>1. \A q \in Replies : \A i, j \in DOMAIN q :
          q[i].kind = "open" /\ q[j].kind = "open" /\ q[i].call = q[j].call => q[i].id = q[j].id
    BY RepliesAssumption
  <2>2. CASE r \in Replies
    <3>1. \A i, j \in DOMAIN r :
            r[i].kind = "open" /\ r[j].kind = "open" /\ r[i].call = r[j].call => r[i].id = r[j].id
      BY <2>1, <2>2
    <3> QED  BY <1>2, <3>1
  <2>3. CASE r = <<>>
    BY <1>4, <2>3, Zenon
  <2> QED  BY <2>2, <2>3
<1>7. \A i \in 1..Len(r) : /\ r[i].kind \in {"open", "args"} => r[i].call \in Nat \ {0}
                           /\ r[i].kind = "open" => r[i].id # 0
  BY <1>3, <1>5
<1> HIDE DEF C
<1> QED  BY <1>1, <1>2, <1>3, <1>6, <1>7 DEF C

LEMMA Element == ASSUME NEW S, NEW s \in Seq(S), NEW i \in DOMAIN s PROVE s[i] \in S
OBVIOUS

LEMMA NoEntries == ASSUME NEW S, NEW s, s = <<>> PROVE s \in Seq(S) /\ Len(s) = 0
OBVIOUS

LEMMA LlmInit == Llm!Init => LlmInv
<1> SUFFICES ASSUME Llm!Init PROVE LlmInv
  OBVIOUS
<1>1. /\ calls \in Seq(Entries) /\ Len(calls) = 0 /\ pending \in Seq(Nat) /\ Len(pending) = 0
      /\ pos = 1 /\ pc = "asking" /\ attempt = 1 /\ reply = <<>> /\ text = <<>>
  BY NoEntries DEF Llm!Init
<1>2. Len(reply) = 0 /\ \A i \in Llm!Opens : ~(i < pos)
  BY <1>1 DEF Llm!Opens
<1>3. Told = {} /\ \A k \in 1..Len(calls) : FALSE
  BY <1>1 DEF Told
<1> QED  BY <1>1, <1>2, <1>3 DEF LlmInv

\* A chunk of a call leaves every other entry, and of its own only sets the id or adds to the arguments.
LEMMA MergedEntry ==
  ASSUME calls \in Seq(Entries), pos \in Nat, NEW k \in Nat \ {0}, NEW c, c.call = k, c.id \in Nat
  PROVE  /\ Llm!Merged(calls, c) \in Seq(Entries) /\ k \in 1..Len(Llm!Merged(calls, c))
         /\ Len(calls) <= Len(Llm!Merged(calls, c))
         /\ \A i \in 1..Len(Llm!Merged(calls, c)) :
              Llm!Merged(calls, c)[i].id = IF c.kind = "open" /\ i = k THEN c.id
                                           ELSE IF i \in 1..Len(calls) THEN calls[i].id ELSE 0
<1> DEFINE n == IF Len(calls) < k THEN k ELSE Len(calls)
           fresh == [id |-> 0, args |-> <<>>]
           grown == [i \in 1..n |-> IF i \in DOMAIN calls THEN calls[i] ELSE fresh]
<1>1. n \in Nat /\ k \in 1..n /\ DOMAIN calls = 1..Len(calls) /\ Len(calls) <= n
  OBVIOUS
<1>2. fresh \in Entries /\ fresh.id = 0
  <2>1. <<>> \in Seq(Nat)
    OBVIOUS
  <2> QED  BY <2>1 DEF Entries
<1>3. Llm!Merged(calls, c) = IF c.kind = "open" THEN [grown EXCEPT ![k].id = c.id]
                             ELSE [grown EXCEPT ![k].args = Append(@, pos)]
  BY DEF Llm!Merged
<1>4. \A i \in 1..n : grown[i] = IF i \in 1..Len(calls) THEN calls[i] ELSE fresh
  BY <1>1
<1>5. grown \in [1..n -> Entries]
  BY <1>1, <1>2
<1> HIDE DEF n, fresh, grown
<1>6. PICK e : e = IF c.kind = "open" THEN [grown[k] EXCEPT !.id = c.id]
                   ELSE [grown[k] EXCEPT !.args = Append(@, pos)]
  OBVIOUS
<1>7. grown[k] \in Entries
  BY <1>1, <1>5
<1>8. e \in Entries /\ e.id = IF c.kind = "open" THEN c.id ELSE grown[k].id
  <2>1. CASE c.kind = "open"
    BY <1>6, <1>7, <2>1 DEF Entries
  <2>2. CASE c.kind # "open"
    <3>1. Append(grown[k].args, pos) \in Seq(Nat)
      BY <1>7 DEF Entries
    <3> QED  BY <1>6, <1>7, <2>2, <3>1 DEF Entries
  <2> QED  BY <2>1, <2>2
<1>9. Llm!Merged(calls, c) = [grown EXCEPT ![k] = e]
  BY <1>3, <1>6
<1>10. PICK m : m = Llm!Merged(calls, c)
  OBVIOUS
<1>11. /\ m \in [1..n -> Entries] /\ m[k] = e
       /\ \A i \in 1..n : i # k => m[i] = grown[i]
  BY <1>1, <1>5, <1>8, <1>9, <1>10
<1>12. m \in Seq(Entries) /\ Len(m) = n
  BY <1>1, <1>11
<1>13. ASSUME NEW i \in 1..n
       PROVE  m[i].id = IF c.kind = "open" /\ i = k THEN c.id
                        ELSE IF i \in 1..Len(calls) THEN calls[i].id ELSE 0
  <2>1. m[i].id = IF c.kind = "open" /\ i = k THEN c.id ELSE grown[i].id
    BY <1>8, <1>11
  <2>2. grown[i].id = IF i \in 1..Len(calls) THEN calls[i].id ELSE 0
    BY <1>2, <1>4
  <2> QED  BY <2>1, <2>2
<1> QED  BY <1>1, <1>10, <1>12, <1>13

\* An attempt that goes on, ends or breaks keeps what was received.
LEMMA LlmStays ==
  ASSUME LlmInv, UNCHANGED <<calls, pending, text>>,
         \/ reply' = reply /\ pos' = pos
         \/ reply' \in Replies /\ pos' = 1 /\ pc = "asking",
         attempt' \in Nat \ {0}, attempt' = 1 => attempt = 1, pc' = "asking" => pc' = pc \/ attempt' # 1,
         pc' = "done" => pos' > Len(reply')
  PROVE  LlmInv'
<1>1. Told' = Told
  BY DEF Told
<1>2. CASE reply' = reply /\ pos' = pos
  <2>1. Llm!Opens' = Llm!Opens /\ Llm!Ids' = Llm!Ids
    BY <1>2 DEF Llm!Opens, Llm!Ids
  <2> QED  BY <1>1, <1>2, <2>1 DEF LlmInv
<1>3. CASE reply' \in Replies /\ pos' = 1 /\ pc = "asking"
  <2>1. Len(reply') \in Nat /\ DOMAIN reply' = 1..Len(reply')
    BY <1>3, RepliesAre
  <2>2. \A i \in Llm!Opens' : ~(i < pos')
    BY <1>3, <2>1 DEF Llm!Opens
  <2>3. attempt' = 1 => Told = {} /\ Len(calls) = 0 /\ \A k \in 1..Len(calls) : FALSE
    BY <1>3 DEF LlmInv, Told
  <2>4. pos' \in Nat \ {0} /\ pos' <= Len(reply') + 1
    BY <1>3, <2>1
  <2> QED  BY <1>1, <1>3, <2>2, <2>3, <2>4 DEF LlmInv
<1> QED  BY <1>2, <1>3

LEMMA ChunkStep == ASSUME LlmInv, Llm!Chunk PROVE LlmInv'
<1> DEFINE c == reply[pos]
           tcs == IF c.kind \in {"open", "args"} THEN Llm!Merged(calls, c) ELSE calls
<1>1. /\ pos \in Nat \ {0} /\ pos \in 1..Len(reply) /\ Len(reply) \in Nat /\ DOMAIN reply = 1..Len(reply)
      /\ pos' = pos + 1 /\ pc' = "streaming" /\ reply' = reply /\ attempt' = attempt
  BY RepliesAre DEF Llm!Chunk, LlmInv
<1>2. /\ c.call \in Nat /\ c.id \in Nat /\ (c.kind \in {"open", "args"} => c.call \in Nat \ {0})
      /\ c.kind = "open" => c.id # 0
  <2>1. reply \in Replies \cup {<<>>}
    BY DEF LlmInv
  <2> QED  BY <1>1, <2>1, RepliesAre
<1>3. calls' = tcs /\ pending' = Llm!Announced(tcs, c)
  BY DEF Llm!Chunk, Llm!Parsed
<1>4. /\ \A i \in Llm!Opens : i \in 1..Len(reply) /\ reply[i].kind = "open"
      /\ c.kind = "open" <=> pos \in Llm!Opens
      /\ \A i \in Llm!Opens : reply[i].id \in Llm!Ids
      /\ Llm!Opens' = Llm!Opens /\ Llm!Ids' = Llm!Ids
  BY <1>1 DEF Llm!Opens, Llm!Ids
<1>5. \A i \in Llm!Opens : i < pos' => i < pos \/ i = pos
  BY <1>1, <1>4
<1>6. \A i \in Llm!Opens : c.kind = "open" /\ reply[i].call = c.call => reply[i].id = c.id
  <2>1. reply \in Replies \cup {<<>>}
    BY DEF LlmInv
  <2>2. \A i, j \in 1..Len(reply) :
          reply[i].kind = "open" /\ reply[j].kind = "open" /\ reply[i].call = reply[j].call
            => reply[i].id = reply[j].id
    BY <2>1, RepliesAre
  <2> QED  BY <1>1, <1>4, <2>2
<1>7. PICK d : d = c
  OBVIOUS
<1>8. PICK t : t = tcs
  OBVIOUS
<1> HIDE DEF c, tcs
<1>9. /\ t \in Seq(Entries)
      /\ d.kind \in {"open", "args"} => d.call \in 1..Len(t)
      /\ d.kind = "open" => t[d.call].id = d.id
      /\ \A i \in Llm!Opens : i < pos' => reply[i].call \in 1..Len(t) /\ t[reply[i].call].id = reply[i].id
      /\ attempt = 1 => \A k \in 1..Len(t) : t[k].id \in Llm!Ids \cup {0}
  <2>1. CASE d.kind \in {"open", "args"}
    <3>1. t = Llm!Merged(calls, d)
      BY <1>7, <1>8, <2>1 DEF tcs
    <3>2. d.call \in Nat \ {0} /\ d.id \in Nat /\ calls \in Seq(Entries) /\ pos \in Nat
      BY <1>1, <1>2, <1>7, <2>1 DEF LlmInv
    <3>3. /\ t \in Seq(Entries) /\ d.call \in 1..Len(t) /\ Len(calls) <= Len(t)
          /\ \A i \in 1..Len(t) : t[i].id = IF d.kind = "open" /\ i = d.call THEN d.id
                                            ELSE IF i \in 1..Len(calls) THEN calls[i].id ELSE 0
      BY <3>1, <3>2, MergedEntry
    <3>4. Len(t) \in Nat /\ Len(calls) \in Nat /\ \A k \in 1..Len(calls) : k \in 1..Len(t)
      BY <3>2, <3>3
    <3>5. d.kind = "open" => t[d.call].id = d.id
      BY <3>3
    <3>6. ASSUME NEW i \in Llm!Opens, i < pos'
          PROVE  reply[i].call \in 1..Len(t) /\ t[reply[i].call].id = reply[i].id
      <4>1. CASE i = pos
        BY <1>4, <1>7, <3>3, <3>5, <4>1 DEF c
      <4>2. CASE i < pos
        <5>1. reply[i].call \in 1..Len(calls) /\ calls[reply[i].call].id = reply[i].id
          BY <4>2 DEF LlmInv
        <5>2. d.kind = "open" /\ reply[i].call = d.call => reply[i].id = d.id
          BY <1>6, <1>7
        <5> QED  BY <3>3, <3>4, <5>1, <5>2
      <4> QED  BY <1>5, <3>6, <4>1, <4>2
    <3>7. ASSUME attempt = 1, NEW k \in 1..Len(t) PROVE t[k].id \in Llm!Ids \cup {0}
      <4>1. d.kind = "open" => d.id \in Llm!Ids
        BY <1>4, <1>7 DEF c
      <4>2. k \in 1..Len(calls) => calls[k].id \in Llm!Ids \cup {0}
        BY <3>7 DEF LlmInv
      <4> QED  BY <3>3, <4>1, <4>2
    <3> QED  BY <3>3, <3>5, <3>6, <3>7
  <2>2. CASE d.kind \notin {"open", "args"}
    <3>1. t = calls /\ pos \notin Llm!Opens
      BY <1>4, <1>7, <1>8, <2>2 DEF tcs
    <3>2. \A i \in Llm!Opens : i < pos' => i < pos
      BY <1>5, <3>1
    <3> QED  BY <2>2, <3>1, <3>2 DEF LlmInv
  <2> QED  BY <2>1, <2>2
<1>10. calls' = t /\ pending' = Llm!Announced(t, d)
  BY <1>3, <1>7, <1>8
<1>11. Llm!Range(pending) = Told
  <2>1. DOMAIN pending = 1..Len(pending)
    BY DEF LlmInv
  <2> QED  BY <2>1 DEF Llm!Range, Told
<1>12. CASE d.kind \in {"open", "args"} /\ t[d.call].id \notin Told \cup {0}
  <2> DEFINE x == t[d.call].id
  <2>1. pending' = Append(pending, x) /\ x \in Nat /\ (attempt = 1 => x \in Llm!Ids)
    <3>1. pending' = Append(pending, x)
      BY <1>10, <1>11, <1>12 DEF Llm!Announced
    <3>2. t[d.call] \in Entries
      BY <1>9, <1>12
    <3> QED  BY <1>9, <1>12, <3>1, <3>2 DEF Entries
  <2> HIDE DEF x
  <2>2. PICK n \in Nat : n = Len(pending)
    BY DEF LlmInv
  <2>3. /\ pending' \in Seq(Nat) /\ Len(pending') = n + 1 /\ pending'[n + 1] = x
        /\ \A i \in 1..n : pending'[i] = pending[i]
    BY <2>1, <2>2 DEF LlmInv
  <2>4. \A i \in 1..n + 1 : i \in 1..n \/ i = n + 1
    OBVIOUS
  <2>5. Told' = Told \cup {x}
    <3>1. \A i \in 1..n : pending'[i] \in Told
      BY <2>2, <2>3 DEF Told
    <3>2. \A y \in Told : \E i \in 1..n + 1 : pending'[i] = y
      BY <2>2, <2>3 DEF Told
    <3>3. n + 1 \in 1..n + 1
      OBVIOUS
    <3>4. Told' = {pending'[i] : i \in 1..n + 1}
      BY <2>3 DEF Told
    <3> HIDE DEF Told
    <3>5. \A i \in 1..n + 1 : pending'[i] \in Told \cup {x}
      BY <2>3, <2>4, <3>1
    <3>6. \A y \in Told \cup {x} : \E i \in 1..n + 1 : pending'[i] = y
      BY <2>3, <3>2, <3>3
    <3> QED  BY <3>4, <3>5, <3>6
  <2>6. \A i, j \in 1..n + 1 : pending'[i] = pending'[j] => i = j
    <3>1. \A i \in 1..n : pending'[i] # x
      BY <1>12, <2>2, <2>3 DEF Told, x
    <3>2. \A i, j \in 1..n : pending'[i] = pending'[j] => i = j
      BY <2>2, <2>3 DEF LlmInv
    <3> SUFFICES ASSUME NEW i \in 1..n + 1, NEW j \in 1..n + 1, pending'[i] = pending'[j]
                 PROVE  i = j
      OBVIOUS
    <3>3. CASE i \in 1..n /\ j \in 1..n
      BY <3>2, <3>3
    <3>4. CASE i = n + 1 \/ j = n + 1
      BY <2>3, <2>4, <3>1, <3>4
    <3> QED  BY <2>4, <3>3, <3>4
  <2>7. \A i \in Llm!Opens : i < pos' => reply[i].id \in Told'
    <3>1. c.kind = "open" => c.id = x
      BY <1>7, <1>9 DEF x
    <3>2. \A i \in Llm!Opens : i < pos => reply[i].id \in Told
      BY DEF LlmInv
    <3>3. pos \in Llm!Opens => reply[pos].id = x
      BY <1>4, <3>1 DEF c
    <3> QED  BY <1>5, <2>5, <3>2, <3>3
  <2>8. attempt = 1 => Told' \subseteq Llm!Ids
    BY <2>1, <2>5 DEF LlmInv
  <2>9. reply \in Replies \cup {<<>>} /\ pos' \in Nat \ {0} /\ pos' <= Len(reply) + 1 /\ attempt \in Nat \ {0}
    BY <1>1 DEF LlmInv
  <2> QED  BY <1>1, <1>4, <1>9, <1>10, <2>3, <2>6, <2>7, <2>8, <2>9 DEF LlmInv
<1>13. CASE ~(d.kind \in {"open", "args"} /\ t[d.call].id \notin Told \cup {0})
  <2>1. pending' = pending
    BY <1>10, <1>11, <1>13 DEF Llm!Announced
  <2>2. Told' = Told
    BY <2>1 DEF Told
  <2>3. d.kind = "open" => d.id \in Told
    BY <1>2, <1>7, <1>9, <1>13
  <2>4. \A i \in Llm!Opens : i < pos' => reply[i].id \in Told'
    <3>1. \A i \in Llm!Opens : i < pos => reply[i].id \in Told
      BY DEF LlmInv
    <3>2. pos \in Llm!Opens => reply[pos].id \in Told
      BY <1>4, <1>7, <2>3 DEF c
    <3> QED  BY <1>5, <2>2, <3>1, <3>2
  <2>5. reply \in Replies \cup {<<>>} /\ pos' \in Nat \ {0} /\ pos' <= Len(reply) + 1 /\ attempt \in Nat \ {0}
    BY <1>1 DEF LlmInv
  <2> QED  BY <1>1, <1>4, <1>9, <1>10, <2>1, <2>2, <2>4, <2>5 DEF LlmInv
<1> QED  BY <1>12, <1>13

LEMMA LlmStep == ASSUME LlmInv, Llm!Next \/ UNCHANGED llmVars PROVE LlmInv'
<1> USE DEF Llm!received, llmVars
<1>1. CASE Llm!Chunk
  BY <1>1, ChunkStep
<1>2. CASE Llm!Connect
  <2>1. UNCHANGED <<calls, pending, text, attempt>> /\ reply' \in Replies /\ pos' = 1 /\ pc = "asking" /\ pc' = "streaming"
    BY <1>2 DEF Llm!Connect
  <2> QED  BY <2>1, LlmStays DEF LlmInv
<1>3. CASE Llm!Retry
  <2>1. UNCHANGED <<calls, pending, text, reply, pos>> /\ attempt' = attempt + 1 /\ pc' = "asking"
    BY <1>3 DEF Llm!Retry
  <2>2. attempt \in Nat \ {0}
    BY DEF LlmInv
  <2>3. attempt' \in Nat \ {0} /\ attempt' # 1
    BY <2>1, <2>2
  <2> QED  BY <2>1, <2>3, LlmStays
<1>4. CASE \/ Llm!EndOfStream \/ Llm!Interrupted \/ Llm!Breaks \/ Llm!Malformed
           \/ Llm!InterruptArrives \/ Llm!Cancelled \/ UNCHANGED llmVars
  <2>1. /\ UNCHANGED <<calls, pending, text, reply, pos, attempt>>
        /\ pc' = "asking" => pc = "asking"
        /\ pc' = "done" => pc = "done" \/ pos > Len(reply)
    BY <1>4 DEF Llm!EndOfStream, Llm!Interrupted, Llm!Breaks, Llm!Malformed,
                Llm!InterruptArrives, Llm!Cancelled
  <2>2. pc' = "done" => pos' > Len(reply')
    BY <2>1 DEF LlmInv
  <2> QED  BY <2>1, <2>2, LlmStays DEF LlmInv
<1> QED  BY <1>1, <1>2, <1>3, <1>4 DEF Llm!Next

LEMMA LlmPart == Spec => []LlmInv
<1>1. Init => LlmInv
  BY LlmInit DEF Init
<1>2. LlmInv /\ [Next]_<<scene, event, msgs, partVars>> => LlmInv'
  <2>1. [Next]_<<scene, event, msgs, partVars>> => Llm!Next \/ UNCHANGED llmVars
    BY DEF Next, partVars
  <2> QED  BY <2>1, LlmStep
<1> QED  BY <1>1, <1>2, PTL DEF Spec

\* Whatever each attempt is answered, each call id is announced once, the ids of the last
\* reply all are, and, if the first attempt is the last, no others.
THEOREM IdsAnnouncedOnce == Spec => []AnnouncedOnce
<1>1. LlmInv => AnnouncedOnce
  <2> SUFFICES ASSUME LlmInv PROVE Llm!AnnouncedOnce
    BY DEF AnnouncedOnce
  <2>1. DOMAIN pending = 1..Len(pending)
    BY DEF LlmInv
  <2>2. Llm!IsInjective(pending)
    BY <2>1 DEF LlmInv, Llm!IsInjective
  <2>3. Llm!Range(pending) = Told
    BY <2>1 DEF Llm!Range, Told
  <2>4. pc = "done" => Llm!Ids \subseteq Told
    <3>1. Len(reply) \in Nat /\ \A i \in Llm!Opens : i \in 1..Len(reply)
      BY RepliesAre DEF LlmInv, Llm!Opens
    <3>2. pc = "done" => \A i \in Llm!Opens : i < pos
      BY <3>1 DEF LlmInv
    <3> QED  BY <3>2 DEF LlmInv, Llm!Ids
  <2>5. attempt = 1 => Told \subseteq Llm!Ids
    BY DEF LlmInv
  <2> QED  BY <2>2, <2>3, <2>4, <2>5 DEF Llm!AnnouncedOnce
<1> QED  BY <1>1, LlmPart, PTL

-----------------------------------------------------------------------------
(* A final text that Feishu has accepted stays.                            *)

Card == [chat : Chats, state : {"thinking", "final", "task", "ended"},
         content : Seq(Nat), shows : Seq(Nat)]
ShowsFinal(c, e) == c.state = "final" /\ c.shows = <<e>>
ShownBy(e) == {i \in DOMAIN cards : ShowsFinal(cards[i], e)}
SaidBy(e) == {i \in DOMAIN texts : texts[i] = e}

\* No two chats, and no two tasks, share a card.
OwnCards ==
  /\ \A c, d \in Chats : card[c] = card[d] /\ card[c] # 0 => c = d
  /\ \A t, u \in Tasks : taskCard[t] = taskCard[u] /\ taskCard[t] # 0 => t = u

(* The card of a chat is "thinking", that of a task is not final: a card   *)
(* that is final is nobody's, and is not patched again.  What is shown is  *)
(* an event that was sent.                                                 *)
FeishuInv ==
  /\ OwnCards
  /\ cards \in Seq(Card) /\ texts \in Seq(Nat) /\ events \in Nat
  /\ known \subseteq Chats /\ card \in [Chats -> Nat] /\ taskCard \in [Tasks -> Nat]
  /\ \A c \in Chats : card[c] <= Len(cards) /\ (card[c] # 0 => cards[card[c]].state = "thinking")
  /\ \A t \in Tasks : taskCard[t] <= Len(cards) /\ (taskCard[t] # 0 => cards[taskCard[t]].state = "task")
  /\ \A i \in 1..Len(cards), e \in Nat : cards[i].shows = <<e>> => e <= events
  /\ \A i \in 1..Len(texts) : texts[i] <= events
  /\ \A e \in shown : e \in Nat /\ e <= events
  /\ \A e \in shown : Cardinality(ShownBy(e)) + Cardinality(SaidBy(e)) = 1

LEMMA FeishuInit == Feishu!Init => FeishuInv
<1> SUFFICES ASSUME Feishu!Init PROVE FeishuInv
  OBVIOUS
<1>1. /\ cards \in Seq(Card) /\ Len(cards) = 0 /\ texts \in Seq(Nat) /\ Len(texts) = 0
      /\ events = 0 /\ known = {} /\ shown = {}
  BY NoEntries DEF Feishu!Init
<1>2. /\ card \in [Chats -> Nat] /\ \A c \in Chats : card[c] = 0
      /\ taskCard \in [Tasks -> Nat] /\ \A t \in Tasks : taskCard[t] = 0
  BY DEF Feishu!Init
<1> QED  BY <1>1, <1>2 DEF FeishuInv, OwnCards

\* The Feishu API makes a card, or refuses.
LEMMA Created ==
  ASSUME cards \in Seq(Card), NEW chat \in Chats, NEW st \in {"thinking", "task"}, NEW id \in Nat,
         Feishu!Create(chat, st, id)
  PROVE  /\ cards' \in Seq(Card) /\ Len(cards') >= Len(cards) /\ id <= Len(cards')
         /\ id # 0 => id > Len(cards) /\ cards'[id].state = st
         /\ \A j \in 1..Len(cards) : cards'[j] = cards[j]
         /\ \A j \in 1..Len(cards') : j \in 1..Len(cards) \/ (cards'[j].state = st /\ Len(cards'[j].shows) = 0)
<1>1. CASE id = 0 /\ UNCHANGED cards
  BY <1>1
<1>2. CASE id # 0 \/ cards' # cards
  <2> DEFINE new == [chat |-> chat, state |-> st, content |-> <<>>, shows |-> <<>>]
  <2>1. id = Len(cards) + 1 /\ cards' = Append(cards, new)
    BY <1>2 DEF Feishu!Create
  <2>2. new \in Card /\ new.state = st /\ Len(new.shows) = 0
    <3>1. <<>> \in Seq(Nat)
      OBVIOUS
    <3> QED  BY <3>1 DEF Card
  <2> HIDE DEF new
  <2> QED  BY <2>1, <2>2
<1> QED  BY <1>1, <1>2

\* A card is patched, or only its content is kept here.
LEMMA Patched ==
  ASSUME cards \in Seq(Card), NEW i \in 1..Len(cards), NEW st \in {"thinking", "final", "ended"},
         NEW content \in Seq(Nat), Feishu!Patch(i, st, content)
  PROVE  /\ cards' \in Seq(Card) /\ Len(cards') = Len(cards)
         /\ \A j \in 1..Len(cards) : j # i => cards'[j] = cards[j]
         /\ \/ cards'[i].state = st /\ cards'[i].shows = content
            \/ cards'[i].state = cards[i].state /\ cards'[i].shows = cards[i].shows
<1>1. cards[i] \in Card
  OBVIOUS
<1>2. PICK c : /\ c = [cards[i] EXCEPT !.state = st, !.content = content, !.shows = content]
               /\ cards' = [cards EXCEPT ![i] = c]
            \/ /\ c = [cards[i] EXCEPT !.content = content]
               /\ cards' = [cards EXCEPT ![i] = c]
  BY DEF Feishu!Patch
<1>3. /\ c \in Card
      /\ \/ c.state = st /\ c.shows = content
         \/ c.state = cards[i].state /\ c.shows = cards[i].shows
  BY <1>1, <1>2 DEF Card
<1>4. cards' = [cards EXCEPT ![i] = c]
  BY <1>2
<1> QED  BY <1>3, <1>4

\* What was shown still is, when final cards and texts are as they were.
LEMMA FinalsStay ==
  ASSUME FeishuInv, cards' \in Seq(Card), texts' \in Seq(Nat), NEW e \in Nat, e <= events,
         Len(cards') >= Len(cards), Len(texts') >= Len(texts),
         \A j \in 1..Len(cards) : ShowsFinal(cards'[j], e) <=> ShowsFinal(cards[j], e),
         \A j \in 1..Len(cards') : j > Len(cards) => ~ShowsFinal(cards'[j], e),
         \A j \in 1..Len(texts) : texts'[j] = texts[j],
         \A j \in 1..Len(texts') : j > Len(texts) => texts'[j] > e
  PROVE  ShownBy(e)' = ShownBy(e) /\ SaidBy(e)' = SaidBy(e)
<1>1. /\ DOMAIN cards = 1..Len(cards) /\ DOMAIN cards' = 1..Len(cards')
      /\ DOMAIN texts = 1..Len(texts) /\ DOMAIN texts' = 1..Len(texts')
      /\ Len(cards) \in Nat /\ Len(cards') \in Nat /\ Len(texts) \in Nat /\ Len(texts') \in Nat
  BY DEF FeishuInv
<1>2. /\ \A j \in 1..Len(cards) : j \in 1..Len(cards')
      /\ \A j \in 1..Len(cards') : j \in 1..Len(cards) \/ j > Len(cards)
      /\ \A j \in 1..Len(texts) : j \in 1..Len(texts')
      /\ \A j \in 1..Len(texts') : j \in 1..Len(texts) \/ j > Len(texts)
  BY <1>1
<1>3. ShownBy(e)' = ShownBy(e)
  BY <1>1, <1>2 DEF ShownBy, ShowsFinal
<1>4. \A j \in 1..Len(texts') : j > Len(texts) => texts'[j] # e
  OBVIOUS
<1>5. SaidBy(e)' = SaidBy(e)
  BY <1>1, <1>2, <1>4 DEF SaidBy
<1> QED  BY <1>3, <1>5

ChatCards ==
  \A c \in Chats : card[c] <= Len(cards) /\ (card[c] # 0 => cards[card[c]].state = "thinking")
TaskCards ==
  \A t \in Tasks : taskCard[t] <= Len(cards) /\ (taskCard[t] # 0 => cards[taskCard[t]].state = "task")
ShowsSent == \A i \in 1..Len(cards), e \in Nat : cards[i].shows = <<e>> => e <= events

\* A step that makes no card final and lets no final card change.
LEMMA NothingFinal ==
  ASSUME FeishuInv, cards' \in Seq(Card), Len(cards') >= Len(cards),
         UNCHANGED <<texts, shown, known>>, events' \in Nat, events' >= events,
         card' \in [Chats -> Nat], taskCard' \in [Tasks -> Nat], ChatCards', TaskCards', OwnCards', ShowsSent',
         \A j \in 1..Len(cards) : \/ cards'[j] = cards[j]
                                  \/ cards[j].state # "final" /\ cards'[j].state # "final",
         \A j \in 1..Len(cards') : j > Len(cards) => cards'[j].state # "final"
  PROVE  FeishuInv'
<1>1. ASSUME NEW e \in shown
      PROVE  ShownBy(e)' = ShownBy(e) /\ SaidBy(e)' = SaidBy(e)
  <2>1. e \in Nat /\ e <= events /\ texts' \in Seq(Nat) /\ Len(texts') >= Len(texts) /\ Len(texts) \in Nat
    BY DEF FeishuInv
  <2>2. /\ \A j \in 1..Len(cards) : ShowsFinal(cards'[j], e) <=> ShowsFinal(cards[j], e)
        /\ \A j \in 1..Len(cards') : j > Len(cards) => ~ShowsFinal(cards'[j], e)
    BY DEF ShowsFinal
  <2>3. \A j \in 1..Len(texts') : ~(j > Len(texts))
    BY <2>1
  <2> QED  BY <2>1, <2>2, <2>3, FinalsStay
<1>2. \A e \in shown' : Cardinality(ShownBy(e)') + Cardinality(SaidBy(e)') = 1
  BY <1>1 DEF FeishuInv
<1>3. /\ \A i \in 1..Len(texts') : texts'[i] <= events'
      /\ \A e \in shown' : e \in Nat /\ e <= events'
  BY DEF FeishuInv
<1> QED  BY <1>2, <1>3 DEF FeishuInv, ChatCards, TaskCards, ShowsSent

LEMMA NewCard ==
  ASSUME FeishuInv, NEW chat \in Chats, NEW st \in {"thinking", "task"}, NEW id \in Nat,
         Feishu!Create(chat, st, id), UNCHANGED <<texts, shown, known>>, events' = events + 1,
         \/ st = "thinking" /\ taskCard' = taskCard /\ card' \in {card, [card EXCEPT ![chat] = id]}
         \/ /\ st = "task" /\ card' = card
            /\ \E t \in Tasks : taskCard' = [taskCard EXCEPT ![t] = id]
  PROVE  FeishuInv'
<1>1. /\ cards' \in Seq(Card) /\ Len(cards') >= Len(cards) /\ id <= Len(cards')
      /\ id # 0 => id > Len(cards) /\ cards'[id].state = st
      /\ \A j \in 1..Len(cards) : cards'[j] = cards[j]
      /\ \A j \in 1..Len(cards') : j \in 1..Len(cards) \/ (cards'[j].state = st /\ Len(cards'[j].shows) = 0)
  BY Created DEF FeishuInv
<1>2. Len(cards) \in Nat /\ Len(cards') \in Nat /\ events \in Nat
  BY <1>1 DEF FeishuInv
<1>3. /\ card' \in [Chats -> Nat]
      /\ \A c \in Chats : card'[c] = card[c] \/ (st = "thinking" /\ card'[c] = id /\ c = chat)
      /\ taskCard' \in [Tasks -> Nat]
      /\ \/ taskCard' = taskCard
         \/ \E u \in Tasks : \A t \in Tasks : taskCard'[t] = taskCard[t] \/ (st = "task" /\ taskCard'[t] = id /\ t = u)
  BY DEF FeishuInv
<1>4. ChatCards'
  <2> SUFFICES ASSUME NEW c \in Chats
               PROVE  card'[c] <= Len(cards') /\ (card'[c] # 0 => cards'[card'[c]].state = "thinking")
    BY DEF ChatCards
  <2>1. /\ card[c] \in Nat /\ card[c] <= Len(cards)
        /\ card[c] # 0 => card[c] \in 1..Len(cards) /\ cards[card[c]].state = "thinking"
    BY DEF FeishuInv
  <2> QED  BY <1>1, <1>2, <1>3, <2>1
<1>5. TaskCards'
  <2> SUFFICES ASSUME NEW t \in Tasks
               PROVE  taskCard'[t] <= Len(cards') /\ (taskCard'[t] # 0 => cards'[taskCard'[t]].state = "task")
    BY DEF TaskCards
  <2>1. /\ taskCard[t] \in Nat /\ taskCard[t] <= Len(cards)
        /\ taskCard[t] # 0 => taskCard[t] \in 1..Len(cards) /\ cards[taskCard[t]].state = "task"
    BY DEF FeishuInv
  <2> QED  BY <1>1, <1>2, <1>3, <2>1
<1>6. ShowsSent'
  <2> SUFFICES ASSUME NEW j \in 1..Len(cards'), NEW e \in Nat, cards'[j].shows = <<e>>
               PROVE  e <= events + 1
    BY DEF ShowsSent
  <2>1. Len(<<e>>) = 1
    OBVIOUS
  <2>2. Len(cards'[j].shows) # 0
    <3>1. Len(cards'[j].shows) = 1
      BY <2>1, Zenon
    <3> QED  BY <3>1
  <2>3. j \in 1..Len(cards) /\ cards'[j] = cards[j]
    BY <1>1, <2>2
  <2> QED  BY <1>2, <2>3 DEF FeishuInv
<1>7. \A j \in 1..Len(cards') : j > Len(cards) => cards'[j].state # "final"
  BY <1>1, <1>2
<1>8. OwnCards'
  <2>1. /\ \A c \in Chats : card[c] \in Nat /\ card[c] <= Len(cards)
        /\ \A t \in Tasks : taskCard[t] \in Nat /\ taskCard[t] <= Len(cards)
    BY DEF FeishuInv
  <2>2. ASSUME NEW c \in Chats, NEW d \in Chats, card'[c] = card'[d], card'[c] # 0
        PROVE  c = d
    BY <1>1, <1>2, <1>3, <2>1, <2>2 DEF FeishuInv, OwnCards
  <2>3. ASSUME NEW t \in Tasks, NEW u \in Tasks, taskCard'[t] = taskCard'[u], taskCard'[t] # 0
        PROVE  t = u
    BY <1>1, <1>2, <1>3, <2>1, <2>3 DEF FeishuInv, OwnCards
  <2> QED  BY <2>2, <2>3 DEF OwnCards
<1> QED  BY <1>1, <1>2, <1>3, <1>4, <1>5, <1>6, <1>7, <1>8, NothingFinal

\* A card that is not final is patched to something that is not final.
LEMMA CardGrows ==
  ASSUME FeishuInv, NEW i \in 1..Len(cards), NEW st \in {"thinking", "ended"}, NEW content \in Seq(Nat),
         Feishu!Patch(i, st, content), UNCHANGED <<texts, shown, known, card>>, events' = events + 1,
         \A e \in Nat : content = <<e>> => e = events + 1,
         \/ st = "thinking" /\ cards[i].state = "thinking" /\ taskCard' = taskCard
         \/ /\ st = "ended" /\ cards[i].state = "task"
            /\ taskCard' \in [Tasks -> Nat]
            /\ \A t \in Tasks : taskCard'[t] = 0 \/ (taskCard'[t] = taskCard[t] /\ taskCard[t] # i)
  PROVE  FeishuInv'
<1>1. /\ cards' \in Seq(Card) /\ Len(cards') = Len(cards)
      /\ \A j \in 1..Len(cards) : j # i => cards'[j] = cards[j]
      /\ \/ cards'[i].state = st /\ cards'[i].shows = content
         \/ cards'[i].state = cards[i].state /\ cards'[i].shows = cards[i].shows
  BY Patched DEF FeishuInv
<1>2. Len(cards) \in Nat /\ events \in Nat /\ card' \in [Chats -> Nat] /\ taskCard' \in [Tasks -> Nat]
  BY <1>1 DEF FeishuInv
<1>3. ChatCards'
  <2> SUFFICES ASSUME NEW c \in Chats
               PROVE  card[c] <= Len(cards') /\ (card[c] # 0 => cards'[card[c]].state = "thinking")
    BY DEF ChatCards
  <2>1. /\ card[c] \in Nat /\ card[c] <= Len(cards)
        /\ card[c] # 0 => card[c] \in 1..Len(cards) /\ cards[card[c]].state = "thinking"
    BY DEF FeishuInv
  <2> QED  BY <1>1, <2>1
<1>4. TaskCards'
  <2> SUFFICES ASSUME NEW t \in Tasks
               PROVE  taskCard'[t] <= Len(cards') /\ (taskCard'[t] # 0 => cards'[taskCard'[t]].state = "task")
    BY DEF TaskCards
  <2>1. /\ taskCard[t] \in Nat /\ taskCard[t] <= Len(cards)
        /\ taskCard[t] # 0 => taskCard[t] \in 1..Len(cards) /\ cards[taskCard[t]].state = "task"
    BY DEF FeishuInv
  <2> QED  BY <1>1, <1>2, <2>1
<1>5. ShowsSent'
  <2> SUFFICES ASSUME NEW j \in 1..Len(cards), NEW e \in Nat, cards'[j].shows = <<e>>
               PROVE  e <= events + 1
    BY <1>1 DEF ShowsSent
  <2>1. cards[j].shows = <<e>> => e <= events
    BY DEF FeishuInv
  <2>2. cards'[j].shows = cards[j].shows \/ cards'[j].shows = content
    BY <1>1
  <2>3. cards[j].shows = <<e>> \/ content = <<e>>
    BY <2>2
  <2> QED  BY <1>2, <2>1, <2>3
<1>6. \A j \in 1..Len(cards) : \/ cards'[j] = cards[j]
                               \/ cards[j].state # "final" /\ cards'[j].state # "final"
  BY <1>1
<1>7. OwnCards'
  BY DEF FeishuInv, OwnCards
<1> QED  BY <1>1, <1>2, <1>3, <1>4, <1>5, <1>6, <1>7, NothingFinal

LEMMA Alone ==
  /\ \A x, S, T : S = {} /\ T = {x} => Cardinality(S) + Cardinality(T) = 1
  /\ \A x, S, T : S = {x} /\ T = {} => Cardinality(S) + Cardinality(T) = 1
<1>1. Cardinality({}) = 0
  BY FS_EmptySet
<1>2. \A x : Cardinality({x}) = 1
  BY FS_Singleton
<1>3. ASSUME NEW x, NEW S, NEW T, S = {}, T = {x}
      PROVE  Cardinality(S) = 0 /\ Cardinality(T) = 1
  BY <1>1, <1>2, <1>3, Zenon
<1>4. 0 + 1 = 1 /\ 1 + 0 = 1
  OBVIOUS
<1> QED  BY <1>3, <1>4, Zenon

\* The final text is asked to take the place of the chat's card, or to be a message.
LEMMA FinalPut ==
  ASSUME FeishuInv, NEW c \in Chats, UNCHANGED <<known, taskCard>>, events' = events + 1,
         Feishu!PutFinal(card[c]), card' = [card EXCEPT ![c] = 0]
  PROVE  FeishuInv'
<1>1. PICK n \in Nat : n = events + 1
  BY DEF FeishuInv
<1>2. PICK i \in Nat : i = card[c] /\ i <= Len(cards) /\ (i # 0 => cards[i].state = "thinking")
  BY DEF FeishuInv
<1>3. /\ Len(cards) \in Nat /\ Len(texts) \in Nat /\ events \in Nat /\ events' = n /\ n > events
      /\ cards \in Seq(Card) /\ texts \in Seq(Nat)
  BY <1>1 DEF FeishuInv
<1>4. /\ card' \in [Chats -> Nat] /\ card'[c] = 0
      /\ \A d \in Chats : d # c => card'[d] = card[d] /\ (card[d] # 0 => card[d] # i)
  BY <1>2 DEF FeishuInv, OwnCards
<1>5. OwnCards'
  BY <1>4 DEF FeishuInv, OwnCards
<1>6. /\ IF i = 0 THEN Feishu!SendText(n) /\ UNCHANGED cards
         ELSE Feishu!Patch(i, "final", <<n>>) /\ UNCHANGED texts
      /\ shown' = IF texts' # texts \/ (i # 0 /\ cards'[i].shows = <<n>>)
                  THEN shown \cup {n} ELSE shown
  BY <1>1, <1>2 DEF Feishu!PutFinal
<1>7. \A e \in shown : e \in Nat /\ e <= events /\ e # n
  BY <1>3 DEF FeishuInv
<1>8. \A j \in 1..Len(cards) : cards[j].shows # <<n>>
  BY <1>1, <1>3 DEF FeishuInv
<1>14. \A j \in 1..Len(cards), e \in Nat : cards[j].shows = <<e>> => e <= events /\ e <= n
  <2>1. \A j \in 1..Len(cards), e \in Nat : cards[j].shows = <<e>> => e <= events
    BY DEF FeishuInv
  <2> QED  BY <1>3, <2>1
<1>9. \A j \in 1..Len(texts) : texts[j] # n /\ texts[j] <= n
  <2>1. \A j \in 1..Len(texts) : texts[j] <= events /\ texts[j] \in Nat
    BY DEF FeishuInv
  <2> QED  BY <1>3, <2>1
<1>10. CASE i = 0 /\ texts' # texts
  <2>1. texts' = Append(texts, n) /\ cards' = cards /\ shown' = shown \cup {n}
    BY <1>6, <1>10 DEF Feishu!SendText
  <2>2. PICK k \in Nat : k = Len(texts)
    BY <1>3
  <2>3. /\ texts' \in Seq(Nat) /\ Len(texts') = k + 1 /\ texts'[k + 1] = n
        /\ \A j \in 1..k : texts'[j] = texts[j]
    BY <1>3, <2>1, <2>2
  <2>4. \A j \in 1..k + 1 : j \in 1..k \/ j = k + 1
    OBVIOUS
  <2>5. ASSUME NEW e \in shown PROVE ShownBy(e)' = ShownBy(e) /\ SaidBy(e)' = SaidBy(e)
    <3>1. \A j \in 1..Len(texts') : j > Len(texts) => texts'[j] > e
      BY <1>3, <1>7, <2>2, <2>3, <2>4
    <3>2. \A j \in 1..Len(cards') : ~(j > Len(cards))
      BY <1>3, <2>1
    <3> QED  BY <1>3, <1>7, <2>1, <2>2, <2>3, <3>1, <3>2, FinalsStay
  <2>6. ShownBy(n)' = {}
    <3>1. DOMAIN cards = 1..Len(cards)
      BY <1>3
    <3> QED  BY <1>8, <2>1, <3>1 DEF ShownBy, ShowsFinal
  <2>7. SaidBy(n)' = {k + 1}
    <3>1. DOMAIN texts' = 1..k + 1 /\ k + 1 \in 1..k + 1
      BY <2>3
    <3> QED  BY <1>9, <2>2, <2>3, <2>4, <3>1 DEF SaidBy
  <2>8. Cardinality(ShownBy(n)') + Cardinality(SaidBy(n)') = 1
    BY ONLY <2>6, <2>7, Alone
  <2>9. \A e \in shown' : Cardinality(ShownBy(e)') + Cardinality(SaidBy(e)') = 1
    BY <2>1, <2>5, <2>8 DEF FeishuInv
  <2>10. \A j \in 1..Len(texts') : texts'[j] <= events'
    BY <1>3, <1>9, <2>2, <2>3, <2>4
  <2>11. /\ \A d \in Chats : card'[d] <= Len(cards') /\ (card'[d] # 0 => cards'[card'[d]].state = "thinking")
         /\ \A t \in Tasks : taskCard'[t] <= Len(cards') /\ (taskCard'[t] # 0 => cards'[taskCard'[t]].state = "task")
    BY <1>3, <1>4, <2>1 DEF FeishuInv
  <2>12. /\ \A j \in 1..Len(cards'), e \in Nat : cards'[j].shows = <<e>> => e <= events'
         /\ \A e \in shown' : e \in Nat /\ e <= events'
    <3>1. \A e \in shown' : e \in Nat /\ e <= n
      BY <1>3, <1>7, <2>1
    <3>2. \A j \in 1..Len(cards), e \in Nat : cards[j].shows = <<e>> => e <= n
      BY <1>14
    <3> QED  BY <1>3, <2>1, <3>1, <3>2, Zenon
  <2> QED  BY <1>3, <1>4, <1>5, <2>1, <2>3, <2>9, <2>10, <2>11, <2>12 DEF FeishuInv
<1>11. CASE i # 0 /\ cards'[i].shows = <<n>>
  <2>1. Feishu!Patch(i, "final", <<n>>) /\ texts' = texts /\ shown' = shown \cup {n} /\ i \in 1..Len(cards)
    BY <1>2, <1>3, <1>6, <1>11
  <2>2. <<n>> \in Seq(Nat)
    OBVIOUS
  <2>3. /\ cards' \in Seq(Card) /\ Len(cards') = Len(cards)
        /\ \A j \in 1..Len(cards) : j # i => cards'[j] = cards[j]
        /\ cards'[i].state = "final"
    BY <1>3, <1>8, <1>11, <2>1, <2>2, Patched
  <2>4. ~ShowsFinal(cards[i], n) /\ ShowsFinal(cards'[i], n) /\ cards[i].state # "final"
    BY <1>2, <1>11, <2>3 DEF ShowsFinal
  <2>5. ASSUME NEW e \in shown PROVE ShownBy(e)' = ShownBy(e) /\ SaidBy(e)' = SaidBy(e)
    <3>1. e \in Nat /\ e <= events /\ e # n
      BY <1>7
    <3>2. ~ShowsFinal(cards[i], e) /\ ~ShowsFinal(cards'[i], e)
      <4>1. <<n>>[1] = n /\ <<e>>[1] = e
        OBVIOUS
      <4>2. <<n>> # <<e>>
        BY <3>1, <4>1
      <4> QED  BY <1>11, <2>4, <4>2 DEF ShowsFinal
    <3>3. \A j \in 1..Len(cards) : ShowsFinal(cards'[j], e) <=> ShowsFinal(cards[j], e)
      BY <2>3, <3>2
    <3>4. (\A j \in 1..Len(cards') : ~(j > Len(cards))) /\ (\A j \in 1..Len(texts') : ~(j > Len(texts)))
      BY <1>3, <2>1, <2>3
    <3>5. texts' \in Seq(Nat) /\ Len(cards') >= Len(cards) /\ Len(texts') >= Len(texts)
      BY <1>3, <2>1, <2>3
    <3> QED  BY <2>1, <2>3, <3>1, <3>3, <3>4, <3>5, FinalsStay
  <2>6. ShownBy(n)' = {i}
    <3>1. DOMAIN cards' = 1..Len(cards)
      BY <2>3
    <3>2. \A j \in 1..Len(cards) : j # i => ~ShowsFinal(cards'[j], n)
      BY <1>8, <2>3 DEF ShowsFinal
    <3> QED  BY <2>1, <2>4, <3>1, <3>2 DEF ShownBy
  <2>7. SaidBy(n)' = {}
    <3>1. DOMAIN texts = 1..Len(texts)
      BY <1>3
    <3> QED  BY <1>9, <2>1, <3>1 DEF SaidBy
  <2>8. Cardinality(ShownBy(n)') + Cardinality(SaidBy(n)') = 1
    BY ONLY <2>6, <2>7, Alone
  <2>9. \A e \in shown' : Cardinality(ShownBy(e)') + Cardinality(SaidBy(e)') = 1
    BY <2>1, <2>5, <2>8 DEF FeishuInv
  <2>10. ASSUME NEW d \in Chats
         PROVE  card'[d] <= Len(cards') /\ (card'[d] # 0 => cards'[card'[d]].state = "thinking")
    <3>1. /\ card[d] \in Nat /\ card[d] <= Len(cards)
          /\ card[d] # 0 => card[d] \in 1..Len(cards) /\ cards[card[d]].state = "thinking"
      BY DEF FeishuInv
    <3> QED  BY <1>3, <1>4, <2>3, <3>1
  <2>11. ASSUME NEW t \in Tasks
         PROVE  taskCard[t] <= Len(cards') /\ (taskCard[t] # 0 => cards'[taskCard[t]].state = "task")
    <3>1. /\ taskCard[t] \in Nat /\ taskCard[t] <= Len(cards)
          /\ taskCard[t] # 0 => taskCard[t] \in 1..Len(cards) /\ cards[taskCard[t]].state = "task"
      BY DEF FeishuInv
    <3> QED  BY <1>2, <2>1, <2>3, <3>1
  <2>12. ASSUME NEW j \in 1..Len(cards), NEW e \in Nat, cards'[j].shows = <<e>>
         PROVE  e <= events'
    <3>1. CASE j = i
      <4>1. <<n>>[1] = n /\ <<e>>[1] = e
        OBVIOUS
      <4>2. e = n
        BY <1>11, <2>12, <3>1, <4>1
      <4> QED  BY <1>3, <4>2
    <3>2. CASE j # i
      BY <1>3, <2>3, <2>12, <3>2 DEF FeishuInv
    <3> QED  BY <3>1, <3>2
  <2>13. /\ \A e \in shown' : e \in Nat /\ e <= events'
         /\ \A j \in 1..Len(texts') : texts'[j] <= events'
    BY <1>3, <1>7, <1>9, <2>1
  <2> QED  BY <1>3, <1>4, <1>5, <2>1, <2>3, <2>9, <2>10, <2>11, <2>12, <2>13 DEF FeishuInv
<1>12. CASE texts' = texts /\ ~(i # 0 /\ cards'[i].shows = <<n>>)
  <2>1. texts' = texts /\ shown' = shown
    BY <1>6, <1>12
  <2>2. /\ cards' \in Seq(Card) /\ Len(cards') = Len(cards)
        /\ \A j \in 1..Len(cards) : /\ cards'[j].state = cards[j].state
                                    /\ cards'[j].shows = cards[j].shows
                                    /\ j # i => cards'[j] = cards[j]
    <3>1. CASE i = 0
      BY <1>3, <1>6, <3>1
    <3>2. CASE i # 0
      <4>1. <<n>> \in Seq(Nat) /\ i \in 1..Len(cards)
        BY <1>2, <1>3, <3>2
      <4> QED  BY <1>3, <1>6, <1>12, <3>2, <4>1, Patched
    <3> QED  BY <3>1, <3>2
  <2>3. /\ \A j \in 1..Len(cards) : \/ cards'[j] = cards[j]
                                    \/ cards[j].state # "final" /\ cards'[j].state # "final"
        /\ \A j \in 1..Len(cards') : ~(j > Len(cards))
    <3>1. \A j \in 1..Len(cards) : j = i => cards[j].state # "final" /\ cards'[j].state # "final"
      BY <1>2, <2>2
    <3>2. ASSUME NEW j \in 1..Len(cards)
          PROVE  \/ cards'[j] = cards[j]
                 \/ cards[j].state # "final" /\ cards'[j].state # "final"
      <4>1. CASE j = i
        BY <3>1, <4>1
      <4>2. CASE j # i
        BY <2>2, <4>2
      <4> QED  BY <4>1, <4>2
    <3>3. \A j \in 1..Len(cards') : ~(j > Len(cards))
      <4>1. PICK l \in Nat : l = Len(cards)
        BY <2>2
      <4> QED  BY <2>2, <4>1
    <3> QED  BY <3>2, <3>3
  <2>4. ChatCards'
    <3> SUFFICES ASSUME NEW d \in Chats
                 PROVE  card'[d] <= Len(cards') /\ (card'[d] # 0 => cards'[card'[d]].state = "thinking")
      BY DEF ChatCards
    <3>1. /\ card[d] \in Nat /\ card[d] <= Len(cards)
          /\ card[d] # 0 => card[d] \in 1..Len(cards) /\ cards[card[d]].state = "thinking"
      BY DEF FeishuInv
    <3> QED  BY <1>3, <1>4, <2>2, <3>1
  <2>5. TaskCards'
    <3> SUFFICES ASSUME NEW t \in Tasks
                 PROVE  taskCard[t] <= Len(cards') /\ (taskCard[t] # 0 => cards'[taskCard[t]].state = "task")
      BY DEF TaskCards
    <3>1. /\ taskCard[t] \in Nat /\ taskCard[t] <= Len(cards)
          /\ taskCard[t] # 0 => taskCard[t] \in 1..Len(cards) /\ cards[taskCard[t]].state = "task"
      BY DEF FeishuInv
    <3> QED  BY <2>2, <3>1
  <2>6. ShowsSent'
    <3> SUFFICES ASSUME NEW j \in 1..Len(cards'), NEW e \in Nat, cards'[j].shows = <<e>>
                 PROVE  e <= events + 1
      BY DEF ShowsSent
    <3>1. j \in 1..Len(cards) /\ cards[j].shows = <<e>>
      BY <2>2
    <3> QED  BY <1>1, <1>14, <3>1
  <2>7. taskCard' \in [Tasks -> Nat] /\ events' \in Nat /\ events' >= events /\ Len(cards') >= Len(cards)
    BY <1>3, <2>2 DEF FeishuInv
  <2> QED  BY <1>4, <1>5, <2>1, <2>2, <2>3, <2>4, <2>5, <2>6, <2>7, NothingFinal
<1>13. i # 0 => texts' = texts
  BY <1>6
<1> QED  BY <1>10, <1>11, <1>12, <1>13

LEMMA FeishuStep == ASSUME FeishuInv, Feishu!Next \/ UNCHANGED feishuVars PROVE FeishuInv'
<1>1. CASE (\E m \in Msgs : Feishu!OnMessage(m)) \/ Feishu!Listen \/ UNCHANGED feishuVars
  <2>1. UNCHANGED <<card, cards, texts, taskCard, shown, events>>
    BY <1>1 DEF Feishu!OnMessage, Feishu!Listen, Feishu!outVars, feishuVars
  <2>2. known' \subseteq Chats
    BY <1>1, ChatsAssumption DEF FeishuInv, Feishu!OnMessage, Feishu!Listen, feishuVars
  <2> QED  BY <2>1, <2>2 DEF FeishuInv, OwnCards, ShownBy, SaidBy, ShowsFinal
<1> DEFINE Sent == events' = events + 1 /\ UNCHANGED <<known, taskCard>>
<1>2. ASSUME Sent, UNCHANGED <<card, cards, texts, shown>>
      PROVE  FeishuInv'
  <2>1. /\ \A j \in 1..Len(cards) : cards'[j] = cards[j]
        /\ \A j \in 1..Len(cards') : ~(j > Len(cards))
        /\ Len(cards') >= Len(cards) /\ events' \in Nat /\ events' >= events
    BY <1>2 DEF FeishuInv
  <2>2. ChatCards' /\ TaskCards' /\ OwnCards'
    BY <1>2 DEF FeishuInv, ChatCards, TaskCards, OwnCards
  <2>3. ShowsSent'
    <3> SUFFICES ASSUME NEW j \in 1..Len(cards), NEW e \in Nat, cards[j].shows = <<e>>
                 PROVE  e <= events'
      BY <1>2 DEF ShowsSent
    <3>1. e <= events /\ events \in Nat
      BY DEF FeishuInv
    <3> QED  BY <2>1, <3>1
  <2>4. cards' \in Seq(Card) /\ card' \in [Chats -> Nat] /\ taskCard' \in [Tasks -> Nat]
    BY <1>2 DEF FeishuInv
  <2> QED  BY <1>2, <2>1, <2>2, <2>3, <2>4, NothingFinal
<1>3. known \subseteq Chats
  BY DEF FeishuInv
<1>4. CASE Feishu!Thinking
  <2>1. Sent
    BY <1>4 DEF Feishu!Thinking, Feishu!Sends, Feishu!inVars
  <2>2. CASE Feishu!Nowhere
    BY <1>2, <2>1, <2>2 DEF Feishu!Nowhere
  <2>3. CASE ~Feishu!Nowhere
    <3>1. PICK id \in 0..Len(cards) + 1 :
            /\ lastChat \in known /\ Feishu!Create(lastChat, "thinking", id)
            /\ card' = IF id = 0 THEN card ELSE [card EXCEPT ![lastChat] = id]
            /\ UNCHANGED <<texts, shown>>
      BY <1>4, <2>3 DEF Feishu!Thinking
    <3> QED  BY <1>3, <2>1, <3>1, NewCard
  <2> QED  BY <2>2, <2>3
<1>5. CASE Feishu!Token
  <2>1. Sent
    BY <1>5 DEF Feishu!Token, Feishu!Sends, Feishu!inVars
  <2>2. CASE Feishu!Nowhere
    BY <1>2, <2>1, <2>2 DEF Feishu!Nowhere
  <2>3. CASE ~Feishu!Nowhere
    <3>1. PICK i : i = card[lastChat]
      OBVIOUS
    <3>2. /\ lastChat \in Chats /\ UNCHANGED <<card, texts, shown>>
          /\ IF i = 0 THEN UNCHANGED cards
             ELSE Feishu!Patch(i, "thinking", Append(cards[i].content, events'))
      BY <1>3, <1>5, <2>3, <3>1 DEF Feishu!Token
    <3>3. CASE i = 0
      BY <1>2, <2>1, <3>2, <3>3
    <3>4. CASE i # 0
      <4>1. i \in 1..Len(cards) /\ cards[i].state = "thinking"
        BY <3>1, <3>2, <3>4 DEF FeishuInv
      <4>2. PICK s \in Seq(Nat) : s = cards[i].content
        <5>1. cards[i] \in Card
          BY <4>1 DEF FeishuInv
        <5> QED  BY <5>1 DEF Card
      <4>3. PICK n \in Nat : n = events' /\ n = events + 1
        BY <2>1 DEF FeishuInv
      <4>4. Append(s, n) \in Seq(Nat) /\ Len(Append(s, n)) = Len(s) + 1 /\ Append(s, n)[Len(s) + 1] = n
        OBVIOUS
      <4>5. ASSUME NEW e \in Nat, Append(s, n) = <<e>>
            PROVE  e = events + 1
        <5>1. Len(<<e>>) = 1 /\ <<e>>[1] = e
          OBVIOUS
        <5>2. Len(s) = 0
          BY <4>4, <4>5, <5>1
        <5> QED  BY <4>3, <4>4, <4>5, <5>1, <5>2
      <4>6. Feishu!Patch(i, "thinking", Append(s, n))
        BY <3>2, <3>4, <4>2, <4>3
      <4> QED  BY <2>1, <3>2, <4>1, <4>4, <4>5, <4>6, CardGrows
    <3> QED  BY <3>3, <3>4
  <2> QED  BY <2>2, <2>3
<1>6. CASE Feishu!Final
  <2>1. Sent
    BY <1>6 DEF Feishu!Final, Feishu!Sends, Feishu!inVars
  <2>2. CASE Feishu!Nowhere
    BY <1>2, <2>1, <2>2 DEF Feishu!Nowhere
  <2>3. CASE ~Feishu!Nowhere
    <3>1. /\ lastChat \in Chats /\ Feishu!PutFinal(card[lastChat])
          /\ card' = [card EXCEPT ![lastChat] = 0]
      BY <1>3, <1>6, <2>3 DEF Feishu!Final
    <3> QED  BY <2>1, <3>1, FinalPut
  <2> QED  BY <2>2, <2>3
<1>7. CASE Feishu!Other
  BY <1>2, <1>7 DEF Feishu!Other, Feishu!Sends, Feishu!inVars
<1>8. CASE \E t \in Tasks : Feishu!TaskCreated(t)
  <2>1. PICK t \in Tasks : Feishu!TaskCreated(t)
    BY <1>8
  <2>2. PICK id \in 0..Len(cards) + 1 :
          /\ Feishu!Create(lastChat, "task", id) /\ taskCard' = [taskCard EXCEPT ![t] = id]
    BY <2>1 DEF Feishu!TaskCreated
  <2>3. lastChat \in Chats /\ events' = events + 1 /\ UNCHANGED <<texts, shown, known, card>>
    BY <1>3, <2>1 DEF Feishu!TaskCreated, Feishu!inVars
  <2>4. \E u \in Tasks : taskCard' = [taskCard EXCEPT ![u] = id]
    BY <2>2
  <2>5. id \in Nat
    BY DEF FeishuInv
  <2> QED  BY <2>2, <2>3, <2>4, <2>5, NewCard
<1>9. CASE \E t \in Tasks : Feishu!TaskStatus(t)
  <2>1. PICK t \in Tasks : Feishu!TaskStatus(t)
    BY <1>9
  <2>2. PICK i : i = taskCard[t]
    OBVIOUS
  <2>3. i \in 1..Len(cards) /\ cards[i].state = "task"
    BY <2>1, <2>2 DEF Feishu!TaskStatus, FeishuInv
  <2>4. PICK n \in Nat : n = events' /\ n = events + 1
    BY <2>1 DEF Feishu!TaskStatus, FeishuInv
  <2>5. <<n>> \in Seq(Nat) /\ \A e \in Nat : <<n>> = <<e>> => e = events + 1
    <3>1. \A e \in Nat : <<e>>[1] = e
      OBVIOUS
    <3> QED  BY <2>4, <3>1
  <2>6. /\ Feishu!Patch(i, "ended", <<n>>) /\ taskCard' = [taskCard EXCEPT ![t] = 0]
        /\ UNCHANGED <<texts, shown, known, card>>
    BY <2>1, <2>2, <2>4 DEF Feishu!TaskStatus, Feishu!inVars
  <2>7. /\ taskCard' \in [Tasks -> Nat]
        /\ \A u \in Tasks : taskCard'[u] = 0 \/ (taskCard'[u] = taskCard[u] /\ taskCard[u] # i)
    BY <2>2, <2>3, <2>6 DEF FeishuInv, OwnCards
  <2> QED  BY <2>3, <2>4, <2>5, <2>6, <2>7, CardGrows
<1> QED  BY <1>1, <1>4, <1>5, <1>6, <1>7, <1>8, <1>9 DEF Feishu!Next

LEMMA FeishuPart == Spec => []FeishuInv
<1>1. Init => FeishuInv
  BY FeishuInit DEF Init
<1>2. FeishuInv /\ [Next]_<<scene, event, msgs, partVars>> => FeishuInv'
  <2>1. [Next]_<<scene, event, msgs, partVars>> => Feishu!Next \/ UNCHANGED feishuVars
    BY DEF Next, partVars
  <2> QED  BY <2>1, FeishuStep
<1> QED  BY <1>1, <1>2, PTL DEF Spec

\* A final text that Feishu has accepted stays where it was put, in one card or one
\* message, whatever is patched, refused or sent to other chats after it.
THEOREM FinalTextStays == Spec => []FinalStays
<1>1. FeishuInv => FinalStays
  <2>1. FeishuInv => \A e \in shown : Cardinality(ShownBy(e)) + Cardinality(SaidBy(e)) = 1
    BY DEF FeishuInv
  <2> QED  BY <2>1 DEF FinalStays, Feishu!FinalStays, ShownBy, SaidBy, ShowsFinal,
                       Cardinality, Feishu!Cardinality
<1> QED  BY <1>1, FeishuPart, PTL

-----------------------------------------------------------------------------
(* A fold drops whole turns.                                               *)

\* A nonempty set of natural numbers has a least one.
LEMMA LeastExists ==
  ASSUME NEW S \in SUBSET Nat, S # {}
  PROVE  \E x \in S : \A y \in S : x <= y
<1> DEFINE R == {p \in Nat \X Nat : p[1] < p[2]}
<1>1. IsWellFoundedOn(R, Nat)
  BY NatLessThanWellFounded DEF OpToRel
<1>2. PICK x \in S : \A y \in S : <<y, x>> \notin R
  BY <1>1, WFMin
<1>3. ASSUME NEW y \in S PROVE x <= y
  <2>1. x \in Nat /\ y \in Nat
    OBVIOUS
  <2>2. <<y, x>> \in R <=> y < x
    BY <2>1
  <2> HIDE DEF R
  <2> QED  BY <2>1, <2>2, <1>2
<1> QED  BY <1>3

Below(T, k) == {j \in T : j < k}

\* In a set of numbers with more than n members one has exactly n below it.
LEMMA NthExists ==
  ASSUME NEW b \in Nat, NEW T \in SUBSET (1..b), NEW n \in Nat, Cardinality(T) > n
  PROVE  \E i \in T : Cardinality(Below(T, i)) = n
<1>0. \A j \in T : j \in Nat /\ 1 <= j /\ j < b + 1
  OBVIOUS
<1>1. \A k : IsFiniteSet(Below(T, k))
  <2>1. IsFiniteSet(1..b)
    BY FS_Interval
  <2>2. IsFiniteSet(T)
    BY <2>1, FS_Subset
  <2> QED  BY <2>2, FS_Subset DEF Below
<1>2. \A k : Cardinality(Below(T, k)) \in Nat
  BY <1>1, FS_CardinalityType
<1>3. Below(T, b + 1) = T
  <2>1. \A j \in T : j < b + 1
    BY <1>0
  <2> QED  BY <2>1, Zenon DEF Below
<1>4. Below(T, 0) = {}
  <2>1. \A j \in T : ~(j < 0)
    BY <1>0
  <2> QED  BY <2>1, Zenon DEF Below
<1> DEFINE S == {k \in Nat : Cardinality(Below(T, k)) > n}
<1>5. b + 1 \in S
  BY <1>3
<1>6. PICK k \in S : \A y \in S : k <= y
  <2>1. S \in SUBSET Nat
    OBVIOUS
  <2> HIDE DEF S
  <2> QED  BY <1>5, <2>1, LeastExists
<1>7. k \in Nat /\ Cardinality(Below(T, k)) > n
  OBVIOUS
<1>8. k # 0
  <2>2. Cardinality(Below(T, 0)) = 0
    BY <1>4, FS_EmptySet
  <2> QED  BY <1>7, <2>2
<1>9. PICK i \in Nat : k = i + 1
  BY <1>7, <1>8
<1>10. ~(Cardinality(Below(T, i)) > n)
  BY <1>6, <1>9
<1>11. i \in T
  <2> SUFFICES ASSUME i \notin T PROVE FALSE
    OBVIOUS
  <2>1. \A j \in T : j < k <=> j < i
    BY <1>0, <1>9
  <2>2. Below(T, k) = Below(T, i)
    BY <2>1 DEF Below
  <2> QED  BY <1>7, <1>10, <2>2
<1>12. Below(T, k) = Below(T, i) \cup {i} /\ i \notin Below(T, i)
  <2>1. \A j \in T : j < k <=> j < i \/ j = i
    BY <1>0, <1>9
  <2>2. ~(i < i)
    BY <1>9
  <2> QED  BY <1>11, <2>1, <2>2 DEF Below
<1>13. Cardinality(Below(T, k)) = Cardinality(Below(T, i)) + 1
  BY <1>1, <1>12, FS_AddElement
<1>14. Cardinality(Below(T, i)) = n
  BY <1>2, <1>7, <1>10, <1>13
<1> QED  BY <1>11, <1>14

\* As many turns are left as there were from the cut on.
LEMMA TurnsLeft ==
  ASSUME NEW S, NEW q \in Seq(S), NEW i \in 1..Len(q)
  PROVE  /\ IsFiniteSet(Turns(q))
         /\ Cardinality(Turns(SubSeq(q, i, Len(q)))) = Cardinality({j \in Turns(q) : ~(j < i)})
<1> DEFINE rest == SubSeq(q, i, Len(q))
           U == {j \in Turns(q) : ~(j < i)}
           f == [j \in U |-> j + 1 - i]
<1>1. PICK n \in Nat : n = Len(q)
  OBVIOUS
<1>2. i \in 1..n /\ DOMAIN q = 1..n
  BY <1>1
<1>3. /\ Len(rest) = n + 1 - i /\ DOMAIN rest = 1..n + 1 - i
      /\ \A j \in 1..n + 1 - i : rest[j] = q[i + j - 1]
  BY <1>1, <1>2
<1>4. Turns(q) \in SUBSET (1..n)
  BY <1>2 DEF Turns
<1>5. IsFiniteSet(Turns(q))
  <2>1. IsFiniteSet(1..n)
    BY FS_Interval
  <2> QED  BY <1>4, <2>1, FS_Subset
<1>6. IsFiniteSet(U)
  BY <1>5, FS_Subset
<1> HIDE DEF rest
<1>7. \A j \in U : j \in i..n /\ q[j].role = "user"
  BY <1>2, <1>4 DEF Turns
<1>8. \A j \in 1..n + 1 - i : i + j - 1 \in i..n /\ (i + j - 1) + 1 - i = j
  BY <1>2
<1>9. \A j \in i..n : j + 1 - i \in 1..n + 1 - i /\ i + (j + 1 - i) - 1 = j
  BY <1>2
<1>10. f \in [U -> Turns(rest)]
  <2>1. ASSUME NEW j \in U PROVE j + 1 - i \in Turns(rest)
    <3>1. j + 1 - i \in DOMAIN rest /\ rest[j + 1 - i] = q[j]
      BY <1>3, <1>7, <1>9
    <3> QED  BY <1>7, <3>1 DEF Turns
  <2> QED  BY <2>1
<1>11. \A x, y \in U : f[x] = f[y] => x = y
  <2>1. \A x, y \in U : f[x] = x + 1 - i /\ x \in i..n
    BY <1>7
  <2> QED  BY <1>2, <2>1
<1>12. \A t \in Turns(rest) : \E j \in U : f[j] = t
  <2> SUFFICES ASSUME NEW t \in Turns(rest) PROVE \E j \in U : f[j] = t
    OBVIOUS
  <2>1. t \in 1..n + 1 - i /\ q[i + t - 1].role = "user"
    BY <1>3 DEF Turns
  <2>2. i + t - 1 \in i..n /\ (i + t - 1) + 1 - i = t
    BY <1>8, <2>1
  <2>3. i + t - 1 \in U
    BY <1>2, <2>1, <2>2 DEF Turns
  <2> QED  BY <2>2, <2>3
<1>13. ExistsBijection(U, Turns(rest))
  <2> HIDE DEF f, U
  <2>1. f \in Injection(U, Turns(rest)) /\ f \in Surjection(U, Turns(rest))
    BY <1>10, <1>11, <1>12 DEF Injection, IsInjective, Surjection
  <2>2. f \in Bijection(U, Turns(rest))
    BY <2>1 DEF Bijection
  <2> QED  BY <2>2 DEF ExistsBijection
<1>14. Cardinality(Turns(rest)) = Cardinality(U)
  <2> HIDE DEF U
  <2> QED  BY <1>6, <1>13, FS_Bijection
<1> QED  BY <1>5, <1>14 DEF rest

\* The fold of any conversation: at most the turns to keep, or exactly those.
LEMMA FoldIsRight ==
  ASSUME NEW S, NEW q \in Seq(S)
  PROVE  LET rest == Folded(q, FoldEnd(q)) IN
         IF Cardinality(Turns(q)) > Kept
         THEN rest[1].role = "user" /\ Cardinality(Turns(rest)) = Kept
         ELSE rest = q
<1> DEFINE T == Turns(q)
           first(n) == {i \in T : Cardinality({j \in T : j < i}) = n}
<1>1. Kept \in Nat \ {0}
  BY KeepTurnsAssumption DEF Kept
<1>2. PICK b \in Nat : b = Len(q) /\ DOMAIN q = 1..b
  OBVIOUS
<1>3. T \in SUBSET (1..b) /\ IsFiniteSet(T)
  <2>1. T \in SUBSET (1..b)
    BY <1>2 DEF Turns
  <2>2. IsFiniteSet(1..b)
    BY FS_Interval
  <2> QED  BY <2>1, <2>2, FS_Subset
<1>4. PICK c \in Nat : c = Cardinality(T)
  BY <1>3, FS_CardinalityType
<1>5. CASE c > Kept
  <2>1. PICK n \in Nat : n = c - Kept /\ n > 0 /\ c > n
    BY <1>1, <1>5
  <2>2. PICK k \in T : Cardinality(Below(T, k)) = n
    <3> HIDE DEF T
    <3>1. Cardinality(T) > n /\ T \in SUBSET (1..b)
      BY <1>3, <1>4, <2>1
    <3> QED  BY <3>1, NthExists
  <2>3. first(n) # {}
    BY <2>2 DEF Below
  <2>4. PICK i : i = CHOOSE x \in first(n) : TRUE
    OBVIOUS
  <2>5. i \in first(n)
    BY <2>3, <2>4
  <2>6. i \in T /\ i \in 1..b /\ Cardinality({j \in T : j < i}) = n
    BY <1>3, <2>5
  <2>7. FoldEnd(q) = i - 1
    <3>0. Cardinality(Turns(q)) - Kept = n
      BY <1>4, <2>1
    <3> DEFINE m == Cardinality(Turns(q)) - Kept
    <3>1. FoldEnd(q) = IF m <= 0 \/ first(m) = {} THEN 0 ELSE (CHOOSE x \in first(m) : TRUE) - 1
      BY Zenon DEF FoldEnd
    <3>2. ~(n <= 0)
      BY <2>1
    <3> HIDE DEF first
    <3> QED  BY <2>3, <2>4, <3>0, <3>1, <3>2
  <2>8. Folded(q, FoldEnd(q)) = SubSeq(q, i, Len(q))
    <3>1. (i - 1) + 1 = i
      BY <2>6
    <3> QED  BY <2>7, <3>1 DEF Folded
  <2>9. SubSeq(q, i, Len(q))[1] = q[i] /\ q[i].role = "user"
    BY <1>2, <2>6 DEF Turns
  <2>10. Cardinality({j \in T : ~(j < i)}) = Kept
    <3> DEFINE Past == {j \in T : j < i}
    <3>1. {j \in T : ~(j < i)} = T \ Past /\ T \cap Past = Past
      OBVIOUS
    <3>2. Cardinality(Past) = n
      BY <2>6
    <3> HIDE DEF T, Past
    <3>3. Cardinality(T \ Past) = c - n
      BY <1>3, <1>4, <3>1, <3>2, FS_Difference
    <3>4. c - n = Kept
      BY <1>1, <2>1
    <3> QED  BY <3>1, <3>3, <3>4
  <2>11. Cardinality(Turns(SubSeq(q, i, Len(q)))) = Kept
    BY <1>2, <2>6, <2>10, TurnsLeft
  <2> QED  BY <1>4, <1>5, <2>8, <2>9, <2>11
<1>6. CASE ~(c > Kept)
  <2>1. FoldEnd(q) = 0
    BY <1>1, <1>4, <1>6 DEF FoldEnd
  <2>2. Folded(q, FoldEnd(q)) = q
    BY <2>1 DEF Folded
  <2> QED  BY <1>4, <1>6, <2>2
<1> QED  BY <1>5, <1>6

\* Whatever the conversation, a fold keeps exactly the newest turns, from a user
\* message on, as soon as there is one to drop.
THEOREM FoldIsWhole == Spec => []FoldKeepsNewestTurns
<1> DEFINE Messages == [role : {"user", "assistant", "tool"}]
           Typed == msgs \in Seq(Messages)
<1>1. Init => Typed
  <2>1. <<>> \in Seq(Messages)
    OBVIOUS
  <2> QED  BY <2>1 DEF Init
<1>2. Typed /\ [Next]_<<scene, event, msgs, partVars>> => Typed'
  <2>1. [Next]_<<scene, event, msgs, partVars>> => Grow \/ UNCHANGED msgs
    BY DEF Next
  <2>2. \A role \in {"user", "assistant", "tool"} : [role |-> role] \in Messages
    OBVIOUS
  <2> HIDE DEF Messages
  <2> SUFFICES ASSUME msgs \in Seq(Messages), [Next]_<<scene, event, msgs, partVars>>
               PROVE  msgs' \in Seq(Messages)
    OBVIOUS
  <2>3. CASE Grow
    <3>1. PICK role \in {"user", "assistant", "tool"} : msgs' = Append(msgs, [role |-> role])
      BY <2>3 DEF Grow
    <3>2. PICK m \in Messages : m = [role |-> role]
      BY <2>2
    <3> QED  BY <3>1, <3>2
  <2>4. CASE UNCHANGED msgs
    BY <2>4
  <2> QED  BY <2>1, <2>3, <2>4
<1>3. Typed => FoldKeepsNewestTurns
  <2> HIDE DEF Messages
  <2> QED  BY FoldIsRight DEF FoldKeepsNewestTurns
<1> QED  BY <1>1, <1>2, <1>3, PTL DEF Spec

-----------------------------------------------------------------------------
(* The skills directory.                                                   *)

\* Whoever sees a step of the scene of the skills sees a step of SkillFiles.
LEMMA SkillStep ==
  ASSUME [Next]_<<scene, event, msgs, partVars>>
  PROVE  [Skills!Next]_skillVars
BY DEF Next, partVars, skillVars

\* What a damaged zip does to one directory.
Harmless(d, e) == /\ d.exists => e.exists
                  /\ d.res => e.res
                  /\ e.md # d.md => e.md \notin {Skills!NoMd, Skills!Torn}

\* Whatever is shipped, packed and written: a request that is refused for what it asks
\* has left every directory as it was, also an upload of which only one directory is
\* refused; and a zip that is damaged inside has taken no file away and cut none short.
THEOREM RefusalsWriteNothing == Spec => RefusedChangesNothing
<1>1. ASSUME [Skills!Next]_skillVars
      PROVE  [/\ answer' \in {"400", "404"} => UNCHANGED dir
              /\ answer' = "400 invalid zip" => \A n \in Names : Harmless(dir[n], dir'[n])]_skillVars
  <2> SUFFICES ASSUME Skills!Next
               PROVE  /\ answer' \in {"400", "404"} => UNCHANGED dir
                      /\ answer' = "400 invalid zip" => \A n \in Names : Harmless(dir[n], dir'[n])
    BY <1>1
  <2>1. CASE Skills!Sync \/ Skills!SyncDies \/ Skills!Stop
    <3>1. answer' = "none"
      BY <2>1 DEF Skills!Sync, Skills!SyncDies, Skills!Stop
    <3> QED  BY <3>1
  <2>2. ASSUME NEW pack \in Packs, Skills!Upload(pack)
        PROVE  answer' # "400 invalid zip" /\ (answer' \in {"400", "404"} => UNCHANGED dir)
    BY <2>2 DEF Skills!Upload
  <2>3. ASSUME NEW pack \in Packs, Skills!UploadFails(pack) PROVE answer' = "500"
    BY <2>3 DEF Skills!UploadFails
  <2>4. ASSUME NEW n \in Names, Skills!Delete(n)
        PROVE  answer' # "400 invalid zip" /\ (answer' \in {"400", "404"} => UNCHANGED dir)
    BY <2>4 DEF Skills!Delete, Skills!Deleted
  <2>5. ASSUME NEW n \in Names, Skills!PutFails(n) PROVE answer' = "500"
    BY <2>5 DEF Skills!PutFails
  <2>6. ASSUME NEW n \in Names, NEW body \in Bodies, Skills!Put(n, body)
        PROVE  answer' # "400 invalid zip" /\ (answer' \in {"400", "404"} => UNCHANGED dir)
    BY <2>6 DEF Skills!Put
  <2>7. ASSUME NEW pack \in Packs, Skills!UploadDamaged(pack)
        PROVE  answer' = "400 invalid zip" /\ \A n \in Names : Harmless(dir[n], dir'[n])
    <3>1. answer' = "400 invalid zip" /\ ~Skills!Rejected(pack)
      BY <2>7 DEF Skills!UploadDamaged
    <3>2. \A n \in DOMAIN pack : pack[n].md \notin {Skills!NoMd, Skills!Torn}
      BY <3>1, PacksAssumption DEF Skills!Rejected
    <3>3. PICK n \in DOMAIN pack : \E h \in Skills!UpToBadEntry(dir[n], pack[n]) :
            dir' = [m \in Names |-> IF m = n THEN h
                                    ELSE IF m \in DOMAIN pack /\ m < n THEN Skills!Merge(dir[m], pack[m])
                                    ELSE dir[m]]
      BY <2>7 DEF Skills!UploadDamaged
    <3>8. PICK half \in Skills!UpToBadEntry(dir[n], pack[n]) :
            dir' = [m \in Names |-> IF m = n THEN half
                                    ELSE IF m \in DOMAIN pack /\ m < n THEN Skills!Merge(dir[m], pack[m])
                                    ELSE dir[m]]
      BY <3>3
    <3>4. \A m \in DOMAIN pack : Harmless(dir[m], Skills!Merge(dir[m], pack[m]))
      BY <3>2 DEF Harmless, Skills!Merge, Skills!Dir
    <3>5. Harmless(dir[n], half)
      <4> DEFINE old == dir[n]
                 new == Skills!Merge(old, pack[n])
      <4>1. Harmless(old, new) /\ new.md \notin {Skills!NoMd, Skills!Torn}
        BY <3>2, <3>4 DEF Skills!Merge, Skills!Dir
      <4> HIDE DEF old, new
      <4>2. \/ \E res \in {old.res, new.res} : half = Skills!Dir(old.md, res)
            \/ \E md \in {old.md, new.md} : half = Skills!Dir(md, old.res)
        BY <3>8 DEF Skills!UpToBadEntry, old, new
      <4>3. \A md, res : /\ Skills!Dir(md, res).md = md /\ Skills!Dir(md, res).res = res
                         /\ Skills!Dir(md, res).exists
        BY DEF Skills!Dir
      <4>4. CASE \E res \in {old.res, new.res} : half = Skills!Dir(old.md, res)
        <5>1. PICK res \in {old.res, new.res} : half = Skills!Dir(old.md, res)
          BY <4>4
        <5>2. half.md = old.md /\ half.res = res /\ half.exists
          BY <4>3, <5>1
        <5>3. old.res => half.res
          BY <4>1, <5>1, <5>2, Zenon DEF Harmless
        <5> QED  BY <5>2, <5>3 DEF Harmless, old
      <4>5. CASE \E md \in {old.md, new.md} : half = Skills!Dir(md, old.res)
        <5>1. PICK md \in {old.md, new.md} : half = Skills!Dir(md, old.res)
          BY <4>5
        <5>2. half.md = md /\ half.res = old.res /\ half.exists
          BY <4>3, <5>1
        <5> QED  BY <4>1, <5>1, <5>2 DEF Harmless, old
      <4> QED  BY <4>2, <4>4, <4>5
    <3>6. \A m \in Names : Harmless(dir[m], dir[m])
      BY DEF Harmless
    <3> HIDE DEF Harmless
    <3>7. ASSUME NEW m \in Names PROVE Harmless(dir[m], dir'[m])
      <4>1. CASE m = n
        <5>1. dir'[m] = half
          BY <3>8, <4>1
        <5> QED  BY <3>5, <4>1, <5>1
      <4>2. CASE m # n /\ m \in DOMAIN pack /\ m < n
        <5>1. dir'[m] = Skills!Merge(dir[m], pack[m])
          BY <3>8, <4>2
        <5> QED  BY <3>4, <4>2, <5>1
      <4>3. CASE m # n /\ ~(m \in DOMAIN pack /\ m < n)
        <5>1. dir'[m] = dir[m]
          BY <3>8, <4>3
        <5> QED  BY <3>6, <5>1
      <4> QED  BY <4>1, <4>2, <4>3
    <3> QED  BY <3>1, <3>7
  <2> QED  BY <2>1, <2>2, <2>3, <2>4, <2>5, <2>6, <2>7 DEF Skills!Next
<1>2. [Next]_<<scene, event, msgs, partVars>>
        => [/\ answer' \in {"400", "404"} => UNCHANGED dir
            /\ answer' = "400 invalid zip" => \A n \in Names : Harmless(dir[n], dir'[n])]_skillVars
  BY <1>1, SkillStep
<1> QED  BY <1>2, PTL DEF Spec, RefusedChangesNothing, Skills!RefusedChangesNothing,
                          Skills!vars, skillVars, Harmless

\* Whatever is shipped: a start, also one whose copying fails, and whatever an
\* earlier one that died has left, changes no directory that is there.
THEOREM StartsKeepEdits == Spec => StartKeepsEdits
<1>1. ASSUME [Skills!Next]_skillVars
      PROVE  [~up => \A n \in Names : dir[n].exists => dir'[n] = dir[n]]_skillVars
  <2> SUFFICES ASSUME Skills!Next, ~up, NEW n \in Names, dir[n].exists
               PROVE  dir'[n] = dir[n]
    BY <1>1
  <2>1. CASE Skills!Sync
    <3>1. n \notin Skills!ToCopy
      BY DEF Skills!ToCopy
    <3>2. PICK copy \in Skills!Copies(Skills!ToCopy) :
            dir' = [m \in Names |-> IF m \in Skills!ToCopy THEN copy[m] ELSE dir[m]]
      BY <2>1 DEF Skills!Sync
    <3> QED  BY <3>1, <3>2
  <2>2. CASE Skills!SyncDies
    <3>1. n \notin Skills!ToCopy
      BY DEF Skills!ToCopy
    <3>2. PICK o \in Skills!ToCopy : \E half \in Skills!Failed(o) :
            \E copy \in Skills!Copies({m \in Skills!ToCopy : m < o}) :
              dir' = [m \in Names |-> IF m = o THEN half
                                      ELSE IF m \in DOMAIN copy THEN copy[m] ELSE dir[m]]
      BY <2>2 DEF Skills!SyncDies
    <3>6. PICK half \in Skills!Failed(o) :
            \E copy \in Skills!Copies({m \in Skills!ToCopy : m < o}) :
              dir' = [m \in Names |-> IF m = o THEN half
                                      ELSE IF m \in DOMAIN copy THEN copy[m] ELSE dir[m]]
      BY <3>2
    <3>3. PICK copy \in Skills!Copies({m \in Skills!ToCopy : m < o}) :
              dir' = [m \in Names |-> IF m = o THEN half
                                      ELSE IF m \in DOMAIN copy THEN copy[m] ELSE dir[m]]
      BY <3>6
    <3>4. DOMAIN copy = {m \in Skills!ToCopy : m < o}
      BY DEF Skills!Copies
    <3>5. n # o /\ n \notin DOMAIN copy
      BY <3>1, <3>2, <3>4
    <3> QED  BY <3>3, <3>5
  <2>3. ~Skills!Stop
    BY DEF Skills!Stop
  <2>4. \A pack \in Packs : ~Skills!Upload(pack) /\ ~Skills!UploadFails(pack) /\ ~Skills!UploadDamaged(pack)
    BY DEF Skills!Upload, Skills!UploadFails, Skills!UploadDamaged
  <2>5. \A m \in Names : ~Skills!Delete(m) /\ ~Skills!PutFails(m)
    BY DEF Skills!Delete, Skills!PutFails
  <2>6. \A m \in Names, body \in Bodies : ~Skills!Put(m, body)
    BY DEF Skills!Put
  <2> QED  BY <2>1, <2>2, <2>3, <2>4, <2>5, <2>6 DEF Skills!Next
<1>2. [Next]_<<scene, event, msgs, partVars>>
        => [~up => \A n \in Names : dir[n].exists => dir'[n] = dir[n]]_skillVars
  BY <1>1, SkillStep
<1> QED  BY <1>2, PTL DEF Spec, StartKeepsEdits, Skills!StartKeepsEdits, Skills!vars, skillVars

-----------------------------------------------------------------------------
(* The frames between the runtime and a channel.                           *)

\* Of an event: its kind is a type of frame, and every field is of its type.
LEMMA EventShape ==
  ASSUME NEW ev \in Events, ev # NoEvent
  PROVE  /\ ev.kind \in Types
         /\ ev = [kind |-> ev.kind, fields |-> ev.fields]
         /\ DOMAIN ev.fields = Fields(ev.kind)
         /\ ev.fields = [n \in Fields(ev.kind) |-> ev.fields[n]]
         /\ \A n \in Fields(ev.kind) : ev.fields[n] \in Values(n)
<1>1. PICK t \in Types : ev \in
        {[kind |-> t, fields |-> f] :
           f \in {g \in [Fields(t) -> States \cup {X, Binary, Empty, Null}] :
                    \A n \in DOMAIN g : g[n] \in Values(n)}}
  BY Zenon DEF Events, NoEvent
<1>2. PICK f \in [Fields(t) -> States \cup {X, Binary, Empty, Null}] :
        ev = [kind |-> t, fields |-> f] /\ \A n \in DOMAIN f : f[n] \in Values(n)
  BY <1>1, Zenon
<1>3. ev.kind = t /\ ev.fields = f
  BY <1>2
<1>4. DOMAIN f = Fields(t) /\ f = [n \in Fields(t) |-> f[n]]
  BY <1>2, Zenon
<1> QED  BY <1>2, <1>3, <1>4

\* Which fields are always written and which may be left out.
LEMMA WhatNamesAre ==
  /\ \A type \in Types : \A n \in Fields(type) : n # "session_key"
  /\ \A type \in Types : "state" \in Fields(type) <=> type = "status"
  /\ \A type \in Types : \A n \in Sometimes(type) : n \in {"trace_id", "turn_id", "model", "call_id"}
  /\ \A type \in Types : \A n \in Always(type) : n \notin {"trace_id", "turn_id", "model"}
  /\ \A type \in Types : "call_id" \in Sometimes(type) <=> type = "tool_start"
BY DEF Types, Fields, Always, Sometimes

\* What a frame's data may be: any of its fields, of their types or null.
Data(type) == UNION {[names -> States \cup Sessions \cup {X, Binary, Garbled, Empty, Null}] :
                       names \in SUBSET (Fields(type) \cup {"session_key"})}

\* None is no value of a field that must have one, no data and no frame.
LEMMA NoneIsNothing ==
  /\ Null # X /\ Null # Binary /\ Null # Garbled /\ Null # Empty /\ Null \notin States
  /\ \A t \in Types : Null \notin Data(t)
  /\ \A t \in Types : \A d \in Data(t) : [type |-> t, data |-> d] # Null
<1>1. \A t \in Types : Null \notin Data(t)
  BY NullAssumption, Zenon DEF Data
<1>2. ASSUME NEW t \in Types, NEW d \in Data(t) PROVE [type |-> t, data |-> d] # Null
  <2>1. Null \notin [type : {t}, data : Data(t)]
    BY NullAssumption, Zenon DEF Data
  <2> HIDE DEF Data
  <2> QED  BY <2>1
<1>3. Null \notin States \cup {X, Binary, Garbled, Empty}
  BY NullAssumption
<1> QED  BY <1>1, <1>2, <1>3

\* What is read of a field that is written, left out or null.
LEMMA ReadIs ==
  ASSUME NEW type \in Types, NEW d, NEW n \in Fields(type)
  PROVE  LET v == IF n \in DOMAIN d THEN d[n] ELSE Null IN
         /\ v # Null => Read(d, n) = v
         /\ v = Null => Read(d, n) = IF n \in {"trace_id", "turn_id", "model", "state"} THEN Null
                                     ELSE IF n = "result" THEN X ELSE Empty
BY Zenon DEF Read

\* The frame of an event.
FrameData(ev, sk) == [n \in (Fields(ev.kind) \ LeftOut(ev)) \cup {"session_key"} |->
                        IF n = "session_key" THEN sk ELSE Written(ev.fields[n])]

LEMMA FrameOf ==
  ASSUME NEW ev \in Events, ev # NoEvent, NEW sk \in Sessions \cup {X}
  PROVE  /\ ToFrame(ev, sk) = [type |-> ev.kind, data |-> FrameData(ev, sk)]
         /\ FrameData(ev, sk) \in Data(ev.kind)
         /\ ToFrame(ev, sk).data.session_key = sk
<1> DEFINE names == (Fields(ev.kind) \ LeftOut(ev)) \cup {"session_key"}
           All == States \cup Sessions \cup {X, Binary, Garbled, Empty, Null}
           d == FrameData(ev, sk)
<1>1. ev.kind \in Types /\ DOMAIN ev.fields = Fields(ev.kind)
  BY EventShape
<1>2. ToFrame(ev, sk) = [type |-> ev.kind, data |-> d]
  BY <1>1, Zenon DEF ToFrame, FrameData
<1>3. \A n \in names : (IF n = "session_key" THEN sk ELSE Written(ev.fields[n])) \in All
  <2> SUFFICES ASSUME NEW n \in Fields(ev.kind) PROVE Written(ev.fields[n]) \in All
    OBVIOUS
  <2>1. ev.fields[n] \in Values(n)
    BY EventShape
  <2>2. Values(n) \subseteq All
    BY DEF Values
  <2>3. ev.fields[n] \in All
    BY <2>1, <2>2
  <2> QED  BY <2>3 DEF Written
<1>4. d \in [names -> All]
  <2>1. d = [n \in names |-> IF n = "session_key" THEN sk ELSE Written(ev.fields[n])]
    BY DEF FrameData
  <2> HIDE DEF names, All, d
  <2> QED  BY <1>3, <2>1
<1>5. names \in SUBSET (Fields(ev.kind) \cup {"session_key"})
  OBVIOUS
<1>6. d \in Data(ev.kind)
  <2> HIDE DEF names, d
  <2> QED  BY <1>4, <1>5, Zenon DEF Data
<1>7. d.session_key = sk
  BY DEF FrameData
<1> QED  BY <1>2, <1>6, <1>7

\* An event is read back from its frame: a field that was left out is None or
\* empty again, and only bytes that are no text have changed.
LEMMA ReadBack ==
  ASSUME NEW ev \in Events, ev # NoEvent, NEW sk \in Sessions \cup {X}, NEW n \in Fields(ev.kind)
  PROVE  Read(ToFrame(ev, sk).data, n) = IF ev.fields[n] = Binary THEN Garbled ELSE ev.fields[n]
<1> DEFINE d == FrameData(ev, sk)
<1>1. ev.kind \in Types /\ ev.fields[n] \in Values(n)
  BY EventShape
<1>2. ToFrame(ev, sk).data = d
  BY FrameOf
<1>3. n # "session_key"
  BY <1>1, WhatNamesAre
<1>4. ev.fields[n] = Null => n \in {"trace_id", "turn_id", "model"}
  BY <1>1, NoneIsNothing DEF Values
<1>5. CASE n \in LeftOut(ev)
  <2>1. n \notin DOMAIN d
    BY <1>3, <1>5 DEF FrameData
  <2>2. ev.fields[n] = Null \/ (n = "call_id" /\ ev.fields[n] = Empty)
    BY <1>5 DEF LeftOut
  <2>3. Read(d, n) = IF n \in {"trace_id", "turn_id", "model", "state"} THEN Null
                     ELSE IF n = "result" THEN X ELSE Empty
    <3> HIDE DEF d
    <3> QED  BY <1>1, <2>1, ReadIs
  <2>4. Read(d, n) = ev.fields[n]
    BY <1>4, <2>2, <2>3
  <2>5. ev.fields[n] # Binary
    BY <2>2, NoneIsNothing DEF Binary, Empty
  <2> QED  BY <1>2, <2>4, <2>5
<1>6. CASE n \notin LeftOut(ev)
  <2>1. n \in DOMAIN d /\ d[n] = Written(ev.fields[n])
    BY <1>3, <1>6 DEF FrameData
  <2>2. ev.fields[n] # Null
    <3> SUFFICES ASSUME ev.fields[n] = Null PROVE FALSE
      OBVIOUS
    <3>1. n \notin Always(ev.kind)
      BY <1>1, <1>4, WhatNamesAre
    <3> QED  BY <1>6, <3>1 DEF LeftOut, Fields
  <2>3. Written(ev.fields[n]) # Null
    BY <2>2, NoneIsNothing DEF Written
  <2>4. Read(d, n) = Written(ev.fields[n])
    <3> HIDE DEF d
    <3> QED  BY <1>1, <2>1, <2>3, ReadIs
  <2> QED  BY <1>2, <2>4 DEF Written
<1> QED  BY <1>5, <1>6

\* Whatever the sessions: every event of the loop is read back as it was, but
\* for bytes that are no text, also out of the frame of a task.
THEOREM EventsAreReadBack == Spec => []EventsSurviveTheWire
<1>1. ASSUME NEW ev \in Events, ev # NoEvent, NEW sk \in Sessions
      PROVE  LET frame == ToFrame(ev, sk)
                 same  == [ev EXCEPT !.fields =
                             [n \in DOMAIN @ |-> IF @[n] = Binary THEN Garbled ELSE @[n]]]
             IN  /\ frame # Null /\ frame.data.session_key = sk
                 /\ FromFrame(frame) = same
  <2> DEFINE frame == ToFrame(ev, sk)
             back == [n \in Fields(ev.kind) |-> IF ev.fields[n] = Binary THEN Garbled ELSE ev.fields[n]]
  <2>1. ev.kind \in Types /\ ev = [kind |-> ev.kind, fields |-> ev.fields]
        /\ DOMAIN ev.fields = Fields(ev.kind)
    BY <1>1, EventShape
  <2>2. frame = [type |-> ev.kind, data |-> FrameData(ev, sk)]
        /\ FrameData(ev, sk) \in Data(ev.kind) /\ frame.data.session_key = sk
    BY <1>1, FrameOf
  <2>3. frame # Null /\ frame.data # Null /\ frame.type = ev.kind
    <3>1. [type |-> ev.kind, data |-> FrameData(ev, sk)] # Null /\ FrameData(ev, sk) # Null
      BY <2>1, <2>2, NoneIsNothing
    <3> HIDE DEF frame
    <3> QED  BY <2>2, <3>1
  <2>4. \A n \in Fields(ev.kind) : Read(frame.data, n) = back[n]
    BY <1>1, ReadBack
  <2>5. [n \in Fields(ev.kind) |-> Read(frame.data, n)] = back
    <3>1. back = [n \in Fields(ev.kind) |-> back[n]]
      OBVIOUS
    <3> HIDE DEF frame, back
    <3> QED  BY <2>4, <3>1
  <2>6. ev.kind = "status" => Read(frame.data, "state") \in States
    <3> SUFFICES ASSUME ev.kind = "status" PROVE Read(frame.data, "state") \in States
      OBVIOUS
    <3>1. "state" \in Fields(ev.kind)
      BY <2>1, WhatNamesAre
    <3>2. ev.fields["state"] \in States
      <4>1. ev.fields["state"] \in Values("state")
        BY <1>1, <3>1, EventShape
      <4> QED  BY <4>1 DEF Values
    <3>3. ev.fields["state"] # Binary
      BY <3>2 DEF States, Binary
    <3> QED  BY <2>4, <3>1, <3>2, <3>3
  <2>7. FromFrame(frame) = [kind |-> ev.kind, fields |-> back]
    <3> HIDE DEF frame, back
    <3> QED  BY <2>1, <2>2, <2>3, <2>5, <2>6 DEF FromFrame
  <2>8. [ev EXCEPT !.fields = [n \in DOMAIN @ |-> IF @[n] = Binary THEN Garbled ELSE @[n]]]
          = [kind |-> ev.kind, fields |-> back]
    BY <2>1
  <2> QED  BY <2>2, <2>3, <2>7, <2>8
<1>2. ASSUME NEW sk \in Sessions
      PROVE  ToFrame(NoEvent, sk) = Null /\ TaskEventFrame(NoEvent, sk, X) = Null
  BY DEF ToFrame, TaskEventFrame, NoEvent, Types
<1>3. ASSUME NEW ev, NEW sk \in Sessions, ToFrame(ev, sk) # Null
      PROVE  TaskEventFrame(ev, sk, X).data.event = ToFrame(ev, sk)
  BY <1>3 DEF TaskEventFrame
<1>4. EventsSurviveTheWire
  <2> SUFFICES ASSUME event \in Events, NEW sk \in Sessions
               PROVE  LET frame == ToFrame(event, sk)
                          same  == [event EXCEPT !.fields =
                                     [n \in DOMAIN @ |-> IF @[n] = Binary THEN Garbled ELSE @[n]]]
                      IN  IF event = NoEvent THEN frame = Null /\ TaskEventFrame(event, sk, X) = Null
                          ELSE /\ frame.data.session_key = sk
                               /\ FromFrame(frame) = same
                               /\ FromFrame(TaskEventFrame(event, sk, X).data.event) = same
    BY Zenon DEF EventsSurviveTheWire, OutEvent
  <2> QED  BY <1>1, <1>2, <1>3
<1> QED  BY <1>4, PTL

\* A frame whose fields are those kept, of them the nulls without a value, is
\* read as a well-formed event, or as none.
ReadSafely(ev, sk, kept, nulls) ==
  LET data == ToFrame(ev, sk).data
      got2 == FromFrame([type |-> ev.kind,
                         data |-> [n \in kept |-> IF n \in nulls THEN Null ELSE data[n]]])
  IN  IF ev.kind = "status" /\ ("state" \notin kept \/ "state" \in nulls) THEN got2 = Null
      ELSE \A n \in DOMAIN ev.fields : got2.fields[n] \in Values(n) \cup {Garbled}

\* Whatever fields are left out or null: the reader makes of a frame a
\* well-formed event, or none of a status whose state it cannot read.
THEOREM DamagedFramesAreSafe == Spec => []DamagedFramesAreRead
<1>1. ASSUME NEW ev \in Events, ev # NoEvent, NEW sk \in Sessions \cup {X},
             NEW kept \in SUBSET DOMAIN ToFrame(ev, sk).data, NEW nulls \in {{}, kept}
      PROVE  ReadSafely(ev, sk, kept, nulls)
  <2> DEFINE data == ToFrame(ev, sk).data
             d == [n \in kept |-> IF n \in nulls THEN Null ELSE data[n]]
             All == States \cup Sessions \cup {X, Binary, Garbled, Empty, Null}
  <2>1. ev.kind \in Types /\ DOMAIN ev.fields = Fields(ev.kind)
    BY <1>1, EventShape
  <2>2. PICK names \in SUBSET (Fields(ev.kind) \cup {"session_key"}) : data \in [names -> All]
    <3>1. data \in Data(ev.kind)
      <4>1. data = FrameData(ev, sk) /\ FrameData(ev, sk) \in Data(ev.kind)
        BY <1>1, FrameOf
      <4> QED  BY <4>1
    <3> HIDE DEF data
    <3> QED  BY <3>1, Zenon DEF Data
  <2>3. kept \in SUBSET (Fields(ev.kind) \cup {"session_key"}) /\ d \in [kept -> All]
    <3>1. kept \subseteq names
      BY <2>2
    <3> HIDE DEF data
    <3> QED  BY <2>2, <3>1
  <2>4. d # Null
    <3>1. d \in Data(ev.kind)
      <4> HIDE DEF d
      <4> QED  BY <2>3, Zenon DEF Data
    <3> HIDE DEF d
    <3> QED  BY <2>1, <3>1, NoneIsNothing
  <2>5. ASSUME NEW n \in Fields(ev.kind), n \in kept, n \notin nulls
        PROVE  d[n] \in Values(n) \cup {Garbled} /\ (n = "state" => d[n] \in States)
    <3>1. n # "session_key" /\ ev.fields[n] \in Values(n)
      BY <1>1, <2>1, WhatNamesAre, EventShape
    <3>2. data[n] = Written(ev.fields[n])
      <4>1. data = FrameData(ev, sk)
        BY <1>1, FrameOf
      <4>2. n \in DOMAIN FrameData(ev, sk)
        BY <4>1, <2>5
      <4> HIDE DEF data
      <4> QED  BY <3>1, <4>1, <4>2 DEF FrameData
    <3>3. d[n] = Written(ev.fields[n])
      <4> HIDE DEF data
      <4> QED  BY <2>5, <3>2
    <3>4. n = "state" => ev.fields[n] \in States /\ ev.fields[n] # Binary
      <4>1. Values("state") = States /\ Binary \notin States
        BY DEF Values, States, Binary
      <4> QED  BY <3>1, <4>1
    <3> HIDE DEF d
    <3> QED  BY <3>1, <3>3, <3>4 DEF Written
  <2>6. ASSUME NEW n \in Fields(ev.kind), n \in kept, n \notin nulls
        PROVE  d[n] # Null \/ n \in {"trace_id", "turn_id", "model"}
    <3>1. Null # Garbled /\ (n \notin {"trace_id", "turn_id", "model"} => Null \notin Values(n))
      BY NoneIsNothing DEF Values
    <3> HIDE DEF d
    <3> QED  BY <2>5, <2>6, <3>1
  <2>7. ASSUME NEW n \in Fields(ev.kind), n \notin kept \/ n \in nulls
        PROVE  Read(d, n) = IF n \in {"trace_id", "turn_id", "model", "state"} THEN Null
                            ELSE IF n = "result" THEN X ELSE Empty
    <3>1. (IF n \in DOMAIN d THEN d[n] ELSE Null) = Null
      <4> HIDE DEF data
      <4> QED  BY <2>7
    <3> HIDE DEF d
    <3> QED  BY <2>1, <3>1, ReadIs
  <2>8. ASSUME NEW n \in Fields(ev.kind), n \in kept, n \notin nulls
        PROVE  Read(d, n) = d[n]
    <3>1. n \in DOMAIN d
      BY <2>8
    <3> HIDE DEF d
    <3> QED  BY <2>1, <2>6, <2>8, <3>1, ReadIs
  <2>9. ASSUME NEW n \in Fields(ev.kind), n # "state" \/ ~(n \notin kept \/ n \in nulls)
        PROVE  Read(d, n) \in Values(n) \cup {Garbled}
    <3>1. CASE n \in kept /\ n \notin nulls
      <4> HIDE DEF d
      <4> QED  BY <2>5, <2>8, <3>1
    <3>2. CASE n \notin kept \/ n \in nulls
      <4>1. Null \in Values("trace_id") /\ Null \in Values("turn_id") /\ Null \in Values("model")
            /\ X \in Values("result")
        BY DEF Values
      <4>2. n \notin {"trace_id", "turn_id", "model", "state", "result"} => Empty \in Values(n)
        BY DEF Values
      <4> HIDE DEF d
      <4> QED  BY <2>7, <2>9, <3>2, <4>1, <4>2
    <3> QED  BY <3>1, <3>2
  <2>10. "state" \in Fields(ev.kind) <=> ev.kind = "status"
    BY <2>1, WhatNamesAre
  <2>11. CASE ev.kind = "status" /\ ("state" \notin kept \/ "state" \in nulls)
    <3>1. Read(d, "state") = Null
      <4> HIDE DEF d
      <4> QED  BY <2>7, <2>10, <2>11
    <3>2. FromFrame([type |-> ev.kind, data |-> d]) = Null
      <4> HIDE DEF d
      <4> QED  BY <2>11, <3>1, NoneIsNothing DEF FromFrame
    <3> QED  BY <2>11, <3>2, Zenon DEF ReadSafely
  <2>12. CASE ~(ev.kind = "status" /\ ("state" \notin kept \/ "state" \in nulls))
    <3>1. ev.kind = "status" => Read(d, "state") \in States
      <4> HIDE DEF d
      <4> QED  BY <2>5, <2>8, <2>10, <2>12
    <3>2. FromFrame([type |-> ev.kind, data |-> d])
            = [kind |-> ev.kind, fields |-> [n \in Fields(ev.kind) |-> Read(d, n)]]
      <4> HIDE DEF d
      <4> QED  BY <2>1, <2>4, <3>1 DEF FromFrame
    <3>3. \A n \in Fields(ev.kind) : Read(d, n) \in Values(n) \cup {Garbled}
      <4> HIDE DEF d
      <4> QED  BY <2>9, <2>10, <2>12
    <3>4. \A n \in Fields(ev.kind) :
            FromFrame([type |-> ev.kind, data |-> d]).fields[n] \in Values(n) \cup {Garbled}
      <4> HIDE DEF d
      <4> QED  BY <3>2, <3>3
    <3> QED  BY <2>1, <2>12, <3>4, Zenon DEF ReadSafely
  <2> QED  BY <2>11, <2>12
<1>2. DamagedFramesAreRead
  <2> SUFFICES ASSUME event \in Events, event # NoEvent,
                      NEW kept \in SUBSET DOMAIN ToFrame(event, X).data, NEW nulls \in {{}, kept}
               PROVE  ReadSafely(event, X, kept, nulls)
    BY Zenon DEF DamagedFramesAreRead, OutEvent, ReadSafely
  <2>1. X \in Sessions \cup {X}
    OBVIOUS
  <2> QED  BY <1>1, <2>1
<1> QED  BY <1>2, PTL

-----------------------------------------------------------------------------
(* Joining sequences: the recursive function inside FlattenSeq unrolls.    *)

\* The function inside FlattenSeq.
Unrolled(s) ==
  CHOOSE f : f = [i \in 1..Len(s) |-> IF i = 1 THEN s[i] ELSE f[i - 1] \o s[i]]

\* The first n sequences of s, joined.
Joined(s, n) == IF n = 0 THEN <<>> ELSE Unrolled(s)[n]

\* The function inside FlattenSeq exists.
LEMMA Unrolls ==
  ASSUME NEW S, NEW s \in Seq(Seq(S))
  PROVE  /\ Unrolled(s) \in [1..Len(s) -> Seq(S)]
         /\ \A i \in 1..Len(s) :
              Unrolled(s)[i] = IF i = 1 THEN s[i] ELSE Unrolled(s)[i - 1] \o s[i]
<1>0. Len(s) \in Nat /\ \A i \in 1..Len(s) : s[i] \in Seq(S)
  OBVIOUS
<1> DEFINE Is(f, n) == /\ f \in [1..n -> Seq(S)]
                       /\ \A i \in 1..n : f[i] = IF i = 1 THEN s[i] ELSE f[i - 1] \o s[i]
           E == {n \in 0..Len(s) : ~\E f : Is(f, n)}
<1>1. E = {}
  <2> SUFFICES ASSUME E # {} PROVE FALSE
    OBVIOUS
  <2>1. E \in SUBSET Nat
    OBVIOUS
  <2>2. PICK n \in E : \A k \in E : n <= k
    <3> HIDE DEF E
    <3> QED  BY <2>1, LeastExists
  <2>3. n \in 0..Len(s) /\ ~\E f : Is(f, n)
    OBVIOUS
  <2>4. n # 0
    <3>1. Is([i \in 1..0 |-> <<>>], 0)
      OBVIOUS
    <3> QED  BY <3>1, <2>3
  <2>5. n - 1 \in 0..Len(s) /\ n \in 1..Len(s) /\ n - 1 < n /\ n \in Nat
    BY <1>0, <2>3, <2>4
  <2>6. n - 1 \notin E
    <3> HIDE DEF E
    <3> QED  BY <2>2, <2>5
  <2>7. PICK g : Is(g, n - 1)
    BY <2>5, <2>6
  <2> DEFINE last == IF n = 1 THEN s[n] ELSE g[n - 1] \o s[n]
             f == [i \in 1..n |-> IF i = n THEN last ELSE g[i]]
  <2>8. \A i \in 1..n : i # n => i \in 1..(n - 1)
    BY <2>5
  <2>9. last \in Seq(S)
    <3>1. n # 1 => n - 1 \in 1..(n - 1)
      BY <2>5
    <3>2. s[n] \in Seq(S)
      BY <1>0, <2>5
    <3>3. n # 1 => g[n - 1] \in Seq(S)
      BY <3>1, <2>7
    <3> QED  BY <3>2, <3>3, ConcatProperties
  <2>10. f \in [1..n -> Seq(S)]
    <3> HIDE DEF last
    <3> QED  BY <2>7, <2>8, <2>9
  <2>11. \A i \in 1..n : f[i] = IF i = 1 THEN s[i] ELSE f[i - 1] \o s[i]
    <3> SUFFICES ASSUME NEW i \in 1..n PROVE f[i] = IF i = 1 THEN s[i] ELSE f[i - 1] \o s[i]
      OBVIOUS
    <3>1. i # 1 => i - 1 \in 1..n /\ i - 1 # n
      BY <2>5
    <3>2. i # 1 => f[i - 1] = g[i - 1]
      BY <3>1
    <3>3. CASE i = n
      BY <3>2, <3>3
    <3>4. CASE i # n
      <4>1. f[i] = g[i] /\ i \in 1..(n - 1)
        BY <3>4, <2>8
      <4> HIDE DEF f
      <4> QED  BY <4>1, <3>2, <2>7
    <3> QED  BY <3>3, <3>4
  <2>12. Is(f, n)
    BY <2>10, <2>11
  <2> QED  BY <2>3, <2>12
<1>2. PICK f : Is(f, Len(s))
  <2>1. Len(s) \in 0..Len(s)
    BY <1>0
  <2> QED  BY <1>1, <2>1
<1>3. f = [i \in 1..Len(s) |-> IF i = 1 THEN s[i] ELSE f[i - 1] \o s[i]]
  BY <1>2
<1>4. Unrolled(s) = [i \in 1..Len(s) |-> IF i = 1 THEN s[i] ELSE Unrolled(s)[i - 1] \o s[i]]
  BY <1>3, Zenon DEF Unrolled
<1> DEFINE u == Unrolled(s)
<1>5. u = [i \in 1..Len(s) |-> IF i = 1 THEN s[i] ELSE u[i - 1] \o s[i]]
  BY <1>4
<1> HIDE DEF u
<1>6. \A i \in 1..Len(s) : u[i] = IF i = 1 THEN s[i] ELSE u[i - 1] \o s[i]
  BY <1>5
<1>7. DOMAIN u = 1..Len(s)
  BY <1>5
<1>8. \A i \in 1..Len(s) : u[i] \in Seq(S)
  <2> DEFINE B == {i \in 1..Len(s) : u[i] \notin Seq(S)}
  <2> SUFFICES ASSUME B # {} PROVE FALSE
    OBVIOUS
  <2>1. B \in SUBSET Nat
    OBVIOUS
  <2>2. PICK n \in B : \A k \in B : n <= k
    <3> HIDE DEF B
    <3> QED  BY <2>1, LeastExists
  <2>3. n \in 1..Len(s) /\ s[n] \in Seq(S)
    BY <1>0
  <2>4. n # 1
    BY <1>6, <2>3
  <2>5. n - 1 \in 1..Len(s) /\ ~(n <= n - 1)
    BY <2>3, <2>4
  <2>6. u[n - 1] \in Seq(S)
    BY <2>2, <2>5
  <2>7. u[n] = u[n - 1] \o s[n]
    BY <1>6, <2>3, <2>4
  <2> QED  BY <2>3, <2>6, <2>7, ConcatProperties
<1>9. u = [i \in 1..Len(s) |-> u[i]]
  BY <1>5, <1>7
<1>10. u \in [1..Len(s) -> Seq(S)]
  BY <1>8, <1>9
<1> QED  BY <1>6, <1>10 DEF u

\* FlattenSeq joins one sequence after the other.
LEMMA Joins ==
  ASSUME NEW S, NEW s \in Seq(Seq(S))
  PROVE  /\ FlattenSeq(s) = Joined(s, Len(s))
         /\ Joined(s, 0) = <<>>
         /\ \A n \in 0..Len(s) : Joined(s, n) \in Seq(S)
         /\ \A n \in 1..Len(s) : Joined(s, n) = Joined(s, n - 1) \o s[n]
<1>1. Len(s) \in Nat /\ \A i \in 1..Len(s) : s[i] \in Seq(S)
  OBVIOUS
<1>2. FlattenSeq(s) = Joined(s, Len(s))
  <2>1. CASE Len(s) = 0
    BY <2>1, EmptySeq DEF FlattenSeq, Joined
  <2>2. CASE Len(s) # 0
    BY <2>2 DEF FlattenSeq, Joined, Unrolled
  <2> QED  BY <2>1, <2>2
<1>3. Joined(s, 0) = <<>>
  BY DEF Joined
<1>4. \A n \in 0..Len(s) : n # 0 => Joined(s, n) = Unrolled(s)[n] /\ n \in 1..Len(s)
  BY <1>1 DEF Joined
<1>5. \A n \in 0..Len(s) : Joined(s, n) \in Seq(S)
  <2>1. Unrolled(s) \in [1..Len(s) -> Seq(S)]
    BY Unrolls
  <2> QED  BY <1>3, <1>4, <2>1, EmptySeq
<1>6. ASSUME NEW n \in 1..Len(s) PROVE Joined(s, n) = Joined(s, n - 1) \o s[n]
  <2>1. n \in 0..Len(s) /\ n - 1 \in 0..Len(s) /\ n # 0 /\ (n = 1 <=> n - 1 = 0)
    BY <1>1
  <2>2. Joined(s, n) = IF n = 1 THEN s[n] ELSE Unrolled(s)[n - 1] \o s[n]
    BY <1>4, <2>1, Unrolls
  <2>3. CASE n = 1
    <3>1. <<>> \o s[1] = s[1]
      BY <1>1, <2>3, ConcatEmptySeq
    <3> QED  BY <2>1, <2>2, <2>3, <1>3, <3>1
  <2>4. CASE n # 1
    BY <1>4, <2>1, <2>2, <2>4
  <2> QED  BY <2>3, <2>4
<1> QED  BY <1>2, <1>3, <1>5, <1>6

\* What is joined depends on the sequences that are joined, and empty ones add nothing.
LEMMA JoinedSame ==
  ASSUME NEW S, NEW s \in Seq(Seq(S)), NEW t \in Seq(Seq(S)),
         NEW n \in Nat, n <= Len(s), n <= Len(t), \A i \in 1..n : s[i] = t[i]
  PROVE  Joined(s, n) = Joined(t, n)
<1> DEFINE B == {k \in 0..n : Joined(s, k) # Joined(t, k)}
<1> SUFFICES ASSUME B # {} PROVE FALSE
  <2>1. n \in 0..n
    OBVIOUS
  <2> QED  BY <2>1
<1>0. Len(s) \in Nat /\ Len(t) \in Nat
  OBVIOUS
<1>1. B \in SUBSET Nat
  OBVIOUS
<1>2. PICK k \in B : \A j \in B : k <= j
  <2> HIDE DEF B
  <2> QED  BY <1>1, LeastExists
<1>3. k \in 0..n /\ Joined(s, k) # Joined(t, k)
  OBVIOUS
<1>4. k # 0
  BY <1>3, Joins
<1>5. k - 1 \in 0..n /\ ~(k <= k - 1) /\ k \in 1..n /\ k \in 1..Len(s) /\ k \in 1..Len(t)
  BY <1>0, <1>3, <1>4
<1>6. Joined(s, k - 1) = Joined(t, k - 1)
  BY <1>2, <1>5
<1>7. s[k] = t[k]
  BY <1>5
<1>8. Joined(s, k) = Joined(s, k - 1) \o s[k] /\ Joined(t, k) = Joined(t, k - 1) \o t[k]
  BY <1>5, Joins
<1> QED  BY <1>3, <1>6, <1>7, <1>8

LEMMA JoinedEmpty ==
  ASSUME NEW S, NEW s \in Seq(Seq(S)), NEW m \in Nat, NEW n \in Nat, m <= n, n <= Len(s),
         \A i \in (m + 1)..n : s[i] = <<>>
  PROVE  Joined(s, n) = Joined(s, m)
<1> DEFINE B == {k \in m..n : Joined(s, k) # Joined(s, m)}
<1> SUFFICES ASSUME B # {} PROVE FALSE
  <2>1. n \in m..n
    OBVIOUS
  <2> QED  BY <2>1
<1>0. Len(s) \in Nat
  OBVIOUS
<1>1. B \in SUBSET Nat
  OBVIOUS
<1>2. PICK k \in B : \A j \in B : k <= j
  <2> HIDE DEF B
  <2> QED  BY <1>1, LeastExists
<1>3. k \in m..n /\ Joined(s, k) # Joined(s, m)
  OBVIOUS
<1>4. k # m
  BY <1>3
<1>5. k - 1 \in m..n /\ ~(k <= k - 1) /\ k \in (m + 1)..n /\ k \in 1..Len(s) /\ k - 1 \in 0..Len(s)
  BY <1>0, <1>3, <1>4
<1>6. Joined(s, k - 1) = Joined(s, m)
  BY <1>2, <1>5
<1>7. Joined(s, k) = Joined(s, k - 1) \o <<>> /\ Joined(s, k - 1) \in Seq(S)
  BY <1>5, Joins
<1>8. Joined(s, k) = Joined(s, k - 1)
  BY <1>7, ConcatEmptySeq
<1> QED  BY <1>3, <1>6, <1>8

\* One more sequence is joined at the end.
LEMMA FlattenAppend ==
  ASSUME NEW S, NEW s \in Seq(Seq(S)), NEW x \in Seq(S)
  PROVE  /\ FlattenSeq(Append(s, x)) = FlattenSeq(s) \o x
         /\ FlattenSeq(s) \in Seq(S)
<1> DEFINE t == Append(s, x)
<1>1. /\ t \in Seq(Seq(S)) /\ Len(s) \in Nat /\ Len(t) = Len(s) + 1 /\ t[Len(s) + 1] = x
      /\ \A i \in 1..Len(s) : s[i] = t[i]
  OBVIOUS
<1> HIDE DEF t
<1>2. Len(t) \in 1..Len(t) /\ Len(t) - 1 = Len(s) /\ Len(s) <= Len(t) /\ Len(s) <= Len(s)
      /\ Len(s) \in 0..Len(s)
  BY <1>1
<1>3. FlattenSeq(t) = Joined(t, Len(s)) \o x
  BY <1>1, <1>2, Joins
<1>4. Joined(t, Len(s)) = Joined(s, Len(s))
  BY <1>1, <1>2, JoinedSame
<1>5. FlattenSeq(s) = Joined(s, Len(s)) /\ FlattenSeq(s) \in Seq(S)
  BY <1>2, Joins
<1> QED  BY <1>3, <1>4, <1>5 DEF t

\* Concatenation is associative.
LEMMA Regrouped ==
  ASSUME NEW u \in Seq(Nat), NEW v \in Seq(Nat), NEW w \in Seq(Nat)
  PROVE  (u \o v) \o w = u \o (v \o w)
<1> DEFINE l == (u \o v) \o w
           r == u \o (v \o w)
<1>1. u \o v \in Seq(Nat) /\ v \o w \in Seq(Nat)
  BY ConcatProperties
<1>2. l \in Seq(Nat) /\ r \in Seq(Nat)
  BY <1>1, ConcatProperties
<1>3. Len(u) \in Nat /\ Len(v) \in Nat /\ Len(w) \in Nat
  OBVIOUS
<1>4. Len(l) = Len(u) + Len(v) + Len(w) /\ Len(r) = Len(l)
  BY <1>1, <1>3
<1>5. \A i \in 1..Len(l) : l[i] = r[i]
  BY <1>1, <1>3
<1> HIDE DEF l, r
<1> QED  BY <1>2, <1>4, <1>5, SeqEqual DEF l, r
-----------------------------------------------------------------------------
(* A transcription: the cut of the audio, and the transcript.              *)

\* A length fills all of its chunks but the last, and the last is not empty.
LEMMA ChunksFill ==
  ASSUME NEW d \in Nat
  PROVE  /\ Asr!InChunks(d) \in Nat /\ d <= Asr!InChunks(d) * ChunkSec
         /\ Asr!InChunks(d) * ChunkSec < d + ChunkSec
<1> DEFINE q == d \div ChunkSec
           r == d % ChunkSec
           n == Asr!InChunks(d)
<1>1. ChunkSec \in Nat /\ ChunkSec > 0
  BY AudioAssumption
<1>2. q \in Nat /\ r \in Nat /\ r < ChunkSec /\ d = q * ChunkSec + r
  BY <1>1
<1>3. n = q + (IF r > 0 THEN 1 ELSE 0)
  BY DEF Asr!InChunks
<1> HIDE DEF q, r, n
<1>4. CASE r > 0
  <2>1. n \in Nat /\ n * ChunkSec = q * ChunkSec + ChunkSec
    BY <1>1, <1>2, <1>3, <1>4
  <2>2. q * ChunkSec \in Nat
    BY <1>1, <1>2
  <2> QED  BY <1>1, <1>2, <1>4, <2>1, <2>2 DEF n
<1>5. CASE ~(r > 0)
  <2>1. n = q /\ r = 0 /\ q * ChunkSec \in Nat
    BY <1>1, <1>2, <1>3, <1>5
  <2> QED  BY <1>1, <1>2, <2>1 DEF n
<1> QED  BY <1>4, <1>5

LEMMA Monotone ==
  ASSUME NEW x \in Nat, NEW y \in Nat, x <= y PROVE x * ChunkSec \in Nat /\ x * ChunkSec <= y * ChunkSec
<1>1. ChunkSec \in Nat
  BY AudioAssumption
<1>2. PICK k \in Nat : y = x + k
  <2>1. y - x \in Nat /\ y = x + (y - x)
    OBVIOUS
  <2> QED  BY <2>1
<1>3. y * ChunkSec = x * ChunkSec + k * ChunkSec
  BY <1>1, <1>2
<1>4. x * ChunkSec \in Nat /\ k * ChunkSec \in Nat /\ y * ChunkSec \in Nat
  BY <1>1, <1>2
<1> QED  BY <1>3, <1>4

\* How far chunks reach that follow each other.
ReachOf(s) == IF s = <<>> THEN 0 ELSE (Len(s) - 1) * ChunkSec + s[Len(s)]

LEMMA CutCovers ==
  ASSUME NEW says \in Durations, NEW has \in Durations
  PROVE  LET s == Asr!Cut(says, has) IN
         /\ Len(s) \in Nat /\ DOMAIN s = 1..Len(s)
         /\ \A i \in 1..Len(s) : i < Len(s) => s[i] = ChunkSec
         /\ says > ChunkSec => \A i \in 1..Len(s) : s[i] \in 1..ChunkSec
         /\ ReachOf(s) <= has
         /\ has <= says => ReachOf(s) = has
         /\ says <= has => says <= ReachOf(s)
<1>1. says \in Nat /\ has \in Nat /\ ChunkSec \in Nat /\ ChunkSec > 0
  BY AudioAssumption
<1>2. CASE says <= ChunkSec
  <2>1. Asr!Cut(says, has) = <<has>>
    BY <1>2 DEF Asr!Cut
  <2>2. Len(<<has>>) = 1 /\ DOMAIN <<has>> = 1..1 /\ <<has>>[1] = has /\ <<has>> # <<>>
    OBVIOUS
  <2>3. (1 - 1) * ChunkSec + has = has
    BY <1>1
  <2>4. ReachOf(<<has>>) = has
    BY <2>2, <2>3 DEF ReachOf
  <2>5. \A i \in 1..1 : ~(i < 1)
    OBVIOUS
  <2> QED  BY <1>1, <1>2, <2>1, <2>2, <2>4, <2>5
<1>3. CASE ~(says <= ChunkSec)
  <2> DEFINE a == Asr!InChunks(says)
             b == Asr!InChunks(has)
             n == IF a <= b THEN a ELSE b
             s == [i \in 1..n |-> IF i * ChunkSec <= has THEN ChunkSec ELSE has - (i - 1) * ChunkSec]
  <2>1. Asr!Cut(says, has) = s
    BY <1>3 DEF Asr!Cut
  <2>2. /\ a \in Nat /\ says <= a * ChunkSec /\ a * ChunkSec < says + ChunkSec
        /\ b \in Nat /\ has <= b * ChunkSec /\ b * ChunkSec < has + ChunkSec
    BY <1>1, ChunksFill
  <2> HIDE DEF a, b
  <2>3. n \in Nat /\ n <= a /\ n <= b /\ (n = a \/ n = b)
    BY <2>2
  <2>4. DOMAIN s = 1..n /\ Len(s) = n
    BY <2>3
  <2>5. \A x \in Nat \ {0} : (x - 1) * ChunkSec = x * ChunkSec - ChunkSec /\ x * ChunkSec \in Nat
    BY <1>1
  <2>6. \A i \in 1..n : i * ChunkSec \in Nat /\ i * ChunkSec - ChunkSec < has
    <3> SUFFICES ASSUME NEW i \in 1..n PROVE i * ChunkSec \in Nat /\ i * ChunkSec - ChunkSec < has
      OBVIOUS
    <3>1. i \in Nat /\ i <= b
      BY <2>2, <2>3
    <3>2. i * ChunkSec \in Nat /\ i * ChunkSec <= b * ChunkSec
      BY <2>2, <3>1, Monotone
    <3>3. b * ChunkSec \in Nat
      BY <1>1, <2>2
    <3> QED  BY <1>1, <2>2, <3>2, <3>3
  <2>7. \A i \in 1..n : /\ i * ChunkSec <= has => s[i] = ChunkSec
                        /\ ~(i * ChunkSec <= has) => s[i] = has - (i * ChunkSec - ChunkSec)
    <3>1. \A i \in 1..n : i \in Nat \ {0}
      BY <2>3
    <3> QED  BY <2>5, <3>1
  <2>8. ASSUME NEW i \in 1..n, i < n PROVE s[i] = ChunkSec
    <3>1. i \in Nat \ {0} /\ i + 1 \in 1..n /\ i + 1 \in Nat
      BY <2>3, <2>8
    <3>2. (i + 1) * ChunkSec - ChunkSec = i * ChunkSec
      BY <1>1, <3>1
    <3>3. i * ChunkSec < has
      BY <2>6, <3>1, <3>2
    <3>4. i * ChunkSec \in Nat
      BY <2>6
    <3> QED  BY <1>1, <2>7, <3>3, <3>4
  <2>9. ASSUME NEW i \in 1..n PROVE s[i] \in 1..ChunkSec
    <3> DEFINE m == i * ChunkSec
    <3>1. m \in Nat /\ m - ChunkSec < has
      BY <2>6
    <3>2. (m <= has => s[i] = ChunkSec) /\ (~(m <= has) => s[i] = has - (m - ChunkSec))
      BY <2>7
    <3> HIDE DEF m, s
    <3>3. CASE m <= has
      BY <1>1, <3>2, <3>3
    <3>4. CASE ~(m <= has)
      BY <1>1, <3>1, <3>2, <3>4
    <3> QED  BY <3>3, <3>4
  <2>10. n # 0 => /\ ReachOf(s) = n * ChunkSec - ChunkSec + s[n]
                  /\ n * ChunkSec \in Nat
    <3>1. n # 0 => n \in Nat \ {0} /\ s # <<>>
      BY <2>3, <2>4
    <3> HIDE DEF s, n
    <3> QED  BY <2>4, <2>5, <3>1 DEF ReachOf
  <2>11. n = 0 => ReachOf(s) = 0
    <3>1. n = 0 => s = <<>>
      OBVIOUS
    <3> HIDE DEF s, n
    <3> QED  BY <3>1 DEF ReachOf
  <2>12. n # 0 => ReachOf(s) = IF n * ChunkSec <= has THEN n * ChunkSec ELSE has
    <3> SUFFICES ASSUME n # 0 PROVE ReachOf(s) = IF n * ChunkSec <= has THEN n * ChunkSec ELSE has
      OBVIOUS
    <3> DEFINE m == n * ChunkSec
    <3>1. n \in 1..n
      BY <2>3
    <3>2. (m <= has => s[n] = ChunkSec) /\ (~(m <= has) => s[n] = has - (m - ChunkSec))
      BY <2>7, <3>1
    <3>3. m \in Nat /\ ReachOf(s) = m - ChunkSec + s[n]
      BY <2>10
    <3> HIDE DEF m, s, n
    <3>4. ReachOf(s) = IF m <= has THEN m ELSE has
      BY <1>1, <3>2, <3>3
    <3> QED  BY <3>4 DEF m
  <2>13. n * ChunkSec \in Nat /\ a * ChunkSec \in Nat /\ b * ChunkSec \in Nat /\ (n = 0 => n * ChunkSec = 0)
    BY <1>1, <2>2, <2>3
  <2>14. has <= says => n = b
    <3> SUFFICES ASSUME has <= says, a < b PROVE FALSE
      BY <2>2
    <3>1. a + 1 \in Nat /\ a + 1 <= b
      BY <2>2
    <3>2. (a + 1) * ChunkSec <= b * ChunkSec
      BY <2>2, <3>1, Monotone
    <3>3. (a + 1) * ChunkSec = a * ChunkSec + ChunkSec
      BY <1>1, <2>2
    <3> QED  BY <1>1, <2>2, <2>13, <3>2, <3>3
  <2>15. says <= has => n = a
    <3> SUFFICES ASSUME says <= has, b < a PROVE FALSE
      BY <2>2
    <3>1. b + 1 \in Nat /\ b + 1 <= a
      BY <2>2
    <3>2. (b + 1) * ChunkSec <= a * ChunkSec
      BY <2>2, <3>1, Monotone
    <3>3. (b + 1) * ChunkSec = b * ChunkSec + ChunkSec
      BY <1>1, <2>2
    <3> QED  BY <1>1, <2>2, <2>13, <3>2, <3>3
  <2> HIDE DEF s, n
  <2>16. ReachOf(s) = IF n * ChunkSec <= has THEN n * ChunkSec ELSE has
    BY <1>1, <2>11, <2>12, <2>13
  <2>17. /\ ReachOf(s) <= has
         /\ has <= says => ReachOf(s) = has
         /\ says <= has => says <= ReachOf(s)
    <3> DEFINE m == n * ChunkSec
    <3>1. m \in Nat /\ (has <= says => has <= m) /\ (says <= has => says <= m)
      BY <2>2, <2>13, <2>14, <2>15
    <3>2. ReachOf(s) = IF m <= has THEN m ELSE has
      BY <2>16
    <3> HIDE DEF m
    <3> QED  BY <1>1, <3>1, <3>2
  <2> QED  BY <2>1, <2>3, <2>4, <2>8, <2>9, <2>17
<1> QED  BY <1>2, <1>3

\* The chunks are those of the job's own audio.
Cuts == \/ phase \in {"cutting", "failed"}
        \/ audio.says \in Durations /\ audio.has \in Durations /\ lens = Asr!Cut(audio.says, audio.has)

LEMMA CutPart == Spec => []Cuts
<1>1. Init => Cuts
  BY DEF Init, Asr!Init, Cuts
<1>2. Cuts /\ [Next]_<<scene, event, msgs, partVars>> => Cuts'
  <2>1. ASSUME Cuts, Asr!Next PROVE Cuts'
    <3>1. CASE Asr!Split
      BY <3>1 DEF Asr!Split, Cuts, Asr!Cut, Asr!InChunks
    <3>2. CASE Asr!SplitFails
      BY <3>2 DEF Asr!SplitFails, Cuts
    <3>3. CASE Asr!Assemble
      BY <2>1, <3>3 DEF Asr!Assemble, Cuts, Asr!Cut, Asr!InChunks
    <3>4. CASE \E c \in Asr!Chunks : Asr!Job(c)
      <4>1. UNCHANGED <<phase, audio, lens>>
        BY <3>4 DEF Asr!Job, Asr!Acquire, Asr!PartialResponse, Asr!LastResponse, Asr!LastIsError,
           Asr!Timeout, Asr!Finish, Asr!Breaks, Asr!Garbled, Asr!Retry, Asr!job
      <4> QED  BY <2>1, <4>1 DEF Cuts, Asr!Cut, Asr!InChunks
    <3> QED  BY <2>1, <3>1, <3>2, <3>3, <3>4 DEF Asr!Next
  <2>2. [Next]_<<scene, event, msgs, partVars>> => Asr!Next \/ UNCHANGED asrVars
    BY DEF Next, partVars
  <2>3. ASSUME Cuts, UNCHANGED asrVars PROVE Cuts'
    BY <2>3 DEF asrVars, Cuts, Asr!Cut, Asr!InChunks
  <2> QED  BY <2>1, <2>2, <2>3
<1> QED  BY <1>1, <1>2, PTL DEF Spec

\* Whatever the length of the audio, of the chunks and the one ffprobe tells: the chunks
\* follow each other without a gap and reach the end of their audio, or at least the end
\* ffprobe has told of (asr.py 160-189).
THEOREM CutsCoverAudio == Spec => []CutIsWhole
<1>1. Cuts => CutIsWhole
  <2> SUFFICES ASSUME audio.says \in Durations, audio.has \in Durations,
                      lens = Asr!Cut(audio.says, audio.has)
               PROVE  CutIsWhole
    BY DEF Cuts, CutIsWhole, Asr!CutIsWhole
  <2>1. Asr!Reach = ReachOf(lens)
    BY DEF Asr!Reach, ReachOf
  <2> DEFINE says == audio.says
             has == audio.has
  <2>2. /\ Len(lens) \in Nat /\ DOMAIN lens = 1..Len(lens)
        /\ \A i \in 1..Len(lens) : i < Len(lens) => lens[i] = ChunkSec
        /\ says > ChunkSec => \A i \in 1..Len(lens) : lens[i] \in 1..ChunkSec
        /\ ReachOf(lens) <= has
        /\ has <= says => ReachOf(lens) = has
        /\ says <= has => says <= ReachOf(lens)
    BY CutCovers
  <2> QED  BY <2>1, <2>2 DEF CutIsWhole, Asr!CutIsWhole, Asr!Chunks
<1> QED  BY <1>1, CutPart, PTL

\* What can be said of the first k texts, joined: one for each chunk that has one,
\* in order.
LEMMA Transcribed ==
  ASSUME NEW n \in Nat, NEW part \in [1..n -> {"none", "part", "whole", "failed"}]
  PROVE  LET t == [c \in 1..n |-> Asr!TextOf(c, part[c])]
             r == Asr!FlattenSeq(t)
         IN  /\ \A i, j \in DOMAIN r : i < j => r[i].chunk < r[j].chunk
             /\ \A c \in 1..n : part[c] # "none" =>
                  \E i \in DOMAIN r : r[i].chunk = c /\ r[i].part = part[c]
<1> DEFINE S == [chunk : Nat, part : {"none", "part", "whole", "failed"}]
           t == [c \in 1..n |-> Asr!TextOf(c, part[c])]
           one(c) == <<[chunk |-> c, part |-> part[c]]>>
           J(k) == Joined(t, k)
           Good(k) == /\ \A i \in 1..Len(J(k)) : J(k)[i].chunk \in 1..k
                      /\ \A i, j \in 1..Len(J(k)) : i < j => J(k)[i].chunk < J(k)[j].chunk
                      /\ \A c \in 1..k : part[c] # "none" =>
                           \E i \in 1..Len(J(k)) : J(k)[i].chunk = c /\ J(k)[i].part = part[c]
<1>1. \A c \in 1..n : t[c] = IF part[c] = "none" THEN <<>> ELSE one(c)
  BY DEF Asr!TextOf
<1>2. t \in Seq(Seq(S)) /\ Len(t) = n
  <2>1. \A c \in 1..n : [chunk |-> c, part |-> part[c]] \in S
    OBVIOUS
  <2> HIDE DEF S
  <2>2. \A c \in 1..n : one(c) \in Seq(S) /\ <<>> \in Seq(S)
    BY <2>1
  <2>3. \A c \in 1..n : t[c] \in Seq(S)
    BY <1>1, <2>2
  <2>4. t = [c \in 1..n |-> t[c]]
    OBVIOUS
  <2> HIDE DEF t
  <2> QED  BY <2>3, <2>4
<1> HIDE DEF t, S
<1>3. Asr!FlattenSeq(t) = FlattenSeq(t)
  BY DEF Asr!FlattenSeq, FlattenSeq
<1>4. /\ FlattenSeq(t) = J(n) /\ J(0) = <<>> /\ \A k \in 0..n : J(k) \in Seq(S)
      /\ \A k \in 1..n : J(k) = J(k - 1) \o t[k]
  BY <1>2, Joins
<1> HIDE DEF J
<1>5. Good(0)
  BY <1>4
<1>6. ASSUME NEW k \in 1..n, Good(k - 1) PROVE Good(k)
  <2>1. k - 1 \in 0..n /\ k \in 0..n /\ \A i \in 1..(k - 1) : i \in 1..k /\ i < k
    OBVIOUS
  <2>2. J(k - 1) \in Seq(S) /\ J(k) = J(k - 1) \o t[k] /\ Len(J(k - 1)) \in Nat
    <3>1. J(k - 1) \in Seq(S) /\ J(k) = J(k - 1) \o t[k]
      BY <1>4, <2>1
    <3>2. Len(J(k - 1)) \in Nat
      BY <3>1, LenProperties
    <3> QED  BY <3>1, <3>2
  <2>3. CASE part[k] = "none"
    <3>1. J(k) = J(k - 1)
      BY <1>1, <2>2, <2>3, ConcatEmptySeq
    <3>2. \A c \in 1..k : part[c] # "none" => c \in 1..(k - 1)
      BY <2>3
    <3> HIDE DEF Good
    <3> QED  BY <1>6, <2>1, <3>1, <3>2 DEF Good
  <2>4. CASE part[k] # "none"
    <3>0. t[k] = one(k) /\ Len(one(k)) = 1 /\ one(k)[1].chunk = k /\ one(k)[1].part = part[k]
      BY <1>1, <2>4
    <3>1. one(k) \in Seq(S)
      BY <2>1 DEF S
    <3> HIDE DEF one, Good
    <3> DEFINE m == Len(J(k - 1))
    <3>11. J(k) = J(k - 1) \o one(k)
      BY <2>2, <3>0
    <3>12. /\ Len(J(k - 1) \o one(k)) = m + 1
           /\ \A i \in 1..(m + 1) : (J(k - 1) \o one(k))[i] = IF i <= m THEN J(k - 1)[i] ELSE one(k)[i - m]
      BY <2>2, <3>0, <3>1, ConcatProperties, SMTT(20)
    <3>2. Len(J(k)) = m + 1
      BY <3>11, <3>12
    <3>3. \A i \in 1..(m + 1) : J(k)[i] = IF i <= m THEN J(k - 1)[i] ELSE one(k)[i - m]
      BY <3>11, <3>12
    <3> HIDE DEF m
    <3>4. m \in Nat
      BY <2>2 DEF m
    <3>5. \A i \in 1..(m + 1) : /\ J(k)[i].chunk = IF i <= m THEN J(k - 1)[i].chunk ELSE k
                                /\ J(k)[i].part = IF i <= m THEN J(k - 1)[i].part ELSE part[k]
      <4>1. \A i \in 1..(m + 1) : ~(i <= m) => i - m = 1
        BY <3>4
      <4> QED  BY <3>0, <3>3, <4>1
    <3>6. /\ \A i \in 1..m : J(k - 1)[i].chunk \in 1..(k - 1)
          /\ \A i, j \in 1..m : i < j => J(k - 1)[i].chunk < J(k - 1)[j].chunk
          /\ \A c \in 1..(k - 1) : part[c] # "none" =>
               \E i \in 1..m : J(k - 1)[i].chunk = c /\ J(k - 1)[i].part = part[c]
      BY <1>6 DEF m, Good
    <3>7. \A i \in 1..(m + 1) : i <= m => i \in 1..m
      BY <3>4
    <3>8. \A i \in 1..(m + 1) : J(k)[i].chunk \in 1..k
      BY <2>1, <3>5, <3>6, <3>7
    <3>9. ASSUME NEW i \in 1..(m + 1), NEW j \in 1..(m + 1), i < j
          PROVE  J(k)[i].chunk < J(k)[j].chunk
      <4>1. i <= m /\ i \in 1..m
        BY <3>4, <3>9
      <4>2. CASE j <= m
        BY <3>5, <3>6, <3>7, <3>9, <4>1, <4>2
      <4>3. CASE ~(j <= m)
        <5>1. J(k)[i].chunk = J(k - 1)[i].chunk /\ J(k)[j].chunk = k
          BY <3>5, <4>1, <4>3
        <5>2. J(k - 1)[i].chunk \in 1..(k - 1)
          BY <3>6, <4>1
        <5> QED  BY <2>1, <5>1, <5>2
      <4> QED  BY <4>2, <4>3
    <3>10. ASSUME NEW c \in 1..k, part[c] # "none"
           PROVE  \E i \in 1..(m + 1) : J(k)[i].chunk = c /\ J(k)[i].part = part[c]
      <4>1. CASE c = k
        <5>1. m + 1 \in 1..(m + 1) /\ ~(m + 1 <= m)
          BY <3>4
        <5> QED  BY <3>5, <4>1, <5>1
      <4>2. CASE c # k
        <5>1. c \in 1..(k - 1)
          BY <4>2
        <5>2. PICK i \in 1..m : J(k - 1)[i].chunk = c /\ J(k - 1)[i].part = part[c]
          BY <3>6, <3>10, <5>1
        <5>3. i \in 1..(m + 1) /\ i <= m
          BY <3>4
        <5> QED  BY <3>5, <5>2, <5>3
      <4> QED  BY <4>1, <4>2
    <3> QED  BY <3>2, <3>8, <3>9, <3>10 DEF Good
  <2> QED  BY <2>3, <2>4
<1> DEFINE B == {k \in 0..n : ~Good(k)}
<1>7. B = {}
  <2> HIDE DEF Good
  <2> SUFFICES ASSUME B # {} PROVE FALSE
    OBVIOUS
  <2>1. B \in SUBSET Nat
    OBVIOUS
  <2>2. PICK k \in B : \A j \in B : k <= j
    <3> HIDE DEF B
    <3> QED  BY <2>1, LeastExists
  <2>3. k \in 1..n /\ ~Good(k)
    BY <1>5
  <2>4. k - 1 \in 0..n /\ ~(k <= k - 1)
    BY <2>3
  <2>5. Good(k - 1)
    BY <2>2, <2>4
  <2> QED  BY <1>6, <2>3, <2>5
<1>8. Good(n)
  <2>1. n \in 0..n
    OBVIOUS
  <2> HIDE DEF Good
  <2> QED  BY <1>7, <2>1
<1>9. DOMAIN J(n) = 1..Len(J(n))
  <2>1. n \in 0..n
    OBVIOUS
  <2> QED  BY <1>4, <2>1
<1>10. LET r == Asr!FlattenSeq(t)
       IN  /\ \A i, j \in DOMAIN r : i < j => r[i].chunk < r[j].chunk
           /\ \A c \in 1..n : part[c] # "none" =>
                \E i \in DOMAIN r : r[i].chunk = c /\ r[i].part = part[c]
  <2>1. PICK r : r = J(n)
    OBVIOUS
  <2>2. Asr!FlattenSeq(t) = r /\ DOMAIN r = 1..Len(r)
    BY <1>3, <1>4, <1>9, <2>1
  <2>3. /\ \A i, j \in 1..Len(r) : i < j => r[i].chunk < r[j].chunk
        /\ \A c \in 1..n : part[c] # "none" =>
             \E i \in 1..Len(r) : r[i].chunk = c /\ r[i].part = part[c]
    BY <1>8, <2>1
  <2> QED  BY <2>2, <2>3, Zenon
<1> QED  BY <1>10 DEF t

(* A chunk that is done has all of its text, or is silent, or its stream   *)
(* ended early; and a transcript stays as it was assembled.                *)
Stages == {"ready", "talking", "sleeping", "ok", "error"}
Heard == {"none", "part", "whole"}

Tells == /\ \A i, j \in DOMAIN result : i < j => result[i].chunk < result[j].chunk
         /\ \A c \in 1..Len(lens) : c \notin Silent \cup cutOff =>
              \E i \in DOMAIN result : result[i].chunk = c /\ result[i].part \in {"whole", "failed"}

AsrInv ==
  /\ Len(lens) \in Nat /\ DOMAIN lens = 1..Len(lens)
  /\ phase = "cutting" => Len(lens) = 0
  /\ stage \in [1..Len(lens) -> Stages] /\ got \in [1..Len(lens) -> Heard]
  /\ \A c \in 1..Len(lens) : stage[c] = "ok" => got[c] = "whole" \/ c \in Silent \cup cutOff
  /\ phase = "done" => Tells

LEMMA AsrInit == Asr!Init => AsrInv
<1> SUFFICES ASSUME Asr!Init PROVE AsrInv
  OBVIOUS
<1>1. /\ lens = <<>> /\ stage = <<>> /\ got = <<>> /\ phase = "cutting"
      /\ Len(lens) = 0 /\ DOMAIN lens = 1..Len(lens)
  BY DEF Asr!Init
<1>2. 1..Len(lens) = {} /\ stage \in [{} -> Stages] /\ got \in [{} -> Heard]
  BY <1>1
<1> QED  BY <1>1, <1>2 DEF AsrInv

LEMMA AsrStep ==
  ASSUME AsrInv, Asr!Next \/ UNCHANGED asrVars PROVE AsrInv'
<1> DEFINE N == 1..Len(lens)
<1>1. Asr!Chunks = N /\ Len(lens) \in Nat
  BY DEF AsrInv, Asr!Chunks
<1>2. CASE UNCHANGED asrVars
  BY <1>2 DEF AsrInv, Tells, asrVars
<1>3. CASE Asr!Assemble
  <2>1. /\ phase = "talking" /\ \A c \in N : stage[c] \in {"ok", "error"}
        /\ result' = Asr!Assembled /\ UNCHANGED <<lens, stage, got, cutOff>> /\ phase' \in {"done", "failed"}
    BY <1>1, <1>3 DEF Asr!Assemble
  <2> DEFINE part == [c \in N |-> IF stage[c] = "error" THEN "failed" ELSE got[c]]
  <2>2. part \in [N -> {"none", "part", "whole", "failed"}]
    BY DEF AsrInv, Heard
  <2>3. Asr!Assembled = Asr!FlattenSeq([c \in N |-> Asr!TextOf(c, part[c])])
    BY <1>1 DEF Asr!Assembled
  <2>4. \A c \in N : part[c] \in {"whole", "failed"} \/ c \in Silent \cup cutOff
    BY <2>1 DEF AsrInv
  <2> HIDE DEF part
  <2>5. /\ \A i, j \in DOMAIN result' : i < j => result'[i].chunk < result'[j].chunk
        /\ \A c \in N : part[c] # "none" =>
             \E i \in DOMAIN result' : result'[i].chunk = c /\ result'[i].part = part[c]
    <3> DEFINE r == Asr!FlattenSeq([c \in 1..Len(lens) |-> Asr!TextOf(c, part[c])])
    <3>1. /\ \A i, j \in DOMAIN r : i < j => r[i].chunk < r[j].chunk
          /\ \A c \in 1..Len(lens) : part[c] # "none" =>
               \E i \in DOMAIN r : r[i].chunk = c /\ r[i].part = part[c]
      BY <1>1, <2>2, Transcribed
    <3>2. result' = r
      BY <2>1, <2>3
    <3> HIDE DEF r
    <3> QED  BY <3>1, <3>2
  <2>6. ASSUME NEW c \in N, c \notin Silent \cup cutOff
        PROVE  \E i \in DOMAIN result' : result'[i].chunk = c /\ result'[i].part \in {"whole", "failed"}
    <3>1. part[c] \in {"whole", "failed"} /\ part[c] # "none"
      BY <2>4, <2>6
    <3>2. PICK i \in DOMAIN result' : result'[i].chunk = c /\ result'[i].part = part[c]
      BY <2>5, <3>1
    <3> QED  BY <3>1, <3>2
  <2>7. Tells'
    BY <2>1, <2>5, <2>6 DEF Tells
  <2> QED  BY <2>1, <2>7 DEF AsrInv
<1>4. ASSUME NEW c \in N, Asr!Job(c) PROVE AsrInv'
  <2>1. UNCHANGED <<phase, lens, result>> /\ cutOff \subseteq cutOff'
    BY <1>4 DEF Asr!Job, Asr!Acquire, Asr!PartialResponse, Asr!LastResponse, Asr!LastIsError,
       Asr!Timeout, Asr!Finish, Asr!Breaks, Asr!Garbled, Asr!Retry, Asr!job
  <2>2. /\ stage' \in [N -> Stages] /\ got' \in [N -> Heard]
        /\ \A x \in N : x # c => stage'[x] = stage[x] /\ got'[x] = got[x]
        /\ stage'[c] = "ok" => got'[c] = "whole" \/ c \in Silent \cup cutOff'
    <3>1. CASE Asr!Acquire(c) \/ Asr!PartialResponse(c)
      BY <3>1 DEF AsrInv, Stages, Heard, Asr!Acquire, Asr!PartialResponse
    <3>2. CASE Asr!LastResponse(c)
      BY <3>2 DEF AsrInv, Stages, Heard, Asr!LastResponse, Asr!Finish
    <3>3. CASE Asr!Timeout(c) \/ Asr!LastIsError(c)
      BY <3>3 DEF AsrInv, Stages, Heard, Asr!Timeout, Asr!LastIsError, Asr!Finish
    <3>4. CASE Asr!Breaks(c) \/ Asr!Garbled(c) \/ Asr!Retry(c)
      BY <3>4 DEF AsrInv, Stages, Heard, Asr!Breaks, Asr!Garbled, Asr!Retry
    <3> QED  BY <1>4, <3>1, <3>2, <3>3, <3>4 DEF Asr!Job
  <2>3. phase' = "done" => Tells'
    BY <2>1 DEF AsrInv, Tells
  <2>4. \A x \in N : stage'[x] = "ok" => got'[x] = "whole" \/ x \in Silent \cup cutOff'
    <3>1. \A x \in N : stage[x] = "ok" => got[x] = "whole" \/ x \in Silent \cup cutOff
      BY DEF AsrInv
    <3> QED  BY <2>1, <2>2, <3>1
  <2>5. phase' = "cutting" => Len(lens) = 0
    BY <2>1 DEF AsrInv
  <2> QED  BY <2>1, <2>2, <2>3, <2>4, <2>5 DEF AsrInv
<1>5. CASE Asr!Split
  <2>1. PICK says \in Durations, has \in Durations : lens' = Asr!Cut(says, has)
    BY <1>5 DEF Asr!Split
  <2>2. /\ phase' = "talking"
        /\ stage' = [c \in DOMAIN lens' |-> "ready"] /\ got' = [c \in DOMAIN lens' |-> "none"]
    BY <1>5 DEF Asr!Split
  <2>3. Len(lens') \in Nat /\ DOMAIN lens' = 1..Len(lens')
    BY <2>1, CutCovers
  <2> QED  BY <2>2, <2>3 DEF AsrInv, Stages, Heard
<1>6. CASE Asr!SplitFails
  BY <1>6 DEF Asr!SplitFails, AsrInv
<1> QED  BY <1>1, <1>2, <1>3, <1>4, <1>5, <1>6 DEF Asr!Next

LEMMA AsrPart == Spec => []AsrInv
<1>1. Init => AsrInv
  BY AsrInit DEF Init
<1>2. AsrInv /\ [Next]_<<scene, event, msgs, partVars>> => AsrInv'
  <2>1. [Next]_<<scene, event, msgs, partVars>> => Asr!Next \/ UNCHANGED asrVars
    BY DEF Next, partVars
  <2> QED  BY <2>1, AsrStep
<1> QED  BY <1>1, <1>2, PTL DEF Spec

\* For any number of chunks, retries and slots, and in whatever order the chunks end:
\* the transcript tells in order of every chunk, all of its text or that it failed, but
\* of silent ones and of those whose stream ended early (asr.py 305-325, 411-441).
THEOREM TranscriptIsComplete == Spec => []TranscriptTellsAll
<1>1. AsrInv => TranscriptTellsAll
  <2> SUFFICES ASSUME AsrInv, phase = "done" PROVE Asr!TranscriptTellsAll
    BY DEF TranscriptTellsAll, Asr!TranscriptTellsAll
  <2>1. Asr!Chunks = 1..Len(lens) /\ Tells
    BY DEF AsrInv, Asr!Chunks
  <2> QED  BY <2>1 DEF Tells, Asr!TranscriptTellsAll
<1> QED  BY <1>1, AsrPart, PTL

-----------------------------------------------------------------------------
(* A channel's message reaches its session.                                *)

\* Of the attachments those with a path arrive, in their order.
LEMMA PathsArrive ==
  ASSUME NEW n \in Nat, NEW a \in [1..n -> {X, Empty, Null}]
  PROVE  LET r == WithPath([i \in 1..n |-> IF a[i] = Null THEN Empty ELSE a[i]])
         IN  /\ \A i \in DOMAIN r : r[i] = X
             /\ Len(r) = Cardinality({i \in 1..n : a[i] = X})
<1> DEFINE b == [i \in 1..n |-> IF a[i] = Null THEN Empty ELSE a[i]]
           t == [i \in 1..n |-> IF a[i] = X THEN <<X>> ELSE <<>>]
           J(k) == Joined(t, k)
           C(k) == {i \in 1..k : a[i] = X}
           Good(k) == /\ \A i \in 1..Len(J(k)) : J(k)[i] = X
                      /\ IsFiniteSet(C(k)) /\ Len(J(k)) = Cardinality(C(k))
<1>1. X # Empty /\ X # Null
  BY NullAssumption DEF X, Empty
<1>2. WithPath(b) = FlattenSeq(t)
  <2>1. DOMAIN b = 1..n /\ \A i \in 1..n : b[i] = IF a[i] = Null THEN Empty ELSE a[i]
    OBVIOUS
  <2> HIDE DEF b
  <2>2. [i \in DOMAIN b |-> IF b[i] \in {Null, Empty} THEN <<>> ELSE <<b[i]>>] = t
    <3>1. \A i \in 1..n : a[i] = X => b[i] = X /\ b[i] \notin {Null, Empty}
      BY <1>1, <2>1
    <3>2. \A i \in 1..n : a[i] # X => b[i] \in {Null, Empty}
      BY <2>1
    <3> QED  BY <2>1, <3>1, <3>2
  <2> QED  BY <2>2 DEF WithPath
<1>3. t \in Seq(Seq({X})) /\ Len(t) = n /\ \A i \in 1..n : t[i] = IF a[i] = X THEN <<X>> ELSE <<>>
  <2>1. <<X>> \in Seq({X}) /\ <<>> \in Seq({X})
    OBVIOUS
  <2>2. \A i \in 1..n : t[i] = IF a[i] = X THEN <<X>> ELSE <<>>
    OBVIOUS
  <2>3. t = [i \in 1..n |-> t[i]]
    OBVIOUS
  <2> HIDE DEF t
  <2>4. \A i \in 1..n : t[i] \in Seq({X})
    BY <2>1, <2>2
  <2>5. t \in Seq(Seq({X})) /\ Len(t) = n
    BY <2>3, <2>4
  <2> QED  BY <2>2, <2>5
<1> HIDE DEF t
<1>4. /\ FlattenSeq(t) = J(n) /\ J(0) = <<>> /\ \A k \in 0..n : J(k) \in Seq({X})
      /\ \A k \in 1..n : J(k) = J(k - 1) \o t[k]
  BY <1>3, Joins
<1> HIDE DEF J
<1>5. Good(0)
  <2>1. C(0) = {}
    OBVIOUS
  <2> HIDE DEF C
  <2>2. IsFiniteSet(C(0)) /\ Cardinality(C(0)) = 0
    BY <2>1, FS_EmptySet
  <2>3. Len(J(0)) = 0 /\ \A i \in 1..Len(J(0)) : FALSE
    BY <1>4
  <2> QED  BY <2>2, <2>3
<1>6. ASSUME NEW k \in 1..n, Good(k - 1) PROVE Good(k)
  <2>1. k - 1 \in 0..n /\ k \in 0..n /\ k \in Nat
    OBVIOUS
  <2>2. J(k - 1) \in Seq({X}) /\ J(k) \in Seq({X}) /\ J(k) = J(k - 1) \o t[k]
    BY <1>4, <2>1
  <2>3. \A i \in 1..Len(J(k)) : J(k)[i] = X
    <3>1. \A i \in 1..Len(J(k)) : J(k)[i] \in {X}
      BY <2>2, ElementOfSeq
    <3> QED  BY <3>1
  <2>4. IsFiniteSet(C(k - 1)) /\ Len(J(k - 1)) = Cardinality(C(k - 1)) /\ Len(J(k - 1)) \in Nat
    <3>1. Len(J(k - 1)) \in Nat
      BY <2>2, LenProperties
    <3> QED  BY <1>6, <3>1
  <2>5. \A i : i \in 1..k <=> i \in 1..(k - 1) \/ i = k
    BY <2>1
  <2>6. CASE a[k] = X
    <3>1. t[k] = <<X>> /\ Len(<<X>>) = 1 /\ <<X>> \in Seq({X})
      BY <1>3, <2>6
    <3>2. Len(J(k)) = Len(J(k - 1)) + 1
      BY <2>2, <3>1, ConcatProperties
    <3>3. C(k) = C(k - 1) \cup {k}
      BY <2>5, <2>6, Zenon
    <3>4. k \notin C(k - 1)
      BY <2>1
    <3> HIDE DEF C
    <3> DEFINE D == C(k - 1)
    <3>5. IsFiniteSet(D) /\ k \notin D /\ C(k) = D \cup {k}
      BY <2>4, <3>3, <3>4
    <3> HIDE DEF D
    <3>6. IsFiniteSet(D \cup {k}) /\ Cardinality(D \cup {k}) = Cardinality(D) + 1
      BY <3>5, FS_AddElement
    <3>7. IsFiniteSet(C(k)) /\ Cardinality(C(k)) = Cardinality(C(k - 1)) + 1
      BY <3>5, <3>6 DEF D
    <3> QED  BY <2>3, <2>4, <3>2, <3>7
  <2>7. CASE a[k] # X
    <3>1. t[k] = <<>>
      BY <1>3, <2>7
    <3>2. J(k) = J(k - 1)
      BY <2>2, <3>1, ConcatEmptySeq
    <3>3. C(k) = C(k - 1)
      BY <2>5, <2>7, Zenon
    <3> HIDE DEF C
    <3> QED  BY <2>3, <2>4, <3>2, <3>3
  <2> QED  BY <2>6, <2>7
<1> DEFINE B == {k \in 0..n : ~Good(k)}
<1>7. B = {}
  <2> HIDE DEF Good
  <2> SUFFICES ASSUME B # {} PROVE FALSE
    OBVIOUS
  <2>1. B \in SUBSET Nat
    OBVIOUS
  <2>2. PICK k \in B : \A j \in B : k <= j
    <3> HIDE DEF B
    <3> QED  BY <2>1, LeastExists
  <2>3. k \in 1..n /\ ~Good(k)
    BY <1>5
  <2>4. k - 1 \in 0..n /\ ~(k <= k - 1)
    BY <2>3
  <2>5. Good(k - 1)
    BY <2>2, <2>4
  <2> QED  BY <1>6, <2>3, <2>5
<1>8. Good(n) /\ DOMAIN J(n) = 1..Len(J(n))
  <2>1. n \in 0..n
    OBVIOUS
  <2>2. J(n) \in Seq({X})
    BY <1>4, <2>1
  <2> HIDE DEF Good
  <2> QED  BY <1>7, <2>1, <2>2
<1> HIDE DEF b
<1>9. /\ \A i \in DOMAIN WithPath(b) : WithPath(b)[i] = X
      /\ Len(WithPath(b)) = Cardinality(C(n))
  BY <1>2, <1>4, <1>8
<1> QED  BY <1>9 DEF b

\* For every session and every event of a channel: a message reaches the server for its own
\* session whole, and an interrupt and a command reach the connection's (from_frame and
\* inbound_to_frame, wire_frames.py 259-330).
THEOREM MessagesReachTheirSession == Spec => []InboundReachesItsSession
<1>1. InboundReachesItsSession
  <2> SUFFICES ASSUME InEvent, NEW default \in Sessions
               PROVE  LET frame == InboundToFrame(event) IN
                      IF event.kind \notin {"message", "command", "interrupt"} THEN frame = Null
                      ELSE LET arrived == Inbound(frame, default) IN
                           /\ arrived.kind = event.kind
                           /\ IF event.kind = "message"
                                THEN /\ arrived.session_key = event.session_key
                                     /\ arrived.text = event.text /\ arrived.meta = event.meta
                                     /\ \A i \in DOMAIN arrived.attachments : arrived.attachments[i] = X
                                     /\ Len(arrived.attachments)
                                          = Cardinality({i \in DOMAIN event.attachments : event.attachments[i] = X})
                                ELSE arrived.session_key = default
    BY DEF InboundReachesItsSession
  <2>1. event \in InboundEvents
    BY DEF InEvent
  <2>2. event.kind \in Kinds /\ event.session_key \in Sessions
    BY <2>1 DEF InboundEvents
  <2>3. CASE event.kind \notin {"message", "command", "interrupt"}
    <3>1. InboundToFrame(event) = Null
      BY <2>3 DEF InboundToFrame
    <3> QED  BY <2>3, <3>1
  <2>4. CASE event.kind = "command"
    <3>1. InboundToFrame(event) = [type |-> "command", data |-> [text |-> event.text]]
      BY <2>4 DEF InboundToFrame
    <3> DEFINE frame == InboundToFrame(event)
    <3>2. frame.type = "command"
      BY <3>1
    <3> HIDE DEF frame
    <3>3. Inbound(frame, default).kind = "command" /\ Inbound(frame, default).session_key = default
      BY <3>2 DEF Inbound
    <3> QED  BY <2>4, <3>3 DEF frame
  <2>5. CASE event.kind = "interrupt"
    <3>1. InboundToFrame(event) = [type |-> "interrupt", data |-> [ts |-> X]]
      BY <2>5 DEF InboundToFrame
    <3> DEFINE frame == InboundToFrame(event)
    <3>2. frame.type = "interrupt" /\ "session_key" \notin DOMAIN frame.data
      BY <3>1
    <3> HIDE DEF frame
    <3>3. Inbound(frame, default).kind = "interrupt" /\ Inbound(frame, default).session_key = default
      BY <3>2 DEF Inbound, SessionOf
    <3> QED  BY <2>5, <3>3 DEF frame
  <2>6. CASE event.kind = "message"
    <3> DEFINE paths == [i \in DOMAIN event.attachments |->
                           IF event.attachments[i] = Null THEN Empty ELSE event.attachments[i]]
               data == [session_key |-> event.session_key, text |-> event.text, meta |-> event.meta,
                        attachments |-> paths]
               frame == InboundToFrame(event)
    <3>1. frame = [type |-> "user_input", data |-> data]
      BY <2>6 DEF InboundToFrame
    <3>2. frame.type = "user_input" /\ frame.data = data
      BY <3>1
    <3>3. /\ "session_key" \in DOMAIN data /\ data.session_key = event.session_key
          /\ data.text = event.text /\ data.meta = event.meta /\ data.attachments = paths
      OBVIOUS
    <3> HIDE DEF frame, data
    <3>4. SessionOf(data, default) = event.session_key
      BY <2>2, <3>3, SessionsAssumption DEF SessionOf
    <3>5. /\ Inbound(frame, default).kind = "message"
          /\ Inbound(frame, default).session_key = event.session_key
          /\ Inbound(frame, default).text = event.text /\ Inbound(frame, default).meta = event.meta
          /\ Inbound(frame, default).attachments = WithPath(paths)
      BY <3>2, <3>3, <3>4 DEF Inbound
    <3>6. PICK n \in 0..2 : event.attachments \in [1..n -> {X, Empty, Null}]
      BY <2>1 DEF InboundEvents
    <3>7. DOMAIN event.attachments = 1..n /\ n \in Nat
      BY <3>6
    <3>8. /\ \A i \in DOMAIN WithPath(paths) : WithPath(paths)[i] = X
          /\ Len(WithPath(paths)) = Cardinality({i \in DOMAIN event.attachments : event.attachments[i] = X})
      <4> DEFINE a == event.attachments
      <4>1. a \in [1..n -> {X, Empty, Null}] /\ n \in Nat /\ DOMAIN a = 1..n
        BY <3>6, <3>7
      <4>2. paths = [i \in 1..n |-> IF a[i] = Null THEN Empty ELSE a[i]]
        BY <4>1
      <4> HIDE DEF a, paths
      <4>3. /\ \A i \in DOMAIN WithPath(paths) : WithPath(paths)[i] = X
            /\ Len(WithPath(paths)) = Cardinality({i \in 1..n : a[i] = X})
        BY <4>1, <4>2, PathsArrive
      <4> QED  BY <4>1, <4>3, Zenon DEF a
    <3> HIDE DEF paths
    <3> QED  BY <2>6, <3>5, <3>8 DEF frame
  <2> QED  BY <2>2, <2>3, <2>4, <2>5, <2>6
<1> QED  BY <1>1, PTL

-----------------------------------------------------------------------------
(* The full-screen chat shows the text of the answers.                     *)

WidgetKinds == {"assistant", "reasoning", "tool", "task", "card", "error"}
Widget  == [kind : WidgetKinds, buf : Seq(Nat), drawn : Seq(Nat), due : BOOLEAN]
Current == [assistant : Nat, reasoning : Nat, tool : Nat]

\* What the widget says of an answer.
Says(w) == IF w.kind = "assistant" THEN w.buf ELSE <<>>
Spoken(h) == [i \in 1..Len(h) |-> Says(h[i])]
AllSaid(h) == FlattenSeq(Spoken(h))

(* The current answer is the last one, what is drawn of the others is all  *)
(* of them, and the answers hold the tokens.                               *)
ChatInv ==
  /\ tokens \in Nat /\ history \in Seq(Widget) /\ cur \in Current
  /\ cur.assistant \in 0..Len(history)
  /\ cur.assistant # 0 => history[cur.assistant].kind = "assistant"
  /\ \A i \in 1..Len(history) : i > cur.assistant /\ cur.assistant # 0 => history[i].kind # "assistant"
  /\ \A i \in 1..Len(history) : history[i].drawn # history[i].buf => history[i].due /\ i = cur.assistant
  /\ AllSaid(history) = [t \in 1..tokens |-> t]

LEMMA SpokenType ==
  ASSUME NEW h \in Seq(Widget)
  PROVE  /\ Spoken(h) \in Seq(Seq(Nat)) /\ Len(Spoken(h)) = Len(h) /\ Len(h) \in Nat
         /\ \A i \in 1..Len(h) : Spoken(h)[i] = Says(h[i])
<1>1. Len(h) \in Nat /\ \A i \in 1..Len(h) : h[i] \in Widget
  OBVIOUS
<1>2. \A w \in Widget : Says(w) \in Seq(Nat)
  BY DEF Widget, Says
<1>3. \A i \in 1..Len(h) : Says(h[i]) \in Seq(Nat)
  BY <1>1, <1>2
<1> QED  BY <1>1, <1>3 DEF Spoken

\* Who says the same tells the same.
LEMMA SameTold ==
  ASSUME NEW h, NEW g, Len(g) = Len(h), \A i \in 1..Len(h) : Says(g[i]) = Says(h[i])
  PROVE  AllSaid(g) = AllSaid(h)
<1>1. Spoken(g) = Spoken(h)
  BY DEF Spoken
<1> QED  BY <1>1 DEF AllSaid

\* A new widget says nothing yet.
LEMMA MountTold ==
  ASSUME NEW h \in Seq(Widget), NEW kind \in WidgetKinds
  PROVE  LET g == Chat!Mounted(h, kind) IN
         /\ g \in Seq(Widget) /\ Len(g) = Len(h) + 1 /\ AllSaid(g) = AllSaid(h)
         /\ \A i \in 1..Len(h) : g[i] = h[i]
         /\ g[Len(h) + 1] = [kind |-> kind, buf |-> <<>>, drawn |-> <<>>, due |-> FALSE]
<1> DEFINE w == [kind |-> kind, buf |-> <<>>, drawn |-> <<>>, due |-> FALSE]
           g == Append(h, w)
<1>1. w \in Widget /\ Says(w) = <<>>
  <2>1. <<>> \in Seq(Nat)
    OBVIOUS
  <2> QED  BY <2>1 DEF Widget, Says
<1> HIDE DEF w
<1>2. /\ g \in Seq(Widget) /\ Len(g) = Len(h) + 1 /\ g[Len(h) + 1] = w
      /\ \A i \in 1..Len(h) : g[i] = h[i]
  BY <1>1
<1> HIDE DEF g
<1>3. Len(h) \in Nat /\ Len(h) <= Len(g) /\ Len(h) <= Len(h) /\ Len(g) <= Len(g) /\ Len(g) \in Nat
  BY <1>2
<1>4. \A i \in (Len(h) + 1)..Len(g) : Spoken(g)[i] = <<>>
  <2>1. \A i \in (Len(h) + 1)..Len(g) : i = Len(h) + 1 /\ i \in 1..Len(g)
    BY <1>2, <1>3
  <2> QED  BY <1>1, <1>2, <2>1, SpokenType
<1>5. \A i \in 1..Len(h) : Spoken(g)[i] = Spoken(h)[i]
  <2>1. \A i \in 1..Len(h) : i \in 1..Len(g)
    BY <1>2, <1>3
  <2> QED  BY <1>2, <2>1, SpokenType
<1>6. /\ Spoken(g) \in Seq(Seq(Nat)) /\ Len(Spoken(g)) = Len(g)
      /\ Spoken(h) \in Seq(Seq(Nat)) /\ Len(Spoken(h)) = Len(h)
  BY <1>2, SpokenType
<1>7. AllSaid(g) = Joined(Spoken(g), Len(g)) /\ AllSaid(h) = Joined(Spoken(h), Len(h))
  BY <1>6, Joins DEF AllSaid
<1>8. Joined(Spoken(g), Len(g)) = Joined(Spoken(g), Len(h))
  BY <1>3, <1>4, <1>6, JoinedEmpty
<1>9. Joined(Spoken(g), Len(h)) = Joined(Spoken(h), Len(h))
  BY <1>3, <1>5, <1>6, JoinedSame
<1> QED  BY <1>2, <1>7, <1>8, <1>9 DEF Chat!Mounted, g, w

\* What is added to the last answer is told last.
LEMMA AppendTold ==
  ASSUME NEW h \in Seq(Widget), NEW k \in 1..Len(h), h[k].kind = "assistant",
         \A i \in 1..Len(h) : i > k => h[i].kind # "assistant", NEW x \in Nat
  PROVE  LET g == Chat!Appended(h, k, x) IN
         /\ g \in Seq(Widget) /\ Len(g) = Len(h) /\ AllSaid(g) = AllSaid(h) \o <<x>>
         /\ \A i \in 1..Len(h) : i # k => g[i] = h[i]
         /\ g[k].kind = "assistant" /\ g[k].due
<1> DEFINE w == [h[k] EXCEPT !.buf = Append(h[k].buf, x), !.due = TRUE]
           g == [h EXCEPT ![k] = w]
<1>1. h[k] \in Widget /\ Len(h) \in Nat
  OBVIOUS
<1>2. w \in Widget /\ w.kind = "assistant" /\ w.due /\ w.buf = h[k].buf \o <<x>>
  <2>1. h[k].buf \in Seq(Nat)
    BY <1>1 DEF Widget
  <2>2. Append(h[k].buf, x) \in Seq(Nat) /\ Append(h[k].buf, x) = h[k].buf \o <<x>>
    BY <2>1, AppendIsConcat, AppendProperties
  <2> QED  BY <1>1, <2>2 DEF Widget
<1>3. Chat!Appended(h, k, x) = g
  <2> DEFINE f == Chat!Appended(h, k, x)
  <2>1. f = [[h EXCEPT ![k].buf = Append(@, x)] EXCEPT ![k].due = TRUE]
    BY DEF Chat!Appended
  <2> QED  BY <1>1, <2>1 DEF Widget
<1> HIDE DEF w
<1>4. g \in Seq(Widget) /\ Len(g) = Len(h) /\ g[k] = w /\ \A i \in 1..Len(h) : i # k => g[i] = h[i]
  BY <1>2
<1> HIDE DEF g
<1> DEFINE s == Spoken(h)
           u == Spoken(g)
<1>5. /\ s \in Seq(Seq(Nat)) /\ Len(s) = Len(h) /\ u \in Seq(Seq(Nat)) /\ Len(u) = Len(h)
      /\ \A i \in 1..Len(h) : s[i] = Says(h[i]) /\ u[i] = Says(g[i])
  <2>1. /\ s \in Seq(Seq(Nat)) /\ Len(s) = Len(h) /\ \A i \in 1..Len(h) : s[i] = Says(h[i])
    BY SpokenType
  <2>2. /\ u \in Seq(Seq(Nat)) /\ Len(u) = Len(h) /\ \A i \in 1..Len(h) : u[i] = Says(g[i])
    BY <1>4, SpokenType
  <2> QED  BY <2>1, <2>2
<1>6. AllSaid(h) = Joined(s, Len(h)) /\ AllSaid(g) = Joined(u, Len(h))
  BY <1>5, Joins DEF AllSaid
<1> HIDE DEF s, u
<1>7. /\ k - 1 \in Nat /\ k \in Nat /\ k - 1 <= Len(h) /\ k <= Len(h) /\ k - 1 \in 0..Len(h)
      /\ k \in 0..Len(h) /\ \A i \in 1..(k - 1) : i \in 1..Len(h) /\ i # k
      /\ \A i \in (k + 1)..Len(h) : i \in 1..Len(h) /\ i > k /\ i # k
  BY <1>1
<1>8. \A i \in (k + 1)..Len(h) : s[i] = <<>> /\ u[i] = <<>>
  BY <1>4, <1>5, <1>7 DEF Says
<1>9. Joined(s, Len(h)) = Joined(s, k) /\ Joined(u, Len(h)) = Joined(u, k)
  <2>1. \A i \in (k + 1)..Len(h) : s[i] = <<>>
    BY <1>8
  <2>2. \A i \in (k + 1)..Len(h) : u[i] = <<>>
    BY <1>8
  <2>3. Len(h) <= Len(s) /\ Len(h) <= Len(u)
    BY <1>1, <1>5
  <2>4. Joined(s, Len(h)) = Joined(s, k)
    BY <1>1, <1>5, <1>7, <2>1, <2>3, JoinedEmpty
  <2>5. Joined(u, Len(h)) = Joined(u, k)
    BY <1>1, <1>5, <1>7, <2>2, <2>3, JoinedEmpty
  <2> QED  BY <2>4, <2>5
<1>10. Joined(s, k - 1) = Joined(u, k - 1)
  <2>1. \A i \in 1..(k - 1) : s[i] = u[i]
    BY <1>4, <1>5, <1>7
  <2> QED  BY <1>5, <1>7, <2>1, JoinedSame
<1>11. s[k] = h[k].buf /\ u[k] = h[k].buf \o <<x>>
  BY <1>2, <1>4, <1>5 DEF Says
<1>12. Joined(s, k) = Joined(s, k - 1) \o s[k] /\ Joined(u, k) = Joined(u, k - 1) \o u[k]
       /\ Joined(s, k - 1) \in Seq(Nat)
  <2>1. k \in 1..Len(s) /\ k \in 1..Len(u) /\ k - 1 \in 0..Len(s)
    BY <1>5, <1>7
  <2> QED  BY <1>5, <2>1, Joins
<1>13. h[k].buf \in Seq(Nat) /\ <<x>> \in Seq(Nat)
  BY <1>1 DEF Widget
<1>14. (Joined(s, k - 1) \o h[k].buf) \o <<x>> = Joined(s, k - 1) \o (h[k].buf \o <<x>>)
  <2> DEFINE p == Joined(s, k - 1)
             q == h[k].buf
             r == <<x>>
  <2>1. p \in Seq(Nat) /\ q \in Seq(Nat) /\ r \in Seq(Nat)
    BY <1>12, <1>13
  <2> HIDE DEF p, q, r
  <2>2. (p \o q) \o r = p \o (q \o r)
    BY <2>1, Regrouped
  <2> QED  BY <2>2 DEF p, q, r
<1>15. AllSaid(g) = AllSaid(h) \o <<x>>
  BY <1>6, <1>9, <1>10, <1>11, <1>12, <1>14
<1> QED  BY <1>2, <1>3, <1>4, <1>15

\* An answer that ends is drawn.
LEMMA FrozenTold ==
  ASSUME ChatInv
  PROVE  LET g == Chat!Frozen(history) IN
         /\ g \in Seq(Widget) /\ Len(g) = Len(history) /\ AllSaid(g) = AllSaid(history)
         /\ \A i \in 1..Len(history) : g[i].drawn = g[i].buf
<1>1. CASE cur.assistant = 0
  <2>1. Chat!Frozen(history) = history
    BY <1>1 DEF Chat!Frozen
  <2>2. \A i \in 1..Len(history) : i # 0
    OBVIOUS
  <2> QED  BY <1>1, <2>1, <2>2 DEF ChatInv
<1>2. CASE cur.assistant # 0
  <2> DEFINE k == cur.assistant
             w == [history[k] EXCEPT !.drawn = history[k].buf, !.due = FALSE]
             g == [history EXCEPT ![k] = w]
  <2>1. k \in 1..Len(history) /\ history \in Seq(Widget) /\ history[k] \in Widget
    BY <1>2 DEF ChatInv
  <2>2. Chat!Frozen(history) = g
    BY <1>2 DEF Chat!Frozen
  <2>3. w \in Widget /\ w.kind = history[k].kind /\ w.buf = history[k].buf /\ w.drawn = w.buf
    BY <2>1 DEF Widget
  <2>4. \A i \in 1..Len(history) : i # k => history[i].drawn = history[i].buf
    BY DEF ChatInv
  <2> HIDE DEF w, k
  <2>5. g \in Seq(Widget) /\ Len(g) = Len(history) /\ g[k] = w
        /\ \A i \in 1..Len(history) : i # k => g[i] = history[i]
    BY <2>1, <2>3
  <2> HIDE DEF g
  <2>6. \A i \in 1..Len(history) : Says(g[i]) = Says(history[i])
    BY <2>3, <2>5 DEF Says
  <2>7. AllSaid(g) = AllSaid(history)
    BY <2>5, <2>6, SameTold
  <2> QED  BY <2>2, <2>3, <2>4, <2>5, <2>7
<1> QED  BY <1>1, <1>2

LEMMA ChatInit == Chat!Init => ChatInv
<1> SUFFICES ASSUME Chat!Init PROVE ChatInv
  OBVIOUS
<1>1. history = <<>> /\ tokens = 0 /\ cur = [assistant |-> 0, reasoning |-> 0, tool |-> 0]
  BY DEF Chat!Init, Chat!NoWidget
<1>2. history \in Seq(Widget) /\ Len(history) = 0
  BY <1>1
<1>3. AllSaid(history) = <<>>
  <2>1. Spoken(history) \in Seq(Seq(Nat)) /\ Len(Spoken(history)) = 0
    BY <1>2, SpokenType
  <2> QED  BY <2>1, Joins DEF AllSaid
<1>4. [t \in 1..0 |-> t] = <<>>
  OBVIOUS
<1> QED  BY <1>1, <1>2, <1>3, <1>4 DEF ChatInv, Current

\* Where no answer goes on, everything is drawn.
LEMMA AllDrawn ==
  ASSUME ChatInv, history' \in Seq(Widget), AllSaid(history') = AllSaid(history),
         \A i \in 1..Len(history') : history'[i].drawn = history'[i].buf,
         cur' \in Current, cur'.assistant = 0, tokens' = tokens
  PROVE  ChatInv'
<1>1. AllSaid(history)' = AllSaid(history')
  BY DEF AllSaid, Spoken, Says
<1>2. Len(history') \in Nat
  OBVIOUS
<1> QED  BY <1>1, <1>2 DEF ChatInv, AllSaid, Spoken, Says

\* A widget that is no answer is mounted below the answer that goes on.
LEMMA MountStays ==
  ASSUME ChatInv, NEW kind \in WidgetKinds, kind # "assistant", history' = Chat!Mounted(history, kind),
         cur' \in Current, cur'.assistant = cur.assistant, tokens' = tokens
  PROVE  ChatInv'
<1>1. history \in Seq(Widget) /\ Len(history) \in Nat
  BY DEF ChatInv
<1>2. /\ history' \in Seq(Widget) /\ Len(history') = Len(history) + 1 /\ AllSaid(history') = AllSaid(history)
      /\ \A i \in 1..Len(history) : history'[i] = history[i]
      /\ history'[Len(history) + 1] = [kind |-> kind, buf |-> <<>>, drawn |-> <<>>, due |-> FALSE]
  BY <1>1, MountTold
<1>3. \A i \in 1..Len(history') : i \in 1..Len(history) \/ i = Len(history) + 1
  BY <1>1, <1>2
<1>4. history'[Len(history) + 1].kind # "assistant"
      /\ history'[Len(history) + 1].drawn = history'[Len(history) + 1].buf
  BY <1>2
<1>5. cur.assistant \in 0..Len(history') /\ (cur.assistant # 0 => cur.assistant \in 1..Len(history))
  BY <1>1, <1>2 DEF ChatInv
<1>6. cur'.assistant # 0 => history'[cur'.assistant].kind = "assistant"
  BY <1>2, <1>5 DEF ChatInv
<1>7. \A i \in 1..Len(history') : i > cur'.assistant /\ cur'.assistant # 0 => history'[i].kind # "assistant"
  BY <1>2, <1>3, <1>4 DEF ChatInv
<1>8. \A i \in 1..Len(history') :
        history'[i].drawn # history'[i].buf => history'[i].due /\ i = cur'.assistant
  BY <1>2, <1>3, <1>4 DEF ChatInv
<1>9. AllSaid(history)' = AllSaid(history')
  BY DEF AllSaid, Spoken, Says
<1> QED  BY <1>2, <1>5, <1>6, <1>7, <1>8, <1>9 DEF ChatInv

\* A new widget at the end of what is drawn.
LEMMA NoticeStays ==
  ASSUME ChatInv, NEW kind \in WidgetKinds, history' = Chat!Mounted(Chat!Frozen(history), kind),
         cur' \in Current, cur'.assistant = 0, tokens' = tokens
  PROVE  ChatInv'
<1> DEFINE g == Chat!Frozen(history)
<1>1. /\ g \in Seq(Widget) /\ Len(g) = Len(history) /\ AllSaid(g) = AllSaid(history)
      /\ \A i \in 1..Len(g) : g[i].drawn = g[i].buf
  BY FrozenTold
<1> HIDE DEF g
<1>2. history' = Chat!Mounted(g, kind)
  BY DEF g
<1>3. /\ history' \in Seq(Widget) /\ Len(history') = Len(g) + 1 /\ AllSaid(history') = AllSaid(g)
      /\ \A i \in 1..Len(g) : history'[i] = g[i]
      /\ history'[Len(g) + 1] = [kind |-> kind, buf |-> <<>>, drawn |-> <<>>, due |-> FALSE]
  BY <1>1, <1>2, MountTold
<1>4. \A i \in 1..Len(history') : i \in 1..Len(g) \/ i = Len(g) + 1
  <2>1. Len(g) \in Nat
    BY <1>1
  <2> QED  BY <1>3, <2>1
<1>5. \A i \in 1..Len(history') : history'[i].drawn = history'[i].buf
  BY <1>1, <1>3, <1>4
<1> QED  BY <1>1, <1>3, <1>5, AllDrawn

\* The token is added to the answer that goes on, or to a new one at the end.
LEMMA TokenStep == ASSUME ChatInv, Chat!Token PROVE ChatInv'
<1>0. history \in Seq(Widget) /\ Len(history) \in Nat /\ tokens \in Nat /\ cur \in Current
  BY DEF ChatInv
<1> DEFINE h == IF cur.assistant = 0 THEN Chat!Mounted(history, "assistant") ELSE history
           k == IF cur.assistant = 0 THEN Len(h) ELSE cur.assistant
<1>1. /\ history' = Chat!Appended(h, k, tokens + 1) /\ tokens' = tokens + 1
      /\ cur' = [cur EXCEPT !.assistant = k, !.reasoning = 0]
  BY DEF Chat!Token
<1>2. /\ h \in Seq(Widget) /\ k \in 1..Len(h) /\ h[k].kind = "assistant" /\ AllSaid(h) = AllSaid(history)
      /\ \A i \in 1..Len(h) : i > k => h[i].kind # "assistant"
      /\ \A i \in 1..Len(h) : i # k => h[i].drawn = h[i].buf
  <2>1. CASE cur.assistant = 0
    <3> DEFINE g == Chat!Mounted(history, "assistant")
    <3>1. /\ g \in Seq(Widget) /\ Len(g) = Len(history) + 1 /\ AllSaid(g) = AllSaid(history)
          /\ \A i \in 1..Len(history) : g[i] = history[i]
          /\ g[Len(history) + 1] = [kind |-> "assistant", buf |-> <<>>, drawn |-> <<>>, due |-> FALSE]
      <4>1. "assistant" \in WidgetKinds
        BY DEF WidgetKinds
      <4> QED  BY <1>0, <4>1, MountTold
    <3>2. h = g /\ k = Len(g)
      BY <2>1
    <3> HIDE DEF g, h, k
    <3>3. /\ Len(g) \in 1..Len(g) /\ \A i \in 1..Len(g) : ~(i > Len(g))
          /\ \A i \in 1..Len(g) : i # Len(g) => i \in 1..Len(history)
      BY <1>0, <3>1
    <3>4. g[Len(g)].kind = "assistant"
      BY <3>1
    <3>5. \A i \in 1..Len(history) : history[i].drawn = history[i].buf
      <4>1. \A i \in 1..Len(history) : i # 0
        OBVIOUS
      <4> QED  BY <2>1, <4>1 DEF ChatInv
    <3> QED  BY <3>1, <3>2, <3>3, <3>4, <3>5
  <2>2. CASE cur.assistant # 0
    <3>1. h = history /\ k = cur.assistant
      BY <2>2
    <3> HIDE DEF h, k
    <3> QED  BY <1>0, <2>2, <3>1 DEF ChatInv
  <2> QED  BY <2>1, <2>2
<1> HIDE DEF h, k
<1>3. tokens + 1 \in Nat
  BY <1>0
<1>4. /\ history' \in Seq(Widget) /\ Len(history') = Len(h) /\ AllSaid(history') = AllSaid(h) \o <<tokens + 1>>
      /\ \A i \in 1..Len(h) : i # k => history'[i] = h[i]
      /\ history'[k].kind = "assistant" /\ history'[k].due
  BY <1>1, <1>2, <1>3, AppendTold
<1>5. Len(h) \in Nat /\ k \in Nat /\ k # 0 /\ k \in 0..Len(h)
  BY <1>2
<1>6. cur' \in Current /\ cur'.assistant = k
  BY <1>0, <1>1, <1>5 DEF Current
<1>7. AllSaid(history)' = [t \in 1..(tokens + 1) |-> t]
  <2> DEFINE a == [t \in 1..tokens |-> t]
             b == [t \in 1..(tokens + 1) |-> t]
  <2>1. AllSaid(history)' = AllSaid(history')
    BY DEF AllSaid, Spoken, Says
  <2>2. AllSaid(h) = a
    BY <1>2 DEF ChatInv
  <2>3. a \in Seq(Nat) /\ Len(a) = tokens /\ \A t \in 1..tokens : a[t] = t
    BY <1>0
  <2>4. b \in Seq(Nat) /\ Len(b) = tokens + 1 /\ \A t \in 1..(tokens + 1) : b[t] = t
    BY <1>0
  <2> HIDE DEF a, b
  <2>5. a \o <<tokens + 1>> = Append(a, tokens + 1) /\ Append(a, tokens + 1) \in Seq(Nat)
        /\ Len(Append(a, tokens + 1)) = tokens + 1
        /\ \A t \in 1..tokens : Append(a, tokens + 1)[t] = a[t]
        /\ Append(a, tokens + 1)[tokens + 1] = tokens + 1
    BY <1>3, <2>3, AppendIsConcat, AppendProperties
  <2>6. \A t \in 1..(tokens + 1) : t \in 1..tokens \/ t = tokens + 1
    BY <1>0
  <2>7. Append(a, tokens + 1) = b
    <3> DEFINE c == Append(a, tokens + 1)
    <3>1. c \in Seq(Nat) /\ Len(c) = Len(b) /\ \A t \in 1..Len(c) : c[t] = b[t]
      BY <2>3, <2>4, <2>5, <2>6
    <3> HIDE DEF c
    <3>2. c = b
      BY <2>4, <3>1, SeqEqual
    <3> QED  BY <3>2 DEF c
  <2>8. AllSaid(history)' = b
    BY <1>4, <2>1, <2>2, <2>5, <2>7
  <2> QED  BY <2>8 DEF b
<1>8. /\ history'[cur'.assistant].kind = "assistant" /\ cur'.assistant \in 0..Len(history')
      /\ \A i \in 1..Len(history') : i > cur'.assistant => history'[i].kind # "assistant"
  BY <1>2, <1>4, <1>5, <1>6
<1>9. \A i \in 1..Len(history') :
        history'[i].drawn # history'[i].buf => history'[i].due /\ i = cur'.assistant
  BY <1>2, <1>4, <1>6
<1>10. tokens' \in Nat /\ AllSaid(history)' = [t \in 1..tokens' |-> t]
  BY <1>1, <1>3, <1>7
<1> QED  BY <1>4, <1>6, <1>8, <1>9, <1>10 DEF ChatInv

\* What is drawn is what the message holds.
LEMMA FlushStep == ASSUME ChatInv, NEW k \in DOMAIN history, Chat!Flush(k) PROVE ChatInv'
<1> DEFINE w == [history[k] EXCEPT !.drawn = history[k].buf, !.due = FALSE]
<1>1. history \in Seq(Widget) /\ Len(history) \in Nat /\ k \in 1..Len(history) /\ history[k] \in Widget
  BY DEF ChatInv
<1>2. history' = [history EXCEPT ![k] = w] /\ UNCHANGED <<cur, tokens>>
  BY DEF Chat!Flush
<1>3. w \in Widget /\ w.kind = history[k].kind /\ w.buf = history[k].buf /\ w.drawn = w.buf
  BY <1>1 DEF Widget
<1> HIDE DEF w
<1>4. history' \in Seq(Widget) /\ Len(history') = Len(history) /\ history'[k] = w
      /\ \A i \in 1..Len(history) : i # k => history'[i] = history[i]
  BY <1>1, <1>2, <1>3
<1>5. \A i \in 1..Len(history) : history'[i].kind = history[i].kind /\ Says(history'[i]) = Says(history[i])
  BY <1>3, <1>4 DEF Says
<1>6. AllSaid(history)' = AllSaid(history)
  <2>1. AllSaid(history)' = AllSaid(history')
    BY DEF AllSaid, Spoken, Says
  <2>2. AllSaid(history') = AllSaid(history)
    BY <1>4, <1>5, SameTold
  <2> QED  BY <2>1, <2>2
<1>7. \A i \in 1..Len(history) :
        history'[i].drawn # history'[i].buf => history'[i].due /\ i = cur.assistant
  BY <1>3, <1>4 DEF ChatInv
<1>8. cur.assistant # 0 => cur.assistant \in 1..Len(history)
  BY <1>1 DEF ChatInv
<1> QED  BY <1>2, <1>4, <1>5, <1>6, <1>7, <1>8 DEF ChatInv

\* The widgets, the current ones and the tokens are all the invariant is about.
LEMMA ChatSame == ASSUME ChatInv, UNCHANGED <<history, tokens>>, cur' \in Current,
                         cur'.assistant = cur.assistant PROVE ChatInv'
BY DEF ChatInv, AllSaid, Spoken, Says

LEMMA ChatStep == ASSUME ChatInv, Chat!Next \/ UNCHANGED chatVars PROVE ChatInv'
<1>0. cur \in Current /\ history \in Seq(Widget) /\ Len(history) \in Nat
  BY DEF ChatInv
<1>1. CASE UNCHANGED chatVars
  <2>1. UNCHANGED <<history, tokens, cur>>
    BY <1>1 DEF chatVars
  <2> QED  BY <1>0, <2>1, ChatSame
<1>2. ASSUME NEW ev, Chat!Arrive(ev) PROVE ChatInv'
  <2>1. UNCHANGED <<history, tokens, cur>>
    BY <1>2 DEF Chat!Arrive
  <2> QED  BY <1>0, <2>1, ChatSame
<1>3. CASE \E i \in DOMAIN history : Chat!Flush(i)
  BY <1>3, FlushStep
<1>5. /\ "reasoning" \in WidgetKinds /\ "tool" \in WidgetKinds /\ "task" \in WidgetKinds
      /\ "card" \in WidgetKinds /\ "error" \in WidgetKinds
  BY DEF WidgetKinds
<1>4. CASE Chat!Handle
  <2> DEFINE ev == Head(outQ)
  <2>1. CASE Chat!Reasoning
    <3>1. cur' \in Current /\ cur'.assistant = cur.assistant /\ tokens' = tokens
      <4>1. Len(history') \in Nat
        <5>1. Len(Chat!Mounted(history, "reasoning")) = Len(history) + 1
          BY <1>0, <1>5, MountTold
        <5> QED  BY <1>0, <2>1, <5>1 DEF Chat!Reasoning
      <4> QED  BY <1>0, <2>1, <4>1 DEF Chat!Reasoning, Current
    <3>2. history' = history \/ history' = Chat!Mounted(history, "reasoning")
      BY <2>1 DEF Chat!Reasoning
    <3>3. CASE history' = history
      BY <3>1, <3>3, ChatSame
    <3>4. CASE history' = Chat!Mounted(history, "reasoning")
      BY <1>5, <3>1, <3>4, MountStays
    <3> QED  BY <3>2, <3>3, <3>4
  <2>2. CASE Chat!Token
    BY <2>2, TokenStep
  <2>3. CASE Chat!ToolStart
    <3>1. history' = Chat!Mounted(Chat!Frozen(history), "tool") /\ tokens' = tokens
          /\ cur' = [assistant |-> 0, reasoning |-> 0, tool |-> Len(history')]
      BY <2>3 DEF Chat!ToolStart
    <3>2. Len(history') \in Nat
      <4>1. Chat!Frozen(history) \in Seq(Widget)
        BY FrozenTold
      <4>2. history' \in Seq(Widget)
        BY <1>5, <3>1, <4>1, MountTold
      <4> QED  BY <4>2
    <3>3. cur' \in Current /\ cur'.assistant = 0
      BY <3>1, <3>2 DEF Current
    <3> QED  BY <1>5, <3>1, <3>3, NoticeStays
  <2>4. CASE Chat!ToolEnd(ev.bad)
    <3>1. \/ cur' = [cur EXCEPT !.reasoning = 0]
          \/ cur' = [cur EXCEPT !.reasoning = 0, !.tool = 0]
      BY <2>4, Zenon DEF Chat!ToolEnd
    <3>2. UNCHANGED <<history, tokens>>
      BY <2>4, Zenon DEF Chat!ToolEnd
    <3>3. cur' \in Current /\ cur'.assistant = cur.assistant
      <4>1. [cur EXCEPT !.reasoning = 0] \in Current
        BY <1>0 DEF Current
      <4>2. [cur EXCEPT !.reasoning = 0, !.tool = 0] \in Current
        BY <1>0 DEF Current
      <4>3. cur'.assistant = cur.assistant
        BY <1>0, <3>1 DEF Current
      <4> QED  BY <3>1, <4>1, <4>2, <4>3
    <3> QED  BY <3>2, <3>3, ChatSame
  <2>5. CASE Chat!Closes
    <3>1. /\ history' = Chat!Frozen(history) /\ tokens' = tokens
          /\ cur' \in Current /\ cur'.assistant = 0
      BY <1>0, <2>5 DEF Chat!Closes, Current
    <3>2. /\ history' \in Seq(Widget) /\ Len(history') = Len(history) /\ AllSaid(history') = AllSaid(history)
          /\ \A i \in 1..Len(history) : history'[i].drawn = history'[i].buf
      BY <3>1, FrozenTold
    <3> QED  BY <3>1, <3>2, AllDrawn
  <2>6. CASE ev.kind \in {"card", "error"} /\ Chat!Notice(ev.kind)
    <3>1. /\ history' = Chat!Mounted(Chat!Frozen(history), ev.kind) /\ tokens' = tokens
          /\ cur' \in Current /\ cur'.assistant = 0 /\ ev.kind \in WidgetKinds
      BY <1>0, <1>5, <2>6 DEF Chat!Notice, Current
    <3> HIDE DEF ev
    <3> QED  BY <3>1, NoticeStays
  <2>7. CASE Chat!TaskLine
    <3>1. /\ history' = Chat!Mounted(history, "task") /\ tokens' = tokens
          /\ cur' \in Current /\ cur'.assistant = cur.assistant
      BY <1>0, <2>7 DEF Chat!TaskLine, Current
    <3> QED  BY <1>5, <3>1, MountStays
  <2>8. CASE Chat!Metric
    <3>1. cur' \in Current /\ cur'.assistant = cur.assistant /\ UNCHANGED <<history, tokens>>
      BY <1>0, <2>8 DEF Chat!Metric, Current
    <3> QED  BY <3>1, ChatSame
  <2> QED  BY <1>4, <2>1, <2>2, <2>3, <2>4, <2>5, <2>6, <2>7, <2>8 DEF Chat!Handle
<1> QED  BY <1>1, <1>2, <1>3, <1>4 DEF Chat!Next

LEMMA ChatPart == Spec => []ChatInv
<1>1. Init => ChatInv
  BY ChatInit DEF Init
<1>2. ChatInv /\ [Next]_<<scene, event, msgs, partVars>> => ChatInv'
  <2>1. [Next]_<<scene, event, msgs, partVars>> => Chat!Next \/ UNCHANGED chatVars
    BY DEF Next, partVars
  <2> QED  BY <2>1, ChatStep
<1> QED  BY <1>1, <1>2, PTL DEF Spec

\* For any number of events and widgets: in whatever order tokens, ends of answers, refused
\* results and the callbacks that draw come, the answers hold the tokens, each once and in
\* order, and what is not drawn yet has a callback due (textual_chat/__init__.py 146-223).
THEOREM AnswersAreShown == Spec => []TextIsShown
<1>1. ChatInv => TextIsShown
  <2> SUFFICES ASSUME ChatInv PROVE Chat!TextIsShown
    BY DEF TextIsShown
  <2>1. history \in Seq(Widget) /\ DOMAIN history = 1..Len(history)
    BY DEF ChatInv
  <2>2. Chat!FlattenSeq(Spoken(history)) = FlattenSeq(Spoken(history))
    BY DEF Chat!FlattenSeq, FlattenSeq
  <2>3. [i \in DOMAIN history |-> IF history[i].kind = "assistant" THEN history[i].buf ELSE <<>>]
          = Spoken(history)
    BY <2>1 DEF Spoken, Says
  <2>4. Chat!FlattenSeq([i \in DOMAIN history |-> IF history[i].kind = "assistant" THEN history[i].buf ELSE <<>>])
          = [t \in 1..tokens |-> t]
    BY <2>2, <2>3 DEF ChatInv, AllSaid
  <2>5. \A i \in DOMAIN history :
           history[i].drawn # history[i].buf => history[i].due /\ i = cur.assistant
    BY <2>1 DEF ChatInv
  <2> QED  BY <2>4, <2>5 DEF Chat!TextIsShown
<1> QED  BY <1>1, ChatPart, PTL

-----------------------------------------------------------------------------
(* A retried LLM call ends with the whole reply of its last attempt.        *)

\* What the chunks of a reply up to the k-th add to the arguments of a call, or to the text.
Chosen(r, k, call) == [i \in 1..k |-> IF Llm!Adds(r[i], call) THEN <<i>> ELSE <<>>]
Begun(r, k, call)  == FlattenSeq(Chosen(r, k, call))

\* What the caller has received.
ArgsIn(tcs, i) == IF i \in 1..Len(tcs) THEN tcs[i].args ELSE <<>>
Has(call) == IF call = 0 THEN text ELSE ArgsIn(calls, call)

(* While an attempt goes on the caller has what the failed ones delivered, *)
(* nothing if it is the first, and then what this one has so far.          *)
SentInv ==
  /\ LlmInv
  /\ text \in Seq(Nat)
  /\ pc \in {"streaming", "done"} =>
       \A call \in Nat : \E old \in Seq(Nat) : /\ Has(call) = old \o Begun(reply, pos - 1, call)
                                               /\ attempt = 1 => old = <<>>

LEMMA BegunGrows ==
  ASSUME NEW r, NEW call
  PROVE  /\ Begun(r, 0, call) = <<>>
         /\ \A k \in Nat : Begun(r, k, call) \in Seq(Nat)
         /\ \A k \in Nat \ {0} :
              Begun(r, k, call) = Begun(r, k - 1, call)
                               \o (IF Llm!Adds(r[k], call) THEN <<k>> ELSE <<>>)
<1>1. ASSUME NEW k \in Nat
      PROVE  /\ Chosen(r, k, call) \in Seq(Seq(Nat)) /\ Len(Chosen(r, k, call)) = k
             /\ \A i \in 1..k : Chosen(r, k, call)[i] = IF Llm!Adds(r[i], call) THEN <<i>> ELSE <<>>
  <2>1. \A i \in 1..k : <<i>> \in Seq(Nat) /\ <<>> \in Seq(Nat)
    OBVIOUS
  <2> QED  BY <2>1 DEF Chosen
<1>2. Begun(r, 0, call) = <<>>
  <2>1. Chosen(r, 0, call) \in Seq(Seq(Nat)) /\ Len(Chosen(r, 0, call)) = 0
    BY <1>1
  <2> QED  BY <2>1, Joins DEF Begun
<1>3. ASSUME NEW k \in Nat PROVE Begun(r, k, call) = Joined(Chosen(r, k, call), k) /\ Begun(r, k, call) \in Seq(Nat)
  <2>1. k \in 0..k
    OBVIOUS
  <2>2. Chosen(r, k, call) \in Seq(Seq(Nat)) /\ Len(Chosen(r, k, call)) = k
    BY <1>1
  <2>3. /\ FlattenSeq(Chosen(r, k, call)) = Joined(Chosen(r, k, call), k)
        /\ Joined(Chosen(r, k, call), k) \in Seq(Nat)
    BY <2>1, <2>2, Joins
  <2> QED  BY <2>3 DEF Begun
<1>4. ASSUME NEW k \in Nat \ {0}
      PROVE  Begun(r, k, call) = Begun(r, k - 1, call) \o (IF Llm!Adds(r[k], call) THEN <<k>> ELSE <<>>)
  <2> DEFINE s == Chosen(r, k, call)
             t == Chosen(r, k - 1, call)
             x == IF Llm!Adds(r[k], call) THEN <<k>> ELSE <<>>
  <2>1. k - 1 \in Nat /\ k \in 1..k /\ k - 1 <= k /\ \A i \in 1..(k - 1) : i \in 1..k
    OBVIOUS
  <2>2. s \in Seq(Seq(Nat)) /\ Len(s) = k /\ t \in Seq(Seq(Nat)) /\ Len(t) = k - 1 /\ s[k] = x
        /\ \A i \in 1..(k - 1) : s[i] = t[i]
    BY <1>1, <2>1
  <2>3. Begun(r, k, call) = Joined(s, k) /\ Begun(r, k - 1, call) = Joined(t, k - 1)
    BY <1>3, <2>1
  <2> HIDE DEF s, t, x
  <2>4. Joined(s, k) = Joined(s, k - 1) \o x
    BY <2>1, <2>2, Joins
  <2>5. k - 1 <= Len(s) /\ k - 1 <= Len(t)
    BY <2>1, <2>2
  <2>6. Joined(s, k - 1) = Joined(t, k - 1)
    BY <2>1, <2>2, <2>5, JoinedSame
  <2> QED  BY <2>3, <2>4, <2>6 DEF x
<1> QED  BY <1>2, <1>3, <1>4

\* A chunk of a call is added to its arguments, one that only opens it to none.
LEMMA MergedArgs ==
  ASSUME calls \in Seq(Entries), pos \in Nat, NEW k \in Nat \ {0}, NEW c, c.call = k, c.id \in Nat
  PROVE  LET tcs == Llm!Merged(calls, c) IN
         \A i \in Nat \ {0} :
           ArgsIn(tcs, i) = IF i = k /\ c.kind # "open" THEN Append(ArgsIn(calls, i), pos)
                            ELSE ArgsIn(calls, i)
<1> DEFINE n == IF Len(calls) < k THEN k ELSE Len(calls)
           grown == [i \in 1..n |-> IF i \in DOMAIN calls THEN calls[i] ELSE [id |-> 0, args |-> <<>>]]
           tcs == Llm!Merged(calls, c)
<1>1. DOMAIN calls = 1..Len(calls) /\ Len(calls) \in Nat /\ n \in Nat /\ k \in 1..n
      /\ \A i \in 1..Len(calls) : i \in 1..n
  OBVIOUS
<1>2. tcs = IF c.kind = "open" THEN [grown EXCEPT ![k].id = c.id]
            ELSE [grown EXCEPT ![k].args = Append(@, pos)]
  BY DEF Llm!Merged
<1>3. \A i \in 1..Len(calls) : calls[i] \in Entries
  OBVIOUS
<1> HIDE DEF n
<1>4. \A i \in 1..n : /\ grown[i].args = ArgsIn(calls, i)
                      /\ grown[i] \in [id : Nat, args : Seq(Nat)]
  BY <1>1, <1>3 DEF ArgsIn, Entries
<1>5. Len(grown) = n /\ DOMAIN grown = 1..n
  BY <1>1
<1> HIDE DEF grown
<1>6. Len(tcs) = n /\ DOMAIN tcs = 1..n
  BY <1>1, <1>2, <1>5
<1>7. \A i \in 1..n : tcs[i].args = IF i = k /\ c.kind # "open" THEN Append(grown[i].args, pos)
                                    ELSE grown[i].args
  BY <1>1, <1>2, <1>4, <1>5
<1> HIDE DEF tcs
<1>8. \A i \in Nat \ {0} : i \notin 1..n => i \notin 1..Len(calls) /\ i # k
  BY <1>1
<1>9. \A i \in Nat \ {0} :
        ArgsIn(tcs, i) = IF i = k /\ c.kind # "open" THEN Append(ArgsIn(calls, i), pos)
                         ELSE ArgsIn(calls, i)
  <2> SUFFICES ASSUME NEW i \in Nat \ {0}
               PROVE  ArgsIn(tcs, i) = IF i = k /\ c.kind # "open" THEN Append(ArgsIn(calls, i), pos)
                                       ELSE ArgsIn(calls, i)
    OBVIOUS
  <2>1. CASE i \in 1..n
    <3>1. ArgsIn(tcs, i) = tcs[i].args
      BY <1>6, <2>1 DEF ArgsIn
    <3> QED  BY <1>4, <1>7, <2>1, <3>1
  <2>2. CASE i \notin 1..n
    BY <1>6, <1>8, <2>2 DEF ArgsIn
  <2> QED  BY <2>1, <2>2
<1> QED  BY <1>9 DEF tcs

\* What a sequence was before something was put behind it does not matter to what it ends with.
LEMMA Ends == ASSUME NEW a \in Seq(Nat), NEW b \in Seq(Nat) PROVE Llm!IsSuffix(b, a \o b)
<1> DEFINE s == a \o b
           r == Llm!Reverse(b)
           t == Llm!Reverse(s)
           n == Len(b)
           m == Len(a)
<1>1. n \in Nat /\ m \in Nat /\ Len(s) = m + n /\ s \in Seq(Nat)
      /\ \A i \in 1..(m + n) : s[i] = IF i <= m THEN a[i] ELSE b[i - m]
  BY ConcatProperties
<1>2. b \in Seq(Nat) /\ \A i \in 1..n : b[i] \in Nat
  OBVIOUS
<1> HIDE DEF s
<1>3. Len(r) = n /\ \A i \in 1..n : r[i] = b[(n - i) + 1]
  BY <1>1 DEF Llm!Reverse
<1>4. Len(t) = m + n /\ \A i \in 1..(m + n) : t[i] = s[((m + n) - i) + 1]
  BY <1>1 DEF Llm!Reverse
<1>5. ASSUME NEW i \in 1..n PROVE r[i] = t[i] /\ r[i] \in Nat
  <2>1. /\ (n - i) + 1 \in 1..n /\ i \in 1..(m + n) /\ ((m + n) - i) + 1 \in 1..(m + n)
        /\ ~(((m + n) - i) + 1 <= m) /\ (((m + n) - i) + 1) - m = (n - i) + 1
    BY <1>1
  <2> HIDE DEF r, t, n, m
  <2> QED  BY <1>1, <1>2, <1>3, <1>4, <2>1
<1> HIDE DEF r, t, n, m
<1> DEFINE p == SubSeq(r, 1, n)
           q == SubSeq(t, 1, n)
<1>6. /\ p \in Seq(Nat) /\ Len(p) = n /\ \A i \in 1..n : p[i] = r[i]
      /\ q \in Seq(Nat) /\ Len(q) = n /\ \A i \in 1..n : q[i] = t[i]
  <2> HIDE DEF p, q
  <2>5. 1 \in Int /\ n \in Int
    BY <1>1
  <2>6. \A i \in 1..n : r[i] \in Nat /\ t[i] \in Nat
    BY <1>5, Zenon
  <2>1. 1 \in Int /\ n \in Int /\ (\A i \in 1..n : r[i] \in Nat) /\ (\A i \in 1..n : t[i] \in Nat)
    BY <2>5, <2>6, Zenon
  <2>2. (IF 1 <= n THEN n - 1 + 1 ELSE 0) = n /\ n - 1 + 1 = n /\ \A i \in 1..n : (1 + i) - 1 = i
    BY <1>1
  <2>3. /\ p \in Seq(Nat) /\ Len(p) = (IF 1 <= n THEN n - 1 + 1 ELSE 0)
        /\ \A i \in 1..(n - 1 + 1) : p[i] = r[1 + i - 1]
    BY <2>1, SubSeqProperties DEF p
  <2>4. /\ q \in Seq(Nat) /\ Len(q) = (IF 1 <= n THEN n - 1 + 1 ELSE 0)
        /\ \A i \in 1..(n - 1 + 1) : q[i] = t[1 + i - 1]
    BY <2>1, SubSeqProperties DEF q
  <2> QED  BY <2>2, <2>3, <2>4
<1> HIDE DEF p, q
<1>7. p = q
  BY <1>5, <1>6, SeqEqual
<1>8. Len(r) <= Len(t)
  BY <1>1, <1>3, <1>4
<1>9. SubSeq(r, 1, Len(r)) = SubSeq(t, 1, Len(r))
  BY <1>3, <1>7 DEF p, q
<1> QED  BY <1>8, <1>9 DEF Llm!IsSuffix, Llm!IsPrefix, r, t, s

\* What a chunk adds is what it is said to add.
LEMMA ChunkAdds ==
  ASSUME SentInv, Llm!Chunk
  PROVE  /\ text' \in Seq(Nat)
         /\ \A call \in Nat : Has(call)' = IF Llm!Adds(reply[pos], call) THEN Append(Has(call), pos)
                                          ELSE Has(call)
<1> DEFINE c == reply[pos]
           tcs == IF c.kind \in {"open", "args"} THEN Llm!Merged(calls, c) ELSE calls
<1>1. text \in Seq(Nat) /\ pos \in Nat \ {0} /\ calls \in Seq(Entries) /\ pos \in 1..Len(reply)
  BY RepliesAre DEF SentInv, LlmInv, Llm!Chunk
<1>2. c.id \in Nat /\ (c.kind \in {"open", "args"} => c.call \in Nat \ {0})
  <2>1. reply \in Replies \cup {<<>>}
    BY DEF SentInv, LlmInv
  <2> QED  BY <1>1, <2>1, RepliesAre
<1>3. /\ text' = IF c.kind = "text" THEN Append(text, pos) ELSE text
      /\ calls' = tcs
  BY DEF Llm!Chunk, Llm!Parsed
<1> HIDE DEF c
<1>4. text' \in Seq(Nat)
  BY <1>1, <1>3, AppendProperties
<1>5. ASSUME NEW call \in Nat \ {0}
      PROVE  ArgsIn(tcs, call) = IF Llm!Adds(c, call) THEN Append(ArgsIn(calls, call), pos)
                                 ELSE ArgsIn(calls, call)
  <2>1. Llm!Adds(c, call) <=> c.kind = "args" /\ c.call = call
    BY DEF Llm!Adds
  <2>2. CASE c.kind \in {"open", "args"}
    <3>1. tcs = Llm!Merged(calls, c) /\ c.call \in Nat \ {0}
      BY <1>2, <2>2
    <3> HIDE DEF tcs
    <3>2. ArgsIn(tcs, call) = IF call = c.call /\ c.kind # "open" THEN Append(ArgsIn(calls, call), pos)
                              ELSE ArgsIn(calls, call)
      BY <1>1, <1>2, <3>1, MergedArgs
    <3> QED  BY <2>1, <2>2, <3>2
  <2>3. CASE c.kind \notin {"open", "args"}
    BY <2>1, <2>3
  <2> QED  BY <2>2, <2>3
<1> HIDE DEF tcs
<1>6. ASSUME NEW call \in Nat
      PROVE  Has(call)' = IF Llm!Adds(c, call) THEN Append(Has(call), pos) ELSE Has(call)
  <2>1. CASE call = 0
    <3>1. Llm!Adds(c, call) <=> c.kind = "text"
      BY <2>1 DEF Llm!Adds
    <3> QED  BY <1>3, <2>1, <3>1 DEF Has
  <2>2. CASE call # 0
    <3>1. Has(call)' = ArgsIn(tcs, call) /\ Has(call) = ArgsIn(calls, call)
      BY <1>3, <2>2 DEF Has, ArgsIn
    <3> QED  BY <1>5, <2>2, <3>1
  <2> QED  BY <2>1, <2>2
<1> QED  BY <1>4, <1>6 DEF c

LEMMA SentChunk == ASSUME SentInv, Llm!Chunk PROVE SentInv'
<1>1. /\ pos \in Nat \ {0} /\ pos' = pos + 1 /\ pc = "streaming" /\ pc' = "streaming"
      /\ reply' = reply /\ attempt' = attempt
  BY DEF SentInv, LlmInv, Llm!Chunk
<1>2. LlmInv'
  BY ChunkStep DEF SentInv
<1>3. pos' - 1 = pos /\ pos \in Nat /\ pos - 1 \in Nat
  BY <1>1
<1>4. ASSUME NEW call \in Nat
      PROVE  \E old \in Seq(Nat) : Has(call)' = old \o Begun(reply, pos, call) /\ (attempt = 1 => old = <<>>)
  <2> DEFINE x == IF Llm!Adds(reply[pos], call) THEN <<pos>> ELSE <<>>
             q == Begun(reply, pos - 1, call)
  <2>1. PICK p \in Seq(Nat) : Has(call) = p \o q /\ (attempt = 1 => p = <<>>)
    BY <1>1 DEF SentInv
  <2>2. q \in Seq(Nat) /\ Begun(reply, pos, call) = q \o x
    BY <1>1, <1>3, BegunGrows
  <2>3. x \in Seq(Nat) /\ <<pos>> \in Seq(Nat)
    BY <1>1
  <2>5. Has(call)' = IF Llm!Adds(reply[pos], call) THEN Append(Has(call), pos) ELSE Has(call)
    BY ChunkAdds
  <2> HIDE DEF q
  <2>6. p \o q \in Seq(Nat)
    BY <2>1, <2>2, ConcatProperties
  <2>7. Has(call)' = (p \o q) \o x
    <3>1. Append(p \o q, pos) = (p \o q) \o <<pos>> /\ (p \o q) \o <<>> = p \o q
      BY <1>1, <2>6, AppendIsConcat, ConcatEmptySeq
    <3> QED  BY <2>1, <2>5, <3>1
  <2> HIDE DEF x
  <2>8. (p \o q) \o x = p \o (q \o x)
    BY <2>1, <2>2, <2>3, Regrouped
  <2>9. Has(call)' = p \o Begun(reply, pos, call)
    BY <2>2, <2>7, <2>8
  <2> QED  BY <2>1, <2>9
<1>5. ASSUME NEW call \in Nat
      PROVE  (\E old \in Seq(Nat) : Has(call) = old \o Begun(reply, pos - 1, call) /\ (attempt = 1 => old = <<>>))'
  BY <1>1, <1>3, <1>4
<1>6. text' \in Seq(Nat)
  BY ChunkAdds
<1> QED  BY <1>2, <1>5, <1>6 DEF SentInv

LEMMA SentStep == ASSUME SentInv, Llm!Next \/ UNCHANGED llmVars PROVE SentInv'
<1>1. LlmInv' /\ text \in Seq(Nat)
  BY LlmStep DEF SentInv
<1>2. CASE Llm!Chunk
  BY <1>2, SentChunk
<1>3. CASE Llm!Connect
  <2>1. /\ text' = text /\ calls' = calls /\ attempt' = attempt /\ pc = "asking"
        /\ reply' \in Replies /\ pos' = 1
    BY <1>3 DEF Llm!Connect, Llm!received
  <2>2. ASSUME NEW call \in Nat
        PROVE  \E old \in Seq(Nat) : Has(call)' = old \o Begun(reply', pos' - 1, call) /\ (attempt' = 1 => old = <<>>)
    <3>1. Has(call)' = Has(call) /\ Has(call) \in Seq(Nat)
      <4>1. calls \in Seq(Entries) /\ <<>> \in Seq(Nat)
        BY DEF SentInv, LlmInv
      <4>2. \A i \in 1..Len(calls) : calls[i].args \in Seq(Nat)
        <5>1. \A i \in 1..Len(calls) : calls[i] \in Entries
          BY <4>1
        <5> QED  BY <5>1 DEF Entries
      <4>3. ArgsIn(calls, call) \in Seq(Nat)
        BY <4>1, <4>2 DEF ArgsIn
      <4> QED  BY <1>1, <2>1, <4>3 DEF Has, ArgsIn
    <3>2. attempt' = 1 => Has(call) = <<>>
      BY <2>1 DEF SentInv, LlmInv, Has, ArgsIn
    <3>3. pos' - 1 = 0 /\ Begun(reply', 0, call) = <<>>
      BY <2>1, BegunGrows
    <3> HIDE DEF Has
    <3>4. Has(call) \o <<>> = Has(call)
      BY <3>1, ConcatEmptySeq
    <3>5. Has(call)' = Has(call) \o Begun(reply', pos' - 1, call)
      BY <3>1, <3>3, <3>4
    <3> QED  BY <3>1, <3>2, <3>5
  <2> QED  BY <1>1, <2>1, <2>2 DEF SentInv
<1>4. CASE (Llm!Next /\ ~Llm!Chunk /\ ~Llm!Connect) \/ UNCHANGED llmVars
  <2>1. /\ text' = text /\ calls' = calls /\ reply' = reply /\ pos' = pos
        /\ pc' \in {"streaming", "done"} => pc \in {"streaming", "done"} /\ attempt' = attempt
    BY <1>4
       DEF Llm!Next, Llm!EndOfStream, Llm!Interrupted, Llm!Breaks, Llm!Malformed, Llm!Retry,
           Llm!InterruptArrives, Llm!Cancelled, Llm!received, llmVars
  <2>2. \A call \in Nat : Has(call)' = Has(call)
    BY <2>1 DEF Has, ArgsIn
  <2>3. ASSUME pc' \in {"streaming", "done"}, NEW call \in Nat
        PROVE  \E old \in Seq(Nat) : Has(call)' = old \o Begun(reply', pos' - 1, call) /\ (attempt' = 1 => old = <<>>)
    <3>1. PICK old \in Seq(Nat) : Has(call) = old \o Begun(reply, pos - 1, call) /\ (attempt = 1 => old = <<>>)
      BY <2>1, <2>3 DEF SentInv
    <3> QED  BY <2>1, <2>2, <2>3, <3>1
  <2> QED  BY <1>1, <2>1, <2>3 DEF SentInv
<1> QED  BY <1>2, <1>3, <1>4

LEMMA SentPart == Spec => []SentInv
<1>1. Init => SentInv
  <2> SUFFICES ASSUME Init PROVE SentInv
    OBVIOUS
  <2>1. LlmInv /\ pc = "asking" /\ text = <<>>
    BY LlmInit DEF Init, Llm!Init
  <2>2. text \in Seq(Nat)
    BY <2>1
  <2> QED  BY <2>1, <2>2 DEF SentInv
<1>2. SentInv /\ [Next]_<<scene, event, msgs, partVars>> => SentInv'
  <2>1. [Next]_<<scene, event, msgs, partVars>> => Llm!Next \/ UNCHANGED llmVars
    BY DEF Next, partVars
  <2> QED  BY <2>1, SentStep
<1> QED  BY <1>1, <1>2, PTL DEF Spec

\* Whatever each attempt is answered, a call that succeeds ends with the whole reply of
\* its last attempt, in the text and in every call's arguments, under the ids that this
\* reply gave; if there was one attempt only, with nothing in front.
THEOREM ReplyIsWhole == Spec => []LastReplyIsWhole
<1>1. SentInv => LastReplyIsWhole
  <2> SUFFICES ASSUME SentInv, pc = "done" PROVE Llm!LastReplyIsWhole
    BY DEF LastReplyIsWhole, Llm!LastReplyIsWhole
  <2> DEFINE n == Len(reply)
  <2>1. pos - 1 = n /\ n \in Nat /\ DOMAIN calls = 1..Len(calls) /\ DOMAIN reply = 1..n
    <3>1. /\ reply \in Replies \cup {<<>>} /\ calls \in Seq(Entries) /\ pos \in Nat
          /\ pos <= Len(reply) + 1 /\ pos > Len(reply)
      BY DEF SentInv, LlmInv
    <3>2. Len(reply) \in Nat /\ DOMAIN reply = 1..Len(reply)
      BY <3>1, RepliesAre
    <3> QED  BY <3>1, <3>2
  <2>2. \A call : Llm!Gives(call) = Begun(reply, n, call)
    BY DEF Llm!Gives, Begun, Chosen, Llm!FlattenSeq, FlattenSeq
  <2>3. ASSUME NEW call \in Nat
        PROVE  Llm!IsSuffix(Llm!Gives(call), Has(call)) /\ (attempt = 1 => Has(call) = Llm!Gives(call))
    <3> DEFINE b == Begun(reply, n, call)
    <3>1. PICK old \in Seq(Nat) : Has(call) = old \o b /\ (attempt = 1 => old = <<>>)
      BY <2>1 DEF SentInv
    <3>2. b \in Seq(Nat)
      BY <2>1, BegunGrows
    <3> HIDE DEF b
    <3>3. Llm!IsSuffix(b, old \o b) /\ <<>> \o b = b
      BY <3>2, Ends, ConcatEmptySeq
    <3>4. Llm!Gives(call) = b
      BY <2>2 DEF b
    <3> QED  BY <3>1, <3>3, <3>4
  <2>4. Has(0) = text /\ 0 \in Nat
    BY DEF Has
  <2>5. \A k \in DOMAIN calls : k \in Nat /\ Has(k) = calls[k].args
    BY <2>1 DEF Has, ArgsIn
  <2>6. \A i \in Llm!Opens : reply[i].call \in DOMAIN calls /\ calls[reply[i].call].id = reply[i].id
    <3>1. \A i \in Llm!Opens : i < pos
      BY <2>1 DEF Llm!Opens, SentInv, LlmInv
    <3> QED  BY <2>1, <3>1 DEF SentInv, LlmInv
  <2> QED  BY <2>3, <2>4, <2>5, <2>6 DEF Llm!LastReplyIsWhole
<1> QED  BY <1>1, SentPart, PTL
=============================================================================
