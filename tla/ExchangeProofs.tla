--------------------------- MODULE ExchangeProofs ---------------------------
(***************************************************************************)
(* Proofs about Exchange for every number and content of messages in both  *)
(* directions, any loss, ids reused on both sides, and a poll() and clean()*)
(* that run at any point of send().                                        *)
(*                                                                         *)
(* OwnReadable looks at the wire only.  What is sent last comes from       *)
(* `messages', what is stored there was enciphered with what the context   *)
(* held then, and poll() may have replaced that since Rekey.  Vectors      *)
(* follows the vector through these places; Kept, Underway and Followed    *)
(* do the same with the packets themselves.                                *)
(***************************************************************************)
EXTENDS Exchange, CodecProofs

\* A packet that says what it was enciphered with, or whose message was disturbed.
Readable(p) == p.with # -p.of => -p.of \in disturbed

EntrySet == [id : OwnIds, expiration : Nat]

SendTypeOK ==
    /\ own \in 0 .. NumOwn
    /\ phase # "idle" => own # 0
    /\ clock \in Nat
    /\ phase \in {"idle", "announce", "encipher", "store", "transmit"}
    /\ phase # "idle" => entry \in EntrySet
    /\ DOMAIN messages \subseteq EntrySet
    /\ DOMAIN ctx = {"key", "iv"}

\* The vector of the own message, from Rekey to the packets that carry it.
Vectors ==
    /\ phase \in {"announce", "encipher"} =>
         (ctx.key = "big_endian" /\ ctx.iv = -own) \/ -own \in disturbed
    /\ phase = "store" => with = -own \/ -own \in disturbed
    /\ \A e \in DOMAIN messages : \A i \in DOMAIN messages[e] : Readable(messages[e][i])
    /\ \A i \in DOMAIN queue : Readable(queue[i])

\* Everything that holds packets is a sequence.
IsSequence(s) == s \in Seq(Range(s))

Sequenced ==
    /\ IsSequence(wire)
    /\ IsSequence(queue)
    /\ \A e \in DOMAIN messages : IsSequence(messages[e])

\* The entry being sent has not expired, so clean() leaves it alone.
Leased ==
    /\ phase # "idle" => clock < entry.expiration
    /\ NothingFreedInUse

SendInv == SendTypeOK /\ Sequenced /\ Vectors /\ Leased /\ OwnReadable

-----------------------------------------------------------------------------
(* Lemmas *)

\* Sequence u has no element but those of s and t.
MadeOf(u, s, t) ==
    /\ IsSequence(u)
    /\ \A i \in DOMAIN u :
         (\E j \in DOMAIN s : u[i] = s[j]) \/ (\E j \in DOMAIN t : u[i] = t[j])

(* A sequence extended by another one. *)
LEMMA Joined ==
    ASSUME NEW s, NEW t, IsSequence(s), IsSequence(t)
    PROVE  MadeOf(s \o t, s, t)
<1> USE DEF IsSequence
<1> DEFINE S == Range(s) \cup Range(t)
<1>1. s \in Seq(S) /\ t \in Seq(S)
  <2>1. Range(s) \subseteq S /\ Range(t) \subseteq S
    OBVIOUS
  <2> HIDE DEF S
  <2>2. ASSUME NEW A, NEW B, A \subseteq B, NEW q \in Seq(A) PROVE q \in Seq(B)
    BY <2>2
  <2> QED  BY <2>1, <2>2
<1> HIDE DEF S
<1>2. s \o t \in Seq(S)
  BY <1>1
<1>3. /\ Len(s) \in Nat /\ DOMAIN s = 1 .. Len(s)
      /\ Len(t) \in Nat /\ DOMAIN t = 1 .. Len(t)
      /\ DOMAIN (s \o t) = 1 .. Len(s) + Len(t)
  BY <1>1
<1>4. \A i \in 1 .. Len(s) + Len(t) :
        (s \o t)[i] = IF i <= Len(s) THEN s[i] ELSE t[i - Len(s)]
  BY <1>1
<1>5. \A i \in DOMAIN (s \o t) :
        (\E j \in DOMAIN s : (s \o t)[i] = s[j]) \/ (\E j \in DOMAIN t : (s \o t)[i] = t[j])
  <2> TAKE i \in DOMAIN (s \o t)
  <2>1. CASE i <= Len(s)
    BY <1>3, <1>4, <2>1
  <2>2. CASE i > Len(s)
    <3>1. i - Len(s) \in DOMAIN t
      BY <1>3, <2>2
    <3> QED  BY <1>3, <1>4, <2>2, <3>1
  <2> QED  BY <1>3, <2>1, <2>2
<1>6. s \o t \in Seq(Range(s \o t))
  <2> DEFINE u == s \o t
  <2>1. u \in Seq(S) /\ DOMAIN u = 1 .. Len(u)
    BY <1>2
  <2>2. \A i \in 1 .. Len(u) : u[i] \in Range(u)
    BY <2>1 DEF Range
  <2> HIDE DEF u
  <2>3. u \in Seq(Range(u))
    BY <2>1, <2>2
  <2> QED  BY <2>3 DEF u
<1> QED  BY <1>5, <1>6 DEF MadeOf

(* A sequence with one more element. *)
LEMMA Appended ==
    ASSUME NEW s, NEW x, IsSequence(s)
    PROVE  /\ IsSequence(Append(s, x))
           /\ \A i \in DOMAIN Append(s, x) :
                Append(s, x)[i] = x \/ (i \in DOMAIN s /\ Append(s, x)[i] = s[i])
<1> DEFINE S == Range(s) \cup {x}
           u == Append(s, x)
<1>1. s \in Seq(S)
  <2>1. Range(s) \subseteq S
    OBVIOUS
  <2> HIDE DEF S
  <2>2. ASSUME NEW A, NEW B, A \subseteq B, NEW q \in Seq(A) PROVE q \in Seq(B)
    BY <2>2
  <2> QED  BY <2>1, <2>2 DEF IsSequence
<1>2. x \in S
  OBVIOUS
<1> HIDE DEF S
<1>3. u \in Seq(S) /\ DOMAIN u = 1 .. Len(s) + 1 /\ DOMAIN s = 1 .. Len(s) /\ Len(s) \in Nat
  BY <1>1, <1>2
<1>4. \A i \in 1 .. Len(s) + 1 : u[i] = IF i <= Len(s) THEN s[i] ELSE x
  BY <1>1, <1>2
<1>5. \A i \in 1 .. Len(u) : u[i] \in Range(u)
  BY <1>3 DEF Range
<1> HIDE DEF u
<1>6. IsSequence(u)
  BY <1>3, <1>5 DEF IsSequence
<1>7. \A i \in DOMAIN u : u[i] = x \/ (i \in DOMAIN s /\ u[i] = s[i])
  BY <1>3, <1>4
<1> QED  BY <1>6, <1>7 DEF u

(* A sequence without its first element. *)
LEMMA Shortened ==
    ASSUME NEW s, IsSequence(s), s # <<>>
    PROVE  /\ IsSequence(Tail(s))
           /\ 1 \in DOMAIN s /\ Head(s) = s[1]
           /\ \A i \in DOMAIN Tail(s) : i + 1 \in DOMAIN s /\ Tail(s)[i] = s[i + 1]
<1> DEFINE S == Range(s)
           u == Tail(s)
<1>1. s \in Seq(S)
  BY DEF IsSequence
<1> HIDE DEF S
<1>2. u \in Seq(S) /\ DOMAIN u = 1 .. Len(s) - 1 /\ DOMAIN s = 1 .. Len(s) /\ Len(s) \in Nat \ {0}
  BY <1>1
<1>3. Head(s) = s[1] /\ \A i \in 1 .. Len(s) - 1 : u[i] = s[i + 1]
  BY <1>1
<1> HIDE DEF u
<1>4. \A i \in 1 .. Len(u) : u[i] \in Range(u)
  BY <1>2 DEF Range
<1>5. IsSequence(u)
  BY <1>2, <1>4 DEF IsSequence
<1> QED  BY <1>2, <1>3, <1>5 DEF u

(* The client's commands are finitely many, and each is cut into few packets. *)
LEMMA CommandFacts ==
    /\ NumOwn \in Nat
    /\ \A n \in Own : OwnFrags(n) \in Nat \ {0}
<1>1. Commands \in Seq([cmd : {"PRESET", "FLAG", "TEXT"}, text : Texts])
  BY ExchangeAssumption
<1>2. NumOwn \in Nat
  BY <1>1 DEF NumOwn
<1>3. ASSUME NEW n \in Own PROVE OwnFrags(n) \in Nat \ {0}
  <2>1. Commands[n] \in [cmd : {"PRESET", "FLAG", "TEXT"}, text : Texts]
    <3>1. ASSUME NEW S, NEW s \in Seq(S), NEW i \in 1 .. Len(s) PROVE s[i] \in S
      OBVIOUS
    <3> QED  BY <1>1, <1>3, <3>1, Zenon DEF Own, NumOwn
  <2>2. Len(Commands[n].text) \in 1 .. 256
    <3>1. ASSUME NEW t \in Texts PROVE Len(t) \in 1 .. 256
      BY <3>1, Zenon DEF Texts
    <3>2. Commands[n].text \in Texts
      BY <2>1
    <3> QED  BY <3>1, <3>2, Zenon
  <2>3. on_data(Commands[n]).size \in 1 .. 256
    <3>1. ASSUME NEW c, NEW size \in 1 .. 256, c.cmd = "TEXT", Len(c.text) = size
          PROVE  on_data(c).size = size
      BY <3>1 DEF on_data
    <3>2. ASSUME NEW c, c.cmd \in {"PRESET", "FLAG"} PROVE on_data(c).size = 1
      BY <3>2 DEF on_data
    <3>3. Commands[n].cmd \in {"PRESET", "FLAG"} \/ Commands[n].cmd = "TEXT"
      BY <2>1
    <3>4. CASE Commands[n].cmd = "TEXT"
      <4>1. on_data(Commands[n]).size = Len(Commands[n].text)
        BY <2>2, <3>1, <3>4, Zenon
      <4> QED  BY <2>2, <4>1, Zenon
    <3>5. CASE Commands[n].cmd \in {"PRESET", "FLAG"}
      BY <3>2, <3>5
    <3> QED  BY <3>3, <3>4, <3>5
  <2> DEFINE size == on_data(Commands[n]).size
  <2> HIDE DEF size
  <2>4. totalFragments(size) \in 1 .. 3
    BY <2>3, FragmentsFit DEF size
  <2> QED  BY <2>4 DEF OwnFrags, size
<1> QED  BY <1>2, <1>3

(* The packets of own message m. *)
LEMMA NewPackets ==
    ASSUME NEW m \in Own, NEW w
    PROVE  LET new == [k \in 1 .. OwnFrags(m) |-> OwnPacket(m, k, w)]
           IN  IsSequence(new) /\ DOMAIN new = 1 .. OwnFrags(m) /\ OwnFrags(m) \in Nat \ {0}
<1> DEFINE n == OwnFrags(m)
           new == [k \in 1 .. n |-> OwnPacket(m, k, w)]
<1>1. DOMAIN new = 1 .. n /\ n \in Nat \ {0}
  BY CommandFacts
<1>2. \A k \in 1 .. n : new[k] \in Range(new)
  BY <1>1 DEF Range
<1>3. new = [k \in 1 .. n |-> new[k]]
  OBVIOUS
<1> HIDE DEF new, n
<1>4. new \in Seq(Range(new))
  BY <1>1, <1>2, <1>3
<1> QED  BY <1>1, <1>4 DEF IsSequence, new, n

(* What the housekeeping thread and the peer do to the context of a message that *)
(* send() has not yet enciphered: nothing, or the message counts as disturbed.   *)
LEMMA ReceivingDisturbs ==
    ASSUME Receiving, Note, DOMAIN ctx = {"key", "iv"}
    PROVE  /\ UNCHANGED outbound
           /\ DOMAIN ctx' = {"key", "iv"}
           /\ OwnOpen => ctx' = ctx \/ -own \in disturbed'
<1>1. UNCHANGED outbound
  BY DEF Receiving
<1>2. CASE PeerSend \/ receive \/ Lose \/ PollErase
  BY <1>1, <1>2 DEF PeerSend, receive, Lose, PollErase
<1>3. ASSUME NEW id \in Ids, PollTake(id)
      PROVE  DOMAIN ctx' = {"key", "iv"} /\ (OwnOpen => -own \in disturbed')
  <2>1. DOMAIN ctx' = {"key", "iv"}
    BY <1>3 DEF PollTake, PollMessage, PollHandshake, PollOther
  <2>2. task' # Idle
    BY <1>3, IdAssumption DEF PollTake
  <2>3. PeerOpen'
    BY <2>2 DEF PeerOpen, Polled
  <2>4. OwnOpen => OwnOpen' /\ own' = own
    BY <1>1 DEF outbound, sending, OwnOpen
  <2> QED  BY <2>1, <2>3, <2>4 DEF Note
<1> QED  BY <1>1, <1>2, <1>3 DEF Receiving, poll

\* At the start no vector is under way.
LEMMA SendInit == ExchangeInit => SendInv
<1> SUFFICES ASSUME ExchangeInit PROVE SendInv
  OBVIOUS
<1> USE DEF ExchangeInit
<1>1. DOMAIN ctx = {"key", "iv"}
  BY DEF Init
<1>2. IsSequence(<<>>)
  BY DEF IsSequence
<1>3. SendTypeOK
  BY <1>1, CommandFacts DEF SendTypeOK
<1>4. Sequenced
  BY <1>2 DEF Sequenced
<1>5. Vectors
  BY DEF Vectors
<1> QED  BY <1>3, <1>4, <1>5 DEF SendInv, Leased, NothingFreedInUse, OwnReadable

(* What has been disturbed stays so: nothing readable becomes unreadable. *)
LEMMA ReadableStays ==
    ASSUME Note
    PROVE  /\ \A n : n \in disturbed => n \in disturbed'
           /\ \A p : (p.with # -p.of => -p.of \in disturbed) => (p.with # -p.of => -p.of \in disturbed')
BY DEF Note

-----------------------------------------------------------------------------
(* Each step keeps the invariant *)

\* One lemma per action; receive() and poll() touch no vector of an own message
\* without disturbing it.
LEMMA ReceivingStep == SendInv /\ Receiving /\ Note => SendInv'
<1> SUFFICES ASSUME SendInv, Receiving, Note PROVE SendInv'
  OBVIOUS
<1> USE DEF SendInv
<1>1. /\ UNCHANGED outbound
      /\ DOMAIN ctx' = {"key", "iv"}
      /\ OwnOpen => ctx' = ctx \/ -own \in disturbed'
  BY ReceivingDisturbs DEF SendTypeOK
<1> USE DEF outbound, sending, store
<1>2. SendTypeOK'
  BY <1>1 DEF SendTypeOK
<1>3. Sequenced'
  BY <1>1 DEF Sequenced
<1>4. Vectors'
  BY <1>1, ReadableStays DEF Vectors, Readable, OwnOpen
<1>5. Leased'
  BY <1>1 DEF Leased, NothingFreedInUse, Stored, SameEntry
<1>6. OwnReadable'
  BY <1>1, ReadableStays DEF OwnReadable
<1> QED  BY <1>2, <1>3, <1>4, <1>5, <1>6

\* encryption_handshake: the context and the vector of the new message.
LEMMA RekeyStep == SendInv /\ Rekey /\ Note => SendInv'
<1> SUFFICES ASSUME SendInv, Rekey, Note PROVE SendInv'
  OBVIOUS
<1> USE DEF SendInv, Rekey
<1>1. Lease \in Nat \ {0}
  BY ExchangeAssumption
<1>2. SendTypeOK'
  BY <1>1, CommandFacts DEF SendTypeOK, store, EntrySet
<1>3. Sequenced'
  BY DEF Sequenced, store
<1>4. Vectors'
  <2>1. ctx'.key = "big_endian" /\ ctx'.iv = -own'
    OBVIOUS
  <2> QED  BY <2>1, ReadableStays DEF Vectors, Readable, store
<1>5. Leased'
  BY <1>1 DEF Leased, NothingFreedInUse, SendTypeOK, store
<1>6. OwnReadable'
  BY ReadableStays DEF OwnReadable
<1> QED  BY <1>2, <1>3, <1>4, <1>5, <1>6

\* The handshake is sent, with the vector of the context.
LEMMA AnnounceStep == SendInv /\ Announce /\ Note => SendInv'
<1> SUFFICES ASSUME SendInv, Announce, Note PROVE SendInv'
  OBVIOUS
<1> USE DEF SendInv, Announce, vars, store
<1>1. SendTypeOK'
  BY DEF SendTypeOK
<1>2. Sequenced'
  BY Appended DEF Sequenced
<1>3. Vectors'
  BY ReadableStays DEF Vectors, Readable
<1>4. Leased'
  BY DEF Leased, NothingFreedInUse
<1>5. OwnReadable'
  <2> DEFINE p == OwnPacket(own, 0, -own)
  <2>1. p.with = -p.of
    BY DEF OwnPacket
  <2>2. \A i \in DOMAIN Append(wire, p) :
          Append(wire, p)[i] = p \/ (i \in DOMAIN wire /\ Append(wire, p)[i] = wire[i])
    BY Appended DEF Sequenced
  <2> HIDE DEF p
  <2> QED  BY <2>1, <2>2, ReadableStays DEF OwnReadable, p
<1> QED  BY <1>1, <1>2, <1>3, <1>4, <1>5

\* The text is enciphered, with the announced vector unless disturbed.
LEMMA EncipherStep == SendInv /\ Encipher /\ Note => SendInv'
<1> SUFFICES ASSUME SendInv, Encipher, Note PROVE SendInv'
  OBVIOUS
<1> USE DEF SendInv, Encipher, store
<1>1. SendTypeOK'
  BY DEF SendTypeOK
<1>2. Sequenced'
  BY DEF Sequenced
<1>3. Vectors'
  BY ReadableStays DEF Vectors, Readable
<1>4. Leased'
  BY DEF Leased, NothingFreedInUse, Stored, SameEntry
<1>5. OwnReadable'
  BY ReadableStays DEF OwnReadable
<1> QED  BY <1>1, <1>2, <1>3, <1>4, <1>5

\* The packets go into `messages', with a new lease or after old ones.
LEMMA StoreStep == SendInv /\ Store /\ Note => SendInv'
<1> SUFFICES ASSUME SendInv, Store, Note PROVE SendInv'
  OBVIOUS
<1> DEFINE e == IF Stored(entry) = {} THEN entry ELSE CHOOSE f \in Stored(entry) : TRUE
           old == IF e \in DOMAIN messages THEN messages[e] ELSE <<>>
           new == [k \in 1 .. OwnFrags(own) |-> OwnPacket(own, k, with)]
<1> USE DEF SendInv
<1>1. /\ messages' = [f \in DOMAIN messages \cup {e} |-> IF f = e THEN old \o new ELSE messages[f]]
      /\ queue' = old \o new
      /\ phase = "store" /\ phase' = "transmit"
      /\ UNCHANGED <<vars, own, entry, with, clock, wire>>
  BY DEF Store
<1>2. entry \in EntrySet
  BY <1>1 DEF SendTypeOK
<1>3. e \in EntrySet /\ SameEntry(entry, e)
  BY <1>2 DEF SendTypeOK, Stored, SameEntry
<1>4. IsSequence(old) /\ \A i \in DOMAIN old : Readable(old[i])
  <2>1. CASE e \in DOMAIN messages
    BY <2>1 DEF Sequenced, Vectors
  <2>2. CASE e \notin DOMAIN messages
    <3>1. old = <<>> /\ DOMAIN <<>> = {} /\ <<>> \in Seq(Range(<<>>))
      BY <2>2
    <3> QED  BY <3>1 DEF IsSequence
  <2> QED  BY <2>1, <2>2
<1>5. own \in Own
  BY <1>1, CommandFacts DEF SendTypeOK, Own
<1>6. IsSequence(new) /\ DOMAIN new = 1 .. OwnFrags(own)
  BY <1>5, NewPackets
<1>7. \A k \in DOMAIN new : Readable(new[k])
  <2> SUFFICES ASSUME NEW k \in DOMAIN new PROVE Readable(new[k])
    OBVIOUS
  <2>1. new[k].with = with /\ new[k].of = own
    BY DEF OwnPacket
  <2>2. with = -own \/ -own \in disturbed
    BY <1>1 DEF Vectors
  <2> HIDE DEF new
  <2> QED  BY <2>1, <2>2 DEF Readable
<1> HIDE DEF e, old, new
<1>8. IsSequence(old \o new) /\ \A i \in DOMAIN (old \o new) : Readable((old \o new)[i])
  <2>1. MadeOf(old \o new, old, new)
    BY <1>4, <1>6, Joined
  <2> DEFINE u == old \o new
  <2> HIDE DEF u
  <2>2. \A i \in DOMAIN u : Readable(u[i])
    BY <1>4, <1>7, <2>1 DEF MadeOf, u
  <2> QED  BY <2>1, <2>2 DEF MadeOf, u
<1>9. DOMAIN messages' = DOMAIN messages \cup {e}
  BY <1>1
<1>10. \A f \in DOMAIN messages' :
         messages'[f] = IF f = e THEN old \o new ELSE messages[f]
  BY <1>1
<1>11. SendTypeOK'
  BY <1>1, <1>2, <1>3, <1>9 DEF SendTypeOK, vars
<1>12. Sequenced'
  BY <1>1, <1>8, <1>9, <1>10 DEF Sequenced
<1>13. Vectors'
  <2>1. \A f \in DOMAIN messages' : \A i \in DOMAIN messages'[f] : Readable(messages'[f][i])
    BY <1>8, <1>9, <1>10 DEF Vectors
  <2>2. \A i \in DOMAIN queue' : Readable(queue'[i])
    BY <1>1, <1>8
  <2> QED  BY <1>1, <2>1, <2>2, ReadableStays DEF Vectors, Readable
<1>14. Leased'
  <2>1. e \in Stored(entry)'
    BY <1>1, <1>3, <1>9 DEF Stored, SameEntry
  <2> QED  BY <1>1, <2>1 DEF Leased, NothingFreedInUse
<1>15. OwnReadable'
  BY <1>1, ReadableStays DEF OwnReadable
<1> QED  BY <1>11, <1>12, <1>13, <1>14, <1>15

\* A packet goes out.
LEMMA TransmitStep == SendInv /\ Transmit /\ Note => SendInv'
<1> SUFFICES ASSUME SendInv, Transmit, Note PROVE SendInv'
  OBVIOUS
<1> USE DEF SendInv, Transmit, vars, store
<1>1. /\ IsSequence(Tail(queue)) /\ Readable(Head(queue))
      /\ \A i \in DOMAIN Tail(queue) : Readable(Tail(queue)[i])
  BY Shortened DEF Sequenced, Vectors
<1>2. SendTypeOK'
  BY DEF SendTypeOK
<1>3. Sequenced'
  BY <1>1, Appended DEF Sequenced
<1>4. Vectors'
  BY <1>1, ReadableStays DEF Vectors, Readable
<1>5. Leased'
  BY DEF Leased, NothingFreedInUse, Stored, SameEntry
<1>6. OwnReadable'
  <2> DEFINE p == Head(queue)
  <2>1. \A i \in DOMAIN Append(wire, p) :
          Append(wire, p)[i] = p \/ (i \in DOMAIN wire /\ Append(wire, p)[i] = wire[i])
    BY Appended DEF Sequenced
  <2>2. wire' = Append(wire, p) /\ Readable(p)
    BY <1>1
  <2> HIDE DEF p
  <2> QED  BY <2>1, <2>2, ReadableStays DEF OwnReadable, Readable
<1> QED  BY <1>2, <1>3, <1>4, <1>5, <1>6

\* send() is over.
LEMMA ReturnStep == SendInv /\ SendReturns /\ Note => SendInv'
<1> SUFFICES ASSUME SendInv, SendReturns, Note PROVE SendInv'
  OBVIOUS
<1> USE DEF SendInv, SendReturns, vars, store
<1>1. SendTypeOK'
  BY DEF SendTypeOK
<1>2. Sequenced'
  BY DEF Sequenced
<1>3. Vectors'
  BY ReadableStays DEF Vectors, Readable
<1>4. Leased'
  BY DEF Leased, NothingFreedInUse
<1>5. OwnReadable'
  BY ReadableStays DEF OwnReadable
<1> QED  BY <1>1, <1>2, <1>3, <1>4, <1>5

\* clean() frees expired entries, never the one being sent.
LEMMA CleanStep == SendInv /\ clean /\ Note => SendInv'
<1> SUFFICES ASSUME SendInv, clean, Note PROVE SendInv'
  OBVIOUS
<1> USE DEF SendInv, clean, vars, sending
<1>1. /\ DOMAIN messages' = {f \in DOMAIN messages : ~Expired(f)}
      /\ \A f \in DOMAIN messages' : messages'[f] = messages[f]
  OBVIOUS
<1>2. SendTypeOK'
  BY <1>1 DEF SendTypeOK
<1>3. Sequenced'
  BY <1>1 DEF Sequenced
<1>4. Vectors'
  BY <1>1, ReadableStays DEF Vectors, Readable
<1>5. Leased'
  <2>1. ASSUME phase = "transmit", NEW f \in Stored(entry) PROVE f \in Stored(entry)'
    <3>1. f \in DOMAIN messages /\ f.expiration = entry.expiration
      BY <2>1 DEF Stored, SameEntry
    <3>2. clock < entry.expiration /\ clock \in Nat /\ entry.expiration \in Nat
      BY <2>1 DEF Leased, SendTypeOK, EntrySet
    <3>3. ~Expired(f)
      BY <3>1, <3>2 DEF Expired
    <3> QED  BY <1>1, <2>1, <3>1, <3>3 DEF Stored, SameEntry
  <2> QED  BY <2>1 DEF Leased, NothingFreedInUse
<1>6. OwnReadable'
  BY ReadableStays DEF OwnReadable
<1> QED  BY <1>2, <1>3, <1>4, <1>5, <1>6

\* A second passes, within the lease of a message being sent.
LEMMA TickStep == SendInv /\ Tick /\ Note => SendInv'
<1> SUFFICES ASSUME SendInv, Tick, Note PROVE SendInv'
  OBVIOUS
<1> USE DEF SendInv, Tick, vars, sending
<1>1. SendTypeOK'
  BY DEF SendTypeOK
<1>2. Sequenced'
  BY DEF Sequenced
<1>3. Vectors'
  BY ReadableStays DEF Vectors, Readable
<1>4. Leased'
  BY DEF Leased, NothingFreedInUse, Stored, SameEntry
<1>5. OwnReadable'
  BY ReadableStays DEF OwnReadable
<1> QED  BY <1>1, <1>2, <1>3, <1>4, <1>5

\* Together: the invariant is inductive.
LEMMA SendStep == SendInv /\ [ExchangeNext]_allVars => SendInv'
<1> SUFFICES ASSUME SendInv, [ExchangeNext]_allVars PROVE SendInv'
  OBVIOUS
<1>1. CASE UNCHANGED allVars
  <2> USE <1>1 DEF SendInv, allVars, vars, outbound, sending, store
  <2>1. SendTypeOK' /\ Sequenced'
    BY DEF SendTypeOK, Sequenced
  <2>2. Vectors' /\ OwnReadable'
    BY DEF Vectors, Readable, OwnReadable
  <2>3. Leased'
    BY DEF Leased, NothingFreedInUse, Stored, SameEntry
  <2> QED  BY <2>1, <2>2, <2>3
<1> QED
  BY <1>1, ReceivingStep, RekeyStep, AnnounceStep, EncipherStep, StoreStep, TransmitStep,
     ReturnStep, CleanStep, TickStep
  DEF ExchangeNext, send, Silent

\* It holds in every state.
LEMMA SendInvariant == ExchangeSpec => []SendInv
<1>1. ExchangeInit => SendInv
  BY SendInit
<1>2. SendInv /\ [ExchangeNext]_allVars => SendInv'
  BY SendStep
<1> QED  BY <1>1, <1>2, PTL DEF ExchangeSpec

-----------------------------------------------------------------------------

(***************************************************************************)
(* poll() decrypts with the context that send() has just given a key and a *)
(* vector (packethandler.cpp 74, 117 against 188, 233), under no common    *)
(* mutex.  A packet that goes out enciphered with anything else than its   *)
(* handshake announced belongs to a message between whose handshake and    *)
(* encryption a message of the peer was open.                              *)
(***************************************************************************)
THEOREM OnlyOverlapSpoilsOwn == ExchangeSpec => []OwnReadable
<1>1. SendInv => OwnReadable
  BY DEF SendInv
<1> QED  BY <1>1, SendInvariant, PTL

(***************************************************************************)
(* clean() runs without phMutex (packethandler.cpp 147-160) and never frees *)
(* the packets that the last loop of send() is running over (267-270), as   *)
(* long as a message takes less time than its entry is kept.                *)
(***************************************************************************)
THEOREM CleanSparesSend == ExchangeSpec => []NothingFreedInUse
<1>1. SendInv => NothingFreedInUse
  BY DEF SendInv, Leased
<1> QED  BY <1>1, SendInvariant, PTL

-----------------------------------------------------------------------------
(* What is on the wire, for NoStrayFragment *)

\* The packets of one entry of `messages' all name it, and no two are the same.
Kept ==
    \A e \in DOMAIN messages : \A i \in DOMAIN messages[e] :
        /\ messages[e][i].entry = e /\ messages[e][i].nr # 0
        /\ messages[e][i].of \in 1 .. own
        /\ phase \in {"announce", "encipher", "store"} => messages[e][i].of # own
        /\ \A j \in DOMAIN messages[e] : j # i => messages[e][j] # messages[e][i]

\* The handshake of the own message is at a, and what has followed it and what
\* is still to follow are fragments under its entry, no two of them the same.
Begun(a) ==
    /\ a \in DOMAIN wire /\ wire[a].nr = 0 /\ wire[a].entry = entry
    /\ phase # "transmit" => a = Len(wire)
    /\ \A k \in a + 1 .. Len(wire) : wire[k].nr # 0
    /\ phase = "transmit" => \A i \in DOMAIN queue :
         /\ queue[i].nr # 0 /\ queue[i].entry = entry
         /\ \A j \in DOMAIN queue : j # i => queue[j] # queue[i]
         /\ \A k \in a + 1 .. Len(wire) : wire[k] # queue[i]

Underway == phase \in {"encipher", "store", "transmit"} => \E a \in Nat : Begun(a)

\* j is the handshake before packet i.
Announces(j, i) == j \in 1 .. i /\ wire[j].nr = 0 /\ \A k \in j + 1 .. i : wire[k].nr # 0

\* NoStrayFragment for the handshake that there is.
Followed ==
    \A i \in DOMAIN wire : \E j \in Nat :
        /\ Announces(j, i)
        /\ wire[i].of # wire[j].of => wire[i].entry = wire[j].entry
        /\ \A k \in j .. i - 1 : wire[k] # wire[i]

StrayInv == SendInv /\ Kept /\ Underway /\ Followed

(* The elements of a sequence that is extended by one, or by another one. *)
LEMMA AppendedAt ==
    ASSUME NEW s, NEW x, IsSequence(s)
    PROVE  /\ Len(s) \in Nat /\ DOMAIN s = 1 .. Len(s)
           /\ Len(Append(s, x)) = Len(s) + 1 /\ DOMAIN Append(s, x) = 1 .. Len(s) + 1
           /\ Append(s, x)[Len(s) + 1] = x
           /\ \A i \in 1 .. Len(s) : Append(s, x)[i] = s[i]
<1> DEFINE S == Range(s) \cup {x}
<1>1. s \in Seq(S)
  <2>1. Range(s) \subseteq S
    OBVIOUS
  <2> HIDE DEF S
  <2>2. ASSUME NEW A, NEW B, A \subseteq B, NEW q \in Seq(A) PROVE q \in Seq(B)
    BY <2>2
  <2> QED  BY <2>1, <2>2 DEF IsSequence
<1>2. x \in S
  OBVIOUS
<1> HIDE DEF S
<1> QED  BY <1>1, <1>2

\* Which of two joined queues a packet comes from.
LEMMA JoinedAt ==
    ASSUME NEW s, NEW t, IsSequence(s), IsSequence(t)
    PROVE  /\ Len(s) \in Nat /\ DOMAIN s = 1 .. Len(s)
           /\ Len(t) \in Nat /\ DOMAIN t = 1 .. Len(t)
           /\ DOMAIN (s \o t) = 1 .. Len(s) + Len(t)
           /\ \A i \in 1 .. Len(s) : (s \o t)[i] = s[i]
           /\ \A i \in Len(s) + 1 .. Len(s) + Len(t) :
                (s \o t)[i] = t[i - Len(s)] /\ i - Len(s) \in 1 .. Len(t)
<1> DEFINE S == Range(s) \cup Range(t)
<1>1. s \in Seq(S) /\ t \in Seq(S)
  <2>1. Range(s) \subseteq S /\ Range(t) \subseteq S
    OBVIOUS
  <2> HIDE DEF S
  <2>2. ASSUME NEW A, NEW B, A \subseteq B, NEW q \in Seq(A) PROVE q \in Seq(B)
    BY <2>2
  <2> QED  BY <2>1, <2>2 DEF IsSequence
<1> HIDE DEF S
<1>2. /\ Len(s) \in Nat /\ DOMAIN s = 1 .. Len(s)
      /\ Len(t) \in Nat /\ DOMAIN t = 1 .. Len(t)
      /\ DOMAIN (s \o t) = 1 .. Len(s) + Len(t)
  BY <1>1
<1>3. \A i \in 1 .. Len(s) + Len(t) :
        (s \o t)[i] = IF i <= Len(s) THEN s[i] ELSE t[i - Len(s)]
  BY <1>1
<1>4. \A i \in 1 .. Len(s) : (s \o t)[i] = s[i]
  BY <1>2, <1>3
<1>5. \A i \in Len(s) + 1 .. Len(s) + Len(t) :
        (s \o t)[i] = t[i - Len(s)] /\ i - Len(s) \in 1 .. Len(t)
  BY <1>2, <1>3
<1> QED  BY <1>2, <1>4, <1>5

(* The packets of two sequences that have none in common are all different. *)
LEMMA JoinedDistinct ==
    ASSUME NEW s, NEW t, IsSequence(s), IsSequence(t),
           \A i \in DOMAIN s, j \in DOMAIN s : j # i => s[j] # s[i],
           \A i \in DOMAIN t, j \in DOMAIN t : j # i => t[j] # t[i],
           \A i \in DOMAIN s, j \in DOMAIN t : s[i] # t[j]
    PROVE  \A i \in DOMAIN (s \o t), j \in DOMAIN (s \o t) : j # i => (s \o t)[j] # (s \o t)[i]
<1> DEFINE u == s \o t
           m == Len(s)
           n == Len(t)
<1>1. /\ m \in Nat /\ DOMAIN s = 1 .. m /\ n \in Nat /\ DOMAIN t = 1 .. n
      /\ DOMAIN u = 1 .. m + n
      /\ \A i \in 1 .. m : u[i] = s[i]
      /\ \A i \in m + 1 .. m + n : u[i] = t[i - m] /\ i - m \in 1 .. n
  BY JoinedAt
<1> HIDE DEF u, m, n
<1>2. ASSUME NEW i \in DOMAIN u, NEW j \in DOMAIN u, j # i PROVE u[j] # u[i]
  <2>1. CASE i \in 1 .. m /\ j \in 1 .. m
    BY <1>1, <1>2, <2>1
  <2>2. CASE i \in 1 .. m /\ j \in m + 1 .. m + n
    BY <1>1, <2>2
  <2>3. CASE i \in m + 1 .. m + n /\ j \in 1 .. m
    BY <1>1, <2>3
  <2>4. CASE i \in m + 1 .. m + n /\ j \in m + 1 .. m + n
    <3>1. i \in Int /\ j \in Int /\ i - m # j - m
      BY <1>1, <1>2, <2>4
    <3>2. i - m \in DOMAIN t /\ j - m \in DOMAIN t /\ u[i] = t[i - m] /\ u[j] = t[j - m]
      BY <1>1, <2>4
    <3>3. t[j - m] # t[i - m]
      BY <3>1, <3>2
    <3> QED  BY <3>2, <3>3
  <2> QED  BY <1>1, <2>1, <2>2, <2>3, <2>4
<1> QED  BY <1>2 DEF u

(* What was on the wire is followed by its own fragments still. *)
LEMMA FollowedStays ==
    ASSUME Followed, IsSequence(wire), NEW p, wire' = Append(wire, p),
           NEW j \in Nat, j \in 1 .. Len(wire) + 1,
           (Append(wire, p)[j]).nr = 0, \A k \in j + 1 .. Len(wire) + 1 : (Append(wire, p)[k]).nr # 0,
           p.of # (Append(wire, p)[j]).of => p.entry = (Append(wire, p)[j]).entry,
           \A k \in j .. Len(wire) : wire[k] # p
    PROVE  Followed'
<1> DEFINE n == Len(wire)
           w == Append(wire, p)
<1>1. /\ n \in Nat /\ DOMAIN wire = 1 .. n /\ DOMAIN w = 1 .. n + 1
      /\ w[n + 1] = p /\ \A i \in 1 .. n : w[i] = wire[i]
  BY AppendedAt
<1>2. /\ j \in 1 .. n + 1 /\ w[j].nr = 0 /\ \A k \in j + 1 .. n + 1 : w[k].nr # 0
      /\ p.of # w[j].of => p.entry = w[j].entry
      /\ \A k \in j .. n : wire[k] # p
      /\ wire' = w
  OBVIOUS
<1> HIDE DEF n, w
<1>3. ASSUME NEW i \in DOMAIN wire'
      PROVE  \E a \in Nat :
               /\ Announces(a, i)'
               /\ wire'[i].of # wire'[a].of => wire'[i].entry = wire'[a].entry
               /\ \A k \in a .. i - 1 : wire'[k] # wire'[i]
  <2>1. CASE i = n + 1
    <3>1. \A k \in j .. i - 1 : k \in 1 .. n /\ w[k] # w[i]
      BY <1>1, <1>2, <2>1
    <3>2. Announces(j, i)'
      BY <1>1, <1>2, <2>1 DEF Announces
    <3> QED  BY <1>1, <1>2, <2>1, <3>1, <3>2
  <2>2. CASE i # n + 1
    <3>1. i \in 1 .. n /\ i \in DOMAIN wire
      BY <1>1, <1>2, <2>2
    <3>2. PICK a \in Nat :
            /\ Announces(a, i)
            /\ wire[i].of # wire[a].of => wire[i].entry = wire[a].entry
            /\ \A k \in a .. i - 1 : wire[k] # wire[i]
      BY <3>1 DEF Followed
    <3>3. a \in 1 .. n /\ \A k \in a .. i : k \in 1 .. n
      BY <1>1, <3>1, <3>2 DEF Announces
    <3>4. Announces(a, i)'
      BY <1>1, <1>2, <3>1, <3>2, <3>3 DEF Announces
    <3>5. wire'[i] = wire[i] /\ wire'[a] = wire[a] /\ \A k \in a .. i - 1 : wire'[k] = wire[k]
      BY <1>1, <1>2, <3>1, <3>3
    <3>6. \A k \in a .. i - 1 : wire'[k] # wire'[i]
      BY <3>2, <3>5
    <3>7. wire'[i].of # wire'[a].of => wire'[i].entry = wire'[a].entry
      BY <3>2, <3>5
    <3> QED  BY <3>4, <3>6, <3>7
  <2> QED  BY <2>1, <2>2
<1> QED  BY <1>3 DEF Followed

(* Steps that leave what is sent and stored alone. *)
LEMMA StrayFrame ==
    ASSUME Kept, Underway, Followed, UNCHANGED <<own, queue, messages, wire>>,
           \/ entry' = entry /\ (phase' = phase \/ (phase = "encipher" /\ phase' = "store"))
           \/ phase' = "idle"
    PROVE  Kept' /\ Underway' /\ Followed'
<1>1. Kept'
  BY DEF Kept
<1>2. Followed'
  BY DEF Followed, Announces
<1>3. Underway'
  BY DEF Underway, Begun
<1> QED  BY <1>1, <1>2, <1>3

\* The steps of the invariant about fragments and their handshake.
LEMMA StrayStep == StrayInv /\ [ExchangeNext]_allVars => StrayInv'
<1> SUFFICES ASSUME StrayInv, [ExchangeNext]_allVars PROVE Kept' /\ Underway' /\ Followed'
  BY SendStep DEF StrayInv
<1>1. SendInv /\ SendInv' /\ Kept /\ Underway /\ Followed
  BY SendStep DEF StrayInv
<1>2. /\ own \in Nat /\ (phase # "idle" => own # 0)
      /\ IsSequence(wire) /\ IsSequence(queue)
      /\ \A e \in DOMAIN messages : IsSequence(messages[e])
  BY <1>1, CommandFacts DEF SendInv, SendTypeOK, Sequenced
<1>3. CASE Receiving \/ Tick \/ UNCHANGED allVars
  BY <1>1, <1>3, StrayFrame DEF Receiving, Tick, allVars, outbound, sending, store
<1>4. CASE Encipher \/ SendReturns
  BY <1>1, <1>4, StrayFrame DEF Encipher, SendReturns, store
<1>5. CASE Rekey
  <2>1. /\ phase = "idle" /\ phase' = "announce" /\ own' = own + 1
        /\ UNCHANGED <<queue, messages, wire>>
    BY <1>5 DEF Rekey, store
  <2>2. Kept'
    <3>1. \A n \in 1 .. own : n \in 1 .. own' /\ n # own'
      BY <1>2, <2>1
    <3> QED  BY <1>1, <2>1, <3>1 DEF Kept
  <2>3. Underway' /\ Followed'
    BY <1>1, <2>1 DEF Underway, Followed, Announces
  <2> QED  BY <2>2, <2>3
<1>6. CASE Announce
  <2> DEFINE p == OwnPacket(own, 0, -own)
  <2>0. PICK a \in Nat : a = Len(wire) + 1
    BY <1>2, AppendedAt
  <2>1. /\ phase = "announce" /\ phase' = "encipher" /\ wire' = Append(wire, p)
        /\ UNCHANGED <<own, entry, queue, messages>>
    BY <1>6 DEF Announce, store
  <2>2. p.nr = 0 /\ p.entry = entry /\ p.of = own
    BY DEF OwnPacket
  <2> HIDE DEF p
  <2>3. /\ DOMAIN wire' = 1 .. a /\ wire'[a] = p /\ Len(wire') = a
    BY <1>2, <2>0, <2>1, AppendedAt
  <2>4. Kept'
    BY <1>1, <2>1 DEF Kept
  <2>5. Underway'
    <3>1. Begun(a)'
      BY <2>1, <2>2, <2>3 DEF Begun
    <3> QED  BY <2>3, <3>1 DEF Underway
  <2>6. Followed'
    <3>1. (Append(wire, p)[a]).nr = 0 /\ p.of = (Append(wire, p)[a]).of /\ Len(wire) \in Nat
      BY <1>2, <2>0, <2>2, AppendedAt
    <3>2. a \in 1 .. Len(wire) + 1 /\ a + 1 .. Len(wire) + 1 = {} /\ a .. Len(wire) = {}
      BY <2>0, <3>1
    <3> QED  BY <1>1, <1>2, <2>1, <3>1, <3>2, FollowedStays
  <2> QED  BY <2>4, <2>5, <2>6
<1>7. CASE Store
  <2> DEFINE e == IF Stored(entry) = {} THEN entry ELSE CHOOSE f \in Stored(entry) : TRUE
             old == IF e \in DOMAIN messages THEN messages[e] ELSE <<>>
             new == [k \in 1 .. OwnFrags(own) |-> OwnPacket(own, k, with)]
  <2>1. /\ messages' = [f \in DOMAIN messages \cup {e} |-> IF f = e THEN old \o new ELSE messages[f]]
        /\ queue' = old \o new
        /\ phase = "store" /\ phase' = "transmit"
        /\ UNCHANGED <<own, entry, wire>>
    BY <1>7 DEF Store
  <2>2. e = entry
    <3>1. entry \in EntrySet /\ DOMAIN messages \subseteq EntrySet
      BY <1>1, <2>1 DEF SendInv, SendTypeOK
    <3>2. \A f \in EntrySet : SameEntry(entry, f) => f = entry
      BY <3>1 DEF EntrySet, SameEntry
    <3> QED  BY <3>1, <3>2 DEF Stored
  <2>3. own \in Own
    BY <1>1, <2>1, CommandFacts DEF SendInv, SendTypeOK, Own
  <2>4. /\ IsSequence(new) /\ DOMAIN new = 1 .. OwnFrags(own)
        /\ OwnFrags(own) \in Nat \ {0}
    BY <2>3, NewPackets
  <2>5. \A k \in DOMAIN new : /\ new[k].entry = entry /\ new[k].nr = k /\ new[k].nr # 0
                              /\ new[k].of = own
    BY <2>4 DEF OwnPacket
  <2>6. /\ IsSequence(old)
        /\ \A i \in DOMAIN old :
             /\ old[i].entry = entry /\ old[i].nr # 0 /\ old[i].of \in 1 .. own
             /\ old[i].of # own
             /\ \A j \in DOMAIN old : j # i => old[j] # old[i]
    <3>1. CASE e \in DOMAIN messages
      <4>1. old = messages[e]
        BY <3>1
      <4> HIDE DEF old, e
      <4> QED  BY <1>1, <1>2, <2>1, <2>2, <3>1, <4>1 DEF Kept
    <3>2. CASE e \notin DOMAIN messages
      <4>1. old = <<>> /\ DOMAIN <<>> = {} /\ <<>> \in Seq(Range(<<>>))
        BY <3>2
      <4> QED  BY <4>1 DEF IsSequence
    <3> QED  BY <3>1, <3>2
  <2> HIDE DEF e, old, new
  <2> DEFINE u == old \o new
  <2>7. \A i \in DOMAIN u, j \in DOMAIN u : j # i => u[j] # u[i]
    <3>1. \A i \in DOMAIN new, j \in DOMAIN new : j # i => new[j] # new[i]
      BY <2>5
    <3>2. \A i \in DOMAIN old, j \in DOMAIN new : old[i] # new[j]
      BY <2>5, <2>6
    <3> QED  BY <2>4, <2>6, <3>1, <3>2, JoinedDistinct
  <2>8. \A i \in DOMAIN u : u[i].entry = entry /\ u[i].nr # 0 /\ u[i].of \in 1 .. own
    <3>1. MadeOf(u, old, new)
      BY <2>4, <2>6, Joined
    <3>2. own \in 1 .. own
      BY <1>2, <2>1
    <3> HIDE DEF u
    <3> QED  BY <2>5, <2>6, <3>1, <3>2 DEF MadeOf
  <2>9. /\ DOMAIN messages' = DOMAIN messages \cup {entry}
        /\ \A f \in DOMAIN messages' : messages'[f] = IF f = entry THEN u ELSE messages[f]
    BY <2>1, <2>2
  <2> HIDE DEF u
  <2>10. Kept'
    <3>0. phase' = "transmit" /\ own' = own
      BY <2>1
    <3> SUFFICES ASSUME NEW f \in DOMAIN messages', NEW i \in DOMAIN messages'[f]
                 PROVE  /\ messages'[f][i].entry = f /\ messages'[f][i].nr # 0
                        /\ messages'[f][i].of \in 1 .. own
                        /\ \A j \in DOMAIN messages'[f] : j # i => messages'[f][j] # messages'[f][i]
      BY <3>0, Zenon DEF Kept
    <3>1. CASE f = entry
      <4>1. messages'[f] = u
        BY <2>9, <3>1
      <4> QED  BY <2>7, <2>8, <3>1, <4>1
    <3>2. CASE f # entry
      <4>1. messages'[f] = messages[f] /\ f \in DOMAIN messages
        BY <2>9, <3>2
      <4> QED  BY <1>1, <4>1 DEF Kept
    <3> QED  BY <3>1, <3>2
  <2>11. Underway'
    <3>1. PICK a \in Nat : Begun(a)
      BY <1>1, <2>1 DEF Underway
    <3>2. a + 1 .. Len(wire) = {}
      BY <2>1, <3>1 DEF Begun
    <3>3. Begun(a)'
      BY <2>1, <2>7, <2>8, <3>1, <3>2 DEF Begun, u
    <3> QED  BY <3>3 DEF Underway
  <2>12. Followed'
    BY <1>1, <2>1 DEF Followed, Announces
  <2> QED  BY <2>10, <2>11, <2>12
<1>8. CASE Transmit
  <2> DEFINE p == Head(queue)
             n == Len(wire)
  <2>1. /\ phase = "transmit" /\ wire' = Append(wire, p) /\ queue' = Tail(queue)
        /\ UNCHANGED <<own, entry, phase, messages>> /\ queue # <<>>
    BY <1>8 DEF Transmit, store
  <2>2. /\ 1 \in DOMAIN queue /\ p = queue[1]
        /\ \A i \in DOMAIN queue' : i \in Nat \ {0} /\ i + 1 \in DOMAIN queue /\ queue'[i] = queue[i + 1]
    <3>1. \A i \in DOMAIN Tail(queue) : i \in Nat \ {0}
      <4>1. Tail(queue) \in Seq(Range(Tail(queue)))
        BY <1>2, <2>1, Shortened DEF IsSequence
      <4> QED  BY <4>1
    <3> QED  BY <1>2, <2>1, <3>1, Shortened
  <2>3. PICK a \in Nat : Begun(a)
    BY <1>1, <2>1 DEF Underway
  <2>4. /\ n \in Nat /\ DOMAIN wire = 1 .. n /\ DOMAIN wire' = 1 .. n + 1 /\ Len(wire') = n + 1
        /\ wire'[n + 1] = p /\ \A i \in 1 .. n : wire'[i] = wire[i]
    BY <1>2, <2>1, AppendedAt
  <2>5. /\ p.nr # 0 /\ p.entry = entry
        /\ \A k \in a + 1 .. n : wire[k] # p
        /\ \A i \in DOMAIN queue' : queue'[i] # p
    <3>1. \A i \in Nat \ {0} : i + 1 # 1
      OBVIOUS
    <3> QED  BY <2>1, <2>2, <2>3, <3>1 DEF Begun
  <2> HIDE DEF p, n
  <2>6. a \in 1 .. n /\ wire[a].nr = 0 /\ wire[a].entry = entry /\ \A k \in a + 1 .. n : wire[k].nr # 0
    BY <2>3, <2>4 DEF Begun, n
  <2>7. Kept'
    BY <1>1, <2>1 DEF Kept
  <2>8. Underway'
    <3>1. \A k \in a + 1 .. n + 1 : wire'[k].nr # 0 /\ \A i \in DOMAIN queue' : wire'[k] # queue'[i]
      <4> TAKE k \in a + 1 .. n + 1
      <4>1. CASE k = n + 1
        BY <2>4, <2>5, <4>1
      <4>2. CASE k # n + 1
        <5>1. k \in a + 1 .. n /\ k \in 1 .. n
          BY <2>4, <2>6, <4>2
        <5> QED  BY <2>1, <2>2, <2>3, <2>4, <5>1 DEF Begun, n
      <4> QED  BY <4>1, <4>2
    <3>2. \A i \in DOMAIN queue' :
            /\ queue'[i].nr # 0 /\ queue'[i].entry = entry
            /\ \A j \in DOMAIN queue' : j # i => queue'[j] # queue'[i]
      <4>1. \A i \in Nat, j \in Nat : j # i => j + 1 # i + 1
        OBVIOUS
      <4> QED  BY <2>1, <2>2, <2>3, <4>1 DEF Begun
    <3>3. a \in DOMAIN wire' /\ wire'[a].nr = 0 /\ wire'[a].entry = entry
      BY <2>4, <2>6
    <3>4. Begun(a)'
      BY <2>1, <2>4, <3>1, <3>2, <3>3 DEF Begun
    <3> QED  BY <3>4 DEF Underway
  <2>9. Followed'
    <3>1. /\ \A k \in a .. n : wire[k] # p
          /\ a \in 1 .. n + 1
      <4>1. wire[a] # p
        BY <2>5, <2>6
      <4>2. \A k \in a .. n : k = a \/ k \in a + 1 .. n
        BY <2>4, <2>6
      <4> QED  BY <2>4, <2>5, <2>6, <4>1, <4>2
    <3>2. /\ (Append(wire, p)[a]).nr = 0 /\ (Append(wire, p)[a]).entry = p.entry
          /\ \A k \in a + 1 .. n + 1 : (Append(wire, p)[k]).nr # 0
      <4>1. \A k \in a + 1 .. n + 1 : k = n + 1 \/ (k \in a + 1 .. n /\ k \in 1 .. n)
        BY <2>4, <2>6
      <4> QED  BY <2>1, <2>4, <2>5, <2>6, <4>1
    <3> QED  BY <1>1, <1>2, <2>1, <3>1, <3>2, FollowedStays DEF n
  <2> QED  BY <2>7, <2>8, <2>9
<1>9. CASE clean
  <2>1. /\ UNCHANGED <<own, phase, entry, queue, wire>>
        /\ DOMAIN messages' \subseteq DOMAIN messages
        /\ \A f \in DOMAIN messages' : messages'[f] = messages[f]
    BY <1>9 DEF clean, sending
  <2>2. Kept'
    BY <1>1, <2>1 DEF Kept
  <2>3. Underway' /\ Followed'
    BY <1>1, <2>1 DEF Underway, Begun, Followed, Announces
  <2> QED  BY <2>2, <2>3
<1> QED
  BY <1>3, <1>4, <1>5, <1>6, <1>7, <1>8, <1>9 DEF ExchangeNext, send, Silent

(***************************************************************************)
(* send() transmits what `messages' holds for its entry, which may be more *)
(* than it has just put there (packethandler.cpp 265-270): whatever        *)
(* follows a handshake belongs to its message, or to an earlier one that   *)
(* was given the same id in the same second, whose fragments are then sent *)
(* again; and nothing comes twice after the same handshake.                *)
(***************************************************************************)
THEOREM FragmentsFollowHandshake == ExchangeSpec => []NoStrayFragment
<1>1. ExchangeInit => StrayInv
  BY SendInit DEF ExchangeInit, StrayInv, Kept, Underway, Followed
<1>2. StrayInv /\ [ExchangeNext]_allVars => StrayInv'
  BY StrayStep
<1>3. StrayInv => NoStrayFragment
  <2> SUFFICES ASSUME StrayInv, NEW i \in DOMAIN wire
               PROVE  /\ wire[i].of # wire[Announcement(i)].of =>
                            wire[i].entry = wire[Announcement(i)].entry
                      /\ \A j \in Announcement(i) .. i - 1 : wire[j] # wire[i]
    BY DEF NoStrayFragment
  <2>1. PICK a \in Nat :
          /\ Announces(a, i)
          /\ wire[i].of # wire[a].of => wire[i].entry = wire[a].entry
          /\ \A k \in a .. i - 1 : wire[k] # wire[i]
    BY DEF StrayInv, Followed
  <2>2. i \in Nat
    <3>1. wire \in Seq(Range(wire))
      BY DEF StrayInv, SendInv, Sequenced, IsSequence
    <3> QED  BY <3>1
  <2>3. Announces(Announcement(i), i)
    BY <2>1 DEF Announces, Announcement
  <2>4. Announcement(i) = a
    BY <2>1, <2>2, <2>3 DEF Announces
  <2> QED  BY <2>1, <2>4
<1> QED  BY <1>1, <1>2, <1>3, PTL DEF ExchangeSpec
=============================================================================
