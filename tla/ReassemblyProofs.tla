-------------------------- MODULE ReassemblyProofs --------------------------
(***************************************************************************)
(* Proofs about Reassembly, for every number of messages, any fragment     *)
(* counts and types, and any set of ids.                                   *)
(*                                                                         *)
(* Orderly says what is in the map.  It follows the bucket of the message  *)
(* being sent through its life: empty, holding the handshake, being taken, *)
(* collecting fragments, and done; and it holds with reused ids and lost   *)
(* handshakes, for as long as the id is not one under which an earlier     *)
(* message has left fragments.  A bucket that is complete while it         *)
(* collects has lost nothing, and then it is sorted already.               *)
(*                                                                         *)
(* From it follow what lingers in the map (OnlyLossIsLeft), that garbage   *)
(* is a consequence of loss (GarbageComesFromLoss) and, under the          *)
(* assumptions Dependable, that receive() and poll() implement             *)
(* MessageService although fragments are lost.  These need a poll() that   *)
(* keeps up (Prompt).  OrderInv does without, and says that a message once *)
(* delivered is never taken up again, nor one before it (GenuineInOrder).  *)
(***************************************************************************)
EXTENDS Reassembly, FiniteSetTheorems, WellFoundedInduction, TLAPS

\* No id is reused, poll() keeps up, handshakes arrive, the keys agree.
Dependable == FreshIds /\ Prompt /\ "ENCRYP" \notin Losable /\ Keyed

-----------------------------------------------------------------------------
(* Lemmas about numbers and about sorting *)

\* A set of natural numbers has a least element.
LEMMA LeastElement ==
    ASSUME NEW T, T \subseteq Nat, T # {}
    PROVE  \E x \in T : \A y \in T : x <= y
<1>1. PICK x \in T : \A y \in T : ~ (<<y, x>> \in OpToRel(<, Nat))
  BY NatLessThanWellFounded, WFMin
<1>2. ASSUME NEW y \in T, y < x PROVE FALSE
  <2> DEFINE p == <<y, x>>
  <2>1. p \in Nat \X Nat /\ p[1] = y /\ p[2] = x
    OBVIOUS
  <2> HIDE DEF p
  <2>2. p \in OpToRel(<, Nat)
    BY <2>1, <1>2 DEF OpToRel
  <2> QED  BY <2>2, <1>1 DEF p
<1>3. ASSUME NEW y \in T PROVE x <= y
  <2>1. x \in Nat /\ y \in Nat
    OBVIOUS
  <2>2. ~(y < x)
    BY <1>2
  <2> QED  BY <2>1, <2>2
<1> QED  BY <1>3

\* A strictly increasing function from 1 .. n to itself is the identity.
LEMMA IncreasingIsIdentity ==
    ASSUME NEW n \in Nat, NEW f \in [1 .. n -> 1 .. n],
           \A i, j \in 1 .. n : i < j => f[i] < f[j]
    PROVE  \A i \in 1 .. n : f[i] = i
<1> DEFINE Low == {i \in 1 .. n : f[i] < i}
           High == {k \in 0 .. n - 1 : f[n - k] > n - k}
<1>0. \A i \in 1 .. n : f[i] \in 1 .. n
  OBVIOUS
<1>1. Low = {}
  <2> SUFFICES ASSUME Low # {} PROVE FALSE
    OBVIOUS
  <2>1. Low \subseteq Nat /\ \A i : i \in Low <=> i \in 1 .. n /\ f[i] < i
    OBVIOUS
  <2> HIDE DEF Low
  <2>2. PICK x \in Low : \A y \in Low : x <= y
    BY <2>1, LeastElement
  <2>3. x \in 1 .. n /\ f[x] \in 1 .. n /\ f[x] < x
    BY <2>1, <1>0
  <2>4. x - 1 \in 1 .. n /\ f[x - 1] \in 1 .. n /\ f[x - 1] < f[x]
    BY <2>3, <1>0
  <2>5. x - 1 < x /\ f[x - 1] < x - 1
    BY <2>3, <2>4
  <2>6. x - 1 \in Low
    BY <2>1, <2>4, <2>5
  <2>7. x <= x - 1
    BY <2>2, <2>6
  <2> QED  BY <2>7, <2>3
<1>2. High = {}
  <2> SUFFICES ASSUME High # {} PROVE FALSE
    OBVIOUS
  <2>1. High \subseteq Nat /\ \A k : k \in High <=> k \in 0 .. n - 1 /\ f[n - k] > n - k
    OBVIOUS
  <2> HIDE DEF High
  <2>2. PICK x \in High : \A y \in High : x <= y
    BY <2>1, LeastElement
  <2>3. x \in 0 .. n - 1 /\ n - x \in 1 .. n /\ f[n - x] \in 1 .. n /\ f[n - x] > n - x
    <3>1. x \in 0 .. n - 1 /\ f[n - x] > n - x
      BY <2>1
    <3>2. n - x \in 1 .. n
      BY <3>1
    <3> QED  BY <3>1, <3>2, <1>0
  <2>4. n - x + 1 \in 1 .. n /\ f[n - x + 1] \in 1 .. n /\ f[n - x + 1] > f[n - x]
    <3>1. n - x + 1 \in 1 .. n /\ n - x < n - x + 1
      BY <2>3
    <3>2. \A i, j \in 1 .. n : i < j => f[j] > f[i] /\ f[j] \in 1 .. n
      BY <1>0
    <3> QED  BY <3>1, <3>2, <2>3
  <2>5. n - (x - 1) = n - x + 1 /\ x - 1 \in 0 .. n - 1
    BY <2>3, <2>4
  <2>6. f[n - (x - 1)] > n - (x - 1)
    BY <2>3, <2>4, <2>5
  <2>7. x - 1 \in High
    BY <2>1, <2>5, <2>6
  <2>8. x <= x - 1
    BY <2>2, <2>7
  <2> QED  BY <2>8, <2>3
<1>3. ASSUME NEW i \in 1 .. n PROVE f[i] = i
  <2>1. i \notin Low /\ n - i \notin High
    BY <1>1, <1>2
  <2>2. ~(f[i] < i)
    BY <2>1
  <2>3. n - i \in 0 .. n - 1 /\ n - (n - i) = i
    OBVIOUS
  <2>4. ~(f[i] > i)
    BY <2>1, <2>3
  <2> QED  BY <2>2, <2>4, <1>0
<1> QED  BY <1>3

\* What std::sort can make of a bucket has its length and its fragments.
LEMMA SortedType ==
    ASSUME NEW bucket \in Seq(PacketSet), NEW fragments \in Sorted(bucket)
    PROVE  /\ fragments \in Seq(PacketSet)
           /\ Len(fragments) = Len(bucket)
           /\ \A i \in DOMAIN fragments : fragments[i] \in PacketSet
<1> DEFINE n == Len(bucket)
<1>1. n \in Nat /\ DOMAIN bucket = 1 .. n /\ \A i \in 1 .. n : bucket[i] \in PacketSet
  OBVIOUS
<1>2. PICK f \in [1 .. n -> 1 .. n] : fragments = [i \in 1 .. n |-> bucket[f[i]]]
  BY <1>1 DEF Sorted
<1>3. \A i \in 1 .. n : bucket[f[i]] \in PacketSet
  BY <1>1, <1>2
<1> QED  BY <1>1, <1>2, <1>3

\* A bucket whose fragments are numbered 0, 1, 2, ... is sorted, and sorting
\* it gives nothing else.
LEMMA SortedIsUnique ==
    ASSUME NEW bucket \in Seq(PacketSet), NEW fragments \in Sorted(bucket),
           \A i \in DOMAIN bucket : bucket[i].fragment_id = i - 1
    PROVE  fragments = bucket
<1> DEFINE n == Len(bucket)
<1>1. n \in Nat /\ DOMAIN bucket = 1 .. n
  OBVIOUS
<1>2. PICK f \in [1 .. n -> 1 .. n] :
        /\ fragments = [i \in 1 .. n |-> bucket[f[i]]]
        /\ IsInjective(f)
        /\ \A i, j \in 1 .. n : i < j => bucket[f[i]].fragment_id <= bucket[f[j]].fragment_id
  BY <1>1 DEF Sorted
<1>3. \A i \in 1 .. n : f[i] \in 1 .. n
  BY <1>2
<1>4. ASSUME NEW i \in 1 .. n, NEW j \in 1 .. n, i < j PROVE f[i] < f[j]
  <2>1. f[i] # f[j]
    BY <1>2, <1>4 DEF IsInjective
  <2>2. f[i] - 1 <= f[j] - 1
    BY <1>1, <1>2, <1>3, <1>4
  <2> QED  BY <1>3, <2>1, <2>2
<1>5. \A i \in 1 .. n : f[i] = i
  BY <1>1, <1>4, IncreasingIsIdentity
<1>6. \A i \in 1 .. n : fragments[i] = bucket[i]
  BY <1>2, <1>5
<1>7. fragments \in Seq(PacketSet) /\ Len(fragments) = n
  BY SortedType
<1> QED  BY <1>6, <1>7

-----------------------------------------------------------------------------
(* Type correctness, with no assumption about the peer or the scheduling *)

\* All of TypeOK but the cipher context.
Typed ==
    /\ idOf \in [Messages -> Ids]
    /\ sent \in 0 .. NumMsg
    /\ next \in Nat
    /\ received \in [Ids -> Seq(PacketSet)]
    /\ task \in Ids \cup {Idle}
    /\ delivered \in Seq({Garbage} \cup Messages)
    /\ lost \subseteq Messages

\* The receive side takes no step; its cipher context may be in other hands.
Untouched == UNCHANGED <<peer, received, task, delivered, lost>>

\* Every packet the peer sends has the type of a packet.
LEMMA PacketType ==
    ASSUME Typed, Sending
    PROVE  /\ sent \in Messages
           /\ Packet(sent, next) \in PacketSet
           /\ Packet(sent, next).message_id = idOf[sent]
           /\ Packet(sent, next).of = sent
           /\ idOf[sent] \in Ids
<1>1. sent \in Messages /\ Frags[sent] \in Nat /\ Kind[sent] \in DataTypes
  BY ReassemblyAssumption DEF Typed, Sending, Messages
<1>2. idOf[sent] \in Ids
  BY <1>1 DEF Typed
<1>3. next \in Nat
  BY DEF Typed
<1> QED  BY <1>1, <1>2, <1>3 DEF Packet, PacketOf, PacketSet

\* What poll() does with a bucket changes the context and the history only.
LEMMA TakeType ==
    ASSUME Typed, NEW id \in Ids, PollTake(id)
    PROVE  /\ Typed'
           /\ ctx \in ContextSet => ctx' \in ContextSet
           /\ DOMAIN ctx = {"key", "iv"} => ctx'.iv \in {NoIv, ctx.iv} \cup Messages
           /\ task' = id /\ UNCHANGED <<peer, received, lost>>
<1>1. received[id] \in Seq(PacketSet) /\ received[id] # <<>>
  BY DEF PollTake, Complete, Typed
<1>2. PICK fragments \in Sorted(received[id]) :
        PollMessage(fragments) \/ PollHandshake(fragments) \/ PollOther(fragments)
  BY DEF PollTake
<1>3. fragments[1].of \in Messages
  <2>1. fragments[1] \in PacketSet
    BY <1>1, <1>2, SortedType
  <2> QED  BY <2>1 DEF PacketSet
<1>4. ctx \in ContextSet => ctx' \in ContextSet
  BY <1>2, <1>3 DEF PollMessage, PollHandshake, PollOther, ContextSet
<1>6. DOMAIN ctx = {"key", "iv"} => ctx'.iv \in {NoIv, ctx.iv} \cup Messages
  BY <1>2, <1>3 DEF PollMessage, PollHandshake, PollOther
<1>5. delivered' \in Seq({Garbage} \cup Messages)
  <2>1. delivered \in Seq({Garbage} \cup Messages)
    BY DEF Typed
  <2>2. \A m \in {Garbage} \cup Messages : Append(delivered, m) \in Seq({Garbage} \cup Messages)
    BY <2>1
  <2>3. CASE PollMessage(fragments)
    BY <2>1, <2>2, <2>3 DEF PollMessage
  <2> QED  BY <1>2, <2>1, <2>3 DEF PollHandshake, PollOther
<1> QED  BY <1>4, <1>5, <1>6 DEF PollTake, peer, Typed

\* The types of the receive side at the start.
LEMMA TypeInit == Init => TypeOK
<1> SUFFICES ASSUME Init PROVE TypeOK
  OBVIOUS
<1>1. received \in [Ids -> Seq(PacketSet)]
  BY DEF Init
<1>2. ctx \in ContextSet
  BY DEF Init, ContextSet
<1>3. idOf \in [Messages -> Ids] /\ sent \in 0 .. NumMsg /\ next \in Nat
  BY ReassemblyAssumption DEF Init
<1>4. task \in Ids \cup {Idle} /\ delivered \in Seq({Garbage} \cup Messages) /\ lost \subseteq Messages
  BY DEF Init
<1> QED  BY <1>1, <1>2, <1>3, <1>4 DEF TypeOK

\* Each operation keeps them.
LEMMA TypedStep == Typed /\ (Next \/ Untouched) => Typed'
<1> SUFFICES ASSUME Typed, Next \/ Untouched PROVE Typed'
  OBVIOUS
<1>1. CASE PeerSend
  <2>1. sent + 1 \in 0 .. NumMsg
    BY <1>1, ReassemblyAssumption DEF PeerSend, Typed
  <2> QED  BY <1>1, <2>1 DEF PeerSend, Typed
<1>2. CASE receive
  <2>1. /\ Packet(sent, next) \in PacketSet /\ idOf[sent] \in Ids
        /\ Packet(sent, next).message_id = idOf[sent]
    BY <1>2, PacketType DEF receive
  <2>2. received' = [received EXCEPT ![idOf[sent]] = Append(@, Packet(sent, next))]
    BY <1>2, <2>1 DEF receive
  <2>3. received' \in [Ids -> Seq(PacketSet)]
    BY <2>1, <2>2 DEF Typed
  <2>4. next' \in Nat
    BY <1>2 DEF receive, Typed
  <2> QED  BY <1>2, <2>3, <2>4 DEF receive, Typed
<1>3. CASE Lose
  <2>1. sent \in Messages
    BY <1>3, PacketType DEF Lose
  <2>2. next' \in Nat
    BY <1>3 DEF Lose, Typed
  <2> QED  BY <1>3, <2>1, <2>2 DEF Lose, Typed
<1>4. CASE PollErase
  <2>1. received' \in [Ids -> Seq(PacketSet)]
    BY <1>4 DEF PollErase, Typed
  <2> QED  BY <1>4, <2>1 DEF PollErase, peer, Typed
<1>5. ASSUME NEW id \in Ids, PollTake(id) PROVE Typed'
  BY <1>5, TakeType
<1>6. CASE Untouched \/ UNCHANGED vars
  BY <1>6 DEF Untouched, vars, peer, Typed
<1> QED  BY <1>1, <1>2, <1>3, <1>4, <1>5, <1>6 DEF Next, poll, AtRest

\* Stuttering included.
LEMMA TypeStep == TypeOK /\ [Next]_vars => TypeOK'
<1> SUFFICES ASSUME TypeOK, [Next]_vars PROVE TypeOK'
  OBVIOUS
<1>1. Typed /\ ctx \in ContextSet
  BY DEF TypeOK, Typed
<1>2. Next \/ Untouched
  BY DEF vars, Untouched
<1>3. Typed'
  BY <1>1, <1>2, TypedStep
<1>4. ctx' \in ContextSet
  <2>1. ASSUME NEW id \in Ids, PollTake(id) PROVE ctx' \in ContextSet
    BY <1>1, <2>1, TakeType
  <2>2. CASE PeerSend \/ receive \/ Lose \/ PollErase \/ UNCHANGED vars
    BY <1>1, <2>2 DEF PeerSend, receive, Lose, PollErase, vars
  <2> QED  BY <2>1, <2>2 DEF Next, poll, AtRest
<1> QED  BY <1>3, <1>4 DEF TypeOK, Typed

\* The range of every variable of the receive side (packethandler.cpp), with
\* ids reused, packets lost and poll() arbitrarily late.
THEOREM ReassemblyTypeCorrect == Spec => []TypeOK
<1>1. Init => TypeOK
  BY TypeInit
<1>2. TypeOK /\ [Next]_vars => TypeOK'
  BY TypeStep
<1> QED  BY <1>1, <1>2, PTL DEF Spec

-----------------------------------------------------------------------------
(* The invariant: what is in the map when poll() keeps up *)

Bucket == received[idOf[sent]]

\* A message that lost a packet has left its id, and perhaps fragments under it.
Tainted(id) == \E k \in lost : idOf[k] = id

\* No earlier message may have left fragments under the id of the current one.
Alone == \A k \in lost : idOf[k] = idOf[sent] => k = sent

\* The peer has begun a message and nothing of it has arrived.
Awaiting == next = 0 /\ task = Idle /\ Bucket = <<>>

\* Its handshake has arrived.
Announced == next >= 1 /\ task = Idle /\ Bucket = <<Packet(sent, 0)>>

\* poll() has set the initial vector and not yet erased the handshake.
Announcing == next >= 1 /\ task = idOf[sent] /\ Bucket = <<Packet(sent, 0)>>

\* What a bucket of fragments of the message may be: whole so far, or short.
Partial(bucket) ==
    /\ \A j \in DOMAIN bucket :
         bucket[j].type = Kind[sent] /\ bucket[j].total_fragments = Frags[sent]
    /\ Len(bucket) <= next - 1
    /\ Len(bucket) = next - 1 => \A j \in DOMAIN bucket : bucket[j] = Packet(sent, j)

\* Fragments arrive.
Collecting ==
    /\ next >= 1 /\ task = Idle
    /\ Bucket # <<>> \/ next <= Frags[sent]
    /\ Partial(Bucket)

\* poll() has processed all of them, and not yet erased them.
Joining == next = Frags[sent] + 1 /\ task = idOf[sent]

\* They are erased, or none has arrived.
Done == next = Frags[sent] + 1 /\ task = Idle /\ Bucket = <<>>

Phases == Awaiting \/ Announced \/ Announcing \/ Collecting \/ Joining \/ Done

\* What is missing from the bucket has been lost.
Accounted == sent \notin lost =>
    /\ Announced \/ Announcing => next = 1
    /\ Collecting => Len(Bucket) = next - 1

\* A bucket holds packets of its own id.
Addressed == \A id \in Ids : \A i \in DOMAIN received[id] : idOf[received[id][i].of] = id

\* The other buckets hold leftovers of messages that lost a packet.
Others == \A id \in Ids : sent = 0 \/ id # idOf[sent] =>
    /\ ~Complete(received[id])
    /\ received[id] # <<>> => Tainted(id)

Orderly ==
    /\ Typed
    /\ Addressed
    /\ Others
    /\ lost \subseteq 1 .. sent
    /\ sent = 0 => next = 0 /\ task = Idle
    /\ sent # 0 => /\ next <= Frags[sent] + 1
                   /\ task \in {Idle, idOf[sent]}
                   /\ Alone => Phases /\ Accounted

\* What the invariant says of the message being sent.
LEMMA Current ==
    ASSUME Typed, sent # 0
    PROVE  /\ sent \in Messages /\ sent \in Nat
           /\ idOf[sent] \in Ids /\ idOf[sent] # Idle
           /\ Frags[sent] \in Nat \ {0} /\ Kind[sent] \in DataTypes
           /\ next \in Nat
           /\ Bucket \in Seq(PacketSet)
<1>1. sent \in Messages /\ sent \in Nat
  BY ReassemblyAssumption DEF Typed, Messages
<1>2. idOf[sent] \in Ids
  BY <1>1 DEF Typed
<1>3. idOf[sent] # Idle
  BY <1>2, IdAssumption
<1>4. Frags[sent] \in Nat \ {0} /\ Kind[sent] \in DataTypes /\ next \in Nat
  BY <1>1, ReassemblyAssumption DEF Typed
<1>5. Bucket \in Seq(PacketSet)
  BY <1>2 DEF Typed, Bucket
<1> QED  BY <1>1, <1>2, <1>3, <1>4, <1>5

\* Buckets and losses at the start.
LEMMA OrderlyInit == Init => Orderly
<1> SUFFICES ASSUME Init PROVE Orderly
  OBVIOUS
<1>1. Typed
  BY TypeInit DEF TypeOK, Typed
<1>2. \A id \in Ids : received[id] = <<>>
  BY DEF Init
<1>3. Addressed /\ Others
  BY <1>2 DEF Addressed, Others, Complete
<1> QED  BY <1>1, <1>3 DEF Init, Orderly

\* Between two messages whatever is left in the map is tainted.
LEMMA LeftoversTainted ==
    ASSUME Orderly, Polled, ~Sending, NEW id \in Ids, received[id] # <<>>
    PROVE  Tainted(id)
<1>1. CASE sent = 0 \/ id # idOf[sent]
  BY <1>1 DEF Orderly, Others
<1>2. CASE sent # 0 /\ id = idOf[sent] /\ Alone
  <2>1. /\ sent \in Messages /\ sent \in Nat /\ idOf[sent] \in Ids /\ idOf[sent] # Idle
        /\ Frags[sent] \in Nat \ {0} /\ next \in Nat /\ Bucket \in Seq(PacketSet)
        /\ Bucket = received[id]
    BY <1>2, Current DEF Orderly, Bucket
  <2>2. next = Frags[sent] + 1 /\ task = Idle /\ Bucket # <<>> /\ ~Complete(Bucket)
    BY <1>2, <2>1 DEF Orderly, Sending, Polled
  <2>3. ~Announced
    <3> SUFFICES ASSUME Announced PROVE FALSE
      OBVIOUS
    <3>1. Len(Bucket) = 1 /\ Bucket # <<>> /\ Bucket[1].total_fragments = 1
      BY DEF Announced, Packet, PacketOf
    <3> QED  BY <2>2, <3>1 DEF Complete
  <2>4. Collecting /\ Accounted
    BY <1>2, <2>1, <2>2, <2>3 DEF Orderly, Phases, Awaiting, Announcing, Joining, Done
  <2>5. sent \in lost
    <3> SUFFICES ASSUME sent \notin lost PROVE FALSE
      OBVIOUS
    <3>1. Len(Bucket) = Frags[sent] /\ 1 \in DOMAIN Bucket
      BY <2>1, <2>2, <2>4 DEF Accounted
    <3> QED  BY <2>2, <2>4, <3>1 DEF Collecting, Partial, Complete
  <2> QED  BY <1>2, <2>5 DEF Tainted
<1>3. CASE sent # 0 /\ id = idOf[sent] /\ ~Alone
  BY <1>3 DEF Alone, Tainted
<1> QED  BY <1>1, <1>2, <1>3

\* A packet of the peer arrives.
LEMMA OrderlyPeerSend == ASSUME Prompt, Orderly, PeerSend PROVE Orderly'
<1>1. Typed /\ Typed'
  BY TypedStep DEF Orderly, Next
<1>2. /\ sent' = sent + 1 /\ next' = 0
      /\ UNCHANGED <<idOf, received, ctx, task, delivered, lost>>
      /\ task = Idle /\ \A id \in Ids : ~Complete(received[id])
      /\ Polled /\ ~Sending
  BY DEF PeerSend, Polled
<1>3. sent \in Nat /\ sent' \in Messages /\ sent' # 0
  BY <1>1, <1>2, ReassemblyAssumption DEF PeerSend, Typed, Messages
<1>4. \A id \in Ids : received[id] # <<>> => Tainted(id)
  BY <1>2, LeftoversTainted
<1>5. idOf[sent'] \in Ids /\ Frags[sent'] \in Nat
  BY <1>1, <1>3, ReassemblyAssumption DEF Typed
<1>6. lost' \subseteq 1 .. sent' /\ sent' \notin lost'
  BY <1>2, <1>3 DEF Orderly
<1>7. Alone' => Awaiting'
  <2> SUFFICES ASSUME Alone' PROVE received[idOf[sent']] = <<>>
    BY <1>2 DEF Awaiting, Bucket
  <2>1. ~Tainted(idOf[sent'])
    BY <1>2, <1>6 DEF Alone, Tainted
  <2> QED  BY <1>4, <1>5, <2>1
<1>8. Accounted'
  BY <1>2 DEF Accounted, Announced, Announcing, Collecting
<1>9. Addressed' /\ Others'
  BY <1>2, <1>4 DEF Orderly, Addressed, Others, Tainted, Complete
<1> QED  BY <1>1, <1>2, <1>3, <1>5, <1>6, <1>7, <1>8, <1>9 DEF Orderly, Phases

\* The bucket of the message being sent takes one more packet; the others do not change.
LEMMA OrderlyReceive == ASSUME Prompt, Orderly, receive PROVE Orderly'
<1> DEFINE p == Packet(sent, next)
           n == Len(Bucket)
<1>1. Typed /\ Typed'
  BY TypedStep DEF Orderly, Next
<1>2. /\ sent # 0 /\ next <= Frags[sent] /\ task = Idle
      /\ \A id \in Ids : ~Complete(received[id])
      /\ UNCHANGED <<idOf, sent, ctx, task, delivered, lost>>
      /\ next' = next + 1
  BY DEF receive, Sending, Polled
<1>3. /\ sent \in Messages /\ idOf[sent] \in Ids /\ idOf[sent] # Idle
      /\ Frags[sent] \in Nat \ {0} /\ next \in Nat /\ Bucket \in Seq(PacketSet)
      /\ n \in Nat /\ DOMAIN Bucket = 1 .. n
      /\ p \in PacketSet /\ p.message_id = idOf[sent] /\ p.of = sent
  BY <1>1, <1>2, Current, PacketType DEF receive
<1> HIDE DEF p
<1>4. /\ Bucket' = Append(Bucket, p)
      /\ \A id \in Ids : id # idOf[sent] => received'[id] = received[id]
  <2>1. received' = [received EXCEPT ![idOf[sent]] = Append(@, p)]
    BY <1>3 DEF receive, p
  <2> QED  BY <1>1, <1>2, <1>3, <2>1 DEF Bucket, Typed
<1>5. /\ DOMAIN Bucket' = 1 .. n + 1 /\ Len(Bucket') = n + 1 /\ Bucket'[n + 1] = p
      /\ \A j \in 1 .. n : Bucket'[j] = Bucket[j]
  BY <1>3, <1>4
<1> HIDE DEF n
<1>6. Addressed'
  <2> SUFFICES ASSUME NEW id \in Ids, NEW i \in DOMAIN received'[id]
               PROVE  idOf[received'[id][i].of] = id
    BY <1>2 DEF Addressed
  <2>1. CASE id # idOf[sent]
    BY <1>4, <2>1 DEF Orderly, Addressed
  <2>2. CASE id = idOf[sent]
    <3>1. received'[id] = Bucket'
      BY <1>2, <2>2 DEF Bucket
    <3>2. \A j \in 1 .. n : idOf[Bucket[j].of] = id
      BY <1>3, <2>2 DEF Orderly, Addressed, Bucket
    <3> QED  BY <1>3, <1>5, <2>2, <3>1, <3>2
  <2> QED  BY <2>1, <2>2
<1>7. Others'
  BY <1>2, <1>4 DEF Orderly, Others, Complete, Tainted
<1>8. ASSUME Alone' PROVE Phases' /\ Accounted'
  <2>1. Alone /\ (Awaiting \/ Collecting) /\ Accounted
    <3>1. Alone /\ Phases /\ Accounted
      BY <1>2, <1>8 DEF Alone, Orderly
    <3>2. ~Complete(Bucket)
      BY <1>2, <1>3 DEF Bucket
    <3>3. ~Announced
      <4> SUFFICES ASSUME Announced PROVE FALSE
        OBVIOUS
      <4>1. Len(Bucket) = 1 /\ Bucket # <<>> /\ Bucket[1].total_fragments = 1
        BY DEF Announced, Packet, PacketOf
      <4> QED  BY <3>2, <4>1 DEF Complete
    <3> QED  BY <1>2, <1>3, <3>1, <3>3 DEF Phases, Announcing, Joining, Done
  <2>2. CASE Awaiting
    <3>1. p = Packet(sent, 0) /\ Bucket' = <<p>> /\ next' = 1
      BY <1>2, <1>4, <2>2 DEF Awaiting, p
    <3>2. Packet(sent, 0)' = Packet(sent, 0)
      BY <1>2 DEF Packet, PacketOf
    <3>3. Announced'
      BY <1>2, <3>1, <3>2 DEF Announced
    <3>4. ~Collecting'
      <4>1. Len(Bucket') = 1
        BY <3>1
      <4> QED  BY <3>1, <4>1 DEF Collecting, Partial
    <3> QED  BY <3>1, <3>3, <3>4 DEF Phases, Accounted
  <2>3. CASE Collecting
    <3>1. next >= 1 /\ n <= next - 1
      BY <2>3 DEF Collecting, Partial, n
    <3>2. p.type = Kind[sent] /\ p.total_fragments = Frags[sent]
      BY <1>3, <3>1 DEF p, Packet, PacketOf
    <3>3. \A j \in 1 .. n + 1 :
            Bucket'[j].type = Kind[sent] /\ Bucket'[j].total_fragments = Frags[sent]
      <4>1. \A j \in 1 .. n : Bucket[j].type = Kind[sent] /\ Bucket[j].total_fragments = Frags[sent]
        BY <1>3, <2>3 DEF Collecting, Partial
      <4> QED  BY <1>3, <1>5, <3>2, <4>1
    <3>4. ASSUME n + 1 = next' - 1 PROVE \A j \in 1 .. n + 1 : Bucket'[j] = Packet(sent, j)
      <4>1. n = next - 1
        BY <1>2, <1>3, <3>4
      <4>2. \A j \in 1 .. n : Bucket[j] = Packet(sent, j)
        BY <1>3, <2>3, <4>1 DEF Collecting, Partial, n
      <4>3. p = Packet(sent, n + 1)
        BY <1>3, <4>1 DEF p
      <4> QED  BY <1>3, <1>5, <4>2, <4>3
    <3>5. \A j \in 1 .. n + 1 : Packet(sent, j)' = Packet(sent, j)
      BY <1>2 DEF Packet, PacketOf
    <3>6. next' >= 1 /\ n + 1 <= next' - 1
      BY <1>2, <1>3, <3>1
    <3>7. Partial(Bucket)'
      BY <1>2, <1>5, <3>3, <3>4, <3>5, <3>6 DEF Partial
    <3>8. Collecting'
      BY <1>2, <1>3, <1>5, <3>6, <3>7 DEF Collecting
    <3>9. Accounted'
      <4>1. ~Announced' /\ ~Announcing'
        <5>1. Bucket'[1].type # "ENCRYP"
          <6>1. 1 \in 1 .. n + 1
            BY <1>3
          <6>2. Bucket'[1].type = Kind[sent] /\ Kind[sent] \in DataTypes
            BY <1>3, <3>3, <6>1, ReassemblyAssumption
          <6> QED  BY <6>2 DEF DataTypes
        <5>2. Packet(sent, 0)'.type = "ENCRYP"
          BY DEF Packet, PacketOf
        <5> QED  BY <1>2, <5>1, <5>2 DEF Announced, Announcing, Packet, PacketOf
      <4>2. sent \notin lost => n = next - 1
        BY <2>1, <2>3 DEF Accounted, n
      <4> QED  BY <1>2, <1>3, <1>5, <4>1, <4>2 DEF Accounted
    <3> QED  BY <3>8, <3>9 DEF Phases
  <2> QED  BY <2>1, <2>2, <2>3
<1>9. next' <= Frags[sent'] + 1
  BY <1>2, <1>3
<1> QED  BY <1>1, <1>2, <1>6, <1>7, <1>8, <1>9 DEF Orderly

\* A packet of the peer is lost.
LEMMA OrderlyLose == ASSUME Orderly, Lose PROVE Orderly'
<1>1. Typed /\ Typed'
  BY TypedStep DEF Orderly, Next
<1>2. /\ sent # 0 /\ next <= Frags[sent] /\ next' = next + 1 /\ lost' = lost \cup {sent}
      /\ UNCHANGED <<idOf, sent, received, ctx, task, delivered>>
      /\ Bucket' = Bucket
  BY DEF Lose, Sending, Bucket
<1>3. /\ sent \in Messages /\ sent \in Nat /\ idOf[sent] \in Ids /\ idOf[sent] # Idle
      /\ Frags[sent] \in Nat \ {0} /\ next \in Nat /\ Bucket \in Seq(PacketSet)
      /\ Len(Bucket) \in Nat
  BY <1>1, <1>2, Current
<1>4. \A j \in Nat : Packet(sent, j)' = Packet(sent, j)
  BY <1>2 DEF Packet, PacketOf
<1>5. next' >= 1 /\ next' <= Frags[sent'] + 1
  BY <1>2, <1>3
<1>6. ASSUME Alone' PROVE Phases' /\ Accounted'
  <2>1. Phases
    BY <1>2, <1>6 DEF Alone, Orderly
  <2>2. ASSUME Announced \/ Announcing PROVE Phases'
    <3>1. next' >= 1 /\ Packet(sent, 0)' = Packet(sent, 0)
      BY <1>4, <1>5
    <3> QED  BY <1>2, <2>2, <3>1 DEF Announced, Announcing, Phases
  <2>4. ASSUME Awaiting \/ Collecting PROVE Phases'
    <3>1. task = Idle /\ Len(Bucket) <= next
      BY <1>3, <2>4 DEF Awaiting, Collecting, Partial
    <3>2. \A j \in DOMAIN Bucket :
            Bucket[j].type = Kind[sent] /\ Bucket[j].total_fragments = Frags[sent]
      BY <2>4 DEF Awaiting, Collecting, Partial
    <3>3. Len(Bucket) <= next' - 1 /\ (Len(Bucket) = next' - 1 => Bucket = <<>>)
      BY <1>2, <1>3, <2>4 DEF Awaiting, Collecting, Partial
    <3>4. Partial(Bucket)'
      BY <1>2, <3>2, <3>3 DEF Partial
    <3>5. Collecting' \/ Done'
      <4>1. next' <= Frags[sent'] \/ next' = Frags[sent'] + 1
        BY <1>2, <1>3
      <4> QED  BY <1>2, <1>5, <3>1, <3>4, <4>1 DEF Collecting, Done
    <3> QED  BY <3>5 DEF Phases
  <2>5. Accounted'
    BY <1>2 DEF Accounted
  <2> QED  BY <1>2, <1>3, <2>1, <2>2, <2>4, <2>5 DEF Phases, Joining, Done
<1>7. Addressed' /\ Others'
  BY <1>2 DEF Orderly, Addressed, Others, Complete, Tainted
<1>8. lost' \subseteq 1 .. sent'
  BY <1>2, <1>3 DEF Orderly
<1> QED  BY <1>1, <1>2, <1>5, <1>6, <1>7, <1>8 DEF Orderly

\* poll() erases the bucket it has worked on.
LEMMA OrderlyPollErase == ASSUME Orderly, PollErase PROVE Orderly'
<1>1. Typed /\ Typed'
  BY TypedStep DEF Orderly, Next, poll
<1>2. /\ task # Idle /\ task' = Idle
      /\ received' = [received EXCEPT ![task] = <<>>]
      /\ UNCHANGED <<idOf, sent, next, ctx, delivered, lost>>
  BY DEF PollErase, peer
<1>3. sent # 0 /\ task = idOf[sent]
  BY <1>2 DEF Orderly
<1>4. /\ sent \in Messages /\ idOf[sent] \in Ids /\ idOf[sent] # Idle
      /\ Frags[sent] \in Nat \ {0} /\ next \in Nat /\ Bucket \in Seq(PacketSet)
  BY <1>1, <1>3, Current
<1>5. Bucket' = <<>> /\ \A id \in Ids : id # idOf[sent] => received'[id] = received[id]
  BY <1>1, <1>2, <1>3, <1>4 DEF Bucket, Typed
<1>6. ASSUME Alone' PROVE Phases' /\ Accounted'
  <2>1. (Announcing \/ Joining) /\ Accounted
    BY <1>2, <1>3, <1>6 DEF Alone, Orderly, Phases, Awaiting, Announced, Collecting, Done
  <2>2. ~Announced' /\ ~Announcing'
    BY <1>2, <1>4, <1>5 DEF Announced, Announcing
  <2>3. next >= 1 /\ (Collecting' \/ Done')
    <3>1. next >= 1
      BY <1>4, <2>1 DEF Announcing, Joining
    <3>2. Partial(Bucket)'
      BY <1>2, <1>4, <1>5, <3>1 DEF Partial
    <3> QED  BY <1>2, <1>3, <1>4, <1>5, <3>1, <3>2 DEF Collecting, Done, Orderly
  <2>4. Accounted'
    <3> SUFFICES ASSUME sent \notin lost, Collecting' PROVE next = 1
      BY <1>2, <1>5, <2>2 DEF Accounted
    <3>1. next <= Frags[sent]
      BY <1>2, <1>5 DEF Collecting
    <3> QED  BY <1>4, <2>1, <3>1 DEF Accounted, Joining
  <2> QED  BY <2>3, <2>4 DEF Phases
<1>7. Addressed'
  <2>1. \A id \in Ids : received'[id] = received[id] \/ received'[id] = <<>>
    BY <1>2, <1>5 DEF Bucket
  <2> QED  BY <1>2, <2>1 DEF Orderly, Addressed
<1>8. Others'
  BY <1>2, <1>3, <1>5 DEF Orderly, Others, Complete, Tainted
<1> QED  BY <1>1, <1>2, <1>3, <1>4, <1>6, <1>7, <1>8 DEF Orderly

\* A complete bucket of fragments has lost none, and is sorted already.
LEMMA WholeBucket ==
    ASSUME Orderly, sent # 0, Collecting, Complete(Bucket), NEW fragments \in Sorted(Bucket)
    PROVE  /\ next = Frags[sent] + 1
           /\ fragments[1].type = Kind[sent]
           /\ Len(fragments) = Frags[sent]
           /\ \A k \in DOMAIN fragments : fragments[k] = Packet(sent, k)
           /\ \A m \in Messages : Decrypts(fragments, m) =>
                m = sent /\ ctx.key = "big_endian" /\ ctx.iv = sent
<1> DEFINE n == Len(Bucket)
<1>1. /\ sent \in Messages /\ Frags[sent] \in Nat \ {0} /\ next \in Nat
      /\ Bucket \in Seq(PacketSet) /\ n \in Nat /\ DOMAIN Bucket = 1 .. n
  BY Current DEF Orderly
<1>2. 1 \in DOMAIN Bucket /\ Bucket[1].total_fragments = n
  BY <1>1 DEF Complete
<1>3. n = Frags[sent] /\ n <= next - 1 /\ next <= Frags[sent] + 1
  BY <1>1, <1>2 DEF Collecting, Partial, Orderly
<1>4. next = Frags[sent] + 1 /\ n = next - 1
  BY <1>1, <1>3
<1>5. \A j \in DOMAIN Bucket : Bucket[j] = Packet(sent, j)
  BY <1>4 DEF Collecting, Partial
<1>6. \A j \in DOMAIN Bucket : Bucket[j].fragment_id = j - 1
  <2>1. \A j \in 1 .. n : Packet(sent, j).fragment_id = j - 1
    BY <1>1 DEF Packet, PacketOf
  <2> QED  BY <1>1, <1>5, <2>1
<1>7. fragments = Bucket
  BY <1>1, <1>6, SortedIsUnique
<1>8. fragments[1].type = Kind[sent]
  BY <1>2, <1>7 DEF Collecting, Partial
<1>9. ASSUME NEW m \in Messages, Decrypts(fragments, m)
      PROVE  m = sent /\ ctx.key = "big_endian" /\ ctx.iv = sent
  <2>1. fragments[1] = Packet(m, 1) /\ fragments[1] = Packet(sent, 1)
    BY <1>2, <1>5, <1>7, <1>9 DEF Decrypts
  <2>2. m = sent
    BY <2>1 DEF Packet, PacketOf
  <2> QED  BY <1>9, <2>2 DEF Decrypts
<1> QED  BY <1>3, <1>4, <1>5, <1>7, <1>8, <1>9

\* What poll() does with a complete bucket: it takes over the vector of a
\* handshake; or it hands up the message being sent, if the context is that of
\* this message, or nothing or garbage, if it is not.
LEMMA TakeEffect ==
    ASSUME Orderly, Alone, NEW id \in Ids, PollTake(id)
    PROVE  /\ sent # 0 /\ id = idOf[sent]
           /\ \/ Announced /\ ctx' = [ctx EXCEPT !.iv = sent] /\ UNCHANGED delivered
              \/ /\ Collecting /\ next = Frags[sent] + 1 /\ Kind[sent] # "MSG"
                 /\ UNCHANGED <<ctx, delivered>>
              \/ /\ Collecting /\ next = Frags[sent] + 1 /\ Kind[sent] = "MSG"
                 /\ ctx' = [ctx EXCEPT !.iv = NoIv]
                 /\ IF ctx.key = "big_endian" /\ ctx.iv = sent
                    THEN delivered' = Append(delivered, sent)
                    ELSE delivered' \in {delivered, Append(delivered, Garbage)}
<1>1. task = Idle /\ Complete(received[id])
  BY DEF PollTake
<1>2. sent # 0 /\ id = idOf[sent]
  BY <1>1 DEF Orderly, Others
<1>3. /\ sent \in Messages /\ sent \in Nat /\ idOf[sent] # Idle /\ Bucket \in Seq(PacketSet)
      /\ Frags[sent] \in Nat \ {0} /\ Kind[sent] \in DataTypes
  BY <1>2, Current DEF Orderly
<1>4. received[id] = Bucket /\ Bucket # <<>>
  BY <1>1, <1>2 DEF Bucket, Complete
<1>5. Announced \/ Collecting
  BY <1>1, <1>2, <1>3, <1>4 DEF Orderly, Phases, Awaiting, Announcing, Joining, Done
<1>6. PICK fragments \in Sorted(Bucket) :
        PollMessage(fragments) \/ PollHandshake(fragments) \/ PollOther(fragments)
  BY <1>4 DEF PollTake
<1>8. CASE Announced
  <2>1. Len(Bucket) = 1 /\ DOMAIN Bucket = {1} /\ Bucket[1] = Packet(sent, 0)
    BY <1>8 DEF Announced
  <2>2. Bucket[1].fragment_id = 1 - 1 /\ Bucket[1].type = "ENCRYP" /\ Bucket[1].of = sent
    BY <2>1 DEF Packet, PacketOf
  <2>3. fragments = Bucket
    BY <1>3, <2>1, <2>2, SortedIsUnique
  <2>4. PollHandshake(fragments)
    BY <1>6, <2>2, <2>3 DEF PollMessage, PollOther
  <2>5. ctx' = [ctx EXCEPT !.iv = sent] /\ UNCHANGED delivered
    BY <2>2, <2>3, <2>4 DEF PollHandshake
  <2> QED  BY <1>2, <1>8, <2>5
<1>9. CASE Collecting
  <2>1. /\ next = Frags[sent] + 1 /\ fragments[1].type = Kind[sent]
        /\ Len(fragments) = Frags[sent]
        /\ \A k \in DOMAIN fragments : fragments[k] = Packet(sent, k)
        /\ \A m \in Messages : Decrypts(fragments, m) =>
             m = sent /\ ctx.key = "big_endian" /\ ctx.iv = sent
    BY <1>1, <1>2, <1>4, <1>9, WholeBucket
  <2>2. ctx.key = "big_endian" /\ ctx.iv = sent => Decrypts(fragments, sent)
    BY <2>1 DEF Decrypts
  <2>3. ~PollHandshake(fragments)
    BY <1>3, <2>1 DEF PollHandshake, DataTypes
  <2>4. CASE PollOther(fragments)
    BY <1>2, <1>9, <2>1, <2>4 DEF PollOther
  <2>5. CASE PollMessage(fragments)
    <3>1. Kind[sent] = "MSG"
      BY <2>1, <2>5 DEF PollMessage
    <3>2. CASE ctx.key = "big_endian" /\ ctx.iv = sent
      BY <1>2, <1>3, <1>9, <2>1, <2>2, <2>5, <3>1, <3>2 DEF PollMessage
    <3>3. CASE ~(ctx.key = "big_endian" /\ ctx.iv = sent)
      <4>1. ~\E m \in Messages : Decrypts(fragments, m)
        BY <2>1, <3>3
      <4>2. delivered' \in {delivered, Append(delivered, Garbage)}
        BY <2>5, <4>1 DEF PollMessage
      <4>3. ctx' = [ctx EXCEPT !.iv = NoIv]
        BY <2>5 DEF PollMessage
      <4> QED  BY <1>2, <1>9, <2>1, <3>1, <3>3, <4>2, <4>3
    <3> QED  BY <3>2, <3>3
  <2> QED  BY <1>6, <2>3, <2>4, <2>5
<1> QED  BY <1>5, <1>8, <1>9

\* poll() takes a bucket up.
LEMMA OrderlyPollTake == ASSUME Orderly, NEW id \in Ids, PollTake(id) PROVE Orderly'
<1>1. /\ Typed /\ Typed' /\ task' = id
      /\ UNCHANGED <<idOf, sent, next, received, lost>> /\ Bucket' = Bucket
  BY TakeType DEF Orderly, peer, Bucket
<1>2. sent # 0 /\ id = idOf[sent]
  BY DEF PollTake, Orderly, Others
<1>3. ASSUME Alone' PROVE Phases' /\ Accounted'
  <2>1. Alone
    BY <1>1, <1>3 DEF Alone
  <2>2. (Announced \/ (next = Frags[sent] + 1 /\ Collecting)) /\ Accounted
    BY <1>2, <2>1, TakeEffect DEF Orderly
  <2>3. Packet(sent, 0)' = Packet(sent, 0)
    BY <1>1 DEF Packet, PacketOf
  <2>4. id # Idle
    BY IdAssumption
  <2>5. Announcing' \/ Joining'
    BY <1>1, <1>2, <2>2, <2>3 DEF Announced, Announcing, Joining
  <2>6. Announcing' => Announced
    BY <1>1, <2>2, <2>3 DEF Announced, Announcing, Collecting
  <2>7. Accounted'
    BY <1>1, <2>2, <2>4, <2>6 DEF Accounted, Announced, Collecting
  <2> QED  BY <2>5, <2>7 DEF Phases
<1>4. Addressed' /\ Others'
  BY <1>1 DEF Orderly, Addressed, Others, Complete, Tainted
<1> QED  BY <1>1, <1>2, <1>3, <1>4 DEF Orderly

\* Whoever holds the context in the meantime: it is not part of the invariant.
LEMMA OrderlyStep == ASSUME Prompt, Orderly, Next \/ Untouched PROVE Orderly'
<1>1. CASE PeerSend
  BY <1>1, OrderlyPeerSend
<1>2. CASE receive
  BY <1>2, OrderlyReceive
<1>3. CASE Lose
  BY <1>3, OrderlyLose
<1>4. CASE poll
  BY <1>4, OrderlyPollErase, OrderlyPollTake DEF poll
<1>5. CASE Untouched \/ UNCHANGED vars
  <2>1. UNCHANGED <<idOf, sent, next, received, task, delivered, lost>> /\ Bucket' = Bucket
    BY <1>5 DEF Untouched, vars, peer, Bucket
  <2>2. Packet(sent, 0)' = Packet(sent, 0) /\ \A j : Packet(sent, j)' = Packet(sent, j)
    BY <2>1 DEF Packet, PacketOf
  <2>3. Partial(Bucket)' <=> Partial(Bucket)
    BY <2>1, <2>2 DEF Partial
  <2>4. (Phases' <=> Phases) /\ (Accounted' <=> Accounted) /\ (Alone' <=> Alone)
    BY <2>1, <2>2, <2>3 DEF Phases, Accounted, Alone, Awaiting, Announced, Announcing,
         Collecting, Joining, Done
  <2>5. Typed' /\ Addressed' /\ Others'
    BY <2>1 DEF Orderly, Typed, Addressed, Others, Tainted, Complete
  <2> QED  BY <2>1, <2>4, <2>5 DEF Orderly
<1> QED  BY <1>1, <1>2, <1>3, <1>4, <1>5 DEF Next, AtRest

-----------------------------------------------------------------------------
(* What is left in the map *)

FreshInv == Orderly /\ IsInjective(idOf)

\* With fresh ids every bucket is of one message.
LEMMA FreshInit == ASSUME FreshIds PROVE Init => FreshInv
BY OrderlyInit DEF Init, FreshInv

\* It stays so.
LEMMA FreshStep == ASSUME Prompt PROVE FreshInv /\ [Next]_vars => FreshInv'
<1> SUFFICES ASSUME FreshInv, [Next]_vars PROVE FreshInv'
  OBVIOUS
<1>1. Orderly'
  BY OrderlyStep DEF FreshInv, vars, Untouched
<1>2. idOf' = idOf
  BY DEF Next, PeerSend, receive, Lose, poll, PollErase, PollTake, AtRest, vars, peer
<1> QED  BY <1>1, <1>2 DEF FreshInv

\* Ids that are not reused set the messages apart.
LEMMA FreshAlone == FreshInv /\ sent # 0 => Alone
<1> SUFFICES ASSUME FreshInv, sent # 0, NEW k \in lost, idOf[k] = idOf[sent] PROVE k = sent
  BY DEF Alone
<1>1. sent \in Messages /\ k \in Messages /\ DOMAIN idOf = Messages
  BY Current DEF FreshInv, Orderly, Typed
<1> QED  BY <1>1 DEF FreshInv, IsInjective

\* PacketHandler::poll (lib/packethandler.cpp 53-63) leaves nothing behind but
\* fragments of messages that cannot be completed any more, if ids are not
\* reused and it keeps up: nothing else lingers in `received', however many
\* handshakes and fragments are lost.
THEOREM OnlyLossIsLeft == ASSUME FreshIds, Prompt PROVE Spec => []OnlyLossLingers
<1>1. Init => FreshInv
  BY FreshInit
<1>2. FreshInv /\ [Next]_vars => FreshInv'
  BY FreshStep
<1>3. ASSUME FreshInv PROVE OnlyLossLingers
  <2> SUFFICES ASSUME Polled, ~Sending, NEW id \in Ids, NEW i \in DOMAIN received[id]
               PROVE  received[id][i].of \in lost
    BY DEF OnlyLossLingers
  <2>1. received[id] \in Seq(PacketSet) /\ received[id] # <<>>
    BY <1>3 DEF FreshInv, Orderly, Typed
  <2>2. PICK k \in lost : idOf[k] = id
    BY <1>3, <2>1, LeftoversTainted DEF FreshInv, Tainted
  <2>3. received[id][i].of \in Messages /\ k \in Messages /\ DOMAIN idOf = Messages
    <3>1. received[id][i] \in PacketSet
      BY <2>1
    <3> QED  BY <1>3, <3>1 DEF PacketSet, FreshInv, Orderly, Typed
  <2>4. idOf[received[id][i].of] = idOf[k]
    BY <1>3, <2>2 DEF FreshInv, Orderly, Addressed
  <2> QED  BY <1>3, <2>3, <2>4 DEF FreshInv, IsInjective
<1> QED  BY <1>1, <1>2, <1>3, PTL DEF Spec

-----------------------------------------------------------------------------
(* What the initial vector is when fragments arrive *)

Vector == sent # 0 /\ (Announcing \/ Collecting) => ctx.iv = sent

\* The vector announced stays until its message has been joined, unless the
\* handshake is lost.
LEMMA VectorStep ==
    ASSUME Prompt, Orderly, Alone, Vector, DOMAIN ctx = {"key", "iv"}, [Next]_vars, Lose => next # 0
    PROVE  Vector'
<1> USE DEF Vector
<1>1. Typed
  BY DEF Orderly
<1>2. CASE PeerSend
  <2>1. next' = 0
    BY <1>2 DEF PeerSend
  <2> QED  BY <2>1 DEF Announcing, Collecting
<1>3. CASE receive
  <2>1. /\ sent # 0 /\ task = Idle /\ ~Complete(Bucket) /\ next' = next + 1
        /\ UNCHANGED <<idOf, sent, ctx, task>> /\ next <= Frags[sent] /\ Polled
    BY <1>1, <1>3, Current DEF receive, Sending, Polled, Bucket
  <2>2. idOf[sent] \in Ids /\ idOf[sent] # Idle /\ Bucket \in Seq(PacketSet)
    BY <1>1, <2>1, Current
  <2>3. Awaiting \/ Announced \/ Collecting
    BY <2>1, <2>2, <1>1, Current DEF Orderly, Phases, Announcing, Joining, Done
  <2>4. CASE Awaiting
    <3>1. next' = 1 /\ Bucket' # <<>>
      <4>1. Bucket' = Append(Bucket, Packet(sent, next))
        BY <1>1, <1>3, <2>1, <2>2, PacketType DEF receive, Bucket, Typed
      <4> QED  BY <2>1, <2>2, <2>4, <4>1 DEF Awaiting
    <3>2. Bucket' \in Seq(PacketSet)
      BY <1>1, <1>3, <2>1, <2>2, TypedStep DEF Next, Bucket, Typed
    <3>3. ~Collecting'
      BY <3>1, <3>2 DEF Collecting, Partial
    <3> QED  BY <2>1, <2>2, <3>3 DEF Announcing
  <2>5. CASE Announced
    <3>1. Len(Bucket) = 1 /\ Bucket # <<>> /\ Bucket[1].total_fragments = 1
      BY <2>5 DEF Announced, Packet, PacketOf
    <3> QED  BY <2>1, <3>1 DEF Complete
  <2> QED  BY <2>1, <2>3, <2>4, <2>5
<1>4. CASE Lose
  <2>1. /\ sent # 0 /\ next <= Frags[sent] /\ next' = next + 1 /\ next # 0
        /\ UNCHANGED <<idOf, sent, received, ctx, task>> /\ Bucket' = Bucket
    BY <1>4 DEF Lose, Sending, Bucket
  <2>2. /\ idOf[sent] # Idle /\ next \in Nat /\ Frags[sent] \in Nat
        /\ Packet(sent, 0)' = Packet(sent, 0)
    BY <1>1, <2>1, Current DEF Packet, PacketOf
  <2>3. Announced \/ Announcing \/ Collecting
    BY <2>1, <2>2 DEF Orderly, Phases, Awaiting, Joining, Done
  <2>4. CASE Announced
    <3>1. Bucket[1].type = "ENCRYP" /\ DOMAIN Bucket = {1}
      BY <2>4 DEF Announced, Packet, PacketOf
    <3>2. Kind[sent] # "ENCRYP"
      BY <1>1, <2>1, Current DEF DataTypes
    <3>3. ~Collecting'
      BY <2>1, <3>1, <3>2 DEF Collecting, Partial
    <3>4. ~Announcing'
      BY <2>1, <2>2, <2>4 DEF Announced, Announcing
    <3> QED  BY <3>3, <3>4
  <2> QED  BY <2>1, <2>3, <2>4
<1>5. CASE PollErase
  <2>1. /\ task # Idle /\ task' = Idle /\ UNCHANGED <<idOf, sent, next, ctx>>
        /\ sent # 0 /\ task = idOf[sent] /\ idOf[sent] \in Ids /\ idOf[sent] # Idle
        /\ Bucket' = <<>> /\ Frags[sent] \in Nat
    <3>1. /\ task # Idle /\ task' = Idle /\ UNCHANGED <<idOf, sent, next, ctx>>
          /\ received' = [received EXCEPT ![task] = <<>>]
      BY <1>5 DEF PollErase, peer
    <3>2. sent # 0 /\ task = idOf[sent]
      BY <3>1 DEF Orderly
    <3> QED  BY <1>1, <3>1, <3>2, Current DEF Bucket, Typed
  <2>2. ~Announcing'
    BY <2>1 DEF Announcing
  <2>3. Announcing \/ Joining
    BY <2>1 DEF Orderly, Phases, Awaiting, Announced, Collecting, Done
  <2>4. Joining => ~Collecting'
    BY <2>1 DEF Joining, Collecting
  <2> QED  BY <2>1, <2>2, <2>3, <2>4
<1>6. ASSUME NEW id \in Ids, PollTake(id) PROVE Vector'
  <2>1. task' = id /\ UNCHANGED <<idOf, sent, next, received>> /\ Bucket' = Bucket
    BY <1>1, <1>6, TakeType DEF peer, Bucket
  <2>2. /\ sent # 0 /\ id = idOf[sent]
        /\ \/ Announced /\ ctx' = [ctx EXCEPT !.iv = sent]
           \/ Collecting /\ next = Frags[sent] + 1
    BY <1>6, TakeEffect
  <2>3. id # Idle /\ ~Collecting'
    BY <2>1, IdAssumption DEF Collecting
  <2>4. CASE Announced /\ ctx' = [ctx EXCEPT !.iv = sent]
    BY <2>1, <2>3, <2>4
  <2>5. CASE Collecting /\ next = Frags[sent] + 1
    <3>1. Announcing' => Bucket = <<Packet(sent, 0)>>
      BY <2>1 DEF Announcing, Packet, PacketOf
    <3>2. Kind[sent] # "ENCRYP" /\ Packet(sent, 0).type = "ENCRYP"
      BY <1>1, <2>2, Current DEF DataTypes, Packet, PacketOf
    <3>3. Bucket # <<Packet(sent, 0)>>
      <4> SUFFICES ASSUME Bucket = <<Packet(sent, 0)>> PROVE FALSE
        OBVIOUS
      <4>1. 1 \in DOMAIN Bucket /\ Bucket[1] = Packet(sent, 0)
        OBVIOUS
      <4> QED  BY <2>5, <3>2, <4>1 DEF Collecting, Partial
    <3> QED  BY <2>3, <3>1, <3>3
  <2> QED  BY <2>2, <2>4, <2>5
<1>7. CASE UNCHANGED vars
  <2>1. UNCHANGED <<idOf, sent, next, received, ctx, task>> /\ Bucket' = Bucket
    BY <1>7 DEF vars, peer, Bucket
  <2>2. Packet(sent, 0)' = Packet(sent, 0) /\ \A j : Packet(sent, j)' = Packet(sent, j)
    BY <2>1 DEF Packet, PacketOf
  <2>3. Partial(Bucket)' <=> Partial(Bucket)
    BY <2>1, <2>2 DEF Partial
  <2> QED  BY <2>1, <2>2, <2>3 DEF Announcing, Collecting
<1> QED  BY <1>2, <1>3, <1>4, <1>5, <1>6, <1>7 DEF Next, poll, AtRest

\* The key of the context changes with no step of the receive side, and garbage
\* is handed up by PollTake only.
LEMMA KeyKept ==
    ASSUME DOMAIN ctx = {"key", "iv"}, [Next]_vars
    PROVE  /\ ctx'.key = ctx.key
           /\ delivered' = delivered \/ \E id \in Ids : PollTake(id)
           /\ lost' = lost \/ Lose
<1>1. CASE PeerSend \/ receive \/ Lose \/ PollErase \/ UNCHANGED vars
  BY <1>1 DEF PeerSend, receive, Lose, PollErase, vars
<1>2. ASSUME NEW id \in Ids, PollTake(id) PROVE ctx'.key = ctx.key /\ lost' = lost
  BY <1>2 DEF PollTake, PollMessage, PollHandshake, PollOther
<1> QED  BY <1>1, <1>2 DEF Next, poll, AtRest

-----------------------------------------------------------------------------
(* Garbage, when ids are reused and handshakes are lost *)

Untroubled ==
    /\ Orderly
    /\ ctx \in ContextSet /\ ctx.key = "big_endian"
    /\ lost = {} => Vector /\ Garbage \notin Range(delivered)

\* Without a loss the vector is the right one and nothing is spoilt.
LEMMA UntroubledStep == ASSUME Prompt PROVE Untroubled /\ [Next]_vars => Untroubled'
<1> SUFFICES ASSUME Untroubled, [Next]_vars PROVE Untroubled'
  OBVIOUS
<1>1. Orderly /\ Orderly' /\ Typed
  BY OrderlyStep DEF Untroubled, vars, Untouched, Orderly
<1>2. ctx' \in ContextSet /\ ctx'.key = "big_endian"
  <2>1. TypeOK
    BY <1>1 DEF Untroubled, Typed, TypeOK
  <2> QED  BY <2>1, TypeStep, KeyKept DEF Untroubled, TypeOK, ContextSet
<1>3. ASSUME lost' = {} PROVE Vector' /\ Garbage \notin Range(delivered')
  <2>1. lost = {} /\ ~Lose
    <3>1. ~Lose
      BY <1>3 DEF Lose
    <3> QED  BY <1>3, <3>1, KeyKept DEF Untroubled, ContextSet
  <2>2. Alone /\ Vector /\ Garbage \notin Range(delivered)
    BY <2>1 DEF Untroubled, Alone
  <2>3. Vector'
    BY <1>1, <2>1, <2>2, VectorStep DEF Untroubled, ContextSet
  <2>4. ASSUME NEW id \in Ids, PollTake(id) PROVE Garbage \notin Range(delivered')
    <3>1. sent # 0 /\ (delivered' = delivered \/ delivered' = Append(delivered, sent))
      BY <1>1, <2>2, <2>4, TakeEffect DEF Untroubled, Vector
    <3>2. delivered \in Seq({Garbage} \cup Messages)
      BY <1>1 DEF Typed
    <3>3. CASE delivered' = Append(delivered, sent)
      <4>1. \A i \in DOMAIN delivered' : delivered'[i] = sent \/ i \in DOMAIN delivered
        BY <3>2, <3>3
      <4>2. \A i \in DOMAIN delivered : delivered'[i] = delivered[i] /\ delivered[i] # Garbage
        BY <2>2, <3>2, <3>3 DEF Range
      <4> QED  BY <3>1, <4>1, <4>2 DEF Range, Garbage
    <3> QED  BY <2>2, <3>1, <3>3
  <2> QED  BY <2>2, <2>3, <2>4, KeyKept DEF Untroubled, ContextSet
<1> QED  BY <1>1, <1>2, <1>3 DEF Untroubled

\* PacketHandler::receive and poll hand up garbage for no other reason than a
\* packet that has been lost before: not because a message has the id of an
\* earlier one, nor because handshakes and fragments share the map.
THEOREM GarbageComesFromLoss == ASSUME Prompt, Keyed PROVE Spec => []GarbageNeedsLoss
<1>1. ASSUME Init PROVE Untroubled
  <2>1. Orderly /\ ctx \in ContextSet
    BY <1>1, OrderlyInit, TypeInit DEF TypeOK
  <2> QED  BY <1>1, <2>1 DEF Init, Untroubled, Vector, Range
<1>2. Untroubled /\ [Next]_vars => Untroubled'
  BY UntroubledStep
<1>3. Untroubled => GarbageNeedsLoss
  BY DEF Untroubled, GarbageNeedsLoss
<1> QED  BY <1>1, <1>2, <1>3, PTL DEF Spec

-----------------------------------------------------------------------------
(* The refinement *)

\* Messages have been delivered in order, the current one when it is joined.
Behind ==
    \A i \in DOMAIN delivered :
        /\ delivered[i] \in 1 .. sent
        /\ delivered[i] = sent => Joining \/ Done

RInv ==
    /\ FreshInv
    /\ ctx \in ContextSet /\ ctx.key = "big_endian"
    /\ Vector
    /\ Behind

\* The refinement's invariant at the start.
LEMMA RInvInit == ASSUME Dependable, Init PROVE RInv
<1>1. FreshInv /\ ctx \in ContextSet
  BY FreshInit, TypeInit DEF Dependable, TypeOK
<1> QED  BY <1>1 DEF Init, Dependable, RInv, Vector, Behind

\* Under the invariant poll() delivers the message being sent or nothing.
LEMMA TakeDelivers ==
    ASSUME RInv, NEW id \in Ids, PollTake(id)
    PROVE  /\ sent # 0 /\ \A i \in DOMAIN delivered : delivered[i] < sent
           /\ \/ UNCHANGED delivered
              \/ delivered' = Append(delivered, sent) /\ Joining'
<1>1. Orderly /\ Typed
  BY DEF RInv, FreshInv, Orderly
<1>2. sent # 0 /\ id = idOf[sent]
  BY DEF PollTake, RInv, FreshInv, Orderly, Others
<1>3. \/ Announced /\ UNCHANGED delivered
      \/ Collecting /\ next = Frags[sent] + 1
           /\ (UNCHANGED delivered \/ delivered' = Append(delivered, sent))
  BY <1>1, <1>2, FreshAlone, TakeEffect DEF RInv, Vector
<1>4. task' = id /\ UNCHANGED <<idOf, sent, next>>
  BY <1>1, TakeType DEF peer
<1>5. task = Idle /\ idOf[sent] # Idle
  BY <1>2, IdAssumption DEF PollTake
<1>6. ~Joining /\ ~Done
  <2>1. ~Joining
    BY <1>5 DEF Joining
  <2>2. ~Done
    BY <1>2 DEF Done, PollTake, Complete, Bucket
  <2> QED  BY <2>1, <2>2
<1>7. ASSUME NEW i \in DOMAIN delivered PROVE delivered[i] < sent
  <2>1. delivered[i] \in 1 .. sent /\ delivered[i] # sent /\ sent \in Nat
    BY <1>1, <1>2, <1>6, Current DEF RInv, Behind
  <2> QED  BY <2>1
<1> QED  BY <1>2, <1>3, <1>4, <1>7 DEF Joining

\* What is delivered never runs ahead of what was sent.
LEMMA BehindStep == ASSUME Dependable, RInv, [Next]_vars PROVE Behind'
<1>1. Orderly /\ Typed
  BY DEF RInv, FreshInv, Orderly
<1>2. CASE PeerSend
  <2>1. sent' = sent + 1 /\ UNCHANGED delivered /\ sent \in Nat
    BY <1>1, <1>2 DEF PeerSend, Typed
  <2>2. \A i \in DOMAIN delivered : delivered[i] \in 1 .. sent' /\ delivered[i] # sent'
    BY <2>1 DEF RInv, Behind
  <2> QED  BY <2>1, <2>2 DEF Behind
<1>3. CASE receive \/ Lose
  <2>1. /\ sent # 0 /\ next <= Frags[sent] /\ UNCHANGED <<sent, delivered>>
        /\ next \in Nat /\ Frags[sent] \in Nat
    BY <1>1, <1>3, Current DEF receive, Lose, Sending
  <2>2. ~Joining /\ ~Done
    BY <2>1 DEF Joining, Done
  <2> QED  BY <2>1, <2>2 DEF RInv, Behind
<1>4. CASE PollErase
  <2>1. /\ task # Idle /\ task' = Idle /\ UNCHANGED <<idOf, sent, next, delivered>>
        /\ received' = [received EXCEPT ![task] = <<>>]
    BY <1>4 DEF PollErase, peer
  <2>2. sent # 0 /\ task = idOf[sent] /\ idOf[sent] \in Ids
    BY <1>1, <2>1, Current DEF Orderly
  <2>3. Bucket' = <<>>
    BY <1>1, <2>1, <2>2 DEF Bucket, Typed
  <2> QED  BY <2>1, <2>3 DEF RInv, Behind, Joining, Done
<1>5. ASSUME NEW id \in Ids, PollTake(id) PROVE Behind'
  <2>1. /\ sent' = sent /\ sent \in Nat /\ sent # 0
        /\ \A i \in DOMAIN delivered : delivered[i] < sent
        /\ UNCHANGED delivered \/ (delivered' = Append(delivered, sent) /\ Joining')
    BY <1>1, <1>5, TakeDelivers, Current DEF PollTake, peer
  <2>2. \A i \in DOMAIN delivered : delivered[i] \in 1 .. sent /\ delivered[i] # sent
    BY <2>1 DEF RInv, Behind
  <2>3. CASE UNCHANGED delivered
    BY <2>1, <2>2, <2>3 DEF Behind
  <2>4. CASE delivered' = Append(delivered, sent) /\ Joining'
    <3>1. delivered \in Seq({Garbage} \cup Messages)
      BY <1>1 DEF Typed
    <3>2. \A i \in DOMAIN delivered' :
            delivered'[i] = sent \/ (i \in DOMAIN delivered /\ delivered'[i] = delivered[i])
      BY <2>4, <3>1
    <3> QED  BY <2>1, <2>2, <2>4, <3>2 DEF Behind
  <2> QED  BY <2>1, <2>3, <2>4
<1>6. CASE UNCHANGED vars
  BY <1>6 DEF vars, peer, RInv, Behind, Joining, Done, Bucket
<1> QED  BY <1>2, <1>3, <1>4, <1>5, <1>6 DEF Next, poll, AtRest

\* The refinement's invariant is inductive.
LEMMA RInvStep == ASSUME Dependable, RInv, [Next]_vars PROVE RInv'
<1>1. Prompt /\ FreshInv /\ FreshInv' /\ Orderly /\ Typed
  BY FreshStep DEF RInv, FreshInv, Orderly, Dependable
<1>2. ctx' \in ContextSet /\ ctx'.key = "big_endian"
  <2>1. TypeOK
    BY <1>1 DEF RInv, Typed, TypeOK
  <2> QED  BY <2>1, TypeStep, KeyKept DEF RInv, TypeOK, ContextSet
<1>3. Vector'
  <2>1. CASE sent # 0
    <3>1. Lose => next # 0
      BY DEF Lose, Dependable, Packet, PacketOf
    <3> QED  BY <1>1, <2>1, <3>1, FreshAlone, VectorStep DEF RInv, ContextSet
  <2>2. CASE sent = 0
    <3>1. sent' = 0 \/ next' = 0
      <4>1. ASSUME NEW id \in Ids, ~Complete(received[id]) PROVE ~PollTake(id)
        BY <4>1 DEF PollTake
      <4>2. ~receive /\ ~Lose /\ ~PollErase /\ ~\E id \in Ids : PollTake(id)
        BY <1>1, <2>2, <4>1 DEF receive, Lose, Sending, PollErase, Orderly, Others
      <4> QED  BY <2>2, <4>2 DEF Next, poll, PeerSend, AtRest, vars, peer
    <3> QED  BY <3>1 DEF Vector, Announcing, Collecting
  <2> QED  BY <2>1, <2>2
<1> QED  BY <1>1, <1>2, <1>3, BehindStep DEF RInv

\* One step of the receive side is a step of the message service, or none.
LEMMA RefinementStep ==
    ASSUME Dependable, RInv, [Next]_vars
    PROVE  [Service!Next]_<<sent, delivered>>
<1>1. CASE PeerSend
  BY <1>1 DEF PeerSend, Service!Next, Service!Offer
<1>2. CASE receive \/ Lose \/ PollErase \/ UNCHANGED vars
  BY <1>2 DEF receive, Lose, PollErase, vars, peer
<1>3. ASSUME NEW id \in Ids, PollTake(id) PROVE [Service!Next]_<<sent, delivered>>
  <2>1. sent' = sent
    BY <1>3 DEF PollTake, peer
  <2>2. sent # 0 /\ \A i \in DOMAIN delivered : delivered[i] < sent
    BY <1>3, TakeDelivers
  <2>3. sent \in 1 .. sent
    BY <2>2, Current DEF RInv, FreshInv, Orderly
  <2>4. UNCHANGED delivered \/ delivered' = Append(delivered, sent)
    BY <1>3, TakeDelivers
  <2> QED  BY <2>1, <2>2, <2>3, <2>4 DEF Service!Next, Service!Deliver
<1> QED  BY <1>1, <1>2, <1>3 DEF Next, poll, AtRest

\* PacketHandler::receive and poll implement the message service, whatever
\* fragments are lost: messages reach the callback in order, each at most once,
\* and none that the peer has not sent.
THEOREM ReceiveImplementsService == ASSUME Dependable PROVE Spec => ImplementsService
<1>1. Init => RInv
  BY RInvInit
<1>2. RInv /\ [Next]_vars => RInv'
  BY RInvStep
<1>3. Init => Service!Init
  BY DEF Init, Service!Init
<1>4. RInv /\ [Next]_vars => [Service!Next]_<<sent, delivered>>
  BY RefinementStep
<1> QED  BY <1>1, <1>2, <1>3, <1>4, PTL DEF Spec, ImplementsService, Service!Spec

\* Under the same assumptions the callback is never given bytes that are no
\* message of the peer; with reused ids it is, as reassembly_stale shows.
THEOREM NothingInvented == ASSUME Dependable PROVE Spec => []DeliveredIsSent
<1>1. Init => RInv
  BY RInvInit
<1>2. RInv /\ [Next]_vars => RInv'
  BY RInvStep
<1>3. ASSUME RInv PROVE DeliveredIsSent
  <2>1. sent \in Nat /\ \A i \in DOMAIN delivered : delivered[i] \in 1 .. sent
    BY <1>3 DEF RInv, FreshInv, Orderly, Typed, Behind
  <2>2. \A i \in DOMAIN delivered : delivered[i] # Garbage
    BY <2>1 DEF Garbage
  <2> QED  BY <2>2 DEF DeliveredIsSent, Range
<1> QED  BY <1>1, <1>2, <1>3, PTL DEF Spec
-----------------------------------------------------------------------------
(* Order, with ids reused, anything lost and poll() arbitrarily late *)

\* Every packet in the map has been sent, under the id of its bucket.
Past == \A id \in Ids : \A i \in DOMAIN received[id] :
    \E m \in Messages, k \in Nat :
        /\ received[id][i] = Packet(m, k) /\ idOf[m] = id /\ k <= Frags[m]
        /\ m < sent \/ (m = sent /\ k < next)

InBucket(m, k) == \E i \in DOMAIN received[idOf[m]] : received[idOf[m]][i] = Packet(m, k)

\* poll() may still take up message m, with its vector.
Ready(m) ==
    /\ ctx.iv = m
    /\ task # idOf[m]
    /\ ~InBucket(m, 0) /\ \A k \in 1 .. Frags[m] : InBucket(m, k)

\* All of m has been sent, and poll() will not take it up again.
Spent(m) == (m < sent \/ (m = sent /\ next > Frags[m])) /\ ~Ready(m)

\* So it is with every message up to one that has been delivered.
AllSpent == \A i \in DOMAIN delivered : \A m \in 1 .. delivered[i] : m \in Messages /\ Spent(m)

OrderInv == Typed /\ DOMAIN ctx = {"key", "iv"} /\ Past /\ AllSpent /\ InOrder

\* The receive side takes no step; the context gets at most a vector that is no
\* message's.
Foreign == Untouched /\ DOMAIN ctx' = {"key", "iv"} /\ ctx'.iv \notin Messages \ {ctx.iv}

\* An injective function from 1..n to itself misses nothing.
LEMMA NothingMissed ==
    ASSUME NEW n \in Nat, NEW f \in [1 .. n -> 1 .. n], IsInjective(f), NEW i \in 1 .. n
    PROVE  \E j \in 1 .. n : f[j] = i
<1>1. IsFiniteSet(1 .. n)
  BY FS_Interval
<1>2. f \in Injection(1 .. n, 1 .. n)
  BY DEF Injection
<1>3. f \in Surjection(1 .. n, 1 .. n)
  BY <1>1, <1>2, FS_Injection
<1> QED  BY <1>3 DEF Surjection

\* Sorting keeps every packet of the bucket and adds none.
LEMMA SortedKeeps ==
    ASSUME NEW bucket \in Seq(PacketSet), NEW fragments \in Sorted(bucket)
    PROVE  /\ \A i \in DOMAIN fragments : \E j \in DOMAIN bucket : fragments[i] = bucket[j]
           /\ \A j \in DOMAIN bucket : \E i \in DOMAIN fragments : fragments[i] = bucket[j]
<1> DEFINE n == Len(bucket)
<1>1. n \in Nat /\ DOMAIN bucket = 1 .. n
  OBVIOUS
<1>2. PICK f \in [1 .. n -> 1 .. n] :
        fragments = [i \in 1 .. n |-> bucket[f[i]]] /\ IsInjective(f)
  BY <1>1 DEF Sorted
<1>3. \A i \in 1 .. n : f[i] \in 1 .. n /\ fragments[i] = bucket[f[i]]
  BY <1>2
<1>4. \A j \in 1 .. n : \E i \in 1 .. n : f[i] = j
  BY <1>1, <1>2, NothingMissed
<1>5. DOMAIN fragments = 1 .. n
  BY <1>2
<1> QED  BY <1>1, <1>3, <1>4, <1>5

\* The numbers, types and senders of a message's packets.
LEMMA PacketFields ==
    ASSUME NEW m \in Messages, NEW k \in Nat
    PROVE  /\ Packet(m, k).of = m
           /\ Packet(m, k).type = "ENCRYP" <=> k = 0
<1>1. Kind[m] \in DataTypes
  BY ReassemblyAssumption
<1>2. Kind[m] # "ENCRYP"
  BY <1>1 DEF DataTypes
<1> QED  BY <1>2 DEF Packet, PacketOf

\* A message that is spent stays so, whatever step is taken.
LEMMA SpentStays ==
    ASSUME OrderInv, NEW m \in Messages, Spent(m), Next \/ Foreign
    PROVE  Spent(m)'
<1>1. /\ m \in Nat /\ sent \in Nat /\ next \in Nat /\ idOf[m] \in Ids /\ idOf[m] # Idle
      /\ Frags[m] \in Nat \ {0} /\ 1 \in 1 .. Frags[m]
  BY ReassemblyAssumption, IdAssumption DEF OrderInv, Typed, Messages
<1>2. ASSUME idOf' = idOf PROVE \A k : Packet(m, k)' = Packet(m, k)
  BY <1>2 DEF Packet, PacketOf
<1>3. ASSUME UNCHANGED <<idOf, ctx, task>>, received'[idOf[m]] = received[idOf[m]]
      PROVE  Ready(m)' <=> Ready(m)
  BY <1>2, <1>3 DEF Ready, InBucket
<1>4. CASE PeerSend
  <2>1. Ready(m)' <=> Ready(m)
    BY <1>3, <1>4 DEF PeerSend
  <2> QED  BY <1>1, <1>4, <2>1 DEF PeerSend, Spent
<1>5. CASE receive
  <2>1. /\ m # sent /\ sent \in Messages /\ Packet(sent, next).of = sent
        /\ Packet(sent, next).message_id = idOf[sent] /\ idOf[sent] \in Ids
    BY <1>1, <1>5, PacketType DEF receive, Sending, Spent, OrderInv
  <2>2. UNCHANGED <<idOf, sent, ctx, task>>
        /\ received' = [received EXCEPT ![idOf[sent]] = Append(@, Packet(sent, next))]
    BY <1>5, <2>1 DEF receive
  <2>3. ASSUME NEW k \in Nat PROVE InBucket(m, k)' <=> InBucket(m, k)
    <3> DEFINE b == received[idOf[m]]
               p == Packet(sent, next)
    <3>1. Packet(m, k)' = Packet(m, k) /\ p # Packet(m, k) /\ idOf' = idOf
      BY <1>2, <2>1, <2>2, PacketFields
    <3>2. b \in Seq(PacketSet)
      BY <1>1 DEF OrderInv, Typed
    <3>3. CASE idOf[m] = idOf[sent]
      <4>1. received'[idOf[m]] = Append(b, p)
        BY <1>1, <2>2, <3>3 DEF OrderInv, Typed
      <4>2. /\ Len(b) \in Nat /\ DOMAIN b = 1 .. Len(b) /\ DOMAIN Append(b, p) = 1 .. Len(b) + 1
            /\ Append(b, p)[Len(b) + 1] = p /\ \A i \in 1 .. Len(b) : Append(b, p)[i] = b[i]
        BY <3>2
      <4>3. \A i \in 1 .. Len(b) + 1 : i \in 1 .. Len(b) \/ i = Len(b) + 1
        BY <4>2
      <4>4. \A i \in 1 .. Len(b) : i \in 1 .. Len(b) + 1
        BY <4>2
      <4> HIDE DEF b, p
      <4>5. (\E i \in DOMAIN Append(b, p) : Append(b, p)[i] = Packet(m, k))
               <=> (\E i \in DOMAIN b : b[i] = Packet(m, k))
        BY <3>1, <4>2, <4>3, <4>4
      <4> QED  BY <3>1, <4>1, <4>5 DEF InBucket, b
    <3>4. CASE idOf[m] # idOf[sent]
      <4>1. received'[idOf[m]] = b
        BY <1>1, <2>2, <3>4 DEF OrderInv, Typed
      <4> QED  BY <3>1, <4>1 DEF InBucket
    <3> QED  BY <3>3, <3>4
  <2>4. \A k \in 1 .. Frags[m] : k \in Nat
    BY <1>1
  <2>5. InBucket(m, 0)' <=> InBucket(m, 0)
    BY <2>3
  <2>6. Ready(m)' => Ready(m)
    BY <2>2, <2>3, <2>4, <2>5 DEF Ready
  <2> QED  BY <2>1, <2>2, <2>6 DEF Spent
<1>6. CASE Lose
  <2>1. Ready(m)' <=> Ready(m)
    BY <1>3, <1>6 DEF Lose
  <2>2. m # sent /\ sent' = sent
    BY <1>1, <1>6 DEF Lose, Sending, Spent
  <2> QED  BY <2>1, <2>2 DEF Spent
<1>7. CASE PollErase
  <2>1. /\ UNCHANGED <<idOf, sent, next, ctx>> /\ task \in Ids
        /\ received' = [received EXCEPT ![task] = <<>>]
    BY <1>7 DEF PollErase, peer, OrderInv, Typed
  <2>2. CASE task = idOf[m]
    <3>1. received'[idOf'[m]] = <<>>
      BY <1>1, <2>1, <2>2 DEF OrderInv, Typed
    <3>2. ~InBucket(m, 1)'
      BY <3>1 DEF InBucket
    <3> QED  BY <1>1, <2>1, <3>2 DEF Spent, Ready
  <2>3. CASE task # idOf[m]
    <3>1. received'[idOf[m]] = received[idOf[m]]
      BY <1>1, <2>1, <2>3 DEF OrderInv, Typed
    <3>2. \A k : InBucket(m, k)' <=> InBucket(m, k)
      BY <1>2, <2>1, <3>1 DEF InBucket
    <3> QED  BY <2>1, <2>3, <3>2 DEF Spent, Ready
  <2> QED  BY <2>2, <2>3
<1>8. ASSUME NEW id \in Ids, PollTake(id) PROVE Spent(m)'
  <2>1. task' = id /\ UNCHANGED <<idOf, sent, next, received>> /\ task = Idle
    BY <1>8 DEF PollTake, peer
  <2>2. \A k : InBucket(m, k)' <=> InBucket(m, k)
    BY <1>2, <2>1 DEF InBucket
  <2>3. received[id] \in Seq(PacketSet) /\ received[id] # <<>>
    BY <1>8 DEF PollTake, Complete, OrderInv, Typed
  <2>4. PICK fragments \in Sorted(received[id]) :
          PollMessage(fragments) \/ PollHandshake(fragments) \/ PollOther(fragments)
    BY <1>8 DEF PollTake
  <2>5. CASE PollMessage(fragments)
    <3>1. ctx'.iv = NoIv /\ NoIv # m
      BY <2>5 DEF PollMessage, OrderInv, NoIv, Messages
    <3> QED  BY <2>1, <3>1 DEF Spent, Ready
  <2>6. CASE PollOther(fragments)
    BY <1>1, <2>1, <2>2, <2>6 DEF PollOther, Spent, Ready
  <2>7. CASE PollHandshake(fragments)
    <3>1. fragments[1].type = "ENCRYP" /\ ctx'.iv = fragments[1].of
      BY <2>7 DEF PollHandshake, OrderInv
    <3>2. 1 \in DOMAIN fragments
      BY <2>3, <2>4, SortedType
    <3>3. PICK i \in DOMAIN received[id] : fragments[1] = received[id][i]
      BY <2>3, <2>4, <3>2, SortedKeeps
    <3>4. PICK n \in Messages, k \in Nat : received[id][i] = Packet(n, k) /\ idOf[n] = id
      BY DEF OrderInv, Past
    <3>5. ctx'.iv = n
      BY <3>1, <3>3, <3>4, PacketFields
    <3>6. ctx'.iv = m => task' = idOf'[m]
      BY <2>1, <3>4, <3>5
    <3> QED  BY <2>1, <3>6 DEF Spent, Ready
  <2> QED  BY <2>4, <2>5, <2>6, <2>7
<1>9. CASE Foreign \/ UNCHANGED vars
  <2>1. UNCHANGED <<idOf, sent, next, received, task>> /\ (ctx'.iv = m => ctx.iv = m)
    BY <1>9 DEF Foreign, Untouched, vars, peer
  <2>2. \A k : InBucket(m, k)' <=> InBucket(m, k)
    BY <1>2, <2>1 DEF InBucket
  <2> QED  BY <2>1, <2>2 DEF Spent, Ready
<1> QED  BY <1>4, <1>5, <1>6, <1>7, <1>8, <1>9 DEF Next, poll, AtRest

\* The packets in the map stay those that were sent.
LEMMA PastStep == ASSUME Typed, Past, Next \/ Foreign PROVE Past'
<1>1. sent \in Nat /\ next \in Nat
  BY DEF Typed
<1>2. idOf' = idOf
  BY DEF Next, PeerSend, receive, Lose, poll, PollErase, PollTake, AtRest, Foreign, Untouched,
         vars, peer
<1>3. \A m, k : Packet(m, k)' = Packet(m, k)
  BY <1>2 DEF Packet, PacketOf
<1> SUFFICES ASSUME NEW id \in Ids, NEW i \in DOMAIN received'[id]
             PROVE  \E m \in Messages, k \in Nat :
                       /\ received'[id][i] = Packet(m, k) /\ idOf[m] = id /\ k <= Frags[m]
                       /\ m < sent' \/ (m = sent' /\ k < next')
  BY <1>2, <1>3 DEF Past
<1>4. ASSUME NEW j \in DOMAIN received[id], received'[id][i] = received[id][j],
             sent' = sent + 1 \/ (sent' = sent /\ next' \in Nat /\ next <= next')
      PROVE  \E m \in Messages, k \in Nat :
                /\ received'[id][i] = Packet(m, k) /\ idOf[m] = id /\ k <= Frags[m]
                /\ m < sent' \/ (m = sent' /\ k < next')
  <2>1. PICK m \in Messages, k \in Nat :
          /\ received[id][j] = Packet(m, k) /\ idOf[m] = id /\ k <= Frags[m]
          /\ m < sent \/ (m = sent /\ k < next)
    BY DEF Past
  <2>2. m < sent' \/ (m = sent' /\ k < next')
    BY <1>1, <1>4, <2>1 DEF Messages
  <2> QED  BY <1>4, <2>1, <2>2
<1>5. CASE PeerSend
  BY <1>4, <1>5 DEF PeerSend
<1>6. CASE receive
  <2> DEFINE b == received[idOf[sent]]
             p == Packet(sent, next)
  <2>1. /\ sent \in Messages /\ p \in PacketSet /\ idOf[sent] \in Ids /\ p.message_id = idOf[sent]
    BY <1>6, PacketType DEF receive
  <2>2. /\ sent' = sent /\ next' = next + 1 /\ next <= Frags[sent]
        /\ received' = [received EXCEPT ![idOf[sent]] = Append(@, p)]
    BY <1>6, <2>1 DEF receive, Sending
  <2>3. CASE id # idOf[sent]
    <3>1. received'[id] = received[id]
      BY <2>1, <2>2, <2>3 DEF Typed
    <3>2. i \in DOMAIN received[id] /\ received'[id][i] = received[id][i]
      BY <3>1
    <3>3. sent' = sent /\ next' \in Nat /\ next <= next'
      BY <1>1, <2>2
    <3> QED  BY <1>4, <3>2, <3>3
  <2>4. CASE id = idOf[sent]
    <3>1. b \in Seq(PacketSet) /\ received'[id] = Append(b, p)
      BY <2>1, <2>2, <2>4 DEF Typed
    <3>2. CASE i = Len(b) + 1
      <4>1. received'[id][i] = p
        BY <3>1, <3>2
      <4>2. sent' = sent /\ next < next'
        BY <1>1, <2>2
      <4> QED  BY <1>1, <2>1, <2>2, <2>4, <4>1, <4>2
    <3>3. CASE i # Len(b) + 1
      <4>1. i \in DOMAIN b /\ received'[id][i] = b[i]
        BY <3>1, <3>3
      <4> QED  BY <1>1, <1>4, <2>2, <2>4, <4>1
    <3> QED  BY <3>2, <3>3
  <2> QED  BY <2>3, <2>4
<1>7. CASE Lose
  BY <1>1, <1>4, <1>7 DEF Lose
<1>8. CASE PollErase
  <2>1. /\ UNCHANGED <<sent, next>> /\ task \in Ids
        /\ received' = [received EXCEPT ![task] = <<>>]
    BY <1>8 DEF PollErase, peer, Typed
  <2>2. received'[id] = IF id = task THEN <<>> ELSE received[id]
    BY <2>1 DEF Typed
  <2>3. received'[id] = received[id]
    BY <2>2
  <2> QED  BY <1>1, <1>4, <2>1, <2>3
<1>9. CASE UNCHANGED <<sent, next, received>>
  BY <1>1, <1>4, <1>9
<1> QED  BY <1>5, <1>6, <1>7, <1>8, <1>9 DEF Next, poll, PollTake, AtRest, Foreign, Untouched, vars, peer

\* A message that poll() delivers had all its packets in the bucket and its vector
\* in the context: it was not spent.
LEMMA DeliveredWasReady ==
    ASSUME OrderInv, NEW id \in Ids, PollTake(id)
    PROVE  \/ UNCHANGED delivered
           \/ delivered' = Append(delivered, Garbage)
           \/ \E d \in Messages :
                 /\ delivered' = Append(delivered, d)
                 /\ Ready(d) /\ ctx'.iv = NoIv
                 /\ d < sent \/ (d = sent /\ next > Frags[d])
<1> DEFINE b == received[id]
<1>1. b \in Seq(PacketSet) /\ b # <<>> /\ task = Idle
  BY DEF PollTake, Complete, OrderInv, Typed
<1>2. PICK fragments \in Sorted(b) :
        PollMessage(fragments) \/ PollHandshake(fragments) \/ PollOther(fragments)
  BY DEF PollTake
<1>3. CASE PollHandshake(fragments) \/ PollOther(fragments)
  BY <1>3 DEF PollHandshake, PollOther
<1>4. ASSUME NEW d \in Messages, Decrypts(fragments, d), delivered' = Append(delivered, d),
             PollMessage(fragments)
      PROVE  /\ Ready(d) /\ ctx'.iv = NoIv
             /\ d < sent \/ (d = sent /\ next > Frags[d])
  <2>1. /\ d \in Nat /\ Frags[d] \in Nat \ {0} /\ sent \in Nat /\ next \in Nat
        /\ idOf[d] \in Ids /\ idOf[d] # Idle
    BY ReassemblyAssumption, IdAssumption DEF OrderInv, Typed, Messages
  <2>2. fragments \in Seq(PacketSet)
    BY <1>1, <1>2, SortedType
  <2>3. ctx.iv = d /\ Len(fragments) = Frags[d] /\ \A k \in DOMAIN fragments : fragments[k] = Packet(d, k)
    BY <1>4 DEF Decrypts
  <2>4. DOMAIN fragments = 1 .. Frags[d] /\ Frags[d] \in 1 .. Frags[d]
    BY <2>1, <2>2, <2>3
  <2>5. ASSUME NEW k \in 1 .. Frags[d]
        PROVE  (\E i \in DOMAIN b : b[i] = Packet(d, k)) /\ k \in Nat /\ k # 0
    <3>0. k \in DOMAIN fragments
      BY <2>4
    <3>1. PICK i \in DOMAIN b : fragments[k] = b[i]
      BY <1>1, <1>2, <3>0, SortedKeeps
    <3>2. k \in Nat /\ k # 0
      BY <2>1
    <3> QED  BY <2>3, <2>4, <3>1, <3>2
  <2>6. PICK i \in DOMAIN b : b[i] = Packet(d, Frags[d])
    BY <2>4, <2>5
  <2>7. PICK n \in Messages, k \in Nat :
          /\ b[i] = Packet(n, k) /\ idOf[n] = id /\ k <= Frags[n]
          /\ n < sent \/ (n = sent /\ k < next)
    BY DEF OrderInv, Past
  <2>8. n = d
    <3>1. Packet(d, Frags[d]).of = d
      BY <2>1, PacketFields
    <3>2. Packet(n, k).of = n
      BY PacketFields
    <3> QED  BY <2>6, <2>7, <3>1, <3>2
  <2>9. k = Frags[d]
    <3>1. k # 0
      <4>1. Packet(d, Frags[d]).type # "ENCRYP"
        BY <2>1, PacketFields
      <4>2. k = 0 => Packet(n, k).type = "ENCRYP"
        BY PacketFields
      <4> QED  BY <2>6, <2>7, <4>1, <4>2
    <3>2. Packet(n, k).fragment_id = k - 1 /\ Packet(d, Frags[d]).fragment_id = Frags[d] - 1
      BY <2>1, <3>1 DEF Packet, PacketOf
    <3> QED  BY <2>1, <2>6, <2>7, <3>1, <3>2
  <2>10. idOf[d] = id /\ (d < sent \/ (d = sent /\ next > Frags[d]))
    BY <2>1, <2>7, <2>8, <2>9
  <2>11. ASSUME NEW j \in DOMAIN b PROVE b[j] # Packet(d, 0)
    <3>1. PICK l \in DOMAIN fragments : fragments[l] = b[j]
      BY <1>1, <1>2, SortedKeeps
    <3>2. b[j] = Packet(d, l) /\ l \in Nat /\ l # 0
      BY <2>3, <2>4, <2>5, <3>1
    <3>3. Packet(d, l).type # "ENCRYP" /\ Packet(d, 0).type = "ENCRYP"
      BY <3>2, PacketFields
    <3> QED  BY <3>2, <3>3
  <2>12. Ready(d)
    BY <1>1, <2>1, <2>3, <2>5, <2>10, <2>11 DEF Ready, InBucket
  <2>13. ctx'.iv = NoIv
    BY <1>4 DEF PollMessage, OrderInv
  <2> QED  BY <2>10, <2>12, <2>13
<1>5. CASE PollMessage(fragments)
  BY <1>4, <1>5 DEF PollMessage
<1> QED  BY <1>2, <1>3, <1>5

\* Each step of either side keeps the order.
LEMMA OrderStep ==
    ASSUME OrderInv, Next \/ Foreign PROVE OrderInv'
<1>1. Typed' /\ Past'
  BY TypedStep, PastStep DEF OrderInv, Foreign
<1>0. DOMAIN ctx' = {"key", "iv"}
  <2>1. ASSUME NEW fragments, PollMessage(fragments) \/ PollHandshake(fragments) \/ PollOther(fragments)
        PROVE  DOMAIN ctx' = {"key", "iv"}
    BY <2>1 DEF PollMessage, PollHandshake, PollOther, OrderInv
  <2>2. ASSUME NEW id \in Ids, PollTake(id) PROVE DOMAIN ctx' = {"key", "iv"}
    BY <2>1, <2>2 DEF PollTake
  <2> QED  BY <2>2 DEF Next, PeerSend, receive, Lose, poll, PollErase, AtRest, vars, Foreign, OrderInv
<1>2. /\ delivered \in Seq({Garbage} \cup Messages) /\ sent \in Nat /\ sent' \in Nat
      /\ sent <= sent'
  <2>1. sent' = sent \/ sent' = sent + 1
    BY DEF Next, PeerSend, receive, Lose, poll, PollErase, PollTake, AtRest, Foreign, Untouched,
           vars, peer
  <2> QED  BY <2>1 DEF OrderInv, Typed
<1>3. \A i \in DOMAIN delivered : delivered[i] \in Nat
  BY <1>2 DEF Garbage, Messages
<1>4. \A i \in DOMAIN delivered : \A m \in 1 .. delivered[i] : m \in Messages /\ Spent(m)'
  BY SpentStays DEF OrderInv, AllSpent
<1>5. CASE UNCHANGED delivered
  <2>1. AllSpent'
    BY <1>4, <1>5 DEF AllSpent
  <2>2. InOrder'
    BY <1>2, <1>3, <1>5 DEF OrderInv, InOrder
  <2> QED  BY <1>0, <1>1, <2>1, <2>2 DEF OrderInv
<1>6. ASSUME NEW id \in Ids, PollTake(id), delivered' # delivered PROVE AllSpent' /\ InOrder'
  <2>1. PICK d \in {Garbage} \cup Messages :
          /\ delivered' = Append(delivered, d)
          /\ d # Garbage => /\ Ready(d) /\ ctx'.iv = NoIv
                            /\ d < sent \/ (d = sent /\ next > Frags[d])
    <3>1. Garbage \notin Messages
      BY DEF Garbage, Messages
    <3> QED  BY <1>6, <3>1, DeliveredWasReady
  <2>2. UNCHANGED <<sent, next>> /\ NoIv = 0 /\ Garbage = 0
    BY <1>6 DEF PollTake, peer, NoIv, Garbage
  <2>3. /\ d \in Nat /\ (d # 0 => d \in Messages) /\ next \in Nat
        /\ \A m \in 1 .. d : m \in Messages /\ m \in Nat /\ m # 0 /\ Frags[m] \in Nat
    BY <2>2, ReassemblyAssumption DEF Messages, OrderInv, Typed
  <2>4. ASSUME NEW m \in 1 .. d PROVE m \in Messages /\ Spent(m)'
    <3>1. m < sent \/ (m = sent /\ next > Frags[m])
      BY <1>2, <2>1, <2>2, <2>3, <2>4
    <3>2. ~Ready(m)'
      BY <2>1, <2>2, <2>3, <2>4 DEF Ready
    <3> QED  BY <2>2, <2>3, <3>1, <3>2 DEF Spent
  <2>5. ASSUME NEW i \in DOMAIN delivered, d # Garbage PROVE delivered[i] < d
    <3>1. d \in 1 .. delivered[i] => Spent(d)
      BY DEF OrderInv, AllSpent
    <3>2. d \notin 1 .. delivered[i]
      BY <2>1, <2>5, <3>1 DEF Spent
    <3> QED  BY <1>3, <2>2, <2>3, <2>5, <3>2
  <2>6. /\ Len(delivered) \in Nat /\ DOMAIN delivered = 1 .. Len(delivered)
        /\ DOMAIN delivered' = 1 .. Len(delivered) + 1
        /\ \A i \in 1 .. Len(delivered) : delivered'[i] = delivered[i]
        /\ delivered'[Len(delivered) + 1] = d
    BY <1>2, <2>1
  <2>7. AllSpent'
    <3>1. \A i \in 1 .. Len(delivered) + 1 : i \in 1 .. Len(delivered) \/ i = Len(delivered) + 1
      BY <2>6
    <3> QED  BY <1>4, <2>4, <2>6, <3>1 DEF AllSpent
  <2>8. ASSUME NEW i \in 1 .. Len(delivered) + 1, delivered'[i] # Garbage
        PROVE  delivered'[i] <= sent' /\ \A j \in 1 .. i - 1 : delivered'[j] < delivered'[i]
    <3>1. CASE i \in 1 .. Len(delivered)
      <4>1. \A j \in 1 .. i - 1 : j \in 1 .. Len(delivered)
        BY <2>6, <3>1
      <4>2. delivered[i] <= sent /\ \A j \in 1 .. i - 1 : delivered[j] < delivered[i]
        BY <2>6, <2>8, <3>1 DEF OrderInv, InOrder
      <4> QED  BY <2>2, <2>6, <3>1, <4>1, <4>2
    <3>2. CASE i = Len(delivered) + 1
      <4>1. d # Garbage /\ \A j \in 1 .. i - 1 : j \in 1 .. Len(delivered)
        BY <2>6, <2>8, <3>2
      <4>2. d <= sent
        BY <1>2, <2>1, <2>3, <4>1
      <4> QED  BY <2>2, <2>5, <2>6, <3>2, <4>1, <4>2
    <3> QED  BY <2>6, <2>8, <3>1, <3>2
  <2>9. InOrder'
    BY <2>6, <2>8 DEF InOrder
  <2> QED  BY <2>7, <2>9
<1>7. delivered' = delivered \/ \E id \in Ids : PollTake(id)
  BY DEF Next, PeerSend, receive, Lose, poll, PollErase, AtRest, Foreign, Untouched, vars
<1> QED  BY <1>0, <1>1, <1>5, <1>6, <1>7 DEF OrderInv

\* It holds at the start, whatever the ids and the key.
LEMMA OrderInit == Init => OrderInv
<1> SUFFICES ASSUME Init PROVE OrderInv
  OBVIOUS
<1>1. Typed
  BY TypeInit DEF TypeOK, Typed
<1>2. DOMAIN ctx = {"key", "iv"} /\ DOMAIN delivered = {} /\ \A id \in Ids : DOMAIN received[id] = {}
  BY DEF Init
<1> QED  BY <1>1, <1>2 DEF OrderInv, Past, AllSpent, InOrder

\* PacketHandler::poll (lib/packethandler.cpp 32-145) hands up messages of the
\* peer in the order they were sent and each at most once, whatever is lost,
\* however late it is and whatever ids come again; between them may be garbage.
THEOREM GenuineInOrder == Spec => []InOrder
<1>1. Init => OrderInv
  BY OrderInit
<1>2. OrderInv /\ [Next]_vars => OrderInv'
  <2> SUFFICES ASSUME OrderInv, [Next]_vars PROVE OrderInv'
    OBVIOUS
  <2>1. UNCHANGED vars => Foreign
    BY DEF Foreign, Untouched, vars, OrderInv
  <2> QED  BY <2>1, OrderStep
<1>3. OrderInv => InOrder
  BY DEF OrderInv
<1> QED  BY <1>1, <1>2, <1>3, PTL DEF Spec
=============================================================================
