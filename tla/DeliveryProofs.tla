--------------------------- MODULE DeliveryProofs ---------------------------
(***************************************************************************)
(* Proofs about what the peer's messages come to in Exchange, where send() *)
(* shares the cipher context with poll(): for any number of messages in    *)
(* both directions, any loss, and send() and clean() at any point of the   *)
(* reception; when poll() keeps up (Prompt), but for the last three.       *)
(*                                                                         *)
(* Orderly of ReassemblyProofs says what is in the map and nothing of the  *)
(* context, so it holds here too.  Honest adds what the context is, for a  *)
(* message that shared it with nobody.                                     *)
(***************************************************************************)
EXTENDS ExchangeProofs, ReassemblyProofs, FiniteSetTheorems

KeyOrders == {"big_endian", "little_endian"}

\* Note has seen every state.
Noted == PeerOpen /\ (OwnOpen \/ ctx.key = "little_endian") => sent \in disturbed

\* Until the message is joined the context is its own, and then it is delivered.
Honest == sent # 0 /\ Alone /\ sent \notin lost \cup disturbed =>
    /\ Announcing \/ Collecting => ctx.key = "big_endian" /\ ctx.iv = sent
    /\ (Joining \/ Done) /\ Kind[sent] = "MSG" => sent \in Range(delivered)

DeliveryInv ==
    /\ Orderly
    /\ DOMAIN ctx = {"key", "iv"} /\ ctx.key \in KeyOrders
    /\ Noted
    /\ Honest

-----------------------------------------------------------------------------
(* Lemmas: the phases of a message, and who touches the context *)

\* A message of which nothing is lost is open until poll() has joined it.
LEMMA StillOpen ==
    ASSUME Orderly, Alone, sent # 0, sent \notin lost, ~Joining, ~Done
    PROVE  PeerOpen
<1> SUFFICES ASSUME ~Sending, Polled PROVE FALSE
  BY DEF PeerOpen
<1>1. idOf[sent] \in Ids /\ sent \in Messages /\ Bucket \in Seq(PacketSet)
  BY Current DEF Orderly
<1>2. Bucket # <<>>
  <2>1. next = Frags[sent] + 1
    BY Current DEF Orderly, Sending
  <2> QED  BY <2>1 DEF Polled, Done
<1>3. Tainted(idOf[sent])
  BY <1>1, <1>2, LeftoversTainted DEF Bucket
<1> QED  BY <1>3 DEF Tainted, Alone

\* The phases exclude one another, if nothing is lost.
LEMMA NotYetJoined ==
    ASSUME Orderly, Alone, sent # 0, sent \notin lost, Announcing \/ Collecting
    PROVE  ~Joining /\ ~Done
<1>1. idOf[sent] # Idle /\ Frags[sent] \in Nat \ {0} /\ next \in Nat
  BY Current DEF Orderly
<1>2. Accounted
  BY DEF Orderly
<1>3. CASE Announcing
  BY <1>1, <1>2, <1>3 DEF Accounted, Announcing, Joining, Done
<1>4. CASE Collecting
  BY <1>1, <1>4 DEF Collecting, Joining, Done
<1> QED  BY <1>3, <1>4

\* A message that has been joined stays so.
LEMMA JoinedStays ==
    ASSUME Orderly, sent # 0, Joining \/ Done, Next \/ Untouched, sent' = sent
    PROVE  Joining' \/ Done'
<1>1. /\ sent \in Nat /\ idOf[sent] \in Ids /\ idOf[sent] # Idle
      /\ Frags[sent] \in Nat /\ next = Frags[sent] + 1 /\ ~Sending
  BY Current DEF Orderly, Joining, Done, Sending
<1>2. ~PeerSend /\ ~receive /\ ~Lose
  BY <1>1 DEF PeerSend, receive, Lose
<1>3. CASE PollErase
  <2>1. /\ task' = Idle /\ UNCHANGED <<idOf, next>> /\ task = idOf[sent]
        /\ received' = [received EXCEPT ![task] = <<>>]
    BY <1>3 DEF PollErase, peer, Orderly
  <2>2. Bucket' = <<>>
    BY <1>1, <2>1 DEF Bucket, Orderly, Typed
  <2> QED  BY <1>1, <2>1, <2>2 DEF Done
<1>4. ASSUME NEW id \in Ids, PollTake(id) PROVE FALSE
  <2>1. task = Idle /\ id = idOf[sent] /\ Complete(Bucket)
    BY <1>4 DEF PollTake, Orderly, Others, Bucket
  <2> QED  BY <1>1, <2>1 DEF Joining, Done, Complete
<1>5. CASE Untouched \/ UNCHANGED vars
  BY <1>5 DEF Untouched, vars, peer, Joining, Done, Bucket
<1> QED  BY <1>2, <1>3, <1>4, <1>5 DEF Next, poll, AtRest

\* Of the other steps only Rekey and Encipher touch the context, and nothing else
\* of the receive side.
LEMMA SendTouches ==
    ASSUME send \/ clean \/ Tick
    PROVE  /\ Untouched
           /\ \/ UNCHANGED ctx
              \/ ctx' = [key |-> "big_endian", iv |-> -own'] /\ OwnOpen'
              \/ ctx' = [ctx EXCEPT !.iv = NoIv] /\ OwnOpen
<1> USE DEF Untouched, vars
<1>1. CASE Rekey
  BY <1>1 DEF Rekey, OwnOpen
<1>2. CASE Encipher
  BY <1>2 DEF Encipher, OwnOpen
<1>3. CASE Announce \/ Store \/ Transmit \/ SendReturns \/ clean \/ Tick
  BY <1>3 DEF Announce, Store, Transmit, SendReturns, clean, Tick
<1> QED  BY <1>1, <1>2, <1>3 DEF send

\* The receive side of Exchange makes only steps of Reassembly.
LEMMA ReceivingIsNext == Receiving => Next
BY DEF Receiving, Next

\* Phases of a message are read off the receive side.
LEMMA UntouchedPhases ==
    ASSUME Untouched
    PROVE  /\ (Announcing' <=> Announcing) /\ (Collecting' <=> Collecting)
           /\ (Joining' <=> Joining) /\ (Done' <=> Done) /\ (Alone' <=> Alone)
           /\ UNCHANGED <<sent, lost, delivered>> /\ (PeerOpen' <=> PeerOpen)
<1>1. UNCHANGED <<idOf, sent, next, received, task, delivered, lost>> /\ Bucket' = Bucket
  BY DEF Untouched, peer, Bucket
<1>2. Packet(sent, 0)' = Packet(sent, 0) /\ \A j : Packet(sent, j)' = Packet(sent, j)
  BY <1>1 DEF Packet, PacketOf
<1>3. Partial(Bucket)' <=> Partial(Bucket)
  BY <1>1, <1>2 DEF Partial
<1>4. (Sending' <=> Sending) /\ (Polled' <=> Polled)
  BY <1>1 DEF Sending, Polled, Complete
<1> QED  BY <1>1, <1>2, <1>3, <1>4 DEF Announcing, Collecting, Joining, Done, Alone, PeerOpen

-----------------------------------------------------------------------------
(* The invariant *)

\* At the start nothing is open and nothing was said.
LEMMA DeliveryInit == ExchangeInit => DeliveryInv
<1> SUFFICES ASSUME ExchangeInit PROVE DeliveryInv
  OBVIOUS
<1>1. Orderly
  BY OrderlyInit DEF ExchangeInit
<1>2. DOMAIN ctx = {"key", "iv"} /\ ctx.key \in KeyOrders
  BY DEF ExchangeInit, Init, KeyOrders
<1>3. ~PeerOpen /\ sent = 0
  BY DEF ExchangeInit, Init, PeerOpen, Sending, Polled, Complete
<1> QED  BY <1>1, <1>2, <1>3 DEF DeliveryInv, Noted, Honest

\* receive() and poll() use the vector of the message they are at, unless it was disturbed.
LEMMA HonestReceiving ==
    ASSUME Prompt, DeliveryInv, Orderly', Receiving, Note
    PROVE  Honest'
<1> SUFFICES ASSUME (sent # 0 /\ Alone)', sent' \notin lost' \cup disturbed'
             PROVE  /\ (Announcing \/ Collecting)' => ctx'.key = "big_endian" /\ ctx'.iv = sent'
                    /\ (Joining \/ Done)' /\ Kind[sent'] = "MSG" => sent' \in Range(delivered')
  BY DEF Honest
<1>1. Next /\ Orderly /\ Orderly' /\ Typed /\ Typed'
  BY ReceivingIsNext DEF DeliveryInv, Orderly
<1>2. CASE PeerSend
  <2>1. next' = 0 /\ Frags[sent'] \in Nat
    <3>1. sent' \in Messages
      BY <1>1 DEF Typed, Messages
    <3> QED  BY <1>2, <3>1, ReassemblyAssumption DEF PeerSend
  <2> QED  BY <2>1 DEF Announcing, Collecting, Joining, Done
<1>3. CASE receive \/ Lose \/ poll
  <2>1. UNCHANGED <<idOf, sent>> /\ lost \subseteq lost' /\ disturbed \subseteq disturbed'
    BY <1>3 DEF receive, Lose, poll, PollErase, PollTake, peer, Note
  <2>2. sent # 0 /\ Alone /\ sent \notin lost \cup disturbed /\ ~Lose
    <3>1. ~Lose
      BY <2>1 DEF Lose
    <3> QED  BY <2>1, <3>1 DEF Alone
  <2>3. /\ Announcing \/ Collecting => ctx.key = "big_endian" /\ ctx.iv = sent
        /\ (Joining \/ Done) /\ Kind[sent] = "MSG" => sent \in Range(delivered)
    BY <2>2 DEF DeliveryInv, Honest
  <2>4. (Announcing \/ Collecting)' => ctx'.key = "big_endian" /\ ctx'.iv = sent'
    <3> SUFFICES ASSUME (Announcing \/ Collecting)' PROVE ctx'.key = "big_endian" /\ ctx'.iv = sent'
      OBVIOUS
    <3>1. ~Joining' /\ ~Done'
      <4>1. idOf[sent] # Idle /\ Frags[sent] \in Nat \ {0} /\ next' \in Nat /\ Accounted'
        BY <1>1, <2>1, <2>2, Current DEF Orderly, Typed
      <4>2. CASE Announcing'
        <5>1. next' = 1
          BY <4>1, <4>2 DEF Accounted
        <5> QED  BY <2>1, <4>1, <4>2, <5>1 DEF Announcing, Joining, Done
      <4>3. CASE Collecting'
        BY <2>1, <4>1, <4>3 DEF Collecting, Joining, Done
      <4> QED  BY <4>2, <4>3
    <3>2. PeerOpen
      BY <1>1, <2>1, <2>2, <3>1, JoinedStays, StillOpen
    <3>3. ctx.key = "big_endian"
      BY <2>2, <3>2 DEF DeliveryInv, Noted, KeyOrders
    <3>4. ctx'.key = "big_endian"
      BY <1>1, <3>3, KeyKept DEF DeliveryInv
    <3>5. Vector'
      BY <1>1, <2>2, <2>3, VectorStep DEF DeliveryInv, Vector
    <3> QED  BY <3>4, <3>5 DEF Vector
  <2>5. (Joining \/ Done)' /\ Kind[sent'] = "MSG" => sent' \in Range(delivered')
    <3> SUFFICES ASSUME (Joining \/ Done)', Kind[sent] = "MSG" PROVE sent \in Range(delivered')
      BY <2>1
    <3>1. delivered \in Seq({Garbage} \cup Messages)
      BY <1>1 DEF Typed
    <3>2. \A x : Range(delivered) \subseteq Range(Append(delivered, x)) /\ x \in Range(Append(delivered, x))
      BY <3>1 DEF Range
    <3>3. CASE Joining \/ Done
      <4>1. delivered' = delivered \/ \E x : delivered' = Append(delivered, x)
        BY <1>3 DEF receive, Lose, poll, PollErase, PollTake, PollMessage, PollHandshake, PollOther
      <4> QED  BY <2>3, <3>2, <3>3, <4>1
    <3>4. ASSUME ~Joining, ~Done PROVE sent \in Range(delivered')
      <4>1. /\ idOf[sent] # Idle /\ Frags[sent] \in Nat \ {0} /\ next \in Nat
            /\ Bucket \in Seq(PacketSet)
        BY <1>1, <2>2, Current
      <4>2. CASE receive
        <5>1. task = Idle /\ UNCHANGED <<idOf, sent, task>> /\ Bucket' = Append(Bucket, Packet(sent, next))
          BY <1>1, <2>2, <4>2, PacketType DEF receive, Polled, Bucket, Typed
        <5>2. Bucket' # <<>>
          BY <4>1, <5>1
        <5> QED  BY <4>1, <5>1, <5>2 DEF Joining, Done
      <4>3. CASE PollErase
        <5>1. /\ task # Idle /\ task' = Idle /\ UNCHANGED <<idOf, sent, next>>
          BY <4>3 DEF PollErase, peer
        <5>2. Announcing /\ next = 1
          BY <2>2, <3>4, <5>1, <1>1 DEF Orderly, Phases, Accounted, Awaiting, Announced, Collecting
        <5> QED  BY <4>1, <5>1, <5>2 DEF Joining, Done
      <4>4. ASSUME NEW id \in Ids, PollTake(id) PROVE sent \in Range(delivered')
        <5>1. task' = id /\ UNCHANGED <<idOf, sent, next>> /\ id # Idle
          BY <4>4, IdAssumption DEF PollTake, peer
        <5>2. next = Frags[sent] + 1
          BY <5>1 DEF Joining, Done
        <5>3. Accounted
          BY <1>1, <2>2 DEF Orderly
        <5>4. ~Announced
          BY <2>2, <4>1, <5>2, <5>3 DEF Accounted
        <5>5. Collecting /\ delivered' = Append(delivered, sent)
          BY <1>1, <2>2, <2>3, <3>4, <4>4, <5>4, TakeEffect
        <5> QED  BY <3>2, <5>5
      <4> QED  BY <1>3, <2>2, <4>2, <4>3, <4>4 DEF poll
    <3> QED  BY <3>3, <3>4
  <2> QED  BY <2>4, <2>5
<1> QED  BY <1>2, <1>3 DEF Receiving

\* send() takes that vector away only from a message it disturbs.
LEMMA HonestSending ==
    ASSUME DeliveryInv, send \/ clean \/ Tick, Note
    PROVE  Honest'
<1> SUFFICES ASSUME (sent # 0 /\ Alone)', sent' \notin lost' \cup disturbed'
             PROVE  /\ (Announcing \/ Collecting)' => ctx'.key = "big_endian" /\ ctx'.iv = sent'
                    /\ (Joining \/ Done)' /\ Kind[sent'] = "MSG" => sent' \in Range(delivered')
  BY DEF Honest
<1>1. /\ (Announcing' <=> Announcing) /\ (Collecting' <=> Collecting)
      /\ (Joining' <=> Joining) /\ (Done' <=> Done) /\ (Alone' <=> Alone)
      /\ UNCHANGED <<sent, lost, delivered>> /\ (PeerOpen' <=> PeerOpen)
  BY SendTouches, UntouchedPhases
<1>2. sent # 0 /\ Alone /\ sent \notin lost \cup disturbed
  BY <1>1 DEF Note
<1>3. /\ Announcing \/ Collecting => ctx.key = "big_endian" /\ ctx.iv = sent
      /\ (Joining \/ Done) /\ Kind[sent] = "MSG" => sent \in Range(delivered)
  BY <1>2 DEF DeliveryInv, Honest
<1>4. ASSUME Announcing \/ Collecting PROVE UNCHANGED ctx
  <2>1. PeerOpen
    BY <1>2, <1>4, NotYetJoined, StillOpen DEF DeliveryInv
  <2>2. ~OwnOpen
    BY <1>2, <2>1 DEF DeliveryInv, Noted
  <2>3. ~OwnOpen'
    BY <1>1, <1>2, <2>1 DEF Note
  <2> QED  BY <2>2, <2>3, SendTouches
<1> QED  BY <1>1, <1>3, <1>4

\* The invariant is inductive as long as poll() keeps up.
LEMMA DeliveryStep == ASSUME Prompt PROVE DeliveryInv /\ [ExchangeNext]_allVars => DeliveryInv'
<1> SUFFICES ASSUME DeliveryInv, [ExchangeNext]_allVars PROVE DeliveryInv'
  OBVIOUS
<1>1. CASE Receiving /\ Note
  <2>1. Orderly'
    BY <1>1, ReceivingIsNext, OrderlyStep DEF DeliveryInv
  <2>2. DOMAIN ctx' = {"key", "iv"}
    BY <1>1, ReceivingDisturbs DEF DeliveryInv
  <2>3. ctx'.key = ctx.key
    BY <1>1, ReceivingIsNext, KeyKept DEF DeliveryInv
  <2>4. Noted'
    BY <1>1 DEF Note, Noted
  <2> QED  BY <1>1, <2>1, <2>2, <2>3, <2>4, HonestReceiving DEF DeliveryInv
<1>2. CASE (send \/ clean \/ Tick) /\ Note
  <2>1. Orderly'
    BY <1>2, SendTouches, OrderlyStep DEF DeliveryInv
  <2>2. DOMAIN ctx' = {"key", "iv"} /\ ctx'.key \in KeyOrders
    BY <1>2, SendTouches DEF DeliveryInv, KeyOrders
  <2>3. Noted'
    BY <1>2 DEF Note, Noted
  <2> QED  BY <1>2, <2>1, <2>2, <2>3, HonestSending DEF DeliveryInv
<1>3. CASE UNCHANGED allVars
  <2>1. Untouched /\ UNCHANGED <<ctx, disturbed, phase>>
    BY <1>3 DEF allVars, vars, outbound, sending, Untouched
  <2>2. Orderly'
    BY <2>1, OrderlyStep DEF DeliveryInv
  <2>3. OwnOpen' <=> OwnOpen
    BY <2>1 DEF OwnOpen
  <2> QED  BY <2>1, <2>2, <2>3, UntouchedPhases DEF DeliveryInv, Noted, Honest
<1> QED  BY <1>1, <1>2, <1>3 DEF ExchangeNext, Silent

\* PacketHandler::poll hands up every message of the peer of which nothing was
\* lost, under an id no incomplete one has left fragments under, unless send()
\* (packethandler.cpp 188, 233) took over the cipher context while it was open:
\* whatever other messages have lost, and whatever the shield sends meanwhile.
THEOREM UndisturbedArrives == ASSUME Prompt PROVE ExchangeSpec => []UndisturbedIsDelivered
<1>1. ExchangeInit => DeliveryInv
  BY DeliveryInit
<1>2. DeliveryInv /\ [ExchangeNext]_allVars => DeliveryInv'
  BY DeliveryStep
<1>3. ASSUME DeliveryInv PROVE UndisturbedIsDelivered
  <2> SUFFICES ASSUME NEW m \in Messages, Whole(m), m \notin disturbed, Polled
               PROVE  m \in Range(delivered)
    BY DEF UndisturbedIsDelivered
  <2>1. /\ sent = m /\ ~Sending /\ Kind[sent] = "MSG" /\ sent \notin lost
        /\ \A k \in lost : idOf[k] # idOf[sent]
    BY DEF Whole
  <2>2. sent # 0 /\ Alone /\ ~PeerOpen
    BY <2>1 DEF Alone, PeerOpen, Messages
  <2>3. Joining \/ Done
    BY <1>3, <2>1, <2>2, StillOpen DEF DeliveryInv
  <2> QED  BY <1>3, <2>1, <2>2, <2>3 DEF DeliveryInv, Honest
<1> QED  BY <1>1, <1>2, <1>3, PTL DEF ExchangeSpec

-----------------------------------------------------------------------------
(* Garbage, when ids are not reused: each message is charged for its own *)

GarbageAt(d) == {i \in DOMAIN d : d[i] = Garbage}

Over == sent # 0 /\ (Joining \/ Done)

\* The messages that may have cost garbage so far.
Charges == IF Over THEN Spoilt ELSE Spoilt \ {sent}

BoundInv ==
    /\ SendInv
    /\ DeliveryInv
    /\ IsInjective(idOf)
    /\ Spoilt \subseteq 1 .. sent
    /\ Cardinality(GarbageAt(delivered)) <= Cardinality(Charges)

(* Whatever is counted here is finite. *)
LEMMA Countable ==
    ASSUME Typed, Spoilt \subseteq 1 .. sent
    PROVE  /\ IsFiniteSet(Spoilt) /\ IsFiniteSet(Charges) /\ IsFiniteSet(GarbageAt(delivered))
           /\ Cardinality(Spoilt) \in Nat /\ Cardinality(Charges) \in Nat
           /\ Cardinality(GarbageAt(delivered)) \in Nat
           /\ Cardinality(Charges) <= Cardinality(Spoilt)
<1>1. sent \in Nat /\ Len(delivered) \in Nat /\ DOMAIN delivered = 1 .. Len(delivered)
  BY ReassemblyAssumption DEF Typed
<1>2. IsFiniteSet(1 .. sent) /\ IsFiniteSet(1 .. Len(delivered))
  BY <1>1, FS_Interval
<1>3. GarbageAt(delivered) \subseteq 1 .. Len(delivered) /\ Charges \subseteq Spoilt
  BY <1>1 DEF GarbageAt, Charges
<1>4. IsFiniteSet(Spoilt) /\ IsFiniteSet(GarbageAt(delivered))
  BY <1>2, <1>3, FS_Subset
<1>5. IsFiniteSet(Charges) /\ Cardinality(Charges) <= Cardinality(Spoilt)
  BY <1>3, <1>4, FS_Subset
<1> QED  BY <1>4, <1>5, FS_CardinalityType

(* One delivery more is one garbage more at most. *)
LEMMA OneMore ==
    ASSUME Typed, NEW x
    PROVE  /\ x # Garbage => GarbageAt(Append(delivered, x)) = GarbageAt(delivered)
           /\ x = Garbage =>
                GarbageAt(Append(delivered, x)) = GarbageAt(delivered) \cup {Len(delivered) + 1}
           /\ Len(delivered) + 1 \notin GarbageAt(delivered)
<1>1. /\ delivered \in Seq({Garbage} \cup Messages) /\ Len(delivered) \in Nat
      /\ DOMAIN delivered = 1 .. Len(delivered)
  BY DEF Typed
<1>2. /\ DOMAIN Append(delivered, x) = 1 .. Len(delivered) + 1
      /\ \A i \in 1 .. Len(delivered) : Append(delivered, x)[i] = delivered[i]
      /\ Append(delivered, x)[Len(delivered) + 1] = x
  BY <1>1
<1> QED  BY <1>1, <1>2 DEF GarbageAt

(* What is spoilt stays so, and only messages that were begun are. *)
LEMMA SpoiltStep ==
    ASSUME Orderly, Orderly', own' \in Nat, Next \/ Untouched, Note, Spoilt \subseteq 1 .. sent
    PROVE  /\ Spoilt \subseteq Spoilt' /\ Spoilt' \subseteq 1 .. sent'
           /\ \/ PeerSend /\ sent' \notin Spoilt
              \/ sent' = sent
<1>1. sent \in Nat /\ sent' \in Nat /\ lost' \subseteq 1 .. sent'
  BY ReassemblyAssumption DEF Orderly, Typed
<1>2. /\ lost \subseteq lost'
      /\ sent' = sent \/ (PeerSend /\ sent' = sent + 1)
  <2>1. CASE PeerSend \/ receive \/ Lose \/ PollErase \/ Untouched \/ UNCHANGED vars
    BY <2>1 DEF PeerSend, receive, Lose, PollErase, Untouched, vars, peer
  <2>2. ASSUME NEW id \in Ids, PollTake(id) PROVE UNCHANGED <<sent, lost>>
    BY <2>2 DEF PollTake, peer
  <2> QED  BY <2>1, <2>2 DEF Next, poll, AtRest
<1>3. PeerOpen' => sent' # 0
  BY DEF Orderly, Others, PeerOpen, Sending, Polled
<1>4. \A m \in disturbed' : m \in disturbed \/ (m = sent' /\ sent' # 0) \/ m = -own'
  BY <1>3 DEF Note
<1>5. ~(-own' > 0)
  <2>1. \A n \in Nat : ~(-n > 0)
    OBVIOUS
  <2> QED  BY <2>1
<1>6. Spoilt' \subseteq 1 .. sent'
  <2>1. ASSUME NEW m \in disturbed', m > 0 PROVE m \in 1 .. sent'
    BY <1>1, <1>2, <1>4, <1>5, <2>1 DEF Spoilt
  <2> QED  BY <1>1, <2>1 DEF Spoilt
<1>7. disturbed \subseteq disturbed'
  BY DEF Note
<1> QED  BY <1>1, <1>2, <1>6, <1>7 DEF Spoilt

(* Counting goes on as long as no more garbage comes. *)
LEMMA StillCharged ==
    ASSUME Typed, Spoilt \subseteq 1 .. sent, IsFiniteSet(Charges'),
           GarbageAt(delivered') = GarbageAt(delivered), Charges \subseteq Charges',
           Cardinality(GarbageAt(delivered)) <= Cardinality(Charges)
    PROVE  Cardinality(GarbageAt(delivered')) <= Cardinality(Charges')
<1>1. Cardinality(Charges) <= Cardinality(Charges') /\ Cardinality(Charges') \in Nat
  BY FS_Subset, FS_CardinalityType
<1> QED  BY <1>1, Countable

\* A step of the receive side hands up at most one garbage, and has a message to charge it to.
LEMMA BoundReceiving ==
    ASSUME Prompt, BoundInv, DeliveryInv', own' \in Nat, Next \/ Untouched, Note,
           ~Next => UNCHANGED delivered
    PROVE  /\ Spoilt' \subseteq 1 .. sent'
           /\ Cardinality(GarbageAt(delivered')) <= Cardinality(Charges')
<1>1. Orderly /\ Orderly' /\ Typed /\ Typed' /\ DeliveryInv
  BY DEF BoundInv, DeliveryInv, Orderly
<1>2. /\ Spoilt \subseteq 1 .. sent
      /\ Cardinality(GarbageAt(delivered)) <= Cardinality(Charges)
  BY DEF BoundInv
<1>3. /\ Spoilt \subseteq Spoilt' /\ Spoilt' \subseteq 1 .. sent'
      /\ \/ PeerSend /\ sent' \notin Spoilt
         \/ sent' = sent
  BY <1>1, <1>2, SpoiltStep
<1>4. IsFiniteSet(Spoilt') /\ IsFiniteSet(Charges')
  <2>1. sent' \in Nat
    BY <1>1, ReassemblyAssumption DEF Typed
  <2>2. IsFiniteSet(1 .. sent') /\ Charges' \subseteq Spoilt'
    BY <2>1, FS_Interval DEF Charges
  <2> QED  BY <1>3, <2>2, FS_Subset
<1>5. Charges \subseteq Charges'
  <2>1. CASE PeerSend /\ sent' \notin Spoilt
    BY <1>3, <2>1 DEF Charges
  <2>2. CASE sent' = sent
    <3>1. Over => Over'
      BY <1>1, <2>2, JoinedStays DEF Over
    <3> QED  BY <1>3, <2>2, <3>1 DEF Charges
  <2> QED  BY <1>3, <2>1, <2>2
<1>6. CASE delivered' = delivered
  BY <1>1, <1>2, <1>3, <1>4, <1>5, <1>6, StillCharged
<1>7. ASSUME NEW id \in Ids, PollTake(id)
      PROVE  Cardinality(GarbageAt(delivered')) <= Cardinality(Charges')
  <2>1. sent # 0 /\ id = idOf[sent]
    BY <1>1, <1>7 DEF PollTake, Orderly, Others
  <2>2. Alone
    BY <1>1, <2>1, FreshAlone DEF BoundInv, FreshInv
  <2>3. sent \in Messages /\ sent # Garbage
    BY <1>1, <2>1, Current DEF Garbage
  <2>4. CASE delivered' = Append(delivered, sent)
    <3>1. GarbageAt(delivered') = GarbageAt(delivered)
      BY <1>1, <2>3, <2>4, OneMore
    <3> QED  BY <1>1, <1>2, <1>3, <1>4, <1>5, <3>1, StillCharged
  <2>5. CASE delivered' = Append(delivered, Garbage)
    <3>1. Garbage # sent /\ delivered \in Seq({Garbage} \cup Messages)
      BY <1>1, <2>3 DEF Typed
    <3>2. delivered' # delivered /\ delivered' # Append(delivered, sent)
      <4>1. Len(delivered') = Len(delivered) + 1 /\ Len(delivered) \in Nat
            /\ delivered'[Len(delivered) + 1] = Garbage
        BY <2>5, <3>1
      <4>2. Append(delivered, sent)[Len(delivered) + 1] = sent
        BY <2>3, <3>1
      <4> QED  BY <3>1, <4>1, <4>2
    <3>3. /\ Collecting /\ next = Frags[sent] + 1
          /\ ~(ctx.key = "big_endian" /\ ctx.iv = sent)
      BY <1>1, <1>7, <2>2, <3>2, TakeEffect
    <3>4. sent \in Spoilt
      <4>1. sent \in lost \cup disturbed
        BY <1>1, <2>1, <2>2, <3>3 DEF DeliveryInv, Honest
      <4>2. sent > 0
        BY <2>3 DEF Messages
      <4> QED  BY <4>1, <4>2 DEF Spoilt
    <3>5. idOf[sent] # Idle /\ Frags[sent] \in Nat
      BY <1>1, <2>1, Current
    <3>6. ~Over
      BY <3>3, <3>5 DEF Over, Collecting, Joining, Done
    <3>7. Over'
      BY <1>7, <2>1, <3>3 DEF PollTake, peer, Over, Joining
    <3>8. Charges = Spoilt \ {sent} /\ Charges' = Spoilt'
      BY <3>6, <3>7 DEF Charges
    <3>9. Cardinality(GarbageAt(delivered')) = Cardinality(GarbageAt(delivered)) + 1
      <4>1. GarbageAt(delivered') = GarbageAt(delivered) \cup {Len(delivered) + 1}
            /\ Len(delivered) + 1 \notin GarbageAt(delivered)
        BY <1>1, <2>5, OneMore
      <4> QED  BY <1>1, <1>2, <4>1, Countable, FS_AddElement
    <3>10. Cardinality(Spoilt \ {sent}) = Cardinality(Spoilt) - 1
      BY <1>1, <1>2, <3>4, Countable, FS_RemoveElement
    <3>11. Cardinality(Spoilt) <= Cardinality(Spoilt') /\ Cardinality(Spoilt') \in Nat
      BY <1>3, <1>4, FS_Subset, FS_CardinalityType
    <3>12. /\ Cardinality(Spoilt) \in Nat /\ Cardinality(Charges) \in Nat
           /\ Cardinality(GarbageAt(delivered)) \in Nat
      BY <1>1, <1>2, Countable
    <3> QED  BY <1>2, <3>8, <3>9, <3>10, <3>11, <3>12
  <2>6. CASE delivered' = delivered
    BY <1>6, <2>6
  <2> QED  BY <1>1, <1>7, <2>2, <2>4, <2>5, <2>6, TakeEffect
<1>8. delivered' = delivered \/ \E id \in Ids : PollTake(id)
  BY <1>1, KeyKept DEF DeliveryInv
<1> QED  BY <1>3, <1>6, <1>7, <1>8

\* The account of garbage is inductive.
LEMMA BoundStep == ASSUME Prompt PROVE BoundInv /\ [ExchangeNext]_allVars => BoundInv'
<1> SUFFICES ASSUME BoundInv, [ExchangeNext]_allVars PROVE BoundInv'
  OBVIOUS
<1>1. SendInv' /\ DeliveryInv' /\ own' \in Nat
  <2>1. SendInv' /\ DeliveryInv'
    BY SendStep, DeliveryStep DEF BoundInv
  <2> QED  BY <2>1, CommandFacts DEF SendInv, SendTypeOK
<1>2. CASE (Receiving \/ send \/ clean \/ Tick) /\ Note
  <2>1. (Next \/ Untouched) /\ (~Next => UNCHANGED delivered)
    BY <1>2, ReceivingIsNext, SendTouches DEF Untouched
  <2>2. idOf' = idOf
    BY <1>2, SendTouches DEF Receiving, PeerSend, receive, Lose, poll, PollErase, PollTake,
         peer, Untouched
  <2> QED  BY <1>1, <1>2, <2>1, <2>2, BoundReceiving DEF BoundInv
<1>3. CASE UNCHANGED allVars
  <2>1. Untouched /\ idOf' = idOf /\ UNCHANGED disturbed
    BY <1>3 DEF allVars, vars, outbound, Untouched, peer
  <2>2. Charges' = Charges /\ Spoilt' = Spoilt /\ UNCHANGED <<sent, delivered>>
    BY <2>1, UntouchedPhases DEF Charges, Spoilt, Over
  <2> QED  BY <1>1, <2>1, <2>2 DEF BoundInv
<1> QED  BY <1>2, <1>3 DEF ExchangeNext, Silent

\* What poll() hands up that is no message of the peer is limited by what went
\* wrong: one for every message that lost a packet or was open while send() had
\* the cipher context, or before the shield's first message.  One loss never
\* spoils the messages after it, if ids are not reused.
THEOREM OneGarbagePerMessage ==
    ASSUME FreshIds, Prompt PROVE ExchangeSpec => []GarbageIsBounded
<1>1. ASSUME ExchangeInit PROVE BoundInv
  <2>1. SendInv /\ DeliveryInv /\ Typed
    BY <1>1, SendInit, DeliveryInit DEF DeliveryInv, Orderly
  <2>2. IsInjective(idOf) /\ Spoilt = {} /\ GarbageAt(delivered) = {}
    BY <1>1 DEF ExchangeInit, Init, Spoilt, GarbageAt
  <2>3. Charges = {}
    BY <2>2 DEF Charges
  <2>4. Cardinality({}) <= Cardinality({})
    BY FS_EmptySet
  <2> QED  BY <2>1, <2>2, <2>3, <2>4 DEF BoundInv
<1>2. BoundInv /\ [ExchangeNext]_allVars => BoundInv'
  BY BoundStep
<1>3. ASSUME BoundInv PROVE GarbageIsBounded
  <2>1. Cardinality(Charges) <= Cardinality(Spoilt) /\ Cardinality(Charges) \in Nat
        /\ Cardinality(Spoilt) \in Nat /\ Cardinality(GarbageAt(delivered)) \in Nat
    BY <1>3, Countable DEF BoundInv, DeliveryInv, Orderly
  <2>2. Cardinality(GarbageAt(delivered)) <= Cardinality(Spoilt)
    BY <1>3, <2>1 DEF BoundInv
  <2> QED  BY <2>2 DEF GarbageIsBounded, GarbageAt
<1> QED  BY <1>1, <1>2, <1>3, PTL DEF ExchangeSpec

-----------------------------------------------------------------------------
(* The types of the send side *)

ExchangeTyped == SendInv /\ Typed /\ ExchangeTypeOK

(* The ranges the ids of messages and vectors are taken from. *)
LEMMA Ranges ==
    /\ NumOwn \in Nat /\ NumMsg \in Nat /\ Lease \in Nat \ {0} /\ MaxTime \in Nat
    /\ Messages \subseteq -NumOwn .. NumMsg /\ NoIv \in -NumOwn .. NumMsg
    /\ \A n \in 0 .. NumOwn : -n \in -NumOwn .. NumMsg
    /\ \A n \in 0 .. NumMsg : n \in -NumOwn .. NumMsg
BY CommandFacts, ReassemblyAssumption, ExchangeAssumption DEF Messages, NoIv

\* Each step of either side keeps the types.
LEMMA ExchangeTypeStep == ExchangeTyped /\ [ExchangeNext]_allVars => ExchangeTyped'
<1> SUFFICES ASSUME ExchangeTyped, [ExchangeNext]_allVars PROVE ExchangeTyped'
  OBVIOUS
<1>1. SendInv /\ Typed /\ ExchangeTypeOK /\ SendInv' /\ SendTypeOK /\ SendTypeOK'
  BY SendStep DEF ExchangeTyped, SendInv
<1>2. Next \/ Untouched
  BY ReceivingIsNext, SendTouches DEF ExchangeNext, Silent, allVars, vars, Untouched
<1>3. Typed'
  BY <1>1, <1>2, TypedStep
<1>4. /\ own \in 0 .. NumOwn /\ own' \in 0 .. NumOwn /\ sent' \in 0 .. NumMsg
      /\ phase' \in {"idle", "announce", "encipher", "store", "transmit"}
      /\ DOMAIN ctx = {"key", "iv"} /\ ctx.iv \in -NumOwn .. NumMsg
  BY <1>1, <1>3 DEF SendTypeOK, Typed, ExchangeTypeOK
<1>5. ctx'.iv \in -NumOwn .. NumMsg
  <2>1. CASE Receiving
    <3>1. ASSUME NEW id \in Ids, PollTake(id) PROVE ctx'.iv \in -NumOwn .. NumMsg
      <4>1. ctx'.iv \in {NoIv, ctx.iv} \cup Messages
        BY <1>1, <1>4, <3>1, TakeType
      <4> QED  BY <1>4, <4>1, Ranges
    <3> QED
      BY <1>4, <2>1, <3>1 DEF Receiving, PeerSend, receive, Lose, poll, PollErase
  <2>2. CASE send \/ clean \/ Tick
    BY <1>4, <2>2, SendTouches, Ranges
  <2> QED  BY <1>4, <2>1, <2>2 DEF ExchangeNext, Silent, allVars, vars
<1>6. entry' = NoEntry \/ (entry'.id \in OwnIds /\ entry'.expiration \in Lease .. MaxTime)
  <2>1. CASE Rekey
    <3>1. clock \in Nat /\ clock + Lease <= MaxTime
      BY <1>1, <2>1 DEF Rekey, SendTypeOK
    <3> QED  BY <2>1, <3>1, Ranges DEF Rekey
  <2>2. CASE SendReturns
    BY <2>2 DEF SendReturns
  <2>3. CASE UNCHANGED entry
    BY <1>1, <2>3 DEF ExchangeTypeOK
  <2> QED
    BY <2>1, <2>2, <2>3 DEF ExchangeNext, send, Receiving, outbound, sending, Announce, Encipher,
       Store, Transmit, clean, Tick, Silent, allVars
<1>7. with' \in -NumOwn .. NumMsg
  <2>1. CASE Encipher \/ SendReturns
    BY <1>4, <2>1, Ranges DEF Encipher, SendReturns
  <2>2. CASE UNCHANGED with
    BY <1>1, <2>2 DEF ExchangeTypeOK
  <2> QED
    BY <2>1, <2>2 DEF ExchangeNext, send, Receiving, outbound, sending, Rekey, Announce,
       Store, Transmit, clean, Tick, Silent, allVars
<1>8. clock' \in 0 .. MaxTime
  <2>1. CASE Tick
    BY <1>1, <2>1, Ranges DEF Tick, ExchangeTypeOK
  <2>2. CASE UNCHANGED clock
    BY <1>1, <2>2 DEF ExchangeTypeOK
  <2> QED
    BY <2>1, <2>2 DEF ExchangeNext, send, Receiving, outbound, store, Rekey, Announce, Encipher,
       Store, Transmit, SendReturns, clean, Silent, allVars
<1>9. \A e \in DOMAIN messages' : e.id \in OwnIds /\ messages'[e] # <<>>
  <2>1. CASE Store
    <3> DEFINE e == IF Stored(entry) = {} THEN entry ELSE CHOOSE f \in Stored(entry) : TRUE
               old == IF e \in DOMAIN messages THEN messages[e] ELSE <<>>
               new == [k \in 1 .. OwnFrags(own) |-> OwnPacket(own, k, with)]
    <3>1. /\ messages' = [f \in DOMAIN messages \cup {e} |->
                            IF f = e THEN old \o new ELSE messages[f]]
          /\ phase = "store"
      BY <2>1 DEF Store
    <3>2. e.id \in OwnIds
      BY <1>1, <3>1 DEF SendTypeOK, EntrySet, Stored
    <3>3. own \in Own
      BY <1>1, <3>1, CommandFacts DEF SendTypeOK, Own
    <3>4. IsSequence(old)
      <4>1. CASE e \in DOMAIN messages
        BY <1>1, <4>1 DEF SendInv, Sequenced
      <4>2. CASE e \notin DOMAIN messages
        <5>1. old = <<>> /\ <<>> \in Seq(Range(<<>>))
          BY <4>2
        <5> QED  BY <5>1 DEF IsSequence
      <4> QED  BY <4>1, <4>2
    <3>5. /\ IsSequence(new) /\ DOMAIN new = 1 .. OwnFrags(own)
          /\ OwnFrags(own) \in Nat \ {0}
      BY <3>3, NewPackets
    <3> HIDE DEF e, old, new
    <3>6. old \o new # <<>>
      <4>1. DOMAIN (old \o new) = 1 .. Len(old) + Len(new) /\ Len(old) \in Nat /\ Len(new) \in Nat
            /\ DOMAIN new = 1 .. Len(new)
        BY <3>4, <3>5, JoinedAt
      <4>2. 1 \in DOMAIN (old \o new)
        BY <3>5, <4>1
      <4>3. DOMAIN <<>> = {}
        OBVIOUS
      <4> QED  BY <4>2, <4>3
    <3> QED  BY <1>1, <3>1, <3>2, <3>6 DEF ExchangeTypeOK
  <2>2. CASE clean
    BY <1>1, <2>2 DEF clean, ExchangeTypeOK
  <2>3. CASE UNCHANGED messages
    BY <1>1, <2>3 DEF ExchangeTypeOK
  <2> QED
    BY <2>1, <2>2, <2>3 DEF ExchangeNext, send, Receiving, outbound, store, Rekey, Announce,
       Encipher, Transmit, SendReturns, Tick, Silent, allVars
<1>10. disturbed' \subseteq -NumOwn .. NumMsg
  <2>1. CASE Note
    <3>1. \A m \in disturbed' : m \in disturbed \/ m = sent' \/ m = -own'
      BY <2>1 DEF Note
    <3>2. disturbed \subseteq -NumOwn .. NumMsg
      BY <1>1 DEF ExchangeTypeOK
    <3> QED  BY <1>4, <3>1, <3>2, Ranges
  <2>2. CASE UNCHANGED disturbed
    BY <1>1, <2>2 DEF ExchangeTypeOK
  <2> QED  BY <2>1, <2>2 DEF ExchangeNext, Silent, allVars
<1>11. ExchangeTypeOK'
  BY <1>4, <1>5, <1>6, <1>7, <1>8, <1>9, <1>10 DEF ExchangeTypeOK
<1> QED  BY <1>1, <1>3, <1>11 DEF ExchangeTyped

\* The range of every variable of the send side, and that `messages' never holds
\* an empty entry (packethandler.cpp 212-270), whatever clean() and poll() do.
THEOREM ExchangeTypeCorrect == ExchangeSpec => []ExchangeTypeOK
<1>1. ASSUME ExchangeInit PROVE ExchangeTyped
  <2>1. SendInv /\ Typed
    BY <1>1, SendInit, OrderlyInit DEF ExchangeInit, Orderly
  <2>2. ExchangeTypeOK
    BY <1>1, Ranges DEF ExchangeInit, Init, ExchangeTypeOK
  <2> QED  BY <2>1, <2>2 DEF ExchangeTyped
<1>2. ExchangeTyped /\ [ExchangeNext]_allVars => ExchangeTyped'
  BY ExchangeTypeStep
<1>3. ExchangeTyped => ExchangeTypeOK
  BY DEF ExchangeTyped
<1> QED  BY <1>1, <1>2, <1>3, PTL DEF ExchangeSpec

-----------------------------------------------------------------------------
\* What the callback is given for a message of the peer is the text it wrote.
LEMMA HandedUpText ==
    ASSUME NEW m \in Messages, ~Ambiguous(Text[m])
    PROVE  HandedUp[m] = Text[m]
<1> DEFINE text == Text[m]
           packets == [k \in 1 .. Frags[m] |-> packet_t(text, k - 1)]
           cut == [k \in 1 .. Frags[m] |-> packets[k].data]
<1>1. text \in Texts /\ Frags[m] = totalFragments(Len(text))
  BY ExchangeAssumption
<1> HIDE DEF text
<1>2. \A k \in 1 .. Frags[m] : validate_checksum(packets[k]) /\ packets[k].data = Cut(text)[k]
  BY <1>1, ChecksumsHold
<1>3. cut = Cut(text)
  BY <1>1, <1>2 DEF Cut
<1>4. ~Refused(reassembled(cut)) /\ unpadded(reassembled(cut)) = text
  BY <1>1, <1>3, JoiningUndoesCutting, PaddingUndone DEF Recovered, text
<1>5. HandedUp[m] = IF Refused(reassembled(cut)) \/ \E k \in DOMAIN packets : ~validate_checksum(packets[k])
                    THEN <<>> ELSE unpadded(reassembled(cut))
  BY DEF HandedUp, text
<1>6. DOMAIN packets = 1 .. Frags[m]
  OBVIOUS
<1> HIDE DEF cut, packets
<1> QED  BY <1>2, <1>4, <1>5, <1>6 DEF text

(***************************************************************************)
(* Whatever was lost, disturbed or came under a wrong key: a message that  *)
(* poll() hands up as one of the peer's is the text the peer wrote, byte   *)
(* for byte, through padding, cutting and checksum (packethandler.cpp      *)
(* 61-99, 218-263, 332-341), for every text of 1 to 256 bytes, unless it   *)
(* fills its last block and ends like a padding.                           *)
(***************************************************************************)
THEOREM TextArrives == ExchangeSpec => []HandedUpAsWritten
<1>1. ExchangeInit => Typed
  BY OrderlyInit DEF ExchangeInit, Orderly
<1>2. Typed /\ [ExchangeNext]_allVars => Typed'
  <2> SUFFICES ASSUME Typed, [ExchangeNext]_allVars PROVE Typed'
    OBVIOUS
  <2>1. Next \/ Untouched
    BY ReceivingIsNext, SendTouches DEF ExchangeNext, Silent, allVars, vars, Untouched
  <2> QED  BY <2>1, TypedStep
<1>3. Typed => HandedUpAsWritten
  <2> SUFFICES ASSUME Typed, NEW i \in DOMAIN delivered, delivered[i] # Garbage,
                      ~Ambiguous(Text[delivered[i]])
               PROVE  HandedUp[delivered[i]] = Text[delivered[i]]
    BY DEF HandedUpAsWritten
  <2>1. delivered[i] \in Messages
    BY DEF Typed
  <2> QED  BY <2>1, HandedUpText
<1> QED  BY <1>1, <1>2, <1>3, PTL DEF ExchangeSpec

\* PacketHandler::poll hands up messages of the peer in the order they were sent
\* and each at most once, although send() (packethandler.cpp 188, 233) takes the
\* cipher context away at any moment, poll() is late, ids come again and packets
\* are lost: no vector of the shield's own can make an old bucket readable again.
THEOREM ExchangeInOrder == ExchangeSpec => []InOrder
<1>1. ExchangeInit => OrderInv
  BY OrderInit DEF ExchangeInit
<1>2. OrderInv /\ SendInv /\ [ExchangeNext]_allVars => OrderInv'
  <2> SUFFICES ASSUME OrderInv, SendInv, [ExchangeNext]_allVars PROVE OrderInv'
    OBVIOUS
  <2>1. CASE send \/ clean \/ Tick
    <3>1. own' \in Nat
      <4>1. SendInv'
        BY SendStep
      <4> QED  BY <4>1 DEF SendInv, SendTypeOK
    <3>2. NoIv \notin Messages /\ -own' \notin Messages
      <4>1. ~(0 \in 1 .. NumMsg) /\ \A n \in Nat : ~(-n \in 1 .. NumMsg)
        BY ReassemblyAssumption
      <4> QED  BY <3>1, <4>1 DEF NoIv, Messages
    <3>3. Foreign
      BY <2>1, <3>2, SendTouches DEF Foreign, OrderInv
    <3> QED  BY <3>3, OrderStep
  <2>2. CASE UNCHANGED allVars
    <3>1. Foreign
      BY <2>2 DEF allVars, vars, Foreign, Untouched, OrderInv
    <3> QED  BY <3>1, OrderStep
  <2> QED  BY <2>1, <2>2, ReceivingIsNext, OrderStep DEF ExchangeNext, Silent
<1>3. OrderInv => InOrder
  BY DEF OrderInv
<1> QED  BY <1>1, <1>2, <1>3, SendInvariant, PTL DEF ExchangeSpec
=============================================================================
