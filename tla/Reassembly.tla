----------------------------- MODULE Reassembly -----------------------------
(***************************************************************************)
(* The receive side of PacketHandler: receive() on the interrupt thread    *)
(* pushes the fragments that arrive into the bucket of their message id,   *)
(* poll() on the housekeeping thread takes the buckets that look complete, *)
(* joins and decrypts them, and hands the message to the callback.         *)
(*                                                                         *)
(* The peer sends a message the way PacketHandler::send does: a handshake  *)
(* that announces the initial vector of the cipher, then the fragments of  *)
(* the encrypted message, all under one random 8-bit id.  The link loses   *)
(* packets and does not reorder or duplicate them (AirOrder in LoraLink).  *)
(*                                                                         *)
(* The content of a packet is abstracted to the message it was cut from:   *)
(* `of' stands for the bytes.  A decryption is right when the key is, the  *)
(* initial vector is the one of the message, and the buffer holds exactly  *)
(* its fragments in order; anything else yields bytes nobody has sent.     *)
(* Operations on the map `received' are atomic here; the code gives them   *)
(* no lock.  Between the two steps of poll() the interrupt thread runs.    *)
(***************************************************************************)
EXTENDS Naturals, Sequences, Functions

CONSTANTS
    NumMsg,    \* bound: messages the peer sends
    Ids,       \* the values of the 8-bit message id
    Frags,     \* how many fragments each message has
    Kind,      \* the type of each message's fragments
    Losable,   \* the packet types the link may lose
    FreshIds,  \* TRUE: rand() never repeats an id
    Prompt,    \* TRUE: poll() finishes before the next packet arrives
    Keyed      \* TRUE: the shield has sent a message before

Messages == 1 .. NumMsg
DataTypes == {"MSG", "ACK", "NACK", "FLAGS", "DICT"}

ASSUME ReassemblyAssumption ==
    /\ NumMsg \in Nat
    /\ Frags \in [Messages -> Nat \ {0}]
    /\ Kind \in [Messages -> DataTypes]
    /\ {FreshIds, Prompt, Keyed} \subseteq BOOLEAN

Garbage == 0  \* bytes that are no message of the peer
NoIv == 0     \* an initial vector, or a position in a key stream, of no message
Idle == "idle"

ASSUME IdAssumption == Idle \notin Ids

VARIABLES
    idOf,       \* the id rand() gives to each message
    sent,       \* the message the peer is sending
    next,       \* its next packet: 0 is the handshake
    received,   \* PacketHandler::received
    ctx,        \* PacketHandler::aes_ctx: key and initial vector
    task,       \* the bucket poll() has processed and not yet erased
    delivered,  \* history: what the callback was given
    lost        \* history: the messages that lost a packet

peer == <<idOf, sent, next>>
vars == <<peer, received, ctx, task, delivered, lost>>

PacketOf(type, id, fragment, total, of) ==
    [type |-> type, message_id |-> id, fragment_id |-> fragment,
     total_fragments |-> total, of |-> of]

\* Packet k of message m.
Packet(m, k) ==
    IF k = 0 THEN PacketOf("ENCRYP", idOf[m], 0, 1, m)
    ELSE PacketOf(Kind[m], idOf[m], k - 1, Frags[m], m)

-----------------------------------------------------------------------------
(* poll() *)

\* Bugs to rule out: one fragment more than the total is waited for; the first
\* fragment's number taken for the total.
CompleteOneMore(bucket) == bucket # <<>> /\ bucket[1].total_fragments < Len(bucket)
CompleteByNumber(bucket) == bucket # <<>> /\ bucket[1].fragment_id + 1 = Len(bucket)

Complete(bucket) == bucket # <<>> /\ bucket[1].total_fragments = Len(bucket)

\* std::sort by fragment_id; fragments with equal ids end up in any order.
Sorted(bucket) ==
    { [i \in DOMAIN bucket |-> bucket[f[i]]] :
        f \in { g \in [DOMAIN bucket -> DOMAIN bucket] :
                  /\ IsInjective(g)
                  /\ \A i, j \in DOMAIN bucket :
                       i < j => bucket[g[i]].fragment_id <= bucket[g[j]].fragment_id } }

\* A bug to rule out: a cipher without a vector, block by block, under which
\* mixed fragments begin like the message of the first.
DecryptsByBlock(fragments, m) ==
    /\ ctx.key = "big_endian"
    /\ fragments[1] = Packet(m, 1)

\* What the joined fragments decrypt to.
Decrypts(fragments, m) ==
    /\ ctx.key = "big_endian"
    /\ ctx.iv = m
    /\ Len(fragments) = Frags[m]
    /\ \A k \in DOMAIN fragments : fragments[k] = Packet(m, k)

\* Garbage passes the padding check or does not.
PollMessage(fragments) ==
    /\ fragments[1].type = "MSG"
    /\ \/ \E m \in Messages :
            /\ Decrypts(fragments, m)
            /\ delivered' = Append(delivered, m)
       \/ /\ ~\E m \in Messages : Decrypts(fragments, m)
          /\ delivered' \in {delivered, Append(delivered, Garbage)}
    /\ ctx' = [ctx EXCEPT !.iv = NoIv]

\* Bugs to rule out: the vector is kept in `iv' and not given to the context;
\* it is incremented before its first use.
PollHandshakeKept(fragments) ==
    /\ fragments[1].type = "ENCRYP"
    /\ UNCHANGED <<ctx, delivered>>

PollHandshakeIncremented(fragments) ==
    /\ fragments[1].type = "ENCRYP"
    /\ ctx' = [ctx EXCEPT !.iv = fragments[1].of + 1]
    /\ UNCHANGED delivered

PollHandshake(fragments) ==
    /\ fragments[1].type = "ENCRYP"
    /\ ctx' = [ctx EXCEPT !.iv = fragments[1].of]
    /\ UNCHANGED delivered

PollOther(fragments) ==
    /\ fragments[1].type \notin {"MSG", "ENCRYP"}
    /\ UNCHANGED <<ctx, delivered>>

PollTake(id) ==
    /\ task = Idle
    /\ Complete(received[id])
    /\ \E fragments \in Sorted(received[id]) :
         \/ PollMessage(fragments)
         \/ PollHandshake(fragments)
         \/ PollOther(fragments)
    /\ task' = id
    /\ UNCHANGED <<peer, received, lost>>

\* What receive() has pushed into the bucket since PollTake goes with it.
PollErase ==
    /\ task # Idle
    /\ received' = [received EXCEPT ![task] = <<>>]
    /\ task' = Idle
    /\ UNCHANGED <<peer, ctx, delivered, lost>>

poll == PollErase \/ \E id \in Ids : PollTake(id)

\* poll() has nothing to do.
Polled == task = Idle /\ \A id \in Ids : ~Complete(received[id])

-----------------------------------------------------------------------------
(* The peer, and receive() *)

Sending == sent # 0 /\ next <= Frags[sent]

PeerSend ==
    /\ ~Sending
    /\ sent < NumMsg
    /\ Prompt => Polled
    /\ sent' = sent + 1
    /\ next' = 0
    /\ UNCHANGED <<idOf, received, ctx, task, delivered, lost>>

receive ==
    /\ Sending
    /\ Prompt => Polled
    /\ LET p == Packet(sent, next)
       IN  received' = [received EXCEPT ![p.message_id] = Append(@, p)]
    /\ next' = next + 1
    /\ UNCHANGED <<idOf, sent, ctx, task, delivered, lost>>

\* The packet does not arrive, or one of the early returns of receive() drops it.
Lose ==
    /\ Sending
    /\ Packet(sent, next).type \in Losable
    /\ next' = next + 1
    /\ lost' = lost \cup {sent}
    /\ UNCHANGED <<idOf, sent, received, ctx, task, delivered>>

-----------------------------------------------------------------------------

\* init() has run: its key is read in the byte order of the machine, the
\* handshake of a message sent by the shield replaces it.
Init ==
    /\ idOf \in [Messages -> Ids]
    /\ FreshIds => IsInjective(idOf)
    /\ sent = 0
    /\ next = 0
    /\ received = [id \in Ids |-> <<>>]
    /\ ctx = [key |-> IF Keyed THEN "big_endian" ELSE "little_endian", iv |-> NoIv]
    /\ task = Idle
    /\ delivered = <<>>
    /\ lost = {}

\* The peer has sent everything and poll() spins without effect.
AtRest ==
    /\ sent = NumMsg
    /\ ~Sending
    /\ Polled
    /\ UNCHANGED vars

Next == PeerSend \/ receive \/ Lose \/ poll \/ AtRest

\* The housekeeping thread never stops; the peer may fall silent.
Spec == Init /\ [][Next]_vars
FairSpec == Spec /\ WF_vars(poll)

-----------------------------------------------------------------------------
(* Properties *)

PacketSet == [type : DataTypes \cup {"ENCRYP"}, message_id : Ids,
              fragment_id : Nat, total_fragments : Nat, of : Messages]
ContextSet == [key : {"big_endian", "little_endian"}, iv : {NoIv} \cup Messages]

\* The range of every variable.
TypeOK ==
    /\ idOf \in [Messages -> Ids]
    /\ sent \in 0 .. NumMsg
    /\ next \in Nat
    /\ received \in [Ids -> Seq(PacketSet)]
    /\ ctx \in ContextSet
    /\ task \in Ids \cup {Idle}
    /\ delivered \in Seq({Garbage} \cup Messages)
    /\ lost \subseteq Messages

Service == INSTANCE MessageService WITH offered <- sent

\* receive() and poll() implement the message service: in order, at most once,
\* nothing invented.
ImplementsService == Service!Spec

\* Everything the callback is given is a message of the peer.
DeliveredIsSent == Garbage \notin Range(delivered)

\* Whatever is lost, however late poll() is and whatever ids come again: apart from
\* garbage, the callback is given messages in the order of sending, each at most once.
InOrder ==
    \A i \in DOMAIN delivered : delivered[i] # Garbage =>
        /\ delivered[i] <= sent
        /\ \A j \in 1 .. i - 1 : delivered[j] < delivered[i]

\* Even with reused ids, garbage is a consequence of loss:
\* as long as no packet has been lost, none is handed up.
GarbageNeedsLoss == Garbage \in Range(delivered) => lost # {}

\* No packet of message m was lost, and no earlier message that lost one has
\* left fragments under its id.
Whole(m) ==
    /\ sent = m /\ ~Sending /\ Kind[m] = "MSG"
    /\ m \notin lost
    /\ \A k \in lost : idOf[k] # idOf[m]

\* A whole message reaches the callback, whatever other messages have lost.
WholeIsDelivered == \A m \in Messages : Whole(m) ~> (m \in Range(delivered))

\* When poll() has nothing to do, and the peer is between two messages, a
\* fragment left in the map belongs to a message that lost a packet.
OnlyLossLingers ==
    Polled /\ ~Sending =>
        \A id \in Ids : \A i \in DOMAIN received[id] : received[id][i].of \in lost
=============================================================================
