--------------------------- MODULE MessageService ---------------------------
(***************************************************************************)
(* What the receive side of PacketHandler promises its user, in terms of   *)
(* whole messages: the peer offers messages 1, 2, ... one after the other, *)
(* the shield hands them to its callback in that order, each at most once, *)
(* and never anything the peer has not offered.  A message may be lost.    *)
(***************************************************************************)
EXTENDS Naturals, Sequences

CONSTANT NumMsg  \* the number of messages the peer offers

VARIABLES
    offered,    \* how many messages the peer has offered
    delivered   \* the messages handed to the callback

Init ==
    /\ offered = 0
    /\ delivered = <<>>

Offer ==
    /\ offered < NumMsg
    /\ offered' = offered + 1
    /\ UNCHANGED delivered

Deliver(m) ==
    /\ \A i \in DOMAIN delivered : delivered[i] < m
    /\ delivered' = Append(delivered, m)
    /\ UNCHANGED offered

Next == Offer \/ \E m \in 1 .. offered : Deliver(m)

Spec == Init /\ [][Next]_<<offered, delivered>>
=============================================================================
