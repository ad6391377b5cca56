--------------------------- MODULE PacketChannel ---------------------------
(***************************************************************************)
(* What the radio link promises in one direction: a channel with one       *)
(* place.  The sender puts packets 1, 2, ... into it one after the other,  *)
(* and the one in the channel comes out once or not at all.  A packet that *)
(* is still there when the next one is sent is lost, which a reliable      *)
(* channel's sender waits not to do.  A spoilt packet may be lost in any   *)
(* channel, and something else (0) may come out instead of it; but never   *)
(* does more come out than has been put in.                                *)
(***************************************************************************)
EXTENDS Naturals, Sequences

CONSTANTS
    NumPackets,  \* the number of packets that are sent
    Reliable     \* TRUE: no packet is sent before the one before is out

VARIABLES
    sent,     \* how many packets have been put in
    arrived,  \* the packets that have come out, in the order of their arrival
    spoilt    \* the packets for which the channel promises nothing

Init ==
    /\ sent = 0
    /\ arrived = <<>>

\* The packet sent last is still in the channel.
Occupied == sent # 0 /\ \A i \in DOMAIN arrived : arrived[i] < sent

Send ==
    /\ sent < NumPackets
    /\ Reliable /\ Occupied => sent \in spoilt
    /\ sent' = sent + 1
    /\ UNCHANGED arrived

Arrive ==
    /\ Occupied
    /\ Len(arrived) < sent
    /\ arrived' = Append(arrived, sent)
    /\ UNCHANGED sent

Garble ==
    /\ sent \in spoilt
    /\ Len(arrived) < sent
    /\ arrived' = Append(arrived, 0)
    /\ UNCHANGED sent

Next == Send \/ Arrive \/ Garble

Spec == Init /\ [][Next]_<<sent, arrived>>
=============================================================================
