------------------------------ MODULE Exchange ------------------------------
(***************************************************************************)
(* Both directions of PacketHandler over one cipher context: the receive   *)
(* side (Reassembly), and send(), encryption_handshake() and clean() for   *)
(* the messages of the client, with on_data in front of them.              *)
(*                                                                         *)
(* send() runs on the socket thread under phMutex, poll() and clean() on   *)
(* the housekeeping thread without it: aes_ctx is rekeyed by one while the *)
(* other decrypts, and `messages' is filled by one and freed by the other. *)
(* Each access to the context and each map operation is a step.            *)
(*                                                                         *)
(* Own messages are numbered by the commands of the client.  Their initial *)
(* vectors are the negative numbers, those of the peer the positive ones.  *)
(***************************************************************************)
EXTENDS Reassembly, Codec, FiniteSets

CONSTANTS
    Text,      \* what each message of the peer says
    Commands,  \* what the client sends, in order: [cmd, text]
    OwnIds,    \* the values of the 8-bit id of an own message
    Lease,     \* message_entry_t: seconds from creation to expiration
    MaxTime    \* bound: seconds

NumOwn == Len(Commands)
Own == 1 .. NumOwn

ASSUME ExchangeAssumption ==
    /\ \A m \in Messages : Text[m] \in Texts /\ Frags[m] = totalFragments(Len(Text[m]))
    /\ Commands \in Seq([cmd : {"PRESET", "FLAG", "TEXT"}, text : Texts])
    /\ Lease \in Nat \ {0} /\ MaxTime \in Nat

VARIABLES
    own,       \* the own message send() works on, or has finished last
    phase,     \* where send() is
    entry,     \* its local entry: id and expiration
    with,      \* the vector its data was enciphered with
    queue,     \* the packets its last loop has not reached yet
    messages,  \* PacketHandler::messages: the entries and their packets
    clock,     \* time(NULL)
    wire,      \* history: the packets send_pkt has transmitted
    disturbed  \* history: messages for whom the context was in other hands

sending == <<own, phase, entry, with, queue>>
store == <<messages, clock>>
outbound == <<sending, store, wire>>
allVars == <<vars, outbound, disturbed>>

NoEntry == [id |-> "none", expiration |-> 0]

\* on_data: the type and the payload's length for a command of the client.
on_data(command) ==
    CASE command.cmd = "PRESET" -> [type |-> "DICT", size |-> 1]
      [] command.cmd = "FLAG" -> [type |-> "FLAGS", size |-> 1]
      [] command.cmd = "TEXT" -> [type |-> "MSG", size |-> Len(command.text)]

OwnFrags(n) == totalFragments(on_data(Commands[n]).size)

\* Packet k of own message n; 0 is the handshake.  `entry' and `with' are not on
\* the wire but for the id.
OwnPacket(n, k, iv) ==
    [type |-> IF k = 0 THEN "ENCRYP" ELSE on_data(Commands[n]).type,
     of |-> n, nr |-> k, with |-> iv, entry |-> entry]

\* A bug to rule out: std::map and operator<, or a hash of the id alone.
SameEntryById(e, f) == e.id = f.id

\* unordered_map::find compares the hash, which covers the expiration, and then
\* operator==, which compares the id.
SameEntry(e, f) == e.id = f.id /\ e.expiration = f.expiration

Stored(e) == {f \in DOMAIN messages : SameEntry(e, f)}

-----------------------------------------------------------------------------
(* send(), on the socket thread *)

\* A bug to rule out: AES_init_ctx, which sets the key alone.
RekeyWithoutVector ==
    /\ phase = "idle"
    /\ own < NumOwn
    /\ clock + Lease <= MaxTime
    /\ own' = own + 1
    /\ \E id \in OwnIds : entry' = [id |-> id, expiration |-> clock + Lease]
    /\ ctx' = [ctx EXCEPT !.key = "big_endian"]
    /\ phase' = "announce"
    /\ UNCHANGED <<peer, received, task, delivered, lost, with, queue, store, wire>>

\* on_data takes phMutex; send() picks the id and notes the time;
\* encryption_handshake() gives the context a key and a vector of its own.
Rekey ==
    /\ phase = "idle"
    /\ own < NumOwn
    /\ clock + Lease <= MaxTime
    /\ own' = own + 1
    /\ \E id \in OwnIds : entry' = [id |-> id, expiration |-> clock + Lease]
    /\ ctx' = [key |-> "big_endian", iv |-> -own']
    /\ phase' = "announce"
    /\ UNCHANGED <<peer, received, task, delivered, lost, with, queue, store, wire>>

\* The handshake packet is sent.
Announce ==
    /\ phase = "announce"
    /\ wire' = Append(wire, OwnPacket(own, 0, -own))
    /\ phase' = "encipher"
    /\ UNCHANGED <<vars, own, entry, with, queue, store>>

\* AES_CTR_xcrypt_buffer takes the context as it is now.
Encipher ==
    /\ phase = "encipher"
    /\ with' = IF ctx.key = "big_endian" THEN ctx.iv ELSE NoIv
    /\ ctx' = [ctx EXCEPT !.iv = NoIv]
    /\ phase' = "store"
    /\ UNCHANGED <<peer, received, task, delivered, lost, own, entry, queue, store, wire>>

\* messages[entry].push_back(pkt) for every fragment; an entry that is there is
\* taken, with what it holds.  The last loop runs over all of it.
Store ==
    /\ phase = "store"
    /\ LET e == IF Stored(entry) = {} THEN entry ELSE CHOOSE f \in Stored(entry) : TRUE
           old == IF e \in DOMAIN messages THEN messages[e] ELSE <<>>
           new == [k \in 1 .. OwnFrags(own) |-> OwnPacket(own, k, with)]
       IN  /\ messages' = [f \in DOMAIN messages \cup {e} |->
                              IF f = e THEN old \o new ELSE messages[f]]
           /\ queue' = old \o new
    /\ phase' = "transmit"
    /\ UNCHANGED <<vars, own, entry, with, clock, wire>>

Transmit ==
    /\ phase = "transmit" /\ queue # <<>>
    /\ wire' = Append(wire, Head(queue))
    /\ queue' = Tail(queue)
    /\ UNCHANGED <<vars, own, phase, entry, with, store>>

\* send() returns and on_data releases phMutex.
SendReturns ==
    /\ phase = "transmit" /\ queue = <<>>
    /\ phase' = "idle"
    /\ entry' = NoEntry
    /\ with' = NoIv
    /\ UNCHANGED <<vars, own, queue, store, wire>>

send == Rekey \/ Announce \/ Encipher \/ Store \/ Transmit \/ SendReturns

-----------------------------------------------------------------------------
(* clean(), on the housekeeping thread, and the time *)

\* Bugs to rule out: entries that have not expired are freed; none is.
ExpiredInverted(e) == e.expiration >= clock
ExpiredNever(e) == e.expiration < 0

Expired(e) == e.expiration <= clock

clean ==
    /\ task = Idle
    /\ \E e \in DOMAIN messages : Expired(e)
    /\ messages' = [e \in {f \in DOMAIN messages : ~Expired(f)} |-> messages[e]]
    /\ UNCHANGED <<vars, sending, clock, wire>>

\* A message is sent in less time than its entry is kept.
Tick ==
    /\ clock < MaxTime
    /\ phase # "idle" => clock + 1 < entry.expiration
    /\ clock' = clock + 1
    /\ UNCHANGED <<vars, sending, messages, wire>>

-----------------------------------------------------------------------------

\* The peer is in the middle of a message, or poll() has not finished with it;
\* the own message is between its new vector and its encryption.
PeerOpen == Sending \/ ~Polled
OwnOpen == phase \in {"announce", "encipher"}

\* Messages that were open at the same time, and those of the peer before the
\* first own one, when the key is still the one of init().
Note == disturbed' = disturbed
    \cup (IF PeerOpen' /\ (OwnOpen' \/ ctx'.key = "little_endian") THEN {sent'} ELSE {})
    \cup (IF PeerOpen' /\ OwnOpen' THEN {-own'} ELSE {})

ExchangeInit ==
    /\ Init
    /\ own = 0 /\ phase = "idle" /\ entry = NoEntry /\ with = NoIv /\ queue = <<>>
    /\ messages = <<>>
    /\ clock = 0
    /\ wire = <<>>
    /\ disturbed = {}

Receiving == (PeerSend \/ receive \/ Lose \/ poll) /\ UNCHANGED outbound

\* The peer is silent and the client has nothing more to send.
Silent ==
    /\ sent = NumMsg /\ ~Sending /\ Polled
    /\ phase = "idle" /\ (own = NumOwn \/ clock + Lease > MaxTime) /\ clock = MaxTime
    /\ ~\E e \in DOMAIN messages : Expired(e)
    /\ UNCHANGED allVars

ExchangeNext ==
    \/ (Receiving \/ send \/ clean \/ Tick) /\ Note
    \/ Silent

ExchangeSpec ==
    /\ ExchangeInit /\ [][ExchangeNext]_allVars
    /\ WF_allVars(poll /\ UNCHANGED outbound /\ Note)
    /\ WF_allVars(send /\ Note)
    /\ WF_allVars(clean /\ Note)
    /\ WF_allVars(Tick /\ Note)

-----------------------------------------------------------------------------
(* Properties *)

\* The range of every variable of the send side.
ExchangeTypeOK ==
    /\ own \in 0 .. NumOwn
    /\ phase \in {"idle", "announce", "encipher", "store", "transmit"}
    /\ entry = NoEntry \/ (entry.id \in OwnIds /\ entry.expiration \in Lease .. MaxTime)
    /\ with \in -NumOwn .. NumMsg
    /\ ctx.iv \in -NumOwn .. NumMsg
    /\ clock \in 0 .. MaxTime
    /\ \A e \in DOMAIN messages : e.id \in OwnIds /\ messages[e] # <<>>
    /\ disturbed \subseteq -NumOwn .. NumMsg

\* An own packet is enciphered with the vector announced for its message, unless
\* a message of the peer was open between handshake and encryption.
OwnReadable ==
    \A i \in DOMAIN wire : wire[i].with # -wire[i].of => -wire[i].of \in disturbed

\* The peer's messages that may reach the callback as garbage: those that lost
\* something, shared the context, or came before the shield had sent.
Spoilt == lost \cup {m \in disturbed : m > 0}

\* Each of them costs the callback one message of garbage at most.
GarbageIsBounded ==
    Cardinality({i \in DOMAIN delivered : delivered[i] = Garbage}) <= Cardinality(Spoilt)

\* A message of the peer that arrived whole, under an id no incomplete one holds,
\* and did not share the context, has reached the callback once poll() is through.
UndisturbedIsDelivered ==
    \A m \in Messages :
        Whole(m) /\ m \notin disturbed /\ Polled => m \in Range(delivered)

\* What the callback is given for message m, cut by the peer as by send().
HandedUp ==
    [m \in Messages |->
        LET packets == [k \in 1 .. Frags[m] |-> packet_t(Text[m], k - 1)]
            bytes == reassembled([k \in 1 .. Frags[m] |-> packets[k].data])
        IN  IF Refused(bytes) \/ \E k \in DOMAIN packets : ~validate_checksum(packets[k])
            THEN <<>> ELSE unpadded(bytes)]

\* A message that is delivered is the text that was written, unless this fills its
\* last block and ends like a padding.
HandedUpAsWritten ==
    \A i \in DOMAIN delivered :
        delivered[i] # Garbage /\ ~Ambiguous(Text[delivered[i]])
            => HandedUp[delivered[i]] = Text[delivered[i]]

\* The handshake before packet i.
Announcement(i) ==
    CHOOSE j \in 1 .. i : wire[j].nr = 0 /\ \A k \in j + 1 .. i : wire[k].nr # 0

\* A fragment is sent after the handshake of its own message only, unless a later
\* message was given the same id in the same second: then the fragments of the earlier
\* one are sent again after its handshake. After any one handshake none is sent twice.
NoStrayFragment ==
    \A i \in DOMAIN wire :
        /\ wire[i].of # wire[Announcement(i)].of =>
              wire[i].entry = wire[Announcement(i)].entry
        /\ \A j \in Announcement(i) .. i - 1 : wire[j] # wire[i]

\* clean() does not free the packets that send() is transmitting.
NothingFreedInUse == phase = "transmit" => Stored(entry) # {}

\* Every entry of `messages' is freed in the end. Lease stands for the 10000 s of the
\* code, where the comment on that line has 10 seconds.
MessagesReclaimed == <>[](messages = <<>>)
=============================================================================
