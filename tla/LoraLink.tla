------------------------------ MODULE LoraLink ------------------------------
(***************************************************************************)
(* The radio link: the SX1276 chip, class LoRa (lib/lora.cpp) with the     *)
(* driver routines it calls (lib/lora_sx1276.cpp), PacketHandler::send_pkt *)
(* which retries LoRa::send, and SX1276_IRQ_Handle_Task on the interrupt   *)
(* thread.                                                                 *)
(*                                                                         *)
(* Two threads drive one chip over SPI: "socket" transmits the packets     *)
(* 1 .. NumOut one after the other, "isr" runs the interrupt task once per *)
(* rising edge of DIO0.  LoRa::mutex is held by LoRa::send and by          *)
(* LoRa::receive; the interrupt task calls set_receive_mode WITHOUT it.    *)
(* A step of a thread is one SPI transfer, one access to the shared        *)
(* variable `mode', or one mutex operation, so the two threads and the     *)
(* chip interleave at the granularity of the real program.  Transfers that *)
(* no property can tell apart (FIFO pointers, base addresses, lengths) are *)
(* folded into the FIFO access they prepare.                               *)
(*                                                                         *)
(* The chip's buffer is one slot: lora_init gives RX and TX the same base  *)
(* address 0.  The GPIO edge is a latch: edges raised while the task runs  *)
(* are delivered as one.                                                   *)
(*                                                                         *)
(* Nothing is assumed of the time anything takes: the sleeps of send_pkt   *)
(* may be too short, as they are with the preset main chooses.  Instead    *)
(* the history variables say which packets met something on their way, and *)
(* the properties say what holds of all the others.                        *)
(***************************************************************************)
EXTENDS Naturals, Sequences

CONSTANTS
    NumOut,  \* bound: packets the shield transmits
    NumIn,   \* bound: packets that reach the antenna
    Kinds    \* the states in which those packets arrive

AllKinds == {"intact", "badCrc", "badHeader"}

ASSUME LinkAssumption ==
    /\ NumOut \in Nat
    /\ NumIn \in Nat
    /\ Kinds \subseteq AllKinds

VARIABLES
    opmode,  \* REG_OP_MODE
    irq,     \* REG_IRQ_FLAGS, the set of raised flags
    dio,     \* REG_DIO_MAPPING_1: which flag drives DIO0
    fifo,    \* the packet in the chip's buffer
    rxing,   \* the packet being demodulated, its header already seen
    edge,    \* a rising edge of DIO0 the interrupt thread has not taken yet
    mode,    \* lora.cpp: volatile LoRaMode mode
    mutex,   \* LoRa::mutex: its owner
    pc,      \* where each thread is
    cur,     \* the packet send_pkt works on, or has finished last
    state,   \* lora_receive_packet_base: the flags it has read
    code,    \* the error code of the last lora_receive_packet
    onAir,   \* history: the packets transmitted completely
    heard,   \* history: how many packets have reached the antenna
    inbox,   \* history: the packets LoRa::receive has returned with LORA_OK
    whole,   \* history: nothing else came into the reception begun last
    mixed,   \* history: the places of inbox filled when something had
    crossed  \* history: the own packets whose sending met something else

chip == <<opmode, irq, dio, fifo, rxing, edge>>
soft == <<mode, mutex, cur, state, code>>
history == <<onAir, heard, inbox, whole, mixed>>
system == <<chip, soft, pc, history>>
vars == <<system, crossed>>

Threads == {"socket", "isr"}
Flags == {"RX_DONE", "PAYLOAD_CRC_ERROR", "VALID_HEADER", "TX_DONE"}
RX_ALL == Flags \ {"TX_DONE"}
NoPacket == [from |-> "none", seq |-> 0, kind |-> "intact"]

Packet(from, seq, kind) == [from |-> from, seq |-> seq, kind |-> kind]
Own(n) == Packet("shield", n, "intact")

-----------------------------------------------------------------------------
(* Registers *)

\* lora_set_*: DIO0 follows the flag the mapping selects.
Dio0(i, d) == IF d = "rx_done" THEN "RX_DONE" \in i ELSE "TX_DONE" \in i

\* A write to REG_IRQ_FLAGS or REG_DIO_MAPPING_1 that makes DIO0 rise wakes
\* the interrupt thread; a DIO0 that is already high does not rise again.
Drive(i, d) ==
    /\ irq' = i
    /\ dio' = d
    /\ edge' = (edge \/ (Dio0(i, d) /\ ~Dio0(irq, dio)))

\* set_mode: leaving receive mode drops the packet being demodulated.
set_mode(m) ==
    /\ opmode' = m
    /\ rxing' = IF m = "RX_CONTINUOUS" THEN rxing ELSE NoPacket

\* A bug to rule out: `opmode & OPMODE_TX' tested for any common bit.
lora_is_transmittingAnyBit == opmode \in {"STDBY", "TX", "RX_CONTINUOUS"}

lora_is_transmitting == opmode = "TX"

Goto(t, from, to) == pc[t] = from /\ pc' = [pc EXCEPT ![t] = to]

-----------------------------------------------------------------------------
(* LoRa::set_receive_mode, inlined in both of its callers.  LoRa::send calls *)
(* it under the mutex when the chip is busy, the interrupt task calls it     *)
(* without the mutex.                                                        *)

ReceiveModeClearIrq(t) ==
    /\ Goto(t, "rm_irq", "rm_mode")
    /\ Drive(irq \ RX_ALL, dio)
    /\ UNCHANGED <<opmode, fifo, rxing, soft, history>>

ReceiveModeSet(t) ==
    /\ Goto(t, "rm_mode", "rm_dio")
    /\ set_mode("RX_CONTINUOUS")
    /\ UNCHANGED <<irq, dio, fifo, edge, soft, history>>

ReceiveModeMapDio(t) ==
    /\ Goto(t, "rm_dio", "rm_soft")
    /\ Drive(irq, "rx_done")
    /\ UNCHANGED <<opmode, fifo, rxing, soft, history>>

ReceiveModeSoft(t) ==
    /\ Goto(t, "rm_soft", IF t = "socket" THEN "unlock_busy" ELSE "if_receive")
    /\ mode' = "Receive"
    /\ UNCHANGED <<chip, mutex, cur, state, code, history>>

set_receive_mode(t) ==
    \/ ReceiveModeClearIrq(t)
    \/ ReceiveModeSet(t)
    \/ ReceiveModeMapDio(t)
    \/ ReceiveModeSoft(t)

-----------------------------------------------------------------------------
(* PacketHandler::send_pkt and LoRa::send on the socket thread *)

BeginSendPkt ==
    /\ cur < NumOut
    /\ Goto("socket", "idle", "lock")
    /\ cur' = cur + 1
    /\ UNCHANGED <<chip, mode, mutex, state, code, history>>

LockSend ==
    /\ mutex = "none"
    /\ Goto("socket", "lock", "busy")
    /\ mutex' = "socket"
    /\ UNCHANGED <<chip, mode, cur, state, code, history>>

\* A bug to rule out: a transmission that is going on is not asked for.
CheckBusyOmitted ==
    /\ Goto("socket", "busy", "stdby")
    /\ UNCHANGED <<chip, soft, history>>

\* lora_send_packet_base returns LORA_BUSY while a transmission is going on,
\* and LoRa::send then falls back to set_receive_mode.
CheckBusy ==
    /\ Goto("socket", "busy", IF lora_is_transmitting THEN "rm_irq" ELSE "stdby")
    /\ UNCHANGED <<chip, soft, history>>

SendStandby ==
    /\ Goto("socket", "stdby", "clear_tx")
    /\ set_mode("STDBY")
    /\ UNCHANGED <<irq, dio, fifo, edge, soft, history>>

lora_clear_interrupt_tx_done ==
    /\ Goto("socket", "clear_tx", "write_fifo")
    /\ Drive(irq \ {"TX_DONE"}, dio)
    /\ UNCHANGED <<opmode, fifo, rxing, soft, history>>

\* A packet that has not been read yet is written over.
write_fifo ==
    /\ Goto("socket", "write_fifo", "tx")
    /\ fifo' = Own(cur)
    /\ whole' = FALSE
    /\ UNCHANGED <<opmode, irq, dio, rxing, edge, soft, onAir, heard, inbox, mixed>>

StartTx ==
    /\ Goto("socket", "tx", "map_tx")
    /\ set_mode("TX")
    /\ UNCHANGED <<irq, dio, fifo, edge, soft, history>>

\* A bug to rule out: DIO0 stays mapped to rx_done.
TransmitModeMapDioOmitted ==
    /\ Goto("socket", "map_tx", "soft_tx")
    /\ UNCHANGED <<chip, soft, history>>

\* LoRa::set_transmit_mode, after the chip has been put in TX mode.
TransmitModeMapDio ==
    /\ Goto("socket", "map_tx", "soft_tx")
    /\ Drive(irq, "tx_done")
    /\ UNCHANGED <<opmode, fifo, rxing, soft, history>>

TransmitModeSoft ==
    /\ Goto("socket", "soft_tx", "unlock_ok")
    /\ mode' = "Transmit"
    /\ UNCHANGED <<chip, mutex, cur, state, code, history>>

\* A bug to rule out: the status compared the wrong way round.
UnlockSendInverted ==
    /\ \/ Goto("socket", "unlock_ok", "lock")
       \/ Goto("socket", "unlock_busy", "idle")
    /\ mutex' = "none"
    /\ UNCHANGED <<chip, mode, cur, state, code, history>>

\* A bug to rule out: a send that failed is not tried again.
UnlockSendOnce ==
    /\ \/ Goto("socket", "unlock_ok", "idle")
       \/ Goto("socket", "unlock_busy", "idle")
    /\ mutex' = "none"
    /\ UNCHANGED <<chip, mode, cur, state, code, history>>

\* LoRa::send returns: success ends send_pkt, failure makes it try again.
UnlockSend ==
    /\ \/ Goto("socket", "unlock_ok", "idle")
       \/ Goto("socket", "unlock_busy", "lock")
    /\ mutex' = "none"
    /\ UNCHANGED <<chip, mode, cur, state, code, history>>

Sending ==
    \/ CheckBusy
    \/ SendStandby
    \/ lora_clear_interrupt_tx_done
    \/ write_fifo
    \/ StartTx
    \/ TransmitModeMapDio
    \/ TransmitModeSoft
    \/ UnlockSend
    \/ set_receive_mode("socket")

-----------------------------------------------------------------------------
(* SX1276_IRQ_Handle_Task, PacketHandler::receive and LoRa::receive on the   *)
(* interrupt thread                                                          *)

TakeEdge ==
    /\ edge
    /\ Goto("isr", "wait", "if_transmit")
    /\ edge' = FALSE
    /\ UNCHANGED <<opmode, irq, dio, fifo, rxing, soft, history>>

IfTransmit ==
    /\ Goto("isr", "if_transmit", IF mode = "Transmit" THEN "rm_irq" ELSE "if_receive")
    /\ UNCHANGED <<chip, soft, history>>

\* The second `if' of the task reads `mode' again: after a transmission it
\* finds what set_receive_mode has just written, and receives.
IfReceive ==
    /\ Goto("isr", "if_receive", IF mode = "Receive" THEN "lock" ELSE "wait")
    /\ UNCHANGED <<chip, soft, history>>

LockReceive ==
    /\ mutex = "none"
    /\ Goto("isr", "lock", "poll")
    /\ mutex' = "isr"
    /\ UNCHANGED <<chip, mode, cur, state, code, history>>

\* A bug to rule out: a wait for a packet without a timeout.
ReceiveWaitForever ==
    /\ "RX_DONE" \in irq
    /\ Goto("isr", "poll", "read_irq")
    /\ UNCHANGED <<chip, soft, history>>

\* lora_receive_packet_blocking polls for at most 500 ms with the mutex held:
\* it leaves the loop when a packet is available or when the time is over, so
\* at any moment.
ReceiveWaitEnds ==
    /\ Goto("isr", "poll", "read_irq")
    /\ UNCHANGED <<chip, soft, history>>

\* A bug to rule out: the flags of the packet before are still in `state'.
ReadIrqAdded ==
    /\ Goto("isr", "read_irq", "clear_rx")
    /\ state' = state \cup irq
    /\ UNCHANGED <<chip, mode, mutex, cur, code, history>>

ReadIrq ==
    /\ Goto("isr", "read_irq", "clear_rx")
    /\ state' = irq
    /\ UNCHANGED <<chip, mode, mutex, cur, code, history>>

\* Bugs to rule out: `res' without its initial value; a header taken for a packet.
OutcomeUninitialised(flags) ==
    IF "RX_DONE" \notin flags THEN "uninitialised"
    ELSE IF "VALID_HEADER" \notin flags THEN "LORA_INVALID_HEADER"
    ELSE IF "PAYLOAD_CRC_ERROR" \in flags THEN "LORA_CRC_ERROR"
    ELSE "LORA_OK"

OutcomeOfHeader(flags) ==
    IF "VALID_HEADER" \notin flags THEN "LORA_EMPTY"
    ELSE IF "PAYLOAD_CRC_ERROR" \in flags THEN "LORA_CRC_ERROR"
    ELSE "LORA_OK"

\* RX_TIMEOUT never appears: the chip raises it in single receive mode only.
Outcome(flags) ==
    IF "RX_DONE" \notin flags THEN "LORA_EMPTY"
    ELSE IF "VALID_HEADER" \notin flags THEN "LORA_INVALID_HEADER"
    ELSE IF "PAYLOAD_CRC_ERROR" \in flags THEN "LORA_CRC_ERROR"
    ELSE "LORA_OK"

\* The flags go after they have been read, one transfer later.
ClearRxIrq ==
    /\ Goto("isr", "clear_rx", IF Outcome(state) = "LORA_OK" THEN "read_fifo" ELSE "unlock")
    /\ Drive(irq \ RX_ALL, dio)
    /\ code' = Outcome(state)
    /\ UNCHANGED <<opmode, fifo, rxing, mode, mutex, cur, state, history>>

read_fifo ==
    /\ Goto("isr", "read_fifo", "unlock")
    /\ inbox' = Append(inbox, fifo)
    /\ mixed' = IF whole THEN mixed ELSE mixed \cup {Len(inbox')}
    /\ UNCHANGED <<chip, soft, onAir, heard, whole>>

UnlockReceive ==
    /\ Goto("isr", "unlock", "wait")
    /\ mutex' = "none"
    /\ UNCHANGED <<chip, mode, cur, state, code, history>>

Handling ==
    \/ IfTransmit
    \/ set_receive_mode("isr")
    \/ IfReceive
    \/ ReceiveWaitEnds
    \/ ReadIrq
    \/ ClearRxIrq
    \/ read_fifo
    \/ UnlockReceive

-----------------------------------------------------------------------------
(* The chip *)

TxDone ==
    /\ opmode = "TX"
    /\ opmode' = "STDBY"
    /\ Drive(irq \cup {"TX_DONE"}, dio)
    /\ onAir' = Append(onAir, fifo)
    /\ UNCHANGED <<fifo, rxing, soft, pc, heard, inbox, whole, mixed>>

\* No flag of an earlier packet is raised, and none is being read.
Received ==
    /\ irq \cap RX_ALL = {}
    /\ pc["isr"] \in {"clear_rx", "read_fifo"} => "RX_DONE" \notin state

RxHeader ==
    /\ opmode = "RX_CONTINUOUS"
    /\ rxing = NoPacket
    /\ heard < NumIn
    /\ heard' = heard + 1
    /\ whole' = Received
    /\ \E k \in Kinds :
         /\ rxing' = Packet("peer", heard + 1, k)
         /\ Drive(IF k = "badHeader" THEN irq ELSE irq \cup {"VALID_HEADER"}, dio)
    /\ UNCHANGED <<opmode, fifo, soft, pc, onAir, inbox, mixed>>

RxDone ==
    /\ rxing # NoPacket
    /\ fifo' = rxing
    /\ rxing' = NoPacket
    /\ Drive(irq \cup {"RX_DONE"} \cup
               (IF rxing.kind = "badCrc" THEN {"PAYLOAD_CRC_ERROR"} ELSE {}), dio)
    /\ UNCHANGED <<opmode, soft, pc, history>>

-----------------------------------------------------------------------------
(* What a packet to be sent can meet *)

\* The places of the interrupt task between the edge and LoRa::receive, where it
\* reads `mode' and switches the chip without the mutex.
Deciding == {"if_transmit", "rm_irq", "rm_mode", "rm_dio", "rm_soft", "if_receive"}

\* LoRa::send works on packet n while the interrupt task is awake, or the packet
\* is out before set_transmit_mode has said what the interrupt is for; or the
\* packet is still being transmitted when LoRa::send is called for the next one.
Crosses(n) ==
    \/ /\ n = cur /\ mutex = "socket"
       /\ \/ edge \/ pc["isr"] \in Deciding
          \/ pc["socket"] \in {"map_tx", "soft_tx", "unlock_ok"} /\ opmode # "TX"
    \/ n = cur - 1 /\ pc["socket"] = "rm_irq"

Remember == crossed' = crossed \cup {n \in 1 .. NumOut : Crosses(n)'}

-----------------------------------------------------------------------------

\* main has run lora.init() and set_long_range().
Init ==
    /\ opmode = "RX_CONTINUOUS"
    /\ irq = {}
    /\ dio = "rx_done"
    /\ fifo = NoPacket
    /\ rxing = NoPacket
    /\ edge = FALSE
    /\ mode = "Receive"
    /\ mutex = "none"
    /\ pc = [t \in Threads |-> IF t = "socket" THEN "idle" ELSE "wait"]
    /\ cur = 0
    /\ state = {}
    /\ code = "none"
    /\ onAir = <<>>
    /\ heard = 0
    /\ inbox = <<>>
    /\ whole = FALSE
    /\ mixed = {}
    /\ crossed = {}

\* Both threads have nothing to do: any other state without a step is a deadlock.
AtRest ==
    /\ pc["socket"] = "idle" /\ cur = NumOut
    /\ pc["isr"] = "wait" /\ ~edge
    /\ UNCHANGED system

Moves ==
    \/ BeginSendPkt \/ LockSend \/ Sending
    \/ TakeEdge \/ LockReceive \/ Handling
    \/ TxDone \/ RxHeader \/ RxDone
    \/ AtRest

Next == Moves /\ Remember

\* The threads run, a transmission or reception in progress ends, and a mutex
\* that stays free is taken.  Nobody is obliged to send and no packet has to
\* reach the antenna.
Fairness ==
    /\ WF_system(LockSend) /\ WF_system(Sending)
    /\ WF_system(TakeEdge) /\ WF_system(LockReceive) /\ WF_system(Handling)
    /\ WF_system(TxDone) /\ WF_system(RxDone)

Spec == Init /\ [][Next]_vars
FairSpec == Spec /\ Fairness

-----------------------------------------------------------------------------
(* Properties *)

Modes == {"STDBY", "TX", "RX_CONTINUOUS"}
Packets == {NoPacket} \cup {Own(n) : n \in 1 .. NumOut}
             \cup {Packet("peer", n, k) : n \in 1 .. NumIn, k \in Kinds}
ReceiveModePc == {"rm_irq", "rm_mode", "rm_dio", "rm_soft"}
SocketPc == {"idle", "lock", "busy", "stdby", "clear_tx", "write_fifo", "tx", "map_tx",
             "soft_tx", "unlock_ok", "unlock_busy"} \cup ReceiveModePc
IsrPc == {"wait", "if_transmit", "if_receive", "lock", "poll", "read_irq", "clear_rx",
          "read_fifo", "unlock"} \cup ReceiveModePc
Codes == {"none", "LORA_EMPTY", "LORA_INVALID_HEADER", "LORA_CRC_ERROR", "LORA_OK"}

\* The range of every variable.
TypeOK ==
    /\ opmode \in Modes
    /\ irq \subseteq Flags
    /\ dio \in {"rx_done", "tx_done"}
    /\ fifo \in Packets
    /\ rxing \in Packets
    /\ edge \in BOOLEAN
    /\ mode \in {"Receive", "Transmit"}
    /\ mutex \in {"none"} \cup Threads
    /\ pc \in [Threads -> SocketPc \cup IsrPc]
    /\ pc["socket"] \in SocketPc
    /\ pc["isr"] \in IsrPc
    /\ cur \in 0 .. NumOut
    /\ pc["socket"] # "idle" => cur # 0
    /\ state \subseteq Flags
    /\ code \in Codes
    /\ onAir \in Seq(Packets)
    /\ heard \in 0 .. NumIn
    /\ inbox \in Seq(Packets)
    /\ whole \in BOOLEAN
    /\ mixed \subseteq DOMAIN inbox
    /\ crossed \subseteq 1 .. NumOut

\* Whatever the two threads and the peer do, the retry loop of send_pkt puts no
\* packet on the air twice and never lets a packet overtake an earlier one.
AirOrder ==
    \A i, j \in DOMAIN onAir :
        i < j /\ onAir[i].from = "shield" /\ onAir[j].from = "shield"
            => onAir[i].seq < onAir[j].seq

\* send_pkt's loop ends: a busy chip is forced out of TX mode by the failed
\* attempt, so some later attempt succeeds.
SendPktReturns == (pc["socket"] # "idle") ~> (pc["socket"] = "idle")

\* The interrupt task always returns to wait for the next edge.
IrqTaskReturns == (pc["isr"] # "wait") ~> (pc["isr"] = "wait")

\* Between BeginSendPkt and StartTx packet cur is not on its way yet.
Unsent == {"lock", "busy", "stdby", "clear_tx", "write_fifo", "tx", "unlock_busy"} \cup ReceiveModePc

\* The packet for which the chip has been put in TX mode last.
Sent == IF pc["socket"] \in Unsent THEN cur - 1 ELSE cur

\* The chip leaves TX mode only because the transmission is complete: a packet
\* for which lora_send_packet has returned LORA_OK really is sent.
NoTxCut == [][opmode = "TX" /\ opmode' # "TX" => onAir' = Append(onAir, fifo)]_vars

\* Every packet for which lora_send_packet has returned LORA_OK is transmitted,
\* unless the interrupt task was awake while LoRa::send worked on it, or
\* send_pkt came with the next one before the transmission was over: nothing else
\* takes the chip out of TX mode.
OnlyCrossedIsCut ==
    [][opmode = "TX" /\ opmode' # "TX" => onAir' = Append(onAir, Own(Sent)) \/ Sent \in crossed]_vars

\* Nothing is going on in either thread, and no edge will wake one.
Resting == pc["socket"] = "idle" /\ pc["isr"] = "wait" /\ ~edge

\* The chip listens, or transmits with an interrupt to come that will make it
\* listen; its DIO0 mapping and `mode' agree with that.
Listening ==
    \/ opmode = "RX_CONTINUOUS" /\ dio = "rx_done" /\ mode = "Receive"
    \/ opmode = "TX" /\ dio = "tx_done" /\ mode = "Transmit"

\* With both threads at rest the chip is never left deaf by a send that did not
\* meet the interrupt task; and one that did leave it deaf is made good by the
\* next send that does not.
ListensAtRest == Resting => Listening \/ cur \in crossed

\* LoRa::receive hands up intact packets of the peer, each once and in order:
\* never a damaged one, never the chip's own packet read back from the buffer
\* that both directions share, unless the shield wrote to that buffer, or the next
\* packet's header came, before the packet was read.
InboxFaithful ==
    \A j \in DOMAIN inbox \ mixed :
        /\ inbox[j].from = "peer" /\ inbox[j].kind = "intact"
        /\ \A i \in 1 .. j - 1 : i \notin mixed => inbox[i].seq < inbox[j].seq

\* A packet send_pkt has finished with is on the air in the end, unless its
\* sending met something else.
AllSentOnAir ==
    \A n \in 1 .. NumOut : (cur = n) ~> (n \in crossed \/ \E i \in DOMAIN onAir : onAir[i] = Own(n))

\* A packet as its receiver knows it: by its number, if it is an intact one of
\* the right sender.
NumberFrom(sender, p) == IF p.from = sender /\ p.kind = "intact" THEN p.seq ELSE 0

Incoming == INSTANCE PacketChannel
    WITH NumPackets <- NumIn, Reliable <- FALSE,
         sent <- heard, spoilt <- IF whole THEN {} ELSE {heard},
         arrived <- [j \in DOMAIN inbox |-> IF j \in mixed THEN 0 ELSE NumberFrom("peer", inbox[j])]

Outgoing == INSTANCE PacketChannel
    WITH NumPackets <- NumOut, Reliable <- TRUE,
         sent <- Sent, spoilt <- crossed,
         arrived <- [j \in DOMAIN onAir |-> NumberFrom("shield", onAir[j])]

\* What LoRa::receive hands up comes out of a channel with one place: the packet
\* the peer has sent last, intact, once and before the next one, or never. What
\* is handed up after two packets met in the buffer may be anything, but is never
\* more than the peer has sent.
ReceivesAsChannel == Incoming!Spec

\* What send_pkt is given goes through a channel with one place: each packet is on
\* the air, whole and once, before the next is put there. Only a packet whose
\* sending met something else may be missing, or something else be there for it.
TransmitsAsChannel == Outgoing!Spec

\* LORA_INVALID_HEADER is reported for a packet with a malformed header only.
InvalidHeaderIsMalformed ==
    pc["isr"] = "unlock" /\ code = "LORA_INVALID_HEADER" => fifo.kind = "badHeader"
=============================================================================
