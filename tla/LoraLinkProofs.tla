--------------------------- MODULE LoraLinkProofs ---------------------------
(***************************************************************************)
(* Proofs about LoraLink for every number of packets sent and received and *)
(* every choice of Kinds, whatever the timing.                             *)
(*                                                                         *)
(* AirOrder is not inductive: whether the next TX_DONE keeps the order     *)
(* depends on where the socket thread is between BeginSendPkt and StartTx, *)
(* on what the shared buffer holds, and on nobody else putting the chip in *)
(* TX mode.  AirInv adds exactly that.                                     *)
(*                                                                         *)
(* ReceiveInv follows a packet of the peer that nothing else has met from  *)
(* its header to the inbox, and counts all that may still get there.       *)
(* SendInv follows a packet that nothing has crossed through LoRa::send    *)
(* (Preparing) and through its transmission, until the interrupt task has  *)
(* made the chip receive again (Flying, Returning).                        *)
(***************************************************************************)
EXTENDS LoraLink, Integers, TLAPS

ReceivingIsOpmode == rxing # NoPacket => opmode = "RX_CONTINUOUS" /\ rxing.from = "peer"

\* lora_send_packet prepares the chip while it does not transmit.
PreparingIsOffAir == pc["socket"] \in {"stdby", "clear_tx", "write_fifo", "tx"} => opmode # "TX"

AirUpToCur ==
    \A i \in DOMAIN onAir : onAir[i].from = "shield" =>
        /\ onAir[i].seq <= cur
        /\ pc["socket"] \in Unsent => onAir[i].seq < cur

FifoUpToCur == fifo.from = "shield" =>
    /\ fifo.seq <= cur
    /\ pc["socket"] \in Unsent \ {"tx"} => fifo.seq < cur
    /\ pc["socket"] = "tx" => fifo.seq = cur

\* What is being transmitted comes after all that has been transmitted.
FifoIsNext == opmode = "TX" /\ fifo.from = "shield" =>
    \A i \in DOMAIN onAir : onAir[i].from = "shield" => onAir[i].seq < fifo.seq

\* It is the packet the chip has been put in TX mode for, or none of the shield's.
FifoIsSent == opmode = "TX" /\ fifo.from = "shield" => fifo.seq = Sent

AirInv ==
    /\ TypeOK
    /\ ReceivingIsOpmode
    /\ PreparingIsOffAir
    /\ AirUpToCur
    /\ FifoUpToCur
    /\ FifoIsNext
    /\ FifoIsSent
    /\ AirOrder

-----------------------------------------------------------------------------
(* Lemmas about the operators of LoraLink *)

\* The records the link handles are packets, and every packet has a number.
LEMMA PacketFacts ==
    /\ NoPacket \in Packets
    /\ \A n \in 1 .. NumOut : Own(n) \in Packets
    /\ \A n \in 1 .. NumIn, k \in Kinds : Packet("peer", n, k) \in Packets
    /\ \A p \in Packets : p.seq \in Nat /\ p.kind \in AllKinds
<1>1. NoPacket \in Packets
  BY DEF Packets
<1>2. \A n \in 1 .. NumOut : Own(n) \in Packets
  BY DEF Packets
<1>3. \A n \in 1 .. NumIn, k \in Kinds : Packet("peer", n, k) \in Packets
  BY DEF Packets
<1>4. \A p \in Packets : p.seq \in Nat
  BY LinkAssumption DEF Packets, NoPacket, Own, Packet
<1>5. \A p \in Packets : p.kind \in AllKinds
  BY LinkAssumption DEF Packets, NoPacket, Own, Packet, AllKinds
<1> QED  BY <1>1, <1>2, <1>3, <1>4, <1>5

\* Whatever flags are raised, the chip's registers keep their range.
LEMMA DriveType ==
    ASSUME NEW i \in SUBSET Flags, NEW d \in {"rx_done", "tx_done"},
           edge \in BOOLEAN, Drive(i, d)
    PROVE  irq' \subseteq Flags /\ dio' \in {"rx_done", "tx_done"} /\ edge' \in BOOLEAN
BY DEF Drive, Dio0

-----------------------------------------------------------------------------
(* Type correctness *)

\* The types of the link at the start.
LEMMA TypeInit == Init => TypeOK
<1> SUFFICES ASSUME Init PROVE TypeOK
  OBVIOUS
<1>1. onAir \in Seq(Packets) /\ inbox \in Seq(Packets)
  BY DEF Init
<1>2. fifo \in Packets /\ rxing \in Packets
  BY PacketFacts DEF Init
<1>3. cur \in 0 .. NumOut /\ heard \in 0 .. NumIn
  BY LinkAssumption DEF Init
<1>4. /\ pc \in [Threads -> SocketPc \cup IsrPc]
      /\ pc["socket"] \in SocketPc /\ pc["isr"] \in IsrPc
      /\ pc["socket"] = "idle"
  BY DEF Init, Threads, SocketPc, IsrPc
<1>5. whole \in BOOLEAN /\ mixed \subseteq DOMAIN inbox /\ crossed \subseteq 1 .. NumOut
  BY DEF Init
<1> QED  BY <1>1, <1>2, <1>3, <1>4, <1>5 DEF Init, TypeOK, Modes, Flags, Codes

\* set_receive_mode keeps them in either thread.
LEMMA ReceiveModeType ==
    ASSUME TypeOK, NEW t \in Threads, set_receive_mode(t), crossed' \subseteq 1 .. NumOut
    PROVE  TypeOK'
<1> USE DEF TypeOK, SocketPc, IsrPc, ReceiveModePc, Threads
<1>1. CASE ReceiveModeClearIrq(t)
  <2>1. irq' \subseteq Flags /\ dio' \in {"rx_done", "tx_done"} /\ edge' \in BOOLEAN
    BY <1>1, DriveType DEF ReceiveModeClearIrq
  <2> QED  BY <1>1, <2>1 DEF ReceiveModeClearIrq, soft, history, Goto
<1>2. CASE ReceiveModeSet(t)
  <2>1. opmode' \in Modes /\ rxing' \in Packets
    BY <1>2, PacketFacts DEF ReceiveModeSet, set_mode, Modes
  <2> QED  BY <1>2, <2>1 DEF ReceiveModeSet, soft, history, Goto
<1>3. CASE ReceiveModeMapDio(t)
  <2>1. irq' \subseteq Flags /\ dio' \in {"rx_done", "tx_done"} /\ edge' \in BOOLEAN
    BY <1>3, DriveType DEF ReceiveModeMapDio
  <2> QED  BY <1>3, <2>1 DEF ReceiveModeMapDio, soft, history, Goto
<1>4. CASE ReceiveModeSoft(t)
  BY <1>4 DEF ReceiveModeSoft, chip, history, Goto
<1> QED  BY <1>1, <1>2, <1>3, <1>4 DEF set_receive_mode

\* Every step of the link keeps every variable in its range.
LEMMA TypeStep == TypeOK /\ [Next]_vars => TypeOK'
<1> SUFFICES ASSUME TypeOK, [Next]_vars PROVE TypeOK'
  OBVIOUS
<1>0. crossed' \subseteq 1 .. NumOut
  BY DEF Next, Remember, vars, TypeOK
<1> USE <1>0 DEF TypeOK, SocketPc, IsrPc, ReceiveModePc, Threads, Goto
<1>1. CASE BeginSendPkt
  <2>1. cur' \in 0 .. NumOut /\ cur' # 0
    BY <1>1, LinkAssumption DEF BeginSendPkt
  <2> QED  BY <1>1, <2>1 DEF BeginSendPkt, chip, history
<1>2. CASE LockSend
  BY <1>2 DEF LockSend, chip, history
<1>3. CASE CheckBusy
  BY <1>3 DEF CheckBusy, chip, soft, history
<1>4. CASE SendStandby
  <2>1. opmode' \in Modes /\ rxing' \in Packets
    BY <1>4, PacketFacts DEF SendStandby, set_mode, Modes
  <2> QED  BY <1>4, <2>1 DEF SendStandby, soft, history
<1>5. CASE lora_clear_interrupt_tx_done
  <2>1. irq' \subseteq Flags /\ dio' \in {"rx_done", "tx_done"} /\ edge' \in BOOLEAN
    BY <1>5, DriveType DEF lora_clear_interrupt_tx_done, Flags
  <2> QED  BY <1>5, <2>1 DEF lora_clear_interrupt_tx_done, soft, history
<1>6. CASE write_fifo
  <2>1. Own(cur) \in Packets
    BY <1>6, PacketFacts, LinkAssumption DEF write_fifo
  <2> QED  BY <1>6, <2>1 DEF write_fifo, soft
<1>7. CASE StartTx
  <2>1. opmode' \in Modes /\ rxing' \in Packets
    BY <1>7, PacketFacts DEF StartTx, set_mode, Modes
  <2> QED  BY <1>7, <2>1 DEF StartTx, soft, history
<1>8. CASE TransmitModeMapDio
  <2>1. irq' \subseteq Flags /\ dio' \in {"rx_done", "tx_done"} /\ edge' \in BOOLEAN
    BY <1>8, DriveType DEF TransmitModeMapDio, Flags
  <2> QED  BY <1>8, <2>1 DEF TransmitModeMapDio, soft, history
<1>9. CASE TransmitModeSoft
  BY <1>9 DEF TransmitModeSoft, chip, history
<1>10. CASE UnlockSend
  BY <1>10 DEF UnlockSend, chip, history
<1>11. ASSUME NEW t \in Threads, set_receive_mode(t) PROVE TypeOK'
  BY <1>0, <1>11, ReceiveModeType
<1>12. CASE TakeEdge
  BY <1>12 DEF TakeEdge, soft, history
<1>13. CASE IfTransmit
  BY <1>13 DEF IfTransmit, chip, soft, history
<1>14. CASE IfReceive
  BY <1>14 DEF IfReceive, chip, soft, history
<1>15. CASE LockReceive
  BY <1>15 DEF LockReceive, chip, history
<1>16. CASE ReceiveWaitEnds
  BY <1>16 DEF ReceiveWaitEnds, chip, soft, history
<1>17. CASE ReadIrq
  BY <1>17 DEF ReadIrq, chip, history
<1>18. CASE ClearRxIrq
  <2>1. irq' \subseteq Flags /\ dio' \in {"rx_done", "tx_done"} /\ edge' \in BOOLEAN
    BY <1>18, DriveType DEF ClearRxIrq, Flags
  <2>2. code' \in Codes
    BY <1>18 DEF ClearRxIrq, Outcome, Codes
  <2> QED  BY <1>18, <2>1, <2>2 DEF ClearRxIrq, history
<1>19. CASE read_fifo
  <2>1. /\ inbox' \in Seq(Packets) /\ DOMAIN inbox' = 1 .. Len(inbox) + 1
        /\ DOMAIN inbox = 1 .. Len(inbox) /\ Len(inbox) \in Nat /\ Len(inbox') = Len(inbox) + 1
    BY <1>19 DEF read_fifo
  <2>2. mixed' \subseteq DOMAIN inbox'
    BY <1>19, <2>1 DEF read_fifo
  <2> QED  BY <1>19, <2>1, <2>2 DEF read_fifo, chip, soft
<1>20. CASE UnlockReceive
  BY <1>20 DEF UnlockReceive, chip, history
<1>21. CASE TxDone
  <2>1. irq' \subseteq Flags /\ dio' \in {"rx_done", "tx_done"} /\ edge' \in BOOLEAN
    BY <1>21, DriveType DEF TxDone, Flags
  <2> QED  BY <1>21, <2>1 DEF TxDone, soft, Modes
<1>22. CASE RxHeader
  <2>1. irq' \subseteq Flags /\ dio' \in {"rx_done", "tx_done"} /\ edge' \in BOOLEAN
    BY <1>22, DriveType DEF RxHeader, Flags
  <2>2. heard' \in 0 .. NumIn /\ heard' \in 1 .. NumIn
    BY <1>22, LinkAssumption DEF RxHeader
  <2>3. rxing' \in Packets
    BY <1>22, <2>2, PacketFacts DEF RxHeader
  <2>4. whole' \in BOOLEAN
    BY <1>22 DEF RxHeader, Received
  <2> QED  BY <1>22, <2>1, <2>2, <2>3, <2>4 DEF RxHeader, soft
<1>23. CASE RxDone
  <2>1. irq' \subseteq Flags /\ dio' \in {"rx_done", "tx_done"} /\ edge' \in BOOLEAN
    BY <1>23, DriveType DEF RxDone, Flags
  <2> QED  BY <1>23, <2>1, PacketFacts DEF RxDone, soft, history
<1>24. CASE UNCHANGED vars
  BY <1>24 DEF vars, system, chip, soft, history
<1>25. CASE AtRest
  BY <1>25 DEF AtRest, system, chip, soft, history
<1> QED
  BY <1>1, <1>2, <1>3, <1>4, <1>5, <1>6, <1>7, <1>8, <1>9, <1>10, <1>11, <1>12, <1>13,
     <1>14, <1>15, <1>16, <1>17, <1>18, <1>19, <1>20, <1>21, <1>22, <1>23, <1>24, <1>25
  DEF Next, Moves, Sending, Handling

\* The range of every variable (lora.cpp, lora_sx1276.cpp): in every behaviour,
\* with any number of packets, no variable leaves its range.
THEOREM TypeCorrect == Spec => []TypeOK
<1>1. Init => TypeOK
  BY TypeInit
<1>2. TypeOK /\ [Next]_vars => TypeOK'
  BY TypeStep
<1> QED  BY <1>1, <1>2, PTL DEF Spec

-----------------------------------------------------------------------------
(* Packets go on the air once and in order *)

\* Nothing is on the air at the start.
LEMMA AirInit == Init => AirInv
<1> SUFFICES ASSUME Init PROVE AirInv
  OBVIOUS
<1>1. TypeOK
  BY TypeInit
<1>2. DOMAIN onAir = {}
  BY DEF Init
<1>3. pc["socket"] = "idle" /\ fifo.from = "none"
  BY DEF Init, Threads, NoPacket
<1> QED  BY <1>1, <1>2, <1>3
  DEF Init, AirInv, ReceivingIsOpmode, PreparingIsOffAir, AirUpToCur, FifoUpToCur, FifoIsNext,
      FifoIsSent, Sent, AirOrder

\* A step that only moves a thread, without taking the socket thread into the
\* part of its program where packet cur is unsent, and a step that only takes
\* the chip out of TX mode, disturb nothing.
LEMMA AirFrame ==
    ASSUME AirInv, TypeOK',
           UNCHANGED <<fifo, cur, onAir>>,
           opmode' = "TX" => opmode = "TX",
           rxing' = NoPacket \/ (rxing' = rxing /\ opmode' = opmode)
             \/ (rxing' = rxing /\ opmode' = "RX_CONTINUOUS"),
           pc'["socket"] \in Unsent <=> pc["socket"] \in Unsent,
           pc'["socket"] = "tx" <=> pc["socket"] = "tx",
           pc'["socket"] \in {"stdby", "clear_tx", "write_fifo", "tx"} => opmode' # "TX"
    PROVE  AirInv'
<1> USE DEF AirInv
<1>1. ReceivingIsOpmode' /\ PreparingIsOffAir'
  BY DEF ReceivingIsOpmode, PreparingIsOffAir
<1>2. AirUpToCur'
  BY DEF AirUpToCur
<1>3. FifoUpToCur'
  BY DEF FifoUpToCur, Unsent
<1>4. FifoIsNext' /\ AirOrder'
  BY DEF FifoIsNext, AirOrder
<1>5. FifoIsSent'
  BY DEF FifoIsSent, Sent
<1> QED  BY <1>1, <1>2, <1>3, <1>4, <1>5

\* Every step keeps the order of what is on the air.
LEMMA AirStep == AirInv /\ [Next]_vars => AirInv'
<1> SUFFICES ASSUME AirInv, [Next]_vars PROVE AirInv'
  OBVIOUS
<1>0. TypeOK /\ TypeOK'
  BY TypeStep DEF AirInv
<1>types. /\ cur \in Nat /\ fifo.seq \in Nat
          /\ \A i \in DOMAIN onAir : onAir[i].seq \in Nat
          /\ onAir \in Seq(Packets)
  BY <1>0, PacketFacts, LinkAssumption DEF TypeOK
<1> USE DEF Goto, Threads
<1>1. CASE BeginSendPkt
  <2>1. /\ UNCHANGED <<opmode, rxing, fifo, onAir>> /\ cur' = cur + 1
        /\ pc["socket"] = "idle" /\ pc'["socket"] = "lock"
    BY <1>1, <1>0 DEF BeginSendPkt, chip, history, TypeOK
  <2>2. Sent = cur /\ Sent' = cur
    BY <2>1, <1>types DEF Sent, Unsent, ReceiveModePc
  <2>3. FifoIsSent'
    BY <2>1, <2>2 DEF AirInv, FifoIsSent
  <2> QED  BY <1>0, <1>types, <2>1, <2>3
    DEF AirInv, ReceivingIsOpmode, PreparingIsOffAir, AirUpToCur, FifoUpToCur, FifoIsNext,
        AirOrder, Unsent
<1>2. CASE LockSend
  BY <1>2, <1>0, AirFrame DEF LockSend, Unsent, chip, history, AirInv, PreparingIsOffAir
<1>3. CASE CheckBusy
  BY <1>3, <1>0, AirFrame DEF CheckBusy, lora_is_transmitting, Unsent, ReceiveModePc, chip, soft,
      history, AirInv, PreparingIsOffAir
<1>4. CASE SendStandby
  BY <1>4, <1>0, AirFrame DEF SendStandby, Unsent, set_mode, soft, history, AirInv,
      PreparingIsOffAir
<1>5. CASE lora_clear_interrupt_tx_done
  BY <1>5, <1>0, AirFrame DEF lora_clear_interrupt_tx_done, Unsent, soft, history, AirInv,
      PreparingIsOffAir
<1>6. CASE write_fifo
  <2>1. fifo' = Own(cur) /\ Own(cur).seq = cur
    BY <1>6 DEF write_fifo, Own, Packet
  <2>2. /\ UNCHANGED <<opmode, rxing, cur, onAir>>
        /\ pc["socket"] = "write_fifo" /\ pc'["socket"] = "tx"
    BY <1>6, <1>0 DEF write_fifo, soft, TypeOK
  <2>3. opmode # "TX"
    BY <2>2 DEF AirInv, PreparingIsOffAir
  <2> QED  BY <1>0, <1>types, <2>1, <2>2, <2>3
    DEF AirInv, ReceivingIsOpmode, PreparingIsOffAir, AirUpToCur, FifoUpToCur, FifoIsNext,
        FifoIsSent, AirOrder, Unsent
<1>7. CASE StartTx
  <2>1. /\ opmode' = "TX" /\ rxing' = NoPacket /\ UNCHANGED <<fifo, cur, onAir>>
        /\ pc["socket"] = "tx" /\ pc'["socket"] = "map_tx"
    BY <1>7, <1>0 DEF StartTx, set_mode, soft, history, TypeOK
  <2>2. FifoIsNext'
    BY <2>1 DEF AirInv, AirUpToCur, FifoUpToCur, FifoIsNext, Unsent
  <2> QED  BY <1>0, <1>types, <2>1, <2>2
    DEF AirInv, ReceivingIsOpmode, PreparingIsOffAir, AirUpToCur, FifoUpToCur, FifoIsSent, Sent,
        AirOrder, Unsent, ReceiveModePc
<1>8. CASE TransmitModeMapDio
  BY <1>8, <1>0, AirFrame DEF TransmitModeMapDio, Unsent, ReceiveModePc, soft, history, AirInv,
      PreparingIsOffAir
<1>9. CASE TransmitModeSoft
  BY <1>9, <1>0, AirFrame DEF TransmitModeSoft, Unsent, ReceiveModePc, chip, history, AirInv,
      PreparingIsOffAir
<1>10. CASE UnlockSend
  <2>1. /\ UNCHANGED <<opmode, rxing, fifo, cur, onAir>>
        /\ \/ pc["socket"] = "unlock_ok" /\ pc'["socket"] = "idle"
           \/ pc["socket"] = "unlock_busy" /\ pc'["socket"] = "lock"
    BY <1>10, <1>0 DEF UnlockSend, chip, history, TypeOK
  <2> QED  BY <2>1, <1>0, AirFrame DEF Unsent, ReceiveModePc, AirInv, PreparingIsOffAir
<1>11. ASSUME NEW t \in Threads, set_receive_mode(t) PROVE AirInv'
  <2> USE DEF Unsent, ReceiveModePc, AirInv, PreparingIsOffAir
  <2>1. CASE ReceiveModeClearIrq(t)
    BY <2>1, <1>0, AirFrame DEF ReceiveModeClearIrq, soft, history
  <2>2. CASE ReceiveModeSet(t)
    BY <2>2, <1>0, AirFrame DEF ReceiveModeSet, set_mode, soft, history
  <2>3. CASE ReceiveModeMapDio(t)
    BY <2>3, <1>0, AirFrame DEF ReceiveModeMapDio, soft, history
  <2>4. CASE ReceiveModeSoft(t)
    BY <2>4, <1>0, AirFrame DEF ReceiveModeSoft, chip, history
  <2> QED  BY <1>11, <2>1, <2>2, <2>3, <2>4 DEF set_receive_mode
<1>12. CASE TakeEdge
  BY <1>12, <1>0, AirFrame DEF TakeEdge, soft, history, AirInv, PreparingIsOffAir, TypeOK
<1>13. CASE IfTransmit
  BY <1>13, <1>0, AirFrame DEF IfTransmit, chip, soft, history, AirInv, PreparingIsOffAir, TypeOK
<1>14. CASE IfReceive
  BY <1>14, <1>0, AirFrame DEF IfReceive, chip, soft, history, AirInv, PreparingIsOffAir, TypeOK
<1>15. CASE LockReceive
  BY <1>15, <1>0, AirFrame DEF LockReceive, chip, history, AirInv, PreparingIsOffAir, TypeOK
<1>16. CASE ReceiveWaitEnds
  BY <1>16, <1>0, AirFrame DEF ReceiveWaitEnds, chip, soft, history, AirInv, PreparingIsOffAir,
      TypeOK
<1>17. CASE ReadIrq
  BY <1>17, <1>0, AirFrame DEF ReadIrq, chip, history, AirInv, PreparingIsOffAir, TypeOK
<1>18. CASE ClearRxIrq
  BY <1>18, <1>0, AirFrame DEF ClearRxIrq, history, AirInv, PreparingIsOffAir, TypeOK
<1>19. CASE read_fifo
  BY <1>19, <1>0, AirFrame DEF read_fifo, chip, soft, AirInv, PreparingIsOffAir, TypeOK
<1>20. CASE UnlockReceive
  BY <1>20, <1>0, AirFrame DEF UnlockReceive, chip, history, AirInv, PreparingIsOffAir, TypeOK
<1>21. CASE TxDone
  <2>1. /\ opmode = "TX" /\ opmode' = "STDBY" /\ onAir' = Append(onAir, fifo)
        /\ UNCHANGED <<fifo, rxing, cur, pc>>
    BY <1>21 DEF TxDone, soft
  <2>2. /\ DOMAIN onAir' = DOMAIN onAir \cup {Len(onAir) + 1}
        /\ DOMAIN onAir = 1 .. Len(onAir) /\ Len(onAir) \in Nat
        /\ onAir'[Len(onAir) + 1] = fifo
        /\ \A i \in DOMAIN onAir : onAir'[i] = onAir[i]
    BY <2>1, <1>types, <1>0 DEF TypeOK
  <2>3. pc["socket"] # "tx" /\ rxing = NoPacket
    BY <2>1 DEF AirInv, PreparingIsOffAir, ReceivingIsOpmode
  <2>4. AirUpToCur'
    BY <2>1, <2>2, <2>3 DEF AirInv, AirUpToCur, FifoUpToCur
  <2>5. AirOrder'
    BY <2>1, <2>2 DEF AirInv, AirOrder, FifoIsNext
  <2> QED  BY <1>0, <2>1, <2>3, <2>4, <2>5
    DEF AirInv, ReceivingIsOpmode, PreparingIsOffAir, FifoUpToCur, FifoIsNext, FifoIsSent
<1>22. CASE RxHeader
  <2>1. /\ opmode = "RX_CONTINUOUS" /\ rxing'.from = "peer"
        /\ UNCHANGED <<opmode, fifo, cur, onAir, pc>>
    BY <1>22 DEF RxHeader, Packet, soft
  <2> QED  BY <1>0, <2>1
    DEF AirInv, ReceivingIsOpmode, PreparingIsOffAir, AirUpToCur, FifoUpToCur, FifoIsNext,
        FifoIsSent, Sent, AirOrder
<1>23. CASE RxDone
  <2>1. /\ opmode = "RX_CONTINUOUS" /\ fifo'.from = "peer" /\ rxing' = NoPacket
        /\ UNCHANGED <<opmode, cur, onAir, pc>>
    BY <1>23 DEF RxDone, AirInv, ReceivingIsOpmode, soft, history
  <2> QED  BY <1>0, <2>1
    DEF AirInv, ReceivingIsOpmode, PreparingIsOffAir, AirUpToCur, FifoUpToCur, FifoIsNext,
        FifoIsSent, Sent, AirOrder
<1>24. CASE UNCHANGED vars
  BY <1>24, <1>0, AirFrame DEF vars, system, chip, soft, history, AirInv, PreparingIsOffAir
<1>25. CASE AtRest
  BY <1>25, <1>0, AirFrame DEF AtRest, system, chip, soft, history, AirInv, PreparingIsOffAir
<1> QED
  BY <1>1, <1>2, <1>3, <1>4, <1>5, <1>6, <1>7, <1>8, <1>9, <1>10, <1>11, <1>12, <1>13,
     <1>14, <1>15, <1>16, <1>17, <1>18, <1>19, <1>20, <1>21, <1>22, <1>23, <1>24, <1>25
  DEF Next, Moves, Sending, Handling

\* send_pkt's retry loop (packethandler.cpp) over LoRa::send: no packet is on
\* the air twice and none overtakes an earlier one, although the interrupt
\* thread switches the chip's mode without the mutex.
THEOREM PacketsInOrder == Spec => []AirOrder
<1>1. Init => AirInv
  BY AirInit
<1>2. AirInv /\ [Next]_vars => AirInv'
  BY AirStep
<1>3. AirInv => AirOrder
  BY DEF AirInv
<1> QED  BY <1>1, <1>2, <1>3, PTL DEF Spec

-----------------------------------------------------------------------------
(* Receiving *)

\* Where the interrupt thread holds LoRa::mutex.
Receiving == {"poll", "read_irq", "clear_rx", "read_fifo", "unlock"}

MutexHeld ==
    /\ mutex = "socket" <=> pc["socket"] \notin {"idle", "lock"}
    /\ mutex = "isr" <=> pc["isr"] \in Receiving

\* The flags lora_receive_packet_base acts on are those that were raised.
Taken ==
    /\ pc["isr"] = "clear_rx" /\ "RX_DONE" \in state => "RX_DONE" \in irq
    /\ pc["isr"] = "read_fifo" => Outcome(state) = "LORA_OK"

One(condition) == IF condition THEN 1 ELSE 0

\* What can still be handed up, at most.
Coming == One(rxing # NoPacket) + One("RX_DONE" \in irq) + One(pc["isr"] = "read_fifo")

Counted == Len(inbox) + Coming <= heard

\* A packet nobody has handed up yet.
Fresh(p) ==
    /\ p.from = "peer" /\ p.seq = heard
    /\ \A i \in DOMAIN inbox \ mixed : inbox[i].seq < heard

\* The flags say what is in the buffer.
Describe(flags) ==
    /\ Fresh(fifo)
    /\ "VALID_HEADER" \in flags => fifo.kind # "badHeader"
    /\ "PAYLOAD_CRC_ERROR" \notin flags => fifo.kind # "badCrc"

Reading == pc["isr"] \in {"clear_rx", "read_fifo"} /\ "RX_DONE" \in state

\* The packet whose header came when nothing else was there: while it is being
\* demodulated, when it is in the buffer, and when its flags have been read.
Alone == whole =>
    /\ rxing # NoPacket =>
         /\ Fresh(rxing)
         /\ "RX_DONE" \notin irq /\ ~Reading
         /\ "VALID_HEADER" \in irq => rxing.kind # "badHeader"
    /\ "RX_DONE" \in irq => Describe(irq) /\ pc["isr"] # "read_fifo"
    /\ Reading => Describe(state)

Inbox == InboxFaithful /\ \A i \in DOMAIN inbox \ mixed : inbox[i].seq <= heard

ReceiveInv ==
    /\ TypeOK
    /\ MutexHeld
    /\ Taken
    /\ Counted
    /\ Alone
    /\ Inbox

\* At the start nothing has been heard.
LEMMA ReceiveInit == Init => ReceiveInv
<1> SUFFICES ASSUME Init PROVE ReceiveInv
  OBVIOUS
<1>1. TypeOK
  BY TypeInit
<1>2. pc["socket"] = "idle" /\ pc["isr"] = "wait" /\ Len(inbox) = 0 /\ DOMAIN inbox = {}
  BY DEF Init, Threads
<1>3. MutexHeld /\ Taken /\ Counted /\ Alone /\ Inbox
  BY <1>2 DEF Init, MutexHeld, Taken, Counted, Coming, One, Alone, Reading, Inbox, InboxFaithful,
      Receiving
<1> QED  BY <1>1, <1>3 DEF ReceiveInv

\* A step that hears and hands up nothing, and takes no place of the interrupt
\* thread's at which flags have been read.
LEMMA ReceiveFrame ==
    ASSUME ReceiveInv, TypeOK', MutexHeld',
           UNCHANGED <<heard, inbox, mixed, state>>,
           whole' = whole \/ whole' = FALSE,
           fifo' = fifo \/ whole' = FALSE,
           rxing' = rxing \/ rxing' = NoPacket,
           \A f \in RX_ALL : f \in irq' => f \in irq,
           "PAYLOAD_CRC_ERROR" \in irq /\ "RX_DONE" \in irq' => "PAYLOAD_CRC_ERROR" \in irq',
           pc'["isr"] \in {"clear_rx", "read_fifo"} => pc'["isr"] = pc["isr"],
           pc'["isr"] = "clear_rx" => irq' \cap RX_ALL = irq \cap RX_ALL
    PROVE  ReceiveInv'
<1> USE DEF ReceiveInv, RX_ALL, Flags
<1>1. Taken'
  BY DEF Taken
<1>2. Counted'
  <2>1. Len(inbox) \in Nat /\ heard \in Nat
    BY LinkAssumption DEF TypeOK
  <2> QED  BY <2>1 DEF Counted, Coming, One
<1>3. Alone'
  BY DEF Alone, Reading, Fresh, Describe
<1>4. Inbox'
  BY DEF Inbox, InboxFaithful
<1> QED  BY <1>1, <1>2, <1>3, <1>4

\* Mutual exclusion of LoRa::send and LoRa::receive.
LEMMA MutexStep == TypeOK /\ MutexHeld /\ [Next]_vars => MutexHeld'
<1> SUFFICES ASSUME TypeOK, MutexHeld, [Next]_vars PROVE MutexHeld'
  OBVIOUS
<1> USE DEF MutexHeld, Goto, Threads, TypeOK, Receiving
<1>1. CASE \/ BeginSendPkt \/ LockSend \/ CheckBusy \/ SendStandby \/ lora_clear_interrupt_tx_done
           \/ write_fifo \/ StartTx \/ TransmitModeMapDio \/ TransmitModeSoft \/ UnlockSend
  BY <1>1 DEF BeginSendPkt, LockSend, CheckBusy, SendStandby, lora_clear_interrupt_tx_done,
      write_fifo, StartTx, TransmitModeMapDio, TransmitModeSoft, UnlockSend, soft
<1>2. CASE \/ TakeEdge \/ IfTransmit \/ IfReceive \/ LockReceive \/ ReceiveWaitEnds \/ ReadIrq
           \/ ClearRxIrq \/ read_fifo \/ UnlockReceive
  BY <1>2 DEF TakeEdge, IfTransmit, IfReceive, LockReceive, ReceiveWaitEnds, ReadIrq,
      ClearRxIrq, read_fifo, UnlockReceive, soft
<1>3. ASSUME NEW t \in Threads, set_receive_mode(t) PROVE MutexHeld'
  BY <1>3 DEF set_receive_mode, ReceiveModeClearIrq, ReceiveModeSet, ReceiveModeMapDio,
      ReceiveModeSoft, soft
<1>4. CASE TxDone \/ RxHeader \/ RxDone \/ AtRest \/ UNCHANGED vars
  BY <1>4 DEF TxDone, RxHeader, RxDone, AtRest, system, vars, soft
<1> QED  BY <1>1, <1>2, <1>3, <1>4 DEF Next, Moves, Sending, Handling

\* Every step of the link keeps the account of what is being received.
LEMMA ReceiveStep == ReceiveInv /\ [Next]_vars => ReceiveInv'
<1> SUFFICES ASSUME ReceiveInv, [Next]_vars PROVE ReceiveInv'
  OBVIOUS
<1>0. TypeOK /\ TypeOK' /\ MutexHeld /\ MutexHeld'
  BY TypeStep, MutexStep DEF ReceiveInv
<1>types. /\ Len(inbox) \in Nat /\ heard \in Nat /\ inbox \in Seq(Packets)
          /\ DOMAIN inbox = 1 .. Len(inbox)
          /\ \A i \in DOMAIN inbox : inbox[i].seq \in Nat
          /\ DOMAIN pc = Threads /\ irq \subseteq Flags
  BY <1>0, PacketFacts, LinkAssumption DEF TypeOK
<1> USE DEF Goto, Threads
<1>1. CASE BeginSendPkt \/ LockSend \/ CheckBusy \/ TransmitModeSoft \/ UnlockSend
  <2>1. /\ UNCHANGED <<irq, fifo, rxing, heard, inbox, mixed, state, whole>>
        /\ pc'["isr"] = pc["isr"]
    BY <1>1, <1>types DEF BeginSendPkt, LockSend, CheckBusy, TransmitModeSoft, UnlockSend, chip,
        soft, history
  <2> QED  BY <2>1, <1>0, ReceiveFrame
<1>2. CASE SendStandby \/ StartTx \/ TransmitModeMapDio
  <2>1. /\ UNCHANGED <<irq, fifo, heard, inbox, mixed, state, whole>>
        /\ rxing' = rxing \/ rxing' = NoPacket
        /\ pc'["isr"] = pc["isr"]
    BY <1>2, <1>types DEF SendStandby, StartTx, TransmitModeMapDio, Drive, set_mode, soft, history
  <2> QED  BY <2>1, <1>0, ReceiveFrame
<1>3. CASE lora_clear_interrupt_tx_done
  <2>1. /\ UNCHANGED <<fifo, rxing, heard, inbox, mixed, state, whole>>
        /\ irq' = irq \ {"TX_DONE"}
        /\ pc'["isr"] = pc["isr"]
    BY <1>3, <1>types DEF lora_clear_interrupt_tx_done, Drive, soft, history
  <2>2. irq' \cap RX_ALL = irq \cap RX_ALL /\ "PAYLOAD_CRC_ERROR" \in RX_ALL
    BY <2>1, <1>types DEF RX_ALL, Flags
  <2> QED  BY <2>1, <2>2, <1>0, ReceiveFrame
<1>4. CASE write_fifo
  <2>1. /\ UNCHANGED <<irq, rxing, heard, inbox, mixed, state>> /\ whole' = FALSE
        /\ pc'["isr"] = pc["isr"]
    BY <1>4, <1>types DEF write_fifo, soft
  <2> QED  BY <2>1, <1>0, ReceiveFrame
<1>5. ASSUME NEW t \in Threads, ReceiveModeClearIrq(t) PROVE ReceiveInv'
  <2>1. /\ UNCHANGED <<fifo, rxing, heard, inbox, mixed, state, whole>>
        /\ irq' = irq \ RX_ALL
        /\ pc[t] = "rm_irq" /\ pc' = [pc EXCEPT ![t] = "rm_mode"]
    BY <1>5, <1>types DEF ReceiveModeClearIrq, Drive, soft, history
  <2>2. pc'["isr"] \notin {"clear_rx", "read_fifo"}
    <3>1. CASE t = "isr"
      BY <2>1, <3>1, <1>types
    <3>2. CASE t = "socket"
      <4>1. mutex = "socket"
        BY <2>1, <3>2, <1>0 DEF MutexHeld
      <4>2. pc["isr"] \notin Receiving
        BY <4>1, <1>0 DEF MutexHeld
      <4> QED  BY <2>1, <3>2, <4>2, <1>types DEF Receiving
    <3> QED  BY <3>1, <3>2
  <2>3. \A f \in RX_ALL : f \notin irq'
    BY <2>1
  <2>4. "RX_DONE" \in RX_ALL
    BY DEF RX_ALL, Flags
  <2> QED  BY <2>1, <2>2, <2>3, <2>4, <1>0, ReceiveFrame
<1>6. ASSUME NEW t \in Threads, ReceiveModeSet(t) \/ ReceiveModeMapDio(t) \/ ReceiveModeSoft(t)
      PROVE ReceiveInv'
  <2>1. /\ UNCHANGED <<irq, fifo, rxing, heard, inbox, mixed, state, whole>>
        /\ pc'["isr"] = pc["isr"] \/ pc'["isr"] \notin {"clear_rx", "read_fifo"}
    BY <1>6, <1>types DEF ReceiveModeSet, ReceiveModeMapDio, ReceiveModeSoft, Drive, set_mode,
        chip, soft, history
  <2> QED  BY <2>1, <1>0, ReceiveFrame
<1>7. CASE TakeEdge \/ IfTransmit \/ IfReceive \/ LockReceive \/ ReceiveWaitEnds \/ UnlockReceive
  <2>1. /\ UNCHANGED <<irq, fifo, rxing, heard, inbox, mixed, state, whole>>
        /\ pc'["isr"] \notin {"clear_rx", "read_fifo"}
    BY <1>7, <1>types DEF TakeEdge, IfTransmit, IfReceive, LockReceive, ReceiveWaitEnds,
        UnlockReceive, chip, soft, history
  <2> QED  BY <2>1, <1>0, ReceiveFrame
<1>8. CASE ReadIrq
  <2>1. /\ UNCHANGED <<irq, fifo, rxing, heard, inbox, mixed, whole>> /\ state' = irq
        /\ pc["isr"] = "read_irq" /\ pc'["isr"] = "clear_rx"
    BY <1>8, <1>types DEF ReadIrq, chip, history
  <2>2. Taken' /\ Counted' /\ Inbox'
    BY <2>1 DEF ReceiveInv, Taken, Counted, Coming, One, Inbox, InboxFaithful
  <2>3. Alone'
    BY <2>1 DEF ReceiveInv, Alone, Reading, Fresh, Describe
  <2> QED  BY <1>0, <2>2, <2>3 DEF ReceiveInv
<1>9. CASE ClearRxIrq
  <2>1. /\ UNCHANGED <<fifo, rxing, heard, inbox, mixed, whole, state>> /\ irq' = irq \ RX_ALL
        /\ pc["isr"] = "clear_rx"
        /\ pc'["isr"] = IF Outcome(state) = "LORA_OK" THEN "read_fifo" ELSE "unlock"
    BY <1>9, <1>types DEF ClearRxIrq, Drive, history
  <2>2. "RX_DONE" \notin irq' /\ "VALID_HEADER" \notin irq'
    BY <2>1 DEF RX_ALL, Flags
  <2>3. Outcome(state) = "LORA_OK" => "RX_DONE" \in state
    BY DEF Outcome
  <2>4. Taken'
    BY <2>1 DEF Taken
  <2>5. Counted'
    BY <2>1, <2>2, <2>3, <1>types DEF ReceiveInv, Taken, Counted, Coming, One
  <2>6. Alone'
    BY <2>1, <2>2 DEF ReceiveInv, Alone, Reading, Fresh, Describe
  <2>7. Inbox'
    BY <2>1 DEF ReceiveInv, Inbox, InboxFaithful
  <2> QED  BY <1>0, <2>4, <2>5, <2>6, <2>7 DEF ReceiveInv
<1>10. CASE read_fifo
  <2>1. /\ UNCHANGED <<irq, fifo, rxing, heard, whole, state>> /\ inbox' = Append(inbox, fifo)
        /\ mixed' = IF whole THEN mixed ELSE mixed \cup {Len(inbox')}
        /\ pc["isr"] = "read_fifo" /\ pc'["isr"] = "unlock"
    BY <1>10, <1>types DEF read_fifo, chip, soft
  <2>2. /\ DOMAIN inbox' = DOMAIN inbox \cup {Len(inbox) + 1} /\ Len(inbox') = Len(inbox) + 1
        /\ inbox'[Len(inbox) + 1] = fifo
        /\ \A i \in DOMAIN inbox : inbox'[i] = inbox[i] /\ i < Len(inbox) + 1
    BY <2>1, <1>types
  <2>3. Taken' /\ Counted' /\ Alone'
    <3>1. Reading /\ ~Reading'
      BY <2>1 DEF ReceiveInv, Taken, Outcome, Reading
    <3>2. Taken' /\ Counted'
      BY <2>1, <2>2, <1>types DEF ReceiveInv, Taken, Counted, Coming, One
    <3>3. Alone'
      BY <2>1, <3>1 DEF ReceiveInv, Alone
    <3> QED  BY <3>2, <3>3
  <2>4. CASE whole
    <3>1. Outcome(state) = "LORA_OK"
      BY <2>1 DEF ReceiveInv, Taken
    <3>2. "RX_DONE" \in state /\ "VALID_HEADER" \in state /\ "PAYLOAD_CRC_ERROR" \notin state
      BY <3>1 DEF Outcome
    <3>3. /\ fifo.from = "peer" /\ fifo.seq = heard /\ fifo.kind \notin {"badHeader", "badCrc"}
          /\ \A i \in DOMAIN inbox \ mixed : inbox[i].seq < heard
      BY <2>1, <2>4, <3>2 DEF ReceiveInv, Alone, Reading, Describe, Fresh
    <3>4. fifo.kind = "intact"
      BY <3>3, <1>0, PacketFacts DEF TypeOK, AllKinds
    <3>5. Inbox'
      BY <2>1, <2>2, <2>4, <3>3, <3>4, <1>types DEF ReceiveInv, Inbox, InboxFaithful
    <3> QED  BY <1>0, <2>3, <3>5 DEF ReceiveInv
  <2>5. CASE ~whole
    <3>1. DOMAIN inbox' \ mixed' = DOMAIN inbox \ mixed
      BY <2>1, <2>2, <2>5, <1>types
    <3>2. Inbox'
      BY <2>1, <2>2, <3>1, <1>types DEF ReceiveInv, Inbox, InboxFaithful
    <3> QED  BY <1>0, <2>3, <3>2 DEF ReceiveInv
  <2> QED  BY <2>4, <2>5
<1>11. CASE TxDone
  <2>1. /\ UNCHANGED <<fifo, rxing, heard, inbox, mixed, whole, state, pc>>
        /\ irq' = irq \cup {"TX_DONE"}
    BY <1>11 DEF TxDone, Drive, soft
  <2>2. irq' \cap RX_ALL = irq \cap RX_ALL /\ "PAYLOAD_CRC_ERROR" \in RX_ALL
    BY <2>1 DEF RX_ALL, Flags
  <2> QED  BY <2>1, <2>2, <1>0, ReceiveFrame
<1>12. CASE RxHeader
  <2>1. /\ UNCHANGED <<fifo, inbox, mixed, state, pc>>
        /\ rxing = NoPacket /\ heard' = heard + 1 /\ whole' = Received
    BY <1>12 DEF RxHeader, soft
  <2>2. PICK k \in Kinds : rxing' = Packet("peer", heard + 1, k)
           /\ irq' = IF k = "badHeader" THEN irq ELSE irq \cup {"VALID_HEADER"}
    BY <1>12 DEF RxHeader, Drive
  <2>3. rxing'.from = "peer" /\ rxing'.seq = heard + 1 /\ rxing'.kind = k /\ rxing' # NoPacket
    BY <2>2 DEF Packet, NoPacket
  <2>4. "RX_DONE" \in irq' <=> "RX_DONE" \in irq
    BY <2>2
  <2>5. Taken'
    BY <2>1, <2>4 DEF ReceiveInv, Taken
  <2>6. Counted'
    BY <2>1, <2>3, <2>4, <1>types DEF ReceiveInv, Counted, Coming, One
  <2>7. Inbox' /\ \A i \in DOMAIN inbox \ mixed : inbox[i].seq < heard + 1
    BY <2>1, <1>types DEF ReceiveInv, Inbox, InboxFaithful
  <2>8. Fresh(rxing)'
    BY <2>1, <2>3, <2>7 DEF Fresh
  <2>9. ASSUME whole' PROVE "RX_DONE" \notin irq' /\ "VALID_HEADER" \notin irq /\ ~Reading'
    <3>1. irq \cap RX_ALL = {} /\ ~Reading
      BY <2>1, <2>9, <1>0 DEF Received, Reading
    <3> QED  BY <2>1, <2>4, <3>1 DEF RX_ALL, Flags, Reading
  <2>10. Alone'
    BY <2>2, <2>3, <2>8, <2>9 DEF Alone
  <2> QED  BY <1>0, <2>5, <2>6, <2>7, <2>10 DEF ReceiveInv
<1>13. CASE RxDone
  <2>1. /\ UNCHANGED <<heard, inbox, mixed, whole, state, pc>>
        /\ rxing # NoPacket /\ fifo' = rxing /\ rxing' = NoPacket
        /\ irq' = irq \cup {"RX_DONE"}
             \cup (IF rxing.kind = "badCrc" THEN {"PAYLOAD_CRC_ERROR"} ELSE {})
    BY <1>13 DEF RxDone, Drive, soft, history
  <2>2. "RX_DONE" \in irq'
    BY <2>1
  <2>3. Taken'
    BY <2>1, <2>2 DEF ReceiveInv, Taken
  <2>4. Counted'
    BY <2>1, <2>2, <1>types DEF ReceiveInv, Counted, Coming, One
  <2>5. Inbox'
    BY <2>1 DEF ReceiveInv, Inbox, InboxFaithful
  <2>6. ASSUME whole PROVE Describe(irq)' /\ ~Reading' /\ pc["isr"] # "read_fifo"
    <3>1. Fresh(rxing) /\ ~Reading
      BY <2>1, <2>6 DEF ReceiveInv, Alone
    <3>2. "VALID_HEADER" \in irq' => fifo'.kind # "badHeader"
      BY <2>1, <2>6 DEF ReceiveInv, Alone
    <3>3. "PAYLOAD_CRC_ERROR" \notin irq' => fifo'.kind # "badCrc"
      BY <2>1
    <3>4. pc["isr"] # "read_fifo"
      BY <3>1 DEF ReceiveInv, Taken, Outcome, Reading
    <3> QED  BY <2>1, <3>1, <3>2, <3>3, <3>4 DEF Describe, Fresh, Reading
  <2>7. Alone'
    BY <2>1, <2>6 DEF Alone
  <2> QED  BY <1>0, <2>3, <2>4, <2>5, <2>7 DEF ReceiveInv
<1>14. CASE AtRest \/ UNCHANGED vars
  <2>1. UNCHANGED <<irq, fifo, rxing, heard, inbox, mixed, state, whole, pc>>
    BY <1>14 DEF AtRest, system, vars, chip, soft, history
  <2> QED  BY <2>1, <1>0, ReceiveFrame
<1> QED
  BY <1>1, <1>2, <1>3, <1>4, <1>5, <1>6, <1>7, <1>8, <1>9, <1>10, <1>11, <1>12, <1>13, <1>14
  DEF Next, Moves, Sending, Handling, set_receive_mode

\* LoRa::receive (lora.cpp), with no assumption about timing: only intact packets
\* of the peer are handed up, each once and in order, although flags are read and
\* cleared in two transfers and both directions share one buffer; unless the
\* shield wrote to that buffer, or the next packet's header came, before the packet
\* was read.
THEOREM ReceptionIsFaithful == Spec => []InboxFaithful
<1>1. Init => ReceiveInv
  BY ReceiveInit
<1>2. ReceiveInv /\ [Next]_vars => ReceiveInv'
  BY ReceiveStep
<1>3. ReceiveInv => InboxFaithful
  BY DEF ReceiveInv, Inbox
<1> QED  BY <1>1, <1>2, <1>3, PTL DEF Spec
-----------------------------------------------------------------------------
(* Sending *)

\* Whatever a packet meets is remembered.
Recorded == \A n \in 1 .. NumOut : Crosses(n) => n \in crossed

\* The packets of the shield that are on the air.
Out == {n \in Nat : \E i \in DOMAIN onAir : onAir[i].from = "shield" /\ onAir[i].seq = n}

Buffered(n) == fifo.from = "shield" /\ fifo.seq = n

\* How far LoRa::send has got with a packet nothing has crossed.
Preparing == cur \notin crossed =>
    /\ pc["socket"] \in {"clear_tx", "write_fifo", "tx"} => opmode = "STDBY"
    /\ pc["socket"] \in {"write_fifo", "tx", "map_tx", "soft_tx", "unlock_ok"} => "TX_DONE" \notin irq
    /\ pc["socket"] \in {"tx", "map_tx", "soft_tx", "unlock_ok"} => Buffered(cur)
    /\ pc["socket"] \in {"soft_tx", "unlock_ok"} => dio = "tx_done"
    /\ pc["socket"] = "unlock_ok" => mode = "Transmit"

\* When LoRa::send has found the chip free, the packet before has come to its end.
Before == pc["socket"] \in {"stdby", "clear_tx", "write_fifo", "tx"} =>
    cur = 1 \/ cur - 1 \in crossed \/ cur - 1 \in Out

Retrying == pc["socket"] \in ReceiveModePc \cup {"unlock_busy"} => cur - 1 \in crossed

\* The packet is being transmitted, and the interrupt still to come.
Flying ==
    /\ opmode = "TX" /\ dio = "tx_done" /\ mode = "Transmit" /\ "TX_DONE" \notin irq
    /\ Buffered(Sent) /\ Sent # 0
    /\ ~edge /\ pc["isr"] \notin Deciding

\* The interrupt task will make the chip receive, is doing so, or has done it.
Returning ==
    \/ /\ opmode = "STDBY" /\ dio = "tx_done" /\ mode = "Transmit"
       /\ edge \/ pc["isr"] \in {"if_transmit", "rm_irq", "rm_mode"}
       /\ pc["isr"] \notin {"rm_dio", "rm_soft"}
    \/ opmode = "RX_CONTINUOUS" /\ dio = "tx_done" /\ mode = "Transmit" /\ pc["isr"] = "rm_dio"
    \/ opmode = "RX_CONTINUOUS" /\ dio = "rx_done" /\ mode = "Transmit" /\ pc["isr"] = "rm_soft"
    \/ opmode = "RX_CONTINUOUS" /\ dio = "rx_done" /\ mode = "Receive"

\* What has become of a packet that nothing has crossed, until LoRa::send finds the
\* chip free or busy for the next one.
Flight == pc["socket"] \in {"idle", "lock", "busy"} /\ Sent \notin crossed =>
    \/ Flying
    \/ Returning /\ (Sent = 0 \/ Sent \in Out)

SendInv ==
    /\ AirInv
    /\ MutexHeld
    /\ Recorded
    /\ Preparing /\ Before /\ Retrying
    /\ Flight

\* At the start nothing has been sent, and the chip listens.
LEMMA SendInit == Init => SendInv
<1> SUFFICES ASSUME Init PROVE SendInv
  OBVIOUS
<1>1. AirInv /\ MutexHeld
  BY AirInit, ReceiveInit DEF ReceiveInv
<1>2. pc["socket"] = "idle" /\ pc["isr"] = "wait" /\ cur = 0 /\ mutex = "none"
  BY DEF Init, Threads
<1>3. Recorded
  BY <1>2 DEF Recorded, Crosses
<1>4. Preparing /\ Before /\ Retrying
  BY <1>2 DEF Preparing, Before, Retrying, ReceiveModePc
<1>5. Flight
  BY <1>2 DEF Init, Flight, Returning, Sent, Unsent, ReceiveModePc
<1> QED  BY <1>1, <1>3, <1>4, <1>5 DEF SendInv

\* What is remembered stays so, and covers what is met now.
LEMMA Remembered ==
    ASSUME SendInv, [Next]_vars
    PROVE  crossed \subseteq crossed' /\ Recorded'
<1>1. CASE Next
  BY <1>1 DEF Next, Remember, Recorded
<1>2. CASE UNCHANGED vars
  <2>1. UNCHANGED <<pc, cur, mutex, edge, opmode, crossed>>
    BY <1>2 DEF vars, system, chip, soft
  <2> QED  BY <2>1 DEF SendInv, Recorded, Crosses
<1> QED  BY <1>1, <1>2

\* What is on the air stays there, and what the chip sends joins it.
LEMMA StaysOut ==
    ASSUME onAir \in Seq(Packets), fifo \in Packets
    PROVE  /\ onAir' = onAir => Out' = Out
           /\ onAir' = Append(onAir, fifo) =>
                /\ Out \subseteq Out'
                /\ fifo.from = "shield" => fifo.seq \in Out'
<1>1. CASE onAir' = onAir
  <2>1. Len(Append(onAir, fifo)) = Len(onAir) + 1 /\ Len(onAir) \in Nat
    OBVIOUS
  <2> QED  BY <1>1, <2>1 DEF Out
<1>2. CASE onAir' = Append(onAir, fifo)
  <2>1. /\ DOMAIN onAir' = DOMAIN onAir \cup {Len(onAir) + 1} /\ onAir'[Len(onAir) + 1] = fifo
        /\ \A i \in DOMAIN onAir : onAir'[i] = onAir[i]
        /\ onAir' # onAir
    BY <1>2
  <2>2. Out \subseteq Out'
    BY <2>1 DEF Out
  <2>3. fifo.from = "shield" => fifo.seq \in Out'
    BY <2>1, PacketFacts DEF Out
  <2> QED  BY <2>1, <2>2, <2>3
<1> QED  BY <1>1, <1>2

\* Every step of the link keeps the account of what is being sent.
LEMMA SendStep == SendInv /\ [Next]_vars => SendInv'
<1> SUFFICES ASSUME SendInv, [Next]_vars PROVE SendInv'
  OBVIOUS
<1>0. TypeOK /\ AirInv' /\ MutexHeld /\ MutexHeld' /\ crossed \subseteq crossed' /\ Recorded'
  BY AirStep, MutexStep, Remembered DEF SendInv, AirInv
<1>types. /\ DOMAIN pc = Threads /\ pc["socket"] \in SocketPc /\ pc["isr"] \in IsrPc
          /\ cur \in 0 .. NumOut /\ (pc["socket"] # "idle" => cur # 0)
          /\ onAir \in Seq(Packets) /\ fifo \in Packets
          /\ irq \subseteq Flags /\ opmode \in Modes /\ dio \in {"rx_done", "tx_done"}
  BY <1>0 DEF TypeOK
<1>offair. /\ PreparingIsOffAir
           /\ rxing # NoPacket => opmode = "RX_CONTINUOUS"
  BY DEF SendInv, AirInv, ReceivingIsOpmode
\* What Recorded says of the packet LoRa::send works on.
<1>now. mutex = "socket" /\ cur \notin crossed =>
          /\ ~edge /\ pc["isr"] \notin Deciding
          /\ pc["socket"] \in {"map_tx", "soft_tx", "unlock_ok"} => opmode = "TX"
  <2>1. mutex = "socket" => cur \in 1 .. NumOut
    BY <1>0, <1>types, LinkAssumption DEF MutexHeld
  <2> QED  BY <2>1 DEF SendInv, Recorded, Crosses
<1>next. mutex' = "socket" /\ cur' \notin crossed' =>
          /\ ~edge' /\ pc'["isr"] \notin Deciding
          /\ pc'["socket"] \in {"map_tx", "soft_tx", "unlock_ok"} => opmode' = "TX"
  <2>1. TypeOK' /\ (mutex' = "socket" => cur' # 0)
    BY <1>0 DEF AirInv, TypeOK, MutexHeld
  <2>2. mutex' = "socket" => cur' \in 1 .. NumOut
    BY <2>1, LinkAssumption DEF TypeOK
  <2> QED  BY <1>0, <2>2 DEF Recorded, Crosses
<1>kept. /\ onAir' = onAir => Out' = Out
         /\ onAir' = Append(onAir, fifo) =>
              Out \subseteq Out' /\ (fifo.from = "shield" => fifo.seq \in Out')
  BY <1>types, StaysOut
<1>nat. cur \in Nat /\ (cur # 0 => cur - 1 \in Nat)
  BY <1>types, LinkAssumption
<1> USE DEF Goto, Threads, ReceiveModePc, Unsent, Sent
<1> SUFFICES Preparing' /\ Before' /\ Retrying' /\ Flight'
  BY <1>0 DEF SendInv
\* Steps of the interrupt thread and of the chip.
<1>others. ASSUME pc'["socket"] = pc["socket"], cur' = cur, Out \subseteq Out'
           PROVE  Before' /\ Retrying'
  BY <1>0, <1>others DEF SendInv, Before, Retrying
<1>asleep. ASSUME pc'["socket"] = pc["socket"], cur' = cur,
                  edge \/ mutex = "none" \/ pc["isr"] \in Deciding \cup Receiving
           PROVE  Preparing'
  <2>1. mutex = "socket" => cur \in crossed
    BY <1>asleep, <1>now, <1>0 DEF MutexHeld
  <2> QED  BY <2>1, <1>asleep, <1>0 DEF MutexHeld, Preparing
<1>1. CASE BeginSendPkt
  <2>1. /\ UNCHANGED <<opmode, irq, dio, fifo, edge, mode, onAir>> /\ cur' = cur + 1
        /\ pc["socket"] = "idle" /\ pc'["socket"] = "lock" /\ pc'["isr"] = pc["isr"]
    BY <1>1, <1>types DEF BeginSendPkt, history, chip
  <2>2. Sent' = Sent
    BY <2>1, <1>nat
  <2> HIDE DEF Sent
  <2>3. Flight'
    BY <2>1, <2>2, <1>0, <1>kept DEF SendInv, Flight, Flying, Returning, Buffered
  <2> QED  BY <2>1, <2>3 DEF Preparing, Before, Retrying
<1>2. CASE LockSend
  <2>1. /\ UNCHANGED <<opmode, irq, dio, fifo, edge, mode, onAir, cur>>
        /\ pc["socket"] = "lock" /\ pc'["socket"] = "busy" /\ pc'["isr"] = pc["isr"]
    BY <1>2, <1>types DEF LockSend, history, chip
  <2>2. Sent' = Sent
    BY <2>1
  <2> HIDE DEF Sent
  <2>3. Flight'
    BY <2>1, <2>2, <1>0, <1>kept DEF SendInv, Flight, Flying, Returning, Buffered
  <2> QED  BY <2>1, <2>3 DEF Preparing, Before, Retrying
<1>3. CASE CheckBusy
  <2>1. /\ UNCHANGED <<chip, mode, onAir, cur>>
        /\ pc["socket"] = "busy" /\ pc'["isr"] = pc["isr"]
        /\ pc'["socket"] = IF opmode = "TX" THEN "rm_irq" ELSE "stdby"
    BY <1>3, <1>types DEF CheckBusy, lora_is_transmitting, history, soft
  <2>2. Sent = cur - 1 /\ cur # 0
    BY <2>1, <1>types
  <2>3. CASE opmode = "TX"
    <3>1. cur - 1 \notin crossed => Sent # 0
      BY <2>1, <2>2, <2>3 DEF SendInv, Flight, Flying, Returning
    <3>2. cur - 1 # 0 => cur - 1 \in 1 .. NumOut
      BY <2>1, <2>2, <1>types, LinkAssumption
    <3>4. \A n \in 1 .. NumOut : n = cur' - 1 => n \in crossed'
      BY <2>1, <2>3, <1>0 DEF Recorded, Crosses
    <3>3. cur - 1 \in crossed'
      BY <2>1, <2>2, <3>1, <3>2, <3>4, <1>0
    <3> QED  BY <2>1, <2>3, <3>3 DEF Preparing, Before, Retrying, Flight
  <2>4. CASE opmode # "TX"
    <3>1. Sent \in crossed \/ Sent = 0 \/ Sent \in Out
      BY <2>1, <2>4 DEF SendInv, Flight, Flying
    <3>2. Before'
      BY <2>1, <2>2, <3>1, <1>0, <1>kept, <1>nat DEF Before
    <3> QED  BY <2>1, <2>4, <3>2 DEF Preparing, Retrying, Flight
  <2> QED  BY <2>3, <2>4
<1>4. CASE SendStandby
  <2>1. /\ opmode' = "STDBY" /\ UNCHANGED <<onAir, cur>>
        /\ pc["socket"] = "stdby" /\ pc'["socket"] = "clear_tx"
    BY <1>4, <1>types DEF SendStandby, set_mode, soft, history
  <2> QED  BY <2>1, <1>0, <1>kept DEF SendInv, Preparing, Before, Retrying, Flight
<1>5. CASE lora_clear_interrupt_tx_done
  <2>1. /\ UNCHANGED <<opmode, onAir, cur>> /\ "TX_DONE" \notin irq'
        /\ pc["socket"] = "clear_tx" /\ pc'["socket"] = "write_fifo"
    BY <1>5, <1>types DEF lora_clear_interrupt_tx_done, Drive, soft, history
  <2> QED  BY <2>1, <1>0, <1>kept DEF SendInv, Preparing, Before, Retrying, Flight
<1>6. CASE write_fifo
  <2>1. /\ UNCHANGED <<opmode, irq, onAir, cur>> /\ Buffered(cur)'
        /\ pc["socket"] = "write_fifo" /\ pc'["socket"] = "tx"
    BY <1>6, <1>types DEF write_fifo, soft, Own, Packet, Buffered
  <2> QED  BY <2>1, <1>0, <1>kept DEF SendInv, Preparing, Before, Retrying, Flight
<1>7. CASE StartTx
  <2>1. /\ UNCHANGED <<irq, fifo, onAir, cur>>
        /\ pc["socket"] = "tx" /\ pc'["socket"] = "map_tx"
    BY <1>7, <1>types DEF StartTx, soft, history
  <2> QED  BY <2>1, <1>0 DEF SendInv, Preparing, Before, Retrying, Flight, Buffered
<1>8. CASE TransmitModeMapDio
  <2>1. /\ UNCHANGED <<irq, fifo, onAir, cur>> /\ dio' = "tx_done"
        /\ pc["socket"] = "map_tx" /\ pc'["socket"] = "soft_tx"
    BY <1>8, <1>types DEF TransmitModeMapDio, Drive, soft, history
  <2> QED  BY <2>1, <1>0 DEF SendInv, Preparing, Before, Retrying, Flight, Buffered
<1>9. CASE TransmitModeSoft
  <2>1. /\ UNCHANGED <<irq, fifo, dio, onAir, cur>> /\ mode' = "Transmit"
        /\ pc["socket"] = "soft_tx" /\ pc'["socket"] = "unlock_ok"
    BY <1>9, <1>types DEF TransmitModeSoft, chip, history
  <2> QED  BY <2>1, <1>0 DEF SendInv, Preparing, Before, Retrying, Flight, Buffered
<1>10. CASE UnlockSend
  <2>1. /\ UNCHANGED <<opmode, irq, fifo, dio, edge, mode, onAir, cur>>
        /\ pc'["isr"] = pc["isr"]
        /\ \/ pc["socket"] = "unlock_ok" /\ pc'["socket"] = "idle"
           \/ pc["socket"] = "unlock_busy" /\ pc'["socket"] = "lock"
    BY <1>10, <1>types DEF UnlockSend, chip, history
  <2>2. CASE pc["socket"] = "unlock_ok"
    <3>1. mutex = "socket" /\ Sent' = cur /\ cur # 0
      BY <2>1, <2>2, <1>0, <1>types DEF MutexHeld
    <3>2. cur \notin crossed => Flying'
      BY <2>1, <2>2, <3>1, <1>now DEF SendInv, Preparing, Flying, Buffered
    <3> QED  BY <2>1, <2>2, <3>1, <3>2, <1>0 DEF Preparing, Before, Retrying, Flight
  <2>3. CASE pc["socket"] = "unlock_busy"
    <3>1. Sent' = cur - 1 /\ cur - 1 \in crossed'
      BY <2>1, <2>3, <1>0 DEF SendInv, Retrying
    <3> QED  BY <2>1, <2>3, <3>1, <1>0 DEF Preparing, Before, Retrying, Flight
  <2> QED  BY <2>1, <2>2, <2>3
<1>11. CASE set_receive_mode("socket")
  <2>1. /\ UNCHANGED cur /\ pc["socket"] \in ReceiveModePc
        /\ pc'["socket"] \in ReceiveModePc \cup {"unlock_busy"}
    BY <1>11, <1>types DEF set_receive_mode, ReceiveModeClearIrq, ReceiveModeSet,
        ReceiveModeMapDio, ReceiveModeSoft, soft
  <2> QED  BY <2>1, <1>0 DEF SendInv, Preparing, Before, Retrying, Flight
<1>12. CASE TakeEdge
  <2>1. /\ UNCHANGED <<opmode, irq, dio, fifo, mode, onAir, cur>> /\ edge /\ ~edge'
        /\ pc'["socket"] = pc["socket"] /\ pc["isr"] = "wait" /\ pc'["isr"] = "if_transmit"
    BY <1>12, <1>types DEF TakeEdge, soft, history
  <2>2. Flight'
    BY <2>1, <1>0, <1>kept DEF SendInv, Flight, Flying, Returning
  <2> QED  BY <2>1, <2>2, <1>asleep, <1>others, <1>kept
<1>13. CASE IfTransmit \/ IfReceive
  <2>1. /\ UNCHANGED <<opmode, irq, dio, fifo, edge, mode, onAir, cur>>
        /\ pc'["socket"] = pc["socket"] /\ pc["isr"] \in {"if_transmit", "if_receive"}
        /\ pc["isr"] = "if_transmit" /\ mode = "Transmit" => pc'["isr"] = "rm_irq"
        /\ pc["isr"] = "if_transmit" /\ mode = "Receive" => pc'["isr"] = "if_receive"
        /\ pc["isr"] = "if_receive" => pc'["isr"] \in {"lock", "wait"}
    BY <1>13, <1>types DEF IfTransmit, IfReceive, chip, soft, history
  <2>2. Flight'
    BY <2>1, <1>0, <1>kept DEF SendInv, Flight, Flying, Returning, Deciding
  <2>3. pc["isr"] \in Deciding
    BY <2>1 DEF Deciding
  <2> QED  BY <2>1, <2>2, <2>3, <1>asleep, <1>others, <1>kept
<1>14. CASE set_receive_mode("isr")
  <2>1. /\ UNCHANGED <<fifo, onAir, cur>> /\ pc'["socket"] = pc["socket"]
        /\ pc["isr"] \in Deciding
    BY <1>14, <1>types DEF set_receive_mode, ReceiveModeClearIrq, ReceiveModeSet,
        ReceiveModeMapDio, ReceiveModeSoft, soft, history, chip, Deciding
  <2>2. \/ /\ pc["isr"] = "rm_irq" /\ pc'["isr"] = "rm_mode" /\ UNCHANGED <<opmode, dio, mode>>
        \/ /\ pc["isr"] = "rm_mode" /\ pc'["isr"] = "rm_dio" /\ UNCHANGED <<dio, mode>>
           /\ opmode' = "RX_CONTINUOUS"
        \/ /\ pc["isr"] = "rm_dio" /\ pc'["isr"] = "rm_soft" /\ UNCHANGED <<opmode, mode>>
           /\ dio' = "rx_done"
        \/ /\ pc["isr"] = "rm_soft" /\ pc'["isr"] = "if_receive" /\ UNCHANGED <<opmode, dio>>
           /\ mode' = "Receive"
    BY <1>14, <1>types DEF set_receive_mode, ReceiveModeClearIrq, ReceiveModeSet,
        ReceiveModeMapDio, ReceiveModeSoft, Drive, set_mode, soft, chip
  <2>3. Flight'
    BY <2>1, <2>2, <1>0, <1>kept DEF SendInv, Flight, Flying, Returning
  <2> QED  BY <2>1, <2>3, <1>asleep, <1>others, <1>kept
<1>15. CASE LockReceive \/ ReceiveWaitEnds \/ ReadIrq \/ ClearRxIrq \/ read_fifo \/ UnlockReceive
  <2>1. /\ UNCHANGED <<opmode, dio, fifo, mode, onAir, cur>> /\ pc'["socket"] = pc["socket"]
        /\ pc["isr"] \notin Deciding /\ pc'["isr"] \notin Deciding
        /\ mutex = "none" \/ pc["isr"] \in Receiving
    BY <1>15, <1>types DEF LockReceive, ReceiveWaitEnds, ReadIrq, ClearRxIrq, read_fifo,
        UnlockReceive, Drive, chip, soft, history, Deciding, Receiving
  <2>2. /\ "TX_DONE" \notin irq => "TX_DONE" \notin irq'
        /\ dio = "tx_done" => (edge' <=> edge)
    <3>1. CASE ClearRxIrq
      <4>1. "TX_DONE" \in irq \ RX_ALL => "TX_DONE" \in irq
        OBVIOUS
      <4>2. irq' = irq \ RX_ALL /\ edge' = (edge \/ (Dio0(irq \ RX_ALL, dio) /\ ~Dio0(irq, dio)))
        BY <3>1 DEF ClearRxIrq, Drive
      <4> QED  BY <4>1, <4>2 DEF Dio0
    <3>2. CASE LockReceive \/ ReceiveWaitEnds \/ ReadIrq \/ read_fifo \/ UnlockReceive
      BY <3>2 DEF LockReceive, ReceiveWaitEnds, ReadIrq, read_fifo, UnlockReceive, chip
    <3> QED  BY <1>15, <3>1, <3>2
  <2>3. Flight'
    BY <2>1, <2>2, <1>0, <1>kept DEF SendInv, Flight, Flying, Returning, Buffered, Deciding
  <2> QED  BY <2>1, <2>3, <1>asleep, <1>others, <1>kept
<1>16. CASE TxDone
  <2>1. /\ opmode = "TX" /\ opmode' = "STDBY" /\ onAir' = Append(onAir, fifo)
        /\ UNCHANGED <<dio, fifo, mode, cur, pc>>
        /\ edge' = (edge \/ (Dio0(irq \cup {"TX_DONE"}, dio) /\ ~Dio0(irq, dio)))
    BY <1>16 DEF TxDone, Drive, soft
  <2>2. Preparing'
    <3>1. pc["socket"] \notin {"clear_tx", "write_fifo", "tx"}
      BY <2>1, <1>offair DEF PreparingIsOffAir
    <3>2. pc["socket"] \in {"map_tx", "soft_tx", "unlock_ok"} => cur' \in crossed'
      BY <2>1, <1>0, <1>next DEF MutexHeld
    <3> QED  BY <2>1, <3>1, <3>2 DEF Preparing
  <2>3. Flying => Returning'
    BY <2>1 DEF Flying, Returning, Dio0, Deciding
  <2>4. Flying => Sent \in Out'
    BY <2>1, <1>kept DEF Flying, Buffered
  <2>5. ~Returning
    BY <2>1 DEF Returning
  <2>6. Sent' = Sent
    BY <2>1
  <2> HIDE DEF Sent
  <2>7. Flight'
    BY <2>1, <2>3, <2>4, <2>5, <2>6, <1>0 DEF SendInv, Flight
  <2> QED  BY <2>1, <2>2, <2>7, <1>others, <1>kept
<1>17. CASE RxHeader \/ RxDone
  <2>1. /\ opmode = "RX_CONTINUOUS" /\ UNCHANGED <<opmode, dio, mode, onAir, cur, pc>>
    BY <1>17, <1>offair DEF RxHeader, RxDone, Drive, soft, history
  <2>2. Preparing'
    BY <2>1, <1>0, <1>now DEF SendInv, Preparing, MutexHeld
  <2>3. Flight'
    BY <2>1, <1>0, <1>kept DEF SendInv, Flight, Flying, Returning
  <2> QED  BY <2>1, <2>2, <2>3, <1>others, <1>kept
<1>18. CASE AtRest \/ UNCHANGED vars
  <2>1. UNCHANGED <<opmode, irq, dio, fifo, edge, mode, onAir, cur, pc>>
    BY <1>18 DEF AtRest, system, vars, chip, soft, history
  <2>2. Preparing'
    BY <2>1, <1>0 DEF SendInv, Preparing, Buffered
  <2>3. Flight'
    BY <2>1, <1>0, <1>kept DEF SendInv, Flight, Flying, Returning, Buffered
  <2> QED  BY <2>1, <2>2, <2>3, <1>others, <1>kept
<1> QED
  BY <1>1, <1>2, <1>3, <1>4, <1>5, <1>6, <1>7, <1>8, <1>9, <1>10, <1>11, <1>12, <1>13, <1>14,
     <1>15, <1>16, <1>17, <1>18
  DEF Next, Moves, Sending, Handling

\* lora_send_packet_base, send_pkt and SX1276_IRQ_Handle_Task (lora.cpp): with both
\* threads at rest the chip listens, or transmits with an interrupt to come that
\* makes it listen, unless the interrupt task was awake while LoRa::send worked
\* on the last packet; what such a packet has left behind is made good by the next
\* one that does not meet the task.
THEOREM ShieldListens == Spec => []ListensAtRest
<1>1. Init => SendInv
  BY SendInit
<1>2. SendInv /\ [Next]_vars => SendInv'
  BY SendStep
<1>3. SendInv => ListensAtRest
  <2> SUFFICES ASSUME SendInv, Resting, cur \notin crossed PROVE Listening
    BY DEF ListensAtRest
  <2>1. Flying \/ Returning
    BY DEF SendInv, Flight, Resting, Sent, Unsent, ReceiveModePc
  <2> QED  BY <2>1 DEF Resting, Flying, Returning, Listening
<1> QED  BY <1>1, <1>2, <1>3, PTL DEF Spec

\* A step that takes the chip out of TX mode is the end of the transmission, or
\* belongs to a packet that was crossed.
LEMMA CutStep ==
    ASSUME SendInv, [Next]_vars, opmode = "TX", opmode' # "TX", Sent \notin crossed
    PROVE  onAir' = Append(onAir, Own(Sent))
<1>0. TypeOK /\ MutexHeld /\ PreparingIsOffAir /\ DOMAIN pc = Threads /\ fifo \in Packets
      /\ cur \in 0 .. NumOut /\ (pc["socket"] # "idle" => cur # 0)
      /\ pc["socket"] \in SocketPc /\ FifoIsSent /\ ReceivingIsOpmode
  BY DEF SendInv, AirInv, TypeOK
<1>1. CASE TxDone
  <2>1. fifo.from = "shield" /\ fifo.seq = Sent
    <3>1. CASE pc["socket"] \in {"idle", "lock", "busy"}
      BY <3>1 DEF SendInv, Flight, Flying, Returning, Buffered
    <3>2. CASE pc["socket"] \in ReceiveModePc \cup {"unlock_busy"}
      BY <3>2 DEF SendInv, Retrying, Sent, Unsent
    <3>3. CASE pc["socket"] \in {"map_tx", "soft_tx", "unlock_ok"}
      BY <3>3 DEF SendInv, Preparing, Buffered, Sent, Unsent, ReceiveModePc
    <3>4. pc["socket"] \notin {"stdby", "clear_tx", "write_fifo", "tx"}
      BY <1>0 DEF PreparingIsOffAir
    <3> QED  BY <1>0, <3>1, <3>2, <3>3, <3>4 DEF SocketPc
  <2>2. fifo = Own(Sent)
    BY <1>0, <2>1 DEF Packets, Own, Packet, NoPacket
  <2> QED  BY <1>1, <2>2 DEF TxDone
<1>2. CASE set_receive_mode("socket")
  <2>1. pc["socket"] \in ReceiveModePc
    BY <1>2 DEF set_receive_mode, ReceiveModeClearIrq, ReceiveModeSet, ReceiveModeMapDio,
        ReceiveModeSoft, Goto, ReceiveModePc
  <2> QED  BY <2>1 DEF SendInv, Retrying, Sent, Unsent
<1>3. CASE set_receive_mode("isr")
  <2>1. pc["isr"] = "rm_mode"
    BY <1>3 DEF set_receive_mode, ReceiveModeClearIrq, ReceiveModeSet, ReceiveModeMapDio,
        ReceiveModeSoft, Goto, chip
  <2>2. CASE pc["socket"] \in {"idle", "lock", "busy"}
    BY <2>1, <2>2 DEF SendInv, Flight, Flying, Returning, Deciding
  <2>3. CASE pc["socket"] \in {"map_tx", "soft_tx", "unlock_ok"}
    <3>1. cur \in 1 .. NumOut /\ mutex = "socket" /\ Sent = cur
      BY <1>0, <2>3, LinkAssumption DEF MutexHeld, Sent, Unsent, ReceiveModePc
    <3> QED  BY <2>1, <3>1 DEF SendInv, Recorded, Crosses, Deciding
  <2>4. CASE pc["socket"] \in ReceiveModePc \cup {"unlock_busy"}
    BY <2>4 DEF SendInv, Retrying, Sent, Unsent
  <2>5. pc["socket"] \notin {"stdby", "clear_tx", "write_fifo", "tx"}
    BY <1>0 DEF PreparingIsOffAir
  <2> QED  BY <1>0, <2>2, <2>3, <2>4, <2>5 DEF SocketPc
<1>4. CASE SendStandby \/ StartTx
  BY <1>0, <1>4 DEF SendStandby, StartTx, set_mode, Goto, PreparingIsOffAir
<1>5. CASE \/ BeginSendPkt \/ LockSend \/ CheckBusy \/ lora_clear_interrupt_tx_done \/ write_fifo
           \/ TransmitModeMapDio \/ TransmitModeSoft \/ UnlockSend \/ TakeEdge \/ IfTransmit
           \/ IfReceive \/ LockReceive \/ ReceiveWaitEnds \/ ReadIrq \/ ClearRxIrq
           \/ read_fifo \/ UnlockReceive \/ RxHeader \/ AtRest \/ UNCHANGED vars
  BY <1>5 DEF BeginSendPkt, LockSend, CheckBusy, lora_clear_interrupt_tx_done, write_fifo,
      TransmitModeMapDio, TransmitModeSoft, UnlockSend, TakeEdge, IfTransmit, IfReceive,
      LockReceive, ReceiveWaitEnds, ReadIrq, ClearRxIrq, read_fifo, UnlockReceive, RxHeader,
      AtRest, system, vars, chip
<1>6. CASE RxDone
  BY <1>0, <1>6 DEF RxDone, ReceivingIsOpmode
<1> QED  BY <1>1, <1>2, <1>3, <1>4, <1>5, <1>6 DEF Next, Moves, Sending, Handling

\* LoRa::send, set_receive_mode and the chip (lora.cpp, lora_sx1276.cpp), with no
\* assumption about timing: a packet for which lora_send_packet has returned
\* LORA_OK is transmitted whole, unless the interrupt task was awake while
\* LoRa::send worked on it or send_pkt came with the next one too early.
THEOREM SentIsTransmitted == Spec => OnlyCrossedIsCut
<1>1. Init => SendInv
  BY SendInit
<1>2. SendInv /\ [Next]_vars => SendInv'
  BY SendStep
<1>3. SendInv /\ [Next]_vars =>
        [opmode = "TX" /\ opmode' # "TX" =>
           onAir' = Append(onAir, Own(Sent)) \/ Sent \in crossed]_vars
  BY CutStep
<1> QED  BY <1>1, <1>2, <1>3, PTL DEF Spec, OnlyCrossedIsCut

-----------------------------------------------------------------------------
(* The link is a channel with one place, in both directions *)

\* A packet is known by a number, and the shield's are all intact.
LEMMA Numbers ==
    /\ \A q \in Packets : NumberFrom("peer", q) \in Nat /\ NumberFrom("shield", q) \in Nat
    /\ \A q \in Packets : q.from = "shield" =>
         q = Own(q.seq) /\ NumberFrom("shield", q) = q.seq /\ q.seq # 0
    /\ \A q \in Packets : q.from = "peer" => q.seq # 0
<1>1. \A q \in Packets : NumberFrom("peer", q) \in Nat /\ NumberFrom("shield", q) \in Nat
  BY PacketFacts DEF NumberFrom
<1>2. \A q \in Packets : q.from = "shield" =>
         q = Own(q.seq) /\ NumberFrom("shield", q) = q.seq /\ q.seq # 0
  BY LinkAssumption DEF Packets, NoPacket, Own, Packet, NumberFrom
<1>3. \A q \in Packets : q.from = "peer" => q.seq # 0
  BY LinkAssumption DEF Packets, NoPacket, Own, Packet
<1> QED  BY <1>1, <1>2, <1>3

\* A function that goes one place further than another is that one appended to.
LEMMA OneMore ==
    ASSUME NEW n \in Nat, NEW f \in [1 .. n -> Nat], NEW g \in [1 .. n + 1 -> Nat],
           \A j \in 1 .. n : g[j] = f[j]
    PROVE  g = Append(f, g[n + 1])
<1>1. f \in Seq(Nat) /\ Len(f) = n /\ g[n + 1] \in Nat
  OBVIOUS
<1>2. /\ Append(f, g[n + 1]) \in Seq(Nat) /\ DOMAIN Append(f, g[n + 1]) = 1 .. n + 1
      /\ Append(f, g[n + 1])[n + 1] = g[n + 1]
      /\ \A j \in 1 .. n : Append(f, g[n + 1])[j] = f[j]
  BY <1>1
<1>3. \A j \in 1 .. n + 1 : g[j] = Append(f, g[n + 1])[j]
  <2> SUFFICES ASSUME NEW j \in 1 .. n + 1 PROVE g[j] = Append(f, g[n + 1])[j]
    OBVIOUS
  <2>1. j = n + 1 \/ j \in 1 .. n
    OBVIOUS
  <2> QED  BY <1>2, <2>1
<1> DEFINE h == Append(f, g[n + 1])
<1>4. g = [j \in 1 .. n + 1 |-> g[j]]
  OBVIOUS
<1> HIDE DEF h
<1>5. h = [j \in 1 .. n + 1 |-> h[j]]
  BY <1>2 DEF h
<1> QED  BY <1>3, <1>4, <1>5 DEF h

\* The numbers the two channels show of the histories.
ReceivedNumbers ==
    [j \in DOMAIN inbox |-> IF j \in mixed THEN 0 ELSE NumberFrom("peer", inbox[j])]
TransmittedNumbers == [j \in DOMAIN onAir |-> NumberFrom("shield", onAir[j])]

\* They have a number for each place.
LEMMA NumbersType ==
    ASSUME NEW h \in Seq(Packets), NEW m
    PROVE  /\ [j \in DOMAIN h |-> IF j \in m THEN 0 ELSE NumberFrom("peer", h[j])]
                \in [1 .. Len(h) -> Nat]
           /\ [j \in DOMAIN h |-> NumberFrom("shield", h[j])] \in [1 .. Len(h) -> Nat]
<1>1. \A j \in DOMAIN h : NumberFrom("peer", h[j]) \in Nat /\ NumberFrom("shield", h[j]) \in Nat
  BY Numbers
<1>2. DOMAIN h = 1 .. Len(h)
  OBVIOUS
<1> HIDE DEF NumberFrom
<1> QED  BY <1>1, <1>2

\* Steps of the link in which nothing reaches the antenna or is handed up.
LEMMA NothingReceived ==
    ASSUME [Next]_vars, ~RxHeader, ~read_fifo
    PROVE  UNCHANGED <<heard, inbox, mixed>>
<1>1. CASE \/ BeginSendPkt \/ LockSend \/ CheckBusy \/ SendStandby \/ lora_clear_interrupt_tx_done
           \/ write_fifo \/ StartTx \/ TransmitModeMapDio \/ TransmitModeSoft \/ UnlockSend
  BY <1>1 DEF BeginSendPkt, LockSend, CheckBusy, SendStandby, lora_clear_interrupt_tx_done,
      write_fifo, StartTx, TransmitModeMapDio, TransmitModeSoft, UnlockSend, history
<1>2. CASE \/ TakeEdge \/ IfTransmit \/ IfReceive \/ LockReceive \/ ReceiveWaitEnds \/ ReadIrq
           \/ ClearRxIrq \/ UnlockReceive \/ TxDone \/ RxDone \/ AtRest \/ UNCHANGED vars
  BY <1>2 DEF TakeEdge, IfTransmit, IfReceive, LockReceive, ReceiveWaitEnds, ReadIrq,
      ClearRxIrq, UnlockReceive, TxDone, RxDone, AtRest, history, system, vars
<1>3. ASSUME NEW t, set_receive_mode(t) PROVE UNCHANGED <<heard, inbox, mixed>>
  BY <1>3 DEF set_receive_mode, ReceiveModeClearIrq, ReceiveModeSet, ReceiveModeMapDio,
      ReceiveModeSoft, history
<1> QED  BY <1>1, <1>2, <1>3 DEF Next, Moves, Sending, Handling

\* Every step is one of the channel from the peer, or none.
LEMMA IncomingStep ==
    ASSUME ReceiveInv, [Next]_vars
    PROVE  [Incoming!Next]_<<heard, ReceivedNumbers>>
<1>0. TypeOK /\ TypeOK' /\ heard \in Nat /\ inbox \in Seq(Packets) /\ Len(inbox) \in Nat
      /\ DOMAIN inbox = 1 .. Len(inbox) /\ mixed \subseteq DOMAIN inbox
  BY TypeStep, LinkAssumption DEF ReceiveInv, TypeOK
<1>1. CASE RxHeader
  <2>1. heard < NumIn /\ heard' = heard + 1 /\ UNCHANGED <<inbox, mixed>>
    BY <1>1 DEF RxHeader
  <2>2. ReceivedNumbers' = ReceivedNumbers
    BY <2>1 DEF ReceivedNumbers
  <2> QED  BY <2>1, <2>2 DEF Incoming!Next, Incoming!Send, ReceivedNumbers
<1>2. CASE read_fifo
  <2>1. /\ inbox' = Append(inbox, fifo) /\ UNCHANGED <<heard, whole, state>>
        /\ mixed' = IF whole THEN mixed ELSE mixed \cup {Len(inbox')}
        /\ pc["isr"] = "read_fifo"
    BY <1>2 DEF read_fifo, Goto, soft
  <2>2. /\ Len(inbox') = Len(inbox) + 1 /\ DOMAIN inbox' = 1 .. Len(inbox) + 1
        /\ inbox'[Len(inbox) + 1] = fifo
        /\ \A j \in DOMAIN inbox : inbox'[j] = inbox[j]
    BY <1>0, <2>1
  <2>3. Len(inbox) < heard
    BY <1>0, <2>1 DEF ReceiveInv, Counted, Coming, One
  <2>4. ReceivedNumbers' \in [1 .. Len(inbox) + 1 -> Nat]
    <3>1. ReceivedNumbers' \in [1 .. Len(inbox') -> Nat]
      BY <1>0, NumbersType DEF ReceivedNumbers, TypeOK
    <3>2. Len(inbox') = Len(inbox) + 1
      BY <2>2
    <3> QED  BY <3>1, <3>2
  <2> DEFINE last == ReceivedNumbers'[Len(inbox) + 1]
  <2>5. \A j \in 1 .. Len(inbox) : ReceivedNumbers'[j] = ReceivedNumbers[j]
    <3>1. \A j \in 1 .. Len(inbox) : j \in mixed' <=> j \in mixed
      BY <1>0, <2>1, <2>2
    <3> HIDE DEF NumberFrom
    <3> QED  BY <1>0, <2>2, <3>1 DEF ReceivedNumbers
  <2>6. ReceivedNumbers' = Append(ReceivedNumbers, last)
    <3>1. ReceivedNumbers \in [1 .. Len(inbox) -> Nat]
      BY <1>0, NumbersType DEF ReceivedNumbers
    <3> HIDE DEF ReceivedNumbers
    <3> QED  BY <1>0, <2>4, <2>5, <3>1, OneMore
  <2>7. CASE whole
    <3>1. Outcome(state) = "LORA_OK"
      BY <2>1 DEF ReceiveInv, Taken
    <3>2. "RX_DONE" \in state /\ "VALID_HEADER" \in state /\ "PAYLOAD_CRC_ERROR" \notin state
      BY <3>1 DEF Outcome
    <3>3. /\ fifo.from = "peer" /\ fifo.seq = heard /\ fifo.kind \notin {"badHeader", "badCrc"}
          /\ \A i \in DOMAIN inbox \ mixed : inbox[i].seq < heard
      BY <2>1, <2>7, <3>2 DEF ReceiveInv, Alone, Reading, Describe, Fresh
    <3>4. fifo.kind = "intact" /\ heard # 0
      BY <3>3, <1>0, PacketFacts, Numbers DEF TypeOK, AllKinds
    <3>5. last = heard
      <4>1. Len(inbox) + 1 \notin mixed' /\ Len(inbox) + 1 \in DOMAIN inbox'
        BY <1>0, <2>1, <2>2, <2>7
      <4>2. NumberFrom("peer", fifo) = heard
        BY <3>3, <3>4 DEF NumberFrom
      <4> HIDE DEF NumberFrom
      <4> QED  BY <2>2, <4>1, <4>2 DEF ReceivedNumbers
    <3>6. \A j \in DOMAIN ReceivedNumbers : ReceivedNumbers[j] < heard
      <4> SUFFICES ASSUME NEW j \in DOMAIN inbox PROVE ReceivedNumbers[j] < heard
        BY DEF ReceivedNumbers
      <4>1. CASE j \in mixed
        BY <1>0, <3>4, <4>1 DEF ReceivedNumbers
      <4>2. CASE j \notin mixed
        BY <1>0, <3>3, <3>4, <4>2 DEF ReceivedNumbers, NumberFrom
      <4> QED  BY <4>1, <4>2
    <3>7. Incoming!Arrive
      <4>1. Len(ReceivedNumbers) = Len(inbox)
        BY <1>0 DEF ReceivedNumbers
      <4> HIDE DEF NumberFrom
      <4> QED  BY <2>1, <2>3, <2>6, <3>4, <3>5, <3>6, <4>1
        DEF Incoming!Arrive, Incoming!Occupied, ReceivedNumbers
    <3> QED  BY <3>7 DEF Incoming!Next
  <2>8. CASE ~whole
    <3>1. last = 0
      <4>1. Len(inbox) + 1 \in mixed' /\ Len(inbox) + 1 \in DOMAIN inbox'
        BY <1>0, <2>1, <2>2, <2>8
      <4> HIDE DEF NumberFrom
      <4> QED  BY <4>1 DEF ReceivedNumbers
    <3>2. Incoming!Garble
      <4>1. Len(ReceivedNumbers) = Len(inbox)
        BY <1>0 DEF ReceivedNumbers
      <4> HIDE DEF NumberFrom
      <4> QED  BY <2>1, <2>3, <2>6, <2>8, <3>1, <4>1 DEF Incoming!Garble, ReceivedNumbers
    <3> QED  BY <3>2 DEF Incoming!Next
  <2> QED  BY <2>7, <2>8
<1>3. CASE ~RxHeader /\ ~read_fifo
  <2>1. UNCHANGED <<heard, inbox, mixed>>
    BY <1>3, NothingReceived
  <2> QED  BY <2>1 DEF ReceivedNumbers
<1> QED  BY <1>1, <1>2, <1>3

\* LoRa::receive (lora.cpp) implements a channel with one place: what it hands up is
\* the packet the peer has sent last, intact, once and before the next one, or the
\* packet is lost. Only after the shield's own packet or a second header came into
\* the buffer may it be something else; and it never hands up more packets than the
\* peer has sent.
THEOREM LinkReceivesAsChannel == Spec => ReceivesAsChannel
<1>1. Init => Incoming!Init
  BY DEF Init, Incoming!Init
<1>2. Init => ReceiveInv
  BY ReceiveInit
<1>3. ReceiveInv /\ [Next]_vars => ReceiveInv'
  BY ReceiveStep
<1>4. ReceiveInv /\ [Next]_vars => [Incoming!Next]_<<heard, ReceivedNumbers>>
  BY IncomingStep
<1> QED  BY <1>1, <1>2, <1>3, <1>4, PTL DEF Spec, ReceivesAsChannel, Incoming!Spec, ReceivedNumbers

\* Never more is on the air than the chip has been put in TX mode for.
Done == Len(onAir) + One(opmode = "TX") <= Sent

\* The chip is put in TX mode by StartTx only, for one more packet; only the end of a
\* transmission puts something on the air.
LEMMA TxSteps ==
    ASSUME SendInv, [Next]_vars
    PROVE  \/ StartTx /\ Sent = cur - 1 /\ Sent' = cur /\ UNCHANGED <<cur, onAir>>
           \/ /\ Sent' = Sent
              /\ opmode' = "TX" => opmode = "TX"
              /\ onAir' = onAir \/ TxDone
<1>0. DOMAIN pc = Threads /\ cur \in Nat /\ pc["socket"] \in SocketPc
  BY LinkAssumption DEF SendInv, AirInv, TypeOK
<1> USE <1>0 DEF Goto, Threads, Sent, Unsent, ReceiveModePc
<1>1. CASE StartTx
  BY <1>1 DEF StartTx, soft, history
<1>2. CASE BeginSendPkt
  BY <1>2 DEF BeginSendPkt, chip, history
<1>3. CASE \/ LockSend \/ CheckBusy \/ SendStandby \/ lora_clear_interrupt_tx_done \/ write_fifo
           \/ TransmitModeMapDio \/ TransmitModeSoft \/ UnlockSend
  BY <1>3 DEF LockSend, CheckBusy, SendStandby, lora_clear_interrupt_tx_done, write_fifo,
      TransmitModeMapDio, TransmitModeSoft, UnlockSend, set_mode, chip, soft, history
<1>4. CASE \/ TakeEdge \/ IfTransmit \/ IfReceive \/ LockReceive \/ ReceiveWaitEnds \/ ReadIrq
           \/ ClearRxIrq \/ read_fifo \/ UnlockReceive
  BY <1>4 DEF TakeEdge, IfTransmit, IfReceive, LockReceive, ReceiveWaitEnds, ReadIrq, ClearRxIrq,
      read_fifo, UnlockReceive, chip, soft, history
<1>5. ASSUME NEW t \in Threads, set_receive_mode(t)
      PROVE  Sent' = Sent /\ (opmode' = "TX" => opmode = "TX") /\ onAir' = onAir
  BY <1>5 DEF set_receive_mode, ReceiveModeClearIrq, ReceiveModeSet, ReceiveModeMapDio,
      ReceiveModeSoft, set_mode, chip, soft, history
<1>6. CASE TxDone
  BY <1>6 DEF TxDone, soft
<1>7. CASE RxHeader \/ RxDone \/ AtRest \/ UNCHANGED vars
  BY <1>7 DEF RxHeader, RxDone, AtRest, system, vars, chip, soft, history
<1> QED  BY <1>1, <1>2, <1>3, <1>4, <1>5, <1>6, <1>7 DEF Next, Moves, Sending, Handling

\* The count is kept.
LEMMA DoneStep == SendInv /\ Done /\ [Next]_vars => Done'
<1> SUFFICES ASSUME SendInv, Done, [Next]_vars PROVE Done'
  OBVIOUS
<1>0. Len(onAir) \in Nat /\ onAir \in Seq(Packets) /\ cur \in Nat
  BY LinkAssumption DEF SendInv, AirInv, TypeOK
<1>1. Sent \in Nat \/ Sent = cur - 1
  BY <1>0 DEF Sent
<1>2. CASE StartTx /\ Sent = cur - 1 /\ Sent' = cur /\ UNCHANGED <<cur, onAir>>
  <2> HIDE DEF Sent
  <2> QED  BY <1>0, <1>2 DEF Done, One
<1>3. CASE Sent' = Sent /\ (opmode' = "TX" => opmode = "TX") /\ onAir' = onAir
  <2> HIDE DEF Sent
  <2> QED  BY <1>0, <1>1, <1>3 DEF Done, One
<1>4. CASE Sent' = Sent /\ TxDone
  <2>1. opmode = "TX" /\ opmode' = "STDBY" /\ Len(onAir') = Len(onAir) + 1
    BY <1>0, <1>4 DEF TxDone, SendInv, AirInv, TypeOK
  <2> HIDE DEF Sent
  <2> QED  BY <1>0, <1>1, <1>4, <2>1 DEF Done, One
<1> QED  BY <1>2, <1>3, <1>4, TxSteps

\* Every step is one of the channel to the peer, or none.
LEMMA OutgoingStep ==
    ASSUME SendInv, Done, [Next]_vars
    PROVE  [Outgoing!Next]_<<Sent, TransmittedNumbers>>
<1>0. /\ TypeOK /\ TypeOK' /\ onAir \in Seq(Packets) /\ cur \in Nat /\ fifo \in Packets
      /\ Len(onAir) \in Nat /\ DOMAIN onAir = 1 .. Len(onAir) /\ cur <= NumOut
      /\ TransmittedNumbers \in [1 .. Len(onAir) -> Nat]
  <2>1. TypeOK /\ TypeOK'
    BY TypeStep DEF SendInv, AirInv
  <2>2. onAir \in Seq(Packets) /\ cur \in Nat /\ fifo \in Packets /\ cur <= NumOut
    BY <2>1, LinkAssumption DEF TypeOK
  <2>3. TransmittedNumbers \in [1 .. Len(onAir) -> Nat]
    BY <2>2, NumbersType DEF TransmittedNumbers
  <2> QED  BY <2>1, <2>2, <2>3
<1>1. CASE StartTx /\ Sent = cur - 1 /\ Sent' = cur /\ UNCHANGED <<cur, onAir>>
  <2>1. pc["socket"] = "tx"
    BY <1>1 DEF StartTx, Goto
  <2>2. Sent = 0 \/ Sent \in crossed \/ Sent \in Out
    BY <1>0, <1>1, <2>1 DEF SendInv, Before
  <2>3. ASSUME Sent \in Out PROVE \E i \in DOMAIN TransmittedNumbers : TransmittedNumbers[i] = Sent
    <3>1. PICK i \in DOMAIN onAir : onAir[i].from = "shield" /\ onAir[i].seq = Sent
      BY <2>3 DEF Out
    <3>2. NumberFrom("shield", onAir[i]) = Sent
      BY <1>0, <3>1, Numbers
    <3> QED  BY <3>2 DEF TransmittedNumbers
  <2>4. Sent < NumOut /\ Sent' = Sent + 1
    <3>1. cur # 0
      BY <2>1 DEF SendInv, AirInv, TypeOK
    <3> HIDE DEF Sent
    <3> QED  BY <1>0, <1>1, <3>1, LinkAssumption
  <2>5. TransmittedNumbers' = TransmittedNumbers
    BY <1>1 DEF TransmittedNumbers
  <2>6. Outgoing!Occupied => Sent \in crossed
    <3> HIDE DEF Sent
    <3> QED  BY <1>0, <1>1, <2>2, <2>3 DEF Outgoing!Occupied, TransmittedNumbers
  <2> HIDE DEF Sent
  <2> QED  BY <2>4, <2>5, <2>6 DEF Outgoing!Next, Outgoing!Send, TransmittedNumbers
<1>2. CASE Sent' = Sent /\ onAir' = onAir
  BY <1>2 DEF TransmittedNumbers
<1>3. CASE Sent' = Sent /\ TxDone
  <2>1. opmode = "TX" /\ opmode' # "TX" /\ onAir' = Append(onAir, fifo)
    BY <1>3 DEF TxDone
  <2>2. /\ Len(onAir') = Len(onAir) + 1 /\ DOMAIN onAir' = 1 .. Len(onAir) + 1
        /\ onAir'[Len(onAir) + 1] = fifo
        /\ \A j \in DOMAIN onAir : onAir'[j] = onAir[j]
    BY <1>0, <2>1
  <2>3. Len(onAir) < Sent
    <3>1. Sent \in Int
      BY <1>0 DEF Sent
    <3> HIDE DEF Sent
    <3> QED  BY <1>0, <2>1, <3>1 DEF Done, One
  <2>4. TransmittedNumbers' = Append(TransmittedNumbers, NumberFrom("shield", fifo))
    <3>1. TransmittedNumbers' \in [1 .. Len(onAir) + 1 -> Nat]
      <4>1. TransmittedNumbers' \in [1 .. Len(onAir') -> Nat]
        BY <1>0, NumbersType DEF TransmittedNumbers, TypeOK
      <4>2. Len(onAir') = Len(onAir) + 1
        BY <2>2
      <4> QED  BY <4>1, <4>2
    <3> HIDE DEF NumberFrom
    <3>2. \A j \in 1 .. Len(onAir) : TransmittedNumbers'[j] = TransmittedNumbers[j]
      BY <1>0, <2>2 DEF TransmittedNumbers
    <3>3. TransmittedNumbers'[Len(onAir) + 1] = NumberFrom("shield", fifo)
      BY <1>0, <2>2 DEF TransmittedNumbers
    <3> HIDE DEF TransmittedNumbers
    <3>4. TransmittedNumbers' = Append(TransmittedNumbers, TransmittedNumbers'[Len(onAir) + 1])
      BY <1>0, <3>1, <3>2, OneMore
    <3> QED  BY <3>3, <3>4
  <2>5. Len(TransmittedNumbers) = Len(onAir) /\ DOMAIN TransmittedNumbers = DOMAIN onAir
    BY <1>0
  <2>6. CASE fifo.from = "shield"
    <3>1. fifo.seq = Sent /\ NumberFrom("shield", fifo) = Sent /\ Sent # 0 /\ Sent \in Nat
      BY <1>0, <2>1, <2>6, Numbers, PacketFacts DEF SendInv, AirInv, FifoIsSent
    <3> HIDE DEF Sent
    <3>2. \A j \in DOMAIN onAir : TransmittedNumbers[j] < Sent
      <4> SUFFICES ASSUME NEW j \in DOMAIN onAir PROVE TransmittedNumbers[j] < Sent
        OBVIOUS
      <4>1. TransmittedNumbers[j] = NumberFrom("shield", onAir[j])
        BY DEF TransmittedNumbers
      <4>2. onAir[j].from = "shield" => onAir[j].seq < fifo.seq
        BY <2>1, <2>6 DEF SendInv, AirInv, FifoIsNext
      <4> QED  BY <3>1, <4>1, <4>2 DEF NumberFrom
    <3>3. Outgoing!Arrive
      <4> HIDE DEF NumberFrom
      <4> QED  BY <1>3, <2>3, <2>4, <2>5, <3>1, <3>2
        DEF Outgoing!Arrive, Outgoing!Occupied, TransmittedNumbers
    <3> QED  BY <3>3 DEF Outgoing!Next
  <2>7. CASE fifo.from # "shield"
    <3>1. NumberFrom("shield", fifo) = 0
      BY <2>7 DEF NumberFrom
    <3>2. Sent \in crossed
      <4> SUFFICES ASSUME Sent \notin crossed PROVE FALSE
        OBVIOUS
      <4>1. Append(onAir, fifo) = Append(onAir, Own(Sent))
        BY <2>1, CutStep
      <4>2. Append(onAir, fifo)[Len(onAir) + 1] = fifo
        BY <1>0
      <4>3. Append(onAir, Own(Sent))[Len(onAir) + 1] = Own(Sent)
        BY <1>0
      <4>4. Own(Sent).from = "shield"
        BY DEF Own, Packet
      <4> QED  BY <2>7, <4>1, <4>2, <4>3, <4>4
    <3> HIDE DEF Sent
    <3>3. Outgoing!Garble
      <4> HIDE DEF NumberFrom
      <4> QED  BY <1>3, <2>3, <2>4, <2>5, <3>1, <3>2 DEF Outgoing!Garble, TransmittedNumbers
    <3> QED  BY <3>3 DEF Outgoing!Next
  <2> QED  BY <2>6, <2>7
<1> QED  BY <1>1, <1>2, <1>3, TxSteps

\* PacketHandler::send_pkt and LoRa::send (packethandler.cpp, lora.cpp) implement a
\* channel with one place: each packet is on the air, whole and once, before the chip
\* is put in TX mode for the next. Only a packet whose sending met the interrupt task,
\* or that send_pkt came too early after, may be missing, or something else be there
\* for it.
THEOREM LinkTransmitsAsChannel == Spec => TransmitsAsChannel
<1>1. Init => Outgoing!Init
  BY DEF Init, Outgoing!Init, Sent, Unsent, ReceiveModePc, Threads
<1>2. Init => SendInv
  BY SendInit
<1>3. Init => Done
  BY DEF Init, Done, One, Sent, Unsent, ReceiveModePc, Threads
<1>4. SendInv /\ [Next]_vars => SendInv'
  BY SendStep
<1>5. SendInv /\ Done /\ [Next]_vars => Done'
  BY DoneStep
<1>6. SendInv /\ Done /\ [Next]_vars => [Outgoing!Next]_<<Sent, TransmittedNumbers>>
  BY OutgoingStep
<1> QED  BY <1>1, <1>2, <1>3, <1>4, <1>5, <1>6, PTL
  DEF Spec, TransmitsAsChannel, Outgoing!Spec, TransmittedNumbers
=============================================================================
