--------------------------- MODULE StartupProofs ---------------------------
(***************************************************************************)
(* Proofs about Startup for any number of lives, packets and presets, and  *)
(* wherever the process is killed: whose cipher context a message is sent  *)
(* with, the types, the configuration of the modem, which rests on what    *)
(* one preset does to any registers (RadioConfigProofs), and that the chip *)
(* listens once start-up is over.                                          *)
(***************************************************************************)
EXTENDS Startup, RadioConfigProofs, LoraLinkProofs, TLAPS

-----------------------------------------------------------------------------
(* The cipher context *)

\* The socket thread is in on_data: within a packet, or between two of them.
Talking == pc["socket"] # "idle" \/ Handshake(cur)

\* As long as it is, it owns phMutex and the cipher context is its own.
OwnsContext ==
    /\ cur \in Nat
    /\ DOMAIN pc = Threads
    /\ Talking => phMutex = "socket" /\ ctx = "own"
    /\ InitLeavesSendAlone

-----------------------------------------------------------------------------

(* No step of the socket thread inside LoRa::send begins where send_pkt rests. *)
LEMMA SendingIsTalking ==
    ASSUME DOMAIN pc = Threads, LockSend \/ Sending
    PROVE  pc["socket"] # "idle" /\ cur' = cur /\ DOMAIN pc' = Threads
<1> USE DEF Goto, soft
<1>1. CASE LockSend
  BY <1>1 DEF LockSend
<1>2. CASE CheckBusy \/ SendStandby \/ lora_clear_interrupt_tx_done \/ write_fifo
  BY <1>2 DEF CheckBusy, SendStandby, lora_clear_interrupt_tx_done, write_fifo
<1>3. CASE StartTx \/ TransmitModeMapDio \/ TransmitModeSoft \/ UnlockSend
  BY <1>3 DEF StartTx, TransmitModeMapDio, TransmitModeSoft, UnlockSend
<1>4. CASE set_receive_mode("socket")
  BY <1>4 DEF set_receive_mode, ReceiveModeClearIrq, ReceiveModeSet, ReceiveModeMapDio,
              ReceiveModeSoft
<1> QED  BY <1>1, <1>2, <1>3, <1>4 DEF Sending

(* The interrupt thread moves neither the socket thread nor its packet. *)
LEMMA HandlingKeepsSocket ==
    ASSUME DOMAIN pc = Threads, TakeEdge \/ LockReceive \/ Handling
    PROVE  pc'["socket"] = pc["socket"] /\ cur' = cur /\ DOMAIN pc' = Threads
<1> USE DEF Goto, soft, Threads
<1>1. CASE TakeEdge \/ LockReceive
  BY <1>1 DEF TakeEdge, LockReceive
<1>2. CASE IfTransmit \/ IfReceive \/ ReceiveWaitEnds \/ ReadIrq
  BY <1>2 DEF IfTransmit, IfReceive, ReceiveWaitEnds, ReadIrq
<1>3. CASE ClearRxIrq \/ read_fifo \/ UnlockReceive
  BY <1>3 DEF ClearRxIrq, read_fifo, UnlockReceive
<1>4. CASE set_receive_mode("isr")
  BY <1>4 DEF set_receive_mode, ReceiveModeClearIrq, ReceiveModeSet, ReceiveModeMapDio,
              ReceiveModeSoft
<1> QED  BY <1>1, <1>2, <1>3, <1>4 DEF Handling

(* Of main's steps only packetHandler.init touches the context. *)
LEMMA MainKeepsSocket ==
    ASSUME MainRuns
    PROVE  /\ UNCHANGED <<pc, cur, phMutex, ciphered>>
           /\ UNCHANGED ctx \/ phMutex = "none"
<1> USE DEF vars, system, soft, cipher
<1>1. CASE RegisterIsr \/ BeginSpi \/ CheckVersion \/ Configure
  BY <1>1 DEF RegisterIsr, BeginSpi, CheckVersion, Configure
<1>2. CASE lora_mode_sleep \/ lora_mode_standby \/ MainReceive
  BY <1>2 DEF lora_mode_sleep, lora_mode_standby, MainReceive, MainMode
<1>3. CASE MainClearIrq \/ MainMapDio \/ MainSoft
  BY <1>3 DEF MainClearIrq, MainMapDio, MainSoft
<1>4. CASE LockPreset \/ UnlockPreset
  BY <1>4 DEF LockPreset, UnlockPreset
<1>5. CASE InitPacketHandler \/ LoopEnds \/ JoinSocketThread
  BY <1>5 DEF InitPacketHandler, LoopEnds, JoinSocketThread
<1> QED  BY <1>1, <1>2, <1>3, <1>4, <1>5 DEF MainRuns, MainStarts

\* The start: no process, no context.
LEMMA ContextInit == BootInit => OwnsContext
BY DEF BootInit, OwnsContext, Talking, Handshake, InitLeavesSendAlone, Threads

\* Every step of main, the threads and the chip keeps it.
LEMMA ContextStep == OwnsContext /\ [BootNext]_allVars => OwnsContext'
<1> SUFFICES ASSUME OwnsContext, [BootNext]_allVars PROVE OwnsContext'
  OBVIOUS
<1> USE DEF OwnsContext, Talking, InitLeavesSendAlone
<1>1. CASE MainRuns
  BY <1>1, MainKeepsSocket DEF Handshake
<1>2. CASE Exit \/ Segfault \/ Crash
  BY <1>2 DEF Exit, Segfault, Crash, NoProcess, Handshake, Threads
<1>3. CASE Restart \/ Sigint
  BY <1>3 DEF Restart, Sigint, vars, system, soft, cipher, Handshake
<1>4. CASE BeginHandshake
  BY <1>4 DEF BeginHandshake, BeginSendPkt, Goto, Threads
<1>5. CASE BeginFragment
  <2>1. cur' = cur + 1 /\ pc' = [pc EXCEPT !["socket"] = "lock"]
    BY <1>5 DEF BeginFragment, BeginSendPkt, Goto
  <2>2. Handshake(cur)
    BY <1>5, <2>1 DEF BeginFragment, Handshake
  <2> QED  BY <1>5, <2>1, <2>2 DEF BeginFragment
<1>6. CASE SocketRuns
  <2>1. pc["socket"] # "idle" /\ cur' = cur /\ DOMAIN pc' = Threads
    BY <1>6, SendingIsTalking DEF SocketRuns
  <2>2. ctx' = ctx /\ ciphered' = ciphered
    BY <1>6 DEF SocketRuns
  <2>3. phMutex' = IF pc'["socket"] = "idle" /\ ~Handshake(cur) THEN "none" ELSE phMutex
    BY <1>6, <2>1 DEF SocketRuns, ReleasePhMutex
  <2> QED  BY <2>1, <2>2, <2>3 DEF Handshake
<1>7. CASE IsrRuns
  BY <1>7, HandlingKeepsSocket DEF IsrRuns, cipher, Handshake
<1>8. CASE ChipRuns
  BY <1>8 DEF ChipRuns, TxDone, RxHeader, RxDone, soft, boot, cipher, Handshake
<1>9. CASE UNCHANGED allVars
  BY <1>9 DEF allVars, vars, system, soft, boot, cipher, Handshake
<1> QED
  BY <1>1, <1>2, <1>3, <1>4, <1>5, <1>6, <1>7, <1>8, <1>9 DEF BootNext, Ends, BootMoves, Stopped

(***************************************************************************)
(* The socket thread runs before main (main.cpp 26) and may be sending when *)
(* main calls packetHandler.init (main.cpp 40-41): the context a message is *)
(* enciphered with is the one its handshake set, never the one of init, and *)
(* never that of an earlier process.                                        *)
(***************************************************************************)
THEOREM InitNeverReplacesContext == BootSpec => []InitLeavesSendAlone
<1>1. BootInit => OwnsContext
  BY ContextInit
<1>2. OwnsContext /\ [BootNext]_allVars => OwnsContext'
  BY ContextStep
<1>3. OwnsContext => InitLeavesSendAlone
  BY DEF OwnsContext
<1> QED  BY <1>1, <1>2, <1>3, PTL DEF BootSpec

-----------------------------------------------------------------------------
(* main's program *)

Steps == Setters \cup {"isr", "spi", "version", "sleep", "standby", "rm_irq", "rm_mode", "rm_dio",
                       "rm_soft", "lock", "unlock", "ph_init", "loop", "join_socket",
                       "join_housekeeping"}

Calls == [do : Steps, arg : Int]

\* Where the elements of two sequences are in their concatenation.
Joined(s, t, u) ==
    /\ u \in Seq(Calls) /\ Len(u) = Len(s) + Len(t)
    /\ \A i \in 1 .. Len(s) : u[i] = s[i]
    /\ \A i \in 1 .. Len(t) : u[Len(s) + i] = t[i]

\* The three facts about a concatenation that the proofs below use.
LEMMA ConcatAt ==
    ASSUME NEW s \in Seq(Calls), NEW t \in Seq(Calls)
    PROVE  Joined(s, t, s \o t)
<1>1. s \o t \in Seq(Calls) /\ Len(s \o t) = Len(s) + Len(t)
  OBVIOUS
<1>2. ASSUME NEW i \in 1 .. Len(s) PROVE (s \o t)[i] = s[i]
  OBVIOUS
<1>3. ASSUME NEW i \in 1 .. Len(t) PROVE (s \o t)[Len(s) + i] = t[i]
  OBVIOUS
<1> QED  BY <1>1, <1>2, <1>3 DEF Joined

\* What Do and Call build.
LEMMA CallsAre ==
    /\ \A r \in Steps, n \in Int : Call(r, n) \in Calls /\ Call(r, n).do = r
    /\ \A r \in Steps : Do(r) \in Calls /\ Do(r).do = r
BY DEF Do, Call, Calls

\* The four parts that main's program is made of.
LEMMA PartsAre ==
    /\ SetReceiveMode \in Seq(Calls) /\ Len(SetReceiveMode) = 4
    /\ InitCalls \in Seq(Calls) /\ Len(InitCalls) = 7
    /\ \A p \in {"long", "short"} : PresetCalls(p) \in Seq(Calls) /\ Len(PresetCalls(p)) = 6
    /\ SetReceiveMode[1].do = "rm_irq" /\ SetReceiveMode[2].do = "rm_mode"
    /\ SetReceiveMode[3].do = "rm_dio" /\ SetReceiveMode[4].do = "rm_soft"
    /\ \A k \in 1 .. 7 : InitCalls[k].do \in Setters
    /\ \A p \in {"long", "short"}, k \in 1 .. 6 : PresetCalls(p)[k].do \in Setters
<1> USE CallsAre DEF Steps, Setters
<1>1. SetReceiveMode \in Seq(Calls) /\ Len(SetReceiveMode) = 4
  BY DEF SetReceiveMode
<1>2. InitCalls \in Seq(Calls) /\ Len(InitCalls) = 7
  BY DEF InitCalls
<1>3. ASSUME NEW p \in {"long", "short"}
      PROVE  PresetCalls(p) \in Seq(Calls) /\ Len(PresetCalls(p)) = 6
  <2>1. /\ Wanted[p].sf \in Int /\ Wanted[p].bw \in Int /\ Wanted[p].cr \in Int
        /\ Wanted[p].power \in Int /\ Wanted[p].preamble \in Int /\ Wanted[p].crc \in Int
    <3>1. CASE p = "long"
      BY <3>1, WantedAre
    <3>2. CASE p = "short"
      BY <3>2, WantedAre
    <3> QED  BY <3>1, <3>2
  <2>2. ASSUME NEW S, NEW a \in S, NEW b \in S, NEW c \in S, NEW d \in S, NEW e \in S, NEW f \in S
        PROVE  <<a, b, c, d, e, f>> \in Seq(S) /\ Len(<<a, b, c, d, e, f>>) = 6
    OBVIOUS
  <2>3. /\ Call("spreading_factor", Wanted[p].sf) \in Calls
        /\ Call("signal_bandwidth", Wanted[p].bw) \in Calls
        /\ Call("coding_rate", Wanted[p].cr) \in Calls
        /\ Call("tx_power", Wanted[p].power) \in Calls
        /\ Call("preamble_length", Wanted[p].preamble) \in Calls
        /\ Call("crc", Wanted[p].crc) \in Calls
    BY <2>1
  <2> QED  BY <2>2, <2>3, Zenon DEF PresetCalls
<1>4. /\ SetReceiveMode[1].do = "rm_irq" /\ SetReceiveMode[2].do = "rm_mode"
      /\ SetReceiveMode[3].do = "rm_dio" /\ SetReceiveMode[4].do = "rm_soft"
  BY DEF SetReceiveMode
<1>5. ASSUME NEW k \in 1 .. 7 PROVE InitCalls[k].do \in Setters
  BY DEF InitCalls, Call
<1>6. ASSUME NEW p \in {"long", "short"}, NEW k \in 1 .. 6 PROVE PresetCalls(p)[k].do \in Setters
  BY DEF PresetCalls, Call
<1> QED  BY <1>1, <1>2, <1>3, <1>4, <1>5, <1>6

\* LoRa::init, step by step.
LEMMA InitStepsAt ==
    /\ InitSteps \in Seq(Calls) /\ Len(InitSteps) = 17
    /\ InitSteps[1] = Do("isr") /\ InitSteps[2] = Do("spi") /\ InitSteps[3] = Do("version")
    /\ InitSteps[4] = Do("sleep") /\ InitSteps[5] = Do("sleep")
    /\ \A i \in 1 .. 7 : InitSteps[5 + i] = InitCalls[i]
    /\ InitSteps[13] = Do("standby")
    /\ \A i \in 1 .. 4 : InitSteps[13 + i] = SetReceiveMode[i]
<1> DEFINE lead == <<Do("isr"), Do("spi"), Do("version"), Do("sleep"), Do("sleep")>>
           standby == <<Do("standby")>>
           s1 == lead \o InitCalls
           s2 == s1 \o standby
<1>1. lead \in Seq(Calls) /\ standby \in Seq(Calls)
  BY CallsAre DEF Steps
<1>2. /\ Len(lead) = 5 /\ Len(standby) = 1 /\ standby[1] = Do("standby")
      /\ lead[1] = Do("isr") /\ lead[2] = Do("spi") /\ lead[3] = Do("version")
      /\ lead[4] = Do("sleep") /\ lead[5] = Do("sleep")
  OBVIOUS
<1>3. InitSteps = s2 \o SetReceiveMode
  BY DEF InitSteps
<1>4. InitCalls \in Seq(Calls) /\ SetReceiveMode \in Seq(Calls)
  BY PartsAre
<1> HIDE DEF lead, standby
<1>5. Joined(lead, InitCalls, s1)
  BY <1>1, <1>4, ConcatAt
<1> HIDE DEF s1
<1>6. Joined(s1, standby, s2)
  BY <1>1, <1>5, ConcatAt DEF Joined
<1> HIDE DEF s2
<1>7. Joined(s2, SetReceiveMode, InitSteps)
  <2>1. s2 \in Seq(Calls)
    BY <1>6 DEF Joined
  <2> QED  BY <1>3, <1>4, <2>1, ConcatAt
<1>8. Len(s1) = 12 /\ Len(s2) = 13 /\ InitSteps \in Seq(Calls) /\ Len(InitSteps) = 17
  BY <1>2, <1>5, <1>6, <1>7, PartsAre DEF Joined
<1>9. \A i \in 1 .. 13 : InitSteps[i] = s2[i]
  BY <1>7, <1>8 DEF Joined
<1>10. ASSUME NEW i \in 1 .. 12 PROVE InitSteps[i] = s1[i]
  <2>1. i \in 1 .. 13 /\ s2[i] = s1[i]
    BY <1>6, <1>8 DEF Joined
  <2> QED  BY <1>9, <2>1
<1>11. ASSUME NEW i \in 1 .. 5 PROVE InitSteps[i] = lead[i]
  BY <1>2, <1>5, <1>10 DEF Joined
<1>12. ASSUME NEW i \in 1 .. 7 PROVE InitSteps[5 + i] = InitCalls[i]
  <2>1. s1[5 + i] = InitCalls[i]
    BY <1>2, <1>5, PartsAre DEF Joined
  <2> QED  BY <1>10, <2>1
<1>13. InitSteps[13] = Do("standby")
  <2>1. s2[12 + 1] = standby[1]
    BY <1>2, <1>6, <1>8 DEF Joined
  <2> QED  BY <1>2, <1>9, <2>1
<1>14. ASSUME NEW i \in 1 .. 4 PROVE InitSteps[13 + i] = SetReceiveMode[i]
  BY <1>7, <1>8, PartsAre DEF Joined
<1> QED  BY <1>2, <1>8, <1>11, <1>12, <1>13, <1>14

\* LoRa::set_long_range and LoRa::set_short_range, step by step.
LEMMA PresetStepsAt ==
    ASSUME NEW p \in {"long", "short"}
    PROVE  /\ PresetSteps(p) \in Seq(Calls) /\ Len(PresetSteps(p)) = 13
           /\ PresetSteps(p)[1] = Do("lock") /\ PresetSteps(p)[2] = Do("sleep")
           /\ \A i \in 1 .. 6 : PresetSteps(p)[2 + i] = PresetCalls(p)[i]
           /\ \A i \in 1 .. 4 : PresetSteps(p)[8 + i] = SetReceiveMode[i]
           /\ PresetSteps(p)[13] = Do("unlock")
<1> DEFINE lead == <<Do("lock"), Do("sleep")>>
           unlock == <<Do("unlock")>>
           s1 == lead \o PresetCalls(p)
           s2 == s1 \o SetReceiveMode
<1>1. lead \in Seq(Calls) /\ unlock \in Seq(Calls)
  BY CallsAre DEF Steps
<1>2. /\ Len(lead) = 2 /\ lead[1] = Do("lock") /\ lead[2] = Do("sleep")
      /\ Len(unlock) = 1 /\ unlock[1] = Do("unlock")
  OBVIOUS
<1>3. PresetSteps(p) = s2 \o unlock
  BY DEF PresetSteps
<1>4. PresetCalls(p) \in Seq(Calls) /\ SetReceiveMode \in Seq(Calls)
  BY PartsAre
<1> HIDE DEF lead, unlock
<1>5. Joined(lead, PresetCalls(p), s1)
  BY <1>1, <1>4, ConcatAt
<1> HIDE DEF s1
<1>6. Joined(s1, SetReceiveMode, s2)
  BY <1>4, <1>5, ConcatAt DEF Joined
<1> HIDE DEF s2
<1>7. Joined(s2, unlock, PresetSteps(p))
  <2>1. s2 \in Seq(Calls)
    BY <1>6 DEF Joined
  <2> QED  BY <1>1, <1>3, <2>1, ConcatAt
<1>8. /\ Len(s1) = 8 /\ Len(s2) = 12
      /\ PresetSteps(p) \in Seq(Calls) /\ Len(PresetSteps(p)) = 13
  <2>1. Len(PresetCalls(p)) = 6 /\ Len(SetReceiveMode) = 4
    BY PartsAre
  <2> QED  BY <1>2, <1>5, <1>6, <1>7, <2>1 DEF Joined
<1>9. \A i \in 1 .. 12 : PresetSteps(p)[i] = s2[i]
  BY <1>7, <1>8 DEF Joined
<1>10. ASSUME NEW i \in 1 .. 8 PROVE PresetSteps(p)[i] = s1[i]
  BY <1>6, <1>8, <1>9 DEF Joined
<1>11. ASSUME NEW i \in 1 .. 2 PROVE PresetSteps(p)[i] = lead[i]
  BY <1>2, <1>5, <1>10 DEF Joined
<1>12. ASSUME NEW i \in 1 .. 6 PROVE PresetSteps(p)[2 + i] = PresetCalls(p)[i]
  <2>1. s1[2 + i] = PresetCalls(p)[i]
    BY <1>2, <1>5, PartsAre DEF Joined
  <2> QED  BY <1>10, <2>1
<1>13. ASSUME NEW i \in 1 .. 4 PROVE PresetSteps(p)[8 + i] = SetReceiveMode[i]
  <2>1. s2[8 + i] = SetReceiveMode[i]
    BY <1>6, <1>8, PartsAre DEF Joined
  <2> QED  BY <1>9, <2>1
<1>14. PresetSteps(p)[13] = Do("unlock")
  <2>1. PresetSteps(p)[12 + 1] = unlock[1]
    BY <1>2, <1>7, <1>8 DEF Joined
  <2> QED  BY <1>2, <2>1
<1> QED  BY <1>2, <1>8, <1>11, <1>12, <1>13, <1>14

\* main, step by step.
LEMMA ProgramAt ==
    ASSUME NEW p \in {"long", "short"}
    PROVE  /\ Len(Program[p]) = 34
           /\ \A i \in 1 .. 17 : Program[p][i] = InitSteps[i]
           /\ \A i \in 1 .. 13 : Program[p][17 + i] = PresetSteps(p)[i]
           /\ Program[p][31] = Do("ph_init") /\ Program[p][32] = Do("loop")
           /\ Program[p][33] = Do("join_socket") /\ Program[p][34] = Do("join_housekeeping")
<1> DEFINE tail == <<Do("ph_init"), Do("loop"), Do("join_socket"), Do("join_housekeeping")>>
           s == InitSteps \o PresetSteps(p)
<1>1. tail \in Seq(Calls)
  BY CallsAre DEF Steps
<1>2. /\ Len(tail) = 4 /\ tail[1] = Do("ph_init") /\ tail[2] = Do("loop")
      /\ tail[3] = Do("join_socket") /\ tail[4] = Do("join_housekeeping")
  OBVIOUS
<1>3. Program[p] = s \o tail
  BY DEF Program
<1>4. InitSteps \in Seq(Calls) /\ PresetSteps(p) \in Seq(Calls)
  BY InitStepsAt, PresetStepsAt
<1> HIDE DEF tail
<1>5. Joined(InitSteps, PresetSteps(p), s)
  BY <1>4, ConcatAt
<1> HIDE DEF s
<1>6. Joined(s, tail, Program[p])
  <2>1. s \in Seq(Calls)
    BY <1>5 DEF Joined
  <2> QED  BY <1>1, <1>3, <2>1, ConcatAt
<1>7. Len(s) = 30 /\ Len(Program[p]) = 34
  <2>1. Len(InitSteps) = 17 /\ Len(PresetSteps(p)) = 13
    BY InitStepsAt, PresetStepsAt
  <2> QED  BY <1>2, <1>5, <1>6, <2>1 DEF Joined
<1>8. \A i \in 1 .. 30 : Program[p][i] = s[i]
  BY <1>6, <1>7 DEF Joined
<1>9. ASSUME NEW i \in 1 .. 17 PROVE Program[p][i] = InitSteps[i]
  <2>1. Len(InitSteps) = 17
    BY InitStepsAt
  <2>2. s[i] = InitSteps[i]
    BY <1>5, <2>1 DEF Joined
  <2> QED  BY <1>8, <2>2
<1>10. ASSUME NEW i \in 1 .. 13 PROVE Program[p][17 + i] = PresetSteps(p)[i]
  <2>1. s[17 + i] = PresetSteps(p)[i]
    <3>1. Len(InitSteps) = 17 /\ Len(PresetSteps(p)) = 13
      BY InitStepsAt, PresetStepsAt
    <3> QED  BY <1>5, <3>1 DEF Joined
  <2> QED  BY <1>8, <2>1
<1>11. ASSUME NEW i \in 1 .. 4 PROVE Program[p][30 + i] = tail[i]
  BY <1>2, <1>6, <1>7 DEF Joined
<1>12. /\ Program[p][31] = tail[1] /\ Program[p][32] = tail[2]
       /\ Program[p][33] = tail[3] /\ Program[p][34] = tail[4]
  <2>1. 30 + 1 = 31 /\ 30 + 2 = 32 /\ 30 + 3 = 33 /\ 30 + 4 = 34
    OBVIOUS
  <2> QED  BY <1>11, <2>1
<1> QED  BY <1>2, <1>7, <1>9, <1>10, <1>12

\* Which routine main is about to call, by its place.
LEMMA MainAt ==
    ASSUME preset \in {"long", "short"}, at \in 0 .. 34
    PROVE  /\ (main = "down" <=> at = 0)
           /\ (main = "isr" <=> at = 1)                /\ (main = "spi" <=> at = 2)
           /\ (main = "version" <=> at = 3)            /\ (main = "sleep" <=> at \in {4, 5, 19})
           /\ (main \in Setters <=> at \in 6 .. 12 \cup 20 .. 25)
           /\ (main = "standby" <=> at = 13)           /\ (main = "rm_irq" <=> at \in {14, 26})
           /\ (main = "rm_mode" <=> at \in {15, 27})   /\ (main = "rm_dio" <=> at \in {16, 28})
           /\ (main = "rm_soft" <=> at \in {17, 29})   /\ (main = "lock" <=> at = 18)
           /\ (main = "unlock" <=> at = 30)            /\ (main = "ph_init" <=> at = 31)
           /\ (main = "loop" <=> at = 32)              /\ (main = "join_socket" <=> at = 33)
           /\ (main = "join_housekeeping" <=> at = 34)
           /\ at \in 6 .. 12 => Program[preset][at] = InitCalls[at - 5]
           /\ at \in 20 .. 25 => Program[preset][at] = PresetCalls(preset)[at - 19]
           /\ Len(Program[preset]) = 34 /\ Len(InitSteps) = 17
<1> DEFINE P(i) == Program[preset][i].do
<1>1. /\ P(1) = "isr" /\ P(2) = "spi" /\ P(3) = "version" /\ P(4) = "sleep" /\ P(5) = "sleep"
      /\ P(13) = "standby"
  <2>1. \A i \in 1 .. 17 : Program[preset][i] = InitSteps[i]
    BY ProgramAt
  <2> QED  BY <2>1, InitStepsAt, CallsAre DEF Steps
<1>2. P(18) = "lock" /\ P(19) = "sleep" /\ P(30) = "unlock"
  <2>1. \A i \in 1 .. 13 : Program[preset][17 + i] = PresetSteps(preset)[i]
    BY ProgramAt
  <2>2. /\ PresetSteps(preset)[1] = Do("lock") /\ PresetSteps(preset)[2] = Do("sleep")
        /\ PresetSteps(preset)[13] = Do("unlock")
    BY PresetStepsAt
  <2>3. 17 + 1 = 18 /\ 17 + 2 = 19 /\ 17 + 13 = 30
    OBVIOUS
  <2>4. /\ Program[preset][18] = Do("lock") /\ Program[preset][19] = Do("sleep")
        /\ Program[preset][30] = Do("unlock")
    BY <2>1, <2>2, <2>3
  <2> QED  BY <2>4, CallsAre DEF Steps
<1>3. /\ P(31) = "ph_init" /\ P(32) = "loop" /\ P(33) = "join_socket"
      /\ P(34) = "join_housekeeping"
  <2>1. /\ Program[preset][31] = Do("ph_init") /\ Program[preset][32] = Do("loop")
        /\ Program[preset][33] = Do("join_socket") /\ Program[preset][34] = Do("join_housekeeping")
    BY ProgramAt
  <2> QED  BY <2>1, CallsAre DEF Steps
<1>4. ASSUME NEW i \in 1 .. 4
      PROVE  P(13 + i) = SetReceiveMode[i].do /\ P(25 + i) = SetReceiveMode[i].do
  <2>1. Program[preset][13 + i] = SetReceiveMode[i]
    <3>1. 13 + i \in 1 .. 17 /\ InitSteps[13 + i] = SetReceiveMode[i]
      BY InitStepsAt
    <3> QED  BY <3>1, ProgramAt
  <2>2. \A j \in 1 .. 13 : Program[preset][17 + j] = PresetSteps(preset)[j]
    BY ProgramAt
  <2>3. PresetSteps(preset)[8 + i] = SetReceiveMode[i]
    BY PresetStepsAt
  <2>4. 25 + i = 17 + (8 + i) /\ 8 + i \in 1 .. 13
    OBVIOUS
  <2>5. Program[preset][25 + i] = SetReceiveMode[i]
    BY <2>2, <2>3, <2>4
  <2> QED  BY <2>1, <2>5
<1>5. /\ P(14) = "rm_irq" /\ P(15) = "rm_mode" /\ P(16) = "rm_dio" /\ P(17) = "rm_soft"
      /\ P(26) = "rm_irq" /\ P(27) = "rm_mode" /\ P(28) = "rm_dio" /\ P(29) = "rm_soft"
  <2> HIDE DEF P
  <2>1. /\ 13 + 1 = 14 /\ 13 + 2 = 15 /\ 13 + 3 = 16 /\ 13 + 4 = 17
        /\ 25 + 1 = 26 /\ 25 + 2 = 27 /\ 25 + 3 = 28 /\ 25 + 4 = 29
    OBVIOUS
  <2> QED  BY <1>4, <2>1, PartsAre
<1>6. ASSUME NEW i \in 6 .. 12
      PROVE  Program[preset][i] = InitCalls[i - 5] /\ P(i) \in Setters
  <2>1. i - 5 \in 1 .. 7 /\ 5 + (i - 5) = i /\ i \in 1 .. 17
    OBVIOUS
  <2>2. Program[preset][i] = InitSteps[i] /\ InitSteps[5 + (i - 5)] = InitCalls[i - 5]
    BY <2>1, ProgramAt, InitStepsAt
  <2>3. Program[preset][i] = InitCalls[i - 5]
    BY <2>1, <2>2
  <2> QED  BY <2>1, <2>3, PartsAre
<1>7. ASSUME NEW i \in 20 .. 25
      PROVE  Program[preset][i] = PresetCalls(preset)[i - 19] /\ P(i) \in Setters
  <2>1. /\ i - 19 \in 1 .. 6 /\ 2 + (i - 19) \in 1 .. 13 /\ 17 + (2 + (i - 19)) = i
    OBVIOUS
  <2>2. /\ \A j \in 1 .. 13 : Program[preset][17 + j] = PresetSteps(preset)[j]
        /\ \A j \in 1 .. 6 : PresetSteps(preset)[2 + j] = PresetCalls(preset)[j]
    BY ProgramAt, PresetStepsAt
  <2>3. Program[preset][i] = PresetCalls(preset)[i - 19]
    BY <2>1, <2>2
  <2> QED  BY <2>1, <2>3, PartsAre
<1>8. main = IF at = 0 THEN "down" ELSE P(at)
  BY DEF main
<1> HIDE DEF P
<1>9. /\ at \in 6 .. 12 => Program[preset][at] = InitCalls[at - 5]
      /\ at \in 20 .. 25 => Program[preset][at] = PresetCalls(preset)[at - 19]
      /\ Len(Program[preset]) = 34 /\ Len(InitSteps) = 17
  BY <1>6, <1>7, ProgramAt, InitStepsAt
<1>10. CASE at \in 6 .. 12 \cup 20 .. 25
  <2>1. main \in Setters
    BY <1>6, <1>7, <1>8, <1>10
  <2> QED  BY <2>1, <1>9, <1>10 DEF Setters
<1>11. CASE at \in 0 .. 5 \cup 13 .. 19
  BY <1>1, <1>2, <1>5, <1>8, <1>9, <1>11 DEF Setters
<1>12. CASE at \in 26 .. 34
  BY <1>2, <1>3, <1>5, <1>8, <1>9, <1>12 DEF Setters
<1> QED  BY <1>10, <1>11, <1>12

-----------------------------------------------------------------------------
(* Type correctness *)

\* The variables of the link; the driver's sleep mode and main's hold of the
\* mutex come in addition to those of LoraLink.
LinkTyped ==
    /\ opmode \in Modes \cup {"SLEEP"}
    /\ irq \subseteq Flags /\ dio \in {"rx_done", "tx_done"}
    /\ fifo \in Packets /\ rxing \in Packets /\ edge \in BOOLEAN
    /\ mode \in {"Receive", "Transmit"}
    /\ mutex \in {"none", "main"} \cup Threads
    /\ pc \in [Threads -> SocketPc \cup IsrPc]
    /\ pc["socket"] \in SocketPc /\ pc["isr"] \in IsrPc
    /\ cur \in 0 .. NumOut /\ (pc["socket"] # "idle" => cur # 0)
    /\ heard \in 0 .. NumIn

\* The variables of the process.
ProcessTyped ==
    /\ reg \in RegisterFiles /\ lr \in BOOLEAN
    /\ life \in 0 .. Lives /\ at \in 0 .. 34 /\ preset \in Presets
    /\ initOk \in BOOLEAN /\ flag \in BOOLEAN
    /\ phMutex \in {"none", "socket"}
    /\ ctx \in {"none", "init", "own"} /\ ciphered \in {"none", "init", "own"}

BootTyped == LinkTyped /\ ProcessTyped

\* The preset is one of the two that Program has.
LEMMA PresetKnown ==
    ASSUME ProcessTyped PROVE preset \in {"long", "short"} /\ at \in 0 .. 34
BY StartupAssumption DEF ProcessTyped

\* BootTyped is StartupTypeOK and what is needed to keep it.
LEMMA TypedIsTypeOK == BootTyped => StartupTypeOK
<1> SUFFICES ASSUME BootTyped PROVE StartupTypeOK
  OBVIOUS
<1>1. Len(Program[preset]) = 34
  BY PresetKnown, ProgramAt DEF BootTyped
<1> QED  BY <1>1 DEF BootTyped, LinkTyped, ProcessTyped, StartupTypeOK

\* The types at power-on.
LEMMA BootTypedInit == BootInit => BootTyped
<1> SUFFICES ASSUME BootInit PROVE BootTyped
  OBVIOUS
<1>1. LinkTyped
  <2>1. fifo \in Packets /\ rxing \in Packets
    BY PacketFacts DEF BootInit
  <2>2. cur \in 0 .. NumOut /\ heard \in 0 .. NumIn
    BY LinkAssumption DEF BootInit
  <2>3. /\ pc \in [Threads -> SocketPc \cup IsrPc]
        /\ pc["socket"] = "idle" /\ pc["isr"] = "wait"
    BY DEF BootInit, Threads, SocketPc, IsrPc
  <2> QED  BY <2>1, <2>2, <2>3 DEF BootInit, LinkTyped, Modes, Flags, SocketPc, IsrPc
<1>2. reg \in RegisterFiles
  <2>1. \A r \in Registers : ResetValues[r] \in Byte
    BY BitsByte DEF ResetValues
  <2> QED  BY <2>1 DEF BootInit, RegisterFiles, ResetValues
<1>3. life \in 0 .. Lives /\ at \in 0 .. 34
  BY StartupAssumption DEF BootInit
<1>4. ProcessTyped
  BY <1>2, <1>3 DEF BootInit, ProcessTyped
<1> QED  BY <1>1, <1>4 DEF BootTyped

\* LoRa::set_receive_mode, on whichever thread.
LEMMA ReceiveModeTyped ==
    ASSUME LinkTyped, NEW t \in Threads, set_receive_mode(t) PROVE LinkTyped'
<1> USE DEF LinkTyped, SocketPc, IsrPc, ReceiveModePc, Threads, Goto
<1>1. CASE ReceiveModeClearIrq(t)
  <2>1. irq' \subseteq Flags /\ dio' \in {"rx_done", "tx_done"} /\ edge' \in BOOLEAN
    BY <1>1, DriveType DEF ReceiveModeClearIrq
  <2> QED  BY <1>1, <2>1 DEF ReceiveModeClearIrq, soft, history
<1>2. CASE ReceiveModeSet(t)
  BY <1>2, PacketFacts DEF ReceiveModeSet, set_mode, soft, history, Modes
<1>3. CASE ReceiveModeMapDio(t)
  <2>1. irq' \subseteq Flags /\ dio' \in {"rx_done", "tx_done"} /\ edge' \in BOOLEAN
    BY <1>3, DriveType DEF ReceiveModeMapDio
  <2> QED  BY <1>3, <2>1 DEF ReceiveModeMapDio, soft, history
<1>4. CASE ReceiveModeSoft(t)
  BY <1>4 DEF ReceiveModeSoft, chip, history
<1> QED  BY <1>1, <1>2, <1>3, <1>4 DEF set_receive_mode

\* The steps of LoRa::send.
LEMMA SocketTyped == ASSUME LinkTyped, LockSend \/ Sending PROVE LinkTyped'
<1> USE DEF LinkTyped, SocketPc, IsrPc, ReceiveModePc, Threads, Goto
<1>1. CASE LockSend
  BY <1>1 DEF LockSend, chip, history
<1>2. CASE CheckBusy
  BY <1>2 DEF CheckBusy, chip, soft, history
<1>3. CASE SendStandby
  BY <1>3, PacketFacts DEF SendStandby, set_mode, soft, history, Modes
<1>4. CASE lora_clear_interrupt_tx_done
  <2>1. irq' \subseteq Flags /\ dio' \in {"rx_done", "tx_done"} /\ edge' \in BOOLEAN
    BY <1>4, DriveType DEF lora_clear_interrupt_tx_done, Flags
  <2> QED  BY <1>4, <2>1 DEF lora_clear_interrupt_tx_done, soft, history
<1>5. CASE write_fifo
  <2>1. Own(cur) \in Packets
    BY <1>5, PacketFacts, LinkAssumption DEF write_fifo
  <2> QED  BY <1>5, <2>1 DEF write_fifo, soft, history
<1>6. CASE StartTx
  BY <1>6, PacketFacts DEF StartTx, set_mode, soft, history, Modes
<1>7. CASE TransmitModeMapDio
  <2>1. irq' \subseteq Flags /\ dio' \in {"rx_done", "tx_done"} /\ edge' \in BOOLEAN
    BY <1>7, DriveType DEF TransmitModeMapDio, Flags
  <2> QED  BY <1>7, <2>1 DEF TransmitModeMapDio, soft, history
<1>8. CASE TransmitModeSoft
  BY <1>8 DEF TransmitModeSoft, chip, history
<1>9. CASE UnlockSend
  BY <1>9 DEF UnlockSend, chip, history
<1>10. CASE set_receive_mode("socket")
  BY <1>10, ReceiveModeTyped
<1> QED
  BY <1>1, <1>2, <1>3, <1>4, <1>5, <1>6, <1>7, <1>8, <1>9, <1>10 DEF Sending

\* The steps of the interrupt thread.
LEMMA IsrTyped == ASSUME LinkTyped, TakeEdge \/ LockReceive \/ Handling PROVE LinkTyped'
<1> USE DEF LinkTyped, SocketPc, IsrPc, ReceiveModePc, Threads, Goto
<1>1. CASE TakeEdge
  BY <1>1 DEF TakeEdge, soft, history
<1>2. CASE LockReceive
  BY <1>2 DEF LockReceive, chip, history
<1>3. CASE IfTransmit \/ IfReceive
  BY <1>3 DEF IfTransmit, IfReceive, chip, soft, history
<1>4. CASE ReceiveWaitEnds \/ ReadIrq
  BY <1>4 DEF ReceiveWaitEnds, ReadIrq, chip, soft, history
<1>5. CASE ClearRxIrq
  <2>1. irq' \subseteq Flags /\ dio' \in {"rx_done", "tx_done"} /\ edge' \in BOOLEAN
    BY <1>5, DriveType DEF ClearRxIrq, Flags
  <2> QED  BY <1>5, <2>1 DEF ClearRxIrq, history
<1>6. CASE read_fifo \/ UnlockReceive
  BY <1>6 DEF read_fifo, UnlockReceive, chip, soft, history
<1>7. CASE set_receive_mode("isr")
  BY <1>7, ReceiveModeTyped
<1> QED  BY <1>1, <1>2, <1>3, <1>4, <1>5, <1>6, <1>7 DEF Handling

\* The steps of the chip.
LEMMA ChipTyped == ASSUME LinkTyped, TxDone \/ RxHeader \/ RxDone PROVE LinkTyped'
<1> USE DEF LinkTyped
<1>1. CASE TxDone
  <2>1. irq' \subseteq Flags /\ dio' \in {"rx_done", "tx_done"} /\ edge' \in BOOLEAN
    BY <1>1, DriveType DEF TxDone, Flags
  <2> QED  BY <1>1, <2>1 DEF TxDone, soft, Modes
<1>2. CASE RxHeader
  <2>1. irq' \subseteq Flags /\ dio' \in {"rx_done", "tx_done"} /\ edge' \in BOOLEAN
    BY <1>2, DriveType DEF RxHeader, Flags
  <2>2. heard' \in 0 .. NumIn /\ heard' \in 1 .. NumIn
    BY <1>2, LinkAssumption DEF RxHeader
  <2>3. rxing' \in Packets
    BY <1>2, <2>2, PacketFacts DEF RxHeader
  <2> QED  BY <1>2, <2>1, <2>2, <2>3 DEF RxHeader, soft
<1>3. CASE RxDone
  <2>1. irq' \subseteq Flags /\ dio' \in {"rx_done", "tx_done"} /\ edge' \in BOOLEAN
    BY <1>3, DriveType DEF RxDone, Flags
  <2> QED  BY <1>3, <2>1, PacketFacts DEF RxDone, soft, history
<1> QED  BY <1>1, <1>2, <1>3

\* A process that ends leaves the chip as it is.
LEMMA NoProcessTyped == ASSUME BootTyped, NoProcess PROVE BootTyped'
<1> USE DEF BootTyped, NoProcess
<1>1. /\ pc' \in [Threads -> SocketPc \cup IsrPc]
      /\ pc'["socket"] = "idle" /\ pc'["isr"] = "wait"
  BY DEF Threads, SocketPc, IsrPc
<1>2. LinkTyped'
  <2>1. cur' \in 0 .. NumOut
    BY LinkAssumption
  <2> QED  BY <1>1, <2>1, PacketFacts DEF LinkTyped, SocketPc, IsrPc
<1>3. ProcessTyped'
  <2>1. at' \in 0 .. 34
    OBVIOUS
  <2> QED  BY <2>1 DEF ProcessTyped
<1> QED  BY <1>2, <1>3

\* A setter writes bytes.
LEMMA ConfigureTyped ==
    ASSUME ProcessTyped, Configure PROVE reg' \in RegisterFiles
<1> DEFINE new == Apply(reg, Program[preset][at])
<1>1. at \in 6 .. 12 \cup 20 .. 25
  BY PresetKnown, MainAt DEF Configure
<1>2. new \in RegisterFiles
  <2>1. CASE at \in 6 .. 12
    <3>1. Program[preset][at] = InitCalls[at - 5] /\ at - 5 \in 1 .. 7
      BY <2>1, PresetKnown, MainAt
    <3> QED  BY <3>1, InitCall DEF ProcessTyped
  <2>2. CASE at \in 20 .. 25
    <3>1. Program[preset][at] = PresetCalls(preset)[at - 19] /\ at - 19 \in 1 .. 6
      BY <2>2, PresetKnown, MainAt
    <3> QED  BY <3>1, PresetKnown, PresetCallType DEF ProcessTyped
  <2> QED  BY <1>1, <2>1, <2>2
<1>3. reg' = [r \in Registers |-> IF ~lr /\ r \in LoraPage THEN reg[r] ELSE new[r]]
  BY DEF Configure
<1> HIDE DEF new
<1> QED  BY <1>2, <1>3 DEF ProcessTyped, RegisterFiles

\* The steps of main.
LEMMA MainTyped == ASSUME BootTyped, MainRuns PROVE BootTyped'
<1> USE DEF BootTyped
<1>1. preset \in {"long", "short"} /\ at \in 0 .. 34
  BY PresetKnown
<1>2. ASSUME NEW s, Step(s), s \notin {"down", "join_housekeeping"} PROVE at' \in 0 .. 34
  BY <1>1, <1>2, MainAt DEF Step
<1>3. CASE RegisterIsr
  <2>1. at' \in 0 .. 34
    BY <1>2, <1>3 DEF RegisterIsr
  <2>2. edge' \in BOOLEAN /\ UNCHANGED <<irq, dio>>
    BY <1>3 DEF RegisterIsr
  <2> QED  BY <1>3, <2>1, <2>2 DEF RegisterIsr, soft, history, cipher, LinkTyped, ProcessTyped
<1>4. CASE BeginSpi \/ LoopEnds \/ JoinSocketThread
  BY <1>2, <1>4 DEF BeginSpi, LoopEnds, JoinSocketThread, vars, system, chip, soft, history, cipher,
     LinkTyped, ProcessTyped
<1>5. CASE CheckVersion
  <2>1. at' \in 0 .. 34 /\ initOk' \in BOOLEAN
    <3>1. at = 3 /\ Len(InitSteps) = 17
      BY <1>1, <1>5, MainAt DEF CheckVersion
    <3>2. at' = at + 1 \/ at' = Len(InitSteps) - 3
      BY <1>5 DEF CheckVersion
    <3>3. at' \in 0 .. 34
      BY <3>1, <3>2
    <3> QED  BY <1>5, <3>3 DEF CheckVersion
  <2> QED  BY <1>5, <2>1 DEF CheckVersion, vars, system, chip, soft, history, cipher, LinkTyped,
      ProcessTyped
<1>6. ASSUME NEW s, NEW m \in Modes \cup {"SLEEP"}, MainMode(s, m),
             s \notin {"down", "join_housekeeping"}
      PROVE  BootTyped'
  <2>1. at' \in 0 .. 34
    BY <1>2, <1>6 DEF MainMode
  <2>2. opmode' = m /\ rxing' \in Packets /\ lr' \in BOOLEAN
    BY <1>6, PacketFacts DEF MainMode, set_mode, LinkTyped, ProcessTyped
  <2> QED  BY <1>6, <2>1, <2>2 DEF MainMode, soft, history, cipher, LinkTyped, ProcessTyped
<1>7. CASE lora_mode_sleep \/ lora_mode_standby \/ MainReceive
  BY <1>6, <1>7 DEF lora_mode_sleep, lora_mode_standby, MainReceive, Modes
<1>8. CASE Configure
  <2>1. at' \in 0 .. 34
    BY <1>1, <1>8, MainAt DEF Configure
  <2>2. reg' \in RegisterFiles
    BY <1>8, ConfigureTyped
  <2> QED  BY <1>8, <2>1, <2>2 DEF Configure, vars, system, chip, soft, history, cipher, LinkTyped,
      ProcessTyped
<1>9. CASE MainClearIrq \/ MainMapDio
  <2>1. at' \in 0 .. 34
    BY <1>2, <1>9 DEF MainClearIrq, MainMapDio
  <2>2. irq' \subseteq Flags /\ dio' \in {"rx_done", "tx_done"} /\ edge' \in BOOLEAN
    BY <1>9, DriveType DEF MainClearIrq, MainMapDio, LinkTyped
  <2> QED  BY <1>9, <2>1, <2>2
    DEF MainClearIrq, MainMapDio, soft, history, cipher, LinkTyped, ProcessTyped
<1>10. CASE MainSoft \/ LockPreset \/ UnlockPreset
  BY <1>2, <1>10 DEF MainSoft, LockPreset, UnlockPreset, chip, history, cipher, LinkTyped,
     ProcessTyped
<1>11. CASE InitPacketHandler
  BY <1>2, <1>11 DEF InitPacketHandler, vars, system, chip, soft, history, LinkTyped, ProcessTyped
<1> QED  BY <1>3, <1>4, <1>5, <1>7, <1>8, <1>9, <1>10, <1>11 DEF MainRuns, MainStarts

\* Every step keeps the types.
LEMMA BootTypedStep == BootTyped /\ [BootNext]_allVars => BootTyped'
<1> SUFFICES ASSUME BootTyped, [BootNext]_allVars PROVE BootTyped'
  OBVIOUS
<1> USE DEF BootTyped
<1>1. CASE MainRuns
  BY <1>1, MainTyped
<1>2. CASE Exit \/ Segfault \/ Crash
  BY <1>2, NoProcessTyped DEF Exit, Segfault, Crash
<1>3. CASE Restart
  <2>1. life' \in 0 .. Lives /\ at' \in 0 .. 34
    BY <1>3, StartupAssumption DEF Restart, ProcessTyped
  <2> QED  BY <1>3, <2>1
    DEF Restart, vars, system, chip, soft, history, cipher, LinkTyped, ProcessTyped
<1>4. CASE Sigint
  BY <1>4 DEF Sigint, vars, system, chip, soft, history, cipher, LinkTyped, ProcessTyped
<1>5. CASE BeginHandshake \/ BeginFragment
  <2>1. BeginSendPkt
    BY <1>5 DEF BeginHandshake, BeginFragment
  <2>2. cur' \in 0 .. NumOut /\ cur' # 0
    BY <2>1, LinkAssumption DEF BeginSendPkt, LinkTyped
  <2>3. LinkTyped'
    BY <2>1, <2>2 DEF BeginSendPkt, Goto, chip, history, LinkTyped, SocketPc, IsrPc, Threads
  <2>4. ProcessTyped'
    BY <1>5 DEF BeginHandshake, BeginFragment, process, ProcessTyped
  <2> QED  BY <2>3, <2>4
<1>6. CASE SocketRuns
  <2>1. LinkTyped'
    BY <1>6, SocketTyped DEF SocketRuns
  <2>2. lr' \in BOOLEAN /\ phMutex' \in {"none", "socket"}
    BY <1>6 DEF SocketRuns, LongRange, ReleasePhMutex, ProcessTyped
  <2> QED  BY <1>6, <2>1, <2>2 DEF SocketRuns, process, ProcessTyped
<1>7. CASE IsrRuns
  <2>1. LinkTyped'
    BY <1>7, IsrTyped DEF IsrRuns
  <2>2. lr' \in BOOLEAN
    BY <1>7 DEF IsrRuns, LongRange, ProcessTyped
  <2> QED  BY <1>7, <2>1, <2>2 DEF IsrRuns, process, cipher, ProcessTyped
<1>8. CASE ChipRuns
  <2>1. LinkTyped'
    BY <1>8, ChipTyped DEF ChipRuns
  <2> QED  BY <1>8, <2>1 DEF ChipRuns, boot, process, cipher, ProcessTyped
<1>9. CASE UNCHANGED allVars
  BY <1>9 DEF allVars, vars, system, chip, soft, history, boot, process, cipher,
              LinkTyped, ProcessTyped
<1> QED
  BY <1>1, <1>2, <1>3, <1>4, <1>5, <1>6, <1>7, <1>8, <1>9 DEF BootNext, Ends, BootMoves, Stopped

\* main.cpp, lora.cpp and lora_sx1276.cpp together: over any number of lives, and
\* wherever the process is killed, no variable leaves its range, and the registers
\* stay bytes whatever page the chip is in.
THEOREM StartupTypeCorrect == BootSpec => []StartupTypeOK
<1>1. BootInit => BootTyped
  BY BootTypedInit
<1>2. BootTyped /\ [BootNext]_allVars => BootTyped'
  BY BootTypedStep
<1>3. BootTyped => StartupTypeOK
  BY TypedIsTypeOK
<1> QED  BY <1>1, <1>2, <1>3, PTL DEF BootSpec

-----------------------------------------------------------------------------
(* The configuration of the modem *)

\* LoRa mode is reached by the second of lora_init's two writes of sleep mode at
\* the latest: the first one may find the chip awake, in FSK mode.
LongRangeReached ==
    /\ at = 5 => lr \/ opmode = "SLEEP"
    /\ initOk /\ at >= 6 => lr

\* main is about to write the modem's registers.
Setting == at \in 6 .. 12 \cup 20 .. 25

\* Until a client sends, nobody but main moves the chip out of sleep mode.
Undriven == cur = 0 =>
    /\ pc["socket"] = "idle" /\ mode = "Receive" /\ pc["isr"] \notin ReceiveModePc
    /\ Setting => opmode = "SLEEP"

\* What main has written so far, in the order of Program.
Configured == initOk =>
    /\ at >= 7 => reg["FRF_MSB"] = Bits(217) /\ reg["FRF_MID"] = {} /\ reg["FRF_LSB"] = {}
    /\ at >= 10 => Tuned(reg)
    /\ at >= 20 => Written(reg, preset, at - 20)

ModemInv == BootTyped /\ LongRangeReached /\ Undriven /\ Configured

\* What main's steps do to the registers, LoRa mode and sleep mode.
LEMMA MainMoves ==
    ASSUME BootTyped, MainRuns
    PROVE  /\ at # 0 /\ UNCHANGED <<preset, pc, cur>> /\ mode' \in {mode, "Receive"}
           /\ \/ at' = at + 1 /\ (initOk' => initOk \/ at = 3)
              \/ at' = 14 /\ ~initOk'
           /\ lr => lr'
           /\ at = 5 /\ opmode = "SLEEP" => lr'
           /\ at \in {4, 5, 19} => opmode' = "SLEEP"
           /\ IF Setting THEN Configure /\ opmode' = opmode ELSE reg' = reg
<1>1. preset \in {"long", "short"} /\ at \in 0 .. 34
  BY PresetKnown DEF BootTyped
<1> USE DEF Step, Setting, vars, system, chip, soft, cipher
<1>2. CASE RegisterIsr \/ BeginSpi
  BY <1>1, <1>2, MainAt DEF RegisterIsr, BeginSpi
<1>3. CASE CheckVersion
  <2>1. at = 3 /\ Len(InitSteps) = 17
    BY <1>1, <1>3, MainAt DEF CheckVersion
  <2>2. at' = at + 1 \/ (at' = 14 /\ ~initOk')
    BY <1>3, <2>1 DEF CheckVersion
  <2>3. UNCHANGED <<preset, pc, cur, mode, lr, reg, opmode>>
    BY <1>3 DEF CheckVersion
  <2>4. ~Setting /\ at \notin {0, 4, 5, 19}
    BY <2>1
  <2> HIDE DEF Setting
  <2> QED  BY <2>1, <2>2, <2>3, <2>4
<1>4. CASE lora_mode_sleep \/ lora_mode_standby \/ MainReceive
  <2>1. /\ (at \in {4, 5, 19} /\ opmode' = "SLEEP") \/ at \in {13, 15, 27}
        /\ at' = at + 1 /\ UNCHANGED <<preset, pc, cur, mode, reg, initOk>>
        /\ lr' = (lr \/ opmode = "SLEEP")
    BY <1>1, <1>4, MainAt DEF lora_mode_sleep, lora_mode_standby, MainReceive, MainMode, set_mode
  <2>2. ~Setting /\ at # 0 /\ (at \in {4, 5, 19} => opmode' = "SLEEP")
    BY <2>1
  <2>3. (lr => lr') /\ (at = 5 /\ opmode = "SLEEP" => lr')
    BY <2>1, Zenon
  <2> HIDE DEF Setting
  <2> QED  BY <2>1, <2>2, <2>3
<1>6. CASE Configure
  <2>1. Setting /\ at \notin {0, 4, 5, 19}
    BY <1>1, <1>6, MainAt DEF Configure
  <2> QED  BY <1>6, <2>1 DEF Configure
<1>7. CASE MainClearIrq \/ MainMapDio \/ MainSoft
  BY <1>1, <1>7, MainAt DEF MainClearIrq, MainMapDio, MainSoft
<1>8. CASE LockPreset \/ UnlockPreset
  BY <1>1, <1>8, MainAt DEF LockPreset, UnlockPreset
<1>9. CASE InitPacketHandler \/ LoopEnds \/ JoinSocketThread
  BY <1>1, <1>9, MainAt DEF InitPacketHandler, LoopEnds, JoinSocketThread
<1> QED  BY <1>2, <1>3, <1>4, <1>6, <1>7, <1>8, <1>9 DEF MainRuns, MainStarts

\* While no client has sent, the interrupt thread only looks.
LEMMA IsrOnlyLooks ==
    ASSUME LinkTyped, mode = "Receive", pc["isr"] \notin ReceiveModePc,
           TakeEdge \/ LockReceive \/ Handling
    PROVE  UNCHANGED <<opmode, mode>> /\ pc'["isr"] \notin ReceiveModePc
<1> USE DEF LinkTyped, Goto, Threads, ReceiveModePc
<1>1. CASE TakeEdge \/ LockReceive
  BY <1>1 DEF TakeEdge, LockReceive, chip, soft
<1>2. CASE IfTransmit \/ IfReceive \/ ReceiveWaitEnds \/ ReadIrq
  BY <1>2 DEF IfTransmit, IfReceive, ReceiveWaitEnds, ReadIrq, chip, soft
<1>3. CASE ClearRxIrq \/ read_fifo \/ UnlockReceive
  BY <1>3 DEF ClearRxIrq, read_fifo, UnlockReceive, chip, soft
<1>4. CASE set_receive_mode("isr")
  BY <1>4 DEF set_receive_mode, ReceiveModeClearIrq, ReceiveModeSet, ReceiveModeMapDio,
              ReceiveModeSoft
<1> QED  BY <1>1, <1>2, <1>3, <1>4 DEF Handling

\* All other steps leave the registers; those of the threads that wake the chip
\* leave it in LoRa mode.
LEMMA OthersMove ==
    ASSUME ModemInv, BeginHandshake \/ BeginFragment \/ SocketRuns \/ IsrRuns \/ ChipRuns
                      \/ Sigint \/ UNCHANGED allVars
    PROVE  /\ UNCHANGED <<reg, at, preset, initOk>> /\ (lr => lr')
           /\ opmode = "SLEEP" => opmode' = "SLEEP" \/ lr'
           /\ Undriven'
<1> USE DEF ModemInv, BootTyped, Setting
<1>1. CASE BeginHandshake \/ BeginFragment
  <2>1. BeginSendPkt /\ UNCHANGED <<reg, lr, process>>
    BY <1>1 DEF BeginHandshake, BeginFragment
  <2>2. cur' # 0 /\ opmode' = opmode
    BY <2>1, LinkAssumption DEF BeginSendPkt, LinkTyped, chip
  <2> QED  BY <2>1, <2>2 DEF process, Undriven
<1>2. CASE SocketRuns
  <2>1. pc["socket"] # "idle" /\ cur' = cur
    BY <1>2, SendingIsTalking DEF SocketRuns, LinkTyped
  <2> QED  BY <1>2, <2>1 DEF SocketRuns, LongRange, process, Undriven, LinkTyped
<1>3. CASE IsrRuns
  <2>1. TakeEdge \/ LockReceive \/ Handling
    BY <1>3 DEF IsrRuns
  <2>2. pc'["socket"] = pc["socket"] /\ cur' = cur
    BY <2>1, HandlingKeepsSocket DEF LinkTyped
  <2>3. Undriven'
    BY <1>3, <2>1, <2>2, IsrOnlyLooks DEF Undriven, IsrRuns, process
  <2> QED  BY <1>3, <2>3 DEF IsrRuns, LongRange, process
<1>4. CASE ChipRuns
  <2>1. lr /\ UNCHANGED boot
    BY <1>4 DEF ChipRuns
  <2>2. UNCHANGED <<mode, cur, pc>> /\ (opmode = "SLEEP" => opmode' = opmode)
    BY <1>4 DEF ChipRuns, TxDone, RxHeader, RxDone, soft
  <2> QED  BY <2>1, <2>2 DEF boot, process, Undriven
<1>5. CASE Sigint \/ UNCHANGED allVars
  BY <1>5 DEF Sigint, allVars, vars, system, chip, soft, boot, process, Undriven
<1> QED  BY <1>1, <1>2, <1>3, <1>4, <1>5

\* A setter's call, of lora_init or of the preset.
LEMMA ConfigureStep ==
    ASSUME ModemInv, Configure, initOk, initOk'
    PROVE  Configured'
<1> USE DEF ModemInv, BootTyped
<1> DEFINE new == Apply(reg, Program[preset][at])
<1>1. preset \in {"long", "short"} /\ reg \in RegisterFiles /\ at \in 6 .. 12 \cup 20 .. 25
  BY PresetKnown, MainAt DEF ProcessTyped, Configure
<1>2. lr /\ at' = at + 1 /\ preset' = preset
  BY <1>1 DEF LongRangeReached, Configure
<1>3. new \in RegisterFiles => reg' = new
  <2>1. reg' = [r \in Registers |-> IF ~lr /\ r \in LoraPage THEN reg[r] ELSE new[r]]
    BY DEF Configure
  <2> HIDE DEF new
  <2> QED  BY <1>2, <2>1 DEF RegisterFiles
<1>4. CASE at \in 6 .. 12
  <2> DEFINE i == at - 5
  <2>1. new = Apply(reg, InitCalls[i]) /\ i \in 1 .. 7
    BY <1>1, <1>4, MainAt
  <2> HIDE DEF new
  <2>2. /\ new \in RegisterFiles
        /\ i = 1 => new["FRF_MSB"] = Bits(217) /\ new["FRF_MID"] = {} /\ new["FRF_LSB"] = {}
        /\ i > 1 => \A q \in {"FRF_MSB", "FRF_MID", "FRF_LSB"} : new[q] = reg[q]
        /\ i = 4 => 0 \notin new["MODEM_CONFIG_1"]
        /\ i > 4 => new["MODEM_CONFIG_1"] = reg["MODEM_CONFIG_1"]
    BY <1>1, <2>1, InitCall
  <2> QED  BY <1>2, <1>3, <1>4, <2>2 DEF Configured, Tuned
<1>5. CASE at \in 20 .. 25
  <2> DEFINE k == at - 20
  <2>1. new = Apply(reg, PresetCalls(preset)[k + 1]) /\ k \in 0 .. 5
    BY <1>1, <1>5, MainAt
  <2>2. Tuned(reg) /\ Written(reg, preset, k)
    BY <1>5 DEF Configured
  <2> HIDE DEF new
  <2>3. new \in RegisterFiles /\ Tuned(new) /\ Written(new, preset, k + 1)
    BY <1>1, <2>1, <2>2, PresetCall
  <2>4. at' - 20 = k + 1
    BY <1>2, <1>5
  <2> QED  BY <1>2, <1>3, <2>3, <2>4 DEF Configured, Tuned
<1> QED  BY <1>1, <1>4, <1>5

\* Once all is written it stays so.
LEMMA WrittenStays ==
    ASSUME NEW f, NEW p, NEW k \in Int, k < 0 \/ k >= 6, Written(f, p, k)
    PROVE  Written(f, p, k + 1)
BY DEF Written

\* At power-on nothing is written yet.
LEMMA ModemInit == BootInit => ModemInv
<1> SUFFICES ASSUME BootInit PROVE ModemInv
  OBVIOUS
<1>1. BootTyped
  BY BootTypedInit
<1>2. LongRangeReached /\ Configured /\ ~Setting
  BY DEF BootInit, LongRangeReached, Configured, Setting
<1>3. Undriven
  BY <1>2 DEF BootInit, Undriven, Threads, ReceiveModePc
<1> QED  BY <1>1, <1>2, <1>3 DEF ModemInv

\* A step of main.
LEMMA ModemMain == ASSUME ModemInv, MainRuns PROVE LongRangeReached' /\ Undriven' /\ Configured'
<1> USE DEF ModemInv
<1>1. at \in 0 .. 34
  BY PresetKnown DEF BootTyped
<1>2. LongRangeReached'
  BY <1>1, MainMoves DEF LongRangeReached
<1>3. Undriven'
  <2>1. (Setting' => Setting /\ opmode' = opmode) \/ opmode' = "SLEEP" \/ ~Setting'
    BY <1>1, MainMoves DEF Setting
  <2>2. UNCHANGED <<pc, cur>> /\ mode' \in {mode, "Receive"}
    BY MainMoves
  <2> QED  BY <2>1, <2>2 DEF Undriven
<1>4. Configured'
  <2> SUFFICES ASSUME initOk' PROVE Configured'
    BY DEF Configured
  <2>1. at' = at + 1 /\ preset' = preset /\ (initOk \/ at = 3)
    BY MainMoves
  <2>2. CASE Setting
    <3>1. initOk /\ Configure
      BY <2>1, <2>2, MainMoves DEF Setting
    <3> QED  BY <3>1, ConfigureStep
  <2>3. CASE at = 3
    BY <2>1, <2>3 DEF Configured
  <2>4. CASE ~Setting /\ at # 3
    <3>1. initOk /\ reg' = reg
      BY <2>1, <2>4, MainMoves
    <3>2. /\ at' >= 7 => at >= 7
          /\ at' >= 10 => at >= 10
      BY <1>1, <2>1, <2>4 DEF Setting
    <3>3. at' >= 20 => Written(reg, preset, at' - 20)
      <4>1. CASE at >= 20
        <5>1. at - 20 \in Int /\ at - 20 >= 6 /\ at' - 20 = (at - 20) + 1
          BY <1>1, <2>1, <2>4, <4>1 DEF Setting
        <5>2. Written(reg, preset, at - 20)
          BY <3>1, <4>1 DEF Configured
        <5> QED  BY <5>1, <5>2, WrittenStays
      <4>2. CASE at < 20
        <5>1. at' >= 20 => at' - 20 = 0
          BY <1>1, <2>1, <4>2
        <5> QED  BY <5>1 DEF Written
      <4> QED  BY <1>1, <4>1, <4>2
    <3> QED  BY <2>1, <3>1, <3>2, <3>3 DEF Configured, Tuned
  <2> QED  BY <2>2, <2>3, <2>4
<1> QED  BY <1>2, <1>3, <1>4

\* Every step keeps what is written.
LEMMA ModemStep == ModemInv /\ [BootNext]_allVars => ModemInv'
<1> SUFFICES ASSUME ModemInv, [BootNext]_allVars PROVE ModemInv'
  OBVIOUS
<1>1. BootTyped'
  BY BootTypedStep DEF ModemInv
<1>2. CASE MainRuns
  BY <1>1, <1>2, ModemMain DEF ModemInv
<1>3. CASE Exit \/ Segfault \/ Crash
  <2>1. NoProcess
    BY <1>3 DEF Exit, Segfault, Crash
  <2>2. at' = 0 /\ ~initOk'
    BY <2>1 DEF NoProcess
  <2>3. pc'["socket"] = "idle" /\ pc'["isr"] = "wait" /\ mode' = "Receive"
    BY <2>1 DEF NoProcess, Threads
  <2> QED
    BY <1>1, <2>2, <2>3
    DEF ModemInv, LongRangeReached, Undriven, Setting, Configured, ReceiveModePc
<1>4. CASE Restart
  <2>1. at' = 1 /\ UNCHANGED <<mode, pc, cur, initOk>>
    BY <1>4 DEF Restart, vars, system, soft
  <2> QED
    BY <1>1, <2>1 DEF ModemInv, LongRangeReached, Undriven, Setting, Configured
<1>5. CASE BeginHandshake \/ BeginFragment \/ SocketRuns \/ IsrRuns \/ ChipRuns
             \/ Sigint \/ UNCHANGED allVars
  <2>1. /\ UNCHANGED <<reg, at, preset, initOk>> /\ (lr => lr')
        /\ opmode = "SLEEP" => opmode' = "SLEEP" \/ lr'
        /\ Undriven'
    BY <1>5, OthersMove
  <2> QED  BY <1>1, <2>1 DEF ModemInv, LongRangeReached, Configured, Tuned, Written
<1> QED  BY <1>2, <1>3, <1>4, <1>5 DEF BootNext, Ends, BootMoves, Stopped

(***************************************************************************)
(* main.cpp 30-36 and lora_init: whatever registers an earlier process     *)
(* left behind, wherever it was killed and whatever a client makes the     *)
(* socket thread do meanwhile, a main that got through start-up with a     *)
(* radio it recognised has the frequency, spreading factor, bandwidth,     *)
(* CRC, header mode, preamble and power stage its preset names. The coding *)
(* rate is left out: lora_set_coding_rate does not set what it is given.   *)
(***************************************************************************)
THEOREM StartupFixesModem == BootSpec => []PresetFixesModem
<1>1. ModemInv => PresetFixesModem
  <2> SUFFICES ASSUME ModemInv, initOk, main = "loop"
               PROVE  ModemAs(reg, preset) /\ PowerAs(reg, preset)
    BY DEF PresetFixesModem
  <2> USE DEF ModemInv, BootTyped
  <2>1. preset \in {"long", "short"} /\ at = 32
    BY PresetKnown, MainAt
  <2>2. Tuned(reg) /\ Written(reg, preset, 12)
    BY <2>1 DEF Configured
  <2> QED  BY <2>1, <2>2, PresetIsRead
<1> QED  BY <1>1, ModemInit, ModemStep, PTL DEF BootSpec

(***************************************************************************)
(* lora.cpp 65-66, 88-89 and lora_sx1276.cpp lora_init: "must be done in   *)
(* SLEEP mode".  Nobody but main wakes the chip before the first message   *)
(* of a client, and LoRa mode has been reached by then.                    *)
(***************************************************************************)
THEOREM ModemIsWrittenAsleep == BootSpec => ModemWrittenAsleep
<1>1. ModemInv /\ [BootNext]_allVars
        => [reg' # reg /\ cur = 0 => opmode = "SLEEP" /\ (initOk => lr)]_allVars
  <2> SUFFICES ASSUME ModemInv, BootNext, reg' # reg, cur = 0
               PROVE  opmode = "SLEEP" /\ (initOk => lr)
    BY DEF allVars, boot
  <2>1. MainRuns
    <3>1. reg' = reg \/ MainRuns
      BY OthersMove DEF BootNext, Ends, BootMoves, Exit, Segfault, Crash, NoProcess, Restart, Stopped
    <3> QED  BY <3>1
  <2>2. Setting
    BY <2>1, MainMoves DEF ModemInv
  <2> QED  BY <2>2 DEF ModemInv, Undriven, LongRangeReached, Setting
<1> QED  BY <1>1, ModemInit, ModemStep, PTL DEF BootSpec, ModemWrittenAsleep

-----------------------------------------------------------------------------
(* Listening once start-up is over *)

\* LoRa::mutex has three users: main holds it while it sets the preset.
MutexShared ==
    /\ mutex = "main" <=> at \in 19 .. 30
    /\ mutex = "socket" <=> pc["socket"] \notin {"idle", "lock"}
    /\ mutex = "isr" <=> pc["isr"] \in Receiving

\* Start-up meets a client or a packet on the air, not both; the preset is written
\* with nothing being received.
Silence ==
    /\ cur # 0 /\ at < 32 => heard = 0
    /\ heard = 0 => rxing = NoPacket /\ "RX_DONE" \notin irq
    /\ at \in 20 .. 27 => rxing = NoPacket /\ (cur = 0 => opmode = "SLEEP")
    /\ at \in 27 .. 28 => "RX_DONE" \notin irq
    /\ rxing # NoPacket => opmode = "RX_CONTINUOUS"

\* What the second set_receive_mode of main has written so far; the interrupt
\* thread, that comes without the mutex, can only write the same.
SetUp ==
    /\ at >= 20 => lr \/ opmode = "SLEEP"
    /\ at >= 28 => lr
    /\ at \in 28 .. 30 => opmode = "RX_CONTINUOUS"
    /\ at \in 29 .. 30 => dio = "rx_done"
    /\ at = 30 => mode = "Receive"

\* The interrupt thread comes for whatever has raised DIO0 as RX_DONE.
Attended == dio = "rx_done" /\ "RX_DONE" \in irq =>
    edge \/ pc["isr"] \in Deciding \cup {"lock", "poll", "read_irq", "clear_rx"}

\* What has become of a packet that nothing has crossed, and of the chip after it.
Aloft == pc["socket"] \in {"idle", "lock", "busy"} /\ Sent \notin crossed =>
    Flying \/ (Returning /\ Attended)

\* From the preset's last write on LoRa::send finds the chip as main has left it.
Serves ==
    /\ at \in 29 .. 30 => Attended
    /\ at >= 30 => Preparing /\ Retrying /\ Aloft

RadioParts == MutexShared /\ Silence /\ SetUp /\ Serves

RadioInv == ModemInv /\ OwnsContext /\ Recorded /\ RadioParts

\* At power-on there is no process to listen.
LEMMA RadioInit == BootInit => Recorded /\ RadioParts
<1> SUFFICES ASSUME BootInit PROVE Recorded /\ RadioParts
  OBVIOUS
<1>1. at = 0 /\ pc["socket"] = "idle" /\ pc["isr"] = "wait" /\ mutex = "none" /\ cur = 0
  BY DEF BootInit, Threads
<1>2. Recorded
  BY <1>1 DEF Recorded, Crosses
<1>3. RadioParts
  BY <1>1 DEF BootInit, RadioParts, MutexShared, Silence, SetUp, Serves, Receiving
<1> QED  BY <1>2, <1>3

\* What the properties of the radio speak of.
LEMMA RadioFrame ==
    ASSUME UNCHANGED <<opmode, irq, dio, fifo, edge, mode, pc, cur>>, crossed \subseteq crossed'
    PROVE  /\ Attended => Attended'
           /\ Preparing /\ Retrying /\ Aloft => Preparing' /\ Retrying' /\ Aloft'
<1>1. Attended => Attended'
  BY DEF Attended
<1>2. Preparing => Preparing'
  BY DEF Preparing, Buffered
<1>3. Retrying => Retrying'
  BY DEF Retrying
<1>4. Aloft => Aloft'
  <2>1. Sent' = Sent
    BY DEF Sent
  <2>2. (Flying => Flying') /\ (Returning => Returning')
    BY <2>1 DEF Flying, Returning, Buffered
  <2> QED  BY <1>1, <2>1, <2>2 DEF Aloft
<1> QED  BY <1>1, <1>2, <1>3, <1>4

\* main: it meets neither a send nor, past its last mode, a packet on the air.
LEMMA RadioMain == ASSUME RadioInv, MainRuns, crossed \subseteq crossed' PROVE RadioParts'
<1>1. preset \in {"long", "short"} /\ at \in 0 .. 34
  BY PresetKnown DEF RadioInv, ModemInv, BootTyped
<1>2. pc' = pc /\ cur' = cur /\ heard' = heard
  <2>1. heard' = heard
    BY DEF MainRuns, MainStarts, RegisterIsr, BeginSpi, CheckVersion, Configure, lora_mode_sleep,
           lora_mode_standby, MainReceive, MainMode, MainClearIrq, MainMapDio, MainSoft,
           LockPreset, UnlockPreset, InitPacketHandler, LoopEnds, JoinSocketThread, system, history
  <2> QED  BY <2>1, MainKeepsSocket
<1>3. RadioParts
  BY DEF RadioInv
<1>4. /\ pc["socket"] # "idle" => cur # 0
      /\ irq \subseteq Flags /\ dio \in {"rx_done", "tx_done"} /\ edge \in BOOLEAN
      /\ cur = 0 => mode = "Receive"
  BY DEF RadioInv, ModemInv, BootTyped, LinkTyped, Undriven
<1> USE <1>1, <1>2, <1>3
<1> SUFFICES (MutexShared /\ Silence /\ SetUp)' /\ Serves'
  BY DEF RadioParts
<1>low. at' \in 0 .. 28 => Serves'
  BY DEF Serves
<1>frame. ASSUME at >= 30, at' > 30, UNCHANGED <<opmode, irq, dio, fifo, edge, mode>>
          PROVE  Serves'
  <2>1. Preparing /\ Retrying /\ Aloft
    BY <1>frame DEF Serves, RadioParts
  <2>2. Preparing' /\ Retrying' /\ Aloft'
    BY <1>frame, <2>1, RadioFrame
  <2> QED  BY <1>frame, <2>2 DEF Serves
<1>5. CASE RegisterIsr
  <2>1. at = 1 /\ at' = 2 /\ UNCHANGED <<opmode, irq, dio, rxing, mode, mutex>>
    BY <1>5, MainAt DEF RegisterIsr, Step, soft
  <2> QED  BY <2>1, <1>low DEF RadioParts, MutexShared, Silence, SetUp
<1>6. CASE BeginSpi \/ CheckVersion \/ Configure \/ InitPacketHandler \/ LoopEnds \/ JoinSocketThread
  <2>1. UNCHANGED <<opmode, irq, dio, fifo, edge, rxing, mode, mutex, lr>>
    BY <1>6 DEF BeginSpi, CheckVersion, Configure, InitPacketHandler, LoopEnds, JoinSocketThread,
                system, chip, soft
  <2>2. CASE CheckVersion
    <3>1. at = 3 /\ at' \in {4, 14}
      BY <2>2, MainAt, MainMoves DEF CheckVersion, RadioInv, ModemInv
    <3> QED  BY <2>1, <3>1, <1>low DEF RadioParts, MutexShared, Silence, SetUp
  <2>3. CASE ~CheckVersion
    <3>1. /\ at \in {2} \cup 6 .. 12 \cup 20 .. 25 \cup 31 .. 33
          /\ at' = at + 1
      BY <1>6, <2>3, MainAt
      DEF BeginSpi, Configure, InitPacketHandler, LoopEnds, JoinSocketThread, Step
    <3>2. (MutexShared /\ Silence /\ SetUp)'
      BY <2>1, <3>1 DEF RadioParts, MutexShared, Silence, SetUp
    <3> QED  BY <2>1, <3>1, <3>2, <1>low, <1>frame
  <2> QED  BY <2>2, <2>3
<1>7. CASE lora_mode_sleep
  <2>1. /\ at \in {4, 5, 19} /\ at' = at + 1
        /\ UNCHANGED <<irq, dio, mode, mutex>> /\ opmode' = "SLEEP" /\ rxing' = NoPacket
    BY <1>7, MainAt DEF lora_mode_sleep, MainMode, Step, set_mode, soft
  <2> QED  BY <2>1, <1>low DEF RadioParts, MutexShared, Silence, SetUp
<1>8. CASE lora_mode_standby
  <2>1. /\ at = 13 /\ at' = 14
        /\ UNCHANGED <<irq, dio, mode, mutex>> /\ rxing' = NoPacket
    BY <1>8, MainAt DEF lora_mode_standby, MainMode, Step, set_mode, soft
  <2> QED  BY <2>1, <1>low DEF RadioParts, MutexShared, Silence, SetUp
<1>9. CASE MainReceive
  <2>1. /\ at \in {15, 27} /\ at' = at + 1
        /\ UNCHANGED <<irq, dio, mode, mutex>> /\ opmode' = "RX_CONTINUOUS" /\ rxing' = rxing
        /\ lr' = (lr \/ opmode = "SLEEP")
    BY <1>9, MainAt DEF MainReceive, MainMode, Step, set_mode, soft
  <2>2. at = 27 => lr \/ opmode = "SLEEP"
    BY <2>1 DEF RadioParts, SetUp
  <2>3. at = 27 => lr'
    BY <2>1, <2>2, Zenon
  <2> QED  BY <2>1, <2>3, <1>low DEF RadioParts, MutexShared, Silence, SetUp
<1>10. CASE MainClearIrq
  <2>1. /\ at \in {14, 26} /\ at' = at + 1
        /\ UNCHANGED <<opmode, rxing, mode, mutex, lr>> /\ irq' = irq \ RX_ALL
    BY <1>10, MainAt DEF MainClearIrq, Step, Drive, soft
  <2>2. "RX_DONE" \notin irq'
    BY <2>1 DEF RX_ALL, Flags
  <2> QED  BY <2>1, <2>2, <1>low DEF RadioParts, MutexShared, Silence, SetUp
<1>11. CASE MainMapDio
  <2>1. /\ at \in {16, 28} /\ at' = at + 1
        /\ UNCHANGED <<opmode, irq, rxing, mode, mutex, lr>> /\ dio' = "rx_done"
    BY <1>11, MainAt DEF MainMapDio, Step, Drive, soft
  <2>2. (MutexShared /\ Silence /\ SetUp)'
    BY <2>1 DEF RadioParts, MutexShared, Silence, SetUp
  <2>3. at = 28 => Serves'
    BY <2>1 DEF RadioParts, Silence, Serves, Attended
  <2> QED  BY <2>1, <2>2, <2>3, <1>low
<1>12. CASE MainSoft
  <2>1. /\ at \in {17, 29} /\ at' = at + 1
        /\ UNCHANGED <<opmode, irq, dio, edge, rxing, mutex, lr>> /\ mode' = "Receive"
    BY <1>12, MainAt DEF MainSoft, Step, chip
  <2>2. (MutexShared /\ Silence /\ SetUp)'
    BY <2>1 DEF RadioParts, MutexShared, Silence, SetUp
  <2>3. CASE at = 29
    <3>1. Attended' /\ Returning'
      BY <2>1, <2>3 DEF RadioParts, SetUp, Serves, Attended, Returning
    <3>2. pc["socket"] \in {"idle", "lock"}
      BY <2>3 DEF RadioParts, MutexShared
    <3>3. Preparing' /\ Retrying' /\ Aloft'
      BY <3>1, <3>2 DEF Preparing, Retrying, Aloft, ReceiveModePc
    <3> QED  BY <2>1, <2>2, <2>3, <3>1, <3>3 DEF Serves
  <2> QED  BY <2>1, <2>2, <2>3, <1>low
<1>13. CASE LockPreset
  <2>1. /\ at = 18 /\ at' = 19 /\ mutex = "none" /\ mutex' = "main"
        /\ UNCHANGED <<opmode, irq, dio, edge, rxing, mode, lr>>
    BY <1>13, MainAt DEF LockPreset, Step, chip
  <2> QED  BY <2>1, <1>low DEF RadioParts, MutexShared, Silence, SetUp
<1>14. CASE UnlockPreset
  <2>1. /\ at = 30 /\ at' = 31 /\ mutex' = "none"
        /\ UNCHANGED <<opmode, irq, dio, fifo, edge, rxing, mode, lr>>
    BY <1>14, MainAt DEF UnlockPreset, Step, chip
  <2>2. (MutexShared /\ Silence /\ SetUp)'
    BY <2>1 DEF RadioParts, MutexShared, Silence, SetUp
  <2> QED  BY <2>1, <2>2, <1>frame
<1> QED
  BY <1>5, <1>6, <1>7, <1>8, <1>9, <1>10, <1>11, <1>12, <1>13, <1>14 DEF MainRuns, MainStarts

\* A message, or its second packet, is begun.
LEMMA RadioBegin ==
    ASSUME RadioInv, BeginHandshake \/ BeginFragment, crossed \subseteq crossed'
    PROVE  RadioParts'
<1>1. /\ UNCHANGED <<chip, mode, mutex, lr, at, heard>>
      /\ pc["socket"] = "idle" /\ pc' = [pc EXCEPT !["socket"] = "lock"]
      /\ cur' = cur + 1 /\ cur \in Nat
  BY DEF BeginHandshake, BeginFragment, BeginSendPkt, Goto, history, process, RadioInv, OwnsContext
<1>2. pc'["socket"] = "lock" /\ pc'["isr"] = pc["isr"]
  BY <1>1 DEF RadioInv, OwnsContext, Threads
<1>3. at \in 0 .. 34
  BY PresetKnown DEF RadioInv, ModemInv, BootTyped
<1>4. at < 32 => heard = 0
  <2>1. CASE BeginHandshake
    <3>1. main = "loop" => at = 32
      BY PresetKnown, MainAt DEF RadioInv, ModemInv, BootTyped
    <3> QED  BY <2>1, <3>1 DEF BeginHandshake
  <2>2. CASE BeginFragment
    <3>1. cur' = cur + 1 /\ ~Handshake(cur')
      BY <2>2 DEF BeginFragment, BeginSendPkt
    <3>2. cur # 0
      BY <3>1 DEF Handshake
    <3> QED  BY <2>2, <3>2 DEF RadioInv, RadioParts, Silence
  <2> QED  BY <2>1, <2>2
<1>5. (MutexShared /\ Silence /\ SetUp)'
  BY <1>1, <1>2, <1>3, <1>4 DEF RadioInv, RadioParts, MutexShared, Silence, SetUp, chip
<1>6. (Attended => Attended') /\ (Flying => Flying') /\ (Returning => Returning') /\ Sent' = Sent
  <2>1. Sent' = Sent
    BY <1>1, <1>2 DEF Sent, Unsent, ReceiveModePc
  <2> QED  BY <1>1, <1>2, <2>1 DEF Attended, Flying, Returning, Buffered, chip
<1>7. at >= 30 => Preparing' /\ Retrying' /\ Aloft'
  <2>1. Preparing' /\ Retrying'
    BY <1>2 DEF Preparing, Retrying, ReceiveModePc
  <2>2. at >= 30 => Aloft'
    BY <1>1, <1>2, <1>6 DEF RadioInv, RadioParts, Serves, Aloft
  <2> QED  BY <2>1, <2>2
<1>8. Serves'
  BY <1>1, <1>3, <1>6, <1>7 DEF RadioInv, RadioParts, Serves
<1> QED  BY <1>5, <1>8 DEF RadioParts

\* What Recorded says of the packet LoRa::send works on.
LEMMA RadioNow ==
    ASSUME BootTyped, MutexShared, Recorded, mutex = "socket", cur \notin crossed
    PROVE  /\ ~edge /\ pc["isr"] \notin Deciding
           /\ pc["socket"] \in {"map_tx", "soft_tx", "unlock_ok"} => opmode = "TX"
<1>1. cur \in 1 .. NumOut
  BY LinkAssumption DEF BootTyped, LinkTyped, MutexShared
<1> QED  BY <1>1 DEF Recorded, Crosses

\* The socket thread inside LoRa::send, after main has set up the chip: nothing but
\* what is remembered comes in its way.
LEMMA RadioSend ==
    ASSUME RadioInv, at >= 30, LockSend \/ Sending, crossed \subseteq crossed', Recorded'
    PROVE  Preparing' /\ Retrying' /\ Aloft'
<1>1. BootTyped /\ MutexShared /\ Recorded /\ Preparing /\ Retrying /\ Aloft
  BY DEF RadioInv, ModemInv, RadioParts, Serves
<1>types. /\ DOMAIN pc = Threads /\ pc["socket"] \in SocketPc
          /\ cur \in 0 .. NumOut /\ (pc["socket"] # "idle" => cur # 0)
          /\ opmode \in Modes \cup {"SLEEP"}
  BY <1>1 DEF BootTyped, LinkTyped
<1>nat. cur \in Nat /\ (cur # 0 => cur - 1 \in Nat)
  BY <1>types, LinkAssumption
<1>now. mutex = "socket" /\ cur \notin crossed =>
          /\ ~edge /\ pc["isr"] \notin Deciding
          /\ pc["socket"] \in {"map_tx", "soft_tx", "unlock_ok"} => opmode = "TX"
  BY <1>1, RadioNow
<1> USE DEF Goto, Threads, ReceiveModePc, Unsent, Sent
<1>2. CASE LockSend
  <2>1. /\ UNCHANGED <<opmode, irq, dio, fifo, edge, mode, cur>>
        /\ pc["socket"] = "lock" /\ pc'["socket"] = "busy" /\ pc'["isr"] = pc["isr"]
    BY <1>2, <1>types DEF LockSend, chip
  <2>2. Sent' = Sent
    BY <2>1
  <2> HIDE DEF Sent
  <2>3. Aloft'
    BY <2>1, <2>2, <1>1 DEF Aloft, Attended, Flying, Returning, Buffered
  <2> QED  BY <2>1, <2>3 DEF Preparing, Retrying
<1>3. CASE CheckBusy
  <2>1. /\ UNCHANGED <<chip, mode, cur>>
        /\ pc["socket"] = "busy" /\ pc'["isr"] = pc["isr"]
        /\ pc'["socket"] = IF opmode = "TX" THEN "rm_irq" ELSE "stdby"
    BY <1>3, <1>types DEF CheckBusy, lora_is_transmitting, soft
  <2>2. Sent = cur - 1 /\ cur # 0
    BY <2>1, <1>types
  <2>3. CASE opmode = "TX"
    <3>1. cur - 1 \notin crossed => Sent # 0
      BY <2>1, <2>2, <2>3, <1>1 DEF Aloft, Flying, Returning
    <3>2. cur - 1 # 0 => cur - 1 \in 1 .. NumOut
      BY <2>1, <2>2, <1>types, LinkAssumption
    <3>3. \A n \in 1 .. NumOut : n = cur' - 1 => n \in crossed'
      BY <2>1, <2>3 DEF Recorded, Crosses
    <3>4. cur - 1 \in crossed'
      BY <2>1, <2>2, <3>1, <3>2, <3>3
    <3> QED  BY <2>1, <2>3, <3>4 DEF Preparing, Retrying, Aloft
  <2>4. CASE opmode # "TX"
    BY <2>1, <2>4 DEF Preparing, Retrying, Aloft
  <2> QED  BY <2>3, <2>4
<1>4. CASE SendStandby
  <2>1. /\ opmode' = "STDBY" /\ UNCHANGED cur
        /\ pc["socket"] = "stdby" /\ pc'["socket"] = "clear_tx"
    BY <1>4, <1>types DEF SendStandby, set_mode, soft
  <2> QED  BY <2>1 DEF Preparing, Retrying, Aloft
<1>5. CASE lora_clear_interrupt_tx_done
  <2>1. /\ UNCHANGED <<opmode, cur>> /\ "TX_DONE" \notin irq'
        /\ pc["socket"] = "clear_tx" /\ pc'["socket"] = "write_fifo"
    BY <1>5, <1>types DEF lora_clear_interrupt_tx_done, Drive, soft
  <2> QED  BY <2>1, <1>1 DEF Preparing, Retrying, Aloft
<1>6. CASE write_fifo
  <2>1. /\ UNCHANGED <<opmode, irq, cur>> /\ Buffered(cur)'
        /\ pc["socket"] = "write_fifo" /\ pc'["socket"] = "tx"
    BY <1>6, <1>types DEF write_fifo, soft, Own, Packet, Buffered
  <2> QED  BY <2>1, <1>1 DEF Preparing, Retrying, Aloft
<1>7. CASE StartTx
  <2>1. /\ UNCHANGED <<irq, fifo, cur>>
        /\ pc["socket"] = "tx" /\ pc'["socket"] = "map_tx"
    BY <1>7, <1>types DEF StartTx, soft
  <2> QED  BY <2>1, <1>1 DEF Preparing, Retrying, Aloft, Buffered
<1>8. CASE TransmitModeMapDio
  <2>1. /\ UNCHANGED <<irq, fifo, cur>> /\ dio' = "tx_done"
        /\ pc["socket"] = "map_tx" /\ pc'["socket"] = "soft_tx"
    BY <1>8, <1>types DEF TransmitModeMapDio, Drive, soft
  <2> QED  BY <2>1, <1>1 DEF Preparing, Retrying, Aloft, Buffered
<1>9. CASE TransmitModeSoft
  <2>1. /\ UNCHANGED <<irq, fifo, dio, cur>> /\ mode' = "Transmit"
        /\ pc["socket"] = "soft_tx" /\ pc'["socket"] = "unlock_ok"
    BY <1>9, <1>types DEF TransmitModeSoft, chip
  <2> QED  BY <2>1, <1>1 DEF Preparing, Retrying, Aloft, Buffered
<1>10. CASE UnlockSend
  <2>1. /\ UNCHANGED <<opmode, irq, fifo, dio, edge, mode, cur>>
        /\ pc'["isr"] = pc["isr"]
        /\ \/ pc["socket"] = "unlock_ok" /\ pc'["socket"] = "idle"
           \/ pc["socket"] = "unlock_busy" /\ pc'["socket"] = "lock"
    BY <1>10, <1>types DEF UnlockSend, chip
  <2>2. CASE pc["socket"] = "unlock_ok"
    <3>1. mutex = "socket" /\ Sent' = cur /\ cur # 0
      BY <2>1, <2>2, <1>1, <1>types DEF MutexShared
    <3>2. cur \notin crossed => Flying'
      BY <2>1, <2>2, <3>1, <1>1, <1>now DEF Preparing, Flying, Buffered
    <3> QED  BY <2>1, <2>2, <3>1, <3>2 DEF Preparing, Retrying, Aloft
  <2>3. CASE pc["socket"] = "unlock_busy"
    <3>1. Sent' = cur - 1 /\ cur - 1 \in crossed'
      BY <2>1, <2>3, <1>1 DEF Retrying
    <3> QED  BY <2>1, <2>3, <3>1 DEF Preparing, Retrying, Aloft
  <2> QED  BY <2>1, <2>2, <2>3
<1>11. CASE set_receive_mode("socket")
  <2>1. /\ UNCHANGED cur /\ pc["socket"] \in ReceiveModePc
        /\ pc'["socket"] \in ReceiveModePc \cup {"unlock_busy"}
    BY <1>11, <1>types DEF set_receive_mode, ReceiveModeClearIrq, ReceiveModeSet,
        ReceiveModeMapDio, ReceiveModeSoft, soft
  <2> QED  BY <2>1, <1>1 DEF Preparing, Retrying, Aloft
<1> QED
  BY <1>2, <1>3, <1>4, <1>5, <1>6, <1>7, <1>8, <1>9, <1>10, <1>11 DEF Sending

\* The socket thread, whatever main does meanwhile.
LEMMA RadioSocket ==
    ASSUME RadioInv, SocketRuns, crossed \subseteq crossed', Recorded'
    PROVE  RadioParts'
<1>1. /\ LockSend \/ Sending
      /\ pc["socket"] # "idle" /\ cur' = cur
      /\ pc \in [Threads -> SocketPc \cup IsrPc] /\ pc["socket"] \in SocketPc
  BY SendingIsTalking DEF SocketRuns, RadioInv, OwnsContext, ModemInv, BootTyped, LinkTyped
<1>2. at' = at /\ at \in 0 .. 34 /\ (lr => lr') /\ (opmode = "SLEEP" => opmode' = "SLEEP" \/ lr')
  BY DEF SocketRuns, LongRange, process, RadioInv, ModemInv, BootTyped, ProcessTyped
<1>3. at \notin 19 .. 30
  <2>1. pc["socket"] # "lock" \/ mutex = "none"
    BY <1>1 DEF LockSend, Sending, Goto, set_receive_mode, CheckBusy, SendStandby,
           lora_clear_interrupt_tx_done, write_fifo, StartTx, TransmitModeMapDio,
           TransmitModeSoft, UnlockSend, ReceiveModeClearIrq, ReceiveModeSet,
           ReceiveModeMapDio, ReceiveModeSoft
  <2> QED  BY <1>1, <2>1 DEF RadioInv, RadioParts, MutexShared
<1>4. SetUp' /\ Serves'
  <2>1. SetUp'
    BY <1>2, <1>3 DEF RadioInv, RadioParts, SetUp
  <2> QED  BY <1>1, <1>2, <1>3, <2>1, RadioSend DEF Serves
<1>5. MutexShared'
  BY <1>1, <1>2, <1>3
  DEF RadioInv, RadioParts, MutexShared, LockSend, Sending, Goto, set_receive_mode, CheckBusy,
      SendStandby, lora_clear_interrupt_tx_done, write_fifo, StartTx, TransmitModeMapDio,
      TransmitModeSoft, UnlockSend, ReceiveModeClearIrq, ReceiveModeSet, ReceiveModeMapDio,
      ReceiveModeSoft, soft, Threads, ReceiveModePc, Receiving
<1>6. /\ heard' = heard /\ rxing' \in {rxing, NoPacket} /\ ("RX_DONE" \in irq' => "RX_DONE" \in irq)
      /\ rxing' # NoPacket /\ opmode = "RX_CONTINUOUS" => opmode' = "RX_CONTINUOUS"
  BY <1>1
  DEF LockSend, Sending, set_receive_mode, CheckBusy, SendStandby,
      lora_clear_interrupt_tx_done, write_fifo, StartTx, TransmitModeMapDio,
      TransmitModeSoft, UnlockSend, ReceiveModeClearIrq, ReceiveModeSet, ReceiveModeMapDio,
      ReceiveModeSoft, soft, chip, history, set_mode, Drive
<1>7. Silence'
  BY <1>1, <1>2, <1>3, <1>6 DEF RadioInv, RadioParts, Silence
<1> QED  BY <1>4, <1>5, <1>7 DEF RadioParts

\* The interrupt task does not go back to wait before it has cleared RX_DONE.
LEMMA RadioAttended ==
    ASSUME BootTyped, Attended, TakeEdge \/ LockReceive \/ Handling,
           pc["isr"] = "if_receive" /\ dio = "rx_done" => mode = "Receive"
    PROVE  Attended'
<1> USE DEF Goto, Threads, Attended, Deciding
<1>types. pc \in [Threads -> SocketPc \cup IsrPc]
  BY DEF BootTyped, LinkTyped
<1>1. CASE TakeEdge \/ LockReceive
  BY <1>types, <1>1 DEF TakeEdge, LockReceive, chip
<1>2. CASE IfTransmit \/ IfReceive
  BY <1>types, <1>2 DEF IfTransmit, IfReceive, chip
<1>3. CASE ReceiveWaitEnds \/ ReadIrq \/ read_fifo \/ UnlockReceive
  BY <1>types, <1>3 DEF ReceiveWaitEnds, ReadIrq, read_fifo, UnlockReceive, chip
<1>4. CASE ClearRxIrq
  <2>1. "RX_DONE" \notin irq'
    BY <1>4 DEF ClearRxIrq, Drive, RX_ALL, Flags
  <2> QED  BY <2>1
<1>5. CASE set_receive_mode("isr")
  <2>1. pc'["isr"] \in {"rm_mode", "rm_dio", "rm_soft", "if_receive"}
    BY <1>types, <1>5 DEF set_receive_mode, ReceiveModeClearIrq, ReceiveModeSet,
        ReceiveModeMapDio, ReceiveModeSoft
  <2> QED  BY <2>1
<1> QED  BY <1>1, <1>2, <1>3, <1>4, <1>5 DEF Handling

\* The interrupt thread, that sets the receive mode without LoRa::mutex, brings a
\* packet's return to its end, and meets no packet that has not been crossed.
LEMMA RadioReturn ==
    ASSUME RadioInv, at >= 30, TakeEdge \/ LockReceive \/ Handling, crossed \subseteq crossed'
    PROVE  Preparing' /\ Retrying' /\ Aloft'
<1>1. BootTyped /\ MutexShared /\ Recorded /\ Preparing /\ Retrying /\ Aloft
  BY DEF RadioInv, ModemInv, RadioParts, Serves
<1>types. DOMAIN pc = Threads /\ irq \subseteq Flags
  BY <1>1 DEF BootTyped, LinkTyped
<1>2. pc'["socket"] = pc["socket"] /\ cur' = cur /\ Sent' = Sent
  BY <1>types, HandlingKeepsSocket DEF Sent
<1>3. Retrying'
  BY <1>1, <1>2 DEF Retrying
<1>4. fifo' = fifo
  BY DEF TakeEdge, LockReceive, Handling, IfTransmit, IfReceive, ReceiveWaitEnds, ReadIrq,
         ClearRxIrq, read_fifo, UnlockReceive, set_receive_mode, ReceiveModeClearIrq,
         ReceiveModeSet, ReceiveModeMapDio, ReceiveModeSoft, chip
<1>5. Preparing'
  <2>1. edge \/ mutex = "none" \/ pc["isr"] \in Deciding \cup Receiving
    BY DEF TakeEdge, LockReceive, Handling, IfTransmit, IfReceive, ReceiveWaitEnds, ReadIrq,
           ClearRxIrq, read_fifo, UnlockReceive, set_receive_mode, ReceiveModeClearIrq,
           ReceiveModeSet, ReceiveModeMapDio, ReceiveModeSoft, Goto, Deciding, Receiving
  <2>2. mutex = "socket" => cur \in crossed
    BY <1>1, <2>1, RadioNow DEF MutexShared
  <2>3. pc["socket"] \in {"idle", "lock"} \/ cur' \in crossed'
    BY <1>1, <1>2, <2>2 DEF MutexShared
  <2> QED  BY <1>2, <2>3 DEF Preparing
<1>6. ASSUME Returning /\ Attended PROVE Attended'
  <2>1. pc["isr"] = "if_receive" /\ dio = "rx_done" => mode = "Receive"
    BY <1>6 DEF Returning
  <2> QED  BY <1>1, <1>6, <2>1, RadioAttended
<1>7. (Flying => Flying') /\ (Returning => Returning')
  <2> USE DEF Goto, Threads
  <2>1. CASE TakeEdge
    <3>1. /\ UNCHANGED <<opmode, irq, dio, mode>> /\ edge /\ ~edge'
          /\ pc["isr"] = "wait" /\ pc'["isr"] = "if_transmit"
      BY <2>1, <1>types DEF TakeEdge, soft
    <3> QED  BY <3>1 DEF Flying, Returning
  <2>2. CASE IfTransmit \/ IfReceive
    <3>1. /\ UNCHANGED <<opmode, irq, dio, edge, mode>>
          /\ pc["isr"] \in {"if_transmit", "if_receive"}
          /\ pc["isr"] = "if_transmit" /\ mode = "Transmit" => pc'["isr"] = "rm_irq"
          /\ pc["isr"] = "if_transmit" /\ mode = "Receive" => pc'["isr"] = "if_receive"
          /\ pc["isr"] = "if_receive" => pc'["isr"] \in {"lock", "wait"}
      BY <2>2, <1>types DEF IfTransmit, IfReceive, chip, soft
    <3> QED  BY <3>1 DEF Flying, Returning, Deciding
  <2>3. CASE set_receive_mode("isr")
    <3>1. \/ /\ pc["isr"] = "rm_irq" /\ pc'["isr"] = "rm_mode" /\ UNCHANGED <<opmode, dio, mode>>
          \/ /\ pc["isr"] = "rm_mode" /\ pc'["isr"] = "rm_dio" /\ UNCHANGED <<dio, mode>>
             /\ opmode' = "RX_CONTINUOUS"
          \/ /\ pc["isr"] = "rm_dio" /\ pc'["isr"] = "rm_soft" /\ UNCHANGED <<opmode, mode>>
             /\ dio' = "rx_done"
          \/ /\ pc["isr"] = "rm_soft" /\ pc'["isr"] = "if_receive" /\ UNCHANGED <<opmode, dio>>
             /\ mode' = "Receive"
      BY <2>3, <1>types DEF set_receive_mode, ReceiveModeClearIrq, ReceiveModeSet,
          ReceiveModeMapDio, ReceiveModeSoft, Drive, set_mode, soft, chip
    <3> QED  BY <3>1 DEF Flying, Returning, Deciding
  <2>4. CASE LockReceive \/ ReceiveWaitEnds \/ ReadIrq \/ ClearRxIrq \/ read_fifo \/ UnlockReceive
    <3>1. /\ UNCHANGED <<opmode, dio, mode>>
          /\ pc["isr"] \notin Deciding /\ pc'["isr"] \notin Deciding
      BY <2>4, <1>types DEF LockReceive, ReceiveWaitEnds, ReadIrq, ClearRxIrq, read_fifo,
          UnlockReceive, Drive, chip, soft, Deciding
    <3>2. /\ "TX_DONE" \notin irq => "TX_DONE" \notin irq'
          /\ dio = "tx_done" => (edge' <=> edge)
      <4>1. CASE ClearRxIrq
        <5>1. "TX_DONE" \in irq \ RX_ALL => "TX_DONE" \in irq
          OBVIOUS
        <5>2. /\ irq' = irq \ RX_ALL
              /\ edge' = (edge \/ (Dio0(irq \ RX_ALL, dio) /\ ~Dio0(irq, dio)))
          BY <4>1 DEF ClearRxIrq, Drive
        <5> QED  BY <5>1, <5>2 DEF Dio0
      <4>2. CASE LockReceive \/ ReceiveWaitEnds \/ ReadIrq \/ read_fifo \/ UnlockReceive
        BY <4>2 DEF LockReceive, ReceiveWaitEnds, ReadIrq, read_fifo, UnlockReceive, chip
      <4> QED  BY <2>4, <4>1, <4>2
    <3> QED  BY <1>2, <1>4, <3>1, <3>2 DEF Flying, Returning, Buffered, Deciding
  <2> QED  BY <2>1, <2>2, <2>3, <2>4 DEF Handling
<1> QED  BY <1>1, <1>2, <1>3, <1>5, <1>6, <1>7 DEF Aloft

\* The interrupt thread, whatever main does meanwhile.
LEMMA RadioIsr ==
    ASSUME RadioInv, IsrRuns, crossed \subseteq crossed' PROVE RadioParts'
<1>1. /\ TakeEdge \/ LockReceive \/ Handling
      /\ pc'["socket"] = pc["socket"] /\ cur' = cur
      /\ pc \in [Threads -> SocketPc \cup IsrPc]
      /\ BootTyped /\ Undriven /\ RadioParts
  BY HandlingKeepsSocket DEF IsrRuns, RadioInv, OwnsContext, ModemInv, BootTyped, LinkTyped
<1>2. /\ at' = at /\ at \in 0 .. 34
      /\ (lr => lr') /\ (opmode = "SLEEP" => opmode' = "SLEEP" \/ lr')
  BY <1>1 DEF IsrRuns, LongRange, process, BootTyped, ProcessTyped
<1>3. cur = 0 => opmode' = opmode /\ mode = "Receive"
  BY <1>1, IsrOnlyLooks DEF BootTyped, Undriven
<1>4. /\ heard' = heard /\ rxing' \in {rxing, NoPacket} /\ ("RX_DONE" \in irq' => "RX_DONE" \in irq)
      /\ opmode' \in {opmode, "RX_CONTINUOUS"} /\ dio' \in {dio, "rx_done"}
      /\ mode' \in {mode, "Receive"}
  BY <1>1
  DEF TakeEdge, LockReceive, Handling, IfTransmit, IfReceive, ReceiveWaitEnds, ReadIrq,
      ClearRxIrq, read_fifo, UnlockReceive, set_receive_mode, ReceiveModeClearIrq,
      ReceiveModeSet, ReceiveModeMapDio, ReceiveModeSoft, soft, chip, history, set_mode, Drive
<1>5. MutexShared'
  BY <1>1, <1>2
  DEF RadioParts, MutexShared, TakeEdge, LockReceive, Handling, IfTransmit, IfReceive,
      ReceiveWaitEnds, ReadIrq, ClearRxIrq, read_fifo, UnlockReceive, set_receive_mode,
      ReceiveModeClearIrq, ReceiveModeSet, ReceiveModeMapDio, ReceiveModeSoft, soft, Goto,
      Threads, ReceiveModePc, Receiving
<1>6. Silence' /\ SetUp'
  BY <1>1, <1>2, <1>3, <1>4 DEF RadioParts, Silence, SetUp
<1>7. at \in 29 .. 30 => Attended'
  <2>1. CASE at \in 29 .. 30 /\ cur = 0
    BY <1>1, <1>3, <2>1, RadioAttended DEF RadioParts, Serves
  <2>2. CASE at \in 29 .. 30 /\ cur # 0
    BY <1>1, <1>4, <2>2 DEF RadioParts, Silence, Attended
  <2> QED  BY <2>1, <2>2
<1>8. at >= 30 => Preparing' /\ Retrying' /\ Aloft'
  BY <1>1, RadioReturn
<1> QED  BY <1>2, <1>5, <1>6, <1>7, <1>8 DEF RadioParts, Serves

\* The chip.
LEMMA RadioChip ==
    ASSUME RadioInv, ChipRuns, crossed \subseteq crossed', Recorded', BootTyped'
    PROVE  RadioParts'
<1>1. /\ lr /\ UNCHANGED <<at, lr>> /\ UNCHANGED <<mode, mutex, cur, pc>>
      /\ at \in 0 .. 34 /\ BootTyped /\ RadioParts /\ Recorded
  BY PresetKnown
  DEF ChipRuns, boot, process, TxDone, RxHeader, RxDone, soft, RadioInv, ModemInv, BootTyped
<1>types. irq \subseteq Flags /\ dio \in {"rx_done", "tx_done"} /\ edge \in BOOLEAN
  BY <1>1 DEF BootTyped, LinkTyped
<1>2. main = "loop" => at = 32
  BY PresetKnown, MainAt DEF RadioInv, ModemInv, BootTyped
<1>3. at = 28 => main = "rm_dio"
  BY PresetKnown, MainAt DEF RadioInv, ModemInv, BootTyped
<1>4. MutexShared' /\ (Retrying => Retrying') /\ Sent' = Sent
  <2>1. MutexShared'
    BY <1>1 DEF RadioParts, MutexShared
  <2>2. Retrying => Retrying'
    BY <1>1 DEF Retrying
  <2>3. Sent' = Sent
    BY <1>1 DEF Sent
  <2> QED  BY <2>1, <2>2, <2>3
<1>5. CASE TxDone
  <2>1. /\ opmode = "TX" /\ opmode' = "STDBY" /\ UNCHANGED <<dio, fifo, rxing, heard>>
        /\ irq' = irq \cup {"TX_DONE"}
        /\ edge' = (edge \/ (Dio0(irq \cup {"TX_DONE"}, dio) /\ ~Dio0(irq, dio)))
    BY <1>5 DEF TxDone, Drive
  <2>2. Silence' /\ SetUp' /\ at \notin 28 .. 30
    BY <1>1, <2>1 DEF RadioParts, Silence, SetUp
  <2>3. Preparing => Preparing'
    <3>1. pc["socket"] \in {"map_tx", "soft_tx", "unlock_ok"} => cur' \in crossed'
      <4>1. mutex = "socket" => cur' \in 1 .. NumOut
        BY <1>1, LinkAssumption DEF BootTyped, LinkTyped, RadioParts, MutexShared
      <4>2. mutex = "socket" /\ pc["socket"] \in {"map_tx", "soft_tx", "unlock_ok"}
              => cur' \in crossed'
        BY <1>1, <2>1, <4>1 DEF Recorded, Crosses
      <4> QED  BY <1>1, <4>2 DEF RadioParts, MutexShared
    <3> QED  BY <1>1, <2>1, <3>1 DEF Preparing
  <2>4. Flying => (Returning /\ Attended)'
    BY <1>1, <2>1 DEF Flying, Returning, Attended, Dio0, Deciding
  <2>5. ~Returning
    BY <2>1 DEF Returning
  <2>6. Aloft => Aloft'
    BY <1>1, <1>4, <2>4, <2>5 DEF Aloft
  <2>7. Serves'
    BY <1>1, <1>4, <2>2, <2>3, <2>6 DEF RadioParts, Serves
  <2> QED  BY <1>4, <2>2, <2>7 DEF RadioParts
<1>6. ASSUME opmode = "RX_CONTINUOUS", UNCHANGED <<opmode, dio>>, Attended => Attended',
             Silence', edge => edge'
      PROVE  RadioParts'
  <2>1. SetUp'
    BY <1>1, <1>6 DEF RadioParts, SetUp
  <2>2. Preparing => Preparing'
    <3>1. pc["socket"] \in {"clear_tx", "write_fifo", "tx", "map_tx", "soft_tx", "unlock_ok"}
            => cur \in crossed \/ opmode = "STDBY" \/ opmode = "TX" \/ ~Preparing
      BY <1>1, RadioNow DEF RadioParts, MutexShared, Preparing
    <3> QED  BY <1>1, <1>6, <3>1 DEF Preparing
  <2>3. Aloft => Aloft'
    <3>1. ~Flying /\ (Returning => Returning')
      BY <1>1, <1>6 DEF Flying, Returning
    <3> QED  BY <1>1, <1>4, <1>6, <3>1 DEF Aloft
  <2>4. Serves'
    BY <1>1, <1>4, <1>6, <2>2, <2>3 DEF RadioParts, Serves
  <2> QED  BY <1>4, <1>6, <2>1, <2>4 DEF RadioParts
<1>7. CASE RxHeader
  <2>1. at = 32 \/ cur = 0
    BY <1>2, <1>7 DEF ChipRuns, TxDone, RxHeader, RxDone
  <2>2. /\ opmode = "RX_CONTINUOUS" /\ UNCHANGED <<opmode, dio>> /\ heard \in Nat /\ heard' = heard + 1
        /\ ("RX_DONE" \in irq' <=> "RX_DONE" \in irq) /\ ("TX_DONE" \in irq' <=> "TX_DONE" \in irq)
        /\ edge' = (edge \/ (Dio0(irq', dio') /\ ~Dio0(irq, dio)))
    BY <1>1, <1>7, LinkAssumption DEF RxHeader, Drive, BootTyped, LinkTyped
  <2>3. edge => edge'
    BY <2>2
  <2>4. Attended => Attended'
    BY <1>1, <2>2, <2>3 DEF Attended
  <2>5. Silence'
    BY <1>1, <2>1, <2>2 DEF RadioParts, Silence
  <2> QED  BY <1>6, <2>2, <2>3, <2>4, <2>5
<1>8. CASE RxDone
  <2>1. at # 28
    BY <1>3, <1>8 DEF ChipRuns, TxDone, RxHeader, RxDone
  <2>2. /\ rxing # NoPacket /\ rxing' = NoPacket /\ UNCHANGED <<opmode, dio, heard>>
        /\ "RX_DONE" \in irq'
        /\ edge' = (edge \/ (Dio0(irq', dio') /\ ~Dio0(irq, dio)))
    BY <1>8 DEF RxDone, Drive, history
  <2>3. opmode = "RX_CONTINUOUS" /\ heard # 0 /\ at \notin 20 .. 28
    BY <1>1, <2>1, <2>2 DEF RadioParts, Silence
  <2>4. (edge => edge') /\ (dio = "rx_done" /\ "RX_DONE" \notin irq => edge')
    BY <2>2 DEF Dio0
  <2>5. Attended => Attended'
    BY <1>1, <2>2, <2>4 DEF Attended
  <2>6. Silence'
    BY <1>1, <2>2, <2>3 DEF RadioParts, Silence
  <2> QED  BY <1>6, <2>2, <2>3, <2>4, <2>5, <2>6
<1> QED  BY <1>5, <1>7, <1>8 DEF ChipRuns

\* All actors together.
LEMMA RadioStep == RadioInv /\ [BootNext]_allVars => RadioInv'
<1> SUFFICES ASSUME RadioInv, [BootNext]_allVars PROVE RadioInv'
  OBVIOUS
<1>1. ModemInv' /\ OwnsContext'
  BY ModemStep, ContextStep DEF RadioInv
<1>2. CASE Ends
  <2>1. NoProcess
    BY <1>2 DEF Ends, Exit, Segfault, Crash
  <2>2. /\ at' = 0 /\ mutex' = "none" /\ cur' = 0 /\ edge' = FALSE
        /\ UNCHANGED <<opmode, irq, rxing, heard>>
    BY <2>1 DEF NoProcess
  <2>3. pc'["socket"] = "idle" /\ pc'["isr"] = "wait"
    BY <2>1 DEF NoProcess, Threads
  <2>4. RadioParts'
    BY <2>2, <2>3
    DEF RadioInv, RadioParts, MutexShared, Silence, SetUp, Serves, Receiving
  <2>5. Recorded'
    BY <2>2, <2>3 DEF Recorded, Crosses
  <2> QED  BY <1>1, <2>4, <2>5 DEF RadioInv
<1>3. CASE BootMoves /\ Remember
  <2>1. crossed \subseteq crossed' /\ Recorded'
    BY <1>3 DEF Remember, Recorded
  <2>2. RadioParts'
    <3>1. CASE MainRuns
      BY <2>1, <3>1, RadioMain
    <3>2. CASE Restart
      <4>1. /\ at = 0 /\ at' = 1
            /\ UNCHANGED <<opmode, irq, rxing, mutex, pc, cur, heard>>
        BY <3>2 DEF Restart, system, chip, soft, history
      <4> QED
        BY <4>1 DEF RadioInv, RadioParts, MutexShared, Silence, SetUp, Serves, Receiving
    <3>3. CASE Sigint \/ Stopped
      <4>1. /\ UNCHANGED <<opmode, irq, dio, fifo, edge, mode, pc, cur>>
            /\ UNCHANGED <<rxing, mutex, at, lr, heard>>
        BY <3>3 DEF Sigint, Stopped, allVars, vars, system, chip, soft, history, boot, process
      <4>2. (MutexShared /\ Silence /\ SetUp)'
        BY <4>1 DEF RadioInv, RadioParts, MutexShared, Silence, SetUp
      <4>3. Serves'
        BY <2>1, <4>1, RadioFrame DEF RadioInv, RadioParts, Serves
      <4> QED  BY <4>2, <4>3 DEF RadioParts
    <3>4. CASE BeginHandshake \/ BeginFragment
      BY <2>1, <3>4, RadioBegin
    <3>5. CASE SocketRuns \/ IsrRuns \/ ChipRuns
      BY <1>1, <2>1, <3>5, RadioSocket, RadioIsr, RadioChip DEF ModemInv
    <3> QED  BY <1>3, <3>1, <3>2, <3>3, <3>4, <3>5 DEF BootMoves
  <2> QED  BY <1>1, <2>1, <2>2 DEF RadioInv
<1>4. CASE UNCHANGED allVars
  <2>1. /\ UNCHANGED <<opmode, irq, dio, fifo, edge, mode, pc, cur>>
        /\ UNCHANGED <<rxing, mutex, at, lr, heard, crossed>>
    BY <1>4 DEF allVars, vars, system, chip, soft, history, boot, process
  <2>2. Recorded' /\ (MutexShared /\ Silence /\ SetUp)'
    BY <2>1 DEF RadioInv, Recorded, Crosses, RadioParts, MutexShared, Silence, SetUp
  <2>3. Serves'
    BY <2>1, RadioFrame DEF RadioInv, RadioParts, Serves
  <2> QED  BY <1>1, <2>2, <2>3 DEF RadioInv, RadioParts
<1> QED  BY <1>2, <1>3, <1>4 DEF BootNext

(***************************************************************************)
(* main.cpp 30-36 with packethandler.cpp 13-20: once main is in its loop   *)
(* and the two threads rest, the chip is in LoRa mode, it listens with     *)
(* DIO0 low, or transmits with the interrupt to come that makes it listen, *)
(* unless the last packet met the interrupt task.  What an earlier process *)
(* left in the chip, and what a client sent before the radio was ready,    *)
(* make no difference.                                                     *)
(***************************************************************************)
THEOREM ShieldListensAfterStart == BootSpec => []ListensAfterStart
<1>1. BootInit => RadioInv
  BY ModemInit, ContextInit, RadioInit DEF RadioInv
<1>2. RadioInv => ListensAfterStart
  <2> SUFFICES ASSUME RadioInv, main = "loop", Resting, cur \notin crossed
               PROVE  lr /\ Listening /\ ~Dio0(irq, dio)
    <3>1. ASSUME RadioInv, main = "loop", Resting, cur \in crossed PROVE lr
      <4>1. at = 32
        BY <3>1, PresetKnown, MainAt DEF RadioInv, ModemInv, BootTyped
      <4> QED  BY <3>1, <4>1 DEF RadioInv, RadioParts, SetUp
    <3> QED  BY <3>1 DEF ListensAfterStart
  <2>1. at = 32
    BY PresetKnown, MainAt DEF RadioInv, ModemInv, BootTyped
  <2>2. lr /\ Aloft
    BY <2>1 DEF RadioInv, RadioParts, SetUp, Serves
  <2>3. Sent = cur
    BY DEF Resting, Sent, Unsent, ReceiveModePc
  <2>4. Flying \/ (Returning /\ Attended)
    BY <2>2, <2>3 DEF Aloft, Resting
  <2>5. Flying => Listening /\ ~Dio0(irq, dio)
    BY DEF Flying, Listening, Dio0
  <2>6. Returning /\ Attended => Listening /\ ~Dio0(irq, dio)
    BY DEF Resting, Returning, Attended, Listening, Dio0, Deciding
  <2> QED  BY <2>2, <2>4, <2>5, <2>6
<1> QED  BY <1>1, <1>2, RadioStep, PTL DEF BootSpec
=============================================================================
