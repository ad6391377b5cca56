------------------------------ MODULE Startup ------------------------------
(***************************************************************************)
(* main() over the radio link: start-up, the signal, shutdown, and the     *)
(* restart of a process over a chip that keeps its registers.              *)
(*                                                                         *)
(* The socket thread exists before main begins, for `server' is a global   *)
(* whose constructor starts it; the interrupt thread exists from           *)
(* wiringPiISR on, before there is an SPI.  Both share the chip with the   *)
(* calls main makes, one driver routine after the other.  LoRa::init runs  *)
(* without LoRa::mutex, the preset with it.                                *)
(*                                                                         *)
(* A client's message is two packets of the link: on_data takes phMutex,   *)
(* the handshake (odd) rekeys aes_ctx, the fragment (even) is enciphered.  *)
(* As in LoraLink nothing is assumed of the time anything takes, with one   *)
(* exception (ChipRuns), and `crossed' says which packets met something.    *)
(***************************************************************************)
EXTENDS LoraLink, RadioConfig

CONSTANTS
    Lives,   \* bound: how often the process is started
    CrashAt, \* bound: the places of main at which the process may be killed
    Presets  \* the preset main chooses: "long" here, "short" the other LoRa offers

ASSUME StartupAssumption ==
    /\ Lives \in Nat \ {0}
    /\ Presets \subseteq {"long", "short"} /\ Presets # {}

VARIABLES
    reg,       \* the chip's configuration registers
    lr,        \* LongRangeMode: the chip is in LoRa mode
    life,      \* how often the process has been started
    at,        \* main's place in Program(preset); 0: there is no process
    preset,    \* the preset of this build
    initOk,    \* lora_init found the version it expects
    phMutex,   \* its owner
    ctx,       \* packetHandler.aes_ctx: who set it last
    ciphered,  \* the context of the fragment enciphered last
    flag       \* shutdown_flag

process == <<life, at, preset, initOk, flag>>
cipher == <<phMutex, ctx, ciphered>>
boot == <<reg, lr, process, cipher>>
allVars == <<vars, boot>>

-----------------------------------------------------------------------------
(* main, one driver routine or one mutex operation per step *)

\* Bounds. In earlier lives only: a radio that is not recognised. In the last one
\* only: a client that talks before main's loop, and SIGINT, which finds the loop at
\* rest. Before its loop main meets a client or a packet on the air, not both; and
\* clients talk to a build with main's own preset.
LastLife == life = Lives

Do(step) == Call(step, 0)

SetReceiveMode == <<Do("rm_irq"), Do("rm_mode"), Do("rm_dio"), Do("rm_soft")>>

\* LoRa::init.
InitSteps ==
    <<Do("isr"), Do("spi"), Do("version"), Do("sleep"), Do("sleep")>> \o InitCalls
        \o <<Do("standby")>> \o SetReceiveMode

\* A bug to rule out: the preset is written without going to sleep.
PresetStepsAwake(p) ==
    <<Do("lock")>> \o PresetCalls(p) \o SetReceiveMode \o <<Do("unlock")>>

\* LoRa::set_long_range, LoRa::set_short_range.
PresetSteps(p) ==
    <<Do("lock"), Do("sleep")>> \o PresetCalls(p) \o SetReceiveMode \o <<Do("unlock")>>

Program == [p \in {"long", "short"} |->
    InitSteps \o PresetSteps(p)
        \o <<Do("ph_init"), Do("loop"), Do("join_socket"), Do("join_housekeeping")>>]

main == IF at = 0 THEN "down" ELSE Program[preset][at].do

Passed(step) == at # 0 /\ \E i \in 1 .. at - 1 : Program[preset][i].do = step

Step(step) == main = step /\ at' = at + 1

\* wiringPiISR: edges of before are nobody's. (Where it fails, see Segfault.)
RegisterIsr ==
    /\ Step("isr")
    /\ edge' = FALSE
    /\ UNCHANGED <<opmode, irq, dio, fifo, rxing, soft, pc, history,
                   reg, lr, life, preset, initOk, flag, cipher>>

BeginSpi == Step("spi") /\ UNCHANGED <<system, reg, lr, life, preset, initOk, flag, cipher>>

\* LoRa::init ignores the error of lora_init: it goes on to set_receive_mode.
CheckVersion ==
    /\ main = "version"
    /\ \/ initOk' = TRUE /\ at' = at + 1
       \/ ~LastLife /\ initOk' = FALSE /\ at' = Len(InitSteps) - 3
    /\ UNCHANGED <<system, reg, lr, life, preset, flag, cipher>>

\* LongRangeMode can be written in sleep mode only.
MainMode(step, m) ==
    /\ Step(step)
    /\ set_mode(m)
    /\ lr' = (lr \/ opmode = "SLEEP")
    /\ UNCHANGED <<irq, dio, fifo, edge, soft, pc, history,
                   reg, life, preset, initOk, flag, cipher>>

\* A bug to rule out: the wrong mode constant.
lora_mode_standbySynthesiser == MainMode("standby", "FS_TX")

lora_mode_sleep == MainMode("sleep", "SLEEP")
lora_mode_standby == MainMode("standby", "STDBY")

\* The LoRa registers cannot be reached in FSK mode.
Configure ==
    /\ main \in Setters /\ at' = at + 1
    /\ \E new \in {Apply(reg, Program[preset][at])} :
           reg' = [r \in Registers |-> IF ~lr /\ r \in LoraPage THEN reg[r] ELSE new[r]]
    /\ UNCHANGED <<system, lr, life, preset, initOk, flag, cipher>>

\* A bug to rule out: the RX flags an earlier process left stay raised.
MainClearIrqOmitted ==
    Step("rm_irq") /\ UNCHANGED <<system, reg, lr, life, preset, initOk, flag, cipher>>

MainClearIrq ==
    /\ Step("rm_irq")
    /\ Drive(irq \ RX_ALL, dio)
    /\ UNCHANGED <<opmode, fifo, rxing, soft, pc, history,
                   reg, lr, life, preset, initOk, flag, cipher>>

MainReceive == MainMode("rm_mode", "RX_CONTINUOUS")

MainMapDio ==
    /\ Step("rm_dio")
    /\ Drive(irq, "rx_done")
    /\ UNCHANGED <<opmode, fifo, rxing, soft, pc, history,
                   reg, lr, life, preset, initOk, flag, cipher>>

MainSoft ==
    /\ Step("rm_soft")
    /\ mode' = "Receive"
    /\ UNCHANGED <<chip, mutex, cur, state, code, pc, history,
                   reg, lr, life, preset, initOk, flag, cipher>>

LockPreset ==
    /\ Step("lock")
    /\ mutex = "none"
    /\ mutex' = "main"
    /\ UNCHANGED <<chip, mode, cur, state, code, pc, history,
                   reg, lr, life, preset, initOk, flag, cipher>>

\* A bug to rule out: the preset never gives the mutex back.
UnlockPresetOmitted ==
    Step("unlock") /\ UNCHANGED <<system, reg, lr, life, preset, initOk, flag, cipher>>

UnlockPreset ==
    /\ Step("unlock")
    /\ mutex' = "none"
    /\ UNCHANGED <<chip, mode, cur, state, code, pc, history,
                   reg, lr, life, preset, initOk, flag, cipher>>

\* A bug to rule out: packetHandler.init without phMutex.
InitPacketHandlerUnlocked ==
    /\ Step("ph_init")
    /\ ctx' = "init"
    /\ UNCHANGED <<system, reg, lr, life, preset, initOk, flag, phMutex, ciphered>>

\* Lock, packetHandler.init, set_msg_callback, unlock.
InitPacketHandler ==
    /\ Step("ph_init")
    /\ phMutex = "none"
    /\ ctx' = "init"
    /\ UNCHANGED <<system, reg, lr, life, preset, initOk, flag, phMutex, ciphered>>

LoopEnds ==
    /\ Step("loop")
    /\ flag
    /\ UNCHANGED <<system, reg, lr, life, preset, initOk, flag, cipher>>

\* server.shutdown() joins the socket thread, which ends between two calls of
\* on_data, and not before the client it reads from has left: nobody has to.
JoinSocketThread ==
    /\ Step("join_socket")
    /\ pc["socket"] = "idle" /\ phMutex = "none"
    /\ UNCHANGED <<system, reg, lr, life, preset, initOk, flag, cipher>>

MainStarts ==
    \/ RegisterIsr \/ BeginSpi \/ CheckVersion
    \/ lora_mode_sleep \/ Configure \/ lora_mode_standby
    \/ MainClearIrq \/ MainReceive \/ MainMapDio \/ MainSoft
    \/ LockPreset \/ UnlockPreset
    \/ InitPacketHandler \/ LoopEnds

MainRuns == MainStarts \/ JoinSocketThread

-----------------------------------------------------------------------------
(* The process ends, and is started again.  The chip keeps its state; what its *)
(* buffer holds is not followed.                                               *)

NoProcess ==
    /\ at' = 0 /\ flag' = FALSE /\ initOk' = FALSE
    /\ phMutex' = "none" /\ ctx' = "none" /\ ciphered' = "none"
    /\ mode' = "Receive" /\ mutex' = "none" /\ cur' = 0
    /\ state' = {} /\ code' = "none"
    /\ pc' = [t \in Threads |-> IF t = "socket" THEN "idle" ELSE "wait"]
    /\ onAir' = <<>> /\ inbox' = <<>> /\ whole' = FALSE /\ mixed' = {} /\ crossed' = {}
    /\ edge' = FALSE
    /\ fifo' = NoPacket
    /\ UNCHANGED <<opmode, irq, dio, rxing, heard, reg, lr, life, preset>>

\* The housekeeping thread has seen the flag and joins, which it does not while its
\* callback is blocked in a write to the client: main returns, or waits for ever.
Exit == main = "join_housekeeping" /\ NoProcess

\* lora.lora.spi is still null when a thread comes to use it; and when main does,
\* holding the mutex for the preset, if wiringPiSetup or wiringPiISR has failed and
\* LoRa::init has returned without an SPI.
Segfault ==
    /\ at # 0 /\ ~Passed("spi")
    /\ \/ pc["socket"] = "busy" \/ pc["isr"] = "poll"
       \/ main = "isr" /\ mutex = "none"
    /\ NoProcess

Crash == main \in CrashAt /\ life < Lives /\ NoProcess

Restart ==
    /\ at = 0 /\ life < Lives
    /\ life' = life + 1
    /\ at' = 1
    /\ preset' \in Presets
    /\ UNCHANGED <<system, reg, lr, initOk, flag, cipher>>

Sigint ==
    /\ main = "loop" /\ Resting /\ ~flag /\ LastLife
    /\ flag' = TRUE
    /\ UNCHANGED <<system, reg, lr, life, at, preset, initOk, cipher>>

-----------------------------------------------------------------------------
(* The two threads of the link, and on_data *)

Handshake(n) == n % 2 = 1

BeginHandshake ==
    /\ main \notin {"down", "join_housekeeping"}
    /\ preset = "long" /\ (main = "loop" \/ (LastLife /\ heard = 0))
    /\ phMutex = "none"
    /\ BeginSendPkt /\ Handshake(cur')
    /\ phMutex' = "socket"
    /\ ctx' = "own"
    /\ UNCHANGED <<reg, lr, process, ciphered>>

BeginFragment ==
    /\ BeginSendPkt /\ ~Handshake(cur')
    /\ ciphered' = ctx
    /\ UNCHANGED <<reg, lr, process, phMutex, ctx>>

\* on_data returns after the last fragment.
ReleasePhMutex ==
    phMutex' = IF pc["socket"] # "idle" /\ pc'["socket"] = "idle" /\ ~Handshake(cur)
               THEN "none" ELSE phMutex

LongRange == lr' = (lr \/ (opmode = "SLEEP" /\ opmode' # "SLEEP"))

SocketRuns ==
    /\ Passed("spi") \/ pc["socket"] # "busy"
    /\ LockSend \/ Sending
    /\ LongRange /\ ReleasePhMutex
    /\ UNCHANGED <<reg, process, ctx, ciphered>>

IsrRuns ==
    /\ Passed("isr") \/ ~edge
    /\ Passed("spi") \/ pc["isr"] # "poll"
    /\ TakeEdge \/ LockReceive \/ Handling
    /\ LongRange
    /\ UNCHANGED <<reg, process, cipher>>

\* A reception outlasts main's step from receive mode to the mapping of DIO0.
ChipRuns ==
    /\ lr
    /\ \/ TxDone
       \/ RxHeader /\ (main = "loop" \/ cur = 0)
       \/ RxDone /\ main # "rm_dio"
    /\ UNCHANGED boot

-----------------------------------------------------------------------------

\* The shield is powered on.
BootInit ==
    /\ opmode = "STDBY" /\ irq = {} /\ dio = "rx_done"
    /\ fifo = NoPacket /\ rxing = NoPacket /\ edge = FALSE
    /\ mode = "Receive" /\ mutex = "none" /\ cur = 0 /\ state = {} /\ code = "none"
    /\ pc = [t \in Threads |-> IF t = "socket" THEN "idle" ELSE "wait"]
    /\ onAir = <<>> /\ heard = 0 /\ inbox = <<>> /\ whole = FALSE /\ mixed = {} /\ crossed = {}
    /\ reg = ResetValues /\ lr = FALSE
    /\ life = 0 /\ at = 0 /\ preset \in Presets /\ initOk = FALSE /\ flag = FALSE
    /\ phMutex = "none" /\ ctx = "none" /\ ciphered = "none"

\* The process has ended for good, or its loop waits for a signal or a packet.
Stopped ==
    /\ \/ at = 0 /\ life = Lives
       \/ main = "loop" /\ pc["socket"] = "idle" /\ pc["isr"] = "wait" /\ ~edge
    /\ UNCHANGED allVars

Ends == Exit \/ Segfault \/ Crash

BootMoves ==
    \/ MainRuns \/ Restart \/ Sigint
    \/ BeginHandshake \/ BeginFragment \/ SocketRuns \/ IsrRuns \/ ChipRuns
    \/ Stopped

BootNext == Ends \/ (BootMoves /\ Remember)

\* main and the two threads run, and on_data goes on with its message.  A wait for
\* one of the mutexes ends if it is free for long enough; the two joins need not end.
BootFairness == WF_at(MainStarts) /\ WF_pc(BeginFragment \/ SocketRuns) /\ WF_pc(IsrRuns)

BootSpec == BootInit /\ [][BootNext]_allVars /\ BootFairness

-----------------------------------------------------------------------------
(* Properties *)

\* The range of every variable.
StartupTypeOK ==
    /\ opmode \in Modes \cup {"SLEEP"}
    /\ irq \subseteq Flags /\ dio \in {"rx_done", "tx_done"}
    /\ fifo \in Packets /\ rxing \in Packets /\ edge \in BOOLEAN
    /\ mode \in {"Receive", "Transmit"}
    /\ mutex \in {"none", "main"} \cup Threads
    /\ pc["socket"] \in SocketPc /\ pc["isr"] \in IsrPc
    /\ cur \in 0 .. NumOut
    /\ reg \in RegisterFiles /\ lr \in BOOLEAN
    /\ life \in 0 .. Lives /\ at \in 0 .. Len(Program[preset]) /\ preset \in Presets
    /\ {initOk, flag} \subseteq BOOLEAN
    /\ phMutex \in {"none", "socket"}
    /\ {ctx, ciphered} \subseteq {"none", "init", "own"}

\* When main has reached its loop after a successful init, frequency, spreading
\* factor, bandwidth, CRC, header mode, preamble and power stage are what its preset
\* asks for, whichever preset an earlier process chose, wherever that was killed, and
\* whatever a client sent meanwhile. The coding rate is not: the code gets it wrong.
PresetFixesModem ==
    initOk /\ main = "loop" => ModemAs(reg, preset) /\ PowerAs(reg, preset)

\* "Modem parameters (freq, mode, etc) must be done in SLEEP mode": they are, in
\* LoRa mode at that, as long as no client has sent and the radio was recognised.
ModemWrittenAsleep ==
    [][reg' # reg /\ cur = 0 => opmode = "SLEEP" /\ (initOk => lr)]_allVars

\* packetHandler.init never replaces the context of a message that the socket
\* thread, which runs before it, is sending.
InitLeavesSendAlone == ciphered \in {"none", "own"}

\* Once main is in its loop and the threads rest, the chip is in LoRa mode, and it
\* listens, or transmits with an interrupt to come, with DIO0 low so that the next
\* packet raises an edge: whatever flags, mode and mapping an earlier process left,
\* and whatever a client sent before the radio was ready; unless the last packet
\* met the interrupt task.
ListensAfterStart ==
    main = "loop" /\ Resting =>
        /\ lr
        /\ (Listening /\ ~Dio0(irq, dio)) \/ cur \in crossed

\* main gets through start-up to its loop, or the process ends: it never waits for
\* ever for a mutex the socket or the interrupt thread holds, nor they for one of
\* main's. Nothing is said of shutdown, where the joins may take for ever.
MainGetsThrough == (main \notin {"loop", "join_socket", "join_housekeeping", "down"})
                     ~> (main \in {"loop", "down"})
=============================================================================
