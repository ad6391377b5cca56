# Verification of the Hydro LoRa Shield backend

TLA+ models, TLC runs and TLAPS proofs for the program in `src/`: the bridge
between a local GUI (Unix domain socket) and a LoRa radio (SX1276 over SPI).
Paths below are relative to `src/`.

## 1. The system

| Component | Source | State it keeps | Operations | Runs on |
|---|---|---|---|---|
| Radio chip (external) | seen through `lib/lora_sx1276.cpp` | operating mode, IRQ flags, DIO0 mapping, one buffer | end of transmission, header seen, end of packet, DIO0 edge | itself |
| LoRa + driver | `lib/lora.cpp`, `lib/lora_sx1276.cpp` | `LoRa::mutex`, the global `mode` | `send`, `receive`, `set_receive_mode`, `set_transmit_mode`, `SX1276_IRQ_Handle_Task` | socket thread, interrupt thread |
| PacketHandler, sending | `lib/packethandler.cpp` | `messages`, `aes_ctx`, `iv` | `send`, `encryption_handshake`, `send_pkt`, `clean` | socket thread (`clean`: housekeeping) |
| PacketHandler, receiving | `lib/packethandler.cpp` | `received`, `aes_ctx`, `iv` | `receive`, `poll` | interrupt thread, housekeeping thread |
| Fragment codec | `lib/packethandler.cpp`, `lib/packet.h` | none | padding, splitting, checksum, framing | in the above |
| Radio configuration | `lib/lora_sx1276.cpp` | modem registers | `lora_set_*`, `lora_init` | main |
| UnixSocket | `src/unix-socket.cpp` | `m_client_sock_fd`, `m_buffer`, `m_running` | `socket_thread`, `client_thread`, `send_data`, `stop` | socket, housekeeping and main thread |
| InterfaceConnection, main | `src/InterfaceConnection.cpp`, `main.cpp` | `phMutex`, `shutdown_flag` | `on_data`, start-up, shutdown | all |
| AES-128 | `lib/aes.c` | vendored | CTR encryption | in the above |

How they interact. A client's bytes reach `on_data` on the socket thread, which
holds `phMutex` while `PacketHandler::send` transmits a handshake and the
fragments; `send_pkt` repeats `LoRa::send` until it succeeds and sleeps 50 ms
after each attempt and 50 ms more at the end. A rising DIO0 runs
`SX1276_IRQ_Handle_Task` on the interrupt thread: after a transmission it puts
the radio back into receive mode, then (always, because it reads `mode` again)
receives, and `PacketHandler::receive` pushes what comes into `received`. The
housekeeping thread spins over `poll` and `clean`; `poll` joins and decrypts
complete buckets and its callback writes to the client.

What is hard. Two threads drive one chip and only part of that is under
`LoRa::mutex`; the IRQ flags are read and cleared in two transfers; the chip
shares one buffer between both directions; messages cross a lossy link under
8-bit random ids, with the cipher's vector in a packet of its own; maps and the
cipher context are shared by three threads without a common lock; the socket is
closed under a thread that may be blocked on it. `PROJECT.json` lists each such
hazard at its line.

What makes each part correct.

- Link: packets go out once and in order; every attempt to send and every
  interrupt task ends; what cuts a transmission, leaves the chip deaf or spoils a
  received packet is known, and costs that packet only.
- Receive side: whole messages are delivered in order, at most once, and nothing
  else is; a loss costs only the message that suffered it.
- Send side: the fragments sent are those of one message, ciphered with the
  vector that was announced; entries expire, and not while they are sent.
- Codec: unpadding inverts padding; no length wraps.
- Configuration: whatever the registers held, the preset decides what the modem
  does; modem registers are written in sleep mode.
- Socket: data is buffered or written, never dropped; `stop` returns.
- main: the shield listens once it is up, start-up disturbs no message of an
  early client and does not hang. (Shutdown may: `socket_stop`.)

## 2. Modules

| Module | Models | Uses |
|---|---|---|
| `LoraLink` | `LoRa::send`, `LoRa::receive`, the driver below, the interrupt task, `send_pkt` | |
| `PacketChannel` | what the link promises in one direction | refined by `LoraLink`, twice |
| `RadioConfig` | the setters of `lora_init` and of the presets, bit by bit | |
| `Startup` | `main` from the constructor of `server` to its end, restarts | extends `LoraLink`, `RadioConfig` |
| `Reassembly` | `receive`, `poll` | |
| `MessageService` | what the receive side promises | refined by `Reassembly` |
| `Codec` | padding, cutting, joining, checksum, byte order | |
| `Exchange` | `on_data`, `send`, `encryption_handshake`, `clean`, time | extends `Reassembly`, `Codec` |
| `UnixSocket` | the socket thread, `send_data`, `stop` | |
| `LoraLinkProofs`, `RadioConfigProofs`, `ReassemblyProofs`, `CodecProofs`, `UnixSocketProofs` | theorems | the module of that name |
| `StartupProofs` | theorems about `Startup` | `LoraLinkProofs`, `RadioConfigProofs` |
| `ExchangeProofs` | theorems about the send side of `Exchange` | `Exchange` |
| `DeliveryProofs` | theorems about what `poll` hands up while both directions run | `ExchangeProofs`, `ReassemblyProofs`, `CodecProofs` |
| `MCLoraLink`, `MCStartup`, `MCReassembly`, `MCExchange`, `MCUnixSocket` | instances for TLC | |

`LoraLink` models the link. Two threads, `"socket"` and `"isr"`, have a program
counter each; a step is one SPI transfer, one access to `mode` or one mutex
operation, so that all orders the program can show are explored. `opmode`,
`irq`, `dio`, `fifo` are the chip's registers and buffer, `rxing` the packet
being received, `edge` a DIO0 edge that waits for the interrupt thread. The
actions carry the names of the driver routines. The socket thread transmits
`NumOut` packets through `send_pkt`; the peer puts up to `NumIn` packets on the
air, each intact or with a bad header or CRC. `TxDone`, `RxHeader` and `RxDone`
are the chip. Nothing is assumed of the time anything takes: the code ensures none
of it (section 3). Instead two histories say what a packet met on its way. `crossed`
has the own packets for which the interrupt task was awake while `LoRa::send` worked
on them (its unlocked `set_receive_mode`, its reading of `mode`), or that were out
before `set_transmit_mode` was done, or still in the air when the next `LoRa::send`
came. `mixed` has the places of `inbox` filled when the shield had written to the
buffer, or another header had come, since the packet's own. The properties state what
holds of all other packets, and that these do no harm to the others.

`PacketChannel` is the abstract specification of one direction of the link: a
channel with one place, whose packet comes out once or is lost when the next one
is sent. A spoilt packet may be lost or garbled, and never does more come out than
was put in. `LoraLink` refines it twice, by `NumberFrom`, which reads a packet as its
number if it is an intact one of the right sender: `ReceivesAsChannel` (sent <-
`heard`; arrived <- the numbers in `inbox`, 0 for `mixed`; spoilt <- the packet
heard last, unless it is `whole`), and `TransmitsAsChannel` (sent <- `Sent`, the
packet the chip was put in TX mode for; arrived <- the numbers in `onAir`; spoilt <-
`crossed`), where the channel is reliable.

`RadioConfig` has the configuration registers as sets of bits and each setter as
a function from register file to register file: `|` is union, `& ~` difference, and
an assignment to `uint8_t` truncates. `InitCalls` and `PresetCalls` are the calls
of `lora_init`, `set_long_range` and `set_short_range` in order; `ModemAs` and
`PowerAs` read the registers back as the chip does. `ModemAs` leaves the coding
rate out: `lora_set_coding_rate` ors the new rate into the old one.

`Startup` puts `main` over the link: `Program` lists the routines it calls, and
`at` is its place. `server` is a global, so the socket thread runs before `main`
does and may be in `send` while the radio is configured (`BeginHandshake` before
the loop); the interrupt thread exists from `wiringPiISR` on, before there is an
SPI, and if `wiringPiSetup` or `wiringPiISR` fails there never is one: whoever
uses the null pointer ends the process (`Segfault`). `lora_init` takes no lock,
the preset takes `LoRa::mutex`, `packetHandler.init` takes `phMutex`. The process
may be killed at `CrashAt`, by a signal or by that fault, and is started again up
to `Lives` times, with either preset: the chip keeps registers, operating mode,
flags and mapping, the process nothing. The link's actions are those of
`LoraLink`, conjoined with what they do to `phMutex`, the cipher context and the
LongRangeMode bit. The two joins of shutdown are steps that need never come:
`server.shutdown()` waits for the client that is being read (`socket_stop`), the
housekeeping thread for a callback that may be blocked in `write`.

`Reassembly` models `receive` and `poll` against a peer that sends the way
`PacketHandler::send` does: a handshake, then the fragments, under one id.
`received` maps ids to sequences of packets, `ctx` is the cipher context, `task`
the bucket between its processing and its erasure (the interrupt thread may push
into it meanwhile). A packet's bytes are abstracted to the message it was cut
from: a bucket decrypts to message m only with the right key, the vector of m
still unused, and all fragments of m in order. Anything else is `Garbage`,
which the padding check may or may not let through. `Lose` is a packet that does
not arrive or that an early return of `receive` drops.

`MessageService` is the abstract specification of the receive side: whole
messages, in order, at most once, none invented. `Reassembly!ImplementsService`
is the refinement (offered <- sent; delivered is the history of the callback).

`Codec` has the arithmetic on bytes: `paddedData`, `fragment`, `packet_t`,
`validate_checksum`, `reassembled`, `padding_length` with both of its checks and
the wrap of its unsigned start, and the byte order in which keys and vectors reach
the cipher (`InitKey`, `HandshakeKey`, `OwnVector`, `ReceivedVector`).

`Exchange` has both directions over the one context. `send` is cut where other
threads can come in between: `Rekey`, `Announce`, `Encipher`, `Store`,
`Transmit`, `SendReturns`. `messages` is the map of that name, keyed by id and
expiration (`std::hash` covers both, `==` the id); `clean` and `Tick` are the
housekeeping thread and the clock. A packet on the `wire` says which vector it was
enciphered with, which the peer needs to be the one announced. The history
`disturbed` collects messages of either direction for whom the context was in
other hands. `HandedUp` sends each message of the peer through `Codec`, so that
what `Reassembly` calls delivered is compared with the text that was written.

`UnixSocket` models the class of that name with its three threads: the socket
thread (`select`, `accept`, flush, clear, `read`, close), the housekeeping thread
in `send_data`, the main thread in `stop`. `fd` is `m_client_sock_fd`, `fdOpen`
whether the descriptor behind it is open, `out` the history of what was written
to a connected client. `accept` may fail for want of a descriptor
(`AcceptMayFail`) and leaves -1 in `m_client_sock_fd`, which `send_data` takes
for a client. `alive` says whether SIGPIPE has killed the process, `raced` the
history of messages that `send_data` moved when the socket thread was no longer
where the test of `m_client_sock_fd` supposes it, after a failed `accept` among
others. Each system call and each access to a shared member is a step. Clients
connect, write and leave at any time; bytes are abstracted to the message they
carry.

Seams. `Startup` composes the link with `main`, `Exchange` the two directions
with the codec. Between them: a packet transmitted in `Exchange` is one
`send_pkt` of `LoraLink`, which by `TransmitsAsChannel` is on the air once and
before the next, or is lost because something crossed it; what `Reassembly`
assumes of its input (`receive` and `Lose` each take the packet sent last, once,
but for a `mixed` one) is `ReceivesAsChannel` of `LoraLink`; the callback of
`poll` is `send_data` of `UnixSocket`.

## 3. Assumptions that are parameters or guards

Link and start-up:

- `LoraLink` assumes nothing of timing. `send_pkt` leaves 100 ms between packets; at
  SF7 and 125 kHz a 25-byte packet takes about 65 ms, but in the configuration `main`
  chooses (SF8, 62.5 kHz) it takes more than 200 ms, so the next `LoRa::send` finds the
  chip busy and cuts the packet (`link_tx_cut`). In the terms of the properties every
  packet of a message but the last is then `crossed`.
- `ChipRuns` (Startup): a reception outlasts `main`'s step from receive mode to the
  mapping of DIO0 (microseconds against milliseconds). That is the only timing
  assumed.
- Bounds that are guards of `Startup`: before its loop `main` meets an early client or
  a packet on the air, not both (`link_contended` has the two together, over a chip
  that is set up); an early client, which talks to a build with `main`'s own preset,
  and SIGINT, which finds the loop at rest, come in the last life, a radio that is not
  recognised in earlier ones (`LastLife`). Earlier lives are there for the chip they
  leave behind. The theorems of `StartupProofs` are about the module with these guards.
- The chip keeps registers, flags and mode over a restart; what its buffer holds
  is not followed over one. While it is in FSK mode writes to LoRa registers are lost.
  Both are the data sheet's, not the code's.

Messages:

- `Prompt` (Reassembly, Exchange): `poll` finishes with what has arrived before
  the next packet comes. Packets are at least 100 ms apart and the housekeeping
  thread spins, but a callback blocked in `write` to a slow client breaks it. The
  theorems on the send side, and `InOrder`, do without.
- `FreshIds`: `rand()` repeats no 8-bit id. False in the long run;
  `reassembly_lossy` and `reassembly_stale` do without. Own ids are drawn from
  `OwnIds`, and are reused in `exchange`.
- `Losable`: the packet types the link may lose.
- `Keyed`: the shield has sent before, so its key has the byte order of
  `encryption_handshake` rather than that of `init`. TRUE in the runs of
  `Reassembly`, FALSE in `exchange`.
- The peer ciphers with the byte-swapped vector `poll` computes
  (`VectorIsSwapped` says that this code does not).
- A message is sent within its lease (`Tick`): `Lease = 2` stands for the 10000 s
  of `packethandler.cpp:211`.
- Operations on `received` and `messages` are atomic, although the code has no
  lock there.

Socket:

- `AcceptFails`: a failure for want of descriptors is over by the next call (a bound:
  two failures in a row leave the state as it is).
- A step on `m_buffer` is atomic (UnixSocket), although the code has no lock: a
  torn vector is not modelled. When the three threads take their steps is left
  open.

## 4. Runs

| Run | States | Shows |
|---|---|---|
| `link_contended` | 3,138,945 | three packets out, two in: `TypeOK`, `AirOrder` (no repetition, no overtaking), `ListensAtRest`, `InboxFaithful`, `OnlyCrossedIsCut`, `ReceivesAsChannel`, `TransmitsAsChannel` |
| `link_progress` | 324,418 | two packets each way: `SendPktReturns`, `IrqTaskReturns`, `AllSentOnAir` |
| `link_tx_cut` | violated | a packet reported as sent is cut by the next one (`lora.cpp:95`) |
| `link_rx_window` | violated | an intact packet is reported as having a malformed header (`lora_sx1276.cpp:554`) |
| `startup` | 904,177 | `PresetFixesModem`, `ListensAfterStart`, `InitLeavesSendAlone`, `ModemWrittenAsleep`, `MainGetsThrough` (start-up only) over two lives of the process |
| `reassembly_prompt` | 21,720 | `ImplementsService`, `OnlyLossLingers` under loss of fragments |
| `reassembly_lossy` | 202,086 | with reused ids and lost handshakes: `GarbageNeedsLoss`, `InOrder`, `WholeIsDelivered` |
| `reassembly_stale` | violated | a stale fragment and a reused id yield a message nobody sent (`packethandler.cpp:307`) |
| `exchange` | 355,544 | both directions: `OwnReadable`, `GarbageIsBounded`, `UndisturbedIsDelivered`, `HandedUpAsWritten`, `NoStrayFragment`, `NothingFreedInUse`, `MessagesReclaimed` |
| `socket_threads` | 174,690 | `NothingLost`, `StopReturns` (clients leave in the end), `NextIsServed` |
| `socket_race` | violated | data that is raced is neither written nor buffered (`unix-socket.cpp:69`, `126-128`) |
| `socket_stop` | violated | `stop` joins a thread that is blocked in `read` (`unix-socket.cpp:64`) |

Four results deserve a word. `OnlyCrossedIsCut`, `ListensAtRest`, `AllSentOnAir`
and `TransmitsAsChannel` except the packets in `crossed`, `InboxFaithful` and
`ReceivesAsChannel` those in `mixed`: these can be cut, leave the chip deaf or
come up garbled, and the runs show that nothing else does that, that the next
undisturbed send makes the chip listen again, and that even then no packet is
repeated or overtaken. `OwnReadable` and `UndisturbedIsDelivered` hold because
they except the messages in `disturbed`: when both sides talk at once, each
direction takes the other's vector, and `exchange` shows that this is the only
way (beside loss) in which a message is spoilt, and that each spoilt one costs a
single message. `HandedUpAsWritten` and `PaddingUndone` except a text that fills
its last block and ends like a padding (`Ambiguous`): `send` adds no block of
padding to it, so `poll` cuts it or refuses it. `NothingLost` excepts the
messages in `raced`: `socket_race` (for the race; a failed `accept` is the other
way) shows that they can be lost, `socket_threads` that this is the only way,
before SIGPIPE or `stop`, and that no other message suffers from it.

Bounds. Two outgoing packets are the least for one to cut the other, or for a
retry to overtake, and a third lets the chip recover from that; two incoming ones
let a packet arrive while the one before is read. The chip has one buffer and the
edge is one bit, so more packets repeat the same situations. Messages of one, two
and three fragments give a bucket that is complete at once, one that waits, and
one that can be completed by strangers; four messages let an id be reused after a
loss with a message in between. In `startup` two lives are enough for registers
left by the other preset, for flags and modes left by a kill before a setter or
in the loop, and for a second process that finds them; the client's one message
is the two packets of a handshake and a fragment, and one packet is on the air.
In `exchange` two messages on each side let one be open at any point of the
other, with one disturbed and one not; a single own id is reused at once; three
seconds let the first entry expire while the second is there. Deadlock is checked
in all passing runs; `AtRest`, `Stopped` and `Silent` are the only ways to stop.

Fairness. Each thread's steps are weakly fair (they are scheduled by the kernel
and `LoRa::send`, `LoRa::receive` do bounded work); taking the mutex is weakly
fair only, as `std::mutex` promises no more. The chip finishes what it has begun.
Nobody has to send and no packet has to arrive. In `Reassembly` only `poll` is
fair: the housekeeping loop never blocks on the radio. `Exchange` adds `send`
(the radio always returns, `SendPktReturns`), `clean` and the clock. In `Startup`
`main` up to its joins, the socket thread within a message and the interrupt
thread are fair (`BootFairness`); the chip, the joins, the signal and the kill
are not. `MainGetsThrough` is therefore about start-up only: whether shutdown
ends is asked of `UnixSocket`, where `socket_stop` shows that it may not. In
`UnixSocket` each thread is fair; `LeavingSpec` adds that a client leaves in the
end, which nothing in the code enforces and `socket_stop` does without.

## 5. Proofs

All with `tlapm`, for every value of the constants that satisfies the named
assumptions of the modules. Every safety property of the passing runs, invariant
or action property, is a theorem, and so are the three refinements. A theorem about a run
with a parameter such as `Prompt` has it as its hypothesis.

| Theorem | Property | Hypotheses | Inductive invariant |
|---|---|---|---|
| `TypeCorrect` | `TypeOK` of `LoraLink` | none | itself |
| `PacketsInOrder` | `AirOrder` | none | `AirInv` |
| `ReceptionIsFaithful` | `InboxFaithful` | none | `ReceiveInv` |
| `ShieldListens` | `ListensAtRest` | none | `SendInv` of `LoraLinkProofs` |
| `SentIsTransmitted` | `OnlyCrossedIsCut` | none | `SendInv` |
| `LinkReceivesAsChannel` | `ReceivesAsChannel` | none | `ReceiveInv` |
| `LinkTransmitsAsChannel` | `TransmitsAsChannel` | none | `SendInv`, `Done` |
| `PresetSetsModem` | | registers left by an init | `Written` |
| `InitNeverReplacesContext` | `InitLeavesSendAlone` | none | `OwnsContext` |
| `StartupTypeCorrect` | `StartupTypeOK` | none | `BootTyped` |
| `StartupFixesModem` | `PresetFixesModem` | none | `ModemInv` |
| `ModemIsWrittenAsleep` | `ModemWrittenAsleep` | none | `ModemInv` |
| `ShieldListensAfterStart` | `ListensAfterStart` | none | `RadioInv` |
| `ReassemblyTypeCorrect` | `TypeOK` of `Reassembly` | none | itself |
| `OnlyLossIsLeft` | `OnlyLossLingers` | `FreshIds`, `Prompt` | `FreshInv` |
| `GarbageComesFromLoss` | `GarbageNeedsLoss` | `Prompt`, `Keyed` | `Untroubled` |
| `GenuineInOrder` | `InOrder` of `Reassembly` | none | `OrderInv` |
| `ExchangeInOrder` | `InOrder` while both sides send | none | `OrderInv`, `SendInv` |
| `ReceiveImplementsService` | `ImplementsService` | `Dependable` | `RInv` |
| `NothingInvented` | | `Dependable` | `RInv` |
| `OnlyOverlapSpoilsOwn` | `OwnReadable` | none | `SendInv` |
| `CleanSparesSend` | `NothingFreedInUse` | none | `SendInv` |
| `FragmentsFollowHandshake` | `NoStrayFragment` | none | `StrayInv` |
| `UndisturbedArrives` | `UndisturbedIsDelivered` | `Prompt` | `DeliveryInv` |
| `OneGarbagePerMessage` | `GarbageIsBounded` | `FreshIds`, `Prompt` | `BoundInv` |
| `ExchangeTypeCorrect` | `ExchangeTypeOK` | none | `ExchangeTyped` |
| `TextArrives` | `HandedUpAsWritten` | none | `Typed` |
| `SocketTypeCorrect` | `TypeOK` of `UnixSocket` | none | `SocketTyped` |
| `OnlyRacedIsLost` | `NothingLost` | none | `SocketInv` |
| `PaddingUndone`, `FragmentsFit`, `JoiningUndoesCutting`, `ChecksumsHold`, `NothingBeyondBuffer`, `VectorIsSwapped`, `KeysDiffer` | | a text of 1 to 256 bytes | |

`LoraLinkProofs`. `AirOrder` is not inductive: `AirInv` adds that packets on the
air and in the buffer are numbered up to the current one (and below it until its
`StartTx`), that `send` prepares the chip only while it does not transmit, and
that what is being transmitted comes after all that has been. Nobody else puts
the chip in TX mode, so the interrupt thread's unlocked `set_receive_mode` can
cut a transmission, which takes a packet out of the order and never repeats one.

`ReceiveInv` is about what comes in. `Alone` follows a packet whose header came when
nothing else was there (`whole`) from the header to `read_fifo`: the flags, and then
`state`, describe what is in the buffer (`Describe`). The flags are cleared one
transfer after they were read; a packet that comes in between finds flags raised or a
packet being read, and so is not `whole`. `Counted` bounds what can still be handed up
by what was heard, which is why even garbage never outnumbers the peer's packets.

`SendInv` is about what goes out. `Recorded` says that `crossed` has all that `Crosses`
names. For a packet not in it, `Preparing` says what `LoRa::send` has written so far,
and `Flight` what became of it afterwards: it is being transmitted with its interrupt
to come and the interrupt task not yet deciding anything (`Flying`), or it is out and
the task on its way to make the chip receive (`Returning`). `ListensAtRest` and
`OnlyCrossedIsCut` read off this. `Before` adds that a chip found free has finished with
the packet before, unless that was crossed; with `AirInv` and `Done` (never more on the
air than the chip was put in TX mode for) `StartTx` is `Send` and `TxDone` `Arrive` or
`Garble` of the outgoing channel. `RxHeader` and `read_fifo` are those of the incoming
one. None of it depends on `NumOut`, `NumIn` or `Kinds`.

`RadioConfigProofs`. `Bits` and `Field` are recursive functions, about which
nothing can be proved by induction here, but a register has eight bits: `BitsAre`
and `FieldUnrolled` unroll them. There is one lemma for each routine: the field it
sets and the fields it leaves. `Written(f, p, k)` is what the first `k` calls of a
preset have fixed, whatever the registers held, and `PresetCall` adds one call.
`PresetSetsModem` is the sum over all six.

`StartupProofs`. `ProgramAt` and `MainAt` say which routine is at which of the 34
places of `main`, so that the proofs can count. Four invariants use it.

- `OwnsContext`: while a message is being sent, within a packet or between two,
  the socket thread owns `phMutex` and the context is its own; of `main`'s steps
  only `InitPacketHandler` touches the context, and it needs `phMutex`.
- `BootTyped`: the types. `LoraLink`'s have to be proved again, as `main` puts the
  chip in sleep mode and takes `LoRa::mutex`.
- `ModemInv`: at place `at`, `Configured` holds of the registers (from `Written`);
  LoRa mode has been reached once the radio is recognised, by the second of the
  two writes of sleep mode at the latest (`LongRangeReached`); and until a client
  has sent, the interrupt thread finds `mode` in `Receive` and so does not wake
  the chip (`Undriven`). Without the last two a write could be lost in FSK mode.
- `RadioInv`: the argument of `SendInv` with `main` as a third actor and with what an
  earlier process left. The chip is in any state before `main`'s second
  `set_receive_mode`; step by step that writes what the rest needs (`SetUp`), and the
  interrupt thread, which may be within a `set_receive_mode` of its own, can only
  write the same. From its last write on, `Preparing`, `Retrying` and `Aloft` hold
  (`Serves`; `Aloft` is `Flight` with the next item). It rests on who has
  `LoRa::mutex` (`MutexShared`) and on a start-up that meets a client or a packet on
  the air, not both (`Silence`). `Attended` says why DIO0 is low in the end: RX_DONE
  is raised only with an edge, or an interrupt task that still has to read it.

`ReassemblyProofs`. Its theorems about a prompt `poll` rest on `Orderly`, which
needs no assumption on ids: what the fragments in the map, their numbers and the
task say about the message being sent and those before it. Its core is `Partial`:
a bucket holds at most as many packets of the current message as were sent, and
if it holds as many it holds exactly those, in order. Hence a bucket that
`Complete` accepts has lost nothing, and `SortedIsUnique` (a strictly increasing
function from 1..n to itself is the identity) says that sorting leaves it alone.
`FreshInv` adds that ids keep messages apart, and the buckets left over are those
with a loss. `Untroubled` does without fresh ids: as long as nothing was lost,
the vector is the announced one (`Vector`) and nothing handed up is garbage.
`RInv` is the refinement: with `Dependable` (fresh ids, prompt poll, handshakes
not lost, keys agreed), what is delivered is a subsequence of what was offered
(`Behind`), for any loss of other packets.

`GenuineInOrder` assumes nothing: without `Prompt` the interrupt thread pushes
into a bucket that is about to be erased, and a handshake may be joined with
fragments that came after it. `OrderInv` says of every message up to one that has been
delivered that it is `Spent`: all of it was sent, and it is not `Ready`, which
would take its vector in the context, all its fragments but not its handshake in
the bucket, and no `poll` about to erase that. A message that is delivered was
ready (`DeliveredWasReady`, since sorting keeps every packet, `SortedKeeps`), and
one that is spent stays so (`SpentStays`): its handshake gives it the vector back
only while it lies in the bucket, where it is one packet too many or about to be
erased. So nothing is delivered twice or after a later one. The run
`reassembly_lossy` checks `InOrder` with `Prompt`; without it, and with the core of
`OrderInv`, TLC checked it once on 704,264 states (two ids, four messages).

`CodecProofs` is about all texts of 1 to 256 bytes. A text has three packets at
most, so the sums of `reassembled` and `Cut` are unrolled as well:
`JoiningUndoesCutting` is what `poll` needs of `send`. `PaddingUndone` (unpadding
inverts padding but for `Ambiguous` texts) and `NothingBeyondBuffer` (whatever is
decrypted, the length handed up does not wrap, given at least 15 bytes) are about
what follows. `VectorIsSwapped` and `KeysDiffer`: the two byte orders in use are
different.

`ExchangeProofs` needs no assumption about the peer, the link, `poll` or ids.
`OwnReadable` looks at the wire only, so `SendInv` follows the vector through the
places it passes: the context (until `Encipher`, unless the message is
disturbed), `with`, the entries of `messages`, the queue (`Vectors`); `Leased`
adds that the entry being sent has not expired. `StrayInv` adds that an entry
holds packets only of messages that were given its id in its second, the newest
last and each packet once, and what of it the queue and the wire have already.

`DeliveryProofs` has the receive side of `Exchange`, where `send` may take the
context away at any time. `ExchangeInOrder` carries over because `send` gives it
no vector of the peer (`Foreign`). `DeliveryInv` is `Orderly` with two more
parts: `Noted` (a message of the peer that is open together with an own one, or
before the first own one, is in `disturbed`) and `Honest` (a message that lost
nothing and was not disturbed has the context to itself, and is delivered when it
is joined). `BoundInv` counts: each garbage that was handed up is charged to a
spoilt message that is over, and a bucket that turns into garbage is of one that
has not been charged yet. `TextArrives` is a fact about `HandedUp` and follows
from the theorems of `CodecProofs`.

`UnixSocketProofs` assumes nothing of how the threads interleave. `SocketInv` keeps
the account of `NothingLost` (`Whole`) at each place of the two threads: what is
flushed is still in the buffer until it is cleared, which is why `Given` counts
it once there. A message moved in time goes behind all others but raced ones
(`OneMore`), and a clearing takes no more from the account than the raced
messages that came between flush and clear (`OneLost`).

Only model-checked: the liveness properties (`SendPktReturns`, `IrqTaskReturns`,
`AllSentOnAir`, `WholeIsDelivered`, `MessagesReclaimed`, `MainGetsThrough`,
`StopReturns`, `NextIsServed`), since a proof needs fairness and ENABLED, beyond
the prover; and the violations, which are counterexamples. What the proofs take
as given is what section 3 lists, and the atomicity of the modelled steps.

One property took its form from its proof: `NothingLost` used to assume that
`send_data` overlaps no transition of the socket thread; what the proof needed was
only that each message is moved while its test holds, and so it now excepts those
for which it does not (`raced`) and assumes nothing. In the same way the properties of
the link used to assume a pause between packets, and now name the packets for which
its absence matters (`crossed`, `mixed`).

## 6. Plan

Done: every part of the program that keeps state has its module, and every
safety property its theorem. What would be worth more work:

1. A bound on how late `poll` may be (its callback blocks) for the promises of
   completeness, `UndisturbedIsDelivered` first; `InOrder` is all that holds
   without `Prompt`.

## 7. Not modelled

- The rounds, the S-box and the key expansion of AES (vendored; pure data). What
  the program depends on, that the context is a key and a vector which
  encryption uses up, is in `Reassembly` and `Exchange`.
- `LoraHandling` (empty).
- Driver routines nobody calls: implicit header mode, symbol timeout, rssi and
  snr, the RFO branch of `lora_set_tx_power`, `dump_registers`, the DMA,
  single-receive and blocking-send routines.
- Construction and moving of a `UnixSocket`; the system calls that set up the
  listening socket.
- Memory lifetime, heap use and torn maps. Where the code depends on them,
  `PROJECT.json` lists the hazard with a note.
