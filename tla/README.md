# RadioLib in TLA+

This directory specifies parts of RadioLib, checks them with TLC on small
instances, and proves theorems about them with TLAPS. Most of it is about the
part of the library that keeps the most state over the longest time and that
has no unit test: the LoRaWAN end device (`src/src/protocols/LoRaWAN`). The
rest is where interrupts meet programs: direct reception and packets longer
than the radio's FIFO.

## The system

RadioLib is a C++ library for microcontrollers. One application thread calls
it; interrupts only set flags or shift bits into buffers. Every call blocks.

| Component | State it keeps | Operations | Talks to |
|---|---|---|---|
| LoRaWAN activation and persistence (`LoRaWAN.cpp`) | session status, mode, revision, DevNonce, JoinNonce, keys, counters, the Nonces and Session buffers | `beginOTAA`, `beginABP`, `setBufferNonces`, `setBufferSession`, `getBufferNonces`, `getBufferSession`, `clearSession`, `activateOTAA`, `activateABP` | the application (which stores the buffers), the join server |
| LoRaWAN MAC command queues | `fOptsUp`, `fOptsDown` and their lengths | `pushMacCommand`, `getMacPayload`, `clearMacCommands`, `sendMacCommandReq`, `setClass` | activation, data link, MAC command execution |
| LoRaWAN data link | frame counters, confirmations, `isMACPayload`, ADR counter | `sendReceive`, `composeUplink`, `parseDownlink` | queues, windows, network server |
| LoRaWAN MAC command execution, ADR, channels | data rate, power, channel masks and flags, duty cycle, dwell time | `execMacCommand`, `adrBackoff`, `selectChannels` | data link, band tables |
| LoRaWAN receive windows, Class C, multicast | `downlinkAction`, window times, multicast groups | `receiveClassA`, `receiveClassC`, `getDownlinkClassC` | the radio and its interrupt |
| LoRaWAN packages (`LoRaWANPacMan`, TS003, TS009) | package states, clock correction | `processData`, periodic uplinks | data link |
| PhysicalLayer | direct-mode buffer, sync state, staged mode | `transmit`, `receive`, `read`, `updateDirectBuffer` | drivers, bit interrupt |
| Module, Hal | SPI configuration, pins | SPI transfers with the busy line | chips |
| Drivers: SX126x, LLCC68, STM32WL, SX127x, SX128x, LR11x0, LR2021, CC1101, RF69, SX123x, Si443x, RFM2x, nRF24 | cached settings, FIFO progress | `begin`, `transmit`, `receive`, `startTransmit`, `readData`, ... | Module |
| Pager, AX.25, APRS, Morse, RTTY, Hellschreiber, SSTV, FSK4, Bell, AFSK, ADS-B, ExternalRadio, Print | encoder positions | encode and send; Pager also receives | PhysicalLayer |
| Cryptography, BCH, CRC, ConvCode, Utils | none to speak of | pure functions | all |

What makes each component correct:

- *Activation*: the node runs only under keys the network has, never repeats a
  DevNonce or a frame counter, takes back only a session that is signed by its
  Nonces and takes it back whole, and gets into a session eventually.
- *MAC queues*: what persists and leads the queue is repeated until a downlink
  (what persists behind a command that does not is lost, against the comment
  there), leading answers can be retrieved, every scan meets whole commands.
- *Data link*: each downlink is taken in order and once (but for the one
  numbered 0), an acknowledgement is for the frame it names.
- *Channels*: uplinks go to channels of the mask in force, as long as one of
  them allows the datarate, and backoff waits for the network.
- *Windows*: a packet that ends in a window is delivered to that window only.
- *Direct reception*: bytes come out in the order the bits came in, none twice.
- *FIFO drivers*: the bytes of a packet go through the FIFO once, in order.
- *Codes* (AX.25, POCSAG): what is encoded decodes to what it was.

The behaviours that are hard here are power failures between two saves, answers
that come late or not at all, frames refused half way through, MAC commands
that must outlive some frames and not others, and interrupts against the main
thread. `PROJECT.json` lists them one by one under `hazards`, at their lines.

## The modules

| Module | What it is |
|---|---|
| `LoRaWANSessionPromise` | abstract specification: what a device promises its network |
| `LoRaWANActivation` | activation and persistence; implements the promise |
| `LoRaWANActivationProofs` | theorems about `LoRaWANActivation`: types, DevNonces, JoinNonces |
| `LoRaWANSessionProofs` | theorems about the session in RAM, buffer and flash, and that `LoRaWANActivation` implements `LoRaWANSessionPromise` |
| `LoRaWANMacQueue` | the two MAC command queues, byte by byte |
| `LoRaWANLinkPromise` | abstract specification: a link that delivers each downlink once and acknowledges what it delivered |
| `LoRaWANDataLink` | uplinks, downlinks, counters and acknowledgements; implements the link promise |
| `LoRaWANRxWindows` | receive windows and Class C against clock, radio and interrupt |
| `LoRaWANAdr` | adaptive data rate, channel masks, backoff, and their restoration |
| `DirectReceive` | the bit interrupt against a program that reads bytes |
| `StreamFifo` | chunked transmission and reception through the FIFO of an SX127x |
| `LoRaWANMacQueueProofs` | theorems about the MAC queues: what scans and in-place clearing do to any queue |
| `LoRaWANDataLinkProofs` | theorems: counters, acknowledgements, and that `LoRaWANDataLink` implements the link promise |
| `LoRaWANRxWindowsProofs` | theorems about the time and the outcome of the windows |
| `LoRaWANAdrProofs` | theorems about masks, backoff and restoration |
| `DirectReceiveProofs` | theorems about the ring buffer and what is read from it |
| `StreamFifoProofs` | theorems about the FIFO on both ends |
| `MC_LoRaWANActivation`, `MC_LoRaWANMacQueue`, `MC_LoRaWANDataLink`, `MC_LoRaWANRxWindows`, `MC_LoRaWANAdr` | instances for TLC |

The LoRaWAN modules share no variables. Each takes the others' part as
environment: `LoRaWANActivation` has `sendReceive` as one step that moves the
counter, `LoRaWANDataLink` has it in full but within one session, with windows
that either bring a frame or do not; `LoRaWANRxWindows` has the time and the
radio, but not what a frame means; `LoRaWANAdr` has the commands' effects, and
`LoRaWANMacQueue` their way through the queues. One module for all of it would
be out of TLC's reach with bounds at which anything interesting happens.

### LoRaWANActivation

Variables with the names of the code are the members of `LoRaWANNode`. `keys`
stands for the device address, the revision and all session keys, told apart
by what they were derived from: the DevNonce, the JoinNonce and the revision.
With that, cryptography is perfect: a MIC is valid for its key and its
message. `bufferNonces` and `bufferSession` are the two buffers in RAM,
`flashNonces` and `flashSession` what the application stored of them; `valid =
FALSE` is an erased or torn buffer, which the checksum refuses
(`checkBufferCommon`). The checksum that ties a Session buffer to its Nonces
is the operator constant `Signature`; `MC_LoRaWANActivation` gives it the
exclusive or of 16-bit words that `checkSum16` is, in which DevNonce and
JoinNonce meet, so that ordinary joins share signatures.

| Action | Code |
|---|---|
| `Begin` | `beginOTAA`, `beginABP` with `clearNonces` and `clearSession` |
| `setBufferNonces`, `setBufferSession` | the same |
| `SaveNonces`, `SaveSession` | `getBufferNonces`, `getBufferSession`, and a write to flash |
| `ActivateRestored` | the branch of `activateOTAA` and `activateABP` for `PENDING` |
| `ActivateABP` | the rest of `activateABP` |
| `JoinRefused`, `JoinTxTimeout`, `JoinRequestSent` | `activateOTAA` to the end of the transmission: refused, sent under a reported timeout, sent |
| `NoJoinAccept`, `RejectJoinNonce`, `RejectMic`, `QueueFull`, `Joined`, `ForeignAccept` | the rest of `activateOTAA` with `processJoinAccept`, one action per outcome |
| `RevertToJoin`, `SendReceive` | `sendReceive` as far as it uses the session |
| `AppClearsSession` | `clearSession` called by the application |
| `ServerAnswers`, `PowerLoss` | environment |

`activateOTAA` blocks, but the server, the air and a power failure act during
its receive windows. So it is split there, and nowhere else.

What is left out: channels, data rates and the CFList; of the restored MAC
state only the dwell time limit is kept, in place of all that `createSession`
sets. Of the MAC queue there is the RekeyInd or ResetInd and the zero bytes in
front of it; other commands come in `LoRaWANMacQueue`. Times are left out.

Two flags say that the *application* let go of something: `noncesStale`, that a
DevNonce was used and is no longer known (also when the radio timed out on a
frame that went out, or when all DevNonces are used up), and `sessionStale`,
the same for frame counters, be it that an older session was restored or that
it could be restored because its signature is that of newer Nonces. The promise
holds for as long as they are FALSE. A third, `misled`, says that a foreign
JoinAccept has overwritten JoinNonce and revision before its MIC was refused.
The network knows the ABP keys of both revisions from the start, so a revision
that such a frame left behind and `beginABP` takes over does not show.
`requested`, `uplinks` and `issued` are history; `sent` flips with every
JoinRequest and every data frame, so that a frame sent a second time is a step
of the promise too and not a stutter.

### LoRaWANMacQueue

The queues are arrays of bytes with a length, as in the code, because the
interesting part is what scans and in-place moves do to them. `Row` is
`getMacCommand`, `MacLen` is `getMacLen` with the CID byte, `Found` is
`getMacPayload`, `ClearMacCommands` is `clearMacCommands`. Payload bytes are
all 1, which is also a CID: if a scan gets out of step it meets a command that is
not one.

The loops are recursive functions of the round: `Scan` holds the offset after
each round, `Clearing` buffer, offset and number of deleted bytes, `Filling` the
queue after each command of a downlink. The first two run for `FOptsMax` rounds,
which is as many as a scan can take, for each is at least one byte. Answers that
do not all fit, or any commands while `isMACPayload` is set, are answered by an
uplink that `parseDownlink` sends itself. That uplink is part of `SendHeard`: it
begins by zeroing `fOptsDown`, before the application had a chance to look, and
leaves `isMACPayload` set if it has bytes. A downlink to it is the next step.
The history `apart` says that it was sent. Each `LinkADRReq` of a block is
answered, as in 1.0; in 1.1 one answer stands for the block.

`DownlinkAssumption` says that the commands of a downlink come in its FOpts
field, which is no longer than the queue. A datarate that carries less than
that, an early return of `sendReceive` after it has set `isMACPayload`, Class C
downlinks, and commands in the payload of port 0, are not in this module.

### LoRaWANDataLink

`sendReceive` blocks, but the network and the air go on. It is split at the
radio: `call.phase` is `"tx"` with an uplink composed and `"rx"` with one sent.

| Action | Code |
|---|---|
| `SendReceive` | `sendReceive` up to `composeUplink`, called by the application |
| `transmitUplink`, `TransmitFails` | `micUplink` and `transmitUplink`; a radio error, which moves the counter all the same |
| `NoDownlink`, `GivenUp` | the windows end with nothing: another repetition, or the end of the call |
| `ReceiveDownlink` | `parseDownlink` and the rest of the call; `Accepts` is what it checks, in its order, and `Take` what it does with a frame |
| `ReceiveFails` | an error while receiving |
| `getDownlinkClassC` | the same, and its call of `parseDownlink` |
| `sendMacCommandReq` | the same |
| `NetworkSends`, `Lost` | environment |

When the answers to commands are too long, `parseDownlink` calls `sendReceive`
itself: `Take` then starts a new call in the place of the one that ends, and
`prevDC` is the stack of the local variables that the return writes back.
Counters are carried in full by the model and by their low bits on the air;
`Rebuilt` is the code's reconstruction. `owed`, `unseen`, `needless` and the
variables of the promise are history. The link promise says that
downlinks are taken with numbers that rise, and so each once, and that the
network learns of an acknowledgement only for what was taken. It has one
exception, an action of its own (`FirstTakenAgain`): the downlink numbered 0 can
be taken again until another has come, because the code refuses a counter that
is not higher only if the last one was above 0 (LoRaWAN.cpp:2019).

### LoRaWANRxWindows

The clock counts from the end of the uplink and moves only while the thread
sleeps, waits for the radio or launches it. `step` is the position in
`receiveDownlink` (RxC, Rx1, RxC, Rx2, RxC), `pc` where the thread stands in
`receiveClassA` and `receiveClassC`. The radio (`FrameBegins`, `FrameEnds`,
`TimerExpires`) is external, its interrupt sets `downlinkAction` between any
two steps of the thread. `CheckTimeout`, `WaitForFrame`, `WaitForIrq` and
`ClearAction` are the statements of `receiveClassA` between which the interrupt
matters. `ParseDownlink` either takes a frame or refuses it. Frames last
`Durations`, which may be longer than the time between the windows. `overran`
is history: a reception of Rx1 came to nothing with too little time left until
Rx2 for the RxC window between them (`NoRoom`).

### LoRaWANAdr

A channel is the set of data rates it allows, and a band two default channels
and one index for others. `execLinkADR` tries mask, data rate and power one
after the other and takes back what the code takes back; `NewChannelReq` and
`TxParamSetupReq` are the other commands that `parseDownlink` brings.
`sendReceive` selects the channel of an uplink, `Repeat` that of a repetition,
and `channel` is where it goes out. If no channel of the mask allows the
datarate, `selectChannels` reports an error that `sendReceive` ignores, and the
channel stays the one before; right after a restart that is none, and the radio
refuses its frequency (`NoFrequency`). `NoDownlink` ends the call with
`adrBackoff` if that is due. `silent` is `fCntUp - adrFCnt`, which is all that
the backoff looks at. `Restart` is a
`getBufferSession` and a `setBufferSession` on a new node, which replays the
commands saved last. `Configure` is the application's `setDatarate`,
`setTxPower` or `setADR`; `asked` and `overridden` are history. `asked` counts
every uplink composed with ADRACKReq, also one whose transmission fails, which
`fCntUp` counts too.

### DirectReceive

`BitArrives` is `updateDirectBuffer` in the interrupt. The program is the one of
`SX127x_Receive_Direct.ino`: `Poll` and `Check` call `available`, and `read` is
split at every access to what it shares with the interrupt: the decrement of
`bufferWritePos` and the increment of `bufferReadPos` are a load and a store
each, and the byte is fetched before or after the second store, as the compiler
pleases. A bit is its place in its burst, so that a byte shows where each of its
bits came from. Noise comes in any number while there is no synchronisation;
`Pause` says that the sender begins no sync word while the program is reading a
burst whose synchronisation it has dropped.

### StreamFifo

A sender and a receiver, each with its chip, its interrupt and the loop of
`Stream_Transmit.ino` and `Stream_Receive.ino`. `StartTransmit` is `stageMode`
for a packet that does not fit into the FIFO; `SeesEmpty` and `ResetEmpty` are the
test and the reset of the flag, `fifoAdd` and `fifoGet` the functions of that
name, `fifoGet` called by the interrupt. `Finish` and `ReportPacket` to
`StartReceive` are what the loops do at the end of a packet. What the chips do
is external: a FIFO, a pin that is high while the FIFO is empty (or above
its threshold), and an interrupt when it rises. Bytes are their places in the
packet. Packets are numbered modulo 3, so behaviours go on for ever. A sender's
FIFO that runs empty in the middle of a packet only makes the air pause.

## What is checked

Passing runs:

| Run | Instance | What it shows |
|---|---|---|
| `activation_safety` | OTAA and ABP, both revisions; 3 DevNonces, 2 JoinNonces, 2 uplinks, 2 mishaps, a queue of 3 bytes, late JoinAccepts for 1.1, foreign JoinAccepts, the exclusive-or signature | keys agreed, sessions signed by the Nonces next to them, restored sessions whole, a pending RekeyInd reverts, DevNonces fresh, a current answer not refused unless a foreign accept misled the device, the promise kept |
| `activation_live` | the real queue size, 4 DevNonces and 3 JoinNonces (neither is used up), late JoinAccepts for 1.1, foreign JoinAccepts, 2 mishaps, no uplinks | a device gets into a session unless it was misled |
| `mac_queue` | 9 bytes, two user commands, 9 downlinks | scans end at the end, an unanswered uplink keeps what leads the queue and persists, requests stand once, leading answers can be retrieved |
| `data_link` | a 1.1 Class A device that repeats uplinks, a 1.1 Class C device, a 1.0 multicast member; counters of 3 low and 4 high values, 3 uplinks, 1 downlink in the air | a fresh counter is recognised over a wrap of the low bits, an acknowledgement that is owed stays pending, the duty cycle is back after nested uplinks, a counter names one frame, the link promise kept (downlinks in order and once, but for number 0) |
| `rx_windows` | delays of 15 and 44 ticks, frames of 1, 10 or 35, guard 2, 2 transmissions | windows open on time and the call returns in time unless a reception of Rx1 overran, a window reports the frame it heard and drops none, Class C listens on |
| `adr` | two default channels and one more, 3 data rates, 2 powers, limit 1, delay 2, one event from outside | uplinks go out on channels of the mask as long as one allows the datarate, backoff asks the network first and completes, a restart keeps the radio settings |
| `direct_receive` | 6 bytes of 2 bits, sync words of 3, 3 bursts of up to 14 bits with any noise between them, polls for 2 bytes, at most 4 bits from one poll to the next | bytes come out whole, once and in order, none is left, every burst is read |
| `stream_fifo` | a FIFO of 6, threshold 3, packets of 7 and 8 bytes, for ever | bytes go out once and in order, "sent" means sent, a reported packet is whole, every packet heard is reported |

The bounds: a DevNonce that repeats needs two requests and a restart between;
three values also let the counter wrap. A session that is taken for another
needs two joins, so two JoinNonces. The RekeyInd check at `AdrAckLimit` is one
frame; two uplinks pass it. A mishap is a power failure, a new `begin` of a
running node, a radio error, a foreign or lost JoinAccept, an answer wasted
because a late one overtook it or the device is misled, or a call of
`clearSession`; two of them can meet in one join and between two joins. The
queue of 3 bytes lets `clearSession` and one RekeyInd fill it, which the real
15 bytes need eight rounds for. Nine bytes in `mac_queue` hold four commands,
with a persistent one before, between and after the others; one of the
downlinks asks for answers of twelve bytes, with an answer to the user in front. Where TLC reaches
a bound (`MaxFCnt`, `MaxJoinNonce`, DevNonces of the server used up) the run
may stop: `CHECK_DEADLOCK` is off for the activation runs for that reason only,
and for `data_link`, where uplink and downlink counters have bounds.

In `data_link`, three low values and three downlinks on the application
counter take the counter over a wrap once, so that `Rebuilt` meets every case
it tells apart; frames in the air are received any number of times, later ones
first, until they are lost. More of either takes TLC longer than a few
minutes.

In `rx_windows` the first delay leaves room for an RxC window before
Rx1, the second for a frame of 10 in Rx1 and an RxC window after it; a frame of
35 lasts past Rx2, as those of EU868 at DR0 and DR1 do (1.5 to 2.8 s with 1 s
between the windows). One assumption is in the bounds: the radio's timeout
interrupt for an RxC window is on time, that of a Class A window at most
`scanGuard` late. The clock stops at `MaxNow`, which is past the time by which
`sendReceive` has to be back: an RxC window of negative length, which waits for
the clock of the host to wrap around, is still waiting there.

In `adr` two default channels make an index that is neither a default channel
nor, for the code, an additional one. `MaxEvents` is 1: one restart, one call
of the application or one failed uplink, at any point; what comes before and
after is unbounded. `Limit` 1 and `Delay` 2 keep the limit from being a
multiple of the delay.

In `direct_receive` and `stream_fifo` the sizes are scaled with their
relations kept: a packet is longer than the FIFO, two chunks fit into the FIFO
(60 of 64 bytes in the code), a buffer holds more than a program leaves in it.
What the time allows is stated in constants: `Pace`, the bits stored between two
polls, is more than a sync word, and as much as the buffer holds (the byte waited
for and two intervals fill it to the last bit; for the example's 15 bytes and
the buffer of 256 that is 964 bits, 100 ms at 9.6 kbps; the example prints a
line between the poll and the first read); `Lag`, the bytes that come in before the
receiver's interrupt, is 1 where a chunk is 2, which is 29 in the code (one
more, and the level stays above the threshold and raises no edge again);
`Prompt`, the loop gets to its first `fifoAdd` before the first chunk is sent;
`Quick`, no byte comes in between the three statements that restart the
receiver.

Runs that show a disagreement between the code and what its documentation says
(`findings` in `PROJECT.json` quotes both):

| Run | Property | What happens |
|---|---|---|
| `activation_saved_pending` | `RestoredSessionIntact` | A session saved between `setBufferSession` and `activateOTAA` is saved as `PENDING`; after the next restart it is activated without keys and counters. |
| `data_link_unseen` | `AcceptedIsHandedOver` | Data received in the windows of a MAC-only uplink from within `parseDownlink` is accepted and acknowledged, but goes into a scratch buffer. |
| `data_link_mac_only` | `MacOnlyForLongAnswers` | `isMACPayload` stays set after such an uplink, and short answers cause uplinks of their own, with the duty cycle lifted. |
| `rxc_deaf` | `RxCBetweenUplinks` | A refused downlink returns from `sendReceive` before the RxC window opens again. |

`activation_safety` assumes the first does not happen (`SavePending = FALSE`:
the application saves after it has activated, as the examples of the persistence
documentation do). The network of `data_link` confirms application data only.

Known divergences without a run of their own. Each has a configuration here
with which TLC finds it:

| Configuration | Property | What happens |
|---|---|---|
| `activation_foreign_accept.cfg` | `JoinedWhateverHeard` | `processJoinAccept` stores JoinNonce and revision before it verifies the MIC (LoRaWAN.cpp:804); with a high JoinNonce or another revision the right accepts after it are refused, and the device does not join until it is restarted. |
| `activation_signature.cfg` | `SessionBelongsToNonces` | The signature is an exclusive or in which DevNonce and JoinNonce meet (:548); two joins can share it. |
| `activation_unheard.cfg` | `UnheardSessionReverts` | A RekeyInd sent in a frame on port 0 is gone from the queue (:158), and the session never reverts. |
| `activation_dwell_time.cfg` | `DwellTimeEnforced` | A session restored as `ACTIVATING` skips `createSession` (:953), and with it the dwell time. |
| `mac_persistent.cfg` | `PersistentKept` | "remove only non-persistent MAC commands, the other commands should be re-sent until downlink is received" (LoRaWAN.cpp:279): those behind one that does not persist are zeroed with it (:3149) and never sent again. |
| `mac_apart.cfg` | `AnswersOutliveUplink` | The uplink that `parseDownlink` sends for long answers (:2280) zeroes `fOptsDown` (:138), and the answers to the user with it. |
| `mac_answers.cfg` | `AnswersAvailable` | `clearMacCommands` zeroes what it moved (:3149); an answer behind another command is lost. |
| `data_link_command_ack.cfg` | `OwedAckPending` | A 1.1 device acknowledges a confirmed downlink of MAC commands by the application counter (LoRaWAN.cpp:2100), which names another frame. |
| `data_link_replay.cfg` | `TakenOnce` | The first downlink, numbered 0, is taken again (LoRaWAN.cpp:2019, `devFCnt32 > 0 &&`). |
| `adr_off_mask.cfg` | `NeverOffMask` | With no channel of the mask for the datarate, `selectChannels` returns an error (:3596) that `sendReceive` ignores (:190): the uplink goes out on the channel before, also if NewChannelReq has just removed it. |
| `adr_range.cfg` | `RangeRespected` | NewChannelReq flags its channel, and the next uplink goes there, also if the channel does not allow the datarate in use. |
| `adr_all_on.cfg` | `AllOnGranted` | With two default channels a mask with index 2 is refused once that channel was off (:3487). |
| `rxc_endless.cfg` | `RxCEndsBeforeRx2` | A reception in Rx1 that runs on past the RxC window and comes to nothing leaves that window a timeout below 0, taken for a very long one (:1839). |
| `rxc_switched.cfg` | `MembersListen` | `setClass` to Class A returns no error with the radio in standby (LoRaWAN.cpp:1148), although a multicast group is active. |
| `rxc_announced.cfg` | `Announced` | A frame that ends while `getDownlinkClassC` still works on the one before is not announced: the flag is reset after the work (:2327). |
| `direct_undropped.cfg` | `InOrder` | `read(false)` keeps the synchronisation: a bit stored between the load and the store of `bufferWritePos` (PhysicalLayer.cpp:460) is overwritten. |
| `direct_no_pause.cfg` | `InOrder` | A sync word caught while a program reads the burst before resets both positions under it. |
| `direct_wrap.cfg` | `InOrder` | One bit more between two polls, and the 8-bit position wraps over what has not been read (:509). |
| `pager_words.cfg` | `ReadsOnlyReceived` | A code word is four reads after a check for one byte (Pager.cpp:542). |
| `stream_late.cfg` | `DoneMeansSent` | DIO1 rises when it is mapped to the empty FIFO, before the first chunk is written (SX127x.cpp:1854). If the loop comes so late that this chunk is out, it adds the next two for two interrupts that stand for one, and `fifoAdd` is done with a chunk in the FIFO. |
| `stream_slow_restart.cfg` | `ReceivedWhole` | A byte that raises the interrupt between `receivedFlag = false` and `startReceive` is stored at the wrong place, or the packet is reported twice. |

One more was seen while reading and is not modelled: `eventUp->confirming` is
computed from `confFCntDown` (:251) after that has been cleared (:245).

Each property of a passing run has a mutant: a definition with a slip that a
change of the code could make, with which the property fails. They stand in the
modules as definitions of their own (section *Slips* in `LoRaWANActivation`,
before their originals elsewhere); no specification uses them.

### Fairness

`EventuallyJoined` assumes weak fairness of the application's start-up, of its
calls to activate, of the end of the receive windows, and of the network's
answer while a request is in the air. The application loop of every LoRaWAN
example calls `activateOTAA` until it succeeds, and the windows end by timeout.
Nothing is assumed of power failures, saves, or uplinks. `NoJoinAccept` counts
as a mishap while an answer is on its way: the network answers in time but
for a bounded number of losses. Without that bound no device would ever join.

Late and foreign JoinAccepts are on. A foreign one that is not refused for its
JoinNonce overwrites JoinNonce and revision before its MIC fails, and can keep a
device out for good: `EventuallyJoined` excepts devices that are `misled`, until
they are restarted, and `activation_foreign_accept.cfg` shows what happens to
them. Late accepts are bounded: an answer wasted because a late one came before
it counts as a mishap, so a network whose accepts are always one window late is
left out. So is a late accept for a 1.0 device, whose MIC does not tell it
from a right one, and a node with a queue left full by repeated `clearSession`
(the length survives, so `QueueFull` repeats forever; the 15 bytes of the run
are not filled by two mishaps). The first two are the network's doing; the third
is in the hazards.

`BackoffCompletes` (`adr`) assumes that the application goes on sending: weak
fairness of uplinks, their repetitions and the end of their windows. It claims
nothing while the network answers, and needs no bound beyond `MaxEvents`.
`EveryBurstRead` (`direct_receive`) assumes that bits come in and that the
program loops. `EveryPacketReported` (`stream_fifo`) assumes the same of both
programs, and that the chip sends what is in its FIFO, that an interrupt is
served, and that a receiver in an unlimited packet hears noise when the packet
is over: the last bytes stand below the threshold until more come in.
`data_link` and `rx_windows` state no fairness: with a network that may stay
silent, an uplink has no more to hope for than its return, and `ReturnsInTime`
bounds that by the clock.

## What is proved

### Activation

`LoRaWANActivationProofs`, for all values of the constants that satisfy
`ActivationAssumption` (in particular the real 2^16 DevNonces, 15 bytes and
any bound on mishaps and counters):

- `TypeCorrect`: `Spec => []TypeOK`. `TypeOK` is inductive as it stands. The
  steps that need an argument are those that push into the MAC queue (the
  length stays within the buffer, `QueueTypes`), that move DevNonce
  (`DevNonceSteps`) and that sign or restore an image (`SignedType`,
  `CreatedType`, `ZeroTypes`).
- `DevNoncesAreFresh`: `Spec => DevNonceFresh`. The inductive invariant is
  `NoncesAhead`: unless the Nonces are stale, every DevNonce that was sent is
  below the one in RAM, while there is one in RAM, and below the one in flash,
  while there is not. Freshness itself is not inductive, for it does not say
  what a restart will bring back; the flag `noncesStale` marks just the
  restarts that bring back too little. `NoncesSurvive` shows that a drop of
  RAM without the flag leaves flash ahead, `NoncesAheadHolds` that every step
  keeps the invariant.
- `CurrentAnswerNotRefused`: `Spec => AnswerNotRefused`, foreign and late accepts
  included. `JoinNoncesKnown` says that no JoinNonce in RAM is above those the
  server gave out unless the device is misled, `AnswerAhead` that the answer to
  the last request is above the one in RAM while its windows are open.

`LoRaWANSessionProofs` goes on from there. Its theorems have hypotheses, and
each is one that TLC shows to be needed or that the code cannot do without:

- `~SavePending`: the application does not save a session between restoring and
  activating it (`activation_saved_pending` shows what happens if it does);
- `0 \notin LateRevs`: a JoinAccept for a 1.0 device comes in the windows of its
  own request. A 1.0 MIC does not cover the DevNonce, so the node would derive
  the keys of another request. Only `KeysAreAgreed` and `PromiseIsKept` need it.

Nothing is assumed of the checksum: all five hold for every `Signature`, the
exclusive or of the code with its collisions included.

The argument is a chain of invariants, each inductive next to those before it:

| Invariant | What it adds | Theorems |
|---|---|---|
| `SessionStored` | a resumable session stands in the Session buffer with counters no higher; where a session can be resumable at all | `SessionsAreIntact` |
| `KeysKnown` | the network has the keys of every resumable session, in RAM and in flash, and those each JoinAccept in the air stands for | `KeysAreAgreed` |
| `SessionSigned` | a resumable session has the signature of the Nonces next to it, one in flash that of the Nonces it was begun with, and no counter past the check of its RekeyInd | `SessionsAreSigned`, `PendingRekeysRevert` |
| `KeysFresh` | the keys of a JoinAccept in the air belong to no session yet and no frame was sent under them | |
| `FramesCounted` | the frame counters sent are below the one in RAM, or, between restarts, below the one in flash, which the Nonces in flash then bring back | |

`PromiseIsKept` takes them together: each step of `LoRaWANActivation` is a
step of the promise or a stutter. The frame that `SendReceive` sends is new by
`FramesCounted`, the session entered is known by `KeysKnown`, the DevNonce is
new by `NoncesAhead`. `FlashSurvives` is the heart of it: if losing RAM does
not count as a loss, then flash is enough to go on from.

### MAC queues

`LoRaWANMacQueueProofs` holds for queues of every size, every set of downlinks
that come in an FOpts field, and every set of commands that the table marks as
the user's (`QueueAssumption`, `DownlinkAssumption`). No theorem has a
hypothesis.

What the loops compute is proved by induction over their rounds. The
prover cannot use an induction theorem about a predicate, but it can use one
about a set: `LeastNumber` says that a set of numbers that is not empty has a
least one, and `Induction` follows for the set of rounds after which the
claim holds. `RoundsExist` builds the function that a loop is, so that
`ScanIs`, `ClearingIs` and `FillingIs` can say that each round makes the next
state of the one before. Of these:

- *Scans.* `OffsetsClosed` and `OffsetsLeast`: the offsets are the least set
  that holds 0 and, with the offset of a command, the one behind it.
  `OffsetsApart`: no offset lies within a command. `OffsetsAgree`: queues with
  the same bytes have the same offsets. `OffsetsOfPush`, `OffsetsOfClear`:
  which offsets a queue has after `pushMacCommand` and `clearMacCommands`.
- *Clearing in place.* `LoopOK` is the loop invariant of `clearMacCommands`:
  until it deletes a command it has changed nothing and walks over offsets
  (`Walking`); from then on it finds zero bytes only, deletes each, and has left
  alone what lies ahead of the first deletion (`Cut`). That memset starts one
  command too far behind is why it works as a cut: nothing behind the first
  transient command survives. `ClearIs` is the result.
- *Downlinks.* `FilledInOrder`: the commands of a downlink stand in `fOptsDown`
  in their order, at the lengths the queue had before each.

`QueueInv` is the inductive invariant: a scan of either queue ends at its end
(`Whole`), always; as long as `clearSession` has not zeroed a queue in use, a
scan meets commands only (`Carries`) and every request of the user at one place
(`Once`); and the answers that lead the last downlink can be found
(`Leading`). `RequestedOnce` needs `Carries`, for `getMacPayload` gives up at
a byte that is no command and would then not see the request behind it. The
theorems: `QueuesTyped` (`TypeOK`), `QueuesAreWhole` (`QueuesWhole`),
`RequestsStandOnce` (`RequestedOnce`), `LeadingAnswersKept`
(`LeadingAnswersAvailable`), `LeadIsKept` (`UnansweredKeepsLead`), and
`ClearsStayInside`: no command that `clearMacCommands` steps over or deletes
reaches past the end of the queue, so the lengths it gives to memmove and memset
are not negative.

### The data link

`LoRaWANDataLinkProofs` holds for counters of any width, any number of uplinks
and downlinks, and every network. `CountInv` is inductive: the types, that the
frame on its way has the number the node has (`CallNumbered`), that the last
frame sent is below it (`SentBelow`), that the duty cycle is in force or stands
at the bottom of the stack of nested calls, and how `fCntDown` and `taken`
agree. From it follow

- `LinkTypes` (`TypeOK`), `CountersNameFrames` (`CounterNamesOneFrame`) and
  `DutyCycleComesBack` (`DutyCycleRestored`), and
- `FreshDownlinksRecognised` (`FreshIsRecognised`): `Rebuilt` gives back the
  counter for all counters less than a wrap of the low bits ahead.

`AckInv` ties what the device owes to `confFCntDown`, and says that each
acknowledgement on its way, noted or due, on either end, is of a frame that was
received, and that the network waits for those of application data only. With it

- `OwedAcksStay` proves `OwedAckPending`,
- `LinkPromiseIsKept` that each step is a step of `LoRaWANLinkPromise` or a
  stutter, and `AcksMeanReceipt` its consequence: what the network holds for
  acknowledged was received.

Two hypotheses: `ConfirmedData`, the network confirms application data only
(`data_link_command_ack` shows what happens otherwise); and `CountersEnd`, the
downlink counters end before the last 2^16 of their 2^32 values. Past those
`Rebuilt` comes out at 0, and a device takes what it has taken before.

### Receive windows

`LoRaWANRxWindowsProofs` has three inductive invariants next to the types,
which are `WindowFieldsTyped`.

- `ListenInv` says for each statement what the radio does and whether the
  interrupt is attached. `RxCKeepsListening` (`ClassCListens`) needs nothing
  else: it holds for all delays, frame lengths and interrupt delays. Its four
  exceptions are results of calls: an error, a missed window, a refused downlink
  (`rxc_deaf`), and a multicast member switched to Class A (`rxc_switched`).
- `TimeInv` gives every step of `receiveDownlink` a deadline, which the thread
  meets whether the windows before heard nothing, a frame, or one that came to
  nothing. `WindowsOpenOnTime` (`WindowsOnTime`) and `SendReceiveReturns`
  (`ReturnsInTime`) follow under `Roomy`: the host is late by less than
  `scanGuard` covers, and between the windows there is room for an Rx1 that
  hears nothing and for an RxC window. Frames may be of any length. What the two
  properties except is a call that `overran`: a frame of Rx1 that comes to
  nothing, such as a long one of a slow data rate, ends so late that a Class A
  device misses Rx2 (`receiveDownlink` returns `RADIOLIB_ERR_NO_RX_WINDOW`), and
  a Class C device waits in an RxC window of negative length (`rxc_endless`).
- `HeardInv` says which frame or timer a set `downlinkAction` can stand for, and
  that a frame sent at the delay of a window falls into it.
  `ReturnedWindowHeard` (`WindowHeardFrame`) and `ScheduledNotDropped`
  (`ScheduledIsReturned`) follow under `Guarded`, which is true of all data
  rates, and `Punctual`: the timeout interrupt comes before `receiveClassA`
  gives up its wait for it. A later one would be taken for a frame of the next
  window, for one flag stands for all of them.

The constants of `rx_windows` satisfy all three.

### ADR and channels

`LoRaWANAdrProofs` holds for every band (`AdrAssumption`: indices below 16, a
default range without gaps that the radio can do, a power step 0), and for
every sequence of commands. `AdrInv` adds to `TypeOK` that the flags are those of
channels in the mask (`FlagsOnMask`), that an uplink is on one of them or none
fits (`ChannelOK`), that default channels keep their range, that what
`LinkADRReq` saved is what the device uses, and that every silent uplink past
the limit was counted by `asked`. The theorems: `RadioKeepsItsRange` (`TypeOK`),
`HopsWithinMask` (`HopsOnMask`), `BackoffAskedFirst` (`NetworkAskedFirst`), `RestartRestores`
(`RestartKeepsRadio`). None has a hypothesis.

### Direct reception

`DirectReceiveProofs` holds for all sizes. `PositionsInRange` (`TypeOK`) has no
hypothesis: it is true of a program that comes too late as well.
`BytesReadInOrder` (`InOrder`) and `EveryByteRead` (`NothingLeft`) have the
hypothesis `Timely`: the program reads byte by byte and drops the
synchronisation, as the example does; the sender pauses between bursts until the
program has read; and the byte that is waited for and two poll intervals fit
into the buffer, whose positions then do not wrap over unread bytes. `direct_undropped`,
`direct_no_pause`, `direct_wrap` and `pager_words` show what happens without.
A poll interval may be longer than a sync word, and bits may come in between any
two accesses of a read: what keeps them out of the buffer is that `dropSync`
comes before `bufferWritePos--`. `ReadInv` ties the two positions to the number of bits received
and bytes read, and to what the load and the store of the decrement stand for
in between; the arithmetic modulo the size of the buffer is in lemmas of its
own.

### FIFO

`StreamFifoProofs` holds for all sizes with two chunks in a FIFO, a threshold
below it (`StreamAssumption`; 30, 64 and 31 in the code), and packets that are
longer. `SenderInv` ties `remLength`, the bytes sent, the FIFO and the flag:

- `BytesStayInOrder` (`SentInOrder`) whether the loop is in time or not;
- `CompleteMeansSent` (`DoneMeansSent`) if it is (`Prompt`).

`ReceiverInv` says whose bytes the FIFO and the buffer hold, and how high the
FIFO can be while no interrupt is pending. `PacketsReadWhole`
(`ReceivedWhole`) follows under `InTime`: the interrupt comes before the FIFO
overflows, and so early that the level is below the threshold after the read,
or there would be no further edge. `stream_late` and `stream_slow_restart`
show what a slower program does. `FieldsInRange` is `TypeOK`.

### What is only model-checked

*Liveness*: `EventuallyJoined`, `BackoffCompletes`, `EveryBurstRead` and
`EveryPacketReported` rest on fairness, that is on when a step is enabled, which
the prover does not reason about. Every other property of a passing run is a
theorem.

## Not modelled

Most of the library's lines are not behaviour that a model could be about:
the firmware images of the LR11x0 chips alone are some 92,000 of them, band
tables and register definitions many more. Of the code:

- *Drivers.* Their calls write registers and wait for a pin; what can go wrong
  is in the values. Where they keep state over several calls, `StreamFifo` has
  it for the SX127x (and the RF69, whose `fifoAdd` and `fifoGet` are the
  same). The busy line of the command drivers (`Module::SPItransferStream`)
  and LR-FHSS hopping are left.
- *LoRaWAN packages.* They call the operations modelled here.
- *Fixed bands* with their sub-bands, `CFList`, and the commands for the
  receive windows, duty cycle, rejoin and ADR parameters: of the same kind as
  those in `LoRaWANAdr`, one value each.
- *Event structures, CSMA, `dutyCycleInterval`*: reported or computed, not
  kept.
- *A wrap of `millis()`* outside `receiveDownlink`, once in 49 days.
- *A RekeyInd that meets answers in the queue*: `LoRaWANActivation` has the
  one, `LoRaWANDataLink` the other.
- *Codes and cryptography.* Pure functions. AES and CMAC are taken as perfect;
  BCH, CRC, AX.25 and POCSAG are in the plan as operators.

## The plan

1. Done: `LoRaWANSessionPromise`, `LoRaWANActivation`, `LoRaWANMacQueue`,
   their runs, the theorems on activation and the refinement of the promise.
2. Done: `LoRaWANDataLink` with `LoRaWANLinkPromise`, `LoRaWANRxWindows`,
   `LoRaWANAdr`, `DirectReceive`, `StreamFifo`.
3. Proofs. Done: all invariants and action properties, and the refinements of
   `LoRaWANSessionPromise` and `LoRaWANLinkPromise`. Left: liveness, should a
   later prover allow it.
4. `ModuleSPI`: the busy line before and after a transfer, and the retries of
   the callers.
5. Coding: AX.25 bit stuffing, POCSAG batches, against reference decoders.
6. Fixed bands and the remaining MAC commands; packages.
