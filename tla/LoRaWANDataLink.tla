-------------------------- MODULE LoRaWANDataLink --------------------------
(* The data link of an active LoRaWAN session (LoRaWAN.cpp: sendReceive,      *)
(* composeUplink, micUplink, parseDownlink, getDownlinkClassC): the uplink    *)
(* and the three downlink counters with their 16 bits on the air, the         *)
(* acknowledgements in both directions, the repetitions of an uplink, and the *)
(* uplink that parseDownlink sends by calling sendReceive again when the      *)
(* answers to MAC commands are too long to ride along.                        *)
(*                                                                            *)
(* sendReceive blocks. It is split at the radio: composed (phase "tx"), sent  *)
(* and waiting for a window (phase "rx"); what a window brings is one step.   *)
(* The network, the air and the application are environment. Encryption is    *)
(* perfect: a MIC is right for its frame, its full 32-bit counter and, where  *)
(* the code puts it in, the counter it acknowledges.                          *)
(*                                                                            *)
(* Definitions named for a slip (NeverRolledOver, ...) stand before the original  *)
(* that the slip would change; no specification uses them.                    *)
EXTENDS Integers, Sequences, FiniteSets

CONSTANTS
  Nodes,        \* devices: <<rev, lwClass, mcActive, nbTrans, maxUp>>
  FCntMod,      \* a frame carries the low 16 bits of its counter: 2^16
  FCntHigh,     \* the counter has 32 bits: 2^16 values of the upper half
  Uplinks,      \* what the application sends: <<payload, port, confirmed>>
  Contents,     \* what the network sends, but for the counters: see Downlinks
  McFCntMax,    \* last number of the multicast group
  MaxUp,        \* bound on fCntUp, of any device
  MaxDown,      \* bound on the downlink counters, per kind
  MaxAir        \* bound on downlinks in the air

Kinds == {"app", "nwk", "mc"}
FCNT_NONE == FCntMod * FCntHigh - 1     \* RADIOLIB_LORAWAN_FCNT_NONE

ASSUME DataLinkAssumption ==
  /\ Nodes \subseteq {0, 1} \X {"A", "C"} \X BOOLEAN \X (Nat \ {0}) \X (0 .. MaxUp)
  /\ FCntMod \in Nat \ {0, 1} /\ FCntHigh \in Nat \ {0}
  /\ Uplinks \subseteq {{}, {"user"}} \X {0, 1} \X BOOLEAN
  /\ Contents \subseteq [mc : BOOLEAN, port : {"none", "mac", "app"},
                         mac : {"none", "mute", "short", "long"}, conf : BOOLEAN]
  /\ McFCntMax \in Nat /\ MaxAir \in Nat
  /\ MaxUp \in Nat /\ MaxUp < FCNT_NONE
  /\ MaxDown \in [Kinds -> 0 .. FCNT_NONE - 1]

VARIABLES
  \* the node
  rev, lwClass,
  mcActive,           \* a Class C multicast group is active
  nbTrans,            \* transmissions of each uplink (LinkADR)
  maxUp,              \* bound on fCntUp of this device
  fCntUp,
  fCntDown,           \* aFCntDown, nFCntDown and mcFCnt of the group
  confFCntUp, confFCntDown,
  isMACPayload,
  fOptsUp,            \* the queue, as the set of what waits in it
  dutyCycleEnabled,
  call,               \* the sendReceive under way: its uplink, repetitions, phase
  prevDC,             \* dutyCycleEnabled as saved by each parseDownlink that sends
  \* the network and the air
  air,                \* downlinks that may yet arrive, or arrive again
  nextDown,           \* next number per kind
  lastUp,             \* last uplink heard
  ackDue,             \* it was confirmed and is not acknowledged yet
  awaiting,           \* the confirmed downlink whose acknowledgement is awaited
  \* history
  onAir,              \* counter of the last uplink transmitted
  owed,               \* counter of the confirmed downlink not acknowledged since
  unseen,             \* application downlinks accepted, not handed to the application
  needless,           \* MAC-only uplinks sent for answers that were not too long
  taken, heard, told, confirmed, acked    \* see LoRaWANLinkPromise

config   == <<rev, lwClass, mcActive, nbTrans, maxUp>>
nodeVars == <<fCntUp, fCntDown, confFCntUp, confFCntDown, isMACPayload, fOptsUp,
              dutyCycleEnabled, call, prevDC>>
netVars  == <<nextDown, lastUp, ackDue, awaiting>>
downHistory == <<owed, unseen, needless, taken, told, confirmed>>
upHistory   == <<onAir, heard, acked>>
vars == <<config, nodeVars, air, netVars, downHistory, upHistory>>

DownCounters == UNION {0 .. MaxDown[k] : k \in Kinds}
Numbered == Kinds \X DownCounters
Idle == call.phase = "idle"
NoFrame == [cnt |-> FCNT_NONE, port |-> 0, payload |-> {}, conf |-> FALSE,
            ack |-> FCNT_NONE, fOpts |-> {}]
NoCall == [phase |-> "idle", up |-> NoFrame, trans |-> 0]
NoneAwaited == <<"none", 0>>

-----------------------------------------------------------------------------
(* Uplinks *)

(* What waits in fOptsUp: commands the user requested, answers to the server. *)
Queueable  == {"request", "answer"}
Persistent == {"answer"}

(* sendReceive from the check of the payload on, with composeUplink: a call   *)
(* without payload takes the queue as its payload if MAC-only is asked for,   *)
(* and only then is the flag reset; any other frame carries the queue along.  *)
Composed(cnt, port, payload, conf, ack, queue, flag) ==
  LET macOnly == flag /\ payload = {} IN
  [up |-> [cnt |-> cnt, port |-> port, conf |-> conf, ack |-> ack,
           payload |-> IF macOnly THEN queue ELSE payload,
           fOpts   |-> IF macOnly THEN {} ELSE queue],
   queue |-> IF macOnly THEN {} ELSE queue,
   flag  |-> flag /\ ~macOnly]

Started(composed) ==
  /\ call' = [phase |-> "tx", up |-> composed.up, trans |-> 0]
  /\ fOptsUp' = composed.queue
  /\ isMACPayload' = composed.flag

-----------------------------------------------------------------------------
(* Downlinks *)

(* mc: to the multicast group; port "none": no payload, "mac": commands as    *)
(* payload, "app": user data; mac: commands, by what they are answered with;  *)
(* conf: to be acknowledged; ack: the uplink acknowledged.                    *)
Downlinks == [mc : BOOLEAN, port : {"none", "mac", "app"},
              mac : {"none", "mute", "short", "long"}, conf : BOOLEAN,
              cnt : DownCounters, ack : 0 .. MaxUp \union {FCNT_NONE}]

Kind(f) == CASE f.mc -> "mc" [] ~f.mc /\ (rev = 0 \/ f.port = "app") -> "app"
             [] OTHER -> "nwk"

RxWindows == {"Rx12", "RxBC"}
ClassALike(w) == w = "Rx12" \/ lwClass = "A"

(* The 32-bit counter rebuilt from the 16 bits on the air: equal or smaller   *)
(* means that they rolled over, except while the device stands at 0, which    *)
(* also is where it stands before the first downlink.                         *)
NeverRolledOver(dev, low) == dev - (dev % FCntMod) + low
Rebuilt(dev, low) ==
  LET base == IF dev > 0 /\ low <= dev % FCntMod THEN (dev + FCntMod) % (FCNT_NONE + 1) ELSE dev
  IN base - (base % FCntMod) + low

DevFCnt(f) == Rebuilt(fCntDown[Kind(f)], f.cnt % FCntMod)

AddressOk(f, w) == f.mc => mcActive /\ w = "RxBC"

(* Commands as payload: Class A downlinks only, no multicast; commands        *)
(* anywhere: not in the Class C windows of a Class C device.                  *)
CommandsOk(f, w) ==
  /\ f.port = "mac" => ClassALike(w) /\ ~f.mc
  /\ f.mac # "none" => ~(lwClass # "A" /\ w = "RxBC")

MulticastOk(f) == f.mc => DevFCnt(f) <= McFCntMax /\ ~f.conf

(* The MIC is over the full counter, and in 1.1 over the uplink acknowledged. *)
MicOverLowBits(f) ==
  /\ DevFCnt(f) % FCntMod = f.cnt % FCntMod
  /\ f.ack # FCNT_NONE /\ rev = 1 => f.ack % FCntMod = confFCntUp % FCntMod
MicWithoutConfFCnt(f) == DevFCnt(f) = f.cnt
MicOk(f) ==
  /\ DevFCnt(f) = f.cnt
  /\ f.ack # FCNT_NONE /\ rev = 1 => f.ack % FCntMod = confFCntUp % FCntMod

Accepts(f, w) == AddressOk(f, w) /\ CommandsOk(f, w) /\ MulticastOk(f) /\ MicOk(f)

(* The answers that execMacCommand gives.                                     *)
Answers(f) == IF f.mac \in {"short", "long"} THEN {"answer"} ELSE {}

SavedTooLate == Append(prevDC, FALSE)
SavedDC == Append(prevDC, dutyCycleEnabled)

-----------------------------------------------------------------------------
(* The node *)

Init ==
  /\ \E n \in Nodes : /\ rev = n[1] /\ lwClass = n[2]
                     /\ mcActive = n[3] /\ nbTrans = n[4] /\ maxUp = n[5]
  /\ fCntUp = 0 /\ fCntDown = [k \in Kinds |-> 0]
  /\ confFCntUp = FCNT_NONE /\ confFCntDown = FCNT_NONE
  /\ isMACPayload = FALSE /\ fOptsUp = {}
  /\ dutyCycleEnabled = TRUE
  /\ call = NoCall /\ prevDC = <<>>
  /\ air = {} /\ nextDown = [k \in Kinds |-> 0]
  /\ lastUp = FCNT_NONE /\ ackDue = FALSE /\ awaiting = NoneAwaited
  /\ onAir = FCNT_NONE
  /\ owed = FCNT_NONE /\ unseen = {} /\ needless = FALSE
  /\ taken = [k \in Kinds |-> -1]
  /\ heard = {} /\ told = FCNT_NONE /\ confirmed = {} /\ acked = NoneAwaited

(* sendMacCommandReq of LinkCheck or DeviceTime. *)
sendMacCommandReq ==
  /\ Idle /\ fCntUp < maxUp
  /\ fOptsUp' = fOptsUp \union {"request"}
  /\ UNCHANGED <<config, fCntUp, fCntDown, confFCntUp, confFCntDown, isMACPayload,
                 dutyCycleEnabled, call, prevDC, air, netVars, downHistory, upHistory>>

(* The application's sendReceive as far as the transmission. Port 0 is for    *)
(* MAC-only frames; what isValidUplink or the duty cycle refuses leaves no    *)
(* trace.                                                                     *)
SendReceive(payload, port, conf) ==
  LET flag == isMACPayload \/ (payload = {} /\ port = 0) IN
  /\ Idle /\ fCntUp < maxUp
  /\ port = 0 => flag
  /\ Started(Composed(fCntUp, port, payload, conf, confFCntDown, fOptsUp, flag))
  /\ confFCntUp' = IF conf THEN fCntUp ELSE confFCntUp
  /\ UNCHANGED <<config, fCntUp, fCntDown, confFCntDown, dutyCycleEnabled, prevDC,
                 air, netVars, downHistory, upHistory>>

(* The end of sendReceive, and of every parseDownlink around it: each puts    *)
(* back the duty cycle that it saved, the outermost last.                     *)
Returned ==
  /\ call' = NoCall
  /\ prevDC' = <<>>
  /\ dutyCycleEnabled' = IF prevDC = <<>> THEN dutyCycleEnabled ELSE Head(prevDC)

(* What the network makes of an uplink that it hears: in 1.1 the MIC of an    *)
(* acknowledgement is right only for the downlink that it awaits one for.     *)
Verifies(up) ==
  rev = 1 /\ up.ack # FCNT_NONE =>
     awaiting # NoneAwaited /\ awaiting[2] % FCntMod = up.ack % FCntMod

NetworkHears(up) ==
  /\ lastUp' = up.cnt
  /\ ackDue' = up.conf
  /\ heard' = IF up.conf THEN heard \union {up.cnt} ELSE heard
  /\ awaiting' = IF up.ack = FCNT_NONE THEN awaiting ELSE NoneAwaited
  /\ acked' = IF up.ack = FCNT_NONE \/ awaiting = NoneAwaited THEN acked ELSE awaiting
  /\ UNCHANGED nextDown

OnTheAir(up) ==
  /\ onAir' = up.cnt
  /\ \/ Verifies(up) /\ NetworkHears(up)
     \/ UNCHANGED <<netVars, heard, acked>>

transmitUplink ==
  /\ call.phase = "tx"
  /\ OnTheAir(call.up)
  /\ call' = [call EXCEPT !.phase = "rx"]
  /\ owed' = IF call.up.ack = FCNT_NONE THEN owed ELSE FCNT_NONE
  /\ UNCHANGED <<config, fCntUp, fCntDown, confFCntUp, confFCntDown, isMACPayload, fOptsUp,
                 dutyCycleEnabled, prevDC, air, unseen, needless, taken, told, confirmed>>

(* The radio reports an error, be it before or after the frame went out.      *)
CounterKept == fCntUp
CounterAfterTxError == fCntUp + 1
ConfirmDropped == FCNT_NONE
ConfirmAfterTxError == confFCntDown
TransmitFails ==
  /\ call.phase = "tx"
  /\ \/ OnTheAir(call.up)
     \/ UNCHANGED <<netVars, upHistory>>
  /\ fCntUp' = CounterAfterTxError
  /\ confFCntDown' = ConfirmAfterTxError
  /\ Returned
  /\ UNCHANGED <<config, fCntDown, confFCntUp, isMACPayload, fOptsUp, air, downHistory>>

(* No downlink in any window: the next repetition, or the end.                *)
NoDownlink ==
  /\ call.phase = "rx"
  /\ IF call.trans + 1 < nbTrans
     THEN /\ call' = [call EXCEPT !.phase = "tx", !.trans = @ + 1]
          /\ UNCHANGED <<fCntUp, confFCntDown, fOptsUp, dutyCycleEnabled, prevDC>>
     ELSE /\ fCntUp' = fCntUp + 1
          /\ confFCntDown' = FCNT_NONE
          /\ fOptsUp' = fOptsUp \intersect Persistent
          /\ Returned
  /\ UNCHANGED <<config, fCntDown, confFCntUp, isMACPayload, air, netVars,
                 downHistory, upHistory>>

(* The radio fails in a window, or a downlink comes that parseDownlink        *)
(* refuses: no repetition, the counter moves, the queue stays.                *)
GivenUp ==
  /\ fCntUp' = fCntUp + 1
  /\ confFCntDown' = FCNT_NONE
  /\ Returned
  /\ UNCHANGED <<fCntDown, confFCntUp, isMACPayload, fOptsUp, downHistory>>

(* parseDownlink of a frame that is accepted, with fCntUp and confFCntDown as *)
(* they stand when it is called. Commands whose answers are too long, and all *)
(* commands while isMACPayload is set, are answered by an uplink of their own *)
(* at once, without the duty cycle; other answers replace the queue.          *)
Take(f, w, cntUp, confDown) ==
  LET down  == [fCntDown EXCEPT ![Kind(f)] = DevFCnt(f)]
      conf  == IF f.conf THEN down["app"] ELSE confDown
      queue == IF ClassALike(w) THEN {} ELSE fOptsUp
      macOnly == f.mac # "none" /\ (isMACPayload \/ f.mac = "long")
  IN
  /\ fCntUp' = cntUp /\ fCntDown' = down /\ confFCntDown' = conf
  /\ IF macOnly
     THEN /\ cntUp < maxUp
          /\ Started(Composed(cntUp, 0, Answers(f), FALSE, conf, queue, TRUE))
          /\ prevDC' = SavedDC /\ dutyCycleEnabled' = FALSE
     ELSE /\ fOptsUp' = IF f.mac = "none" THEN queue ELSE Answers(f)
          /\ Returned
          /\ UNCHANGED isMACPayload
  /\ UNCHANGED confFCntUp
  /\ taken' = [taken EXCEPT ![Kind(f)] = f.cnt]
  /\ told' = IF f.ack # FCNT_NONE /\ prevDC = <<>> THEN confFCntUp ELSE told
  /\ confirmed' = IF f.conf THEN confirmed \union {<<Kind(f), f.cnt>>} ELSE confirmed
  /\ owed' = IF f.conf THEN f.cnt ELSE owed
  /\ unseen' = IF f.port = "app" /\ prevDC # <<>> THEN unseen \union {<<Kind(f), f.cnt>>}
               ELSE unseen
  /\ needless' = (needless \/ (macOnly /\ f.mac # "long"))

(* Class C windows are open with Class C and with a Class C multicast group.  *)
Opens(w) == w = "RxBC" => lwClass = "C" \/ mcActive

(* sendReceive with a downlink in one of its windows. *)
ReceiveDownlink(f, w) ==
  /\ call.phase = "rx"
  /\ f \in air /\ Opens(w)
  /\ IF Accepts(f, w) THEN Take(f, w, fCntUp + 1, FCNT_NONE) ELSE GivenUp
  /\ UNCHANGED <<config, air, netVars, upHistory>>

ReceiveFails ==
  /\ call.phase = "rx"
  /\ GivenUp
  /\ UNCHANGED <<config, air, netVars, upHistory>>

(* getDownlinkClassC with a frame that the interrupt announced. *)
getDownlinkClassC(f) ==
  /\ Idle
  /\ f \in air /\ Opens("RxBC")
  /\ Accepts(f, "RxBC")
  /\ Take(f, "RxBC", fCntUp, confFCntDown)
  /\ UNCHANGED <<config, air, netVars, upHistory>>

-----------------------------------------------------------------------------
(* The network and the air *)

(* The network numbers its downlinks; numbers it skips are frames that were   *)
(* lost at once. It acknowledges the last uplink it heard if that was         *)
(* confirmed, and has one confirmed downlink at a time, which it gives up     *)
(* when it sends another.                                                     *)
NetworkSends(c, cnt) ==
  LET ack == IF ackDue /\ ~c.mc THEN lastUp ELSE FCNT_NONE
      f   == [mc |-> c.mc, port |-> c.port, mac |-> c.mac, conf |-> c.conf,
              cnt |-> cnt, ack |-> ack]
  IN
  /\ Cardinality(air) < MaxAir
  /\ f.mc => mcActive
  /\ nextDown[Kind(f)] <= cnt /\ cnt <= MaxDown[Kind(f)]
  /\ air' = air \union {f}
  /\ nextDown' = [nextDown EXCEPT ![Kind(f)] = cnt + 1]
  /\ awaiting' = IF f.conf THEN <<Kind(f), cnt>> ELSE awaiting
  /\ ackDue' = (ackDue /\ c.mc)
  /\ UNCHANGED <<config, nodeVars, lastUp, downHistory, upHistory>>

Lost(f) ==
  /\ f \in air
  /\ air' = air \ {f}
  /\ UNCHANGED <<config, nodeVars, netVars, downHistory, upHistory>>

Next ==
  \/ sendMacCommandReq
  \/ \E u \in Uplinks : SendReceive(u[1], u[2], u[3])
  \/ transmitUplink \/ TransmitFails \/ NoDownlink \/ ReceiveFails
  \/ \E f \in air, w \in RxWindows : ReceiveDownlink(f, w)
  \/ \E f \in air : getDownlinkClassC(f) \/ Lost(f)
  \/ \E c \in Contents, cnt \in DownCounters : NetworkSends(c, cnt)

Spec == Init /\ [][Next]_vars

-----------------------------------------------------------------------------
(* Properties *)

Frames == [cnt : 0 .. MaxUp \union {FCNT_NONE}, port : {0, 1},
           payload : SUBSET {"user", "request", "answer"}, conf : BOOLEAN,
           ack : DownCounters \union {FCNT_NONE}, fOpts : SUBSET Queueable]

TypeOK ==
  /\ config \in Nodes
  /\ fCntUp \in 0 .. MaxUp /\ fCntDown \in [Kinds -> DownCounters]
  /\ confFCntUp \in 0 .. MaxUp \union {FCNT_NONE}
  /\ confFCntDown \in DownCounters \union {FCNT_NONE}
  /\ isMACPayload \in BOOLEAN /\ fOptsUp \subseteq Queueable /\ dutyCycleEnabled \in BOOLEAN
  /\ call \in [phase : {"idle", "tx", "rx"}, up : Frames, trans : 0 .. nbTrans - 1]
  /\ prevDC \in Seq(BOOLEAN)
  /\ air \subseteq Downlinks /\ nextDown \in [Kinds -> Nat]
  /\ lastUp \in 0 .. MaxUp \union {FCNT_NONE} /\ ackDue \in BOOLEAN
  /\ awaiting \in Numbered \union {NoneAwaited}
  /\ onAir \in 0 .. MaxUp \union {FCNT_NONE}
  /\ owed \in DownCounters \union {FCNT_NONE}
  /\ unseen \subseteq Numbered /\ needless \in BOOLEAN
  /\ taken \in [Kinds -> DownCounters \union {-1}]
  /\ heard \subseteq 0 .. MaxUp /\ told \in 0 .. MaxUp \union {FCNT_NONE}
  /\ confirmed \subseteq Numbered /\ acked \in Numbered \union {NoneAwaited}

(* No frame counter ever stands on two different uplinks: what is about to be *)
(* transmitted for the first time is numbered above all that went out, also   *)
(* after errors of the radio, refused downlinks and the uplinks that          *)
(* parseDownlink sends from within.                                           *)
CounterNamesOneFrame ==
  call.phase = "tx" /\ call.trans = 0 => onAir = FCNT_NONE \/ call.up.cnt > onAir

(* A downlink numbered above the last one taken, by less than 2^16, is        *)
(* recognised, however many before it were lost.                              *)
FreshIsRecognised ==
  \A f \in air : LET last == IF taken[Kind(f)] < 0 THEN 0 ELSE taken[Kind(f)] IN
     taken[Kind(f)] < f.cnt /\ f.cnt - last < FCntMod => DevFCnt(f) = f.cnt

(* A confirmed downlink that was accepted is not forgotten: until an uplink   *)
(* with the acknowledgement went out, the next uplink will name its counter.  *)
OwedAckPending == owed # FCNT_NONE => confFCntDown = owed

(* The duty cycle that parseDownlink lifts is in force again whenever the     *)
(* application is, over any depth of uplinks sent from within.                *)
DutyCycleRestored == Idle => dutyCycleEnabled

(* The data link keeps the promise of LoRaWANLinkPromise, with its exception  *)
(* for the downlink numbered 0.                                               *)
Promise == INSTANCE LoRaWANLinkPromise WITH bound <- rev = 1
KeepsPromise == Promise!Spec

(* LoRaWAN.cpp:2016, an equal counter is a rollover: no downlink is taken a   *)
(* second time. Of the first one, numbered 0, this is not so: at 0 the device *)
(* cannot tell what it has taken from what it has not.                        *)
TakenOnce ==
  [][\A f \in air, w \in RxWindows :
       Accepts(f, w) /\ (ReceiveDownlink(f, w) \/ getDownlinkClassC(f)) => f.cnt > taken[Kind(f)]]_vars

(* What the device accepts, and acknowledges, the application gets to see.    *)
AcceptedIsHandedOver == unseen = {}

(* An uplink of its own is sent for answers only if they are too long.        *)
MacOnlyForLongAnswers == ~needless
=============================================================================
