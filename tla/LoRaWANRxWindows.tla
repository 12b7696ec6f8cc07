-------------------------- MODULE LoRaWANRxWindows --------------------------
(* The receive windows of a LoRaWAN device (LoRaWAN.cpp: transmitUplink,      *)
(* receiveClassA, receiveClassC, receiveDownlink, getDownlinkClassC,          *)
(* setClass and the multicast sessions) against the clock, the radio with its *)
(* interrupt, and frames that begin at any time.                              *)
(*                                                                            *)
(* The clock counts from the end of the uplink and stands still between       *)
(* uplinks. The thread runs without taking time but where it sleeps, waits or *)
(* launches the radio; a sleep may take up to Oversleep longer. The interrupt *)
(* runs between any two steps of the thread. What a frame means, and whether  *)
(* parseDownlink takes it, is LoRaWANDataLink's.                              *)
(*                                                                            *)
(* OneMore, FlagKept, FixedGap, NoPatience, NoLimit and RxCLeftClosed are      *)
(* slips: they stand before the definitions that they would change.           *)
EXTENDS Integers

CONSTANTS
  RxDelay,      \* rxDelays[1] and rxDelays[2], by window
  ScanGuard,    \* scanGuard
  Launch,       \* launchDuration
  ToAMin,       \* time on air of an empty frame
  ToAMax,       \* time on air of the longest frame
  Durations,    \* times on air of the frames that come
  IrqWait,      \* the 300 ms granted to a missing interrupt
  TimerLate,    \* how late the radio's timeout interrupt may be, by window
  Oversleep,    \* how late sleepDelay may return
  TimeMod,      \* RadioLibTime_t wraps around: 2^32
  NbTrans,      \* transmissions of an uplink
  MaxNow        \* bound on the clock

ClassA == {"Rx1", "Rx2"}     \* the windows of Class A

ASSUME WindowAssumption ==
  /\ RxDelay \in [ClassA -> Nat] /\ RxDelay["Rx1"] < RxDelay["Rx2"]
  /\ {ScanGuard, Launch, ToAMin, ToAMax, IrqWait, Oversleep, MaxNow} \subseteq Nat
  /\ Durations \subseteq ToAMin .. ToAMax
  /\ Launch + ScanGuard \div 2 < RxDelay["Rx1"]
  /\ TimeMod \in Nat /\ RxDelay["Rx2"] < TimeMod
  /\ TimerLate \in [ClassA \cup {"RxC"} -> Nat]
  /\ NbTrans \in Nat \ {0}

VARIABLES
  lwClass, mcActive,    \* device class; a Class C multicast group is active
  now,                  \* millis() - tUplinkEnd
  pc,                   \* where the thread stands
  step,                 \* of receiveDownlink: RxC, Rx1, RxC, Rx2, RxC; 0 outside
  timeout,              \* argument of receiveClassC after the subtractions
  wake, tOpen,          \* end of a sleep, opening of the window
  trans,                \* repetitions made
  downlinkAction, handler,            \* the flag, and whether the interrupt sets it
  mode, chan, deadline, lockEnd,      \* the radio
  irqs,                               \* its interrupt flags
  frame,                              \* its buffer: the frame received last
  incoming,                           \* the frame under reception
  result,                             \* of the last call
  overran                             \* history: see Close

Never == MaxNow + 1
NoFrame == "none"
Nothing == "nothing"     \* RADIOLIB_ERR_NONE: no window heard a frame

thread == <<pc, step, timeout, wake, tOpen, trans, result, overran>>
radio  == <<mode, chan, deadline, lockEnd, irqs, incoming, frame>>
irq    == <<downlinkAction, handler>>
class  == <<lwClass, mcActive>>
vars   == <<class, now, thread, radio, irq>>

ClassC == mcActive \/ lwClass = "C"
Window == CASE step = 2 -> "Rx1" [] step = 4 -> "Rx2" [] OTHER -> "RxC"

Init ==
  /\ lwClass = "A" /\ mcActive = FALSE
  /\ now = 0 /\ pc = "idle" /\ step = 0 /\ timeout = 0 /\ wake = 0 /\ tOpen = 0 /\ trans = 0
  /\ downlinkAction = FALSE /\ handler = FALSE
  /\ mode = "off" /\ chan = "RxC" /\ deadline = Never /\ lockEnd = Never
  /\ irqs = {} /\ frame = NoFrame /\ incoming = NoFrame
  /\ result = "none" /\ overran = FALSE

-----------------------------------------------------------------------------
(* The radio *)

Standby == mode' = "off" /\ deadline' = Never /\ lockEnd' = Never /\ incoming' = NoFrame
           /\ UNCHANGED <<chan, irqs, frame>>

(* launchMode: stageMode has cleared the interrupt flags. *)
Listen(ch, until) ==
  /\ mode' = "on" /\ chan' = ch /\ deadline' = until /\ lockEnd' = Never
  /\ irqs' = {} /\ incoming' = NoFrame /\ frame' = NoFrame

Interrupt == downlinkAction' = (downlinkAction \/ handler) /\ UNCHANGED handler

(* A frame on the channel listened to stops the timer. It may break off, and  *)
(* the radio then waits for its end in vain. A frame the network sends to     *)
(* this device in a Class A window begins at the delay of that window.        *)
Scheduled == mode = "on" /\ chan \in ClassA /\ now = RxDelay[chan]

FrameBegins ==
  /\ mode = "on"
  /\ \E dur \in Durations, kind \in {"fits", "long", "broken"} :
       /\ lockEnd' = IF kind = "broken" THEN Never ELSE now + dur
       /\ incoming' = IF Scheduled /\ kind = "fits" THEN "scheduled" ELSE kind
  /\ mode' = "locked" /\ deadline' = Never
  /\ UNCHANGED <<class, now, thread, irq, chan, irqs, frame>>

(* Between uplinks the clock stands still, and a frame ends at any time; only *)
(* there does the radio receive one frame after the other.                    *)
Continuous == pc \in {"idle", "latch", "again"}

FrameEnds ==
  /\ mode = "locked"
  /\ now >= lockEnd \/ Continuous
  /\ IF incoming = "broken"
     THEN UNCHANGED <<irqs, frame, irq>>
     ELSE irqs' = irqs \cup {"rxdone"} /\ frame' = incoming /\ Interrupt
  /\ mode' = IF Continuous THEN "on" ELSE "off"
  /\ lockEnd' = Never /\ incoming' = NoFrame
  /\ UNCHANGED <<class, now, thread, chan, deadline>>

TimerExpires ==
  /\ mode = "on" /\ now >= deadline
  /\ mode' = "off" /\ deadline' = Never
  /\ irqs' = irqs \cup {"timeout"} /\ Interrupt
  /\ UNCHANGED <<class, now, thread, chan, lockEnd, frame, incoming>>

-----------------------------------------------------------------------------
(* receiveClassA and receiveClassC. A window ends in Close with what it heard. *)

OneMore == trans < NbTrans
Again == trans + 1 < NbTrans

Return(r) ==
  IF r = Nothing /\ step < 5
  THEN pc' = "begin" /\ step' = step + 1 /\ UNCHANGED result
  ELSE /\ pc' = CASE r \in ClassA \cup {"RxC"} -> "parse"
                  [] r = Nothing /\ Again -> "again"
                  [] OTHER -> "idle"
       /\ step' = 0 /\ result' = r

(* The interrupt handler is attached, and the flag cleared before the radio   *)
(* listens. *)
FlagKept == handler' = TRUE /\ UNCHANGED downlinkAction
Armed == handler' = TRUE /\ downlinkAction' = FALSE

(* when the Class A window of the step is to open *)
OpensAt == RxDelay[Window] - Launch - ScanGuard \div 2

BeginClassA ==
  /\ pc = "begin" /\ step \in {2, 4}
  /\ Standby /\ Armed
  /\ IF now > OpensAt
     THEN Return("NO_RX_WINDOW") /\ UNCHANGED wake
     ELSE /\ pc' = "launch" /\ wake' = OpensAt + Launch
          /\ UNCHANGED <<step, result>>
  /\ UNCHANGED <<class, now, timeout, tOpen, trans, overran>>

(* What receiveDownlink leaves an RxC window before a Class A window; 0 is no  *)
(* timeout. *)
FixedGap ==
  IF step = 5 THEN 0
  ELSE ((IF step = 1 THEN RxDelay["Rx1"] ELSE RxDelay["Rx2"]) - now) % TimeMod
TimeoutClassC ==
  IF step = 5 THEN 0
  ELSE ((IF step = 1 THEN RxDelay["Rx1"] ELSE RxDelay["Rx2"]) - now - 5 * ScanGuard) % TimeMod

BeginClassC ==
  /\ pc = "begin" /\ step \in {1, 3, 5} /\ ClassC
  /\ Standby /\ Armed
  /\ timeout' = IF TimeoutClassC = 0 THEN 0 ELSE (TimeoutClassC - Launch) % TimeMod
  /\ pc' = "launch" /\ wake' = now + Launch
  /\ UNCHANGED <<class, now, step, tOpen, trans, overran, result>>

NotClassC ==
  /\ pc = "begin" /\ step \in {1, 3, 5} /\ ~ClassC
  /\ Return(Nothing)
  /\ UNCHANGED <<class, now, timeout, wake, tOpen, trans, overran, radio, irq>>

Length == IF Window = "RxC" THEN timeout ELSE ToAMin + ScanGuard

LaunchWindow ==
  /\ pc = "launch" /\ now >= wake
  /\ tOpen' = now
  /\ IF Window = "RxC" /\ timeout = 0
     THEN Listen("RxC", Never) /\ Return(Nothing)
     ELSE Listen(Window, now + Length) /\ pc' = "closing" /\ UNCHANGED <<step, result>>
  /\ UNCHANGED <<class, now, timeout, wake, trans, overran, irq>>

(* A Class A window is slept through before the thread waits for the interrupt. *)
Awake == Window = "RxC" \/ now >= tOpen + Length
Overdue == now - tOpen > Length + IF Window = "RxC" THEN 0 ELSE ScanGuard

CheckTimeout ==
  /\ pc = "closing"
  /\ Awake /\ (downlinkAction \/ Overdue)
  /\ IF "timeout" \in irqs
     THEN /\ mode' = "off" /\ deadline' = Never /\ lockEnd' = Never /\ incoming' = NoFrame
          /\ irqs' = irqs \ {"timeout"} /\ handler' = FALSE
          /\ Return(Nothing)
          /\ UNCHANGED <<chan, frame, downlinkAction>>
     ELSE /\ pc' = IF Window = "RxC" THEN "detach" ELSE "receiving"
          /\ UNCHANGED <<radio, irq, step, result>>
  /\ UNCHANGED <<class, now, timeout, wake, tOpen, trans, overran>>

NoPatience == Overdue
NoLimit == FALSE
LongEnough == now - tOpen >= ToAMax + ScanGuard

WaitForFrame ==
  /\ pc = "receiving"
  /\ downlinkAction \/ LongEnough
  /\ pc' = "settling" /\ wake' = now + IrqWait
  /\ UNCHANGED <<class, now, step, timeout, tOpen, trans, overran, result, radio, irq>>

WaitForIrq ==
  /\ pc = "settling"
  /\ irqs # {} \/ now >= wake
  /\ pc' = "detach"
  /\ UNCHANGED <<class, now, step, timeout, wake, tOpen, trans, overran, result, radio, irq>>

ClearAction ==
  /\ pc = "detach" /\ pc' = "close"
  /\ handler' = FALSE
  /\ UNCHANGED <<class, now, step, timeout, wake, tOpen, trans, overran, result, radio, downlinkAction>>

(* A reception of Rx1 that comes to nothing overran when it leaves too little  *)
(* time until Rx2 for the RxC window between them: receiveDownlink does not    *)
(* check what it computes for that one.                                        *)
NoRoom == now + 5 * ScanGuard + Launch > RxDelay["Rx2"]

Close ==
  LET heard == downlinkAction /\ frame # "long" IN
  /\ pc = "close"
  /\ Standby
  /\ downlinkAction' = FALSE /\ UNCHANGED handler
  /\ Return(IF heard THEN Window ELSE Nothing)
  /\ overran' = (overran \/ (~heard /\ Window = "Rx1" /\ NoRoom))
  /\ UNCHANGED <<class, now, timeout, wake, tOpen, trans>>

(* An SPI call of a window reports an error. *)
WindowFails ==
  /\ pc \in {"begin", "launch"} /\ (step \in {1, 3, 5} => ClassC)
  /\ Standby /\ Return("error")
  /\ UNCHANGED <<class, now, timeout, wake, tOpen, trans, overran, irq>>

-----------------------------------------------------------------------------
(* sendReceive *)

FrameRead == frame' = NoFrame /\ UNCHANGED <<mode, chan, deadline, lockEnd, irqs, incoming>>

(* receiveClassC without a timeout: it returns with the radio listening. *)
RxCLeftClosed == FrameRead /\ UNCHANGED irq
OpenRxC ==
  IF lwClass = "C" \/ mcActive
  THEN Listen("RxC", Never) /\ Armed
  ELSE FrameRead /\ UNCHANGED irq

sendReceive ==
  /\ pc \in {"idle", "again"}
  /\ pc' = "tx" /\ trans' = IF pc = "idle" THEN 0 ELSE trans + 1
  /\ Standby
  /\ now' = 0 /\ overran' = FALSE /\ result' = "none"
  /\ UNCHANGED <<class, step, timeout, wake, tOpen, irq>>

(* The interrupt line also reports the end of the transmission. *)
TxDone ==
  /\ pc = "tx"
  /\ Interrupt
  /\ pc' = "begin" /\ step' = 1
  /\ UNCHANGED <<class, now, timeout, wake, tOpen, trans, overran, result, radio>>

TxFails ==
  /\ pc = "tx"
  /\ pc' = "idle" /\ result' = "error"
  /\ UNCHANGED <<class, now, step, timeout, wake, tOpen, trans, overran, radio, irq>>

ParseDownlink ==
  /\ pc = "parse" /\ pc' = "idle"
  /\ \/ OpenRxC /\ UNCHANGED result
     \/ result' = "refused" /\ FrameRead /\ UNCHANGED irq
  /\ now' = 0
  /\ UNCHANGED <<class, step, timeout, wake, tOpen, trans, overran>>

-----------------------------------------------------------------------------
(* getDownlinkClassC, and the calls that open and close the RxC window *)

getDownlinkClassC ==
  /\ pc = "idle" /\ ClassC /\ downlinkAction
  /\ pc' = "latch"
  /\ FrameRead
  /\ UNCHANGED <<class, now, step, timeout, wake, tOpen, trans, overran, result, irq>>

Relatch ==
  /\ pc = "latch" /\ pc' = "idle"
  /\ Armed
  /\ UNCHANGED <<class, now, step, timeout, wake, tOpen, trans, overran, result, radio>>

(* of a 1.0 device *)
setClass ==
  /\ pc = "idle"
  /\ \E cls \in {"A", "C"} :
       /\ lwClass' = cls
       /\ IF cls = "C" THEN Listen("RxC", Never) /\ Armed ELSE Standby /\ UNCHANGED irq
       /\ result' = IF cls = "A" /\ mcActive THEN "switched" ELSE "none"
  /\ UNCHANGED <<mcActive, now, pc, step, timeout, wake, tOpen, trans, overran>>

startMulticastSession ==
  /\ pc = "idle"
  /\ mcActive' = TRUE /\ result' = "none"
  /\ Listen("RxC", Never) /\ Armed
  /\ UNCHANGED <<lwClass, now, pc, step, timeout, wake, tOpen, trans, overran>>

stopMulticastSession ==
  /\ pc = "idle"
  /\ mcActive' = FALSE /\ result' = "none"
  /\ IF lwClass = "C" THEN Listen("RxC", Never) /\ Armed ELSE Standby /\ UNCHANGED irq
  /\ UNCHANGED <<lwClass, now, pc, step, timeout, wake, tOpen, trans, overran>>

-----------------------------------------------------------------------------
(* The clock *)

ThreadWaits ==
  CASE pc = "launch"    -> now < wake + Oversleep
    [] pc = "closing"   -> \/ ~(Awake /\ (downlinkAction \/ Overdue))
                           \/ Window \in ClassA /\ now < tOpen + Length + Oversleep
    [] pc = "receiving" -> ~(downlinkAction \/ LongEnough)
    [] pc = "settling"  -> irqs = {} /\ now < wake
    [] OTHER            -> FALSE

RadioWaits ==
  /\ mode = "on" => now < deadline + TimerLate[chan]
  /\ mode = "locked" => now < lockEnd

Tick ==
  /\ ThreadWaits /\ RadioWaits
  /\ now' = IF now < MaxNow THEN now + 1 ELSE now     \* the clock stops at its bound
  /\ UNCHANGED <<class, thread, radio, irq>>

Radio == FrameBegins \/ FrameEnds \/ TimerExpires
Windows == BeginClassA \/ BeginClassC \/ NotClassC \/ LaunchWindow \/ CheckTimeout
           \/ WaitForFrame \/ WaitForIrq \/ ClearAction \/ Close \/ WindowFails
Calls == sendReceive \/ TxDone \/ TxFails \/ ParseDownlink \/ getDownlinkClassC \/ Relatch
         \/ setClass \/ startMulticastSession \/ stopMulticastSession

Next == Radio \/ Windows \/ Calls \/ Tick

Spec == Init /\ [][Next]_vars

-----------------------------------------------------------------------------
(* Properties *)

(* The fields keep their ranges. *)
TypeOK ==
  /\ lwClass \in {"A", "C"} /\ mcActive \in BOOLEAN
  /\ now \in 0 .. MaxNow /\ step \in 0 .. 5 /\ trans \in 0 .. NbTrans - 1
  /\ pc \in {"idle", "again", "tx", "begin", "launch", "closing", "receiving", "settling",
             "detach", "close", "parse", "latch"}
  /\ timeout \in 0 .. TimeMod - 1 /\ wake \in Nat /\ tOpen \in 0 .. MaxNow
  /\ downlinkAction \in BOOLEAN /\ handler \in BOOLEAN /\ overran \in BOOLEAN
  /\ mode \in {"off", "on", "locked"} /\ chan \in ClassA \cup {"RxC"}
  /\ deadline \in Nat /\ lockEnd \in Nat
  /\ irqs \subseteq {"timeout", "rxdone"}
  /\ frame \in {NoFrame, "scheduled", "fits", "long"}
  /\ incoming \in {NoFrame, "scheduled", "fits", "long", "broken"}
  /\ result \in {"none", "error", "NO_RX_WINDOW", "refused", "switched", Nothing, "RxC"}
               \cup ClassA

(* A window number is returned only when a frame arrived in that very window, *)
(* although one flag tells of frames, timeouts and ends of transmissions, and *)
(* although the interrupt stays attached while the window is prepared.        *)
WindowHeardFrame == pc = "parse" => frame \in {"scheduled", "fits"}

(* A frame sent to the device at the delay of a window that listens is never  *)
(* dropped or cut off, whichever of the three waits of receiveClassA it meets. *)
ScheduledIsReturned ==
  [][(pc \in {"closing", "close"} /\ pc' \in {"begin", "idle", "again"})
       => "scheduled" \notin {frame, incoming}]_vars

(* Neither Class A window is missed or opened late, although RxC windows of   *)
(* computed length and receptions that come to nothing lie before them; but a *)
(* reception of Rx1 that overran may cost the device Rx2.                      *)
WindowsOnTime ==
  ~overran => /\ result # "NO_RX_WINDOW"
              /\ pc = "launch" /\ step \in {2, 4} => now <= RxDelay[Window]

(* sendReceive is back when the second window has had time for one frame,     *)
(* whatever was heard before it, unless a reception of Rx1 overran.            *)
TimeEnough == RxDelay["Rx2"] + ToAMax + 2 * ScanGuard + IrqWait + Oversleep
ReturnsInTime == ~overran => now <= TimeEnough

(* "there is an RxC window between Rx1 and Rx2" (LoRaWAN.cpp:1838), whatever   *)
(* Rx1 heard: not so, after a reception that overran its length is negative    *)
(* and the device waits in it until the clock has wrapped around.              *)
RxCEndsBeforeRx2 == now <= TimeEnough

(* After a call a Class C device, or a member of a multicast group, listens   *)
(* again, and will be told of the next frame. Four results of calls are        *)
(* excepted: an error of the radio, a missed window, a downlink that           *)
(* parseDownlink refuses, and a switch of a member to Class A.                 *)
Listening == mode # "off" /\ chan = "RxC" /\ handler
ClassCListens ==
  pc = "idle" /\ ClassC /\ result \notin {"error", "NO_RX_WINDOW", "refused", "switched"}
    => Listening

(* The switch is not an error: setClass to Class A returns RADIOLIB_ERR_NONE,  *)
(* with the radio in standby although the multicast group is still active.     *)
MembersListen ==
  pc = "idle" /\ ClassC /\ result \notin {"error", "NO_RX_WINDOW", "refused"} => Listening

(* "handle a Class C receive window [...] without [timeout] (between uplinks)" *)
(* (LoRaWAN.h:1161): it is open between any two uplinks, whatever became of a  *)
(* downlink.                                                                  *)
RxCBetweenUplinks ==
  pc = "idle" /\ ClassC /\ result \notin {"error", "NO_RX_WINDOW", "switched"} => Listening

(* A frame that arrives in the RxC window is announced until it is read.      *)
Announced == pc = "idle" /\ ClassC /\ frame # NoFrame => downlinkAction
=============================================================================
