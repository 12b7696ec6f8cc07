----------------------- MODULE LoRaWANRxWindowsProofs -----------------------
(* Theorems about LoRaWANRxWindows: for every timing of the thread, the radio *)
(* and the frames, within what the hypotheses grant.                          *)
EXTENDS LoRaWANRxWindows, TLAPS

-----------------------------------------------------------------------------
(* Hypotheses *)

HalfGuard == ScanGuard \div 2

(* When a Class A window is over at the latest.                               *)
EndOf(w) == RxDelay[w] - HalfGuard + Oversleep + ToAMax + ScanGuard + IrqWait

(* The radio reports a timeout before the thread stops waiting for it.        *)
Punctual == TimerLate["RxC"] = 0 /\ \A w \in ClassA : TimerLate[w] <= ScanGuard

(* There is a scanGuard, and the empty frame is not the longest.              *)
Guarded == ScanGuard > 0 /\ ToAMin <= ToAMax

(* scanGuard covers what the host is late, the longest frame is longer than   *)
(* the empty one by more than it, and between the windows there is time for   *)
(* an Rx1 that hears nothing and for an RxC window. Nothing is said of how    *)
(* long a frame may be: the longest may last past Rx2.                        *)
Roomy ==
  /\ ScanGuard > 0 /\ Oversleep <= HalfGuard /\ Launch + Oversleep <= ScanGuard + HalfGuard
  /\ ToAMin + ScanGuard < ToAMax
  /\ 5 * ScanGuard + Launch <= RxDelay["Rx1"]
  /\ RxDelay["Rx1"] - HalfGuard + Oversleep + ToAMin + 2 * ScanGuard + 1
       + 5 * ScanGuard + Launch <= RxDelay["Rx2"]

-----------------------------------------------------------------------------
(* The inductive invariants *)

TypeInv == TypeOK /\ (pc = "again" => trans + 1 < NbTrans)

(* A window is open, from the launch of the radio to Close.                   *)
Open == {"closing", "receiving", "settling", "detach", "close"}
InCall == {"begin", "launch"} \cup Open

(* Between calls nothing but a frame stops the radio, and a window with an    *)
(* end is not the last of receiveDownlink.                                    *)
Endless == pc \in {"idle", "latch", "again", "begin"} /\ mode # "off" => deadline = Never
StepsTaken == /\ pc \in InCall => step > 0
              /\ pc = "launch" /\ step = 5 => timeout = 0
              /\ pc \in Open => step < 5
Quiet == pc \in {"tx", "launch", "parse"} => mode = "off"
Attached == pc = "launch" => handler
Failed == {"error", "NO_RX_WINDOW", "refused", "switched"}
RxCOpen == pc \in {"idle", "latch"} /\ ClassC /\ result \notin Failed
             => mode # "off" /\ chan = "RxC" /\ (pc = "idle" => handler)

ListenInv == Endless /\ StepsTaken /\ Quiet /\ Attached /\ RxCOpen

(* When a step of receiveDownlink begins at the latest while nothing overran,  *)
(* and the sixth when it is back; the window that an RxC window lies before.   *)
By(s) == CASE s = 1 -> 0
           [] s = 2 -> RxDelay["Rx1"] - Launch - HalfGuard
           [] s = 3 -> RxDelay["Rx2"] - 5 * ScanGuard - Launch
           [] s = 4 -> RxDelay["Rx2"] - Launch - HalfGuard
           [] s = 5 -> EndOf("Rx2")
           [] OTHER -> TimeEnough
Following == IF step = 1 THEN "Rx1" ELSE "Rx2"

BegunInTime == pc = "begin" => now <= By(step)
LaunchedInTime ==
  pc = "launch" =>
    /\ now <= wake + Oversleep
    /\ IF step \in {2, 4}
       THEN wake = RxDelay[Window] - HalfGuard
       ELSE /\ wake <= By(step) + Launch
            /\ timeout # 0 => wake + timeout <= RxDelay[Following] - 5 * ScanGuard
OpenInTime ==
  pc \in Open =>
    IF step \in {2, 4}
    THEN /\ RxDelay[Window] - HalfGuard <= tOpen /\ tOpen <= RxDelay[Window] - HalfGuard + Oversleep
         /\ pc = "closing" => now <= tOpen + ToAMin + ScanGuard + ScanGuard + 1
         /\ pc = "receiving" => now <= tOpen + ToAMax + ScanGuard
         /\ pc = "settling" => now <= wake /\ wake <= tOpen + ToAMax + ScanGuard + IrqWait
         /\ pc \in {"detach", "close"} => now <= tOpen + ToAMax + ScanGuard + IrqWait
    ELSE /\ pc \notin {"receiving", "settling"} /\ timeout # 0
         /\ tOpen + timeout <= RxDelay[Following] - 5 * ScanGuard + Oversleep
         /\ now <= tOpen + timeout + 1
BackInTime == pc \in {"idle", "latch", "again", "tx", "parse"} => now <= TimeEnough
TransmitsFirst == pc = "tx" => now = 0

TimeInv == /\ BegunInTime /\ LaunchedInTime /\ OpenInTime /\ BackInTime /\ TransmitsFirst
           /\ result # "NO_RX_WINDOW"

OnTime == ~overran => TimeInv

(* A flag of an open window is that of a frame or a timeout in that window.   *)
Locked == mode = "locked" <=> incoming # NoFrame
WaitsForIrq == {"launch", "closing", "receiving", "settling", "detach"}
Flagged ==
  /\ pc \in WaitsForIrq => handler
  /\ pc = "launch" => ~downlinkAction
  /\ pc \in Open => /\ irqs # {} => mode = "off"
                    /\ frame = NoFrame <=> "rxdone" \notin irqs
                    /\ "timeout" \in irqs => "rxdone" \notin irqs
                    /\ downlinkAction => irqs # {}
                    /\ pc # "closing" => "timeout" \notin irqs /\ mode # "on"
                    /\ frame = "scheduled" => downlinkAction
  /\ pc = "parse" => frame \in {"scheduled", "fits"}
InWindow ==
  pc = "closing" /\ mode = "on" =>
    chan = Window /\ deadline = tOpen + Length /\ now <= deadline + TimerLate[chan]

(* The frame that a Class A window waits for has ended when it is closed.     *)
Expected ==
  pc \in Open /\ incoming = "scheduled" =>
    /\ Window \in ClassA /\ now <= lockEnd
    /\ lockEnd <= RxDelay[Window] + ToAMax
    /\ pc = "settling" => wake >= tOpen + ToAMax + ScanGuard + IrqWait
    /\ pc \notin {"detach", "close"}

(* A Class A window does not open before half of scanGuard.                   *)
NotEarly ==
  step \in {2, 4} =>
    /\ pc = "launch" => wake = RxDelay[Window] - HalfGuard
    /\ pc \in Open => tOpen >= RxDelay[Window] - HalfGuard

HeardInv == Locked /\ Flagged /\ InWindow /\ Expected /\ NotEarly

-----------------------------------------------------------------------------
(* Constants and operators *)

LEMMA Constants ==
  /\ RxDelay["Rx1"] \in Nat /\ RxDelay["Rx2"] \in Nat /\ RxDelay["Rx1"] < RxDelay["Rx2"]
  /\ ScanGuard \in Nat /\ Launch \in Nat /\ ToAMin \in Nat /\ ToAMax \in Nat /\ IrqWait \in Nat
  /\ Oversleep \in Nat /\ MaxNow \in Nat /\ Never \in Nat /\ Never > MaxNow
  /\ HalfGuard \in Nat /\ HalfGuard <= ScanGuard /\ (ScanGuard > 0 => HalfGuard < ScanGuard)
  /\ Launch + HalfGuard < RxDelay["Rx1"]
  /\ TimeMod \in Nat /\ RxDelay["Rx2"] < TimeMod
  /\ TimerLate["Rx1"] \in Nat /\ TimerLate["Rx2"] \in Nat /\ TimerLate["RxC"] \in Nat
  /\ NbTrans \in Nat /\ NbTrans > 0
  /\ \A dur \in Durations : dur \in Nat /\ dur <= ToAMax
<1>1. {ScanGuard, Launch, ToAMin, ToAMax, IrqWait, Oversleep, MaxNow} \subseteq Nat
  BY WindowAssumption
<1>2. /\ ScanGuard \in Nat /\ Launch \in Nat /\ ToAMin \in Nat /\ ToAMax \in Nat
      /\ IrqWait \in Nat /\ Oversleep \in Nat /\ MaxNow \in Nat
  BY <1>1
<1>3. HalfGuard \in Nat /\ HalfGuard <= ScanGuard /\ (ScanGuard > 0 => HalfGuard < ScanGuard)
  BY <1>2 DEF HalfGuard
<1>4. RxDelay["Rx1"] \in Nat /\ RxDelay["Rx2"] \in Nat /\ RxDelay["Rx1"] < RxDelay["Rx2"]
  BY WindowAssumption DEF ClassA
<1>5. TimerLate["Rx1"] \in Nat /\ TimerLate["Rx2"] \in Nat /\ TimerLate["RxC"] \in Nat
  BY WindowAssumption DEF ClassA
<1>6. /\ Launch + HalfGuard < RxDelay["Rx1"] /\ TimeMod \in Nat /\ RxDelay["Rx2"] < TimeMod
      /\ NbTrans \in Nat /\ NbTrans > 0
  BY WindowAssumption DEF HalfGuard
<1>7. Never \in Nat /\ Never > MaxNow
  BY <1>2 DEF Never
<1>8. \A dur \in Durations : dur \in Nat /\ dur <= ToAMax
  BY <1>2, WindowAssumption
<1>9. QED
  BY <1>2, <1>3, <1>4, <1>5, <1>6, <1>7, <1>8

Channels == ClassA \cup {"RxC"}
Results == {"none", "error", "NO_RX_WINDOW", "refused", "switched", Nothing, "RxC"} \cup ClassA
Places == {"idle", "again", "tx", "begin", "launch", "closing", "receiving", "settling",
           "detach", "close", "parse", "latch"}

LEMMA WindowIs ==
  /\ Window \in Channels
  /\ step = 2 => Window = "Rx1"
  /\ step = 4 => Window = "Rx2"
  /\ step \notin {2, 4} => Window = "RxC"
  /\ Window \in ClassA <=> step \in {2, 4}
  /\ Window = "RxC" <=> step \notin {2, 4}
  BY DEF Window, Channels, ClassA

LEMMA ReturnIs ==
  ASSUME NEW r \in Results, step \in 0 .. 5, Return(r)
  PROVE  /\ r = Nothing /\ step < 5 => pc' = "begin" /\ step' = step + 1 /\ result' = result
         /\ ~(r = Nothing /\ step < 5) => /\ pc' \in {"parse", "again", "idle"}
                                          /\ step' = 0 /\ result' = r
         /\ pc' = "parse" <=> r \in Channels
         /\ pc' = "again" => r = Nothing /\ Again
<1>1. CASE r = Nothing /\ step < 5
  BY <1>1 DEF Return, Channels, ClassA, Nothing
<1>2. CASE ~(r = Nothing /\ step < 5)
  <2>1. /\ step' = 0 /\ result' = r
        /\ pc' = CASE r \in ClassA \cup {"RxC"} -> "parse"
                   [] r = Nothing /\ Again -> "again"
                   [] OTHER -> "idle"
    BY <1>2 DEF Return
  <2>2. r = Nothing => r \notin Channels
    BY DEF Nothing, Channels, ClassA
  <2>3. QED
    BY <1>2, <2>1, <2>2 DEF Channels
<1>3. QED
  BY <1>1, <1>2

LEMMA ResultsAre ==
  /\ Nothing \in Results /\ "error" \in Results /\ "NO_RX_WINDOW" \in Results
  /\ Channels \subseteq Results /\ "none" \in Results /\ "refused" \in Results
  /\ "switched" \in Results
  /\ Nothing \notin Channels /\ "error" \notin Channels /\ "NO_RX_WINDOW" \notin Channels
  /\ Nothing # "error" /\ Nothing # "NO_RX_WINDOW" /\ "RxC" \in Channels
  /\ "NO_RX_WINDOW" \notin {"error", "none", "refused", "switched"}
  BY DEF Results, Channels, ClassA, Nothing

-----------------------------------------------------------------------------
(* The fields keep their ranges *)

ClassTyped == lwClass \in {"A", "C"} /\ mcActive \in BOOLEAN
ThreadTyped == /\ step \in 0 .. 5 /\ trans \in 0 .. NbTrans - 1 /\ pc \in Places
               /\ timeout \in 0 .. TimeMod - 1 /\ wake \in Nat /\ tOpen \in 0 .. MaxNow
               /\ result \in Results
RadioTyped == /\ mode \in {"off", "on", "locked"} /\ chan \in Channels
              /\ deadline \in Nat /\ lockEnd \in Nat
              /\ irqs \subseteq {"timeout", "rxdone"}
              /\ frame \in {NoFrame, "scheduled", "fits", "long"}
              /\ incoming \in {NoFrame, "scheduled", "fits", "long", "broken"}
IrqTyped == downlinkAction \in BOOLEAN /\ handler \in BOOLEAN
OverranTyped == overran \in BOOLEAN

LEMMA TypeParts ==
  /\ TypeOK <=> /\ ClassTyped /\ ThreadTyped /\ RadioTyped /\ IrqTyped /\ OverranTyped
                /\ now \in 0 .. MaxNow
  /\ TypeOK' <=> /\ ClassTyped' /\ ThreadTyped' /\ RadioTyped' /\ IrqTyped' /\ OverranTyped'
                 /\ now' \in 0 .. MaxNow
  BY DEF TypeOK, ClassTyped, ThreadTyped, RadioTyped, IrqTyped, OverranTyped, Channels, Results,
         Places

LEMMA OverranTypes ==
  ASSUME TypeInv, Radio \/ Windows \/ Calls \/ Tick
  PROVE  OverranTyped'
<1>1. OverranTyped
  BY TypeParts DEF TypeInv
<1>2. CASE Close
  BY <1>1, <1>2 DEF Close, OverranTyped
<1>3. CASE ~Close
  <2>1. overran' = overran \/ overran' = FALSE
    BY <1>3
    DEF Radio, FrameBegins, FrameEnds, TimerExpires, Windows, BeginClassA, BeginClassC, NotClassC,
        LaunchWindow, CheckTimeout, WaitForFrame, WaitForIrq, ClearAction, WindowFails, Calls,
        sendReceive, TxDone, TxFails, ParseDownlink, getDownlinkClassC, Relatch, setClass,
        startMulticastSession, stopMulticastSession, Tick, thread
  <2>2. QED
    BY <1>1, <2>1 DEF OverranTyped
<1>4. QED
  BY <1>2, <1>3

LEMMA StandbyTyped == ASSUME RadioTyped, Standby PROVE RadioTyped'
  BY Constants DEF Standby, RadioTyped

LEMMA ListenTyped ==
  ASSUME RadioTyped, NEW ch \in Channels, NEW until \in Nat, Listen(ch, until)
  PROVE  RadioTyped'
  BY Constants DEF Listen, RadioTyped

LEMMA FrameReadTyped == ASSUME RadioTyped, FrameRead PROVE RadioTyped'
  BY DEF FrameRead, RadioTyped

LEMMA ArmedTyped == ASSUME Armed PROVE IrqTyped'
  BY DEF Armed, IrqTyped

LEMMA InterruptTyped == ASSUME IrqTyped, Interrupt PROVE IrqTyped'
  BY DEF Interrupt, IrqTyped

LEMMA LengthIs ==
  ASSUME TypeOK
  PROVE  /\ Length \in Nat
         /\ step \in {2, 4} => Length = ToAMin + ScanGuard
         /\ step \notin {2, 4} => Length = timeout
  BY Constants, WindowIs DEF Length, TypeOK

LEMMA OpensAtIs ==
  step \in {2, 4} => /\ RxDelay[Window] \in Nat /\ Launch + HalfGuard < RxDelay[Window]
                     /\ OpensAt = RxDelay[Window] - Launch - HalfGuard
<1>1. OpensAt = RxDelay[Window] - Launch - HalfGuard
  BY DEF OpensAt, HalfGuard
<1>2. CASE step = 2
  BY <1>1, <1>2, Constants, WindowIs
<1>3. CASE step = 4
  BY <1>1, <1>3, Constants, WindowIs
<1>4. QED
  BY <1>2, <1>3

LEMMA RadioTypes == ASSUME TypeInv, Radio PROVE TypeInv'
<1>1. ClassTyped /\ ThreadTyped /\ RadioTyped /\ IrqTyped /\ now \in 0 .. MaxNow
  BY TypeParts DEF TypeInv
<1>2. UNCHANGED <<class, now, thread>>
  BY DEF Radio, FrameBegins, FrameEnds, TimerExpires
<1>3. RadioTyped' /\ IrqTyped'
  <2>1. CASE FrameBegins
    <3>1. /\ mode' = "locked" /\ deadline' = Never /\ UNCHANGED <<irq, chan, irqs, frame>>
      BY <2>1 DEF FrameBegins
    <3>2. PICK dur \in Durations, kind \in {"fits", "long", "broken"} :
            /\ lockEnd' = IF kind = "broken" THEN Never ELSE now + dur
            /\ incoming' = IF Scheduled /\ kind = "fits" THEN "scheduled" ELSE kind
      BY <2>1 DEF FrameBegins
    <3>3. lockEnd' \in Nat /\ incoming' \in {"scheduled", "fits", "long", "broken"}
      BY <1>1, <3>2, Constants
    <3>4. QED
      BY <1>1, <3>1, <3>3, Constants DEF RadioTyped, IrqTyped, irq
  <2>2. CASE FrameEnds
    <3>1. /\ mode' \in {"on", "off"} /\ lockEnd' = Never /\ incoming' = NoFrame
          /\ UNCHANGED <<chan, deadline>>
      BY <2>2 DEF FrameEnds
    <3>2. CASE incoming = "broken"
      BY <1>1, <2>2, <3>1, <3>2, Constants DEF FrameEnds, RadioTyped, IrqTyped, irq
    <3>3. CASE incoming # "broken"
      <4>1. irqs' = irqs \cup {"rxdone"} /\ frame' = incoming /\ Interrupt
        BY <2>2, <3>3 DEF FrameEnds
      <4>2. RadioTyped'
        BY <1>1, <3>1, <3>3, <4>1, Constants DEF RadioTyped
      <4>3. QED
        BY <1>1, <4>1, <4>2, InterruptTyped
    <3>4. QED
      BY <3>2, <3>3
  <2>3. CASE TimerExpires
    <3>1. RadioTyped'
      BY <1>1, <2>3, Constants DEF TimerExpires, RadioTyped
    <3>2. QED
      BY <1>1, <2>3, <3>1, InterruptTyped DEF TimerExpires
  <2>4. QED
    BY <2>1, <2>2, <2>3 DEF Radio
<1>4. ClassTyped' /\ ThreadTyped' /\ now' \in 0 .. MaxNow
  BY <1>1, <1>2 DEF class, thread, ClassTyped, ThreadTyped
<1>5. QED
  BY <1>2, <1>3, <1>4, TypeParts, OverranTypes DEF TypeInv, thread

LEMMA WindowTypes == ASSUME TypeInv, Windows PROVE TypeInv'
<1>1. ClassTyped /\ ThreadTyped /\ RadioTyped /\ IrqTyped /\ now \in 0 .. MaxNow
  BY TypeParts DEF TypeInv
<1>2. UNCHANGED <<class, now, trans>>
  BY DEF Windows, BeginClassA, BeginClassC, NotClassC, LaunchWindow, CheckTimeout, WaitForFrame,
         WaitForIrq, ClearAction, Close, WindowFails
<1>3. ASSUME NEW r \in Results, Return(r)
      PROVE  /\ step' \in 0 .. 5 /\ pc' \in Places /\ result' \in Results
             /\ pc' = "again" => trans + 1 < NbTrans
  <2>1. step \in 0 .. 5 /\ result \in Results
    BY <1>1 DEF ThreadTyped
  <2>2. CASE r = Nothing /\ step < 5
    BY <1>3, <2>1, <2>2, ReturnIs DEF Places
  <2>3. CASE ~(r = Nothing /\ step < 5)
    BY <1>3, <2>1, <2>3, ReturnIs DEF Places, Again
  <2>4. QED
    BY <2>2, <2>3
<1>4. step \in {2, 4} => OpensAt + Launch \in Nat
  BY Constants, OpensAtIs
<1> DEFINE Rest == /\ step' \in 0 .. 5 /\ pc' \in Places /\ result' \in Results
                   /\ pc' = "again" => trans + 1 < NbTrans
                   /\ timeout' \in 0 .. TimeMod - 1 /\ wake' \in Nat /\ tOpen' \in 0 .. MaxNow
<1>5. Rest /\ RadioTyped' /\ IrqTyped'
  <2>1. CASE BeginClassA
    <3>1. RadioTyped' /\ IrqTyped' /\ UNCHANGED <<timeout, tOpen>>
      BY <1>1, <2>1, StandbyTyped, ArmedTyped DEF BeginClassA
    <3>2. CASE now > OpensAt
      <4>1. Return("NO_RX_WINDOW") /\ wake' = wake
        BY <2>1, <3>2 DEF BeginClassA
      <4>2. QED
        BY <1>1, <1>3, <3>1, <4>1, ResultsAre DEF ThreadTyped
    <3>3. CASE ~(now > OpensAt)
      <4>1. pc' = "launch" /\ wake' = OpensAt + Launch /\ UNCHANGED <<step, result>>
        BY <2>1, <3>3 DEF BeginClassA
      <4>2. wake' \in Nat
        BY <1>4, <2>1, <4>1 DEF BeginClassA
      <4>3. QED
        BY <1>1, <3>1, <4>1, <4>2 DEF ThreadTyped, Places
    <3>4. QED
      BY <3>2, <3>3
  <2>2. CASE BeginClassC
    <3>1. RadioTyped' /\ IrqTyped' /\ UNCHANGED <<step, tOpen, result>>
      BY <1>1, <2>2, StandbyTyped, ArmedTyped DEF BeginClassC
    <3>2. TimeoutClassC \in Int
      BY <1>1, Constants DEF TimeoutClassC
    <3>3. timeout' \in 0 .. TimeMod - 1
      BY <2>2, <3>2, Constants DEF BeginClassC
    <3>4. pc' = "launch" /\ wake' \in Nat
      BY <1>1, <2>2, Constants DEF BeginClassC
    <3>5. QED
      BY <1>1, <3>1, <3>3, <3>4 DEF ThreadTyped, Places
  <2>3. CASE NotClassC
    <3>1. Return(Nothing) /\ UNCHANGED <<timeout, wake, tOpen, radio, irq>>
      BY <2>3 DEF NotClassC
    <3>2. QED
      BY <1>1, <1>3, <3>1, ResultsAre DEF ThreadTyped, RadioTyped, IrqTyped, radio, irq
  <2>4. CASE LaunchWindow
    <3>1. tOpen' = now /\ UNCHANGED <<timeout, wake, irq>>
      BY <2>4 DEF LaunchWindow
    <3>2. CASE Window = "RxC" /\ timeout = 0
      <4>1. Listen("RxC", Never) /\ Return(Nothing)
        BY <2>4, <3>2 DEF LaunchWindow
      <4>2. RadioTyped'
        BY <1>1, <4>1, ListenTyped, ResultsAre, Constants
      <4>3. QED
        BY <1>1, <1>3, <3>1, <4>1, <4>2, ResultsAre DEF ThreadTyped, IrqTyped, irq
    <3>3. CASE ~(Window = "RxC" /\ timeout = 0)
      <4>1. Listen(Window, now + Length) /\ pc' = "closing" /\ UNCHANGED <<step, result>>
        BY <2>4, <3>3 DEF LaunchWindow
      <4>2. now + Length \in Nat
        BY <1>1, LengthIs DEF TypeInv
      <4>3. RadioTyped'
        BY <1>1, <4>1, <4>2, ListenTyped, WindowIs
      <4>4. QED
        BY <1>1, <3>1, <4>1, <4>3 DEF ThreadTyped, IrqTyped, irq, Places
    <3>4. QED
      BY <3>2, <3>3
  <2>5. CASE CheckTimeout
    <3>1. UNCHANGED <<timeout, wake, tOpen>>
      BY <2>5 DEF CheckTimeout
    <3>2. CASE "timeout" \in irqs
      <4>1. /\ mode' = "off" /\ deadline' = Never /\ lockEnd' = Never /\ incoming' = NoFrame
            /\ irqs' = irqs \ {"timeout"} /\ handler' = FALSE
            /\ Return(Nothing)
            /\ UNCHANGED <<chan, frame, downlinkAction>>
        BY <2>5, <3>2 DEF CheckTimeout
      <4>2. RadioTyped' /\ IrqTyped'
        BY <1>1, <4>1, Constants DEF RadioTyped, IrqTyped
      <4>3. QED
        BY <1>1, <1>3, <3>1, <4>1, <4>2, ResultsAre DEF ThreadTyped
    <3>3. CASE "timeout" \notin irqs
      <4>1. /\ pc' = IF Window = "RxC" THEN "detach" ELSE "receiving"
            /\ UNCHANGED <<radio, irq, step, result>>
        BY <2>5, <3>3 DEF CheckTimeout
      <4>2. pc' \in {"detach", "receiving"}
        BY <4>1
      <4>3. QED
        BY <1>1, <3>1, <4>1, <4>2 DEF ThreadTyped, RadioTyped, IrqTyped, radio, irq, Places
    <3>4. QED
      BY <3>2, <3>3
  <2>6. CASE WaitForFrame
    BY <1>1, <2>6, Constants
    DEF WaitForFrame, ThreadTyped, RadioTyped, IrqTyped, radio, irq, Places
  <2>7. CASE WaitForIrq
    BY <1>1, <2>7 DEF WaitForIrq, ThreadTyped, RadioTyped, IrqTyped, radio, irq, Places
  <2>8. CASE ClearAction
    BY <1>1, <2>8 DEF ClearAction, ThreadTyped, RadioTyped, IrqTyped, radio, Places
  <2>9. CASE Close
    <3>1. RadioTyped' /\ UNCHANGED <<timeout, wake, tOpen>>
      BY <1>1, <2>9, StandbyTyped DEF Close
    <3>2. IrqTyped'
      BY <1>1, <2>9 DEF Close, IrqTyped
    <3>3. \E r \in Results : Return(r)
      BY <2>9, ResultsAre, WindowIs DEF Close
    <3>4. QED
      BY <1>1, <1>3, <3>1, <3>2, <3>3 DEF ThreadTyped
  <2>10. CASE WindowFails
    <3>1. RadioTyped' /\ Return("error") /\ UNCHANGED <<timeout, wake, tOpen, irq>>
      BY <1>1, <2>10, StandbyTyped DEF WindowFails
    <3>2. QED
      BY <1>1, <1>3, <3>1, ResultsAre DEF ThreadTyped, IrqTyped, irq
  <2>11. QED
    BY <2>1, <2>2, <2>3, <2>4, <2>5, <2>6, <2>7, <2>8, <2>9, <2>10 DEF Windows
<1>6. ThreadTyped' /\ ClassTyped' /\ now' \in 0 .. MaxNow
  BY <1>1, <1>2, <1>5 DEF ThreadTyped, ClassTyped, class
<1>7. QED
  BY <1>2, <1>5, <1>6, TypeParts, OverranTypes DEF TypeInv

LEMMA CallTypes == ASSUME TypeInv, Calls PROVE TypeInv'
<1>1. ClassTyped /\ ThreadTyped /\ RadioTyped /\ IrqTyped /\ now \in 0 .. MaxNow
  BY TypeParts DEF TypeInv
<1>2. now' \in {0, now} /\ UNCHANGED <<timeout, wake, tOpen>>
  BY DEF Calls, sendReceive, TxDone, TxFails, ParseDownlink, getDownlinkClassC, Relatch, setClass,
         startMulticastSession, stopMulticastSession
<1>3. now' \in 0 .. MaxNow
  BY <1>1, <1>2, Constants
<1> DEFINE Rest == /\ step' \in 0 .. 5 /\ trans' \in 0 .. NbTrans - 1 /\ result' \in Results
                   /\ pc' \in Places \ {"again"}
<1>4. Standby \/ FrameRead \/ Listen("RxC", Never) \/ UNCHANGED radio => RadioTyped'
  <2>1. Listen("RxC", Never) => RadioTyped'
    BY <1>1, ListenTyped, ResultsAre, Constants
  <2>2. Standby \/ FrameRead \/ UNCHANGED radio => RadioTyped'
    BY <1>1, StandbyTyped, FrameReadTyped DEF radio, RadioTyped
  <2>3. QED
    BY <2>1, <2>2
<1>5. Armed \/ Interrupt \/ UNCHANGED irq => IrqTyped'
  BY <1>1, ArmedTyped, InterruptTyped DEF irq, IrqTyped
<1>6. UNCHANGED class => ClassTyped'
  BY <1>1 DEF ClassTyped, class
<1>7. ClassTyped' /\ Rest /\ RadioTyped' /\ IrqTyped'
  <2>1. CASE sendReceive
    <3>1. /\ pc' = "tx" /\ trans' = (IF pc = "idle" THEN 0 ELSE trans + 1)
          /\ pc \in {"idle", "again"} /\ result' = "none"
          /\ UNCHANGED <<class, step, irq>> /\ Standby
      BY <2>1 DEF sendReceive
    <3>2. trans' \in 0 .. NbTrans - 1
      BY <1>1, <3>1, Constants DEF TypeInv, ThreadTyped
    <3>3. QED
      BY <1>1, <1>4, <1>5, <1>6, <3>1, <3>2, ResultsAre DEF ThreadTyped, Places
  <2>2. CASE TxDone
    BY <1>1, <1>4, <1>5, <1>6, <2>2 DEF TxDone, ThreadTyped, Places
  <2>3. CASE TxFails
    BY <1>1, <1>4, <1>5, <1>6, <2>3, ResultsAre DEF TxFails, ThreadTyped, Places
  <2>4. CASE ParseDownlink
    <3>1. /\ pc' = "idle" /\ UNCHANGED <<class, step, trans>> /\ result' \in {result, "refused"}
          /\ OpenRxC \/ (FrameRead /\ UNCHANGED irq)
      BY <2>4 DEF ParseDownlink
    <3>2. RadioTyped' /\ IrqTyped'
      BY <1>4, <1>5, <3>1 DEF OpenRxC
    <3>3. QED
      BY <1>1, <1>6, <3>1, <3>2, ResultsAre DEF ThreadTyped, Places
  <2>5. CASE getDownlinkClassC
    BY <1>1, <1>4, <1>5, <1>6, <2>5 DEF getDownlinkClassC, ThreadTyped, Places
  <2>6. CASE Relatch
    BY <1>1, <1>4, <1>5, <1>6, <2>6 DEF Relatch, ThreadTyped, Places
  <2>7. CASE setClass
    <3>1. PICK cls \in {"A", "C"} :
            /\ lwClass' = cls
            /\ IF cls = "C" THEN Listen("RxC", Never) /\ Armed ELSE Standby /\ UNCHANGED irq
      BY <2>7 DEF setClass
    <3>2. RadioTyped' /\ IrqTyped'
      BY <1>4, <1>5, <3>1
    <3>3. result' \in {"switched", "none"} /\ UNCHANGED <<mcActive, pc, step, trans>> /\ pc = "idle"
      BY <2>7 DEF setClass
    <3>4. QED
      BY <1>1, <3>1, <3>2, <3>3, ResultsAre DEF ThreadTyped, ClassTyped, Places
  <2>8. CASE startMulticastSession
    <3>1. mcActive' \in BOOLEAN /\ lwClass' = lwClass
      BY <2>8 DEF startMulticastSession
    <3>2. ClassTyped'
      BY <1>1, <3>1 DEF ClassTyped
    <3>3. QED
      BY <1>1, <1>4, <1>5, <1>6, <2>8, <3>2, ResultsAre DEF startMulticastSession, ThreadTyped, Places
  <2>9. CASE stopMulticastSession
    <3>1. mcActive' \in BOOLEAN /\ lwClass' = lwClass
      BY <2>9 DEF stopMulticastSession
    <3>2. ClassTyped'
      BY <1>1, <3>1 DEF ClassTyped
    <3>3. RadioTyped' /\ IrqTyped'
      BY <1>4, <1>5, <2>9 DEF stopMulticastSession
    <3>4. QED
      BY <1>1, <2>9, <3>2, <3>3, ResultsAre DEF stopMulticastSession, ThreadTyped, Places
  <2>10. QED
    BY <2>1, <2>2, <2>3, <2>4, <2>5, <2>6, <2>7, <2>8, <2>9 DEF Calls
<1>8. ThreadTyped' /\ pc' # "again"
  BY <1>1, <1>2, <1>7 DEF ThreadTyped, Places
<1>9. QED
  BY <1>3, <1>7, <1>8, TypeParts, OverranTypes DEF TypeInv

LEMMA TypeInit == Init => TypeInv
<1>1. ASSUME Init
      PROVE  /\ ClassTyped /\ ThreadTyped /\ RadioTyped /\ IrqTyped /\ OverranTyped
             /\ now \in 0 .. MaxNow
  <2>1. ClassTyped /\ IrqTyped /\ OverranTyped
    BY <1>1 DEF Init, ClassTyped, IrqTyped, OverranTyped
  <2>2. ThreadTyped /\ RadioTyped /\ now \in 0 .. MaxNow
    BY <1>1, Constants, ResultsAre DEF Init, ThreadTyped, RadioTyped, Places
  <2>3. QED
    BY <2>1, <2>2
<1>2. QED
  BY <1>1, TypeParts DEF TypeInv, Init

LEMMA TypeStep == TypeInv /\ [Next]_vars => TypeInv'
<1> SUFFICES ASSUME TypeInv, [Next]_vars PROVE TypeInv'
  OBVIOUS
<1>1. CASE Tick
  <2>1. now' \in 0 .. MaxNow /\ UNCHANGED <<class, thread, radio, irq>>
    BY <1>1, TypeParts, Constants DEF Tick, TypeInv
  <2>2. ClassTyped' /\ ThreadTyped' /\ RadioTyped' /\ IrqTyped'
    BY <2>1, TypeParts
    DEF TypeInv, class, thread, radio, irq, ClassTyped, ThreadTyped, RadioTyped, IrqTyped
  <2>3. QED
    BY <1>1, <2>1, <2>2, TypeParts, OverranTypes DEF TypeInv, thread
<1>2. CASE UNCHANGED vars
  BY <1>2 DEF vars, class, thread, radio, irq, TypeInv, TypeOK
<1>3. QED
  BY <1>1, <1>2, RadioTypes, WindowTypes, CallTypes DEF Next

(* The fields keep their ranges, whatever the windows, the delays and the way  *)
(* a step of receiveDownlink ends.                                             *)
THEOREM WindowFieldsTyped == Spec => []TypeOK
<1>1. Spec => []TypeInv
  BY TypeInit, TypeStep, PTL DEF Spec
<1>2. TypeInv => TypeOK
  BY DEF TypeInv
<1>3. QED
  BY <1>1, <1>2, PTL

-----------------------------------------------------------------------------
(* A Class C device listens between calls *)

LEMMA ListenRadio == ASSUME TypeInv, ListenInv, Radio PROVE ListenInv'
<1>1. UNCHANGED <<class, thread>> /\ chan' = chan /\ (handler' = handler)
  BY DEF Radio, FrameBegins, FrameEnds, TimerExpires, Interrupt, irq
<1>2. /\ StepsTaken'
      /\ Attached'
  BY <1>1 DEF ListenInv, StepsTaken, Attached, thread, InCall, Open
<1>3. now <= MaxNow
  BY Constants DEF TypeInv, TypeOK
<1>4. CASE FrameBegins
  <2>1. mode = "on" /\ mode' = "locked" /\ deadline' = Never
    BY <1>4 DEF FrameBegins
  <2>2. Endless' /\ Quiet' /\ RxCOpen'
    BY <1>1, <2>1 DEF ListenInv, Endless, Quiet, RxCOpen, ClassC, class, thread
  <2>3. QED
    BY <1>2, <2>2 DEF ListenInv
<1>5. CASE FrameEnds
  <2>1. mode = "locked" /\ mode' = (IF Continuous THEN "on" ELSE "off") /\ deadline' = deadline
    BY <1>5 DEF FrameEnds
  <2>2. Endless' /\ Quiet' /\ RxCOpen'
    BY <1>1, <2>1 DEF ListenInv, Endless, Quiet, RxCOpen, ClassC, class, thread, Continuous
  <2>3. QED
    BY <1>2, <2>2 DEF ListenInv
<1>6. CASE TimerExpires
  <2>1. mode = "on" /\ now >= deadline /\ mode' = "off"
    BY <1>6 DEF TimerExpires
  <2>2. deadline # Never
    BY <1>3, <2>1, Constants DEF TypeInv, TypeOK
  <2>3. pc \notin {"idle", "latch", "again", "begin", "tx", "launch", "parse"}
    BY <2>1, <2>2 DEF ListenInv, Endless, Quiet
  <2>4. Endless' /\ Quiet' /\ RxCOpen'
    BY <1>1, <2>1, <2>3 DEF ListenInv, Endless, Quiet, RxCOpen, thread
  <2>5. QED
    BY <1>2, <2>4 DEF ListenInv
<1>7. QED
  BY <1>4, <1>5, <1>6 DEF Radio

(* A step of receiveDownlink that ends with the radio off, or not in the call. *)
LEMMA ListenReturn ==
  ASSUME TypeInv, StepsTaken, NEW r \in {Nothing, "error", "NO_RX_WINDOW"} \cup Channels,
         Return(r), UNCHANGED class, mode' = "off", r = Nothing => step < 5
  PROVE  ListenInv'
<1> r \in Results
  BY ResultsAre
<1>1. step \in 0 .. 5 /\ pc' \in {"begin", "parse", "again", "idle"}
  BY ReturnIs DEF TypeInv, TypeOK
<1>2. Endless' /\ Quiet' /\ Attached'
  BY <1>1, ReturnIs DEF Endless, Quiet, Attached, TypeInv, TypeOK
<1>3. StepsTaken'
  BY <1>1, ReturnIs DEF StepsTaken, InCall, Open, TypeInv, TypeOK
<1>4. RxCOpen'
  <2>1. pc' = "idle" => result' \in Failed
    BY <1>1, ReturnIs DEF TypeInv, TypeOK, Failed
  <2>2. QED
    BY <1>1, <2>1 DEF RxCOpen
<1>5. QED
  BY <1>2, <1>3, <1>4 DEF ListenInv

LEMMA ListenWindows == ASSUME TypeInv, ListenInv, Windows PROVE ListenInv'
<1>1. UNCHANGED class
  BY DEF Windows, BeginClassA, BeginClassC, NotClassC, LaunchWindow, CheckTimeout, WaitForFrame,
         WaitForIrq, ClearAction, Close, WindowFails
<1>2. StepsTaken /\ step \in 0 .. 5 /\ mode \in {"off", "on", "locked"}
  BY DEF ListenInv, TypeInv, TypeOK
<1>3. ASSUME pc' \in {"launch", "closing", "receiving", "settling", "detach", "close"},
             pc' = "launch" => mode' = "off" /\ handler' /\ step' > 0 /\ (step' = 5 => timeout' = 0),
             pc' # "launch" => step' > 0 /\ step' < 5
      PROVE  ListenInv'
  BY <1>3 DEF ListenInv, Endless, StepsTaken, Quiet, Attached, RxCOpen, InCall, Open
<1>4. CASE BeginClassA
  <2>1. mode' = "off" /\ handler' /\ step \in {2, 4} /\ timeout' = timeout
    BY <1>4 DEF BeginClassA, Standby, Armed
  <2>2. CASE now > OpensAt
    <3>1. Return("NO_RX_WINDOW")
      BY <1>4, <2>2 DEF BeginClassA
    <3>2. QED
      BY <1>1, <1>2, <2>1, <3>1, ListenReturn, ResultsAre
  <2>3. CASE ~(now > OpensAt)
    <3>1. pc' = "launch" /\ step' = step
      BY <1>4, <2>3 DEF BeginClassA
    <3>2. QED
      BY <1>3, <2>1, <3>1
  <2>4. QED
    BY <2>2, <2>3
<1>5. CASE BeginClassC
  <2>1. /\ mode' = "off" /\ handler' /\ step \in {1, 3, 5} /\ step' = step /\ pc' = "launch"
        /\ step = 5 => timeout' = 0
    BY <1>5 DEF BeginClassC, Standby, Armed, TimeoutClassC
  <2>2. QED
    BY <1>3, <2>1
<1>6. CASE NotClassC
  <2>1. pc = "begin" /\ ~ClassC /\ Return(Nothing) /\ UNCHANGED <<radio, irq>>
    BY <1>6 DEF NotClassC
  <2>2. step' \in 0 .. 5 /\ pc' \in {"begin", "again", "idle"} /\ (pc' = "begin" => step' > 0)
    BY <1>2, <2>1, ReturnIs, ResultsAre
  <2>3. Endless' /\ Quiet' /\ Attached'
    BY <2>1, <2>2 DEF ListenInv, Endless, Quiet, Attached, radio
  <2>4. StepsTaken' /\ RxCOpen'
    BY <1>1, <2>1, <2>2 DEF StepsTaken, RxCOpen, ClassC, class, InCall, Open
  <2>5. QED
    BY <2>3, <2>4 DEF ListenInv
<1>7. CASE LaunchWindow
  <2>1. pc = "launch" /\ handler' = handler /\ handler
    BY <1>7 DEF LaunchWindow, irq, ListenInv, Attached
  <2>2. CASE Window = "RxC" /\ timeout = 0
    <3>1. mode' = "on" /\ chan' = "RxC" /\ deadline' = Never /\ Return(Nothing)
      BY <1>7, <2>2 DEF LaunchWindow, Listen
    <3>2. pc' \in {"begin", "again", "idle"} /\ step' \in 0 .. 5 /\ (pc' = "begin" => step' > 0)
      BY <1>2, <3>1, ReturnIs, ResultsAre
    <3>3. QED
      BY <2>1, <3>1, <3>2
      DEF ListenInv, Endless, StepsTaken, Quiet, Attached, RxCOpen, InCall, Open
  <2>3. CASE ~(Window = "RxC" /\ timeout = 0)
    <3>1. pc' = "closing" /\ step' = step
      BY <1>7, <2>3 DEF LaunchWindow
    <3>2. step > 0 /\ step # 5
      BY <1>2, <2>1, <2>3, WindowIs DEF StepsTaken, InCall
    <3>3. QED
      BY <1>2, <1>3, <3>1, <3>2
  <2>4. QED
    BY <2>2, <2>3
<1>8. CASE CheckTimeout
  <2>1. pc = "closing" /\ step > 0 /\ step < 5
    BY <1>2, <1>8 DEF CheckTimeout, StepsTaken, InCall, Open
  <2>2. CASE "timeout" \in irqs
    <3>1. mode' = "off" /\ Return(Nothing)
      BY <1>8, <2>2 DEF CheckTimeout
    <3>2. QED
      BY <1>1, <1>2, <2>1, <3>1, ListenReturn, ResultsAre
  <2>3. CASE "timeout" \notin irqs
    <3>1. pc' \in {"detach", "receiving"} /\ step' = step
      BY <1>8, <2>3 DEF CheckTimeout
    <3>2. QED
      BY <1>3, <2>1, <3>1
  <2>4. QED
    BY <2>2, <2>3
<1>9. CASE WaitForFrame \/ WaitForIrq \/ ClearAction
  <2>1. /\ pc \in Open /\ pc' \in {"settling", "detach", "close"} /\ step' = step
    BY <1>9 DEF WaitForFrame, WaitForIrq, ClearAction, Open
  <2>2. step > 0 /\ step < 5
    BY <1>2, <2>1 DEF StepsTaken, InCall
  <2>3. QED
    BY <1>3, <2>1, <2>2
<1>10. CASE Close
  <2>1. mode' = "off" /\ step < 5
    BY <1>2, <1>10 DEF Close, Standby, StepsTaken, Open
  <2>2. PICK r \in {Nothing} \cup Channels : Return(r)
    BY <1>10, WindowIs DEF Close
  <2>3. QED
    BY <1>1, <1>2, <2>1, <2>2, ListenReturn, ResultsAre
<1>11. CASE WindowFails
  <2>1. mode' = "off" /\ Return("error")
    BY <1>11 DEF WindowFails, Standby
  <2>2. QED
    BY <1>1, <1>2, <2>1, ListenReturn, ResultsAre
<1>12. QED
  BY <1>4, <1>5, <1>6, <1>7, <1>8, <1>9, <1>10, <1>11 DEF Windows

LEMMA ListenCalls == ASSUME TypeInv, ListenInv, Calls PROVE ListenInv'
<1>1. mode \in {"off", "on", "locked"} /\ lwClass \in {"A", "C"}
  BY DEF TypeInv, TypeOK
<1>2. ASSUME pc' \in {"idle", "latch"},
             ClassC' /\ result' \notin Failed =>
               mode' # "off" /\ chan' = "RxC" /\ (pc' = "idle" => handler'),
             mode' # "off" => deadline' = Never
      PROVE  ListenInv'
  BY <1>2 DEF ListenInv, Endless, StepsTaken, Quiet, Attached, RxCOpen, InCall, Open
<1>3. CASE sendReceive
  <2>1. pc' = "tx" /\ mode' = "off"
    BY <1>3 DEF sendReceive, Standby
  <2>2. QED
    BY <2>1 DEF ListenInv, Endless, StepsTaken, Quiet, Attached, RxCOpen, InCall, Open
<1>4. CASE TxDone
  <2>1. pc' = "begin" /\ step' = 1 /\ mode' = "off"
    BY <1>4 DEF TxDone, ListenInv, Quiet, radio
  <2>2. QED
    BY <2>1 DEF ListenInv, Endless, StepsTaken, Quiet, Attached, RxCOpen, InCall, Open
<1>5. CASE TxFails
  BY <1>2, <1>5 DEF TxFails, ListenInv, Quiet, radio, Failed
<1>6. CASE ParseDownlink
  <2>1. pc' = "idle" /\ UNCHANGED class /\ mode = "off"
    BY <1>6 DEF ParseDownlink, ListenInv, Quiet
  <2>2. CASE Listen("RxC", Never) /\ Armed
    BY <1>2, <2>1, <2>2 DEF Listen, Armed
  <2>3. CASE FrameRead /\ (result' = "refused" \/ ~ClassC)
    BY <1>2, <2>1, <2>3 DEF FrameRead, Failed, ClassC, class
  <2>4. (Listen("RxC", Never) /\ Armed) \/ (FrameRead /\ (result' = "refused" \/ ~ClassC))
    BY <1>6 DEF ParseDownlink, OpenRxC, ClassC
  <2>5. QED
    BY <2>2, <2>3, <2>4
<1>7. CASE getDownlinkClassC
  BY <1>2, <1>7
  DEF getDownlinkClassC, FrameRead, ListenInv, Endless, RxCOpen, ClassC, class
<1>8. CASE Relatch
  BY <1>2, <1>8 DEF Relatch, Armed, ListenInv, Endless, RxCOpen, ClassC, class, radio
<1>9. CASE setClass
  <2>1. PICK cls \in {"A", "C"} :
          /\ lwClass' = cls
          /\ IF cls = "C" THEN Listen("RxC", Never) /\ Armed ELSE Standby /\ UNCHANGED irq
          /\ result' = IF cls = "A" /\ mcActive THEN "switched" ELSE "none"
    BY <1>9 DEF setClass
  <2>2. pc' = "idle" /\ UNCHANGED mcActive
    BY <1>9 DEF setClass
  <2>3. CASE cls = "C"
    BY <1>2, <2>1, <2>2, <2>3 DEF Listen, Armed
  <2>4. CASE cls = "A"
    <3>1. mode' = "off" /\ lwClass' = "A" /\ (mcActive => result' \in Failed)
      BY <2>1, <2>4 DEF Standby, Failed
    <3>2. ~(ClassC' /\ result' \notin Failed)
      BY <2>2, <3>1 DEF ClassC
    <3>3. QED
      BY <1>2, <2>2, <3>1, <3>2
  <2>5. QED
    BY <2>3, <2>4
<1>10. CASE startMulticastSession
  BY <1>2, <1>10 DEF startMulticastSession, Listen, Armed
<1>11. CASE stopMulticastSession
  <2>1. pc' = "idle" /\ lwClass' = lwClass /\ mcActive' = FALSE
    BY <1>11 DEF stopMulticastSession
  <2>2. CASE lwClass = "C"
    BY <1>2, <1>11, <2>1, <2>2 DEF stopMulticastSession, Listen, Armed
  <2>3. CASE lwClass # "C"
    <3>1. mode' = "off" /\ ~ClassC'
      BY <1>11, <2>1, <2>3 DEF stopMulticastSession, Standby, ClassC
    <3>2. QED
      BY <1>2, <2>1, <3>1
  <2>4. QED
    BY <2>2, <2>3
<1>12. QED
  BY <1>3, <1>4, <1>5, <1>6, <1>7, <1>8, <1>9, <1>10, <1>11 DEF Calls

LEMMA ListenInit == Init => ListenInv
  BY DEF Init, ListenInv, Endless, StepsTaken, Quiet, Attached, RxCOpen, ClassC, InCall, Open

LEMMA ListenStep == TypeInv /\ ListenInv /\ [Next]_vars => ListenInv'
<1> SUFFICES ASSUME TypeInv, ListenInv, [Next]_vars PROVE ListenInv'
  OBVIOUS
<1>1. CASE Tick \/ UNCHANGED vars
  BY <1>1 DEF Tick, vars, class, thread, radio, irq, ListenInv, Endless, StepsTaken, Quiet,
              Attached, RxCOpen, ClassC, InCall, Open
<1>2. QED
  BY <1>1, ListenRadio, ListenWindows, ListenCalls DEF Next

(* After every call of a Class C device, or of a member of a multicast group,  *)
(* the radio listens on RxC with the interrupt attached, whatever came before: *)
(* downlinks in either window, windows that timed out, frames that broke off,  *)
(* repetitions, a change of class or of group. Excepted are the four results   *)
(* that ClassCListens names: an error, a missed window, a refused downlink,    *)
(* and a member's switch to Class A, which is no error.                        *)
THEOREM RxCKeepsListening == Spec => []ClassCListens
<1>1. Spec => [](TypeInv /\ ListenInv)
  BY TypeInit, TypeStep, ListenInit, ListenStep, PTL DEF Spec
<1>2. TypeInv /\ ListenInv => ClassCListens
  BY DEF ListenInv, RxCOpen, ClassCListens, Listening, Failed
<1>3. QED
  BY <1>1, <1>2, PTL

-----------------------------------------------------------------------------
(* The windows are on time *)

LEMMA Bounds ==
  ASSUME Roomy, step \in 0 .. 5
  PROVE  /\ \A s \in 1 .. 6 : By(s) \in Int /\ By(s) <= By(6)
         /\ By(6) = TimeEnough
         /\ TimeEnough = RxDelay["Rx2"] + ToAMax + 2 * ScanGuard + IrqWait + Oversleep
         /\ By(1) = 0 /\ By(5) + Launch + Oversleep <= By(6)
         /\ step \in {2, 4} =>
              /\ RxDelay[Window] \in Nat /\ RxDelay[Window] < TimeMod
              /\ Launch + HalfGuard < RxDelay[Window]
              /\ By(step) = RxDelay[Window] - Launch - HalfGuard
              /\ By(step) <= By(step + 1)
              /\ RxDelay[Window] - HalfGuard + Oversleep + ToAMin + 2 * ScanGuard + 1 <= By(step + 1)
              /\ RxDelay[Window] - HalfGuard + Oversleep + ToAMax + ScanGuard + IrqWait <= By(6)
         /\ step = 4 =>
              By(5) = RxDelay[Window] - HalfGuard + Oversleep + ToAMax + ScanGuard + IrqWait
         /\ step = 2 => By(3) = RxDelay["Rx2"] - 5 * ScanGuard - Launch
         /\ step \in {1, 3} =>
              /\ RxDelay[Following] \in Nat /\ RxDelay[Following] < TimeMod
              /\ By(step) \in Int /\ By(step) + 5 * ScanGuard + Launch <= RxDelay[Following]
              /\ By(step + 1) = RxDelay[Following] - Launch - HalfGuard
<1>1. /\ By(1) = 0 /\ By(2) = RxDelay["Rx1"] - Launch - HalfGuard
      /\ By(3) = RxDelay["Rx2"] - 5 * ScanGuard - Launch
      /\ By(4) = RxDelay["Rx2"] - Launch - HalfGuard /\ By(5) = EndOf("Rx2")
      /\ By(6) = TimeEnough
      /\ TimeEnough = RxDelay["Rx2"] + ToAMax + 2 * ScanGuard + IrqWait + Oversleep
  BY DEF By, TimeEnough
<1>2. EndOf("Rx2") = RxDelay["Rx2"] - HalfGuard + Oversleep + ToAMax + ScanGuard + IrqWait
  BY DEF EndOf
<1>3. \A s \in 1 .. 6 : s = 1 \/ s = 2 \/ s = 3 \/ s = 4 \/ s = 5 \/ s = 6
  OBVIOUS
<1>4. /\ By(1) \in Int /\ By(2) \in Int /\ By(3) \in Int /\ By(4) \in Int /\ By(5) \in Int
      /\ By(6) \in Int
      /\ By(1) <= By(6) /\ By(2) <= By(6) /\ By(3) <= By(6) /\ By(4) <= By(6) /\ By(5) <= By(6)
      /\ By(5) + Launch + Oversleep <= By(6)
  BY <1>1, <1>2, Constants DEF Roomy
<1>5. \A s \in 1 .. 6 : By(s) \in Int /\ By(s) <= By(6)
  BY <1>3, <1>4
<1>6. CASE step = 2
  BY <1>1, <1>4, <1>5, <1>6, Constants, WindowIs DEF Roomy
<1>7. CASE step = 4
  BY <1>1, <1>2, <1>4, <1>5, <1>7, Constants, WindowIs DEF Roomy
<1>8. CASE step = 1
  <2>1. Following = "Rx1"
    BY <1>8 DEF Following
  <2>2. QED
    BY <1>1, <1>4, <1>5, <1>8, <2>1, Constants DEF Roomy
<1>9. CASE step = 3
  <2>1. Following = "Rx2"
    BY <1>9 DEF Following
  <2>2. QED
    BY <1>1, <1>4, <1>5, <1>9, <2>1, Constants
<1>10. QED
  BY <1>1, <1>4, <1>5, <1>6, <1>7, <1>8, <1>9

LEMMA Clock ==
  ASSUME TypeInv
  PROVE  /\ now \in Nat /\ now <= MaxNow /\ wake \in Nat /\ tOpen \in Nat /\ timeout \in Nat
         /\ step \in 0 .. 5
  BY Constants DEF TypeInv, TypeOK

(* A step of receiveDownlink, or a call, that ends in time.                   *)
LEMMA ReturnInTime ==
  ASSUME Roomy, TypeInv, NEW r \in {Nothing, "error"} \cup Channels, Return(r),
         step > 0, now <= By(6), r = Nothing => now <= By(step + 1), now' = now,
         result # "NO_RX_WINDOW"
  PROVE  TimeInv'
<1>1. r \in Results /\ r # "NO_RX_WINDOW"
  BY ResultsAre
<1>2. \/ r = Nothing /\ pc' = "begin" /\ step' = step + 1 /\ result' = result
      \/ pc' \in {"parse", "again", "idle"} /\ result' = r
  BY <1>1, ReturnIs, Clock
<1>4. BegunInTime'
  BY <1>2 DEF BegunInTime
<1>5. BackInTime' /\ result' # "NO_RX_WINDOW"
  BY <1>1, <1>2, Bounds, Clock DEF BackInTime
<1>6. LaunchedInTime' /\ OpenInTime' /\ TransmitsFirst'
  BY <1>2 DEF LaunchedInTime, OpenInTime, TransmitsFirst, Open
<1>7. QED
  BY <1>4, <1>5, <1>6 DEF TimeInv

(* An open window is over before the next step is due, but for an Rx1 that    *)
(* hears a frame.                                                             *)
LEMMA OverInTime ==
  ASSUME Roomy, TypeInv, StepsTaken, OpenInTime, pc \in Open
  PROVE  now <= By(6) /\ step \in 1 .. 4 /\ (step # 2 \/ pc = "closing" => now <= By(step + 1))
<1>1. step \in 1 .. 4
  BY Clock DEF StepsTaken, InCall
<1>2. CASE step \in {2, 4}
  <2>1. tOpen <= RxDelay[Window] - HalfGuard + Oversleep
    BY <1>2 DEF OpenInTime
  <2>2. now <= tOpen + ToAMax + ScanGuard + IrqWait
    <3>1. CASE pc = "closing"
      BY <1>2, <3>1, Clock, Constants DEF OpenInTime, Roomy
    <3>2. CASE pc = "receiving"
      BY <1>2, <3>2, Clock, Constants DEF OpenInTime, Open
    <3>3. CASE pc = "settling"
      BY <1>2, <3>3, Clock, Constants DEF OpenInTime, Open
    <3>4. CASE pc \in {"detach", "close"}
      BY <1>2, <3>4, Clock, Constants DEF OpenInTime, Open
    <3>5. QED
      BY <3>1, <3>2, <3>3, <3>4 DEF Open
  <2>3. now <= By(6)
    BY <1>1, <1>2, <2>1, <2>2, Bounds, Clock, Constants
  <2>4. step = 4 => now <= By(5)
    BY <1>1, <1>2, <2>1, <2>2, Bounds, Clock, Constants
  <2>5. pc = "closing" => now <= By(step + 1)
    <3>1. pc = "closing" => now <= tOpen + ToAMin + ScanGuard + ScanGuard + 1
      BY <1>2 DEF OpenInTime
    <3>2. QED
      BY <1>1, <1>2, <2>1, <3>1, Bounds, Clock, Constants
  <2>6. QED
    BY <1>1, <1>2, <2>3, <2>4, <2>5
<1>3. CASE step \in {1, 3}
  <2>1. now <= RxDelay[Following] - 5 * ScanGuard + Oversleep + 1
    BY <1>3, Bounds, Clock, Constants DEF OpenInTime
  <2>2. now <= By(step + 1) /\ By(step + 1) <= By(6)
    BY <1>1, <1>3, <2>1, Bounds, Clock, Constants DEF Roomy
  <2>3. QED
    BY <1>1, <2>2, Bounds, Clock
<1>4. QED
  BY <1>1, <1>2, <1>3

(* The length of an RxC window does not wrap around.                          *)
LEMMA RxCLength ==
  ASSUME Roomy, TypeInv, step \in {1, 3}, now <= By(step)
  PROVE  TimeoutClassC = RxDelay[Following] - now - 5 * ScanGuard /\ TimeoutClassC >= Launch
<1> DEFINE left == RxDelay[Following] - now - 5 * ScanGuard
<1>1. left \in Nat /\ left < TimeMod /\ left >= Launch
  BY Bounds, Clock, Constants
<1>2. TimeoutClassC = left % TimeMod
  BY DEF TimeoutClassC, Following
<1>3. left % TimeMod = left
  <2> HIDE DEF left
  <2>1. QED
    BY <1>1, Constants
<1>4. QED
  BY <1>1, <1>2, <1>3

LEMMA TimeWindows ==
  ASSUME Roomy, TypeInv, ListenInv, TimeInv, Windows, ~overran'
  PROVE  TimeInv'
<1>1. /\ now' = now /\ now \in Nat /\ wake \in Nat /\ tOpen \in Nat /\ timeout \in Nat
      /\ step \in 0 .. 5 /\ StepsTaken /\ result # "NO_RX_WINDOW"
  BY Clock
  DEF Windows, BeginClassA, BeginClassC, NotClassC, LaunchWindow, CheckTimeout, WaitForFrame,
      WaitForIrq, ClearAction, Close, WindowFails, ListenInv, TimeInv
<1>2. pc \in {"begin", "launch"} \cup Open => step \in 1 .. 5
  BY <1>1 DEF StepsTaken, InCall
<1>3. pc = "begin" => now <= By(step) /\ now <= By(step + 1)
  <2>1. pc = "begin" => now <= By(step)
    BY DEF TimeInv, BegunInTime
  <2>2. pc = "begin" => By(step) <= By(step + 1)
    BY <1>1, <1>2, Bounds, Constants DEF Roomy
  <2>3. QED
    BY <1>1, <1>2, <2>1, <2>2, Bounds
<1>4. ASSUME pc' = "launch", LaunchedInTime', result' = result
      PROVE  TimeInv'
  BY <1>1, <1>4 DEF TimeInv, BegunInTime, OpenInTime, Open, BackInTime, TransmitsFirst
<1>5. ASSUME pc' \in Open, OpenInTime', result' = result
      PROVE  TimeInv'
  BY <1>1, <1>5 DEF TimeInv, BegunInTime, LaunchedInTime, Open, BackInTime, TransmitsFirst
<1>6. CASE BeginClassA
  <2>1. pc = "begin" /\ step \in {2, 4}
    BY <1>6 DEF BeginClassA
  <2>2. now <= OpensAt /\ OpensAt = RxDelay[Window] - Launch - HalfGuard
    BY <1>1, <1>3, <2>1, Bounds, OpensAtIs
  <2>3. pc' = "launch" /\ wake' = OpensAt + Launch /\ UNCHANGED <<step, result>>
    BY <1>1, <1>6, <2>1, <2>2, Bounds, Constants DEF BeginClassA
  <2>4. Window' = Window
    BY <2>3 DEF Window
  <2>5. now' <= wake' + Oversleep /\ wake' = RxDelay[Window] - HalfGuard
    BY <1>1, <2>1, <2>2, <2>3, Bounds, Constants
  <2>6. LaunchedInTime'
    BY <2>1, <2>3, <2>4, <2>5 DEF LaunchedInTime
  <2>7. QED
    BY <1>4, <2>3, <2>6
<1>7. CASE BeginClassC
  <2>1. /\ pc = "begin" /\ step \in {1, 3, 5} /\ pc' = "launch" /\ wake' = now + Launch
        /\ UNCHANGED <<step, result>>
        /\ timeout' = IF TimeoutClassC = 0 THEN 0 ELSE (TimeoutClassC - Launch) % TimeMod
    BY <1>7 DEF BeginClassC
  <2>2. now' <= wake' + Oversleep /\ wake' <= By(step) + Launch
    BY <1>1, <1>3, <2>1, Bounds, Constants
  <2>3. timeout' # 0 => wake' + timeout' <= RxDelay[Following] - 5 * ScanGuard
    <3>1. CASE step = 5
      BY <2>1, <3>1 DEF TimeoutClassC
    <3>2. CASE step \in {1, 3}
      <4>1. TimeoutClassC = RxDelay[Following] - now - 5 * ScanGuard /\ TimeoutClassC >= Launch
        BY <1>3, <2>1, <3>2, RxCLength
      <4>2. TimeoutClassC - Launch \in Nat /\ TimeoutClassC - Launch < TimeMod
        BY <1>1, <3>2, <4>1, Bounds, Constants
      <4>3. timeout' \in {0, TimeoutClassC - Launch}
        BY <2>1, <4>2, Constants
      <4>4. QED
        BY <1>1, <2>1, <3>2, <4>1, <4>3, Bounds, Constants
    <3>3. QED
      BY <2>1, <3>1, <3>2
  <2>4. Following' = Following
    BY <2>1 DEF Following
  <2>5. LaunchedInTime'
    BY <2>1, <2>2, <2>3, <2>4 DEF LaunchedInTime
  <2>6. QED
    BY <1>4, <2>1, <2>5
<1>8. CASE NotClassC
  <2>1. pc = "begin" /\ Return(Nothing) /\ step \in 1 .. 5
    BY <1>2, <1>8 DEF NotClassC
  <2>2. now <= By(step + 1) /\ now <= By(6)
    BY <1>1, <1>3, <2>1, Bounds
  <2>3. QED
    BY <1>1, <2>1, <2>2, ReturnInTime
<1>9. CASE LaunchWindow
  <2>1. /\ pc = "launch" /\ now >= wake /\ tOpen' = now /\ timeout' = timeout
        /\ now <= wake + Oversleep /\ step \in 1 .. 5
    BY <1>2, <1>9 DEF LaunchWindow, TimeInv, LaunchedInTime
  <2>2. CASE Window = "RxC" /\ timeout = 0
    <3>1. Return(Nothing)
      BY <1>9, <2>2 DEF LaunchWindow
    <3>2. now <= By(step + 1)
      <4>1. step \in {1, 3, 5} /\ wake <= By(step) + Launch
        BY <2>1, <2>2, WindowIs DEF TimeInv, LaunchedInTime
      <4>2. CASE step = 5
        BY <1>1, <2>1, <4>1, <4>2, Bounds, Constants
      <4>3. CASE step \in {1, 3}
        BY <1>1, <2>1, <4>1, <4>3, Bounds, Constants DEF Roomy
      <4>4. QED
        BY <4>1, <4>2, <4>3
    <3>3. now <= By(6)
      BY <1>1, <2>1, <3>2, Bounds, Clock
    <3>4. QED
      BY <1>1, <2>1, <3>1, <3>2, <3>3, ReturnInTime
  <2>3. CASE ~(Window = "RxC" /\ timeout = 0)
    <3>1. pc' = "closing" /\ UNCHANGED <<step, result>>
      BY <1>9, <2>3 DEF LaunchWindow
    <3>2. Window' = Window /\ Following' = Following
      BY <3>1 DEF Window, Following
    <3>3. CASE step \in {2, 4}
      <4>1. wake = RxDelay[Window] - HalfGuard
        BY <2>1, <3>3 DEF TimeInv, LaunchedInTime
      <4>2. /\ RxDelay[Window] - HalfGuard <= tOpen' /\ tOpen' <= RxDelay[Window] - HalfGuard + Oversleep
            /\ now' <= tOpen' + ToAMin + ScanGuard + ScanGuard + 1
        BY <1>1, <2>1, <3>3, <4>1, Bounds, Constants
      <4>3. OpenInTime'
        BY <3>1, <3>2, <3>3, <4>2 DEF OpenInTime
      <4>4. QED
        BY <1>5, <3>1, <4>3 DEF Open
    <3>4. CASE step \notin {2, 4}
      <4>1. timeout # 0
        BY <2>3, <3>4, WindowIs
      <4>2. wake + timeout <= RxDelay[Following] - 5 * ScanGuard /\ step \in {1, 3}
        BY <2>1, <3>4, <4>1 DEF TimeInv, LaunchedInTime, ListenInv, StepsTaken
      <4>3. /\ tOpen' + timeout' <= RxDelay[Following] - 5 * ScanGuard + Oversleep
            /\ now' <= tOpen' + timeout' + 1
        BY <1>1, <2>1, <4>2, Bounds, Constants
      <4>4. OpenInTime'
        BY <2>1, <3>1, <3>2, <3>4, <4>1, <4>3 DEF OpenInTime
      <4>5. QED
        BY <1>5, <3>1, <4>4 DEF Open
    <3>5. QED
      BY <3>3, <3>4
  <2>4. QED
    BY <2>2, <2>3
<1>10. CASE CheckTimeout
  <2>1. pc = "closing" /\ pc \in Open /\ UNCHANGED <<timeout, wake, tOpen>>
    BY <1>10 DEF CheckTimeout, Open
  <2>2. CASE "timeout" \in irqs
    <3>1. Return(Nothing)
      BY <1>10, <2>2 DEF CheckTimeout
    <3>2. now <= By(step + 1) /\ now <= By(6) /\ step > 0
      BY <1>1, <2>1, OverInTime DEF TimeInv
    <3>3. QED
      BY <1>1, <3>1, <3>2, ReturnInTime
  <2>3. CASE "timeout" \notin irqs
    <3>1. pc' = (IF Window = "RxC" THEN "detach" ELSE "receiving") /\ UNCHANGED <<step, result>>
      BY <1>10, <2>3 DEF CheckTimeout
    <3>2. Window' = Window /\ Following' = Following
      BY <3>1 DEF Window, Following
    <3>3. CASE step \in {2, 4}
      <4>1. pc' = "receiving"
        BY <3>1, <3>3, WindowIs
      <4>2. now <= tOpen + ToAMax + ScanGuard
        BY <1>1, <2>1, <3>3, Constants DEF TimeInv, OpenInTime, Roomy
      <4>3. OpenInTime'
        BY <1>1, <2>1, <3>1, <3>2, <3>3, <4>1, <4>2 DEF TimeInv, OpenInTime
      <4>4. QED
        BY <1>5, <3>1, <4>1, <4>3 DEF Open
    <3>4. CASE step \notin {2, 4}
      <4>1. pc' = "detach"
        BY <3>1, <3>4, WindowIs
      <4>2. OpenInTime'
        BY <1>1, <2>1, <3>1, <3>2, <3>4, <4>1 DEF TimeInv, OpenInTime
      <4>3. QED
        BY <1>5, <3>1, <4>1, <4>2 DEF Open
    <3>5. QED
      BY <3>3, <3>4
  <2>4. QED
    BY <2>2, <2>3
<1>11. CASE WaitForFrame
  <2>1. /\ pc = "receiving" /\ pc \in Open /\ pc' = "settling" /\ wake' = now + IrqWait
        /\ UNCHANGED <<step, timeout, tOpen, result>>
    BY <1>11 DEF WaitForFrame, Open
  <2>2. step \in {2, 4} /\ Window' = Window
    BY <2>1 DEF TimeInv, OpenInTime, Window
  <2>3. now' <= wake' /\ wake' <= tOpen + ToAMax + ScanGuard + IrqWait
    BY <1>1, <2>1, <2>2, Constants DEF TimeInv, OpenInTime
  <2>4. OpenInTime'
    BY <1>1, <2>1, <2>2, <2>3 DEF TimeInv, OpenInTime
  <2>5. QED
    BY <1>5, <2>1, <2>4 DEF Open
<1>12. CASE WaitForIrq \/ ClearAction
  <2>1. /\ pc \in {"settling", "detach"} /\ pc \in Open /\ pc' \in {"detach", "close"}
        /\ UNCHANGED <<step, timeout, wake, tOpen, result>>
        /\ pc' = "close" => pc = "detach"
    BY <1>12 DEF WaitForIrq, ClearAction, Open
  <2>2. Window' = Window /\ Following' = Following
    BY <2>1 DEF Window, Following
  <2>3. step \in {2, 4} => now <= tOpen + ToAMax + ScanGuard + IrqWait
    BY <1>1, <2>1, Constants DEF TimeInv, OpenInTime
  <2>4. OpenInTime'
    <3>1. CASE step \in {2, 4}
      BY <1>1, <2>1, <2>2, <2>3, <3>1 DEF TimeInv, OpenInTime
    <3>2. CASE step \notin {2, 4}
      BY <1>1, <2>1, <2>2, <3>2 DEF TimeInv, OpenInTime
    <3>3. QED
      BY <3>1, <3>2
  <2>5. QED
    BY <1>5, <2>1, <2>4 DEF Open
<1>13. CASE Close
  <2>1. pc \in Open
    BY <1>13 DEF Close, Open
  <2>2. now <= By(6) /\ step \in 1 .. 4 /\ (step # 2 => now <= By(step + 1))
    BY <1>1, <2>1, OverInTime DEF TimeInv
  <2>3. CASE downlinkAction /\ frame # "long"
    <3>1. Return(Window) /\ Window \in Channels /\ Window # Nothing
      BY <1>13, <2>3, WindowIs, ResultsAre DEF Close
    <3>2. QED
      BY <1>1, <2>2, <3>1, ReturnInTime
  <2>4. CASE ~(downlinkAction /\ frame # "long")
    <3>1. Return(Nothing) /\ ~(Window = "Rx1" /\ NoRoom)
      BY <1>13, <2>4 DEF Close
    <3>2. step = 2 => now <= By(3)
      <4>1. step = 2 => Window = "Rx1" /\ By(3) = RxDelay["Rx2"] - 5 * ScanGuard - Launch
        BY <1>1, Bounds, WindowIs
      <4>2. QED
        BY <1>1, <3>1, <4>1, Constants DEF NoRoom
    <3>3. now <= By(step + 1)
      BY <2>2, <3>2
    <3>4. QED
      BY <1>1, <2>2, <3>1, <3>3, ReturnInTime
  <2>5. QED
    BY <2>3, <2>4
<1>14. CASE WindowFails
  <2>1. pc \in {"begin", "launch"} /\ Return("error")
    BY <1>14 DEF WindowFails
  <2>2. now <= By(step + 1) /\ step \in 1 .. 5
    <3>1. CASE pc = "begin"
      BY <1>2, <1>3, <3>1
    <3>2. CASE pc = "launch"
      <4>1. now <= wake + Oversleep /\ step \in 1 .. 5
        BY <1>2, <3>2 DEF TimeInv, LaunchedInTime
      <4>2. CASE step \in {2, 4}
        BY <1>1, <3>2, <4>1, <4>2, Bounds, Constants DEF TimeInv, LaunchedInTime
      <4>3. CASE step \in {1, 3}
        BY <1>1, <3>2, <4>1, <4>3, Bounds, Constants DEF TimeInv, LaunchedInTime, Roomy
      <4>4. CASE step = 5
        BY <1>1, <3>2, <4>1, <4>4, Bounds, Constants DEF TimeInv, LaunchedInTime
      <4>5. QED
        BY <4>1, <4>2, <4>3, <4>4
    <3>3. QED
      BY <2>1, <3>1, <3>2
  <2>3. now <= By(6)
    BY <1>1, <2>2, Bounds
  <2>4. QED
    BY <1>1, <2>1, <2>2, <2>3, ReturnInTime
<1>15. QED
  BY <1>6, <1>7, <1>8, <1>9, <1>10, <1>11, <1>12, <1>13, <1>14 DEF Windows

(* Whatever overran, the next uplink starts the clock afresh.                 *)
LEMMA TimeSend == ASSUME Roomy, TypeInv, sendReceive PROVE TimeInv'
<1>1. pc' = "tx" /\ now' = 0 /\ result' = "none"
  BY DEF sendReceive
<1>2. 0 <= TimeEnough
  BY Bounds, Clock, Constants
<1>3. QED
  BY <1>1, <1>2
  DEF TimeInv, BegunInTime, LaunchedInTime, OpenInTime, Open, BackInTime, TransmitsFirst,
      TimeEnough

LEMMA TimeCalls == ASSUME Roomy, TypeInv, TimeInv, Calls, ~sendReceive PROVE TimeInv'
<1>1. now \in Nat /\ result # "NO_RX_WINDOW"
  BY Clock DEF TimeInv
<1>2. 0 <= By(6) /\ By(1) = 0 /\ By(6) = TimeEnough
  BY Bounds, Clock, Constants
<1>3. CASE TxDone
  <2>1. pc = "tx" /\ pc' = "begin" /\ step' = 1 /\ UNCHANGED <<now, result>>
    BY <1>3 DEF TxDone
  <2>2. now' <= By(step')
    BY <1>2, <2>1 DEF TimeInv, TransmitsFirst
  <2>3. QED
    BY <1>1, <2>1, <2>2
    DEF TimeInv, BegunInTime, LaunchedInTime, OpenInTime, Open, BackInTime, TransmitsFirst
<1>4. CASE ~TxDone
  <2>1. /\ pc \in {"idle", "latch", "again", "tx", "parse"} /\ pc' \in {"idle", "latch"}
        /\ now' = 0 \/ now' = now
        /\ result' = result \/ result' \in {"error", "refused", "switched", "none"}
    BY <1>4 DEF Calls, TxFails, ParseDownlink, getDownlinkClassC, Relatch, setClass,
                startMulticastSession, stopMulticastSession
  <2>2. now <= TimeEnough
    BY <2>1 DEF TimeInv, BackInTime
  <2>3. TimeEnough' = TimeEnough
    BY DEF TimeEnough
  <2>4. BackInTime' /\ TransmitsFirst' /\ result' # "NO_RX_WINDOW"
    BY <1>1, <1>2, <2>1, <2>2, <2>3 DEF BackInTime, TransmitsFirst
  <2>5. QED
    BY <2>1, <2>4 DEF TimeInv, BegunInTime, LaunchedInTime, OpenInTime, Open
<1>5. QED
  BY <1>3, <1>4

LEMMA TimeTick ==
  ASSUME Roomy, TypeInv, ListenInv, TimeInv, Tick, now < MaxNow
  PROVE  TimeInv'
<1>1. ThreadWaits /\ now' = now + 1 /\ UNCHANGED <<class, thread, radio, irq>>
  BY DEF Tick
<1>2. /\ UNCHANGED <<pc, step, timeout, wake, tOpen, result>>
      /\ now \in Nat /\ wake \in Nat /\ tOpen \in Nat /\ timeout \in Nat /\ step \in 0 .. 5
  BY <1>1, Clock DEF thread
<1>3. Window' = Window /\ Following' = Following
  BY <1>2 DEF Window, Following
<1>4. pc \in {"launch", "closing", "receiving", "settling"}
  BY <1>1 DEF ThreadWaits
<1>5. BegunInTime' /\ BackInTime' /\ TransmitsFirst' /\ result' # "NO_RX_WINDOW"
  BY <1>2, <1>4 DEF TimeInv, BegunInTime, BackInTime, TransmitsFirst
<1>6. LaunchedInTime'
  <2>1. CASE pc = "launch"
    <3>1. now < wake + Oversleep
      BY <1>1, <2>1 DEF ThreadWaits
    <3>2. now' <= wake' + Oversleep
      BY <1>1, <1>2, <3>1, Constants
    <3>3. QED
      BY <1>2, <1>3, <2>1, <3>2 DEF TimeInv, LaunchedInTime
  <2>2. CASE pc # "launch"
    BY <1>2, <2>2 DEF LaunchedInTime
  <2>3. QED
    BY <2>1, <2>2
<1>7. OpenInTime'
  <2>1. CASE step \in {2, 4} /\ pc = "closing"
    <3>1. Length = ToAMin + ScanGuard /\ Window # "RxC"
      BY <2>1, WindowIs, LengthIs DEF TypeInv
    <3>2. \/ now < tOpen + Length
          \/ now - tOpen <= Length + ScanGuard
          \/ now < tOpen + Length + Oversleep
      BY <1>1, <1>2, <2>1, <3>1, Constants DEF ThreadWaits, Awake, Overdue
    <3>3. now' <= tOpen + ToAMin + ScanGuard + ScanGuard + 1
      BY <1>1, <1>2, <3>1, <3>2, Constants DEF Roomy
    <3>4. QED
      BY <1>2, <1>3, <2>1, <3>3 DEF TimeInv, OpenInTime, Open
  <2>2. CASE step \in {2, 4} /\ pc = "receiving"
    <3>1. now' <= tOpen + ToAMax + ScanGuard
      BY <1>1, <1>2, <2>2, Constants DEF ThreadWaits, LongEnough
    <3>2. QED
      BY <1>2, <1>3, <2>2, <3>1 DEF TimeInv, OpenInTime, Open
  <2>3. CASE step \in {2, 4} /\ pc = "settling"
    <3>1. now' <= wake
      BY <1>1, <1>2, <2>3 DEF ThreadWaits
    <3>2. QED
      BY <1>2, <1>3, <2>3, <3>1 DEF TimeInv, OpenInTime, Open
  <2>4. CASE step \notin {2, 4} /\ pc \in Open
    <3>0. Length = timeout /\ Window = "RxC" /\ Window \notin ClassA
      BY <2>4, WindowIs, LengthIs DEF TypeInv
    <3>1. pc = "closing" /\ Length = timeout /\ Window = "RxC" /\ Window \notin ClassA
      BY <1>4, <2>4, <3>0 DEF TimeInv, OpenInTime, Open
    <3>2. now - tOpen <= Length
      BY <1>1, <1>2, <3>1, Constants DEF ThreadWaits, Awake, Overdue
    <3>3. now' <= tOpen + timeout + 1
      BY <1>1, <1>2, <3>1, <3>2
    <3>4. QED
      BY <1>2, <1>3, <2>4, <3>1, <3>3 DEF TimeInv, OpenInTime
  <2>5. CASE pc \notin Open
    BY <1>2, <2>5 DEF OpenInTime
  <2>6. QED
    BY <1>4, <2>1, <2>2, <2>3, <2>4, <2>5 DEF Open
<1>8. QED
  BY <1>5, <1>6, <1>7 DEF TimeInv

LEMMA TimeInit == ASSUME Roomy, Init PROVE TimeInv
<1>1. pc = "idle" /\ now = 0 /\ result = "none" /\ step = 0
  BY DEF Init
<1>2. now <= TimeEnough
  BY <1>1, Constants DEF TimeEnough
<1>3. QED
  BY <1>1, <1>2
  DEF TimeInv, BegunInTime, LaunchedInTime, OpenInTime, Open, BackInTime, TransmitsFirst

LEMMA TimeStep == ASSUME Roomy, TypeInv, ListenInv, OnTime, [Next]_vars PROVE OnTime'
<1> SUFFICES ASSUME ~overran' PROVE TimeInv'
  BY DEF OnTime
<1>1. CASE sendReceive
  BY <1>1, TimeSend
<1>2. CASE Windows
  <2>1. overran => overran'
    BY <1>2
    DEF Windows, BeginClassA, BeginClassC, NotClassC, LaunchWindow, CheckTimeout, WaitForFrame,
        WaitForIrq, ClearAction, Close, WindowFails
  <2>2. QED
    BY <1>2, <2>1, TimeWindows DEF OnTime
<1>3. CASE Calls /\ ~sendReceive
  <2>1. overran' = overran
    BY <1>3
    DEF Calls, TxDone, TxFails, ParseDownlink, getDownlinkClassC, Relatch, setClass,
        startMulticastSession, stopMulticastSession
  <2>2. QED
    BY <1>3, <2>1, TimeCalls DEF OnTime
<1>4. CASE Tick /\ now < MaxNow
  <2>1. overran' = overran
    BY <1>4 DEF Tick, thread
  <2>2. QED
    BY <1>4, <2>1, TimeTick DEF OnTime
<1>5. CASE Radio \/ UNCHANGED vars \/ (Tick /\ ~(now < MaxNow))
  <2>1. UNCHANGED <<pc, step, timeout, wake, tOpen, result, overran, now>>
    BY <1>5 DEF Radio, FrameBegins, FrameEnds, TimerExpires, Tick, vars, thread
  <2>2. Window' = Window /\ Following' = Following /\ TimeInv
    BY <2>1 DEF Window, Following, OnTime
  <2>3. QED
    BY <2>1, <2>2
    DEF TimeInv, BegunInTime, LaunchedInTime, OpenInTime, Open, BackInTime, TransmitsFirst,
        TimeEnough
<1>6. QED
  BY <1>1, <1>2, <1>3, <1>4, <1>5 DEF Next

LEMMA TimeAlways ==
  ASSUME Roomy PROVE Spec => [](TypeInv /\ ListenInv /\ OnTime)
<1>1. Init => TypeInv /\ ListenInv /\ OnTime
  BY TypeInit, ListenInit, TimeInit DEF OnTime
<1>2. TypeInv /\ ListenInv /\ OnTime /\ [Next]_vars => (TypeInv /\ ListenInv /\ OnTime)'
  BY TypeStep, ListenStep, TimeStep
<1>3. QED
  BY <1>1, <1>2, PTL DEF Spec

(* Neither Class A window is missed, and each listens before its delay has     *)
(* passed: an RxC window before it is over when its preparation begins, whether *)
(* that one heard nothing, a frame that came to nothing, or had no length left. *)
(* Frames may be of any length; after a reception of Rx1 that came to nothing  *)
(* too late for the RxC window (overran) nothing is promised, until the next   *)
(* uplink.                                                                    *)
THEOREM WindowsOpenOnTime == ASSUME Roomy PROVE Spec => []WindowsOnTime
<1>1. TypeInv /\ ListenInv /\ OnTime => WindowsOnTime
  <2> SUFFICES ASSUME TypeInv, TimeInv, pc = "launch", step \in {2, 4} PROVE now <= RxDelay[Window]
    BY DEF WindowsOnTime, TimeInv, OnTime
  <2>1. now <= wake + Oversleep /\ wake = RxDelay[Window] - HalfGuard
    BY DEF TimeInv, LaunchedInTime
  <2>2. QED
    BY <2>1, Bounds, Clock, Constants DEF Roomy
<1>2. QED
  BY <1>1, TimeAlways, PTL

(* sendReceive is back when the second window has had time for the longest    *)
(* frame, whatever the windows hear and however long the frames are, but for   *)
(* the call in which a reception of Rx1 overran: that one need not end         *)
(* (rxc_endless.cfg).                                                         *)
THEOREM SendReceiveReturns == ASSUME Roomy PROVE Spec => []ReturnsInTime
<1>1. ASSUME TypeInv, ListenInv, TimeInv PROVE now <= TimeEnough
  <2>1. By(6) = TimeEnough
    BY <1>1, Bounds, Clock
  <2>2. CASE pc \in Open
    BY <1>1, <2>1, <2>2, OverInTime, Clock DEF ListenInv, TimeInv
  <2>3. CASE pc \in {"begin", "launch"}
    <3>1. step \in 1 .. 5
      BY <1>1, <2>3, Clock DEF ListenInv, StepsTaken, InCall
    <3>2. CASE pc = "begin"
      <4>1. now <= By(step)
        BY <1>1, <3>2 DEF TimeInv, BegunInTime
      <4>2. QED
        BY <1>1, <2>1, <3>1, <4>1, Bounds, Clock, Constants
    <3>3. CASE pc = "launch"
      <4>1. now <= wake + Oversleep
        BY <1>1, <3>3 DEF TimeInv, LaunchedInTime
      <4>2. CASE step \in {2, 4}
        <5>1. wake = RxDelay[Window] - HalfGuard /\ By(step + 1) <= By(6)
          BY <1>1, <3>1, <3>3, <4>2, Bounds DEF TimeInv, LaunchedInTime
        <5>2. now <= By(step + 1)
          BY <1>1, <4>1, <4>2, <5>1, Bounds, Clock, Constants
        <5>3. QED
          BY <1>1, <2>1, <3>1, <5>1, <5>2, Bounds, Clock, Constants
      <4>3. CASE step \in {1, 3}
        <5>1. wake <= By(step) + Launch /\ By(step + 1) <= By(6)
          BY <1>1, <3>1, <3>3, <4>3, Bounds DEF TimeInv, LaunchedInTime
        <5>2. now <= By(step + 1)
          BY <1>1, <4>1, <4>3, <5>1, Bounds, Clock, Constants DEF Roomy
        <5>3. QED
          BY <1>1, <2>1, <3>1, <5>1, <5>2, Bounds, Clock, Constants
      <4>4. CASE step = 5
        <5>1. wake <= By(5) + Launch
          BY <1>1, <3>3, <4>4 DEF TimeInv, LaunchedInTime
        <5>2. QED
          BY <1>1, <2>1, <4>1, <5>1, Bounds, Clock, Constants
      <4>5. QED
        BY <3>1, <4>2, <4>3, <4>4
    <3>4. QED
      BY <2>3, <3>2, <3>3
  <2>4. CASE pc \in {"idle", "latch", "again", "tx", "parse"}
    BY <1>1, <2>4 DEF TimeInv, BackInTime
  <2>5. QED
    BY <1>1, <2>2, <2>3, <2>4 DEF TypeInv, TypeOK, Open
<1>2. TypeInv /\ ListenInv /\ OnTime => ReturnsInTime
  BY <1>1 DEF OnTime, ReturnsInTime
<1>3. QED
  BY <1>2, TimeAlways, PTL

-----------------------------------------------------------------------------
(* The frames a window hears *)

LEMMA RadioIs ==
  ASSUME TypeInv
  PROVE  /\ mode \in {"off", "on", "locked"} /\ irqs \subseteq {"timeout", "rxdone"}
         /\ incoming \in {NoFrame, "scheduled", "fits", "long", "broken"}
         /\ frame \in {NoFrame, "scheduled", "fits", "long"}
         /\ deadline \in Nat /\ lockEnd \in Nat /\ chan \in Channels
         /\ NoFrame \notin {"scheduled", "fits", "long", "broken"}
  BY DEF TypeInv, TypeOK, Channels, NoFrame

LEMMA DelayIs == Window \in ClassA => RxDelay[Window] \in Nat
  BY Constants DEF ClassA

LEMMA HeardRadio ==
  ASSUME Guarded, TypeInv, ListenInv, HeardInv, Radio
  PROVE  HeardInv'
<1>1. /\ UNCHANGED <<now, pc, step, timeout, wake, tOpen, result, chan>> /\ handler' = handler
      /\ now \in Nat /\ wake \in Nat /\ tOpen \in Nat /\ timeout \in Nat /\ step \in 0 .. 5
  BY Clock DEF Radio, FrameBegins, FrameEnds, TimerExpires, Interrupt, irq, thread
<1>2. mode # "off" => pc \notin {"tx", "launch", "parse"}
  BY DEF Radio, FrameBegins, FrameEnds, TimerExpires, ListenInv, Quiet
<1>3. Window' = Window /\ Length' = Length
  BY <1>1 DEF Window, Length
<1> NotEarly'
  BY <1>1, <1>3 DEF HeardInv, NotEarly
<1>4. CASE FrameBegins
  <2>1. mode = "on" /\ mode' = "locked" /\ UNCHANGED <<irq, chan, irqs, frame>>
    BY <1>4 DEF FrameBegins
  <2>2. PICK dur \in Durations, kind \in {"fits", "long", "broken"} :
          /\ lockEnd' = IF kind = "broken" THEN Never ELSE now + dur
          /\ incoming' = IF Scheduled /\ kind = "fits" THEN "scheduled" ELSE kind
    BY <1>4 DEF FrameBegins
  <2>3. Locked' /\ InWindow'
    BY <2>1, <2>2, RadioIs DEF Locked, InWindow
  <2>4. pc \in Open => irqs = {} /\ pc = "closing"
    BY <2>1 DEF HeardInv, Flagged
  <2>5. Flagged'
    BY <1>1, <1>2, <2>1, <2>4 DEF HeardInv, Flagged, irq, Open
  <2>6. Expected'
    <3>1. SUFFICES ASSUME pc \in Open, incoming' = "scheduled" PROVE Expected'
      BY <1>1 DEF Expected
    <3>2. Scheduled /\ kind = "fits" /\ lockEnd' = now + dur
      BY <2>2, <3>1
    <3>3. pc = "closing" /\ chan = Window /\ Window \in ClassA /\ now = RxDelay[Window]
      BY <2>1, <2>4, <3>1, <3>2 DEF Scheduled, HeardInv, InWindow
    <3>4. now' <= lockEnd' /\ lockEnd' <= RxDelay[Window] + ToAMax
      BY <1>1, <3>2, <3>3, DelayIs, Constants DEF Guarded
    <3>5. QED
      BY <1>1, <1>3, <3>3, <3>4 DEF Expected
  <2>7. QED
    BY <2>3, <2>5, <2>6 DEF HeardInv
<1>5. CASE FrameEnds
  <2>1. mode = "locked" /\ lockEnd' = Never /\ incoming' = NoFrame /\ mode' \in {"on", "off"}
    BY <1>5 DEF FrameEnds
  <2>2. pc \in Open => mode' = "off"
    BY <1>5 DEF FrameEnds, Continuous, Open
  <2>3. Locked' /\ InWindow' /\ Expected'
    BY <1>1, <2>1, <2>2, RadioIs DEF Locked, InWindow, Expected, Open
  <2>4. pc \in Open => irqs = {} /\ ~downlinkAction /\ frame = NoFrame
    BY <2>1 DEF HeardInv, Flagged
  <2>5. CASE incoming = "broken"
    <3>1. UNCHANGED <<irqs, frame, irq>>
      BY <1>5, <2>5 DEF FrameEnds
    <3>2. QED
      BY <1>1, <1>2, <2>1, <2>2, <2>3, <3>1 DEF HeardInv, Flagged, irq
  <2>6. CASE incoming # "broken"
    <3>1. irqs' = irqs \cup {"rxdone"} /\ frame' = incoming /\ Interrupt
      BY <1>5, <2>6 DEF FrameEnds
    <3>2. frame' # NoFrame
      BY <2>1, <3>1 DEF HeardInv, Locked
    <3>3. handler => downlinkAction'
      BY <3>1 DEF Interrupt
    <3>4. pc \in Open => irqs' = {"rxdone"}
      BY <2>4, <3>1
    <3>5. pc \in Open /\ frame' = "scheduled" => pc \notin {"detach", "close"}
      BY <3>1 DEF HeardInv, Expected
    <3>6. pc \in Open /\ pc # "close" => handler
      BY DEF HeardInv, Flagged, Open, WaitsForIrq
    <3>7. Flagged'
      BY <1>1, <1>2, <2>1, <2>2, <3>2, <3>3, <3>4, <3>5, <3>6
      DEF HeardInv, Flagged, WaitsForIrq, Open
    <3>8. QED
      BY <2>3, <3>7 DEF HeardInv
  <2>7. QED
    BY <2>5, <2>6
<1>6. CASE TimerExpires
  <2>1. /\ mode = "on" /\ mode' = "off" /\ irqs' = irqs \cup {"timeout"} /\ Interrupt
        /\ UNCHANGED <<lockEnd, frame, incoming>>
    BY <1>6 DEF TimerExpires
  <2>2. Locked' /\ InWindow'
    BY <2>1 DEF HeardInv, Locked, InWindow
  <2>3. incoming # "scheduled"
    BY <2>1, RadioIs DEF HeardInv, Locked
  <2>4. Expected'
    BY <2>1, <2>3 DEF Expected
  <2>5. pc \in Open => irqs = {} /\ frame = NoFrame /\ pc = "closing"
    BY <2>1 DEF HeardInv, Flagged
  <2>6. pc \in Open => irqs' = {"timeout"}
    BY <2>1, <2>5
  <2>7. Flagged'
    BY <1>1, <1>2, <2>1, <2>5, <2>6, RadioIs DEF HeardInv, Flagged, Open
  <2>8. QED
    BY <2>2, <2>4, <2>7 DEF HeardInv
<1>7. QED
  BY <1>4, <1>5, <1>6 DEF Radio

LEMMA HeardCalls == ASSUME TypeInv, HeardInv, Calls PROVE HeardInv'
<1>1. pc' \in {"idle", "latch", "tx", "begin"}
  BY DEF Calls, sendReceive, TxDone, TxFails, ParseDownlink, getDownlinkClassC, Relatch, setClass,
         startMulticastSession, stopMulticastSession
<1>2. Standby \/ FrameRead \/ Listen("RxC", Never) \/ UNCHANGED radio
  BY DEF Calls, sendReceive, TxDone, TxFails, ParseDownlink, OpenRxC, getDownlinkClassC, Relatch,
         setClass, startMulticastSession, stopMulticastSession
<1>3. Locked'
  BY <1>2 DEF Standby, FrameRead, Listen, radio, HeardInv, Locked
<1>4. QED
  BY <1>1, <1>3 DEF HeardInv, Flagged, InWindow, Expected, NotEarly, Open, WaitsForIrq

LEMMA HeardTick == ASSUME TypeInv, HeardInv, Tick, now < MaxNow PROVE HeardInv'
<1>1. /\ now' = now + 1 /\ RadioWaits /\ UNCHANGED <<class, thread, radio, irq>> /\ now \in Nat
  BY Clock DEF Tick
<1>2. Window' = Window /\ Length' = Length
  BY <1>1 DEF Window, Length, thread
<1>3. Locked' /\ Flagged'
  BY <1>1 DEF HeardInv, Locked, Flagged, thread, radio, irq
<1>4. InWindow'
  <2>1. mode = "on" => now' <= deadline + TimerLate[chan]
    BY <1>1, Constants, RadioIs DEF RadioWaits, Channels, ClassA
  <2>2. QED
    BY <1>1, <1>2, <2>1 DEF HeardInv, InWindow, thread, radio
<1>5. Expected'
  <2>1. incoming = "scheduled" => now' <= lockEnd
    BY <1>1, RadioIs DEF RadioWaits, HeardInv, Locked
  <2>2. QED
    BY <1>1, <1>2, <2>1 DEF HeardInv, Expected, thread, radio
<1>6. NotEarly'
  BY <1>1, <1>2 DEF HeardInv, NotEarly, thread
<1>7. QED
  BY <1>3, <1>4, <1>5, <1>6 DEF HeardInv

(* A window that listens has not been listening for too long to be heard.     *)
LEMMA NotTooLong ==
  ASSUME Punctual, TypeInv, HeardInv, CheckTimeout
  PROVE  mode # "on"
<1>1. pc = "closing" /\ (downlinkAction \/ Overdue)
  BY DEF CheckTimeout
<1>2. CASE downlinkAction
  BY <1>1, <1>2 DEF HeardInv, Flagged, Open
<1>3. CASE mode = "on" /\ Overdue
  <2>1. chan = Window /\ now <= tOpen + Length + TimerLate[Window]
    BY <1>1, <1>3 DEF HeardInv, InWindow
  <2>2. now - tOpen > Length + (IF Window = "RxC" THEN 0 ELSE ScanGuard)
    BY <1>3 DEF Overdue
  <2>3. Length \in Nat /\ now \in Nat /\ tOpen \in Nat
    BY LengthIs, Clock DEF TypeInv
  <2>4. CASE Window = "RxC"
    <3>1. now - tOpen > Length + 0 /\ TimerLate[Window] = 0
      BY <2>2, <2>4 DEF Punctual
    <3>2. QED
      BY <2>1, <2>3, <3>1
  <2>5. CASE Window \in ClassA
    <3>1. Window # "RxC"
      BY <2>5 DEF ClassA
    <3>2. now - tOpen > Length + ScanGuard
      BY <2>2, <3>1
    <3>3. TimerLate[Window] <= ScanGuard /\ TimerLate[Window] \in Nat
      BY <2>5, Constants DEF Punctual, ClassA
    <3>4. QED
      BY <2>1, <2>3, <3>2, <3>3, Constants
  <2>6. QED
    BY <2>4, <2>5, WindowIs DEF Channels
<1>4. QED
  BY <1>1, <1>2, <1>3

LEMMA HeardWindows ==
  ASSUME Guarded, Punctual, TypeInv, ListenInv, HeardInv, Windows
  PROVE  HeardInv'
<1>1. /\ UNCHANGED now /\ now \in Nat /\ wake \in Nat /\ tOpen \in Nat /\ timeout \in Nat
      /\ step \in 0 .. 5 /\ StepsTaken
  BY Clock
  DEF Windows, BeginClassA, BeginClassC, NotClassC, LaunchWindow, CheckTimeout, WaitForFrame,
      WaitForIrq, ClearAction, Close, WindowFails, ListenInv
<1>2. ASSUME pc' \in {"begin", "parse", "again", "idle"}, Locked',
             pc' = "parse" => frame' \in {"scheduled", "fits"}
      PROVE  HeardInv'
  BY <1>2 DEF HeardInv, Flagged, InWindow, Expected, NotEarly, WaitsForIrq, Open
<1>3. ASSUME NEW r \in {Nothing, "error", "NO_RX_WINDOW"}, Return(r), Locked'
      PROVE  HeardInv'
  <2>1. r \in Results /\ r \notin Channels
    BY ResultsAre
  <2>2. pc' \in {"begin", "again", "idle"}
    BY <1>1, <1>3, <2>1, ReturnIs
  <2>3. QED
    BY <1>2, <1>3, <2>2
<1>4. Standby => Locked' /\ mode' = "off" /\ incoming' = NoFrame
  BY DEF Standby, Locked
<1>5. ASSUME pc' = "launch", Standby, Armed, NotEarly' PROVE HeardInv'
  BY <1>4, <1>5 DEF HeardInv, Flagged, InWindow, Expected, WaitsForIrq, Open, Armed
<1>6. CASE BeginClassA
  <2>1. Standby /\ Armed /\ step \in {2, 4}
    BY <1>6 DEF BeginClassA
  <2>2. CASE now > OpensAt
    BY <1>3, <1>4, <1>6, <2>1, <2>2 DEF BeginClassA
  <2>3. CASE ~(now > OpensAt)
    <3>1. pc' = "launch" /\ wake' = OpensAt + Launch /\ step' = step
      BY <1>6, <2>3 DEF BeginClassA
    <3>2. Window' = Window /\ wake' = RxDelay[Window] - HalfGuard
      BY <2>1, <3>1, OpensAtIs, Constants DEF Window
    <3>3. NotEarly'
      BY <3>1, <3>2 DEF NotEarly, Open
    <3>4. QED
      BY <1>5, <2>1, <3>1, <3>3
  <2>4. QED
    BY <2>2, <2>3
<1>7. CASE BeginClassC
  <2>1. pc' = "launch" /\ Standby /\ Armed /\ step' \notin {2, 4}
    BY <1>7 DEF BeginClassC
  <2>2. QED
    BY <1>5, <2>1 DEF NotEarly
<1>8. CASE NotClassC
  <2>1. Return(Nothing) /\ Locked'
    BY <1>8 DEF NotClassC, radio, HeardInv, Locked
  <2>2. QED
    BY <1>3, <2>1
<1>9. CASE LaunchWindow
  <2>1. pc = "launch" /\ tOpen' = now /\ UNCHANGED <<now, timeout, irq>>
    BY <1>1, <1>9 DEF LaunchWindow
  <2>2. CASE Window = "RxC" /\ timeout = 0
    <3>1. Listen("RxC", Never) /\ Return(Nothing)
      BY <1>9, <2>2 DEF LaunchWindow
    <3>2. QED
      BY <1>3, <3>1 DEF Listen, Locked
  <2>3. CASE ~(Window = "RxC" /\ timeout = 0)
    <3>1. Listen(Window, now + Length) /\ pc' = "closing" /\ step' = step
      BY <1>9, <2>3 DEF LaunchWindow
    <3>2. Window' = Window /\ Length' = Length /\ Length \in Nat
      BY <2>1, <3>1, LengthIs DEF Window, Length, TypeInv
    <3>3. /\ mode' = "on" /\ chan' = Window /\ deadline' = now + Length /\ irqs' = {}
          /\ incoming' = NoFrame /\ frame' = NoFrame
      BY <3>1 DEF Listen
    <3>4. Locked' /\ Expected'
      BY <3>3, RadioIs DEF Locked, Expected
    <3>5. InWindow'
      <4>1. TimerLate[Window] \in Nat
        BY Constants, WindowIs DEF Channels, ClassA
      <4>2. now' <= deadline' + TimerLate[chan']
        BY <1>1, <3>2, <3>3, <4>1
      <4>3. QED
        BY <2>1, <3>2, <3>3, <4>2 DEF InWindow
    <3>6. Flagged'
      <4>1. handler /\ ~downlinkAction
        BY <2>1 DEF HeardInv, Flagged, WaitsForIrq
      <4>2. handler' /\ ~downlinkAction'
        BY <2>1, <4>1 DEF irq
      <4>3. QED
        BY <3>1, <3>3, <4>2, RadioIs DEF Flagged
    <3>7. NotEarly'
      <4>1. step \in {2, 4} => now >= RxDelay[Window] - HalfGuard
        BY <1>9, <2>1 DEF LaunchWindow, HeardInv, NotEarly
      <4>2. QED
        BY <2>1, <3>1, <3>2, <4>1 DEF NotEarly
    <3>8. QED
      BY <3>4, <3>5, <3>6, <3>7 DEF HeardInv
  <2>4. QED
    BY <2>2, <2>3
<1>10. CASE CheckTimeout
  <2>1. CASE "timeout" \in irqs
    <3>1. mode' = "off" /\ incoming' = NoFrame /\ Return(Nothing)
      BY <1>10, <2>1 DEF CheckTimeout
    <3>2. QED
      BY <1>3, <3>1 DEF Locked
  <2>2. CASE "timeout" \notin irqs
    <3>1. /\ pc = "closing" /\ pc' = (IF Window = "RxC" THEN "detach" ELSE "receiving")
          /\ UNCHANGED <<radio, irq, step, timeout, wake, tOpen>>
      BY <1>10, <2>2 DEF CheckTimeout
    <3>2. Window' = Window /\ mode # "on"
      BY <1>10, <3>1, NotTooLong DEF Window
    <3>3. Locked' /\ InWindow' /\ NotEarly'
      BY <3>1, <3>2 DEF HeardInv, Locked, InWindow, NotEarly, Open, radio
    <3>4. Flagged'
      BY <2>2, <3>1, <3>2 DEF HeardInv, Flagged, WaitsForIrq, Open, irq, radio
    <3>5. Expected'
      <4>1. Window \in ClassA => pc' = "receiving"
        BY <3>1 DEF ClassA
      <4>2. QED
        BY <1>1, <3>1, <3>2, <4>1 DEF HeardInv, Expected, Open, radio
    <3>6. QED
      BY <3>3, <3>4, <3>5 DEF HeardInv
  <2>3. QED
    BY <2>1, <2>2
<1>11. CASE WaitForFrame
  <2>1. /\ pc = "receiving" /\ pc' = "settling" /\ wake' = now + IrqWait
        /\ downlinkAction \/ LongEnough
        /\ UNCHANGED <<radio, irq, step, timeout, tOpen>>
    BY <1>11 DEF WaitForFrame
  <2>2. Window' = Window
    BY <2>1 DEF Window
  <2>3. Locked' /\ InWindow' /\ Flagged' /\ NotEarly'
    BY <2>1, <2>2
    DEF HeardInv, Locked, InWindow, Flagged, NotEarly, WaitsForIrq, Open, irq, radio
  <2>4. incoming = "scheduled" => wake' >= tOpen + ToAMax + ScanGuard + IrqWait
    <3>1. incoming = "scheduled" => ~downlinkAction
      BY <2>1, RadioIs DEF HeardInv, Locked, Flagged, Open
    <3>2. LongEnough => wake' >= tOpen + ToAMax + ScanGuard + IrqWait
      BY <1>1, <2>1, Constants DEF LongEnough
    <3>3. QED
      BY <2>1, <3>1, <3>2
  <2>5. Expected'
    BY <1>1, <2>1, <2>2, <2>4 DEF HeardInv, Expected, Open, radio
  <2>6. QED
    BY <2>3, <2>5 DEF HeardInv
<1>12. CASE WaitForIrq
  <2>1. /\ pc = "settling" /\ pc' = "detach" /\ (irqs # {} \/ now >= wake)
        /\ UNCHANGED <<radio, irq, step, timeout, wake, tOpen>>
    BY <1>12 DEF WaitForIrq
  <2>2. Locked' /\ InWindow' /\ Flagged' /\ NotEarly'
    BY <2>1
    DEF HeardInv, Locked, InWindow, Flagged, NotEarly, WaitsForIrq, Open, irq, radio, Window
  <2>3. incoming # "scheduled"
    <3>1. SUFFICES ASSUME incoming = "scheduled" PROVE FALSE
      OBVIOUS
    <3>2. irqs = {}
      BY <2>1, <3>1, RadioIs DEF HeardInv, Locked, Flagged, Open
    <3>3. /\ Window \in ClassA /\ now <= lockEnd /\ lockEnd <= RxDelay[Window] + ToAMax
          /\ wake >= tOpen + ToAMax + ScanGuard + IrqWait
      BY <2>1, <3>1 DEF HeardInv, Expected, Open
    <3>4. step \in {2, 4} /\ tOpen >= RxDelay[Window] - HalfGuard
      BY <2>1, <3>3, WindowIs DEF HeardInv, NotEarly, Open
    <3>5. now >= wake
      BY <2>1, <3>2
    <3>6. QED
      BY <1>1, <3>3, <3>4, <3>5, OpensAtIs, RadioIs, Constants DEF Guarded
  <2>4. Expected'
    BY <2>1, <2>3 DEF Expected, radio
  <2>5. QED
    BY <2>2, <2>4 DEF HeardInv
<1>13. CASE ClearAction
  <2>1. pc = "detach" /\ pc' = "close" /\ UNCHANGED <<step, tOpen, radio, downlinkAction>>
    BY <1>13 DEF ClearAction
  <2>2. NotEarly'
    BY <2>1 DEF HeardInv, NotEarly, Open, Window
  <2>3. QED
    BY <2>1, <2>2 DEF HeardInv, Locked, InWindow, Expected, Flagged, WaitsForIrq, Open, radio
<1>14. CASE Close
  <2>1. pc = "close" /\ Standby /\ frame' = frame
    BY <1>14 DEF Close, Standby
  <2>2. CASE downlinkAction /\ frame # "long"
    <3>1. frame \in {"scheduled", "fits"}
      BY <2>1, <2>2, RadioIs DEF HeardInv, Flagged, Open
    <3>2. Return(Window)
      BY <1>14, <2>2 DEF Close
    <3>3. pc' \in {"begin", "parse", "again", "idle"}
      BY <1>1, <3>2, ReturnIs, ResultsAre, WindowIs
    <3>4. QED
      BY <1>2, <1>4, <2>1, <3>1, <3>3
  <2>3. CASE ~(downlinkAction /\ frame # "long")
    <3>1. Return(Nothing)
      BY <1>14, <2>3 DEF Close
    <3>2. QED
      BY <1>3, <1>4, <2>1, <3>1
  <2>4. QED
    BY <2>2, <2>3
<1>15. CASE WindowFails
  <2>1. Standby /\ Return("error")
    BY <1>15 DEF WindowFails
  <2>2. QED
    BY <1>3, <1>4, <2>1
<1>16. QED
  BY <1>6, <1>7, <1>8, <1>9, <1>10, <1>11, <1>12, <1>13, <1>14, <1>15 DEF Windows

LEMMA HeardInit == Init => HeardInv
<1>1. Init => Locked
  BY DEF Init, Locked
<1>2. QED
  BY <1>1 DEF Init, HeardInv, Flagged, InWindow, Expected, NotEarly, WaitsForIrq, Open

LEMMA HeardStep ==
  ASSUME Guarded, Punctual, TypeInv, ListenInv, HeardInv, [Next]_vars
  PROVE  HeardInv'
<1>1. CASE UNCHANGED vars \/ (Tick /\ ~(now < MaxNow))
  <2>1. UNCHANGED <<now, thread, radio, irq>>
    BY <1>1 DEF vars, Tick
  <2>2. Window' = Window /\ Length' = Length
    BY <2>1 DEF Window, Length, thread
  <2>3. QED
    BY <2>1, <2>2
    DEF HeardInv, Locked, Flagged, InWindow, Expected, NotEarly, thread, radio, irq
<1>2. QED
  BY <1>1, HeardRadio, HeardWindows, HeardCalls, HeardTick DEF Next

LEMMA HeardAlways ==
  ASSUME Guarded, Punctual PROVE Spec => [](TypeInv /\ ListenInv /\ HeardInv)
<1>1. Init => TypeInv /\ ListenInv /\ HeardInv
  BY TypeInit, ListenInit, HeardInit
<1>2. TypeInv /\ ListenInv /\ HeardInv /\ [Next]_vars => (TypeInv /\ ListenInv /\ HeardInv)'
  BY TypeStep, ListenStep, HeardStep
<1>3. QED
  BY <1>1, <1>2, PTL DEF Spec

(* A window number is returned only for a frame that arrived in that window,  *)
(* although one flag tells of frames, timeouts and ends of transmissions.      *)
THEOREM ReturnedWindowHeard ==
  ASSUME Guarded, Punctual PROVE Spec => []WindowHeardFrame
<1>1. HeardInv => WindowHeardFrame
  BY DEF HeardInv, Flagged, WindowHeardFrame
<1>2. QED
  BY <1>1, HeardAlways, PTL

(* A frame sent to the device at the delay of a window that listens is never  *)
(* dropped or cut off: no wait of receiveClassA gives up before its end.       *)
THEOREM ScheduledNotDropped ==
  ASSUME Guarded, Punctual PROVE Spec => ScheduledIsReturned
<1>1. ASSUME TypeInv, ListenInv, HeardInv, [Next]_vars,
             pc \in {"closing", "close"}, pc' \in {"begin", "idle", "again"}
      PROVE  "scheduled" \notin {frame, incoming}
  <2>1. CheckTimeout \/ Close
    BY <1>1
    DEF Next, Radio, FrameBegins, FrameEnds, TimerExpires, Windows, BeginClassA, BeginClassC,
        NotClassC, LaunchWindow, WaitForFrame, WaitForIrq, ClearAction, WindowFails, Calls,
        sendReceive, TxDone, TxFails, ParseDownlink, getDownlinkClassC, Relatch, setClass,
        startMulticastSession, stopMulticastSession, Tick, vars, thread
  <2>2. CASE CheckTimeout
    <3>1. pc = "closing" /\ "timeout" \in irqs
      BY <1>1, <2>2 DEF CheckTimeout
    <3>2. mode = "off" /\ frame = NoFrame
      BY <1>1, <3>1 DEF HeardInv, Flagged, Open
    <3>3. incoming = NoFrame
      BY <1>1, <3>2 DEF HeardInv, Locked
    <3>4. QED
      BY <1>1, <3>2, <3>3, RadioIs
  <2>3. CASE Close
    <3>1. pc = "close" /\ pc \in Open
      BY <2>3 DEF Close, Open
    <3>2. incoming # "scheduled"
      BY <1>1, <3>1 DEF HeardInv, Expected
    <3>3. ~(downlinkAction /\ frame # "long")
      <4>1. SUFFICES ASSUME downlinkAction /\ frame # "long" PROVE FALSE
        OBVIOUS
      <4>2. Return(Window)
        BY <2>3, <4>1 DEF Close
      <4>3. pc' = "parse"
        BY <1>1, <4>2, ReturnIs, ResultsAre, WindowIs, Clock
      <4>4. QED
        BY <1>1, <4>3
    <3>4. frame # "scheduled"
      BY <1>1, <3>1, <3>3 DEF HeardInv, Flagged
    <3>5. QED
      BY <3>2, <3>4
  <2>4. QED
    BY <2>1, <2>2, <2>3
<1>2. TypeInv /\ ListenInv /\ HeardInv /\ [Next]_vars
        => [(pc \in {"closing", "close"} /\ pc' \in {"begin", "idle", "again"})
              => "scheduled" \notin {frame, incoming}]_vars
  BY <1>1
<1>3. QED
  BY <1>2, HeardAlways, PTL DEF Spec, ScheduledIsReturned
=============================================================================
