----------------------- MODULE LoRaWANDataLinkProofs -----------------------
(* Theorems about LoRaWANDataLink: for counters of any width, every network,  *)
(* application and radio.                                                     *)
EXTENDS LoRaWANDataLink, SequenceTheorems, TLAPS

-----------------------------------------------------------------------------
(* Hypotheses *)

(* The network confirms application data only. parseDownlink acknowledges     *)
(* with aFCntDown whatever it was that came (LoRaWAN.cpp:2100): a 1.1 device  *)
(* would acknowledge confirmed MAC commands by the number of another frame.   *)
ConfirmedData == \A c \in Contents : c.conf => c.port = "app" /\ ~c.mc

(* The downlink counters end before the last 2^16 of their 2^32 numbers: past *)
(* those the device takes number 0 again.                                     *)
CountersEnd == \A k \in Kinds : MaxDown[k] < FCntMod * (FCntHigh - 1)

-----------------------------------------------------------------------------
(* The inductive invariant *)

(* Between composeUplink and the end of sendReceive the frame has the number  *)
(* and the acknowledgement that the node has.                                 *)
CallNumbered ==
  /\ fCntUp <= maxUp
  /\ ~Idle => fCntUp < maxUp /\ call.up.cnt = fCntUp /\ call.up.ack = confFCntDown

SentBelow ==
  onAir # FCNT_NONE => \/ onAir < fCntUp
                       \/ onAir = fCntUp /\ ~Idle /\ (call.phase = "tx" => call.trans > 0)

(* The duty cycle that the outermost parseDownlink found is on.               *)
DutyCycleSaved ==
  /\ Idle => prevDC = <<>>
  /\ IF prevDC = <<>> THEN dutyCycleEnabled ELSE Head(prevDC)

(* The counters of the node are those of what it has taken.                   *)
TakenCounted == \A k \in Kinds : fCntDown[k] = IF taken[k] < 0 THEN 0 ELSE taken[k]
AirNumbered == \A f \in air : f.cnt <= MaxDown[Kind(f)]

CountInv == TypeOK /\ CallNumbered /\ SentBelow /\ DutyCycleSaved /\ TakenCounted /\ AirNumbered

(* An acknowledgement that the device owes goes out with the next uplink.     *)
AckOwed == OwedAckPending /\ (call.phase = "rx" => owed = FCNT_NONE)

(* What the two ends know of each other's frames.                             *)
AirConfirms == \A f \in air : f.conf => f.port = "app" /\ ~f.mc
AirAcks == \A f \in air : f.ack # FCNT_NONE => f.ack \in heard
AckDueHeard == ackDue => lastUp \in heard
AckKnown == confFCntDown # FCNT_NONE => <<"app", confFCntDown>> \in confirmed
AwaitingData == awaiting # NoneAwaited => awaiting[1] = "app"

AckInv == AckOwed /\ AirConfirms /\ AirAcks /\ AckDueHeard /\ AckKnown /\ AwaitingData
-----------------------------------------------------------------------------
(* Constants and operators *)

UpNumbers == 0 .. MaxUp \union {FCNT_NONE}
DownNumbers == DownCounters \union {FCNT_NONE}
Payloads == {"user", "request", "answer"}

LEMMA CounterNumbers ==
  /\ FCntMod \in Nat /\ FCntMod > 1 /\ FCntHigh \in Nat /\ FCntHigh > 0
  /\ MaxUp \in Nat /\ MaxUp < FCNT_NONE /\ FCNT_NONE \in Nat /\ FCNT_NONE \notin 0 .. MaxUp
  /\ DownCounters \subseteq Nat /\ FCNT_NONE \notin DownCounters /\ 0 \in DownCounters
  /\ \A k \in Kinds : MaxDown[k] \in Nat /\ 0 .. MaxDown[k] \subseteq DownCounters
  /\ \A c \in DownCounters : c < FCNT_NONE
<1>1. FCntMod \in Nat /\ FCntMod > 1 /\ FCntHigh \in Nat /\ FCntHigh > 0
  BY DataLinkAssumption
<1>2. FCNT_NONE \in Int
  BY <1>1 DEF FCNT_NONE
<1>3. MaxUp \in Nat /\ MaxUp < FCNT_NONE
  BY DataLinkAssumption
<1>4. \A k \in Kinds : MaxDown[k] \in Nat /\ MaxDown[k] < FCNT_NONE
  BY <1>2, DataLinkAssumption
<1>5. \A k \in Kinds : 0 .. MaxDown[k] \subseteq DownCounters
  BY DEF DownCounters
<1>6. DownCounters \subseteq Nat /\ \A c \in DownCounters : c < FCNT_NONE
  BY <1>2, <1>4 DEF DownCounters
<1>7. 0 \in DownCounters
  BY <1>4, <1>5 DEF Kinds
<1>8. QED
  BY <1>1, <1>2, <1>3, <1>4, <1>5, <1>6, <1>7

(* The devices. *)
LEMMA NodeIs ==
  ASSUME TypeOK
  PROVE  /\ rev \in {0, 1} /\ lwClass \in {"A", "C"} /\ mcActive \in BOOLEAN
         /\ nbTrans \in Nat /\ nbTrans > 0 /\ maxUp \in 0 .. MaxUp
<1>1. <<rev, lwClass, mcActive, nbTrans, maxUp>>
        \in {0, 1} \X {"A", "C"} \X BOOLEAN \X (Nat \ {0}) \X (0 .. MaxUp)
  BY DataLinkAssumption DEF TypeOK, config
<1>2. QED
  BY <1>1, CounterNumbers

LEMMA KindIs ==
  ASSUME NEW f \in Downlinks
  PROVE  /\ Kind(f) \in Kinds
         /\ ~f.mc /\ f.port = "app" => Kind(f) = "app"
  BY DEF Kind, Kinds, Downlinks

LEMMA ComposedIs ==
  ASSUME NEW cnt \in 0 .. MaxUp, NEW port \in {0, 1}, NEW payload \in SUBSET Payloads,
         NEW ack \in DownNumbers, NEW queue \in SUBSET Queueable,
         NEW conf, conf \in BOOLEAN, NEW flag
  PROVE  LET c == Composed(cnt, port, payload, conf, ack, queue, flag) IN
         c.up \in Frames /\ c.queue \subseteq Queueable
<1> DEFINE macOnly == flag /\ payload = {}
           up == [cnt |-> cnt, port |-> port, conf |-> conf, ack |-> ack,
                  payload |-> IF macOnly THEN queue ELSE payload,
                  fOpts   |-> IF macOnly THEN {} ELSE queue]
           rest == IF macOnly THEN {} ELSE queue
           set == flag /\ ~macOnly
           c == [up |-> up, queue |-> rest, flag |-> set]
<1>1. c = Composed(cnt, port, payload, conf, ack, queue, flag)
  BY DEF Composed
<1>2. Queueable \subseteq Payloads
  BY DEF Queueable, Payloads
<1>3. up \in Frames
  <2>1. (IF macOnly THEN queue ELSE payload) \in SUBSET Payloads
    BY <1>2
  <2>2. (IF macOnly THEN {} ELSE queue) \in SUBSET Queueable
    OBVIOUS
  <2> HIDE DEF macOnly
  <2>3. QED
    BY <2>1, <2>2 DEF Frames, Payloads, DownNumbers
<1>4. rest \in SUBSET Queueable
  OBVIOUS
<1> HIDE DEF up, macOnly, rest, set
<1>5. c.up = up /\ c.queue = rest
  OBVIOUS
<1> HIDE DEF c
<1>6. QED
  BY <1>1, <1>3, <1>4, <1>5

LEMMA ComposedCarries ==
  ASSUME NEW cnt, NEW port, NEW payload, NEW conf, NEW ack, NEW queue, NEW flag
  PROVE  LET c == Composed(cnt, port, payload, conf, ack, queue, flag) IN
         /\ c.up.cnt = cnt /\ c.up.ack = ack /\ c.up.conf = conf
         /\ c.flag = (flag /\ ~(flag /\ payload = {}))
  BY DEF Composed

(* The uplink that parseDownlink sends by itself. *)
LEMMA AnswerIs ==
  ASSUME NEW cnt \in 0 .. MaxUp, NEW payload \in SUBSET Queueable, NEW ack \in DownNumbers,
         NEW queue \in SUBSET Queueable
  PROVE  LET c == Composed(cnt, 0, payload, FALSE, ack, queue, TRUE) IN
         c.up \in Frames /\ c.queue \subseteq Queueable
<1> DEFINE c == Composed(cnt, 0, payload, FALSE, ack, queue, TRUE)
           content == IF payload = {} THEN queue ELSE payload
           along == IF payload = {} THEN {} ELSE queue
<1>1. c.up = [cnt |-> cnt, port |-> 0, conf |-> FALSE, ack |-> ack,
              payload |-> content, fOpts |-> along]
  BY DEF Composed
<1>2. content \in SUBSET Payloads /\ along \in SUBSET Queueable
  BY DEF Queueable, Payloads
<1>3. c.queue = along
  BY DEF Composed
<1> HIDE DEF c, content, along
<1>4. c.up \in Frames
  BY <1>1, <1>2 DEF Frames, DownNumbers, Payloads
<1>5. QED
  BY <1>2, <1>3, <1>4 DEF c

LEMMA AnswerCarries ==
  ASSUME NEW cnt, NEW payload, NEW ack, NEW queue
  PROVE  LET c == Composed(cnt, 0, payload, FALSE, ack, queue, TRUE) IN
         c.up.cnt = cnt /\ c.up.ack = ack /\ c.flag \in BOOLEAN
  BY DEF Composed

-----------------------------------------------------------------------------
(* The counter rebuilt from its low bits *)

LEMMA Divided ==
  ASSUME NEW a \in Nat
  PROVE  /\ a \div FCntMod \in Nat /\ a % FCntMod \in 0 .. FCntMod - 1
         /\ a = FCntMod * (a \div FCntMod) + (a % FCntMod)
  BY CounterNumbers

LEMMA DividedOnce ==
  ASSUME NEW q \in Nat, NEW r \in 0 .. FCntMod - 1
  PROVE  (FCntMod * q + r) % FCntMod = r
  BY CounterNumbers

LEMMA NextRound ==
  ASSUME NEW a \in Nat
  PROVE  (a + FCntMod) % FCntMod = a % FCntMod
<1> DEFINE p == a \div FCntMod
           r == a % FCntMod
<1>1. p \in Nat /\ r \in 0 .. FCntMod - 1 /\ a = FCntMod * p + r
  BY Divided
<1> HIDE DEF p, r
<1>2. a + FCntMod = FCntMod * (p + 1) + r /\ p + 1 \in Nat
  BY <1>1, CounterNumbers
<1>3. (FCntMod * (p + 1) + r) % FCntMod = r
  BY <1>1, <1>2, DividedOnce
<1>4. QED
  BY <1>2, <1>3 DEF r

LEMMA Below == ASSUME NEW a \in Nat, NEW m \in Nat, a < m PROVE a % m = a
  OBVIOUS

(* Fewer than 2^16 frames on, the low bits are enough.                        *)
LEMMA RebuiltIsSent ==
  ASSUME NEW dev \in Nat, NEW cnt \in Nat, cnt < FCNT_NONE, cnt - dev < FCntMod,
         dev < cnt \/ (dev = 0 /\ cnt = 0)
  PROVE  Rebuilt(dev, cnt % FCntMod) = cnt
<1> DEFINE p == dev \div FCntMod
           r == dev % FCntMod
           q == cnt \div FCntMod
           s == cnt % FCntMod
<1>1. p \in Nat /\ r \in 0 .. FCntMod - 1 /\ dev = FCntMod * p + r
  BY Divided
<1>2. q \in Nat /\ s \in 0 .. FCntMod - 1 /\ cnt = FCntMod * q + s
  BY Divided
<1>3. FCNT_NONE + 1 = FCntMod * FCntHigh
  BY CounterNumbers DEF FCNT_NONE
<1> HIDE DEF p, r, q, s
<1>4. CASE dev > 0 /\ s <= r
  <2>1. q = p + 1
    <3>1. FCntMod * (q - p) > 0 /\ FCntMod * (q - p) < 2 * FCntMod
      BY <1>1, <1>2, <1>4, CounterNumbers
    <3>2. q - p > 0
      BY <1>1, <1>2, <3>1, CounterNumbers
    <3>3. q - p < 2
      BY <1>1, <1>2, <3>1, CounterNumbers
    <3>4. QED
      BY <1>1, <1>2, <3>2, <3>3
  <2>2. dev + FCntMod = FCntMod * q + r
    BY <1>1, <2>1, CounterNumbers
  <2>3. dev + FCntMod < FCNT_NONE + 1
    <3>1. FCntMod * q < FCntMod * FCntHigh
      BY <1>2, <1>3, CounterNumbers
    <3>2. q + 1 <= FCntHigh
      BY <1>2, <3>1, CounterNumbers
    <3>3. FCntMod * (q + 1) <= FCntMod * FCntHigh
      BY <1>2, <3>2, CounterNumbers
    <3>4. QED
      BY <1>1, <1>2, <1>3, <2>2, <3>3, CounterNumbers
  <2>4. (dev + FCntMod) % (FCNT_NONE + 1) = dev + FCntMod
    BY <2>3, CounterNumbers, Below
  <2>5. (dev + FCntMod) % FCntMod = r
    BY NextRound DEF r
  <2>6. Rebuilt(dev, s) = dev + FCntMod - r + s
    <3>1. dev > 0 /\ s <= dev % FCntMod
      BY <1>4 DEF r
    <3>2. Rebuilt(dev, s) = (dev + FCntMod) - ((dev + FCntMod) % FCntMod) + s
      BY <3>1, <2>4 DEF Rebuilt
    <3>3. QED
      BY <1>1, <1>2, <3>2, <2>5, CounterNumbers
  <2>7. QED
    BY <1>1, <1>2, <2>2, <2>6, CounterNumbers DEF s
<1>5. CASE dev = 0
  <2>1. s = cnt
    BY <1>5, CounterNumbers, Below DEF s
  <2>2. Rebuilt(dev, s) = 0 - (0 % FCntMod) + s /\ 0 % FCntMod = 0
    BY <1>5, CounterNumbers, Below DEF Rebuilt
  <2>3. QED
    BY <1>2, <2>1, <2>2 DEF s
<1>6. CASE dev > 0 /\ s > r
  <2>1. q = p
    <3>1. FCntMod * (q - p) < FCntMod /\ FCntMod * (q - p) > 0 - FCntMod
      BY <1>1, <1>2, <1>6, CounterNumbers
    <3>2. q - p < 1
      BY <1>1, <1>2, <3>1, CounterNumbers
    <3>3. q - p > -1
      BY <1>1, <1>2, <3>1, CounterNumbers
    <3>4. QED
      BY <1>1, <1>2, <3>2, <3>3
  <2>2. ~(s <= r)
    BY <1>1, <1>2, <1>6, CounterNumbers
  <2>3. Rebuilt(dev, s) = dev - r + s
    BY <2>2 DEF Rebuilt, r
  <2>4. QED
    BY <1>1, <1>2, <2>1, <2>3, CounterNumbers DEF s
<1>7. QED
  BY <1>1, <1>2, <1>4, <1>5, <1>6, CounterNumbers

(* What is rebuilt lies above the last number, short of the last 2^16.        *)
LEMMA RebuiltIsNew ==
  ASSUME NEW dev \in Nat, NEW low \in 0 .. FCntMod - 1, dev < FCntMod * (FCntHigh - 1)
  PROVE  Rebuilt(dev, low) > dev \/ (dev = 0 /\ Rebuilt(dev, low) >= 0)
<1> DEFINE r == dev % FCntMod
<1>1. r \in 0 .. FCntMod - 1
  BY Divided
<1>2. FCNT_NONE + 1 = FCntMod * FCntHigh /\ dev + FCntMod < FCntMod * FCntHigh
  BY CounterNumbers DEF FCNT_NONE
<1> HIDE DEF r
<1>3. CASE dev > 0 /\ low <= r
  <2>1. (dev + FCntMod) % (FCNT_NONE + 1) = dev + FCntMod
    BY <1>2, CounterNumbers, Below
  <2>2. (dev + FCntMod) % FCntMod = r
    BY NextRound DEF r
  <2>3. Rebuilt(dev, low) = dev + FCntMod - r + low
    <3>1. dev > 0 /\ low <= dev % FCntMod
      BY <1>3 DEF r
    <3>2. Rebuilt(dev, low) = (dev + FCntMod) - ((dev + FCntMod) % FCntMod) + low
      BY <3>1, <2>1 DEF Rebuilt
    <3>3. QED
      BY <1>1, <3>2, <2>2, CounterNumbers
  <2>4. QED
    BY <1>1, <2>3, CounterNumbers
<1>4. CASE ~(dev > 0 /\ low <= r)
  <2>1. Rebuilt(dev, low) = dev - r + low
    BY <1>4 DEF Rebuilt, r
  <2>2. dev = 0 => r = 0
    BY CounterNumbers, Below DEF r
  <2>3. QED
    BY <1>1, <1>4, <2>1, <2>2, CounterNumbers
<1>5. QED
  BY <1>3, <1>4
-----------------------------------------------------------------------------
(* Steps of the counters *)

NodeTyped ==
  /\ config \in Nodes
  /\ fCntUp \in 0 .. MaxUp /\ fCntDown \in [Kinds -> DownCounters]
  /\ confFCntUp \in UpNumbers /\ confFCntDown \in DownNumbers
  /\ isMACPayload \in BOOLEAN /\ fOptsUp \in SUBSET Queueable /\ dutyCycleEnabled \in BOOLEAN
  /\ call \in [phase : {"idle", "tx", "rx"}, up : Frames, trans : 0 .. nbTrans - 1]
  /\ prevDC \in Seq(BOOLEAN)

NetTyped ==
  /\ air \subseteq Downlinks /\ nextDown \in [Kinds -> Nat]
  /\ lastUp \in UpNumbers /\ ackDue \in BOOLEAN
  /\ awaiting \in Numbered \union {NoneAwaited}

SeenTyped ==
  /\ onAir \in UpNumbers /\ heard \subseteq 0 .. MaxUp
  /\ acked \in Numbered \union {NoneAwaited}
TakenTyped ==
  /\ owed \in DownNumbers
  /\ unseen \subseteq Numbered /\ needless \in BOOLEAN
  /\ taken \in [Kinds -> DownCounters \union {-1}]
  /\ told \in UpNumbers /\ confirmed \subseteq Numbered

LEMMA TypeParts ==
  /\ TypeOK <=> NodeTyped /\ NetTyped /\ SeenTyped /\ TakenTyped
  /\ TypeOK' <=> NodeTyped' /\ NetTyped' /\ SeenTyped' /\ TakenTyped'
  BY DEF TypeOK, NodeTyped, NetTyped, SeenTyped, TakenTyped, UpNumbers, DownNumbers, config

LEMMA NoCallIs ==
  /\ NoFrame \in Frames /\ NoCall.phase = "idle"
  /\ \A n \in Nat \ {0} : NoCall \in [phase : {"idle", "tx", "rx"}, up : Frames, trans : 0 .. n - 1]
<1>1. NoFrame \in Frames
  BY DEF NoFrame, Frames
<1>2. QED
  BY <1>1 DEF NoCall

(* The end of a call, and of every parseDownlink around it.                   *)
LEMMA ReturnedIs ==
  ASSUME CountInv, Returned, config' = config
  PROVE  /\ call' \in [phase : {"idle", "tx", "rx"}, up : Frames, trans : 0 .. nbTrans' - 1]
         /\ Idle' /\ prevDC' = <<>> /\ prevDC' \in Seq(BOOLEAN) /\ dutyCycleEnabled' \in BOOLEAN
         /\ DutyCycleSaved'
<1>1. call' = NoCall /\ prevDC' = <<>>
  BY DEF Returned
<1>2. nbTrans' \in Nat \ {0}
  BY NodeIs DEF CountInv, config
<1>3. dutyCycleEnabled' = TRUE
  <2>1. dutyCycleEnabled' = IF prevDC = <<>> THEN dutyCycleEnabled ELSE Head(prevDC)
    BY DEF Returned
  <2>2. CASE prevDC = <<>>
    <3>1. dutyCycleEnabled \in BOOLEAN /\ dutyCycleEnabled
      BY <2>2 DEF CountInv, DutyCycleSaved, TypeOK
    <3>2. QED
      BY <2>1, <2>2, <3>1
  <2>3. CASE prevDC # <<>>
    <3>1. Head(prevDC) \in BOOLEAN /\ Head(prevDC)
      BY <2>3 DEF CountInv, DutyCycleSaved, TypeOK
    <3>2. QED
      BY <2>1, <2>3, <3>1
  <2>4. QED
    BY <2>2, <2>3
<1>4. call' \in [phase : {"idle", "tx", "rx"}, up : Frames, trans : 0 .. nbTrans' - 1]
  BY <1>1, <1>2, NoCallIs
<1>5. Idle'
  BY <1>1, NoCallIs DEF Idle
<1>6. dutyCycleEnabled' \in BOOLEAN /\ DutyCycleSaved'
  BY <1>1, <1>3 DEF DutyCycleSaved
<1>7. prevDC' \in Seq(BOOLEAN)
  BY <1>1
<1>8. QED
  BY <1>1, <1>4, <1>5, <1>6, <1>7

LEMMA SavedIs ==
  ASSUME CountInv, prevDC' = SavedDC, ~Idle'
  PROVE  prevDC' \in Seq(BOOLEAN) /\ DutyCycleSaved'
<1>1. prevDC \in Seq(BOOLEAN) /\ dutyCycleEnabled \in BOOLEAN
  BY DEF CountInv, TypeOK
<1>2. prevDC' \in Seq(BOOLEAN) /\ prevDC' # <<>>
  BY <1>1 DEF SavedDC
<1>3. Head(prevDC') = IF prevDC = <<>> THEN dutyCycleEnabled ELSE Head(prevDC)
  <2>1. CASE prevDC = <<>>
    BY <1>1, <2>1 DEF SavedDC
  <2>2. CASE prevDC # <<>>
    BY <1>1, <2>2 DEF SavedDC
  <2>3. QED
    BY <2>1, <2>2
<1>4. Head(prevDC')
  BY <1>3 DEF CountInv, DutyCycleSaved
<1>5. QED
  BY <1>2, <1>4 DEF DutyCycleSaved

(* A call that composes an uplink.                                            *)
LEMMA StartedIs ==
  ASSUME CountInv, config' = config, NEW c, Started(c),
         c.up \in Frames, c.queue \subseteq Queueable
  PROVE  /\ call' \in [phase : {"idle", "tx", "rx"}, up : Frames, trans : 0 .. nbTrans' - 1]
         /\ call'.phase = "tx" /\ call'.trans = 0 /\ call'.up = c.up
         /\ ~Idle' /\ fOptsUp' \in SUBSET Queueable
<1>1. call' = [phase |-> "tx", up |-> c.up, trans |-> 0] /\ fOptsUp' = c.queue
  BY DEF Started
<1>2. nbTrans \in Nat /\ nbTrans > 0
  BY NodeIs DEF CountInv
<1>3. call' \in [phase : {"idle", "tx", "rx"}, up : Frames, trans : 0 .. nbTrans - 1]
  BY <1>1, <1>2
<1>4. nbTrans' = nbTrans
  BY DEF config
<1>5. QED
  BY <1>1, <1>3, <1>4 DEF Idle
LEMMA RequestCounts == ASSUME CountInv, sendMacCommandReq PROVE CountInv'
<1>1. NodeTyped /\ NetTyped /\ SeenTyped /\ TakenTyped
  BY TypeParts DEF CountInv
<1>2. fOptsUp' \in SUBSET Queueable
  BY <1>1 DEF sendMacCommandReq, NodeTyped, Queueable
<1>3. UNCHANGED <<config, fCntUp, fCntDown, confFCntUp, confFCntDown, isMACPayload,
                  dutyCycleEnabled, call, prevDC, air, netVars, downHistory, upHistory>>
  BY DEF sendMacCommandReq
<1>4. NodeTyped'
  BY <1>1, <1>2, <1>3 DEF NodeTyped, config
<1>5. NetTyped' /\ SeenTyped' /\ TakenTyped'
  BY <1>1, <1>3 DEF NetTyped, SeenTyped, TakenTyped, netVars, downHistory, upHistory
<1>6. CallNumbered' /\ SentBelow' /\ DutyCycleSaved'
  BY <1>3 DEF CountInv, CallNumbered, Idle, SentBelow, DutyCycleSaved, config, upHistory
<1>7. TakenCounted' /\ AirNumbered'
  BY <1>3 DEF CountInv, TakenCounted, AirNumbered, Kind, config, downHistory
<1>8. QED
  BY <1>4, <1>5, <1>6, <1>7, TypeParts DEF CountInv

LEMMA SendCounts ==
  ASSUME CountInv, NEW u \in Uplinks, SendReceive(u[1], u[2], u[3])
  PROVE  CountInv'
<1> DEFINE flag == isMACPayload \/ (u[1] = {} /\ u[2] = 0)
           c == Composed(fCntUp, u[2], u[1], u[3], confFCntDown, fOptsUp, flag)
<1>1. /\ fCntUp \in 0 .. MaxUp /\ confFCntDown \in DownNumbers /\ confFCntUp \in UpNumbers
      /\ fOptsUp \in SUBSET Queueable /\ isMACPayload \in BOOLEAN
      /\ NodeTyped /\ NetTyped /\ SeenTyped /\ TakenTyped
  BY TypeParts DEF CountInv, NodeTyped
<1>2. u[1] \in SUBSET Payloads /\ u[2] \in {0, 1} /\ u[3] \in BOOLEAN
  BY DataLinkAssumption DEF Payloads
<1>3. flag \in BOOLEAN
  OBVIOUS
<1>4. /\ c.up \in Frames /\ c.up.cnt = fCntUp /\ c.up.ack = confFCntDown
      /\ c.queue \subseteq Queueable
  <2> HIDE DEF flag
  <2>1. c.up \in Frames /\ c.queue \subseteq Queueable
    BY <1>1, <1>2, ComposedIs
  <2>2. c.up.cnt = fCntUp /\ c.up.ack = confFCntDown
    BY ComposedCarries
  <2>3. QED
    BY <2>1, <2>2
<1>5. Started(c) /\ config' = config
  BY DEF SendReceive
<1>6. /\ Idle /\ fCntUp < maxUp
      /\ UNCHANGED <<config, fCntUp, fCntDown, confFCntDown, dutyCycleEnabled, prevDC,
                     air, netVars, downHistory, upHistory>>
  BY DEF SendReceive
<1>7. confFCntUp' \in UpNumbers
  <2>1. confFCntUp' = fCntUp \/ confFCntUp' = confFCntUp
    BY DEF SendReceive
  <2>2. QED
    BY <1>1, <2>1 DEF UpNumbers
<1>8. isMACPayload' \in BOOLEAN
  <2>1. isMACPayload' = (flag /\ ~(flag /\ u[1] = {}))
    BY <1>5 DEF Started, Composed
  <2>2. QED
    BY <2>1
<1> HIDE DEF c, flag
<1>9. /\ call' \in [phase : {"idle", "tx", "rx"}, up : Frames, trans : 0 .. nbTrans' - 1]
      /\ call'.phase = "tx" /\ call'.trans = 0 /\ call'.up = c.up
      /\ ~Idle' /\ fOptsUp' \in SUBSET Queueable
  BY <1>4, <1>5, StartedIs
<1>10. NodeTyped'
  BY <1>1, <1>6, <1>7, <1>8, <1>9 DEF NodeTyped, config
<1>11. NetTyped' /\ SeenTyped' /\ TakenTyped'
  BY <1>1, <1>6 DEF NetTyped, SeenTyped, TakenTyped, netVars, downHistory, upHistory
<1>12. CallNumbered'
  BY <1>4, <1>6, <1>9 DEF CountInv, CallNumbered, config
<1>13. SentBelow'
  BY <1>6, <1>9 DEF CountInv, SentBelow, upHistory
<1>14. DutyCycleSaved' /\ TakenCounted' /\ AirNumbered'
  BY <1>6, <1>9 DEF CountInv, DutyCycleSaved, TakenCounted, AirNumbered, Kind, config, downHistory
<1>15. QED
  BY <1>10, <1>11, <1>12, <1>13, <1>14, TypeParts DEF CountInv

(* A frame that goes out, heard by the network or not.                        *)
LEMMA OnAirIs ==
  ASSUME CountInv, call.phase = "tx", OnTheAir(call.up)
  PROVE  /\ onAir' = fCntUp /\ SeenTyped' /\ nextDown' = nextDown
         /\ lastUp' \in UpNumbers /\ ackDue' \in BOOLEAN
         /\ awaiting' \in Numbered \union {NoneAwaited}
<1>1. /\ call.up \in Frames /\ call.up.cnt = fCntUp /\ fCntUp \in 0 .. MaxUp
      /\ NetTyped /\ SeenTyped
  BY TypeParts DEF CountInv, TypeOK, CallNumbered, Idle
<1>2. call.up.conf \in BOOLEAN /\ fCntUp \in UpNumbers
  BY <1>1 DEF Frames, UpNumbers
<1>3. CASE NetworkHears(call.up)
  <2>1. /\ lastUp' = fCntUp /\ ackDue' \in BOOLEAN /\ nextDown' = nextDown
        /\ heard' = heard \/ heard' = heard \union {fCntUp}
    BY <1>1, <1>2, <1>3 DEF NetworkHears
  <2>2. /\ awaiting' = awaiting \/ awaiting' = NoneAwaited
        /\ acked' = acked \/ acked' = awaiting
    BY <1>3 DEF NetworkHears
  <2>3. QED
    BY <1>1, <1>2, <2>1, <2>2 DEF OnTheAir, NetTyped, SeenTyped
<1>4. CASE UNCHANGED <<netVars, heard, acked>>
  BY <1>1, <1>2, <1>4 DEF OnTheAir, netVars, NetTyped, SeenTyped
<1>5. QED
  BY <1>3, <1>4 DEF OnTheAir

LEMMA TransmitCounts == ASSUME CountInv, transmitUplink PROVE CountInv'
<1>1. NodeTyped /\ NetTyped /\ SeenTyped /\ TakenTyped
  BY TypeParts DEF CountInv
<1>2. /\ onAir' = fCntUp /\ SeenTyped' /\ nextDown' = nextDown
      /\ lastUp' \in UpNumbers /\ ackDue' \in BOOLEAN
      /\ awaiting' \in Numbered \union {NoneAwaited}
  BY OnAirIs DEF transmitUplink
<1>3. /\ call.phase = "tx" /\ call' = [call EXCEPT !.phase = "rx"]
      /\ UNCHANGED <<config, fCntUp, fCntDown, confFCntUp, confFCntDown, isMACPayload, fOptsUp,
                     dutyCycleEnabled, prevDC, air, unseen, needless, taken, told, confirmed>>
  BY DEF transmitUplink
<1>4. owed' \in DownNumbers
  BY <1>1 DEF transmitUplink, TakenTyped, DownNumbers
<1>5. /\ call' \in [phase : {"idle", "tx", "rx"}, up : Frames, trans : 0 .. nbTrans - 1]
      /\ call'.phase = "rx" /\ call'.up = call.up
  BY <1>1, <1>3 DEF NodeTyped
<1>6. NodeTyped'
  BY <1>1, <1>3, <1>5 DEF NodeTyped, config
<1>7. NetTyped' /\ TakenTyped'
  BY <1>1, <1>2, <1>3, <1>4 DEF NetTyped, TakenTyped
<1>8. CallNumbered'
  BY <1>3, <1>5 DEF CountInv, CallNumbered, Idle, config
<1>9. SentBelow'
  BY <1>2, <1>3, <1>5 DEF SentBelow, Idle
<1>10. DutyCycleSaved' /\ TakenCounted' /\ AirNumbered'
  BY <1>3, <1>5 DEF CountInv, DutyCycleSaved, TakenCounted, AirNumbered, Kind, Idle, config
<1>11. QED
  BY <1>2, <1>6, <1>7, <1>8, <1>9, <1>10, TypeParts DEF CountInv
LEMMA TransmitFailsCounts == ASSUME CountInv, TransmitFails PROVE CountInv'
<1>1. NodeTyped /\ NetTyped /\ SeenTyped /\ TakenTyped
  BY TypeParts DEF CountInv
<1>2. /\ Returned /\ call.phase = "tx" /\ fCntUp' = fCntUp + 1 /\ confFCntDown' = confFCntDown
      /\ UNCHANGED <<config, fCntDown, confFCntUp, isMACPayload, fOptsUp, air, downHistory>>
  BY DEF TransmitFails, CounterAfterTxError, ConfirmAfterTxError
<1>3. /\ SeenTyped' /\ NetTyped'
      /\ onAir' = fCntUp \/ onAir' = onAir
  <2>1. CASE OnTheAir(call.up)
    BY <1>1, <1>2, <2>1, OnAirIs DEF NetTyped
  <2>2. CASE UNCHANGED <<netVars, upHistory>>
    BY <1>1, <1>2, <2>2 DEF netVars, upHistory, NetTyped, SeenTyped
  <2>3. QED
    BY <2>1, <2>2 DEF TransmitFails
<1>4. /\ call' \in [phase : {"idle", "tx", "rx"}, up : Frames, trans : 0 .. nbTrans' - 1]
      /\ Idle' /\ prevDC' \in Seq(BOOLEAN) /\ dutyCycleEnabled' \in BOOLEAN
      /\ DutyCycleSaved'
  BY <1>2, ReturnedIs
<1>5. fCntUp < maxUp /\ maxUp' = maxUp /\ maxUp \in 0 .. MaxUp
  BY <1>2, NodeIs DEF CountInv, CallNumbered, Idle, config
<1>6. fCntUp \in 0 .. MaxUp /\ fCntUp' \in 0 .. MaxUp /\ fCntUp' <= maxUp
  BY <1>1, <1>2, <1>5, CounterNumbers DEF NodeTyped
<1>7. NodeTyped'
  BY <1>1, <1>2, <1>4, <1>6 DEF NodeTyped, config
<1>8. TakenTyped'
  BY <1>1, <1>2 DEF TakenTyped, downHistory
<1>9. CallNumbered'
  BY <1>4, <1>5, <1>6 DEF CallNumbered
<1>10. SentBelow'
  <2>1. onAir' # FCNT_NONE => onAir' < fCntUp'
    <3>1. onAir \in UpNumbers /\ (onAir # FCNT_NONE => onAir < fCntUp \/ onAir = fCntUp)
      BY <1>1 DEF SeenTyped, CountInv, SentBelow
    <3>2. QED
      BY <1>2, <1>3, <1>6, <3>1, CounterNumbers DEF UpNumbers
  <2>2. QED
    BY <2>1 DEF SentBelow
<1>11. TakenCounted' /\ AirNumbered'
  BY <1>2 DEF CountInv, TakenCounted, AirNumbered, Kind, config, downHistory
<1>12. QED
  BY <1>3, <1>4, <1>7, <1>8, <1>9, <1>10, <1>11, TypeParts DEF CountInv

(* The end of a call after its windows. *)
LEMMA EndCounts ==
  ASSUME CountInv, call.phase = "rx", Returned, fCntUp' = fCntUp + 1,
         confFCntDown' \in DownNumbers, fOptsUp' \in SUBSET Queueable,
         UNCHANGED <<config, fCntDown, confFCntUp, isMACPayload, air, netVars,
                     downHistory, upHistory>>
  PROVE  CountInv'
<1>1. NodeTyped /\ NetTyped /\ SeenTyped /\ TakenTyped
  BY TypeParts DEF CountInv
<1>2. /\ call' \in [phase : {"idle", "tx", "rx"}, up : Frames, trans : 0 .. nbTrans' - 1]
      /\ Idle' /\ prevDC' \in Seq(BOOLEAN) /\ dutyCycleEnabled' \in BOOLEAN
      /\ DutyCycleSaved'
  BY ReturnedIs
<1>3. fCntUp < maxUp /\ maxUp' = maxUp /\ maxUp \in 0 .. MaxUp
  BY NodeIs DEF CountInv, CallNumbered, Idle, config
<1>4. fCntUp \in 0 .. MaxUp /\ fCntUp' \in 0 .. MaxUp /\ fCntUp' <= maxUp
  BY <1>1, <1>3, CounterNumbers DEF NodeTyped
<1>5. NodeTyped'
  BY <1>1, <1>2, <1>4 DEF NodeTyped, config
<1>6. NetTyped' /\ SeenTyped' /\ TakenTyped'
  BY <1>1 DEF NetTyped, SeenTyped, TakenTyped, netVars, downHistory, upHistory
<1>7. CallNumbered'
  BY <1>2, <1>3, <1>4 DEF CallNumbered
<1>8. SentBelow'
  <2>1. onAir \in UpNumbers /\ (onAir # FCNT_NONE => onAir < fCntUp \/ onAir = fCntUp)
    BY <1>1 DEF SeenTyped, CountInv, SentBelow
  <2>2. onAir' # FCNT_NONE => onAir' < fCntUp'
    BY <1>4, <2>1, CounterNumbers DEF UpNumbers, upHistory
  <2>3. QED
    BY <2>2 DEF SentBelow
<1>9. TakenCounted' /\ AirNumbered'
  BY DEF CountInv, TakenCounted, AirNumbered, Kind, config, downHistory
<1>10. QED
  BY <1>2, <1>5, <1>6, <1>7, <1>8, <1>9, TypeParts DEF CountInv

LEMMA NoDownlinkCounts == ASSUME CountInv, NoDownlink PROVE CountInv'
<1>1. NodeTyped /\ NetTyped /\ SeenTyped /\ TakenTyped
  BY TypeParts DEF CountInv
<1>2. /\ call.phase = "rx"
      /\ UNCHANGED <<config, fCntDown, confFCntUp, isMACPayload, air, netVars,
                     downHistory, upHistory>>
  BY DEF NoDownlink
<1>3. CASE call.trans + 1 < nbTrans
  <2>1. /\ call' = [call EXCEPT !.phase = "tx", !.trans = @ + 1]
        /\ UNCHANGED <<fCntUp, confFCntDown, fOptsUp, dutyCycleEnabled, prevDC>>
    BY <1>3 DEF NoDownlink
  <2>2. /\ call' \in [phase : {"idle", "tx", "rx"}, up : Frames, trans : 0 .. nbTrans - 1]
        /\ call'.phase = "tx" /\ call'.up = call.up /\ call'.trans > 0
    <3>1. nbTrans \in Nat /\ call.trans \in 0 .. nbTrans - 1
      BY <1>1, NodeIs DEF CountInv, NodeTyped
    <3>2. call.trans + 1 \in 0 .. nbTrans - 1 /\ call.trans + 1 > 0
      BY <1>3, <3>1
    <3>3. QED
      BY <1>1, <2>1, <3>2 DEF NodeTyped
  <2>3. NodeTyped'
    BY <1>1, <1>2, <2>1, <2>2 DEF NodeTyped, config
  <2>4. NetTyped' /\ SeenTyped' /\ TakenTyped'
    BY <1>1, <1>2 DEF NetTyped, SeenTyped, TakenTyped, netVars, downHistory, upHistory
  <2>5. CallNumbered' /\ SentBelow'
    BY <1>2, <2>1, <2>2 DEF CountInv, CallNumbered, SentBelow, Idle, config, upHistory
  <2>6. DutyCycleSaved' /\ TakenCounted' /\ AirNumbered'
    BY <1>2, <2>1, <2>2
    DEF CountInv, DutyCycleSaved, TakenCounted, AirNumbered, Kind, Idle, config, downHistory
  <2>7. QED
    BY <2>3, <2>4, <2>5, <2>6, TypeParts DEF CountInv
<1>4. CASE ~(call.trans + 1 < nbTrans)
  <2>1. /\ fCntUp' = fCntUp + 1 /\ confFCntDown' = FCNT_NONE
        /\ fOptsUp' = fOptsUp \intersect Persistent /\ Returned
    BY <1>4 DEF NoDownlink
  <2>2. confFCntDown' \in DownNumbers /\ fOptsUp' \in SUBSET Queueable
    BY <1>1, <2>1 DEF DownNumbers, NodeTyped
  <2>3. QED
    BY <1>2, <2>1, <2>2, EndCounts
<1>5. QED
  BY <1>3, <1>4

LEMMA GivenUpCounts ==
  ASSUME CountInv, call.phase = "rx", GivenUp, UNCHANGED <<config, air, netVars, upHistory>>
  PROVE  CountInv'
<1>1. /\ fCntUp' = fCntUp + 1 /\ confFCntDown' = FCNT_NONE /\ Returned
      /\ UNCHANGED <<fCntDown, confFCntUp, isMACPayload, fOptsUp, downHistory>>
  BY DEF GivenUp
<1>2. confFCntDown' \in DownNumbers /\ fOptsUp' \in SUBSET Queueable
  BY <1>1, TypeParts DEF DownNumbers, CountInv, NodeTyped
<1>3. QED
  BY <1>1, <1>2, EndCounts
(* parseDownlink of a frame that is accepted.                                 *)
LEMMA AcceptedIs ==
  ASSUME TypeOK, NEW f \in air, NEW w \in RxWindows, Accepts(f, w)
  PROVE  /\ f \in Downlinks /\ Kind(f) \in Kinds /\ DevFCnt(f) = f.cnt
         /\ f.cnt \in DownCounters /\ f.cnt \in Nat
<1>1. f \in Downlinks
  BY DEF TypeOK
<1>2. f.cnt \in DownCounters
  BY <1>1 DEF Downlinks
<1>3. QED
  BY <1>1, <1>2, KindIs, CounterNumbers DEF Accepts, MicOk

LEMMA TakeCounts ==
  ASSUME CountInv, NEW f \in air, NEW w \in RxWindows, Accepts(f, w),
         NEW cntUp \in 0 .. MaxUp, cntUp <= maxUp, NEW confDown \in DownNumbers,
         onAir # FCNT_NONE => onAir < cntUp,
         Take(f, w, cntUp, confDown), UNCHANGED <<config, air, netVars, upHistory>>
  PROVE  CountInv'
<1> DEFINE down == [fCntDown EXCEPT ![Kind(f)] = DevFCnt(f)]
           conf == IF f.conf THEN down["app"] ELSE confDown
           queue == IF ClassALike(w) THEN {} ELSE fOptsUp
           macOnly == f.mac # "none" /\ (isMACPayload \/ f.mac = "long")
<1>1. NodeTyped /\ NetTyped /\ SeenTyped /\ TakenTyped /\ TypeOK
  BY TypeParts DEF CountInv
<1>2. /\ Kind(f) \in Kinds /\ DevFCnt(f) = f.cnt /\ f.cnt \in DownCounters /\ f.cnt \in Nat
      /\ <<Kind(f), f.cnt>> \in Numbered
  <2>1. Kind(f) \in Kinds /\ DevFCnt(f) = f.cnt /\ f.cnt \in DownCounters /\ f.cnt \in Nat
    BY <1>1, AcceptedIs
  <2>2. QED
    BY <2>1 DEF Numbered
<1>3. down \in [Kinds -> DownCounters] /\ conf \in DownNumbers
  BY <1>1, <1>2 DEF NodeTyped, Kinds, DownNumbers
<1>4. queue \in SUBSET Queueable /\ Answers(f) \in SUBSET Queueable
  BY <1>1 DEF NodeTyped, Answers, Queueable
<1>5. /\ fCntUp' = cntUp /\ fCntDown' = down /\ confFCntDown' = conf
      /\ confFCntUp' = confFCntUp /\ taken' = [taken EXCEPT ![Kind(f)] = f.cnt]
  BY DEF Take
<1>6. maxUp' = maxUp /\ nbTrans' = nbTrans /\ rev' = rev /\ onAir' = onAir
  BY DEF config, upHistory
<1>7. /\ call' \in [phase : {"idle", "tx", "rx"}, up : Frames, trans : 0 .. nbTrans' - 1]
      /\ prevDC' \in Seq(BOOLEAN) /\ dutyCycleEnabled' \in BOOLEAN
      /\ fOptsUp' \in SUBSET Queueable /\ isMACPayload' \in BOOLEAN
      /\ DutyCycleSaved'
      /\ ~Idle' => cntUp < maxUp /\ call'.up.cnt = cntUp /\ call'.up.ack = conf
  <2>1. CASE macOnly
    <3> DEFINE c == Composed(cntUp, 0, Answers(f), FALSE, conf, queue, TRUE)
    <3>1. cntUp < maxUp /\ Started(c) /\ prevDC' = SavedDC /\ dutyCycleEnabled' = FALSE
      BY <2>1 DEF Take
    <3> HIDE DEF conf, queue, macOnly, down
    <3>2. c.up \in Frames /\ c.queue \subseteq Queueable
      BY <1>3, <1>4, AnswerIs
    <3>3. c.up.cnt = cntUp /\ c.up.ack = conf /\ c.flag \in BOOLEAN
      BY AnswerCarries
    <3>4. isMACPayload' \in BOOLEAN
      BY <3>1, <3>3 DEF Started
    <3> HIDE DEF c
    <3>5. /\ call' \in [phase : {"idle", "tx", "rx"}, up : Frames, trans : 0 .. nbTrans' - 1]
          /\ call'.up = c.up /\ ~Idle' /\ fOptsUp' \in SUBSET Queueable
      BY <3>1, <3>2, StartedIs
    <3>6. prevDC' \in Seq(BOOLEAN) /\ DutyCycleSaved'
      BY <3>1, <3>5, SavedIs
    <3>7. QED
      BY <3>1, <3>3, <3>4, <3>5, <3>6
  <2>2. CASE ~macOnly
    <3>1. /\ fOptsUp' = IF f.mac = "none" THEN queue ELSE Answers(f)
          /\ Returned /\ isMACPayload' = isMACPayload
      BY <2>2 DEF Take
    <3>2. /\ call' \in [phase : {"idle", "tx", "rx"}, up : Frames, trans : 0 .. nbTrans' - 1]
          /\ Idle' /\ prevDC' \in Seq(BOOLEAN) /\ dutyCycleEnabled' \in BOOLEAN
          /\ DutyCycleSaved'
      BY <3>1, ReturnedIs
    <3>3. isMACPayload' \in BOOLEAN
      BY <1>1, <3>1 DEF NodeTyped
    <3>4. QED
      BY <1>4, <3>1, <3>2, <3>3
  <2>3. QED
    BY <2>1, <2>2
<1> HIDE DEF conf, queue, macOnly
<1>8. NodeTyped'
  BY <1>1, <1>3, <1>5, <1>7 DEF NodeTyped, config, DownNumbers
<1>9. NetTyped' /\ SeenTyped'
  BY <1>1 DEF NetTyped, SeenTyped, netVars, upHistory
<1>10. TakenTyped'
  <2>1. taken' \in [Kinds -> DownCounters \union {-1}]
    BY <1>1, <1>2, <1>5 DEF TakenTyped
  <2>2. told' \in UpNumbers
    BY <1>1 DEF Take, TakenTyped, NodeTyped
  <2>3. owed' \in DownNumbers
    BY <1>1, <1>2 DEF Take, TakenTyped, DownNumbers
  <2>4. confirmed' \subseteq Numbered /\ unseen' \subseteq Numbered
    BY <1>1, <1>2 DEF Take, TakenTyped
  <2>5. needless' \in BOOLEAN
    BY DEF Take
  <2>6. QED
    BY <2>1, <2>2, <2>3, <2>4, <2>5 DEF TakenTyped
<1>11. CallNumbered'
  BY <1>5, <1>6, <1>7 DEF CallNumbered
<1>12. SentBelow'
  BY <1>5, <1>6 DEF SentBelow
<1>13. TakenCounted'
  BY <1>1, <1>2, <1>5 DEF CountInv, TakenCounted, NodeTyped, TakenTyped
<1>14. AirNumbered'
  BY <1>6 DEF CountInv, AirNumbered, Kind
<1>15. QED
  BY <1>7, <1>8, <1>9, <1>10, <1>11, <1>12, <1>13, <1>14, TypeParts DEF CountInv
LEMMA ReceiveCounts ==
  ASSUME CountInv, NEW f \in air, NEW w \in RxWindows, ReceiveDownlink(f, w)
  PROVE  CountInv'
<1>1. call.phase = "rx" /\ UNCHANGED <<config, air, netVars, upHistory>>
  BY DEF ReceiveDownlink
<1>2. CASE Accepts(f, w)
  <2>1. Take(f, w, fCntUp + 1, FCNT_NONE)
    BY <1>2 DEF ReceiveDownlink
  <2>2. /\ fCntUp \in 0 .. MaxUp /\ fCntUp < maxUp /\ maxUp \in 0 .. MaxUp
        /\ onAir \in UpNumbers /\ (onAir # FCNT_NONE => onAir < fCntUp \/ onAir = fCntUp)
    BY <1>1, NodeIs DEF CountInv, CallNumbered, Idle, SentBelow, TypeOK, UpNumbers
  <2>3. /\ fCntUp + 1 \in 0 .. MaxUp /\ fCntUp + 1 <= maxUp
        /\ onAir # FCNT_NONE => onAir < fCntUp + 1
    BY <2>2, CounterNumbers DEF UpNumbers
  <2>4. FCNT_NONE \in DownNumbers
    BY DEF DownNumbers
  <2>5. QED
    BY <1>1, <1>2, <2>1, <2>3, <2>4, TakeCounts
<1>3. CASE ~Accepts(f, w)
  BY <1>1, <1>3, GivenUpCounts DEF ReceiveDownlink
<1>4. QED
  BY <1>2, <1>3

LEMMA ClassCCounts ==
  ASSUME CountInv, NEW f \in air, getDownlinkClassC(f)
  PROVE  CountInv'
<1>1. /\ Idle /\ Accepts(f, "RxBC") /\ Take(f, "RxBC", fCntUp, confFCntDown)
      /\ UNCHANGED <<config, air, netVars, upHistory>>
  BY DEF getDownlinkClassC
<1>2. /\ fCntUp \in 0 .. MaxUp /\ fCntUp <= maxUp /\ confFCntDown \in DownNumbers
      /\ onAir # FCNT_NONE => onAir < fCntUp
  BY <1>1 DEF CountInv, CallNumbered, SentBelow, TypeOK, DownNumbers
<1>3. "RxBC" \in RxWindows
  BY DEF RxWindows
<1>4. QED
  BY <1>1, <1>2, <1>3, TakeCounts

LEMMA LostCounts == ASSUME CountInv, NEW f \in air, Lost(f) PROVE CountInv'
<1>1. /\ air' = air \ {f}
      /\ UNCHANGED <<config, nodeVars, netVars, downHistory, upHistory>>
  BY DEF Lost
<1>2. NodeTyped /\ NetTyped /\ SeenTyped /\ TakenTyped
  BY TypeParts DEF CountInv
<1>3. NodeTyped'
  BY <1>1, <1>2 DEF NodeTyped, config, nodeVars
<1>4. NetTyped' /\ SeenTyped' /\ TakenTyped'
  BY <1>1, <1>2 DEF NetTyped, SeenTyped, TakenTyped, netVars, downHistory, upHistory
<1>5. CallNumbered' /\ SentBelow' /\ DutyCycleSaved'
  BY <1>1 DEF CountInv, CallNumbered, SentBelow, DutyCycleSaved, Idle, config, nodeVars, upHistory
<1>6. TakenCounted' /\ AirNumbered'
  BY <1>1 DEF CountInv, TakenCounted, AirNumbered, Kind, config, nodeVars, downHistory
<1>7. QED
  BY <1>3, <1>4, <1>5, <1>6, TypeParts DEF CountInv

(* The frame that the network sends.                                          *)
Sent(c, cnt) ==
  [mc |-> c.mc, port |-> c.port, mac |-> c.mac, conf |-> c.conf, cnt |-> cnt,
   ack |-> IF ackDue /\ ~c.mc THEN lastUp ELSE FCNT_NONE]

LEMMA SentIs ==
  ASSUME CountInv, NEW c \in Contents, NEW cnt \in DownCounters, NetworkSends(c, cnt)
  PROVE  /\ Sent(c, cnt) \in Downlinks /\ Kind(Sent(c, cnt)) \in Kinds
         /\ cnt <= MaxDown[Kind(Sent(c, cnt))] /\ air' = air \union {Sent(c, cnt)}
         /\ nextDown' = [nextDown EXCEPT ![Kind(Sent(c, cnt))] = cnt + 1]
         /\ awaiting' = IF c.conf THEN <<Kind(Sent(c, cnt)), cnt>> ELSE awaiting
<1> DEFINE a == IF ackDue /\ ~c.mc THEN lastUp ELSE FCNT_NONE
<1>1. a \in 0 .. MaxUp \union {FCNT_NONE}
  BY DEF CountInv, TypeOK
<1>2. c \in [mc : BOOLEAN, port : {"none", "mac", "app"},
             mac : {"none", "mute", "short", "long"}, conf : BOOLEAN]
  BY DataLinkAssumption
<1>3. Sent(c, cnt) = [mc |-> c.mc, port |-> c.port, mac |-> c.mac, conf |-> c.conf,
                      cnt |-> cnt, ack |-> a]
  BY DEF Sent
<1>4. Sent(c, cnt) \in Downlinks
  <2> HIDE DEF a
  <2>1. QED
    BY <1>1, <1>2, <1>3 DEF Downlinks
<1>5. Kind(Sent(c, cnt)) \in Kinds
  BY <1>4, KindIs
<1>6. /\ cnt <= MaxDown[Kind(Sent(c, cnt))] /\ air' = air \union {Sent(c, cnt)}
      /\ nextDown' = [nextDown EXCEPT ![Kind(Sent(c, cnt))] = cnt + 1]
  BY DEF NetworkSends, Sent
<1>7. awaiting' = IF c.conf THEN <<Kind(Sent(c, cnt)), cnt>> ELSE awaiting
  BY DEF NetworkSends, Sent
<1>8. QED
  BY <1>4, <1>5, <1>6, <1>7

LEMMA NetworkCounts ==
  ASSUME CountInv, NEW c \in Contents, NEW cnt \in DownCounters, NetworkSends(c, cnt)
  PROVE  CountInv'
<1> DEFINE f == Sent(c, cnt)
<1>1. /\ f \in Downlinks /\ Kind(f) \in Kinds
      /\ cnt <= MaxDown[Kind(f)] /\ air' = air \union {f}
      /\ nextDown' = [nextDown EXCEPT ![Kind(f)] = cnt + 1]
      /\ awaiting' = IF c.conf THEN <<Kind(f), cnt>> ELSE awaiting
  BY SentIs
<1>2. UNCHANGED <<config, nodeVars, lastUp, downHistory, upHistory>>
  BY DEF NetworkSends
<1>3. NodeTyped /\ NetTyped /\ SeenTyped /\ TakenTyped
  BY TypeParts DEF CountInv
<1>4. f.cnt = cnt
  BY DEF Sent
<1> HIDE DEF f
<1>5. NodeTyped'
  BY <1>2, <1>3 DEF NodeTyped, config, nodeVars
<1>6. SeenTyped' /\ TakenTyped'
  BY <1>2, <1>3 DEF SeenTyped, TakenTyped, downHistory, upHistory
<1>7. NetTyped'
  <2>1. nextDown' \in [Kinds -> Nat]
    BY <1>1, <1>3, CounterNumbers DEF NetTyped
  <2>2. ackDue' \in BOOLEAN
    BY DEF NetworkSends
  <2>3. awaiting' \in Numbered \union {NoneAwaited}
    BY <1>1, <1>3 DEF NetTyped, Numbered
  <2>4. QED
    BY <1>1, <1>2, <1>3, <2>1, <2>2, <2>3 DEF NetTyped
<1>8. CallNumbered' /\ SentBelow' /\ DutyCycleSaved'
  BY <1>2 DEF CountInv, CallNumbered, SentBelow, DutyCycleSaved, Idle, config, nodeVars, upHistory
<1>9. TakenCounted'
  BY <1>2 DEF CountInv, TakenCounted, nodeVars, downHistory
<1>10. AirNumbered'
  <2>1. \A g \in air : g.cnt <= MaxDown[Kind(g)]
    BY DEF CountInv, AirNumbered
  <2>2. \A g \in air' : g.cnt <= MaxDown[Kind(g)]
    BY <1>1, <1>4, <2>1
  <2>3. rev' = rev
    BY <1>2 DEF config
  <2>4. QED
    BY <2>2, <2>3 DEF AirNumbered, Kind
<1>11. QED
  BY <1>5, <1>6, <1>7, <1>8, <1>9, <1>10, TypeParts DEF CountInv

LEMMA CountInit == Init => CountInv
<1> SUFFICES ASSUME Init PROVE CountInv
  OBVIOUS
<1>1. PICK n \in Nodes : rev = n[1] /\ lwClass = n[2] /\ mcActive = n[3] /\ nbTrans = n[4]
                         /\ maxUp = n[5]
  BY DEF Init
<1>2. n \in {0, 1} \X {"A", "C"} \X BOOLEAN \X (Nat \ {0}) \X (0 .. MaxUp)
  BY DataLinkAssumption
<1>3. config = n
  BY <1>1, <1>2 DEF config
<1>4. nbTrans \in Nat \ {0} /\ maxUp \in 0 .. MaxUp
  BY <1>1, <1>2
<1>5. NodeTyped
  <2>1. call \in [phase : {"idle", "tx", "rx"}, up : Frames, trans : 0 .. nbTrans - 1]
    BY <1>4, NoCallIs DEF Init
  <2>2. 0 \in 0 .. MaxUp /\ fCntDown \in [Kinds -> DownCounters]
    BY CounterNumbers DEF Init
  <2>3. fCntUp \in 0 .. MaxUp /\ confFCntUp \in UpNumbers /\ confFCntDown \in DownNumbers
    BY <2>2 DEF Init, UpNumbers, DownNumbers
  <2>4. isMACPayload \in BOOLEAN /\ dutyCycleEnabled \in BOOLEAN
    BY DEF Init
  <2>5. fOptsUp \in SUBSET Queueable /\ prevDC \in Seq(BOOLEAN) /\ config \in Nodes
    BY <1>3 DEF Init
  <2>6. QED
    BY <2>1, <2>2, <2>3, <2>4, <2>5 DEF NodeTyped
<1>6. NetTyped
  BY DEF Init, NetTyped, UpNumbers
<1>7. SeenTyped /\ TakenTyped
  BY DEF Init, SeenTyped, TakenTyped, UpNumbers, DownNumbers
<1>8. Idle
  BY NoCallIs DEF Init, Idle
<1>9. CallNumbered /\ SentBelow /\ DutyCycleSaved
  <2>1. CallNumbered
    BY <1>4, <1>8, CounterNumbers DEF Init, CallNumbered
  <2>2. SentBelow
    BY DEF Init, SentBelow
  <2>3. DutyCycleSaved
    BY DEF Init, DutyCycleSaved
  <2>4. QED
    BY <2>1, <2>2, <2>3
<1>10. TakenCounted /\ AirNumbered
  BY DEF Init, TakenCounted, AirNumbered
<1>11. QED
  BY <1>5, <1>6, <1>7, <1>9, <1>10, TypeParts DEF CountInv

LEMMA CountStep == ASSUME CountInv, [Next]_vars PROVE CountInv'
<1>1. CASE UNCHANGED vars
  <2>1. UNCHANGED <<config, nodeVars, air, netVars, downHistory, upHistory>>
    BY <1>1 DEF vars
  <2>2. NodeTyped /\ NetTyped /\ SeenTyped /\ TakenTyped
    BY TypeParts DEF CountInv
  <2>3. NodeTyped'
    BY <2>1, <2>2 DEF NodeTyped, config, nodeVars
  <2>4. NetTyped' /\ SeenTyped' /\ TakenTyped'
    BY <2>1, <2>2 DEF NetTyped, SeenTyped, TakenTyped, netVars, downHistory, upHistory
  <2>5. CallNumbered' /\ SentBelow' /\ DutyCycleSaved'
    BY <2>1 DEF CountInv, CallNumbered, SentBelow, DutyCycleSaved, Idle, config, nodeVars, upHistory
  <2>6. TakenCounted' /\ AirNumbered'
    BY <2>1 DEF CountInv, TakenCounted, AirNumbered, Kind, config, nodeVars, downHistory
  <2>7. QED
    BY <2>3, <2>4, <2>5, <2>6, TypeParts DEF CountInv
<1>2. CASE ReceiveFails
  BY <1>2, GivenUpCounts DEF ReceiveFails
<1>3. QED
  BY <1>1, <1>2, RequestCounts, SendCounts, TransmitCounts, TransmitFailsCounts, NoDownlinkCounts,
     ReceiveCounts, ClassCCounts, LostCounts, NetworkCounts DEF Next

LEMMA AlwaysCounted == Spec => []CountInv
  BY CountInit, CountStep, PTL DEF Spec

-----------------------------------------------------------------------------
(* Theorems on counters and the duty cycle *)

(* Counters stay within their 32 bits, frames have their form, whatever       *)
(* arrives (LoRaWAN.cpp: sendReceive, parseDownlink).                         *)
THEOREM LinkTypes == Spec => []TypeOK
<1>1. CountInv => TypeOK
  BY DEF CountInv
<1>2. QED
  BY <1>1, AlwaysCounted, PTL

(* No frame counter stands on two uplinks, over radio errors, repetitions and *)
(* the uplinks that parseDownlink sends.                                      *)
THEOREM CountersNameFrames == Spec => []CounterNamesOneFrame
<1>1. CountInv => CounterNamesOneFrame
  <2> SUFFICES ASSUME CountInv, call.phase = "tx", call.trans = 0, onAir # FCNT_NONE
               PROVE  call.up.cnt > onAir
    BY DEF CounterNamesOneFrame
  <2>1. call.up.cnt = fCntUp /\ fCntUp \in 0 .. MaxUp /\ onAir \in UpNumbers
    BY DEF CountInv, CallNumbered, Idle, TypeOK, UpNumbers
  <2>2. onAir < fCntUp
    BY DEF CountInv, SentBelow
  <2>3. QED
    BY <2>1, <2>2, CounterNumbers DEF UpNumbers
<1>2. QED
  BY <1>1, AlwaysCounted, PTL

(* The duty cycle that parseDownlink lifts for its own uplinks                *)
(* (LoRaWAN.cpp:2272) is back when the application is, however deep those     *)
(* uplinks were nested.                                                       *)
THEOREM DutyCycleComesBack == Spec => []DutyCycleRestored
<1>1. CountInv => DutyCycleRestored
  BY DEF CountInv, DutyCycleSaved, DutyCycleRestored
<1>2. QED
  BY <1>1, AlwaysCounted, PTL

(* A downlink by less than 2^16 above the last one taken is recognised, for   *)
(* every width of the counters (LoRaWAN.cpp:2014).                            *)
THEOREM FreshDownlinksRecognised == Spec => []FreshIsRecognised
<1>1. CountInv => FreshIsRecognised
  <2> SUFFICES ASSUME CountInv, NEW f \in air,
                      taken[Kind(f)] < f.cnt,
                      f.cnt - (IF taken[Kind(f)] < 0 THEN 0 ELSE taken[Kind(f)]) < FCntMod
               PROVE  DevFCnt(f) = f.cnt
    BY DEF FreshIsRecognised
  <2>1. f \in Downlinks /\ Kind(f) \in Kinds
    BY KindIs DEF CountInv, TypeOK
  <2>2. f.cnt \in Nat /\ f.cnt < FCNT_NONE
    BY <2>1, CounterNumbers DEF Downlinks
  <2>3. /\ fCntDown[Kind(f)] \in Nat /\ taken[Kind(f)] \in Nat \union {-1}
        /\ fCntDown[Kind(f)] = IF taken[Kind(f)] < 0 THEN 0 ELSE taken[Kind(f)]
    BY <2>1, CounterNumbers DEF CountInv, TypeOK, TakenCounted
  <2>4. /\ f.cnt - fCntDown[Kind(f)] < FCntMod
        /\ fCntDown[Kind(f)] < f.cnt \/ (fCntDown[Kind(f)] = 0 /\ f.cnt = 0)
    BY <2>2, <2>3
  <2>5. QED
    BY <2>2, <2>3, <2>4, RebuiltIsSent DEF DevFCnt
<1>2. QED
  BY <1>1, AlwaysCounted, PTL

-----------------------------------------------------------------------------
(* Steps of the acknowledgements *)

NetKnows == AirConfirms /\ AirAcks /\ AckDueHeard /\ AwaitingData
NodeOwes == AckOwed /\ AckKnown

LEMMA AckParts ==
  /\ AckInv <=> NetKnows /\ NodeOwes
  /\ AckInv' <=> NetKnows' /\ NodeOwes'
  BY DEF AckInv, NetKnows, NodeOwes

LEMMA NetStill ==
  ASSUME NetKnows, air' \subseteq air, UNCHANGED <<heard, lastUp, ackDue, awaiting>>
  PROVE  NetKnows'
  BY DEF NetKnows, AirConfirms, AirAcks, AckDueHeard, AwaitingData

LEMMA NodeStill ==
  ASSUME NodeOwes, UNCHANGED <<owed, confFCntDown, confirmed>>,
         call'.phase = "rx" => call.phase = "rx"
  PROVE  NodeOwes'
  BY DEF NodeOwes, AckOwed, OwedAckPending, AckKnown

(* Without an acknowledgement pending none is owed, and the other way round.  *)
LEMMA NodeFree ==
  ASSUME NodeOwes, call.phase = "rx" \/ confFCntDown = FCNT_NONE
  PROVE  owed = FCNT_NONE
  BY DEF NodeOwes, AckOwed, OwedAckPending

LEMMA NodeEnds ==
  ASSUME NodeOwes, call.phase = "rx", confFCntDown' = FCNT_NONE, owed' = owed
  PROVE  NodeOwes'
<1>1. owed' = FCNT_NONE
  BY NodeFree
<1>2. QED
  BY <1>1 DEF NodeOwes, AckOwed, OwedAckPending, AckKnown

(* What the network makes of an uplink.                                       *)
LEMMA NetHears ==
  ASSUME CountInv, NetKnows, call.phase = "tx", OnTheAir(call.up), air' = air
  PROVE  NetKnows'
<1>1. CASE NetworkHears(call.up)
  <2>1. /\ lastUp' = call.up.cnt /\ ackDue' = call.up.conf
        /\ heard' = IF call.up.conf THEN heard \union {call.up.cnt} ELSE heard
        /\ awaiting' = awaiting \/ awaiting' = NoneAwaited
    BY <1>1 DEF NetworkHears
  <2>2. heard \subseteq heard' /\ AckDueHeard'
    BY <2>1 DEF AckDueHeard
  <2>3. AwaitingData'
    BY <2>1 DEF NetKnows, AwaitingData
  <2>4. AirConfirms' /\ AirAcks'
    BY <2>2 DEF NetKnows, AirConfirms, AirAcks
  <2>5. QED
    BY <2>2, <2>3, <2>4 DEF NetKnows
<1>2. CASE UNCHANGED <<netVars, heard, acked>>
  BY <1>2, NetStill DEF netVars
<1>3. QED
  BY <1>1, <1>2 DEF OnTheAir

LEMMA TransmitAcks == ASSUME CountInv, AckInv, transmitUplink PROVE AckInv'
<1>1. /\ call.phase = "tx" /\ OnTheAir(call.up) /\ air' = air
      /\ confFCntDown' = confFCntDown /\ confirmed' = confirmed
      /\ owed' = IF call.up.ack = FCNT_NONE THEN owed ELSE FCNT_NONE
  BY DEF transmitUplink
<1>2. call.up.ack = confFCntDown
  BY <1>1 DEF CountInv, CallNumbered, Idle
<1>3. owed' = FCNT_NONE
  BY <1>1, <1>2, NodeFree, AckParts
<1>4. NodeOwes'
  BY <1>1, <1>3, AckParts DEF NodeOwes, AckOwed, OwedAckPending, AckKnown
<1>5. QED
  BY <1>1, <1>4, NetHears, AckParts

LEMMA TransmitFailsAcks == ASSUME CountInv, AckInv, TransmitFails PROVE AckInv'
<1>1. /\ call.phase = "tx" /\ Returned /\ confFCntDown' = confFCntDown
      /\ air' = air /\ owed' = owed /\ confirmed' = confirmed
  BY DEF TransmitFails, ConfirmAfterTxError, downHistory
<1>2. call'.phase # "rx"
  BY <1>1, NoCallIs DEF Returned
<1>3. NodeOwes'
  BY <1>1, <1>2, NodeStill, AckParts
<1>4. CASE OnTheAir(call.up)
  BY <1>1, <1>3, <1>4, NetHears, AckParts
<1>5. CASE UNCHANGED <<netVars, upHistory>>
  BY <1>1, <1>3, <1>5, NetStill, AckParts DEF netVars, upHistory
<1>6. QED
  BY <1>4, <1>5 DEF TransmitFails

LEMMA NoDownlinkAcks == ASSUME AckInv, NoDownlink PROVE AckInv'
<1>1. /\ call.phase = "rx" /\ UNCHANGED <<air, heard, lastUp, ackDue, awaiting, owed, confirmed>>
      /\ confFCntDown' = confFCntDown \/ confFCntDown' = FCNT_NONE
  BY DEF NoDownlink, netVars, downHistory, upHistory
<1>2. NetKnows'
  BY <1>1, NetStill, AckParts
<1>3. NodeOwes'
  BY <1>1, NodeStill, NodeEnds, AckParts
<1>4. QED
  BY <1>2, <1>3, AckParts

LEMMA GivenUpAcks ==
  ASSUME AckInv, call.phase = "rx", GivenUp, UNCHANGED <<config, air, netVars, upHistory>>
  PROVE  AckInv'
<1>1. confFCntDown' = FCNT_NONE /\ owed' = owed /\ NetKnows'
  BY NetStill, AckParts DEF GivenUp, downHistory, netVars, upHistory
<1>2. QED
  BY <1>1, NodeEnds, AckParts

(* A confirmed downlink is owed its acknowledgement, any other leaves things  *)
(* as they are: parseDownlink is called once nothing is owed (sendReceive) or *)
(* with what is (getDownlinkClassC).                                          *)
LEMMA TakeAcks ==
  ASSUME CountInv, AckInv, NEW f \in air, NEW w \in RxWindows, Accepts(f, w),
         NEW cntUp, NEW confDown, Take(f, w, cntUp, confDown),
         confDown = confFCntDown \/ (call.phase = "rx" /\ confDown = FCNT_NONE),
         UNCHANGED <<config, air, netVars, upHistory>>
  PROVE  AckInv'
<1>1. NetKnows /\ NodeOwes /\ NetKnows'
  BY NetStill, AckParts DEF netVars, upHistory
<1>2. call'.phase # "rx"
  <2>1. CASE f.mac # "none" /\ (isMACPayload \/ f.mac = "long")
    <3>1. \E c : Started(c)
      BY <2>1 DEF Take
    <3>2. QED
      BY <3>1 DEF Started
  <2>2. CASE ~(f.mac # "none" /\ (isMACPayload \/ f.mac = "long"))
    BY <2>2, NoCallIs DEF Take, Returned
  <2>3. QED
    BY <2>1, <2>2
<1>3. CASE f.conf
  <2>1. f \in Downlinks /\ Kind(f) = "app" /\ DevFCnt(f) = f.cnt
    <3>1. f \in Downlinks /\ DevFCnt(f) = f.cnt
      BY AcceptedIs DEF CountInv
    <3>2. f.port = "app" /\ ~f.mc
      BY <1>1, <1>3 DEF NetKnows, AirConfirms
    <3>3. QED
      BY <3>1, <3>2, KindIs
  <2>2. /\ confFCntDown' = [fCntDown EXCEPT ![Kind(f)] = DevFCnt(f)]["app"]
        /\ confirmed' = confirmed \union {<<Kind(f), f.cnt>>} /\ owed' = f.cnt
    BY <1>3 DEF Take
  <2>3. fCntDown \in [Kinds -> DownCounters] /\ "app" \in Kinds
    BY DEF CountInv, TypeOK, Kinds
  <2>4. confFCntDown' = f.cnt /\ <<"app", f.cnt>> \in confirmed'
    BY <2>1, <2>2, <2>3
  <2>5. NodeOwes'
    BY <1>2, <2>2, <2>4 DEF NodeOwes, AckOwed, OwedAckPending, AckKnown
  <2>6. QED
    BY <1>1, <2>5, AckParts
<1>4. CASE ~f.conf
  <2>1. confFCntDown' = confDown /\ confirmed' = confirmed /\ owed' = owed
    BY <1>4 DEF Take
  <2>2. NodeOwes'
    BY <1>1, <1>2, <2>1, NodeStill, NodeEnds
  <2>3. QED
    BY <1>1, <2>2, AckParts
<1>5. QED
  BY <1>3, <1>4

LEMMA ReceiveAcks ==
  ASSUME CountInv, AckInv, NEW f \in air, NEW w \in RxWindows, ReceiveDownlink(f, w)
  PROVE  AckInv'
<1>1. call.phase = "rx" /\ UNCHANGED <<config, air, netVars, upHistory>>
  BY DEF ReceiveDownlink
<1>2. CASE Accepts(f, w)
  <2>1. Take(f, w, fCntUp + 1, FCNT_NONE)
    BY <1>2 DEF ReceiveDownlink
  <2>2. QED
    BY <1>1, <1>2, <2>1, TakeAcks
<1>3. CASE ~Accepts(f, w)
  BY <1>1, <1>3, GivenUpAcks DEF ReceiveDownlink
<1>4. QED
  BY <1>2, <1>3

LEMMA ClassCAcks ==
  ASSUME CountInv, AckInv, NEW f \in air, getDownlinkClassC(f)
  PROVE  AckInv'
<1>1. /\ Accepts(f, "RxBC") /\ Take(f, "RxBC", fCntUp, confFCntDown)
      /\ UNCHANGED <<config, air, netVars, upHistory>>
  BY DEF getDownlinkClassC
<1>2. "RxBC" \in RxWindows
  BY DEF RxWindows
<1>3. QED
  BY <1>1, <1>2, TakeAcks

LEMMA NetworkAcks ==
  ASSUME ConfirmedData, CountInv, AckInv, NEW c \in Contents, NEW cnt \in DownCounters,
         NetworkSends(c, cnt)
  PROVE  AckInv'
<1> DEFINE f == Sent(c, cnt)
<1>1. /\ f \in Downlinks /\ air' = air \union {f}
      /\ awaiting' = IF c.conf THEN <<Kind(f), cnt>> ELSE awaiting
  BY SentIs
<1>2. /\ UNCHANGED <<heard, lastUp, owed, confFCntDown, confirmed, call>>
      /\ ackDue' = (ackDue /\ c.mc)
  BY DEF NetworkSends, nodeVars, downHistory, upHistory
<1>3. c.conf => f.port = "app" /\ ~f.mc
  BY DEF ConfirmedData, Sent
<1>4. f.conf = c.conf /\ f.ack = IF ackDue /\ ~c.mc THEN lastUp ELSE FCNT_NONE
  BY DEF Sent
<1>5. NetKnows /\ NodeOwes
  BY AckParts
<1> HIDE DEF f
<1>6. AirConfirms'
  BY <1>1, <1>3, <1>4, <1>5 DEF NetKnows, AirConfirms
<1>7. AirAcks'
  BY <1>1, <1>2, <1>4, <1>5 DEF NetKnows, AirAcks, AckDueHeard
<1>8. AckDueHeard'
  BY <1>2, <1>5 DEF NetKnows, AckDueHeard
<1>9. AwaitingData'
  <2>1. CASE c.conf
    BY <1>1, <1>3, <2>1, KindIs DEF AwaitingData
  <2>2. CASE ~c.conf
    BY <1>1, <1>5, <2>2 DEF NetKnows, AwaitingData
  <2>3. QED
    BY <2>1, <2>2
<1>10. NodeOwes'
  BY <1>2, <1>5, NodeStill
<1>11. QED
  BY <1>6, <1>7, <1>8, <1>9, <1>10, AckParts DEF NetKnows

LEMMA AckInit == Init => AckInv
<1> SUFFICES ASSUME Init PROVE AckInv
  OBVIOUS
<1>1. AckOwed /\ AckKnown
  BY NoCallIs DEF Init, AckOwed, OwedAckPending, AckKnown
<1>2. AirConfirms /\ AirAcks /\ AckDueHeard /\ AwaitingData
  BY DEF Init, AirConfirms, AirAcks, AckDueHeard, AwaitingData
<1>3. QED
  BY <1>1, <1>2 DEF AckInv

LEMMA AckStep ==
  ASSUME ConfirmedData, CountInv, AckInv, [Next]_vars
  PROVE  AckInv'
<1>1. NetKnows /\ NodeOwes
  BY AckParts
<1>2. CASE UNCHANGED vars
  BY <1>1, <1>2, NetStill, NodeStill, AckParts
  DEF vars, nodeVars, netVars, downHistory, upHistory
<1>3. CASE sendMacCommandReq
  BY <1>1, <1>3, NetStill, NodeStill, AckParts
  DEF sendMacCommandReq, netVars, downHistory, upHistory
<1>4. ASSUME NEW u \in Uplinks, SendReceive(u[1], u[2], u[3])
      PROVE  AckInv'
  <2>1. /\ UNCHANGED <<confFCntDown, air, netVars, downHistory, upHistory>>
        /\ call'.phase = "tx"
    BY <1>4 DEF SendReceive, Started
  <2>2. QED
    BY <1>1, <2>1, NetStill, NodeStill, AckParts DEF netVars, downHistory, upHistory
<1>5. ASSUME NEW f \in air, Lost(f)
      PROVE  AckInv'
  BY <1>1, <1>5, NetStill, NodeStill, AckParts
  DEF Lost, nodeVars, netVars, downHistory, upHistory
<1>6. CASE ReceiveFails
  BY <1>6, GivenUpAcks DEF ReceiveFails
<1>7. QED
  BY <1>2, <1>3, <1>4, <1>5, <1>6, TransmitAcks, TransmitFailsAcks, NoDownlinkAcks,
     ReceiveAcks, ClassCAcks, NetworkAcks DEF Next

(* A confirmed downlink that was accepted is not forgotten until its          *)
(* acknowledgement went out (LoRaWAN.cpp: confFCntDown over errors, repeated  *)
(* uplinks and the uplinks that parseDownlink sends).                         *)
THEOREM OwedAcksStay == ASSUME ConfirmedData PROVE Spec => []OwedAckPending
<1>1. Spec => [](CountInv /\ AckInv)
  BY CountInit, CountStep, AckInit, AckStep, PTL DEF Spec
<1>2. AckInv => OwedAckPending
  BY DEF AckInv, AckOwed
<1>3. QED
  BY <1>1, <1>2, PTL

-----------------------------------------------------------------------------
(* The refinement of LoRaWANLinkPromise *)

PromiseStep == [Promise!Next]_(Promise!promiseVars)

LEMMA PromiseStill ==
  ASSUME UNCHANGED <<rev, taken, heard, told, confirmed, acked>>
  PROVE  PromiseStep
  BY DEF PromiseStep, Promise!promiseVars

LEMMA PromiseInit == Init => Promise!Init
<1> SUFFICES ASSUME Init PROVE Promise!Init
  OBVIOUS
<1>1. (rev = 1) \in BOOLEAN
  OBVIOUS
<1>2. QED
  BY <1>1 DEF Init, Promise!Init

(* An acknowledgement that the network believes is of a downlink taken.       *)
LEMMA PromiseHears ==
  ASSUME CountInv, AckInv, call.phase = "tx", OnTheAir(call.up),
         UNCHANGED <<rev, taken, told, confirmed>>
  PROVE  PromiseStep
<1>1. CASE NetworkHears(call.up) /\ Verifies(call.up)
  <2>1. heard \subseteq heard'
    BY <1>1 DEF NetworkHears
  <2>2. ASSUME rev = 1, acked' # acked
        PROVE  Promise!Names(acked'[2], Promise!Of(acked'[1]))
    <3>1. call.up.ack # FCNT_NONE /\ awaiting # NoneAwaited /\ acked' = awaiting
      BY <1>1, <2>2 DEF NetworkHears
    <3>2. awaiting[2] % FCntMod = call.up.ack % FCntMod
      BY <1>1, <2>2, <3>1 DEF Verifies
    <3>3. call.up.ack = confFCntDown
      BY DEF CountInv, CallNumbered, Idle
    <3>4. <<"app", confFCntDown>> \in confirmed /\ awaiting[1] = "app"
      BY <3>1, <3>3 DEF AckInv, AckKnown, AwaitingData
    <3>5. confFCntDown \in Promise!Of("app")
      BY <3>4 DEF Promise!Of
    <3>6. QED
      BY <3>1, <3>2, <3>3, <3>4, <3>5 DEF Promise!Names
  <2>3. Promise!UplinkHeard
    BY <2>1, <2>2 DEF Promise!UplinkHeard
  <2>4. QED
    BY <2>3 DEF PromiseStep, Promise!Next
<1>2. CASE UNCHANGED <<netVars, heard, acked>>
  BY <1>2, PromiseStill
<1>3. QED
  BY <1>1, <1>2 DEF OnTheAir

(* A downlink that the device takes has a number above all taken before, and  *)
(* an acknowledgement that it takes is of an uplink the network has.          *)
LEMMA PromiseTakes ==
  ASSUME CountersEnd, CountInv, AckInv, NEW f \in air, NEW w \in RxWindows, Accepts(f, w),
         NEW cntUp, NEW confDown, Take(f, w, cntUp, confDown),
         UNCHANGED <<config, netVars, upHistory>>
  PROVE  PromiseStep
<1> DEFINE k == Kind(f)
           dev == fCntDown[k]
<1>1. k \in Kinds /\ DevFCnt(f) = f.cnt /\ f.cnt \in Nat /\ taken \in [Kinds -> DownCounters \union {-1}]
  BY AcceptedIs DEF CountInv, TypeOK
<1>2. taken' = [taken EXCEPT ![k] = f.cnt] /\ taken'[k] = f.cnt
  BY <1>1 DEF Take
<1>3. f.cnt > taken[k] \/ (f.cnt = 0 /\ taken[k] = 0)
  <2>1. /\ dev \in DownCounters /\ taken[k] \in DownCounters \union {-1}
        /\ dev = IF taken[k] < 0 THEN 0 ELSE taken[k]
    BY <1>1 DEF CountInv, TypeOK, TakenCounted
  <2>2. dev \in Nat /\ taken[k] \in Nat \union {-1}
    BY <2>1, CounterNumbers
  <2>3. dev < FCntMod * (FCntHigh - 1)
    <3>1. PICK j \in Kinds : dev \in 0 .. MaxDown[j]
      BY <2>1 DEF DownCounters
    <3>2. dev <= MaxDown[j] /\ MaxDown[j] \in Nat /\ MaxDown[j] < FCntMod * (FCntHigh - 1)
      BY <3>1, <2>2, CounterNumbers DEF CountersEnd
    <3>3. FCntMod * (FCntHigh - 1) \in Int
      BY CounterNumbers
    <3>4. QED
      BY <2>2, <3>2, <3>3
  <2>4. f.cnt = Rebuilt(dev, f.cnt % FCntMod) /\ f.cnt % FCntMod \in 0 .. FCntMod - 1
    BY <1>1, Divided DEF DevFCnt
  <2>5. f.cnt > dev \/ (dev = 0 /\ f.cnt >= 0)
    <3> HIDE DEF dev
    <3>1. QED
      BY <2>2, <2>3, <2>4, RebuiltIsNew
  <2> HIDE DEF dev, k
  <2>6. QED
    BY <1>1, <2>1, <2>2, <2>5
<1>4. confirmed' \in {confirmed, confirmed \union {<<k, f.cnt>>}}
  BY DEF Take
<1>5. rev = 1 /\ told' # told => Promise!Names(told', heard)
  <2> SUFFICES ASSUME rev = 1, told' # told PROVE Promise!Names(told', heard)
    OBVIOUS
  <2>1. told' = confFCntUp /\ f.ack # FCNT_NONE
    BY DEF Take
  <2>2. f.ack % FCntMod = confFCntUp % FCntMod
    BY <2>1 DEF Accepts, MicOk
  <2>3. f.ack \in heard
    BY <2>1 DEF AckInv, AirAcks
  <2>4. QED
    BY <2>1, <2>2, <2>3 DEF Promise!Names
<1>6. UNCHANGED <<rev, heard, acked>>
  BY DEF config, upHistory
<1> HIDE DEF k, dev
<1>7. Promise!Took(k, f.cnt)
  BY <1>2, <1>4, <1>5, <1>6 DEF Promise!Took
<1>8. CASE f.cnt > taken[k]
  BY <1>1, <1>2, <1>7, <1>8 DEF PromiseStep, Promise!Next, Promise!DownlinkTaken
<1>9. CASE ~(f.cnt > taken[k])
  <2>1. taken[k] = 0 /\ f.cnt = 0
    BY <1>3, <1>9
  <2>2. Promise!FirstTakenAgain(k)
    BY <1>7, <2>1 DEF Promise!FirstTakenAgain
  <2>3. QED
    BY <1>1, <2>2 DEF PromiseStep, Promise!Next
<1>10. QED
  BY <1>8, <1>9

LEMMA PromiseKept ==
  ASSUME CountersEnd, CountInv, AckInv, [Next]_vars
  PROVE  PromiseStep
<1>1. CASE UNCHANGED vars
  BY <1>1, PromiseStill DEF vars, config, downHistory, upHistory
<1>2. CASE sendMacCommandReq
  BY <1>2, PromiseStill DEF sendMacCommandReq, config, downHistory, upHistory
<1>3. ASSUME NEW u \in Uplinks, SendReceive(u[1], u[2], u[3])
      PROVE  PromiseStep
  <2>1. UNCHANGED <<config, downHistory, upHistory>>
    BY <1>3 DEF SendReceive
  <2>2. QED
    BY <2>1, PromiseStill DEF config, downHistory, upHistory
<1>4. CASE transmitUplink
  BY <1>4, PromiseHears DEF transmitUplink, config
<1>5. CASE TransmitFails
  <2>1. call.phase = "tx" /\ UNCHANGED <<rev, taken, told, confirmed>>
    BY <1>5 DEF TransmitFails, config, downHistory
  <2>2. OnTheAir(call.up) \/ UNCHANGED upHistory
    BY <1>5 DEF TransmitFails
  <2>3. QED
    BY <2>1, <2>2, PromiseHears, PromiseStill DEF upHistory
<1>6. CASE NoDownlink
  BY <1>6, PromiseStill DEF NoDownlink, config, downHistory, upHistory
<1>7. CASE ReceiveFails
  BY <1>7, PromiseStill DEF ReceiveFails, GivenUp, config, downHistory, upHistory
<1>8. ASSUME NEW f \in air, NEW w \in RxWindows, ReceiveDownlink(f, w)
      PROVE  PromiseStep
  <2>1. UNCHANGED <<config, netVars, upHistory>>
    BY <1>8 DEF ReceiveDownlink
  <2>2. CASE Accepts(f, w)
    <3>1. Take(f, w, fCntUp + 1, FCNT_NONE)
      BY <1>8, <2>2 DEF ReceiveDownlink
    <3>2. QED
      BY <2>1, <2>2, <3>1, PromiseTakes
  <2>3. CASE ~Accepts(f, w)
    BY <1>8, <2>1, <2>3, PromiseStill DEF ReceiveDownlink, GivenUp, config, downHistory, upHistory
  <2>4. QED
    BY <2>2, <2>3
<1>9. ASSUME NEW f \in air, getDownlinkClassC(f)
      PROVE  PromiseStep
  <2>1. /\ Accepts(f, "RxBC") /\ Take(f, "RxBC", fCntUp, confFCntDown)
        /\ UNCHANGED <<config, netVars, upHistory>>
    BY <1>9 DEF getDownlinkClassC
  <2>2. "RxBC" \in RxWindows
    BY DEF RxWindows
  <2>3. QED
    BY <2>1, <2>2, PromiseTakes
<1>10. ASSUME NEW f \in air, Lost(f)
       PROVE  PromiseStep
  BY <1>10, PromiseStill DEF Lost, config, downHistory, upHistory
<1>11. ASSUME NEW c \in Contents, NEW cnt \in DownCounters, NetworkSends(c, cnt)
       PROVE  PromiseStep
  BY <1>11, PromiseStill DEF NetworkSends, config, downHistory, upHistory
<1>12. QED
  BY <1>1, <1>2, <1>3, <1>4, <1>5, <1>6, <1>7, <1>8, <1>9, <1>10, <1>11 DEF Next

(* Whatever the air loses, delays, repeats and reorders: downlinks are taken  *)
(* in order and once, but for the one numbered 0, which may be taken again    *)
(* and again as long as it is the last one taken, and an acknowledgement means that the frame arrived, in *)
(* both directions (parseDownlink, sendReceive and micUplink of LoRaWAN.cpp). *)
THEOREM LinkPromiseIsKept ==
  ASSUME ConfirmedData, CountersEnd
  PROVE  Spec => KeepsPromise
<1>1. Spec => [](CountInv /\ AckInv)
  BY CountInit, CountStep, AckInit, AckStep, PTL DEF Spec
<1>2. Init => Promise!Init
  BY PromiseInit
<1>3. CountInv /\ AckInv /\ [Next]_vars => [Promise!Next]_(Promise!promiseVars)
  BY PromiseKept DEF PromiseStep
<1>4. QED
  BY <1>1, <1>2, <1>3, PTL DEF Spec, KeepsPromise, Promise!Spec

(* So neither end believes in the arrival of a frame that never arrived.      *)
THEOREM AcksMeanReceipt ==
  ASSUME ConfirmedData, CountersEnd
  PROVE  Spec => []Promise!AcksMeanReceived
<1>1. Init => Promise!AcksMeanReceived
  BY DEF Init, Promise!AcksMeanReceived
<1>2. Promise!AcksMeanReceived /\ PromiseStep => Promise!AcksMeanReceived'
  <2> SUFFICES ASSUME Promise!AcksMeanReceived, PromiseStep PROVE Promise!AcksMeanReceived'
    OBVIOUS
  <2>1. (rev = 1)' <=> (rev = 1)
    BY DEF PromiseStep, Promise!Next, Promise!UplinkHeard, Promise!DownlinkTaken,
           Promise!FirstTakenAgain, Promise!Took, Promise!promiseVars
  <2>2. heard \subseteq heard' /\ confirmed \subseteq confirmed'
    BY DEF PromiseStep, Promise!Next, Promise!UplinkHeard, Promise!DownlinkTaken,
           Promise!FirstTakenAgain, Promise!Took, Promise!promiseVars
  <2>3. rev = 1 => told' = told \/ Promise!Names(told', heard)
    BY DEF PromiseStep, Promise!Next, Promise!UplinkHeard, Promise!DownlinkTaken,
           Promise!FirstTakenAgain, Promise!Took, Promise!promiseVars
  <2>4. rev = 1 => acked' = acked \/ Promise!Names(acked'[2], Promise!Of(acked'[1]))
    BY DEF PromiseStep, Promise!Next, Promise!UplinkHeard, Promise!DownlinkTaken,
           Promise!FirstTakenAgain, Promise!Took, Promise!promiseVars
  <2>5. ASSUME rev = 1, told' # FCNT_NONE
        PROVE  \E m \in heard' : m % FCntMod = told' % FCntMod
    BY <2>2, <2>3, <2>5 DEF Promise!AcksMeanReceived, Promise!Names
  <2>6. ASSUME rev = 1, acked' # NoneAwaited
        PROVE  \E d \in confirmed' : d[1] = acked'[1] /\ d[2] % FCntMod = acked'[2] % FCntMod
    <3>1. Promise!Names(acked'[2], Promise!Of(acked'[1]))
      BY <2>4, <2>6 DEF Promise!AcksMeanReceived
    <3>2. \E d \in confirmed : d[1] = acked'[1] /\ d[2] % FCntMod = acked'[2] % FCntMod
      BY <3>1 DEF Promise!Names, Promise!Of
    <3>3. QED
      BY <2>2, <3>2
  <2>7. (rev = 1)' /\ told' # FCNT_NONE => Promise!Names(told, heard)'
    BY <2>1, <2>5 DEF Promise!Names
  <2>8. (rev = 1)' /\ acked' # NoneAwaited => Promise!Names(acked[2], Promise!Of(acked[1]))'
    BY <2>1, <2>6 DEF Promise!Names, Promise!Of
  <2>9. QED
    BY <2>7, <2>8 DEF Promise!AcksMeanReceived
<1>3. Spec => [](CountInv /\ AckInv)
  BY CountInit, CountStep, AckInit, AckStep, PTL DEF Spec
<1>4. CountInv /\ AckInv /\ [Next]_vars => PromiseStep
  BY PromiseKept
<1>5. QED
  BY <1>1, <1>2, <1>3, <1>4, PTL DEF Spec
=============================================================================
