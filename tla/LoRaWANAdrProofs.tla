-------------------------- MODULE LoRaWANAdrProofs --------------------------
(* Theorems about LoRaWANAdr, for every band, radio and network.              *)
EXTENDS LoRaWANAdr, TLAPS

-----------------------------------------------------------------------------
(* The inductive invariant *)

(* A default channel is never redefined. *)
DefaultsKept == \A c \in Default : range[c] = DefaultRange

(* The channels left for hopping are on. *)
FlagsOnMask == overridden \/ conf.flags \subseteq conf.mask

ChannelOK == channel \in Channels \cup {NoChannel} /\ HopsOnMask

(* What LinkADRReq saves in the Session buffer is what the device uses, from  *)
(* the first command it accepts on.                                           *)
SavedIsUsed == conf.dr # Keep => saved.dr = conf.dr /\ saved.steps = conf.steps

(* Each uplink past ADR_ACK_LIMIT has asked the network for an answer. *)
Silence == IF trans = 0 THEN silent ELSE silent + 1
AskedEach ==
  ~overridden /\ silent # Done => asked = Delay \/ Silence <= Limit + asked

AdrInv ==
  /\ TypeOK /\ DefaultsKept
  /\ adr \/ overridden
  /\ FlagsOnMask /\ ChannelOK /\ SavedIsUsed /\ AskedEach

-----------------------------------------------------------------------------
(* Constants *)

LEMMA Numbers ==
  /\ RadioDRs \subseteq 0..14 /\ RadioDRs \subseteq Int /\ Keep \notin RadioDRs
  /\ PowerSteps \subseteq 0..13 /\ PowerSteps \subseteq Int
  /\ Keep \notin PowerSteps /\ 0 \in PowerSteps
  /\ Limit \in Nat /\ Delay \in Nat /\ Delay > 0
  /\ MaxTrans \in Nat /\ MaxTrans > 0 /\ MaxEvents \in Nat
  /\ MaxDR \in 0..14 /\ MaxStep \in 0..13
  BY AdrAssumption DEF Keep

(* "Dr/Tx field only" is not a mask of channels.                              *)
LEMMA NoMaskIsNone == NoMask \notin SUBSET Channels
<1>1. -1 \notin 0..2 /\ -1 \notin 0..15
  OBVIOUS
<1>2. -1 \notin Channels
  BY <1>1, AdrAssumption DEF Channels
<1>3. QED
  BY <1>2 DEF NoMask

(* A session begins at a datarate that its channels allow.                    *)
LEMMA FirstDRFits == FirstDR \in DefaultRange
<1>1. PICK drMin \in 0..MaxDR, drMax \in 0..MaxDR :
        drMin <= drMax /\ DefaultRange = drMin..drMax
  BY AdrAssumption
<1>2. drMin \in Nat /\ drMax \in Nat
  BY <1>1, AdrAssumption
<1>3. Min(DefaultRange) = drMin
  BY <1>1, <1>2 DEF Min
<1>4. Max(DefaultRange) = drMax
  BY <1>1, <1>2 DEF Max
<1>5. (drMin + drMax + 1) \div 2 \in drMin..drMax
  BY <1>1, <1>2
<1>6. QED
  BY <1>1, <1>3, <1>4, <1>5 DEF FirstDR

LEMMA DefaultsDefined ==
  ASSUME DefaultsKept
  PROVE  Default \subseteq Defined
<1>1. DefaultRange # {}
  BY FirstDRFits
<1>2. QED
  BY <1>1 DEF DefaultsKept, Defined, Channels

-----------------------------------------------------------------------------
(* LinkADRReq *)

Confs == [mask : SUBSET Defined, flags : SUBSET Defined, dr : RadioDRs \cup {Keep},
          steps : PowerSteps, nb : 1..MaxTrans]
Saves == [dr : RadioDRs, steps : PowerSteps, nb : 0..MaxTrans]

(* The commands of the network, of the backoff and of the application.        *)
AnyRequest == [dr : Int, steps : Int, mask : {NoMask} \cup SUBSET Channels, nb : 0..MaxTrans]

LEMMA DrTxIsRequest ==
  ASSUME NEW d \in Int, NEW n \in Int
  PROVE  DrTx(d, n) \in AnyRequest
  BY Numbers DEF DrTx, AnyRequest

LEMMA EnabledIs ==
  ASSUME DefaultsKept, NEW c \in Confs, NEW on \in BOOLEAN
  PROVE  LET e == enableDefaultChannels(c, on) IN
         /\ e \in Confs
         /\ e.dr = c.dr /\ e.steps = c.steps /\ e.nb = c.nb
         /\ c.flags \subseteq c.mask => e.flags \subseteq e.mask
<1> DEFINE add == Default \cup (IF on THEN {i \in Defined : i > 2} ELSE {})
           e == [c EXCEPT !.mask = @ \cup add, !.flags = @ \cup add]
<1>1. add \subseteq Defined
  BY DefaultsDefined
<1>2. e = enableDefaultChannels(c, on)
  BY DEF enableDefaultChannels
<1>3. /\ e.mask = c.mask \cup add /\ e.flags = c.flags \cup add
      /\ e.dr = c.dr /\ e.steps = c.steps /\ e.nb = c.nb
  BY DEF Confs
<1>4. e \in Confs
  BY <1>1 DEF Confs
<1>5. QED
  BY <1>2, <1>3, <1>4

LEMMA WideIs ==
  ASSUME DefaultsKept, NEW c \in Confs, NEW req \in AnyRequest
  PROVE  /\ Wide(c, req) \in Confs
         /\ Wide(c, req).dr = c.dr
         /\ Wide(c, req).steps = c.steps
         /\ Wide(c, req).nb = c.nb
  BY EnabledIs DEF Wide

(* What a command leaves in place before its acknowledgements are looked at   *)
(* is a configuration; with a datarate of the radio its flags are on its mask. *)
LEMMA TriedIs ==
  ASSUME DefaultsKept, NEW c \in Confs, NEW req \in AnyRequest
  PROVE  LET t == Tried(c, req)
             d == Asked(req.dr, c.dr) IN
         /\ t \in Confs /\ t.steps = c.steps /\ t.nb = c.nb
         /\ d \in RadioDRs => t.dr = d /\ t.flags = Fitting(d, t.mask)
         /\ req.mask # NoMask /\ MaskAck(c, req) => t.mask = req.mask
<1> DEFINE w == Wide(c, req)
           masked == IF req.mask # NoMask /\ MaskAck(c, req)
                     THEN [w EXCEPT !.mask = req.mask] ELSE w
           d == Asked(req.dr, c.dr)
<1>1. w \in Confs /\ w.dr = c.dr /\ w.steps = c.steps /\ w.nb = c.nb
  BY WideIs
<1>2. /\ masked \in Confs /\ masked.steps = c.steps /\ masked.nb = c.nb
      /\ req.mask # NoMask /\ MaskAck(c, req) => masked.mask = req.mask
  <2>1. CASE req.mask # NoMask /\ MaskAck(c, req)
    <3>1. req.mask \subseteq w.mask
      BY <2>1 DEF MaskAck
    <3> HIDE DEF w
    <3>2. QED
      BY <1>1, <2>1, <3>1 DEF Confs
  <2>2. CASE ~(req.mask # NoMask /\ MaskAck(c, req))
    BY <1>1, <2>2
  <2>3. QED
    BY <2>1, <2>2
<1>3. Tried(c, req) = IF d \in RadioDRs
                      THEN [masked EXCEPT !.dr = d, !.flags = Fitting(d, masked.mask)]
                      ELSE masked
  BY DEF Tried
<1>4. Fitting(d, masked.mask) \subseteq masked.mask
  BY DEF Fitting
<1>5. QED
  <2> HIDE DEF masked, d
  <2>1. CASE d \in RadioDRs
    <3>1. Tried(c, req) = [masked EXCEPT !.dr = d, !.flags = Fitting(d, masked.mask)]
      BY <1>3, <2>1
    <3>2. /\ Tried(c, req) \in Confs /\ Tried(c, req).steps = c.steps
          /\ Tried(c, req).nb = c.nb /\ Tried(c, req).dr = d
          /\ Tried(c, req).mask = masked.mask
          /\ Tried(c, req).flags = Fitting(d, masked.mask)
      BY <1>2, <1>4, <2>1, <3>1 DEF Confs
    <3>3. QED
      BY <1>2, <2>1, <3>2 DEF d
  <2>2. CASE d \notin RadioDRs
    BY <1>2, <1>3, <2>2 DEF d
  <2>3. QED
    BY <2>1, <2>2

(* What a command makes of a configuration, carried out or not: it keeps its  *)
(* type, hops to channels of its mask if the device obeys the network, and    *)
(* what is saved is what is used.                                             *)
LEMMA LinkADRIs ==
  ASSUME DefaultsKept, saved \in Saves, NEW c \in Confs, NEW req \in AnyRequest,
         NEW on \in BOOLEAN,
         c.dr # Keep => saved.dr = c.dr /\ saved.steps = c.steps
  PROVE  LET e == LinkADR(c, req, on)
             s == Saved(c, req) IN
         /\ e \in Confs /\ s \in Saves
         /\ on /\ c.flags \subseteq c.mask => e.flags \subseteq e.mask
         /\ e.dr # Keep => s.dr = e.dr /\ s.steps = e.steps
<1> DEFINE t == Tried(c, req)
           d == Asked(req.dr, c.dr)
           n == Asked(req.steps, c.steps)
           r == NextTrans(c, req)
<1>1. /\ t \in Confs /\ t.steps = c.steps /\ t.nb = c.nb
      /\ d \in RadioDRs => t.dr = d /\ t.flags = Fitting(d, t.mask)
  BY TriedIs
<1>2. r \in 1..MaxTrans
  BY Numbers DEF NextTrans, Confs, AnyRequest
<1>3. CASE Accepted(c, req)
  <2>1. d \in RadioDRs /\ n \in PowerSteps
    BY <1>3 DEF Accepted, DrAck, PowerAck
  <2>2. LinkADR(c, req, on) = [t EXCEPT !.steps = n, !.nb = r]
    BY <1>3 DEF LinkADR
  <2>3. Saved(c, req) = [dr |-> d, steps |-> n,
                         nb |-> IF req.mask = NoMask THEN saved.nb ELSE r]
    BY <1>3 DEF Saved
  <2>4. Fitting(d, t.mask) \subseteq t.mask
    BY DEF Fitting
  <2> HIDE DEF t, d, n, r
  <2>5. /\ LinkADR(c, req, on) \in Confs
        /\ LinkADR(c, req, on).dr = d /\ LinkADR(c, req, on).steps = n
        /\ LinkADR(c, req, on).flags = t.flags /\ LinkADR(c, req, on).mask = t.mask
    BY <1>1, <1>2, <2>1, <2>2 DEF Confs
  <2>6. Saved(c, req) \in Saves /\ Saved(c, req).dr = d /\ Saved(c, req).steps = n
    BY <1>2, <2>1, <2>3, Numbers DEF Saves
  <2>7. QED
    BY <1>1, <2>1, <2>4, <2>5, <2>6
<1>4. CASE ~Accepted(c, req)
  <2>1. Saved(c, req) = saved
    BY <1>4 DEF Saved
  <2>2. LinkADR(c, req, on) = IF on THEN c ELSE [t EXCEPT !.dr = c.dr]
    BY <1>4 DEF LinkADR, Reverted
  <2> HIDE DEF t
  <2>3. CASE on
    BY <2>1, <2>2, <2>3
  <2>4. CASE ~on
    BY <1>1, <2>1, <2>2, <2>4 DEF Confs
  <2>5. QED
    BY <2>3, <2>4
<1>5. QED
  BY <1>3, <1>4

(* A command that the Session buffer carries is carried out again.            *)
LEMMA RestoredIs ==
  ASSUME AdrInv
  PROVE  LET e == LinkADR(New, SavedRequest, TRUE)
             f == [e EXCEPT !.flags = conf.flags]
             s == Saved(New, SavedRequest) IN
         /\ f \in Confs /\ s \in Saves
         /\ f.flags \subseteq Defined
         /\ f.dr # Keep => s.dr = f.dr /\ s.steps = f.steps
         /\ FlagsOnMask => overridden \/ f.flags \subseteq f.mask
         /\ Fits => f = [conf EXCEPT !.nb = f.nb]
<1> DEFINE e == LinkADR(New, SavedRequest, TRUE)
           s == Saved(New, SavedRequest)
<1>1. /\ DefaultsKept /\ saved \in Saves /\ conf \in Confs
      /\ range \in [Channels -> Ranges \cup {DefaultRange, {}}]
  BY DEF AdrInv, TypeOK, Saves, Confs
<1>2. /\ New \in Confs /\ New.dr = Keep /\ New.steps = 0
      /\ New.mask = Defined /\ New.flags = Defined
  <2>1. Fresh \in [mask : {Default}, flags : {Default}, dr : {Keep}, steps : {0}, nb : {1}]
    BY DEF Fresh
  <2>2. 1 \in 1..MaxTrans
    BY Numbers
  <2>3. QED
    BY <2>1, <2>2, Numbers DEF New, Confs
<1>3. /\ SavedRequest \in AnyRequest /\ SavedRequest.mask = conf.mask
      /\ SavedRequest.dr = saved.dr /\ SavedRequest.steps = saved.steps
  <2>1. saved.dr \in Int /\ saved.steps \in Int /\ saved.nb \in 0..MaxTrans
    BY <1>1, Numbers DEF Saves
  <2>2. conf.mask \in SUBSET Channels
    BY <1>1 DEF Confs, Defined
  <2>3. QED
    BY <2>1, <2>2 DEF SavedRequest, AnyRequest
<1>4. e \in Confs /\ s \in Saves /\ (e.dr # Keep => s.dr = e.dr /\ s.steps = e.steps)
  BY <1>1, <1>2, <1>3, LinkADRIs
<1>5. Asked(SavedRequest.dr, New.dr) = saved.dr /\ saved.dr \in RadioDRs
      /\ Asked(SavedRequest.steps, New.steps) = saved.steps /\ saved.steps \in PowerSteps
  BY <1>1, <1>2, <1>3, Numbers DEF Saves, Asked
<1>6. SavedRequest.mask # NoMask /\ MaskAck(New, SavedRequest)
  <2>1. SavedRequest.mask # NoMask
    BY <1>1, <1>3, NoMaskIsNone DEF Confs, Defined
  <2>2. New.mask \subseteq Wide(New, SavedRequest).mask
    BY <1>2, <2>1 DEF Wide, enableDefaultChannels, Confs
  <2>3. QED
    BY <1>1, <1>2, <1>3, <2>1, <2>2 DEF MaskAck, Confs
<1>7. e.mask = conf.mask \/ e = New
  <2>1. CASE Accepted(New, SavedRequest)
    <3>1. Tried(New, SavedRequest) \in Confs /\ Tried(New, SavedRequest).mask = conf.mask
      BY <1>1, <1>2, <1>3, <1>6, TriedIs
    <3>2. QED
      BY <2>1, <3>1 DEF LinkADR, Confs
  <2>2. CASE ~Accepted(New, SavedRequest)
    BY <2>2 DEF LinkADR, Reverted
  <2>3. QED
    BY <2>1, <2>2
<1>8. ASSUME Fits
      PROVE  [e EXCEPT !.flags = conf.flags] = [conf EXCEPT !.nb = e.nb]
  <2>1. conf.dr # Keep
    <3>1. PICK c \in conf.mask : conf.dr \in range[c]
      BY <1>8 DEF Fits, Fitting
    <3>2. c \in Channels
      BY <1>1 DEF Confs, Defined
    <3>3. range[c] \subseteq RadioDRs
      BY <1>1, <3>2, AdrAssumption, ZenonT(60)
    <3>4. QED
      BY <3>1, <3>3, Numbers
  <2>2. saved.dr = conf.dr /\ saved.steps = conf.steps
    BY <2>1 DEF AdrInv, SavedIsUsed
  <2>3. /\ Tried(New, SavedRequest) \in Confs
        /\ Tried(New, SavedRequest).mask = conf.mask
        /\ Tried(New, SavedRequest).dr = conf.dr
        /\ Tried(New, SavedRequest).flags = Fitting(conf.dr, conf.mask)
    BY <1>1, <1>2, <1>3, <1>5, <1>6, <2>2, TriedIs
  <2>4. Accepted(New, SavedRequest)
    BY <1>5, <1>6, <1>8, <2>3 DEF Accepted, DrAck, PowerAck, Fits
  <2>5. e = [Tried(New, SavedRequest) EXCEPT !.steps = saved.steps,
                                             !.nb = NextTrans(New, SavedRequest)]
    BY <1>5, <2>4 DEF LinkADR
  <2>6. e.mask = conf.mask /\ e.dr = conf.dr /\ e.steps = conf.steps
    BY <2>2, <2>3, <2>5 DEF Confs
  <2> HIDE DEF e
  <2>7. QED
    BY <1>1, <1>4, <2>6 DEF Confs
<1>9. QED
  <2> HIDE DEF e, s
  <2>1. [e EXCEPT !.flags = conf.flags] \in Confs
    BY <1>1, <1>4 DEF Confs
  <2>2. /\ [e EXCEPT !.flags = conf.flags].flags = conf.flags
        /\ [e EXCEPT !.flags = conf.flags].mask = e.mask
        /\ [e EXCEPT !.flags = conf.flags].dr = e.dr
        /\ [e EXCEPT !.flags = conf.flags].steps = e.steps
        /\ [e EXCEPT !.flags = conf.flags].nb = e.nb
    BY <1>4 DEF Confs
  <2>3. conf.flags \subseteq Defined
    BY <1>1 DEF Confs
  <2>4. FlagsOnMask => overridden \/ conf.flags \subseteq e.mask
    BY <1>2, <1>7, <2>3 DEF FlagsOnMask
  <2>5. QED
    BY <1>4, <1>8, <2>1, <2>2, <2>3, <2>4 DEF e, s

-----------------------------------------------------------------------------
(* Steps *)

(* The parts of the invariant: the configuration, the channel and the rest.   *)
ConfOK == conf \in Confs /\ saved \in Saves /\ SavedIsUsed /\ FlagsOnMask
RestOK ==
  /\ range \in [Channels -> Ranges \cup {DefaultRange, {}}] /\ DefaultsKept
  /\ silent \in {Done} \cup 0..(Limit + 2 * Delay - 1)
  /\ trans \in 0..MaxTrans /\ asked \in 0..Delay
  /\ adr \in BOOLEAN /\ dwellTimeUp \in BOOLEAN /\ overridden \in BOOLEAN
  /\ events \in 0..MaxEvents
  /\ adr \/ overridden

LEMMA Parts == /\ AdrInv <=> ConfOK /\ RestOK /\ ChannelOK /\ AskedEach
               /\ AdrInv' <=> ConfOK' /\ RestOK' /\ ChannelOK' /\ AskedEach'
  BY DEF AdrInv, TypeOK, ConfOK, RestOK, ChannelOK, Confs, Saves, Defined

(* Between uplinks any channel will do.                                       *)
LEMMA OverKeepsChannel ==
  ASSUME channel \in Channels \cup {NoChannel}, trans' = 0,
         channel' \in {channel, NoChannel}
  PROVE  ChannelOK'
<1>1. channel' \in Channels' \cup {NoChannel}'
  BY DEF Channels, NoChannel
<1>2. ~(trans > 0)'
  OBVIOUS
<1>3. QED
  BY <1>1, <1>2 DEF ChannelOK, HopsOnMask

LEMMA AdrInit == Init => AdrInv
<1> SUFFICES ASSUME Init PROVE AdrInv
  OBVIOUS
<1>1. DefaultsKept /\ range \in [Channels -> Ranges \cup {DefaultRange, {}}]
  BY DEF Init, DefaultsKept, Channels
<1>2. FirstDR \in RadioDRs
  BY FirstDRFits, AdrAssumption
<1>3. Fresh \in [mask : {Default}, flags : {Default}, dr : {Keep}, steps : {0}, nb : {1}]
  BY DEF Fresh
<1>4. conf \in [mask : {Default}, flags : {Default \ {channel}}, dr : {FirstDR},
                steps : {0}, nb : {1}]
  BY <1>3 DEF Init
<1>5. conf \in Confs
  <2>1. Default \subseteq Defined
    BY <1>1, DefaultsDefined
  <2>2. 1 \in 1..MaxTrans
    BY Numbers
  <2>3. QED
    BY <1>2, <1>4, <2>1, <2>2, Numbers DEF Confs
<1>6. saved \in Saves /\ saved.dr = FirstDR /\ saved.steps = 0
  <2>1. 0 \in 0..MaxTrans
    BY Numbers
  <2>2. QED
    BY <1>2, <2>1, Numbers DEF Init, Saves
<1>7. ConfOK
  BY <1>4, <1>5, <1>6 DEF ConfOK, SavedIsUsed, FlagsOnMask
<1>8. RestOK
  <2>1. 0 \in 0..(Limit + 2 * Delay - 1) /\ 0 \in 0..MaxTrans /\ 0 \in 0..Delay
        /\ 0 \in 0..MaxEvents
    BY Numbers
  <2>2. QED
    BY <1>1, <2>1 DEF Init, RestOK
<1>9. AskedEach
  BY Numbers DEF Init, AskedEach, Silence, Done
<1>10. ChannelOK
  BY DEF Init, ChannelOK, HopsOnMask, Channels
<1>11. QED
  BY <1>7, <1>8, <1>9, <1>10, Parts

(* A LinkADRReq on the configuration, or on one with more channels on.        *)
LEMMA ExecKeeps ==
  ASSUME ConfOK, RestOK, range' = range, NEW c \in Confs, NEW req \in AnyRequest,
         c.dr = conf.dr, c.steps = conf.steps,
         conf.flags \subseteq conf.mask => c.flags \subseteq c.mask,
         execLinkADR(c, req), overridden => overridden', adr \/ overridden'
  PROVE  ConfOK'
<1>1. /\ conf' = LinkADR(c, req, adr) /\ saved' = Saved(c, req)
      /\ adr \in BOOLEAN /\ DefaultsKept /\ saved \in Saves
      /\ c.dr # Keep => saved.dr = c.dr /\ saved.steps = c.steps
  BY DEF execLinkADR, RestOK, ConfOK, SavedIsUsed
<1>2. /\ conf' \in Confs /\ saved' \in Saves
      /\ adr /\ c.flags \subseteq c.mask => conf'.flags \subseteq conf'.mask
      /\ conf'.dr # Keep => saved'.dr = conf'.dr /\ saved'.steps = conf'.steps
  BY <1>1, LinkADRIs
<1>3. Confs' = Confs
  BY DEF Confs, Defined
<1>4. FlagsOnMask'
  BY <1>2 DEF ConfOK, FlagsOnMask
<1>5. QED
  BY <1>2, <1>3, <1>4 DEF ConfOK, SavedIsUsed

LEMMA SelectKeeps ==
  ASSUME ConfOK, channel \in Channels \cup {NoChannel}, range' = range, saved' = saved,
         overridden' = overridden, selectChannels
  PROVE  ConfOK' /\ ChannelOK'
<1> DEFINE flags == IF conf.flags = {} THEN Fitting(conf.dr, conf.mask) ELSE conf.flags
<1>1. conf \in Confs
  BY DEF ConfOK
<1>2. /\ flags \subseteq Defined
      /\ overridden \/ flags \subseteq conf.mask
  <2>1. Fitting(conf.dr, conf.mask) \subseteq conf.mask
    BY DEF Fitting
  <2>2. QED
    BY <1>1, <2>1 DEF Confs, ConfOK, FlagsOnMask
<1>3. \/ \E c \in flags : conf' = [conf EXCEPT !.flags = flags \ {c}] /\ channel' = c
      \/ flags = {} /\ conf' = conf /\ channel' = channel
  BY DEF selectChannels
<1>4. /\ conf' \in Confs /\ conf'.dr = conf.dr /\ conf'.steps = conf.steps
      /\ overridden \/ conf'.flags \subseteq conf'.mask
  <2> HIDE DEF flags
  <2>1. CASE conf' = conf
    BY <1>1, <2>1 DEF ConfOK, FlagsOnMask
  <2>2. ASSUME NEW c \in flags, conf' = [conf EXCEPT !.flags = flags \ {c}]
        PROVE  /\ conf' \in Confs /\ conf'.dr = conf.dr /\ conf'.steps = conf.steps
               /\ conf'.mask = conf.mask /\ conf'.flags \subseteq flags
    BY <1>1, <1>2, <2>2 DEF Confs
  <2>3. QED
    BY <1>2, <1>3, <2>1, <2>2
<1>5. Confs' = Confs
  BY DEF Confs, Defined
<1>6. ChannelOK'
  <2>1. channel' \in Channels \cup {NoChannel} /\ (Channels \cup {NoChannel})' = Channels \cup {NoChannel}
    BY <1>2, <1>3 DEF Channels, NoChannel, Defined
  <2>2. conf'.mask = conf.mask
    BY <1>1, <1>3 DEF Confs
  <2>3. Fits' = Fits
    BY <1>4, <2>2 DEF Fits, Fitting
  <2>4. Fits => flags # {}
    BY DEF Fits
  <2>5. Fits => channel' \in conf.mask \/ overridden
    <3> HIDE DEF flags
    <3>1. QED
      BY <1>2, <1>3, <2>4
  <2>6. HopsOnMask'
    BY <2>2, <2>3, <2>5 DEF HopsOnMask
  <2>7. QED
    BY <2>1, <2>6 DEF ChannelOK
<1>7. QED
  BY <1>4, <1>5, <1>6 DEF ConfOK, SavedIsUsed, FlagsOnMask

LEMMA SlowerIsRequest ==
  ASSUME NEW c \in Confs
  PROVE  Slower(c) \in AnyRequest
<1>1. c.dr \in RadioDRs \/ c.dr = Keep
  BY DEF Confs
<1>2. Keep \in Int
  BY DEF Keep
<1>3. c.dr \in Int
  BY <1>1, <1>2, Numbers
<1>4. c.dr - 1 \in Int
  BY <1>3
<1>5. QED
  BY <1>2, <1>4, DrTxIsRequest DEF Slower

LEMMA BackoffKeeps ==
  ASSUME ConfOK, RestOK, range' = range, overridden' = overridden, adr, adrBackoff
  PROVE  ConfOK'
<1>1. conf \in Confs /\ Keep \in Int /\ 0 \in Int
  BY DEF ConfOK, Keep
<1>2. ASSUME NEW c \in Confs, c.dr = conf.dr, c.steps = conf.steps,
             conf.flags \subseteq conf.mask => c.flags \subseteq c.mask, SlowDown(c)
      PROVE  ConfOK'
  BY <1>2, SlowerIsRequest, ExecKeeps DEF SlowDown
<1>3. CASE FullPower
  BY <1>1, <1>3, DrTxIsRequest, ExecKeeps DEF FullPower
<1>4. CASE SlowDown(conf)
  BY <1>1, <1>2, <1>4
<1>5. CASE LastResort
  <2> DEFINE e == enableDefaultChannels(conf, FALSE)
  <2>1. /\ e \in Confs /\ e.dr = conf.dr /\ e.steps = conf.steps
        /\ conf.flags \subseteq conf.mask => e.flags \subseteq e.mask
    BY <1>1, EnabledIs DEF RestOK
  <2>2. CASE SlowDown(e)
    BY <1>2, <2>1, <2>2
  <2>3. CASE conf' = [e EXCEPT !.nb = 1] /\ saved' = saved
    <3> HIDE DEF e
    <3>1. 1 \in 1..MaxTrans
      BY Numbers
    <3>2. /\ conf' \in Confs /\ conf'.dr = conf.dr /\ conf'.steps = conf.steps
          /\ conf'.flags = e.flags /\ conf'.mask = e.mask
      BY <2>1, <2>3, <3>1 DEF Confs
    <3>3. Confs' = Confs
      BY DEF Confs, Defined
    <3>4. QED
      BY <2>1, <2>3, <3>2, <3>3 DEF ConfOK, SavedIsUsed, FlagsOnMask
  <2>4. QED
    BY <1>5, <2>2, <2>3 DEF LastResort
<1>6. CASE UNCHANGED <<conf, saved>>
  BY <1>6 DEF ConfOK, Confs, Saves, Defined, SavedIsUsed, FlagsOnMask
<1>7. QED
  BY <1>3, <1>4, <1>5, <1>6 DEF adrBackoff

LEMMA CommandKeeps ==
  ASSUME ConfOK, RestOK, overridden' = overridden, Command
  PROVE  /\ ConfOK' /\ dwellTimeUp' \in BOOLEAN
         /\ range' \in [Channels -> Ranges \cup {DefaultRange, {}}] /\ DefaultsKept'
<1>1. /\ conf \in Confs /\ dwellTimeUp \in BOOLEAN /\ DefaultsKept
      /\ range \in [Channels -> Ranges \cup {DefaultRange, {}}]
  BY DEF ConfOK, RestOK
<1>2. CASE UNCHANGED <<range, conf, saved>> /\ dwellTimeUp' \in BOOLEAN
  BY <1>1, <1>2 DEF ConfOK, Confs, Saves, Defined, SavedIsUsed, FlagsOnMask, DefaultsKept
<1>3. ASSUME NEW req \in Requests, execLinkADR(conf, req), UNCHANGED <<range, dwellTimeUp>>
      PROVE  /\ ConfOK' /\ dwellTimeUp' \in BOOLEAN
             /\ range' \in [Channels -> Ranges \cup {DefaultRange, {}}] /\ DefaultsKept'
  <2>1. req \in AnyRequest
    <3>1. req \in Request
      BY AdrAssumption
    <3>2. 0..MaxDR \cup {Keep} \subseteq Int /\ 0..(MaxStep + 1) \cup {Keep} \subseteq Int
      BY Numbers DEF Keep
    <3>3. QED
      BY <3>1, <3>2 DEF Request, AnyRequest
  <2>2. ConfOK'
    BY <1>1, <1>3, <2>1, ExecKeeps DEF RestOK
  <2>3. QED
    BY <1>1, <1>3, <2>2 DEF DefaultsKept
<1>4. ASSUME NEW c \in Channels, NEW allowed \in Ranges, NewChannelReq(c, allowed),
             dwellTimeUp' = dwellTimeUp
      PROVE  /\ ConfOK' /\ dwellTimeUp' \in BOOLEAN
             /\ range' \in [Channels -> Ranges \cup {DefaultRange, {}}] /\ DefaultsKept'
  <2>1. CASE c \in Default
    BY <1>1, <1>4, <2>1 DEF NewChannelReq, ConfOK, Confs, Saves, Defined, SavedIsUsed, FlagsOnMask,
                            DefaultsKept
  <2>2. CASE c \notin Default
    <3>1. range' = [range EXCEPT ![c] = allowed] /\ saved' = saved
      BY <1>4, <2>2 DEF NewChannelReq
    <3>2. range' \in [Channels -> Ranges \cup {DefaultRange, {}}] /\ DefaultsKept'
      BY <1>1, <2>2, <3>1 DEF DefaultsKept, Channels
    <3>3. /\ conf' \in Confs' /\ conf'.dr = conf.dr /\ conf'.steps = conf.steps
          /\ conf.flags \subseteq conf.mask => conf'.flags \subseteq conf'.mask
      <4>1. CASE allowed = {}
        <5>1. conf' = [conf EXCEPT !.mask = @ \ {c}, !.flags = @ \ {c}]
          BY <1>4, <2>2, <4>1 DEF NewChannelReq
        <5>2. Defined' = Defined \ {c}
          BY <1>1, <3>1, <4>1 DEF Defined
        <5>3. QED
          BY <1>1, <5>1, <5>2 DEF Confs
      <4>2. CASE allowed # {}
        <5>1. conf' = [conf EXCEPT !.mask = @ \cup {c}, !.flags = @ \cup {c}]
          BY <1>4, <2>2, <4>2 DEF NewChannelReq
        <5>2. Defined' = Defined \cup {c}
          BY <1>1, <3>1, <4>2 DEF Defined
        <5>3. QED
          BY <1>1, <5>1, <5>2 DEF Confs
      <4>3. QED
        BY <4>1, <4>2
    <3>4. ConfOK'
      BY <3>1, <3>3 DEF ConfOK, Saves, SavedIsUsed, FlagsOnMask
    <3>5. QED
      BY <1>1, <1>4, <3>2, <3>4
  <2>3. QED
    BY <2>1, <2>2
<1>5. QED
  BY <1>1, <1>2, <1>3, <1>4 DEF Command
LEMMA CountedIs ==
  ASSUME RestOK
  PROVE  /\ Counted \in {Done} \cup 0..(Limit + 2 * Delay - 1)
         /\ Counted = Done <=> silent = Done
         /\ silent # Done => Counted = silent + 1
                            \/ (silent + 1 = Limit + 2 * Delay /\ Counted = Limit + Delay)
<1>1. CASE silent = Done
  BY <1>1 DEF Counted
<1>2. CASE silent # Done
  <2>1. silent \in 0..(Limit + 2 * Delay - 1)
    BY <1>2 DEF RestOK
  <2>2. QED
    BY <1>2, <2>1, Numbers DEF Counted, Done
<1>3. QED
  BY <1>1, <1>2

(* An uplink that is over has been counted, or everything has been tried.     *)
LEMMA OverKeepsAsked ==
  ASSUME RestOK, AskedEach, trans > 0, trans' = 0, silent' = Counted \/ silent' = Done,
         asked' = asked, overridden' = overridden
  PROVE  AskedEach'
<1> SUFFICES ASSUME ~overridden, silent' # Done
             PROVE  asked = Delay \/ silent' <= Limit + asked
  BY DEF AskedEach, Silence
<1>1. silent' = Counted /\ silent # Done
  BY CountedIs
<1>2. silent \in 0..(Limit + 2 * Delay - 1) /\ asked \in 0..Delay /\ trans \in Int
  BY <1>1, Numbers DEF RestOK
<1>3. asked = Delay \/ silent + 1 <= Limit + asked
  BY <1>1, <1>2 DEF AskedEach, Silence
<1>4. silent' = silent + 1 \/ (silent + 1 = Limit + 2 * Delay /\ silent' = Limit + Delay)
  BY <1>1, CountedIs
<1>5. QED
  BY <1>2, <1>3, <1>4, Numbers

LEMMA AdrStep ==
  ASSUME AdrInv, [Next]_vars
  PROVE  AdrInv'
<1>1. ConfOK /\ RestOK /\ AskedEach /\ channel \in Channels \cup {NoChannel}
  BY Parts DEF ChannelOK
<1>2. /\ silent \in {Done} \cup 0..(Limit + 2 * Delay - 1)
      /\ trans \in 0..MaxTrans /\ asked \in 0..Delay /\ events \in 0..MaxEvents
      /\ conf \in Confs /\ conf.nb \in 1..MaxTrans
  BY <1>1 DEF RestOK, ConfOK, Confs
<1>3. CASE sendReceive
  <2>1. ConfOK' /\ ChannelOK'
    BY <1>1, <1>3, SelectKeeps DEF sendReceive
  <2>2. asked' \in 0..Delay
    BY <1>2, <1>3, Numbers DEF sendReceive
  <2>3. trans' \in 0..MaxTrans
    BY <1>3, Numbers DEF sendReceive
  <2>4. RestOK'
    BY <1>1, <1>3, <2>2, <2>3 DEF sendReceive, RestOK, DefaultsKept
  <2>5. AskedEach'
    <3> SUFFICES ASSUME ~overridden, silent # Done
                 PROVE  asked' = Delay \/ silent + 1 <= Limit + asked'
      BY <1>3 DEF sendReceive, AskedEach, Silence
    <3>1. silent \in 0..(Limit + 2 * Delay - 1) /\ adr
      BY <1>1, <1>2 DEF RestOK
    <3>2. asked = Delay \/ silent <= Limit + asked
      BY <1>1, <1>3 DEF sendReceive, AskedEach, Silence
    <3>3. asked' = IF silent >= Limit /\ asked < Delay THEN asked + 1 ELSE asked
      BY <1>3, <3>1 DEF sendReceive, AckReq
    <3>4. QED
      BY <1>2, <3>1, <3>2, <3>3, Numbers
  <2>6. QED
    BY <2>1, <2>4, <2>5, Parts
<1>4. CASE Repeat
  <2>1. ConfOK' /\ ChannelOK'
    BY <1>1, <1>4, SelectKeeps DEF Repeat, OnAir
  <2>2. trans' \in 0..MaxTrans /\ trans' > 0
    BY <1>2, <1>4, Numbers DEF Repeat, OnAir
  <2>3. RestOK'
    BY <1>1, <1>4, <2>2 DEF Repeat, RestOK, DefaultsKept
  <2>4. AskedEach'
    <3>1. trans # 0 /\ trans' # 0
      BY <1>2, <1>4, <2>2, Numbers DEF Repeat, OnAir
    <3>2. QED
      BY <1>1, <1>4, <3>1 DEF Repeat, AskedEach, Silence
  <2>5. QED
    BY <2>1, <2>3, <2>4, Parts
<1>5. CASE GivenUp
  <2>1. ConfOK'
    BY <1>1, <1>5 DEF GivenUp, ConfOK, Confs, Saves, Defined, SavedIsUsed, FlagsOnMask
  <2>2. events' \in 0..MaxEvents /\ trans' \in 0..MaxTrans
    BY <1>2, <1>5, Numbers DEF GivenUp
  <2>3. silent' \in {Done} \cup 0..(Limit + 2 * Delay - 1)
    BY <1>1, <1>5, CountedIs DEF GivenUp
  <2>4. RestOK'
    BY <1>1, <1>5, <2>2, <2>3 DEF GivenUp, RestOK, DefaultsKept
  <2>5. AskedEach'
    BY <1>1, <1>5, OverKeepsAsked DEF GivenUp
  <2>6. ChannelOK'
    BY <1>1, <1>5, OverKeepsChannel DEF GivenUp
  <2>7. QED
    BY <2>1, <2>4, <2>5, <2>6, Parts
<1>6. CASE NoDownlink
  <2>1. \/ adr /\ adrBackoff
        \/ silent' = Counted /\ UNCHANGED <<conf, saved>>
    BY <1>6 DEF NoDownlink, Due
  <2>2. ConfOK'
    <3>1. CASE adr /\ adrBackoff
      BY <1>1, <1>6, <3>1, BackoffKeeps DEF NoDownlink
    <3>2. CASE UNCHANGED <<conf, saved>>
      BY <1>1, <1>6, <3>2 DEF NoDownlink, ConfOK, Confs, Saves, Defined, SavedIsUsed, FlagsOnMask
    <3>3. QED
      BY <2>1, <3>1, <3>2
  <2>3. silent' = Counted \/ silent' = Done
    BY <2>1 DEF adrBackoff, FullPower, SlowDown, LastResort
  <2>4. trans' \in 0..MaxTrans
    BY <1>6, Numbers DEF NoDownlink
  <2>5. silent' \in {Done} \cup 0..(Limit + 2 * Delay - 1)
    BY <1>1, <2>3, CountedIs
  <2>6. RestOK'
    BY <1>1, <1>6, <2>4, <2>5 DEF NoDownlink, RestOK, DefaultsKept
  <2>7. AskedEach'
    BY <1>1, <1>6, <2>3, OverKeepsAsked DEF NoDownlink, OnAir
  <2>8. ChannelOK'
    BY <1>1, <1>6, OverKeepsChannel DEF NoDownlink
  <2>9. QED
    BY <2>2, <2>6, <2>7, <2>8, Parts
<1>7. CASE parseDownlink
  <2>1. /\ ConfOK' /\ dwellTimeUp' \in BOOLEAN
        /\ range' \in [Channels -> Ranges \cup {DefaultRange, {}}] /\ DefaultsKept'
    BY <1>1, <1>7, CommandKeeps DEF parseDownlink
  <2>2. /\ silent' \in {Done} \cup 0..(Limit + 2 * Delay - 1)
        /\ trans' \in 0..MaxTrans /\ asked' \in 0..Delay
    BY <1>7, Numbers DEF parseDownlink
  <2>3. RestOK'
    BY <1>1, <1>7, <2>1, <2>2 DEF parseDownlink, RestOK
  <2>4. AskedEach'
    BY <1>7, Numbers DEF parseDownlink, AskedEach, Silence
  <2>5. ChannelOK'
    BY <1>1, <1>7, OverKeepsChannel DEF parseDownlink
  <2>6. QED
    BY <2>1, <2>3, <2>4, <2>5, Parts
<1>8. CASE Configure
  <2>1. ConfOK' /\ adr' \in BOOLEAN
    <3>1. Keep \in Int /\ conf \in Confs /\ adr \in BOOLEAN /\ overridden' = TRUE
      BY <1>1, <1>2, <1>8 DEF Keep, RestOK, Configure
    <3>2. ASSUME NEW req \in AnyRequest, execLinkADR(conf, req)
          PROVE  ConfOK'
      BY <1>1, <1>8, <3>1, <3>2, ExecKeeps DEF Configure
    <3>3. ASSUME NEW d \in 0..MaxDR, execLinkADR(conf, DrTx(d, Keep))
          PROVE  ConfOK'
      <4>1. d \in Int
        BY Numbers
      <4>2. QED
        BY <3>1, <3>2, <3>3, <4>1, DrTxIsRequest
    <3>4. ASSUME NEW n \in 0..(MaxStep + 1), execLinkADR(conf, DrTx(Keep, n))
          PROVE  ConfOK'
      <4>1. n \in Int
        BY Numbers
      <4>2. QED
        BY <3>1, <3>2, <3>4, <4>1, DrTxIsRequest
    <3>5. CASE setADR
      BY <1>1, <1>8, <3>5 DEF Configure, setADR, ConfOK, Confs, Saves, Defined, SavedIsUsed, FlagsOnMask
    <3>6. QED
      BY <1>8, <3>1, <3>3, <3>4, <3>5 DEF Configure, setDatarate, setTxPower, setADR
  <2>2. events' \in 0..MaxEvents
    BY <1>2, <1>8, Numbers DEF Configure, Event
  <2>3. RestOK'
    BY <1>1, <1>8, <2>1, <2>2 DEF Configure, RestOK, DefaultsKept
  <2>4. AskedEach'
    BY <1>8 DEF Configure, AskedEach
  <2>5. ChannelOK'
    BY <1>1, <1>8, OverKeepsChannel DEF Configure, Event
  <2>6. QED
    BY <2>1, <2>3, <2>4, <2>5, Parts
<1>9. CASE Restart
  <2> DEFINE e == LinkADR(New, SavedRequest, TRUE)
             f == [e EXCEPT !.flags = conf.flags]
             s == Saved(New, SavedRequest)
  <2>1. /\ f \in Confs /\ s \in Saves
        /\ f.dr # Keep => s.dr = f.dr /\ s.steps = f.steps
        /\ FlagsOnMask => overridden \/ f.flags \subseteq f.mask
    BY RestoredIs
  <2>2. conf' = f /\ saved' = s /\ range' = range /\ overridden' = overridden
    BY <1>9 DEF Restart
  <2>3. Confs' = Confs
    BY <2>2 DEF Confs, Defined
  <2> HIDE DEF e, f, s
  <2>4. ConfOK'
    BY <1>1, <2>1, <2>2, <2>3 DEF ConfOK, Saves, SavedIsUsed, FlagsOnMask
  <2>5. events' \in 0..MaxEvents
    BY <1>2, <1>9, Numbers DEF Restart, Event
  <2>6. RestOK'
    BY <1>1, <1>9, <2>5 DEF Restart, RestOK, DefaultsKept
  <2>7. AskedEach'
    BY <1>1, <1>9 DEF Restart, AskedEach, Silence
  <2>8. ChannelOK'
    BY <1>1, <1>9, OverKeepsChannel DEF Restart, Event
  <2>9. QED
    BY <2>4, <2>6, <2>7, <2>8, Parts
<1>10. CASE NoFrequency
  <2>1. ConfOK'
    BY <1>1, <1>10 DEF NoFrequency, ConfOK, Confs, Saves, Defined, SavedIsUsed, FlagsOnMask
  <2>2. trans' \in 0..MaxTrans
    BY <1>10, Numbers DEF NoFrequency
  <2>3. silent' \in {Done} \cup 0..(Limit + 2 * Delay - 1)
    BY <1>1, <1>10, CountedIs DEF NoFrequency
  <2>4. RestOK'
    BY <1>1, <1>10, <2>2, <2>3 DEF NoFrequency, RestOK, DefaultsKept
  <2>5. AskedEach'
    BY <1>1, <1>10, OverKeepsAsked DEF NoFrequency
  <2>6. ChannelOK'
    BY <1>1, <1>10, OverKeepsChannel DEF NoFrequency
  <2>7. QED
    BY <2>1, <2>4, <2>5, <2>6, Parts
<1>11. CASE UNCHANGED vars
  BY <1>11 DEF vars, AdrInv, TypeOK, Defined, DefaultsKept, FlagsOnMask, ChannelOK, HopsOnMask,
               SavedIsUsed, AskedEach, Silence, Fits, Fitting, Channels, NoChannel
<1>12. QED
  BY <1>3, <1>4, <1>5, <1>6, <1>7, <1>8, <1>9, <1>10, <1>11 DEF Next, Uplinks

LEMMA AlwaysAdrInv == Spec => []AdrInv
  BY AdrInit, AdrStep, PTL DEF Spec

-----------------------------------------------------------------------------
(* Theorems *)

(* Masks, flags, datarate and power stay among those that are defined and     *)
(* that the radio can do, whatever LinkADRReq, NewChannelReq and a restart    *)
(* make of them.                                                              *)
THEOREM RadioKeepsItsRange == Spec => []TypeOK
<1>1. AdrInv => TypeOK
  BY DEF AdrInv
<1>2. QED
  BY <1>1, AlwaysAdrInv, PTL

(* As long as a channel of the mask allows the datarate, every transmission   *)
(* is on a channel of the mask, whatever was refused, backed off or restored  *)
(* before. (Where none does, the code goes on with the channel it was on, on  *)
(* the mask or not: sendReceive ignores the error of selectChannels.)         *)
THEOREM HopsWithinMask == Spec => []HopsOnMask
<1>1. AdrInv => HopsOnMask
  BY DEF AdrInv, ChannelOK
<1>2. QED
  BY <1>1, AlwaysAdrInv, PTL

(* adrBackoff (LoRaWAN.cpp:1318) waits for ADR_ACK_DELAY requests.            *)
THEOREM BackoffAskedFirst == Spec => NetworkAskedFirst
<1>1. ASSUME AdrInv, NoDownlink, <<conf', silent' = Done>> # <<conf, silent = Done>>
      PROVE  asked = Delay \/ overridden
  <2>1. ConfOK /\ RestOK /\ AskedEach
    BY <1>1, Parts
  <2>2. Due(Counted)
    <3>1. CASE ~Due(Counted)
      <4>1. silent' = Counted /\ conf' = conf
        BY <1>1, <3>1 DEF NoDownlink
      <4>2. silent' = Done <=> silent = Done
        BY <2>1, <4>1, CountedIs
      <4>3. QED
        BY <1>1, <4>1, <4>2
    <3>2. QED
      BY <3>1
  <2>3. Counted # Done /\ Counted >= Limit + Delay
    BY <2>2 DEF Due
  <2>4. silent # Done
    BY <2>1, <2>3, CountedIs
  <2>5. silent \in 0..(Limit + 2 * Delay - 1) /\ asked \in 0..Delay /\ trans # 0
    BY <1>1, <2>1, <2>4, Numbers DEF RestOK, NoDownlink, OnAir
  <2>6. overridden \/ asked = Delay \/ silent + 1 <= Limit + asked
    BY <2>1, <2>4, <2>5 DEF AskedEach, Silence
  <2>7. silent + 1 >= Limit + Delay
    BY <2>1, <2>3, <2>4, <2>5, CountedIs, Numbers
  <2>8. QED
    BY <2>5, <2>6, <2>7, Numbers
<1>2. AdrInv /\ [Next]_vars
        => [NoDownlink /\ <<conf', silent' = Done>> # <<conf, silent = Done>>
              => asked = Delay \/ overridden]_vars
  BY <1>1
<1>3. QED
  BY <1>2, AlwaysAdrInv, PTL DEF Spec, NetworkAskedFirst

(* What setBufferSession restores is the radio that getBufferSession saved.   *)
THEOREM RestartRestores == Spec => RestartKeepsRadio
<1>1. ASSUME AdrInv, Restart, Fits
      PROVE  conf' = [conf EXCEPT !.nb = conf'.nb]
  BY <1>1, RestoredIs DEF Restart
<1>2. AdrInv /\ [Next]_vars => [Restart /\ Fits => conf' = [conf EXCEPT !.nb = conf'.nb]]_vars
  BY <1>1
<1>3. QED
  BY <1>2, AlwaysAdrInv, PTL DEF Spec, RestartKeepsRadio
=============================================================================
