----------------------------- MODULE LoRaWANAdr -----------------------------
(* Adaptive data rate and channel hopping of a LoRaWAN device on a dynamic    *)
(* band (LoRaWAN.cpp: adrBackoff, selectChannels, enableDefaultChannels,      *)
(* calculateChannelFlags, LinkADRReq and NewChannelReq of execMacCommand,     *)
(* setDatarate, setTxPower, setADR), and what getBufferSession and            *)
(* setBufferSession carry over a restart.                                     *)
(*                                                                            *)
(* A channel is the set of datarates it allows, empty where it is undefined.  *)
(* A downlink brings one command at most; that it is genuine, and the answers *)
(* it gets, belong to LoRaWANDataLink and LoRaWANMacQueue.                    *)
(*                                                                            *)
(* ZeroKept, FlagsStay, Hasty, NeverDone and OldChannels are slips: they stand *)
(* before the definitions that they would change.                             *)
EXTENDS Integers, FiniteSetsExt

CONSTANTS
  Default,        \* the channels of the band
  Extra,          \* indices free for NewChannelReq
  DefaultRange,   \* datarates of a default channel
  Ranges,         \* those NewChannelReq asks for; the empty set removes a channel
  RadioDRs,       \* datarates that the band defines and the radio can do
  MaxDR,          \* datarates are 0..MaxDR
  MaxStep,        \* powerNumSteps: txPowerSteps is 0..MaxStep, 0 the full power
  PowerSteps,     \* those the radio can do
  DwellDR,        \* below it an empty frame exceeds the dwell time; 0: no limit
  Limit, Delay,   \* ADR_ACK_LIMIT and ADR_ACK_DELAY
  Rev,            \* 1: LoRaWAN 1.1
  MaxTrans,       \* NbTrans is 0..MaxTrans in a command
  Requests,       \* the LinkADRReqs of the network
  MaxEvents       \* calls of the application, restarts and failed uplinks

Channels == Default \cup Extra
Keep == 15        \* 0xF in a command: keep the current value; no datarate yet
NoMask == {-1}    \* Dr/Tx field only (lenIn = 1)
NoChannel == -1   \* channels[UPLINK] before the first selectChannels: frequency 0
Done == -1        \* adrFCnt = FCNT_NONE: everything has been tried

(* Datarates, powers and masks the network may ask for, allowed or not.       *)
Request == [dr : 0..MaxDR \cup {Keep}, steps : 0..(MaxStep + 1) \cup {Keep},
            mask : SUBSET Channels, nb : 0..MaxTrans]

ASSUME AdrAssumption ==
  /\ Requests \subseteq Request
  /\ Default # {} /\ Default \subseteq 0..2 /\ Default \cap Extra = {} /\ Extra \subseteq 0..15
  /\ MaxDR \in 0..14 /\ RadioDRs \subseteq 0..MaxDR /\ DwellDR \in 0..MaxDR
  /\ DefaultRange \subseteq RadioDRs
  /\ \E drMin, drMax \in 0..MaxDR : drMin <= drMax /\ DefaultRange = drMin..drMax
  /\ Ranges \subseteq SUBSET RadioDRs
  /\ MaxStep \in 0..13 /\ PowerSteps \subseteq 0..MaxStep /\ 0 \in PowerSteps
  /\ Limit \in Nat /\ Delay \in Nat \ {0} /\ Rev \in {0, 1}
  /\ MaxTrans \in Nat \ {0} /\ MaxEvents \in Nat

VARIABLES
  range,       \* dynamicChannels: channel -> datarates
  conf,        \* channelMasks, channelFlags, datarate, txPowerSteps, nbTrans
  channel,     \* channels[UPLINK], which selectChannels chose last
  saved,       \* LinkADRReq in bufferSession, but its mask
  adr,         \* adrEnabled
  silent,      \* fCntUp - adrFCnt, or Done
  dwellTimeUp, \* the uplink dwell time limit is on
  trans,       \* transmissions of the uplink under way, 0 between uplinks
  asked,       \* uplinks with AdrAckReq since the last downlink (history)
  overridden,  \* the application has chosen ADR, datarate or power (history)
  events

vars == <<range, conf, channel, saved, adr, dwellTimeUp, silent, trans, asked, overridden, events>>

Defined == {c \in Channels : range[c] # {}}
Fitting(d, mask) == {c \in mask : d \in range[c]}
Fits == Fitting(conf.dr, conf.mask) # {}

TypeOK ==
  /\ range \in [Channels -> Ranges \cup {DefaultRange, {}}]
  /\ conf \in [mask : SUBSET Defined, flags : SUBSET Defined, dr : RadioDRs \cup {Keep},
               steps : PowerSteps, nb : 1..MaxTrans]
  /\ channel \in Channels \cup {NoChannel}
  /\ saved \in [dr : RadioDRs, steps : PowerSteps, nb : 0..MaxTrans]
  /\ silent \in {Done} \cup 0..(Limit + 2 * Delay - 1)
  /\ trans \in 0..MaxTrans /\ asked \in 0..Delay
  /\ {adr, dwellTimeUp, overridden} \subseteq BOOLEAN /\ events \in 0..MaxEvents

----------------------------------------------------------------------------
(* LinkADRReq: c is the configuration it finds, on whether ADR is enabled.    *)

(* enableDefaultChannels adds the defined channels from index 3 on.           *)
enableDefaultChannels(c, addDynamic) ==
  LET on == Default \cup (IF addDynamic THEN {i \in Defined : i > 2} ELSE {})
  IN [c EXCEPT !.mask = @ \cup on, !.flags = @ \cup on]

DrTx(d, steps) == [dr |-> d, steps |-> steps, mask |-> NoMask, nb |-> 0]

Asked(value, current) == IF value = Keep THEN current ELSE value

Wide(c, req) == IF req.mask = NoMask THEN c ELSE enableDefaultChannels(c, TRUE)
MaskAck(c, req) == req.mask = NoMask \/ req.mask \subseteq Wide(c, req).mask

(* What the command leaves in place before it looks at its acknowledgements.  *)
Tried(c, req) ==
  LET masked == IF req.mask # NoMask /\ MaskAck(c, req)
                THEN [Wide(c, req) EXCEPT !.mask = req.mask] ELSE Wide(c, req)
      d == Asked(req.dr, c.dr)
  IN IF d \in RadioDRs
     THEN [masked EXCEPT !.dr = d, !.flags = Fitting(d, masked.mask)]
     ELSE masked

DrAck(c, req) == Asked(req.dr, c.dr) \in RadioDRs /\ Tried(c, req).flags # {}
PowerAck(c, req) == Asked(req.steps, c.steps) \in PowerSteps
Accepted(c, req) == MaskAck(c, req) /\ DrAck(c, req) /\ PowerAck(c, req)

ZeroKept(c, req) == IF req.mask = NoMask THEN c.nb ELSE req.nb
NextTrans(c, req) ==
  IF req.mask = NoMask \/ (req.nb = 0 /\ Rev = 1) THEN c.nb
  ELSE IF req.nb = 0 THEN 1 ELSE req.nb

FlagsStay(c, req, on) == [Tried(c, req) EXCEPT !.dr = c.dr, !.mask = IF on THEN c.mask ELSE @]
Reverted(c, req, on) == IF on THEN c ELSE [Tried(c, req) EXCEPT !.dr = c.dr]

LinkADR(c, req, on) ==
  IF Accepted(c, req)
  THEN [Tried(c, req) EXCEPT !.steps = Asked(req.steps, c.steps), !.nb = NextTrans(c, req)]
  ELSE Reverted(c, req, on)

Saved(c, req) ==
  IF ~Accepted(c, req) THEN saved
  ELSE [dr |-> Asked(req.dr, c.dr), steps |-> Asked(req.steps, c.steps),
        nb |-> IF req.mask = NoMask THEN saved.nb ELSE NextTrans(c, req)]

execLinkADR(c, req) == conf' = LinkADR(c, req, adr) /\ saved' = Saved(c, req)

(* NewChannelReq: the last answer is no for a default channel.                *)
NewChannelReq(c, allowed) ==
  LET kept == c \in Default IN
  /\ range' = IF kept THEN range ELSE [range EXCEPT ![c] = allowed]
  /\ conf' = IF kept THEN conf
             ELSE IF allowed = {}
             THEN [conf EXCEPT !.mask = @ \ {c}, !.flags = @ \ {c}]
             ELSE [conf EXCEPT !.mask = @ \cup {c}, !.flags = @ \cup {c}]
  /\ UNCHANGED saved

----------------------------------------------------------------------------
(* createSession on a dynamic band sets the middle datarate. The device was    *)
(* personalised, or joined on one of the default channels.                     *)
Fresh == [mask |-> Default, flags |-> Default, dr |-> Keep, steps |-> 0, nb |-> 1]
FirstDR == (Min(DefaultRange) + Max(DefaultRange) + 1) \div 2

Init ==
  /\ range = [c \in Channels |-> IF c \in Default THEN DefaultRange ELSE {}]
  /\ channel \in Default \cup {NoChannel}
  /\ conf = [Fresh EXCEPT !.dr = FirstDR, !.flags = Default \ {channel}]
  /\ saved = [dr |-> FirstDR, steps |-> 0, nb |-> 0]
  /\ adr = TRUE /\ dwellTimeUp \in BOOLEAN /\ silent = 0
  /\ trans = 0 /\ asked = 0 /\ overridden = FALSE /\ events = 0

----------------------------------------------------------------------------
(* Uplinks. *)

AckReq ==
  /\ adr
  /\ silent >= Limit \/ (silent = Done /\ Rev = 0)

(* channelFlags empty: start over with all the channels that fit. With none   *)
(* of them sendReceive ignores the error and sends on the channel before.     *)
selectChannels ==
  LET flags == IF conf.flags = {} THEN Fitting(conf.dr, conf.mask) ELSE conf.flags
  IN \/ \E c \in flags : conf' = [conf EXCEPT !.flags = flags \ {c}] /\ channel' = c
     \/ flags = {} /\ UNCHANGED <<conf, channel>>

sendReceive ==
  /\ trans = 0 /\ trans' = 1
  /\ asked' = IF AckReq /\ asked < Delay THEN asked + 1 ELSE asked
  /\ selectChannels
  /\ UNCHANGED <<range, saved, adr, dwellTimeUp, silent, overridden, events>>

OnAir == trans > 0 /\ channel # NoChannel

Repeat ==
  /\ OnAir /\ trans < conf.nb /\ trans' = trans + 1
  /\ selectChannels
  /\ UNCHANGED <<range, saved, adr, dwellTimeUp, silent, asked, overridden, events>>

(* One more uplink since adrFCnt. Past Limit + Delay only the remainder by    *)
(* Delay matters.                                                             *)
Counted ==
  IF silent = Done THEN Done
  ELSE IF silent + 1 = Limit + 2 * Delay THEN Limit + Delay ELSE silent + 1

Hasty(n) == adr /\ n # Done /\ n + 1 >= Limit + Delay /\ (n + 1 - Limit) % Delay = 0
Due(n) == adr /\ n # Done /\ n >= Limit + Delay /\ (n - Limit) % Delay = 0

(* The radio fails, or parseDownlink refuses what came: the uplink counts,    *)
(* without backoff.                                                           *)
GivenUp ==
  /\ trans > 0 /\ trans' = 0
  /\ events < MaxEvents /\ events' = events + 1
  /\ silent' = Counted
  /\ UNCHANGED <<range, conf, channel, saved, adr, dwellTimeUp, asked, overridden>>

(* The radio refuses the frequency of a channel that was never chosen.        *)
NoFrequency ==
  /\ trans > 0 /\ channel = NoChannel /\ trans' = 0
  /\ silent' = Counted
  /\ UNCHANGED <<range, conf, channel, saved, adr, dwellTimeUp, asked, overridden, events>>

FullPower == /\ conf.steps > 0
             /\ PowerAck(conf, DrTx(Keep, 0))
             /\ execLinkADR(conf, DrTx(Keep, 0))
             /\ silent' = Counted

Slower(c) == DrTx(c.dr - 1, Keep)
CanSlow(c) == c.dr > 0 /\ DrAck(c, Slower(c))
DwellStops == dwellTimeUp /\ conf.dr > 0 /\ conf.dr - 1 < DwellDR

SlowDown(c) == CanSlow(c) /\ execLinkADR(c, Slower(c)) /\ silent' = Counted

NeverDone == silent' = Counted /\ conf' = enableDefaultChannels(conf, FALSE) /\ UNCHANGED saved
LastResort ==
  LET c == enableDefaultChannels(conf, FALSE) IN
  \/ SlowDown(c)
  \/ /\ ~CanSlow(c)
     /\ conf' = [c EXCEPT !.nb = 1] /\ silent' = Done
     /\ UNCHANGED saved

adrBackoff ==
  \/ FullPower
  \/ /\ ~(conf.steps > 0 /\ PowerAck(conf, DrTx(Keep, 0)))
     /\ \/ DwellStops /\ silent' = Counted /\ UNCHANGED <<conf, saved>>
        \/ ~DwellStops /\ SlowDown(conf)
        \/ ~DwellStops /\ ~CanSlow(conf) /\ LastResort

NoDownlink ==
  /\ OnAir /\ trans >= conf.nb /\ trans' = 0
  /\ IF Due(Counted) THEN adrBackoff ELSE silent' = Counted /\ UNCHANGED <<conf, saved>>
  /\ UNCHANGED <<range, channel, adr, dwellTimeUp, asked, overridden, events>>

Command ==
  \/ UNCHANGED <<range, conf, saved, dwellTimeUp>>
  \/ \E req \in Requests : execLinkADR(conf, req) /\ UNCHANGED <<range, dwellTimeUp>>
  \/ /\ \E c \in Channels, allowed \in Ranges : NewChannelReq(c, allowed)
     /\ UNCHANGED dwellTimeUp
  \/ dwellTimeUp' \in BOOLEAN /\ UNCHANGED <<range, conf, saved>>  \* TxParamSetupReq

parseDownlink ==
  /\ OnAir /\ trans' = 0
  /\ silent' = 0 /\ asked' = 0
  /\ Command
  /\ UNCHANGED <<channel, adr, overridden, events>>

----------------------------------------------------------------------------
(* The application, between uplinks. *)

Event == trans = 0 /\ events < MaxEvents /\ events' = events + 1

setDatarate == \E d \in 0..MaxDR : execLinkADR(conf, DrTx(d, Keep)) /\ UNCHANGED adr
setTxPower == \E n \in 0..(MaxStep + 1) : execLinkADR(conf, DrTx(Keep, n)) /\ UNCHANGED adr
setADR == adr' \in BOOLEAN /\ UNCHANGED <<conf, saved>>

Configure ==
  /\ Event
  /\ setDatarate \/ setTxPower \/ setADR
  /\ overridden' = TRUE
  /\ UNCHANGED <<range, channel, dwellTimeUp, silent, trans, asked>>

(* getBufferSession, power off, setBufferSession: the commands saved are      *)
(* executed again on default channels, ADR is on until the application says   *)
(* otherwise.                                                                 *)
OldChannels == Fresh
New == [Fresh EXCEPT !.mask = Defined, !.flags = Defined]
SavedRequest == [dr |-> saved.dr, steps |-> saved.steps, mask |-> conf.mask, nb |-> saved.nb]

Restart ==
  /\ Event
  /\ conf' = [LinkADR(New, SavedRequest, TRUE) EXCEPT !.flags = conf.flags]
  /\ saved' = Saved(New, SavedRequest)
  /\ adr' = TRUE /\ channel' = NoChannel
  /\ UNCHANGED <<range, dwellTimeUp, silent, trans, asked, overridden>>

Uplinks == sendReceive \/ Repeat \/ NoDownlink \/ NoFrequency

Next == Uplinks \/ GivenUp \/ parseDownlink \/ Configure \/ Restart

(* The application goes on sending.                                           *)
Spec == Init /\ [][Next]_vars /\ WF_vars(Uplinks)

----------------------------------------------------------------------------
(* Properties. *)

(* Whenever a channel of the mask allows the datarate, each transmission goes  *)
(* out on a channel of the mask, whatever commands were refused, backed off or *)
(* restored in between. (With ADR off a refused command leaves masks and flags *)
(* apart: overridden.)                                                         *)
HopsOnMask == trans > 0 /\ Fits => channel \in conf.mask \/ overridden

(* "check if any channel is flagged available" (LoRaWAN.cpp:3583): with none, *)
(* selectChannels reports an error, and nothing is sent on a channel that is  *)
(* off. Not so: sendReceive ignores the error.                                *)
NeverOffMask == trans > 0 => channel \in conf.mask \cup {NoChannel} \/ overridden

(* "check if datarate is allowed for this channel" (LoRaWAN.cpp:3536): not so *)
(* after a NewChannelReq, which flags its channel at any datarate.            *)
RangeRespected == trans > 0 /\ Fits => overridden \/ conf.dr \in range[channel]

(* The device takes no backoff step before ADR_ACK_DELAY uplinks have asked   *)
(* the network for an answer.                                                 *)
NetworkAskedFirst ==
  [][NoDownlink /\ <<conf', silent' = Done>> # <<conf, silent = Done>>
       => asked = Delay \/ overridden]_vars

(* A device restored from its Session buffer has the masks, channels, power   *)
(* and datarate of the one that saved it, as long as those allow an uplink.   *)
RestartKeepsRadio ==
  [][Restart /\ Fits => conf' = [conf EXCEPT !.nb = conf'.nb]]_vars

(* "try one of three, in order: set TxPower to max, set DR to min, enable all *)
(* default channels" (LoRaWAN.cpp:1318): a device that hears nothing ends     *)
(* with all three done, or at the datarate where the dwell time stops it.     *)
AllTried == /\ silent = Done
            /\ Default \subseteq conf.mask
            /\ ~CanSlow(conf)
BackoffCompletes ==
  <>[](silent # 0 /\ adr /\ Fits /\ ~overridden)
    => <>[](conf.steps = 0 /\ (AllTried \/ DwellStops))

(* ChMaskCntl 6, "all channels ON (that are currently defined)"               *)
(* (LoRaWAN.cpp:2896), is a mask that the device grants.                      *)
AllOnGranted == MaskAck(conf, [DrTx(Keep, Keep) EXCEPT !.mask = conf.mask \cup Defined])
=============================================================================
