--------------------------- MODULE MC_LoRaWANAdr ---------------------------
(* A small instance of LoRaWANAdr for TLC: two default channels, as AS923 and *)
(* EU433 have, and one more that may allow a datarate above theirs.           *)
EXTENDS LoRaWANAdr

DefaultChannels == {0, 1}
ExtraChannels == {2}
Slow == {0, 1}
Allowed == {{}, {1, 2}, {2}}
AllDRs == 0..2
AllSteps == 0..1

(* A datarate the mask allows or not, a power the band has or not, masks with *)
(* and without the new channel, and NbTrans 0.                                *)
SomeRequests ==
  [dr : AllDRs \cup {Keep}, steps : {1, 2, Keep}, nb : {0, 2},
   mask : {{}, {0}, {2}, {0, 1}, {0, 1, 2}}]
=============================================================================
