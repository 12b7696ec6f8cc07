------------------------ MODULE MC_LoRaWANDataLink -------------------------
(* Small instances of LoRaWANDataLink for TLC. *)
EXTENDS LoRaWANDataLink

(* A 1.1 device of Class A that repeats its uplinks, one of Class C, and a    *)
(* 1.0 device in a multicast group.                                           *)
MixedNodes == {<<1, "A", FALSE, 2, 3>>, <<1, "C", FALSE, 1, 2>>, <<0, "A", TRUE, 1, 2>>}

(* A 1.1 device of Class A. *)
PlainNodes == {<<1, "A", FALSE, 1, 3>>}

(* A MAC-only uplink and user data, confirmed or not.                         *)
MixedUplinks == {<<{}, 0, FALSE>>, <<{"user"}, 1, FALSE>>, <<{"user"}, 1, TRUE>>}

(* The application counter passes its low bits once. *)
ShortCounters == [k \in Kinds |-> CASE k = "app" -> 3 [] k = "nwk" -> 1 [] k = "mc" -> 0]

Content(mc, port, mac, conf) == [mc |-> mc, port |-> port, mac |-> mac, conf |-> conf]

(* User data, confirmed or not, with and without commands; commands whose     *)
(* answers are too long; multicast data.                                      *)
MixedContents == { Content(FALSE, "app",  "none",  TRUE),
                   Content(FALSE, "app",  "short", FALSE),
                   Content(FALSE, "mac",  "long",  FALSE),
                   Content(TRUE,  "app",  "none",  FALSE) }

(* Commands that the network wants confirmed. *)
ConfirmedCommands == {Content(FALSE, "mac", "mute", TRUE)}
=============================================================================
