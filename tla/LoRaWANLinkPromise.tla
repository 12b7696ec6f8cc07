------------------------ MODULE LoRaWANLinkPromise ------------------------
(* What the two ends of an active LoRaWAN session may believe of each other,  *)
(* over an air interface that loses, delays, reorders and repeats frames:     *)
(* downlinks are taken in the order the network numbered them, each once but  *)
(* for number 0, which can be taken again and again until another has come,   *)
(* the application is told of an acknowledgement only for an uplink that the  *)
(* network has, and the network takes one only for a downlink that the device *)
(* has. Acknowledgements name a frame by the low 16 bits of its counter, and  *)
(* only those of a 1.1 session do.                                            *)
EXTENDS Integers

CONSTANTS Kinds,      \* downlink counters: application, network, multicast
          FCntMod,    \* 2^16
          FCNT_NONE,  \* no uplink
          NoneAwaited \* no downlink

VARIABLES bound,      \* acknowledgements name their frame (LoRaWAN 1.1)
          taken,      \* per kind the last downlink taken, -1 before the first
          heard,      \* confirmed uplinks that the network has
          told,       \* the uplink that the application last heard acknowledged
          confirmed,  \* confirmed downlinks that the device has: <<kind, counter>>
          acked       \* the downlink that the network last heard acknowledged

promiseVars == <<bound, taken, heard, told, confirmed, acked>>

Names(n, set) == \E m \in set : m % FCntMod = n % FCntMod
Of(k) == {d[2] : d \in {d \in confirmed : d[1] = k}}

Init == /\ bound \in BOOLEAN
        /\ taken = [k \in Kinds |-> -1]
        /\ heard = {} /\ told = FCNT_NONE
        /\ confirmed = {} /\ acked = NoneAwaited

(* The network gets an uplink, and with it possibly an acknowledgement.       *)
UplinkHeard ==
  /\ UNCHANGED <<bound, taken, told, confirmed>>
  /\ heard \subseteq heard'
  /\ bound /\ acked' # acked => Names(acked'[2], Of(acked'[1]))

(* The device takes a downlink, and with it possibly an acknowledgement.      *)
Took(k, c) ==
  /\ UNCHANGED <<bound, heard, acked>>
  /\ taken' = [taken EXCEPT ![k] = c]
  /\ confirmed' \in {confirmed, confirmed \union {<<k, c>>}}
  /\ bound /\ told' # told => Names(told', heard)

(* A downlink is taken that is numbered above all before it.                  *)
DownlinkTaken(k, c) == c > taken[k] /\ Took(k, c)

(* The exception: the downlink with number 0 is taken once more. That is no   *)
(* good promise, but the one the code gives (LoRaWANDataLink, Rebuilt and     *)
(* TakenOnce).                                                                *)
FirstTakenAgain(k) == taken[k] = 0 /\ Took(k, 0)

Next == \/ UplinkHeard
        \/ \E k \in Kinds : DownlinkTaken(k, taken'[k]) \/ FirstTakenAgain(k)

Spec == Init /\ [][Next]_promiseVars

-----------------------------------------------------------------------------
(* What the promise is for. *)

(* The application never believes in an acknowledgement of an uplink that the *)
(* network did not get, nor the network in one of a downlink that the device  *)
(* did not get.                                                               *)
AcksMeanReceived ==
  bound => /\ told # FCNT_NONE => Names(told, heard)
           /\ acked # NoneAwaited => Names(acked[2], Of(acked[1]))
=============================================================================
