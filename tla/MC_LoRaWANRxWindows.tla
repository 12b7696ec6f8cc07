------------------------ MODULE MC_LoRaWANRxWindows ------------------------
(* A small instance of LoRaWANRxWindows for TLC. *)
EXTENDS LoRaWANRxWindows

(* The first window leaves room for an RxC window, the second for a frame of  *)
(* 10 in the first and another RxC window, but not for one of 35.             *)
Delays == [w \in ClassA |-> IF w = "Rx1" THEN 15 ELSE 44]

(* An empty frame, a frame that ends before the next window, and one that     *)
(* does not, as EU868 frames of DR0 and DR1 with 1 s between the windows.     *)
ShortToLong == {1, 10, 35}
ShortAndMedium == {1, 10}

(* The timeout interrupt of a Class A window may be as late as scanGuard; that *)
(* of an RxC window is on time.                                                *)
Punctual == [w \in ClassA \cup {"RxC"} |-> IF w = "RxC" THEN 0 ELSE ScanGuard]
=============================================================================
