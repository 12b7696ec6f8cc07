----------------------- MODULE MC_LoRaWANActivation ------------------------
(* Small instances of LoRaWANActivation for TLC, with checkSum16 as it is:    *)
(* the exclusive or of the 16-bit words of the Nonces buffer. DevNonce is in  *)
(* its bytes 7 and 8 and the low half of JoinNonce in 9 and 10: the two meet, *)
(* byte by byte, so that ordinary joins have signatures in common.            *)
EXTENDS LoRaWANActivation, Bitwise

(* The words that do not move between joins (version, mode, band, keys), such *)
(* that the two modes meet as well and that there is a signature of 0, which  *)
(* is also that of an empty buffer.                                           *)
FixedWords == [NONE |-> 0, OTAA |-> 3, ABP |-> 3]

XorSignatures == [m \in DOMAIN FixedWords, d \in 0 .. DevNonceMod, j \in JoinNonces |->
                    FixedWords[m] ^^ (d ^^ j)]
XorSignature(m, d, j) == XorSignatures[m, d, j]
=============================================================================
