------------------------ MODULE LoRaWANSessionProofs ------------------------
(* Theorems about the session that LoRaWANActivation runs: what is in RAM, in *)
(* the Session buffer and in flash belongs together, for every value of the   *)
(* constants, every order of calls and every failure. The last part is about  *)
(* LoRaWANSessionPromise: every step of the one is a step or a stutter of the *)
(* other.                                                                     *)
EXTENDS LoRaWANActivationProofs

Resumable == sessionStatus \in {"PENDING", "ACTIVE"}

-----------------------------------------------------------------------------
(* RAM and Session buffer *)

(* A resumable session is in the Session buffer, with counters no higher;     *)
(* without one all counters are zero, in RAM, buffer and flash. The rest says *)
(* where a session can be resumable at all.                                   *)
SessionStored ==
  /\ Resumable => keys = bufferSession.keys /\ fCntUp >= bufferSession.fCntUp
  /\ ~Resumable => fCntUp = 0 /\ bufferSession.fCntUp = 0
  /\ flashSession.buf.status # "PENDING"
  /\ flashSession.buf.status # "ACTIVE" => flashSession.buf.fCntUp = 0
  /\ pc \in {"off", "nonces", "session"} => sessionStatus = "NONE"
  /\ pc = "rx" => sessionStatus = "ACTIVATING" /\ lwMode = "OTAA"

(* What getBufferSession changes of the Session buffer, and what it leaves.    *)
LEMMA SessionImageFields ==
  ASSUME TypeOK
  PROVE  /\ SessionImage.status = sessionStatus
         /\ SessionImage.fCntUp = fCntUp
         /\ SessionImage.fOptsUp = fOptsUp
         /\ SessionImage.keys = bufferSession.keys
         /\ SessionImage.sig = bufferSession.sig
BY DEF TypeOK, SessionBuffers, SessionImage

(* SessionStored is inductive for an application that does not save a         *)
(* restored session before it activates it.                                   *)
LEMMA SessionStoredHolds ==
  ASSUME ~SavePending
  PROVE  Spec => []SessionStored
<1> USE DEF Resumable, airVars, netVars, flashVars
<1>1. Init => SessionStored
  BY DEF Init, SessionStored, ZeroSession
<1>2. TypeOK /\ SessionStored /\ [Next]_vars => SessionStored'
  <2> SUFFICES ASSUME TypeOK, SessionStored, [Next]_vars PROVE SessionStored'
    OBVIOUS
  <2>1. ASSUME NEW tornN \in BOOLEAN, NEW tornS \in BOOLEAN, PowerLoss(tornN, tornS)
        PROVE  SessionStored'
    <3>1. flashSession'.buf = flashSession.buf
      BY <2>1 DEF PowerLoss, TypeOK
    <3>2. QED
      BY <2>1, <3>1 DEF PowerLoss, SessionStored, ZeroSession
  <2>2. ASSUME NEW m \in Modes, Begin(m) PROVE SessionStored'
    BY <2>2 DEF Begin, clearSession, SessionStored, ZeroSession
  <2>3. CASE setBufferNonces
    BY <2>3 DEF setBufferNonces, SessionStored
  <2>4. CASE setBufferSession
    BY <2>4 DEF setBufferSession, RestoredStatus, SessionStored, TypeOK, SessionBuffers, FCnts
  <2>5. CASE SaveSession
    <3>1. sessionStatus # "PENDING" /\ fCntUp >= fCntUp
      BY <2>5, ActivationAssumption DEF SaveSession, TypeOK, FCnts
    <3>2. QED
      BY <2>5, <3>1, SessionImageFields DEF SaveSession, SessionStored, TypeOK, Statuses
  <2>6. CASE ActivateRestored
    BY <2>6 DEF ActivateRestored, SessionStored
  <2>7. CASE ActivateABP
    <3>1. bufferSession'.keys = keys /\ bufferSession'.fCntUp = bufferSession.fCntUp
      BY <2>7, CreatedType DEF ActivateABP, SessionBuffers
    <3>2. QED
      BY <2>7, <3>1 DEF ActivateABP, SessionStored
  <2>8. CASE JoinRefused \/ JoinTxTimeout
    BY <2>8, CreatedType DEF JoinRefused, JoinTxTimeout, StartJoin, SessionStored
  <2>9. CASE JoinRequestSent
    <3>1. bufferSession'.fCntUp = bufferSession.fCntUp
      BY <2>9, CreatedType DEF JoinRequestSent, StartJoin, SessionBuffers
    <3>2. QED
      BY <2>9, <3>1 DEF JoinRequestSent, StartJoin, SessionStored
  <2>10. ASSUME NEW a \in accepts, Joined(a) PROVE SessionStored'
    <3>1. bufferSession'.keys = keys' /\ bufferSession'.fCntUp = bufferSession.fCntUp
      BY <2>10 DEF Joined, TypeOK, SessionBuffers
    <3>2. QED
      BY <2>10, <3>1 DEF Joined, ReceiveAccept, SessionStored
  <2>11. ASSUME NEW a \in accepts, RejectJoinNonce(a) \/ RejectMic(a) \/ QueueFull(a)
         PROVE  SessionStored'
    BY <2>11 DEF RejectJoinNonce, RejectMic, QueueFull, ReceiveAccept, SessionStored
  <2>12. ASSUME NEW jn \in JoinNonces, NEW r \in {0, 1}, ForeignAccept(jn, r) PROVE SessionStored'
    BY <2>12 DEF ForeignAccept, SessionStored
  <2>13. CASE RevertToJoin \/ AppClearsSession
    BY <2>13 DEF RevertToJoin, AppClearsSession, clearSession, SessionStored, ZeroSession
  <2>14. ASSUME NEW macOnly \in BOOLEAN, NEW outcome \in {"error", "silence", "downlink"},
                SendReceive(macOnly, outcome)
         PROVE  SessionStored'
    BY <2>14 DEF SendReceive, NextFCnt, isActivated, SessionStored, TypeOK, SessionBuffers, FCnts
  <2>15. CASE SaveNonces
    BY <2>15 DEF SaveNonces, SessionStored
  <2>16. CASE NoJoinAccept
    BY <2>16 DEF NoJoinAccept, ramVars, SessionStored
  <2>17. CASE UNCHANGED vars \/ \E r \in requests : ServerAnswers(r)
    BY <2>17 DEF vars, ramVars, ServerAnswers, SessionStored
  <2>18. QED
    BY <2>1, <2>2, <2>3, <2>4, <2>5, <2>6, <2>7, <2>8, <2>9, <2>10, <2>11, <2>12, <2>13, <2>14,
       <2>15, <2>16, <2>17
    DEF Next, Boot, Activate, Answers
<1>3. QED
  BY <1>1, <1>2, TypeCorrect, PTL DEF Spec

(* A session that activateOTAA or activateABP resumes has all that the        *)
(* Session buffer holds for it, as long as the application does not save a    *)
(* restored session before it activates it.                                   *)
THEOREM SessionsAreIntact ==
  ASSUME ~SavePending
  PROVE  Spec => []RestoredSessionIntact
<1>1. SessionStored => RestoredSessionIntact
  BY DEF SessionStored, Resumable, RestoredSessionIntact, isActivated
<1>2. QED
  BY <1>1, SessionStoredHolds, PTL

-----------------------------------------------------------------------------
(* Node and network *)

(* The network knows the keys of every session that could be resumed, in RAM  *)
(* and in flash, those of personalisation, and those that the JoinAccepts in  *)
(* the air stand for. What is in the air of a 1.0 device answers the current  *)
(* request.                                                                   *)
KeysKnown ==
  /\ \A r \in {0, 1} : AbpKeys(r) \in issued
  /\ Resumable => keys \in issued
  /\ flashSession.buf.status = "ACTIVE" => flashSession.buf.keys \in issued
  /\ pc # "off" /\ lwMode = "ABP" => keys \in issued
  /\ \A a \in accepts : JoinKeys(a.dn, a.jn, provisioned) \in issued
  /\ pc = "rx" /\ provisioned = 0 => /\ \A r \in requests : r.dn = PrevDevNonce
                                     /\ \A a \in accepts : a.dn = PrevDevNonce

(* The keys that a JoinAccept gives the node are the ones that the server     *)
(* derived for it.                                                            *)
LEMMA AcceptKeysKnown ==
  ASSUME TypeOK, KeysKnown, NEW a \in accepts, ReceiveAccept(a), MicValid(a)
  PROVE  DerivedKeys(a) \in issued
<1>1. rev = provisioned /\ pc = "rx" /\ provisioned \in {0, 1}
  BY DEF ReceiveAccept, TypeOK
<1>2. a.dn = PrevDevNonce
  BY <1>1 DEF MicValid, KeysKnown
<1>3. QED
  BY <1>1, <1>2 DEF DerivedKeys, KeysKnown

(* KeysKnown is inductive next to SessionStored.                              *)
LEMMA KeysKnownHolds ==
  ASSUME ~SavePending, 0 \notin LateRevs
  PROVE  Spec => []KeysKnown
<1> USE DEF Resumable, airVars, netVars, flashVars
<1>1. Init => KeysKnown
  BY DEF Init, KeysKnown, ZeroSession
<1>2. TypeOK /\ SessionStored /\ KeysKnown /\ [Next]_vars => KeysKnown'
  <2> SUFFICES ASSUME TypeOK, SessionStored, KeysKnown, [Next]_vars PROVE KeysKnown'
    OBVIOUS
  <2>1. ASSUME NEW tornN \in BOOLEAN, NEW tornS \in BOOLEAN, PowerLoss(tornN, tornS)
        PROVE  KeysKnown'
    <3>1. flashSession'.buf = flashSession.buf
      BY <2>1 DEF PowerLoss, TypeOK
    <3>2. accepts' \subseteq accepts
      BY <2>1, AirClosesTakes DEF PowerLoss
    <3>3. QED
      BY <2>1, <3>1, <3>2 DEF PowerLoss, KeysKnown
  <2>2. ASSUME NEW m \in Modes, Begin(m) PROVE KeysKnown'
    <3>1. rev' \in {0, 1}
      BY <2>2 DEF Begin, TypeOK
    <3>2. m = "ABP" => keys' \in issued
      BY <2>2, <3>1 DEF Begin, KeysKnown
    <3>3. QED
      BY <2>2, <3>2 DEF Begin, clearSession, KeysKnown
  <2>3. CASE setBufferNonces
    BY <2>3 DEF setBufferNonces, KeysKnown
  <2>4. CASE setBufferSession
    BY <2>4 DEF setBufferSession, RestoredStatus, KeysKnown, SessionStored, TypeOK
  <2>5. CASE SaveSession
    <3>1. flashSession'.buf.status = "ACTIVE" => flashSession'.buf.keys \in issued
      BY <2>5, SessionImageFields DEF SaveSession, KeysKnown, SessionStored
    <3>2. QED
      BY <2>5, <3>1 DEF SaveSession, KeysKnown
  <2>6. CASE ActivateRestored
    BY <2>6 DEF ActivateRestored, KeysKnown
  <2>7. CASE ActivateABP
    BY <2>7 DEF ActivateABP, KeysKnown
  <2>8. CASE JoinRefused \/ JoinTxTimeout
    BY <2>8 DEF JoinRefused, JoinTxTimeout, StartJoin, KeysKnown
  <2>9. CASE JoinRequestSent
    <3>1. accepts' \subseteq accepts
      BY <2>9 DEF JoinRequestSent
    <3>2. PrevDevNonce' = devNonce
      BY <2>9, DevNonceSteps DEF JoinRequestSent, PrevDevNonce, NextDevNonce, TypeOK
    <3>3. provisioned = 0 => requests' = {JoinRequest} /\ accepts' = {}
      BY <2>9 DEF JoinRequestSent
    <3>4. QED
      BY <2>9, <3>1, <3>2, <3>3 DEF JoinRequestSent, StartJoin, JoinRequest, KeysKnown
  <2>10. ASSUME NEW a \in accepts, Joined(a) PROVE KeysKnown'
    <3>1. keys' \in issued
      BY <2>10, AcceptKeysKnown DEF Joined
    <3>2. accepts' \subseteq accepts
      BY <2>10, AirClosesTakes DEF Joined, ReceiveAccept
    <3>3. QED
      BY <2>10, <3>1, <3>2 DEF Joined, ReceiveAccept, KeysKnown
  <2>11. ASSUME NEW a \in accepts, RejectJoinNonce(a) \/ RejectMic(a) PROVE KeysKnown'
    <3>1. accepts' \subseteq accepts
      BY <2>11, AirClosesTakes DEF RejectJoinNonce, RejectMic, ReceiveAccept
    <3>2. QED
      BY <2>11, <3>1 DEF RejectJoinNonce, RejectMic, ReceiveAccept, KeysKnown
  <2>12. ASSUME NEW a \in accepts, QueueFull(a) PROVE KeysKnown'
    <3>1. keys' \in issued
      BY <2>12, AcceptKeysKnown DEF QueueFull
    <3>2. accepts' \subseteq accepts
      BY <2>12, AirClosesTakes DEF QueueFull, ReceiveAccept
    <3>3. QED
      BY <2>12, <3>1, <3>2 DEF QueueFull, ReceiveAccept, KeysKnown
  <2>13. ASSUME NEW jn \in JoinNonces, NEW r \in {0, 1}, ForeignAccept(jn, r) PROVE KeysKnown'
    <3>1. accepts' \subseteq accepts
      BY <2>13, AirClosesTakes DEF ForeignAccept
    <3>2. QED
      BY <2>13, <3>1 DEF ForeignAccept, KeysKnown
  <2>14. CASE RevertToJoin \/ AppClearsSession
    BY <2>14 DEF RevertToJoin, AppClearsSession, clearSession, KeysKnown
  <2>15. ASSUME NEW macOnly \in BOOLEAN, NEW outcome \in {"error", "silence", "downlink"},
                SendReceive(macOnly, outcome)
         PROVE  KeysKnown'
    BY <2>15 DEF SendReceive, KeysKnown
  <2>16. CASE SaveNonces
    BY <2>16 DEF SaveNonces, KeysKnown
  <2>17. CASE NoJoinAccept
    <3>1. accepts' \subseteq accepts
      BY <2>17, AirClosesTakes DEF NoJoinAccept
    <3>2. QED
      BY <2>17, <3>1 DEF NoJoinAccept, ramVars, KeysKnown
  <2>18. ASSUME NEW r \in requests, ServerAnswers(r) PROVE KeysKnown'
    BY <2>18 DEF ServerAnswers, ramVars, KeysKnown, PrevDevNonce
  <2>19. CASE UNCHANGED vars
    BY <2>19 DEF vars, ramVars, KeysKnown, PrevDevNonce
  <2>20. QED
    BY <2>1, <2>2, <2>3, <2>4, <2>5, <2>6, <2>7, <2>8, <2>9, <2>10, <2>11, <2>12, <2>13, <2>14,
       <2>15, <2>16, <2>17, <2>18, <2>19
    DEF Next, Boot, Activate, Answers
<1>3. QED
  BY <1>1, <1>2, TypeCorrect, SessionStoredHolds, PTL DEF Spec

(* A running session stands under keys the network has derived too, if the    *)
(* application does not save a restored session before it activates it, and   *)
(* JoinAccepts for a 1.0 device come in their own windows or not at all.      *)
THEOREM KeysAreAgreed ==
  ASSUME ~SavePending, 0 \notin LateRevs
  PROVE  Spec => []KeysAgreed
<1>1. KeysKnown => KeysAgreed
  BY DEF KeysKnown, Resumable, KeysAgreed, isActivated
<1>2. QED
  BY <1>1, KeysKnownHolds, PTL

-----------------------------------------------------------------------------
(* Session and Nonces *)

(* A Nonces buffer as getBufferNonces makes it; personalisation uses no       *)
(* nonces.                                                                    *)
Authentic(n) == /\ n.mode # "NONE" /\ n.sig = Signature(n.mode, n.dn, n.jn)
                /\ n.mode = "ABP" => n.dn = 0 /\ n.jn = 0

(* A RekeyInd where sendReceive looks for it, and a session with keys k,      *)
(* counter c and MAC queue q that it has not reverted yet.                    *)
RekeyAtHead == [pad |-> 0, ind |-> TRUE]
RekeyInTime(k, c, q) == k.src = "join" /\ q = RekeyAtHead => c <= AdrAckLimit

(* A session with keys k and signature s.                                     *)
SignedFor(k, s) == /\ SignatureOf(k) \in {s, 0}
                   /\ k.src = "abp" => s = Signature("ABP", 0, 0)

(* A resumable session, in RAM or in flash, carries the signature of the      *)
(* Nonces that it was begun with, and in RAM stands next to Nonces with this  *)
(* signature. Nothing here keeps two joins from having the same one.          *)
SessionSigned ==
  /\ pc # "off" => lwMode # "NONE"
  /\ bufferNonces # ZeroNonces => Authentic(bufferNonces) /\ bufferNonces.mode = lwMode
  /\ flashNonces.valid => Authentic(flashNonces.buf)
  /\ pc = "rx" => bufferNonces.dn = devNonce
  /\ pc # "off" /\ lwMode = "ABP" => SignatureOf(keys) \in {Signature("ABP", 0, 0), 0}
  /\ Resumable => /\ SignedFor(keys, bufferSession.sig)
                  /\ bufferSession.sig \in {bufferNonces.sig, 0}
                  /\ RekeyInTime(keys, fCntUp, fOptsUp)
  /\ flashSession.buf.status = "ACTIVE" =>
       /\ SignedFor(flashSession.buf.keys, flashSession.buf.sig)
       /\ RekeyInTime(flashSession.buf.keys, flashSession.buf.fCntUp, flashSession.buf.fOptsUp)

(* A buffer that getBufferNonces has signed is authentic, and signing it      *)
(* again changes nothing.                                                     *)
LEMMA SignedAuthentic ==
  ASSUME lwMode \in {"OTAA", "ABP"}, NEW b \in NoncesBuffers,
         lwMode = "ABP" => b.dn = 0 /\ b.jn = 0
  PROVE  /\ Authentic(Signed(b)) /\ Signed(b).mode = lwMode
         /\ Authentic(b) /\ b.mode = lwMode => Signed(b) = b
<1>1. Authentic(Signed(b)) /\ Signed(b).mode = lwMode
  BY DEF Authentic, Signed, NoncesBuffers
<1>2. ASSUME Authentic(b), b.mode = lwMode PROVE Signed(b) = b
  BY <1>2 DEF Authentic, Signed, NoncesBuffers
<1>3. QED
  BY <1>1, <1>2

(* What getBufferNonces hands out: the buffer as it is, unless that is empty. *)
LEMMA NoncesImageSigned ==
  ASSUME TypeOK, SessionSigned, pc # "off"
  PROVE  /\ Authentic(NoncesImage) /\ NoncesImage.mode = lwMode
         /\ bufferNonces # ZeroNonces => NoncesImage = bufferNonces
<1>1. lwMode \in {"OTAA", "ABP"} /\ bufferNonces \in NoncesBuffers
  BY DEF SessionSigned, TypeOK
<1>2. lwMode = "ABP" => bufferNonces.dn = 0 /\ bufferNonces.jn = 0
  BY DEF SessionSigned, Authentic, ZeroNonces
<1>3. QED
  BY <1>1, <1>2, SignedAuthentic DEF NoncesImage, SessionSigned

(* The DevNonce after the one before d is d.                                  *)
LEMMA PrevThenNext ==
  ASSUME NEW d \in DevNonces
  PROVE  (((d + DevNonceMod - 1) % DevNonceMod) + 1) % DevNonceMod = d
<1>1. DevNonceMod \in Nat /\ DevNonceMod > 1 /\ d \in Nat /\ d < DevNonceMod
  BY ActivationAssumption DEF DevNonces
<1>2. CASE d = 0
  <2>1. (d + DevNonceMod - 1) % DevNonceMod = DevNonceMod - 1
    BY <1>1, <1>2
  <2>2. QED
    BY <1>1, <1>2, <2>1
<1>3. CASE d > 0
  <2>1. (d + DevNonceMod - 1) % DevNonceMod = d - 1
    BY <1>1, <1>3
  <2>2. QED
    BY <1>1, <1>3, <2>1
<1>4. QED
  BY <1>1, <1>2, <1>3

(* Only a queue with the RekeyInd at its head has it there after a frame.     *)
LEMMA RekeyWasAtHead ==
  ASSUME NEW macOnly \in BOOLEAN, NEW outcome \in {"error", "silence", "downlink"},
         fOptsUp \in Queues, QueueAfter(QueueSent(macOnly), outcome) = RekeyAtHead
  PROVE  fOptsUp = RekeyAtHead
<1>1. EmptyQueue # RekeyAtHead
  BY DEF EmptyQueue, RekeyAtHead
<1>2. QueueSent(macOnly) = RekeyAtHead
  BY <1>1 DEF QueueAfter, Cleared
<1>3. QED
  BY <1>1, <1>2 DEF QueueSent

(* SessionSigned is inductive next to SessionStored.                          *)
LEMMA SessionSignedHolds ==
  ASSUME ~SavePending
  PROVE  Spec => []SessionSigned
<1> USE DEF Resumable, airVars, netVars, flashVars
<1>1. Init => SessionSigned
  BY DEF Init, SessionSigned, ZeroSession
<1>2. TypeOK /\ SessionStored /\ SessionSigned /\ [Next]_vars => SessionSigned'
  <2> SUFFICES ASSUME TypeOK, SessionStored, SessionSigned, [Next]_vars PROVE SessionSigned'
    OBVIOUS
  <2>1. ASSUME NEW tornN \in BOOLEAN, NEW tornS \in BOOLEAN, PowerLoss(tornN, tornS)
        PROVE  SessionSigned'
    <3>1. /\ flashSession'.buf = flashSession.buf /\ flashNonces'.buf = flashNonces.buf
          /\ flashNonces'.valid => flashNonces.valid
      BY <2>1 DEF PowerLoss, TypeOK
    <3>2. QED
      BY <2>1, <3>1 DEF PowerLoss, SessionSigned
  <2>2. ASSUME NEW m \in Modes, Begin(m) PROVE SessionSigned'
    <3>1. m \in {"OTAA", "ABP"} /\ pc' = "nonces" /\ lwMode' = m /\ bufferNonces' = ZeroNonces
          /\ flashNonces' = flashNonces /\ flashSession' = flashSession /\ sessionStatus' = "NONE"
      BY <2>2, ActivationAssumption DEF Begin, clearSession
    <3>2. m = "ABP" => SignatureOf(keys') = Signature("ABP", 0, 0)
      BY <2>2 DEF Begin, AbpKeys, SignatureOf
    <3>3. m = "ABP" => SignatureOf(keys)' = Signature("ABP", 0, 0)
      BY <3>2 DEF SignatureOf
    <3>4. QED
      BY <3>1, <3>3 DEF SessionSigned
  <2>3. CASE setBufferNonces
    BY <2>3 DEF setBufferNonces, NoncesAccepted, SessionStored, SessionSigned
  <2>4. CASE setBufferSession
    <3>1. CASE SessionMatches /\ flashSession.buf.status = "ACTIVE"
      <4>1. /\ SignedFor(flashSession.buf.keys, flashSession.buf.sig)
            /\ RekeyInTime(flashSession.buf.keys, flashSession.buf.fCntUp, flashSession.buf.fOptsUp)
            /\ flashSession.buf.sig = bufferNonces.sig
        BY <3>1 DEF SessionSigned, SessionMatches
      <4>2. /\ keys' = flashSession.buf.keys /\ fCntUp' = flashSession.buf.fCntUp
            /\ fOptsUp' = flashSession.buf.fOptsUp /\ bufferSession' = flashSession.buf
            /\ UNCHANGED <<lwMode, bufferNonces, flashNonces, flashSession>> /\ pc' = "idle"
            /\ pc = "session"
        BY <2>4, <3>1 DEF setBufferSession
      <4>3. lwMode = "ABP" => bufferNonces.sig \in {Signature("ABP", 0, 0), 0}
        BY DEF SessionSigned, Authentic, ZeroNonces
      <4>4. lwMode = "ABP" => SignatureOf(keys') \in {Signature("ABP", 0, 0), 0}
        BY <4>1, <4>2, <4>3 DEF SignedFor
      <4>5. SignedFor(keys', bufferSession'.sig) /\ RekeyInTime(keys', fCntUp', fOptsUp')
        BY <4>1, <4>2
      <4>6. QED
        BY <4>1, <4>2, <4>4, <4>5 DEF SessionSigned, SignedFor, RekeyInTime, SignatureOf
    <3>2. CASE ~(SessionMatches /\ flashSession.buf.status = "ACTIVE")
      BY <2>4, <3>2 DEF setBufferSession, RestoredStatus, SessionStored, SessionSigned
    <3>3. QED
      BY <3>1, <3>2
  <2>5. CASE SaveNonces
    <3>1. Authentic(NoncesImage) /\ NoncesImage.mode = lwMode
          /\ (bufferNonces # ZeroNonces => NoncesImage = bufferNonces)
      BY <2>5, NoncesImageSigned DEF SaveNonces
    <3>2. Resumable => bufferSession.sig \in {NoncesImage.sig, 0}
      BY <3>1 DEF SessionSigned, ZeroNonces
    <3>3. QED
      BY <2>5, <3>1, <3>2 DEF SaveNonces, SessionSigned, SignedFor, RekeyInTime, SignatureOf
  <2>6. CASE SaveSession
    <3>1. SessionImage.status = "ACTIVE" =>
            /\ SignedFor(SessionImage.keys, SessionImage.sig)
            /\ RekeyInTime(SessionImage.keys, SessionImage.fCntUp, SessionImage.fOptsUp)
      BY SessionImageFields DEF SessionSigned, SessionStored
    <3>2. QED
      BY <2>6, <3>1, SessionImageFields
      DEF SaveSession, SessionSigned, SignedFor, RekeyInTime, SignatureOf
  <2>7. CASE ActivateRestored
    BY <2>7 DEF ActivateRestored, SessionSigned
  <2>8. CASE ActivateABP
    <3>1. Authentic(NoncesImage) /\ NoncesImage.mode = "ABP"
      BY <2>8, NoncesImageSigned DEF ActivateABP
    <3>2. bufferSession'.sig = NoncesImage.sig /\ bufferNonces' = NoncesImage
      BY <2>8, CreatedType DEF ActivateABP, SessionBuffers
    <3>3. NoncesImage.sig = Signature("ABP", 0, 0)
      BY <3>1 DEF Authentic
    <3>4. SignedFor(keys, Signature("ABP", 0, 0))
      BY <2>8 DEF ActivateABP, SessionSigned, SignedFor
    <3>5. fCntUp = 0 /\ fCntUp <= AdrAckLimit
      BY <2>8, ActivationAssumption DEF ActivateABP, SessionStored
    <3>6. QED
      BY <2>8, <3>1, <3>2, <3>3, <3>4, <3>5
      DEF ActivateABP, SessionSigned, SignedFor, RekeyInTime, SignatureOf
  <2>9. CASE JoinRefused \/ JoinTxTimeout
    BY <2>9 DEF JoinRefused, JoinTxTimeout, StartJoin, SessionSigned
  <2>10. CASE JoinRequestSent
    <3>1. lwMode = "OTAA" /\ [bufferNonces EXCEPT !.dn = NextDevNonce] \in NoncesBuffers
      BY <2>10, DevNonceSteps
      DEF JoinRequestSent, StartJoin, NextDevNonce, TypeOK, NoncesBuffers
    <3>2. Authentic(NoncesOfRequest) /\ NoncesOfRequest.mode = lwMode
      BY <3>1, SignedAuthentic DEF NoncesOfRequest
    <3>3. NoncesOfRequest.dn = NextDevNonce
      BY <3>1, SignedType DEF NoncesOfRequest, TypeOK, NoncesBuffers
    <3>4. QED
      BY <2>10, <3>2, <3>3 DEF JoinRequestSent, StartJoin, SessionSigned
  <2>11. ASSUME NEW a \in accepts, Joined(a) PROVE SessionSigned'
    <3>1. lwMode = "OTAA" /\ bufferNonces.dn = devNonce /\ fCntUp = 0
      BY <2>11 DEF Joined, ReceiveAccept, SessionStored, SessionSigned
    <3>2. [bufferNonces EXCEPT !.jn = a.jn] \in NoncesBuffers
      BY DEF TypeOK, NoncesBuffers
    <3>3. Authentic(bufferNonces') /\ bufferNonces'.mode = lwMode
      BY <2>11, <3>1, <3>2, SignedAuthentic DEF Joined
    <3>4. bufferNonces'.dn = devNonce /\ bufferNonces'.jn = a.jn
      BY <2>11, <3>1, <3>2, SignedType DEF Joined, TypeOK, NoncesBuffers
    <3>5. bufferSession'.sig = bufferNonces'.sig
      BY <2>11 DEF Joined, TypeOK, SessionBuffers
    <3>6. keys'.src = "join" /\ keys'.jn = a.jn /\ (keys'.dn + 1) % DevNonceMod = devNonce
      BY <2>11, PrevThenNext DEF Joined, DerivedKeys, JoinKeys, PrevDevNonce, TypeOK
    <3>7. SignatureOf(keys') = bufferNonces'.sig
      BY <3>1, <3>3, <3>4, <3>6, <2>11 DEF SignatureOf, Authentic, Joined, ReceiveAccept
    <3>8. fCntUp' <= AdrAckLimit
      BY <2>11, <3>1, ActivationAssumption DEF Joined
    <3>9. pc' = "idle" /\ lwMode' = "OTAA" /\ UNCHANGED <<flashNonces, flashSession>>
      BY <2>11, <3>1 DEF Joined, ReceiveAccept
    <3>10. SignedFor(keys', bufferSession'.sig) /\ RekeyInTime(keys', fCntUp', fOptsUp')
      BY <3>5, <3>6, <3>7, <3>8 DEF SignedFor, RekeyInTime
    <3>11. QED
      BY <3>1, <3>3, <3>5, <3>9, <3>10
      DEF SessionSigned, SignedFor, RekeyInTime, SignatureOf, Authentic
  <2>12. ASSUME NEW a \in accepts, RejectJoinNonce(a) \/ RejectMic(a) \/ QueueFull(a)
         PROVE  SessionSigned'
    BY <2>12 DEF RejectJoinNonce, RejectMic, QueueFull, ReceiveAccept, SessionStored, SessionSigned
  <2>13. ASSUME NEW jn \in JoinNonces, NEW r \in {0, 1}, ForeignAccept(jn, r) PROVE SessionSigned'
    BY <2>13 DEF ForeignAccept, SessionSigned
  <2>14. CASE RevertToJoin \/ AppClearsSession
    BY <2>14 DEF RevertToJoin, AppClearsSession, clearSession, SessionSigned
  <2>15. ASSUME NEW macOnly \in BOOLEAN, NEW outcome \in {"error", "silence", "downlink"},
                SendReceive(macOnly, outcome)
         PROVE  SessionSigned'
    <3>1. Resumable /\ RekeyInTime(keys, fCntUp, fOptsUp)
      BY <2>15 DEF SendReceive, isActivated, SessionSigned
    <3>2. ASSUME keys.src = "join", fOptsUp' = RekeyAtHead PROVE fCntUp' <= AdrAckLimit
      <4>1. fOptsUp = RekeyAtHead
        BY <2>15, <3>2, RekeyWasAtHead DEF SendReceive, TypeOK
      <4>2. fCntUp <= AdrAckLimit /\ fCntUp # AdrAckLimit
        BY <2>15, <3>1, <3>2, <4>1 DEF SendReceive, RekeyInTime, RekeyOverdue, RekeyAtHead
      <4>3. QED
        BY <2>15, <4>2, ActivationAssumption DEF SendReceive, NextFCnt, TypeOK, FCnts
    <3>3. RekeyInTime(keys, fCntUp, fOptsUp)'
      BY <2>15, <3>2 DEF SendReceive, RekeyInTime
    <3>4. QED
      BY <2>15, <3>3 DEF SendReceive, isActivated, SessionSigned, SignedFor, SignatureOf, RekeyInTime
  <2>16. CASE NoJoinAccept
    BY <2>16 DEF NoJoinAccept, ramVars, SessionSigned
  <2>17. CASE UNCHANGED vars \/ \E r \in requests : ServerAnswers(r)
    BY <2>17 DEF vars, ramVars, ServerAnswers, SessionSigned
  <2>18. QED
    BY <2>1, <2>2, <2>3, <2>4, <2>5, <2>6, <2>7, <2>8, <2>9, <2>10, <2>11, <2>12, <2>13, <2>14,
       <2>15, <2>16, <2>17
    DEF Next, Boot, Activate, Answers
<1>3. QED
  BY <1>1, <1>2, TypeCorrect, SessionStoredHolds, PTL DEF Spec

(* A session that runs or waits to be activated was begun with Nonces of the  *)
(* same signature as the ones next to it, whichever buffers a power failure   *)
(* kept from flash, for every checksum.                                       *)
THEOREM SessionsAreSigned ==
  ASSUME ~SavePending
  PROVE  Spec => []SessionSignedByNonces
<1>1. SessionSigned => SessionSignedByNonces
  BY DEF SessionSigned, SignedFor, Resumable, SessionSignedByNonces
<1>2. QED
  BY <1>1, SessionSignedHolds, PTL

(* A joined session with its RekeyInd at the head of the queue does not get   *)
(* past the ADR_ACK_LIMIT-th frame, for every limit and every checksum, also  *)
(* over restarts.                                                             *)
THEOREM PendingRekeysRevert ==
  ASSUME ~SavePending
  PROVE  Spec => []PendingRekeyReverts
<1>1. SessionSigned => PendingRekeyReverts
  BY DEF SessionSigned, RekeyInTime, RekeyAtHead, Resumable, PendingRekeyReverts, isActivated
<1>2. QED
  BY <1>1, SessionSignedHolds, PTL

-----------------------------------------------------------------------------
(* Keys are fresh *)

AcceptKeys(a) == JoinKeys(a.dn, a.jn, provisioned)

(* The keys that a JoinAccept in the air stands for are those of no session   *)
(* yet, in RAM or in flash, and no frame was sent under them.                 *)
KeysFresh ==
  /\ \A k \in issued : k # NoKeys /\ k.jn <= server.joinNonce
  /\ \A f \in uplinks : f[1] \in issued
  /\ \A a, b \in accepts : a.jn = b.jn => a = b
  /\ \A a \in accepts :
        /\ Resumable => keys # AcceptKeys(a)
        /\ pc # "off" /\ lwMode = "ABP" => keys # AcceptKeys(a)
        /\ flashSession.buf.status = "ACTIVE" => flashSession.buf.keys # AcceptKeys(a)
        /\ \A f \in uplinks : f[1] # AcceptKeys(a)

(* A JoinAccept that passes the MIC gives the node the keys it stands for.    *)
LEMMA DerivedAsIssued ==
  ASSUME TypeOK, KeysKnown, NEW a \in accepts, ReceiveAccept(a), MicValid(a)
  PROVE  DerivedKeys(a) = AcceptKeys(a)
<1>1. rev = provisioned /\ pc = "rx" /\ provisioned \in {0, 1}
  BY DEF ReceiveAccept, TypeOK
<1>2. a.dn = PrevDevNonce
  BY <1>1 DEF MicValid, KeysKnown
<1>3. QED
  BY <1>1, <1>2 DEF DerivedKeys, AcceptKeys

(* Keys with different JoinNonces differ, and no joined keys are ABP keys.    *)
LEMMA KeysDiffer ==
  /\ \A d1, d2, j1, j2, r1, r2 : j1 # j2 => JoinKeys(d1, j1, r1) # JoinKeys(d2, j2, r2)
  /\ \A d, j, r1, r2 : JoinKeys(d, j, r1) # AbpKeys(r2) /\ JoinKeys(d, j, r1) # NoKeys
  /\ \A d, j, r : JoinKeys(d, j, r).jn = j
  /\ \A r : AbpKeys(r) # NoKeys /\ AbpKeys(r).jn = 0
BY DEF JoinKeys, AbpKeys, NoKeys

(* Fewer JoinAccepts in the air leave KeysFresh as it is.                     *)
LEMMA FreshWithLess ==
  ASSUME KeysFresh, accepts' \subseteq accepts,
         UNCHANGED <<issued, server, uplinks, provisioned, keys>>,
         Resumable' => Resumable,
         pc' # "off" /\ lwMode' = "ABP" => pc # "off" /\ lwMode = "ABP",
         flashSession'.buf = flashSession.buf
  PROVE  KeysFresh'
BY DEF KeysFresh, AcceptKeys

(* KeysFresh is inductive next to KeysKnown and SessionStored.                *)
LEMMA KeysFreshHolds ==
  ASSUME ~SavePending, 0 \notin LateRevs
  PROVE  Spec => []KeysFresh
<1> USE DEF airVars, netVars, flashVars
<1>1. Init => KeysFresh
  BY KeysDiffer DEF Init, KeysFresh
<1>2. TypeOK /\ SessionStored /\ KeysKnown /\ KeysFresh /\ [Next]_vars => KeysFresh'
  <2> SUFFICES ASSUME TypeOK, SessionStored, KeysKnown, KeysFresh, [Next]_vars PROVE KeysFresh'
    OBVIOUS
  <2>1. ASSUME NEW tornN \in BOOLEAN, NEW tornS \in BOOLEAN, PowerLoss(tornN, tornS)
        PROVE  KeysFresh'
    <3>1. flashSession'.buf = flashSession.buf
      BY <2>1 DEF PowerLoss, TypeOK
    <3>2. accepts' \subseteq accepts
      BY <2>1, AirClosesTakes DEF PowerLoss
    <3>3. QED
      BY <2>1, <3>1, <3>2 DEF PowerLoss, KeysFresh, AcceptKeys, Resumable
  <2>2. ASSUME NEW m \in Modes, Begin(m) PROVE KeysFresh'
    <3>1. \A a \in accepts : m = "ABP" => keys' # AcceptKeys(a)
      BY <2>2, KeysDiffer DEF Begin, AcceptKeys
    <3>2. QED
      BY <2>2, <3>1 DEF Begin, clearSession, KeysFresh, AcceptKeys, Resumable
  <2>3. CASE setBufferSession
    BY <2>3 DEF setBufferSession, RestoredStatus, SessionStored, KeysFresh, AcceptKeys, Resumable
  <2>4. CASE SaveSession
    BY <2>4, SessionImageFields
    DEF SaveSession, SessionStored, KeysFresh, AcceptKeys, Resumable
  <2>5. CASE ActivateABP
    BY <2>5 DEF ActivateABP, KeysFresh, AcceptKeys, Resumable
  <2>6. CASE JoinRequestSent \/ JoinRefused \/ JoinTxTimeout
    <3>1. accepts' \subseteq accepts
      BY <2>6 DEF JoinRequestSent, JoinRefused, JoinTxTimeout, StartJoin
    <3>2. QED
      BY <2>6, <3>1, FreshWithLess
      DEF JoinRequestSent, JoinRefused, JoinTxTimeout, StartJoin, Resumable
  <2>7. ASSUME NEW a \in accepts, Joined(a) PROVE KeysFresh'
    <3>1. keys' = AcceptKeys(a)
      BY <2>7, DerivedAsIssued DEF Joined
    <3>2. accepts' \subseteq accepts \ {a}
      BY <2>7 DEF Joined, ReceiveAccept, AirCloses
    <3>3. \A b \in accepts' : keys' # AcceptKeys(b)
      BY <3>1, <3>2, KeysDiffer DEF KeysFresh, AcceptKeys
    <3>4. QED
      BY <2>7, <3>2, <3>3 DEF Joined, ReceiveAccept, KeysFresh, AcceptKeys
  <2>8. ASSUME NEW a \in accepts, QueueFull(a) PROVE KeysFresh'
    <3>1. accepts' \subseteq accepts
      BY <2>8, AirClosesTakes DEF QueueFull, ReceiveAccept
    <3>2. ~Resumable' /\ lwMode' = "OTAA"
      BY <2>8 DEF QueueFull, ReceiveAccept, SessionStored, Resumable
    <3>3. QED
      BY <2>8, <3>1, <3>2 DEF QueueFull, ReceiveAccept, KeysFresh, AcceptKeys
  <2>9. ASSUME NEW a \in accepts, RejectJoinNonce(a) \/ RejectMic(a) PROVE KeysFresh'
    <3>1. accepts' \subseteq accepts
      BY <2>9, AirClosesTakes DEF RejectJoinNonce, RejectMic, ReceiveAccept
    <3>2. QED
      BY <2>9, <3>1, FreshWithLess DEF RejectJoinNonce, RejectMic, ReceiveAccept, Resumable
  <2>10. ASSUME NEW jn \in JoinNonces, NEW r \in {0, 1}, ForeignAccept(jn, r) PROVE KeysFresh'
    <3>1. accepts' \subseteq accepts
      BY <2>10, AirClosesTakes DEF ForeignAccept
    <3>2. QED
      BY <2>10, <3>1, FreshWithLess DEF ForeignAccept, Resumable
  <2>11. CASE NoJoinAccept
    <3>1. accepts' \subseteq accepts
      BY <2>11, AirClosesTakes DEF NoJoinAccept
    <3>2. QED
      BY <2>11, <3>1, FreshWithLess DEF NoJoinAccept, ramVars, Resumable
  <2>12. CASE RevertToJoin \/ AppClearsSession \/ ActivateRestored \/ SaveNonces \/ setBufferNonces
    BY <2>12, FreshWithLess
    DEF RevertToJoin, AppClearsSession, clearSession, ActivateRestored, SaveNonces,
        setBufferNonces, Resumable
  <2>13. ASSUME NEW macOnly \in BOOLEAN, NEW outcome \in {"error", "silence", "downlink"},
                SendReceive(macOnly, outcome)
         PROVE  KeysFresh'
    <3>1. Resumable /\ keys \in issued
      BY <2>13 DEF SendReceive, isActivated, Resumable, KeysKnown
    <3>2. \A f \in uplinks' : f \in uplinks \/ f[1] = keys
      BY <2>13 DEF SendReceive
    <3>3. QED
      BY <2>13, <3>1, <3>2 DEF SendReceive, KeysFresh, AcceptKeys, Resumable
  <2>14. ASSUME NEW r \in requests, ServerAnswers(r) PROVE KeysFresh'
    <3> DEFINE a == [dn |-> r.dn, jn |-> server.joinNonce + 1]
    <3>1. /\ server'.joinNonce = server.joinNonce + 1 /\ server.joinNonce \in Nat
          /\ issued' = issued \union {AcceptKeys(a)} /\ accepts' = accepts \union {a}
          /\ UNCHANGED <<keys, sessionStatus, lwMode, pc, flashSession, uplinks, provisioned>>
      BY <2>14, ActivationAssumption
      DEF ServerAnswers, ramVars, AcceptKeys, TypeOK, JoinNonces
    <3>2. \A k \in issued : k # AcceptKeys(a) /\ k.jn \in Nat
      BY <3>1, KeysDiffer, ActivationAssumption
      DEF KeysFresh, AcceptKeys, TypeOK, SessionKeys, JoinNonces
    <3>3. \A k \in issued' : k # NoKeys /\ k.jn <= server'.joinNonce
      BY <3>1, <3>2, KeysDiffer DEF KeysFresh, AcceptKeys
    <3>4. \A b \in accepts : AcceptKeys(b) \in issued /\ b.jn <= server.joinNonce
      BY KeysDiffer DEF KeysKnown, KeysFresh, AcceptKeys
    <3>5. \A b \in accepts : b.jn # a.jn
      BY <3>1, <3>4, ActivationAssumption DEF TypeOK, JoinNonces
    <3>6. /\ Resumable => keys \in issued
          /\ pc # "off" /\ lwMode = "ABP" => keys \in issued
          /\ flashSession.buf.status = "ACTIVE" => flashSession.buf.keys \in issued
      BY DEF KeysKnown
    <3>7. QED
      BY <3>1, <3>2, <3>3, <3>5, <3>6 DEF KeysFresh, AcceptKeys, Resumable
  <2>15. CASE UNCHANGED vars
    BY <2>15, FreshWithLess DEF vars, ramVars, Resumable
  <2>16. QED
    BY <2>1, <2>2, <2>3, <2>4, <2>5, <2>6, <2>7, <2>8, <2>9, <2>10, <2>11, <2>12, <2>13, <2>14,
       <2>15
    DEF Next, Boot, Activate, Answers
<1>3. QED
  BY <1>1, <1>2, TypeCorrect, SessionStoredHolds, KeysKnownHolds, PTL DEF Spec

-----------------------------------------------------------------------------
(* Counters are fresh *)

(* All frames sent under the keys k have counters below c.                    *)
CountedBelow(k, c) == \A f \in uplinks : f[1] = k => f[2] < c

(* No frame was sent with the keys of personalisation.                        *)
AbpUnused == \A f \in uplinks : f[1].src # "abp"

(* What flash holds is enough to go on from. ABP keys that were used are in   *)
(* the Session buffer, with the signature of the Nonces next to it.           *)
FlashResumes == flashSession.buf.status = "ACTIVE" /\ flashSession.buf.sig = flashNonces.buf.sig
FlashCounts ==
  /\ flashNonces.valid /\ flashSession.valid
  /\ FlashResumes => CountedBelow(flashSession.buf.keys, flashSession.buf.fCntUp)
  /\ flashNonces.buf.mode = "ABP" =>
        (FlashResumes /\ flashSession.buf.keys.src = "abp") \/ AbpUnused

(* While the application has lost none, the counters sent in a session are    *)
(* below the one it is at, and between restarts below the one in flash: the   *)
(* way of the session from RAM into flash and back. ABP keys are in use from  *)
(* their first frame on; before it, a session that was joined may have come   *)
(* back in their place, where two signatures collide.                         *)
FramesCounted ==
  ~sessionStale /\ uplinks # {} =>
    /\ InUse /\ Resumable => CountedBelow(keys, fCntUp)
    /\ InUse /\ lwMode = "ABP" => \/ Resumable /\ keys.src = "abp"
                                  \/ AbpUnused /\ (Resumable \/ keys.src = "abp")
    /\ ~InUse => FlashCounts
    /\ pc \in {"nonces", "session"} => lwMode = flashNonces.buf.mode
    /\ pc \in {"nonces", "session"} /\ lwMode = "ABP" => keys.src = "abp"
    /\ pc = "session" => bufferNonces = flashNonces.buf

(* While the node is in use flash holds all that counts, or losing RAM is a   *)
(* loss.                                                                      *)
LEMMA FlashSurvives ==
  ASSUME TypeOK, SessionStored, SessionSigned, FramesCounted,
         ~sessionStale, uplinks # {}, ~SessionBehind
  PROVE  FlashCounts
<1>1. CASE InUse
  <2>1. flashSession = [valid |-> TRUE, buf |-> Restorable(SessionImage)]
        /\ flashNonces = [valid |-> TRUE, buf |-> NoncesImage]
    BY <1>1 DEF SessionBehind, SessionCurrent
  <2>2. Authentic(NoncesImage) /\ NoncesImage.mode = lwMode
    BY <1>1, NoncesImageSigned DEF InUse
  <2>3. lwMode = "ABP" => NoncesImage.sig = Signature("ABP", 0, 0)
    BY <2>2 DEF Authentic
  <2>4. /\ flashSession.buf.status = "ACTIVE" <=> Resumable
        /\ flashSession.buf.keys = bufferSession.keys /\ flashSession.buf.fCntUp = fCntUp
        /\ flashSession.buf.sig = bufferSession.sig
    <3>1. SessionImage \in SessionBuffers
      BY DEF TypeOK, SessionImage, SessionBuffers
    <3>2. /\ Restorable(SessionImage).status = "ACTIVE" <=> Resumable
          /\ Restorable(SessionImage).keys = SessionImage.keys
          /\ Restorable(SessionImage).fCntUp = SessionImage.fCntUp
          /\ Restorable(SessionImage).sig = SessionImage.sig
      BY <3>1, SessionImageFields DEF Restorable, SessionBuffers, Resumable
    <3>3. QED
      BY <2>1, <3>2, SessionImageFields
  <2>5. CASE Resumable
    <3>1. CountedBelow(keys, fCntUp) /\ keys = bufferSession.keys
          /\ SignedFor(keys, bufferSession.sig)
      BY <1>1, <2>5 DEF FramesCounted, SessionStored, SessionSigned
    <3>2. lwMode = "ABP" /\ keys.src = "abp" => FlashResumes
      BY <2>1, <2>3, <2>4, <2>5, <3>1 DEF FlashResumes, SignedFor
    <3>3. lwMode = "ABP" => keys.src = "abp" \/ AbpUnused
      BY <1>1 DEF FramesCounted
    <3>4. QED
      BY <2>1, <2>2, <2>4, <3>1, <3>2, <3>3 DEF FlashCounts
  <2>6. CASE ~Resumable
    <3>1. lwMode = "ABP" => AbpUnused
      BY <1>1, <2>6 DEF FramesCounted
    <3>2. ~FlashResumes
      BY <2>4, <2>6 DEF FlashResumes
    <3>3. QED
      BY <2>1, <2>2, <3>1, <3>2 DEF FlashCounts
  <2>7. QED
    BY <2>5, <2>6
<1>2. CASE ~InUse
  BY <1>2 DEF FramesCounted
<1>3. QED
  BY <1>1, <1>2

(* FramesCounted is inductive next to the invariants before it.               *)
LEMMA FramesCountedHolds ==
  ASSUME ~SavePending, 0 \notin LateRevs
  PROVE  Spec => []FramesCounted
<1> USE DEF airVars, netVars, flashVars
<1>1. Init => FramesCounted
  BY DEF Init, FramesCounted
<1>2. TypeOK /\ SessionStored /\ SessionSigned /\ KeysKnown /\ KeysFresh /\ FramesCounted
        /\ [Next]_vars => FramesCounted'
  <2> SUFFICES ASSUME TypeOK, SessionStored, SessionSigned, KeysKnown, KeysFresh, FramesCounted,
                      [Next]_vars, ~sessionStale', uplinks' # {}
               PROVE  FramesCounted'
    BY DEF FramesCounted
  <2>1. ASSUME NEW tornN \in BOOLEAN, NEW tornS \in BOOLEAN, PowerLoss(tornN, tornS)
        PROVE  FramesCounted'
    <3>1. uplinks # {} /\ ~sessionStale /\ ~tornN /\ ~tornS /\ ~SessionBehind
      BY <2>1 DEF PowerLoss, DropRam, TypeOK
    <3>2. FlashCounts
      BY <3>1, FlashSurvives
    <3>3. flashNonces' = flashNonces /\ flashSession' = flashSession /\ uplinks' = uplinks
      BY <2>1, <3>1, <3>2 DEF PowerLoss, TypeOK, FlashCounts
    <3>4. FlashCounts'
      BY <3>2, <3>3 DEF FlashCounts, FlashResumes, AbpUnused, CountedBelow
    <3>5. QED
      BY <2>1, <3>4 DEF PowerLoss, FramesCounted, InUse
  <2>2. ASSUME NEW m \in Modes, Begin(m) PROVE FramesCounted'
    <3>1. uplinks # {} /\ ~sessionStale /\ ~SessionBehind
          /\ ~(flashNonces.valid /\ flashNonces.buf.mode # m)
      BY <2>2 DEF Begin, TypeOK
    <3>2. FlashCounts
      BY <3>1, FlashSurvives
    <3>3. FlashCounts'
      BY <2>2, <3>2 DEF Begin, FlashCounts, FlashResumes, AbpUnused, CountedBelow
    <3>4. m = "ABP" => keys'.src = "abp"
      BY <2>2 DEF Begin, AbpKeys
    <3>5. pc' = "nonces" /\ lwMode' = m /\ flashNonces' = flashNonces /\ flashNonces.buf.mode = m
      BY <2>2, <3>1, <3>2 DEF Begin, FlashCounts
    <3>6. ~InUse'
      BY <3>5 DEF InUse
    <3>7. QED
      BY <3>3, <3>4, <3>5, <3>6 DEF FramesCounted
  <2>3. CASE setBufferNonces
    <3>1. FlashCounts /\ lwMode = flashNonces.buf.mode /\ (lwMode = "ABP" => keys.src = "abp")
      BY <2>3 DEF setBufferNonces, FramesCounted, InUse
    <3>2. FlashCounts'
      BY <2>3, <3>1 DEF setBufferNonces, FlashCounts, FlashResumes, AbpUnused, CountedBelow
    <3>3. /\ pc' = "session" /\ bufferNonces' = flashNonces.buf
          /\ UNCHANGED <<lwMode, keys, flashNonces>>
      BY <2>3, <3>1 DEF setBufferNonces, NoncesAccepted, FlashCounts
    <3>4. ~InUse'
      BY <3>3 DEF InUse
    <3>5. QED
      BY <3>1, <3>2, <3>3, <3>4 DEF FramesCounted
  <2>4. CASE setBufferSession
    <3>1. /\ FlashCounts /\ lwMode = flashNonces.buf.mode /\ bufferNonces = flashNonces.buf
          /\ lwMode = "ABP" => keys.src = "abp"
      BY <2>4 DEF setBufferSession, FramesCounted, InUse
    <3>2. AbpUnused => AbpUnused'
      BY <2>4 DEF setBufferSession, AbpUnused
    <3>3. CASE FlashResumes
      <4>1. SessionMatches
        BY <3>1, <3>3 DEF FlashCounts, FlashResumes, SessionMatches
      <4>2. /\ keys' = flashSession.buf.keys /\ fCntUp' = flashSession.buf.fCntUp
            /\ sessionStatus' = "PENDING" /\ uplinks' = uplinks /\ pc' = "idle" /\ lwMode' = lwMode
        BY <2>4, <3>3, <4>1 DEF setBufferSession, RestoredStatus, FlashResumes
      <4>3. CountedBelow(keys, fCntUp)'
        BY <3>1, <3>3, <4>2 DEF FlashCounts, CountedBelow
      <4>4. lwMode = "ABP" => flashSession.buf.keys.src = "abp" \/ AbpUnused
        BY <3>1 DEF FlashCounts
      <4>5. QED
        BY <3>2, <4>2, <4>3, <4>4 DEF FramesCounted, Resumable, InUse
    <3>4. CASE ~FlashResumes
      <4>1. /\ ~Resumable' /\ pc' = "idle" /\ lwMode' = lwMode /\ keys' = keys
        BY <2>4, <3>1, <3>4
        DEF setBufferSession, SessionMatches, RestoredStatus, SessionStored, FlashCounts,
            FlashResumes, Resumable
      <4>2. lwMode = "ABP" => AbpUnused
        BY <3>1, <3>4 DEF FlashCounts
      <4>3. QED
        BY <3>1, <3>2, <4>1, <4>2 DEF FramesCounted, InUse
    <3>5. QED
      BY <3>3, <3>4
  <2>5. CASE SaveNonces \/ SaveSession \/ ActivateRestored
    BY <2>5
    DEF SaveNonces, SaveSession, ActivateRestored, FramesCounted, CountedBelow, AbpUnused,
        Resumable, InUse
  <2>6. CASE ActivateABP
    <3>1. /\ AbpUnused /\ keys.src = "abp" /\ keys' = keys /\ uplinks' = uplinks
          /\ pc' = "idle" /\ sessionStatus' = "ACTIVE"
      BY <2>6 DEF ActivateABP, FramesCounted, Resumable, InUse
    <3>2. CountedBelow(keys, fCntUp)'
      BY <3>1 DEF AbpUnused, CountedBelow
    <3>3. QED
      BY <3>1, <3>2 DEF FramesCounted, Resumable, InUse
  <2>7. CASE JoinRequestSent \/ JoinRefused \/ JoinTxTimeout
    BY <2>7
    DEF JoinRequestSent, JoinRefused, JoinTxTimeout, StartJoin, FramesCounted, Resumable, InUse
  <2>8. ASSUME NEW a \in accepts, Joined(a) PROVE FramesCounted'
    <3>1. keys' = AcceptKeys(a) /\ lwMode' = "OTAA" /\ pc' = "idle" /\ uplinks' = uplinks
      BY <2>8, DerivedAsIssued DEF Joined, ReceiveAccept, SessionStored
    <3>2. CountedBelow(keys, fCntUp)'
      BY <3>1 DEF CountedBelow, KeysFresh
    <3>3. QED
      BY <3>1, <3>2 DEF FramesCounted, InUse
  <2>9. ASSUME NEW a \in accepts, RejectJoinNonce(a) \/ RejectMic(a) \/ QueueFull(a)
        PROVE  FramesCounted'
    BY <2>9 DEF RejectJoinNonce, RejectMic, QueueFull, ReceiveAccept, SessionStored, FramesCounted,
                Resumable, InUse
  <2>10. ASSUME NEW jn \in JoinNonces, NEW r \in {0, 1}, ForeignAccept(jn, r) PROVE FramesCounted'
    BY <2>10 DEF ForeignAccept, SessionStored, FramesCounted, Resumable, InUse
  <2>11. CASE NoJoinAccept
    BY <2>11 DEF NoJoinAccept, ramVars, SessionStored, FramesCounted, Resumable, InUse
  <2>12. CASE RevertToJoin \/ AppClearsSession
    <3>1. pc' = "idle" /\ sessionStatus' = "NONE" /\ lwMode' # "ABP"
      BY <2>12 DEF RevertToJoin, AppClearsSession, StartsOver, clearSession, TypeOK
    <3>2. QED
      BY <3>1 DEF FramesCounted, Resumable, InUse
  <2>13. ASSUME NEW macOnly \in BOOLEAN, NEW outcome \in {"error", "silence", "downlink"},
                SendReceive(macOnly, outcome)
         PROVE  FramesCounted'
    <3>1. /\ pc' = "idle" /\ Resumable' /\ InUse /\ Resumable /\ ~sessionStale
          /\ keys' = keys /\ fCntUp' = fCntUp + 1 /\ uplinks' = uplinks \union {<<keys, fCntUp>>}
      BY <2>13 DEF SendReceive, NextFCnt, isActivated, Resumable, InUse
    <3>2. CountedBelow(keys, fCntUp)
      BY <3>1 DEF FramesCounted, CountedBelow
    <3>3. fCntUp \in Nat /\ \A f \in uplinks : f[2] \in Nat
      BY ActivationAssumption DEF TypeOK, FCnts
    <3>4. CountedBelow(keys, fCntUp)'
      BY <3>1, <3>2, <3>3 DEF CountedBelow
    <3>5. lwMode' = lwMode /\ (AbpUnused /\ keys.src # "abp" => AbpUnused')
      BY <2>13, <3>1 DEF SendReceive, AbpUnused
    <3>6. QED
      <4>1. lwMode = "ABP" /\ uplinks # {} => keys.src = "abp" \/ AbpUnused
        BY <3>1 DEF FramesCounted
      <4>2. lwMode = "ABP" /\ uplinks = {} => keys.src = "abp" \/ AbpUnused
        BY DEF AbpUnused
      <4>3. QED
        BY <3>1, <3>4, <3>5, <4>1, <4>2 DEF FramesCounted, InUse
  <2>14. ASSUME NEW r \in requests, ServerAnswers(r) PROVE FramesCounted'
    BY <2>14
    DEF ServerAnswers, ramVars, FramesCounted, FlashCounts, FlashResumes, AbpUnused, CountedBelow,
        Resumable, InUse
  <2>15. CASE UNCHANGED vars
    BY <2>15
    DEF vars, ramVars, FramesCounted, FlashCounts, FlashResumes, AbpUnused, CountedBelow,
        Resumable, InUse
  <2>16. QED
    BY <2>1, <2>2, <2>3, <2>4, <2>5, <2>6, <2>7, <2>8, <2>9, <2>10, <2>11, <2>12, <2>13, <2>14,
       <2>15
    DEF Next, Boot, Activate, Answers
<1>3. QED
  BY <1>1, <1>2, TypeCorrect, SessionStoredHolds, SessionSignedHolds, KeysKnownHolds,
     KeysFreshHolds, PTL DEF Spec

-----------------------------------------------------------------------------
(* The promise *)

(* The session that the promise is about.                                     *)
RunningKeys == IF isActivated THEN keys ELSE NoKeys

(* What never recovers, as the promise wants it.                              *)
LEMMA FlagsStay ==
  ASSUME TypeOK, TypeOK', Next
  PROVE  Promise!Flags
<1>1. noncesStale => noncesStale'
  BY DEF Next, Boot, Activate, Answers, PowerLoss, DropRam, Begin, setBufferNonces,
         setBufferSession, SaveNonces, SaveSession, ActivateRestored, ActivateABP, StartJoin,
         JoinRefused, JoinTxTimeout, JoinRequestSent, ServerAnswers, NoJoinAccept, ReceiveAccept,
         RejectJoinNonce, RejectMic, QueueFull, Joined, ForeignAccept, RevertToJoin, SendReceive,
         AppClearsSession
<1>2. sessionStale => sessionStale'
  BY DEF Next, Boot, Activate, Answers, PowerLoss, DropRam, Begin, setBufferNonces,
         setBufferSession, SaveNonces, SaveSession, ActivateRestored, ActivateABP, StartJoin,
         JoinRefused, JoinTxTimeout, JoinRequestSent, ServerAnswers, NoJoinAccept, ReceiveAccept,
         RejectJoinNonce, RejectMic, QueueFull, Joined, ForeignAccept, RevertToJoin, SendReceive,
         AppClearsSession
<1>3. QED
  BY <1>1, <1>2 DEF TypeOK, Promise!Flags

(* A step that only enters, leaves or keeps a session.                        *)
LEMMA SessionSteps ==
  ASSUME Promise!Flags, RunningKeys \in SessionKeys, RunningKeys' \in SessionKeys,
         UNCHANGED <<issued, requested, uplinks, sent>>,
         RunningKeys # NoKeys /\ RunningKeys' # NoKeys => RunningKeys' = RunningKeys,
         RunningKeys' # NoKeys => RunningKeys' \in issued
  PROVE  Promise!Next
<1>1. CASE RunningKeys' = RunningKeys
  BY <1>1 DEF RunningKeys, Promise!Next, Promise!Idle
<1>2. CASE RunningKeys' # RunningKeys /\ RunningKeys' = NoKeys
  BY <1>2 DEF RunningKeys, Promise!Next, Promise!Leave
<1>3. CASE RunningKeys' # RunningKeys /\ RunningKeys' # NoKeys
  BY <1>3 DEF RunningKeys, Promise!Next, Promise!Enter
<1>4. QED
  BY <1>1, <1>2, <1>3

(* The node keeps the promise: no DevNonce twice, no session under keys that  *)
(* the network does not know, no frame counter twice under one set of keys,   *)
(* unless the application let go of persistent state.                         *)
THEOREM PromiseIsKept ==
  ASSUME ~SavePending, 0 \notin LateRevs
  PROVE  Spec => KeepsPromise
<1> USE DEF airVars, netVars, flashVars
<1>1. Init => Promise!Init
  BY ZeroTypes DEF Init, Promise!Init, isActivated
<1>2. /\ TypeOK /\ TypeOK' /\ NoncesAhead /\ KeysKnown /\ KeysKnown'
      /\ SessionStored /\ KeysFresh /\ FramesCounted /\ [Next]_vars
      => [Promise!Next]_(Promise!promiseVars)
  <2> SUFFICES ASSUME TypeOK, TypeOK', NoncesAhead, KeysKnown, KeysKnown',
                      SessionStored, KeysFresh, FramesCounted, [Next]_vars
               PROVE  Promise!Next \/ UNCHANGED Promise!promiseVars
    OBVIOUS
  <2>1. CASE UNCHANGED vars
    BY <2>1 DEF vars, ramVars, Promise!promiseVars, isActivated
  <2>2. CASE Next
    <3>1. Promise!Flags
      BY <2>2, FlagsStay
    <3>2. RunningKeys \in SessionKeys /\ RunningKeys' \in SessionKeys
      BY ZeroTypes DEF RunningKeys, TypeOK
    <3>3. /\ RunningKeys # NoKeys <=> isActivated
          /\ isActivated => RunningKeys = keys /\ keys \in issued
      BY DEF RunningKeys, KeysKnown, KeysFresh, isActivated, Resumable
    <3>4. isActivated' => RunningKeys' = keys' /\ keys' \in issued'
      BY DEF RunningKeys, KeysKnown, isActivated, Resumable
    <3>5. ~isActivated' => RunningKeys' = NoKeys
      BY DEF RunningKeys
    <3>6. CASE JoinRequestSent \/ JoinTxTimeout
      <4>1. pc = "idle" /\ ~isActivated /\ ~isActivated' /\ requested' = requested \union {devNonce}
            /\ sent' = ~sent /\ UNCHANGED <<issued, uplinks>>
        BY <3>6 DEF JoinRequestSent, JoinTxTimeout, StartJoin, isActivated
      <4>2. devNonce \notin requested \/ noncesStale
        BY <4>1, ActivationAssumption DEF NoncesAhead, Below, TypeOK, DevNonces
      <4>3. devNonce \in DevNonces
        BY DEF TypeOK
      <4>4. QED
        BY <3>1, <4>1, <4>2, <4>3 DEF Promise!Next, Promise!Request
    <3>7. ASSUME NEW macOnly \in BOOLEAN, NEW outcome \in {"error", "silence", "downlink"},
                 SendReceive(macOnly, outcome)
          PROVE  Promise!Next
      <4>1. /\ isActivated /\ isActivated' /\ keys' = keys /\ InUse /\ Resumable /\ sent' = ~sent
            /\ uplinks' = uplinks \union {<<keys, fCntUp>>} /\ UNCHANGED <<issued, requested>>
        BY <3>7 DEF SendReceive, isActivated, InUse, Resumable
      <4>2. <<keys, fCntUp>> \notin uplinks \/ sessionStale
        <5> SUFFICES ASSUME <<keys, fCntUp>> \in uplinks, ~sessionStale PROVE FALSE
          OBVIOUS
        <5>1. fCntUp < fCntUp /\ fCntUp \in Nat
          BY <4>1, ActivationAssumption DEF FramesCounted, CountedBelow, TypeOK, FCnts
        <5>2. QED
          BY <5>1
      <4>3. fCntUp \in FCnts /\ keys # NoKeys
        BY <3>3, <4>1 DEF TypeOK, KeysFresh
      <4>4. QED
        BY <3>1, <4>1, <4>2, <4>3 DEF Promise!Next, Promise!Send
    <3>8. ASSUME NEW r \in requests, ServerAnswers(r) PROVE Promise!Next
      <4>1. PICK k \in SessionKeys : issued' = issued \union {k}
        BY <3>8 DEF ServerAnswers, JoinKeys, SessionKeys, TypeOK
      <4>2. UNCHANGED <<keys, sessionStatus, requested, uplinks, sent>>
        BY <3>8 DEF ServerAnswers, ramVars
      <4>3. QED
        BY <3>1, <4>1, <4>2 DEF Promise!Next, Promise!Issue, isActivated
    <3>9. ASSUME UNCHANGED <<issued, requested, uplinks, sent>>,
                 isActivated => ~isActivated' \/ keys' = keys
          PROVE  Promise!Next
      BY <3>1, <3>2, <3>3, <3>4, <3>5, <3>9, SessionSteps
    <3>10. ASSUME NEW tornN \in BOOLEAN, NEW tornS \in BOOLEAN, PowerLoss(tornN, tornS)
           PROVE  Promise!Next
      <4>1. UNCHANGED <<issued, requested, uplinks, sent>> /\ ~isActivated'
        BY <3>10 DEF PowerLoss, isActivated
      <4>2. QED
        BY <3>9, <4>1
    <3>11. ASSUME NEW m \in Modes, Begin(m) PROVE Promise!Next
      <4>1. UNCHANGED <<issued, requested, uplinks, sent>> /\ ~isActivated'
        BY <3>11 DEF Begin, clearSession, isActivated
      <4>2. QED
        BY <3>9, <4>1
    <3>12. CASE setBufferNonces \/ setBufferSession \/ SaveNonces \/ SaveSession
      BY <3>9, <3>12
      DEF setBufferNonces, setBufferSession, SaveNonces, SaveSession, SessionStored, isActivated
    <3>13. CASE ActivateRestored \/ ActivateABP \/ JoinRefused
      BY <3>9, <3>13 DEF ActivateRestored, ActivateABP, JoinRefused, StartJoin, isActivated
    <3>14. ASSUME NEW a \in accepts,
                  RejectJoinNonce(a) \/ RejectMic(a) \/ QueueFull(a) \/ Joined(a)
           PROVE  Promise!Next
      <4>1. UNCHANGED <<issued, requested, uplinks, sent>>
        BY <3>14 DEF RejectJoinNonce, RejectMic, QueueFull, Joined, ReceiveAccept
      <4>2. ~isActivated
        BY <3>14
        DEF RejectJoinNonce, RejectMic, QueueFull, Joined, ReceiveAccept, SessionStored, isActivated
      <4>3. QED
        BY <3>9, <4>1, <4>2
    <3>15. CASE NoJoinAccept \/ \E jn \in JoinNonces, r \in {0, 1} : ForeignAccept(jn, r)
      BY <3>9, <3>15 DEF NoJoinAccept, ForeignAccept, ramVars, isActivated
    <3>16. CASE RevertToJoin \/ AppClearsSession
      BY <3>9, <3>16 DEF RevertToJoin, AppClearsSession, clearSession, isActivated
    <3>17. QED
      BY <2>2, <3>6, <3>7, <3>8, <3>10, <3>11, <3>12, <3>13, <3>14, <3>15, <3>16
      DEF Next, Boot, Activate, Answers
  <2>3. QED
    BY <2>1, <2>2
<1>3. QED
  BY <1>1, <1>2, TypeCorrect, NoncesAheadHolds, SessionStoredHolds, KeysKnownHolds,
     KeysFreshHolds, FramesCountedHolds, PTL DEF Spec, KeepsPromise, Promise!Spec
=============================================================================
