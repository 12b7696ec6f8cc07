----------------------- MODULE LoRaWANActivationProofs ----------------------
(* Theorems about LoRaWANActivation, for every value of its constants.        *)
EXTENDS LoRaWANActivation, TLAPS

-----------------------------------------------------------------------------
(* Operators *)

(* A Nonces buffer that getBufferNonces has signed is a Nonces buffer.        *)
LEMMA SignedType ==
  ASSUME lwMode \in {"NONE", "OTAA", "ABP"}, NEW b \in NoncesBuffers
  PROVE  /\ Signed(b) \in NoncesBuffers
         /\ Signed(b).dn = b.dn
         /\ Signed(b).jn = b.jn
<1>1. Signature(lwMode, b.dn, b.jn) \in Nat
  BY ActivationAssumption DEF NoncesBuffers, DevNonces, JoinNonces
<1>2. QED
  BY <1>1 DEF Signed, NoncesBuffers

(* What the queue operations return is a queue that fits the buffer.          *)
LEMMA QueueTypes ==
  /\ EmptyQueue \in Queues
  /\ \A q \in Queues : /\ Zeroed(q) \in Queues
                       /\ Cleared(q) \in Queues
                       /\ CanPush(q) => Push(q) \in Queues
<1>1. EmptyQueue \in Queues
  BY ActivationAssumption DEF EmptyQueue, Queues, QueueLen
<1>2. ASSUME NEW q \in Queues
      PROVE  /\ Zeroed(q) \in Queues
             /\ Cleared(q) \in Queues
             /\ CanPush(q) => Push(q) \in Queues
  BY <1>1, <1>2, ActivationAssumption DEF Queues, QueueLen, Zeroed, Cleared, CanPush, Push
<1>3. QED
  BY <1>1, <1>2

(* The DevNonce that follows, and the one that went before, are DevNonces.    *)
LEMMA DevNonceSteps ==
  ASSUME NEW d \in DevNonces
  PROVE  /\ (d + 1) % DevNonceMod \in DevNonces
         /\ (d + DevNonceMod - 1) % DevNonceMod \in DevNonces
         /\ (((d + 1) % DevNonceMod) + DevNonceMod - 1) % DevNonceMod = d
         /\ (d + 1) % DevNonceMod \in {d + 1, 0}
<1>1. DevNonceMod \in Nat /\ DevNonceMod > 1 /\ d \in Nat /\ d < DevNonceMod
  BY ActivationAssumption DEF DevNonces
<1>2. CASE d + 1 < DevNonceMod
  BY <1>1, <1>2 DEF DevNonces
<1>3. CASE d + 1 = DevNonceMod
  BY <1>1, <1>3 DEF DevNonces
<1>4. QED
  BY <1>1, <1>2, <1>3

(* What clearNonces and clearSession leave is of the right type.              *)
LEMMA ZeroTypes ==
  /\ NoKeys \in SessionKeys
  /\ \A r \in {0, 1} : AbpKeys(r) \in SessionKeys
  /\ ZeroNonces \in NoncesBuffers
  /\ ZeroSession \in SessionBuffers
<1>1. 0 \in DevNonces /\ 0 \in JoinNonces /\ 0 \in FCnts
  BY ActivationAssumption DEF DevNonces, JoinNonces, FCnts
<1>2. NoKeys \in SessionKeys /\ \A r \in {0, 1} : AbpKeys(r) \in SessionKeys
  BY <1>1 DEF NoKeys, AbpKeys, SessionKeys
<1>3. ZeroNonces \in NoncesBuffers
  BY <1>1 DEF ZeroNonces, NoncesBuffers
<1>4. ZeroSession \in SessionBuffers
  BY <1>1, <1>2, QueueTypes DEF ZeroSession, SessionBuffers, Statuses
<1>5. QED
  BY <1>2, <1>3, <1>4

(* createSession keeps the Session buffer what it is.                         *)
LEMMA CreatedType ==
  ASSUME TypeOK, CreateSession
  PROVE  /\ Created \in SessionBuffers
         /\ dwellTimeUp' \in BOOLEAN
         /\ Created.keys = bufferSession.keys /\ Created.fCntUp = bufferSession.fCntUp
<1>1. Created \in SessionBuffers /\ Created.keys = bufferSession.keys
      /\ Created.fCntUp = bufferSession.fCntUp
  BY DEF TypeOK, Created, SessionBuffers
<1>2. dwellTimeUp' \in BOOLEAN
  BY DEF TypeOK, CreateSession
<1>3. QED
  BY <1>1, <1>2

(* The air only loses frames when the windows close.                          *)
LEMMA AirClosesTakes ==
  ASSUME NEW rest \in SUBSET accepts, AirCloses(rest)
  PROVE  requests' \subseteq requests /\ accepts' \subseteq accepts
BY DEF AirCloses

(* An answer that is lost on the device counts among the mishaps.             *)
LEMMA AcceptMishaps ==
  ASSUME TypeOK, NEW a \in accepts, ReceiveAccept(a)
  PROVE  mishaps' \in 0 .. MaxMishaps
<1>1. mishaps' = mishaps \/ (mishaps < MaxMishaps /\ mishaps' = mishaps + 1)
  BY DEF ReceiveAccept, Mishap
<1>2. QED
  BY <1>1, ActivationAssumption DEF TypeOK

-----------------------------------------------------------------------------
(* Types *)

(* The set of states is the one that the type invariant describes: every      *)
(* handler stores counters within their width and whole queues, in RAM, in    *)
(* the buffers and in flash.                                                  *)
THEOREM TypeCorrect == Spec => []TypeOK
<1>1. Init => TypeOK
  <2> SUFFICES ASSUME Init PROVE TypeOK
    OBVIOUS
  <2>1. 0 \in DevNonces /\ 0 \in JoinNonces /\ 0 \in FCnts /\ 0 \in 0 .. DevNonceMod
        /\ 0 \in 0 .. MaxMishaps
    BY ActivationAssumption DEF DevNonces, JoinNonces, FCnts
  <2>2. flashNonces \in [valid : BOOLEAN, buf : NoncesBuffers]
        /\ flashSession \in [valid : BOOLEAN, buf : SessionBuffers]
    BY ZeroTypes DEF Init
  <2>3. issued \subseteq SessionKeys /\ provisioned \in {0, 1}
    BY ZeroTypes, ActivationAssumption DEF Init
  <2>4. QED
    BY <2>1, <2>2, <2>3, ZeroTypes, QueueTypes DEF Init, TypeOK, Statuses
<1>2. TypeOK /\ [Next]_vars => TypeOK'
  <2> SUFFICES ASSUME TypeOK, [Next]_vars PROVE TypeOK'
    OBVIOUS
  <2> USE DEF airVars, netVars, flashVars
  <2>1. ASSUME NEW tornN \in BOOLEAN, NEW tornS \in BOOLEAN, PowerLoss(tornN, tornS)
        PROVE  TypeOK'
    <3>1. 0 \in DevNonces /\ 0 \in JoinNonces /\ 0 \in FCnts
      BY ActivationAssumption DEF DevNonces, JoinNonces, FCnts
    <3>2. requests' \subseteq requests /\ accepts' \subseteq accepts
      BY <2>1, AirClosesTakes DEF PowerLoss
    <3>3. flashNonces' \in [valid : BOOLEAN, buf : NoncesBuffers]
          /\ flashSession' \in [valid : BOOLEAN, buf : SessionBuffers]
      BY <2>1 DEF PowerLoss, TypeOK
    <3>4. noncesStale' \in BOOLEAN /\ sessionStale' \in BOOLEAN /\ mishaps' \in 0 .. MaxMishaps
      BY <2>1, ActivationAssumption DEF PowerLoss, DropRam, Mishap, TypeOK
    <3>5. QED
      BY <2>1, <3>1, <3>2, <3>3, <3>4, ZeroTypes, QueueTypes DEF PowerLoss, TypeOK, Statuses
  <2>2. ASSUME NEW m \in Modes, Begin(m) PROVE TypeOK'
    BY <2>2, QueueTypes, ActivationAssumption
    DEF TypeOK, Begin, clearSession, Mishap, Statuses, DevNonces, JoinNonces, FCnts, SessionKeys,
        NoKeys, AbpKeys, NoncesBuffers, SessionBuffers, ZeroNonces, ZeroSession
  <2>3. CASE setBufferNonces
    BY <2>3 DEF TypeOK, setBufferNonces, NoncesBuffers
  <2>4. CASE setBufferSession
    BY <2>4 DEF TypeOK, setBufferSession, RestoredStatus, SessionBuffers, SessionKeys, Statuses
  <2>5. CASE SaveNonces
    BY <2>5, SignedType DEF TypeOK, SaveNonces, NoncesImage
  <2>6. CASE SaveSession
    BY <2>6, ZenonT(60) DEF TypeOK, SaveSession, SessionImage, SessionBuffers
  <2>7. CASE ActivateRestored
    BY <2>7 DEF TypeOK, ActivateRestored, Statuses
  <2>8. CASE ActivateABP
    <3>1. Created \in SessionBuffers /\ dwellTimeUp' \in BOOLEAN /\ NoncesImage \in NoncesBuffers
      BY <2>8, CreatedType, SignedType DEF ActivateABP, TypeOK, NoncesImage
    <3>2. bufferSession' \in SessionBuffers
      BY <2>8, <3>1 DEF TypeOK, ActivateABP, NoncesBuffers, SessionBuffers
    <3>3. fOptsUp' \in Queues
      BY <2>8, QueueTypes DEF TypeOK, ActivateABP
    <3>4. QED
      BY <2>8, <3>1, <3>2, <3>3 DEF TypeOK, ActivateABP, Statuses
  <2>9. CASE JoinRefused
    BY <2>9, CreatedType, ActivationAssumption DEF TypeOK, JoinRefused, StartJoin, Mishap, Statuses
  <2>10. CASE JoinTxTimeout
    BY <2>10, CreatedType, ActivationAssumption
    DEF TypeOK, JoinTxTimeout, StartJoin, Mishap, JoinRequest, Statuses
  <2>11. CASE JoinRequestSent
    <3>1. NoncesOfRequest \in NoncesBuffers
      BY <2>11, DevNonceSteps, SignedType
      DEF TypeOK, NoncesOfRequest, NextDevNonce, NoncesBuffers
    <3>2. NextDevNonce \in DevNonces /\ Created \in SessionBuffers /\ dwellTimeUp' \in BOOLEAN
      BY <2>11, DevNonceSteps, CreatedType DEF TypeOK, JoinRequestSent, StartJoin, NextDevNonce
    <3>3. bufferSession' \in SessionBuffers
      BY <2>11, <3>1, <3>2 DEF JoinRequestSent, NoncesBuffers, SessionBuffers
    <3>4. noncesStale' \in BOOLEAN
      BY <2>11 DEF JoinRequestSent, TypeOK
    <3>5. requests' \subseteq [dn : DevNonces, key : {"nwkKey", "appKey"}] /\ accepts' \subseteq accepts
      BY <2>11 DEF JoinRequestSent, JoinRequest, TypeOK
    <3>6. QED
      BY <2>11, <3>1, <3>2, <3>3, <3>4, <3>5 DEF TypeOK, JoinRequestSent, StartJoin, Statuses
  <2>12. ASSUME NEW r \in requests, ServerAnswers(r) PROVE TypeOK'
    BY <2>12, ActivationAssumption
    DEF TypeOK, ServerAnswers, Answerable, ramVars, JoinKeys, SessionKeys, JoinNonces, DevNonces
  <2>13. CASE NoJoinAccept
    <3>1. requests' \subseteq requests /\ accepts' \subseteq accepts
      BY <2>13, AirClosesTakes DEF NoJoinAccept
    <3>2. mishaps' \in 0 .. MaxMishaps
      BY <2>13, ActivationAssumption DEF NoJoinAccept, Mishap, TypeOK
    <3>3. QED
      BY <2>13, <3>1, <3>2 DEF TypeOK, NoJoinAccept, ramVars
  <2>14. ASSUME NEW a \in accepts, RejectJoinNonce(a) PROVE TypeOK'
    BY <2>14, AcceptMishaps DEF TypeOK, RejectJoinNonce, ReceiveAccept, AirCloses
  <2>15. ASSUME NEW a \in accepts, RejectMic(a) PROVE TypeOK'
    BY <2>15, AcceptMishaps DEF TypeOK, RejectMic, ReceiveAccept, AirCloses
  <2>16. ASSUME NEW a \in accepts, QueueFull(a) PROVE TypeOK'
    BY <2>16, DevNonceSteps, AcceptMishaps
    DEF TypeOK, QueueFull, ReceiveAccept, AirCloses, DerivedKeys, PrevDevNonce, JoinKeys, SessionKeys
  <2>17. ASSUME NEW a \in accepts, Joined(a) PROVE TypeOK'
    <3>1. DerivedKeys(a) \in SessionKeys
      BY <2>17, DevNonceSteps DEF TypeOK, DerivedKeys, PrevDevNonce, JoinKeys, SessionKeys
    <3>2. bufferNonces' \in NoncesBuffers
      BY <2>17, SignedType DEF TypeOK, Joined, NoncesBuffers
    <3>3. bufferSession' \in SessionBuffers
      BY <2>17, <3>1, <3>2 DEF TypeOK, Joined, NoncesBuffers, SessionBuffers
    <3>4. requests' \subseteq requests /\ accepts' \subseteq accepts
      BY <2>17, AirClosesTakes DEF Joined, ReceiveAccept
    <3>5. mishaps' \in 0 .. MaxMishaps
      BY <2>17, AcceptMishaps DEF Joined
    <3>6. QED
      BY <2>17, <3>1, <3>2, <3>3, <3>4, <3>5, QueueTypes, ZenonT(60)
      DEF TypeOK, Joined, ReceiveAccept, Statuses
  <2>18. ASSUME NEW jn \in JoinNonces, NEW r \in {0, 1}, ForeignAccept(jn, r) PROVE TypeOK'
    <3>1. requests' \subseteq requests /\ accepts' \subseteq accepts
      BY <2>18, AirClosesTakes DEF ForeignAccept
    <3>2. UNCHANGED <<joinNonce, rev, misled>> \/ (joinNonce' = jn /\ rev' = r /\ misled' = TRUE)
      BY <2>18 DEF ForeignAccept
    <3>3. joinNonce' \in JoinNonces /\ rev' \in {0, 1} /\ misled' \in BOOLEAN
      BY <3>2 DEF TypeOK
    <3>4. mishaps' \in 0 .. MaxMishaps
      BY <2>18, ActivationAssumption DEF TypeOK, ForeignAccept, Mishap
    <3>5. pc' = "idle"
      BY <2>18 DEF ForeignAccept
    <3>6. QED
      BY <2>18, <3>1, <3>3, <3>4, <3>5 DEF TypeOK, ForeignAccept
  <2>19. CASE RevertToJoin
    BY <2>19, QueueTypes, ActivationAssumption
    DEF TypeOK, RevertToJoin, clearSession, Statuses, DevNonces, JoinNonces, FCnts, SessionKeys,
        NoKeys, SessionBuffers, ZeroSession
  <2>20. ASSUME NEW macOnly \in BOOLEAN, NEW outcome \in {"error", "silence", "downlink"},
                SendReceive(macOnly, outcome)
         PROVE  TypeOK'
    BY <2>20, QueueTypes, ActivationAssumption
    DEF TypeOK, SendReceive, QueueAfter, QueueSent, NextFCnt, FCnts
  <2>21. CASE AppClearsSession
    BY <2>21, QueueTypes, ActivationAssumption
    DEF TypeOK, AppClearsSession, Mishap, clearSession, Statuses, DevNonces, JoinNonces, FCnts,
        SessionKeys, NoKeys, SessionBuffers, ZeroSession
  <2>22. CASE UNCHANGED vars
    BY <2>22 DEF TypeOK, vars, ramVars
  <2>23. QED
    BY <2>1, <2>2, <2>3, <2>4, <2>5, <2>6, <2>7, <2>8, <2>9, <2>10, <2>11, <2>12, <2>13, <2>14,
       <2>15, <2>16, <2>17, <2>18, <2>19, <2>20, <2>21, <2>22
    DEF Next, Boot, Activate, Answers
<1>3. QED
  BY <1>1, <1>2, PTL DEF Spec

-----------------------------------------------------------------------------
(* No DevNonce twice *)

(* All DevNonces sent are below n.                                            *)
Below(n) == \A d \in requested : d < n

(* While the application has lost none, the DevNonces sent are below the one  *)
(* the node is at, and between restarts below the one in flash: the way of    *)
(* the Nonces from RAM into flash and back.                                   *)
NoncesAhead ==
  ~noncesStale /\ requested # {} =>
    /\ pc # "off" => lwMode = "OTAA"
    /\ pc \in {"idle", "rx", "session"} => Below(devNonce) /\ bufferNonces.dn = devNonce
    /\ ~InUse => /\ flashNonces.valid /\ flashNonces.buf.mode = "OTAA"
                 /\ Below(flashNonces.buf.dn)

(* While the node is in use flash holds the current Nonces, or losing RAM     *)
(* counts as a loss.                                                          *)
LEMMA NoncesSurvive ==
  ASSUME TypeOK, NoncesAhead, ~noncesStale, requested # {}, ~(InUse /\ NoncesBehind)
  PROVE  /\ flashNonces.valid /\ flashNonces.buf.mode = "OTAA"
         /\ Below(flashNonces.buf.dn)
<1>1. CASE InUse
  <2>1. lwMode = "OTAA" /\ Below(devNonce) /\ bufferNonces.dn = devNonce
    BY <1>1 DEF NoncesAhead, InUse
  <2>2. NoncesImage.dn = devNonce
    BY <2>1, SignedType DEF NoncesImage, TypeOK
  <2>3. QED
    BY <1>1, <2>1, <2>2 DEF NoncesBehind, NoncesCurrent
<1>2. CASE ~InUse
  BY <1>2 DEF NoncesAhead
<1>3. QED
  BY <1>1, <1>2

(* NoncesAhead is inductive.                                                  *)
LEMMA NoncesAheadHolds == Spec => []NoncesAhead
<1>1. Init => NoncesAhead
  BY DEF Init, NoncesAhead
<1>2. TypeOK /\ NoncesAhead /\ [Next]_vars => NoncesAhead'
  <2> SUFFICES ASSUME TypeOK, NoncesAhead, [Next]_vars, ~noncesStale', requested' # {}
               PROVE  /\ pc' # "off" => lwMode' = "OTAA"
                      /\ pc' \in {"idle", "rx", "session"} =>
                            Below(devNonce)' /\ bufferNonces'.dn = devNonce'
                      /\ ~InUse' => /\ flashNonces'.valid /\ flashNonces'.buf.mode = "OTAA"
                                    /\ Below(flashNonces.buf.dn)'
    BY DEF NoncesAhead
  <2> USE DEF airVars, netVars, flashVars
  <2>1. ASSUME NEW tornN \in BOOLEAN, NEW tornS \in BOOLEAN, PowerLoss(tornN, tornS)
        PROVE  NoncesAhead'
    <3>1. requested # {} /\ ~noncesStale /\ ~tornN /\ ~(InUse /\ NoncesBehind)
      BY <2>1 DEF PowerLoss, DropRam, TypeOK
    <3>2. /\ flashNonces.valid /\ flashNonces.buf.mode = "OTAA"
          /\ Below(flashNonces.buf.dn)
      BY <3>1, NoncesSurvive
    <3>3. flashNonces' = flashNonces
      BY <2>1, <3>1, <3>2 DEF PowerLoss, TypeOK
    <3>4. QED
      BY <2>1, <3>2, <3>3 DEF PowerLoss, NoncesAhead, Below, InUse
  <2>2. ASSUME NEW m \in Modes, Begin(m) PROVE NoncesAhead'
    <3>1. requested # {} /\ ~noncesStale /\ ~(InUse /\ NoncesBehind)
          /\ ~(flashNonces.valid /\ flashNonces.buf.mode # m)
      BY <2>2 DEF Begin, TypeOK
    <3>2. /\ flashNonces.valid /\ flashNonces.buf.mode = "OTAA"
          /\ Below(flashNonces.buf.dn)
      BY <3>1, NoncesSurvive
    <3>3. QED
      BY <2>2, <3>1, <3>2 DEF Begin, NoncesAhead, Below, InUse
  <2>3. CASE setBufferNonces
    BY <2>3 DEF setBufferNonces, NoncesAccepted, NoncesAhead, Below, InUse
  <2>4. CASE setBufferSession
    BY <2>4 DEF setBufferSession, NoncesAhead, Below, InUse
  <2>5. CASE SaveNonces
    BY <2>5, SignedType DEF SaveNonces, NoncesAhead, Below, InUse, NoncesImage, TypeOK
  <2>6. CASE ActivateABP
    BY <2>6 DEF ActivateABP, NoncesAhead
  <2>7. CASE JoinRequestSent
    <3>1. lwMode = "OTAA" /\ lwMode' = lwMode /\ pc' = "rx" /\ requested' = requested \union {devNonce}
          /\ devNonce' = NextDevNonce
      BY <2>7 DEF JoinRequestSent, StartJoin
    <3>2. NextDevNonce = devNonce + 1 /\ ~noncesStale
      BY <2>7, DevNonceSteps DEF JoinRequestSent, NextDevNonce, TypeOK
    <3>3. Below(devNonce) \/ requested = {}
      BY <2>7, <3>2 DEF JoinRequestSent, StartJoin, NoncesAhead
    <3>4. devNonce \in Nat /\ \A d \in requested : d \in Nat
      BY ActivationAssumption DEF TypeOK, DevNonces
    <3>5. Below(devNonce)'
      BY <3>1, <3>2, <3>3, <3>4 DEF Below
    <3>6. bufferNonces'.dn = NextDevNonce
      <4>1. NextDevNonce \in DevNonces
        BY DevNonceSteps DEF NextDevNonce, TypeOK
      <4>2. [bufferNonces EXCEPT !.dn = NextDevNonce] \in NoncesBuffers
        BY <4>1 DEF TypeOK, NoncesBuffers
      <4>3. Signed([bufferNonces EXCEPT !.dn = NextDevNonce]).dn = NextDevNonce
        BY <4>2, SignedType DEF TypeOK, NoncesBuffers
      <4>4. QED
        BY <2>7, <4>3 DEF JoinRequestSent, NoncesOfRequest
    <3>7. QED
      BY <3>1, <3>5, <3>6 DEF NoncesAhead, InUse
  <2>8. CASE JoinTxTimeout
    BY <2>8 DEF JoinTxTimeout
  <2>9. ASSUME NEW a \in accepts, Joined(a) PROVE NoncesAhead'
    <3>1. [bufferNonces EXCEPT !.jn = a.jn] \in NoncesBuffers
      BY DEF TypeOK, NoncesBuffers
    <3>2. bufferNonces'.dn = bufferNonces.dn
      BY <2>9, <3>1, SignedType DEF Joined, TypeOK, NoncesBuffers
    <3>3. QED
      BY <2>9, <3>2 DEF Joined, ReceiveAccept, NoncesAhead, Below, InUse
  <2>10. CASE UNCHANGED <<lwMode, devNonce, bufferNonces, flashNonces, requested, noncesStale>>
              /\ InUse /\ InUse'
    BY <2>10 DEF NoncesAhead, Below, InUse
  <2>11. CASE UNCHANGED vars
    BY <2>11 DEF vars, ramVars, NoncesAhead, Below, InUse
  <2>12. CASE \E r \in requests : ServerAnswers(r)
    BY <2>12 DEF ServerAnswers, ramVars, NoncesAhead, Below, InUse
  <2>13. CASE SaveSession \/ ActivateRestored \/ JoinRefused \/ NoJoinAccept \/ RevertToJoin \/ AppClearsSession
    <3>1. InUse /\ InUse'
      BY <2>13 DEF SaveSession, ActivateRestored, JoinRefused, StartJoin, NoJoinAccept, RevertToJoin,
                   AppClearsSession, InUse
    <3>2. UNCHANGED <<lwMode, devNonce, bufferNonces, flashNonces, requested, noncesStale>>
      BY <2>13 DEF SaveSession, ActivateRestored, JoinRefused, StartJoin, NoJoinAccept, RevertToJoin,
                   AppClearsSession, ramVars
    <3>3. QED
      BY <2>10, <3>1, <3>2 DEF NoncesAhead
  <2>14. CASE \/ \E a \in accepts : RejectJoinNonce(a) \/ RejectMic(a) \/ QueueFull(a)
              \/ \E jn \in JoinNonces, r \in {0, 1} : ForeignAccept(jn, r)
              \/ \E macOnly \in BOOLEAN, outcome \in {"error", "silence", "downlink"} :
                    SendReceive(macOnly, outcome)
    <3>1. InUse /\ InUse'
      BY <2>14 DEF RejectJoinNonce, RejectMic, QueueFull, ReceiveAccept, ForeignAccept, SendReceive, InUse
    <3>2. UNCHANGED <<lwMode, devNonce, bufferNonces, flashNonces, requested, noncesStale>>
      BY <2>14 DEF RejectJoinNonce, RejectMic, QueueFull, ReceiveAccept, ForeignAccept, SendReceive
    <3>3. QED
      BY <2>10, <3>1, <3>2 DEF NoncesAhead
  <2>15. QED
    BY <2>1, <2>2, <2>3, <2>4, <2>5, <2>6, <2>7, <2>8, <2>9, <2>11, <2>12, <2>13, <2>14
    DEF Next, Boot, Activate, Answers, NoncesAhead
<1>3. QED
  BY <1>1, <1>2, TypeCorrect, PTL DEF Spec

(* Every JoinRequest of a device whose application keeps the Nonces carries   *)
(* a DevNonce of its own, for every number of joins, restarts and failures.   *)
THEOREM DevNoncesAreFresh == Spec => DevNonceFresh
<1>1. TypeOK /\ NoncesAhead /\ ~noncesStale /\ (JoinRequestSent \/ JoinTxTimeout)
        => devNonce \notin requested
  <2> SUFFICES ASSUME TypeOK, NoncesAhead, ~noncesStale, JoinRequestSent \/ JoinTxTimeout,
                      devNonce \in requested
               PROVE  FALSE
    OBVIOUS
  <2>1. pc = "idle"
    BY DEF JoinRequestSent, JoinTxTimeout, StartJoin
  <2>2. devNonce < devNonce /\ devNonce \in Nat
    BY <2>1, ActivationAssumption DEF NoncesAhead, Below, TypeOK, DevNonces
  <2>3. QED
    BY <2>2
<1>2. TypeOK /\ NoncesAhead /\ [Next]_vars
        => [~noncesStale /\ (JoinRequestSent \/ JoinTxTimeout) => devNonce \notin requested]_vars
  BY <1>1
<1>3. QED
  BY <1>2, TypeCorrect, NoncesAheadHolds, PTL DEF Spec, DevNonceFresh

-----------------------------------------------------------------------------
(* The answer to a JoinRequest is not refused *)

(* Unless a foreign JoinAccept left it one, the node has JoinNonces of the    *)
(* past only, in RAM, buffer and flash, and the one that answers the request  *)
(* it waits for is above them.                                                *)
JoinNoncesKnown ==
  /\ ~misled => joinNonce <= server.joinNonce
  /\ bufferNonces.jn <= server.joinNonce /\ flashNonces.buf.jn <= server.joinNonce
  /\ \A a \in accepts : a.jn <= server.joinNonce /\ a.dn \in requested
  /\ \A r \in requests : r.dn \in requested
AnswerAhead ==
  pc = "rx" /\ ~noncesStale /\ ~misled => \A a \in accepts : a.dn = PrevDevNonce => a.jn > joinNonce

(* JoinNoncesKnown is inductive: of a foreign JoinAccept nothing gets into    *)
(* the Nonces buffer.                                                         *)
LEMMA JoinNoncesKnownHolds == Spec => []JoinNoncesKnown
<1>1. Init => JoinNoncesKnown
  BY DEF Init, JoinNoncesKnown, ZeroNonces
<1>2. TypeOK /\ JoinNoncesKnown /\ [Next]_vars => JoinNoncesKnown'
  <2> SUFFICES ASSUME TypeOK, JoinNoncesKnown, [Next]_vars PROVE JoinNoncesKnown'
    OBVIOUS
  <2>1. server.joinNonce \in Nat /\ joinNonce \in Nat /\ bufferNonces \in NoncesBuffers
        /\ lwMode \in {"NONE", "OTAA", "ABP"}
    BY ActivationAssumption DEF TypeOK, JoinNonces
  <2>2. CASE /\ UNCHANGED <<joinNonce, server, misled>>
             /\ bufferNonces'.jn = bufferNonces.jn
             /\ flashNonces'.buf.jn \in {flashNonces.buf.jn, bufferNonces.jn}
             /\ requests' \subseteq requests /\ accepts' \subseteq accepts
             /\ requested \subseteq requested'
    BY <2>2 DEF JoinNoncesKnown
  <2>3. ASSUME NEW tornN \in BOOLEAN, NEW tornS \in BOOLEAN, PowerLoss(tornN, tornS)
        PROVE  JoinNoncesKnown'
    <3>1. requests' \subseteq requests /\ accepts' \subseteq accepts
      BY <2>3, AirClosesTakes DEF PowerLoss, airVars
    <3>2. joinNonce' = 0 /\ bufferNonces'.jn = 0 /\ UNCHANGED <<server, requested>>
      BY <2>3 DEF PowerLoss, ZeroNonces, netVars
    <3>3. flashNonces'.buf = flashNonces.buf
      BY <2>3 DEF PowerLoss, TypeOK
    <3>4. QED
      BY <2>1, <3>1, <3>2, <3>3 DEF JoinNoncesKnown
  <2>4. ASSUME NEW m \in Modes, Begin(m) PROVE JoinNoncesKnown'
    <3>1. /\ joinNonce' = 0 /\ bufferNonces'.jn = 0
          /\ UNCHANGED <<server, requested, requests, accepts, flashNonces>>
      BY <2>4 DEF Begin, ZeroNonces, netVars, airVars, flashVars
    <3>2. QED
      BY <2>1, <3>1 DEF JoinNoncesKnown
  <2>5. CASE setBufferNonces
    BY <2>5 DEF setBufferNonces, JoinNoncesKnown, netVars, airVars, flashVars
  <2>6. CASE SaveNonces
    <3>1. bufferNonces'.jn = bufferNonces.jn /\ flashNonces'.buf.jn = bufferNonces.jn
      BY <2>1, <2>6, SignedType DEF SaveNonces, NoncesImage
    <3>2. QED
      BY <2>2, <2>6, <3>1 DEF SaveNonces, netVars, airVars
  <2>7. CASE ActivateABP
    <3>1. bufferNonces'.jn = bufferNonces.jn
      BY <2>1, <2>7, SignedType DEF ActivateABP, NoncesImage
    <3>2. QED
      BY <2>2, <2>7, <3>1 DEF ActivateABP, netVars, airVars, flashVars
  <2>8. CASE JoinRequestSent
    <3>1. NextDevNonce \in DevNonces
      BY DevNonceSteps DEF NextDevNonce, TypeOK
    <3>2. [bufferNonces EXCEPT !.dn = NextDevNonce] \in NoncesBuffers
          /\ [bufferNonces EXCEPT !.dn = NextDevNonce].jn = bufferNonces.jn
      BY <2>1, <3>1 DEF NoncesBuffers
    <3>3. bufferNonces'.jn = bufferNonces.jn
      BY <2>1, <2>8, <3>2, SignedType DEF JoinRequestSent, NoncesOfRequest
    <3>4. /\ requests' \subseteq requests \cup {JoinRequest} /\ accepts' \subseteq accepts
          /\ requested' = requested \cup {devNonce}
          /\ UNCHANGED <<joinNonce, flashNonces, server, misled>>
      BY <2>8 DEF JoinRequestSent, StartJoin, netVars, flashVars
    <3>5. JoinRequest.dn = devNonce
      BY DEF JoinRequest
    <3>6. QED
      BY <3>3, <3>4, <3>5 DEF JoinNoncesKnown
  <2>9. CASE JoinTxTimeout
    <3>1. /\ requests' = requests \cup {JoinRequest} /\ accepts' = accepts
          /\ requested' = requested \cup {devNonce}
          /\ UNCHANGED <<joinNonce, bufferNonces, flashNonces, server, misled>>
      BY <2>9 DEF JoinTxTimeout, StartJoin, netVars, flashVars
    <3>2. JoinRequest.dn = devNonce
      BY DEF JoinRequest
    <3>3. QED
      BY <3>1, <3>2 DEF JoinNoncesKnown
  <2>10. ASSUME NEW r \in requests, ServerAnswers(r) PROVE JoinNoncesKnown'
    <3>1. /\ server'.joinNonce = server.joinNonce + 1
          /\ accepts' = accepts \cup {[dn |-> r.dn, jn |-> server.joinNonce + 1]}
          /\ requests' = requests \ {r}
          /\ UNCHANGED <<joinNonce, bufferNonces, flashNonces, requested, misled>>
      BY <2>10 DEF ServerAnswers, ramVars, flashVars
    <3>2. /\ bufferNonces.jn \in Nat /\ flashNonces.buf.jn \in Nat
          /\ \A a \in accepts : a.jn \in Nat
      BY ActivationAssumption DEF TypeOK, NoncesBuffers, JoinNonces
    <3>3. QED
      BY <2>1, <3>1, <3>2 DEF JoinNoncesKnown
  <2>11. ASSUME NEW a \in accepts, ReceiveAccept(a), joinNonce' \in {joinNonce, a.jn},
                bufferNonces'.jn \in {bufferNonces.jn, a.jn}
         PROVE  JoinNoncesKnown'
    <3>1. accepts \ {a} \in SUBSET accepts /\ AirCloses(accepts \ {a})
      BY <2>11 DEF ReceiveAccept
    <3>2. requests' \subseteq requests /\ accepts' \subseteq accepts
      BY <3>1, AirClosesTakes
    <3>3. UNCHANGED <<server, requested, flashNonces, misled>>
      BY <2>11 DEF ReceiveAccept, netVars, flashVars
    <3>4. QED
      BY <2>11, <3>2, <3>3 DEF JoinNoncesKnown
  <2>12. ASSUME NEW a \in accepts, RejectJoinNonce(a) \/ RejectMic(a) \/ QueueFull(a)
         PROVE  JoinNoncesKnown'
    BY <2>11, <2>12 DEF RejectJoinNonce, RejectMic, QueueFull
  <2>13. ASSUME NEW a \in accepts, Joined(a) PROVE JoinNoncesKnown'
    <3>1. a.jn \in JoinNonces
      BY DEF TypeOK
    <3>2. [bufferNonces EXCEPT !.jn = a.jn] \in NoncesBuffers
          /\ [bufferNonces EXCEPT !.jn = a.jn].jn = a.jn
      BY <2>1, <3>1 DEF NoncesBuffers
    <3>3. bufferNonces'.jn = a.jn
      BY <2>1, <2>13, <3>2, SignedType DEF Joined
    <3>4. QED
      BY <2>11, <2>13, <3>3 DEF Joined
  <2>14. CASE NoJoinAccept
    <3>1. requests' \subseteq requests /\ accepts' \subseteq accepts
      BY <2>14, AirClosesTakes DEF NoJoinAccept
    <3>2. QED
      BY <2>2, <2>14, <3>1 DEF NoJoinAccept, ramVars, flashVars, netVars
  <2>15. CASE setBufferSession \/ SaveSession \/ ActivateRestored \/ JoinRefused \/ RevertToJoin
              \/ AppClearsSession
    BY <2>2, <2>15
    DEF setBufferSession, SaveSession, ActivateRestored, JoinRefused, StartJoin, RevertToJoin,
        AppClearsSession, airVars, netVars, flashVars
  <2>16. ASSUME NEW macOnly \in BOOLEAN, NEW outcome \in {"error", "silence", "downlink"},
                SendReceive(macOnly, outcome)
         PROVE  JoinNoncesKnown'
    BY <2>2, <2>16 DEF SendReceive, airVars, netVars, flashVars
  <2>17. CASE UNCHANGED vars
    BY <2>2, <2>17 DEF vars, ramVars, airVars, netVars, flashVars
  <2>18. ASSUME NEW jn \in JoinNonces, NEW r \in {0, 1}, ForeignAccept(jn, r)
         PROVE  JoinNoncesKnown'
    <3>1. requests' \subseteq requests /\ accepts' \subseteq accepts
      BY <2>18, AirClosesTakes DEF ForeignAccept
    <3>2. UNCHANGED <<server, requested, bufferNonces, flashNonces>>
      BY <2>18 DEF ForeignAccept, netVars, flashVars
    <3>3. misled' \/ UNCHANGED <<joinNonce, misled>>
      BY <2>18 DEF ForeignAccept
    <3>4. QED
      BY <3>1, <3>2, <3>3 DEF JoinNoncesKnown
  <2>19. QED
    BY <2>3, <2>4, <2>5, <2>6, <2>7, <2>8, <2>9, <2>10, <2>12, <2>13, <2>14, <2>15, <2>16, <2>17,
       <2>18
    DEF Next, Boot, Activate, Answers
<1>3. QED
  BY <1>1, <1>2, TypeCorrect, PTL DEF Spec

(* AnswerAhead is inductive: no answer to an earlier request has the DevNonce  *)
(* of the current one, and the server only counts up.                         *)
LEMMA AnswerAheadHolds == Spec => []AnswerAhead
<1>1. Init => AnswerAhead
  BY DEF Init, AnswerAhead
<1>2. TypeOK /\ NoncesAhead /\ JoinNoncesKnown /\ AnswerAhead /\ [Next]_vars => AnswerAhead'
  <2> SUFFICES ASSUME TypeOK, NoncesAhead, JoinNoncesKnown, AnswerAhead, [Next]_vars,
                      pc' = "rx", ~noncesStale', ~misled'
               PROVE  AnswerAhead'
    BY DEF AnswerAhead
  <2>1. CASE UNCHANGED <<pc, noncesStale, misled, accepts, devNonce, joinNonce>>
    BY <2>1 DEF AnswerAhead, PrevDevNonce
  <2>2. CASE JoinRequestSent
    <3>1. /\ pc = "idle" /\ lwMode = "OTAA" /\ devNonce' = NextDevNonce /\ ~noncesStale
          /\ accepts' \subseteq accepts
      BY <2>2 DEF JoinRequestSent, StartJoin
    <3>2. PrevDevNonce' = devNonce
      BY <3>1, DevNonceSteps DEF PrevDevNonce, NextDevNonce, TypeOK
    <3>3. devNonce \notin requested
      <4>1. requested # {} => Below(devNonce)
        BY <3>1 DEF NoncesAhead
      <4>2. devNonce \in Nat
        BY ActivationAssumption DEF TypeOK, DevNonces
      <4>3. QED
        BY <4>1, <4>2 DEF Below
    <3>4. \A a \in accepts' : a.dn # devNonce
      BY <3>1, <3>3 DEF JoinNoncesKnown
    <3>5. QED
      BY <3>2, <3>4 DEF AnswerAhead
  <2>3. ASSUME NEW r \in requests, ServerAnswers(r) PROVE AnswerAhead'
    <3>1. /\ accepts' = accepts \cup {[dn |-> r.dn, jn |-> server.joinNonce + 1]}
          /\ UNCHANGED <<pc, noncesStale, misled, devNonce, joinNonce>>
      BY <2>3 DEF ServerAnswers, ramVars
    <3>2. server.joinNonce + 1 > joinNonce
      BY <3>1, ActivationAssumption DEF JoinNoncesKnown, TypeOK, JoinNonces
    <3>3. QED
      BY <3>1, <3>2 DEF AnswerAhead, PrevDevNonce
  <2>4. CASE UNCHANGED vars
    BY <2>1, <2>4 DEF vars, ramVars, airVars
  <2>5. ~\E a \in accepts : RejectJoinNonce(a) \/ RejectMic(a) \/ QueueFull(a) \/ Joined(a)
    BY DEF RejectJoinNonce, RejectMic, QueueFull, Joined, ReceiveAccept
  <2>6. ~\E tornN, tornS \in BOOLEAN : PowerLoss(tornN, tornS)
    BY DEF PowerLoss
  <2>7. ~\E m \in Modes : Begin(m)
    BY DEF Begin
  <2>8. ~\E macOnly \in BOOLEAN, outcome \in {"error", "silence", "downlink"} :
           SendReceive(macOnly, outcome)
    BY DEF SendReceive
  <2>9. ~\E jn \in JoinNonces, r \in {0, 1} : ForeignAccept(jn, r)
    BY DEF ForeignAccept
  <2>10. ~(setBufferNonces \/ setBufferSession \/ SaveNonces \/ SaveSession \/ ActivateRestored
           \/ ActivateABP \/ JoinRefused \/ JoinTxTimeout \/ NoJoinAccept \/ RevertToJoin
           \/ AppClearsSession)
    BY DEF setBufferNonces, setBufferSession, SaveNonces, SaveSession, ActivateRestored, ActivateABP,
           JoinRefused, JoinTxTimeout, StartJoin, NoJoinAccept, RevertToJoin, AppClearsSession
  <2>11. QED
    BY <2>2, <2>3, <2>4, <2>5, <2>6, <2>7, <2>8, <2>9, <2>10 DEF Next, Boot, Activate, Answers
<1>3. QED
  BY <1>1, <1>2, TypeCorrect, NoncesAheadHolds, JoinNoncesKnownHolds, PTL DEF Spec

(* The JoinAccept that answers the current request is not refused for its     *)
(* JoinNonce, whichever accepts were late, failed the MIC or met a full queue *)
(* before (each leaves its JoinNonce in RAM), and whatever a restart          *)
(* restored, unless a foreign one left its JoinNonce there since the last     *)
(* begin.                                                                     *)
THEOREM CurrentAnswerNotRefused == Spec => AnswerNotRefused
<1>1. TypeOK /\ AnswerAhead /\ [Next]_vars
        => [\A a \in accepts : RejectJoinNonce(a) /\ a.dn = PrevDevNonce
              => noncesStale \/ misled]_vars
  <2> SUFFICES ASSUME TypeOK, AnswerAhead, NEW a \in accepts, RejectJoinNonce(a),
                      a.dn = PrevDevNonce, ~noncesStale, ~misled
               PROVE  FALSE
    OBVIOUS
  <2>1. pc = "rx" /\ NonceRefused(a.jn)
    BY DEF RejectJoinNonce, ReceiveAccept
  <2>2. a.jn > joinNonce /\ a.jn \in Nat /\ joinNonce \in Nat
    BY <2>1, ActivationAssumption DEF AnswerAhead, TypeOK, JoinNonces
  <2>3. a.jn <= joinNonce
    BY <2>1, <2>2 DEF NonceRefused
  <2>4. QED
    BY <2>2, <2>3
<1>2. QED
  BY <1>1, TypeCorrect, AnswerAheadHolds, PTL DEF Spec, AnswerNotRefused
=============================================================================
