------------------------- MODULE LoRaWANActivation -------------------------
(* Activation and persistence of a LoRaWANNode (LoRaWAN.cpp): beginOTAA and   *)
(* beginABP, the Nonces and Session buffers and their way to non-volatile     *)
(* memory and back, activateOTAA with its JoinRequest and JoinAccept,         *)
(* activateABP, clearSession, and sendReceive as far as it uses and moves the *)
(* session. The join server, the air and the application's flash are          *)
(* environment.                                                               *)
(*                                                                            *)
(* activateOTAA is two steps, the transmission and what the receive windows   *)
(* bring, because the server, the air and a power failure act in between.     *)
EXTENDS Naturals, FiniteSets

CONSTANTS
  Modes,            \* activation modes the application begins with
  Revs,             \* LoRaWAN 1.x minor versions the device may be provisioned for
  LateRevs,         \* the ones for which a JoinAccept may miss its own windows
  SavePending,      \* the application may save a restored, not yet activated session
  DevNonceMod,      \* devNonce is a uint16_t: 2^16
  MaxJoinNonce,     \* bound on the server's JoinNonces
  MaxFCnt,          \* bound on fCntUp
  AdrAckLimit,      \* 1 << adrLimitExp
  FOptsMax,         \* RADIOLIB_LORAWAN_FHDR_FOPTS_MAX_LEN
  Foreign,          \* JoinAccepts that are not for this device are on the air
  MaxMishaps,       \* bound on failures, restarts, foreign JoinAccepts, sessions cleared
  Signature(_, _, _) \* checkSum16 over mode, devNonce and joinNonce

ASSUME ActivationAssumption ==
  /\ Modes \subseteq {"OTAA", "ABP"}
  /\ Revs \subseteq {0, 1}
  /\ LateRevs \subseteq Revs
  /\ SavePending \in BOOLEAN
  /\ DevNonceMod \in Nat \ {0, 1}
  /\ MaxJoinNonce \in Nat
  /\ MaxFCnt \in Nat
  /\ AdrAckLimit \in Nat \ {0}
  /\ FOptsMax \in Nat
  /\ Foreign \in BOOLEAN
  /\ MaxMishaps \in Nat
  /\ \A m \in {"NONE", "OTAA", "ABP"}, d \in 0 .. DevNonceMod - 1, j \in 0 .. MaxJoinNonce :
        Signature(m, d, j) \in Nat

VARIABLES
  \* the node's RAM
  sessionStatus, lwMode, rev, devNonce, joinNonce, keys, fCntUp, fOptsUp,
  dwellTimeUp, bufferNonces, bufferSession,
  \* where the application is: "off", restoring "nonces", restoring the
  \* "session", "idle" between calls, or in the "rx" windows of activateOTAA
  pc,
  \* the application's non-volatile memory
  flashNonces, flashSession,
  \* join server and air
  provisioned, requests, accepts, server, mishaps,
  \* history
  issued, requested, uplinks, heard, noncesStale, sessionStale,
  misled,               \* joinNonce or rev are those of a foreign JoinAccept
  sent                  \* flips with every JoinRequest and every data frame

ramVars   == <<sessionStatus, lwMode, rev, devNonce, joinNonce, keys, fCntUp, fOptsUp,
               dwellTimeUp, bufferNonces, bufferSession>>
flashVars == <<flashNonces, flashSession>>
airVars   == <<requests, accepts>>
netVars   == <<server, issued>>
vars == <<ramVars, pc, flashVars, airVars, netVars, provisioned, mishaps,
          requested, sent, uplinks, heard, noncesStale, sessionStale, misled>>

-----------------------------------------------------------------------------
(* Data *)

DevNonces  == 0 .. DevNonceMod - 1
JoinNonces == 0 .. MaxJoinNonce
FCnts      == 0 .. MaxFCnt

(* devAddr, revision and session keys of one session, told apart by what they *)
(* are derived from.                                                          *)
SessionKeys == [src : {"none", "abp", "join"}, dn : DevNonces, jn : JoinNonces, rev : {0, 1}]
NoKeys      == [src |-> "none", dn |-> 0, jn |-> 0, rev |-> 0]
AbpKeys(r)  == [src |-> "abp", dn |-> 0, jn |-> 0, rev |-> r]
JoinKeys(d, j, r) == [src |-> "join", dn |-> d, jn |-> j, rev |-> r]

(* The uplink MAC queue, of which activation uses this much: pad zero bytes,  *)
(* then possibly a two-byte RekeyInd (OTAA) or ResetInd (ABP).                *)
QueueLen(q) == q.pad + (IF q.ind THEN 2 ELSE 0)
Queues      == {q \in [pad : 0 .. FOptsMax, ind : BOOLEAN] : QueueLen(q) <= FOptsMax}
EmptyQueue  == [pad |-> 0, ind |-> FALSE]

(* pushMacCommand of the indication: refused when it does not fit.            *)
CanPush(q) == QueueLen(q) + 2 <= FOptsMax
Push(q)    == [pad |-> QueueLen(q), ind |-> TRUE]

(* memset of the bytes that leaves fOptsUpLen as it was.                      *)
Zeroed(q) == [pad |-> QueueLen(q), ind |-> FALSE]

(* clearMacCommands: the indication persists, but not behind zero bytes (the  *)
(* queue module checks this of the byte-level operation).                     *)
Cleared(q) == IF q.pad = 0 THEN q ELSE EmptyQueue

ZeroNonces  == [mode |-> "NONE", dn |-> 0, jn |-> 0, sig |-> 0]
ZeroSession == [status |-> "NONE", keys |-> NoKeys, sig |-> 0, fCntUp |-> 0,
                fOptsUp |-> EmptyQueue, dwellTimeUp |-> FALSE]

NoncesBuffers  == [mode : {"NONE", "OTAA", "ABP"}, dn : DevNonces, jn : JoinNonces, sig : Nat]
Statuses       == {"NONE", "ACTIVATING", "PENDING", "ACTIVE"}
SessionBuffers == [status : Statuses, keys : SessionKeys, sig : Nat, fCntUp : FCnts,
                   fOptsUp : Queues, dwellTimeUp : BOOLEAN]

isActivated == sessionStatus = "ACTIVE"

(* What getBufferNonces and getBufferSession return.                          *)
Signed(b) == [b EXCEPT !.mode = lwMode, !.sig = Signature(lwMode, b.dn, b.jn)]
NoncesImage  == Signed(bufferNonces)
SessionImageWithoutFCnt == [bufferSession EXCEPT !.status = sessionStatus, !.fOptsUp = fOptsUp]
SessionImage == [bufferSession EXCEPT !.status = sessionStatus, !.fCntUp = fCntUp,
                                      !.fOptsUp = fOptsUp]

(* The DevNonce of the request whose answer is awaited: devNonce - 1, 16 bits *)
PrevDevNonce == (devNonce + DevNonceMod - 1) % DevNonceMod

-----------------------------------------------------------------------------
(* Slips a change of the code could make, each in place of the definition     *)
(* that it is a variant of: they show that the properties would notice.       *)

DevNonceNotWrapped         == devNonce + 1
NoncesOfBeforeRequest      == Signed(bufferNonces)
SessionChecksumOnly        == flashSession.valid
StatusPendingBeforeCheck(b) == IF b.status = "NONE" THEN "NONE" ELSE "PENDING"
NonceRefusedOffByOne(jn)   == joinNonce > 0 /\ jn <= joinNonce + 1
MicOfCurrentDevNonce(a)    == provisioned = 1 => a.dn = devNonce
KeysOfCurrentDevNonce(a)   == JoinKeys(devNonce, a.jn, rev)
RekeyCheckedOneFrameLate   == /\ fCntUp = AdrAckLimit + 1
                              /\ keys.src = "join" /\ fOptsUp.pad = 0 /\ fOptsUp.ind

-----------------------------------------------------------------------------
(* When the application loses what it must not lose *)

(* Flash holds the DevNonce that getBufferNonces hands out. *)
NoncesCurrent == flashNonces.valid /\ flashNonces.buf.mode = lwMode
                 /\ flashNonces.buf.dn = NoncesImage.dn

(* A saved image is good for a restore if it says ACTIVE: see setBufferSession. *)
Restorable(b) == [b EXCEPT !.status = IF @ = "PENDING" THEN "ACTIVE" ELSE @]
SessionCurrent == /\ flashSession = [valid |-> TRUE, buf |-> Restorable(SessionImage)]
                  /\ flashNonces = [valid |-> TRUE, buf |-> NoncesImage]

InUse == pc \in {"idle", "rx"}
NoncesBehind  == InUse /\ lwMode = "OTAA" /\ ~NoncesCurrent
SessionBehind == InUse /\ ~SessionCurrent

(* An ABP node whose session is cleared starts again at counter 0.            *)
StartsOver == lwMode = "ABP" /\ uplinks # {}

(* RAM is dropped, by a power failure or a new begin; tornN and tornS say     *)
(* that a write to flash was cut.                                             *)
DropRam(tornN, tornS) ==
  /\ noncesStale' = \/ noncesStale
                    \/ requested # {} /\ (tornN \/ NoncesBehind)
  /\ sessionStale' = \/ sessionStale
                     \/ uplinks # {} /\ (tornN \/ tornS \/ SessionBehind)

Mishap == mishaps < MaxMishaps /\ mishaps' = mishaps + 1

(* Frames in the air when the windows close, and before new ones open, are    *)
(* lost, or come late.                                                        *)
AirCloses(rest) ==
  IF provisioned \in LateRevs
  THEN accepts' = rest /\ UNCHANGED requests
  ELSE accepts' = {} /\ requests' = {}

-----------------------------------------------------------------------------
(* Power, begin and the persistent buffers *)

PowerLoss(tornN, tornS) ==
  /\ pc # "off"
  /\ (tornN \/ tornS) => pc = "idle"
  /\ Mishap
  /\ DropRam(tornN, tornS)
  /\ pc' = "off"
  /\ sessionStatus' = "NONE" /\ lwMode' = "NONE" /\ rev' = 0
  /\ devNonce' = 0 /\ joinNonce' = 0 /\ keys' = NoKeys /\ fCntUp' = 0
  /\ fOptsUp' = EmptyQueue /\ dwellTimeUp' = FALSE
  /\ bufferNonces' = ZeroNonces /\ bufferSession' = ZeroSession
  /\ flashNonces' = [flashNonces EXCEPT !.valid = @ /\ ~tornN]
  /\ flashSession' = [flashSession EXCEPT !.valid = @ /\ ~tornS]
  /\ IF pc = "rx" THEN AirCloses(accepts) ELSE UNCHANGED airVars
  /\ misled' = FALSE
  /\ UNCHANGED <<netVars, provisioned, requested, sent, uplinks, heard>>

(* clearSession: everything of the session but the length of the MAC queue.   *)
clearSession ==
  /\ bufferSession' = ZeroSession
  /\ fOptsUp' = Zeroed(fOptsUp)
  /\ fCntUp' = 0
  /\ sessionStatus' = "NONE"

(* beginOTAA and beginABP: clearNonces, clearSession, then the credentials.   *)
(* rev becomes 1 with a 1.1 key and keeps its value without one.              *)
Begin(m) ==
  /\ pc \in {"off", "idle"}
  /\ clearSession
  /\ bufferNonces' = ZeroNonces
  /\ devNonce' = 0 /\ joinNonce' = 0
  /\ lwMode' = m
  /\ rev' = IF provisioned = 1 THEN 1 ELSE rev
  /\ keys' = IF m = "ABP" THEN AbpKeys(rev') ELSE keys
  /\ pc' = "nonces"
  /\ IF pc = "idle" THEN Mishap ELSE UNCHANGED mishaps
  /\ LET otherMode == flashNonces.valid /\ flashNonces.buf.mode # m IN
     /\ noncesStale' = \/ noncesStale
                       \/ requested # {} /\ (otherMode \/ NoncesBehind)
     /\ sessionStale' = \/ sessionStale
                        \/ uplinks # {} /\ (otherMode \/ SessionBehind)
  /\ misled' = (misled /\ provisioned = 0)
  /\ UNCHANGED <<dwellTimeUp, flashVars, airVars, netVars, provisioned, requested, sent, uplinks,
                 heard>>

(* setBufferNonces on what flash holds: an erased or torn buffer fails the    *)
(* checksum, one of another configuration is discarded.                       *)
NoncesAccepted == flashNonces.valid /\ flashNonces.buf.mode = lwMode

setBufferNonces ==
  /\ pc = "nonces"
  /\ pc' = "session"
  /\ IF NoncesAccepted
     THEN /\ bufferNonces' = flashNonces.buf
          /\ devNonce' = flashNonces.buf.dn
          /\ joinNonce' = flashNonces.buf.jn
     ELSE UNCHANGED <<bufferNonces, devNonce, joinNonce>>
  /\ UNCHANGED <<sessionStatus, lwMode, rev, keys, fCntUp, fOptsUp, dwellTimeUp, bufferSession,
                 flashVars, airVars, netVars, provisioned, mishaps, requested, sent, uplinks,
                 heard, noncesStale, sessionStale, misled>>

(* setBufferSession: only with the signature of the Nonces it was saved with; *)
(* only a session saved as ACTIVE is restored, whatever its status becomes.   *)
SessionMatches == flashSession.valid /\ flashSession.buf.sig = bufferNonces.sig
RestoredStatus(b) == IF b.status = "ACTIVE" THEN "PENDING" ELSE b.status

setBufferSession ==
  /\ pc = "session"
  /\ pc' = "idle"
  /\ IF SessionMatches
     THEN LET b == flashSession.buf IN
          /\ bufferSession' = b
          /\ sessionStatus' = RestoredStatus(b)
          /\ IF b.status = "ACTIVE"
             THEN /\ dwellTimeUp' = b.dwellTimeUp
                  /\ fOptsUp' = b.fOptsUp
                  /\ keys' = b.keys
                  /\ rev' = b.keys.rev
                  /\ fCntUp' = b.fCntUp
             ELSE UNCHANGED <<dwellTimeUp, fOptsUp, keys, rev, fCntUp>>
     ELSE UNCHANGED <<bufferSession, sessionStatus, dwellTimeUp, fOptsUp, keys, rev, fCntUp>>
  /\ UNCHANGED <<lwMode, devNonce, joinNonce, bufferNonces, flashVars, airVars, netVars,
                 provisioned, mishaps, requested, sent, uplinks, heard, noncesStale, sessionStale,
                 misled>>

(* getBufferNonces and getBufferSession, their result written to flash.       *)
SaveNonces ==
  /\ pc = "idle"
  /\ bufferNonces' = NoncesImage
  /\ flashNonces' = [valid |-> TRUE, buf |-> NoncesImage]
  /\ UNCHANGED <<sessionStatus, lwMode, rev, devNonce, joinNonce, keys, fCntUp, fOptsUp,
                 dwellTimeUp, bufferSession, pc, flashSession, airVars, netVars, provisioned,
                 mishaps, requested, sent, uplinks, heard, noncesStale, sessionStale, misled>>

SaveSession ==
  /\ pc = "idle"
  /\ sessionStatus = "PENDING" => SavePending
  /\ bufferSession' = SessionImage
  /\ flashSession' = [valid |-> TRUE, buf |-> SessionImage]
  /\ UNCHANGED <<sessionStatus, lwMode, rev, devNonce, joinNonce, keys, fCntUp, fOptsUp,
                 dwellTimeUp, bufferNonces, pc, flashNonces, airVars, netVars, provisioned,
                 mishaps, requested, sent, uplinks, heard, noncesStale, sessionStale, misled>>

-----------------------------------------------------------------------------
(* Activation *)

(* A restored session becomes active without a word on the air.               *)
ActivateRestored ==
  /\ pc = "idle"
  /\ sessionStatus = "PENDING"
  /\ sessionStatus' = "ACTIVE"
  /\ UNCHANGED <<lwMode, rev, devNonce, joinNonce, keys, fCntUp, fOptsUp, dwellTimeUp,
                 bufferNonces, bufferSession, pc, flashVars, airVars, netVars, provisioned,
                 mishaps, requested, sent, uplinks, heard, noncesStale, sessionStale, misled>>

(* createSession sets the MAC state, in RAM and in the Session buffer, only   *)
(* when there is no session at all: not after one saved as ACTIVATING.        *)
Created == IF sessionStatus = "NONE" THEN [bufferSession EXCEPT !.dwellTimeUp = TRUE]
           ELSE bufferSession
CreateSession == dwellTimeUp' = (dwellTimeUp \/ sessionStatus = "NONE")

ActivateABP ==
  /\ pc = "idle" /\ lwMode = "ABP"
  /\ sessionStatus \in {"NONE", "ACTIVATING"}
  /\ CreateSession
  /\ bufferNonces' = NoncesImage
  /\ bufferSession' = [Created EXCEPT !.sig = NoncesImage.sig, !.keys = keys]
  /\ fOptsUp' = IF rev = 1 /\ CanPush(fOptsUp) THEN Push(fOptsUp) ELSE fOptsUp
  /\ sessionStatus' = "ACTIVE"
  /\ heard' = FALSE
  /\ UNCHANGED <<lwMode, rev, devNonce, joinNonce, keys, fCntUp, pc, flashVars, airVars, netVars,
                 provisioned, mishaps, requested, sent, uplinks, noncesStale, sessionStale, misled>>

(* activateOTAA up to the transmission of the JoinRequest.                    *)
StartJoin ==
  /\ pc = "idle" /\ lwMode = "OTAA"
  /\ sessionStatus \in {"NONE", "ACTIVATING"}
  /\ CreateSession
  /\ sessionStatus' = "ACTIVATING"
  /\ UNCHANGED <<lwMode, rev, joinNonce, keys, fCntUp, fOptsUp, flashVars, netVars,
                 provisioned, uplinks, heard, sessionStale, misled>>

JoinRequest == [dn |-> devNonce, key |-> IF rev = 1 THEN "nwkKey" ELSE "appKey"]

(* Duty cycle, channel selection or radio refuse before anything is sent.     *)
JoinRefused ==
  /\ StartJoin
  /\ Mishap
  /\ bufferSession' = Created
  /\ UNCHANGED <<devNonce, bufferNonces, pc, airVars, requested, sent, noncesStale>>

(* transmitUplink times out on the IRQ of a frame that did go out: the error  *)
(* returns before devNonce moves.                                             *)
JoinTxTimeout ==
  /\ StartJoin
  /\ Mishap
  /\ bufferSession' = Created
  /\ requests' = requests \union {JoinRequest}
  /\ requested' = requested \union {devNonce}
  /\ sent' = ~sent
  /\ noncesStale' = TRUE
  /\ UNCHANGED <<devNonce, bufferNonces, pc, accepts>>

(* The JoinRequest is sent, devNonce moves on in RAM and in both buffers.     *)
NextDevNonce == (devNonce + 1) % DevNonceMod
NoncesOfRequest == Signed([bufferNonces EXCEPT !.dn = NextDevNonce])

JoinRequestSent ==
  /\ StartJoin
  /\ IF provisioned \in LateRevs
     THEN requests' = requests \union {JoinRequest} /\ UNCHANGED accepts
     ELSE requests' = {JoinRequest} /\ accepts' = {}
  /\ requested' = requested \union {devNonce}
  /\ sent' = ~sent
  /\ devNonce' = NextDevNonce
  /\ bufferNonces' = NoncesOfRequest
  /\ bufferSession' = [Created EXCEPT !.sig = bufferNonces'.sig]
  /\ noncesStale' = (noncesStale \/ NextDevNonce = 0)
  /\ pc' = "rx"
  /\ UNCHANGED mishaps

(* The join server answers a request that carries the right MIC and a         *)
(* DevNonce above all it has seen.                                            *)
Answerable(r) == /\ r.key = (IF provisioned = 1 THEN "nwkKey" ELSE "appKey")
                 /\ r.dn >= server.nextDn
                 /\ server.joinNonce < MaxJoinNonce

ServerAnswers(r) ==
  /\ r \in requests
  /\ Answerable(r)
  /\ LET jn == server.joinNonce + 1 IN
     /\ server' = [nextDn |-> r.dn + 1, joinNonce |-> jn]
     /\ accepts' = accepts \union {[dn |-> r.dn, jn |-> jn]}
     /\ issued' = issued \union {JoinKeys(r.dn, jn, provisioned)}
  /\ requests' = requests \ {r}
  /\ UNCHANGED <<ramVars, pc, flashVars, provisioned, mishaps, requested, sent, uplinks,
                 heard, noncesStale, sessionStale, misled>>

(* No frame in the windows, a malformed one, or a radio error.                *)
NoJoinAccept ==
  /\ pc = "rx"
  /\ pc' = "idle"
  /\ IF (accepts = {} \/ rev # provisioned) /\ ~\E r \in requests : Answerable(r)
     THEN UNCHANGED mishaps ELSE Mishap
  /\ AirCloses(accepts)
  /\ UNCHANGED <<ramVars, flashVars, netVars, provisioned, requested, sent, uplinks,
                 heard, noncesStale, sessionStale, misled>>

-----------------------------------------------------------------------------
(* processJoinAccept: the JoinNonce is judged against the one in RAM, which   *)
(* it replaces, together with rev, before the MIC is verified.                *)
NonceRefused(jn) == /\ joinNonce > 0
                    /\ IF rev = 1 THEN jn <= joinNonce ELSE jn = joinNonce

(* A JoinAccept for an earlier request that comes in the windows before the   *)
(* answer to this one.                                                        *)
Answered(dn) == \/ \E a \in accepts : a.dn = dn
                \/ \E r \in requests : r.dn = dn /\ Answerable(r)
Overtakes(a) == a.dn # PrevDevNonce /\ Answered(PrevDevNonce)

(* An answer of the server is lost on the device.                             *)
Wasted(a) == Overtakes(a) \/ (misled /\ NonceRefused(a.jn))

(* 1.1 binds the accept to the request through the MIC, 1.0 does not.         *)
MicValid(a) == provisioned = 1 => a.dn = PrevDevNonce

ReceiveAccept(a) ==
  /\ pc = "rx"
  /\ a \in accepts
  /\ rev = provisioned          \* it decrypts with the key of this revision
  /\ pc' = "idle"
  /\ AirCloses(accepts \ {a})
  /\ IF Wasted(a) THEN Mishap ELSE UNCHANGED mishaps
  /\ UNCHANGED <<lwMode, devNonce, dwellTimeUp, flashVars, netVars, provisioned, requested,
                 sent, uplinks, noncesStale, sessionStale, misled>>

RejectJoinNonce(a) ==
  /\ ReceiveAccept(a)
  /\ NonceRefused(a.jn)
  /\ UNCHANGED <<sessionStatus, rev, joinNonce, keys, fCntUp, fOptsUp, bufferNonces,
                 bufferSession, heard>>

RejectMic(a) ==
  /\ ReceiveAccept(a)
  /\ ~NonceRefused(a.jn) /\ ~MicValid(a)
  /\ joinNonce' = a.jn
  /\ UNCHANGED <<sessionStatus, rev, keys, fCntUp, fOptsUp, bufferNonces, bufferSession, heard>>

(* Keys are derived with devNonce - 1; a 1.1 session starts with a RekeyInd,  *)
(* and without room for it the activation fails half way.                     *)
DerivedKeys(a) == JoinKeys(PrevDevNonce, a.jn, rev)

QueueFull(a) ==
  /\ ReceiveAccept(a)
  /\ ~NonceRefused(a.jn) /\ MicValid(a)
  /\ rev = 1 /\ ~CanPush(fOptsUp)
  /\ joinNonce' = a.jn
  /\ keys' = DerivedKeys(a)
  /\ UNCHANGED <<sessionStatus, rev, fCntUp, fOptsUp, bufferNonces, bufferSession, heard>>

Joined(a) ==
  /\ ReceiveAccept(a)
  /\ ~NonceRefused(a.jn) /\ MicValid(a)
  /\ rev = 1 => CanPush(fOptsUp)
  /\ joinNonce' = a.jn
  /\ keys' = DerivedKeys(a)
  /\ fOptsUp' = IF rev = 1 THEN Push(fOptsUp) ELSE fOptsUp
  /\ bufferNonces' = Signed([bufferNonces EXCEPT !.jn = a.jn])
  /\ bufferSession' = [bufferSession EXCEPT !.keys = DerivedKeys(a), !.sig = bufferNonces'.sig]
  /\ sessionStatus' = "ACTIVE"
  /\ heard' = FALSE
  /\ UNCHANGED <<rev, fCntUp>>

(* A JoinAccept for another device, or a damaged one: what decrypts from it   *)
(* is arbitrary, its MIC fails.                                               *)
ForeignAccept(jn, r) ==
  /\ pc = "rx"
  /\ Foreign
  /\ Mishap
  /\ pc' = "idle"
  /\ IF NonceRefused(jn) THEN UNCHANGED <<joinNonce, rev, misled>>
     ELSE joinNonce' = jn /\ rev' = r /\ misled' = TRUE
  /\ AirCloses(accepts)
  /\ UNCHANGED <<sessionStatus, lwMode, devNonce, keys, fCntUp, fOptsUp, dwellTimeUp,
                 bufferNonces, bufferSession, flashVars, netVars, provisioned,
                 requested, sent, uplinks, heard, noncesStale, sessionStale>>

-----------------------------------------------------------------------------
(* The session in use *)

(* The check at the head of sendReceive: a RekeyInd still queued at the       *)
(* ADR_ACK_LIMIT-th frame (getMacPayload finds it only at the head). The      *)
(* indication of a joined session is a RekeyInd.                              *)
RekeyOverdue == /\ fCntUp = AdrAckLimit
                /\ keys.src = "join" /\ fOptsUp.pad = 0 /\ fOptsUp.ind

RevertToJoin ==
  /\ pc = "idle"
  /\ RekeyOverdue
  /\ clearSession
  /\ sessionStale' = (sessionStale \/ StartsOver)
  /\ UNCHANGED <<lwMode, rev, devNonce, joinNonce, keys, dwellTimeUp, bufferNonces, pc, flashVars,
                 airVars, netVars, provisioned, mishaps, requested, sent, uplinks, heard,
                 noncesStale, misled>>

(* sendReceive of an active session. A frame without payload on port 0 takes  *)
(* the MAC queue along as its payload and leaves it empty. The counter moves  *)
(* even if the radio reports an error; without a downlink the queue is        *)
(* cleared of what does not persist, with a Class A downlink it is emptied.   *)
QueueSent(macOnly) == IF macOnly THEN EmptyQueue ELSE fOptsUp
QueueAfter(q, outcome) == CASE outcome = "error"    -> q
                            [] outcome = "silence"  -> Cleared(q)
                            [] outcome = "downlink" -> EmptyQueue
NextFCnt == fCntUp + 1

SendReceive(macOnly, outcome) ==
  /\ pc = "idle"
  /\ isActivated
  /\ ~RekeyOverdue
  /\ fCntUp < MaxFCnt
  /\ uplinks' = uplinks \union {<<keys, fCntUp>>}
  /\ sent' = ~sent
  /\ fCntUp' = NextFCnt
  /\ fOptsUp' = QueueAfter(QueueSent(macOnly), outcome)
  /\ heard' = (heard \/ outcome = "downlink")
  /\ UNCHANGED <<sessionStatus, lwMode, rev, devNonce, joinNonce, keys, dwellTimeUp, bufferNonces,
                 bufferSession, pc, flashVars, airVars, netVars, provisioned, mishaps,
                 requested, noncesStale, sessionStale, misled>>

(* The application calls clearSession.                                        *)
AppClearsSession ==
  /\ pc = "idle"
  /\ Mishap
  /\ clearSession
  /\ sessionStale' = (sessionStale \/ StartsOver)
  /\ UNCHANGED <<lwMode, rev, devNonce, joinNonce, keys, dwellTimeUp, bufferNonces, pc, flashVars,
                 airVars, netVars, provisioned, requested, sent, uplinks, heard, noncesStale,
                 misled>>

-----------------------------------------------------------------------------
Init ==
  /\ sessionStatus = "NONE" /\ lwMode = "NONE" /\ rev = 0
  /\ devNonce = 0 /\ joinNonce = 0 /\ keys = NoKeys /\ fCntUp = 0
  /\ fOptsUp = EmptyQueue /\ dwellTimeUp = FALSE
  /\ bufferNonces = ZeroNonces /\ bufferSession = ZeroSession
  /\ pc = "off"
  /\ flashNonces = [valid |-> FALSE, buf |-> ZeroNonces]
  /\ flashSession = [valid |-> FALSE, buf |-> ZeroSession]
  /\ provisioned \in Revs
  /\ requests = {} /\ accepts = {}
  /\ server = [nextDn |-> 0, joinNonce |-> 0]
  /\ mishaps = 0
  /\ issued = {AbpKeys(r) : r \in {0, 1}}
  /\ requested = {} /\ uplinks = {} /\ heard = FALSE
  /\ sent = FALSE
  /\ noncesStale = FALSE /\ sessionStale = FALSE /\ misled = FALSE

Boot == (\E m \in Modes : Begin(m)) \/ setBufferNonces \/ setBufferSession

Activate == ActivateRestored \/ ActivateABP \/ JoinRequestSent

Answers == \E a \in accepts : RejectJoinNonce(a) \/ RejectMic(a) \/ QueueFull(a) \/ Joined(a)

Next ==
  \/ Boot
  \/ Activate
  \/ Answers
  \/ \E tornN, tornS \in BOOLEAN : PowerLoss(tornN, tornS)
  \/ SaveNonces
  \/ SaveSession
  \/ JoinRefused
  \/ JoinTxTimeout
  \/ \E r \in requests : ServerAnswers(r)
  \/ NoJoinAccept
  \/ \E jn \in JoinNonces, r \in {0, 1} : ForeignAccept(jn, r)
  \/ RevertToJoin
  \/ \E macOnly \in BOOLEAN, outcome \in {"error", "silence", "downlink"} :
        SendReceive(macOnly, outcome)
  \/ AppClearsSession

Spec == Init /\ [][Next]_vars

(* An application that carries on after every call, and a network that        *)
(* answers while the windows are open.                                        *)
Fairness == /\ WF_vars(Boot)
            /\ WF_vars(Activate)
            /\ WF_vars(Answers)
            /\ WF_vars(NoJoinAccept)
            /\ WF_vars(\E r \in requests : ServerAnswers(r))

FairSpec == Spec /\ Fairness

-----------------------------------------------------------------------------
(* Properties *)

TypeOK ==
  /\ sessionStatus \in Statuses
  /\ lwMode \in {"NONE", "OTAA", "ABP"}
  /\ rev \in {0, 1}
  /\ devNonce \in DevNonces
  /\ joinNonce \in JoinNonces
  /\ keys \in SessionKeys
  /\ fCntUp \in FCnts
  /\ fOptsUp \in Queues
  /\ dwellTimeUp \in BOOLEAN
  /\ bufferNonces \in NoncesBuffers
  /\ bufferSession \in SessionBuffers
  /\ pc \in {"off", "nonces", "session", "idle", "rx"}
  /\ flashNonces \in [valid : BOOLEAN, buf : NoncesBuffers]
  /\ flashSession \in [valid : BOOLEAN, buf : SessionBuffers]
  /\ provisioned \in {0, 1}
  /\ requests \subseteq [dn : DevNonces, key : {"nwkKey", "appKey"}]
  /\ accepts \subseteq [dn : DevNonces, jn : JoinNonces]
  /\ server \in [nextDn : 0 .. DevNonceMod, joinNonce : JoinNonces]
  /\ mishaps \in 0 .. MaxMishaps
  /\ issued \subseteq SessionKeys
  /\ requested \subseteq DevNonces
  /\ uplinks \subseteq (SessionKeys \X FCnts)
  /\ heard \in BOOLEAN
  /\ sent \in BOOLEAN
  /\ noncesStale \in BOOLEAN
  /\ sessionStale \in BOOLEAN
  /\ misled \in BOOLEAN

(* A running session stands under keys the network has derived too, through   *)
(* lost, late and refused JoinAccepts, restarts and restored buffers.         *)
KeysAgreed == isActivated => keys \in issued

(* The checksum of the Nonces buffer that a session with keys k was begun with. *)
SignatureOf(k) == IF k.src = "join" THEN Signature("OTAA", (k.dn + 1) % DevNonceMod, k.jn)
                  ELSE Signature("ABP", 0, 0)

(* A session that runs or waits to be activated was begun with Nonces of the  *)
(* same signature as the ones next to it, whichever of the two buffers a      *)
(* power failure kept from flash: that is all that checkSum16 tells apart. A  *)
(* signature of 0 is also that of the empty buffer after a begin.             *)
SessionSignedByNonces ==
  sessionStatus \in {"PENDING", "ACTIVE"} => SignatureOf(keys) \in {bufferNonces.sig, 0}

(* It was joined with these very Nonces: true only of a signature without     *)
(* collisions.                                                                *)
SessionBelongsToNonces ==
  sessionStatus \in {"PENDING", "ACTIVE"} /\ lwMode = "OTAA"
    => keys.jn = bufferNonces.jn /\ (keys.dn + 1) % DevNonceMod = bufferNonces.dn

(* A session that activateOTAA or activateABP resumes has all that the        *)
(* Session buffer holds for it: its keys, and counters no lower.              *)
RestoredSessionIntact ==
  isActivated => keys = bufferSession.keys /\ fCntUp >= bufferSession.fCntUp

(* A joined session with its RekeyInd at the head of the queue does not get   *)
(* past the ADR_ACK_LIMIT-th frame, also over restarts in between.            *)
PendingRekeyReverts ==
  isActivated /\ keys.src = "join" /\ fOptsUp = [pad |-> 0, ind |-> TRUE]
    => fCntUp <= AdrAckLimit

(* A joined 1.1 session that heard no downlink has its RekeyInd unanswered    *)
(* and does not get past the ADR_ACK_LIMIT-th frame.                          *)
UnheardSessionReverts ==
  isActivated /\ lwMode = "OTAA" /\ keys.rev = 1 /\ ~heard => fCntUp <= AdrAckLimit

(* A JoinRequest carries a DevNonce that none carried before, unless the      *)
(* application lost the Nonces, the radio timed out on a frame it did send,   *)
(* or all of them are used up.                                                *)
DevNonceFresh ==
  [][~noncesStale /\ (JoinRequestSent \/ JoinTxTimeout) => devNonce \notin requested]_vars

(* The JoinAccept that answers the current request is not refused for its     *)
(* JoinNonce, although accepts that were late, failed the MIC or met a full   *)
(* queue have left theirs in RAM, unless a foreign one has (and while         *)
(* DevNonces tell requests apart).                                            *)
AnswerNotRefused ==
  [][\A a \in accepts : RejectJoinNonce(a) /\ a.dn = PrevDevNonce => noncesStale \/ misled]_vars

(* The dwell time limit of the band is in force in every session.             *)
DwellTimeEnforced == isActivated => dwellTimeUp

(* The node keeps the promise of LoRaWANSessionPromise.                       *)
Promise == INSTANCE LoRaWANSessionPromise
             WITH Keys <- SessionKeys,
                  session <- IF isActivated THEN keys ELSE NoKeys,
                  frames <- uplinks
KeepsPromise == Promise!Spec

(* A device that is not in a session gets into one as soon as the mishaps of  *)
(* the run are used up, unless a foreign JoinAccept left it a JoinNonce or a  *)
(* revision that keeps it out until it is restarted.                          *)
EventuallyJoined == [](pc = "idle" => <>(isActivated \/ misled))

(* The same without the exception.                                            *)
JoinedWhateverHeard == [](pc = "idle" => <>isActivated)
=============================================================================
