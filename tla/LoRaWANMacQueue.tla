-------------------------- MODULE LoRaWANMacQueue --------------------------
(* The MAC command queues of a LoRaWANNode, byte by byte: fOptsUp, the        *)
(* commands and answers that wait for the next uplink, and fOptsDown, what    *)
(* the last downlink left for the user to retrieve (LoRaWAN.cpp:              *)
(* pushMacCommand, getMacPayload, clearMacCommands and their callers).        *)
(*                                                                            *)
(* Five operators have a variant right before them, with a slip that a change *)
(* of the code could make: PersistentInAnyDirection, FitsOffByOne,            *)
(* PushWithoutCid, FoundAtHeadOnly and ClearWithoutMove. The properties tell  *)
(* each from the original.                                                    *)
EXTENDS Naturals, Sequences, SequencesExt, FiniteSetsExt

CONSTANTS
  FOptsMax,     \* RADIOLIB_LORAWAN_FHDR_FOPTS_MAX_LEN
  UserCids,     \* commands the user requests
  Downlinks     \* what downlinks carry: sequences of CIDs

VARIABLES
  fOptsUp, fOptsDown,   \* [buf, len], buf from 0 on as in the code
  isMACPayload,         \* an uplink is to consist of MAC commands only
  active,               \* the session is active
  cleared,              \* history: clearSession hit a queue that was not empty
  lastDown,             \* history: CIDs of the downlink that answered the last uplink
  apart                 \* history: an uplink of its own answered that downlink

vars == <<fOptsUp, fOptsDown, isMACPayload, active, cleared, lastDown, apart>>

-----------------------------------------------------------------------------
(* The table of MAC commands *)

RESET          == 1
LINK_CHECK     == 2
LINK_ADR       == 3
DEV_STATUS     == 6
RX_TIMING_SETUP == 8
REKEY          == 11
DEVICE_TIME    == 13
DEVICE_MODE    == 32

(* CID, payload down, payload up, persist, user *)
MacTable == {
  << 1, 1, 1, TRUE,  FALSE>>, << 2, 2, 0, FALSE, TRUE >>, << 3, 4, 1, FALSE, FALSE>>,
  << 4, 1, 0, FALSE, FALSE>>, << 5, 4, 1, TRUE,  FALSE>>, << 6, 0, 2, FALSE, FALSE>>,
  << 7, 5, 1, FALSE, FALSE>>, << 8, 1, 0, TRUE,  FALSE>>, << 9, 1, 0, TRUE,  FALSE>>,
  <<10, 4, 1, TRUE,  FALSE>>, <<11, 1, 1, TRUE,  FALSE>>, <<12, 1, 0, FALSE, FALSE>>,
  <<13, 5, 0, FALSE, TRUE >>, <<14, 2, 0, FALSE, FALSE>>, <<15, 1, 1, FALSE, FALSE>>,
  <<32, 1, 1, TRUE,  FALSE>>, <<128, 5, 0, FALSE, TRUE >> }

NoCommand == <<0, 0, 0, FALSE, FALSE>>
Cids == {row[1] : row \in MacTable}
Row(cid) == IF cid \in Cids THEN CHOOSE row \in MacTable : row[1] = cid ELSE NoCommand

ASSUME QueueAssumption ==
  /\ FOptsMax \in Nat
  /\ \A cid \in UserCids : Row(cid)[5]
  /\ Downlinks \subseteq Seq(Cids)

(* getMacLen with the CID byte, 1 for an unknown CID.                         *)
MacLen(cid, dir) == 1 + (IF dir = "up" THEN Row(cid)[3] ELSE Row(cid)[2])

PersistentInAnyDirection(cid, dir) == Row(cid)[4]
IsPersistent(cid, dir) == IF dir = "up" THEN Row(cid)[4] ELSE Row(cid)[5]

-----------------------------------------------------------------------------
(* Operations on a queue *)

Index == 0 .. FOptsMax - 1
Bytes == Cids \union {0}
Empty == [buf |-> [k \in Index |-> 0], len |-> 0]
Octet == 1      \* every payload byte; rev of a RekeyInd is 1, and so is a CID

FitsOffByOne(q, cid, dir) == q.len + MacLen(cid, dir) - 1 <= FOptsMax
Fits(q, cid, dir) == q.len + MacLen(cid, dir) <= FOptsMax

(* What pushMacCommand makes of a queue, also when it refuses.                *)
PushWithoutCid(q, cid, dir) ==
  [q EXCEPT !.buf = [k \in Index |-> IF k = q.len THEN cid ELSE @[k]],
            !.len = @ + MacLen(cid, dir) - 1]
Push(q, cid, dir) ==
  LET n == MacLen(cid, dir) IN
  IF Fits(q, cid, dir)
  THEN [buf |-> [k \in Index |-> CASE k = q.len -> cid
                                   [] q.len < k /\ k < q.len + n -> Octet
                                   [] OTHER -> q.buf[k]],
        len |-> q.len + n]
  ELSE q

(* Offsets at which a scan that steps over commands (and over each unknown    *)
(* byte) stands: all of them, the end included.                               *)
Over(q, dir, p) == IF p < q.len THEN p + MacLen(q.buf[p], dir) ELSE p
Scan(q, dir) ==
  LET at[n \in 0 .. FOptsMax] == IF n = 0 THEN 0 ELSE Over(q, dir, at[n - 1]) IN at
Offsets(q, dir) == Range(Scan(q, dir))

(* getMacPayload finds the command unless an unknown byte or a command cut    *)
(* short is in the way.                                                       *)
FoundAtHeadOnly(q, cid, dir) == q.len > 0 /\ q.buf[0] = cid
Found(q, cid, dir) ==
  \E p \in Offsets(q, dir) :
     /\ p < q.len /\ q.buf[p] = cid
     /\ \A r \in Offsets(q, dir) : r <= p =>
           q.buf[r] \in Cids /\ r + MacLen(q.buf[r], dir) <= q.len

(* clearMacCommands: the tail moves over a command that does not persist, but *)
(* the memset that follows starts fLen behind the command's place, and the    *)
(* scan goes on from there.                                                   *)
ClearWithoutMove(q, dir) ==
  LET kept == {k \in Index : k < q.len /\ \A p \in Offsets(q, dir) :
                                p <= k /\ k < p + MacLen(q.buf[p], dir) => IsPersistent(q.buf[p], dir)}
  IN [buf |-> [k \in Index |-> IF k \in kept THEN q.buf[k] ELSE 0], len |-> Cardinality(kept)]
ClearOne(q, dir, s) ==
  LET f == MacLen(s.buf[s.i], dir)
      tail == q.len - s.i - f
  IN IF s.i >= q.len THEN s
     ELSE IF IsPersistent(s.buf[s.i], dir) THEN [s EXCEPT !.i = @ + f]
     ELSE [buf |-> [k \in Index |-> CASE s.i + f <= k /\ k < q.len -> 0
                                      [] s.i <= k /\ k < s.i + tail /\ k < s.i + f -> s.buf[k + f]
                                      [] OTHER -> s.buf[k]],
           i |-> s.i + f, numDeleted |-> s.numDeleted + f]
Clearing(q, dir) ==
  LET at[n \in 0 .. FOptsMax] == IF n = 0 THEN [buf |-> q.buf, i |-> 0, numDeleted |-> 0]
                                 ELSE ClearOne(q, dir, at[n - 1])
  IN at
ClearMacCommands(q, dir) ==
  LET end == Clearing(q, dir)[FOptsMax] IN [buf |-> end.buf, len |-> q.len - end.numDeleted]

(* parseDownlink pushes each command of a downlink into the one queue, and    *)
(* what execMacCommand answers into the other.                                *)
Answered(cid) == cid \in {3, 4, 5, 6, 7, 8, 9, 10, 12, 15}
Enters(cid, dir) == dir = "up" => Answered(cid)
Filling(cids, dir) ==
  LET at[n \in 0 .. Len(cids)] ==
        IF n = 0 THEN Empty
        ELSE IF Enters(cids[n], dir) THEN Push(at[n - 1], cids[n], dir) ELSE at[n - 1]
  IN at
AllFit(cids, dir) ==
  \A n \in DOMAIN cids : Enters(cids[n], dir) => Fits(Filling(cids, dir)[n - 1], cids[n], dir)
Filled(cids, dir) == IF AllFit(cids, dir) THEN Filling(cids, dir)[Len(cids)] ELSE Empty
Answering(cids) == \E n \in DOMAIN cids : Answered(cids[n])

(* The commands of a downlink are in its FOpts field, of FOptsMax bytes.      *)
ASSUME DownlinkAssumption == \A d \in Downlinks : AllFit(d, "down")

-----------------------------------------------------------------------------
(* The node's use of the queues *)

Init ==
  /\ fOptsUp = Empty /\ fOptsDown = Empty
  /\ isMACPayload = FALSE
  /\ active = FALSE
  /\ cleared = FALSE
  /\ lastDown = <<>> /\ apart = FALSE

(* OTAA needs room for its RekeyInd, ABP goes without a ResetInd.             *)
Activate(cid) ==
  /\ ~active
  /\ cid = REKEY => Fits(fOptsUp, cid, "up")
  /\ fOptsUp' = Push(fOptsUp, cid, "up")
  /\ active' = TRUE
  /\ UNCHANGED <<fOptsDown, isMACPayload, cleared, lastDown, apart>>

sendMacCommandReq(cid) ==
  /\ fOptsUp.len < FOptsMax
  /\ ~Found(fOptsUp, cid, "up")
  /\ fOptsUp' = Push(fOptsUp, cid, "up")
  /\ UNCHANGED <<fOptsDown, isMACPayload, active, cleared, lastDown, apart>>

(* A 1.1 device queues a DeviceModeInd, again and again if asked to.          *)
setClass ==
  /\ active
  /\ fOptsUp' = Push(fOptsUp, DEVICE_MODE, "up")
  /\ UNCHANGED <<fOptsDown, isMACPayload, active, cleared, lastDown, apart>>

(* Both buffers are zeroed, neither length is, nor is isMACPayload.           *)
clearSession ==
  /\ fOptsUp' = [fOptsUp EXCEPT !.buf = Empty.buf]
  /\ fOptsDown' = [fOptsDown EXCEPT !.buf = Empty.buf]
  /\ active' = FALSE
  /\ cleared' = (cleared \/ fOptsUp.len > 0 \/ fOptsDown.len > 0)
  /\ lastDown' = <<>> /\ apart' = FALSE
  /\ UNCHANGED isMACPayload

(* sendReceive with bytes ("data"), with none on a port for data ("empty") or *)
(* with none on port 0 ("mac"). An uplink without bytes takes the queue along *)
(* when isMACPayload says so, and resets it.                                  *)
Frames == {"data", "empty", "mac"}
MacOnly(frame) == frame = "mac" \/ (frame = "empty" /\ isMACPayload)
Queued(frame) == IF MacOnly(frame) THEN Empty ELSE fOptsUp
Flagged(frame) == isMACPayload /\ ~MacOnly(frame)

(* The radio fails, before or after the transmission.                         *)
SendFails(frame) ==
  /\ active
  /\ fOptsUp' = Queued(frame)
  /\ isMACPayload' = Flagged(frame)
  /\ fOptsDown' = Empty /\ lastDown' = <<>> /\ apart' = FALSE
  /\ UNCHANGED <<active, cleared>>

SendUnheard(frame) ==
  /\ active
  /\ fOptsUp' = ClearMacCommands(Queued(frame), "up")
  /\ isMACPayload' = Flagged(frame)
  /\ fOptsDown' = Empty /\ lastDown' = <<>> /\ apart' = FALSE
  /\ UNCHANGED <<active, cleared>>

(* parseDownlink of a Class A downlink. The queue is emptied. Answers that    *)
(* fit wait in it for the next uplink, and what the user can ask for is kept  *)
(* in fOptsDown. Answers that do not fit, or any commands while isMACPayload  *)
(* is set, are answered by a sendReceive inside this one: it starts with      *)
(* fOptsDown zeroed, and isMACPayload stays set if it has bytes to send.      *)
(* Unless it hears a downlink in turn, which is one more of these steps, it   *)
(* leaves both queues empty.                                                  *)
SendHeard(frame, d) ==
  LET own == d # <<>> /\ (Flagged(frame) \/ ~AllFit(d, "up")) IN
  /\ active
  /\ fOptsUp' = IF own THEN Empty ELSE Filled(d, "up")
  /\ fOptsDown' = IF own THEN Empty ELSE ClearMacCommands(Filled(d, "down"), "down")
  /\ isMACPayload' = IF own THEN Answering(d) ELSE Flagged(frame)
  /\ lastDown' = d /\ apart' = own
  /\ UNCHANGED <<active, cleared>>

Next ==
  \/ \E cid \in {REKEY, RESET} : Activate(cid)
  \/ \E cid \in UserCids : sendMacCommandReq(cid)
  \/ setClass
  \/ clearSession
  \/ \E frame \in Frames : SendFails(frame) \/ SendUnheard(frame)
  \/ \E frame \in Frames, d \in Downlinks : SendHeard(frame, d)

Spec == Init /\ [][Next]_vars

-----------------------------------------------------------------------------
(* Properties *)

Queue == [buf : [Index -> Bytes], len : 0 .. FOptsMax]

TypeOK ==
  /\ fOptsUp \in Queue
  /\ fOptsDown \in Queue
  /\ isMACPayload \in BOOLEAN
  /\ active \in BOOLEAN
  /\ cleared \in BOOLEAN
  /\ apart \in BOOLEAN
  /\ lastDown \in Downlinks \union {<<>>}

(* A scan of either queue ends exactly at its end, so no memmove or memset of *)
(* clearMacCommands gets a negative length, and only clearSession leaves      *)
(* bytes that are no command.                                                 *)
QueuesWhole ==
  \A q \in {<<fOptsUp, "up">>, <<fOptsDown, "down">>} :
     /\ q[1].len \in Offsets(q[1], q[2])
     /\ ~cleared /\ active => \A p \in Offsets(q[1], q[2]) : p < q[1].len => q[1].buf[p] \in Cids

(* Where the first command stands that does not persist.                      *)
FirstTransient(q, dir) ==
  Min({q.len} \union {p \in Offsets(q, dir) : p < q.len /\ ~IsPersistent(q.buf[p], dir)})

(* An uplink that no downlink answered leaves only commands that persist in   *)
(* the queue, among them, byte for byte, those that stood ahead of the first  *)
(* one that does not. What becomes of the others that persist is not said:    *)
(* see PersistentKept.                                                        *)
UnansweredKeepsLead ==
  [][\A frame \in Frames : SendUnheard(frame) /\ ~MacOnly(frame) =>
       /\ fOptsUp'.len >= FirstTransient(fOptsUp, "up")
       /\ \A k \in 0 .. FirstTransient(fOptsUp, "up") - 1 : fOptsUp'.buf[k] = fOptsUp.buf[k]
       /\ \A p \in Offsets(fOptsUp', "up") :
             p < fOptsUp'.len => IsPersistent(fOptsUp'.buf[p], "up")]_vars

(* LoRaWAN.cpp:279, "remove only non-persistent MAC commands, the other       *)
(* commands should be re-sent until downlink is received": an unanswered      *)
(* uplink loses no command that persists. The code loses those behind one     *)
(* that does not persist.                                                     *)
PersistentKept ==
  [][\A frame \in Frames : SendUnheard(frame) /\ ~MacOnly(frame) =>
       \A cid \in Cids : IsPersistent(cid, "up") /\ Found(fOptsUp, cid, "up")
                             => Found(fOptsUp', cid, "up")]_vars

(* However often the user asks, a request stands in the queue once (as long   *)
(* as clearSession has not put zero bytes in front).                          *)
RequestedOnce ==
  ~cleared => \A cid \in UserCids :
     Cardinality({p \in Offsets(fOptsUp, "up") : p < fOptsUp.len /\ fOptsUp.buf[p] = cid}) <= 1

(* The answers to the user's requests that lead the commands of a downlink    *)
(* can be retrieved, whatever follows them, when no uplink of its own had to  *)
(* answer that downlink.                                                      *)
LeadingAnswersAvailable ==
  (active /\ ~apart) => \A k \in DOMAIN lastDown :
     (\A j \in 1 .. k : Row(lastDown[j])[5]) => Found(fOptsDown, lastDown[k], "down")

(* The same of every downlink: not so, since the uplink that parseDownlink    *)
(* sends zeroes fOptsDown before the application has had a chance to look.    *)
AnswersOutliveUplink ==
  active => \A k \in DOMAIN lastDown :
     (\A j \in 1 .. k : Row(lastDown[j])[5]) => Found(fOptsDown, lastDown[k], "down")

(* The answers to the user's requests can be retrieved wherever they stood in *)
(* the downlink: not so, behind a command they are lost.                      *)
AnswersAvailable ==
  (active /\ ~apart) => \A k \in DOMAIN lastDown :
     Row(lastDown[k])[5] => Found(fOptsDown, lastDown[k], "down")
=============================================================================
