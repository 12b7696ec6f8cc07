----------------------- MODULE LoRaWANSessionPromise -----------------------
(* What a LoRaWAN end device promises its network, whatever the order of its  *)
(* joins, restarts, restored buffers and uplinks: a DevNonce is sent once, a  *)
(* session runs only under keys the network knows, and no frame counter is    *)
(* used twice under one set of keys. The promise is conditional on the        *)
(* application: the two flags say that it let go of persistent state.         *)
EXTENDS Naturals

CONSTANTS Keys, NoKeys, DevNonces, FCnts

VARIABLES session,       \* the keys of the running session, NoKeys if there is none
          issued,        \* keys the network derived, or was personalised with
          requested,     \* DevNonces that went out in a JoinRequest
          frames,        \* <<keys, counter>> of every data uplink
          sent,          \* flips with every transmission: a repeated one is a step too
          noncesStale,   \* the application lost DevNonces that were used
          sessionStale   \* the application lost frame counters that were used

promiseVars == <<session, issued, requested, frames, sent, noncesStale, sessionStale>>

Init == /\ session = NoKeys
        /\ issued \in SUBSET Keys
        /\ requested = {}
        /\ frames = {}
        /\ sent = FALSE
        /\ noncesStale = FALSE
        /\ sessionStale = FALSE

(* The flags never recover. *)
Flags == /\ noncesStale' \in {noncesStale, TRUE}
         /\ sessionStale' \in {sessionStale, TRUE}

Request(d) == /\ session = NoKeys
              /\ d \notin requested \/ noncesStale
              /\ requested' = requested \union {d}
              /\ sent' = ~sent
              /\ UNCHANGED <<session, issued, frames>>

Issue(k) == /\ issued' = issued \union {k}
            /\ UNCHANGED <<session, requested, frames, sent>>

Enter(k) == /\ session = NoKeys
            /\ k \in issued
            /\ session' = k
            /\ UNCHANGED <<issued, requested, frames, sent>>

Leave == /\ session # NoKeys
         /\ session' = NoKeys
         /\ UNCHANGED <<issued, requested, frames, sent>>

Send(c) == /\ session # NoKeys
           /\ <<session, c>> \notin frames \/ sessionStale
           /\ frames' = frames \union {<<session, c>>}
           /\ sent' = ~sent
           /\ UNCHANGED <<session, issued, requested>>

Idle == UNCHANGED <<session, issued, requested, frames, sent>>

Next == /\ Flags
        /\ \/ \E d \in DevNonces : Request(d)
           \/ \E k \in Keys : Issue(k) \/ Enter(k)
           \/ Leave
           \/ \E c \in FCnts : Send(c)
           \/ Idle

Spec == Init /\ [][Next]_promiseVars
=============================================================================
