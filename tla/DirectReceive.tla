--------------------------- MODULE DirectReceive ---------------------------
(* Direct reception (PhysicalLayer.cpp: available, dropSync, read,            *)
(* updateDirectBuffer): an interrupt delivers one bit at a time, looks for    *)
(* the sync word and then fills a ring buffer that a polling program reads.   *)
(* Neither side masks the other: the interrupt may run between any two        *)
(* accesses of the program to the shared fields. The program is that of       *)
(* SX127x_Receive_Direct.ino, or with words of several bytes PagerClient's.   *)
(*                                                                            *)
(* A bit on the air is its place in the burst: <<n, i>> is the i-th bit after *)
(* the n-th sync word caught. A sync word is not part of any other bits.      *)
(*                                                                            *)
(* NeverDropped, LastNotCounted, BitPosKept and BitOnly are slips: they stand *)
(* before the definitions that they would change.                             *)
EXTENDS Integers, Sequences

CONSTANTS
  BufSize,    \* RADIOLIB_STATIC_ARRAY_SIZE, 256 as is the range of the positions
  ByteBits,   \* bits of a byte: 8
  SyncLen,    \* directSyncWordLen, 0 for no sync word
  Drop,       \* the argument of read
  WordLen,    \* bytes read between two calls of available: 1, PagerClient::read 4
  PollAt,     \* the program reads once so many bytes are there
  Pace,       \* at most so many bits are stored from one poll to the next
  Pause,      \* no sync word begins while the program reads out of synchronisation
  MaxSyncs,   \* bound on sync words caught
  MaxBits     \* bound on bits after one of them

ASSUME DirectAssumption ==
  /\ {BufSize, ByteBits, WordLen, PollAt, Pace, MaxSyncs, MaxBits} \subseteq Nat \ {0}
  /\ SyncLen \in Nat /\ Drop \in BOOLEAN /\ Pause \in BOOLEAN
  /\ PollAt < BufSize

VARIABLES
  gotSync,
  syncBuffer,       \* bits of the sync word it ends in
  bufferWritePos, bufferReadPos, bufferBitPos,
  buffer,           \* the bits of each cell, first the one of most weight
  onAir,            \* bits of a sync word that have been sent
  pc,               \* where the program stands
  left,             \* bytes still to read of a word
  loaded,           \* bufferWritePos as loaded for the decrement
  index,            \* bufferReadPos as loaded for the increment
  todo,             \* what is still to do with it
  got,              \* bytes read since the last poll
  lag,              \* bits stored since the last poll
  syncs, bits       \* sync words caught, and bits received after the last one

shared  == <<gotSync, syncBuffer, bufferWritePos, bufferReadPos, bufferBitPos, buffer>>
program == <<pc, left, loaded, index, todo, got>>
air     == <<onAir, lag, syncs, bits>>
vars    == <<shared, program, air>>

Cells   == 0 .. BufSize - 1
BitsIn  == 1 .. ByteBits
Bit     == (0 .. MaxSyncs) \X (0 .. MaxBits)
Reflect(byte) == [b \in BitsIn |-> byte[ByteBits + 1 - b]]

Init ==
  /\ gotSync = (SyncLen = 0) /\ syncBuffer = 0
  /\ bufferWritePos = 0 /\ bufferReadPos = 0 /\ bufferBitPos = 0
  /\ buffer = [c \in Cells |-> [b \in BitsIn |-> <<0, 0>>]]
  /\ pc = "poll" /\ left = 0 /\ loaded = 0 /\ index = 0 /\ todo = {} /\ got = <<>>
  /\ onAir = 0 /\ lag = 0 /\ syncs = 0 /\ bits = 0

-----------------------------------------------------------------------------
(* The interrupt *)

(* A sync word is shifted in without gap, or what came before is no use. *)
Shifted(n) == IF n = syncBuffer + 1 THEN n ELSE IF n = 1 THEN 1 ELSE 0

Restarted == bufferWritePos' = 0 /\ bufferReadPos' = 0 /\ bufferBitPos' = 0

MatchSync(n) ==
  /\ syncBuffer' = Shifted(n)
  /\ IF Shifted(n) = SyncLen
     THEN /\ gotSync' = TRUE /\ Restarted
          /\ syncs' = syncs + 1 /\ bits' = 0
     ELSE UNCHANGED <<gotSync, bufferWritePos, bufferReadPos, bufferBitPos, syncs, bits>>
  /\ UNCHANGED buffer

(* The bit that comes in is stored at its weight, and the full byte turned.   *)
Written == [buffer[bufferWritePos] EXCEPT ![ByteBits - bufferBitPos] = <<syncs, bits + 1>>]

BitOnly ==
  /\ bufferBitPos' = (bufferBitPos + 1) % ByteBits
  /\ buffer' = [buffer EXCEPT ![bufferWritePos] =
                  IF bufferBitPos + 1 = ByteBits THEN Reflect(Written) ELSE Written]
  /\ UNCHANGED bufferWritePos

BitPosKept ==
  /\ bufferBitPos' = bufferBitPos + 1
  /\ buffer' = [buffer EXCEPT ![bufferWritePos] =
                  IF bufferBitPos + 1 = ByteBits THEN Reflect(Written) ELSE Written]
  /\ bufferWritePos' = IF bufferBitPos + 1 = ByteBits
                       THEN (bufferWritePos + 1) % BufSize ELSE bufferWritePos

StoreBit ==
  IF bufferBitPos + 1 = ByteBits
  THEN /\ buffer' = [buffer EXCEPT ![bufferWritePos] = Reflect(Written)]
       /\ bufferWritePos' = (bufferWritePos + 1) % BufSize
       /\ bufferBitPos' = 0
  ELSE /\ buffer' = [buffer EXCEPT ![bufferWritePos] = Written]
       /\ bufferBitPos' = bufferBitPos + 1
       /\ UNCHANGED bufferWritePos

(* n is the place of the bit in a sync word, 0 for any other bit. *)
updateDirectBuffer(n) ==
  /\ onAir' = IF n = SyncLen THEN 0 ELSE n
  /\ IF gotSync
     THEN /\ lag < Pace /\ lag' = lag + 1
          /\ bits < MaxBits /\ bits' = bits + 1
          /\ StoreBit
          /\ UNCHANGED <<gotSync, syncBuffer, bufferReadPos, syncs>>
     ELSE MatchSync(n) /\ lag' = 0
  /\ UNCHANGED program

(* On the air: any number of bits of noise or data between the sync words. A  *)
(* sender that pauses begins the next one when the last burst has been read,  *)
(* or while it is still sent.                                                 *)
SyncMayBegin == /\ onAir = 0 /\ SyncLen > 0 /\ syncs < MaxSyncs
                /\ Pause => gotSync \/ pc = "poll"

BitArrives ==
  \/ onAir > 0 /\ updateDirectBuffer(onAir + 1)
  \/ onAir = 0 /\ updateDirectBuffer(0)
  \/ SyncMayBegin /\ updateDirectBuffer(1)

-----------------------------------------------------------------------------
(* The program *)

(* available, and what PagerClient::available makes of it, is bufferWritePos. *)
LastNotCounted == bufferWritePos - 1
available == bufferWritePos

Poll ==
  /\ pc = "poll"
  /\ lag' = 0
  /\ IF available >= PollAt
     THEN pc' = "check" /\ got' = <<>>
     ELSE UNCHANGED <<pc, got>>
  /\ UNCHANGED <<shared, left, loaded, index, todo, onAir, syncs, bits>>

(* while(available()) of the program, and of PagerClient::readData. *)
Check ==
  /\ pc = "check"
  /\ IF available # 0
     THEN pc' = "read" /\ left' = WordLen
     ELSE pc' = "poll" /\ UNCHANGED left
  /\ UNCHANGED <<shared, loaded, index, todo, got, air>>

(* read: dropSync, of which the interrupt may see the first half *)
NeverDropped == gotSync' = gotSync
Unsynced == gotSync' = (IF Drop /\ SyncLen > 0 THEN FALSE ELSE gotSync)

DropSync ==
  /\ pc = "read" /\ pc' = "clear"
  /\ Unsynced
  /\ UNCHANGED <<syncBuffer, bufferWritePos, bufferReadPos, bufferBitPos, buffer>>
  /\ UNCHANGED <<left, loaded, index, todo, got, air>>

ClearSyncBuffer ==
  /\ pc = "clear" /\ pc' = "load"
  /\ syncBuffer' = IF Drop /\ SyncLen > 0 THEN 0 ELSE syncBuffer
  /\ UNCHANGED <<gotSync, bufferWritePos, bufferReadPos, bufferBitPos, buffer>>
  /\ UNCHANGED <<left, loaded, index, todo, got, air>>

(* bufferWritePos-- is a load and a store. *)
LoadWritePos ==
  /\ pc = "load" /\ pc' = "store"
  /\ loaded' = bufferWritePos
  /\ UNCHANGED <<shared, left, index, todo, got, air>>

StoreWritePos ==
  /\ pc = "store" /\ pc' = "index"
  /\ bufferWritePos' = (loaded - 1) % BufSize
  /\ UNCHANGED <<gotSync, syncBuffer, bufferReadPos, bufferBitPos, buffer>>
  /\ UNCHANGED <<left, loaded, index, todo, got, air>>

(* buffer[bufferReadPos++]: after the load of the position, its store and the *)
(* access to the buffer come in either order.                                 *)
LoadReadPos ==
  /\ pc = "index" /\ pc' = "use"
  /\ index' = bufferReadPos /\ todo' = {"advance", "fetch"}
  /\ UNCHANGED <<shared, left, loaded, got, air>>

Used(access) ==
  /\ pc = "use" /\ access \in todo
  /\ todo' = todo \ {access}
  /\ IF todo = {access}
     THEN left' = left - 1 /\ pc' = IF left > 1 THEN "read" ELSE "check"
     ELSE UNCHANGED <<left, pc>>
  /\ UNCHANGED <<loaded, index, air>>

StoreReadPos ==
  /\ Used("advance")
  /\ bufferReadPos' = (index + 1) % BufSize
  /\ UNCHANGED <<gotSync, syncBuffer, bufferWritePos, bufferBitPos, buffer, got>>

FetchByte ==
  /\ Used("fetch")
  /\ got' = Append(got, buffer[index])
  /\ UNCHANGED shared

read == \/ DropSync \/ ClearSyncBuffer \/ LoadWritePos \/ StoreWritePos
        \/ LoadReadPos \/ StoreReadPos \/ FetchByte

Program == Poll \/ Check \/ read

Next == BitArrives \/ Program

(* Bits come in as long as the receiver is on; the program is a loop.         *)
Spec == Init /\ [][Next]_vars /\ WF_vars(BitArrives) /\ WF_vars(Program)

-----------------------------------------------------------------------------
(* Properties *)

(* The fields keep their ranges, the bit position that of a byte.             *)
TypeOK ==
  /\ gotSync \in BOOLEAN /\ syncBuffer \in 0 .. SyncLen
  /\ bufferWritePos \in Cells /\ bufferReadPos \in Cells
  /\ loaded \in Cells /\ index \in Cells /\ todo \subseteq {"advance", "fetch"}
  /\ bufferBitPos \in 0 .. ByteBits - 1
  /\ buffer \in [Cells -> [BitsIn -> Bit]]
  /\ onAir \in 0 .. SyncLen /\ lag \in 0 .. Pace
  /\ pc \in {"poll", "check", "read", "clear", "load", "store", "index", "use"}
  /\ left \in 0 .. WordLen
  /\ got \in Seq([BitsIn -> Bit])
  /\ syncs \in 0 .. MaxSyncs /\ bits \in 0 .. MaxBits

Received(k) == [b \in BitsIn |-> <<syncs, (k - 1) * ByteBits + b>>]

(* What the program reads are the bytes received after the last sync word,    *)
(* each once, in order and with the bit received first in front, although     *)
(* read shrinks the position the interrupt writes at.                         *)
InOrder == pc # "poll" => \A k \in 1 .. Len(got) : got[k] = Received(k)

(* A program that reads until nothing is available has read every whole byte  *)
(* received before its first read dropped the synchronisation.                *)
NothingLeft ==
  pc = "poll" /\ got # <<>> /\ ~gotSync => Len(got) = bits \div ByteBits

(* "Reads data that was received" (Pager.h:151): no more bytes are read than  *)
(* were received, by whole words too.                                         *)
ReadsOnlyReceived == Len(got) * ByteBits <= bits

(* A burst whose sync word is caught reaches the program.                     *)
BurstRead(n) == got # <<>> /\ got[1][1] = <<n, 1>>
EveryBurstRead == \A n \in 1 .. MaxSyncs : syncs = n ~> BurstRead(n)
=============================================================================
