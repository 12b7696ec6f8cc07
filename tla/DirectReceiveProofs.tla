------------------------ MODULE DirectReceiveProofs ------------------------
(* Theorems about DirectReceive: for buffers and bytes of any size, any sync  *)
(* word, and every order in which interrupt and program run.                  *)
EXTENDS DirectReceive, SequenceTheorems, TLAPS

-----------------------------------------------------------------------------
(* Hypotheses *)

(* The program reads byte by byte and drops the synchronisation, as           *)
(* SX127x_Receive_Direct.ino does; the sender pauses between bursts until it  *)
(* has read. The program may be as slow as the buffer allows: twice the bits  *)
(* of a poll interval after the byte it waits for, and it is not full yet.    *)
Timely ==
  /\ Drop /\ WordLen = 1 /\ SyncLen > 0 /\ Pause
  /\ PollAt * ByteBits + 2 * Pace <= BufSize * ByteBits

-----------------------------------------------------------------------------
(* The inductive invariant *)

(* A sync word is announced only if it may still be caught; a read is of a    *)
(* word that is not complete.                                                 *)
SyncCounted == onAir > 0 => syncs < MaxSyncs /\ onAir < SyncLen
Reading == {"read", "clear", "load", "store", "index", "use"}
WordBegun == (pc \in Reading => left > 0) /\ (pc = "use" => todo # {})

(* Without a sync word there is no synchronisation to lose.                   *)
Unlosable == SyncLen = 0 => gotSync

TypeInv == TypeOK /\ SyncCounted /\ WordBegun /\ Unlosable

(* Synchronisation is lost with the first read and not found again before the *)
(* next poll: of a sync word only the end comes.                              *)
InSync ==
  gotSync => /\ pc \in {"poll", "check", "read"}
             /\ syncBuffer = SyncLen
             /\ pc # "poll" => got = <<>>
OutOfSync ==
  ~gotSync /\ pc # "poll" => syncBuffer = 0 \/ (pc = "clear" /\ syncBuffer = SyncLen)

(* The bytes read of the burst that is in the buffer, the one that read has   *)
(* counted and not fetched, and those to come.                                *)
Taken == IF gotSync THEN 0 ELSE Len(got)
InHand == IF pc = "index" \/ (pc = "use" /\ "fetch" \in todo) THEN 1 ELSE 0
Bytes == bufferWritePos + InHand + Taken
Bursting == gotSync \/ pc # "poll"

(* What the buffer holds of the burst: whole bytes, and of the last one the   *)
(* bits so far, not yet turned.                                               *)
Counted == Bursting => bits = Bytes * ByteBits + bufferBitPos
Stored == Bursting => \A k \in 1 .. Bytes : buffer[k - 1] = Received(k)
Begun ==
  gotSync => \A b \in 1 .. bufferBitPos :
    buffer[bufferWritePos][ByteBits + 1 - b] = <<syncs, bufferWritePos * ByteBits + b>>

(* The buffer is not full: the program polls in time.                         *)
NotFull ==
  /\ gotSync => bits < PollAt * ByteBits + lag + IF pc = "poll" THEN 0 ELSE Pace
  /\ ~gotSync /\ pc # "poll" => Bytes < BufSize

(* The next byte to read is the one behind those taken. *)
Placed ==
  Bursting =>
    IF pc = "use"
    THEN /\ index + 1 = Taken + InHand
         /\ bufferReadPos = IF "advance" \in todo THEN index ELSE index + 1
    ELSE bufferReadPos = Taken

(* A read is of a byte that is there, and nobody else moves the position.     *)
OneReader ==
  /\ pc \in Reading => left = 1
  /\ pc \in {"read", "clear", "load", "store"} => bufferWritePos > 0
  /\ pc = "store" => loaded = bufferWritePos

(* A program that polls again has read all there was.                         *)
Drained ==
  pc = "poll" /\ ~gotSync =>
    /\ bufferWritePos = 0
    /\ got # <<>> => Len(got) * ByteBits <= bits /\ bits < (Len(got) + 1) * ByteBits

ReadInv == /\ InSync /\ OutOfSync /\ Counted /\ Placed /\ Stored /\ Begun /\ NotFull
           /\ OneReader /\ Drained /\ InOrder

-----------------------------------------------------------------------------
(* Constants and operators *)

LEMMA Constants ==
  /\ BufSize \in Nat /\ BufSize > 0 /\ ByteBits \in Nat /\ ByteBits > 0
  /\ WordLen \in Nat /\ WordLen > 0 /\ PollAt \in Nat /\ PollAt > 0
  /\ Pace \in Nat /\ Pace > 0 /\ MaxSyncs \in Nat /\ MaxSyncs > 0
  /\ MaxBits \in Nat /\ MaxBits > 0 /\ SyncLen \in Nat /\ PollAt < BufSize
  BY DirectAssumption

LEMMA PlusZero == \A n \in Nat : n + 0 = n
  OBVIOUS

LEMMA CellsAre == Cells = 0 .. BufSize - 1 /\ 0 \in Cells /\ BitsIn = 1 .. ByteBits
  BY Constants DEF Cells, BitsIn

LEMMA NothingRead == <<>> \in Seq([BitsIn -> Bit])
<1> DEFINE S == [BitsIn -> Bit]
<1> HIDE DEF S
<1>1. <<>> \in Seq(S)
  BY EmptySeq
<1>2. QED
  BY <1>1 DEF S

LEMMA ReflectIs ==
  ASSUME NEW byte \in [BitsIn -> Bit]
  PROVE  Reflect(byte) \in [BitsIn -> Bit]
  BY Constants DEF Reflect, BitsIn

(* What matching may leave of the sync word. *)
LEMMA ShiftedIs ==
  ASSUME NEW n \in 0 .. SyncLen
  PROVE  /\ Shifted(n) = n \/ Shifted(n) = 0
         /\ Shifted(n) \in 0 .. SyncLen
         /\ Shifted(n) = SyncLen => n = SyncLen
  BY Constants DEF Shifted

-----------------------------------------------------------------------------
(* The fields keep their ranges *)

LEMMA BitIs ==
  ASSUME TypeInv, BitArrives
  PROVE  \E n \in 0 .. SyncLen : /\ updateDirectBuffer(n) /\ (n > 0 => syncs < MaxSyncs)
                                 /\ n = 1 => SyncMayBegin
<1>1. onAir \in 0 .. SyncLen
  BY DEF TypeInv, TypeOK
<1>2. CASE onAir > 0 /\ updateDirectBuffer(onAir + 1)
  <2>1. onAir + 1 \in 0 .. SyncLen /\ syncs < MaxSyncs /\ onAir + 1 # 1
    BY <1>1, <1>2, Constants DEF TypeInv, SyncCounted
  <2>2. QED
    BY <1>2, <2>1
<1>3. CASE onAir = 0 /\ updateDirectBuffer(0)
  BY <1>3, Constants
<1>4. CASE SyncMayBegin /\ updateDirectBuffer(1)
  BY <1>4, Constants DEF SyncMayBegin
<1>5. QED
  BY <1>2, <1>3, <1>4 DEF BitArrives

LEMMA WrittenIs ==
  ASSUME TypeInv, gotSync, bits < MaxBits
  PROVE  /\ Written \in [BitsIn -> Bit] /\ Reflect(Written) \in [BitsIn -> Bit]
         /\ ByteBits - bufferBitPos \in BitsIn
<1>1. ByteBits - bufferBitPos \in BitsIn
  BY Constants DEF TypeInv, TypeOK, BitsIn
<1>2. <<syncs, bits + 1>> \in Bit
  BY Constants DEF TypeInv, TypeOK, Bit
<1>3. buffer[bufferWritePos] \in [BitsIn -> Bit]
  BY DEF TypeInv, TypeOK
<1>4. Written \in [BitsIn -> Bit]
  BY <1>1, <1>2, <1>3 DEF Written
<1>5. QED
  BY <1>1, <1>4, ReflectIs

LEMMA BitTypes ==
  ASSUME TypeInv, NEW n \in 0 .. SyncLen, n > 0 => syncs < MaxSyncs, updateDirectBuffer(n)
  PROVE  TypeInv'
<1>1. /\ gotSync => lag < Pace /\ lag' = lag + 1
      /\ ~gotSync => lag' = 0
      /\ onAir' = IF n = SyncLen THEN 0 ELSE n
      /\ UNCHANGED <<pc, left, loaded, index, todo, got>>
  BY DEF updateDirectBuffer, program
<1>2. /\ lag' \in 0 .. Pace /\ onAir' \in 0 .. SyncLen /\ WordBegun'
      /\ onAir' > 0 => n > 0 /\ onAir' < SyncLen /\ n # SyncLen
  BY <1>1, Constants DEF TypeInv, TypeOK, WordBegun, Reading
<1>3. CASE gotSync
  <2>1. /\ bits < MaxBits /\ bits' = bits + 1 /\ StoreBit
        /\ UNCHANGED <<gotSync, syncBuffer, bufferReadPos, syncs>>
    BY <1>3 DEF updateDirectBuffer
  <2>2. /\ bufferWritePos \in Cells /\ bufferBitPos \in 0 .. ByteBits - 1
        /\ buffer \in [Cells -> [BitsIn -> Bit]] /\ bits \in 0 .. MaxBits
    BY DEF TypeInv, TypeOK
  <2>3. bits' \in 0 .. MaxBits
    BY <2>1, <2>2, Constants
  <2>4. /\ bufferWritePos' \in Cells /\ bufferBitPos' \in 0 .. ByteBits - 1
        /\ buffer' \in [Cells -> [BitsIn -> Bit]]
    <3>1. (bufferWritePos + 1) % BufSize \in Cells
      BY <2>2, Constants, CellsAre
    <3>2. CASE bufferBitPos + 1 = ByteBits
      <4>1. /\ buffer' = [buffer EXCEPT ![bufferWritePos] = Reflect(Written)]
            /\ bufferWritePos' = (bufferWritePos + 1) % BufSize /\ bufferBitPos' = 0
        BY <2>1, <3>2 DEF StoreBit
      <4>2. QED
        BY <1>3, <2>1, <2>2, <3>1, <4>1, WrittenIs, Constants
    <3>3. CASE bufferBitPos + 1 # ByteBits
      <4>1. /\ buffer' = [buffer EXCEPT ![bufferWritePos] = Written]
            /\ bufferWritePos' = bufferWritePos /\ bufferBitPos' = bufferBitPos + 1
        BY <2>1, <3>3 DEF StoreBit
      <4>2. QED
        BY <1>3, <2>1, <2>2, <3>3, <4>1, WrittenIs, Constants
    <3>4. QED
      BY <3>2, <3>3
  <2>5. SyncCounted'
    BY <1>2, <2>1 DEF SyncCounted
  <2>6. QED
    BY <1>1, <1>2, <2>1, <2>3, <2>4, <2>5 DEF TypeInv, TypeOK, Unlosable
<1>4. CASE ~gotSync
  <2>1. MatchSync(n)
    BY <1>4 DEF updateDirectBuffer
  <2>2. syncBuffer' \in 0 .. SyncLen /\ buffer' = buffer
    BY <2>1, ShiftedIs DEF MatchSync
  <2>3. CASE Shifted(n) = SyncLen
    <3>1. /\ gotSync' = TRUE /\ bufferWritePos' = 0 /\ bufferReadPos' = 0 /\ bufferBitPos' = 0
          /\ syncs' = syncs + 1 /\ bits' = 0
      BY <2>1, <2>3 DEF MatchSync, Restarted
    <3>2. n = SyncLen
      BY <2>3, ShiftedIs
    <3>3. syncs < MaxSyncs /\ onAir' = 0
      <4>1. SyncLen > 0
        BY <1>4, Constants DEF TypeInv, Unlosable
      <4>2. QED
        BY <1>1, <3>2, <4>1
    <3>4. syncs' \in 0 .. MaxSyncs /\ bits' \in 0 .. MaxBits /\ bufferBitPos' \in 0 .. ByteBits - 1
      BY <3>1, <3>3, Constants DEF TypeInv, TypeOK
    <3>5. SyncCounted'
      BY <3>3 DEF SyncCounted
    <3>6. QED
      BY <1>1, <1>2, <2>2, <3>1, <3>4, <3>5, CellsAre DEF TypeInv, TypeOK, Unlosable
  <2>4. CASE Shifted(n) # SyncLen
    <3>1. UNCHANGED <<gotSync, bufferWritePos, bufferReadPos, bufferBitPos, syncs, bits>>
      BY <2>1, <2>4 DEF MatchSync
    <3>2. SyncCounted'
      BY <1>2, <3>1 DEF SyncCounted
    <3>3. QED
      BY <1>1, <1>2, <2>2, <3>1, <3>2 DEF TypeInv, TypeOK, Unlosable
  <2>5. QED
    BY <2>3, <2>4
<1>5. QED
  BY <1>3, <1>4

LEMMA ProgramTypes == ASSUME TypeInv, Program PROVE TypeInv'
<1> USE DEF shared, air, Reading
<1>1. /\ left \in 0 .. WordLen /\ got \in Seq([BitsIn -> Bit]) /\ loaded \in Cells
      /\ index \in Cells /\ todo \subseteq {"advance", "fetch"}
      /\ bufferWritePos \in Cells /\ bufferReadPos \in Cells
      /\ buffer \in [Cells -> [BitsIn -> Bit]]
  BY DEF TypeInv, TypeOK
<1>2. CASE Poll
  <2>1. got' = got \/ got' = <<>>
    BY <1>2 DEF Poll
  <2>2. got' \in Seq([BitsIn -> Bit])
    BY <1>1, <2>1, NothingRead
  <2>3. lag' \in 0 .. Pace
    BY <1>2, Constants DEF Poll
  <2>4. pc' \in {"poll", "check"}
    BY <1>2 DEF Poll
  <2>5. QED
    BY <1>2, <2>2, <2>3, <2>4 DEF Poll, TypeInv, TypeOK, SyncCounted, WordBegun, Unlosable
<1>3. CASE Check
  BY <1>3, Constants DEF Check, TypeInv, TypeOK, SyncCounted, WordBegun, Unlosable
<1>4. CASE DropSync
  <2>1. gotSync' \in BOOLEAN
    BY <1>4 DEF DropSync, Unsynced, TypeInv, TypeOK
  <2>2. SyncLen = 0 => gotSync' = gotSync
    BY <1>4 DEF DropSync, Unsynced
  <2>3. QED
    BY <1>4, <2>1, <2>2 DEF DropSync, TypeInv, TypeOK, SyncCounted, WordBegun, Unlosable
<1>5. CASE ClearSyncBuffer
  BY <1>5, Constants DEF ClearSyncBuffer, TypeInv, TypeOK, SyncCounted, WordBegun, Unlosable
<1>6. CASE LoadWritePos
  BY <1>6 DEF LoadWritePos, TypeInv, TypeOK, SyncCounted, WordBegun, Unlosable
<1>7. CASE StoreWritePos
  <2>1. bufferWritePos' \in Cells
    BY <1>1, <1>7, Constants, CellsAre DEF StoreWritePos
  <2>2. QED
    BY <1>7, <2>1 DEF StoreWritePos, TypeInv, TypeOK, SyncCounted, WordBegun, Unlosable
<1>8. CASE LoadReadPos
  BY <1>1, <1>8 DEF LoadReadPos, TypeInv, TypeOK, SyncCounted, WordBegun, Unlosable
<1>9. ASSUME NEW access, Used(access)
      PROVE  /\ left' \in 0 .. WordLen /\ todo' \subseteq {"advance", "fetch"} /\ WordBegun'
             /\ pc' \in {"use", "read", "check"}
             /\ UNCHANGED <<loaded, index, onAir, lag, syncs, bits>>
  <2>1. todo' \subseteq {"advance", "fetch"}
    BY <1>1, <1>9 DEF Used
  <2>2. CASE todo = {access}
    BY <1>1, <1>9, <2>2, Constants DEF Used, TypeInv, WordBegun
  <2>3. CASE todo # {access}
    <3>1. todo' # {} /\ UNCHANGED <<left, pc>> /\ pc = "use"
      BY <1>9, <2>3 DEF Used
    <3>2. QED
      BY <1>1, <1>9, <2>1, <3>1 DEF Used, TypeInv, WordBegun
  <2>4. QED
    BY <2>1, <2>2, <2>3, <1>9 DEF Used
<1>10. CASE StoreReadPos
  <2>1. bufferReadPos' \in Cells
    BY <1>1, <1>10, Constants, CellsAre DEF StoreReadPos
  <2>2. QED
    BY <1>9, <1>10, <2>1 DEF StoreReadPos, TypeInv, TypeOK, SyncCounted, Unlosable
<1>11. CASE FetchByte
  <2>1. got' \in Seq([BitsIn -> Bit])
    BY <1>1, <1>11 DEF FetchByte
  <2>2. QED
    BY <1>9, <1>11, <2>1 DEF FetchByte, TypeInv, TypeOK, SyncCounted, Unlosable
<1>12. QED
  BY <1>2, <1>3, <1>4, <1>5, <1>6, <1>7, <1>8, <1>10, <1>11 DEF Program, read

LEMMA TypeInit == Init => TypeInv
<1> SUFFICES ASSUME Init PROVE TypeInv
  OBVIOUS
<1>1. <<0, 0>> \in Bit
  BY Constants DEF Bit
<1>2. buffer \in [Cells -> [BitsIn -> Bit]]
  BY <1>1 DEF Init
<1>3. /\ bufferBitPos \in 0 .. ByteBits - 1 /\ lag \in 0 .. Pace /\ onAir \in 0 .. SyncLen
      /\ syncBuffer \in 0 .. SyncLen /\ left \in 0 .. WordLen
      /\ syncs \in 0 .. MaxSyncs /\ bits \in 0 .. MaxBits
  BY Constants DEF Init
<1>4. gotSync \in BOOLEAN
  BY DEF Init
<1>5. SyncCounted /\ WordBegun /\ Unlosable
  <2>1. SyncLen = 0 => gotSync
    BY DEF Init
  <2>2. SyncCounted /\ WordBegun
    BY DEF Init, SyncCounted, WordBegun, Reading
  <2>3. QED
    BY <2>1, <2>2 DEF Unlosable
<1>6. got \in Seq([BitsIn -> Bit])
  BY NothingRead DEF Init
<1>7. /\ bufferWritePos \in Cells /\ bufferReadPos \in Cells /\ loaded \in Cells /\ pc = "poll"
      /\ index \in Cells /\ todo \subseteq {"advance", "fetch"}
  BY CellsAre DEF Init
<1>8. QED
  BY <1>2, <1>3, <1>4, <1>5, <1>6, <1>7 DEF TypeInv, TypeOK

LEMMA TypeStep == ASSUME TypeInv, [Next]_vars PROVE TypeInv'
<1>1. CASE UNCHANGED vars
  BY <1>1 DEF vars, shared, program, air, TypeInv, TypeOK, SyncCounted, WordBegun, Unlosable
<1>2. CASE BitArrives
  BY <1>2, BitIs, BitTypes
<1>3. CASE Program
  BY <1>3, ProgramTypes
<1>4. QED
  BY <1>1, <1>2, <1>3 DEF Next

(* The positions stay in the buffer and the bit position in its byte, for     *)
(* every interleaving of the interrupt (updateDirectBuffer) with read and     *)
(* dropSync, also where the two corrupt each other's work.                    *)
THEOREM PositionsInRange == Spec => []TypeOK
<1>1. Spec => []TypeInv
  BY TypeInit, TypeStep, PTL DEF Spec
<1>2. TypeInv => TypeOK
  BY DEF TypeInv
<1>3. QED
  BY <1>1, <1>2, PTL

-----------------------------------------------------------------------------
(* Steps of the reading *)

LEMMA Below == ASSUME NEW a \in Nat, NEW m \in Nat, a < m PROVE a % m = a
  OBVIOUS

LEMMA Products ==
  ASSUME NEW a \in Nat, NEW b \in Nat
  PROVE  /\ a * ByteBits \in Nat
         /\ (a + 1) * ByteBits = a * ByteBits + ByteBits
         /\ a < b => a * ByteBits + ByteBits <= b * ByteBits
<1>1. ByteBits \in Nat /\ ByteBits > 0
  BY Constants
<1>2. a * ByteBits \in Nat /\ (a + 1) * ByteBits = a * ByteBits + ByteBits
  BY <1>1
<1>3. ASSUME a < b PROVE a * ByteBits + ByteBits <= b * ByteBits
  <2>1. PICK d \in Nat : b = a + 1 + d
    <3>1. b - a - 1 \in Nat /\ b = a + 1 + (b - a - 1)
      BY <1>3
    <3>2. QED
      BY <3>1
  <2>2. b * ByteBits = (a + 1) * ByteBits + d * ByteBits /\ d * ByteBits \in Nat
    BY <1>1, <2>1
  <2>3. QED
    BY <1>1, <1>2, <2>2
<1>4. QED
  BY <1>2, <1>3

LEMMA Ranges ==
  ASSUME TypeInv
  PROVE  /\ bufferWritePos \in Nat /\ bufferWritePos < BufSize /\ bufferWritePos \in Cells
         /\ bufferBitPos \in Nat /\ bufferBitPos < ByteBits
         /\ lag \in Nat /\ lag <= Pace /\ bits \in Nat /\ syncBuffer \in Nat
         /\ Len(got) \in Nat
         /\ buffer \in [Cells -> [BitsIn -> Bit]]
<1>1. Len(got) \in Nat
  BY LenProperties DEF TypeInv, TypeOK
<1>2. QED
  BY <1>1, Constants, CellsAre DEF TypeInv, TypeOK

(* A bit of a burst goes where it belongs, and the full byte is turned.       *)
LEMMA BitStored ==
  ASSUME Timely, TypeInv, ReadInv, gotSync, NEW n, updateDirectBuffer(n)
  PROVE  ReadInv'
<1> DEFINE base == bufferWritePos * ByteBits
           due  == PollAt * ByteBits
           room == BufSize * ByteBits
<1>1. /\ lag < Pace /\ lag' = lag + 1 /\ bits' = bits + 1 /\ StoreBit
      /\ gotSync' = gotSync
      /\ UNCHANGED <<syncBuffer, bufferReadPos, syncs, pc, left, loaded, index, todo, got>>
  BY DEF updateDirectBuffer, program
<1>2. /\ pc \in {"poll", "check", "read"} /\ syncBuffer = SyncLen /\ (pc # "poll" => got = <<>>)
      /\ bits = bufferWritePos * ByteBits + bufferBitPos /\ bufferReadPos = 0
  <2>1. pc \in {"poll", "check", "read"}
    BY DEF ReadInv, InSync
  <2>2. Taken = 0 /\ Bytes = bufferWritePos /\ Bursting
    BY <2>1, Ranges DEF Taken, InHand, Bytes, Bursting
  <2>3. QED
    BY <2>1, <2>2 DEF ReadInv, InSync, Counted, Placed
<1>3. \A k \in 1 .. bufferWritePos : buffer[k - 1] = Received(k)
  <2>1. Bytes = bufferWritePos /\ Bursting
    BY <1>2, Ranges DEF Taken, InHand, Bytes, Bursting
  <2>2. QED
    BY <2>1 DEF ReadInv, Stored
<1>4. \A b \in 1 .. bufferBitPos :
        buffer[bufferWritePos][ByteBits + 1 - b] = <<syncs, bufferWritePos * ByteBits + b>>
  BY DEF ReadInv, Begun
<1>5. bits < PollAt * ByteBits + lag + IF pc = "poll" THEN 0 ELSE Pace
  BY DEF ReadInv, NotFull
<1>6. base \in Nat /\ due \in Nat /\ room \in Nat /\ due + 2 * Pace <= room
  BY Products, Ranges, Constants DEF Timely
<1>7. bits' < due + lag' + (IF pc = "poll" THEN 0 ELSE Pace) /\ bits + 1 < room
  <2>1. bits < due + lag + (IF pc = "poll" THEN 0 ELSE Pace)
    BY <1>5
  <2> HIDE DEF base, due, room
  <2>2. QED
    BY <1>1, <1>6, <2>1, Ranges, Constants, SMTT(30)
<1>8. bits + 1 = base + (bufferBitPos + 1)
  BY <1>2, <1>6, Ranges
<1>9. buffer[bufferWritePos] \in [BitsIn -> Bit]
  BY Ranges
<1>10. /\ bits' = bufferWritePos' * ByteBits + bufferBitPos'
       /\ bufferWritePos' \in Nat /\ bufferWritePos' >= bufferWritePos
       /\ \A k \in 1 .. bufferWritePos' : buffer'[k - 1] = Received(k)'
       /\ \A b \in 1 .. bufferBitPos' :
            buffer'[bufferWritePos'][ByteBits + 1 - b] = <<syncs', bufferWritePos' * ByteBits + b>>
  <2>1. CASE bufferBitPos + 1 = ByteBits
    <3>1. /\ buffer' = [buffer EXCEPT ![bufferWritePos] = Reflect(Written)]
          /\ bufferWritePos' = (bufferWritePos + 1) % BufSize /\ bufferBitPos' = 0
      BY <1>1, <2>1 DEF StoreBit
    <3>2. bits + 1 = (bufferWritePos + 1) * ByteBits
      <4>1. (bufferWritePos + 1) * ByteBits = base + ByteBits
        BY Ranges, Products
      <4>2. QED
        BY <1>8, <2>1, <4>1
    <3>3. bufferWritePos + 1 < BufSize
      <4>1. bufferWritePos + 1 # BufSize
        <5>1. bits + 1 < room /\ bits \in Nat /\ room \in Nat
          BY <1>6, <1>7, Ranges
        <5> SUFFICES ASSUME bufferWritePos + 1 = BufSize PROVE FALSE
          OBVIOUS
        <5>2. bits + 1 = room
          BY <3>2
        <5> HIDE DEF room
        <5>3. QED
          BY <5>1, <5>2
      <4>2. QED
        BY <4>1, Ranges, Constants
    <3>4. bufferWritePos' = bufferWritePos + 1
      <4>1. (bufferWritePos + 1) % BufSize = bufferWritePos + 1
        BY <3>3, Ranges, Constants, Below
      <4>2. QED
        BY <3>1, <4>1
    <3>5. Reflect(Written) = [b \in BitsIn |-> <<syncs, bufferWritePos * ByteBits + b>>]
      <4>1. ASSUME NEW b \in BitsIn
            PROVE  Written[ByteBits + 1 - b] = <<syncs, bufferWritePos * ByteBits + b>>
        <5>1. b \in 1 .. ByteBits /\ ByteBits + 1 - b \in BitsIn
          BY CellsAre, Constants
        <5>2. ByteBits - bufferBitPos = 1
          BY <2>1, Ranges, Constants
        <5>3. Written = [buffer[bufferWritePos] EXCEPT ![1] = <<syncs, bits + 1>>]
          BY <5>2 DEF Written
        <5>4. CASE b = ByteBits
          <6>1. ByteBits + 1 - b = 1 /\ 1 \in BitsIn
            BY <5>1, <5>4, CellsAre, Constants
          <6>2. Written[1] = <<syncs, bits + 1>>
            BY <1>9, <5>3, <6>1
          <6>3. bits + 1 = bufferWritePos * ByteBits + b
            BY <1>8, <2>1, <5>4
          <6>4. QED
            BY <6>1, <6>2, <6>3
        <5>5. CASE b # ByteBits
          <6>1. ByteBits + 1 - b # 1 /\ b \in 1 .. bufferBitPos
            BY <2>1, <5>1, <5>5, Ranges, Constants
          <6>2. Written[ByteBits + 1 - b] = buffer[bufferWritePos][ByteBits + 1 - b]
            BY <1>9, <5>1, <5>3, <6>1
          <6>3. QED
            BY <1>4, <6>1, <6>2
        <5>6. QED
          BY <5>4, <5>5
      <4>2. QED
        BY <4>1 DEF Reflect
    <3>6. ASSUME NEW k \in 1 .. bufferWritePos + 1
          PROVE  buffer'[k - 1] = Received(k)
      <4>1. CASE k = bufferWritePos + 1
        <5>1. k - 1 = bufferWritePos
          BY <4>1, Ranges
        <5>2. buffer'[k - 1] = Reflect(Written)
          BY <3>1, <5>1, Ranges
        <5>3. QED
          BY <3>5, <5>1, <5>2 DEF Received
      <4>2. CASE k # bufferWritePos + 1
        <5>1. k \in 1 .. bufferWritePos /\ k - 1 # bufferWritePos /\ k - 1 \in Cells
          BY <4>2, Ranges, Constants DEF Cells
        <5>2. buffer'[k - 1] = buffer[k - 1]
          BY <3>1, <5>1, Ranges
        <5>3. QED
          BY <1>3, <5>1, <5>2
      <4>3. QED
        BY <4>1, <4>2
    <3>7. \A k : Received(k)' = Received(k)
      BY <1>1 DEF Received
    <3>8. bits' = bufferWritePos' * ByteBits + bufferBitPos'
      BY <1>1, <3>1, <3>2, <3>4, Ranges, Products
    <3>9. bufferWritePos' \in Nat /\ bufferWritePos' >= bufferWritePos
      BY <3>4, Ranges
    <3>10. \A k \in 1 .. bufferWritePos' : buffer'[k - 1] = Received(k)'
      BY <3>4, <3>6, <3>7
    <3>11. 1 .. bufferBitPos' = {}
      BY <3>1
    <3>12. QED
      BY <3>8, <3>9, <3>10, <3>11
  <2>2. CASE bufferBitPos + 1 # ByteBits
    <3>1. /\ buffer' = [buffer EXCEPT ![bufferWritePos] = Written]
          /\ bufferWritePos' = bufferWritePos /\ bufferBitPos' = bufferBitPos + 1
      BY <1>1, <2>2 DEF StoreBit
    <3>2. ASSUME NEW k \in 1 .. bufferWritePos
          PROVE  buffer'[k - 1] = Received(k)'
      <4>1. k - 1 # bufferWritePos /\ k - 1 \in Cells
        BY Ranges, Constants DEF Cells
      <4>2. buffer'[k - 1] = buffer[k - 1]
        BY <3>1, <4>1, Ranges
      <4>3. Received(k)' = Received(k)
        BY <1>1 DEF Received
      <4>4. QED
        BY <1>3, <4>2, <4>3
    <3>3. ASSUME NEW b \in 1 .. bufferBitPos + 1
          PROVE  buffer'[bufferWritePos][ByteBits + 1 - b]
                   = <<syncs, bufferWritePos * ByteBits + b>>
      <4>1. buffer'[bufferWritePos] = Written
        BY <3>1, Ranges
      <4>2. ByteBits + 1 - b \in BitsIn /\ ByteBits - bufferBitPos \in BitsIn
        BY <2>2, Ranges, CellsAre, Constants
      <4>3. CASE b = bufferBitPos + 1
        <5>1. ByteBits + 1 - b = ByteBits - bufferBitPos
          BY <4>3, Ranges, Constants, SMTT(30)
        <5>2. Written[ByteBits - bufferBitPos] = <<syncs, bits + 1>>
          BY <1>9, <4>2 DEF Written
        <5>3. bits + 1 = bufferWritePos * ByteBits + b
          BY <1>8, <4>3
        <5>4. QED
          BY <4>1, <5>1, <5>2, <5>3
      <4>4. CASE b # bufferBitPos + 1
        <5>1. b \in 1 .. bufferBitPos /\ ByteBits + 1 - b # ByteBits - bufferBitPos
          BY <4>4, Ranges, Constants
        <5>2. Written[ByteBits + 1 - b] = buffer[bufferWritePos][ByteBits + 1 - b]
          BY <1>9, <4>2, <5>1 DEF Written
        <5>3. QED
          BY <1>4, <4>1, <5>1, <5>2
      <4>5. QED
        BY <4>3, <4>4
    <3>4. bits' = bufferWritePos' * ByteBits + bufferBitPos'
      BY <1>1, <1>8, <3>1
    <3>5. QED
      BY <1>1, <3>1, <3>2, <3>3, <3>4, Ranges
  <2>3. QED
    BY <2>1, <2>2
<1>11. Taken' = 0 /\ Bytes' = bufferWritePos'
  <2>1. gotSync' /\ bufferWritePos' \in Nat
    BY <1>1, <1>10
  <2>2. Taken' = 0
    BY <2>1 DEF Taken
  <2>3. InHand' = 0
    BY <1>1, <1>2 DEF InHand
  <2>4. QED
    BY <2>1, <2>2, <2>3, PlusZero DEF Bytes
<1>12. InSync' /\ OutOfSync'
  BY <1>1, <1>2 DEF InSync, OutOfSync
<1>13. Counted' /\ Placed' /\ Stored' /\ Begun'
  BY <1>1, <1>2, <1>10, <1>11 DEF Counted, Placed, Stored, Begun
<1>14. NotFull'
  BY <1>1, <1>7 DEF NotFull
<1>15. OneReader'
  <2>1. /\ pc \in Reading => left = 1
        /\ pc \in {"read", "clear", "load", "store"} => bufferWritePos > 0
    BY DEF ReadInv, OneReader
  <2>2. pc # "store"
    BY <1>2
  <2>3. QED
    BY <1>1, <1>10, <2>1, <2>2, Ranges DEF OneReader, Reading
<1>16. Drained'
  BY <1>1 DEF Drained
<1>17. InOrder'
  <2>1. pc # "poll" => Len(got) = 0
    BY <1>2
  <2>2. QED
    BY <1>1, <2>1 DEF InOrder
<1>18. QED
  BY <1>12, <1>13, <1>14, <1>15, <1>16, <1>17 DEF ReadInv

(* A bit without synchronisation: no sync word is complete while the program  *)
(* reads, so the buffer stays as it is; before a poll it may be emptied for a *)
(* new burst.                                                                 *)
LEMMA BitMissed ==
  ASSUME Timely, TypeInv, ReadInv, ~gotSync, NEW n \in 0 .. SyncLen, updateDirectBuffer(n),
         n = 1 => SyncMayBegin
  PROVE  ReadInv'
<1>1. /\ lag' = 0 /\ MatchSync(n)
      /\ UNCHANGED <<pc, left, loaded, index, todo, got>>
  BY DEF updateDirectBuffer, program
<1>2. syncBuffer' = Shifted(n) /\ buffer' = buffer
  BY <1>1 DEF MatchSync
<1>3. pc # "poll" => Shifted(n) = 0
  <2> SUFFICES ASSUME pc # "poll" PROVE Shifted(n) = 0
    OBVIOUS
  <2>1. n # 1
    BY DEF SyncMayBegin, Timely
  <2>2. syncBuffer = 0 \/ syncBuffer = SyncLen
    BY DEF ReadInv, OutOfSync
  <2>3. n # syncBuffer + 1
    BY <2>1, <2>2, Constants
  <2>4. QED
    BY <2>1, <2>3 DEF Shifted
<1>4. CASE Shifted(n) = SyncLen
  <2>1. pc = "poll"
    BY <1>3, <1>4, Constants DEF Timely
  <2>2. /\ gotSync' = TRUE /\ bufferWritePos' = 0 /\ bufferReadPos' = 0 /\ bufferBitPos' = 0
        /\ syncs' = syncs + 1 /\ bits' = 0
    BY <1>1, <1>4 DEF MatchSync, Restarted
  <2>3. Taken' = 0 /\ Bytes' = 0
    BY <1>1, <2>1, <2>2 DEF Taken, InHand, Bytes
  <2>4. InSync' /\ OutOfSync'
    BY <1>1, <1>2, <1>4, <2>1, <2>2 DEF InSync, OutOfSync
  <2>5. Counted' /\ Placed' /\ Stored' /\ Begun'
    BY <1>1, <2>1, <2>2, <2>3, Constants DEF Counted, Placed, Stored, Begun
  <2>6. 0 < PollAt * ByteBits + lag' + 0
    <3>1. 0 * ByteBits + ByteBits <= PollAt * ByteBits
      BY Products, Constants
    <3>2. ByteBits <= PollAt * ByteBits /\ PollAt * ByteBits \in Nat
      BY <3>1, Products, Constants
    <3>3. QED
      BY <1>1, <3>2, Ranges, Constants
  <2>7. NotFull'
    BY <1>1, <2>1, <2>2, <2>6 DEF NotFull
  <2>8. OneReader' /\ Drained' /\ InOrder'
    BY <1>1, <2>1, <2>2 DEF OneReader, Reading, Drained, InOrder
  <2>9. QED
    BY <2>4, <2>5, <2>7, <2>8 DEF ReadInv
<1>5. CASE Shifted(n) # SyncLen
  <2>1. UNCHANGED <<gotSync, bufferWritePos, bufferReadPos, bufferBitPos, syncs, bits>>
    BY <1>1, <1>5 DEF MatchSync
  <2>2. OutOfSync'
    BY <1>1, <1>2, <1>3, <2>1 DEF OutOfSync
  <2>3. InSync'
    BY <2>1 DEF InSync
  <2>4. Counted' /\ Placed' /\ Stored' /\ Begun'
    BY <1>1, <1>2, <2>1
    DEF ReadInv, Counted, Placed, Stored, Begun, Taken, InHand, Bytes, Bursting, Received
  <2>5. NotFull' /\ OneReader' /\ Drained' /\ InOrder'
    BY <1>1, <1>2, <2>1
    DEF ReadInv, NotFull, OneReader, Drained, InOrder, Taken, InHand, Bytes,
        Received
  <2>6. QED
    BY <2>2, <2>3, <2>4, <2>5 DEF ReadInv
<1>6. QED
  BY <1>4, <1>5

LEMMA PollReads == ASSUME Timely, TypeInv, ReadInv, Poll PROVE ReadInv'
<1> DEFINE due == PollAt * ByteBits
           base == bufferWritePos * ByteBits
<1>1. /\ pc = "poll" /\ lag' = 0
      /\ UNCHANGED <<gotSync, syncBuffer, bufferWritePos, bufferReadPos, bufferBitPos, buffer,
                     left, loaded, index, todo, syncs, bits>>
  BY DEF Poll, shared
<1>2. base \in Nat /\ due \in Nat
  BY Ranges, Products, Constants
<1>3. CASE bufferWritePos >= PollAt
  <2>1. pc' = "check" /\ got' = <<>>
    BY <1>3 DEF Poll, available
  <2>2. gotSync
    BY <1>1, <1>3, Constants DEF ReadInv, Drained
  <2>3. Taken = 0 /\ Taken' = 0 /\ Bytes' = Bytes
    BY <1>1, <2>1, <2>2 DEF Taken, InHand, Bytes
  <2>4. InSync' /\ OutOfSync'
    BY <1>1, <2>1, <2>2 DEF ReadInv, InSync, OutOfSync
  <2>5. Counted' /\ Placed' /\ Stored' /\ Begun'
    BY <1>1, <2>1, <2>2, <2>3 DEF ReadInv, Counted, Placed, Stored, Begun, Bursting, Received
  <2>6. NotFull'
    <3>1. bits < due + lag + 0
      BY <1>1, <2>2 DEF ReadInv, NotFull
    <3> HIDE DEF due
    <3>2. bits < due + 0 + Pace
      BY <1>2, <3>1, Ranges, Constants
    <3>3. QED
      BY <1>1, <2>1, <2>2, <3>2 DEF NotFull, due
  <2>7. OneReader' /\ Drained'
    BY <2>1 DEF OneReader, Reading, Drained
  <2>8. InOrder'
    <3>1. Len(got') = 0
      BY <2>1
    <3>2. QED
      BY <3>1 DEF InOrder
  <2>9. QED
    BY <2>4, <2>5, <2>6, <2>7, <2>8 DEF ReadInv
<1>4. CASE ~(bufferWritePos >= PollAt)
  <2>1. pc' = pc /\ got' = got
    BY <1>4 DEF Poll, available
  <2>2. InSync' /\ OutOfSync'
    BY <1>1, <2>1 DEF ReadInv, InSync, OutOfSync
  <2>3. Counted' /\ Placed' /\ Stored' /\ Begun'
    BY <1>1, <2>1
    DEF ReadInv, Counted, Placed, Stored, Begun, Taken, InHand, Bytes, Bursting, Received
  <2>4. gotSync => bits < due
    <3> SUFFICES ASSUME gotSync PROVE bits < due
      OBVIOUS
    <3>1. bits = base + bufferBitPos
      BY <1>1, Ranges DEF ReadInv, Counted, Taken, InHand, Bytes, Bursting
    <3>2. base + ByteBits <= due
      <4>1. bufferWritePos < PollAt
        BY <1>4, Ranges, Constants
      <4>2. QED
        BY <4>1, Ranges, Constants, Products
    <3> HIDE DEF base, due
    <3>3. QED
      BY <1>2, <3>1, <3>2, Ranges, Constants
  <2>5. NotFull'
    <3>1. gotSync => bits < due + 0 + 0
      BY <1>2, <2>4
    <3>2. QED
      BY <1>1, <2>1, <3>1 DEF NotFull
  <2>6. OneReader' /\ Drained' /\ InOrder'
    BY <1>1, <2>1 DEF ReadInv, OneReader, Reading, Drained, InOrder
  <2>7. QED
    BY <2>2, <2>3, <2>5, <2>6 DEF ReadInv
<1>5. QED
  BY <1>3, <1>4

LEMMA CheckReads == ASSUME Timely, TypeInv, ReadInv, Check PROVE ReadInv'
<1>1. /\ pc = "check"
      /\ UNCHANGED <<gotSync, syncBuffer, bufferWritePos, bufferReadPos, bufferBitPos, buffer,
                     loaded, index, todo, got, lag, syncs, bits>>
  BY DEF Check, shared, air
<1>2. Taken' = Taken /\ Bytes' = Bytes
  <2>1. pc' \in {"read", "poll"}
    BY DEF Check
  <2>2. QED
    BY <1>1, <2>1 DEF Taken, InHand, Bytes
<1>3. Begun'
  BY <1>1 DEF ReadInv, Begun
<1>4. CASE bufferWritePos # 0
  <2>1. pc' = "read" /\ left' = 1
    BY <1>4 DEF Check, available, Timely
  <2>2. InSync' /\ OutOfSync'
    BY <1>1, <2>1 DEF ReadInv, InSync, OutOfSync
  <2>3. Counted' /\ Placed' /\ Stored'
    BY <1>1, <1>2, <2>1 DEF ReadInv, Counted, Placed, Stored, Bursting, Received
  <2>4. NotFull' /\ InOrder' /\ Drained'
    BY <1>1, <1>2, <2>1 DEF ReadInv, NotFull, InOrder, Drained, Received
  <2>5. OneReader'
    BY <1>1, <1>4, <2>1, Ranges DEF OneReader, Reading
  <2>6. QED
    BY <1>3, <2>2, <2>3, <2>4, <2>5 DEF ReadInv
<1>5. CASE bufferWritePos = 0
  <2>1. pc' = "poll"
    BY <1>5 DEF Check, available
  <2>2. bits = Taken * ByteBits + bufferBitPos /\ bufferReadPos = Taken /\ Taken \in Nat
    <3>1. Taken \in Nat
      BY Ranges DEF Taken
    <3>2. Bytes = Taken
      BY <1>1, <1>5, <3>1 DEF InHand, Bytes
    <3>3. QED
      BY <1>1, <3>1, <3>2 DEF ReadInv, Counted, Placed, Bursting
  <2>3. InSync' /\ OutOfSync'
    BY <1>1, <2>1 DEF ReadInv, InSync, OutOfSync
  <2>4. Counted' /\ Placed' /\ Stored'
    BY <1>1, <1>2, <2>1 DEF ReadInv, Counted, Placed, Stored, Bursting, Received
  <2>5. NotFull'
    <3>1. gotSync => bits < PollAt * ByteBits + lag
      <4> SUFFICES ASSUME gotSync PROVE bits < PollAt * ByteBits + lag
        OBVIOUS
      <4>1. bits = 0 * ByteBits + bufferBitPos
        BY <2>2 DEF Taken
      <4>2. bits < ByteBits
        BY <4>1, Ranges, Constants
      <4>3. 0 * ByteBits + ByteBits <= PollAt * ByteBits
        BY Products, Constants
      <4>4. ByteBits <= PollAt * ByteBits /\ PollAt * ByteBits \in Nat
        BY <4>3, Products, Constants
      <4>5. bits \in Nat /\ lag \in Nat /\ ByteBits \in Nat
        BY Ranges, Constants
      <4>6. \A x \in Nat : ByteBits <= x => bits < x + lag
        BY <4>2, <4>5
      <4>7. QED
        BY <4>4, <4>6
    <3>2. gotSync => bits < PollAt * ByteBits + lag + 0
      BY <3>1, Products, Ranges, Constants
    <3>3. QED
      BY <1>1, <2>1, <3>2 DEF NotFull
  <2>6. Drained'
    <3>1. ~gotSync => Len(got) * ByteBits <= bits /\ bits < (Len(got) + 1) * ByteBits
      <4> SUFFICES ASSUME ~gotSync
                   PROVE  Len(got) * ByteBits <= bits /\ bits < (Len(got) + 1) * ByteBits
        OBVIOUS
      <4>1. bits = Len(got) * ByteBits + bufferBitPos
        BY <2>2 DEF Taken
      <4>2. /\ Len(got) * ByteBits \in Nat
            /\ (Len(got) + 1) * ByteBits = Len(got) * ByteBits + ByteBits
        BY Products, Ranges
      <4>3. QED
        BY <4>1, <4>2, Ranges, Constants
    <3>2. QED
      BY <1>1, <1>5, <2>1, <3>1 DEF Drained
  <2>7. OneReader' /\ InOrder'
    BY <2>1 DEF OneReader, Reading, InOrder
  <2>8. QED
    BY <1>3, <2>3, <2>4, <2>5, <2>6, <2>7 DEF ReadInv
<1>6. QED
  BY <1>4, <1>5

LEMMA DropReads == ASSUME Timely, TypeInv, ReadInv, DropSync PROVE ReadInv'
<1>1. /\ pc = "read" /\ pc' = "clear"
      /\ UNCHANGED <<syncBuffer, bufferWritePos, bufferReadPos, bufferBitPos, buffer,
                     left, loaded, index, todo, got, lag, syncs, bits>>
  BY DEF DropSync, air
<1>2. gotSync' = FALSE
  BY Constants DEF DropSync, Unsynced, Timely
<1>3. Taken' = Len(got) /\ Taken = Len(got) /\ Bytes' = Bytes
  <2>1. Taken' = Len(got)
    BY <1>1, <1>2 DEF Taken
  <2>2. gotSync => Len(got) = 0
    BY <1>1 DEF ReadInv, InSync
  <2>3. Taken = Len(got)
    BY <2>2 DEF Taken
  <2>4. QED
    BY <1>1, <2>1, <2>3 DEF InHand, Bytes
<1>4. InSync' /\ Begun' /\ Drained'
  BY <1>1, <1>2 DEF InSync, Begun, Drained
<1>5. OutOfSync'
  <2>1. gotSync => syncBuffer = SyncLen
    BY DEF ReadInv, InSync
  <2>2. ~gotSync => syncBuffer = 0
    BY <1>1 DEF ReadInv, OutOfSync
  <2>3. QED
    BY <1>1, <2>1, <2>2 DEF OutOfSync
<1>6. Counted' /\ Placed' /\ Stored'
  BY <1>1, <1>3 DEF ReadInv, Counted, Placed, Stored, Bursting, Received
<1>7. NotFull'
  <2>1. CASE gotSync
    <3>1. Len(got) = 0
      BY <1>1, <2>1 DEF ReadInv, InSync
    <3>2. Bytes = bufferWritePos
      BY <1>1, <1>3, <3>1, Ranges DEF InHand, Bytes
    <3>3. QED
      BY <1>2, <1>3, <3>2, Ranges DEF NotFull
  <2>2. CASE ~gotSync
    BY <1>1, <1>2, <1>3, <2>2 DEF ReadInv, NotFull
  <2>3. QED
    BY <2>1, <2>2
<1>8. OneReader' /\ InOrder'
  BY <1>1 DEF ReadInv, OneReader, Reading, InOrder, Received
<1>9. QED
  BY <1>4, <1>5, <1>6, <1>7, <1>8 DEF ReadInv

LEMMA ClearReads == ASSUME Timely, TypeInv, ReadInv, ClearSyncBuffer PROVE ReadInv'
<1>1. /\ pc = "clear" /\ pc' = "load" /\ syncBuffer' = 0
      /\ UNCHANGED <<gotSync, bufferWritePos, bufferReadPos, bufferBitPos, buffer,
                     left, loaded, index, todo, got, lag, syncs, bits>>
  BY Constants DEF ClearSyncBuffer, air, Timely
<1>2. ~gotSync
  BY <1>1 DEF ReadInv, InSync
<1>3. InSync' /\ OutOfSync' /\ Begun' /\ Drained'
  BY <1>1, <1>2, Ranges DEF InSync, OutOfSync, Begun, Drained
<1>4. Counted' /\ Placed' /\ Stored'
  BY <1>1 DEF ReadInv, Counted, Placed, Stored, Taken, InHand, Bytes, Bursting, Received
<1>5. NotFull' /\ OneReader' /\ InOrder'
  BY <1>1, <1>2 DEF ReadInv, NotFull, OneReader, Reading, InOrder, Taken, InHand, Bytes, Received
<1>6. QED
  BY <1>3, <1>4, <1>5 DEF ReadInv

LEMMA LoadReads == ASSUME Timely, TypeInv, ReadInv, LoadWritePos PROVE ReadInv'
<1>1. /\ pc = "load" /\ pc' = "store" /\ loaded' = bufferWritePos
      /\ UNCHANGED <<gotSync, syncBuffer, bufferWritePos, bufferReadPos, bufferBitPos, buffer,
                     left, index, todo, got, lag, syncs, bits>>
  BY DEF LoadWritePos, shared, air
<1>2. ~gotSync
  BY <1>1 DEF ReadInv, InSync
<1>3. InSync' /\ OutOfSync' /\ Begun' /\ Drained'
  BY <1>1, <1>2 DEF ReadInv, InSync, OutOfSync, Begun, Drained
<1>4. Counted' /\ Placed' /\ Stored'
  BY <1>1 DEF ReadInv, Counted, Placed, Stored, Taken, InHand, Bytes, Bursting, Received
<1>5. NotFull' /\ OneReader' /\ InOrder'
  BY <1>1, <1>2 DEF ReadInv, NotFull, OneReader, Reading, InOrder, Taken, InHand, Bytes, Received
<1>6. QED
  BY <1>3, <1>4, <1>5 DEF ReadInv

(* The position counts one byte less, which read now has in hand.             *)
LEMMA StoreReads == ASSUME Timely, TypeInv, ReadInv, StoreWritePos PROVE ReadInv'
<1>1. /\ pc = "store" /\ pc' = "index"
      /\ bufferWritePos' = (loaded - 1) % BufSize
      /\ UNCHANGED <<gotSync, syncBuffer, bufferReadPos, bufferBitPos, buffer,
                     left, loaded, index, todo, got, lag, syncs, bits>>
  BY DEF StoreWritePos, air
<1>2. ~gotSync /\ bufferWritePos > 0 /\ left = 1 /\ loaded = bufferWritePos
  BY <1>1 DEF ReadInv, InSync, OneReader, Reading
<1>3. bufferWritePos' = bufferWritePos - 1
  <2>1. bufferWritePos - 1 \in Nat /\ bufferWritePos - 1 < BufSize
    BY <1>2, Ranges, Constants
  <2>2. QED
    BY <1>1, <1>2, <2>1, Below, Constants
<1>4. Taken' = Taken /\ Bytes' = Bytes
  BY <1>1, <1>3, Ranges DEF Taken, InHand, Bytes
<1>5. InSync' /\ OutOfSync' /\ Begun' /\ Drained'
  BY <1>1, <1>2 DEF ReadInv, InSync, OutOfSync, Begun, Drained
<1>6. Counted' /\ Placed' /\ Stored'
  BY <1>1, <1>4 DEF ReadInv, Counted, Placed, Stored, Bursting, Received
<1>7. NotFull' /\ OneReader' /\ InOrder'
  BY <1>1, <1>2, <1>4 DEF ReadInv, NotFull, OneReader, InOrder, Reading, Received
<1>8. QED
  BY <1>5, <1>6, <1>7 DEF ReadInv

LEMMA IndexReads == ASSUME Timely, TypeInv, ReadInv, LoadReadPos PROVE ReadInv'
<1>1. /\ pc = "index" /\ pc' = "use"
      /\ index' = bufferReadPos /\ todo' = {"advance", "fetch"}
      /\ UNCHANGED <<gotSync, syncBuffer, bufferWritePos, bufferReadPos, bufferBitPos, buffer,
                     left, loaded, got, lag, syncs, bits>>
  BY DEF LoadReadPos, shared, air
<1>2. ~gotSync
  BY <1>1 DEF ReadInv, InSync
<1>3. Taken' = Taken /\ InHand = 1 /\ InHand' = 1 /\ Bytes' = Bytes
  BY <1>1 DEF Taken, InHand, Bytes
<1>4. InSync' /\ OutOfSync' /\ Begun' /\ Drained'
  BY <1>1, <1>2 DEF ReadInv, InSync, OutOfSync, Begun, Drained
<1>5. Counted' /\ Placed' /\ Stored'
  BY <1>1, <1>3 DEF ReadInv, Counted, Placed, Stored, Bursting, Received
<1>6. NotFull' /\ OneReader' /\ InOrder'
  BY <1>1, <1>2, <1>3 DEF ReadInv, NotFull, OneReader, InOrder, Reading, Received
<1>7. QED
  BY <1>4, <1>5, <1>6 DEF ReadInv

(* Either access to the loaded position: the last one ends the read.          *)
LEMMA UsedIs ==
  ASSUME Timely, TypeInv, ReadInv, NEW access, Used(access)
  PROVE  /\ ~gotSync /\ pc = "use" /\ access \in todo /\ todo' = todo \ {access}
         /\ pc' = IF todo' = {} THEN "check" ELSE "use"
         /\ UNCHANGED <<loaded, index, onAir, lag, syncs, bits>>
         /\ pc' = "use" => left' = 1
<1>1. /\ pc = "use" /\ access \in todo /\ todo' = todo \ {access}
      /\ UNCHANGED <<loaded, index, onAir, lag, syncs, bits>>
  BY DEF Used, air
<1>2. ~gotSync /\ left = 1
  BY <1>1 DEF ReadInv, InSync, OneReader, Reading
<1>3. todo' = {} <=> todo = {access}
  BY <1>1
<1>4. CASE todo = {access}
  BY <1>1, <1>2, <1>3, <1>4 DEF Used
<1>5. CASE todo # {access}
  BY <1>1, <1>2, <1>3, <1>5 DEF Used
<1>6. QED
  BY <1>4, <1>5

LEMMA AdvanceReads == ASSUME Timely, TypeInv, ReadInv, StoreReadPos PROVE ReadInv'
<1>1. /\ ~gotSync /\ pc = "use" /\ "advance" \in todo /\ todo' = todo \ {"advance"}
      /\ pc' = IF todo' = {} THEN "check" ELSE "use"
      /\ pc' = "use" => left' = 1
      /\ bufferReadPos' = (index + 1) % BufSize
      /\ UNCHANGED <<gotSync, syncBuffer, bufferWritePos, bufferBitPos, buffer,
                     loaded, index, got, lag, syncs, bits>>
  BY UsedIs DEF StoreReadPos
<1>2. /\ todo \subseteq {"advance", "fetch"} /\ index \in Nat
      /\ Taken = Len(got) /\ Bursting /\ index + 1 = Taken + InHand
  BY <1>1, Constants DEF TypeInv, TypeOK, Cells, Taken, Bursting, ReadInv, Placed
<1>3. bufferReadPos' = index + 1
  <2>1. Bytes < BufSize /\ Bytes = bufferWritePos + InHand + Taken
    BY <1>1 DEF ReadInv, NotFull, Bytes
  <2>2. index + 1 < BufSize
    <3>1. InHand \in Nat /\ Taken \in Nat
      BY <1>2, Ranges DEF InHand
    <3>2. QED
      BY <1>2, <2>1, <3>1, Ranges, Constants
  <2>3. QED
    BY <1>1, <1>2, <2>2, Below, Constants
<1>4. Taken' = Taken /\ InHand' = InHand /\ Bytes' = Bytes
  <2>1. Taken' = Taken
    BY <1>1 DEF Taken
  <2>2. CASE "fetch" \in todo
    BY <1>1, <2>1, <2>2 DEF InHand, Bytes
  <2>3. CASE "fetch" \notin todo
    BY <1>1, <1>2, <2>1, <2>3 DEF InHand, Bytes
  <2>4. QED
    BY <2>2, <2>3
<1>5. Placed'
  <2>1. CASE todo' = {}
    <3>1. InHand = 0
      BY <1>1, <1>2, <2>1 DEF InHand
    <3>2. bufferReadPos' = Taken' /\ pc' # "use"
      BY <1>1, <1>2, <1>3, <1>4, <2>1, <3>1, Ranges
    <3>3. QED
      BY <3>2 DEF Placed
  <2>2. CASE todo' # {}
    BY <1>1, <1>2, <1>3, <1>4, <2>2 DEF Placed
  <2>3. QED
    BY <2>1, <2>2
<1>6. InSync' /\ OutOfSync' /\ Begun' /\ Drained'
  BY <1>1 DEF ReadInv, InSync, OutOfSync, Begun, Drained
<1>7. Counted' /\ Stored'
  BY <1>1, <1>4 DEF ReadInv, Counted, Stored, Bursting, Received
<1>8. NotFull' /\ OneReader' /\ InOrder'
  BY <1>1, <1>4 DEF ReadInv, NotFull, OneReader, InOrder, Reading, Received
<1>9. QED
  BY <1>5, <1>6, <1>7, <1>8 DEF ReadInv

(* The byte fetched is the next of the burst.                                 *)
LEMMA FetchReads == ASSUME Timely, TypeInv, ReadInv, FetchByte PROVE ReadInv'
<1> DEFINE N == Len(got)
           byte == buffer[index]
<1>1. /\ ~gotSync /\ pc = "use" /\ "fetch" \in todo /\ todo' = todo \ {"fetch"}
      /\ pc' = IF todo' = {} THEN "check" ELSE "use"
      /\ pc' = "use" => left' = 1
      /\ got' = Append(got, byte)
      /\ UNCHANGED <<gotSync, syncBuffer, bufferWritePos, bufferReadPos, bufferBitPos, buffer,
                     loaded, index, lag, syncs, bits>>
  BY UsedIs DEF FetchByte, shared
<1>2. /\ todo \subseteq {"advance", "fetch"} /\ Taken = N /\ Bursting /\ InHand = 1
      /\ Bytes = bufferWritePos + 1 + N /\ N \in Nat /\ index = N
      /\ bufferReadPos = IF "advance" \in todo THEN N ELSE N + 1
  <2>1. Taken = N /\ Bursting /\ InHand = 1
    BY <1>1 DEF Taken, Bursting, InHand
  <2>2. index + 1 = N + 1 /\ bufferReadPos = IF "advance" \in todo THEN index ELSE index + 1
    BY <1>1, <2>1 DEF ReadInv, Placed
  <2>3. index \in Nat /\ N \in Nat
    BY Ranges, Constants DEF TypeInv, TypeOK, Cells
  <2> HIDE DEF N
  <2>4. index = N
    BY <2>2, <2>3
  <2>5. QED
    BY <2>1, <2>2, <2>3, <2>4 DEF Bytes, TypeInv, TypeOK
<1>3. byte = Received(N + 1)
  <2>1. N + 1 \in 1 .. Bytes /\ (N + 1) - 1 = N
    BY <1>2, Ranges
  <2>2. QED
    BY <1>2, <2>1 DEF ReadInv, Stored
<1>4. /\ Len(got') = N + 1 /\ got'[N + 1] = byte
      /\ \A k \in 1 .. N : got'[k] = got[k]
  <2> DEFINE S == [BitsIn -> Bit]
  <2>1. got \in Seq(S) /\ byte \in S
    BY DEF TypeInv, TypeOK
  <2> HIDE DEF S, byte
  <2>2. QED
    BY <1>1, <2>1, AppendProperties
<1>5. InHand' = 0
  BY <1>1 DEF InHand
<1>6. Taken' = N + 1 /\ Bytes' = Bytes
  <2>1. Taken' = N + 1
    BY <1>1, <1>4 DEF Taken
  <2>2. Bytes' = bufferWritePos + 0 + (N + 1)
    BY <1>1, <1>5, <2>1 DEF Bytes
  <2> HIDE DEF N, byte
  <2>3. QED
    BY <1>2, <2>1, <2>2, Ranges
<1> HIDE DEF N, byte
<1>7. \A k : Received(k)' = Received(k)
  BY <1>1 DEF Received
<1>8. InOrder'
  <2> SUFFICES ASSUME NEW k \in 1 .. N + 1
               PROVE  got'[k] = Received(k)
    BY <1>4, <1>7 DEF InOrder
  <2>1. CASE k = N + 1
    BY <1>3, <1>4, <2>1
  <2>2. CASE k # N + 1
    <3>1. k \in 1 .. N
      BY <1>2, <2>2
    <3>2. got[k] = Received(k)
      BY <1>1, <3>1 DEF ReadInv, InOrder, N
    <3>3. QED
      BY <1>4, <3>1, <3>2
  <2>3. QED
    BY <2>1, <2>2
<1>9. Placed'
  <2>1. CASE todo' = {}
    <3>1. "advance" \notin todo
      BY <1>1, <2>1
    <3>2. QED
      BY <1>1, <1>2, <1>6, <2>1, <3>1 DEF Placed
  <2>2. CASE todo' # {}
    <3>1. "advance" \in todo /\ "advance" \in todo'
      BY <1>1, <1>2, <2>2
    <3>2. index + 1 = Taken' + InHand'
      BY <1>2, <1>5, <1>6
    <3>3. QED
      BY <1>1, <1>2, <3>1, <3>2 DEF Placed
  <2>3. QED
    BY <2>1, <2>2
<1>10. InSync' /\ OutOfSync' /\ Begun' /\ Drained'
  BY <1>1 DEF ReadInv, InSync, OutOfSync, Begun, Drained
<1>11. Counted' /\ Stored'
  BY <1>1, <1>2, <1>6, <1>7 DEF ReadInv, Counted, Stored, Bursting
<1>12. NotFull' /\ OneReader'
  BY <1>1, <1>6 DEF ReadInv, NotFull, OneReader, Reading
<1>13. QED
  BY <1>8, <1>9, <1>10, <1>11, <1>12 DEF ReadInv

LEMMA ReadInit == ASSUME Timely PROVE Init => ReadInv
<1> SUFFICES ASSUME Init PROVE ReadInv
  OBVIOUS
<1>1. ~gotSync
  <2>1. SyncLen # 0
    BY Constants DEF Timely
  <2>2. gotSync = (SyncLen = 0)
    BY DEF Init
  <2>3. QED
    BY <2>1, <2>2
<1>2. InSync /\ OutOfSync /\ Counted /\ Placed /\ Stored /\ Begun
  BY <1>1 DEF Init, InSync, OutOfSync, Counted, Placed, Stored, Begun, Bursting
<1>3. NotFull /\ OneReader /\ Drained /\ InOrder
  BY <1>1 DEF Init, NotFull, OneReader, Reading, Drained, InOrder
<1>4. QED
  BY <1>2, <1>3 DEF ReadInv

LEMMA ReadStep == ASSUME Timely, TypeInv, ReadInv, [Next]_vars PROVE ReadInv'
<1>1. CASE UNCHANGED vars
  <2>1. UNCHANGED <<shared, program, lag, syncs, bits>>
    BY <1>1 DEF vars, air
  <2>2. InSync' /\ OutOfSync' /\ Begun' /\ Drained'
    BY <2>1 DEF shared, program, ReadInv, InSync, OutOfSync, Begun, Drained, Bursting, Bytes, Taken, InHand
  <2>3. Counted' /\ Placed'
    BY <2>1 DEF shared, program, ReadInv, Counted, Placed, Taken, InHand, Bytes, Bursting
  <2>4. Stored'
    <3>1. Bytes' = Bytes /\ Bursting' = Bursting /\ buffer' = buffer
      BY <2>1 DEF shared, program, Bytes, Taken, InHand, Bursting
    <3>2. \A k : Received(k)' = Received(k)
      BY <2>1 DEF Received
    <3>3. QED
      BY <3>1, <3>2 DEF ReadInv, Stored
  <2>5. NotFull' /\ OneReader'
    BY <2>1 DEF shared, program, ReadInv, NotFull, OneReader, Reading, Taken, InHand, Bytes
  <2>6. InOrder'
    BY <2>1 DEF shared, program, ReadInv, InOrder, Received
  <2>7. QED
    BY <2>2, <2>3, <2>4, <2>5, <2>6 DEF ReadInv
<1>2. CASE BitArrives
  <2>1. PICK n \in 0 .. SyncLen : updateDirectBuffer(n) /\ (n = 1 => SyncMayBegin)
    BY <1>2, BitIs
  <2>2. QED
    BY <2>1, BitStored, BitMissed
<1>3. QED
  BY <1>1, <1>2, PollReads, CheckReads, DropReads, ClearReads, LoadReads, StoreReads,
     IndexReads, AdvanceReads, FetchReads
  DEF Next, Program, read

LEMMA AlwaysRead == ASSUME Timely PROVE Spec => [](TypeInv /\ ReadInv)
  BY TypeInit, TypeStep, ReadInit, ReadStep, PTL DEF Spec

-----------------------------------------------------------------------------
(* Theorems on what is read *)

(* The bytes read are those received after the last sync word, each once, in  *)
(* order and with the first bit in front, although read decrements the        *)
(* position that the interrupt writes at (PhysicalLayer.cpp: read).           *)
THEOREM BytesReadInOrder == ASSUME Timely PROVE Spec => []InOrder
<1>1. ReadInv => InOrder
  BY DEF ReadInv
<1>2. QED
  BY <1>1, AlwaysRead, PTL

LEMMA Quotient ==
  ASSUME NEW a \in Nat, NEW q \in Nat, q * ByteBits <= a, a < (q + 1) * ByteBits
  PROVE  a \div ByteBits = q
<1> DEFINE p == a \div ByteBits
           r == a % ByteBits
<1>1. p \in Nat /\ r \in 0 .. ByteBits - 1 /\ a = ByteBits * p + r
  BY Constants
<1> HIDE DEF p, r
<1>2. p * ByteBits <= a /\ a < (p + 1) * ByteBits
  <2>1. p * ByteBits \in Nat /\ (p + 1) * ByteBits = p * ByteBits + ByteBits /\ ByteBits * p = p * ByteBits
    BY <1>1, Products, Constants
  <2>2. QED
    BY <1>1, <2>1, Constants
<1>3. ~(p < q)
  BY <1>1, <1>2, Products, Constants
<1>4. ~(q < p)
  BY <1>1, <1>2, Products, Constants
<1>5. QED
  BY <1>1, <1>3, <1>4 DEF p

(* A program that reads until available returns 0 has every whole byte that   *)
(* came before its first read ended the reception.                            *)
THEOREM EveryByteRead == ASSUME Timely PROVE Spec => []NothingLeft
<1>1. TypeInv /\ ReadInv => NothingLeft
  <2> SUFFICES ASSUME TypeInv, ReadInv, pc = "poll", got # <<>>, ~gotSync
               PROVE  Len(got) = bits \div ByteBits
    BY DEF NothingLeft
  <2>1. Len(got) * ByteBits <= bits /\ bits < (Len(got) + 1) * ByteBits
    BY DEF ReadInv, Drained
  <2>2. QED
    BY <2>1, Quotient, Ranges
<1>2. QED
  BY <1>1, AlwaysRead, PTL
=============================================================================
