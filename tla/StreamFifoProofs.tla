-------------------------- MODULE StreamFifoProofs --------------------------
(* Theorems about StreamFifo, for every size of the FIFO, every threshold and *)
(* every length of packet.                                                    *)
EXTENDS StreamFifo, SequenceTheorems, TLAPS

-----------------------------------------------------------------------------
(* The FIFO *)

(* A FIFO keeps what it holds and takes the first of the new bytes, up to its *)
(* size.                                                                      *)
LEMMA PushedIs ==
  ASSUME NEW S, NEW fifo \in Seq(S), NEW bytes \in Seq(S), Len(fifo) <= FifoSize
  PROVE  /\ Pushed(fifo, bytes) \in Seq(S)
         /\ Len(Pushed(fifo, bytes)) = IF Len(fifo) + Len(bytes) < FifoSize
                                       THEN Len(fifo) + Len(bytes) ELSE FifoSize
         /\ \A k \in 1 .. Len(Pushed(fifo, bytes)) :
              Pushed(fifo, bytes)[k] = IF k <= Len(fifo) THEN fifo[k] ELSE bytes[k - Len(fifo)]
<1> DEFINE all == fifo \o bytes
           n == IF Len(all) < FifoSize THEN Len(all) ELSE FifoSize
<1>1. /\ all \in Seq(S)
      /\ Len(all) = Len(fifo) + Len(bytes)
      /\ \A i \in 1 .. Len(fifo) + Len(bytes) :
           all[i] = IF i <= Len(fifo) THEN fifo[i] ELSE bytes[i - Len(fifo)]
  BY ConcatProperties
<1>2. n \in Nat /\ n <= Len(all)
  BY <1>1, StreamAssumption
<1>3. \A i \in 1 .. n : all[i] \in S
  BY <1>1, <1>2, ElementOfSeq
<1>4. /\ SubSeq(all, 1, n) \in Seq(S)
      /\ Len(SubSeq(all, 1, n)) = IF 1 <= n THEN n - 1 + 1 ELSE 0
      /\ \A i \in 1 .. n - 1 + 1 : SubSeq(all, 1, n)[i] = all[1 + i - 1]
  <2> HIDE DEF n, all
  <2> QED
    BY <1>2, <1>3, SubSeqProperties
<1>5. Pushed(fifo, bytes) = SubSeq(all, 1, n)
  BY DEF Pushed
<1>6. QED
  <2>1. Len(Pushed(fifo, bytes)) = n
    BY <1>2, <1>4, <1>5
  <2>2. \A k \in 1 .. n : Pushed(fifo, bytes)[k] = all[k]
    <3> HIDE DEF n, all
    <3> QED BY <1>2, <1>4, <1>5
  <2>3. QED
    BY <2>1, <2>2, <1>1, <1>2, <1>4, <1>5

(* What is left of a FIFO when n bytes have been read.                        *)
LEMMA ReadLeaves ==
  ASSUME NEW S, NEW fifo \in Seq(S), NEW n \in 0 .. Len(fifo)
  PROVE  /\ SubSeq(fifo, n + 1, Len(fifo)) \in Seq(S)
         /\ Len(SubSeq(fifo, n + 1, Len(fifo))) = Len(fifo) - n
         /\ \A k \in 1 .. Len(fifo) - n : SubSeq(fifo, n + 1, Len(fifo))[k] = fifo[n + k]
<1>1. \A i \in n + 1 .. Len(fifo) : fifo[i] \in S
  BY ElementOfSeq
<1>2. /\ SubSeq(fifo, n + 1, Len(fifo)) \in Seq(S)
      /\ Len(SubSeq(fifo, n + 1, Len(fifo)))
           = IF n + 1 <= Len(fifo) THEN Len(fifo) - (n + 1) + 1 ELSE 0
      /\ \A i \in 1 .. Len(fifo) - (n + 1) + 1 :
           SubSeq(fifo, n + 1, Len(fifo))[i] = fifo[(n + 1) + i - 1]
  BY <1>1, SubSeqProperties
<1>3. QED
  BY <1>2

(* n bytes from place p + 1 on.                                               *)
LEMMA BytesFrom ==
  ASSUME NEW n \in Nat, NEW p \in Nat, NEW m \in Nat, p + n <= m
  PROVE  /\ [i \in 1 .. n |-> p + i] \in Seq(1 .. m)
         /\ Len([i \in 1 .. n |-> p + i]) = n
         /\ \A k \in 1 .. n : [i \in 1 .. n |-> p + i][k] = p + k
<1>1. \A i \in 1 .. n : p + i \in 1 .. m
  OBVIOUS
<1>2. QED
  BY <1>1

-----------------------------------------------------------------------------
(* The sender's invariant *)

(* The program is in its loop, with bytes left to add.                        *)
Busy == txPc \in {"loop", "reset", "add"}

(* Two chunks are the most that the FIFO holds or is owed: the first one was  *)
(* not announced by the FIFO running empty but by the mapping of DIO1, every  *)
(* other one by the last byte leaving.                                        *)
OwedFits ==
  /\ txPc = "reset" => fifoEmpty
  /\ Busy => /\ Len(txFifo) <= 2 * Chunk
             /\ fifoEmpty \/ txPc = "add" => Len(txFifo) <= Chunk
             /\ fifoEmpty /\ txPc = "add" => txFifo = <<>>

(* What has been sent and what the FIFO holds are the bytes that remLength    *)
(* does not count any more, and the chunk of the start of the packet.         *)
Loaded(rem) == IF rem < Chunk THEN total ELSE total - rem + Chunk
Accounted ==
  /\ txPc = "start" => remLength = total
  /\ Busy => remLength > 0 /\ sent + Len(txFifo) = Loaded(remLength)
  /\ txPc # "start" => sent + Len(txFifo) <= total

(* A sender that is quick enough adds a chunk to an empty FIFO, except for    *)
(* the first.                                                                 *)
OnTime ==
  /\ txPc = "add" => ~fifoEmpty
  /\ Busy /\ (fifoEmpty \/ txPc = "add") => txFifo = <<>> \/ remLength = total
  /\ ~Busy => sent = total

SenderInv ==
  /\ OwedFits /\ Accounted /\ SentInOrder
  /\ Prompt => OnTime

(* The receiver's invariant. A level above the threshold has raised the       *)
(* interrupt, unless the whole packet has been read.                          *)
Receiving == rxPc \in {"wait", "print"}
LevelWatched ==
  /\ irq => Thresh < Len(rxFifo) /\ Len(rxFifo) <= Thresh + Lag + 1
  /\ Receiving /\ ~irq /\ receivedLength < total => Len(rxFifo) <= Thresh

(* What was read and what the FIFO holds are the bytes of the packet heard,   *)
(* in order: all of them, or those that have been sent by now.                *)
Stored == receivedLength + Len(rxFifo)
PacketStored ==
  Receiving /\ heard # None =>
    /\ \A i \in 1 .. receivedLength : rxBuffer[i] = <<heard, i>>
    /\ \A k \in 1 .. Len(rxFifo) :
         receivedLength + k <= total => rxFifo[k] = <<heard, receivedLength + k>>
    /\ Stored < total => packet = heard /\ Stored = sent

(* The flag stands for a whole packet, and no byte comes in between its reset *)
(* and the next start.                                                        *)
FlagMeansRead ==
  /\ rxPc = "wait" /\ receivedFlag => receivedLength = total
  /\ rxPc = "print" => receivedLength = total
  /\ ~Receiving => ~irq /\ ~receivedFlag
  /\ rxPc = "restart" => receivedLength = 0
  /\ heard = None => rxPc = "wait" /\ receivedLength = 0 /\ rxFifo = <<>> /\ ~receivedFlag

ReceiverInv == LevelWatched /\ PacketStored /\ FlagMeansRead

-----------------------------------------------------------------------------
(* The sender *)

(* The two halves of TypeOK.                                                  *)
SenderType ==
  /\ total \in Totals
  /\ txPc \in {"start", "loop", "reset", "add", "done"}
  /\ fifoEmpty \in BOOLEAN /\ mapped \in BOOLEAN
  /\ remLength \in 1 - Chunk .. total
  /\ txFifo \in Seq(1 .. total) /\ Len(txFifo) <= FifoSize
  /\ packet \in Packets /\ sent \in 0 .. total

ReceiverType ==
  /\ total \in Totals
  /\ receivedFlag \in BOOLEAN /\ irq \in BOOLEAN
  /\ rxPc \in {"wait", "print", "length", "restart"}
  /\ receivedLength \in 0 .. total
  /\ rxBuffer \in [1 .. total -> Byte]
  /\ rxFifo \in Seq(Byte) /\ Len(rxFifo) <= FifoSize
  /\ heard \in Packets \cup {None}

LEMMA Halves == TypeOK <=> SenderType /\ ReceiverType
  BY DEF TypeOK, SenderType, ReceiverType

LEMMA Sizes ==
  /\ Chunk \in Nat /\ Chunk > 0 /\ Chunk < Thresh
  /\ Thresh \in Nat /\ Thresh < FifoSize
  /\ FifoSize \in Nat /\ 2 * Chunk <= FifoSize
  /\ Lag \in Nat /\ Prompt \in BOOLEAN /\ Quick \in BOOLEAN
  /\ \A n \in Totals : n \in Nat /\ n > FifoSize
  BY StreamAssumption DEF Chunk

LEMMA SenderInit == Init => SenderType /\ SenderInv
<1> SUFFICES ASSUME Init PROVE SenderType /\ SenderInv
  OBVIOUS
<1>1. total \in Nat /\ remLength \in 1 - Chunk .. total /\ sent \in 0 .. total
  BY Sizes DEF Init
<1>2. txFifo \in Seq(1 .. total) /\ Len(txFifo) <= FifoSize
  BY Sizes DEF Init
<1>3. /\ total \in Totals /\ txPc = "start" /\ fifoEmpty = FALSE /\ mapped = FALSE
      /\ packet \in Packets
  BY DEF Init, Packets
<1>4. SenderType
  BY <1>1, <1>2, <1>3 DEF SenderType
<1>5. SenderInv
  BY DEF Init, SenderInv, OwedFits, Accounted, SentInOrder, OnTime, Busy
<1>6. QED
  BY <1>4, <1>5

(* The first chunk of a packet.                                               *)
LEMMA SenderStarts ==
  ASSUME SenderType, SenderInv, StartTransmit
  PROVE  SenderType' /\ SenderInv'
<1>1. /\ txFifo' \in Seq(1 .. total) /\ Len(txFifo') = Chunk
      /\ \A k \in 1 .. Chunk : txFifo'[k] = k
  <2>1. \A k \in 1 .. Chunk : k \in 1 .. total
    BY Sizes DEF SenderType
  <2>2. QED
    BY <2>1, Sizes DEF StartTransmit
<1>2. SenderType'
  BY <1>1, Sizes DEF SenderType, StartTransmit, Packets, receiver, DIO1High
<1>3. OwedFits'
  BY <1>1, Sizes DEF SenderType, StartTransmit, OwedFits, Busy
<1>4. Accounted'
  BY <1>1, Sizes DEF SenderType, StartTransmit, SenderInv, Accounted, Busy, Loaded
<1>5. SentInOrder'
  BY <1>1, Sizes DEF SenderType, StartTransmit, SentInOrder
<1>6. OnTime'
  BY Sizes DEF SenderType, SenderInv, Accounted, StartTransmit, OnTime, Busy
<1>7. QED
  BY <1>2, <1>3, <1>4, <1>5, <1>6 DEF SenderInv

(* A chunk is added behind what the FIFO holds, or none is left to add.       *)
LEMMA SenderAdds ==
  ASSUME SenderType, SenderInv, fifoAdd
  PROVE  SenderType' /\ SenderInv'
<1> DEFINE rem == remLength - Chunk
           len == IF rem < Chunk THEN rem ELSE Chunk
           bytes == [i \in 1 .. len |-> Position(rem) + i]
<1>0. /\ total \in Nat /\ total > FifoSize /\ remLength \in Nat /\ remLength > 0
      /\ remLength <= total /\ rem \in Int /\ remLength' = rem /\ total' = total
      /\ sent' = sent /\ fifoEmpty' = fifoEmpty /\ txPc = "add" /\ Busy
      /\ sent \in Nat /\ Len(txFifo) \in Nat /\ Len(txFifo) <= Chunk
      /\ sent + Len(txFifo) = Loaded(remLength)
  BY Sizes DEF SenderType, SenderInv, Accounted, OwedFits, fifoAdd, Busy
<1>1. CASE rem <= 0
  <2>1. txPc' = "done" /\ txFifo' = txFifo
    BY <1>1, <1>0 DEF fifoAdd, Complete
  <2>2. SenderType'
    BY <2>1, <1>1, <1>0, Sizes DEF SenderType, fifoAdd, receiver
  <2>3. OwedFits' /\ Accounted' /\ SentInOrder'
    BY <2>1, <1>0, Sizes DEF SenderInv, OwedFits, Accounted, SentInOrder, Busy
  <2>4. Prompt => OnTime'
    <3> SUFFICES ASSUME Prompt PROVE OnTime'
      OBVIOUS
    <3>1. txFifo = <<>>
      BY <1>0, <1>1, Sizes DEF SenderInv, OnTime
    <3>2. sent = total
      <4>1. Len(txFifo) = 0
        BY <3>1
      <4>2. remLength < Chunk => sent = total
        BY <4>1, <1>0 DEF Loaded
      <4>3. remLength = Chunk => sent = total
        BY <4>1, <1>0, Sizes DEF Loaded
      <4>4. QED
        BY <4>2, <4>3, <1>0, <1>1, Sizes
    <3>3. QED
      BY <2>1, <3>2, <1>0 DEF OnTime, Busy
  <2>5. QED
    BY <2>2, <2>3, <2>4 DEF SenderInv
<1>2. CASE rem > 0
  <2>1. txPc' = "loop" /\ txFifo' = Pushed(txFifo, bytes)
    BY <1>2, <1>0 DEF fifoAdd, Complete
  <2>2. len \in 1 .. Chunk /\ len <= rem
    BY <1>2, <1>0, Sizes
  <2>3. /\ bytes \in Seq(1 .. total) /\ Len(bytes) = len
        /\ \A k \in 1 .. len : bytes[k] = Position(rem) + k
    <3>1. len \in Nat /\ Position(rem) \in Nat /\ Position(rem) + len <= total
      BY <2>2, <1>0, <1>2, Sizes DEF Position
    <3> HIDE DEF len, rem
    <3>2. QED
      BY <3>1, <1>0, BytesFrom
  <2>4. /\ txFifo' \in Seq(1 .. total)
        /\ Len(txFifo') = Len(txFifo) + len
        /\ \A k \in 1 .. Len(txFifo') :
             txFifo'[k] = IF k <= Len(txFifo) THEN txFifo[k] ELSE bytes[k - Len(txFifo)]
    <3>1. txFifo \in Seq(1 .. total) /\ Len(txFifo) <= FifoSize
      BY DEF SenderType
    <3>2. Len(txFifo) + len <= FifoSize /\ len \in Nat /\ Len(txFifo) \in Nat
      BY <2>2, <1>0, Sizes
    <3> HIDE DEF bytes, len
    <3>3. /\ Pushed(txFifo, bytes) \in Seq(1 .. total)
          /\ Len(Pushed(txFifo, bytes)) = IF Len(txFifo) + len < FifoSize
                                          THEN Len(txFifo) + len ELSE FifoSize
          /\ \A k \in 1 .. Len(Pushed(txFifo, bytes)) :
               Pushed(txFifo, bytes)[k]
                 = IF k <= Len(txFifo) THEN txFifo[k] ELSE bytes[k - Len(txFifo)]
      BY <2>3, <3>1, PushedIs
    <3>4. Len(Pushed(txFifo, bytes)) = Len(txFifo) + len
      BY <3>2, <3>3, Sizes
    <3>5. QED
      BY <2>1, <3>3, <3>4
  <2>5. Len(txFifo) + sent = Position(rem)
    BY <1>0, <1>2, Sizes DEF Loaded, Position
  <2>6. sent + Len(txFifo') = Loaded(rem) /\ sent + Len(txFifo') <= total
    <3>1. Len(txFifo') = Len(txFifo) + len /\ len = IF rem < Chunk THEN rem ELSE Chunk
      BY <2>4
    <3> HIDE DEF len, rem
    <3>2. QED
      BY <3>1, <2>5, <1>0, <1>2, Sizes DEF Loaded, Position
  <2>7. SenderType'
    <3>1. Len(txFifo') <= FifoSize
      BY <2>4, <2>2, <1>0, Sizes
    <3>2. QED
      BY <2>1, <2>4, <3>1, <1>0, <1>2, Sizes DEF SenderType, fifoAdd, receiver
  <2>8. OwedFits'
    BY <2>1, <2>2, <2>4, <1>0, Sizes, SMTT(30) DEF SenderInv, OwedFits, Busy
  <2>9. Accounted'
    BY <2>1, <2>6, <1>0, <1>2 DEF Accounted, Busy, Loaded
  <2>10. SentInOrder'
    <3> SUFFICES ASSUME NEW k \in 1 .. Len(txFifo') PROVE txFifo'[k] = sent + k
      BY <1>0 DEF SentInOrder
    <3> HIDE DEF bytes, len, rem
    <3>1. CASE k <= Len(txFifo)
      <4>1. k \in 1 .. Len(txFifo) /\ txFifo'[k] = txFifo[k]
        BY <3>1, <2>4, <1>0
      <4>2. QED
        BY <4>1, <1>0 DEF SenderInv, SentInOrder
    <3>2. CASE k > Len(txFifo)
      <4>1. k - Len(txFifo) \in 1 .. len
        BY <3>2, <2>4, <2>2, <1>0
      <4>2. txFifo'[k] = Position(rem) + (k - Len(txFifo))
        <5>1. txFifo'[k] = bytes[k - Len(txFifo)]
          BY <3>2, <2>4, <1>0
        <5>2. QED
          BY <5>1, <4>1, <2>3
      <4>3. QED
        BY <4>2, <2>5, <1>0
    <3>3. QED
      BY <3>1, <3>2, <2>4, <1>0
  <2>11. Prompt => OnTime'
    BY <2>1, <2>2, <1>0 DEF SenderInv, OnTime, Busy
  <2>12. QED
    BY <2>7, <2>8, <2>9, <2>10, <2>11 DEF SenderInv
<1>3. QED
  BY <1>1, <1>2, <1>0

(* A byte leaves the FIFO.                                                    *)
LEMMA SenderSends ==
  ASSUME SenderType, SenderInv, SendByte
  PROVE  SenderType' /\ SenderInv'
<1>1. /\ txPc # "start" /\ txPc' = txPc /\ total' = total /\ remLength' = remLength
      /\ txFifo # <<>> /\ txFifo' = Tail(txFifo) /\ sent' = sent + 1
      /\ fifoEmpty' = (fifoEmpty \/ Len(txFifo) = 1)
      /\ Prompt /\ Len(txFifo) = 1 => ~fifoEmpty /\ txPc \notin {"reset", "add"}
      /\ mapped' = mapped /\ packet' = packet
  BY DEF SendByte
<1>2. /\ txFifo' \in Seq(1 .. total) /\ Len(txFifo') = Len(txFifo) - 1
      /\ Len(txFifo) \in Nat \ {0}
      /\ \A k \in 1 .. Len(txFifo') : txFifo'[k] = txFifo[k + 1]
      /\ Len(txFifo) = 1 => txFifo' = <<>>
  BY <1>1, HeadTailProperties DEF SenderType
<1>3. sent \in Nat /\ total \in Nat /\ sent + Len(txFifo) <= total
  BY <1>1, Sizes DEF SenderType, SenderInv, Accounted
<1>4. SenderType'
  BY <1>1, <1>2, <1>3, Sizes DEF SenderType
<1>5. OwedFits'
  <2>1. fifoEmpty' /\ txPc' = "add" => Len(txFifo) = 1
    BY <1>1 DEF SenderInv, OwedFits, Busy
  <2>2. Busy' => Busy
    BY <1>1 DEF Busy
  <2>3. fifoEmpty' => fifoEmpty \/ Len(txFifo') = 0
    BY <1>1, <1>2
  <2>4. txPc' = "reset" => fifoEmpty'
    BY <1>1 DEF SenderInv, OwedFits
  <2>5. Busy' => Len(txFifo') <= 2 * Chunk
    BY <1>2, <2>2, Sizes DEF SenderInv, OwedFits
  <2>6. Busy' /\ (fifoEmpty' \/ txPc' = "add") => Len(txFifo') <= Chunk
    BY <1>1, <1>2, <2>2, <2>3, Sizes DEF SenderInv, OwedFits
  <2>7. QED
    BY <1>2, <2>1, <2>4, <2>5, <2>6 DEF OwedFits
<1>6. Accounted'
  BY <1>1, <1>2, <1>3 DEF SenderInv, Accounted, Busy, Loaded
<1>7. SentInOrder'
  BY <1>1, <1>2, <1>3 DEF SenderInv, SentInOrder
<1>8. Prompt => OnTime'
  <2> SUFFICES ASSUME Prompt PROVE OnTime'
    OBVIOUS
  <2>1. Busy
    BY <1>1, <1>2, <1>3 DEF SenderInv, OnTime, Busy, SenderType
  <2>2. CASE Len(txFifo) = 1
    BY <1>1, <1>2, <2>1, <2>2 DEF OnTime, Busy
  <2>3. CASE Len(txFifo) # 1
    BY <1>1, <2>1, <2>3 DEF SenderInv, OnTime, Busy, SenderType
  <2>4. QED
    BY <2>2, <2>3
<1>9. QED
  BY <1>4, <1>5, <1>6, <1>7, <1>8 DEF SenderInv

(* The other steps of the sender only move it along.                          *)
LEMMA SenderMoves ==
  ASSUME SenderType, SenderInv, SeesEmpty \/ ResetEmpty \/ Finish
  PROVE  SenderType' /\ SenderInv'
<1>1. CASE SeesEmpty
  BY <1>1, Sizes DEF SeesEmpty, SenderType, SenderInv, OwedFits, Accounted, SentInOrder, OnTime,
                     Busy, Loaded, receiver
<1>2. CASE ResetEmpty
  BY <1>2, Sizes DEF ResetEmpty, SenderType, SenderInv, OwedFits, Accounted, SentInOrder, OnTime,
                     Busy, Loaded, receiver
<1>3. CASE Finish
  BY <1>3, Sizes DEF Finish, LengthReset, SenderType, SenderInv, OwedFits, Accounted, SentInOrder,
                     OnTime, Busy, Loaded, receiver
<1>4. QED
  BY <1>1, <1>2, <1>3

LEMMA SenderIdles ==
  ASSUME SenderType, SenderInv, UNCHANGED <<total, sender>>
  PROVE  SenderType' /\ SenderInv'
  BY DEF SenderType, SenderInv, OwedFits, Accounted, SentInOrder, OnTime, Busy, Loaded, sender

LEMMA SenderStep ==
  ASSUME SenderType, SenderInv, [Next]_vars
  PROVE  SenderType' /\ SenderInv'
<1>1. ASSUME NoiseByte \/ fifoGet \/ Receiver \/ UNCHANGED vars
      PROVE  UNCHANGED <<total, sender>>
  BY <1>1 DEF NoiseByte, fifoGet, Receiver, ReportPacket, ResetFlag, ResetLength, StartReceive, vars
<1>2. QED
  BY <1>1, SenderStarts, SenderAdds, SenderSends, SenderMoves, SenderIdles DEF Next, Sender

(* The bytes wait in the FIFO in the order they are numbered in, none twice   *)
(* and none left out, whether the sender keeps up or not: SX127x::fifoAdd     *)
(* counts what is left and never looks at the FIFO.                           *)
THEOREM BytesStayInOrder == Spec => []SentInOrder
<1>1. SenderType /\ SenderInv /\ [Next]_vars => (SenderType /\ SenderInv)'
  BY SenderStep
<1>2. SenderInv => SentInOrder
  BY DEF SenderInv
<1>3. QED
  BY SenderInit, <1>1, <1>2, PTL DEF Spec

(* A sender whose first fifoAdd comes in time is told that the packet is      *)
(* complete ("True when a complete packet is sent", SX127x.h:831) only when   *)
(* its last byte has been sent.                                               *)
THEOREM CompleteMeansSent ==
  ASSUME Prompt
  PROVE  Spec => []DoneMeansSent
<1>1. SenderType /\ SenderInv /\ [Next]_vars => (SenderType /\ SenderInv)'
  BY SenderStep
<1>2. SenderInv => DoneMeansSent
  BY Prompt DEF SenderInv, OnTime, Busy, DoneMeansSent
<1>3. QED
  BY SenderInit, <1>1, <1>2, PTL DEF Spec

-----------------------------------------------------------------------------
(* The receiver *)

(* A byte that comes in while the FIFO has room is stored behind the others.  *)
LEMMA StoresIs ==
  ASSUME ReceiverType, NEW byte \in Byte, Stores(byte)
  PROVE  /\ rxFifo' \in Seq(Byte) /\ irq' \in BOOLEAN
         /\ Len(rxFifo') = IF Len(rxFifo) < FifoSize THEN Len(rxFifo) + 1 ELSE FifoSize
         /\ \A k \in 1 .. Len(rxFifo') :
              rxFifo'[k] = IF k <= Len(rxFifo) THEN rxFifo[k] ELSE byte
<1>1. /\ rxFifo \in Seq(Byte) /\ Len(rxFifo) <= FifoSize /\ Len(rxFifo) \in Nat
      /\ rxFifo' = Pushed(rxFifo, <<byte>>) /\ irq' \in BOOLEAN
  BY DEF ReceiverType, Stores
<1>2. <<byte>> \in Seq(Byte) /\ Len(<<byte>>) = 1 /\ <<byte>>[1] = byte
  OBVIOUS
<1>3. /\ rxFifo' \in Seq(Byte)
      /\ Len(rxFifo') = IF Len(rxFifo) + 1 < FifoSize THEN Len(rxFifo) + 1 ELSE FifoSize
      /\ \A k \in 1 .. Len(rxFifo') :
           rxFifo'[k] = IF k <= Len(rxFifo) THEN rxFifo[k] ELSE <<byte>>[k - Len(rxFifo)]
  BY <1>1, <1>2, PushedIs
<1>4. Len(rxFifo') = IF Len(rxFifo) < FifoSize THEN Len(rxFifo) + 1 ELSE FifoSize
  BY <1>1, <1>3, Sizes
<1>5. ASSUME NEW k \in 1 .. Len(rxFifo'), ~(k <= Len(rxFifo))
      PROVE  rxFifo'[k] = byte
  <2>1. k - Len(rxFifo) = 1
    BY <1>1, <1>4, <1>5, Sizes
  <2>2. QED
    BY <2>1, <1>2, <1>3, <1>5
<1>6. QED
  BY <1>1, <1>3, <1>4, <1>5

(* What a call of fifoGet reads, as a state function of its own.              *)
Want == IF total - receivedLength < Chunk THEN total - receivedLength ELSE Chunk

LEMMA GetIs ==
  ASSUME ReceiverType, fifoGet
  PROVE  /\ Want \in Nat /\ Want <= Chunk /\ receivedLength + Want <= total
         /\ Want < Chunk => receivedLength + Want = total
         /\ total' = total /\ UNCHANGED sender /\ rxPc' = rxPc /\ heard' = heard
         /\ irq /\ ~irq'
         /\ receivedLength' = receivedLength + Want
         /\ receivedFlag' => receivedLength + Want >= total
         /\ rxFifo' = SubSeq(rxFifo, Want + 1, Len(rxFifo))
         /\ rxBuffer' = [i \in 1 .. total |->
              IF i \in receivedLength + 1 .. receivedLength + Want
              THEN IF i - receivedLength <= Len(rxFifo)
                   THEN rxFifo[i - receivedLength] ELSE Noise
              ELSE rxBuffer[i]]
<1>1. /\ Want \in Nat /\ Want <= Chunk /\ receivedLength + Want <= total
      /\ Want < Chunk => receivedLength + Want = total
  BY Sizes DEF ReceiverType, Want
<1>2. QED
  BY <1>1 DEF fifoGet, Want, AllReceived

LEMMA ReceiverTypeInit == Init => ReceiverType
<1> SUFFICES ASSUME Init PROVE ReceiverType
  OBVIOUS
<1>1. total \in Totals /\ total \in Nat
  BY Sizes DEF Init
<1>2. rxBuffer \in [1 .. total -> Byte]
  BY DEF Init, Byte
<1>3. rxFifo \in Seq(Byte) /\ Len(rxFifo) <= FifoSize
  BY Sizes DEF Init
<1>4. receivedLength \in 0 .. total
  BY <1>1 DEF Init
<1>5. /\ receivedFlag \in BOOLEAN /\ irq \in BOOLEAN /\ rxPc = "wait"
      /\ heard \in Packets \cup {None}
  BY DEF Init
<1>6. QED
  BY <1>1, <1>2, <1>3, <1>4, <1>5 DEF ReceiverType

LEMMA ReceiverTypeStep ==
  ASSUME SenderType, ReceiverType, [Next]_vars
  PROVE  ReceiverType'
<1>1. CASE SendByte
  <2>1. heard' \in Packets \cup {None}
    BY <1>1 DEF SendByte, SenderType, ReceiverType
  <2>2. <<packet, Head(txFifo)>> \in Byte
    BY <1>1, HeadTailProperties, Sizes DEF SendByte, SenderType, Byte
  <2>3. rxFifo' \in Seq(Byte) /\ Len(rxFifo') <= FifoSize /\ irq' \in BOOLEAN
    <3>1. CASE heard' # None
      BY <3>1, <2>2, <1>1, StoresIs, Sizes DEF SendByte, ReceiverType
    <3>2. CASE heard' = None
      BY <3>2, <1>1 DEF SendByte, ReceiverType
    <3>3. QED
      BY <3>1, <3>2
  <2>4. QED
    BY <1>1, <2>1, <2>3 DEF SendByte, ReceiverType
<1>2. CASE NoiseByte
  <2>1. Noise \in Byte
    BY DEF Byte
  <2>2. rxFifo' \in Seq(Byte) /\ Len(rxFifo') <= FifoSize /\ irq' \in BOOLEAN
    BY <2>1, <1>2, StoresIs, Sizes DEF NoiseByte, ReceiverType
  <2>3. QED
    BY <1>2, <2>2 DEF NoiseByte, ReceiverType
<1>3. CASE fifoGet
  <2>1. rxFifo' \in Seq(Byte) /\ Len(rxFifo') <= FifoSize
    <3>1. \A i \in Want + 1 .. Len(rxFifo) : rxFifo[i] \in Byte
      BY <1>3, GetIs, ElementOfSeq DEF ReceiverType
    <3>2. Len(rxFifo) \in Nat /\ Want \in Nat /\ Len(rxFifo) <= FifoSize
      BY <1>3, GetIs DEF ReceiverType
    <3>3. /\ rxFifo' \in Seq(Byte)
          /\ Len(rxFifo') = IF Want + 1 <= Len(rxFifo) THEN Len(rxFifo) - (Want + 1) + 1 ELSE 0
      <4>1. Want + 1 \in Int /\ Len(rxFifo) \in Int
        BY <3>2
      <4>2. /\ SubSeq(rxFifo, Want + 1, Len(rxFifo)) \in Seq(Byte)
            /\ Len(SubSeq(rxFifo, Want + 1, Len(rxFifo)))
                 = IF Want + 1 <= Len(rxFifo) THEN Len(rxFifo) - (Want + 1) + 1 ELSE 0
        BY <3>1, <4>1, SubSeqProperties
      <4>3. QED
        BY <4>2, <1>3, GetIs
    <3>4. QED
      BY <3>2, <3>3, Sizes
  <2>2. rxBuffer' \in [1 .. total -> Byte]
    <3> SUFFICES ASSUME NEW i \in 1 .. total PROVE rxBuffer'[i] \in Byte
      BY <1>3, GetIs
    <3>1. total \in Nat /\ receivedLength \in Nat /\ Want \in Nat
      BY <1>3, GetIs, Sizes DEF ReceiverType
    <3>2. Noise \in Byte /\ rxBuffer[i] \in Byte
      BY DEF Byte, ReceiverType
    <3>3. i \in receivedLength + 1 .. receivedLength + Want /\ i - receivedLength <= Len(rxFifo)
            => rxFifo[i - receivedLength] \in Byte
      BY <3>1, ElementOfSeq DEF ReceiverType
    <3>4. QED
      BY <1>3, <3>2, <3>3, GetIs
  <2>3. receivedLength' \in 0 .. total
    BY <1>3, GetIs, Sizes DEF ReceiverType
  <2>4. receivedFlag' \in BOOLEAN /\ irq' \in BOOLEAN
    <3>1. irq' \in BOOLEAN
      BY <1>3 DEF fifoGet
    <3>2. receivedFlag' = AllReceived(receivedLength + Want)
      BY <1>3 DEF fifoGet, Want
    <3>3. receivedFlag' \in BOOLEAN
      BY <3>2 DEF AllReceived
    <3>4. QED
      BY <3>1, <3>3
  <2>5. total' = total /\ rxPc' = rxPc /\ heard' = heard
    BY <1>3, GetIs
  <2>6. QED
    BY <2>1, <2>2, <2>3, <2>4, <2>5 DEF ReceiverType
<1>4. CASE Receiver
  <2>1. total \in Nat /\ <<>> \in Seq(Byte) /\ Len(<<>>) <= FifoSize
    BY Sizes DEF ReceiverType
  <2>2. CASE ReportPacket \/ ResetFlag
    BY <2>2 DEF ReportPacket, ResetFlag, ReceiverType
  <2>3. CASE ResetLength
    BY <2>1, <2>3 DEF ResetLength, ReceiverType
  <2>4. CASE StartReceive
    BY <2>1, <2>4 DEF StartReceive, FifoCleared, ReceiverType
  <2>5. QED
    BY <1>4, <2>2, <2>3, <2>4 DEF Receiver
<1>5. CASE Sender \/ UNCHANGED vars
  BY <1>5 DEF Sender, StartTransmit, SeesEmpty, ResetEmpty, fifoAdd, Finish, receiver, vars,
              ReceiverType
<1>6. QED
  BY <1>1, <1>2, <1>3, <1>4, <1>5 DEF Next

(* The fields of sender and receiver keep their ranges: remLength ends less   *)
(* than a chunk below zero, receivedLength never exceeds the packet.          *)
THEOREM FieldsInRange == Spec => []TypeOK
<1>1. Init => SenderType /\ SenderInv /\ ReceiverType
  BY SenderInit, ReceiverTypeInit
<1>2. SenderType /\ SenderInv /\ ReceiverType /\ [Next]_vars
        => (SenderType /\ SenderInv /\ ReceiverType)'
  BY SenderStep, ReceiverTypeStep
<1>3. SenderType /\ ReceiverType => TypeOK
  BY Halves
<1>4. QED
  BY <1>1, <1>2, <1>3, PTL DEF Spec

-----------------------------------------------------------------------------
(* What the program gets *)

(* Both interrupts are served in time: the sender's before its first chunk is *)
(* sent; the receiver's, over the bytes that come in meanwhile, before the    *)
(* FIFO overflows, and so early that the level is below the threshold after   *)
(* the read. stream_late and stream_slow_restart in the README show what a    *)
(* slower program does.                                                       *)
InTime == Prompt /\ Quick /\ Lag + 2 <= Thresh /\ Thresh + Lag < FifoSize

LEMMA ReceiverInit == Init => ReceiverInv
<1> SUFFICES ASSUME Init PROVE ReceiverInv
  OBVIOUS
<1>1. /\ rxPc = "wait" /\ receivedFlag = FALSE /\ receivedLength = 0 /\ heard = None
      /\ rxFifo = <<>> /\ Len(rxFifo) = 0 /\ irq = FALSE
  BY DEF Init
<1>2. LevelWatched
  BY <1>1, Sizes DEF LevelWatched
<1>3. PacketStored /\ FlagMeansRead
  BY <1>1 DEF PacketStored, FlagMeansRead, Receiving
<1>4. QED
  BY <1>2, <1>3 DEF ReceiverInv

(* A byte is stored: the next one of the packet, or one behind its end.       *)
LEMMA LevelAfterStore ==
  ASSUME InTime, ReceiverType, LevelWatched, MayArrive, Receiving,
         NEW byte \in Byte, Stores(byte), UNCHANGED <<total, rxPc, receivedLength>>
  PROVE  LevelWatched'
<1>1. /\ Len(rxFifo') = IF Len(rxFifo) < FifoSize THEN Len(rxFifo) + 1 ELSE FifoSize
      /\ irq \/ (Len(rxFifo) = Thresh /\ Len(rxFifo') > Thresh) => irq'
      /\ ~irq /\ Len(rxFifo) # Thresh => ~irq'
      /\ Len(rxFifo) \in Nat
  <2>1. /\ Len(rxFifo') = IF Len(rxFifo) < FifoSize THEN Len(rxFifo) + 1 ELSE FifoSize
        /\ Len(rxFifo) \in Nat
    BY StoresIs DEF ReceiverType
  <2>2. irq \/ (Len(rxFifo) = Thresh /\ Len(rxFifo') > Thresh) => irq'
    BY DEF Stores
  <2>3. ~irq /\ Len(rxFifo) # Thresh => ~irq'
    BY DEF Stores
  <2>4. QED
    BY <2>1, <2>2, <2>3
<1>2. CASE irq
  <2>1. Thresh < Len(rxFifo) /\ Len(rxFifo) <= Thresh + Lag
    BY <1>2 DEF LevelWatched, MayArrive
  <2>2. Len(rxFifo') = Len(rxFifo) + 1 /\ irq'
    BY <1>1, <1>2, <2>1, Sizes DEF InTime
  <2>3. QED
    BY <1>1, <2>1, <2>2, Sizes DEF LevelWatched
<1>3. CASE ~irq /\ Len(rxFifo) = Thresh
  <2>1. Len(rxFifo') = Thresh + 1
    BY <1>1, <1>3, Sizes
  <2>2. irq'
    BY <1>1, <1>3, <2>1, Sizes
  <2>3. QED
    BY <2>1, <2>2, Sizes DEF LevelWatched
<1>4. CASE ~irq /\ Len(rxFifo) # Thresh
  <2>1. ~irq'
    BY <1>1, <1>4
  <2>2. receivedLength' < total' => Len(rxFifo) <= Thresh
    BY <1>4 DEF LevelWatched
  <2>3. receivedLength' < total' => Len(rxFifo') <= Thresh
    BY <1>1, <1>4, <2>2, Sizes
  <2>4. QED
    BY <2>1, <2>3 DEF LevelWatched
<1>5. QED
  BY <1>2, <1>3, <1>4

LEMMA StoredMore ==
  ASSUME InTime, ReceiverType, ReceiverInv, MayArrive, heard # None,
         NEW byte \in Byte, Stores(byte),
         UNCHANGED <<total, rxPc, receivedFlag, receivedLength, rxBuffer, heard>>,
         Stored < total => /\ byte = <<heard, Stored + 1>>
                           /\ packet' = heard /\ sent' = Stored + 1
  PROVE  ReceiverInv'
<1>1. Receiving
  BY DEF MayArrive, InTime, Receiving, ReceiverType
<1>2. LevelWatched'
  BY <1>1, LevelAfterStore DEF ReceiverInv
<1>3. /\ Len(rxFifo') = IF Len(rxFifo) < FifoSize THEN Len(rxFifo) + 1 ELSE FifoSize
      /\ \A k \in 1 .. Len(rxFifo') :
           rxFifo'[k] = IF k <= Len(rxFifo) THEN rxFifo[k] ELSE byte
      /\ Len(rxFifo) \in Nat /\ Len(rxFifo) <= FifoSize
      /\ receivedLength \in Nat /\ receivedLength <= total /\ total \in Nat
  BY StoresIs, Sizes DEF ReceiverType
<1>4. PacketStored'
  <2>1. \A i \in 1 .. receivedLength' : rxBuffer'[i] = <<heard', i>>
    BY <1>1 DEF ReceiverInv, PacketStored
  <2>2. CASE Stored < total
    <3>1. Len(rxFifo) < FifoSize
      BY <2>2, <1>1, <1>3, Sizes DEF ReceiverInv, LevelWatched, MayArrive, InTime, Stored
    <3>2. Len(rxFifo') = Len(rxFifo) + 1
      BY <3>1, <1>3
    <3>3. Stored' = Stored + 1
      BY <3>2, <1>3 DEF Stored
    <3>4. ASSUME NEW k \in 1 .. Len(rxFifo')
          PROVE  rxFifo'[k] = <<heard, receivedLength + k>>
      <4>1. CASE k <= Len(rxFifo)
        <5>1. k \in 1 .. Len(rxFifo) /\ rxFifo'[k] = rxFifo[k] /\ receivedLength + k <= total
          BY <4>1, <3>4, <2>2, <1>3 DEF Stored
        <5>2. QED
          BY <5>1, <1>1 DEF ReceiverInv, PacketStored
      <4>2. CASE k > Len(rxFifo)
        <5>1. k = Len(rxFifo) + 1 /\ rxFifo'[k] = byte
          BY <4>2, <3>4, <3>2, <1>3
        <5>2. QED
          BY <5>1, <2>2, <1>3 DEF Stored
      <4>3. QED
        BY <4>1, <4>2, <3>2, <1>3
    <3>5. QED
      BY <2>1, <2>2, <3>3, <3>4 DEF PacketStored
  <2>3. CASE Stored >= total
    <3>1. Len(rxFifo') >= Len(rxFifo) /\ Len(rxFifo') \in Nat
      BY <1>3, Sizes
    <3>2. ~(Stored' < total')
      BY <2>3, <3>1, <1>3 DEF Stored
    <3>3. ASSUME NEW k \in 1 .. Len(rxFifo'), receivedLength + k <= total
          PROVE  rxFifo'[k] = <<heard, receivedLength + k>>
      <4>1. k \in 1 .. Len(rxFifo) /\ rxFifo'[k] = rxFifo[k]
        BY <2>3, <3>1, <3>3, <1>3 DEF Stored
      <4>2. QED
        BY <4>1, <3>3, <1>1 DEF ReceiverInv, PacketStored
    <3>4. QED
      BY <2>1, <3>2, <3>3 DEF PacketStored
  <2>4. QED
    BY <2>2, <2>3, <1>3 DEF Stored
<1>5. FlagMeansRead'
  BY <1>1 DEF ReceiverInv, FlagMeansRead, Receiving
<1>6. QED
  BY <1>2, <1>4, <1>5 DEF ReceiverInv

(* A byte of a packet comes in: the first of the packet that is heard now, or *)
(* the next of one under way, or nothing that the receiver stores.            *)
LEMMA ReceiverHears ==
  ASSUME InTime, SenderType, SenderInv, ReceiverType, ReceiverInv, SendByte
  PROVE  ReceiverInv'
<1>1. /\ txPc # "start" /\ txFifo # <<>> /\ MayArrive /\ sent' = sent + 1
      /\ packet' = packet /\ txFifo \in Seq(1 .. total)
      /\ UNCHANGED <<total, rxPc, receivedFlag, receivedLength, rxBuffer>>
      /\ sent \in Nat /\ total \in Nat /\ total > FifoSize
  BY Sizes DEF SendByte, SenderType
<1>2. Head(txFifo) = sent + 1 /\ Head(txFifo) \in Nat /\ packet \in Packets
  <2>1. Len(txFifo) \in Nat \ {0} /\ Head(txFifo) = txFifo[1]
    BY <1>1
  <2>2. 1 \in 1 .. Len(txFifo)
    BY <2>1
  <2>3. QED
    BY <1>1, <2>1, <2>2 DEF SenderInv, SentInOrder, SenderType
<1>3. <<packet, Head(txFifo)>> \in Byte
  BY <1>2 DEF Byte
<1>4. CASE heard = None /\ sent = 0
  <2>1. /\ heard' = packet /\ packet # None
        /\ Stores(<<packet, Head(txFifo)>>)
    BY <1>2, <1>4 DEF SendByte, Packets, None
  <2>2. rxPc = "wait" /\ receivedLength = 0 /\ Len(rxFifo) = 0 /\ ~receivedFlag
    BY <1>4 DEF ReceiverInv, FlagMeansRead
  <2>3. /\ Len(rxFifo') = 1 /\ rxFifo'[1] = <<packet, 1>>
    BY <1>2, <1>3, <1>4, <2>1, <2>2, StoresIs, Sizes
  <2>4. LevelWatched'
    <3>1. Receiving
      BY <2>2 DEF Receiving
    <3>2. QED
      BY <1>1, <1>3, <2>1, <3>1, LevelAfterStore DEF ReceiverInv
  <2>5. PacketStored'
    <3>1. Stored' = 1 /\ sent' = 1 /\ receivedLength' = 0
      BY <1>1, <1>4, <2>2, <2>3 DEF Stored
    <3>2. \A k \in 1 .. Len(rxFifo') : rxFifo'[k] = <<heard', receivedLength' + k>>
      BY <2>1, <2>3, <3>1
    <3>3. QED
      BY <1>1, <2>1, <3>1, <3>2 DEF PacketStored
  <2>6. FlagMeansRead'
    BY <1>1, <2>1, <2>2 DEF FlagMeansRead, Receiving
  <2>7. QED
    BY <2>4, <2>5, <2>6 DEF ReceiverInv
<1>5. CASE heard # None
  <2>1. heard' = heard /\ Stores(<<packet, Head(txFifo)>>)
    BY <1>5 DEF SendByte
  <2>2. Receiving
    BY <1>1 DEF MayArrive, InTime, Receiving, ReceiverType
  <2>3. Stored < total => /\ <<packet, Head(txFifo)>> = <<heard, Stored + 1>>
                          /\ packet' = heard /\ sent' = Stored + 1
    BY <1>1, <1>2, <1>5, <2>2 DEF ReceiverInv, PacketStored
  <2>4. QED
    BY <1>1, <1>3, <1>5, <2>1, <2>3, StoredMore
<1>6. CASE heard = None /\ sent # 0
  <2>1. heard' = None /\ UNCHANGED <<rxFifo, irq>>
    BY <1>6 DEF SendByte
  <2>2. QED
    BY <1>1, <1>6, <2>1 DEF ReceiverInv, LevelWatched, PacketStored, FlagMeansRead, Receiving
<1>7. QED
  BY <1>4, <1>5, <1>6

(* Noise follows the last byte of a packet, never one in its middle.          *)
LEMMA ReceiverHearsNoise ==
  ASSUME InTime, SenderType, SenderInv, ReceiverType, ReceiverInv, NoiseByte
  PROVE  ReceiverInv'
<1>1. /\ txPc = "start" /\ heard # None /\ MayArrive /\ Stores(Noise)
      /\ UNCHANGED <<total, rxPc, receivedFlag, receivedLength, rxBuffer, heard>>
  BY DEF NoiseByte
<1>2. Noise \in Byte
  BY DEF Byte
<1>3. sent = total /\ total \in Nat
  BY <1>1, Sizes DEF SenderInv, OnTime, Busy, InTime, SenderType
<1>4. Receiving
  BY <1>1 DEF MayArrive, InTime, Receiving, ReceiverType
<1>5. ~(Stored < total)
  BY <1>1, <1>3, <1>4 DEF ReceiverInv, PacketStored
<1>6. QED
  BY <1>1, <1>2, <1>5, StoredMore

(* The interrupt moves bytes from the FIFO to the buffer; the level is then   *)
(* below the threshold again, or the packet is read.                          *)
LEMMA ReceiverGets ==
  ASSUME InTime, ReceiverType, ReceiverInv, fifoGet
  PROVE  ReceiverInv'
<1>1. /\ Want \in Nat /\ Want <= Chunk /\ receivedLength + Want <= total
      /\ Want < Chunk => receivedLength + Want = total
      /\ receivedLength \in Nat /\ receivedLength <= total /\ total \in Nat
      /\ total' = total /\ rxPc' = rxPc /\ heard' = heard /\ packet' = packet /\ sent' = sent
      /\ irq /\ ~irq' /\ receivedLength' = receivedLength + Want
      /\ Len(rxFifo) \in Nat
  BY GetIs, Sizes DEF ReceiverType, sender
<1>2. /\ Thresh < Len(rxFifo) /\ Len(rxFifo) <= Thresh + Lag + 1
      /\ Receiving /\ heard # None /\ Want \in 0 .. Len(rxFifo)
  <2>1. Thresh < Len(rxFifo) /\ Len(rxFifo) <= Thresh + Lag + 1 /\ Receiving
    BY <1>1 DEF ReceiverInv, LevelWatched, FlagMeansRead
  <2>2. heard = None => Len(rxFifo) = 0
    BY DEF ReceiverInv, FlagMeansRead
  <2>3. QED
    BY <1>1, <2>1, <2>2, Sizes
<1>3. /\ Len(rxFifo') = Len(rxFifo) - Want
      /\ \A k \in 1 .. Len(rxFifo') : rxFifo'[k] = rxFifo[Want + k]
  <2>1. rxFifo \in Seq(Byte) /\ rxFifo' = SubSeq(rxFifo, Want + 1, Len(rxFifo))
    BY GetIs DEF ReceiverType
  <2>2. QED
    BY <1>2, <2>1, ReadLeaves
<1>4. LevelWatched'
  <2>1. receivedLength' < total' => Want = Chunk
    BY <1>1, Sizes
  <2>2. receivedLength' < total' => Len(rxFifo') <= Thresh
    BY <1>1, <1>2, <1>3, <2>1, Sizes DEF InTime, Chunk
  <2>3. QED
    BY <1>1, <2>2 DEF LevelWatched
<1>5. PacketStored'
  <2>1. ASSUME NEW i \in 1 .. receivedLength'
        PROVE  rxBuffer'[i] = <<heard, i>>
    <3>1. i \in 1 .. total /\ i \in Nat
      BY <1>1
    <3>2. CASE i <= receivedLength
      <4>1. rxBuffer'[i] = rxBuffer[i]
        BY <3>1, <3>2, <1>1, GetIs, SMTT(30)
      <4>2. QED
        BY <4>1, <3>1, <3>2, <1>1, <1>2 DEF ReceiverInv, PacketStored
    <3>3. CASE i > receivedLength
      <4>1. /\ i \in receivedLength + 1 .. receivedLength + Want
            /\ i - receivedLength \in 1 .. Len(rxFifo)
        BY <2>1, <3>1, <3>3, <1>1, <1>2
      <4>2. rxBuffer'[i] = rxFifo[i - receivedLength]
        BY <3>1, <4>1, <1>1, GetIs
      <4>3. receivedLength + (i - receivedLength) = i
        BY <3>1, <1>1
      <4>4. QED
        BY <4>1, <4>2, <4>3, <3>1, <1>1, <1>2 DEF ReceiverInv, PacketStored
    <3>4. QED
      BY <3>1, <3>2, <3>3, <1>1
  <2>2. ASSUME NEW k \in 1 .. Len(rxFifo'), receivedLength' + k <= total'
        PROVE  rxFifo'[k] = <<heard, receivedLength' + k>>
    <3>1. Want + k \in 1 .. Len(rxFifo) /\ rxFifo'[k] = rxFifo[Want + k]
      BY <2>2, <1>1, <1>2, <1>3
    <3>2. receivedLength + (Want + k) = receivedLength' + k
      BY <1>1
    <3>3. QED
      BY <3>1, <3>2, <2>2, <1>1, <1>2 DEF ReceiverInv, PacketStored
  <2>3. Stored' = Stored
    BY <1>1, <1>3 DEF Stored
  <2>4. QED
    BY <1>1, <1>2, <2>1, <2>2, <2>3 DEF ReceiverInv, PacketStored, Receiving
<1>6. FlagMeansRead'
  <2>1. receivedFlag' => receivedLength' = total'
    BY <1>1, GetIs
  <2>2. rxPc = "print" => receivedLength' = total'
    BY <1>1 DEF ReceiverInv, FlagMeansRead
  <2>3. QED
    BY <1>1, <1>2, <2>1, <2>2 DEF FlagMeansRead, Receiving
<1>7. QED
  BY <1>4, <1>5, <1>6 DEF ReceiverInv

(* The program takes the packet and starts over.                              *)
LEMMA ReceiverRestarts ==
  ASSUME InTime, ReceiverType, ReceiverInv, Receiver
  PROVE  ReceiverInv'
<1>1. CASE ReportPacket \/ ResetFlag
  <2>1. /\ receivedLength = total /\ rxPc' \in {"print", "length"} /\ ~irq
        /\ rxPc' = "length" => ~receivedFlag'
        /\ UNCHANGED <<total, sender, receivedLength, rxBuffer, rxFifo, irq, heard>>
        /\ heard # None \/ receivedFlag \/ rxPc = "print"
    BY <1>1 DEF ReportPacket, ResetFlag, ReceiverInv, FlagMeansRead
  <2>2. heard # None
    BY <1>1 DEF ReportPacket, ResetFlag, ReceiverInv, FlagMeansRead
  <2>3. LevelWatched' /\ FlagMeansRead'
    BY <2>1, <2>2, Sizes DEF LevelWatched, FlagMeansRead, Receiving, ReceiverType
  <2>4. PacketStored'
    BY <1>1, <2>1 DEF ReportPacket, ResetFlag, ReceiverInv, PacketStored, Receiving, Stored, sender
  <2>5. QED
    BY <2>3, <2>4 DEF ReceiverInv
<1>2. CASE ResetLength
  BY <1>2 DEF ResetLength, ReceiverInv, LevelWatched, PacketStored, FlagMeansRead, Receiving
<1>3. CASE StartReceive
  <2>1. /\ rxPc' = "wait" /\ rxFifo' = <<>> /\ heard' = None /\ ~irq' /\ ~receivedFlag'
        /\ receivedLength' = 0 /\ total' = total
    BY <1>3 DEF StartReceive, FifoCleared, ReceiverInv, FlagMeansRead, Receiving
  <2>2. Len(rxFifo') = 0
    BY <2>1
  <2>3. QED
    BY <2>1, <2>2, Sizes DEF ReceiverInv, LevelWatched, PacketStored, FlagMeansRead, Receiving
<1>4. QED
  BY <1>1, <1>2, <1>3 DEF Receiver

(* The sender goes on: a new packet begins only when all of the last one has  *)
(* been sent.                                                                 *)
LEMMA ReceiverWaits ==
  ASSUME InTime, SenderType, SenderInv, ReceiverInv, Sender \/ UNCHANGED vars
  PROVE  ReceiverInv'
<1>1. UNCHANGED <<total, receiver>>
  BY DEF Sender, StartTransmit, SeesEmpty, ResetEmpty, fifoAdd, Finish, vars
<1>2. LevelWatched' /\ FlagMeansRead'
  BY <1>1 DEF ReceiverInv, LevelWatched, FlagMeansRead, Receiving, receiver
<1>3. Stored < total /\ Receiving /\ heard # None => packet' = packet /\ sent' = sent
  <2>1. CASE StartTransmit
    <3>1. sent = total /\ total \in Nat
      BY <2>1, Sizes DEF StartTransmit, SenderInv, OnTime, Busy, InTime, SenderType
    <3>2. QED
      BY <3>1 DEF ReceiverInv, PacketStored
  <2>2. CASE ~StartTransmit
    BY <2>2 DEF Sender, SeesEmpty, ResetEmpty, fifoAdd, Finish, vars, sender
  <2>3. QED
    BY <2>1, <2>2
<1>4. PacketStored'
  BY <1>1, <1>3 DEF ReceiverInv, PacketStored, Receiving, Stored, receiver
<1>5. QED
  BY <1>2, <1>4 DEF ReceiverInv

(* With interrupts that are served in time, what a program gets when it is    *)
(* told that a packet is complete ("True when a complete packet is received", *)
(* SX127x.h:840) are the bytes of one packet, from the first to the last,     *)
(* whatever noise, later packets and restarts of the receiver come in         *)
(* between.                                                                   *)
THEOREM PacketsReadWhole ==
  ASSUME InTime
  PROVE  Spec => []ReceivedWhole
<1> DEFINE Inv == SenderType /\ SenderInv /\ ReceiverType /\ ReceiverInv
<1>1. Init => Inv
  BY SenderInit, ReceiverTypeInit, ReceiverInit
<1>2. Inv /\ [Next]_vars => Inv'
  <2> SUFFICES ASSUME Inv, [Next]_vars PROVE Inv'
    OBVIOUS
  <2>1. SenderType' /\ SenderInv' /\ ReceiverType'
    BY SenderStep, ReceiverTypeStep
  <2>2. ReceiverInv'
    BY InTime, ReceiverHears, ReceiverHearsNoise, ReceiverGets, ReceiverRestarts, ReceiverWaits
    DEF Next
  <2>3. QED
    BY <2>1, <2>2
<1>3. Inv => ReceivedWhole
  <2> SUFFICES ASSUME Inv, rxPc = "print"
               PROVE  \E p \in Packets : rxBuffer = [i \in 1 .. total |-> <<p, i>>]
    BY DEF ReceivedWhole
  <2>1. heard \in Packets /\ receivedLength = total /\ rxBuffer \in [1 .. total -> Byte]
    BY DEF ReceiverType, ReceiverInv, FlagMeansRead
  <2>2. \A i \in 1 .. total : rxBuffer[i] = <<heard, i>>
    BY <2>1 DEF ReceiverInv, PacketStored, FlagMeansRead, Receiving
  <2>3. QED
    BY <2>1, <2>2
<1>4. QED
  BY <1>1, <1>2, <1>3, PTL DEF Spec
=============================================================================
