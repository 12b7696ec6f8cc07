----------------------------- MODULE StreamFifo -----------------------------
(* Packets longer than the FIFO of an SX127x in FSK mode (SX127x.cpp:         *)
(* stageMode, fifoAdd, fifoGet), with the programs that send and receive them *)
(* (Stream_Transmit.ino, Stream_Receive.ino). The sender's interrupt sets a   *)
(* flag when the FIFO has run empty, and its loop adds the next chunk; the    *)
(* receiver's interrupt reads a chunk itself when the FIFO level exceeds the  *)
(* threshold. Both are raised by a rising edge of DIO1.                       *)
(*                                                                            *)
(* A byte is its place in a packet: <<p, i>> is the i-th byte of packet p.    *)
(* The receiver starts to store bytes at a sync word and goes on until it is  *)
(* restarted: a packet of unlimited length has no end for the chip.           *)
(*                                                                            *)
(* LengthKept, BeforeSubtraction, LastChunkAdded, NearlyAll and FifoKept are  *)
(* slips: they stand before the definitions that they would change.           *)
EXTENDS Integers, Sequences

CONSTANTS
  FifoSize,   \* RADIOLIB_SX127X_MAX_PACKET_LENGTH_FSK: 64
  Thresh,     \* RADIOLIB_SX127X_FIFO_THRESH: 31
  Totals,     \* totalLength of sender and receiver
  Lag,        \* bytes that may come in before the receiver's interrupt runs
  Prompt,     \* the sender's first fifoAdd comes before the first chunk is sent
  Quick       \* no byte comes in between the reset of receivedFlag and Rx mode

Chunk == Thresh - 1      \* bytes of the first burst, of fifoAdd and of fifoGet

ASSUME StreamAssumption ==
  /\ Thresh \in Nat /\ Chunk > 0 /\ FifoSize \in Nat
  /\ Thresh < FifoSize /\ 2 * Chunk <= FifoSize
  /\ Totals \subseteq {n \in Nat : n > FifoSize}
  /\ Lag \in Nat /\ Prompt \in BOOLEAN /\ Quick \in BOOLEAN

VARIABLES
  total,
  \* the sender
  txPc,
  fifoEmpty,          \* set by the interrupt
  remLength,
  mapped,             \* DIO1 is mapped to FIFO_EMPTY
  txFifo,             \* places in the packet
  packet, sent,       \* packet on the air, bytes of it that have been sent
  \* the receiver
  rxPc,
  receivedFlag, receivedLength, rxBuffer,
  rxFifo,
  irq,                \* its interrupt is pending
  heard               \* packet whose sync word was heard

sender   == <<txPc, fifoEmpty, remLength, mapped, txFifo, packet, sent>>
receiver == <<rxPc, receivedFlag, receivedLength, rxBuffer, rxFifo, irq, heard>>
vars == <<total, sender, receiver>>

Packets == 0 .. 2        \* numbered modulo 3
None == 3                \* waiting for a sync word
Noise == <<None, 0>>
Byte == (Packets \X Nat) \cup {Noise}

Init ==
  /\ total \in Totals
  /\ txPc = "start" /\ fifoEmpty = FALSE /\ remLength = total
  /\ mapped = FALSE /\ txFifo = <<>> /\ packet = 0 /\ sent = total
  /\ rxPc = "wait" /\ receivedFlag = FALSE /\ receivedLength = 0
  /\ rxBuffer = [i \in 1 .. total |-> Noise]
  /\ rxFifo = <<>> /\ irq = FALSE /\ heard = None

(* A FIFO takes what it has room for; the rest is an overrun.                 *)
Pushed(fifo, bytes) ==
  LET all == fifo \o bytes
  IN  SubSeq(all, 1, IF Len(all) < FifoSize THEN Len(all) ELSE FifoSize)

-----------------------------------------------------------------------------
(* The sender *)

(* clearIrqFlags empties the FIFO; with that, or with the mapping that        *)
(* follows, DIO1 rises unless it is high already.                             *)
DIO1High == mapped /\ txFifo = <<>>

StartTransmit ==
  /\ txPc = "start" /\ txPc' = "loop"
  /\ fifoEmpty' = (fifoEmpty \/ ~DIO1High)
  /\ mapped' = TRUE
  /\ txFifo' = [i \in 1 .. Chunk |-> i]
  /\ packet' = (packet + 1) % 3 /\ sent' = 0
  /\ UNCHANGED <<total, remLength, receiver>>

(* if(fifoEmpty) { fifoEmpty = false; ... *)
SeesEmpty ==
  /\ txPc = "loop" /\ fifoEmpty
  /\ txPc' = "reset"
  /\ UNCHANGED <<total, fifoEmpty, remLength, mapped, txFifo, packet, sent, receiver>>

ResetEmpty ==
  /\ txPc = "reset" /\ txPc' = "add"
  /\ fifoEmpty' = FALSE
  /\ UNCHANGED <<total, remLength, mapped, txFifo, packet, sent, receiver>>

(* data[totalLen - *remLen], after the subtraction *)
BeforeSubtraction(rem) == total - (rem + Chunk)
Position(rem) == total - rem

LastChunkAdded(rem) == rem <= Chunk
Complete(rem) == rem <= 0

fifoAdd ==
  /\ txPc = "add"
  /\ LET rem == remLength - Chunk
         len == IF rem < Chunk THEN rem ELSE Chunk
     IN  /\ remLength' = rem
         /\ IF Complete(rem)
            THEN txPc' = "done" /\ UNCHANGED txFifo
            ELSE /\ txPc' = "loop"
                 /\ txFifo' = Pushed(txFifo, [i \in 1 .. len |-> Position(rem) + i])
  /\ UNCHANGED <<total, fifoEmpty, mapped, packet, sent, receiver>>

(* if(transmittedFlag): remLength is set back and the radio put to standby.   *)
LengthKept == UNCHANGED remLength
LengthReset == remLength' = total

Finish ==
  /\ txPc = "done" /\ txPc' = "start"
  /\ LengthReset
  /\ UNCHANGED <<total, fifoEmpty, mapped, txFifo, packet, sent, receiver>>

-----------------------------------------------------------------------------
(* The air *)

(* A byte comes in unless the interrupt, or the program, is quicker.          *)
MayArrive ==
  /\ irq => Len(rxFifo) <= Thresh + Lag
  /\ Quick => rxPc \notin {"length", "restart"}

Stores(byte) ==
  /\ rxFifo' = Pushed(rxFifo, <<byte>>)
  /\ irq' = (irq \/ (Len(rxFifo) = Thresh /\ Len(rxFifo') > Thresh))

(* The packet begins with a sync word; a receiver that does not store bytes   *)
(* yet starts to. *)
SendByte ==
  /\ txPc # "start" /\ txFifo # <<>>
  /\ Prompt /\ Len(txFifo) = 1 => ~fifoEmpty /\ txPc \notin {"reset", "add"}
  /\ MayArrive
  /\ txFifo' = Tail(txFifo) /\ sent' = sent + 1
  /\ fifoEmpty' = (fifoEmpty \/ Len(txFifo) = 1)
  /\ heard' = IF heard = None /\ sent = 0 THEN packet ELSE heard
  /\ IF heard' # None
     THEN Stores(<<packet, Head(txFifo)>>)
     ELSE UNCHANGED <<rxFifo, irq>>
  /\ UNCHANGED <<total, txPc, remLength, mapped, packet>>
  /\ UNCHANGED <<rxPc, receivedFlag, receivedLength, rxBuffer>>

NoiseByte ==
  /\ txPc = "start" /\ heard # None
  /\ MayArrive
  /\ Stores(Noise)
  /\ UNCHANGED <<total, sender, rxPc, receivedFlag, receivedLength, rxBuffer, heard>>

-----------------------------------------------------------------------------
(* The receiver *)

NearlyAll(len) == len + Chunk >= total
AllReceived(len) == len >= total

(* fifoGet, in the interrupt; what is read of an empty FIFO has no meaning.   *)
fifoGet ==
  /\ irq /\ irq' = FALSE
  /\ LET left == total - receivedLength
         len == IF left < Chunk THEN left ELSE Chunk
         Read(i) == IF i <= Len(rxFifo) THEN rxFifo[i] ELSE Noise
     IN  /\ rxBuffer' = [i \in 1 .. total |->
                           IF i \in receivedLength + 1 .. receivedLength + len
                           THEN Read(i - receivedLength) ELSE rxBuffer[i]]
         /\ rxFifo' = SubSeq(rxFifo, len + 1, Len(rxFifo))
         /\ receivedLength' = receivedLength + len
         /\ receivedFlag' = AllReceived(receivedLength + len)
  /\ UNCHANGED <<total, sender, rxPc, heard>>

(* The program stands still while the interrupt is due.                       *)
ReportPacket ==
  /\ ~irq /\ rxPc = "wait" /\ receivedFlag
  /\ rxPc' = "print"
  /\ UNCHANGED <<total, sender, receivedFlag, receivedLength, rxBuffer, rxFifo, irq, heard>>

ResetFlag ==
  /\ ~irq /\ rxPc = "print" /\ rxPc' = "length"
  /\ receivedFlag' = FALSE
  /\ UNCHANGED <<total, sender, receivedLength, rxBuffer, rxFifo, irq, heard>>

ResetLength ==
  /\ ~irq /\ rxPc = "length" /\ rxPc' = "restart"
  /\ receivedLength' = 0
  /\ UNCHANGED <<total, sender, receivedFlag, rxBuffer, rxFifo, irq, heard>>

(* stageMode clears the flags, FIFO_OVERRUN among them, and with it the FIFO. *)
FifoKept == rxFifo' = rxFifo
FifoCleared == rxFifo' = <<>>

StartReceive ==
  /\ ~irq /\ rxPc = "restart" /\ rxPc' = "wait"
  /\ FifoCleared
  /\ heard' = None
  /\ UNCHANGED <<total, sender, receivedFlag, receivedLength, rxBuffer, irq>>

-----------------------------------------------------------------------------

Sender == StartTransmit \/ SeesEmpty \/ ResetEmpty \/ fifoAdd \/ Finish
Receiver == ReportPacket \/ ResetFlag \/ ResetLength \/ StartReceive

Next == Sender \/ SendByte \/ NoiseByte \/ fifoGet \/ Receiver

(* The loops run, the chip sends what it has, and a receiver between packets  *)
(* hears noise. *)
Spec == /\ Init /\ [][Next]_vars
        /\ WF_vars(Sender) /\ WF_vars(SendByte) /\ WF_vars(NoiseByte)
        /\ WF_vars(fifoGet) /\ WF_vars(Receiver)

-----------------------------------------------------------------------------
(* Properties *)

(* The counters keep their ranges: remLength ends less than a chunk below 0.  *)
TypeOK ==
  /\ total \in Totals
  /\ txPc \in {"start", "loop", "reset", "add", "done"}
  /\ {fifoEmpty, mapped, receivedFlag, irq} \subseteq BOOLEAN
  /\ remLength \in 1 - Chunk .. total
  /\ txFifo \in Seq(1 .. total) /\ Len(txFifo) <= FifoSize
  /\ packet \in Packets /\ sent \in 0 .. total
  /\ rxPc \in {"wait", "print", "length", "restart"}
  /\ receivedLength \in 0 .. total
  /\ rxBuffer \in [1 .. total -> Byte]
  /\ rxFifo \in Seq(Byte) /\ Len(rxFifo) <= FifoSize
  /\ heard \in Packets \cup {None}

(* The FIFO holds the bytes that follow those sent, none twice and none left  *)
(* out, although fifoAdd only counts what is left and may be called for a     *)
(* chunk that is still in the FIFO. *)
SentInOrder ==
  txPc # "start" => \A k \in 1 .. Len(txFifo) : txFifo[k] = sent + k

(* fifoAdd returns "True when a complete packet is sent" (SX127x.h:831).      *)
DoneMeansSent == txPc = "done" => sent = total

(* "Returns True when a complete packet is received" (SX127x.h:840): what the *)
(* program gets are the bytes of one packet, from the first to the last.      *)
ReceivedWhole ==
  rxPc = "print" => \E p \in Packets : rxBuffer = [i \in 1 .. total |-> <<p, i>>]

(* A packet whose sync word is heard is reported, though the last bytes raise *)
(* no interrupt of their own and the pin may stay high after them.            *)
Reported(p) == rxPc = "print" /\ rxBuffer[1] = <<p, 1>>
EveryPacketReported ==
  \A p \in Packets : rxPc = "wait" /\ heard = p ~> Reported(p)
=============================================================================
