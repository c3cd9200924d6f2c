------------------------------ MODULE Enc28j60 ------------------------------
(***************************************************************************)
(* enc28j60_Init and enc28j60_Frame_Recv of enc28j60.c against the receive *)
(* buffer of the chip: a ring in which the chip writes frames, each after  *)
(* the address of the next one, as far as the read pointer ERXRDPT, while  *)
(* the network thread reads it over SPI.  Registers are of one byte: an    *)
(* address has a low and a high one.                                       *)
(***************************************************************************)
EXTENDS Naturals, Sequences

CONSTANTS
  RxSize,     \* of the ring, from RX_BUFFER_START = 0 to RX_BUFFER_END
  ByteMod,    \* values of a byte
  MaxLen,     \* data of a frame, at most, in places of the ring
  MaxArrived  \* frames that come: a bound

ASSUME EncAssumption ==
  /\ RxSize \in Nat /\ MaxLen \in Nat \ {0} /\ MaxLen + 1 < RxSize
  /\ ByteMod \in Nat /\ ByteMod * ByteMod >= RxSize /\ MaxArrived \in Nat

VARIABLES
  ring,     \* the buffer of the chip
  chip,     \* where it writes; ERXRDPT: rdpt, and what was written to its low byte; EPKTCNT,
            \* RXERIF, and the places that the frames of a full ring would have taken
  nextPkt,  \* ENC28J60_NextPacketPointer
  recv,     \* where the thread is in enc28j60_Frame_Recv, and the frame it reads
  arrived,  \* frames that came so far
  kept,     \* those of them that are in the ring and that the thread has not read
  stack     \* the frames that were given to the stack

encvars == <<ring, chip, nextPkt, recv, arrived, kept, stack>>

Lo(a) == a % ByteMod
Hi(a) == a \div ByteMod
Place(a, k) == (a + k) % RxSize

\* enc28j60_Init
ChipInit == [wr |-> 0, rdpt |-> 0, rdlo |-> 0, count |-> 0, error |-> FALSE, needs |-> 0]

EncInit ==
  /\ ring = [a \in 0 .. RxSize - 1 |-> 0]
  /\ chip = ChipInit /\ nextPkt = 0
  /\ recv = [pc |-> "out", at |-> 0] /\ arrived = 0 /\ kept = <<>> /\ stack = <<>>

-----------------------------------------------------------------------------
(* The chip.  ERXRDPT moves when its high byte is written; until then the  *)
(* low one waits in rdlo.                                                  *)

WriteLow(c, byte) == [c EXCEPT !.rdlo = byte]

\* Places that the chip may write: all before ERXRDPT
Room == (chip.rdpt + RxSize - chip.wr - 1) % RxSize

\* Places that hold frames which the thread has not read
Unread == IF kept = <<>> THEN 0 ELSE (chip.wr + RxSize - kept[1].at) % RxSize

Written(len) ==
  [a \in DOMAIN ring |->
     LET k == (a + RxSize - chip.wr) % RxSize
     IN IF k = 0 THEN Place(chip.wr, len + 2)
        ELSE IF k = 1 THEN len
        ELSE IF k <= len + 1 THEN arrived ELSE ring[a]]

\* A frame of len places: where the next one is, its length, and its data
FrameIn ==
  /\ arrived < MaxArrived /\ arrived' = arrived + 1
  /\ \E len \in 1 .. MaxLen :
       IF len + 2 > Room
         THEN /\ chip' = [chip EXCEPT !.error = TRUE, !.needs = Unread + len + 2]
              /\ UNCHANGED <<ring, kept>>
         ELSE /\ chip' = [chip EXCEPT !.wr = Place(@, len + 2), !.count = @ + 1]
              /\ ring' = Written(len)
              /\ kept' = Append(kept, [at |-> chip.wr, frame |-> arrived, len |-> len])
  /\ UNCHANGED <<nextPkt, recv, stack>>

-----------------------------------------------------------------------------
(* enc28j60_Frame_Recv *)

\* Wrong: the chip is reset, and ENC28J60_NextPacketPointer is not.
ResetChip == chip' = ChipInit /\ kept' = <<>> /\ UNCHANGED nextPkt

Reset == chip' = ChipInit /\ kept' = <<>> /\ nextPkt' = 0

\* After a receive error all is reset, and what the ring holds is lost.
RecvReset ==
  /\ recv.pc = "out" /\ chip.error
  /\ Reset
  /\ UNCHANGED <<ring, recv, arrived, stack>>

RecvHeader ==
  /\ recv.pc = "out" /\ ~chip.error /\ chip.count > 0
  /\ recv' = [pc |-> "data", at |-> nextPkt]
  /\ nextPkt' = ring[nextPkt]
  /\ UNCHANGED <<ring, chip, arrived, kept, stack>>

RecvData ==
  /\ recv.pc = "data"
  /\ LET len == ring[Place(recv.at, 1)]
     IN stack' = Append(stack, [data |-> [i \in 1 .. len |-> ring[Place(recv.at, i + 1)]],
                                was |-> kept[1]])
  /\ recv' = [recv EXCEPT !.pc = "free"]
  /\ UNCHANGED <<ring, chip, nextPkt, arrived, kept>>

\* Both bytes of the pointer are written to ERXRDPTL.
RecvFree ==
  /\ recv.pc = "free"
  /\ chip' = [WriteLow(WriteLow(chip, Lo(nextPkt)), Hi(nextPkt)) EXCEPT !.count = @ - 1]
  /\ recv' = [recv EXCEPT !.pc = "out"]
  /\ kept' = Tail(kept)
  /\ UNCHANGED <<ring, nextPkt, arrived, stack>>

EncNext == FrameIn \/ RecvReset \/ RecvHeader \/ RecvData \/ RecvFree

EncSpec == EncInit /\ [][EncNext]_encvars

-----------------------------------------------------------------------------
(* Properties *)

\* Each frame that is given to the stack is the oldest one in the ring, whole, while
\* frames come and errors reset the chip (enc28j60_Frame_Recv, enc28j60_Init).
EncIntact ==
  \A i \in DOMAIN stack : stack[i].data = [k \in 1 .. stack[i].was.len |-> stack[i].was.frame]

\* "Update the Receive Buffer Read Pointer to the Next Packet Pointer so we can free the
\* memory we read this frame from": the chip has no room for a frame only when frames
\* that have not been read fill its ring.
EncRoom == chip.error => chip.needs >= RxSize
=============================================================================
