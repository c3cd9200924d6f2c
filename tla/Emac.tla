-------------------------------- MODULE Emac --------------------------------
(***************************************************************************)
(* The TM4C1294 driver, tm4c_emac.c: the network thread, the interrupt and *)
(* the DMA of the chip on one receive and one transmit buffer.  "We tag    *)
(* each descriptor with the same buffer and will make sure we only hand    *)
(* the DMA one descriptor at a time."  A buffer is copied in two halves,   *)
(* by the DMA and by the thread, so that they may cross.                   *)
(***************************************************************************)
EXTENDS Naturals, Sequences

CONSTANTS
  NumDescriptors,  \* NUM_RX_DESCRIPTORS, NUM_TX_DESCRIPTORS
  MaxFrames        \* frames that come and that are sent: a bound

ASSUME EmacAssumption == NumDescriptors \in Nat \ {0} /\ MaxFrames \in Nat

VARIABLES
  rx,       \* rxDescriptor: own, stat; rxBuffer, rxDescIndex; the DMA: at, half, came
  tx,       \* txDescriptor: own; txBuffer, txDescIndex; the DMA: at, out; and sent
  irq,      \* the receive interrupt is pending
  giant,    \* uipGiant
  thread,   \* where the network thread is, and what it has copied of a frame
  above,    \* frames that tivaEmacPoll gave to the stack
  line      \* frames that went out

emacvars == <<rx, tx, irq, giant, thread, above, line>>

Descriptors == 0 .. NumDescriptors - 1
After(i) == (i + 1) % NumDescriptors
Empty == <<0, 0>>

\* tivaEmacInit, initDescriptors
EmacInit ==
  /\ rx = [own |-> [i \in Descriptors |-> i = 0], stat |-> [i \in Descriptors |-> "none"],
           buf |-> Empty, idx |-> 0, at |-> 0, half |-> FALSE, came |-> 0]
  /\ tx = [own |-> [i \in Descriptors |-> FALSE], buf |-> Empty,
           idx |-> NumDescriptors - 1, at |-> 0, out |-> 0, sent |-> 0]
  /\ irq = FALSE /\ giant = 0
  /\ thread = [pc |-> "wait", got |-> Empty]
  /\ above = <<>> /\ line = <<>>

-----------------------------------------------------------------------------
(* The chip *)

\* A frame comes: into the buffer, or nowhere when the next descriptor is not the DMA's.
FrameComes ==
  /\ rx.came < MaxFrames /\ ~rx.half
  /\ rx' = IF rx.own[rx.at]
             THEN [rx EXCEPT !.came = @ + 1, !.half = TRUE, !.buf[1] = rx.came + 1]
             ELSE [rx EXCEPT !.came = @ + 1]
  /\ UNCHANGED <<tx, irq, giant, thread, above, line>>

FrameCame ==
  /\ rx.half
  /\ \E stat \in {"good", "bad"} :
       rx' = [rx EXCEPT !.half = FALSE, !.buf[2] = rx.came, !.own[rx.at] = FALSE,
                        !.stat[rx.at] = stat, !.at = After(@)]
  /\ irq' = TRUE
  /\ UNCHANGED <<tx, giant, thread, above, line>>

\* ENET_Handler
ENET_Handler ==
  /\ irq /\ irq' = FALSE /\ giant' = giant + 1
  /\ UNCHANGED <<rx, tx, thread, above, line>>

FrameGoes ==
  /\ tx.own[tx.at]
  /\ IF tx.out = 0
       THEN tx' = [tx EXCEPT !.out = tx.buf[1]] /\ UNCHANGED line
       ELSE /\ tx' = [tx EXCEPT !.out = 0, !.own[tx.at] = FALSE, !.at = After(@)]
            /\ line' = Append(line, <<tx.out, tx.buf[2]>>)
  /\ UNCHANGED <<rx, irq, giant, thread, above>>

-----------------------------------------------------------------------------
(* The network thread *)

\* posSemaWait is over, or dataToSend or a timer has woken the thread: to
\* netInterfacePoll.
Wake ==
  /\ thread.pc = "wait"
  /\ giant' = IF giant > 0 THEN giant - 1 ELSE 0
  /\ thread' = [thread EXCEPT !.pc = "poll"]
  /\ UNCHANGED <<rx, tx, irq, above, line>>

\* The next descriptor, for the DMA to write into
Given == [rx EXCEPT !.idx = After(@), !.own[After(rx.idx)] = TRUE, !.stat[After(rx.idx)] = "none"]

\* Wrong: the next descriptor is given before the copy.
PollEarly ==
  /\ thread.pc = "poll"
  /\ IF rx.own[rx.idx] THEN thread' = [thread EXCEPT !.pc = "wait"] /\ UNCHANGED rx
     ELSE /\ rx' = Given
          /\ thread' = IF rx.stat[rx.idx] = "good" THEN [pc |-> "copy", got |-> <<rx.buf[1], 0>>]
                       ELSE [thread EXCEPT !.pc = "wait"]
  /\ UNCHANGED <<tx, irq, giant, above, line>>

\* tivaEmacPoll up to the first half of the copy
Poll ==
  /\ thread.pc = "poll"
  /\ IF rx.own[rx.idx]
       THEN thread' = [thread EXCEPT !.pc = "wait"] /\ UNCHANGED rx
     ELSE IF rx.stat[rx.idx] = "good"
       THEN thread' = [pc |-> "copy", got |-> <<rx.buf[1], 0>>] /\ UNCHANGED rx
     ELSE thread' = [thread EXCEPT !.pc = "wait"] /\ rx' = Given
  /\ UNCHANGED <<tx, irq, giant, above, line>>

Copied ==
  /\ thread.pc = "copy"
  /\ thread' = [thread EXCEPT !.pc = "give", !.got[2] = rx.buf[2]]
  /\ UNCHANGED <<rx, tx, irq, giant, above, line>>

\* The end of tivaEmacPoll, and netEthernetInput, which may answer
Give ==
  /\ thread.pc = "give"
  /\ rx' = Given
  /\ above' = Append(above, thread.got)
  /\ thread' = [thread EXCEPT !.pc = "wait"]
  /\ UNCHANGED <<tx, irq, giant, line>>

\* tivaEmacSend, once the descriptor of the previous packet is back
SendBegin ==
  /\ thread.pc = "wait" /\ tx.sent < MaxFrames
  /\ ~tx.own[tx.idx]
  /\ tx' = [tx EXCEPT !.buf[1] = tx.sent + 1]
  /\ thread' = [thread EXCEPT !.pc = "send"]
  /\ UNCHANGED <<rx, irq, giant, above, line>>

SendEnd ==
  /\ thread.pc = "send"
  /\ tx' = [tx EXCEPT !.buf[2] = tx.sent + 1, !.idx = After(@), !.own[After(tx.idx)] = TRUE,
                      !.sent = @ + 1]
  /\ thread' = [thread EXCEPT !.pc = "wait"]
  /\ UNCHANGED <<rx, irq, giant, above, line>>

EmacNext ==
  \/ FrameComes \/ FrameCame \/ ENET_Handler \/ FrameGoes
  \/ Wake \/ Poll \/ Copied \/ Give \/ SendBegin \/ SendEnd

EmacSpec == EmacInit /\ [][EmacNext]_emacvars

-----------------------------------------------------------------------------
(* Properties *)

\* Frames go up and out in one piece, in their order and once, though all descriptors
\* share a buffer; and while the thread waits, no frame lies in the buffer without an
\* interrupt or a count of uipGiant that will wake it (tivaEmacPoll, tivaEmacSend).
EmacIntact ==
  /\ \A i \in DOMAIN above : above[i][1] = above[i][2]
  /\ \A i \in DOMAIN above : i > 1 => above[i - 1][1] < above[i][1]
  /\ \A i \in DOMAIN line : line[i] = <<i, i>>
  /\ thread.pc = "wait" /\ giant = 0 /\ ~irq => rx.own[rx.idx]
=============================================================================
