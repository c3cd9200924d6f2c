------------------------------ MODULE Drivers -------------------------------
(***************************************************************************)
(* Three of the drivers of drivers/, of which a program is built with one. *)
(***************************************************************************)
EXTENDS Emac, Hdlc, Enc28j60

-----------------------------------------------------------------------------
(* Properties *)

\* Whichever of the three is built in, the frames that it gives to the stack are frames
\* that came, whole, in their order and once, while its interrupt, its DMA or its chip goes on
\* with the next one (tivaEmacPoll, hdlcPoll with pppInputAppend, enc28j60_Frame_Recv).
FramesIntact == EmacIntact /\ HdlcIntact /\ EncIntact
=============================================================================
