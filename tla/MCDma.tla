------------------------------- MODULE MCDma --------------------------------
(* An instance of Dma small enough for TLC.                                *)
EXTENDS Dma

MCWaiters == {"flash", "nand", "other"}

\* The owner's channels and targets.
MCNumbers == 0 .. 1

MCSpec == DmaInit /\ [][DmaNext \/ OwnerActs(MCNumbers)]_dmaVars
=============================================================================
