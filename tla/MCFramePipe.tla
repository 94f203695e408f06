---------------------------- MODULE MCFramePipe -----------------------------
(* Instances of FramePipe small enough for TLC.                            *)
EXTENDS FramePipe
=============================================================================
