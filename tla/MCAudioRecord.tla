--------------------------- MODULE MCAudioRecord ----------------------------
(* Instances of AudioRecord small enough for TLC.                          *)
EXTENDS AudioRecord

MCWaiters == {"flash"}
=============================================================================
