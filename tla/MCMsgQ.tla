------------------------------ MODULE MCMsgQ -------------------------------
(* Instances of MsgQ for TLC.                                              *)
EXTENDS MsgQ

CONSTANTS t1, t2, m1, m2, m3

MCTasks == {t1, t2}
MCMsgs == {m1, m2, m3}
MCUrgent == {m3}
=============================================================================
