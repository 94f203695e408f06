----------------------------- MODULE MCRecorder ----------------------------
(* Instances of Recorder for TLC.                                          *)
EXTENDS Recorder

MCFiles == 1 .. 2

\* Nothing is promised of a derailed recorder: TLC looks at how it derails,
\* and no further.
Followed == ~ derailed
=============================================================================
