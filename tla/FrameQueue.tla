----------------------------- MODULE FrameQueue -----------------------------
(***************************************************************************)
(* What the encoder promises about encoded frames on their way to the AVI  *)
(* packer (external): they wait in a queue that holds at most N of them    *)
(* together with the one the packer has, and are handed over one at a time *)
(* and in the order in which they were taken.  A frame is given up only to *)
(* make room for a newer one, when all N buffers hold frames.  The queue   *)
(* may break, and then does anything, until a new recording begins.        *)
(***************************************************************************)
EXTENDS Naturals, Sequences, SequencesExt, FiniteSets

CONSTANT N      \* the number of buffers, named 0 .. N-1; not 0

VARIABLES
  wait,         \* buffers whose frames wait, oldest first
  writing,      \* buffers whose frames the packer has not done with
  broken        \* the queue has broken

queueVars == <<wait, writing, broken>>

Init == wait = <<>> /\ writing = {} /\ broken = FALSE

\* A new frame waits, and goes to the packer at once if the packer is idle.
Finish(i) ==
  /\ i \notin Range(wait) \cup writing
  /\ \/ wait' = Append(wait, i) /\ UNCHANGED writing
     \/ wait = <<>> /\ writing = {} /\ writing' = {i} /\ UNCHANGED wait

\* The packer has done with a frame, and gets the next one that waits.
Written ==
  \/ writing' = {} /\ UNCHANGED wait
  \/ wait # <<>> /\ writing' = {Head(wait)} /\ wait' = Tail(wait)

Full == Len(wait) + Cardinality(writing) = N

GiveUp(k) ==
  /\ Full
  /\ wait' = RemoveAt(wait, k)
  /\ UNCHANGED writing

Works ==
  \/ \E i \in 0 .. N - 1 : Finish(i)
  \/ Written
  \/ \E k \in DOMAIN wait : GiveUp(k)

\* A new recording begins, with an empty queue that works.
Restart == wait' = <<>> /\ writing' = {} /\ broken' = FALSE

\* It begins too soon, or anything happens after that.
Break == broken' = TRUE

Next == (~ broken /\ Works /\ UNCHANGED broken) \/ Restart \/ Break

Spec == Init /\ [][Next]_queueVars
=============================================================================
