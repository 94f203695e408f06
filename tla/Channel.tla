------------------------------ MODULE Channel ------------------------------
(***************************************************************************)
(* What a message queue of msg_manager.c promises its users: a bounded     *)
(* channel with one reader.  Messages accepted by a send come out once,    *)
(* unchanged, in the order of sending (an urgent message overtakes the     *)
(* waiting ones, never the one the reader has already been handed), and    *)
(* nothing comes out that was not sent.  The promise has an end: the       *)
(* channel may break, and what comes out of a broken one is anything.      *)
(***************************************************************************)
EXTENDS Naturals, Sequences

CONSTANTS
  Msgs,      \* the messages that can be sent
  Urgent,    \* those sent with MSG_PRI_URGENT
  Nothing,   \* not a message
  Capacity   \* how many messages the channel holds

VARIABLES
  chan,      \* the waiting messages, in the order they will be read
  hand,      \* the message the reader has been handed and not yet returned
  got,       \* what the last completed read returned
  broken     \* the channel has broken

chanVars == <<chan, hand, got, broken>>

Init ==
  /\ chan = <<>>
  /\ hand = Nothing
  /\ got = Nothing
  /\ broken = FALSE

\* A send succeeds: the message waits, or goes straight to a blocked reader.
Put(m) ==
  /\ Len(chan) < Capacity
  /\ \/ m \in Msgs \ Urgent /\ chan' = Append(chan, m) /\ UNCHANGED hand
     \/ m \in Urgent /\ chan' = <<m>> \o chan /\ UNCHANGED hand
     \/ chan = <<>> /\ hand = Nothing /\ hand' = m /\ UNCHANGED chan
  /\ UNCHANGED got

\* The reader takes the oldest waiting message off the channel ...
Take ==
  /\ hand = Nothing
  /\ chan # <<>>
  /\ hand' = Head(chan)
  /\ chan' = Tail(chan)
  /\ UNCHANGED got

\* ... and returns it to its caller.
Return ==
  /\ hand # Nothing
  /\ got' = hand
  /\ hand' = Nothing
  /\ UNCHANGED chan

\* The reader discards everything that waits.
Clear ==
  /\ chan' = <<>>
  /\ UNCHANGED <<hand, got>>

Works ==
  \/ \E m \in Msgs : Put(m)
  \/ Take
  \/ Return
  \/ Clear

\* The channel breaks, or does anything once it is broken.
Break == broken' = TRUE

Next == (Works /\ UNCHANGED broken) \/ Break

Spec == Init /\ [][Next]_chanVars

=============================================================================
