------------------------------ MODULE DmaProofs ------------------------------
(***************************************************************************)
(* Every task gets the answer to its own transfer, for any number of       *)
(* channels, queues and tasks, and whatever the owner of an occupied       *)
(* channel does meanwhile.                                                 *)
(***************************************************************************)
EXTENDS Dma, TLAPS

\* A queue that was just given to a task is empty: AnswersReach alone does
\* not say so, and the first answer would come too early.
StartsEmpty ==
  \A w \in Waiters : waiter[w].at = "starts" => driverQ[waiter[w].queue].msgs = <<>>

DmaInv == DmaTypeOK /\ StartsEmpty /\ AnswersReach

Normal(c) == channel[c].usage = "NORMAL"

\* What AnswersReach says of one task.
Served(w) ==
  /\ waiter[w].at = "pends" => AnswerComes(waiter[w].queue)
  /\ waiter[w].at = "strands" => NoAnswerComes(waiter[w].queue)

Calling == {"starts", "pends", "strands"}
-----------------------------------------------------------------------------
LEMMA DmaInitInv == DmaInit => DmaInv
<1> SUFFICES ASSUME DmaInit PROVE DmaInv
  OBVIOUS
<1>1. DmaTypeOK
  <2>1. channel \in ChannelType
    BY DEF DmaInit, ChannelType, Unused, NO_TARGET
  <2>2. driverQ \in [DriverQueues -> [used : BOOLEAN, msgs : Seq(Statuses)]]
    BY DEF DmaInit
  <2>3. waiter \in [Waiters -> [at : {"away"}, queue : {NoQueue}, notify : {"NULL", "local"}]]
    BY DEF DmaInit, Away
  <2> QED
    BY <2>1, <2>2, <2>3 DEF DmaTypeOK
<1>2. StartsEmpty
  BY DEF DmaInit, StartsEmpty, Away
<1>3. AnswersReach
  BY DmaAssumption DEF DmaInit, AnswersReach, QueuesOwned, TransfersAwaited, Away, Unused, DriverQueues, NO_TARGET
<1> QED
  BY <1>1, <1>2, <1>3 DEF DmaInv

(* What the invariant says of a task's queue.                              *)
LEMMA QueueOfWaiter ==
  ASSUME DmaInv, NEW w \in Waiters, waiter[w].at \in Calling
  PROVE  /\ waiter[w].queue \in DriverQueues
         /\ waiter[w].at # "away"
         /\ \A v \in Waiters : waiter[v].queue = waiter[w].queue => v = w
<1>1. waiter[w].at # "away"
  BY DEF Calling
<1>2. waiter[w].queue \in DriverQueues
  BY <1>1 DEF DmaInv, DmaTypeOK
<1>3. ASSUME NEW v \in Waiters, waiter[v].queue = waiter[w].queue PROVE v = w
  BY <1>1, <1>3 DEF DmaInv, AnswersReach, QueuesOwned
<1> QED
  BY <1>1, <1>2, <1>3

(* A task that is away has no queue, and one that is not is calling.       *)
LEMMA AwayOrCalling ==
  ASSUME DmaInv, NEW w \in Waiters
  PROVE  /\ waiter[w].at \in {"away"} \cup Calling
         /\ waiter[w].at = "away" <=> waiter[w].queue = NoQueue
         /\ NoQueue \notin DriverQueues
  BY DmaAssumption DEF DmaInv, DmaTypeOK, Calling, DriverQueues

(* What a step that takes no channel keeps for the tasks it does not touch.*)
LEMMA OthersServed ==
  ASSUME DmaInv, NEW v \in Waiters, waiter'[v].at = waiter[v].at,
         waiter'[v].queue = waiter[v].queue,
         waiter[v].at \in Calling => /\ driverQ'[waiter[v].queue] = driverQ[waiter[v].queue]
                                     /\ Transfers(waiter[v].queue)' = Transfers(waiter[v].queue)
  PROVE  Served(v)'
<1>1. Served(v)
  BY DEF DmaInv, AnswersReach, Served
<1>2. CASE waiter[v].at \in Calling
  BY <1>1, <1>2 DEF Served, AnswerComes, NoAnswerComes
<1>3. CASE waiter[v].at \notin Calling
  BY <1>3 DEF Served, Calling
<1> QED
  BY <1>2, <1>3

(* A step that leaves the tasks' transfers alone keeps the invariant.      *)
LEMMA NormalKept ==
  ASSUME DmaInv, channel' \in ChannelType,
         \A c \in Channels : Normal(c)' <=> Normal(c),
         \A c \in Channels : Normal(c) => channel'[c] = channel[c],
         UNCHANGED <<driverQ, waiter>>
  PROVE  DmaInv'
<1>1. DmaTypeOK'
  BY DEF DmaInv, DmaTypeOK
<1>2. StartsEmpty' /\ QueuesOwned'
  BY DEF DmaInv, StartsEmpty, AnswersReach, QueuesOwned
<1>3. TransfersAwaited'
  BY DEF DmaInv, AnswersReach, TransfersAwaited, Normal
<1>4. ASSUME NEW w \in Waiters PROVE Served(w)'
  <2>1. Transfers(waiter[w].queue)' = Transfers(waiter[w].queue)
    BY DEF Transfers, Normal
  <2> QED
    BY <2>1, OthersServed
<1> QED
  BY <1>1, <1>2, <1>3, <1>4 DEF DmaInv, AnswersReach, Served
-----------------------------------------------------------------------------
(* dma_get_queue: the queue was nobody's, so nobody's answer is in it.     *)
LEMMA GetQueueInv ==
  ASSUME DmaInv, NEW w \in Waiters, GetQueue(w)
  PROVE  DmaInv'
<1>1. waiter[w].at = "away" /\ waiter[w].queue = NoQueue /\ channel' = channel
  BY AwayOrCalling DEF GetQueue
<1>2. CASE waiter' = [waiter EXCEPT ![w].notify = "local"] /\ UNCHANGED driverQ
  <2>1. \A v \in Waiters : waiter'[v].at = waiter[v].at /\ waiter'[v].queue = waiter[v].queue
    BY <1>2 DEF DmaInv, DmaTypeOK
  <2>2. waiter' \in [Waiters ->
          [at : {"away"}, queue : {NoQueue}, notify : {"NULL", "local"}] \cup
          [at : {"starts", "pends", "strands"}, queue : DriverQueues, notify : {"local"}]]
    BY <1>2 DEF DmaInv, DmaTypeOK
  <2>3. DmaTypeOK'
    BY <1>1, <1>2, <2>2 DEF DmaInv, DmaTypeOK, ChannelType
  <2>4. StartsEmpty'
    BY <1>2, <2>1 DEF DmaInv, StartsEmpty
  <2>5. QueuesOwned'
    BY <1>2, <2>1 DEF DmaInv, AnswersReach, QueuesOwned
  <2>6. TransfersAwaited'
    BY <1>1, <2>1 DEF DmaInv, AnswersReach, TransfersAwaited
  <2>7. \A v \in Waiters : Served(v)'
    BY <1>1, <1>2, <2>1, OthersServed DEF Transfers
  <2> QED
    BY <2>3, <2>4, <2>5, <2>6, <2>7 DEF DmaInv, AnswersReach, Served
<1>3. ASSUME NEW k \in DriverQueues, ~ driverQ[k].used,
             driverQ' = [driverQ EXCEPT ![k] = [used |-> TRUE, msgs |-> <<>>]],
             waiter' = [waiter EXCEPT ![w] = [at |-> "starts", queue |-> k,
                                              notify |-> "local"]]
      PROVE  DmaInv'
  <2>1. \A v \in Waiters : waiter[v].queue # k
    BY <1>3 DEF DmaInv, AnswersReach, QueuesOwned
  <2>2. /\ \A v \in Waiters : v # w => waiter'[v] = waiter[v]
        /\ waiter'[w] = [at |-> "starts", queue |-> k, notify |-> "local"]
    BY <1>3 DEF DmaInv, DmaTypeOK
  <2>3. \A j \in DriverQueues : /\ driverQ'[j].used <=> j = k \/ driverQ[j].used
                                /\ j # k => driverQ'[j] = driverQ[j]
                                /\ j = k => driverQ'[j].msgs = <<>>
    BY <1>3 DEF DmaInv, DmaTypeOK
  <2>4. DmaTypeOK'
    BY <1>1, <1>3 DEF DmaInv, DmaTypeOK, ChannelType
  <2>5. StartsEmpty'
    <3> SUFFICES ASSUME NEW v \in Waiters, waiter'[v].at = "starts"
                 PROVE  driverQ'[waiter'[v].queue].msgs = <<>>
      BY DEF StartsEmpty
    <3>1. CASE v = w
      BY <2>2, <2>3, <3>1
    <3>2. CASE v # w
      <4>1. waiter'[v] = waiter[v] /\ waiter[v].queue \in DriverQueues
        BY <2>2, <3>2, QueueOfWaiter DEF Calling
      <4> QED
        BY <2>1, <2>3, <4>1 DEF DmaInv, StartsEmpty
    <3> QED
      BY <3>1, <3>2
  <2>6. QueuesOwned'
    <3>1. waiter[w].queue \notin DriverQueues
      BY <1>1, AwayOrCalling
    <3>2. \A j \in DriverQueues :
            driverQ'[j].used <=> \E v \in Waiters : waiter'[v].queue = j
      BY <2>2, <2>3, <3>1 DEF DmaInv, AnswersReach, QueuesOwned
    <3>3. \A u, v \in Waiters : waiter'[u].queue = waiter'[v].queue =>
            u = v \/ waiter'[v].at = "away"
      <4> SUFFICES ASSUME NEW u \in Waiters, NEW v \in Waiters, u # v,
                          waiter'[u].queue = waiter'[v].queue
                   PROVE  waiter'[v].at = "away"
        OBVIOUS
      <4>1. u # w /\ v # w
        BY <2>1, <2>2
      <4> QED
        BY <2>2, <4>1 DEF DmaInv, AnswersReach, QueuesOwned
    <3> QED
      BY <3>2, <3>3 DEF QueuesOwned
  <2>7. TransfersAwaited'
    BY <1>1, <2>2 DEF DmaInv, AnswersReach, TransfersAwaited
  <2>8. ASSUME NEW v \in Waiters PROVE Served(v)'
    <3>1. CASE v = w
      BY <2>2, <3>1 DEF Served
    <3>2. CASE v # w
      <4>1. waiter'[v] = waiter[v]
        BY <2>2, <3>2
      <4>2. waiter[v].at \in Calling => /\ driverQ'[waiter[v].queue] = driverQ[waiter[v].queue]
                                        /\ Transfers(waiter[v].queue)' = Transfers(waiter[v].queue)
        BY <1>1, <2>1, <2>3, <4>1, QueueOfWaiter DEF Transfers
      <4> QED
        BY <4>1, <4>2, OthersServed
    <3> QED
      BY <3>1, <3>2
  <2> QED
    BY <2>4, <2>5, <2>6, <2>7, <2>8 DEF DmaInv, AnswersReach, Served
<1> QED
  BY <1>2, <1>3 DEF GetQueue

(* A task that goes away gives its queue back, whose transfer, if there    *)
(* was one, is over.                                                       *)
LEMMA LeaveInv ==
  ASSUME DmaInv, NEW w \in Waiters, waiter[w].at \in Calling,
         Transfers(waiter[w].queue) = {},
         NEW q \in Seq(Statuses),
         driverQ' = [driverQ EXCEPT ![waiter[w].queue] = [used |-> FALSE, msgs |-> q]],
         waiter' = [waiter EXCEPT ![w] = Away],
         UNCHANGED channel
  PROVE  DmaInv'
<1> DEFINE k == waiter[w].queue
<1>1. /\ k \in DriverQueues
      /\ \A v \in Waiters : waiter[v].queue = k => v = w
  BY QueueOfWaiter
<1>2. /\ \A v \in Waiters : v # w => waiter'[v] = waiter[v] /\ waiter[v].queue # k
      /\ waiter'[w] = Away
      /\ Away.queue \notin DriverQueues /\ Away.at = "away"
  BY <1>1, DmaAssumption DEF DmaInv, DmaTypeOK, Away, DriverQueues
<1>3. \A j \in DriverQueues : j # k => driverQ'[j] = driverQ[j]
  BY <1>1 DEF DmaInv, DmaTypeOK
<1>4. ~ driverQ'[k].used
  BY <1>1 DEF DmaInv, DmaTypeOK
<1>5. DmaTypeOK'
  BY <1>1 DEF DmaInv, DmaTypeOK, ChannelType, Away
<1>6. StartsEmpty'
  <2> SUFFICES ASSUME NEW v \in Waiters, waiter'[v].at = "starts"
               PROVE  driverQ'[waiter'[v].queue].msgs = <<>>
    BY DEF StartsEmpty
  <2>1. v # w
    BY <1>2
  <2>2. waiter[v].queue \in DriverQueues
    BY <1>2, <2>1, QueueOfWaiter DEF Calling
  <2> QED
    BY <1>2, <1>3, <2>1, <2>2 DEF DmaInv, StartsEmpty
<1>7. QueuesOwned'
  <2>1. \A j \in DriverQueues :
          driverQ'[j].used <=> \E v \in Waiters : waiter'[v].queue = j
    BY <1>2, <1>3, <1>4 DEF DmaInv, AnswersReach, QueuesOwned
  <2>2. \A u, v \in Waiters : waiter'[u].queue = waiter'[v].queue =>
          u = v \/ waiter'[v].at = "away"
    <3> SUFFICES ASSUME NEW u \in Waiters, NEW v \in Waiters, u # v, v # w,
                        waiter'[u].queue = waiter'[v].queue
                 PROVE  waiter'[v].at = "away"
      BY <1>2
    <3>1. CASE u = w
      BY <1>2, <3>1, AwayOrCalling, QueueOfWaiter
    <3>2. CASE u # w
      BY <1>2, <3>2 DEF DmaInv, AnswersReach, QueuesOwned
    <3> QED
      BY <3>1, <3>2
  <2> QED
    BY <2>1, <2>2 DEF QueuesOwned
<1>8. TransfersAwaited'
  <2> SUFFICES ASSUME NEW c \in Channels, channel[c].usage = "NORMAL"
               PROVE  /\ channel[c].runs
                      /\ \/ channel[c].notify = NoQueue
                         \/ \E v \in Waiters : /\ waiter'[v].at = "pends"
                                               /\ waiter'[v].queue = channel[c].notify
    BY DEF TransfersAwaited
  <2>1. channel[c].notify # k
    BY DEF Transfers
  <2>2. channel[c].runs
    BY DEF DmaInv, AnswersReach, TransfersAwaited
  <2>3. CASE channel[c].notify # NoQueue
    <3>1. PICK v \in Waiters : waiter[v].at = "pends" /\ waiter[v].queue = channel[c].notify
      BY <2>3 DEF DmaInv, AnswersReach, TransfersAwaited
    <3>2. v # w
      BY <2>1, <3>1
    <3> QED
      BY <1>2, <2>2, <3>1, <3>2
  <2> QED
    BY <2>2, <2>3
<1>9. ASSUME NEW v \in Waiters PROVE Served(v)'
  <2>1. CASE v = w
    BY <1>2, <2>1 DEF Served
  <2>2. CASE v # w
    <3>1. waiter'[v] = waiter[v]
      BY <1>2, <2>2
    <3>2. waiter[v].at \in Calling => /\ driverQ'[waiter[v].queue] = driverQ[waiter[v].queue]
                                      /\ Transfers(waiter[v].queue)' = Transfers(waiter[v].queue)
      BY <1>2, <1>3, <2>2, QueueOfWaiter DEF Transfers
    <3> QED
      BY <3>1, <3>2, OthersServed
  <2> QED
    BY <2>1, <2>2
<1> QED
  BY <1>5, <1>6, <1>7, <1>8, <1>9 DEF DmaInv, AnswersReach, Served

LEMMA QueueGivenBack ==
  ASSUME NEW q \in [used : BOOLEAN, msgs : Seq(Statuses)], q.msgs = <<>>,
         NEW used \in BOOLEAN
  PROVE  [q EXCEPT !.used = used] = [used |-> used, msgs |-> <<>>]
  OBVIOUS

(* Nothing runs yet for a task that has just got its queue.                *)
LEMMA StartsAlone ==
  ASSUME DmaInv, NEW w \in Waiters, waiter[w].at = "starts"
  PROVE  /\ waiter[w].queue \in DriverQueues
         /\ \A v \in Waiters : waiter[v].queue = waiter[w].queue => v = w
         /\ Transfers(waiter[w].queue) = {}
         /\ driverQ[waiter[w].queue].msgs = <<>>
         /\ driverQ[waiter[w].queue].used \in BOOLEAN
<1>1. /\ waiter[w].queue \in DriverQueues
      /\ \A v \in Waiters : waiter[v].queue = waiter[w].queue => v = w
  BY QueueOfWaiter DEF Calling
<1>2. Transfers(waiter[w].queue) = {}
  BY <1>1, AwayOrCalling DEF DmaInv, AnswersReach, TransfersAwaited, Transfers
<1>3. driverQ[waiter[w].queue].msgs = <<>> /\ driverQ[waiter[w].queue].used \in BOOLEAN
  BY <1>1 DEF DmaInv, DmaTypeOK, StartsEmpty
<1> QED
  BY <1>1, <1>2, <1>3

LEMMA StartRefusedInv ==
  ASSUME DmaInv, NEW w \in Waiters, StartRefused(w)
  PROVE  DmaInv'
<1> DEFINE k == waiter[w].queue
<1>1. waiter[w].at = "starts"
  BY DEF StartRefused
<1>2. driverQ' = [driverQ EXCEPT ![k] = [used |-> FALSE, msgs |-> <<>>]]
  <2>1. driverQ[k] \in [used : BOOLEAN, msgs : Seq(Statuses)]
    BY <1>1, StartsAlone DEF DmaInv, DmaTypeOK
  <2>2. [driverQ[k] EXCEPT !.used = FALSE] = [used |-> FALSE, msgs |-> <<>>]
    BY <1>1, <2>1, StartsAlone, QueueGivenBack
  <2> QED
    BY <2>2 DEF StartRefused
<1>3. <<>> \in Seq(Statuses)
  OBVIOUS
<1> QED
  BY <1>1, <1>2, <1>3, StartsAlone, LeaveInv DEF StartRefused, Calling

(* A task that starts pends with its queue, and nothing else has changed   *)
(* but the channel it has got, if it has got one.                          *)
LEMMA PendsInv ==
  ASSUME DmaInv, NEW w \in Waiters, waiter[w].at = "starts",
         NEW at \in {"pends", "strands"},
         waiter' = [waiter EXCEPT ![w].at = at], UNCHANGED driverQ,
         channel' \in ChannelType,
         \A c \in Channels : Normal(c) => channel'[c] = channel[c],
         \A c \in Channels : Normal(c)' /\ ~ Normal(c) =>
           channel'[c].runs /\ at = "pends" /\ channel'[c].notify = waiter[w].queue,
         at = "strands" => \A c \in Channels : Normal(c)' => Normal(c),
         at = "pends" => \E c \in Channels :
           /\ Normal(c)' /\ ~ Normal(c)
           /\ \A d \in Channels : Normal(d)' /\ ~ Normal(d) => d = c
  PROVE  DmaInv'
<1> DEFINE k == waiter[w].queue
<1>1. /\ k \in DriverQueues
      /\ \A v \in Waiters : waiter[v].queue = k => v = w
      /\ Transfers(k) = {} /\ driverQ[k].msgs = <<>>
  BY StartsAlone
<1>2. /\ waiter'[w].at = at /\ waiter'[w].queue = k
      /\ \A v \in Waiters : v # w => waiter'[v] = waiter[v]
  BY <1>1 DEF DmaInv, DmaTypeOK
<1>3. DmaTypeOK'
  <2>1. waiter[w] \in [at : {"starts", "pends", "strands"}, queue : DriverQueues,
                       notify : {"local"}]
    BY DEF DmaInv, DmaTypeOK
  <2>2. [waiter[w] EXCEPT !.at = at] \in [at : {"starts", "pends", "strands"},
                                          queue : DriverQueues, notify : {"local"}]
    BY <2>1
  <2>3. waiter' \in [Waiters ->
          [at : {"away"}, queue : {NoQueue}, notify : {"NULL", "local"}] \cup
          [at : {"starts", "pends", "strands"}, queue : DriverQueues, notify : {"local"}]]
    BY <2>2 DEF DmaInv, DmaTypeOK
  <2> QED
    BY <2>3 DEF DmaInv, DmaTypeOK, ChannelType
<1>4. StartsEmpty'
  BY <1>2 DEF DmaInv, StartsEmpty
<1>5. QueuesOwned'
  <2>1. \A v \in Waiters : waiter'[v].queue = waiter[v].queue
    BY <1>2
  <2>2. \A u, v \in Waiters : waiter'[u].queue = waiter'[v].queue =>
          u = v \/ waiter'[v].at = "away"
    BY <1>1, <1>2, <2>1 DEF DmaInv, AnswersReach, QueuesOwned
  <2> QED
    BY <2>1, <2>2 DEF DmaInv, AnswersReach, QueuesOwned
<1>6. TransfersAwaited'
  <2> SUFFICES ASSUME NEW c \in Channels, Normal(c)'
               PROVE  /\ channel'[c].runs
                      /\ \/ channel'[c].notify = NoQueue
                         \/ \E v \in Waiters : /\ waiter'[v].at = "pends"
                                               /\ waiter'[v].queue = channel'[c].notify
    BY DEF TransfersAwaited, Normal
  <2>1. CASE Normal(c)
    BY <1>2, <2>1 DEF DmaInv, AnswersReach, TransfersAwaited, Normal
  <2>2. CASE ~ Normal(c)
    BY <1>2, <2>2
  <2> QED
    BY <2>1, <2>2
<1>7. Transfers(k)' = {c \in Channels : Normal(c)' /\ ~ Normal(c)}
  BY <1>1, <1>2 DEF Transfers, Normal
<1>8. ASSUME NEW v \in Waiters PROVE Served(v)'
  <2>1. CASE v = w /\ at = "pends"
    <3>1. PICK c \in Channels : /\ Normal(c)' /\ ~ Normal(c)
                                /\ \A d \in Channels : Normal(d)' /\ ~ Normal(d) => d = c
      BY <2>1
    <3>2. Transfers(k)' = {c}
      BY <1>7, <3>1
    <3> QED
      BY <1>1, <1>2, <2>1, <3>2 DEF Served, AnswerComes, Transfers
  <2>2. CASE v = w /\ at = "strands"
    BY <1>1, <1>2, <1>7, <2>2 DEF Served, NoAnswerComes, Transfers
  <2>3. CASE v # w
    <3>1. waiter'[v] = waiter[v]
      BY <1>2, <2>3
    <3>2. waiter[v].at \in Calling => /\ driverQ'[waiter[v].queue] = driverQ[waiter[v].queue]
                                      /\ Transfers(waiter[v].queue)' = Transfers(waiter[v].queue)
      BY <1>1, <1>2, <2>3, <3>1 DEF Transfers, Normal
    <3> QED
      BY <3>1, <3>2, OthersServed
  <2> QED
    BY <2>1, <2>2, <2>3
<1> QED
  BY <1>3, <1>4, <1>5, <1>6, <1>8 DEF DmaInv, AnswersReach, Served

LEMMA StartEmptyInv ==
  ASSUME DmaInv, NEW w \in Waiters, StartEmpty(w)
  PROVE  DmaInv'
<1>1. channel' \in ChannelType
  BY DEF StartEmpty, DmaInv, DmaTypeOK
<1> QED
  BY <1>1, PendsInv DEF StartEmpty, Normal

(* A channel that is taken for a transfer.                                 *)
LEMMA ChannelTaken ==
  ASSUME DmaInv, NEW internal \in BOOLEAN, NEW c \in GetChannel(internal),
         NEW k \in DriverQueues \cup {NoQueue},
         channel' = TransferExtend(c, "NORMAL", k, NO_TARGET)
  PROVE  /\ channel' \in ChannelType
         /\ c \in Channels /\ ~ Normal(c) /\ Normal(c)'
         /\ channel'[c].notify = k /\ channel'[c].runs
         /\ \A d \in Channels : d # c => channel'[d] = channel[d]
  BY DEF GetChannel, TransferExtend, Normal, NO_TARGET, DmaInv, DmaTypeOK, ChannelType

LEMMA StartTransferInv ==
  ASSUME DmaInv, NEW w \in Waiters, StartTransfer(w)
  PROVE  DmaInv'
<1>1. /\ waiter[w].at = "starts"
      /\ waiter' = [waiter EXCEPT ![w].at = "pends"]
      /\ UNCHANGED driverQ
  BY DEF StartTransfer
<1>2. PICK internal \in BOOLEAN : \E c \in GetChannel(internal) :
        channel' = TransferExtend(c, "NORMAL", waiter[w].queue, NO_TARGET)
  BY DEF StartTransfer
<1>3. waiter[w].queue \in DriverQueues
  BY <1>1, StartsAlone
<1>7. PICK c \in GetChannel(internal) :
        channel' = TransferExtend(c, "NORMAL", waiter[w].queue, NO_TARGET)
  BY <1>2
<1>4. /\ channel' \in ChannelType
      /\ c \in Channels /\ ~ Normal(c) /\ Normal(c)'
      /\ channel'[c].notify = waiter[w].queue /\ channel'[c].runs
      /\ \A d \in Channels : d # c => channel'[d] = channel[d]
  BY <1>3, <1>7, ChannelTaken
<1>5. \A d \in Channels : Normal(d) => channel'[d] = channel[d]
  BY <1>4
<1>6. \A d \in Channels : Normal(d)' /\ ~ Normal(d) => d = c
  BY <1>4 DEF Normal
<1> QED
  BY <1>1, <1>4, <1>5, <1>6, PendsInv

(* dma_transfer: a channel is taken that will post to nobody.              *)
LEMMA TransferInv ==
  ASSUME DmaInv, Transfer
  PROVE  DmaInv'
<1>1. UNCHANGED <<driverQ, waiter>>
  BY DEF Transfer
<1>2. PICK internal \in BOOLEAN : \E c \in GetChannel(internal) :
        channel' = TransferExtend(c, "NORMAL", NoQueue, NO_TARGET)
  BY DEF Transfer
<1>8. PICK c \in GetChannel(internal) :
        channel' = TransferExtend(c, "NORMAL", NoQueue, NO_TARGET)
  BY <1>2
<1>3. /\ channel' \in ChannelType
      /\ c \in Channels /\ ~ Normal(c) /\ Normal(c)'
      /\ channel'[c].notify = NoQueue /\ channel'[c].runs
      /\ \A d \in Channels : d # c => channel'[d] = channel[d]
  BY <1>8, ChannelTaken
<1>4. DmaTypeOK'
  BY <1>1, <1>3 DEF DmaInv, DmaTypeOK
<1>5. StartsEmpty' /\ QueuesOwned'
  BY <1>1 DEF DmaInv, StartsEmpty, AnswersReach, QueuesOwned
<1>6. TransfersAwaited'
  BY <1>1, <1>3 DEF DmaInv, AnswersReach, TransfersAwaited
<1>7. ASSUME NEW v \in Waiters PROVE Served(v)'
  <2>1. waiter[v].at \in Calling => Transfers(waiter[v].queue)' = Transfers(waiter[v].queue)
    BY <1>1, <1>3, QueueOfWaiter, AwayOrCalling DEF Transfers, Normal
  <2> QED
    BY <1>1, <2>1, OthersServed
<1> QED
  BY <1>4, <1>5, <1>6, <1>7 DEF DmaInv, AnswersReach, Served

(* OSQPend returns in dma_transfer_wait_ready.                             *)
LEMMA EndTransferInv ==
  ASSUME DmaInv, NEW w \in Waiters, EndTransfer(w)
  PROVE  DmaInv'
<1> DEFINE k == waiter[w].queue
<1>1. /\ waiter[w].at \in {"pends", "strands"} /\ driverQ[k].msgs # <<>>
      /\ waiter' = [waiter EXCEPT ![w] = Away]
      /\ driverQ' = [driverQ EXCEPT ![k] = [used |-> FALSE, msgs |-> Tail(@.msgs)]]
      /\ UNCHANGED channel
  BY DEF EndTransfer
<1>2. k \in DriverQueues
  BY <1>1, QueueOfWaiter DEF Calling
<1>3. Transfers(k) = {}
  BY <1>1 DEF DmaInv, AnswersReach, AnswerComes, NoAnswerComes
<1>4. Tail(driverQ[k].msgs) \in Seq(Statuses)
  BY <1>1, <1>2 DEF DmaInv, DmaTypeOK
<1>5. driverQ' = [driverQ EXCEPT ![k] = [used |-> FALSE, msgs |-> Tail(driverQ[k].msgs)]]
  BY <1>1
<1> QED
  BY <1>1, <1>3, <1>4, <1>5, LeaveInv DEF Calling

(* dma_isr posts to the one task that waits for the channel, if one does.  *)
LEMMA IsrNormalInv ==
  ASSUME DmaInv, NEW c \in Channels, NEW status \in Statuses, IsrNormal(c, status)
  PROVE  DmaInv'
<1> DEFINE k == channel[c].notify
<1>1. /\ channel[c].usage = "NORMAL"
      /\ driverQ' = Posted(k, status)
      /\ channel' = [channel EXCEPT ![c] = Unused]
      /\ waiter' = waiter
  BY DEF IsrNormal
<1>2. /\ channel'[c].usage = "NOT_USED"
      /\ \A d \in Channels : d # c => channel'[d] = channel[d]
      /\ channel' \in ChannelType
  BY <1>1 DEF DmaInv, DmaTypeOK, ChannelType, Unused, NO_TARGET
<1>3. TransfersAwaited'
  BY <1>1, <1>2 DEF DmaInv, AnswersReach, TransfersAwaited
<1>4. CASE k = NoQueue
  <2>1. driverQ' = driverQ
    BY <1>1, <1>4, DmaAssumption DEF Posted, DriverQueues
  <2>2. DmaTypeOK'
    BY <1>1, <1>2, <2>1 DEF DmaInv, DmaTypeOK
  <2>3. StartsEmpty' /\ QueuesOwned'
    BY <1>1, <2>1 DEF DmaInv, StartsEmpty, AnswersReach, QueuesOwned
  <2>4. ASSUME NEW v \in Waiters PROVE Served(v)'
    <3>1. waiter[v].at \in Calling => Transfers(waiter[v].queue)' = Transfers(waiter[v].queue)
      BY <1>1, <1>2, <1>4, QueueOfWaiter, AwayOrCalling DEF Transfers
    <3> QED
      BY <1>1, <2>1, <3>1, OthersServed
  <2> QED
    BY <1>3, <2>2, <2>3, <2>4 DEF DmaInv, AnswersReach, Served
<1>5. CASE k # NoQueue
  <2>1. PICK w \in Waiters : waiter[w].at = "pends" /\ waiter[w].queue = k
    BY <1>1, <1>5 DEF DmaInv, AnswersReach, TransfersAwaited
  <2>2. /\ k \in DriverQueues
        /\ \A v \in Waiters : waiter[v].queue = k => v = w
    BY <2>1, QueueOfWaiter DEF Calling
  <2>3. driverQ[k].msgs = <<>> /\ Transfers(k) = {c}
    <3>1. c \in Transfers(k)
      BY <1>1 DEF Transfers
    <3> QED
      BY <2>1, <3>1 DEF DmaInv, AnswersReach, AnswerComes
  <2>4. driverQ' = [driverQ EXCEPT ![k].msgs = <<status>>]
    BY <1>1, <2>2, <2>3 DEF Posted
  <2>5. /\ driverQ'[k].msgs = <<status>>
        /\ \A j \in DriverQueues : driverQ'[j].used = driverQ[j].used
        /\ \A j \in DriverQueues : j # k => driverQ'[j] = driverQ[j]
    BY <2>2, <2>4 DEF DmaInv, DmaTypeOK
  <2>6. DmaTypeOK'
    <3>1. driverQ[k] \in [used : BOOLEAN, msgs : Seq(Statuses)]
      BY <2>2 DEF DmaInv, DmaTypeOK
    <3>2. <<status>> \in Seq(Statuses)
      OBVIOUS
    <3>3. [driverQ[k] EXCEPT !.msgs = <<status>>] \in [used : BOOLEAN, msgs : Seq(Statuses)]
      BY <3>1, <3>2
    <3>4. driverQ' \in [DriverQueues -> [used : BOOLEAN, msgs : Seq(Statuses)]]
      BY <2>2, <2>4, <3>3 DEF DmaInv, DmaTypeOK
    <3> QED
      BY <1>1, <1>2, <3>4 DEF DmaInv, DmaTypeOK
  <2>7. StartsEmpty'
    <3> SUFFICES ASSUME NEW v \in Waiters, waiter[v].at = "starts"
                 PROVE  driverQ'[waiter[v].queue].msgs = <<>>
      BY <1>1 DEF StartsEmpty
    <3>1. waiter[v].queue \in DriverQueues /\ waiter[v].queue # k
      BY <2>1, <2>2, QueueOfWaiter DEF Calling
    <3> QED
      BY <2>5, <3>1 DEF DmaInv, StartsEmpty
  <2>8. QueuesOwned'
    BY <1>1, <2>5 DEF DmaInv, AnswersReach, QueuesOwned
  <2>9. ASSUME NEW v \in Waiters PROVE Served(v)'
    <3>1. CASE v = w
      <4>1. \A d \in Channels : channel'[d].usage = "NORMAL" => channel'[d].notify # k
        BY <1>2, <2>3 DEF Transfers
      <4>2. Len(driverQ'[k].msgs) = 1
        BY <2>5
      <4> QED
        BY <1>1, <2>1, <3>1, <4>1, <4>2 DEF Served, AnswerComes, Transfers
    <3>2. CASE v # w
      <4>1. waiter[v].at \in Calling => /\ driverQ'[waiter[v].queue] = driverQ[waiter[v].queue]
                                        /\ Transfers(waiter[v].queue)' = Transfers(waiter[v].queue)
        BY <1>1, <1>2, <2>2, <2>5, <3>2, QueueOfWaiter DEF Transfers
      <4> QED
        BY <1>1, <4>1, OthersServed
    <3> QED
      BY <3>1, <3>2
  <2> QED
    BY <1>3, <2>6, <2>7, <2>8, <2>9 DEF DmaInv, AnswersReach, Served
<1> QED
  BY <1>4, <1>5

(* An owner's channel is nobody's transfer, before and after.              *)
LEMMA OwnerStepInv ==
  ASSUME DmaInv, OwnerStep
  PROVE  DmaInv'
<1>1. ASSUME NEW c \in GetChannel(FALSE), NEW target \in Nat, NEW next \in Nat,
             channel' = DoubleBufSet(TransferExtend(c, "OCCUPIED", OwnerQueue, target), c, next),
             UNCHANGED <<driverQ, waiter>>
      PROVE  DmaInv'
  <2>1. c \in Channels /\ channel[c].usage = "NOT_USED"
    BY <1>1 DEF GetChannel
  <2>2. channel' = [TransferExtend(c, "OCCUPIED", OwnerQueue, target) EXCEPT ![c].next = next]
    BY <1>1, <2>1 DEF DoubleBufSet, TransferExtend, DmaInv, DmaTypeOK, ChannelType
  <2> DEFINE extended == TransferExtend(c, "OCCUPIED", OwnerQueue, target)
  <2>3. /\ extended \in ChannelType
        /\ extended[c].usage = "OCCUPIED"
        /\ \A d \in Channels : d # c => extended[d] = channel[d]
    BY <2>1 DEF TransferExtend, DmaInv, DmaTypeOK, ChannelType, NO_TARGET
  <2> HIDE DEF extended
  <2>5. /\ channel' \in ChannelType
        /\ channel'[c].usage = "OCCUPIED"
        /\ \A d \in Channels : d # c => channel'[d] = channel[d]
    BY <2>1, <2>2, <2>3 DEF extended, ChannelType
  <2>4. /\ \A d \in Channels : Normal(d)' <=> Normal(d)
        /\ \A d \in Channels : Normal(d) => channel'[d] = channel[d]
    BY <2>1, <2>5 DEF Normal
  <2> QED
    BY <1>1, <2>4, <2>5, NormalKept
<1>2. ASSUME NEW c \in Nat, NEW next \in Nat, channel' = DoubleBufSet(channel, c, next),
             UNCHANGED <<driverQ, waiter>>
      PROVE  DmaInv'
  <2>1. channel' \in ChannelType
    <3>1. channel \in ChannelType
      BY DEF DmaInv, DmaTypeOK
    <3> QED
      BY <1>2, <3>1 DEF DoubleBufSet, ChannelType
  <2>2. \A d \in Channels : channel'[d].usage = channel[d].usage
    BY <1>2 DEF DoubleBufSet, DmaInv, DmaTypeOK, ChannelType
  <2>3. \A d \in Channels : Normal(d) => channel'[d] = channel[d]
    BY <1>2 DEF DoubleBufSet, Normal, DmaInv, DmaTypeOK, ChannelType
  <2> QED
    BY <1>2, <2>1, <2>2, <2>3, NormalKept DEF Normal
<1>3. ASSUME NEW c \in Nat, channel' = DoubleBufFree(channel, c), UNCHANGED <<driverQ, waiter>>
      PROVE  DmaInv'
  <2>1. channel' \in ChannelType
    BY <1>3 DEF DoubleBufFree, Unused, DmaInv, DmaTypeOK, ChannelType, NO_TARGET
  <2>2. \A d \in Channels : Normal(d)' <=> Normal(d)
    BY <1>3 DEF DoubleBufFree, Normal, Unused, DmaInv, DmaTypeOK, ChannelType, NO_TARGET
  <2>3. \A d \in Channels : Normal(d) => channel'[d] = channel[d]
    BY <1>3 DEF DoubleBufFree, Normal, DmaInv, DmaTypeOK, ChannelType
  <2> QED
    BY <1>3, <2>1, <2>2, <2>3, NormalKept
<1>4. ASSUME NEW c \in Channels, NEW status \in Statuses, IsrOccupied(c, status)
      PROVE  DmaInv'
  <2>1. channel[c].usage = "OCCUPIED"
    BY <1>4 DEF IsrOccupied
  <2>2. /\ channel' \in ChannelType
        /\ channel'[c].usage = "OCCUPIED"
        /\ \A d \in Channels : d # c => channel'[d] = channel[d]
    <3>1. CASE status = "TIMEOUT"
      <4>1. channel' = [channel EXCEPT ![c].runs = FALSE]
        BY <1>4, <3>1 DEF IsrOccupied
      <4>2. channel \in ChannelType
        BY DEF DmaInv, DmaTypeOK
      <4> QED
        BY <2>1, <4>1, <4>2 DEF ChannelType
    <3>2. CASE status # "TIMEOUT"
      <4>1. PICK on \in BOOLEAN :
              channel' = [channel EXCEPT ![c].runs = on,
                                         ![c].target = channel[c].next,
                                         ![c].next = NO_TARGET]
        BY <1>4, <3>2 DEF IsrOccupied
      <4>2. channel \in ChannelType
        BY DEF DmaInv, DmaTypeOK
      <4>3. /\ channel' \in ChannelType
            /\ channel'[c].usage = channel[c].usage
            /\ \A d \in Channels : d # c => channel'[d] = channel[d]
        BY <4>1, <4>2 DEF ChannelType, NO_TARGET
      <4> QED
        BY <2>1, <4>3
    <3> QED
      BY <3>1, <3>2
  <2>4. /\ \A d \in Channels : Normal(d)' <=> Normal(d)
        /\ \A d \in Channels : Normal(d) => channel'[d] = channel[d]
    BY <2>1, <2>2 DEF Normal
  <2> QED
    BY <1>4, <2>2, <2>4, NormalKept DEF IsrOccupied
<1> QED
  BY <1>1, <1>2, <1>3, <1>4 DEF OwnerStep, OwnerActs

LEMMA DmaStepInv ==
  DmaInv /\ [DmaNext \/ OwnerStep]_dmaVars => DmaInv'
<1> SUFFICES ASSUME DmaInv, [DmaNext \/ OwnerStep]_dmaVars PROVE DmaInv'
  OBVIOUS
<1>1. CASE DmaNext
  <2>1. ASSUME NEW w \in Waiters, WaiterStep(w) PROVE DmaInv'
    BY <2>1, GetQueueInv, StartRefusedInv, StartEmptyInv, StartTransferInv, EndTransferInv
       DEF WaiterStep
  <2> QED
    BY <1>1, <2>1, TransferInv, IsrNormalInv DEF DmaNext
<1>2. CASE OwnerStep
  BY <1>2, OwnerStepInv
<1>3. CASE UNCHANGED dmaVars
  <2>1. channel' \in ChannelType
    BY <1>3 DEF dmaVars, DmaInv, DmaTypeOK, ChannelType
  <2> QED
    BY <1>3, <2>1, NormalKept DEF dmaVars, Normal
<1> QED
  BY <1>1, <1>2, <1>3

(* Every task that waits for a transfer gets its answer and no other's,    *)
(* for every number of channels, queues and tasks (drv_l1_dma.c).          *)
THEOREM DmaAnswersReach == DmaSpec => []AnswersReach
<1>1. DmaSpec => []DmaInv
  BY DmaInitInv, DmaStepInv, PTL DEF DmaSpec
<1>2. DmaInv => AnswersReach
  BY DEF DmaInv
<1> QED
  BY <1>1, <1>2, PTL
=============================================================================
