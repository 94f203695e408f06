-------------------------------- MODULE Dma ---------------------------------
(***************************************************************************)
(* driver_l1/common/src/drv_l1_dma.c: the channels of the DMA controller,  *)
(* the one-entry queues in which a task waits for its transfer             *)
(* (dma_transfer_wait_ready), the controller's interrupt, and channels     *)
(* that are occupied for double buffering.                                 *)
(*                                                                         *)
(* A channel is chosen under OSSchedLock with the interrupt off, and a     *)
(* queue under OSSchedLock.  Callers that poll (dma_transfer: SPI, DAC,    *)
(* ADC, microphone, mem_transfer_dma) have a channel and no queue.         *)
(* dma_memory_fill, dma_buffer_copy and dma_transfer_with_queue have no    *)
(* caller.                                                                 *)
(***************************************************************************)
EXTENDS Integers, Sequences

CONSTANTS
  ChannelNo,      \* C_DMA_CHANNEL_NUM: 4
  QueueNo,        \* C_DMA_Q_NUM: 4
  Waiters,        \* tasks that wait for a transfer: of the SPI flash disk, ...
  OwnerQueue,     \* the queue of who has occupied a channel (avi_aud_q)
  NoQueue         \* NULL: no queue is to be notified

ASSUME DmaAssumption ==
  /\ ChannelNo \in Nat \ {0}
  /\ QueueNo \in Nat \ {0}
  /\ NoQueue \notin Nat /\ OwnerQueue \notin Nat

VARIABLES
  channel,        \* per channel: dma_usage, dma_notify_queue, the target
                  \* being written, the target set to be next, does it run?
  driverQ,        \* per queue: dma_q_usage, and what is in it
  waiter          \* per task: where it is in dma_transfer_wait_ready, the
                  \* queue it has got, and what notify of its dma_struct
                  \* points to; "pends" for a transfer, "strands" for none

dmaVars == <<channel, driverQ, waiter>>

Channels == 0 .. ChannelNo - 1
DriverQueues == 0 .. QueueNo - 1
NO_TARGET == 0
Statuses == {"DONE", "TIMEOUT"}

Unused == [usage |-> "NOT_USED", notify |-> NoQueue, target |-> NO_TARGET,
           next |-> NO_TARGET, runs |-> FALSE]
Away == [at |-> "away", queue |-> NoQueue, notify |-> "NULL"]

\* dma_init
DmaInit ==
  /\ channel = [c \in Channels |-> Unused]
  /\ driverQ = [k \in DriverQueues |-> [used |-> FALSE, msgs |-> <<>>]]
  /\ waiter = [w \in Waiters |-> Away]
-----------------------------------------------------------------------------
\* dma_get_channel: from the highest down, and never channel 0, for a target
\* in the internal RAM.
GetChannel(internal) ==
  LET free == {c \in Channels : channel[c].usage = "NOT_USED" /\ (internal => c # 0)}
  IN  {c \in free : \A d \in free : IF internal THEN d <= c ELSE c <= d}

\* dma_transfer_extend on the channel it has got.  A call that is refused
\* after that has given the channel back, and one for nothing has taken none.
TransferExtend(c, usage, queue, target) ==
  [channel EXCEPT ![c] = [usage |-> usage, notify |-> queue, target |-> target,
                          next |-> NO_TARGET, runs |-> TRUE]]

\* A caller comes with a dma_struct of its own, whose notify is NULL, and
\* dma_get_queue is called.  With none free notify is not restored.
GetQueue(w) ==
  /\ waiter[w].at = "away"
  /\ \/ /\ \A k \in DriverQueues : driverQ[k].used
        /\ waiter' = [waiter EXCEPT ![w].notify = "local"]
        /\ UNCHANGED driverQ
     \/ \E k \in DriverQueues :
          /\ ~ driverQ[k].used
          /\ \A j \in 0 .. k - 1 : driverQ[j].used
          /\ driverQ' = [driverQ EXCEPT ![k] = [used |-> TRUE, msgs |-> <<>>]]
          /\ waiter' = [waiter EXCEPT ![w] = [at |-> "starts", queue |-> k,
                                              notify |-> "local"]]
  /\ UNCHANGED channel

\* Mutant: a call that is refused keeps its queue.
StartRefusedKeeping(w) ==
  /\ waiter[w].at = "starts"
  /\ waiter' = [waiter EXCEPT ![w] = Away]
  /\ UNCHANGED <<channel, driverQ>>

\* For its arguments, or because no channel is free.
StartRefused(w) ==
  /\ waiter[w].at = "starts"
  /\ waiter' = [waiter EXCEPT ![w] = Away]
  /\ driverQ' = [driverQ EXCEPT ![waiter[w].queue].used = FALSE]
  /\ UNCHANGED channel

\* A count of 0 is a success, without a channel: nobody is going to post.
StartEmpty(w) ==
  /\ waiter[w].at = "starts"
  /\ waiter' = [waiter EXCEPT ![w].at = "strands"]
  /\ UNCHANGED <<channel, driverQ>>

StartTransfer(w) ==
  /\ waiter[w].at = "starts"
  /\ \E internal \in BOOLEAN : \E c \in GetChannel(internal) :
       channel' = TransferExtend(c, "NORMAL", waiter[w].queue, NO_TARGET)
  /\ waiter' = [waiter EXCEPT ![w].at = "pends"]
  /\ UNCHANGED driverQ

\* OSQPend, without a time-out, returns what the interrupt has posted.
EndTransfer(w) ==
  LET k == waiter[w].queue
  IN  /\ waiter[w].at \in {"pends", "strands"}
      /\ driverQ[k].msgs # <<>>
      /\ waiter' = [waiter EXCEPT ![w] = Away]
      /\ driverQ' = [driverQ EXCEPT ![k] = [used |-> FALSE, msgs |-> Tail(@.msgs)]]
      /\ UNCHANGED channel

\* dma_transfer: its caller polls the variable that notify points to.
Transfer ==
  /\ \E internal \in BOOLEAN : \E c \in GetChannel(internal) :
       channel' = TransferExtend(c, "NORMAL", NoQueue, NO_TARGET)
  /\ UNCHANGED <<driverQ, waiter>>

\* OSQPost to a queue of one entry, if there is a queue to post to.
Posted(k, status) ==
  IF k \in DriverQueues /\ driverQ[k].msgs = <<>>
    THEN [driverQ EXCEPT ![k].msgs = <<status>>] ELSE driverQ

\* dma_isr: a transfer has ended.
IsrNormal(c, status) ==
  /\ channel[c].usage = "NORMAL"
  /\ channel[c].runs
  /\ driverQ' = Posted(channel[c].notify, status)
  /\ channel' = [channel EXCEPT ![c] = Unused]
  /\ UNCHANGED waiter

\* dma_isr: a buffer of an occupied channel is full, and the hardware goes on
\* with the next one; or nothing has come for too long.  The channel stays
\* occupied.
IsrOccupied(c, status) ==
  /\ channel[c].usage = "OCCUPIED"
  /\ channel[c].runs
  /\ channel' =
       IF status = "TIMEOUT" THEN [channel EXCEPT ![c].runs = FALSE]
       ELSE [channel EXCEPT ![c].runs = channel[c].next # NO_TARGET,
                            ![c].target = channel[c].next,
                            ![c].next = NO_TARGET]
  /\ UNCHANGED <<driverQ, waiter>>

\* dma_transfer_double_buf_set and _free, on whatever channel they are given.
DoubleBufSet(chan, c, target) ==
  IF c \in Channels /\ chan[c].usage = "OCCUPIED"
    THEN [chan EXCEPT ![c].next = target] ELSE chan

DoubleBufFree(chan, c) ==
  IF c \in Channels /\ chan[c].usage = "OCCUPIED"
    THEN [chan EXCEPT ![c] = Unused] ELSE chan

WaiterStep(w) ==
  GetQueue(w) \/ StartRefused(w) \/ StartEmpty(w) \/ StartTransfer(w) \/ EndTransfer(w)

DmaNext ==
  \/ \E w \in Waiters : WaiterStep(w)
  \/ Transfer
  \/ \E c \in Channels, status \in Statuses : IsrNormal(c, status)

\* What the owner of an occupied channel does, with numbers from N for
\* channels and targets, and the controller with it.
OwnerActs(N) ==
  \/ /\ \/ \E c \in GetChannel(FALSE), target, next \in N :
             channel' = DoubleBufSet(TransferExtend(c, "OCCUPIED", OwnerQueue, target), c, next)
        \/ \E c, next \in N : channel' = DoubleBufSet(channel, c, next)
        \/ \E c \in N : channel' = DoubleBufFree(channel, c)
     /\ UNCHANGED <<driverQ, waiter>>
  \/ \E c \in Channels, status \in Statuses : IsrOccupied(c, status)

OwnerStep == OwnerActs(Nat)

DmaSpec == DmaInit /\ [][DmaNext \/ OwnerStep]_dmaVars
-----------------------------------------------------------------------------
ChannelType ==
  [Channels -> [usage : {"NOT_USED", "NORMAL", "OCCUPIED"},
                notify : DriverQueues \cup {OwnerQueue, NoQueue},
                target : Nat, next : Nat, runs : BOOLEAN]]

DmaTypeOK ==
  /\ channel \in ChannelType
  /\ driverQ \in [DriverQueues -> [used : BOOLEAN, msgs : Seq(Statuses)]]
  /\ waiter \in [Waiters ->
       [at : {"away"}, queue : {NoQueue}, notify : {"NULL", "local"}] \cup
       [at : {"starts", "pends", "strands"}, queue : DriverQueues, notify : {"local"}]]

Transfers(k) == {c \in Channels : channel[c].usage = "NORMAL" /\ channel[c].notify = k}

\* A queue in use belongs to one task.
QueuesOwned ==
  /\ \A k \in DriverQueues :
       driverQ[k].used <=> \E w \in Waiters : waiter[w].queue = k
  /\ \A v, w \in Waiters :
       waiter[v].queue = waiter[w].queue => v = w \/ waiter[w].at = "away"

\* A transfer runs for a caller that polls or for a task that pends.
TransfersAwaited ==
  \A c \in Channels : channel[c].usage = "NORMAL" =>
    /\ channel[c].runs
    /\ \/ channel[c].notify = NoQueue
       \/ \E w \in Waiters : waiter[w].at = "pends" /\ waiter[w].queue = channel[c].notify

\* One answer is there, or one transfer that will give it.
AnswerComes(k) ==
  \/ driverQ[k].msgs = <<>> /\ \E c \in Channels : Transfers(k) = {c}
  \/ Len(driverQ[k].msgs) = 1 /\ Transfers(k) = {}

NoAnswerComes(k) == driverQ[k].msgs = <<>> /\ Transfers(k) = {}

(* Every task gets the answer to its own transfer and no other's: a queue  *)
(* in use belongs to one task; to a task that pends for a transfer comes   *)
(* one answer, from the one channel that runs for it; and a task that      *)
(* asked for nothing, and pends for ever, is never woken by an answer that *)
(* is not its own, whatever tasks, callers that poll and the owner of an   *)
(* occupied channel do (dma_transfer_wait_ready, dma_transfer, dma_isr).   *)
AnswersReach ==
  /\ QueuesOwned
  /\ TransfersAwaited
  /\ \A w \in Waiters :
       /\ waiter[w].at = "pends" => AnswerComes(waiter[w].queue)
       /\ waiter[w].at = "strands" => NoAnswerComes(waiter[w].queue)
=============================================================================
