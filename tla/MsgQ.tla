------------------------------- MODULE MsgQ --------------------------------
(***************************************************************************)
(* application/msg_manager/src/msg_manager.c: the message queues ApQ,      *)
(* StorageServiceQ and PeripheralTaskQ that connect the tasks of the       *)
(* firmware.  A queue is a pool of message slots plus a uC/OS-II queue     *)
(* (OSQ) of pointers to slots.  A slot is free when its message id is 0.   *)
(*                                                                         *)
(* Senders are tasks, which run under the scheduler lock (OSSchedLock),    *)
(* and the time-base interrupt, which calls msgQSend through sys_set_timer *)
(* and which a scheduler lock does not hold off.  Every queue has one      *)
(* receiving task; it is also the one that may flush the queue.            *)
(*                                                                         *)
(* The places where another party can intervene are the boundaries between *)
(* the actions of a send (scan for a free slot, fill it, post its pointer) *)
(* and of a flush (the OSQ, then the pool).  An interrupt that sends in    *)
(* one of two of these gaps does harm: between scan and fill it takes the  *)
(* slot the task has found, within a flush its message is freed while it   *)
(* is queued.  The history variable clashed remembers that this has        *)
(* happened.  It steers nothing; what the queue promises, it promises      *)
(* until then.                                                             *)
(***************************************************************************)
EXTENDS Naturals, Sequences, Functions

CONSTANTS
  Tasks,          \* the tasks that send to this queue
  Msgs,           \* messages: a non-zero id with its payload
  Urgent,         \* the messages that are sent with MSG_PRI_URGENT
  Empty,          \* a slot whose id is 0
  Nobody,         \* nobody holds the scheduler lock
  Reader,         \* the receiving task
  MaxQSize,       \* size of the OSQ; every msgQCreate passes MaxMsgs for it
  MaxMsgs,        \* number of slots
  MaxMsgLength,   \* bytes of payload in a slot
  SendSizes,      \* the payload sizes senders use
  ReceiveSizes,   \* the buffer sizes the receiver passes: the queue's own
                  \* message length, in every call of msgQReceive
  CanFlush        \* does the receiver call msgQFlush?

ASSUME MsgQAssumption ==
  /\ MaxMsgs \in Nat \ {0}
  /\ MaxQSize \in Nat
  /\ MaxMsgs <= MaxQSize
  /\ MaxMsgLength \in Nat
  /\ SendSizes \subseteq Nat
  /\ ReceiveSizes \subseteq 0 .. MaxMsgLength
  /\ CanFlush \in BOOLEAN
  /\ Urgent \subseteq Msgs
  /\ Empty \notin Msgs
  /\ Reader \notin Tasks
  /\ Nobody \notin Tasks \cup {Reader}

Slots == 1 .. MaxMsgs
NULL == 0         \* the null slot pointer

VARIABLES
  slot,           \* the pool: what each slot holds
  q,              \* the OSQ: slot pointers, oldest first
  lock,           \* who holds the scheduler lock
  spc,            \* where each sending task is in msgQSend
  sptr,           \* the slot it has picked
  rpc,            \* where the receiver is
  rptr,           \* the slot pointer OSQPend has given it
  got,            \* the message its last completed receive returned
  clashed         \* history: an interrupt's send has hit one of the two gaps

vars == <<slot, q, lock, spc, sptr, rpc, rptr, got, clashed>>
sendVars == <<spc, sptr>>
-----------------------------------------------------------------------------
Init ==
  /\ slot = [s \in Slots |-> Empty]
  /\ q = <<>>
  /\ lock = Nobody
  /\ spc = [t \in Tasks |-> "idle"]
  /\ sptr = [t \in Tasks |-> NULL]
  /\ rpc = "idle"
  /\ rptr = NULL
  /\ got = Empty
  /\ clashed = FALSE

FreeSlots == {s \in Slots : slot[s] = Empty}

\* The scan runs from the start of the pool and stops at the first id 0.
FirstFree == CHOOSE s \in FreeSlots : \A r \in FreeSlots : s <= r

\* Mutant: the test for MSG_PRI_NORMAL is inverted.
OSQPostSwapped(s, urgent) ==
  IF rpc = "pend"
    THEN rpc' = "got" /\ rptr' = s /\ UNCHANGED q
    ELSE /\ UNCHANGED <<rpc, rptr>>
         /\ q' = IF Len(q) >= MaxQSize THEN q
                 ELSE IF ~ urgent THEN <<s>> \o q
                 ELSE Append(q, s)

\* Mutant: the pointer goes to the waiting receiver and stays in the queue.
OSQPostTwice(s, urgent) ==
  /\ q' = IF Len(q) >= MaxQSize THEN q ELSE Append(q, s)
  /\ IF rpc = "pend" THEN rpc' = "got" /\ rptr' = s ELSE UNCHANGED <<rpc, rptr>>

\* OSQPost and OSQPostFront: a task that pends on the queue gets the pointer
\* itself; a full queue refuses it, and msgQSend leaves the slot as it is.
OSQPost(s, urgent) ==
  IF rpc = "pend"
    THEN rpc' = "got" /\ rptr' = s /\ UNCHANGED q
    ELSE /\ UNCHANGED <<rpc, rptr>>
         /\ q' = IF Len(q) >= MaxQSize THEN q
                 ELSE IF urgent THEN <<s>> \o q
                 ELSE Append(q, s)
-----------------------------------------------------------------------------
(* msgQSend, called by a task.                                             *)

\* Mutant: the end of the scan is not checked.
SendScanUnchecked(t) ==
  /\ spc[t] = "idle"
  /\ lock = Nobody
  /\ \E n \in SendSizes : n <= MaxMsgLength
  /\ lock' = t
  /\ spc' = [spc EXCEPT ![t] = "fill"]
  /\ sptr' = [sptr EXCEPT ![t] = IF FreeSlots = {} THEN MaxMsgs + 1 ELSE FirstFree]
  /\ UNCHANGED <<slot, q, rpc, rptr, got, clashed>>

\* Mutant: the scan is not under the scheduler lock.
SendScanUnlocked(t) ==
  /\ spc[t] = "idle"
  /\ lock = Nobody
  /\ \E n \in SendSizes : n <= MaxMsgLength
  /\ FreeSlots # {}
  /\ spc' = [spc EXCEPT ![t] = "fill"]
  /\ sptr' = [sptr EXCEPT ![t] = FirstFree]
  /\ UNCHANGED <<slot, q, lock, rpc, rptr, got, clashed>>

SendScan(t) ==
  /\ spc[t] = "idle"
  /\ lock = Nobody
  /\ \E n \in SendSizes : n <= MaxMsgLength
  /\ FreeSlots # {}
  /\ lock' = t
  /\ spc' = [spc EXCEPT ![t] = "fill"]
  /\ sptr' = [sptr EXCEPT ![t] = FirstFree]
  /\ UNCHANGED <<slot, q, rpc, rptr, got, clashed>>

SendFill(t) ==
  /\ spc[t] = "fill"
  /\ \E m \in Msgs : slot' = [slot EXCEPT ![sptr[t]] = m]
  /\ spc' = [spc EXCEPT ![t] = "post"]
  /\ UNCHANGED <<q, lock, sptr, rpc, rptr, got, clashed>>

SendPost(t) ==
  /\ spc[t] = "post"
  /\ OSQPost(sptr[t], slot[sptr[t]] \in Urgent)
  /\ lock' = Nobody
  /\ spc' = [spc EXCEPT ![t] = "idle"]
  /\ sptr' = [sptr EXCEPT ![t] = NULL]
  /\ UNCHANGED <<slot, got, clashed>>

\* msgQSend, called from TimeBaseC_ISR with no payload and normal priority.
\* Nothing preempts the interrupt, and in the code nothing holds it off.
InGap ==
  \/ rpc = "flush"
  \/ \E t \in Tasks : spc[t] = "fill"

TickSend ==
  /\ FreeSlots # {}
  /\ \E m \in Msgs \ Urgent : slot' = [slot EXCEPT ![FirstFree] = m]
  /\ OSQPost(FirstFree, FALSE)
  /\ clashed' = (clashed \/ InGap)
  /\ UNCHANGED <<lock, sendVars, got>>
-----------------------------------------------------------------------------
(* msgQReceive and msgQAccept: the pointer is taken off the OSQ before the *)
(* scheduler is locked.                                                    *)

OSQPend ==
  /\ rpc = "idle"
  /\ lock = Nobody
  /\ q # <<>>
  /\ rptr' = Head(q)
  /\ q' = Tail(q)
  /\ rpc' = "got"
  /\ UNCHANGED <<slot, lock, sendVars, got, clashed>>

\* msgQReceive on an empty queue blocks; msgQAccept returns -1 instead.
OSQBlock ==
  /\ rpc = "idle"
  /\ lock = Nobody
  /\ q = <<>>
  /\ rpc' = "pend"
  /\ UNCHANGED <<slot, q, lock, sendVars, rptr, got, clashed>>

\* Mutant: the message is not freed.
ReceiveCopyKeeping ==
  /\ rpc = "got"
  /\ lock = Nobody
  /\ \E n \in ReceiveSizes :
       IF n > MaxMsgLength THEN UNCHANGED got ELSE got' = slot[rptr]
  /\ rpc' = "idle"
  /\ rptr' = NULL
  /\ UNCHANGED <<slot, q, lock, sendVars, clashed>>

\* Too large a buffer is refused after the pointer has been taken: the
\* message is gone and its slot stays occupied.
ReceiveCopy ==
  /\ rpc = "got"
  /\ lock = Nobody
  /\ \E n \in ReceiveSizes :
       IF n > MaxMsgLength
         THEN UNCHANGED <<slot, got>>
         ELSE got' = slot[rptr] /\ slot' = [slot EXCEPT ![rptr] = Empty]
  /\ rpc' = "idle"
  /\ rptr' = NULL
  /\ UNCHANGED <<q, lock, sendVars, clashed>>
-----------------------------------------------------------------------------
(* msgQFlush, called by the receiving task: first the OSQ, then the pool.  *)

\* Mutant: only the pool is flushed.
FlushQueueNot ==
  /\ CanFlush
  /\ rpc = "idle"
  /\ lock = Nobody
  /\ lock' = Reader
  /\ rpc' = "flush"
  /\ UNCHANGED <<slot, q, sendVars, rptr, got, clashed>>

FlushQueue ==
  /\ CanFlush
  /\ rpc = "idle"
  /\ lock = Nobody
  /\ lock' = Reader
  /\ q' = <<>>
  /\ rpc' = "flush"
  /\ UNCHANGED <<slot, sendVars, rptr, got, clashed>>

FlushPool ==
  /\ rpc = "flush"
  /\ slot' = [s \in Slots |-> Empty]
  /\ lock' = Nobody
  /\ rpc' = "idle"
  /\ UNCHANGED <<q, sendVars, rptr, got, clashed>>
-----------------------------------------------------------------------------
Send(t) == SendScan(t) \/ SendFill(t) \/ SendPost(t)
Receive == OSQPend \/ OSQBlock \/ ReceiveCopy
Flush == FlushQueue \/ FlushPool

Next ==
  \/ \E t \in Tasks : Send(t)
  \/ TickSend
  \/ Receive
  \/ Flush

Spec == Init /\ [][Next]_vars

\* The scheduler runs the receiver again and again between the senders' turns,
\* and a task that holds the scheduler lock keeps running until it unlocks.
Fairness ==
  /\ \A t \in Tasks : WF_vars(SendFill(t)) /\ WF_vars(SendPost(t))
  /\ WF_vars(FlushPool)
  /\ SF_vars(OSQPend)
  /\ SF_vars(ReceiveCopy)

FairSpec == Spec /\ Fairness
-----------------------------------------------------------------------------
TypeOK ==
  /\ slot \in [Slots -> Msgs \cup {Empty}]
  /\ q \in Seq(Slots)
  /\ lock \in Tasks \cup {Reader, Nobody}
  /\ spc \in [Tasks -> {"idle", "fill", "post"}]
  /\ sptr \in [Tasks -> Slots \cup {NULL}]
  /\ rpc \in {"idle", "pend", "got", "flush"}
  /\ rptr \in Slots \cup {NULL}
  /\ got \in Msgs \cup {Empty}
  /\ clashed \in BOOLEAN

Queued == Range(q)
InHand == IF rpc = "got" THEN {rptr} ELSE {}
BeingSent == {sptr[t] : t \in {u \in Tasks : spc[u] # "idle"}}

(* A slot has at most one owner: the OSQ (which names it once), the        *)
(* receiver that has taken its pointer, or the sender that fills it.       *)
OwnedOnce ==
  /\ IsInjective(q)
  /\ InHand \cap Queued = {}
  /\ BeingSent \cap (Queued \cup InHand) = {}
  /\ \A t, u \in Tasks : spc[t] # "idle" /\ spc[u] # "idle" => t = u

(* What is queued or in the receiver's hand is a message, never a slot     *)
(* somebody has freed meanwhile.                                           *)
NoGhosts ==
  \A s \in Queued \cup InHand : slot[s] \in Msgs

(* How far a send or a flush has come shows in the lock and the pool.      *)
InProgress ==
  /\ \A t \in Tasks :
       spc[t] # "idle" =>
         /\ lock = t
         /\ sptr[t] \in Slots
         /\ slot[sptr[t]] = Empty <=> spc[t] = "fill"
  /\ rpc = "flush" => lock = Reader /\ q = <<>> /\ CanFlush
  /\ rpc = "pend" => q = <<>>
  /\ rpc = "got" <=> rptr # NULL

(* A slot that is not free belongs to somebody who will free it.           *)
NoneLost ==
  rpc # "flush" =>
    \A s \in Slots : slot[s] # Empty => s \in Queued \cup InHand \cup BeingSent

(* The inductive invariant behind the properties: a slot is lost, shared   *)
(* or freed under somebody's hands only once an interrupt has sent in a    *)
(* gap.                                                                    *)
Sound == TypeOK /\ InProgress /\ OwnedOnce /\ NoGhosts
IInv == TypeOK /\ (clashed \/ Sound)

(* The slots' owners and their messages: until an interrupt's send falls   *)
(* between a task's scan and its fill or into a flush, no slot has two     *)
(* owners and no receive returns message id 0 (msgQSend and msgQFlush      *)
(* under MSG_Q_LOCK, msgQReceive's unlocked OSQPend).                      *)
OneOwner == ~ clashed => OwnedOnce /\ NoGhosts

(* Until then msgQSend reports "not enough message" only when that many    *)
(* messages are on their way: no call leaves a slot occupied for good.     *)
NoLeak == ~ clashed => NoneLost

(* A message that a send has queued keeps its content until it is received *)
(* or flushed: nobody writes to a slot that is in the OSQ.                 *)
QueuedKept ==
  [][\A s \in Slots :
       s \in Queued /\ s \in Queued' => slot'[s] = slot[s]]_vars

(* The same until an interrupt has sent in a gap.                          *)
QueuedStays ==
  [][~ clashed =>
       \A s \in Slots :
         s \in Queued /\ s \in Queued' => slot'[s] = slot[s]]_vars

(* The queue is a bounded channel, which breaks when an interrupt sends in *)
(* a gap and at no other time.                                             *)
C == INSTANCE Channel WITH
       Nothing <- Empty,
       Capacity <- MaxMsgs,
       chan <- [i \in DOMAIN q |-> slot[q[i]]],
       hand <- IF rpc = "got" THEN slot[rptr] ELSE Empty,
       broken <- clashed

ImplementsChannel == C!Spec

(* What is queued is eventually received, however busy the senders are,    *)
(* unless an urgent message keeps overtaking it or the interrupt sends in  *)
(* a gap.                                                                  *)
UrgentQueued == \E s \in Queued : slot[s] \in Urgent

EventuallyReceived ==
  \A s \in Slots : s \in Queued ~> s \notin Queued \/ UrgentQueued \/ clashed

=============================================================================
