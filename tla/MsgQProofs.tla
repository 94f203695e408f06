---------------------------- MODULE MsgQProofs -----------------------------
(***************************************************************************)
(* Theorems about MsgQ, for any number of tasks, slots and messages.       *)
(***************************************************************************)
EXTENDS MsgQ, SequenceTheorems, FiniteSetTheorems, WellFoundedInduction, TLAPS

(* The scan of msgQSend finds a free slot when there is one.               *)
LEMMA FirstFreeIsFree ==
  ASSUME FreeSlots # {}
  PROVE  FirstFree \in Slots /\ slot[FirstFree] = Empty
<1>1. FreeSlots \subseteq Nat
  BY DEF FreeSlots, Slots
<1>2. PICK s \in FreeSlots : \A r \in FreeSlots : ~ (<<r, s>> \in OpToRel(<, Nat))
  BY <1>1, NatLessThanWellFounded, WFMin
<1>3. \A r \in FreeSlots : ~ (r < s)
  BY <1>1, <1>2 DEF OpToRel
<1>4. \A r \in FreeSlots : s <= r
  BY <1>1, <1>3
<1>5. FirstFree \in FreeSlots
  BY <1>4 DEF FirstFree
<1> QED BY <1>5 DEF FreeSlots

(* Taking the head of a queue of distinct slots.                           *)
LEMMA TailOfDistinct ==
  ASSUME NEW S, NEW s \in Seq(S), s # <<>>,
         IsInjective(s)
  PROVE  /\ Head(s) \in S /\ Tail(s) \in Seq(S)
         /\ IsInjective(Tail(s))
         /\ Range(Tail(s)) = Range(s) \ {Head(s)}
<1>1. /\ Len(s) \in Nat \ {0} /\ DOMAIN s = 1 .. Len(s)
      /\ Head(s) \in S /\ Head(s) = s[1]
      /\ Tail(s) \in Seq(S) /\ Len(Tail(s)) = Len(s) - 1
      /\ DOMAIN Tail(s) = 1 .. Len(s) - 1
      /\ \A i \in 1 .. Len(s) - 1 : Tail(s)[i] = s[i + 1]
  BY HeadTailProperties, EmptySeq, LenProperties
<1>2. ASSUME NEW i \in DOMAIN Tail(s), NEW j \in DOMAIN Tail(s),
             Tail(s)[i] = Tail(s)[j]
      PROVE  i = j
  <2>1. i + 1 \in DOMAIN s /\ j + 1 \in DOMAIN s /\ s[i + 1] = s[j + 1]
    BY <1>1, <1>2
  <2>2. i + 1 = j + 1
    BY <2>1 DEF IsInjective
  <2> QED BY <1>1, <2>2
<1>3. ASSUME NEW i \in DOMAIN Tail(s)
      PROVE  Tail(s)[i] \in Range(s) \ {Head(s)}
  <2>1. i + 1 \in DOMAIN s /\ 1 \in DOMAIN s /\ Tail(s)[i] = s[i + 1] /\ i + 1 # 1
    BY <1>1
  <2>2. s[i + 1] # s[1]
    BY <2>1 DEF IsInjective
  <2> QED BY <1>1, <2>1, <2>2 DEF Range
<1>4. ASSUME NEW j \in DOMAIN s, s[j] # Head(s)
      PROVE  s[j] \in Range(Tail(s))
  <2>1. j - 1 \in DOMAIN Tail(s) /\ Tail(s)[j - 1] = s[j]
    BY <1>1, <1>4
  <2> QED BY <2>1 DEF Range
<1> QED BY <1>1, <1>2, <1>3, <1>4 DEF IsInjective, Range

(* Appending a new slot to a queue of distinct slots.                      *)
LEMMA AppendOfDistinct ==
  ASSUME NEW S, NEW s \in Seq(S), NEW e \in S,
         IsInjective(s),
         e \notin Range(s)
  PROVE  /\ Append(s, e) \in Seq(S)
         /\ IsInjective(Append(s, e))
         /\ Range(Append(s, e)) = Range(s) \cup {e}
<1>1. /\ Len(s) \in Nat /\ DOMAIN s = 1 .. Len(s)
      /\ Append(s, e) \in Seq(S)
      /\ DOMAIN Append(s, e) = 1 .. Len(s) + 1
      /\ \A i \in 1 .. Len(s) : Append(s, e)[i] = s[i]
      /\ Append(s, e)[Len(s) + 1] = e
  BY AppendProperties, LenProperties
<1>2. \A i \in 1 .. Len(s) + 1 : i \in 1 .. Len(s) \/ i = Len(s) + 1
  BY <1>1
<1> QED BY <1>1, <1>2 DEF IsInjective, Range

(* Putting a new slot at the front of a queue of distinct slots.           *)
LEMMA FrontOfDistinct ==
  ASSUME NEW S, NEW s \in Seq(S), NEW e \in S,
         IsInjective(s),
         e \notin Range(s)
  PROVE  /\ <<e>> \o s \in Seq(S)
         /\ IsInjective(<<e>> \o s)
         /\ Range(<<e>> \o s) = Range(s) \cup {e}
<1> DEFINE f == <<e>> \o s
<1>1. <<e>> \in Seq(S) /\ Len(<<e>>) = 1 /\ <<e>>[1] = e
  OBVIOUS
<1>2. /\ Len(s) \in Nat /\ DOMAIN s = 1 .. Len(s)
      /\ f \in Seq(S)
      /\ DOMAIN f = 1 .. Len(s) + 1
      /\ \A i \in 1 .. Len(s) + 1 : f[i] = IF i <= 1 THEN <<e>>[i] ELSE s[i - 1]
  BY <1>1, ConcatProperties, LenProperties
<1> HIDE DEF f
<1>3. f[1] = e /\ \A i \in 2 .. Len(s) + 1 : i - 1 \in DOMAIN s /\ f[i] = s[i - 1]
  BY <1>1, <1>2
<1>4. \A i \in DOMAIN f : i = 1 \/ i \in 2 .. Len(s) + 1
  BY <1>2
<1>5. ASSUME NEW i \in DOMAIN f, NEW j \in DOMAIN f, f[i] = f[j]
      PROVE  i = j
  <2>1. CASE i = 1 /\ j # 1
    BY <1>3, <1>4, <1>5, <2>1 DEF Range
  <2>2. CASE j = 1 /\ i # 1
    BY <1>3, <1>4, <1>5, <2>2 DEF Range
  <2>3. CASE i # 1 /\ j # 1
    <3>1. i - 1 = j - 1
      BY <1>3, <1>4, <1>5, <2>3 DEF IsInjective
    <3> QED BY <1>2, <3>1
  <2> QED BY <2>1, <2>2, <2>3
<1>6. ASSUME NEW j \in DOMAIN s
      PROVE  s[j] \in Range(f)
  <2>1. j + 1 \in DOMAIN f /\ f[j + 1] = s[j]
    BY <1>2
  <2> QED BY <2>1 DEF Range
<1>7. Range(f) = Range(s) \cup {e}
  <2>1. 1 \in DOMAIN f
    BY <1>2
  <2> QED BY <1>3, <1>4, <1>6, <2>1 DEF Range
<1> QED BY <1>2, <1>5, <1>7 DEF f, IsInjective
-----------------------------------------------------------------------------
USE DEF NULL

(* Types do not depend on the timer's staying clear of the sends: a sender *)
(* and the receiver hold pointers to slots.                                *)
Pointers ==
  /\ \A t \in Tasks : spc[t] # "idle" => sptr[t] \in Slots
  /\ rpc = "got" => rptr \in Slots

LEMMA PostTypes ==
  ASSUME TypeOK, Pointers, NEW s \in Slots, NEW urgent, OSQPost(s, urgent)
  PROVE  /\ q' \in Seq(Slots)
         /\ rpc' \in {"idle", "pend", "got", "flush"} /\ rptr' \in Slots \cup {NULL}
         /\ rpc' = "got" => rptr' \in Slots
<1>1. CASE rpc = "pend"
  BY <1>1 DEF OSQPost, TypeOK
<1>2. CASE rpc # "pend"
  <2>1. q' \in {q, <<s>> \o q, Append(q, s)} /\ UNCHANGED <<rpc, rptr>>
    BY <1>2 DEF OSQPost
  <2>2. <<s>> \o q \in Seq(Slots) /\ Append(q, s) \in Seq(Slots)
    BY DEF TypeOK
  <2> QED
    BY <2>1, <2>2 DEF TypeOK, Pointers
<1> QED
  BY <1>1, <1>2

LEMMA PointersStep ==
  ASSUME TypeOK, Pointers, [Next]_vars
  PROVE  TypeOK' /\ Pointers'
<1>1. CASE UNCHANGED vars
  BY <1>1 DEF vars, TypeOK, Pointers
<1>2. ASSUME NEW t \in Tasks, Send(t) PROVE TypeOK' /\ Pointers'
  <2>1. CASE SendScan(t)
    <3>1. FirstFree \in Slots
      BY <2>1, FirstFreeIsFree DEF SendScan
    <3> QED
      BY <2>1, <3>1 DEF SendScan, TypeOK, Pointers
  <2>2. CASE SendFill(t)
    <3>1. sptr[t] \in Slots
      BY <2>2 DEF SendFill, Pointers
    <3> QED
      BY <2>2, <3>1 DEF SendFill, TypeOK, Pointers
  <2>3. CASE SendPost(t)
    <3>1. sptr[t] \in Slots
      BY <2>3 DEF SendPost, Pointers
    <3>2. /\ q' \in Seq(Slots)
          /\ rpc' \in {"idle", "pend", "got", "flush"} /\ rptr' \in Slots \cup {NULL}
          /\ rpc' = "got" => rptr' \in Slots
      BY <2>3, <3>1, PostTypes DEF SendPost
    <3> QED
      BY <2>3, <3>2 DEF SendPost, TypeOK, Pointers
  <2> QED
    BY <1>2, <2>1, <2>2, <2>3 DEF Send
<1>3. CASE TickSend
  <2>1. FirstFree \in Slots
    BY <1>3, FirstFreeIsFree DEF TickSend
  <2>2. /\ q' \in Seq(Slots)
        /\ rpc' \in {"idle", "pend", "got", "flush"} /\ rptr' \in Slots \cup {NULL}
        /\ rpc' = "got" => rptr' \in Slots
    BY <1>3, <2>1, PostTypes DEF TickSend
  <2> QED
    BY <1>3, <2>1, <2>2 DEF TickSend, sendVars, TypeOK, Pointers
<1>4. CASE Receive
  <2>1. CASE OSQPend
    <3>1. Head(q) \in Slots /\ Tail(q) \in Seq(Slots)
      BY <2>1 DEF OSQPend, TypeOK
    <3> QED
      BY <2>1, <3>1 DEF OSQPend, sendVars, TypeOK, Pointers
  <2>2. CASE OSQBlock
    BY <2>2 DEF OSQBlock, sendVars, TypeOK, Pointers
  <2>3. CASE ReceiveCopy
    <3>1. rptr \in Slots
      BY <2>3 DEF ReceiveCopy, Pointers
    <3>2. got' \in Msgs \cup {Empty} /\ slot' \in [Slots -> Msgs \cup {Empty}]
      BY <2>3, <3>1 DEF ReceiveCopy, TypeOK
    <3> QED
      BY <2>3, <3>2 DEF ReceiveCopy, sendVars, TypeOK, Pointers
  <2> QED
    BY <1>4, <2>1, <2>2, <2>3 DEF Receive
<1>5. CASE FlushQueue
  BY <1>5 DEF FlushQueue, sendVars, TypeOK, Pointers
<1>6. CASE FlushPool
  <2>1. [s \in Slots |-> Empty] \in [Slots -> Msgs \cup {Empty}]
    OBVIOUS
  <2> QED
    BY <1>6, <2>1 DEF FlushPool, sendVars, TypeOK, Pointers
<1> QED
  BY <1>1, <1>2, <1>3, <1>4, <1>5, <1>6 DEF Next, Flush

LEMMA InitTypes == Init => TypeOK /\ Pointers
<1> SUFFICES ASSUME Init PROVE TypeOK /\ Pointers
  OBVIOUS
<1>1. [s \in Slots |-> Empty] \in [Slots -> Msgs \cup {Empty}]
  OBVIOUS
<1>2. <<>> \in Seq(Slots)
  OBVIOUS
<1>4. clashed \in BOOLEAN
  BY DEF Init
<1>3. /\ [t \in Tasks |-> "idle"] \in [Tasks -> {"idle", "fill", "post"}]
      /\ [t \in Tasks |-> NULL] \in [Tasks -> Slots \cup {NULL}]
  OBVIOUS
<1> QED BY <1>1, <1>2, <1>3, <1>4 DEF Init, TypeOK, Pointers

(* Every variable keeps its type, and whoever holds a pointer to a slot    *)
(* holds one into the pool, even when the interrupt sends in the middle of *)
(* a send (msgQSend in TimeBaseC_ISR).                                     *)
THEOREM QueueTypeOK == Spec => []TypeOK
<1>1. Init => TypeOK /\ Pointers
  BY InitTypes
<1>2. TypeOK /\ Pointers /\ [Next]_vars => TypeOK' /\ Pointers'
  BY PointersStep
<1> QED
  BY <1>1, <1>2, PTL DEF Spec

-----------------------------------------------------------------------------
(* As long as nothing has clashed, a step keeps the queue sound.           *)

LEMMA InitInv == Init => Sound
<1> SUFFICES ASSUME Init PROVE Sound
  OBVIOUS
<1>1. TypeOK
  BY InitTypes
<1>2. InProgress /\ OwnedOnce /\ NoGhosts
  BY DEF Init, InProgress, OwnedOnce, NoGhosts, Queued, InHand, BeingSent,
         Range, IsInjective
<1> QED BY <1>1, <1>2 DEF Sound

(* Posting a slot that nobody else owns keeps the OSQ a list of distinct   *)
(* slots, to which at most the posted one has been added.                  *)
LEMMA PostInv ==
  ASSUME NEW s \in Slots, NEW urgent, OSQPost(s, urgent),
         TypeOK, InProgress, OwnedOnce, s \notin Queued \cup InHand
  PROVE  /\ q' \in Seq(Slots)
         /\ rptr' \in Slots \cup {NULL}
         /\ rpc' \in {"idle", "pend", "got", "flush"}
         /\ IsInjective(q')
         /\ Queued' \cup InHand' \subseteq Queued \cup InHand \cup {s}
         /\ InHand' \cap Queued' = {}
         /\ rpc' = "got" <=> rptr' # NULL
         /\ rpc' = "pend" => q' = <<>>
         /\ rpc' = "flush" => rpc = "flush"
<1>1. CASE rpc = "pend"
  BY <1>1 DEF OSQPost, TypeOK, InProgress, OwnedOnce, Queued, InHand, Slots
<1>2. CASE rpc # "pend"
  <2>1. UNCHANGED <<rpc, rptr>> /\ InHand' = InHand
    BY <1>2 DEF OSQPost, InHand
  <2>2. CASE q' = q
    BY <1>2, <2>1, <2>2 DEF TypeOK, InProgress, OwnedOnce, Queued
  <2>3. CASE q' = <<s>> \o q
    <3>1. /\ q' \in Seq(Slots)
          /\ IsInjective(q')
          /\ Queued' = Queued \cup {s}
      BY <2>3, FrontOfDistinct DEF TypeOK, OwnedOnce, Queued
    <3> QED BY <1>2, <2>1, <3>1 DEF TypeOK, InProgress, OwnedOnce
  <2>4. CASE q' = Append(q, s)
    <3>1. /\ q' \in Seq(Slots)
          /\ IsInjective(q')
          /\ Queued' = Queued \cup {s}
      BY <2>4, AppendOfDistinct DEF TypeOK, OwnedOnce, Queued
    <3> QED BY <1>2, <2>1, <3>1 DEF TypeOK, InProgress, OwnedOnce
  <2> QED BY <1>2, <2>2, <2>3, <2>4 DEF OSQPost
<1> QED BY <1>1, <1>2

LEMMA SendInv ==
  ASSUME Sound, NEW t \in Tasks, Send(t)
  PROVE  Sound'
<1> USE MsgQAssumption DEF Sound
<1>1. CASE SendScan(t)
  <2>1. FirstFree \in Slots /\ slot[FirstFree] = Empty
    BY <1>1, FirstFreeIsFree DEF SendScan
  <2>2. \A u \in Tasks : spc[u] = "idle"
    BY <1>1 DEF SendScan, InProgress
  <2>3. TypeOK'
    BY <1>1, <2>1 DEF SendScan, TypeOK
  <2>4. /\ \A u \in Tasks : spc'[u] # "idle" => u = t
        /\ lock' = t /\ spc'[t] = "fill" /\ sptr'[t] = FirstFree
        /\ Queued' = Queued /\ InHand' = InHand
    BY <1>1, <2>2 DEF SendScan, TypeOK, Queued, InHand
  <2>5. FirstFree \notin Queued \cup InHand
    BY <2>1 DEF NoGhosts
  <2>6. rpc # "flush"
    BY <1>1 DEF SendScan, InProgress
  <2>7. InProgress'
    BY <1>1, <2>1, <2>4, <2>6 DEF SendScan, InProgress
  <2>8. OwnedOnce'
    BY <1>1, <2>4, <2>5 DEF SendScan, OwnedOnce, BeingSent
  <2>9. NoGhosts'
    BY <1>1, <2>4 DEF SendScan, NoGhosts
  <2> QED BY <2>3, <2>7, <2>8, <2>9
<1>2. CASE SendFill(t)
  <2>1. PICK m \in Msgs : slot' = [slot EXCEPT ![sptr[t]] = m]
    BY <1>2 DEF SendFill
  <2>2. sptr[t] \in Slots /\ lock = t /\ spc[t] = "fill"
        /\ \A u \in Tasks : spc[u] # "idle" => u = t
    BY <1>2 DEF SendFill, InProgress
  <2>3. TypeOK'
    BY <1>2, <2>1 DEF SendFill, TypeOK
  <2>4. /\ spc'[t] = "post" /\ \A u \in Tasks : spc'[u] # "idle" => u = t
        /\ Queued' = Queued /\ InHand' = InHand /\ sptr' = sptr
        /\ slot'[sptr[t]] = m
    BY <1>2, <2>1, <2>2 DEF SendFill, TypeOK, Queued, InHand
  <2>5. sptr[t] \notin Queued \cup InHand
    BY <2>2 DEF OwnedOnce, BeingSent
  <2>6. InProgress'
    BY <1>2, <2>2, <2>4 DEF SendFill, InProgress
  <2>7. OwnedOnce'
    BY <1>2, <2>4, <2>5 DEF SendFill, OwnedOnce, BeingSent
  <2>8. NoGhosts'
    BY <1>2, <2>1, <2>4, <2>5 DEF SendFill, NoGhosts, TypeOK, Queued, InHand, InProgress
  <2> QED BY <2>3, <2>6, <2>7, <2>8
<1>3. CASE SendPost(t)
  <2>1. /\ sptr[t] \in Slots /\ lock = t /\ spc[t] = "post"
        /\ slot[sptr[t]] \in Msgs
        /\ \A u \in Tasks : spc[u] # "idle" => u = t
        /\ sptr[t] \notin Queued \cup InHand
    BY <1>3 DEF SendPost, InProgress, OwnedOnce, BeingSent, TypeOK
  <2>2. /\ q' \in Seq(Slots)
        /\ rptr' \in Slots \cup {NULL}
        /\ rpc' \in {"idle", "pend", "got", "flush"}
        /\ IsInjective(q')
        /\ Queued' \cup InHand' \subseteq Queued \cup InHand \cup {sptr[t]}
        /\ InHand' \cap Queued' = {}
        /\ rpc' = "got" <=> rptr' # NULL
        /\ rpc' = "pend" => q' = <<>>
        /\ rpc' = "flush" => rpc = "flush"
    <3>1. OSQPost(sptr[t], slot[sptr[t]] \in Urgent)
      BY <1>3 DEF SendPost
    <3> QED BY <2>1, <3>1, PostInv
  <2>3. TypeOK'
    BY <1>3, <2>2 DEF SendPost, TypeOK
  <2>4. \A u \in Tasks : spc'[u] = "idle"
    BY <1>3, <2>1 DEF SendPost, TypeOK
  <2>5. rpc' # "flush"
    BY <2>1, <2>2 DEF InProgress
  <2>6. InProgress'
    BY <2>2, <2>4, <2>5 DEF InProgress
  <2>7. OwnedOnce'
    BY <2>2, <2>4 DEF OwnedOnce, BeingSent
  <2>8. NoGhosts'
    BY <1>3, <2>1, <2>2 DEF SendPost, NoGhosts
  <2> QED BY <2>3, <2>6, <2>7, <2>8
<1> QED BY <1>1, <1>2, <1>3 DEF Send

LEMMA TickInv ==
  ASSUME Sound, TickSend, ~ clashed'
  PROVE  Sound'
<1> USE MsgQAssumption DEF Sound
<1>1. (\A t \in Tasks : spc[t] # "fill") /\ rpc # "flush"
  BY DEF TickSend, InGap
<1>2. FirstFree \in Slots /\ slot[FirstFree] = Empty
  BY FirstFreeIsFree DEF TickSend
<1>3. PICK m \in Msgs \ Urgent : slot' = [slot EXCEPT ![FirstFree] = m]
  BY DEF TickSend
<1>4. FirstFree \notin Queued \cup InHand \cup BeingSent
  BY <1>1, <1>2 DEF NoGhosts, InProgress, BeingSent
<1>5. /\ q' \in Seq(Slots)
      /\ rptr' \in Slots \cup {NULL}
      /\ rpc' \in {"idle", "pend", "got", "flush"}
      /\ IsInjective(q')
      /\ Queued' \cup InHand' \subseteq Queued \cup InHand \cup {FirstFree}
      /\ InHand' \cap Queued' = {}
      /\ rpc' = "got" <=> rptr' # NULL
      /\ rpc' = "pend" => q' = <<>>
      /\ rpc' = "flush" => rpc = "flush"
  <2>1. OSQPost(FirstFree, FALSE)
    BY DEF TickSend
  <2> QED BY <1>2, <1>4, <2>1, PostInv
<1>6. TypeOK'
  BY <1>3, <1>5 DEF TickSend, sendVars, TypeOK
<1>7. InProgress' /\ OwnedOnce'
  <2>1. UNCHANGED <<spc, sptr, lock>> /\ BeingSent' = BeingSent
    BY DEF TickSend, sendVars, BeingSent
  <2>2. \A t \in Tasks : spc[t] # "idle" => slot'[sptr[t]] # Empty
    BY <1>1, <1>2, <1>3 DEF InProgress, TypeOK
  <2>3. InProgress'
    BY <1>1, <1>5, <2>1, <2>2 DEF InProgress
  <2>4. BeingSent \cap (Queued' \cup InHand') = {}
    BY <1>4, <1>5 DEF OwnedOnce
  <2> QED BY <1>5, <2>1, <2>3, <2>4 DEF OwnedOnce
<1>8. NoGhosts'
  <2>1. Queued \cup InHand \subseteq Slots
    BY LenProperties DEF TypeOK, Queued, InHand, InProgress, Range
  <2> QED BY <1>2, <1>3, <1>5, <2>1 DEF NoGhosts, TypeOK
<1> QED BY <1>6, <1>7, <1>8

LEMMA ReceiveInv ==
  ASSUME Sound, Receive
  PROVE  Sound'
<1> USE MsgQAssumption DEF Sound
<1>1. CASE OSQPend
  <2>1. /\ q # <<>> /\ rptr' = Head(q) /\ q' = Tail(q) /\ rpc' = "got" /\ rpc = "idle"
        /\ UNCHANGED <<slot, lock, spc, sptr, got, clashed>>
    BY <1>1 DEF OSQPend, sendVars
  <2>2. /\ Head(q) \in Slots /\ Tail(q) \in Seq(Slots)
        /\ IsInjective(q')
        /\ Queued' = Queued \ {Head(q)}
        /\ Head(q) \in Queued
    <3>1. Head(q) = q[1] /\ 1 \in DOMAIN q
      BY <2>1, LenProperties, EmptySeq, HeadTailProperties DEF TypeOK
    <3>2. Head(q) \in Range(q)
      BY <3>1 DEF Range
    <3> QED BY <2>1, <3>2, TailOfDistinct DEF TypeOK, OwnedOnce, Queued
  <2>3. InHand' = {Head(q)}
    BY <2>1 DEF InHand
  <2>4. TypeOK'
    BY <2>1, <2>2 DEF TypeOK
  <2>5. InProgress'
    BY <2>1, <2>2 DEF InProgress, Slots
  <2>6. OwnedOnce'
    <3>1. BeingSent' = BeingSent
      BY <2>1 DEF BeingSent
    <3>2. BeingSent' \cap (Queued' \cup InHand') = {}
      BY <2>2, <2>3, <3>1 DEF OwnedOnce
    <3> QED BY <2>1, <2>2, <2>3, <3>2 DEF OwnedOnce
  <2>7. NoGhosts'
    BY <2>1, <2>2, <2>3 DEF NoGhosts
  <2> QED BY <2>4, <2>5, <2>6, <2>7
<1>2. CASE OSQBlock
  BY <1>2 DEF OSQBlock, sendVars, TypeOK, InProgress, OwnedOnce, NoGhosts, Queued, InHand, BeingSent
<1>3. CASE ReceiveCopy
  <2>1. /\ rpc = "got" /\ lock = Nobody /\ rpc' = "idle" /\ rptr' = NULL
        /\ UNCHANGED <<q, lock, spc, sptr, clashed>>
        /\ rptr \in Slots
    BY <1>3 DEF ReceiveCopy, sendVars, InProgress, TypeOK
  <2>2. \/ UNCHANGED <<slot, got>>
        \/ got' = slot[rptr] /\ slot' = [slot EXCEPT ![rptr] = Empty]
    BY <1>3 DEF ReceiveCopy
  <2>3. Queued' = Queued /\ InHand' = {} /\ InHand = {rptr}
    BY <2>1 DEF Queued, InHand
  <2>4. TypeOK'
    BY <2>1, <2>2 DEF TypeOK
  <2>5. InProgress'
    BY <2>1 DEF InProgress
  <2>6. OwnedOnce'
    BY <2>1, <2>3 DEF OwnedOnce, BeingSent
  <2>7. NoGhosts'
    <3>1. Queued \subseteq Slots /\ rptr \notin Queued
      BY <2>3, LenProperties DEF TypeOK, Queued, Range, OwnedOnce
    <3> QED BY <2>1, <2>2, <2>3, <3>1 DEF NoGhosts, TypeOK
  <2> QED BY <2>4, <2>5, <2>6, <2>7
<1> QED BY <1>1, <1>2, <1>3 DEF Receive

LEMMA FlushInv ==
  ASSUME Sound, Flush
  PROVE  Sound'
<1> USE MsgQAssumption DEF Sound
<1>1. CASE FlushQueue
  <2>1. \A t \in Tasks : spc[t] = "idle"
    BY <1>1 DEF FlushQueue, InProgress
  <2>2. TypeOK'
    BY <1>1 DEF FlushQueue, sendVars, TypeOK
  <2>3. Queued' = {} /\ InHand' = {}
    BY <1>1 DEF FlushQueue, Queued, InHand, Range
  <2>4. InProgress' /\ NoGhosts'
    BY <1>1, <2>1, <2>3 DEF FlushQueue, sendVars, InProgress, NoGhosts
  <2>5. OwnedOnce'
    BY <1>1, <2>1, <2>3 DEF FlushQueue, sendVars, OwnedOnce, IsInjective
  <2> QED BY <2>2, <2>4, <2>5
<1>2. CASE FlushPool
  <2>1. q = <<>> /\ lock = Reader /\ \A t \in Tasks : spc[t] = "idle"
    BY <1>2 DEF FlushPool, InProgress
  <2>2. TypeOK'
    BY <1>2 DEF FlushPool, sendVars, TypeOK
  <2>3. Queued' = {} /\ InHand' = {}
    BY <1>2, <2>1 DEF FlushPool, Queued, InHand, Range
  <2> QED BY <1>2, <2>1, <2>2, <2>3
         DEF FlushPool, sendVars, InProgress, OwnedOnce, NoGhosts
<1> QED BY <1>1, <1>2 DEF Flush

LEMMA NextInv ==
  ASSUME Sound, [Next]_vars, ~ clashed'
  PROVE  Sound'
<1>1. CASE UNCHANGED vars
  BY <1>1 DEF vars, Sound, TypeOK, InProgress, OwnedOnce, NoGhosts, Queued, InHand, BeingSent
<1> QED BY <1>1, SendInv, TickInv, ReceiveInv, FlushInv DEF Next

(* What has clashed stays clashed.                                         *)
LEMMA ClashedForGood ==
  ASSUME [Next]_vars, clashed
  PROVE  clashed'
<1>1. CASE UNCHANGED vars
  BY <1>1 DEF vars
<1>2. CASE TickSend
  BY <1>2 DEF TickSend
<1>3. CASE \E t \in Tasks : Send(t)
  BY <1>3 DEF Send, SendScan, SendFill, SendPost
<1>4. CASE Receive
  BY <1>4 DEF Receive, OSQPend, OSQBlock, ReceiveCopy
<1>5. CASE Flush
  BY <1>5 DEF Flush, FlushQueue, FlushPool
<1> QED BY <1>1, <1>2, <1>3, <1>4, <1>5 DEF Next

LEMMA InitIInv == Init => IInv /\ Pointers
BY InitInv DEF IInv, Sound, Init, Pointers

LEMMA NextIInv ==
  ASSUME IInv, Pointers, [Next]_vars
  PROVE  IInv' /\ Pointers'
<1>1. TypeOK' /\ Pointers'
  BY PointersStep DEF IInv
<1>2. CASE clashed'
  BY <1>1, <1>2 DEF IInv
<1>3. CASE ~ clashed'
  BY <1>1, <1>3, ClashedForGood, NextInv DEF IInv
<1> QED BY <1>2, <1>3

(* Until an interrupt sends in a gap of a task's send or flush, each slot  *)
(* has at most one owner and whatever is queued or in the receiver's hand  *)
(* is a message (msgQSend, msgQReceive, msgQFlush).                        *)
THEOREM SlotsAreOwned == Spec => []OneOwner
<1>1. IInv => OneOwner
  BY DEF IInv, Sound, OneOwner
<1> QED BY <1>1, InitIInv, NextIInv, PTL DEF Spec

(* Until then nobody writes to a slot that is in the OSQ: what a send has  *)
(* queued is what the receiver gets, however sends, receives, flushes and  *)
(* the interrupt's sends interleave.                                       *)
THEOREM QueuedMessagesStay == Spec => QueuedStays
<1>1. IInv /\ [Next]_vars =>
        [~ clashed =>
           \A s \in Slots : s \in Queued /\ s \in Queued' => slot'[s] = slot[s]]_vars
  <2> SUFFICES ASSUME IInv, Next, ~ clashed, NEW s \in Slots, s \in Queued
               PROVE  s \in Queued' => slot'[s] = slot[s]
    OBVIOUS
  <2>0. Sound
    BY DEF IInv
  <2>1. CASE \E t \in Tasks : Send(t)
    <3>1. PICK t \in Tasks : Send(t)
      BY <2>1
    <3>2. CASE SendFill(t)
      BY <2>0, <3>2 DEF SendFill, Sound, TypeOK, OwnedOnce, BeingSent
    <3> QED BY <3>1, <3>2 DEF Send, SendScan, SendPost
  <2>2. CASE TickSend
    <3>1. slot[s] # Empty
      BY <2>0, MsgQAssumption DEF Sound, NoGhosts
    <3>2. slot[FirstFree] = Empty
      BY <2>2, FirstFreeIsFree DEF TickSend
    <3> QED BY <2>0, <2>2, <3>1, <3>2 DEF TickSend, Sound, TypeOK
  <2>3. CASE Receive
    BY <2>0, <2>3 DEF Receive, OSQPend, OSQBlock, ReceiveCopy, Sound, TypeOK, OwnedOnce, InHand
  <2>4. CASE Flush
    BY <2>0, <2>4 DEF Flush, FlushQueue, FlushPool, Sound, InProgress, Queued, Range
  <2> QED BY <2>1, <2>2, <2>3, <2>4 DEF Next
<1> QED BY <1>1, InitIInv, NextIInv, PTL DEF Spec, QueuedStays
-----------------------------------------------------------------------------
(* The OSQ cannot be full while a slot is being posted: it names no slot   *)
(* twice, and the slot being posted not at all.                            *)
LEMMA RoomToPost ==
  ASSUME NEW s \in Slots, q \in Seq(Slots), IsInjective(q), s \notin Range(q)
  PROVE  Len(q) < MaxMsgs
<1>1. q \in Injection(1 .. Len(q), Slots \ {s}) /\ Len(q) \in Nat
  BY LenProperties DEF Injection, IsInjective, Range
<1>2. IsFiniteSet(Slots) /\ Cardinality(Slots) = MaxMsgs
  BY MsgQAssumption, FS_Interval DEF Slots
<1>3. IsFiniteSet(Slots \ {s}) /\ Cardinality(Slots \ {s}) = MaxMsgs - 1
  BY <1>2, FS_RemoveElement
<1>4. Cardinality(1 .. Len(q)) <= MaxMsgs - 1
  BY <1>1, <1>3, FS_Injection
<1>5. Cardinality(1 .. Len(q)) = IF 1 > Len(q) THEN 0 ELSE Len(q) - 1 + 1
  <2>1. 1 \in Int /\ Len(q) \in Int
    BY <1>1
  <2> QED BY <2>1, FS_Interval
<1> QED BY <1>1, <1>4, <1>5, MsgQAssumption

LEMMA SendKeepsSlots ==
  ASSUME Sound, NoneLost, NEW t \in Tasks, Send(t)
  PROVE  NoneLost'
<1> USE MsgQAssumption DEF Sound
<1>1. CASE SendScan(t)
  <2>1. Queued' = Queued /\ InHand' = InHand /\ \A u \in Tasks : spc[u] = "idle"
    BY <1>1 DEF SendScan, Queued, InHand, InProgress
  <2>2. BeingSent = {}
    BY <2>1 DEF BeingSent
  <2> QED BY <1>1, <2>1, <2>2 DEF SendScan, NoneLost
<1>2. CASE SendFill(t)
  <2>1. /\ Queued' = Queued /\ InHand' = InHand /\ rpc' = rpc
        /\ \A u \in Tasks : spc[u] # "idle" => u = t
        /\ spc'[t] = "post" /\ sptr' = sptr
        /\ \A r \in Slots : r # sptr[t] => slot'[r] = slot[r]
    BY <1>2 DEF SendFill, Queued, InHand, InProgress, TypeOK
  <2>2. sptr[t] \in BeingSent' /\ BeingSent \subseteq {sptr[t]}
    BY <2>1 DEF BeingSent
  <2> QED BY <2>1, <2>2 DEF NoneLost
<1>3. CASE SendPost(t)
  <2>1. /\ sptr[t] \in Slots /\ spc[t] = "post" /\ rpc # "flush"
        /\ \A u \in Tasks : spc[u] # "idle" => u = t
        /\ sptr[t] \notin Queued
    BY <1>3 DEF SendPost, InProgress, OwnedOnce, BeingSent
  <2>2. Len(q) < MaxQSize
    <3>1. Len(q) < MaxMsgs
      BY <2>1, RoomToPost DEF TypeOK, OwnedOnce, Queued
    <3>2. Len(q) \in Nat
      BY LenProperties DEF TypeOK
    <3> QED BY <3>1, <3>2
  <2>3. ~ (Len(q) >= MaxQSize)
    BY <2>2, LenProperties DEF TypeOK
  <2>4. Queued' \cup InHand' = Queued \cup InHand \cup {sptr[t]}
    <3>1. CASE rpc = "pend"
      <4>1. q = <<>> /\ q' = q /\ rpc' = "got" /\ rptr' = sptr[t]
        BY <1>3, <3>1 DEF SendPost, OSQPost, InProgress
      <4> QED BY <3>1, <4>1 DEF InHand, Queued
    <3>2. CASE rpc # "pend"
      <4>1. rpc' = rpc /\ rptr' = rptr /\ (q' = <<sptr[t]>> \o q \/ q' = Append(q, sptr[t]))
        BY <1>3, <2>3, <3>2 DEF SendPost, OSQPost
      <4>2. Range(q') = Range(q) \cup {sptr[t]}
        <5>1. q \in Seq(Slots) /\ IsInjective(q) /\ sptr[t] \in Slots \ Range(q)
          BY <2>1 DEF TypeOK, OwnedOnce, Queued
        <5>2. Range(<<sptr[t]>> \o q) = Range(q) \cup {sptr[t]}
          BY <5>1, FrontOfDistinct
        <5>3. Range(Append(q, sptr[t])) = Range(q) \cup {sptr[t]}
          BY <5>1, AppendOfDistinct
        <5> QED BY <4>1, <5>2, <5>3
      <4> QED BY <4>1, <4>2 DEF InHand, Queued
    <3> QED BY <3>1, <3>2
  <2>5. BeingSent \subseteq {sptr[t]} /\ slot' = slot
    BY <1>3, <2>1 DEF SendPost, BeingSent
  <2> QED BY <2>1, <2>4, <2>5 DEF NoneLost
<1> QED BY <1>1, <1>2, <1>3 DEF Send

LEMMA TickKeepsSlots ==
  ASSUME Sound, NoneLost, TickSend, ~ clashed'
  PROVE  NoneLost'
<1> USE MsgQAssumption DEF Sound
<1>1. FirstFree \in Slots /\ slot[FirstFree] = Empty
  BY FirstFreeIsFree DEF TickSend
<1>2. FirstFree \notin Queued /\ rpc # "flush"
  BY <1>1 DEF NoGhosts, TickSend, InGap
<1>3. ~ (Len(q) >= MaxQSize)
  <2>1. Len(q) < MaxMsgs
    BY <1>1, <1>2, RoomToPost DEF TypeOK, OwnedOnce, Queued
  <2>2. Len(q) \in Nat
    BY LenProperties DEF TypeOK
  <2> QED BY <2>1, <2>2
<1>4. Queued' \cup InHand' = Queued \cup InHand \cup {FirstFree}
  <2>1. CASE rpc = "pend"
    <3>1. q = <<>> /\ q' = q /\ rpc' = "got" /\ rptr' = FirstFree
      BY <2>1 DEF TickSend, OSQPost, InProgress
    <3> QED BY <2>1, <3>1 DEF InHand, Queued
  <2>2. CASE rpc # "pend"
    <3>1. rpc' = rpc /\ rptr' = rptr /\ q' = Append(q, FirstFree)
      BY <1>3, <2>2 DEF TickSend, OSQPost
    <3>2. Range(q') = Range(q) \cup {FirstFree}
      BY <1>1, <1>2, <3>1, AppendOfDistinct DEF TypeOK, OwnedOnce, Queued
    <3> QED BY <3>1, <3>2 DEF InHand, Queued
  <2> QED BY <2>1, <2>2
<1>5. BeingSent' = BeingSent /\ \A r \in Slots : r # FirstFree => slot'[r] = slot[r]
  BY <1>1 DEF TickSend, sendVars, BeingSent, TypeOK
<1> QED BY <1>2, <1>4, <1>5 DEF NoneLost

LEMMA ReceiveKeepsSlots ==
  ASSUME Sound, NoneLost, Receive
  PROVE  NoneLost'
<1> USE MsgQAssumption DEF Sound
<1>1. CASE OSQPend
  <2>1. q # <<>> /\ rptr' = Head(q) /\ q' = Tail(q) /\ rpc' = "got" /\ rpc = "idle"
        /\ UNCHANGED <<slot, spc, sptr>>
    BY <1>1 DEF OSQPend, sendVars
  <2>2. Range(q') = Range(q) \ {Head(q)}
    BY <2>1, TailOfDistinct DEF TypeOK, OwnedOnce
  <2>3. Queued \subseteq Queued' \cup InHand' /\ InHand = {} /\ BeingSent' = BeingSent
    BY <2>1, <2>2 DEF Queued, InHand, BeingSent
  <2> QED BY <2>1, <2>3 DEF NoneLost
<1>2. CASE OSQBlock
  BY <1>2 DEF OSQBlock, sendVars, NoneLost, Queued, InHand, BeingSent
<1>3. CASE ReceiveCopy
  <2>1. /\ rpc = "got" /\ rptr \in Slots /\ rpc' = "idle"
        /\ slot' = [slot EXCEPT ![rptr] = Empty]
        /\ UNCHANGED <<q, spc, sptr>>
    BY <1>3 DEF ReceiveCopy, sendVars, InProgress, TypeOK
  <2>2. Queued' = Queued /\ BeingSent' = BeingSent /\ InHand = {rptr}
    BY <2>1 DEF Queued, BeingSent, InHand
  <2> QED BY <2>1, <2>2 DEF NoneLost, TypeOK
<1> QED BY <1>1, <1>2, <1>3 DEF Receive

LEMMA FlushKeepsSlots ==
  ASSUME Sound, NoneLost, Flush
  PROVE  NoneLost'
BY DEF Flush, FlushQueue, FlushPool, NoneLost

(* Until an interrupt sends in a gap the queue loses no slot: a send finds *)
(* no free slot only when all of them hold messages on their way.          *)
THEOREM SlotsAreNotLost == Spec => []NoLeak
<1> DEFINE J == IInv /\ Pointers /\ NoLeak
<1>1. Init => J
  BY InitIInv DEF Init, NoLeak, NoneLost
<1>2. J /\ [Next]_vars => J'
  <2> SUFFICES ASSUME IInv, Pointers, NoLeak, [Next]_vars, ~ clashed' PROVE NoneLost'
    BY NextIInv DEF NoLeak
  <2>1. ~ clashed /\ Sound /\ NoneLost
    BY ClashedForGood DEF IInv, NoLeak
  <2>2. CASE UNCHANGED vars
    BY <2>1, <2>2 DEF vars, NoneLost, Queued, InHand, BeingSent
  <2> QED BY <2>1, <2>2, SendKeepsSlots, TickKeepsSlots, ReceiveKeepsSlots, FlushKeepsSlots
          DEF Next
<1> QED BY <1>1, <1>2, PTL DEF Spec
-----------------------------------------------------------------------------
(* The refinement mapping of MsgQ's instance C of Channel.                 *)
Contents == [i \in DOMAIN q |-> slot[q[i]]]
Handed == IF rpc = "got" THEN slot[rptr] ELSE Empty

LEMMA ContentsType ==
  ASSUME Sound
  PROVE  /\ Contents \in Seq(Msgs) /\ Len(Contents) = Len(q) /\ Len(q) \in Nat
         /\ DOMAIN q = 1 .. Len(q)
         /\ \A i \in 1 .. Len(q) : q[i] \in Slots /\ q[i] \in Queued
                                   /\ Contents[i] = slot[q[i]]
         /\ Handed \in Msgs \cup {Empty} /\ (Handed = Empty <=> rpc # "got")
<1>1. Len(q) \in Nat /\ DOMAIN q = 1 .. Len(q) /\ q \in [1 .. Len(q) -> Slots]
  BY LenProperties DEF Sound, TypeOK
<1>2. \A i \in 1 .. Len(q) : q[i] \in Queued /\ slot[q[i]] \in Msgs
  BY <1>1 DEF Sound, NoGhosts, Queued, Range
<1>3. Contents \in [1 .. Len(q) -> Msgs]
  BY <1>1, <1>2 DEF Contents
<1>4. Contents \in Seq(Msgs)
  BY <1>1, <1>3, SeqDef
<1>5. Len(Contents) = Len(q)
  BY <1>1, <1>3, <1>4, LenProperties
<1>6. Handed \in Msgs \cup {Empty} /\ (Handed = Empty <=> rpc # "got")
  BY MsgQAssumption DEF Handed, Sound, NoGhosts, InHand
<1> QED BY <1>1, <1>2, <1>4, <1>5, <1>6 DEF Contents

(* Posting slot s, which holds message m, is a Put of m; the other slots   *)
(* that are queued or in hand keep their content.                          *)
LEMMA PostIsPut ==
  ASSUME Sound, Sound',
         NEW s \in Slots, s \notin Queued \cup InHand,
         NEW m \in Msgs, slot'[s] = m,
         NEW urgent, urgent <=> m \in Urgent, OSQPost(s, urgent),
         \A r \in Queued \cup InHand : slot'[r] = slot[r],
         UNCHANGED got
  PROVE  C!Put(m)
<1> USE MsgQAssumption
<1>1. Len(q) < MaxMsgs
  BY RoomToPost DEF Sound, TypeOK, OwnedOnce, Queued
<1>2. ~ (Len(q) >= MaxQSize) /\ Len(Contents) < MaxMsgs
  BY <1>1, ContentsType
<1>3. CASE rpc = "pend"
  <2>1. q = <<>> /\ q' = q /\ rpc' = "got" /\ rptr' = s
    BY <1>3 DEF OSQPost, Sound, InProgress
  <2>2. Contents = <<>> /\ Contents' = <<>> /\ Handed = Empty /\ Handed' = m
    BY <1>3, <2>1 DEF Contents, Handed
  <2> QED BY <1>2, <2>2 DEF C!Put, Contents, Handed
<1>4. CASE rpc # "pend" /\ m \in Urgent
  <2>1. q' = <<s>> \o q /\ rpc' = rpc /\ rptr' = rptr
    BY <1>2, <1>4 DEF OSQPost
  <2>2. Handed' = Handed
    BY <2>1 DEF Handed, InHand
  <2>3. /\ <<s>> \in Seq(Slots) /\ <<m>> \in Seq(Msgs)
        /\ Len(<<s>>) = 1 /\ Len(<<m>>) = 1 /\ <<s>>[1] = s /\ <<m>>[1] = m
    OBVIOUS
  <2>4. /\ Len(q') = Len(q) + 1
        /\ \A i \in 1 .. Len(q) + 1 : q'[i] = IF i <= 1 THEN s ELSE q[i - 1]
    <3>1. q \in Seq(Slots)
      BY DEF Sound, TypeOK
    <3>2. /\ Len(<<s>> \o q) = 1 + Len(q)
          /\ \A i \in 1 .. 1 + Len(q) : (<<s>> \o q)[i] = IF i <= 1 THEN <<s>>[i] ELSE q[i - 1]
      BY <2>3, <3>1, ConcatProperties
    <3> QED BY <2>1, <2>3, <3>1, <3>2, ContentsType
  <2>5. /\ <<m>> \o Contents \in Seq(Msgs)
        /\ Len(<<m>> \o Contents) = Len(q) + 1
        /\ \A i \in 1 .. Len(q) + 1 :
             (<<m>> \o Contents)[i] = IF i <= 1 THEN m ELSE Contents[i - 1]
    <3>1. Contents \in Seq(Msgs) /\ Len(Contents) = Len(q) /\ Len(q) \in Nat
      BY ContentsType
    <3>2. /\ <<m>> \o Contents \in Seq(Msgs)
          /\ Len(<<m>> \o Contents) = 1 + Len(Contents)
          /\ \A i \in 1 .. 1 + Len(Contents) :
               (<<m>> \o Contents)[i] = IF i <= 1 THEN <<m>>[i] ELSE Contents[i - 1]
      BY <2>3, <3>1, ConcatProperties
    <3> QED BY <2>3, <3>1, <3>2
  <2>6. Contents' \in Seq(Msgs) /\ Len(Contents') = Len(q) + 1
        /\ \A i \in 1 .. Len(q) + 1 : Contents'[i] = slot'[q'[i]]
    BY <2>4, ContentsType DEF Contents
  <2>7. \A i \in 1 .. Len(q) + 1 : Contents'[i] = (<<m>> \o Contents)[i]
    <3> SUFFICES ASSUME NEW i \in 1 .. Len(q) + 1
                 PROVE  Contents'[i] = (<<m>> \o Contents)[i]
      OBVIOUS
    <3>1. CASE i <= 1
      BY <2>4, <2>5, <2>6, <3>1
    <3>2. CASE ~ (i <= 1)
      <4>1. i - 1 \in 1 .. Len(q) /\ q'[i] = q[i - 1]
        BY <2>4, <3>2, ContentsType
      <4>2. slot'[q[i - 1]] = slot[q[i - 1]] /\ Contents[i - 1] = slot[q[i - 1]]
        BY <4>1, ContentsType
      <4> QED BY <2>5, <2>6, <3>2, <4>1, <4>2
    <3> QED BY <3>1, <3>2
  <2>8. Contents' = <<m>> \o Contents
    <3> HIDE DEF Contents
    <3> QED BY <2>5, <2>6, <2>7, SeqEqual
  <2> QED BY <1>2, <1>4, <2>2, <2>8 DEF C!Put, Contents, Handed
<1>5. CASE rpc # "pend" /\ m \notin Urgent
  <2>1. q' = Append(q, s) /\ rpc' = rpc /\ rptr' = rptr
    BY <1>2, <1>5 DEF OSQPost
  <2>2. Handed' = Handed
    BY <2>1 DEF Handed, InHand
  <2>3. /\ Len(q') = Len(q) + 1 /\ q'[Len(q) + 1] = s
        /\ \A i \in 1 .. Len(q) : q'[i] = q[i]
    <3>1. q \in Seq(Slots)
      BY DEF Sound, TypeOK
    <3> QED BY <2>1, <3>1, AppendProperties
  <2>4. /\ Append(Contents, m) \in Seq(Msgs)
        /\ Len(Append(Contents, m)) = Len(q) + 1
        /\ Append(Contents, m)[Len(q) + 1] = m
        /\ \A i \in 1 .. Len(q) : Append(Contents, m)[i] = Contents[i]
    <3>1. Contents \in Seq(Msgs) /\ Len(Contents) = Len(q)
      BY ContentsType
    <3> QED BY <3>1, AppendProperties
  <2>5. Contents' \in Seq(Msgs) /\ Len(Contents') = Len(q) + 1
        /\ \A i \in 1 .. Len(q) + 1 : Contents'[i] = slot'[q'[i]]
    BY <2>3, ContentsType DEF Contents
  <2>6. \A i \in 1 .. Len(q) + 1 : Contents'[i] = Append(Contents, m)[i]
    <3> SUFFICES ASSUME NEW i \in 1 .. Len(q) + 1
                 PROVE  Contents'[i] = Append(Contents, m)[i]
      OBVIOUS
    <3>1. CASE i = Len(q) + 1
      BY <2>3, <2>4, <2>5, <3>1
    <3>2. CASE i # Len(q) + 1
      <4>1. i \in 1 .. Len(q)
        BY <3>2, ContentsType
      <4>2. slot'[q[i]] = slot[q[i]] /\ Contents[i] = slot[q[i]]
        BY <4>1, ContentsType
      <4> QED BY <2>3, <2>4, <2>5, <4>1, <4>2
    <3> QED BY <3>1, <3>2
  <2>7. Contents' = Append(Contents, m)
    <3> HIDE DEF Contents
    <3> QED BY <2>4, <2>5, <2>6, SeqEqual
  <2> QED BY <1>2, <1>5, <2>2, <2>7 DEF C!Put, Contents, Handed
<1> QED BY <1>3, <1>4, <1>5

LEMMA SendRefines ==
  ASSUME Sound, Sound', NEW t \in Tasks, Send(t)
  PROVE  C!Works \/ UNCHANGED <<Contents, Handed, got>>
<1>1. CASE SendScan(t)
  <2>1. UNCHANGED <<slot, q, rpc, rptr, got>>
    BY <1>1 DEF SendScan
  <2> QED BY <2>1 DEF Contents, Handed
<1>2. CASE SendFill(t)
  <2>1. UNCHANGED <<q, rpc, rptr, got>> /\ \A r \in Slots : r # sptr[t] => slot'[r] = slot[r]
    BY <1>2 DEF SendFill, Sound, TypeOK
  <2>2. sptr[t] \notin Queued \cup InHand
    BY <1>2 DEF SendFill, Sound, OwnedOnce, BeingSent
  <2>3. \A i \in DOMAIN q : slot'[q[i]] = slot[q[i]]
    BY <2>1, <2>2, ContentsType
  <2>4. rpc = "got" => slot'[rptr] = slot[rptr]
    BY <2>1, <2>2 DEF InHand, Sound, InProgress, TypeOK
  <2> QED BY <2>1, <2>3, <2>4 DEF Contents, Handed
<1>3. CASE SendPost(t)
  <2>1. PICK r \in Slots, m \in Msgs : r = sptr[t] /\ m = slot[r]
    BY <1>3 DEF SendPost, Sound, InProgress, TypeOK
  <2>2. /\ slot' = slot /\ got' = got /\ slot'[r] = m
        /\ r \notin Queued \cup InHand
        /\ OSQPost(r, m \in Urgent)
    BY <1>3, <2>1 DEF SendPost, Sound, OwnedOnce, BeingSent
  <2>3. C!Put(m)
    BY <2>1, <2>2, PostIsPut
  <2> QED BY <2>3 DEF C!Works
<1> QED BY <1>1, <1>2, <1>3 DEF Send

LEMMA TickRefines ==
  ASSUME Sound, Sound', ~ clashed', TickSend
  PROVE  C!Works
<1>1. FirstFree \in Slots /\ slot[FirstFree] = Empty
  BY FirstFreeIsFree DEF TickSend
<1>2. FirstFree \notin Queued \cup InHand
  BY <1>1, MsgQAssumption DEF Sound, NoGhosts
<1>3. PICK m \in Msgs \ Urgent : slot' = [slot EXCEPT ![FirstFree] = m]
  BY DEF TickSend
<1>4. slot'[FirstFree] = m /\ \A r \in Slots : r # FirstFree => slot'[r] = slot[r]
  BY <1>1, <1>3 DEF Sound, TypeOK
<1>5. Queued \cup InHand \subseteq Slots
  BY LenProperties DEF Sound, TypeOK, Queued, InHand, InProgress, Range
<1>6. PICK r \in Slots : r = FirstFree
  BY <1>1
<1>7. C!Put(m)
  <2>1. got' = got /\ OSQPost(r, FALSE)
    BY <1>6 DEF TickSend
  <2>2. \A o \in Queued \cup InHand : slot'[o] = slot[o]
    BY <1>2, <1>4, <1>5
  <2>3. FALSE <=> m \in Urgent
    BY <1>3
  <2> QED BY <1>2, <1>3, <1>4, <1>6, <2>1, <2>2, <2>3, PostIsPut
<1> QED BY <1>3, <1>7 DEF C!Works

LEMMA ReceiveRefines ==
  ASSUME Sound, Sound', Receive
  PROVE  C!Works \/ UNCHANGED <<Contents, Handed, got>>
<1>1. CASE OSQPend
  <2>1. q # <<>> /\ rptr' = Head(q) /\ q' = Tail(q) /\ rpc' = "got" /\ rpc = "idle"
        /\ UNCHANGED <<slot, got>>
    BY <1>1 DEF OSQPend
  <2>2. /\ Len(q) \in Nat \ {0} /\ Head(q) = q[1]
        /\ Len(q') = Len(q) - 1 /\ \A i \in 1 .. Len(q) - 1 : q'[i] = q[i + 1]
    <3>1. q \in Seq(Slots)
      BY DEF Sound, TypeOK
    <3> QED BY <2>1, <3>1, EmptySeq, HeadTailProperties
  <2>3. /\ Contents \in Seq(Msgs) /\ Contents # <<>> /\ Len(Contents) = Len(q)
        /\ Head(Contents) = Contents[1] /\ Contents[1] = slot[q[1]]
        /\ Tail(Contents) \in Seq(Msgs) /\ Len(Tail(Contents)) = Len(q) - 1
        /\ \A i \in 1 .. Len(q) - 1 : Tail(Contents)[i] = Contents[i + 1]
    <3>1. Contents \in Seq(Msgs) /\ Len(Contents) = Len(q) /\ Contents[1] = slot[q[1]]
      BY <2>2, ContentsType
    <3>2. Contents # <<>>
      BY <2>2, <3>1, EmptySeq
    <3> HIDE DEF Contents
    <3> QED BY <3>1, <3>2, HeadTailProperties
  <2>4. Contents' \in Seq(Msgs) /\ Len(Contents') = Len(q) - 1
        /\ \A i \in 1 .. Len(q) - 1 : Contents'[i] = slot'[q'[i]]
    <3>1. DOMAIN q' = 1 .. Len(q) - 1
      BY <2>1, <2>2, LenProperties DEF Sound, TypeOK
    <3>2. \A i \in 1 .. Len(q) - 1 : i + 1 \in 1 .. Len(q)
      BY <2>2
    <3>3. \A i \in 1 .. Len(q) - 1 : slot'[q'[i]] \in Msgs
      BY <2>1, <2>2, <3>2, ContentsType DEF Sound, NoGhosts
    <3>4. Contents' \in [1 .. Len(q) - 1 -> Msgs] /\ Len(q) - 1 \in Nat
      BY <2>2, <3>1, <3>3 DEF Contents
    <3>5. Contents' \in Seq(Msgs)
      BY <3>4, SeqDef
    <3>6. Len(Contents') = Len(q) - 1
      BY <3>4, <3>5, LenProperties
    <3> QED BY <3>1, <3>5, <3>6 DEF Contents
  <2>5. \A i \in 1 .. Len(q) - 1 : Contents'[i] = Tail(Contents)[i]
    <3> SUFFICES ASSUME NEW i \in 1 .. Len(q) - 1
                 PROVE  Contents'[i] = Tail(Contents)[i]
      OBVIOUS
    <3>1. i + 1 \in 1 .. Len(q)
      BY <2>2
    <3>2. Contents[i + 1] = slot[q[i + 1]]
      BY <3>1, ContentsType
    <3> QED BY <2>1, <2>2, <2>3, <2>4, <3>2
  <2>6. Contents' = Tail(Contents)
    <3> HIDE DEF Contents
    <3> QED BY <2>3, <2>4, <2>5, SeqEqual
  <2>7. Handed = Empty /\ Handed' = Head(Contents)
    BY <2>1, <2>2, <2>3 DEF Handed
  <2>8. C!Take
    BY <2>1, <2>3, <2>6, <2>7 DEF C!Take, Contents, Handed
  <2> QED BY <2>8 DEF C!Works
<1>2. CASE OSQBlock
  <2>1. rpc = "idle" /\ rpc' = "pend" /\ UNCHANGED <<slot, q, rptr, got>>
    BY <1>2 DEF OSQBlock
  <2> QED BY <2>1 DEF Contents, Handed
<1>3. CASE ReceiveCopy
  <2>1. /\ rpc = "got" /\ rptr \in Slots /\ rpc' = "idle" /\ q' = q
        /\ got' = slot[rptr] /\ slot' = [slot EXCEPT ![rptr] = Empty]
    BY <1>3, MsgQAssumption DEF ReceiveCopy, Sound, InProgress, TypeOK
  <2>2. rptr \notin Queued
    BY <2>1 DEF Sound, OwnedOnce, InHand
  <2>3. \A i \in DOMAIN q : slot'[q[i]] = slot[q[i]]
    BY <2>1, <2>2, ContentsType DEF Sound, TypeOK
  <2>4. Contents' = Contents /\ Handed' = Empty /\ Handed = slot[rptr] /\ Handed # Empty
    BY <2>1, <2>3, ContentsType DEF Contents, Handed
  <2>5. C!Return
    BY <2>1, <2>4 DEF C!Return, Contents, Handed
  <2> QED BY <2>5 DEF C!Works
<1> QED BY <1>1, <1>2, <1>3 DEF Receive

LEMMA FlushRefines ==
  ASSUME Sound, Flush
  PROVE  C!Works \/ UNCHANGED <<Contents, Handed, got>>
<1>1. CASE FlushQueue
  <2>1. rpc = "idle" /\ rpc' = "flush" /\ q' = <<>> /\ UNCHANGED <<slot, got>>
    BY <1>1 DEF FlushQueue
  <2>2. Contents' = <<>> /\ Handed' = Handed
    BY <2>1 DEF Contents, Handed
  <2>3. C!Clear
    BY <2>1, <2>2 DEF C!Clear, Contents, Handed
  <2> QED BY <2>3 DEF C!Works
<1>2. CASE FlushPool
  <2>1. q = <<>> /\ q' = q /\ rpc = "flush" /\ rpc' = "idle" /\ got' = got
    BY <1>2 DEF FlushPool, Sound, InProgress
  <2> QED BY <2>1 DEF Contents, Handed
<1> QED BY <1>1, <1>2 DEF Flush

(* Every step of the queue is a step of a bounded first-in first-out       *)
(* channel, or an interrupt's send in a gap, which breaks the channel:     *)
(* until then what a send accepts is received once, unchanged and in order *)
(* (urgent messages first), and nothing else is ever received.             *)
THEOREM QueueImplementsChannel == Spec => ImplementsChannel
<1>1. Init => C!Init
  BY DEF Init, C!Init
<1>2. IInv /\ Pointers /\ IInv' /\ [Next]_vars => [C!Next]_(C!chanVars)
  <2> SUFFICES ASSUME IInv, IInv', [Next]_vars
               PROVE  C!Next \/ UNCHANGED C!chanVars
    OBVIOUS
  <2>1. CASE clashed'
    BY <2>1 DEF C!Next, C!Break
  <2>2. CASE UNCHANGED vars
    BY <2>2 DEF vars, C!chanVars
  <2>3. CASE ~ clashed' /\ Next
    <3>1. ~ clashed /\ Sound /\ Sound'
      BY <2>3, ClashedForGood DEF IInv
    <3>2. C!Works \/ UNCHANGED <<Contents, Handed, got>>
      BY <2>3, <3>1, SendRefines, TickRefines, ReceiveRefines, FlushRefines DEF Next
    <3>3. clashed' = clashed
      BY <2>3, <3>1 DEF IInv, TypeOK
    <3> QED BY <3>2, <3>3 DEF C!Next, C!chanVars, Contents, Handed
  <2> QED BY <2>1, <2>2, <2>3
<1> QED BY <1>1, <1>2, InitIInv, NextIInv, PTL DEF Spec, ImplementsChannel, C!Spec
=============================================================================
