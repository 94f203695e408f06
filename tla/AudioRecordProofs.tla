-------------------------- MODULE AudioRecordProofs --------------------------
(***************************************************************************)
(* The audio task with its callers is a correct user of the heap and of    *)
(* the DMA driver: each of its steps is one of theirs or leaves them       *)
(* alone.  What HeapProofs and DmaProofs prove of the two holds when they  *)
(* are put together.                                                       *)
(*                                                                         *)
(* On that rest the task's own properties.  AudioInv says where the task   *)
(* and the caller that waits for it can be, whose the heap's blocks are,   *)
(* and where the channel is with the buffers; every step keeps it.         *)
(***************************************************************************)
EXTENDS AudioRecord, HeapProofs, DmaProofs

\* Addresses are natural numbers and indices name a buffer.
Addresses ==
  /\ ready \in Nat /\ next \in Nat
  /\ pcmIndex \in Idx
  /\ input \in [Idx -> Nat]
  /\ frame \in [Idx -> [addr : Nat, used : BOOLEAN]]
  /\ dbf \in Nat
  /\ others \subseteq Nat

\* A step of the heap, one of the driver, and addresses after it.
Composed ==
  /\ [HeapNext]_blocks
  /\ [DmaNext \/ OwnerStep]_dmaVars
  /\ Addresses'

USE DEF Idx, AVI_ENCODE_PCM_BUFFER_NO

LEMMA NextIndexOK == ASSUME NEW k \in Idx PROVE NextIndex(k) \in Idx
  BY DEF NextIndex

LEMMA SamplesOK == ASSUME Addresses, NEW i \in Idx PROVE Samples(i) \in Nat
  BY DEF Addresses, Samples, HEADER

LEMMA LengthOK ==
  /\ Length \in Nat
  /\ AVI_ENCODE_PCM_BUFFER_NO * Length \in Nat \ {0}
  BY AudioAssumption DEF Length

LEMMA BuffersOK == ASSUME NEW p \in Nat PROVE Buffers(p) \in [Idx -> Nat]
  BY LengthOK DEF Buffers

(* The heap is left alone.                                                 *)
LEMMA SameHeap == UNCHANGED blocks => [HeapNext]_blocks
  OBVIOUS

(* The driver is left alone.                                               *)
LEMMA SameDma == UNCHANGED dmaVars => [DmaNext \/ OwnerStep]_dmaVars
  OBVIOUS

LEMMA SetNextStep ==
  ASSUME Addresses, NEW t \in Nat, SetNext(t), UNCHANGED dmaTasks
  PROVE  [DmaNext \/ OwnerStep]_dmaVars
  BY DEF Addresses, SetNext, dmaTasks, OwnerStep, OwnerActs

LEMMA FreeChannelStep ==
  ASSUME Addresses, channel' = DoubleBufFree(channel, dbf), UNCHANGED dmaTasks
  PROVE  [DmaNext \/ OwnerStep]_dmaVars
  BY DEF Addresses, dmaTasks, OwnerStep, OwnerActs

LEMMA FreeStep ==
  ASSUME NEW p \in Nat, gp_free(p)
  PROVE  [HeapNext]_blocks
  BY DEF HeapNext

LEMMA MemoryFreeStep ==
  ASSUME Addresses, MemoryFree
  PROVE  [HeapNext]_blocks /\ input' \in [Idx -> Nat]
<1>1. input[0] \in Nat
  BY DEF Addresses
<1> QED
  BY <1>1, FreeStep DEF MemoryFree, Nowhere, NULL
-----------------------------------------------------------------------------
(* The messages of the task.                                               *)
LEMMA DoneSteps ==
  ASSUME Addresses,
         DoneWhenStopping \/ DoneForUsb \/ BufferError \/ WaitForPacker \/ DoneForPacker
  PROVE  Composed
<1>1. DUMMY \in Nat
  BY DEF DUMMY
<1>2. CASE DoneWhenStopping
  BY <1>1, <1>2, SameHeap, SetNextStep
     DEF DoneWhenStopping, Composed, Addresses, elsewhere
<1>3. CASE DoneForUsb
  <2>1. input[pcmIndex] \in Nat /\ NextIndex(pcmIndex) \in Idx
    BY NextIndexOK DEF Addresses
  <2>2. [DmaNext \/ OwnerStep]_dmaVars
    BY <1>3, <2>1, SetNextStep DEF DoneForUsb, elsewhere
  <2> QED
    BY <1>3, <2>1, <2>2, SameHeap DEF DoneForUsb, Composed, Addresses, elsewhere
<1>4. CASE BufferError
  BY <1>4, SameHeap, SameDma
     DEF BufferError, Composed, Addresses, elsewhere, dmaTasks, dmaVars
<1>5. CASE WaitForPacker
  BY <1>1, <1>5, SameHeap, SetNextStep
     DEF WaitForPacker, Composed, Addresses, elsewhere
<1>6. CASE DoneForPacker
  <2>1. PICK w \in Recorded, i \in Available :
          /\ ready' = next
          /\ next' = Samples(i)
          /\ SetNext(Samples(i))
          /\ \/ UNCHANGED frame
             \/ frame' = [frame EXCEPT ![w].used = TRUE]
    BY <1>6 DEF DoneForPacker
  <2>2. w \in Idx /\ i \in Idx
    BY DEF Recorded, Available
  <2>3. Samples(i) \in Nat
    BY <2>2, SamplesOK
  <2>4. [DmaNext \/ OwnerStep]_dmaVars
    BY <1>6, <2>1, <2>3, SetNextStep DEF DoneForPacker, elsewhere
  <2>5. frame' \in [Idx -> [addr : Nat, used : BOOLEAN]]
    BY <2>1, <2>2 DEF Addresses
  <2> QED
    BY <1>6, <2>1, <2>3, <2>4, <2>5, SameHeap
       DEF DoneForPacker, Composed, Addresses, elsewhere
<1> QED
  BY <1>2, <1>3, <1>4, <1>5, <1>6

(* What a start leaves in the addresses.                                   *)
LEMMA SetUpAddresses ==
  ASSUME Addresses, NEW p \in Nat, SetUp(p)
  PROVE  /\ ready' \in Nat /\ next' \in Nat /\ pcmIndex' \in Idx
         /\ frame' \in [Idx -> [addr : Nat, used : BOOLEAN]]
<1>1. Buffers(p) \in [Idx -> Nat]
  BY BuffersOK
<1>2. CASE "USB_WEBCAM" \in status
  <2> DEFINE second == NextIndex(pcmIndex)
  <2>1. pcmIndex \in Idx /\ second \in Idx /\ NextIndex(second) \in Idx
    BY NextIndexOK DEF Addresses
  <2>2. /\ ready' = Buffers(p)[pcmIndex]
        /\ next' = Buffers(p)[second]
        /\ pcmIndex' = NextIndex(second)
        /\ frame' = frame
    BY <1>2 DEF SetUp
  <2> QED
    BY <1>1, <2>1, <2>2 DEF Addresses
<1>3. CASE "USB_WEBCAM" \notin status
  <2> DEFINE at == [i \in Idx |-> Buffers(p)[(pcmIndex + i) % AVI_ENCODE_PCM_BUFFER_NO]]
  <2>1. \A i \in Idx : (pcmIndex + i) % AVI_ENCODE_PCM_BUFFER_NO \in Idx
    BY DEF Addresses
  <2>2. at \in [Idx -> Nat]
    BY <1>1, <2>1
  <2>3. /\ frame' = [i \in Idx |-> [addr |-> at[i], used |-> FALSE]]
        /\ ready' = at[0] + HEADER
        /\ next' = at[1] + HEADER
        /\ pcmIndex' = pcmIndex
    BY <1>3 DEF SetUp
  <2> HIDE DEF at
  <2> QED
    BY <2>2, <2>3 DEF Addresses, HEADER
<1> QED
  BY <1>2, <1>3

LEMMA StartSteps ==
  ASSUME Addresses, HeapInv, StartNoMemory \/ StartNoChannel \/ StartOk
  PROVE  Composed
<1> DEFINE size == AVI_ENCODE_PCM_BUFFER_NO * Length
<1>1. size \in Nat \ {0} /\ Length \in Nat
  BY LengthOK
<1>2. Nowhere \in [Idx -> Nat] /\ NO_CHANNEL \in Nat /\ NULL \in Nat
  BY DEF Nowhere, NULL, NO_CHANNEL
<1>3. \A b \in FirstFit(size, 4, 1) : Data(b, 4) \in Nat
  BY DataAbove DEF FirstFit, HeapInv
<1> HIDE DEF size
<1>4. CASE StartNoMemory
  <2>1. gp_malloc_align(size, 4, NULL) /\ StartFails(channel) /\ UNCHANGED dmaTasks
    BY <1>4 DEF StartNoMemory, size, elsewhere
  <2>2. [HeapNext]_blocks
    BY <1>1, <1>2, <2>1 DEF HeapNext
  <2>3. [DmaNext \/ OwnerStep]_dmaVars
    BY <2>1, FreeChannelStep DEF StartFails
  <2> QED
    BY <1>2, <1>4, <2>2, <2>3 DEF StartNoMemory, StartFails, Composed, Addresses, elsewhere
<1>5. CASE StartNoChannel
  <2>1. PICK b \in FirstFit(size, 4, 1) : SetUp(Data(b, 4))
    BY <1>5 DEF StartNoChannel, size
  <2>2. /\ ready' \in Nat /\ next' \in Nat /\ pcmIndex' \in Idx
        /\ frame' \in [Idx -> [addr : Nat, used : BOOLEAN]]
    BY <1>3, <2>1, SetUpAddresses
  <2>3. [DmaNext \/ OwnerStep]_dmaVars
    BY <1>5, FreeChannelStep DEF StartNoChannel, StartFails, elsewhere
  <2> QED
    BY <1>2, <1>5, <2>2, <2>3, SameHeap
       DEF StartNoChannel, StartFails, Composed, Addresses, elsewhere
<1>6. CASE StartOk
  <2>1. PICK b \in FirstFit(size, 4, 1) :
          /\ gp_malloc_align(size, 4, Data(b, 4))
          /\ SetUp(Data(b, 4))
          /\ input' = Buffers(Data(b, 4))
    BY <1>6 DEF StartOk, size
  <2>2. PICK c \in GetChannel(FALSE) :
          /\ channel' = DoubleBufSet(TransferExtend(c, "OCCUPIED", OwnerQueue, ready'), c, next')
          /\ dbf' = c
    BY <1>6 DEF StartOk
  <2>3. /\ ready' \in Nat /\ next' \in Nat /\ pcmIndex' \in Idx
        /\ frame' \in [Idx -> [addr : Nat, used : BOOLEAN]]
    BY <1>3, <2>1, SetUpAddresses
  <2>4. input' \in [Idx -> Nat]
    BY <1>3, <2>1, BuffersOK
  <2>5. dbf' \in Nat
    BY <2>2, DmaAssumption DEF GetChannel, Channels
  <2>6. [HeapNext]_blocks
    BY <1>1, <1>3, <2>1 DEF HeapNext
  <2>7. [DmaNext \/ OwnerStep]_dmaVars
    BY <1>6, <2>2, <2>3 DEF StartOk, OwnerStep, OwnerActs, elsewhere, dmaTasks
  <2> QED
    BY <1>6, <2>3, <2>4, <2>5, <2>6, <2>7 DEF StartOk, Composed, Addresses, elsewhere
<1> QED
  BY <1>4, <1>5, <1>6

LEMMA StopSteps ==
  ASSUME Addresses, DmaTimeout \/ Stoping \/ Stop
  PROVE  Composed
<1>1. CASE DmaTimeout \/ Stoping
  BY <1>1, SameHeap, SameDma
     DEF DmaTimeout, Stoping, Composed, Addresses, elsewhere, dmaTasks, dmaVars
<1>2. CASE Stop
  <2>1. [HeapNext]_blocks /\ input' \in [Idx -> Nat]
    BY <1>2, MemoryFreeStep DEF Stop
  <2>2. [DmaNext \/ OwnerStep]_dmaVars
    BY <1>2, FreeChannelStep DEF Stop, elsewhere
  <2> QED
    BY <1>2, <2>1, <2>2 DEF Stop, NO_CHANNEL, Composed, Addresses, elsewhere
<1> QED
  BY <1>1, <1>2

(* Interrupts, the packer and the other users of the heap.                 *)
LEMMA OutsideSteps ==
  ASSUME Addresses, HeapInv,
         AudioIsr \/ AudioIsrTimeout \/ PackerWrites \/ OtherAllocates \/ OtherFrees
           \/ DriverNext
  PROVE  Composed
<1>1. CASE AudioIsr \/ AudioIsrTimeout
  <2>1. PICK answer \in Statuses : dbf \in Channels /\ IsrOccupied(dbf, answer)
    BY <1>1 DEF AudioIsr, AudioIsrTimeout, Statuses
  <2>2. [DmaNext \/ OwnerStep]_dmaVars
    BY <2>1 DEF OwnerStep, OwnerActs
  <2> QED
    BY <1>1, <2>2, SameHeap DEF AudioIsr, AudioIsrTimeout, Composed, Addresses
<1>2. CASE PackerWrites
  <2>1. frame' = [frame EXCEPT ![Head(packing)].used = FALSE]
    BY <1>2 DEF PackerWrites
  <2>2. frame' \in [Idx -> [addr : Nat, used : BOOLEAN]]
    BY <2>1 DEF Addresses
  <2> QED
    BY <1>2, <2>2, SameHeap, SameDma DEF PackerWrites, Composed, Addresses
<1>3. CASE OtherAllocates
  <2>0. PICK size \in OtherSizes : \E b \in FirstFit(size, 1, 0) :
          /\ gp_malloc(size, Data(b, 1))
          /\ others' = others \cup {Data(b, 1)}
    BY <1>3 DEF OtherAllocates
  <2>1. PICK b \in FirstFit(size, 1, 0) :
          /\ gp_malloc(size, Data(b, 1))
          /\ others' = others \cup {Data(b, 1)}
    BY <2>0
  <2>2. size \in Nat \ {0} /\ Data(b, 1) \in Nat
    BY AudioAssumption, DataAbove DEF FirstFit, HeapInv
  <2>3. [HeapNext]_blocks
    BY <2>1, <2>2 DEF HeapNext
  <2> QED
    BY <1>3, <2>1, <2>2, <2>3, SameDma DEF OtherAllocates, Composed, Addresses, taskVars
<1>4. CASE OtherFrees
  <2>1. PICK p \in others : gp_free(p) /\ others' = others \ {p}
    BY <1>4 DEF OtherFrees
  <2>2. [HeapNext]_blocks
    BY <2>1, FreeStep DEF Addresses
  <2> QED
    BY <1>4, <2>1, <2>2, SameDma DEF OtherFrees, Composed, Addresses, taskVars
<1>5. CASE DriverNext
  BY <1>5, SameHeap DEF DriverNext, Composed, Addresses, audioSide, taskVars
<1> QED
  BY <1>1, <1>2, <1>3, <1>4, <1>5

LEMMA CallerSteps ==
  ASSUME Addresses, EncStart \/ EncStop \/ WebcamStart \/ WebcamStop \/ CallerGoesOn
  PROVE  Composed
<1>1. CASE EncStopped \/ WebcamStopped
  <2>1. CASE UNCHANGED <<blocks, input>>
    BY <1>1, <2>1, SameHeap, SameDma
       DEF EncStopped, WebcamStopped, Composed, Addresses
  <2>2. CASE MemoryFree
    <3>1. [HeapNext]_blocks /\ input' \in [Idx -> Nat]
      BY <2>2, MemoryFreeStep
    <3> QED
      BY <1>1, <3>1, SameDma DEF EncStopped, WebcamStopped, Composed, Addresses
  <2> QED
    BY <1>1, <2>1, <2>2 DEF EncStopped, WebcamStopped
<1>2. CASE EncStart \/ EncStop \/ WebcamStart \/ WebcamStop \/ EncStarted \/ EncRuns
             \/ WebcamStoping
  <2>1. UNCHANGED outside
    BY <1>2 DEF EncStart, EncStop, WebcamStart, WebcamStop, EncStarted, EncRuns,
                WebcamStoping
  <2> QED
    BY <2>1, SameHeap, SameDma DEF outside, Composed, Addresses
<1> QED
  BY <1>1, <1>2 DEF CallerGoesOn

LEMMA StepComposed ==
  Addresses /\ HeapInv /\ [Next]_vars => Composed
<1> SUFFICES ASSUME Addresses, HeapInv, [Next]_vars PROVE Composed
  OBVIOUS
<1>1. CASE UNCHANGED vars
  BY <1>1, SameHeap, SameDma DEF vars, taskVars, Composed, Addresses
<1>2. CASE AudioTask
  BY <1>2, DoneSteps, StartSteps, StopSteps DEF AudioTask
<1> QED
  BY <1>1, <1>2, OutsideSteps, CallerSteps DEF Next

LEMMA InitComposed ==
  Init => Addresses /\ HeapInv /\ HeapInit /\ DmaInit
  BY InitApart DEF Init, Addresses, NULL

LEMMA AlwaysComposed ==
  Spec => [](Addresses /\ HeapInv) /\ [][Composed]_vars
<1>1. Addresses /\ HeapInv /\ [Next]_vars => Addresses' /\ HeapInv'
  BY StepComposed, HeapStepApart DEF Composed
<1> QED
  BY <1>1, InitComposed, StepComposed, PTL DEF Spec

(* The sound task and its callers use the heap as its users may: its       *)
(* blocks lie apart however recordings and USB sessions start, fail, stop  *)
(* and are given up (avi_audio_memory_allocate, avi_audio_memory_free).    *)
THEOREM AudioBlocksApart == Spec => []BlocksApart
<1>1. HeapInv => BlocksApart
  BY DEF HeapInv
<1> QED
  BY <1>1, AlwaysComposed, PTL

(* The sound task's double buffering is a part of the DMA driver's         *)
(* specification: it implements DmaSpec, so that it never takes another    *)
(* task's answer (avi_adc_double_buffer_put, _set and _free).              *)
THEOREM AudioImplementsDma == Spec => DmaSpec
<1>1. Composed => [DmaNext \/ OwnerStep]_dmaVars
  BY DEF Composed
<1>2. [Next]_vars /\ Addresses /\ HeapInv => [DmaNext \/ OwnerStep]_dmaVars
  BY <1>1, StepComposed
<1>3. Init => DmaInit
  BY InitComposed
<1> QED
  BY <1>2, <1>3, AlwaysComposed, PTL DEF Spec, DmaSpec

(* A task that waits for a DMA transfer gets its own answer beside the     *)
(* sound that is recorded (dma_transfer_wait_ready, dma_isr).              *)
THEOREM AudioAnswersReach == Spec => []AnswersReach
  BY AudioImplementsDma, DmaAnswersReach, PTL
-----------------------------------------------------------------------------
(* The inductive invariant of the sound task and its callers.              *)

\* The sound is for USB; else it is for a recording.
Cam == caller \in {"webcam", "clearing", "unplugging"}
Words == IF Cam THEN CamLen ELSE RecLen
HasMemory == input[0] # NULL
Silent == input = Nowhere /\ InUse = {}

\* What the queue holds, by what is first in it.
Quiet == {<<>>, <<"DONE">>, <<"TIMEOUT">>}
Asked(msg) == {<<msg>>, <<msg, "DONE">>, <<msg, "TIMEOUT">>}
Pending == audQ \in {<<"DONE">>, <<"STOPING", "DONE">>, <<"STOP", "DONE">>}
TimedOut == audQ \in {<<"TIMEOUT">>, <<"STOPING", "TIMEOUT">>, <<"STOP", "TIMEOUT">>}

QueueInv ==
  /\ audQ \in Quiet \cup {<<"START">>} \cup Asked("STOPING") \cup Asked("STOP")
  /\ TimedOut => InUse = {}

\* Between a caller's request and the task's answer.
Starts ==
  IF ack = "none" THEN audQ = <<"START">> /\ Silent
  ELSE /\ audQ \in Quiet
       /\ ~ bStop
       /\ HasMemory \/ (Silent /\ audQ = <<>>)
       /\ (ack = "SUCCESS") <=> HasMemory
Runs == audQ \in Quiet /\ ((HasMemory /\ ~ bStop) \/ (Silent /\ audQ = <<>>))
Stops ==
  /\ ack \in {"none", "SUCCESS"}
  /\ audQ # <<"START">>
  /\ audQ \in Asked("STOPING") \/ bStop
  /\ audQ \in Asked("STOP") => bStop
  /\ ack = "SUCCESS" => Silent /\ bStop /\ audQ \notin Asked("STOPING")

CallInv ==
  /\ caller = "idle" => /\ status \in {{}, {"AUDIO", "START"}}
                        /\ audQ = <<>> /\ Silent
  /\ caller = "starting" => status = {} /\ Starts
  /\ caller = "webcam" => status = {"USB_WEBCAM"} /\ Starts
  /\ caller = "started" => status = {"AUDIO"} /\ Runs
  /\ caller = "recording" => status = {"AUDIO", "START"} /\ Runs
  /\ caller = "clearing" => status = {} /\ Runs
  /\ caller = "stopping" => status = {"AUDIO", "START"} /\ Stops
  /\ caller = "unplugging" => status = {} /\ Stops

\* The heap's blocks have one holder each, and the task's has room for three
\* buffers.
MemoryInv ==
  /\ HeapAccounted
  /\ others \cap {NULL, HeapStart + 2} = {}
  /\ input[0] \notin others \cup {HeapStart + 2}
  /\ input[0] % 4 = 0
  /\ IF HasMemory
       THEN /\ \A i \in Idx : input[i] = input[0] + i * Words
            /\ \A b \in blocks : b.head + 2 = input[0] => b.end = input[0] + 3 * Words - 1
       ELSE input = Nowhere

\* The blocks of a recording are those of the memory; the addresses of USB
\* are never those of samples.
FrameInv ==
  /\ \A i \in Idx : frame[i].addr % 4 = 0
  /\ HasMemory => IF Cam THEN ready % 4 = 0 /\ next % 4 = 0
                  ELSE \A i \in Idx : frame[i].addr = input[(pcmIndex + i) % 3]

ChannelInv ==
  /\ InUse \subseteq {dbf}
  /\ InUse # {} => HasMemory
  /\ \A c \in InUse : {channel[c].target, channel[c].next} \subseteq
       {DUMMY, NO_TARGET} \cup {input[i] + (IF Cam THEN 0 ELSE HEADER) : i \in Idx}

\* Where the channel is with the two buffers of a recording.
Goes(t, x, full) ==
  /\ channel[dbf].target = t
  /\ channel[dbf].next = x
  /\ filled = full

RecordInv ==
  ~ Cam /\ ~ bStop /\ InUse # {} =>
    /\ ready # next
    /\ \E i \in Idx : ready = Samples(i)
    /\ \E i \in Idx : next = Samples(i)
    /\ IF Pending
         THEN \/ Goes(next, NO_TARGET, <<ready>>)
              \/ Goes(DUMMY, NO_TARGET, <<ready, next>>)
         ELSE \/ Goes(ready, next, <<>>)
              \/ Goes(next, DUMMY, <<ready>>)
              \/ Goes(DUMMY, DUMMY, <<ready, next>>)
              \/ Goes(DUMMY, next, <<ready>>)

WebcamInv ==
  caller = "webcam" /\ InUse # {} =>
    /\ ready = input[NextIndex(pcmIndex)]
    /\ next = input[NextIndex(NextIndex(pcmIndex))]
    /\ usbBlock \in {NULL, input[pcmIndex]}
    /\ channel[dbf].target = IF Pending THEN next ELSE ready
    /\ channel[dbf].next = IF Pending THEN NO_TARGET ELSE next

\* A full buffer is announced while the channel runs on.
PendingInv ==
  Pending => /\ (~ bStop /\ caller \notin {"clearing", "unplugging"}) => InUse # {}
             /\ Len(packing) < MaxBehind

PackingInv ==
  /\ caller \in {"starting", "started"} \/ Cam => packing = <<>>
  /\ packing # <<>> /\ ~ tardy =>
       /\ Len(packing) = 1
       /\ HasMemory
       /\ ~ Pending
       /\ audQ \notin Asked("STOP")
       /\ \A c \in InUse : channel[c].target # Samples(packing[1])

\* What TypeOK says beyond the types of the driver and of addresses.
TaskTypes ==
  /\ ack \in {"none", "SUCCESS", "FAIL"}
  /\ bStop \in BOOLEAN /\ hung \in BOOLEAN /\ tardy \in BOOLEAN
  /\ usbBlock \in Nat
  /\ dbf \in Channels \cup {NO_CHANNEL}
  /\ caller \in {"idle", "starting", "started", "recording", "stopping",
                 "webcam", "clearing", "unplugging"}
  /\ packing \in Seq(Idx) /\ Len(packing) <= MaxBehind
  /\ filled \in Seq(Nat)
  /\ lost \in 0 .. MaxLost

AudioInv ==
  /\ Addresses /\ TaskTypes
  /\ QueueInv /\ CallInv
  /\ MemoryInv /\ FrameInv /\ ChannelInv
  /\ RecordInv /\ WebcamInv /\ PendingInv /\ PackingInv
-----------------------------------------------------------------------------
(* Short sequences are known by their elements.                            *)
LEMMA Single ==
  ASSUME NEW S, NEW s \in Seq(S), Len(s) = 1
  PROVE  s = <<s[1]>>
  BY Z3

LEMMA Pair ==
  ASSUME NEW S, NEW s \in Seq(S), Len(s) = 2
  PROVE  s = <<s[1], s[2]>>
  BY Z3

LEMMA AppendSingle ==
  ASSUME NEW S, NEW a \in S
  PROVE  Append(<<>>, a) = <<a>>
<1>1. Append(<<>>, a) \in Seq(S) /\ Len(Append(<<>>, a)) = 1 /\ Append(<<>>, a)[1] = a
  OBVIOUS
<1> QED
  BY <1>1, Single

LEMMA AppendPair ==
  ASSUME NEW S, NEW a \in S, NEW b \in S
  PROVE  Append(<<a>>, b) = <<a, b>>
<1> DEFINE s == <<a>>
<1>1. s \in Seq(S) /\ Len(s) = 1 /\ s[1] = a
  OBVIOUS
<1> HIDE DEF s
<1>2. /\ Append(s, b) \in Seq(S) /\ Len(Append(s, b)) = 2
      /\ Append(s, b)[1] = a /\ Append(s, b)[2] = b
  BY <1>1 DEF s
<1> QED
  BY <1>2, Pair DEF s

LEMMA SubSeqSingle ==
  ASSUME NEW a \in Nat, NEW b \in Nat
  PROVE  SubSeq(<<a, b>>, 1, 1) = <<a>> /\ SubSeq(<<a, b>>, 2, 2) = <<b>>
<1> DEFINE s == <<a, b>>
<1>1. s \in Seq(Nat) /\ Len(s) = 2 /\ s[1] = a /\ s[2] = b
  OBVIOUS
<1> HIDE DEF s
<1>2. /\ SubSeq(s, 1, 1) \in Seq(Nat) /\ Len(SubSeq(s, 1, 1)) = 1 /\ SubSeq(s, 1, 1)[1] = a
      /\ SubSeq(s, 2, 2) \in Seq(Nat) /\ Len(SubSeq(s, 2, 2)) = 1 /\ SubSeq(s, 2, 2)[1] = b
  BY <1>1
<1> QED
  BY <1>2, Single DEF s

(* The queue.                                                              *)

(* What can be in the queue.                                               *)
LEMMA QueueCases ==
  ASSUME QueueInv
  PROVE  \/ audQ = <<>>
         \/ \E msg \in {"START", "DONE", "TIMEOUT", "STOPING", "STOP"} : audQ = <<msg>>
         \/ \E msg \in {"STOPING", "STOP"}, answer \in Statuses : audQ = <<msg, answer>>
  BY DEF QueueInv, Quiet, Asked, Statuses

(* What is left when the first message has been taken.                     *)
LEMMA Received ==
  ASSUME QueueInv
  PROVE  /\ Receives("DONE") => audQ = <<"DONE">> /\ Tail(audQ) = <<>>
         /\ Receives("TIMEOUT") => audQ = <<"TIMEOUT">> /\ Tail(audQ) = <<>>
         /\ Receives("START") => audQ = <<"START">> /\ Tail(audQ) = <<>>
         /\ \A msg \in {"STOPING", "STOP"} : Receives(msg) =>
              \/ audQ = <<msg>> /\ Tail(audQ) = <<>>
              \/ \E answer \in Statuses : audQ = <<msg, answer>> /\ Tail(audQ) = <<answer>>
<1>1. CASE audQ = <<>>
  BY <1>1 DEF Receives
<1>2. ASSUME NEW msg \in {"START", "DONE", "TIMEOUT", "STOPING", "STOP"}, audQ = <<msg>>
      PROVE  Head(audQ) = msg /\ Tail(audQ) = <<>>
  BY <1>2
<1>3. ASSUME NEW msg \in {"STOPING", "STOP"}, NEW answer \in Statuses,
             audQ = <<msg, answer>>
      PROVE  Head(audQ) = msg /\ Tail(audQ) = <<answer>>
  BY <1>3
<1> QED
  BY <1>1, <1>2, <1>3, QueueCases DEF Receives

(* What the interrupt finds, and what it adds.                             *)
LEMMA Interrupted ==
  ASSUME QueueInv, ~ TimedOut, "DONE" \notin ToSet(audQ), NEW msg \in Statuses
  PROVE  \/ audQ = <<>> /\ Append(audQ, msg) = <<msg>>
         \/ audQ = <<"START">>
         \/ audQ = <<"STOPING">> /\ Append(audQ, msg) = <<"STOPING", msg>>
         \/ audQ = <<"STOP">> /\ Append(audQ, msg) = <<"STOP", msg>>
<1>1. CASE audQ = <<>>
  BY <1>1
<1>2. ASSUME NEW m \in {"START", "DONE", "TIMEOUT", "STOPING", "STOP"}, audQ = <<m>>
      PROVE  /\ m \in ToSet(audQ)
             /\ m # "TIMEOUT"
             /\ Append(audQ, msg) = <<m, msg>>
  <2>1. m \in ToSet(audQ)
    BY <1>2 DEF ToSet
  <2>2. m # "TIMEOUT"
    BY <1>2 DEF TimedOut
  <2>3. Append(audQ, msg) = <<m, msg>>
    <3>1. msg \in {"START", "DONE", "TIMEOUT", "STOPING", "STOP"}
      BY DEF Statuses
    <3> QED
      BY <1>2, <3>1, AppendPair, Zenon
  <2> QED
    BY <2>1, <2>2, <2>3
<1>3. ASSUME NEW m \in {"STOPING", "STOP"}, NEW answer \in Statuses, audQ = <<m, answer>>
      PROVE  FALSE
  <2>1. answer \in ToSet(audQ)
    BY <1>3 DEF ToSet
  <2>2. answer # "TIMEOUT"
    BY <1>3 DEF TimedOut
  <2> QED
    BY <2>1, <2>2 DEF Statuses
<1> QED
  BY <1>1, <1>2, <1>3, QueueCases

(* The channel.                                                            *)
LEMMA SetNextInUse ==
  ASSUME DmaInv, ChannelInv, NEW t \in Nat, SetNext(t)
  PROVE  /\ InUse' = InUse
         /\ \A c \in InUse : /\ channel'[c].target = channel[c].target
                             /\ channel'[c].next = t
  BY DEF DmaInv, DmaTypeOK, ChannelType, ChannelInv, InUse, SetNext, DoubleBufSet

LEMMA FreeInUse ==
  ASSUME DmaInv, ChannelInv, channel' = DoubleBufFree(channel, dbf)
  PROVE  InUse' = {}
  BY DEF DmaInv, DmaTypeOK, ChannelType, ChannelInv, InUse, DoubleBufFree, Unused

LEMMA DriverInUse ==
  ASSUME DmaInv, DmaNext
  PROVE  /\ InUse' = InUse
         /\ \A c \in InUse : channel'[c] = channel[c]
<1>1. ASSUME NEW w \in Waiters,
             GetQueue(w) \/ StartRefused(w) \/ StartEmpty(w) \/ EndTransfer(w)
      PROVE  channel' = channel
  BY <1>1 DEF GetQueue, StartRefused, StartEmpty, EndTransfer
<1>2. ASSUME NEW c \in Channels, NEW v, channel[c].usage # "OCCUPIED",
             v.usage # "OCCUPIED", channel' = [channel EXCEPT ![c] = v]
      PROVE  /\ InUse' = InUse
             /\ \A d \in InUse : channel'[d] = channel[d]
  BY <1>2 DEF DmaInv, DmaTypeOK, ChannelType, InUse
<1>3. ASSUME NEW q, NEW internal \in BOOLEAN, NEW c \in GetChannel(internal),
             channel' = TransferExtend(c, "NORMAL", q, NO_TARGET)
      PROVE  /\ InUse' = InUse
             /\ \A d \in InUse : channel'[d] = channel[d]
  BY <1>2, <1>3 DEF GetChannel, TransferExtend
<1>6. ASSUME (\E w \in Waiters : StartTransfer(w)) \/ Transfer
      PROVE  /\ InUse' = InUse
             /\ \A d \in InUse : channel'[d] = channel[d]
  BY <1>3, <1>6 DEF StartTransfer, Transfer
<1>4. ASSUME NEW c \in Channels, NEW answer \in Statuses, IsrNormal(c, answer)
      PROVE  /\ InUse' = InUse
             /\ \A d \in InUse : channel'[d] = channel[d]
  BY <1>2, <1>4 DEF IsrNormal, Unused
<1>5. channel' = channel => /\ InUse' = InUse
                            /\ \A d \in InUse : channel'[d] = channel[d]
  BY DEF InUse
<1> QED
  BY <1>1, <1>4, <1>5, <1>6 DEF DmaNext, WaiterStep

(* A full buffer, or none for too long.                                    *)
LEMMA IsrInUse ==
  ASSUME DmaInv, ChannelInv, NEW status2 \in Statuses, dbf \in Channels,
         IsrOccupied(dbf, status2)
  PROVE  /\ InUse = {dbf}
         /\ status2 = "TIMEOUT" => InUse' = {}
         /\ status2 = "DONE" =>
              /\ InUse' = IF channel[dbf].next = NO_TARGET THEN {} ELSE {dbf}
              /\ channel'[dbf].target = channel[dbf].next
              /\ channel'[dbf].next = NO_TARGET
  BY DEF DmaInv, DmaTypeOK, ChannelType, ChannelInv, InUse, IsrOccupied, Statuses

(* The history.                                                            *)
LEMMA WithoutType ==
  ASSUME NEW s \in Seq(Nat), NEW x
  PROVE  Without(s, x) \in Seq(Nat)
  BY DEF Without, RemoveAt

LEMMA WithoutShort ==
  ASSUME NEW a \in Nat, NEW b \in Nat, a # b, NEW x \in Nat
  PROVE  /\ Without(<<>>, x) = <<>>
         /\ Without(<<a>>, x) = IF x = a THEN <<>> ELSE <<a>>
         /\ Without(<<a, b>>, x) =
              IF x = a THEN <<b>> ELSE IF x = b THEN <<a>> ELSE <<a, b>>
<1>1. Without(<<>>, x) = <<>>
  BY DEF Without
<1>2. Without(<<a>>, x) = IF x = a THEN <<>> ELSE <<a>>
  <2>1. CASE x = a
    <3>1. (CHOOSE k \in DOMAIN <<a>> : <<a>>[k] = x) = 1
      BY <2>1
    <3>2. RemoveAt(<<a>>, 1) = <<>>
      BY DEF RemoveAt
    <3> QED
      BY <2>1, <3>1, <3>2 DEF Without
  <2>2. CASE x # a
    BY <2>2 DEF Without
  <2> QED
    BY <2>1, <2>2
<1>3. Without(<<a, b>>, x) = IF x = a THEN <<b>> ELSE IF x = b THEN <<a>> ELSE <<a, b>>
  <2>1. CASE x = a
    <3>1. (CHOOSE k \in DOMAIN <<a, b>> : <<a, b>>[k] = x) = 1
      BY <2>1
    <3>2. RemoveAt(<<a, b>>, 1) = <<b>>
      <4>1. SubSeq(<<a, b>>, 1, 0) = <<>> /\ SubSeq(<<a, b>>, 2, 2) = <<b>>
        BY SubSeqSingle
      <4>2. <<>> \o <<b>> = <<b>>
        OBVIOUS
      <4>3. 1 - 1 = 0 /\ 1 + 1 = 2 /\ Len(<<a, b>>) = 2
        OBVIOUS
      <4> QED
        BY <4>1, <4>2, <4>3, Zenon DEF RemoveAt
    <3> QED
      BY <2>1, <3>1, <3>2 DEF Without
  <2>2. CASE x = b
    <3>1. (CHOOSE k \in DOMAIN <<a, b>> : <<a, b>>[k] = x) = 2
      BY <2>2
    <3>2. RemoveAt(<<a, b>>, 2) = <<a>>
      <4>1. SubSeq(<<a, b>>, 1, 1) = <<a>> /\ SubSeq(<<a, b>>, 3, 2) = <<>>
        BY SubSeqSingle
      <4>2. <<a>> \o <<>> = <<a>>
        OBVIOUS
      <4>3. 2 - 1 = 1 /\ 2 + 1 = 3 /\ Len(<<a, b>>) = 2
        OBVIOUS
      <4> QED
        BY <4>1, <4>2, <4>3, Zenon DEF RemoveAt
    <3> QED
      BY <2>2, <3>1, <3>2 DEF Without
  <2>3. CASE x # a /\ x # b
    BY <2>3 DEF Without
  <2> QED
    BY <2>1, <2>2, <2>3
<1> QED
  BY <1>1, <1>2, <1>3
-----------------------------------------------------------------------------
(* What an action does not touch stays as it was.                          *)
LEMMA MemoryKept ==
  MemoryInv /\ UNCHANGED <<blocks, others, input, caller>> => MemoryInv'
  BY DEF MemoryInv, HeapAccounted, HasMemory, Words, Cam

LEMMA FrameKept ==
  FrameInv /\ UNCHANGED <<frame, ready, next, input, pcmIndex, caller>> => FrameInv'
  BY DEF FrameInv, HasMemory, Cam

LEMMA ChannelKept ==
  ASSUME ChannelInv, UNCHANGED <<channel, dbf, input, caller>>
  PROVE  ChannelInv' /\ InUse' = InUse
  BY DEF ChannelInv, InUse, HasMemory, Cam

LEMMA ChannelKeptBy ==
  ASSUME DmaInv, ChannelInv, NEW t \in Nat, SetNext(t), UNCHANGED <<dbf, input, caller>>,
         InUse # {} =>
           t \in {DUMMY, NO_TARGET} \cup {input[i] + (IF Cam THEN 0 ELSE HEADER) : i \in Idx}
  PROVE  ChannelInv' /\ InUse' = InUse
<1>1. /\ InUse' = InUse
      /\ \A c \in InUse : /\ channel'[c].target = channel[c].target
                          /\ channel'[c].next = t
  BY SetNextInUse
<1> QED
  BY <1>1 DEF ChannelInv, HasMemory, Cam

(* Where the caller is when the task is told to stop.                      *)
LEMMA WhenStopping ==
  ASSUME TaskTypes, CallInv, bStop, audQ \notin {<<>>, <<"START">>}
  PROVE  caller \in {"stopping", "unplugging"}
  BY DEF TaskTypes, CallInv, Starts, Runs, Quiet, Asked

LEMMA DoneWhenStoppingInv ==
  ASSUME AudioInv, HeapInv, DmaInv, DoneWhenStopping
  PROVE  AudioInv'
<1> USE DEF AudioInv
<1>1. /\ Receives("DONE") /\ bStop /\ SetNext(DUMMY)
      /\ audQ' = Append(Tail(audQ), "STOP")
      /\ UNCHANGED <<blocks, ack, bStop, ready, next, input, pcmIndex, frame, dbf, usbBlock,
                     hung, packing, filled, elsewhere>>
  BY DEF DoneWhenStopping
<1>2. UNCHANGED <<driverQ, waiter, status, caller, others, tardy, lost>>
  BY <1>1 DEF elsewhere, dmaTasks, callerVars, historyVars
<1>3. audQ = <<"DONE">> /\ audQ' = <<"STOP">>
  <2>1. Append(<<>>, "STOP") = <<"STOP">>
    BY AppendSingle
  <2> QED
    BY <1>1, <2>1, Received
<1>4. caller \in {"stopping", "unplugging"}
  BY <1>1, <1>3, WhenStopping
<1>5. Addresses'
  BY DoneSteps DEF Composed
<1>6. TaskTypes'
  BY <1>1, <1>2 DEF TaskTypes
<1>7. ChannelInv' /\ InUse' = InUse
  BY <1>1, <1>2, ChannelKeptBy DEF DUMMY
<1>8. QueueInv'
  BY <1>3 DEF QueueInv, TimedOut, Asked
<1>9. CallInv'
  BY <1>1, <1>2, <1>3, <1>4, <1>7 DEF CallInv, Stops, Silent, Asked, Nowhere
<1>10. MemoryInv' /\ FrameInv'
  BY <1>1, <1>2, MemoryKept, FrameKept
<1>11. RecordInv' /\ WebcamInv'
  BY <1>1, <1>2, <1>4 DEF RecordInv, WebcamInv
<1>12. PendingInv'
  BY <1>3 DEF PendingInv, Pending
<1>13. PackingInv'
  BY <1>1, <1>2, <1>3 DEF PackingInv, Pending, Cam
<1> QED
  BY <1>5, <1>6, <1>7, <1>8, <1>9, <1>10, <1>11, <1>12, <1>13

LEMMA NextIndexRound ==
  /\ NextIndex(0) = 1 /\ NextIndex(1) = 2 /\ NextIndex(2) = 0
  BY DEF NextIndex

(* The three buffers lie in the block, apart, and none is where no memory  *)
(* is.                                                                     *)
LEMMA InputFacts ==
  ASSUME HeapInv, MemoryInv, HasMemory, Addresses
  PROVE  /\ input[0] \in Nat \ {0} /\ Words \in Nat \ {0} /\ Words % 4 = 0
         /\ input[1] = input[0] + Words /\ input[2] = input[0] + 2 * Words
         /\ \A i \in Idx : input[i] \in Nat \ {0} /\ input[i] % 4 = 0
         /\ \E b \in blocks : b.head + 2 = input[0] /\ b.end = input[0] + 3 * Words - 1
         /\ input[0] + 3 * Words < DUMMY
<1>1. Words \in Nat \ {0} /\ Words % 4 = 0
  BY AudioAssumption DEF Words
<1>2. input[0] \in Nat \ {0} /\ input[0] % 4 = 0
  BY DEF MemoryInv, HasMemory, NULL, Addresses
<1>3. input[1] = input[0] + Words /\ input[2] = input[0] + 2 * Words
  BY <1>1, <1>2 DEF MemoryInv
<1>4. \A i \in Idx : input[i] \in Nat \ {0} /\ input[i] % 4 = 0
  <2>1. (input[0] + Words) % 4 = 0 /\ (input[0] + 2 * Words) % 4 = 0
    BY <1>1, <1>2
  <2> QED
    BY <1>1, <1>2, <1>3, <2>1
<1>5. PICK b \in blocks : b.head + 2 = input[0]
  BY DEF MemoryInv, HeapAccounted, HasMemory
<1>6. b.end = input[0] + 3 * Words - 1
  BY <1>5 DEF MemoryInv
<1>7. b.end < LastHead /\ b.end \in Nat
  BY DEF HeapInv, BlocksOK, BlocksApart
<1>8. input[0] + 3 * Words < DUMMY
  BY <1>1, <1>2, <1>6, <1>7, HeapAssumption, AudioAssumption DEF LastHead, DUMMY
<1> QED
  BY <1>1, <1>2, <1>3, <1>4, <1>5, <1>6, <1>8

LEMMA DoneForUsbInv ==
  ASSUME AudioInv, HeapInv, DmaInv, DoneForUsb
  PROVE  AudioInv'
<1> USE DEF AudioInv
<1>1. /\ Receives("DONE") /\ ~ bStop /\ "USB_WEBCAM" \in status
      /\ audQ' = Tail(audQ)
      /\ usbBlock' = ready
      /\ filled' = Without(filled, ready)
      /\ ready' = next
      /\ next' = input[pcmIndex]
      /\ pcmIndex' = NextIndex(pcmIndex)
      /\ SetNext(input[pcmIndex])
      /\ UNCHANGED <<blocks, ack, bStop, input, frame, dbf, hung, packing>>
      /\ UNCHANGED <<driverQ, waiter, status, caller, others, tardy, lost>>
  BY DEF DoneForUsb, elsewhere, dmaTasks, callerVars, historyVars
<1>2. audQ = <<"DONE">> /\ audQ' = <<>>
  BY <1>1, Received
<1>3. caller = "webcam"
  BY <1>1 DEF TaskTypes, CallInv
<1>4. HasMemory
  BY <1>2, <1>3 DEF CallInv, Starts
<1>5. Pending /\ ~ Pending' /\ Cam /\ Cam'
  BY <1>1, <1>2, <1>3 DEF Pending, Cam
<1>6. InUse = {dbf}
  BY <1>1, <1>3, <1>5 DEF PendingInv, ChannelInv
<1>7. /\ ready = input[NextIndex(pcmIndex)]
      /\ next = input[NextIndex(NextIndex(pcmIndex))]
      /\ channel[dbf].target = next
  BY <1>3, <1>5, <1>6 DEF WebcamInv
<1>8. pcmIndex \in Idx /\ input[pcmIndex] \in Nat /\ input[pcmIndex] % 4 = 0
      /\ pcmIndex' \in Idx /\ ready \in Nat
  BY <1>1, <1>4, InputFacts, NextIndexOK DEF Addresses
<1>9. ChannelInv' /\ InUse' = InUse
  <2>1. input[pcmIndex] \in {input[i] + (IF Cam THEN 0 ELSE HEADER) : i \in Idx}
    BY <1>5, <1>8
  <2> QED
    BY <1>1, <1>8, <2>1, ChannelKeptBy
<1>10. /\ channel'[dbf].target = channel[dbf].target
       /\ channel'[dbf].next = input[pcmIndex]
  BY <1>1, <1>6, <1>8, SetNextInUse
<1>11. Addresses'
  BY DoneSteps DEF Composed
<1>12. TaskTypes'
  BY <1>1, <1>8, WithoutType DEF TaskTypes
<1>13. QueueInv' /\ CallInv'
  BY <1>1, <1>2, <1>3, <1>4 DEF QueueInv, TimedOut, CallInv, Starts, Quiet, HasMemory
<1>14. MemoryInv'
  BY <1>1, MemoryKept
<1>15. FrameInv'
  BY <1>1, <1>4, <1>5, <1>8 DEF FrameInv, HasMemory
<1>16. RecordInv'
  BY <1>5 DEF RecordInv
<1>17. WebcamInv'
  <2>1. /\ ready' = input[NextIndex(pcmIndex')]
        /\ next' = input[NextIndex(NextIndex(pcmIndex'))]
        /\ usbBlock' = input[pcmIndex']
    BY <1>1, <1>7, <1>8, NextIndexRound
  <2> QED
    BY <1>1, <1>5, <1>7, <1>10, <2>1 DEF WebcamInv
<1>18. PendingInv' /\ PackingInv'
  BY <1>1, <1>3, <1>5 DEF PendingInv, PackingInv, Cam
<1> QED
  BY <1>9, <1>11, <1>12, <1>13, <1>14, <1>15, <1>16, <1>17, <1>18

(* A block of a recording is one of the buffers, behind its header.        *)
LEMMA SamplesFacts ==
  ASSUME HeapInv, MemoryInv, FrameInv, HasMemory, ~ Cam, Addresses, NEW i \in Idx
  PROVE  /\ Samples(i) \in {input[j] + HEADER : j \in Idx}
         /\ Samples(i) \in Nat \ {0}
         /\ Samples(i) < DUMMY
<1>1. (pcmIndex + i) % 3 \in Idx
  BY DEF Addresses
<1>2. PICK j \in Idx : frame[i].addr = input[j]
  BY <1>1 DEF FrameInv
<1>3. Samples(i) = input[j] + HEADER
  BY <1>2 DEF Samples
<1>4. Words > 4 /\ Words \in Nat
  BY AudioAssumption DEF Words
<1>5. /\ input[0] \in Nat \ {0} /\ input[j] \in Nat \ {0}
      /\ input[j] <= input[0] + 2 * Words
      /\ input[0] + 3 * Words < DUMMY
  BY <1>4, InputFacts
<1>6. Samples(i) = input[j] + 2
  BY <1>3 DEF HEADER
<1>7. Samples(i) \in Nat \ {0} /\ Samples(i) < DUMMY
  BY <1>4, <1>5, <1>6 DEF DUMMY
<1> QED
  BY <1>3, <1>7

(* A full buffer is for the packer only while a recording's channel runs;  *)
(* else usb_webcam_stop has cleared its flag, and the buffer is of none.   *)
LEMMA WhenRecording ==
  ASSUME AudioInv, DmaInv, HeapInv, recording
  PROVE  /\ audQ = <<"DONE">> /\ Tail(audQ) = <<>> /\ Pending
         /\ HasMemory
         /\ \/ caller = "clearing" /\ Recorded = {}
            \/ /\ caller \in {"starting", "started", "recording"}
               /\ ~ Cam /\ InUse = {dbf} /\ Recorded # {}
<1> USE DEF AudioInv
<1>1. audQ = <<"DONE">> /\ Tail(audQ) = <<>> /\ ~ bStop /\ "USB_WEBCAM" \notin status
  BY Received DEF recording
<1>2. Pending
  BY <1>1 DEF Pending
<1>3. caller \in {"starting", "started", "recording", "clearing"} /\ HasMemory
  BY <1>1 DEF TaskTypes, CallInv, Starts, Runs, Stops, Asked
<1>4. CASE caller = "clearing"
  <2>1. ready % 4 = 0 /\ \A i \in Idx : frame[i].addr % 4 = 0 /\ frame[i].addr \in Nat
    BY <1>3, <1>4 DEF FrameInv, Cam, Addresses
  <2>2. \A a \in Nat : a % 4 = 0 => (a + 2) % 4 = 2
    OBVIOUS
  <2>3. Recorded = {}
    BY <2>1, <2>2 DEF Recorded, Samples, HEADER
  <2> QED
    BY <1>1, <1>2, <1>3, <1>4, <2>3
<1>5. CASE caller # "clearing"
  <2>1. ~ Cam
    BY <1>3, <1>5 DEF Cam
  <2>2. InUse = {dbf}
    BY <1>1, <1>2, <1>3, <1>5 DEF PendingInv, ChannelInv
  <2>3. Recorded # {}
    BY <1>1, <2>1, <2>2 DEF RecordInv, Recorded
  <2> QED
    BY <1>1, <1>2, <1>3, <1>5, <2>1, <2>2, <2>3
<1> QED
  BY <1>4, <1>5

LEMMA BufferErrorInv ==
  ASSUME AudioInv, HeapInv, DmaInv, BufferError
  PROVE  AudioInv'
<1> USE DEF AudioInv
<1>1. /\ recording /\ Recorded = {}
      /\ audQ' = Tail(audQ)
      /\ hung' = TRUE
      /\ UNCHANGED <<blocks, channel, ack, bStop, ready, next, input, pcmIndex, frame, dbf,
                     usbBlock, packing, filled>>
      /\ UNCHANGED <<driverQ, waiter, status, caller, others, tardy, lost>>
  BY DEF BufferError, elsewhere, dmaTasks, callerVars, historyVars
<1>2. audQ' = <<>> /\ caller = "clearing" /\ Cam /\ HasMemory /\ ~ bStop
  BY <1>1, WhenRecording DEF Cam, recording
<1>3. ChannelInv' /\ InUse' = InUse
  BY <1>1, ChannelKept
<1>4. Addresses'
  BY DoneSteps DEF Composed
<1>5. TaskTypes'
  BY <1>1 DEF TaskTypes
<1>6. QueueInv' /\ CallInv'
  BY <1>1, <1>2, <1>3 DEF QueueInv, TimedOut, CallInv, Runs, Quiet, HasMemory
<1>7. MemoryInv' /\ FrameInv'
  BY <1>1, MemoryKept, FrameKept
<1>8. RecordInv' /\ WebcamInv' /\ PendingInv' /\ PackingInv'
  BY <1>1, <1>2 DEF RecordInv, WebcamInv, PendingInv, PackingInv, Cam, Pending
<1> QED
  BY <1>3, <1>4, <1>5, <1>6, <1>7, <1>8

LEMMA WaitForPackerInv ==
  ASSUME AudioInv, HeapInv, DmaInv, WaitForPacker
  PROVE  AudioInv'
<1> USE DEF AudioInv
<1>1. /\ recording /\ Recorded # {}
      /\ audQ' = Tail(audQ)
      /\ SetNext(DUMMY)
      /\ UNCHANGED <<blocks, ack, bStop, ready, next, input, pcmIndex, frame, dbf, usbBlock,
                     hung, packing, filled>>
      /\ UNCHANGED <<driverQ, waiter, status, caller, others, tardy, lost>>
  BY DEF WaitForPacker, elsewhere, dmaTasks, callerVars, historyVars
<1>2. /\ audQ' = <<>> /\ caller \in {"starting", "started", "recording"} /\ ~ Cam /\ ~ Cam'
      /\ HasMemory /\ ~ bStop /\ InUse = {dbf} /\ Pending /\ ~ Pending'
  BY <1>1, WhenRecording DEF Cam, recording, Pending
<1>3. ChannelInv' /\ InUse' = InUse
  BY <1>1, ChannelKeptBy DEF DUMMY
<1>4. /\ channel'[dbf].target = channel[dbf].target
      /\ channel'[dbf].next = DUMMY
  BY <1>1, <1>2, SetNextInUse DEF DUMMY
<1>5. Addresses'
  BY DoneSteps DEF Composed
<1>6. TaskTypes'
  BY <1>1 DEF TaskTypes
<1>7. QueueInv' /\ CallInv'
  <2>1. audQ # <<"START">> /\ audQ' \in Quiet
    BY <1>2, WhenRecording, <1>1 DEF Quiet
  <2> QED
    BY <1>1, <1>2, <1>3, <2>1 DEF QueueInv, TimedOut, CallInv, Starts, Runs, HasMemory
<1>8. MemoryInv' /\ FrameInv'
  BY <1>1, MemoryKept, FrameKept
<1>9. RecordInv'
  <2>1. /\ ready # next
        /\ \E i \in Idx : ready = Samples(i)
        /\ \E i \in Idx : next = Samples(i)
        /\ \/ Goes(next, NO_TARGET, <<ready>>)
           \/ Goes(DUMMY, NO_TARGET, <<ready, next>>)
    BY <1>2 DEF RecordInv
  <2>2. \/ Goes(next, DUMMY, <<ready>>)'
        \/ Goes(DUMMY, DUMMY, <<ready, next>>)'
    BY <1>1, <1>4, <2>1 DEF Goes
  <2> QED
    BY <1>1, <1>2, <2>1, <2>2 DEF RecordInv, Samples
<1>10. WebcamInv' /\ PendingInv'
  BY <1>1, <1>2 DEF WebcamInv, PendingInv, Cam
<1>11. PackingInv'
  BY <1>1, <1>2 DEF PackingInv, Cam
<1> QED
  BY <1>3, <1>5, <1>6, <1>7, <1>8, <1>9, <1>10, <1>11

(* The flag of a frame, not its address, changes.                          *)
LEMMA FlagOnly ==
  ASSUME NEW f \in [Idx -> [addr : Nat, used : BOOLEAN]], NEW w \in Idx,
         NEW flag \in BOOLEAN, NEW g, g = [f EXCEPT ![w].used = flag]
  PROVE  /\ g \in [Idx -> [addr : Nat, used : BOOLEAN]]
         /\ \A j \in Idx : g[j].addr = f[j].addr
<1>1. PICK r \in [addr : Nat, used : BOOLEAN] : r = f[w]
  OBVIOUS
<1>2. [r EXCEPT !.used = flag] = [addr |-> r.addr, used |-> flag]
  OBVIOUS
<1>3. g = [f EXCEPT ![w] = [addr |-> r.addr, used |-> flag]]
  BY <1>1, <1>2
<1> QED
  BY <1>1, <1>3

(* A buffer that is full, and the one that is to be next.                  *)
LEMMA DoneForPackerTakes ==
  ASSUME DoneForPacker
  PROVE  \E w \in Recorded, i \in Available :
           /\ ready' = next
           /\ next' = Samples(i)
           /\ SetNext(Samples(i))
           /\ filled' = Without(filled, ready)
           /\ \/ UNCHANGED <<frame, packing>>
              \/ /\ "START" \in status
                 /\ frame' = [frame EXCEPT ![w].used = TRUE]
                 /\ packing' = Append(packing, w)
  BY DEF DoneForPacker

LEMMA DoneForPackerInv ==
  ASSUME AudioInv, HeapInv, DmaInv, DoneForPacker
  PROVE  AudioInv'
<1> USE DEF AudioInv
<1>0. /\ recording
      /\ audQ' = Tail(audQ)
      /\ UNCHANGED <<blocks, ack, bStop, input, pcmIndex, dbf, usbBlock, hung>>
      /\ UNCHANGED <<driverQ, waiter, status, caller, others, tardy, lost>>
  BY DEF DoneForPacker, elsewhere, dmaTasks, callerVars, historyVars
<1>1. PICK w \in Recorded, i \in Available :
        /\ ready' = next
        /\ next' = Samples(i)
        /\ SetNext(Samples(i))
        /\ filled' = Without(filled, ready)
        /\ \/ UNCHANGED <<frame, packing>>
           \/ /\ "START" \in status
              /\ frame' = [frame EXCEPT ![w].used = TRUE]
              /\ packing' = Append(packing, w)
  BY DoneForPackerTakes
<1>2. /\ audQ = <<"DONE">> /\ audQ' = <<>>
      /\ caller \in {"starting", "started", "recording"} /\ ~ Cam /\ ~ Cam'
      /\ HasMemory /\ ~ bStop /\ InUse = {dbf} /\ Pending /\ ~ Pending'
  BY <1>0, <1>1, WhenRecording DEF Cam, recording, Pending
<1>3. /\ w \in Idx /\ i \in Idx
      /\ Samples(w) = ready /\ Samples(i) # next
  BY <1>1 DEF Recorded, Available
<1>4. /\ Samples(i) \in Nat \ {0} /\ ready \in Nat /\ next \in Nat
      /\ Samples(i) \in {input[j] + HEADER : j \in Idx}
      /\ ready < DUMMY /\ ready # 0
  BY <1>2, <1>3, SamplesFacts DEF Addresses
<1>5. ChannelInv' /\ InUse' = InUse
  BY <1>0, <1>1, <1>2, <1>4, ChannelKeptBy
<1>6. /\ channel'[dbf].target = channel[dbf].target
      /\ channel'[dbf].next = Samples(i)
  BY <1>1, <1>2, <1>4, SetNextInUse
<1>7. \A j \in Idx : frame'[j].addr = frame[j].addr
  <2>1. CASE UNCHANGED frame
    BY <2>1
  <2>2. CASE frame' = [frame EXCEPT ![w].used = TRUE]
    BY <1>3, <2>2, FlagOnly DEF Addresses
  <2> QED
    BY <1>1, <2>1, <2>2
<1>8. /\ ready # next
      /\ \E j \in Idx : next = Samples(j)
      /\ \/ Goes(next, NO_TARGET, <<ready>>)
         \/ Goes(DUMMY, NO_TARGET, <<ready, next>>)
  BY <1>2 DEF RecordInv
<1>9. Addresses'
  BY DoneSteps DEF Composed
<1>10. Len(packing) < MaxBehind
  BY <1>2 DEF PendingInv
<1>11. TaskTypes'
  <2>1. packing' \in Seq(Idx) /\ Len(packing') <= MaxBehind
    <3>1. packing \in Seq(Idx) /\ MaxBehind \in Nat
      BY AudioAssumption DEF TaskTypes
    <3>2. packing' = packing \/ packing' = Append(packing, w)
      BY <1>1
    <3> QED
      BY <1>3, <1>10, <3>1, <3>2
  <2> QED
    BY <1>0, <1>1, <1>4, <2>1, WithoutType DEF TaskTypes
<1>12. QueueInv' /\ CallInv'
  <2>1. audQ # <<"START">> /\ audQ' \in Quiet
    BY <1>2 DEF Quiet
  <2> QED
    BY <1>0, <1>2, <1>5, <2>1 DEF QueueInv, TimedOut, CallInv, Starts, Runs, HasMemory
<1>13. MemoryInv'
  BY <1>0, MemoryKept
<1>14. FrameInv'
  BY <1>0, <1>2, <1>7 DEF FrameInv, HasMemory
<1>15. RecordInv'
  <2>1. \/ /\ channel[dbf].target = next
           /\ filled' = <<>>
        \/ /\ channel[dbf].target = DUMMY
           /\ filled' = <<next>>
    <3>1. filled' = Without(filled, ready)
      BY <1>1
    <3>2. /\ Without(<<ready>>, ready) = <<>>
          /\ Without(<<ready, next>>, ready) = <<next>>
      BY <1>4, <1>8, WithoutShort
    <3>3. \/ channel[dbf].target = next /\ filled = <<ready>>
          \/ channel[dbf].target = DUMMY /\ filled = <<ready, next>>
      BY <1>8 DEF Goes
    <3> QED
      BY <3>1, <3>2, <3>3
  <2>2. \/ Goes(ready, next, <<>>)'
        \/ Goes(DUMMY, next, <<ready>>)'
    BY <1>0, <1>1, <1>6, <2>1 DEF Goes
  <2>3. /\ \E j \in Idx : ready' = Samples(j)'
        /\ \E j \in Idx : next' = Samples(j)'
    BY <1>1, <1>3, <1>7, <1>8 DEF Samples
  <2> QED
    BY <1>1, <1>2, <1>3, <2>2, <2>3 DEF RecordInv
<1>16. WebcamInv' /\ PendingInv'
  BY <1>2, <1>0 DEF WebcamInv, PendingInv, Cam
<1>17. PackingInv'
  <2>1. CASE UNCHANGED packing
    BY <1>0, <1>2, <2>1 DEF PackingInv, Cam
  <2>2. CASE /\ "START" \in status
             /\ packing' = Append(packing, w)
    <3>1. caller = "recording" /\ caller' = caller
      BY <1>0, <1>2, <2>2 DEF CallInv
    <3>2. ASSUME ~ tardy' PROVE Len(packing') = 1 /\ packing'[1] = w
      <4>1. packing = <<>>
        BY <1>0, <1>2, <3>2 DEF PackingInv
      <4>2. Append(<<>>, w) = <<w>>
        BY <1>3, AppendSingle
      <4> QED
        BY <2>2, <4>1, <4>2
    <3>3. channel'[dbf].target # Samples(w)'
      <4>1. channel'[dbf].target \in {next, DUMMY}
        BY <1>6, <1>8 DEF Goes
      <4>2. Samples(w)' = ready
        BY <1>3, <1>7 DEF Samples
      <4> QED
        BY <1>4, <1>8, <4>1, <4>2 DEF DUMMY
    <3>4. audQ' \notin Asked("STOP") /\ HasMemory' /\ InUse' = {dbf}
      BY <1>0, <1>2, <1>5 DEF Asked, HasMemory
    <3> QED
      BY <1>2, <3>1, <3>2, <3>3, <3>4 DEF PackingInv
  <2> QED
    BY <1>1, <2>1, <2>2
<1> QED
  BY <1>5, <1>9, <1>11, <1>12, <1>13, <1>14, <1>15, <1>16, <1>17

LEMMA DmaTimeoutInv ==
  ASSUME AudioInv, HeapInv, DmaInv, DmaTimeout
  PROVE  AudioInv'
<1> USE DEF AudioInv
<1>1. /\ Receives("TIMEOUT")
      /\ audQ' = Tail(audQ)
      /\ UNCHANGED <<blocks, channel, ack, bStop, ready, next, input, pcmIndex, frame, dbf,
                     usbBlock, hung, packing, filled>>
      /\ UNCHANGED <<driverQ, waiter, status, caller, others, tardy, lost>>
  BY DEF DmaTimeout, elsewhere, dmaTasks, callerVars, historyVars
<1>2. audQ = <<"TIMEOUT">> /\ audQ' = <<>>
  BY <1>1, Received
<1>3. ChannelInv' /\ InUse' = InUse
  BY <1>1, ChannelKept
<1>4. InUse = {}
  BY <1>2 DEF QueueInv, TimedOut
<1>5. Addresses'
  BY StopSteps DEF Composed
<1>6. TaskTypes'
  BY <1>1 DEF TaskTypes
<1>7. QueueInv'
  BY <1>2 DEF QueueInv, TimedOut, Quiet
<1>8. CallInv'
  <2>1. audQ \notin Asked("STOPING") \cup Asked("STOP") \cup {<<>>, <<"START">>}
    BY <1>2 DEF Asked
  <2>2. audQ' \in Quiet /\ audQ' # <<"START">> /\ audQ' \notin Asked("STOPING") \cup Asked("STOP")
    BY <1>2 DEF Quiet, Asked
  <2> QED
    BY <1>1, <1>2, <1>3, <2>1, <2>2 DEF CallInv, Starts, Runs, Stops, HasMemory, Silent
<1>9. MemoryInv' /\ FrameInv'
  BY <1>1, MemoryKept, FrameKept
<1>10. RecordInv' /\ WebcamInv'
  BY <1>3, <1>4 DEF RecordInv, WebcamInv
<1>11. PendingInv'
  BY <1>2 DEF PendingInv, Pending
<1>12. PackingInv'
  BY <1>1, <1>2, <1>3, <1>4 DEF PackingInv, Cam, HasMemory, Pending, Asked
<1> QED
  BY <1>3, <1>5, <1>6, <1>7, <1>8, <1>9, <1>10, <1>11, <1>12

(* Which queues are asked for, pending and timed out.                      *)
LEMMA AskedOf ==
  ASSUME NEW msg \in {"STOPING", "STOP"}, QueueInv, Receives(msg), audQ' = Tail(audQ)
  PROVE  /\ audQ \in Asked(msg) /\ audQ' \in Quiet
         /\ audQ' \notin Asked("STOPING") \cup Asked("STOP") \cup {<<"START">>}
         /\ Pending' => Pending
         /\ TimedOut' => TimedOut
  BY Received DEF Asked, Quiet, Pending, TimedOut, Statuses

LEMMA AskedApart ==
  /\ Asked("STOPING") \cap Asked("STOP") = {}
  /\ \A msg \in {"STOPING", "STOP"} : Asked(msg) \cap (Quiet \cup {<<"START">>}) = {}
  BY DEF Asked, Quiet

LEMMA StopingInv ==
  ASSUME AudioInv, HeapInv, DmaInv, Stoping
  PROVE  AudioInv'
<1> USE DEF AudioInv
<1>1. /\ Receives("STOPING")
      /\ audQ' = Tail(audQ)
      /\ bStop' = TRUE
      /\ UNCHANGED <<blocks, channel, ack, ready, next, input, pcmIndex, frame, dbf,
                     usbBlock, hung, packing, filled>>
      /\ UNCHANGED <<driverQ, waiter, status, caller, others, tardy, lost>>
  BY DEF Stoping, elsewhere, dmaTasks, callerVars, historyVars
<1>2. /\ audQ \in Asked("STOPING") /\ audQ' \in Quiet
      /\ audQ' \notin Asked("STOPING") \cup Asked("STOP") \cup {<<"START">>}
      /\ Pending' => Pending
      /\ TimedOut' => TimedOut
  BY <1>1, AskedOf
<1>3. ChannelInv' /\ InUse' = InUse
  BY <1>1, ChannelKept
<1>4. audQ \notin Quiet /\ audQ # <<"START">>
  BY <1>2, AskedApart
<1>5. caller \in {"stopping", "unplugging"}
  BY <1>4 DEF TaskTypes, CallInv, Starts, Runs, Quiet
<1>6. Addresses'
  BY StopSteps DEF Composed
<1>7. TaskTypes'
  BY <1>1 DEF TaskTypes
<1>8. QueueInv'
  BY <1>2, <1>3 DEF QueueInv
<1>9. CallInv'
  BY <1>1, <1>2, <1>5 DEF CallInv, Stops
<1>10. MemoryInv' /\ FrameInv'
  BY <1>1, MemoryKept, FrameKept
<1>11. RecordInv' /\ WebcamInv'
  BY <1>1, <1>5 DEF RecordInv, WebcamInv
<1>12. PendingInv'
  BY <1>1, <1>2 DEF PendingInv
<1>13. PackingInv'
  BY <1>1, <1>2, <1>3 DEF PackingInv, Cam, HasMemory, Samples
<1> QED
  BY <1>3, <1>6, <1>7, <1>8, <1>9, <1>10, <1>11, <1>12, <1>13

(* The task's block is nobody's any more.                                  *)
LEMMA MemoryFreed ==
  ASSUME MemoryInv, HeapInv, Addresses, MemoryFree, UNCHANGED others
  PROVE  MemoryInv' /\ ~ HasMemory'
<1>1. input' = Nowhere /\ input'[0] = NULL
  BY DEF MemoryFree, Nowhere
<1>2. {b.head + 2 : b \in blocks'} = {HeapStart + 2} \cup others
  <2>1. CASE input[0] = NULL
    BY <2>1 DEF MemoryInv, HeapAccounted, MemoryFree
  <2>2. CASE input[0] # NULL
    <3>1. blocks' = {b \in blocks : b.head = HeapStart \/ b.head + 2 # input[0]}
      BY <2>2 DEF MemoryFree, gp_free, Freed
    <3>2. /\ {b.head + 2 : b \in blocks} = {HeapStart + 2} \cup others \cup {input[0]}
          /\ input[0] \notin {HeapStart + 2} \cup others
      BY <2>2 DEF MemoryInv, HeapAccounted
    <3>3. \A b \in blocks : b.head = HeapStart => b.head + 2 # input[0]
      BY <3>2
    <3>4. \A b \in blocks' : b \in blocks /\ b.head + 2 \in {HeapStart + 2} \cup others
      BY <3>1, <3>2, <3>3
    <3>5. ASSUME NEW p \in {HeapStart + 2} \cup others
          PROVE  \E b \in blocks' : b.head + 2 = p
      <4>1. PICK b \in blocks : b.head + 2 = p
        BY <3>2
      <4> QED
        BY <3>1, <3>2, <4>1
    <3> QED
      BY <3>4, <3>5
  <2> QED
    BY <2>1, <2>2
<1>3. HeapAccounted'
  BY <1>1, <1>2 DEF HeapAccounted
<1>4. input'[0] \notin others \cup {HeapStart + 2} /\ input'[0] % 4 = 0
  BY <1>1, HeapAssumption DEF MemoryInv, NULL
<1> QED
  BY <1>1, <1>3, <1>4 DEF MemoryInv, HasMemory

LEMMA StopInv ==
  ASSUME AudioInv, HeapInv, DmaInv, Stop
  PROVE  AudioInv'
<1> USE DEF AudioInv
<1>1. /\ Receives("STOP")
      /\ audQ' = Tail(audQ)
      /\ channel' = DoubleBufFree(channel, dbf)
      /\ dbf' = NO_CHANNEL
      /\ MemoryFree
      /\ ack' = "SUCCESS"
      /\ UNCHANGED <<bStop, ready, next, pcmIndex, frame, usbBlock, hung, packing, filled>>
      /\ UNCHANGED <<driverQ, waiter, status, caller, others, tardy, lost>>
  BY DEF Stop, elsewhere, dmaTasks, callerVars, historyVars
<1>2. /\ audQ \in Asked("STOP") /\ audQ' \in Quiet
      /\ audQ' \notin Asked("STOPING") \cup Asked("STOP") \cup {<<"START">>}
      /\ Pending' => Pending
  BY <1>1, AskedOf
<1>3. InUse' = {}
  BY <1>1, FreeInUse
<1>4. audQ \notin Quiet /\ audQ # <<"START">>
  BY <1>2, AskedApart
<1>5. caller \in {"stopping", "unplugging"} /\ bStop
  BY <1>2, <1>4 DEF TaskTypes, CallInv, Starts, Runs, Stops, Quiet
<1>6. MemoryInv' /\ ~ HasMemory' /\ input' = Nowhere
  BY <1>1, MemoryFreed DEF MemoryFree
<1>7. Addresses'
  BY StopSteps DEF Composed
<1>8. TaskTypes'
  BY <1>1 DEF TaskTypes
<1>9. QueueInv' /\ ChannelInv'
  BY <1>2, <1>3 DEF QueueInv, ChannelInv
<1>10. CallInv'
  BY <1>1, <1>2, <1>3, <1>5, <1>6 DEF CallInv, Stops, Silent, Nowhere
<1>11. FrameInv'
  BY <1>1, <1>6 DEF FrameInv
<1>12. RecordInv' /\ WebcamInv'
  BY <1>3 DEF RecordInv, WebcamInv
<1>13. PendingInv'
  BY <1>1, <1>2, <1>5 DEF PendingInv
<1>14. PackingInv'
  BY <1>1, <1>2 DEF PackingInv, Cam
<1> QED
  BY <1>6, <1>7, <1>8, <1>9, <1>10, <1>11, <1>12, <1>13, <1>14
-----------------------------------------------------------------------------
(* Interrupts.                                                             *)
LEMMA IsrQueue ==
  ASSUME AudioInv, InUse # {}, "DONE" \notin ToSet(audQ), NEW answer \in Statuses
  PROVE  /\ audQ \in {<<>>, <<"STOPING">>, <<"STOP">>} /\ ~ Pending
         /\ audQ = <<>> => Append(audQ, answer) = <<answer>>
         /\ audQ # <<>> => \E msg \in {"STOPING", "STOP"} :
              audQ = <<msg>> /\ Append(audQ, answer) = <<msg, answer>>
<1> USE DEF AudioInv
<1>1. ~ TimedOut
  BY DEF QueueInv
<1>2. audQ # <<"START">>
  <2> SUFFICES ASSUME audQ = <<"START">> PROVE FALSE
    OBVIOUS
  <2>1. audQ \notin Quiet
    BY AskedApart DEF Quiet
  <2> QED
    BY <2>1 DEF TaskTypes, CallInv, Starts, Runs, Stops, Silent, Quiet
<1>3. audQ \in {<<>>, <<"STOPING">>, <<"STOP">>}
  BY <1>1, <1>2, Interrupted
<1>4. ~ Pending
  BY <1>3 DEF Pending
<1> QED
  BY <1>1, <1>2, <1>3, <1>4, Interrupted

LEMMA AudioIsrInv ==
  ASSUME AudioInv, HeapInv, DmaInv, AudioIsr
  PROVE  AudioInv'
<1> USE DEF AudioInv
<1>1. /\ dbf \in Channels /\ "DONE" \notin ToSet(audQ) /\ Len(packing) < MaxBehind
      /\ IsrOccupied(dbf, "DONE")
      /\ audQ' = Append(audQ, "DONE")
      /\ tardy' = (tardy \/ packing # <<>>)
      /\ UNCHANGED <<blocks, ack, bStop, ready, next, input, pcmIndex, frame, dbf, usbBlock,
                     hung, packing, status, caller, others, lost>>
  BY DEF AudioIsr, callerVars
<1> DEFINE kept == Without(Without(filled, channel[dbf].target), channel[dbf].next)
<1>2. filled' = IF channel[dbf].target = DUMMY THEN kept
                ELSE Append(kept, channel[dbf].target)
  BY DEF AudioIsr
<1>3. /\ InUse = {dbf}
      /\ InUse' = IF channel[dbf].next = NO_TARGET THEN {} ELSE {dbf}
      /\ channel'[dbf].target = channel[dbf].next
      /\ channel'[dbf].next = NO_TARGET
  BY <1>1, IsrInUse DEF Statuses
<1>4. HasMemory
  BY <1>3 DEF ChannelInv
<1>5. /\ audQ \in {<<>>, <<"STOPING">>, <<"STOP">>} /\ ~ Pending
      /\ audQ = <<>> => audQ' = <<"DONE">>
      /\ audQ # <<>> => \E msg \in {"STOPING", "STOP"} :
           audQ = <<msg>> /\ audQ' = <<msg, "DONE">>
  BY <1>1, <1>3, IsrQueue DEF Statuses
<1>6. Pending' /\ ~ TimedOut'
  BY <1>5 DEF Pending, TimedOut
<1>7. /\ audQ \in Quiet <=> audQ' \in Quiet
      /\ \A msg \in {"STOPING", "STOP"} : audQ \in Asked(msg) <=> audQ' \in Asked(msg)
      /\ audQ' # <<"START">> /\ audQ # <<"START">>
  BY <1>5 DEF Quiet, Asked
<1>8. channel[dbf].target \in Nat /\ channel[dbf].next \in Nat
  BY <1>1 DEF DmaInv, DmaTypeOK, ChannelType
<1>9. Addresses'
  BY OutsideSteps DEF Composed
<1>10. TaskTypes'
  <2>1. kept \in Seq(Nat)
    BY <1>8, WithoutType DEF TaskTypes
  <2>2. filled' \in Seq(Nat)
    BY <1>2, <1>8, <2>1
  <2>3. tardy' \in BOOLEAN
    BY <1>1
  <2> QED
    BY <1>1, <2>2, <2>3 DEF TaskTypes
<1>11. QueueInv'
  BY <1>5, <1>6 DEF QueueInv, Quiet, Asked
<1>12. CallInv'
  BY <1>1, <1>3, <1>4, <1>7 DEF CallInv, Starts, Runs, Stops, Silent, HasMemory
<1>13. MemoryInv' /\ FrameInv'
  BY <1>1, MemoryKept, FrameKept
<1>14. ChannelInv'
  BY <1>1, <1>3, <1>4 DEF ChannelInv, HasMemory, Cam
<1>15. PackingInv'
  BY <1>1 DEF PackingInv, Cam
<1>16. RecordInv' /\ (~ Cam /\ ~ bStop => InUse' # {})
  <2> SUFFICES ASSUME ~ Cam, ~ bStop PROVE RecordInv' /\ InUse' # {}
    BY <1>1 DEF RecordInv, Cam
  <2>1. /\ ready # next
        /\ \E i \in Idx : ready = Samples(i)
        /\ \E i \in Idx : next = Samples(i)
        /\ \/ Goes(ready, next, <<>>)
           \/ Goes(next, DUMMY, <<ready>>)
           \/ Goes(DUMMY, DUMMY, <<ready, next>>)
           \/ Goes(DUMMY, next, <<ready>>)
    BY <1>3, <1>5 DEF RecordInv
  <2>2. /\ ready \in Nat \ {0} /\ next \in Nat \ {0}
        /\ ready < DUMMY /\ next < DUMMY
    BY <1>4, <2>1, SamplesFacts
  <2>3. DUMMY \in Nat \ {0} /\ NO_TARGET = 0 /\ DUMMY # ready /\ DUMMY # next
    BY <2>2 DEF DUMMY, NO_TARGET
  <2>4. channel[dbf].next # NO_TARGET
    BY <2>1, <2>2, <2>3 DEF Goes
  <2>5. \/ channel[dbf].next = next /\ filled' = <<ready>>
        \/ channel[dbf].next = DUMMY /\ filled' = <<ready, next>>
    <3>1. CASE Goes(ready, next, <<>>)
      <4>1. kept = <<>>
        BY <2>1, <2>2, <3>1, WithoutShort DEF Goes
      <4>2. Append(<<>>, ready) = <<ready>>
        BY AppendSingle
      <4> QED
        BY <1>2, <2>3, <3>1, <4>1, <4>2 DEF Goes
    <3>2. CASE Goes(next, DUMMY, <<ready>>)
      <4>1. kept = <<ready>>
        BY <2>1, <2>2, <2>3, <3>2, WithoutShort DEF Goes
      <4>2. Append(<<ready>>, next) = <<ready, next>>
        BY <2>2, AppendPair
      <4> QED
        BY <1>2, <2>3, <3>2, <4>1, <4>2 DEF Goes
    <3>3. CASE Goes(DUMMY, DUMMY, <<ready, next>>)
      <4>1. Without(<<ready, next>>, DUMMY) = <<ready, next>>
        BY <2>1, <2>2, <2>3, WithoutShort
      <4>2. kept = <<ready, next>>
        BY <3>3, <4>1 DEF Goes
      <4> QED
        BY <1>2, <3>3, <4>2 DEF Goes
    <3>4. CASE Goes(DUMMY, next, <<ready>>)
      <4>1. kept = <<ready>>
        BY <2>1, <2>2, <2>3, <3>4, WithoutShort DEF Goes
      <4> QED
        BY <1>2, <3>4, <4>1 DEF Goes
    <3> QED
      BY <2>1, <3>1, <3>2, <3>3, <3>4
  <2>6. \/ Goes(next, NO_TARGET, <<ready>>)'
        \/ Goes(DUMMY, NO_TARGET, <<ready, next>>)'
    BY <1>1, <1>3, <2>5 DEF Goes
  <2>7. Samples(0)' = Samples(0) /\ Samples(1)' = Samples(1) /\ Samples(2)' = Samples(2)
    BY <1>1 DEF Samples
  <2>8. RecordInv'
    BY <1>1, <1>6, <2>1, <2>6, <2>7 DEF RecordInv
  <2> QED
    BY <1>3, <2>4, <2>8
<1>17. WebcamInv' /\ (caller = "webcam" => InUse' # {})
  <2> SUFFICES ASSUME caller = "webcam" PROVE WebcamInv' /\ InUse' # {}
    BY <1>1 DEF WebcamInv
  <2>1. /\ ready = input[NextIndex(pcmIndex)]
        /\ next = input[NextIndex(NextIndex(pcmIndex))]
        /\ usbBlock \in {NULL, input[pcmIndex]}
        /\ channel[dbf].target = ready
        /\ channel[dbf].next = next
    BY <1>3, <1>5 DEF WebcamInv
  <2>2. NextIndex(NextIndex(pcmIndex)) \in Idx
    BY NextIndexOK DEF Addresses
  <2>3. next # NO_TARGET
    BY <1>4, <2>1, <2>2, InputFacts DEF NO_TARGET
  <2> QED
    BY <1>1, <1>3, <1>6, <2>1, <2>3 DEF WebcamInv
<1>18. PendingInv'
  BY <1>1, <1>16, <1>17 DEF PendingInv, Cam
<1> QED
  BY <1>9, <1>10, <1>11, <1>12, <1>13, <1>14, <1>15, <1>16, <1>17, <1>18

LEMMA AudioIsrTimeoutInv ==
  ASSUME AudioInv, HeapInv, DmaInv, AudioIsrTimeout
  PROVE  AudioInv'
<1> USE DEF AudioInv
<1>1. /\ lost < MaxLost /\ lost' = lost + 1
      /\ dbf \in Channels /\ "DONE" \notin ToSet(audQ)
      /\ IsrOccupied(dbf, "TIMEOUT")
      /\ audQ' = Append(audQ, "TIMEOUT")
      /\ UNCHANGED <<blocks, ack, bStop, ready, next, input, pcmIndex, frame, dbf, usbBlock,
                     hung, packing, filled, tardy, status, caller, others>>
  BY DEF AudioIsrTimeout, callerVars
<1>2. InUse = {dbf} /\ InUse' = {}
  BY <1>1, IsrInUse DEF Statuses
<1>3. HasMemory
  BY <1>2 DEF ChannelInv
<1>4. /\ audQ \in {<<>>, <<"STOPING">>, <<"STOP">>} /\ ~ Pending
      /\ audQ = <<>> => audQ' = <<"TIMEOUT">>
      /\ audQ # <<>> => \E msg \in {"STOPING", "STOP"} :
           audQ = <<msg>> /\ audQ' = <<msg, "TIMEOUT">>
  BY <1>1, <1>2, IsrQueue DEF Statuses
<1>5. ~ Pending'
  BY <1>4 DEF Pending
<1>6. /\ audQ \in Quiet <=> audQ' \in Quiet
      /\ \A msg \in {"STOPING", "STOP"} : audQ \in Asked(msg) <=> audQ' \in Asked(msg)
      /\ audQ' # <<"START">> /\ audQ # <<"START">>
  BY <1>4 DEF Quiet, Asked
<1>7. Addresses'
  BY OutsideSteps DEF Composed
<1>8. TaskTypes'
  BY <1>1, AudioAssumption DEF TaskTypes
<1>9. QueueInv' /\ ChannelInv'
  BY <1>2, <1>4 DEF QueueInv, Quiet, Asked, ChannelInv
<1>10. CallInv'
  BY <1>1, <1>2, <1>3, <1>6 DEF CallInv, Starts, Runs, Stops, Silent, HasMemory
<1>11. MemoryInv' /\ FrameInv'
  BY <1>1, MemoryKept, FrameKept
<1>12. RecordInv' /\ WebcamInv' /\ PendingInv'
  BY <1>2, <1>5 DEF RecordInv, WebcamInv, PendingInv
<1>13. PackingInv'
  BY <1>1, <1>2, <1>5, <1>6 DEF PackingInv, Cam, HasMemory
<1> QED
  BY <1>7, <1>8, <1>9, <1>10, <1>11, <1>12, <1>13
-----------------------------------------------------------------------------
(* The packer, the other users of the heap and of the DMA driver.          *)
LEMMA PackerWritesInv ==
  ASSUME AudioInv, HeapInv, DmaInv, PackerWrites
  PROVE  AudioInv'
<1> USE DEF AudioInv
<1>1. /\ packing # <<>>
      /\ packing' = Tail(packing)
      /\ frame' = [frame EXCEPT ![Head(packing)].used = FALSE]
      /\ UNCHANGED <<blocks, channel, driverQ, waiter, audQ, ack, bStop, ready, next, input,
                     pcmIndex, dbf, usbBlock, hung, status, caller, others, filled,
                     tardy, lost>>
  BY DEF PackerWrites, dmaVars, callerVars, historyVars
<1>2. packing \in Seq(Idx) /\ Len(packing) \in Nat
  BY DEF TaskTypes
<1>3. Head(packing) \in Idx
  BY <1>1, <1>2
<1>4. \A j \in Idx : frame'[j].addr = frame[j].addr
  <2>1. frame' = [frame EXCEPT ![Head(packing)].used = FALSE]
    BY <1>1
  <2> QED
    BY <1>3, <2>1, FlagOnly DEF Addresses
<1>5. \A j \in Idx : Samples(j)' = Samples(j)
  BY <1>4 DEF Samples
<1>6. packing' \in Seq(Idx) /\ Len(packing') = Len(packing) - 1
  <2>1. packing' = Tail(packing)
    BY <1>1
  <2> QED
    BY <1>1, <1>2, <2>1
<1>7. UNCHANGED <<blocks, channel, driverQ, waiter, audQ, ack, bStop, ready, next, input,
                  pcmIndex, dbf, usbBlock, hung, status, caller, others, filled,
                  tardy, lost>>
  BY <1>1
<1>8. Addresses'
  BY OutsideSteps DEF Composed
<1>9. TaskTypes'
  BY <1>2, <1>6, <1>7, AudioAssumption DEF TaskTypes
<1>10. ChannelInv' /\ InUse' = InUse
  BY <1>7, ChannelKept
<1>11. QueueInv' /\ CallInv'
  BY <1>7, <1>10 DEF QueueInv, TimedOut, CallInv, Starts, Runs, Stops, Silent, HasMemory
<1>12. MemoryInv'
  BY <1>7, MemoryKept
<1>13. FrameInv'
  BY <1>4, <1>7 DEF FrameInv, HasMemory, Cam
<1>14. RecordInv'
  BY <1>5, <1>7, <1>10 DEF RecordInv, Cam, Pending, Goes
<1>15. WebcamInv'
  BY <1>7, <1>10 DEF WebcamInv, Pending
<1>16. PendingInv'
  BY <1>2, <1>6, <1>7, <1>10, AudioAssumption DEF PendingInv, Pending
<1>17. PackingInv'
  <2>1. tardy \/ Len(packing) = 1
    BY <1>1 DEF PackingInv
  <2>2. tardy \/ packing' = <<>>
    BY <1>6, <2>1
  <2>3. caller \notin {"starting", "started"} /\ ~ Cam
    BY <1>1 DEF PackingInv
  <2> QED
    BY <1>7, <2>2, <2>3 DEF PackingInv, Cam
<1> QED
  BY <1>8, <1>9, <1>10, <1>11, <1>12, <1>13, <1>14, <1>15, <1>16, <1>17

(* Nothing else depends on the heap than its account.                      *)
LEMMA HeapOnlyInv ==
  ASSUME AudioInv, MemoryInv', Addresses',
         UNCHANGED <<dmaVars, taskVars, callerVars, packing, filled, historyVars>>
  PROVE  AudioInv'
<1> USE DEF AudioInv
<1>1. UNCHANGED <<channel, driverQ, waiter, audQ, ack, bStop, ready, next, input, pcmIndex,
                  frame, dbf, usbBlock, hung, status, caller, packing, filled, tardy, lost>>
  BY DEF dmaVars, taskVars, callerVars, historyVars
<1>2. ChannelInv' /\ InUse' = InUse
  BY <1>1, ChannelKept
<1>3. TaskTypes' /\ FrameInv'
  BY <1>1, FrameKept DEF TaskTypes
<1>4. QueueInv' /\ CallInv'
  BY <1>1, <1>2 DEF QueueInv, TimedOut, CallInv, Starts, Runs, Stops, Silent, HasMemory
<1>5. RecordInv' /\ WebcamInv' /\ PendingInv'
  BY <1>1, <1>2 DEF RecordInv, WebcamInv, PendingInv, Cam, Pending, Goes, Samples
<1>6. PackingInv'
  BY <1>1, <1>2 DEF PackingInv, Cam, Pending, HasMemory, Samples
<1> QED
  BY <1>2, <1>3, <1>4, <1>5, <1>6

LEMMA OtherAllocatesInv ==
  ASSUME AudioInv, HeapInv, OtherAllocates
  PROVE  AudioInv'
<1> USE DEF AudioInv
<1>0. PICK size \in OtherSizes : \E b \in FirstFit(size, 1, 0) :
        /\ gp_malloc(size, Data(b, 1))
        /\ others' = others \cup {Data(b, 1)}
  BY DEF OtherAllocates
<1>1. PICK b \in FirstFit(size, 1, 0) :
        /\ gp_malloc(size, Data(b, 1))
        /\ others' = others \cup {Data(b, 1)}
  BY <1>0
<1> DEFINE p == Data(b, 1)
<1>2. size \in Nat \ {0}
  BY AudioAssumption
<1>3. /\ p \in Nat /\ p > HeapStart + 2
      /\ \A c \in blocks : c.head + 2 # p
  BY <1>2, NewBlock
<1>4. PICK a \in FirstFit(size, 1, 0) :
        /\ p = Data(a, 1)
        /\ blocks' = blocks \cup {[head |-> p - 2, end |-> p + size - 1]}
  <2>1. FirstFit(size, 1, 0) # {}
    BY <1>1
  <2> QED
    BY <1>1, <2>1 DEF gp_malloc, Allocate
<1> HIDE DEF p
<1>5. others' = others \cup {p} /\ UNCHANGED <<input, caller>>
  BY <1>1 DEF p, OtherAllocates, taskVars, callerVars
<1>6. HeapStart \in Nat \ {0} /\ NULL = 0
  BY HeapAssumption DEF NULL
<1>7. {c.head + 2 : c \in blocks'} = {c.head + 2 : c \in blocks} \cup {p}
  <2> DEFINE new == [head |-> p - 2, end |-> p + size - 1]
  <2>1. new.head + 2 = p
    BY <1>3
  <2>2. blocks' = blocks \cup {new}
    BY <1>4
  <2> HIDE DEF new
  <2> QED
    BY <2>1, <2>2
<1>8. HeapAccounted'
  BY <1>5, <1>7 DEF MemoryInv, HeapAccounted
<1>9. p # input[0]
  <2>1. CASE input[0] = NULL
    BY <1>3, <1>6, <2>1
  <2>2. CASE input[0] # NULL
    BY <1>3, <2>2 DEF MemoryInv, HeapAccounted
  <2> QED
    BY <2>1, <2>2
<1>10. /\ others' \cap {NULL, HeapStart + 2} = {}
       /\ input'[0] \notin others' \cup {HeapStart + 2}
       /\ input'[0] % 4 = 0
  BY <1>3, <1>5, <1>6, <1>9 DEF MemoryInv
<1>11. \A c \in blocks' : c.head + 2 = input[0] => c \in blocks
  BY <1>3, <1>4, <1>9
<1>12. MemoryInv'
  BY <1>5, <1>8, <1>10, <1>11 DEF MemoryInv, HasMemory, Words, Cam
<1>13. Addresses'
  BY OutsideSteps DEF Composed
<1> QED
  BY <1>12, <1>13, HeapOnlyInv DEF OtherAllocates

LEMMA OtherFreesInv ==
  ASSUME AudioInv, HeapInv, OtherFrees
  PROVE  AudioInv'
<1> USE DEF AudioInv
<1>1. PICK p \in others : gp_free(p) /\ others' = others \ {p}
  BY DEF OtherFrees
<1>2. UNCHANGED <<input, caller>>
  BY DEF OtherFrees, taskVars, callerVars
<1>3. /\ blocks' \subseteq blocks
      /\ \A b \in blocks : b \in blocks' <=> b.head = HeapStart \/ b.head + 2 # p
  BY <1>1 DEF gp_free, Freed
<1>4. p # HeapStart + 2 /\ p # input[0]
  BY DEF MemoryInv
<1>5. {b.head + 2 : b \in blocks'} = {b.head + 2 : b \in blocks} \ {p}
  <2>1. \A b \in blocks' : b \in blocks /\ b.head + 2 # p
    BY <1>3, <1>4
  <2>2. ASSUME NEW a \in {b.head + 2 : b \in blocks} \ {p}
        PROVE  a \in {b.head + 2 : b \in blocks'}
    <3>1. PICK b \in blocks : a = b.head + 2
      BY <2>2
    <3> QED
      BY <1>3, <2>2, <3>1
  <2> QED
    BY <2>1, <2>2
<1>6. HeapAccounted'
  BY <1>1, <1>2, <1>4, <1>5 DEF MemoryInv, HeapAccounted
<1>7. MemoryInv'
  BY <1>1, <1>2, <1>3, <1>6 DEF MemoryInv, HasMemory, Words, Cam
<1>8. Addresses'
  BY OutsideSteps DEF Composed
<1> QED
  BY <1>7, <1>8, HeapOnlyInv DEF OtherFrees

LEMMA DriverNextInv ==
  ASSUME AudioInv, HeapInv, DmaInv, DriverNext
  PROVE  AudioInv'
<1> USE DEF AudioInv
<1>1. UNCHANGED <<blocks, audQ, ack, bStop, ready, next, input, pcmIndex, frame, dbf,
                  usbBlock, hung, status, caller, packing, others, filled, tardy, lost>>
  BY DEF DriverNext, audioSide, taskVars, callerVars, historyVars
<1>2. /\ InUse' = InUse
      /\ \A c \in InUse : channel'[c] = channel[c]
  BY DriverInUse DEF DriverNext
<1>3. Addresses'
  BY OutsideSteps DEF Composed
<1>4. TaskTypes' /\ MemoryInv' /\ FrameInv'
  BY <1>1, MemoryKept, FrameKept DEF TaskTypes
<1>5. QueueInv' /\ CallInv'
  BY <1>1, <1>2 DEF QueueInv, TimedOut, CallInv, Starts, Runs, Stops, Silent, HasMemory
<1>6. ChannelInv'
  BY <1>1, <1>2 DEF ChannelInv, HasMemory, Cam
<1>7. InUse # {} => dbf \in InUse
  BY DEF ChannelInv
<1>8. RecordInv' /\ WebcamInv' /\ PendingInv'
  BY <1>1, <1>2, <1>7 DEF RecordInv, WebcamInv, PendingInv, Cam, Pending, Goes, Samples
<1>9. PackingInv'
  BY <1>1, <1>2 DEF PackingInv, Cam, Pending, HasMemory, Samples
<1> QED
  BY <1>3, <1>4, <1>5, <1>6, <1>8, <1>9
-----------------------------------------------------------------------------
(* The callers.                                                            *)

(* A caller's step that leaves the sound alone: it asks, at most, and only *)
(* when the queue is empty.                                                *)
LEMMA CallerStepInv ==
  ASSUME AudioInv, UNCHANGED outside, CallInv', QueueInv', Addresses',
         audQ = <<>>, ~ Pending', audQ' \notin Asked("STOP"),
         caller' \in {"idle", "starting", "started", "recording", "stopping",
                      "webcam", "clearing", "unplugging"},
         ack' \in {"none", "SUCCESS", "FAIL"},
         HasMemory => (Cam' <=> Cam),
         tardy' = tardy \/ (tardy' = FALSE /\ packing = <<>>),
         Cam' => Cam \/ packing = <<>>,
         caller' \in {"starting", "started"} => packing = <<>>,
         caller' = "webcam" => InUse = {}
  PROVE  AudioInv'
<1> USE DEF AudioInv
<1>1. UNCHANGED <<blocks, channel, driverQ, waiter, bStop, ready, next, input, pcmIndex,
                  frame, dbf, usbBlock, hung, packing, others, filled, lost>>
  BY DEF outside, dmaVars
<1>2. InUse' = InUse
  BY <1>1 DEF InUse
<1>3. TaskTypes'
  BY <1>1 DEF TaskTypes
<1>4. MemoryInv' /\ FrameInv'
  BY <1>1 DEF MemoryInv, FrameInv, HeapAccounted, HasMemory, Words
<1>5. ChannelInv'
  BY <1>1, <1>2 DEF ChannelInv, HasMemory
<1>6. ~ Pending
  BY DEF Pending
<1>7. RecordInv'
  <2>1. InUse # {} => HasMemory
    BY DEF ChannelInv
  <2> QED
    BY <1>1, <1>2, <1>6, <2>1 DEF RecordInv, Goes, Samples
<1>8. WebcamInv' /\ PendingInv'
  BY <1>2 DEF WebcamInv, PendingInv
<1>9. PackingInv'
  BY <1>1, <1>2, <1>6 DEF PackingInv, HasMemory, Samples, Asked, Cam
<1> QED
  BY <1>3, <1>4, <1>5, <1>7, <1>8, <1>9

LEMMA PostQueue ==
  ASSUME audQ = <<>>, NEW msg \in {"START", "STOPING"}, Post(msg)
  PROVE  /\ audQ' = <<msg>> /\ ack' = "none"
         /\ QueueInv' /\ ~ Pending'
         /\ audQ' \notin Asked("STOP") /\ audQ' \notin Quiet
<1>1. audQ' = <<msg>> /\ ack' = "none"
  BY AppendSingle DEF Post
<1> QED
  BY <1>1 DEF QueueInv, Pending, TimedOut, Asked, Quiet

LEMMA EmptyQueue ==
  ASSUME QueueInv, audQ = <<>>, UNCHANGED audQ
  PROVE  /\ QueueInv' /\ ~ Pending' /\ audQ' \in Quiet
         /\ audQ' \notin Asked("STOP") /\ audQ' \notin Asked("STOPING")
         /\ audQ' # <<"START">>
  BY DEF QueueInv, Pending, TimedOut, Asked, Quiet

\* The steps that ask for something.
LEMMA AskingInv ==
  ASSUME AudioInv, EncStart \/ EncStop \/ WebcamStart \/ WebcamStoping
  PROVE  AudioInv'
<1> USE DEF AudioInv
<1>1. UNCHANGED outside /\ audQ = <<>>
  BY DEF EncStart, EncStop, WebcamStart, WebcamStoping, Turn
<1>2. Addresses'
  BY CallerSteps DEF Composed, CallerGoesOn
<1>3. UNCHANGED <<bStop, input, packing>> /\ InUse' = InUse
  BY <1>1 DEF outside, dmaVars, InUse
<1>4. caller = "idle" => ~ HasMemory /\ Silent /\ status \in {{}, {"AUDIO", "START"}}
  BY DEF CallInv, Silent, HasMemory, Nowhere
<1>5. CASE EncStart
  <2>1. caller = "idle" /\ packing = <<>> /\ tardy' = FALSE
    BY <1>5 DEF EncStart
  <2>2. CASE "AUDIO" \in status
    <3>1. /\ caller' = "recording" /\ status' = {"AUDIO", "START"}
          /\ UNCHANGED <<audQ, ack>>
      BY <1>4, <1>5, <2>1, <2>2 DEF EncStart
    <3>2. /\ QueueInv' /\ ~ Pending' /\ audQ' \notin Asked("STOP") /\ audQ' \in Quiet
          /\ audQ' = <<>>
      BY <1>1, <3>1, EmptyQueue
    <3>3. CallInv'
      BY <1>3, <1>4, <2>1, <3>1, <3>2 DEF CallInv, Runs, Silent, Nowhere
    <3> QED
      BY <1>1, <1>2, <1>4, <2>1, <3>1, <3>2, <3>3, CallerStepInv DEF Cam, TaskTypes
  <2>3. CASE "AUDIO" \notin status
    <3>1. caller' = "starting" /\ status' = {} /\ Post("START")
      BY <1>4, <1>5, <2>1, <2>3 DEF EncStart
    <3>2. /\ QueueInv' /\ ~ Pending' /\ audQ' \notin Asked("STOP")
          /\ audQ' = <<"START">> /\ ack' = "none"
      BY <1>1, <3>1, PostQueue
    <3>3. CallInv'
      BY <1>3, <1>4, <2>1, <3>1, <3>2 DEF CallInv, Starts, Silent, Nowhere
    <3> QED
      BY <1>1, <1>2, <1>4, <2>1, <3>1, <3>2, <3>3, CallerStepInv DEF Cam, TaskTypes
  <2> QED
    BY <2>2, <2>3
<1>6. CASE EncStop
  <2>1. /\ caller \in {"recording", "idle"} /\ "AUDIO" \in status
        /\ caller' = "stopping" /\ Post("STOPING")
        /\ UNCHANGED <<status, tardy>>
    BY <1>6 DEF EncStop
  <2>2. /\ QueueInv' /\ ~ Pending' /\ audQ' \notin Asked("STOP")
        /\ audQ' = <<"STOPING">> /\ ack' = "none"
    BY <1>1, <2>1, PostQueue
  <2>3. CallInv'
    <3>1. audQ' \in Asked("STOPING") /\ audQ' # <<"START">>
      BY <2>2 DEF Asked
    <3> QED
      BY <1>4, <2>1, <2>2, <3>1 DEF CallInv, Stops
  <2>4. ~ Cam /\ ~ Cam' /\ tardy' = tardy
    BY <2>1 DEF Cam
  <2> QED
    BY <1>1, <1>2, <2>1, <2>2, <2>3, <2>4, CallerStepInv
<1>7. CASE WebcamStart
  <2>1. /\ caller = "idle" /\ packing = <<>> /\ "START" \notin status
        /\ status' = status \cup {"USB_WEBCAM"}
        /\ Post("START") /\ caller' = "webcam" /\ tardy' = FALSE
    BY <1>7 DEF WebcamStart
  <2>2. status' = {"USB_WEBCAM"}
    BY <1>4, <2>1
  <2>3. /\ QueueInv' /\ ~ Pending' /\ audQ' \notin Asked("STOP")
        /\ audQ' = <<"START">> /\ ack' = "none"
    BY <1>1, <2>1, PostQueue
  <2>4. CallInv'
    BY <1>3, <1>4, <2>1, <2>2, <2>3 DEF CallInv, Starts, Silent, Nowhere
  <2>5. InUse = {}
    BY <1>4, <2>1 DEF Silent
  <2> QED
    BY <1>1, <1>2, <1>4, <2>1, <2>3, <2>4, <2>5, CallerStepInv DEF Cam, TaskTypes
<1>8. CASE WebcamStoping
  <2>1. /\ caller = "clearing" /\ caller' = "unplugging" /\ Post("STOPING")
        /\ UNCHANGED <<status, tardy>>
    BY <1>8 DEF WebcamStoping
  <2>2. /\ QueueInv' /\ ~ Pending' /\ audQ' \notin Asked("STOP")
        /\ audQ' = <<"STOPING">> /\ ack' = "none"
    BY <1>1, <2>1, PostQueue
  <2>3. CallInv'
    <3>1. audQ' \in Asked("STOPING") /\ audQ' # <<"START">>
      BY <2>2 DEF Asked
    <3> QED
      BY <2>1, <2>2, <3>1 DEF CallInv, Stops
  <2>4. Cam /\ Cam' /\ tardy' = tardy
    BY <2>1 DEF Cam
  <2> QED
    BY <1>1, <1>2, <2>1, <2>2, <2>3, <2>4, CallerStepInv
<1> QED
  BY <1>5, <1>6, <1>7, <1>8

\* The steps that follow an answer.
LEMMA AnsweredInv ==
  ASSUME AudioInv, EncStarted \/ EncRuns \/ WebcamStop
  PROVE  AudioInv'
<1> USE DEF AudioInv
<1>1. UNCHANGED <<outside, audQ, ack, tardy>> /\ audQ = <<>>
  BY DEF EncStarted, EncRuns, WebcamStop, Turn
<1>2. Addresses'
  BY CallerSteps DEF Composed, CallerGoesOn
<1>3. UNCHANGED <<bStop, input, packing>> /\ InUse' = InUse
  BY <1>1 DEF outside, dmaVars, InUse
<1>4. /\ QueueInv' /\ ~ Pending' /\ audQ' \in Quiet
      /\ audQ' \notin Asked("STOP") /\ audQ' \notin Asked("STOPING")
      /\ audQ' # <<"START">> /\ audQ' = <<>>
  BY <1>1, EmptyQueue
<1>5. Starts => /\ ack # "none" /\ ~ bStop
                /\ ack = "SUCCESS" => HasMemory
                /\ HasMemory \/ Silent
                /\ ack # "SUCCESS" => Silent
  BY <1>1, <1>4 DEF Starts
<1>6. CASE EncStarted
  <2>1. caller = "starting" /\ status = {} /\ Starts /\ packing = <<>>
    BY <1>6 DEF EncStarted, CallInv, PackingInv
  <2>2. CASE ack = "SUCCESS" /\ caller' = "started" /\ status' = status \cup {"AUDIO"}
    <3>1. CallInv'
      BY <1>1, <1>3, <1>4, <1>5, <2>1, <2>2 DEF CallInv, Runs, HasMemory
    <3> QED
      BY <1>1, <1>2, <1>4, <2>1, <2>2, <3>1, CallerStepInv DEF Cam, TaskTypes
  <2>3. CASE (ack = "FAIL" \/ GivesUp) /\ caller' = "idle" /\ UNCHANGED status
    <3>1. ack # "SUCCESS" /\ Silent
      BY <1>5, <2>1, <2>3 DEF GivesUp, Answered
    <3>2. CallInv'
      BY <1>1, <1>3, <1>4, <2>1, <2>3, <3>1 DEF CallInv, Silent, Nowhere
    <3> QED
      BY <1>1, <1>2, <1>4, <2>1, <2>3, <3>2, CallerStepInv DEF Cam, TaskTypes
  <2> QED
    BY <1>6, <2>2, <2>3 DEF EncStarted
<1>7. CASE EncRuns
  <2>1. caller = "started" /\ caller' = "recording" /\ status' = {"AUDIO", "START"} /\ Runs
    BY <1>7 DEF EncRuns, CallInv
  <2>2. CallInv'
    BY <1>1, <1>3, <1>4, <2>1 DEF CallInv, Runs, HasMemory, Silent, Nowhere
  <2> QED
    BY <1>1, <1>2, <1>4, <2>1, <2>2, CallerStepInv DEF Cam, TaskTypes
<1>8. CASE WebcamStop
  <2>1. /\ caller = "webcam" /\ caller' = "clearing" /\ status' = {} /\ Starts
        /\ packing = <<>>
    BY <1>8 DEF WebcamStop, CallInv, PackingInv, Cam
  <2>2. CallInv'
    BY <1>1, <1>3, <1>4, <1>5, <2>1 DEF CallInv, Runs, HasMemory, Silent, Nowhere
  <2>3. Cam /\ Cam' /\ tardy' = tardy /\ ack' \in {"none", "SUCCESS", "FAIL"}
    BY <1>1, <2>1 DEF Cam, TaskTypes
  <2> QED
    BY <1>1, <1>2, <1>4, <2>1, <2>2, <2>3, CallerStepInv
<1> QED
  BY <1>6, <1>7, <1>8

\* The steps that follow a stop, or give up.
LEMMA StoppedInv ==
  ASSUME AudioInv, HeapInv, DmaInv, EncStopped \/ WebcamStopped
  PROVE  AudioInv'
<1> USE DEF AudioInv
<1>1. /\ audQ = <<>> /\ caller' = "idle"
      /\ UNCHANGED <<audQ, ack, dmaVars, bStop, ready, next, pcmIndex, frame, dbf,
                     usbBlock, hung, packing, others, filled, lost>>
      /\ \/ ack = "SUCCESS" /\ UNCHANGED <<blocks, input, tardy>>
         \/ GivesUp /\ MemoryFree /\ tardy' \in {tardy, tardy \/ packing # <<>>}
  BY DEF EncStopped, WebcamStopped, Turn
<1>2. caller \in {"stopping", "unplugging"} /\ Stops
  BY DEF EncStopped, WebcamStopped, CallInv
<1>3. status' \in {{}, {"AUDIO", "START"}}
  BY DEF EncStopped, WebcamStopped, CallInv
<1>4. tardy' # tardy => tardy' = TRUE
  BY <1>1 DEF TaskTypes
<1>5. tardy' = tardy => packing = <<>> \/ tardy
  <2>1. CASE EncStopped
    <3>1. ack = "SUCCESS" \/ tardy' = (tardy \/ packing # <<>>)
      BY <2>1 DEF EncStopped
    <3>2. ack = "SUCCESS" => ~ HasMemory
      BY <1>2 DEF Stops, Silent, HasMemory, Nowhere
    <3> QED
      BY <3>1, <3>2 DEF PackingInv, TaskTypes
  <2>2. CASE WebcamStopped
    BY <2>2 DEF WebcamStopped, PackingInv, Cam
  <2> QED
    BY <2>1, <2>2
<1>6. InUse' = InUse /\ InUse = {}
  <2>1. InUse' = InUse
    BY <1>1 DEF InUse, dmaVars
  <2>2. CASE ack = "SUCCESS"
    BY <1>2, <2>1, <2>2 DEF Stops, Silent
  <2>3. CASE GivesUp
    BY <2>1, <2>3 DEF GivesUp, ChannelInv, InUse
  <2> QED
    BY <1>1, <2>1, <2>2, <2>3
<1>7. MemoryInv' /\ ~ HasMemory' /\ input' = Nowhere
  <2>1. CASE ack = "SUCCESS" /\ UNCHANGED <<blocks, input, tardy>>
    <3>1. input = Nowhere /\ input' = Nowhere /\ input[0] = NULL
      BY <1>2, <2>1 DEF Stops, Silent, Nowhere
    <3> QED
      BY <1>1, <2>1, <3>1 DEF MemoryInv, HeapAccounted, HasMemory
  <2>2. CASE GivesUp /\ MemoryFree
    BY <1>1, <2>2, MemoryFreed DEF MemoryFree
  <2> QED
    BY <1>1, <2>1, <2>2
<1>8. Addresses'
  BY CallerSteps DEF Composed, CallerGoesOn
<1>9. TaskTypes'
  BY <1>1, <1>4 DEF TaskTypes
<1>10. QueueInv' /\ ~ Pending'
  BY <1>1, EmptyQueue
<1>11. CallInv'
  BY <1>1, <1>3, <1>6, <1>7 DEF CallInv, Silent, Nowhere
<1>12. FrameInv'
  BY <1>1, <1>7 DEF FrameInv
<1>13. ChannelInv' /\ RecordInv' /\ WebcamInv' /\ PendingInv'
  BY <1>6, <1>10 DEF ChannelInv, RecordInv, WebcamInv, PendingInv
<1>14. PackingInv'
  <2>1. packing = <<>> \/ tardy'
    BY <1>4, <1>5
  <2> QED
    BY <1>1, <2>1 DEF PackingInv, Cam
<1> QED
  BY <1>7, <1>8, <1>9, <1>10, <1>11, <1>12, <1>13, <1>14
-----------------------------------------------------------------------------
(* Starting.                                                               *)

\* Where a start finds the task: a caller waits for it, and nothing is held.
Begins ==
  /\ caller \in {"starting", "webcam"}
  /\ Cam <=> "USB_WEBCAM" \in status
  /\ Length = Words
  /\ audQ = <<"START">> /\ audQ' = <<>>
  /\ Silent
  /\ packing = <<>>

LEMMA WhenStarting ==
  ASSUME AudioInv, Receives("START"), audQ' = Tail(audQ)
  PROVE  Begins
<1> USE DEF AudioInv
<1>1. audQ = <<"START">> /\ audQ' = <<>>
  BY Received
<1>2. audQ \notin Quiet \cup Asked("STOPING") \cup Asked("STOP") /\ audQ # <<>>
  BY <1>1, AskedApart DEF Quiet, Asked
<1>3. ~ Runs /\ ~ Stops /\ audQ # <<>>
  BY <1>1, <1>2 DEF Runs, Stops
<1>4. caller \in {"starting", "webcam"} /\ Starts
  BY <1>3 DEF TaskTypes, CallInv
<1>5. Silent
  BY <1>2, <1>4 DEF Starts
<1>6. Cam <=> "USB_WEBCAM" \in status
  BY <1>4 DEF CallInv, Cam
<1>7. packing = <<>>
  BY <1>4 DEF PackingInv, Cam
<1>8. Length = Words
  BY <1>6 DEF Length, Words
<1> QED
  BY <1>1, <1>4, <1>5, <1>6, <1>7, <1>8 DEF Begins

(* Where the buffers are, of a block at a multiple of four.                *)
LEMMA BuffersFacts ==
  ASSUME NEW p \in Nat, p % 4 = 0, Length = Words
  PROVE  /\ Buffers(p)[0] = p
         /\ \A i \in Idx : Buffers(p)[i] = p + i * Words /\ Buffers(p)[i] % 4 = 0
         /\ \A i, j \in Idx : i # j => Buffers(p)[i] # Buffers(p)[j]
<1>1. Words \in Nat \ {0} /\ Words % 4 = 0
  BY AudioAssumption DEF Words
<1>2. \A i \in Idx : Buffers(p)[i] = p + i * Words
  BY DEF Buffers
<1>3. p + 0 * Words = p /\ p + 1 * Words = p + Words /\ p + 2 * Words = p + (Words + Words)
  BY <1>1
<1>4. (p + Words) % 4 = 0 /\ (p + (Words + Words)) % 4 = 0
  BY <1>1
<1>5. \A i \in Idx : Buffers(p)[i] % 4 = 0
  BY <1>2, <1>3, <1>4
<1>6. \A i, j \in Idx : i # j => Buffers(p)[i] # Buffers(p)[j]
  BY <1>1, <1>2, <1>3
<1> QED
  BY <1>2, <1>3, <1>5, <1>6

\* What a start sets up, whether or not it gets a channel.
SetUpOK(p) ==
  /\ bStop' = FALSE /\ filled' = <<>> /\ usbBlock' = NULL
  /\ \A i \in Idx : frame'[i].addr % 4 = 0
  /\ IF Cam
       THEN /\ pcmIndex' \in Idx
            /\ ready' = Buffers(p)[NextIndex(pcmIndex')]
            /\ next' = Buffers(p)[NextIndex(NextIndex(pcmIndex'))]
       ELSE /\ pcmIndex' = pcmIndex
            /\ \A i \in Idx : frame'[i].addr = Buffers(p)[(pcmIndex + i) % 3]
            /\ ready' = frame'[0].addr + HEADER
            /\ next' = frame'[1].addr + HEADER

LEMMA SetUpIsOK ==
  ASSUME AudioInv, Begins, NEW p \in Nat, p % 4 = 0, SetUp(p)
  PROVE  SetUpOK(p)
<1> USE DEF AudioInv
<1>1. bStop' = FALSE /\ filled' = <<>> /\ usbBlock' = NULL
  BY DEF SetUp
<1>2. pcmIndex \in Idx /\ Length = Words
  BY DEF Addresses, Begins
<1>3. CASE Cam
  <2>1. /\ ready' = Buffers(p)[pcmIndex]
        /\ next' = Buffers(p)[NextIndex(pcmIndex)]
        /\ pcmIndex' = NextIndex(NextIndex(pcmIndex))
        /\ UNCHANGED frame
    BY <1>3 DEF SetUp, Begins
  <2>2. /\ pcmIndex' \in Idx /\ NextIndex(pcmIndex') = pcmIndex
        /\ NextIndex(NextIndex(pcmIndex')) = NextIndex(pcmIndex)
    BY <1>2, <2>1, NextIndexRound
  <2> QED
    BY <1>1, <1>3, <2>1, <2>2 DEF SetUpOK, FrameInv
<1>4. CASE ~ Cam
  <2> DEFINE at == [i \in Idx |-> Buffers(p)[(pcmIndex + i) % AVI_ENCODE_PCM_BUFFER_NO]]
  <2>1. /\ frame' = [i \in Idx |-> [addr |-> at[i], used |-> FALSE]]
        /\ ready' = at[0] + HEADER
        /\ next' = at[1] + HEADER
        /\ UNCHANGED pcmIndex
    BY <1>4 DEF SetUp, Begins
  <2>2. \A i \in Idx : (pcmIndex + i) % 3 \in Idx
    BY <1>2
  <2>3. \A i \in Idx : at[i] = Buffers(p)[(pcmIndex + i) % 3]
    OBVIOUS
  <2>4. \A i \in Idx : at[i] % 4 = 0
    BY <1>2, <2>2, <2>3, BuffersFacts
  <2> HIDE DEF at
  <2>5. \A i \in Idx : frame'[i].addr = at[i]
    BY <2>1
  <2> QED
    BY <1>1, <1>4, <2>1, <2>3, <2>4, <2>5 DEF SetUpOK
<1> QED
  BY <1>3, <1>4

(* A start that fails has left nothing behind.                             *)
LEMMA FailedInv ==
  ASSUME AudioInv, DmaInv, Begins, StartFails(channel), Addresses',
         UNCHANGED <<blocks, others, status, caller, tardy, lost, hung, packing>>,
         bStop' = FALSE, filled' \in Seq(Nat), usbBlock' \in Nat,
         \A i \in Idx : frame'[i].addr % 4 = 0
  PROVE  AudioInv'
<1> USE DEF AudioInv
<1>1. InUse' = {} /\ input' = Nowhere /\ ack' = "FAIL" /\ dbf' = NO_CHANNEL
  BY FreeInUse DEF StartFails
<1>2. input = Nowhere /\ input[0] = NULL /\ ~ HasMemory' /\ input'[0] = NULL
  BY <1>1 DEF Begins, Silent, Nowhere, HasMemory
<1>3. caller \in {"starting", "webcam"} /\ packing = <<>> /\ audQ' = <<>>
  BY DEF Begins
<1>4. TaskTypes'
  BY <1>1 DEF TaskTypes
<1>5. QueueInv' /\ ~ Pending' /\ audQ' \in Quiet
  BY <1>1, <1>3 DEF QueueInv, Pending, Quiet
<1>6. CallInv'
  BY <1>1, <1>2, <1>3, <1>5 DEF CallInv, Starts, Silent, Nowhere
<1>7. MemoryInv' /\ FrameInv'
  BY <1>1, <1>2 DEF MemoryInv, HeapAccounted, HasMemory, FrameInv
<1>8. ChannelInv' /\ RecordInv' /\ WebcamInv' /\ PendingInv'
  BY <1>1, <1>5 DEF ChannelInv, RecordInv, WebcamInv, PendingInv
<1>9. PackingInv'
  BY <1>3 DEF PackingInv
<1> QED
  BY <1>4, <1>5, <1>6, <1>7, <1>8, <1>9

LEMMA StartNoMemoryInv ==
  ASSUME AudioInv, HeapInv, DmaInv, StartNoMemory
  PROVE  AudioInv'
<1> USE DEF AudioInv
<1>1. /\ Receives("START") /\ audQ' = Tail(audQ) /\ bStop' = FALSE
      /\ gp_malloc_align(AVI_ENCODE_PCM_BUFFER_NO * Length, 4, NULL)
      /\ StartFails(channel)
      /\ UNCHANGED <<ready, next, pcmIndex, frame, usbBlock, hung, packing, filled>>
      /\ UNCHANGED <<driverQ, waiter, status, caller, others, tardy, lost>>
  BY DEF StartNoMemory, elsewhere, dmaTasks, callerVars, historyVars
<1>2. Begins
  BY <1>1, WhenStarting
<1>3. UNCHANGED blocks
  <2> DEFINE size == AVI_ENCODE_PCM_BUFFER_NO * Length
  <2>1. size \in Nat \ {0} /\ HeapStart \in Nat
    BY LengthOK, HeapAssumption
  <2> HIDE DEF size
  <2>2. \A b \in FirstFit(size, 4, 1) : NULL # Data(b, 4)
    BY <2>1, NewBlock DEF NULL
  <2> QED
    BY <1>1, <2>2 DEF gp_malloc_align, Allocate, size
<1>4. Addresses'
  BY StartSteps DEF Composed
<1>5. \A i \in Idx : frame'[i].addr % 4 = 0
  BY <1>1 DEF FrameInv
<1>6. filled' \in Seq(Nat) /\ usbBlock' \in Nat
  BY <1>1 DEF TaskTypes
<1> QED
  BY <1>1, <1>2, <1>3, <1>4, <1>5, <1>6, FailedInv

(* What the heap gives is a multiple of four.                              *)
LEMMA AudioBlock ==
  ASSUME HeapInv, NEW b \in FirstFit(AVI_ENCODE_PCM_BUFFER_NO * Length, 4, 1)
  PROVE  /\ Data(b, 4) \in Nat /\ Data(b, 4) > HeapStart + 2 /\ Data(b, 4) % 4 = 0
         /\ \A c \in blocks : c.head + 2 # Data(b, 4)
<1> DEFINE size == AVI_ENCODE_PCM_BUFFER_NO * Length
<1>1. size \in Nat \ {0}
  BY LengthOK
<1> HIDE DEF size
<1>2. b \in FirstFit(size, 4, 1)
  BY DEF size
<1>3. b.end + 3 \in Nat
  BY <1>2 DEF FirstFit, HeapInv, BlocksOK
<1> QED
  BY <1>1, <1>2, <1>3, NewBlock, AlignUpFour DEF Data

LEMMA StartNoChannelInv ==
  ASSUME AudioInv, HeapInv, DmaInv, StartNoChannel
  PROVE  AudioInv'
<1> USE DEF AudioInv
<1>1. /\ Receives("START")
      /\ StartFails(channel)
      /\ UNCHANGED <<blocks, hung, packing, driverQ, waiter, status, caller, others,
                     tardy, lost>>
  BY DEF StartNoChannel, elsewhere, dmaTasks, callerVars, historyVars
<1>2. PICK b \in FirstFit(AVI_ENCODE_PCM_BUFFER_NO * Length, 4, 1) : SetUp(Data(b, 4))
  BY DEF StartNoChannel
<1>3. Begins
  BY <1>1, <1>2, WhenStarting DEF SetUp
<1>4. SetUpOK(Data(b, 4))
  BY <1>2, <1>3, AudioBlock, SetUpIsOK
<1>5. Addresses'
  BY StartSteps DEF Composed
<1>6. /\ bStop' = FALSE /\ filled' \in Seq(Nat) /\ usbBlock' \in Nat
      /\ \A i \in Idx : frame'[i].addr % 4 = 0
  BY <1>4 DEF SetUpOK, NULL
<1> QED
  BY <1>1, <1>3, <1>5, <1>6, FailedInv

LEMMA StartOkInv ==
  ASSUME AudioInv, HeapInv, DmaInv, StartOk
  PROVE  AudioInv'
<1> USE DEF AudioInv
<1>1. /\ Receives("START") /\ ack' = "SUCCESS"
      /\ UNCHANGED <<hung, packing, driverQ, waiter, status, caller, others, tardy, lost>>
  BY DEF StartOk, elsewhere, dmaTasks, callerVars, historyVars
<1>2. PICK b \in FirstFit(AVI_ENCODE_PCM_BUFFER_NO * Length, 4, 1) :
        /\ gp_malloc_align(AVI_ENCODE_PCM_BUFFER_NO * Length, 4, Data(b, 4))
        /\ SetUp(Data(b, 4))
        /\ input' = Buffers(Data(b, 4))
  BY DEF StartOk
<1>3. PICK c \in GetChannel(FALSE) :
        /\ channel' = DoubleBufSet(TransferExtend(c, "OCCUPIED", OwnerQueue, ready'), c, next')
        /\ dbf' = c
  BY DEF StartOk
<1> DEFINE p == Data(b, 4)
<1>4. /\ p \in Nat /\ p > HeapStart + 2 /\ p % 4 = 0
      /\ \A d \in blocks : d.head + 2 # p
  BY AudioBlock
<1>5. Begins
  BY <1>1, <1>2, WhenStarting DEF SetUp
<1>6. SetUpOK(p)
  BY <1>2, <1>4, <1>5, SetUpIsOK
<1>7. blocks' = blocks \cup {[head |-> p - 2, end |-> p + 3 * Words - 1]}
  <2>1. FirstFit(AVI_ENCODE_PCM_BUFFER_NO * Length, 4, 1) # {}
    BY <1>2
  <2> QED
    BY <1>2, <1>5, <2>1 DEF gp_malloc_align, Allocate, Begins
<1>8. input' = Buffers(p)
  BY <1>2
<1> HIDE DEF p
<1>9. /\ input'[0] = p
      /\ \A i \in Idx : input'[i] = p + i * Words /\ input'[i] % 4 = 0
      /\ \A i, j \in Idx : i # j => input'[i] # input'[j]
  BY <1>4, <1>5, <1>8, BuffersFacts DEF Begins
<1>10. /\ caller \in {"starting", "webcam"} /\ packing = <<>> /\ audQ' = <<>>
       /\ Silent /\ input[0] = NULL
       /\ Words' = Words /\ (Cam' <=> Cam) /\ (Cam <=> caller = "webcam")
  BY <1>1, <1>5 DEF Begins, Silent, Nowhere, Words, Cam
<1>11. HeapStart \in Nat \ {0} /\ NULL = 0 /\ p # NULL /\ HasMemory'
  BY <1>4, <1>9, HeapAssumption DEF NULL, HasMemory
<1>12. Addresses'
  BY StartSteps DEF Composed
<1>13. /\ InUse' = {c} /\ c = dbf' /\ c \in Channels
       /\ channel'[c].target = ready' /\ channel'[c].next = next'
  <2>1. c \in Channels /\ channel \in ChannelType /\ InUse = {}
    BY <1>10 DEF GetChannel, Silent, DmaInv, DmaTypeOK
  <2> DEFINE extended == TransferExtend(c, "OCCUPIED", OwnerQueue, ready')
  <2>2. extended \in ChannelType /\ ready' \in Nat /\ next' \in Nat
    BY <1>12, <2>1 DEF Addresses, TransferExtend, ChannelType, NO_TARGET
  <2>3. /\ extended[c].usage = "OCCUPIED" /\ extended[c].target = ready'
        /\ extended[c].runs
        /\ \A d \in Channels \ {c} : extended[d] = channel[d]
    BY <2>1 DEF TransferExtend, ChannelType
  <2> HIDE DEF extended
  <2>4. channel' = [extended EXCEPT ![c].next = next']
    BY <1>3, <2>1, <2>3 DEF DoubleBufSet, extended
  <2>5. /\ channel'[c].usage = "OCCUPIED" /\ channel'[c].target = ready'
        /\ channel'[c].runs /\ channel'[c].next = next'
        /\ \A d \in Channels \ {c} : channel'[d] = channel[d]
    BY <2>1, <2>2, <2>3, <2>4 DEF ChannelType
  <2> QED
    BY <1>3, <2>1, <2>5 DEF InUse
<1>14. MemoryInv'
  <2>1. {d.head + 2 : d \in blocks'} = {d.head + 2 : d \in blocks} \cup {p}
    <3> DEFINE new == [head |-> p - 2, end |-> p + 3 * Words - 1]
    <3>1. new.head + 2 = p /\ blocks' = blocks \cup {new}
      BY <1>4, <1>7
    <3> HIDE DEF new
    <3> QED
      BY <3>1
  <2>2. HeapAccounted'
    BY <1>1, <1>9, <1>10, <1>11, <2>1 DEF MemoryInv, HeapAccounted
  <2>3. p \notin others \cup {HeapStart + 2}
    BY <1>4 DEF MemoryInv, HeapAccounted
  <2>4. \A d \in blocks' : d.head + 2 = p => d.end = p + 3 * Words - 1
    BY <1>4, <1>7
  <2> QED
    BY <1>1, <1>4, <1>9, <1>10, <1>11, <2>2, <2>3, <2>4 DEF MemoryInv
<1>15. /\ bStop' = FALSE /\ filled' = <<>> /\ usbBlock' = NULL
       /\ \A i \in Idx : frame'[i].addr % 4 = 0
  BY <1>6 DEF SetUpOK
<1>16. TaskTypes'
  <2>1. filled' \in Seq(Nat)
    <3>1. <<>> \in Seq(Nat)
      OBVIOUS
    <3> QED
      BY <1>15, <3>1
  <2>2. usbBlock' \in Nat /\ bStop' \in BOOLEAN
    BY <1>15 DEF NULL
  <2>3. dbf' \in Channels \cup {NO_CHANNEL} /\ ack' \in {"none", "SUCCESS", "FAIL"}
    BY <1>1, <1>13
  <2> QED
    BY <1>1, <2>1, <2>2, <2>3 DEF TaskTypes
<1>17. QueueInv' /\ ~ Pending' /\ audQ' \in Quiet
  BY <1>10 DEF QueueInv, Pending, TimedOut, Quiet
<1>18. CallInv'
  BY <1>1, <1>10, <1>11, <1>15, <1>17 DEF CallInv, Starts
<1>19. ASSUME Cam
       PROVE  FrameInv' /\ ChannelInv' /\ RecordInv' /\ WebcamInv'
  <2>1. /\ ready' = input'[NextIndex(pcmIndex')]
        /\ next' = input'[NextIndex(NextIndex(pcmIndex'))]
    BY <1>6, <1>8, <1>19 DEF SetUpOK
  <2>2. /\ NextIndex(pcmIndex') \in Idx /\ NextIndex(NextIndex(pcmIndex')) \in Idx
    BY <1>12, NextIndexRound DEF Addresses
  <2>3. FrameInv'
    BY <1>9, <1>10, <1>15, <1>19, <2>1, <2>2 DEF FrameInv
  <2>4. ChannelInv'
    <3>1. ready' \in {input'[i] + 0 : i \in Idx} /\ next' \in {input'[i] + 0 : i \in Idx}
      BY <1>12, <2>1, <2>2 DEF Addresses
    <3> QED
      BY <1>10, <1>11, <1>13, <1>19, <3>1 DEF ChannelInv
  <2>5. RecordInv'
    BY <1>10, <1>19 DEF RecordInv
  <2>6. WebcamInv'
    BY <1>13, <1>15, <1>17, <2>1 DEF WebcamInv
  <2> QED
    BY <2>3, <2>4, <2>5, <2>6
<1>20. ASSUME ~ Cam
       PROVE  FrameInv' /\ ChannelInv' /\ RecordInv' /\ WebcamInv'
  <2>1. /\ pcmIndex' = pcmIndex
        /\ \A i \in Idx : frame'[i].addr = input'[(pcmIndex' + i) % 3]
        /\ ready' = Samples(0)' /\ next' = Samples(1)'
    BY <1>6, <1>8, <1>20 DEF SetUpOK, Samples
  <2>2. FrameInv'
    BY <1>10, <1>15, <1>20, <2>1 DEF FrameInv
  <2> DEFINE first == (pcmIndex' + 0) % 3
             second == (pcmIndex' + 1) % 3
  <2>3. first \in Idx /\ second \in Idx /\ first # second
    <3>1. pcmIndex' = 0 \/ pcmIndex' = 1 \/ pcmIndex' = 2
      BY <1>12 DEF Addresses
    <3> QED
      BY <3>1
  <2>4. ready' = input'[first] + HEADER /\ next' = input'[second] + HEADER
    BY <2>1 DEF Samples
  <2> HIDE DEF first, second
  <2>5. ready' # next'
    <3>1. input'[first] \in Nat /\ input'[second] \in Nat /\ input'[first] # input'[second]
      BY <1>9, <1>12, <2>3 DEF Addresses
    <3> QED
      BY <2>4, <3>1 DEF HEADER
  <2>6. ChannelInv'
    BY <1>10, <1>11, <1>13, <1>20, <2>3, <2>4 DEF ChannelInv
  <2>7. RecordInv'
    <3>1. Goes(ready, next, <<>>)'
      BY <1>13, <1>15 DEF Goes
    <3>2. \E i \in Idx : ready' = Samples(i)'
      BY <2>1
    <3>3. \E i \in Idx : next' = Samples(i)'
      BY <2>1
    <3> QED
      BY <1>17, <2>5, <3>1, <3>2, <3>3 DEF RecordInv
  <2>8. WebcamInv'
    BY <1>1, <1>10, <1>20 DEF WebcamInv
  <2> QED
    BY <2>2, <2>6, <2>7, <2>8
<1>21. PendingInv' /\ PackingInv'
  BY <1>1, <1>10, <1>17 DEF PendingInv, PackingInv
<1> QED
  BY <1>12, <1>14, <1>16, <1>17, <1>18, <1>19, <1>20, <1>21
-----------------------------------------------------------------------------
(* All steps, and what follows.                                            *)

LEMMA AudioStepInv ==
  AudioInv /\ HeapInv /\ DmaInv /\ [Next]_vars => AudioInv'
<1> SUFFICES ASSUME AudioInv, HeapInv, DmaInv, [Next]_vars PROVE AudioInv'
  OBVIOUS
<1>1. CASE AudioTask
  <2>1. CASE DoneWhenStopping \/ DoneForUsb \/ BufferError \/ WaitForPacker \/ DoneForPacker
    BY <2>1, DoneWhenStoppingInv, DoneForUsbInv, BufferErrorInv, WaitForPackerInv,
       DoneForPackerInv
  <2>2. CASE DmaTimeout \/ Stoping \/ Stop
    BY <2>2, DmaTimeoutInv, StopingInv, StopInv
  <2>3. CASE StartNoMemory \/ StartNoChannel \/ StartOk
    BY <2>3, StartNoMemoryInv, StartNoChannelInv, StartOkInv
  <2> QED
    BY <1>1, <2>1, <2>2, <2>3 DEF AudioTask
<1>2. CASE AudioIsr \/ AudioIsrTimeout \/ PackerWrites
  BY <1>2, AudioIsrInv, AudioIsrTimeoutInv, PackerWritesInv
<1>3. CASE OtherAllocates \/ OtherFrees \/ DriverNext
  BY <1>3, OtherAllocatesInv, OtherFreesInv, DriverNextInv
<1>4. CASE EncStart \/ EncStop \/ WebcamStart \/ WebcamStop \/ CallerGoesOn
  BY <1>4, AskingInv, AnsweredInv, StoppedInv DEF CallerGoesOn
<1>5. CASE UNCHANGED vars
  <2>1. /\ UNCHANGED <<blocks, channel, audQ, ack, bStop, ready, next, input, pcmIndex>>
        /\ UNCHANGED <<frame, dbf, usbBlock, hung, status, caller, packing, others>>
        /\ UNCHANGED <<filled, tardy, lost>>
    BY <1>5 DEF vars, dmaVars, taskVars, callerVars, historyVars
  <2>2. Addresses' /\ TaskTypes'
    BY <2>1 DEF AudioInv, Addresses, TaskTypes
  <2>3. QueueInv' /\ CallInv'
    BY <2>1 DEF AudioInv, QueueInv, TimedOut, CallInv, Starts, Runs, Stops, HasMemory,
                Silent, InUse
  <2>4. MemoryInv' /\ FrameInv' /\ ChannelInv'
    BY <2>1, MemoryKept, FrameKept, ChannelKept DEF AudioInv
  <2>5. RecordInv' /\ WebcamInv'
    BY <2>1 DEF AudioInv, RecordInv, WebcamInv, Cam, InUse, Pending, Goes, Samples
  <2>6. PendingInv' /\ PackingInv'
    BY <2>1 DEF AudioInv, PendingInv, PackingInv, Cam, Pending, InUse, HasMemory, Samples
  <2> QED
    BY <2>2, <2>3, <2>4, <2>5, <2>6 DEF AudioInv
<1> QED
  BY <1>1, <1>2, <1>3, <1>4, <1>5 DEF Next

LEMMA AudioInitInv == Init => AudioInv
<1> SUFFICES ASSUME Init PROVE AudioInv
  OBVIOUS
<1>1. Addresses /\ ~ HasMemory /\ input = Nowhere /\ ~ Cam
  BY InitComposed DEF Init, HasMemory, Nowhere, Cam
<1>2. InUse = {}
  BY DEF Init, DmaInit, InUse, Unused
<1>3. TaskTypes
  <2>1. <<>> \in Seq(Idx) /\ <<>> \in Seq(Nat) /\ Len(<<>>) = 0
    OBVIOUS
  <2>2. 0 \in Channels /\ MaxBehind \in Nat /\ MaxLost \in Nat
    BY DmaAssumption, AudioAssumption DEF Channels
  <2> QED
    BY <2>1, <2>2 DEF Init, TaskTypes, NULL
<1>4. audQ \in Quiet /\ ~ Pending /\ ~ TimedOut
  BY DEF Init, Quiet, Pending, TimedOut
<1>5. QueueInv
  BY <1>4 DEF QueueInv
<1>6. CallInv
  BY <1>1, <1>2 DEF Init, CallInv, Silent
<1>7. MemoryInv
  <2>1. blocks = {[head |-> HeapStart, end |-> HeapStart + 1]} /\ HeapStart \in Nat \ {0}
    BY HeapAssumption DEF Init, HeapInit
  <2>2. {b.head + 2 : b \in blocks} = {HeapStart + 2}
    BY <2>1
  <2> QED
    BY <1>1, <2>1, <2>2 DEF Init, MemoryInv, HeapAccounted, NULL
<1>8. FrameInv /\ ChannelInv /\ RecordInv /\ WebcamInv
  BY <1>1, <1>2 DEF Init, FrameInv, ChannelInv, RecordInv, WebcamInv, NULL
<1>9. PendingInv /\ PackingInv
  BY <1>1, <1>4 DEF Init, PendingInv, PackingInv
<1> QED
  BY <1>1, <1>3, <1>5, <1>6, <1>7, <1>8, <1>9 DEF AudioInv

LEMMA AlwaysAudio == Spec => [](AudioInv /\ HeapInv /\ DmaInv)
<1>1. AudioInv /\ HeapInv /\ DmaInv /\ [Next]_vars => (AudioInv /\ HeapInv /\ DmaInv)'
  <2> SUFFICES ASSUME AudioInv, HeapInv, DmaInv, [Next]_vars
               PROVE  AudioInv' /\ HeapInv' /\ DmaInv'
    OBVIOUS
  <2>1. Composed
    BY StepComposed DEF AudioInv
  <2> QED
    BY <2>1, AudioStepInv, HeapStepApart, DmaStepInv DEF Composed
<1>2. Init => AudioInv /\ HeapInv /\ DmaInv
  BY AudioInitInv, InitComposed, DmaInitInv
<1> QED
  BY <1>1, <1>2, PTL DEF Spec
-----------------------------------------------------------------------------
(* The variables of the sound task, of its callers and of the driver keep  *)
(* their types, and its mailbox its five entries (avi_aud_q).              *)
THEOREM AudioTypeOK == Spec => []TypeOK
<1>1. AudioInv /\ DmaInv => TypeOK
  <2> SUFFICES ASSUME AudioInv, DmaInv PROVE TypeOK
    OBVIOUS
  <2>1. audQ \in Seq({"DONE", "TIMEOUT", "START", "STOPING", "STOP"}) /\ Len(audQ) <= 5
    <3>1. CASE audQ = <<>>
      BY <3>1
    <3>2. ASSUME NEW m \in {"DONE", "TIMEOUT", "START", "STOPING", "STOP"}, audQ = <<m>>
          PROVE  audQ \in Seq({"DONE", "TIMEOUT", "START", "STOPING", "STOP"})
                 /\ Len(audQ) <= 5
      BY <3>2
    <3>3. ASSUME NEW m \in {"STOPING", "STOP"}, NEW answer \in {"DONE", "TIMEOUT"},
                 audQ = <<m, answer>>
          PROVE  audQ \in Seq({"DONE", "TIMEOUT", "START", "STOPING", "STOP"})
                 /\ Len(audQ) <= 5
      BY <3>3
    <3> QED
      BY <3>1, <3>2, <3>3, QueueCases DEF AudioInv, Statuses
  <2>2. status \subseteq {"AUDIO", "START", "USB_WEBCAM"}
    BY DEF AudioInv, TaskTypes, CallInv
  <2> QED
    BY <2>1, <2>2 DEF AudioInv, TaskTypes, Addresses, DmaInv, TypeOK
<1> QED
  BY <1>1, AlwaysAudio, PTL

(* The heap holds the blocks of those that use it and no others: the       *)
(* sound's memory is given back once, by the task (avi_audio_record_exit)  *)
(* or by the caller that gave up.                                          *)
THEOREM AudioHeapAccounted == Spec => []HeapAccounted
<1>1. AudioInv => HeapAccounted
  BY DEF AudioInv, MemoryInv
<1> QED
  BY <1>1, AlwaysAudio, PTL

(* The controller writes sound into the task's own block of the heap from  *)
(* the first word of a buffer to its last, and no channel goes on when     *)
(* that block is gone (avi_adc_double_buffer_put, _set and _free).         *)
THEOREM AudioWritesInside == Spec => []WritesInside
<1>1. AudioInv /\ HeapInv => WritesInside
  <2> SUFFICES ASSUME AudioInv, HeapInv, NEW c \in InUse
               PROVE  /\ c = dbf
                      /\ \A t \in {channel[c].target, channel[c].next} \ {DUMMY, NO_TARGET} :
                           \E b \in blocks :
                             /\ b.head + 2 = input[0]
                             /\ {t, t + Extent(t) - 1} \subseteq input[0] .. b.end
    BY DEF WritesInside
  <2> USE DEF AudioInv
  <2>1. c = dbf /\ HasMemory
    BY DEF ChannelInv
  <2>2. PICK b \in blocks : b.head + 2 = input[0] /\ b.end = input[0] + 3 * Words - 1
    BY <2>1, InputFacts
  <2>3. /\ input[0] \in Nat /\ Words \in Nat \ {0}
        /\ input[1] = input[0] + Words /\ input[2] = input[0] + 2 * Words
        /\ \A i \in Idx : input[i] \in Nat /\ input[i] % 4 = 0
    BY <2>1, InputFacts
  <2>4. \A j \in Idx : input[0] <= input[j] /\ input[j] + Words - 1 <= b.end
    BY <2>2, <2>3
  <2>5. ASSUME NEW t \in {channel[c].target, channel[c].next} \ {DUMMY, NO_TARGET}
        PROVE  {t, t + Extent(t) - 1} \subseteq input[0] .. b.end
    <3>1. PICK j \in Idx : t = input[j] + (IF Cam THEN 0 ELSE HEADER)
      BY DEF ChannelInv
    <3>2. input[j] \in Nat /\ b.end \in Int
      BY <2>2, <2>3
    <3>3. CASE Cam
      <4>1. t = input[j] /\ t % 4 = 0
        BY <2>3, <3>1, <3>3
      <4>2. \A i \in Idx : t # Samples(i)
        <5>1. \A i \in Idx : frame[i].addr % 4 = 0 /\ frame[i].addr \in Nat
          BY DEF FrameInv, Addresses
        <5>2. \A a \in Nat : a % 4 = 0 => (a + 2) % 4 = 2
          OBVIOUS
        <5> QED
          BY <4>1, <5>1, <5>2 DEF Samples, HEADER
      <4>3. Extent(t) = Words
        BY <3>3, <4>2 DEF Extent, Words
      <4> QED
        BY <2>3, <2>4, <3>2, <4>1, <4>3
    <3>4. CASE ~ Cam
      <4>1. t = input[j] + 2
        BY <3>1, <3>4 DEF HEADER
      <4>2. PICK i \in Idx : (pcmIndex + i) % 3 = j
        <5>1. pcmIndex = 0 \/ pcmIndex = 1 \/ pcmIndex = 2
          BY DEF Addresses
        <5>2. j = 0 \/ j = 1 \/ j = 2
          OBVIOUS
        <5> QED
          BY <5>1, <5>2
      <4>3. t = Samples(i)
        <5>1. frame[i].addr = input[(pcmIndex + i) % 3]
          BY <2>1, <3>4 DEF FrameInv
        <5> QED
          BY <4>1, <4>2, <5>1 DEF Samples, HEADER
      <4>4. Extent(t) = Words - 2 /\ Words > 4
        BY <3>4, <4>3, AudioAssumption DEF Extent, Words, HEADER
      <4> QED
        BY <2>3, <2>4, <3>2, <4>1, <4>4
    <3> QED
      BY <3>3, <3>4
  <2> QED
    BY <2>1, <2>2, <2>5
<1> QED
  BY <1>1, AlwaysAudio, PTL

(* While it is read no block is written to, by the packer in its time or   *)
(* by USB (avi_audio_get_next_buffer, is_used and its choice of the next). *)
THEOREM AudioBlocksKept == Spec => []BlocksKept
<1>1. AudioInv /\ HeapInv => BlocksKept
  <2> SUFFICES ASSUME AudioInv, HeapInv PROVE BlocksKept
    OBVIOUS
  <2> USE DEF AudioInv
  <2>1. ASSUME ~ tardy, NEW k \in DOMAIN packing
        PROVE  /\ input[0] # NULL
               /\ \A c \in InUse : Samples(packing[k]) # channel[c].target
    <3>1. packing # <<>> /\ packing \in Seq(Idx)
      BY <2>1 DEF TaskTypes
    <3>2. k = 1
      BY <2>1, <3>1 DEF PackingInv
    <3> QED
      BY <2>1, <3>1, <3>2 DEF PackingInv, HasMemory
  <2>2. ASSUME "USB_WEBCAM" \in status, NEW c \in InUse
        PROVE  usbBlock \notin {channel[c].target, channel[c].next} \ {NULL}
    <3>1. caller = "webcam" /\ c = dbf /\ HasMemory
      BY <2>2 DEF TaskTypes, CallInv, ChannelInv
    <3>2. /\ usbBlock \in {NULL, input[pcmIndex]}
          /\ {channel[c].target, channel[c].next} \subseteq
               {NO_TARGET, input[NextIndex(pcmIndex)], input[NextIndex(NextIndex(pcmIndex))]}
      BY <2>2, <3>1 DEF WebcamInv
    <3>3. /\ input[0] \in Nat \ {0} /\ Words \in Nat \ {0}
          /\ input[1] = input[0] + Words /\ input[2] = input[0] + 2 * Words
      BY <3>1, InputFacts
    <3>4. pcmIndex = 0 \/ pcmIndex = 1 \/ pcmIndex = 2
      BY DEF Addresses
    <3>5. input[0] # input[1] /\ input[1] # input[2] /\ input[0] # input[2]
      BY <3>3
    <3> QED
      BY <3>2, <3>3, <3>4, <3>5, NextIndexRound DEF NULL, NO_TARGET
  <2> QED
    BY <2>1, <2>2 DEF BlocksKept
<1> QED
  BY <1>1, AlwaysAudio, PTL

(* The packer gets every time the oldest full block, and once              *)
(* (avi_audio_record_entry, AUDIO_DMA_DONE).                               *)
THEOREM AudioPackedInOrder == Spec => PackedInOrder
<1>1. ASSUME AudioInv, HeapInv, DmaInv, [Next]_vars, Len(packing') > Len(packing)
      PROVE  filled # <<>> /\ Samples(packing'[Len(packing')]) = Head(filled)
  <2> USE DEF AudioInv
  <2>1. packing \in Seq(Idx)
    BY <1>1 DEF TaskTypes
  <2>2. packing' # packing
    BY <1>1
  <2>3. ~ PackerWrites
    BY <1>1, <2>1 DEF PackerWrites
  <2>4. DoneForPacker
    <3>1. ~ DriverNext /\ ~ UNCHANGED vars
      BY <2>2 DEF DriverNext, audioSide, vars
    <3>2. ~ AudioIsr /\ ~ AudioIsrTimeout /\ ~ OtherAllocates /\ ~ OtherFrees
      BY <2>2 DEF AudioIsr, AudioIsrTimeout, OtherAllocates, OtherFrees
    <3>3. ~ EncStart /\ ~ EncStop /\ ~ WebcamStart /\ ~ WebcamStop /\ ~ CallerGoesOn
      BY <2>2 DEF EncStart, EncStop, WebcamStart, WebcamStop, CallerGoesOn, EncStarted,
                  EncRuns, EncStopped, WebcamStoping, WebcamStopped, outside
    <3>4. ~ DoneWhenStopping /\ ~ DoneForUsb /\ ~ BufferError /\ ~ WaitForPacker
          /\ ~ DmaTimeout
      BY <2>2 DEF DoneWhenStopping, DoneForUsb, BufferError, WaitForPacker, DmaTimeout
    <3>5. ~ StartNoMemory /\ ~ StartNoChannel /\ ~ StartOk /\ ~ Stoping /\ ~ Stop
      BY <2>2 DEF StartNoMemory, StartNoChannel, StartOk, Stoping, Stop
    <3> QED
      BY <1>1, <2>3, <3>1, <3>2, <3>3, <3>4, <3>5 DEF Next, AudioTask
  <2>5. PICK w \in Recorded : packing' = packing \/ packing' = Append(packing, w)
    BY <2>4, DoneForPackerTakes
  <2>6. w \in Idx /\ Samples(w) = ready
    BY DEF Recorded
  <2>7. packing'[Len(packing')] = w
    BY <2>1, <2>2, <2>5, <2>6
  <2>8. recording /\ Recorded # {}
    BY <2>4, <2>5 DEF DoneForPacker
  <2>9. ~ Cam /\ ~ bStop /\ InUse # {} /\ Pending
    BY <1>1, <2>8, WhenRecording DEF recording
  <2>10. filled = <<ready>> \/ filled = <<ready, next>>
    BY <1>1, <2>9 DEF RecordInv, Goes
  <2> QED
    BY <2>6, <2>7, <2>10
<1> QED
  BY <1>1, AlwaysAudio, PTL DEF Spec, PackedInOrder

(* The endless loop behind "audio buffer error!" begins only between the   *)
(* two messages of usb_webcam_stop.                                        *)
THEOREM AudioErrorOnlyUnplugging == Spec => ErrorOnlyUnplugging
<1>1. ASSUME AudioInv, HeapInv, DmaInv, [Next]_vars, hung' # hung
      PROVE  caller = "clearing"
  <2>1. BufferError
    <3>1. ~ DriverNext /\ ~ UNCHANGED vars
      BY <1>1 DEF DriverNext, audioSide, taskVars, vars
    <3>2. ~ AudioIsr /\ ~ AudioIsrTimeout /\ ~ OtherAllocates /\ ~ OtherFrees
          /\ ~ PackerWrites
      BY <1>1 DEF AudioIsr, AudioIsrTimeout, OtherAllocates, OtherFrees, PackerWrites,
                  taskVars
    <3>3. ~ EncStart /\ ~ EncStop /\ ~ WebcamStart /\ ~ WebcamStop /\ ~ CallerGoesOn
      BY <1>1 DEF EncStart, EncStop, WebcamStart, WebcamStop, CallerGoesOn, EncStarted,
                  EncRuns, EncStopped, WebcamStoping, WebcamStopped, outside
    <3>4. ~ DoneWhenStopping /\ ~ DoneForUsb /\ ~ DoneForPacker /\ ~ WaitForPacker
          /\ ~ DmaTimeout
      BY <1>1 DEF DoneWhenStopping, DoneForUsb, DoneForPacker, WaitForPacker, DmaTimeout
    <3>5. ~ StartNoMemory /\ ~ StartNoChannel /\ ~ StartOk /\ ~ Stoping /\ ~ Stop
      BY <1>1 DEF StartNoMemory, StartNoChannel, StartOk, Stoping, Stop
    <3> QED
      BY <1>1, <3>1, <3>2, <3>3, <3>4, <3>5 DEF Next, AudioTask
  <2> QED
    BY <1>1, <2>1, WhenRecording DEF BufferError
<1> QED
  BY <1>1, AlwaysAudio, PTL DEF Spec, ErrorOnlyUnplugging
=============================================================================
