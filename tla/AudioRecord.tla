----------------------------- MODULE AudioRecord ----------------------------
(***************************************************************************)
(* application/task_avi_encoder/src/avi_audio_record.c: the task that      *)
(* records sound, with the memory it takes from the heap (Heap), the DMA   *)
(* channel that fills its buffers (Dma), and its callers:                  *)
(*   - avi_enc_start and avi_enc_stop, for a recording: a full buffer is   *)
(*     handed to the AVI packer, which clears is_used when it is written;  *)
(*   - usb_webcam_start and usb_webcam_stop: a full buffer is announced to *)
(*     the USB audio task.                                                 *)
(* Two kinds of buffers thus go round under one DMA channel that fills one *)
(* while the next is set already.                                          *)
(*                                                                         *)
(* The audio task (priority 16) outranks its callers (27 and 36), who wait *)
(* for its acknowledgement: the callers go on only when its queue is       *)
(* empty.  A buffer lasts for a second (256 ms for USB), and the task has  *)
(* handled one before the next is full.                                    *)
(***************************************************************************)
EXTENDS Heap, Dma, SequencesExt

CONSTANTS
  RecLen, CamLen, \* words of a buffer for a recording, and for USB
  OtherSizes,     \* what others ask of the heap
  MaxOthers,      \* bound: blocks of others
  MaxLost,        \* bound: time-outs of the audio channel
  MaxBehind       \* bound: frames the packer has not written

ASSUME AudioAssumption ==
  /\ RecLen \in Nat /\ CamLen \in Nat
  /\ RecLen % 4 = 0 /\ CamLen % 4 = 0 /\ RecLen > 4 /\ CamLen > 0
  /\ HeapEnd <= 268435456  \* the heap ends before DUMMY, where no memory is
  /\ OtherSizes \subseteq Nat \ {0}
  /\ {MaxOthers, MaxLost, MaxBehind} \subseteq Nat

AVI_ENCODE_PCM_BUFFER_NO == 3
Idx == 0 .. AVI_ENCODE_PCM_BUFFER_NO - 1
DUMMY == 268435456      \* 0x40000000, in words
NO_CHANNEL == 255       \* 0xff
HEADER == 2             \* words before the samples: "01wb" and the length

VARIABLES
  audQ,           \* avi_aud_q
  ack,            \* avi_aud_ack_m
  bStop, ready, next,
                  \* locals of the task: bStop, ready_addr, next_addr
  input,          \* pcm_input_addr
  pcmIndex,       \* g_pcm_index
  frame,          \* audio_frame: buffer_addrs and is_used
  dbf,            \* g_avi_adc_dma_dbf.channel
  status,         \* C_AVI_ENCODE_: AUDIO, START, USB_WEBCAM
  caller,         \* what the callers are doing
  packing,        \* frames the AVI packer has, in order
  usbBlock,       \* the block announced to the USB audio task last, in this
                  \* session
  others,         \* memory of others
  hung,           \* the task is in while(1)
  filled,         \* history: buffers filled and not handled yet, in order
  tardy,          \* history: the packer has taken longer than a buffer lasts
  lost            \* counter for the bound

taskVars == <<audQ, ack, bStop, ready, next, input, pcmIndex, frame, dbf, usbBlock, hung>>
callerVars == <<status, caller>>
historyVars == <<tardy, lost>>
vars == <<blocks, dmaVars, taskVars, callerVars, packing, others, filled, historyVars>>

Init ==
  /\ HeapInit
  /\ DmaInit
  /\ audQ = <<>> /\ ack = "none"
  /\ bStop = FALSE /\ ready = NULL /\ next = NULL
  /\ input = [i \in Idx |-> NULL]
  /\ pcmIndex = 0
  /\ frame = [i \in Idx |-> [addr |-> NULL, used |-> FALSE]]
  /\ dbf = 0
  /\ status = {} /\ caller = "idle"
  /\ packing = <<>> /\ usbBlock = NULL /\ others = {}
  /\ hung = FALSE /\ filled = <<>> /\ tardy = FALSE /\ lost = 0
-----------------------------------------------------------------------------
(* The task's messages.                                                    *)

Receives(msg) ==
  /\ ~ hung
  /\ audQ # <<>>
  /\ Head(audQ) = msg

Samples(i) == frame[i].addr + HEADER

\* The history s without x, which is in it once at most.
Without(s, x) ==
  IF \E k \in DOMAIN s : s[k] = x THEN RemoveAt(s, CHOOSE k \in DOMAIN s : s[k] = x) ELSE s

\* avi_adc_double_buffer_set
SetNext(target) == channel' = DoubleBufSet(channel, dbf, target)

dmaTasks == <<driverQ, waiter>>
elsewhere == <<dmaTasks, callerVars, others, historyVars>>

\* Mutant: the task does not tell itself to stop.
DoneWhenStoppingOnly ==
  /\ Receives("DONE")
  /\ bStop
  /\ SetNext(DUMMY)
  /\ audQ' = Tail(audQ)
  /\ UNCHANGED <<blocks, ack, bStop, ready, next, input, pcmIndex, frame, dbf, usbBlock,
                 hung, packing, filled, elsewhere>>

\* Stopping: the last buffer goes nowhere.
DoneWhenStopping ==
  /\ Receives("DONE")
  /\ bStop
  /\ SetNext(DUMMY)
  /\ audQ' = Append(Tail(audQ), "STOP")
  /\ UNCHANGED <<blocks, ack, bStop, ready, next, input, pcmIndex, frame, dbf, usbBlock,
                 hung, packing, filled, elsewhere>>

\* Mutant: the index does not wrap.
NextIndexPast(k) == k + 1

\* avi_audio_get_next_buffer
NextIndex(k) == (k + 1) % AVI_ENCODE_PCM_BUFFER_NO

DoneForUsb ==
  /\ Receives("DONE")
  /\ ~ bStop
  /\ "USB_WEBCAM" \in status
  /\ audQ' = Tail(audQ)
  /\ usbBlock' = ready
  /\ filled' = Without(filled, ready)
  /\ ready' = next
  /\ next' = input[pcmIndex]
  /\ pcmIndex' = NextIndex(pcmIndex)
  /\ SetNext(input[pcmIndex])
  /\ UNCHANGED <<blocks, ack, bStop, input, frame, dbf, hung, packing, elsewhere>>

\* Mutant: the header before the samples is forgotten.
RecordedAt == {i \in Idx : frame[i].addr = ready}

Recorded == {i \in Idx : Samples(i) = ready}

\* Mutant: the buffer that is being filled is not left out.
AvailableAny == {i \in Idx : ~ frame[i].used}

Available == {i \in Idx : Samples(i) # next /\ ~ frame[i].used}

recording == Receives("DONE") /\ ~ bStop /\ "USB_WEBCAM" \notin status

\* "audio buffer error!", and while(1).
BufferError ==
  /\ recording
  /\ Recorded = {}
  /\ audQ' = Tail(audQ)
  /\ hung' = TRUE
  /\ UNCHANGED <<blocks, channel, ack, bStop, ready, next, input, pcmIndex, frame, dbf,
                 usbBlock, packing, filled, elsewhere>>

\* Mutant: the buffers move on all the same.
WaitForPackerMoving ==
  /\ recording
  /\ Recorded # {}
  /\ Available = {}
  /\ audQ' = Tail(audQ)
  /\ SetNext(DUMMY)
  /\ ready' = next
  /\ UNCHANGED <<blocks, ack, bStop, next, input, pcmIndex, frame, dbf, usbBlock,
                 hung, packing, filled, elsewhere>>

\* "&": no buffer is free, and a second of sound goes nowhere.
WaitForPacker ==
  /\ recording
  /\ Recorded # {}
  /\ Available = {}
  /\ audQ' = Tail(audQ)
  /\ SetNext(DUMMY)
  /\ UNCHANGED <<blocks, ack, bStop, ready, next, input, pcmIndex, frame, dbf, usbBlock,
                 hung, packing, filled, elsewhere>>

\* The block is given to the packer, unless encoding has not begun or the
\* card is full.
DoneForPacker ==
  /\ recording
  /\ audQ' = Tail(audQ)
  /\ \E w \in Recorded, i \in Available :
       /\ \A j \in Recorded : w <= j
       /\ \A j \in Available : i <= j
       /\ ready' = next
       /\ next' = Samples(i)
       /\ SetNext(Samples(i))
       /\ filled' = Without(filled, ready)
       /\ \/ UNCHANGED <<frame, packing>>
          \/ /\ "START" \in status
             /\ frame' = [frame EXCEPT ![w].used = TRUE]
             /\ packing' = Append(packing, w)
  /\ UNCHANGED <<blocks, ack, bStop, input, pcmIndex, dbf, usbBlock, hung, elsewhere>>

DmaTimeout ==
  /\ Receives("TIMEOUT")
  /\ audQ' = Tail(audQ)
  /\ UNCHANGED <<blocks, channel, ack, bStop, ready, next, input, pcmIndex, frame, dbf,
                 usbBlock, hung, packing, filled, elsewhere>>
-----------------------------------------------------------------------------
(* Starting and stopping.                                                  *)

Length == IF "USB_WEBCAM" \in status THEN CamLen ELSE RecLen
Nowhere == [i \in Idx |-> NULL]

\* AUDIO_RECORD_START_FAIL, from the state the attempt has left behind.
StartFails(chan) ==
  /\ channel' = DoubleBufFree(chan, dbf)
  /\ dbf' = NO_CHANNEL
  /\ input' = Nowhere
  /\ ack' = "FAIL"

\* avi_audio_memory_allocate fails.
StartNoMemory ==
  /\ Receives("START")
  /\ audQ' = Tail(audQ)
  /\ bStop' = FALSE
  /\ gp_malloc_align(AVI_ENCODE_PCM_BUFFER_NO * Length, 4, NULL)
  /\ StartFails(channel)
  /\ UNCHANGED <<ready, next, pcmIndex, frame, usbBlock, hung, packing, filled, elsewhere>>

\* Where the buffers are, and the first two of them.
Buffers(p) == [i \in Idx |-> p + i * Length]

\* What the attempt leaves behind when it has memory at p.
SetUp(p) ==
  /\ audQ' = Tail(audQ)
  /\ bStop' = FALSE
  /\ filled' = <<>>
  /\ usbBlock' = NULL
  /\ IF "USB_WEBCAM" \in status
       THEN LET second == NextIndex(pcmIndex)
            IN  /\ ready' = Buffers(p)[pcmIndex]
                /\ next' = Buffers(p)[second]
                /\ pcmIndex' = NextIndex(second)
                /\ UNCHANGED frame
       ELSE LET at == [i \in Idx |-> Buffers(p)[(pcmIndex + i) % AVI_ENCODE_PCM_BUFFER_NO]]
            IN  /\ frame' = [i \in Idx |-> [addr |-> at[i], used |-> FALSE]]
                /\ ready' = at[0] + HEADER
                /\ next' = at[1] + HEADER
                /\ UNCHANGED pcmIndex

\* Its memory is allocated and freed again.
StartNoChannel ==
  /\ Receives("START")
  /\ GetChannel(FALSE) = {}
  /\ \E b \in FirstFit(AVI_ENCODE_PCM_BUFFER_NO * Length, 4, 1) : SetUp(Data(b, 4))
  /\ StartFails(channel)
  /\ UNCHANGED <<blocks, hung, packing, elsewhere>>

StartOk ==
  /\ Receives("START")
  /\ \E b \in FirstFit(AVI_ENCODE_PCM_BUFFER_NO * Length, 4, 1) :
       LET p == Data(b, 4)
       IN  /\ gp_malloc_align(AVI_ENCODE_PCM_BUFFER_NO * Length, 4, p)
           /\ SetUp(p)
           /\ input' = Buffers(p)
  /\ \E c \in GetChannel(FALSE) :
       /\ channel' = DoubleBufSet(TransferExtend(c, "OCCUPIED", OwnerQueue, ready'), c, next')
       /\ dbf' = c
  /\ ack' = "SUCCESS"
  /\ UNCHANGED <<hung, packing, elsewhere>>

Stoping ==
  /\ Receives("STOPING")
  /\ audQ' = Tail(audQ)
  /\ bStop' = TRUE
  /\ UNCHANGED <<blocks, channel, ack, ready, next, input, pcmIndex, frame, dbf, usbBlock,
                 hung, packing, filled, elsewhere>>

\* Mutant: the addresses are kept.
MemoryFreeKeeping ==
  /\ IF input[0] = NULL THEN UNCHANGED blocks ELSE gp_free(input[0])
  /\ UNCHANGED input

\* avi_audio_memory_free
MemoryFree ==
  /\ IF input[0] = NULL THEN UNCHANGED blocks ELSE gp_free(input[0])
  /\ input' = Nowhere

\* Mutant: the channel is not given back.
StopChannelKept ==
  /\ Receives("STOP")
  /\ audQ' = Tail(audQ)
  /\ MemoryFree
  /\ ack' = "SUCCESS"
  /\ UNCHANGED <<channel, dbf, bStop, ready, next, pcmIndex, frame, usbBlock, hung,
                 packing, filled, elsewhere>>

Stop ==
  /\ Receives("STOP")
  /\ audQ' = Tail(audQ)
  /\ channel' = DoubleBufFree(channel, dbf)
  /\ dbf' = NO_CHANNEL
  /\ MemoryFree
  /\ ack' = "SUCCESS"
  /\ UNCHANGED <<bStop, ready, next, pcmIndex, frame, usbBlock, hung, packing, filled,
                 elsewhere>>

AudioTask ==
  \/ DoneWhenStopping \/ DoneForUsb \/ BufferError \/ WaitForPacker \/ DoneForPacker
  \/ DmaTimeout \/ StartNoMemory \/ StartNoChannel \/ StartOk \/ Stoping \/ Stop
-----------------------------------------------------------------------------
(* Interrupts, the packer and others.                                      *)

\* A buffer is full; the hardware turns to the next.
AudioIsr ==
  LET c == dbf
  IN  /\ c \in Channels
      /\ "DONE" \notin ToSet(audQ)
      /\ Len(packing) < MaxBehind
      /\ IsrOccupied(c, "DONE")
      /\ audQ' = Append(audQ, "DONE")
      /\ filled' = LET kept == Without(Without(filled, channel[c].target), channel[c].next)
                   IN  IF channel[c].target = DUMMY THEN kept
                       ELSE Append(kept, channel[c].target)
      /\ tardy' = (tardy \/ packing # <<>>)
      /\ UNCHANGED <<blocks, ack, bStop, ready, next, input, pcmIndex, frame, dbf, usbBlock,
                     hung, callerVars, packing, others, lost>>

AudioIsrTimeout ==
  /\ lost < MaxLost
  /\ lost' = lost + 1
  /\ dbf \in Channels
  /\ "DONE" \notin ToSet(audQ)
  /\ IsrOccupied(dbf, "TIMEOUT")
  /\ audQ' = Append(audQ, "TIMEOUT")
  /\ UNCHANGED <<blocks, ack, bStop, ready, next, input, pcmIndex, frame, dbf, usbBlock,
                 hung, callerVars, packing, others, filled, tardy>>

\* AviPackerV3_Task (external) has written a frame.
PackerWrites ==
  /\ packing # <<>>
  /\ ~ hung
  /\ packing' = Tail(packing)
  /\ frame' = [frame EXCEPT ![Head(packing)].used = FALSE]
  /\ UNCHANGED <<blocks, dmaVars, audQ, ack, bStop, ready, next, input, pcmIndex, dbf,
                 usbBlock, hung, callerVars, others, filled, historyVars>>

\* Other parts of the program use the heap, each its own memory.
OtherAllocates ==
  /\ Cardinality(others) < MaxOthers
  /\ \E size \in OtherSizes : \E b \in FirstFit(size, 1, 0) :
       LET p == Data(b, 1) IN gp_malloc(size, p) /\ others' = others \cup {p}
  /\ UNCHANGED <<dmaVars, taskVars, callerVars, packing, filled, historyVars>>

OtherFrees ==
  /\ \E p \in others : gp_free(p) /\ others' = others \ {p}
  /\ UNCHANGED <<dmaVars, taskVars, callerVars, packing, filled, historyVars>>
-----------------------------------------------------------------------------
(* The callers.                                                            *)

outside == <<blocks, dmaVars, bStop, ready, next, input, pcmIndex, frame, dbf, usbBlock,
             hung, packing, others, filled, lost>>

\* The audio task has nothing to do; while it spins no caller runs.
Turn == audQ = <<>> /\ ~ hung

\* The two halves of POST_MESSAGE.
Post(msg) ==
  /\ audQ' = Append(audQ, msg)
  /\ ack' = "none"

Answered == ack # "none"

\* The pend gives up, after five seconds without a full buffer.
GivesUp == ~ Answered /\ \A c \in {dbf} \cap Channels : ~ channel[c].runs

\* avi_enc_start, when the packer has been opened.
EncStart ==
  /\ caller = "idle"
  /\ Turn
  /\ packing = <<>>
  /\ tardy' = FALSE
  /\ IF "AUDIO" \in status
       THEN /\ caller' = "recording"
            /\ status' = status \cup {"START"}
            /\ UNCHANGED <<audQ, ack>>
       ELSE Post("START") /\ caller' = "starting" /\ UNCHANGED status
  /\ UNCHANGED outside

EncStarted ==
  /\ caller = "starting"
  /\ Turn
  /\ \/ /\ ack = "SUCCESS"
        /\ caller' = "started"
        /\ status' = status \cup {"AUDIO"}
     \/ /\ ack = "FAIL" \/ GivesUp
        /\ caller' = "idle"
        /\ UNCHANGED status
  /\ UNCHANGED <<audQ, ack, tardy, outside>>

\* MSG_AVI_START_ENCODE has been acknowledged.
EncRuns ==
  /\ caller = "started"
  /\ Turn
  /\ caller' = "recording"
  /\ status' = status \cup {"START"}
  /\ UNCHANGED <<audQ, ack, tardy, outside>>

\* avi_enc_stop
EncStop ==
  /\ caller \in {"recording", "idle"}
  /\ "AUDIO" \in status
  /\ Turn
  /\ Post("STOPING")
  /\ caller' = "stopping"
  /\ UNCHANGED <<status, tardy, outside>>

\* The caller of avi_audio_record_stop frees the memory when it gives up, and
\* avi_enc_stop then returns without doing the rest.
EncStopped ==
  /\ caller = "stopping"
  /\ Turn
  /\ caller' = "idle"
  /\ \/ /\ ack = "SUCCESS"
        /\ status' = status \ {"AUDIO", "START"}
        /\ UNCHANGED <<blocks, input, tardy>>
     \/ /\ GivesUp
        /\ MemoryFree
        /\ tardy' = (tardy \/ packing # <<>>)
        /\ UNCHANGED status
  /\ UNCHANGED <<audQ, ack, dmaVars, bStop, ready, next, pcmIndex, frame, dbf,
                 usbBlock, hung, packing, others, filled, lost>>

\* usb_webcam_start; what it calls may fail, which it ignores.
WebcamStart ==
  /\ caller = "idle"
  /\ Turn
  /\ packing = <<>>
  /\ "START" \notin status
  /\ status' = status \cup {"USB_WEBCAM"}
  /\ Post("START")
  /\ caller' = "webcam"
  /\ tardy' = FALSE
  /\ UNCHANGED outside

\* usb_webcam_stop clears its flag first; the AVI state task is told before
\* the audio task is.
WebcamStop ==
  /\ caller = "webcam"
  /\ Turn
  /\ Answered \/ GivesUp
  /\ status' = status \ {"USB_WEBCAM"}
  /\ caller' = "clearing"
  /\ UNCHANGED <<audQ, ack, tardy, outside>>

WebcamStoping ==
  /\ caller = "clearing"
  /\ Turn
  /\ Post("STOPING")
  /\ caller' = "unplugging"
  /\ UNCHANGED <<status, tardy, outside>>

WebcamStopped ==
  /\ caller = "unplugging"
  /\ Turn
  /\ caller' = "idle"
  /\ \/ ack = "SUCCESS" /\ UNCHANGED <<blocks, input>>
     \/ GivesUp /\ MemoryFree
  /\ UNCHANGED <<audQ, ack, tardy, status, dmaVars, bStop, ready, next, pcmIndex, frame,
                 dbf, usbBlock, hung, packing, others, filled, lost>>

\* Steps that a caller takes on its own, once it has begun.
CallerGoesOn ==
  \/ EncStarted \/ EncRuns \/ EncStopped \/ WebcamStoping \/ WebcamStopped
-----------------------------------------------------------------------------
audioSide == <<blocks, taskVars, callerVars, packing, others, filled, historyVars>>

DriverNext == DmaNext /\ UNCHANGED audioSide

Next ==
  \/ AudioTask
  \/ AudioIsr \/ AudioIsrTimeout
  \/ PackerWrites \/ OtherAllocates \/ OtherFrees
  \/ EncStart \/ EncStop \/ WebcamStart \/ WebcamStop \/ CallerGoesOn
  \/ DriverNext

Spec == Init /\ [][Next]_vars

\* The task handles its messages, the sound goes on and is written, and a
\* caller that has begun goes on: between two buffers it has its turn again
\* and again.  Nobody has to begin.
Fairness ==
  /\ WF_vars(AudioTask)
  /\ WF_vars(AudioIsr)
  /\ WF_vars(PackerWrites)
  /\ SF_vars(CallerGoesOn)

FairSpec == Spec /\ Fairness
-----------------------------------------------------------------------------
TypeOK ==
  /\ DmaTypeOK
  /\ audQ \in Seq({"DONE", "TIMEOUT", "START", "STOPING", "STOP"}) /\ Len(audQ) <= 5
  /\ ack \in {"none", "SUCCESS", "FAIL"}
  /\ bStop \in BOOLEAN /\ hung \in BOOLEAN /\ tardy \in BOOLEAN
  /\ ready \in Nat /\ next \in Nat /\ usbBlock \in Nat
  /\ input \in [Idx -> Nat]
  /\ pcmIndex \in Idx
  /\ frame \in [Idx -> [addr : Nat, used : BOOLEAN]]
  /\ dbf \in Channels \cup {NO_CHANNEL}
  /\ status \subseteq {"AUDIO", "START", "USB_WEBCAM"}
  /\ caller \in {"idle", "starting", "started", "recording", "stopping",
                 "webcam", "clearing", "unplugging"}
  /\ packing \in Seq(Idx) /\ Len(packing) <= MaxBehind
  /\ filled \in Seq(Nat)
  /\ lost \in 0 .. MaxLost

(* The heap's blocks are those that somebody holds: nothing leaks, nothing *)
(* is freed twice or under its user, whoever frees the sound's memory, the *)
(* task or a caller that gave up.                                          *)
HeapAccounted ==
  {b.head + 2 : b \in blocks} =
    {HeapStart + 2} \cup others \cup ({input[0]} \ {NULL})

InUse == {c \in Channels : channel[c].usage = "OCCUPIED" /\ channel[c].runs}

\* The words written from t on: samples behind a header, or a block for USB.
Extent(t) == IF \E i \in Idx : t = Samples(i) THEN RecLen - HEADER ELSE CamLen

(* The controller writes sound into the memory that the task holds, from   *)
(* its first word to its last, or to the address that takes everything;    *)
(* whoever has stopped or failed, no channel goes on writing.              *)
WritesInside ==
  \A c \in InUse :
    /\ c = dbf
    /\ \A t \in {channel[c].target, channel[c].next} \ {DUMMY, NO_TARGET} :
         \E b \in blocks :
           /\ b.head + 2 = input[0]
           /\ {t, t + Extent(t) - 1} \subseteq input[0] .. b.end

(* While the packer is done with a block before the next is full, and so   *)
(* is USB: a block is not written to while it is read, and its memory is   *)
(* not freed either.                                                       *)
BlocksKept ==
  /\ ~ tardy => \A k \in DOMAIN packing :
       /\ input[0] # NULL
       /\ \A c \in InUse : Samples(packing[k]) # channel[c].target
  /\ "USB_WEBCAM" \in status /\ usbBlock \in {input[i] : i \in Idx} =>
       \A c \in InUse : usbBlock \notin {channel[c].target, channel[c].next} \ {NULL}

(* What the packer gets is the oldest block that is full, once, also after *)
(* blocks were thrown away.                                                *)
PackedInOrder ==
  [][Len(packing') > Len(packing) =>
       filled # <<>> /\ Samples(packing'[Len(packing')]) = Head(filled)]_vars

(* "audio buffer error!" and the endless loop behind it are not reached.   *)
NoBufferError == ~ hung

(* They are reached in one way only: a buffer for USB is full when         *)
(* usb_webcam_stop has cleared its flag and has not asked the task to stop *)
(* yet.  No recording loses its buffers, however it is started, stopped or *)
(* given up.                                                               *)
ErrorOnlyUnplugging ==
  [][hung' # hung => caller = "clearing"]_vars

Inside == {"starting", "started", "stopping", "clearing", "unplugging"}

(* A caller that starts or stops the sound goes on in the end: it gets an  *)
(* answer when there is no memory or no channel, too, and needs its        *)
(* time-out only when the channel has stopped; but for the endless loop.   *)
CallsEnd == caller \in Inside ~> caller \notin Inside \/ hung
=============================================================================
