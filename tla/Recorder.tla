------------------------------ MODULE Recorder -----------------------------
(***************************************************************************)
(* application/task_state_handling: the task that records video and takes  *)
(* pictures, in its states "record" (state_video_record) and "preview"     *)
(* (state_video_preview), composed with what drives it:                    *)
(*   - the storage task (StorageService), which mounts and opens files;    *)
(*   - the peripheral task, for the key and for the LED messages that send *)
(*     messages of their own;                                              *)
(*   - the encoder, which writes into the file it has been given;          *)
(*   - the software timers 0 (power off) and 3 (cyclic recording).         *)
(*                                                                         *)
(* Every task handles one message at a time, so a handler is one action.   *)
(* Recording starts in two steps, with a message to the storage task and   *)
(* its reply in between: that is where keys, timers, errors and the card   *)
(* can intervene.                                                          *)
(***************************************************************************)
EXTENDS StorageService, SequencesExt

(***************************************************************************)
(* Mishaps is a subset of                                                  *)
(*   "card"      the user moves the card, or it fails to answer once;      *)
(*   "open"      a file does not open;                                     *)
(*   "start"     the encoder does not start;                               *)
(*   "restart"   it does not start with the next file of a recording;      *)
(*   "stop"      encoder or packer do not stop;                            *)
(*   "packer"    the AVI packer reports an error;                          *)
(*   "numbers"   all file numbers are used when the next file is wanted.   *)
(*                                                                         *)
(* Timers and the packer send at any time.  The handlers of what they send *)
(* do not look whether it still fits: the cycle timer's may find nothing   *)
(* recorded, and any of them a file on its way.  That, and a next file the *)
(* encoder does not start with, derails the recorder: the history variable *)
(* derailed remembers it and steers nothing.                               *)
(***************************************************************************)
CONSTANTS
  MaxKeys,        \* bound: key presses
  MaxUpsets       \* bound: AVI packer errors

ASSUME RecorderAssumption == MaxKeys \in Nat /\ MaxUpsets \in Nat

POWER_OFF_TIMER_ID == 0
VIDEO_RECORD_CYCLE_TIMER_ID == 3
NO_TIMER == 255

VARIABLES
  state,          \* the state the task is in
  sts,            \* video_record_sts: flags UNMOUNT, BUSY, WAIT
  psts,           \* video_preview_sts: flags UNMOUNT, BUSY
  cyc,            \* cyclic_record_timerid
  curr,           \* curr_file_info.file_handle
  mounted,        \* sh_curr_storage_id # NO_STORAGE
  picDown,        \* pic_down_flag: the key is dead while a picture is taken
  enc,            \* the encoder: its flags START and PACKER0, its file handle,
                  \* the file the AVI packer (external) has open, and, as
                  \* history, whether one of them has ever refused to stop
  capturing,      \* capture_flag
  timers,         \* the software timers that run
  latched,        \* power_off_timerid = 0xFE
  keys, upsets,   \* counters for the bounds
  derailed,       \* history: see above
  unasked         \* history: a press of the key for a picture asked for none

apVars == <<state, sts, psts, cyc, curr, mounted>>
countVars == <<keys, upsets>>
outside == <<card, moves, mountTimer, phase, storage, missed, searching>>
history == <<mountedOver, derailed, unasked>>
vars == <<stq, apq, perq, full, open, apVars, picDown, enc, capturing, timers,
          latched, countVars, outside, history>>

Idle == [started |-> FALSE, packer0 |-> FALSE, file |-> NoFile,
         into |-> NoFile, refused |-> FALSE]
-----------------------------------------------------------------------------
\* After state_startup: it waits for the first word from the storage task and
\* enters the record state.  cyclic_record_timerid is 0 until that state has
\* been entered with a card.
PowerOn(inserted) ==
  /\ StorageInit(inserted)
  /\ state = "record"
  /\ sts = IF inserted THEN {} ELSE {"UNMOUNT"}
  /\ psts = {}
  /\ cyc = IF inserted THEN NO_TIMER ELSE 0
  /\ curr = 0
  /\ mounted = inserted
  /\ picDown = FALSE
  /\ enc = Idle
  /\ capturing = FALSE
  /\ timers = {}
  /\ latched = FALSE
  /\ keys = 0
  /\ upsets = 0
  /\ derailed = FALSE
  /\ unasked = FALSE

Init == \E inserted \in BOOLEAN : PowerOn(inserted)
-----------------------------------------------------------------------------
(* What a handler works on.  A function that can go wrong yields the set   *)
(* of its possible results.                                                *)

Work == [sts |-> sts, cyc |-> cyc, enc |-> enc, timers |-> timers,
         open |-> open, stq |-> stq]

Commit(w) ==
  /\ sts' = w.sts
  /\ cyc' = w.cyc
  /\ enc' = w.enc
  /\ timers' = w.timers
  /\ open' = w.open
  /\ stq' = w.stq

ToStorage(w, id) == [w EXCEPT !.stq = Append(@, id)]
Close(w, f) == [w EXCEPT !.open = @ \ {f}]
May(mishap) == IF mishap \in Mishaps THEN BOOLEAN ELSE {FALSE}

\* video_encode_start: the packer's flag is set even when it did not open.
Started(w, f) ==
  [w EXCEPT !.enc.started = TRUE, !.enc.packer0 = TRUE, !.enc.file = f,
            !.enc.into = f]
NotStarted(w, f) ==
  {[w EXCEPT !.enc.packer0 = TRUE, !.enc.file = f, !.enc.into = g] : g \in {f, NoFile}}

\* video_encode_stop: encoder and packer fail each on its own; the packer's
\* file is closed in any case.
EncodeStop(w) ==
  LET closed == IF w.enc.packer0 THEN Close(w, w.enc.file) ELSE w
      keep(f) == IF w.enc.packer0 THEN NoFile ELSE f
  IN  {[closed EXCEPT !.enc = [started |-> w.enc.started /\ hangs,
                               packer0 |-> w.enc.packer0 /\ broken,
                               file |-> keep(w.enc.file),
                               into |-> keep(w.enc.into),
                               refused |-> \/ w.enc.refused
                                           \/ w.enc.started /\ hangs
                                           \/ w.enc.packer0 /\ broken]] :
         hangs \in May("stop"), broken \in May("stop")}

\* Mutant: the timer's id is not forgotten.
KillCycleTimerKeeping(w) ==
  [w EXCEPT !.timers = @ \ {w.cyc}]

\* Mutant: the id is marked the way the peripheral task marks its own.
KillCycleTimerLatching(w) ==
  IF w.cyc = NO_TIMER THEN w
  ELSE [w EXCEPT !.timers = @ \ {w.cyc}, !.cyc = NO_TIMER - 1]

\* Mutant: the id is reset to the 0 it has at power-on.
KillCycleTimerZero(w) ==
  IF w.cyc = NO_TIMER THEN w
  ELSE [w EXCEPT !.timers = @ \ {w.cyc}, !.cyc = 0]

KillCycleTimer(w) ==
  IF w.cyc = NO_TIMER THEN w
  ELSE [w EXCEPT !.timers = @ \ {w.cyc}, !.cyc = NO_TIMER]

\* Mutant: the cycle timer is not killed.
StopRecordingTicking(w) ==
  {LET stopped == IF v.enc.started \/ v.enc.packer0 THEN Close(v, curr) ELSE v
   IN  ToStorage([stopped EXCEPT !.sts = @ \ {"BUSY"}], "TIMER_START") :
     v \in EncodeStop(w)}

\* The stop in ap_video_record_func_key_active: what did not stop is closed
\* again.
StopRecording(w) ==
  {LET stopped == IF v.enc.started \/ v.enc.packer0 THEN Close(v, curr) ELSE v
   IN  ToStorage([KillCycleTimer(stopped) EXCEPT !.sts = @ \ {"BUSY"}], "TIMER_START") :
     v \in EncodeStop(w)}

\* ap_video_record_func_key_active
FuncKeyActive(w) ==
  IF "BUSY" \in w.sts
    THEN StopRecording(w)
  ELSE IF w.sts = {}
    THEN {ToStorage([w EXCEPT !.sts = {"BUSY", "WAIT"}], "VID_REQ")}
  ELSE {ToStorage(w, "TIMER_START")}

\* Mutant: the file stays open.
GiveUpOpen(w, f) ==
  ToStorage([w EXCEPT !.sts = @ \ {"BUSY"}], "TIMER_START")

\* Mutant: nobody asks for polling.
GiveUpSilent(w, f) ==
  [Close(w, f) EXCEPT !.sts = @ \ {"BUSY"}]

\* A reply without a file, without room, or whose file the encoder refused.
GiveUp(w, f) ==
  ToStorage([Close(w, f) EXCEPT !.sts = @ \ {"BUSY"}], "TIMER_START")

SetCycleTimer(w) ==
  IF w.cyc # NO_TIMER THEN w
  ELSE [w EXCEPT !.timers = @ \cup {VIDEO_RECORD_CYCLE_TIMER_ID},
                 !.cyc = VIDEO_RECORD_CYCLE_TIMER_ID]
-----------------------------------------------------------------------------
(* Messages the state-handling task receives, and what it sends to itself. *)

Take(id, sent) ==
  /\ apq # <<>>
  /\ Head(apq).id = id
  /\ apq' = Tail(apq) \o sent

\* MSG_STORAGE_SERVICE_MOUNT and _NO_STORAGE, in either state.
StorageNews(id) ==
  LET flag == {"UNMOUNT"}
  IN  /\ Take(id, <<>>)
      /\ mounted' = (id = "MOUNT")
      /\ IF state = "record"
           THEN /\ sts' = IF id = "MOUNT" THEN sts \ flag ELSE sts \cup flag
                /\ UNCHANGED psts
           ELSE /\ psts' = IF id = "MOUNT" THEN psts \ flag ELSE psts \cup flag
                /\ UNCHANGED sts
      /\ UNCHANGED <<stq, perq, full, open, state, cyc, curr, picDown, enc,
                     capturing, timers, latched, countVars, outside, history>>

unheard == <<state, psts, mounted, picDown, capturing, latched, full,
             countVars, outside, unasked>>

\* Does the handler of a message that does not fit the moment derail?
Derails(misfit) == derailed' = (derailed \/ misfit)

\* Mutant: the key does not wait for the storage task's reply.
RecordActiveEager ==
  /\ state = "record"
  /\ Take("RECORD_ACTIVE", <<>>)
  /\ \E w \in FuncKeyActive(Work) : Commit(w)
  /\ UNCHANGED <<curr, perq, unheard, derailed, mountedOver>>

RecordActive ==
  /\ state = "record"
  /\ IF "WAIT" \in sts
       THEN Take("RECORD_ACTIVE", <<Message("RECORD_ACTIVE")>>) /\ Commit(Work)
       ELSE Take("RECORD_ACTIVE", <<>>) /\ \E w \in FuncKeyActive(Work) : Commit(w)
  /\ UNCHANGED <<curr, perq, unheard, derailed, mountedOver>>

\* The key while a picture is asked for: stop recording, or go to preview.
CaptureWhileRecording ==
  /\ state = "record"
  /\ "BUSY" \in sts
  /\ IF "WAIT" \in sts
       THEN Take("CAPTURE_ACTIVE", <<Message("CAPTURE_ACTIVE")>>) /\ Commit(Work)
       ELSE Take("CAPTURE_ACTIVE", <<>>) /\ \E w \in FuncKeyActive(Work) : Commit(w)
  /\ UNCHANGED <<curr, perq, unheard, derailed, mountedOver>>

\* ap_video_record_exit, then ap_video_preview_init.
GoToPreview ==
  /\ state = "record"
  /\ "BUSY" \notin sts
  /\ Take("CAPTURE_ACTIVE", <<Message("CAPTURE_ACTIVE")>>)
  /\ IF "WAIT" \in sts
       THEN Commit(Work) /\ UNCHANGED <<state, psts>>
       ELSE /\ Commit([KillCycleTimer(Work) EXCEPT !.sts = {}])
            /\ state' = "preview"
            /\ psts' = IF mounted THEN {} ELSE {"UNMOUNT"}
  /\ UNCHANGED <<curr, perq, mounted, picDown, capturing, latched, full,
                 countVars, outside, history>>

VidReply ==
  LET f == Head(apq).file
      w == [Work EXCEPT !.sts = @ \ {"WAIT"}]
      usable == f # NoFile /\ Head(apq).room
  IN  /\ state = "record"
      /\ Take("VID_REPLY", <<>>)
      /\ curr' = f
      /\ \/ /\ usable
            /\ Commit(SetCycleTimer(Started(w, f)))
            /\ UNCHANGED perq
         \/ /\ usable
            /\ "start" \in Mishaps
            /\ \E v \in NotStarted(w, f) : Commit(GiveUp(v, f))
            /\ perq' = Append(perq, "CARD_NO_SPACE")
         \/ /\ ~ usable
            /\ Commit(GiveUp(w, f))
            /\ perq' = Append(perq, "CARD_NO_SPACE")
      /\ UNCHANGED <<unheard, derailed, mountedOver>>

\* Mutant: a reply without a file does not end the wait.
VidCyclicReplyWaiting ==
  LET f == Head(apq).file
      w == [Work EXCEPT !.sts = @ \ {"WAIT"}]
  IN  /\ state = "record"
      /\ Take("VID_CYCLIC_REPLY", <<>>)
      /\ \/ f = NoFile /\ Commit(Work) /\ UNCHANGED curr
         \/ f # NoFile /\ Commit(Started(w, f)) /\ curr' = f
      /\ UNCHANGED <<perq, unheard, derailed, mountedOver>>

VidCyclicReply ==
  LET f == Head(apq).file
      w == [Work EXCEPT !.sts = @ \ {"WAIT"}]
  IN  /\ state = "record"
      /\ Take("VID_CYCLIC_REPLY", <<>>)
      /\ \/ /\ f = NoFile
            /\ Commit(w)
            /\ UNCHANGED <<curr, perq, derailed>>
         \/ /\ f # NoFile
            /\ Commit(Started(w, f))
            /\ curr' = f
            /\ UNCHANGED <<perq, derailed>>
         \/ /\ f # NoFile
            /\ "restart" \in Mishaps
            /\ \E v \in NotStarted(w, f) : Commit(GiveUp(v, f))
            /\ perq' = Append(perq, "CARD_NO_SPACE")
            /\ Derails(TRUE)
            /\ UNCHANGED curr
      /\ UNCHANGED <<unheard, mountedOver>>

CyclicVideoRecord ==
  /\ state = "record"
  /\ Take("CYCLIC_VIDEO_RECORD", <<>>)
  /\ \E w \in EncodeStop(Work) :
       Commit(ToStorage([w EXCEPT !.sts = @ \cup {"WAIT"}], "VID_CYCLIC_REQ"))
  /\ Derails("BUSY" \notin sts \/ "WAIT" \in sts)
  /\ UNCHANGED <<curr, perq, unheard, mountedOver>>

\* The file could not be written: stop, and flash the LED.
PackerWriteError ==
  /\ state = "record"
  /\ Take("WRITE_ERROR", <<>>)
  /\ \E w \in IF "BUSY" \in sts THEN FuncKeyActive(Work) ELSE {Work} : Commit(w)
  /\ perq' = Append(perq, "FLASH")
  /\ Derails("WAIT" \in sts)
  /\ UNCHANGED <<curr, unheard, mountedOver>>

\* A group of clusters is used up: stop, mount again, and press the key.
PackerGroupEnd ==
  /\ state = "record"
  /\ Take("GROUP_END", <<>>)
  /\ \E w \in IF "BUSY" \in sts THEN FuncKeyActive(Work) ELSE {Work} :
       /\ MountCard(w.open)
       /\ \E v \in FuncKeyActive(w) : Commit(v)
  /\ Derails("WAIT" \in sts)
  /\ UNCHANGED <<curr, perq, unheard>>

PowerKeyActive ==
  /\ state = "record"
  /\ Take("POWER_KEY_ACTIVE", <<>>)
  /\ \E w \in IF "BUSY" \in sts THEN FuncKeyActive(Work) ELSE {Work} : Commit(w)
  /\ Derails("WAIT" \in sts)
  /\ UNCHANGED <<curr, perq, unheard, mountedOver>>

recordOnly == <<cyc, curr, timers, mounted, latched, full, countVars, outside,
                derailed, mountedOver>>

\* A picture has been asked for and is not done yet.
PictureUnderWay ==
  \/ \E i \in DOMAIN stq : stq[i] = "PIC_REQ"
  \/ \E i \in DOMAIN apq : apq[i].id \in {"PIC_REPLY", "PIC_DONE"}
  \/ capturing

\* ap_video_preview_exit, then ap_video_record_init, which wants a card.
GoToRecord ==
  /\ state = "preview"
  /\ IF "BUSY" \in psts
       THEN Take("RECORD_ACTIVE", <<>>) /\ UNCHANGED <<state, sts, psts, cyc>>
       ELSE /\ state' = "record"
            /\ psts' = {}
            /\ IF mounted
                 THEN /\ Take("RECORD_ACTIVE", <<Message("RECORD_ACTIVE")>>)
                      /\ cyc' = NO_TIMER
                      /\ sts' = sts \ {"UNMOUNT"}
                 ELSE /\ Take("RECORD_ACTIVE", <<>>)
                      /\ sts' = sts \cup {"UNMOUNT"}
                      /\ UNCHANGED cyc
  /\ UNCHANGED <<stq, perq, open, curr, mounted, picDown, enc, capturing, timers,
                 latched, full, countVars, outside, history>>

CaptureActive ==
  /\ state = "preview"
  /\ Take("CAPTURE_ACTIVE", <<>>)
  /\ picDown' = TRUE
  /\ IF psts = {}
       THEN psts' = {"BUSY"} /\ stq' = Append(stq, "PIC_REQ")
       ELSE UNCHANGED <<psts, stq>>
  /\ unasked' = (unasked \/ (psts # {} /\ ~ PictureUnderWay))
  /\ UNCHANGED <<perq, open, state, sts, enc, capturing, recordOnly>>

\* The picture's handle goes where the video's handle was.
PicReply ==
  LET f == Head(apq).file
      usable == f # NoFile /\ Head(apq).room
  IN  /\ state = "preview"
      /\ Take("PIC_REPLY", <<>>)
      /\ IF usable
           THEN /\ enc' = [enc EXCEPT !.file = f]
                /\ capturing' = TRUE
                /\ UNCHANGED <<stq, perq, open, picDown>>
           ELSE /\ open' = open \ {f}
                /\ stq' = Append(stq, "TIMER_START")
                /\ perq' = Append(perq, IF f = NoFile THEN "CAPTURE_FAIL" ELSE "CARD_NO_SPACE")
                /\ picDown' = FALSE
                /\ UNCHANGED <<enc, capturing>>
      /\ UNCHANGED <<state, sts, psts, recordOnly, unasked>>

\* Mutant: the key stays dead.
PicDoneDead ==
  /\ state = "preview"
  /\ Take("PIC_DONE", <<>>)
  /\ psts' = psts \ {"BUSY"}
  /\ stq' = Append(stq, "TIMER_START")
  /\ perq' = Append(perq, "WAITING_CAPTURE")
  /\ UNCHANGED <<open, state, sts, picDown, enc, capturing, recordOnly, unasked>>

PicDone ==
  /\ state = "preview"
  /\ Take("PIC_DONE", <<>>)
  /\ psts' = psts \ {"BUSY"}
  /\ stq' = Append(stq, "TIMER_START")
  /\ picDown' = FALSE
  /\ perq' = Append(perq, "WAITING_CAPTURE")
  /\ UNCHANGED <<open, state, sts, enc, capturing, recordOnly, unasked>>

\* Each state's switch has a default that drops the message.
Unhandled == [record |-> {"PIC_REPLY", "PIC_DONE"},
              preview |-> {"VID_REPLY", "VID_CYCLIC_REPLY", "CYCLIC_VIDEO_RECORD",
                           "WRITE_ERROR", "GROUP_END", "POWER_KEY_ACTIVE"}]

DropMessage ==
  /\ \E id \in Unhandled[state] : Take(id, <<>>)
  /\ UNCHANGED <<stq, perq, open, apVars, picDown, enc, capturing, timers,
                 latched, full, countVars, outside, history>>

\* While the storage task searches, which it does without blocking, tasks of
\* lower priority do not run: this one and the peripheral task.
StateHandlingTask ==
  /\ ~ searching
  /\ \/ StorageNews("MOUNT") \/ StorageNews("NO_STORAGE")
     \/ RecordActive \/ CaptureWhileRecording \/ GoToPreview
     \/ VidReply \/ VidCyclicReply \/ CyclicVideoRecord
     \/ PackerWriteError \/ PackerGroupEnd \/ PowerKeyActive
     \/ GoToRecord \/ CaptureActive \/ PicReply \/ PicDone
     \/ DropMessage
-----------------------------------------------------------------------------
(* The peripheral task.                                                    *)

apSide == <<stq, open, apVars, picDown, enc, capturing, upsets, outside, history>>

\* ap_peripheral_video_key_exe; a short press records what it sees of
\* video_record_sts.
VideoKey(long) ==
  /\ keys < MaxKeys
  /\ ~ searching /\ ~ picDown /\ ~ full /\ mounted
  /\ apq' = Append(apq, Message(IF long \/ "BUSY" \in sts
                                  THEN "RECORD_ACTIVE" ELSE "CAPTURE_ACTIVE"))
  /\ keys' = keys + 1
  /\ UNCHANGED <<perq, full, timers, latched, apSide>>

\* set_led_mode asks for recording when a picture is done or has failed.
LedSet ==
  /\ perq # <<>>
  /\ perq' = Tail(perq)
  /\ apq' = IF Head(perq) \in {"WAITING_CAPTURE", "CAPTURE_FAIL"}
              THEN Append(apq, Message("RECORD_ACTIVE")) ELSE apq
  /\ full' = (full \/ Head(perq) = "CARD_NO_SPACE")
  /\ Head(perq) # "FLASH"
  /\ UNCHANGED <<timers, latched, keys, apSide>>

\* ap_peripheral_led_flash_power_off_set, once per power-on.
LedFlashSet ==
  /\ perq # <<>>
  /\ Head(perq) = "FLASH"
  /\ perq' = Tail(perq)
  /\ IF latched
       THEN UNCHANGED <<apq, timers, latched>>
       ELSE /\ apq' = Append(apq, Message("RECORD_ACTIVE"))
            /\ timers' = timers \cup {POWER_OFF_TIMER_ID}
            /\ latched' = TRUE
  /\ UNCHANGED <<full, keys, apSide>>

PeripheralTask == ~ searching /\ (LedSet \/ LedFlashSet)
-----------------------------------------------------------------------------
(* The encoder and the software timers.                                    *)

\* The encoder runs, and the packer writes into a file.
Recording == enc.started /\ enc.into # NoFile

\* Nothing is under way but a look for the card.
Quiet ==
  /\ apq = <<>>
  /\ perq = <<>>
  /\ \A i \in DOMAIN stq : stq[i] = "STORAGE_CHECK"
  /\ "WAIT" \notin sts
  /\ ~ capturing

\* It sends whatever the tasks are about.
Interrupt(id) ==
  /\ apq' = Append(apq, Message(id))
  /\ UNCHANGED <<stq, perq, open, apVars, picDown, enc, capturing, timers,
                 latched, full, keys, outside, history>>

\* What a tick of the cycle timer sets off, minutes before the next one.
CycleWork ==
  {"CYCLIC_VIDEO_RECORD", "VID_CYCLIC_REQ", "VID_CYCLIC_REPLY", "CARD_NO_SPACE"}

\* The work a tick has set off is done before the timer's next one.
TimerTick(timer, id, work) ==
  /\ timer \in timers
  /\ \A i \in DOMAIN apq : apq[i].id \notin work
  /\ \A i \in DOMAIN stq : stq[i] \notin work
  /\ \A i \in DOMAIN perq : perq[i] \notin work
  /\ Interrupt(id)
  /\ UNCHANGED upsets

\* avi_packer_err_handle
PackerError(id) ==
  /\ "packer" \in Mishaps
  /\ Recording
  /\ upsets < MaxUpsets
  /\ upsets' = upsets + 1
  /\ Interrupt(id)

\* MSG_AVI_CAPTURE_PICTURE: write, close, report.
CapturePicture ==
  /\ capturing
  /\ capturing' = FALSE
  /\ open' = open \ {enc.file}
  /\ apq' = Append(apq, Message("PIC_DONE"))
  /\ UNCHANGED <<stq, perq, apVars, picDown, enc, timers, latched, full,
                 countVars, outside, history>>

otherTasks == <<apVars, picDown, enc, capturing, timers, latched, countVars,
                derailed, unasked>>

Next ==
  \/ (MountTick \/ StorageTask \/ MoveCard) /\ UNCHANGED otherTasks
  \/ StateHandlingTask
  \/ PeripheralTask
  \/ \E long \in BOOLEAN : VideoKey(long)
  \/ TimerTick(VIDEO_RECORD_CYCLE_TIMER_ID, "CYCLIC_VIDEO_RECORD", CycleWork)
  \/ TimerTick(POWER_OFF_TIMER_ID, "POWER_KEY_ACTIVE", {"POWER_KEY_ACTIVE"})
  \/ \E id \in {"WRITE_ERROR", "GROUP_END"} : PackerError(id)
  \/ CapturePicture

Spec == Init /\ [][Next]_vars

\* A task that has a message handles it; nobody has to press a key.
Fairness ==
  /\ WF_vars(StorageTask /\ UNCHANGED otherTasks)
  /\ WF_vars(StateHandlingTask)
  /\ WF_vars(PeripheralTask)
  /\ WF_vars(CapturePicture)

FairSpec == Spec /\ Fairness
-----------------------------------------------------------------------------
ApIds == ReplyIds \cup Unhandled.record \cup Unhandled.preview
           \cup {"MOUNT", "NO_STORAGE", "RECORD_ACTIVE", "CAPTURE_ACTIVE"}

TypeOK ==
  /\ StorageTypeOK
  /\ \A i \in DOMAIN apq : apq[i].id \in ApIds
  /\ state \in {"record", "preview"}
  /\ sts \subseteq {"UNMOUNT", "BUSY", "WAIT"}
  /\ psts \subseteq {"UNMOUNT", "BUSY"}
  /\ cyc \in {0, VIDEO_RECORD_CYCLE_TIMER_ID, NO_TIMER}
  /\ curr \in Files \cup {NoFile, 0}
  /\ mounted \in BOOLEAN /\ picDown \in BOOLEAN
  /\ enc \in [started : BOOLEAN, packer0 : BOOLEAN,
             file : Files \cup {NoFile}, into : Files \cup {NoFile},
             refused : BOOLEAN]
  /\ capturing \in BOOLEAN /\ latched \in BOOLEAN
  /\ timers \subseteq {POWER_OFF_TIMER_ID, VIDEO_RECORD_CYCLE_TIMER_ID}
  /\ keys \in 0 .. MaxKeys
  /\ upsets \in 0 .. MaxUpsets
  /\ derailed \in BOOLEAN /\ unasked \in BOOLEAN

InReplies == {apq[i].file : i \in DOMAIN apq} \ {NoFile}

(* What follows holds until a message that does not fit the moment, or a   *)
(* next file the encoder refuses, derails the recorder.                    *)

(* No handle is lost: an open file is on its way to the state-handling     *)
(* task, or the encoder writes to it.                                      *)
FilesAccounted ==
  ~ derailed =>
    \A f \in open :
      \/ f \in InReplies
      \/ f = enc.into /\ Recording
      \/ f = enc.file /\ capturing

(* No handle is stolen: a file on its way is open, and is on its way once. *)
RepliesOpen ==
  ~ derailed =>
    /\ InReplies \subseteq open
    /\ \A i, j \in DOMAIN apq : apq[i].file = apq[j].file /\ apq[i].file # NoFile => i = j

(* Whatever the encoder records, the key can stop: until encoder or packer *)
(* has refused to.                                                         *)
Controlled ==
  ~ derailed /\ Recording /\ ~ enc.refused => state = "record" /\ "BUSY" \in sts

(* The card is looked for only while no file is open, and neither task has *)
(* mounted it over an open file.                                           *)
PollsWhileClosed == ~ derailed => (mountTimer => open = {}) /\ ~ mountedOver

(* Once BUSY is clear and nothing is under way, the card is looked for.    *)
PollingResumes == ~ derailed /\ Quiet /\ "BUSY" \notin sts => mountTimer

(* A recording is cut into files: the cycle timer runs during it, ...      *)
(* The first recording after power-on without a card is not: it finds      *)
(* cyclic_record_timerid 0 and takes that for a timer that runs.           *)
CycleArmed ==
  ~ derailed /\ Quiet /\ Recording /\ "BUSY" \in sts /\ cyc # 0
    => VIDEO_RECORD_CYCLE_TIMER_ID \in timers

(* ... and only during it.                                                 *)
CycleOnlyWhileBusy ==
  ~ derailed /\ Quiet /\ VIDEO_RECORD_CYCLE_TIMER_ID \in timers => "BUSY" \in sts

(* That 0 is the id of the timer that switches the power off, which the    *)
(* peripheral task sets: the end of a recording does not stop it.          *)
PowerOffSet == latched => POWER_OFF_TIMER_ID \in timers

(* A request for a file is answered, and the answer handled, unless the    *)
(* storage task searches for a number for ever.                            *)
WaitEnds == "WAIT" \in sts ~> "WAIT" \notin sts \/ searching

(* The key works again after it has been pressed for a picture, unless the *)
(* press asked for none and none was under way: because BUSY was left by   *)
(* an earlier picture without a file, or the card had gone.  Then it is    *)
(* dead for good.                                                          *)
PictureEnds == picDown ~> ~ picDown \/ unasked \/ searching
=============================================================================
