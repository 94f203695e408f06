----------------------------- MODULE FramePipe ------------------------------
(***************************************************************************)
(* application/task_avi_encoder: the way of a picture from the sensor to   *)
(* the AVI packer, in the mode this product is built for: pieces of a      *)
(* frame (SENSOR_BUF_FIFO_MODE), 1280x720, pictures of 2560x1440.          *)
(*   - The sensor's interrupt fills two registers' buffers in turn, one    *)
(*     piece of a frame each, and posts every full one to the encoder.     *)
(*   - The encoder's task counts the pieces, encodes each into a video     *)
(*     buffer, gives the sensor's buffer back, and passes whole frames to  *)
(*     the packer, one at a time.  For a picture it encodes one frame into *)
(*     a buffer of its own, and tells the AVI state task.                  *)
(*   - The AVI state task starts and stops the sensor, the recording, and  *)
(*     writes pictures.                                                    *)
(*   - The state-handling task calls for all this, a request at a time,    *)
(*     each acknowledged in a mailbox.                                     *)
(*                                                                         *)
(* The packer, the sensor and the JPEG engine are external.  A handler of  *)
(* the encoder is one action: it waits for the engine, but touches what it *)
(* shares only before or only after.                                       *)
(***************************************************************************)
EXTENDS Naturals, Sequences, FiniteSets, SequencesExt, FiniteSetsExt

CONSTANTS
  CsiNo,          \* AVI_ENCODE_CSI_BUFFER_NO: sensor buffers, one per piece
  VideoNo,        \* AVI_ENCODE_VIDEO_BUFFER_NO: buffers for encoded frames
  Pieces,         \* vid_post_cnt: pieces of a frame
  None,           \* no buffer
  MaxLate,        \* bound: pieces lost before an end of frame gets through
  MaxFails,       \* bound: failures of the JPEG engine
  MaxCalls        \* bound: calls of the state-handling task

ASSUME PipeAssumption ==
  /\ CsiNo \in Nat /\ CsiNo >= 2
  /\ VideoNo \in Nat \ {0}
  /\ Pieces \in Nat /\ Pieces >= 2
  /\ None \notin Nat
  /\ MaxLate \in Nat /\ MaxFails \in Nat /\ MaxCalls \in Nat

CsiBuffers == 1 .. CsiNo
VideoBuffers == 0 .. VideoNo - 1
Mailboxes == {"avi", "enc", "scaler", "packer"}
DUMMY == 0        \* frame address 0x40000000: the piece is not kept
BROKEN == 255     \* vid_pend_cnt after an end of frame that came too early

VARIABLES
  sensor,         \* is it on, its next register (csi_fifo_flag), and the frame
                  \* and the piece of it that the register will hold
  regs,           \* P_CSI_TG_FBSADDR, P_CSI_TG_FBSADDR_B
  cmosq,          \* cmos_frame_q: free sensor buffers
  inbox,          \* vid_enc_task_q, AVIEncodeApQ, scaler_task_q, packer's queue
  ack,            \* which acknowledgement mailboxes hold something
  cnt,            \* vid_pend_cnt
  video,          \* video_frame, g_video_index: the buffer encoded into
  started,        \* jpeg_start_flag
  action,         \* capture_action: the frame is encoded for a picture
  captureFlag,    \* capture_flag: a picture is wanted
  used,           \* buffers with is_used
  stamps,         \* time_stamp_buffer: encoded frames that wait
  sendFlag,       \* JpegSendFlag: the packer has a frame
  packing,        \* the packer has a file open
  status,         \* avi_encode_status
  todo, waiting,  \* requests the state-handling task has yet to make, and
                  \* whether it waits for the first one's acknowledgement
  shooting,       \* it has asked for a picture ...
  reports,        \* ... and ApQ holds so many reports of one
  run,            \* history: the pieces encoded since the first one, if they
                  \* are 1 .. run.piece of one frame
  hurried,        \* history: the last recording to begin has begun before the
                  \* one before it had settled
  late, fails, calls    \* counters for the bounds

sensorVars == <<sensor, regs, cmosq, late>>
encodeVars == <<cnt, video, started, action, captureFlag, run, fails>>
queueVars == <<used, stamps, sendFlag>>
clientVars == <<status, todo, waiting, shooting, calls>>
vars == <<sensorVars, inbox, ack, encodeVars, queueVars, packing, reports, clientVars, hurried>>

Off == [on |-> FALSE, side |-> 0, odd |-> FALSE, piece |-> 1]
-----------------------------------------------------------------------------
(* Requests of the state-handling task: POST_MESSAGE to a task, and a flag *)
(* of the status that is set or cleared when the acknowledgement is in.  A *)
(* request whose flag is right already is left out.                        *)

Request(to, id, flag, on) == [to |-> to, id |-> id, flag |-> flag, on |-> on]

PreviewStart ==
  <<Request("scaler", "SCALER_INIT", "SCALER", TRUE),
    Request("enc", "INIT", "VIDEO", TRUE),
    Request("avi", "START_SENSOR", "SENSOR", TRUE)>>

PreviewStop ==
  <<Request("avi", "STOP_SENSOR", "SENSOR", FALSE),
    Request("enc", "STOP", "VIDEO", FALSE),
    Request("scaler", "SCALER_STOP", "SCALER", FALSE)>>

VideoEncodeStart ==
  <<Request("packer", "OPEN", "PACKER0", TRUE),
    Request("avi", "START_ENCODE", "START", TRUE)>>

VideoEncodeStop ==
  <<Request("avi", "STOP_ENCODE", "START", FALSE),
    Request("packer", "CLOSE", "PACKER0", FALSE)>>

\* ap_startup_init has called for the preview.
Init ==
  /\ sensor = Off
  /\ regs = [s \in 0 .. 1 |-> DUMMY]
  /\ cmosq = <<>>
  /\ inbox = [b \in Mailboxes |-> <<>>]
  /\ ack = [b \in Mailboxes |-> FALSE]
  /\ cnt = 0 /\ video = None /\ started = FALSE /\ action = FALSE
  /\ captureFlag = FALSE
  /\ used = {} /\ stamps = <<>> /\ sendFlag = FALSE
  /\ packing = FALSE
  /\ status = {}
  /\ todo = PreviewStart /\ waiting = FALSE
  /\ shooting = FALSE /\ reports = 0
  /\ run = None /\ hurried = FALSE
  /\ late = 0 /\ fails = 0 /\ calls = 0
-----------------------------------------------------------------------------
(* Messages.                                                               *)

Plain(id) == [id |-> id]
Piece(buf, last, odd, piece) ==
  [id |-> "PIECE", buf |-> buf, last |-> last, odd |-> odd, piece |-> piece]
Frame(i) == [id |-> "FRAME", buf |-> i]
WriteDone(i) == [id |-> "WRITE_DONE", buf |-> i]

Post(box, to, m) == [box EXCEPT ![to] = Append(@, m)]
Receive(to, id) == inbox[to] # <<>> /\ Head(inbox[to]).id = id
Rest(to) == [inbox EXCEPT ![to] = Tail(@)]
Acknowledge(to) == ack' = [ack EXCEPT ![to] = TRUE]
-----------------------------------------------------------------------------
(* vid_enc_csi_fifo_end: the register's buffer is full; the register gets  *)
(* the next free one, and the encoder the full one.  Without a free one    *)
(* the register's next piece is lost.                                      *)

Dummies(r) == Cardinality({s \in 0 .. 1 : r[s] = DUMMY})

SwitchBuffer ==
  LET ready == regs[sensor.side]
      next == IF cmosq = <<>> THEN DUMMY ELSE Head(cmosq)
      last == sensor.piece = Pieces
  IN  /\ sensor.on
      /\ regs' = [regs EXCEPT ![sensor.side] = next]
      /\ cmosq' = IF cmosq = <<>> THEN cmosq ELSE Tail(cmosq)
      /\ sensor' = [sensor EXCEPT !.side = 1 - @,
                                  !.piece = IF last THEN 1 ELSE @ + 1,
                                  !.odd = IF last THEN ~ @ ELSE @]
      /\ late' = IF last /\ ready # DUMMY THEN Dummies(regs')
                 ELSE IF next = DUMMY THEN late + 1 ELSE late
      /\ late' <= MaxLate
      /\ inbox' = IF ready = DUMMY THEN inbox
                  ELSE Post(inbox, "enc", Piece(ready, last, sensor.odd, sensor.piece))
      /\ UNCHANGED <<ack, encodeVars, queueVars, packing, reports, clientVars, hurried>>
-----------------------------------------------------------------------------
(* video_encode_task_entry.                                                *)

\* Mutant: any end of frame counts.
CountSloppy(n, last) == IF last THEN 0 ELSE n + 1

\* vid_pend_cnt after a piece.
Count(n, last) ==
  IF ~ last THEN n + 1 ELSE IF n + 1 = Pieces THEN 0 ELSE BROKEN

\* Mutant: the frame that is given up stays in the queue.
GivenUpOnly(k) == stamps

\* time_stamp_buffer without the frame that is given up.
GivenUp(k) == RemoveAt(stamps, k + 1)

\* avi_encode_get_video_frame: the last free buffer, or that of a waiting
\* frame, chosen by the times of its neighbours among every second one; the
\* choice may fall on the frame that is about to come.
TakeBuffer ==
  LET free == VideoBuffers \ used
  IN  IF free # {}
        THEN {[buf |-> Max(free), wait |-> stamps]}
      ELSE {[buf |-> stamps[k + 1], wait |-> GivenUp(k)] :
              k \in {j \in 0 .. Len(stamps) - 1 : j % 2 = 0}}
           \cup (IF Len(stamps) % 2 = 0 THEN {[buf |-> None, wait |-> stamps]} ELSE {})

encQueued == Head(inbox["enc"])
NextCount == Count(cnt, encQueued.last)

\* The piece's buffer goes back to the sensor.
PieceDone ==
  /\ cmosq' = Append(cmosq, encQueued.buf)
  /\ UNCHANGED <<sensor, regs, late, ack, packing, reports, clientVars, hurried>>

\* VIDEO_ENCODE_FIFO_MODE_FAIL
EncodeFail(v) ==
  /\ used' = used \ {v}
  /\ started' = FALSE
  /\ video' = None

EngineFails == fails < MaxFails /\ fails' = fails + 1

\* case 1: the first piece of a frame.
FirstPiece ==
  /\ Receive("enc", "PIECE") /\ NextCount = 1
  /\ cnt' = 1
  /\ action' = (action \/ captureFlag)
  /\ captureFlag' = FALSE
  /\ run' = IF encQueued.piece = 1 THEN [odd |-> encQueued.odd, piece |-> 1] ELSE None
  /\ inbox' = Rest("enc")
  /\ IF action'
       THEN UNCHANGED <<video, started, used, stamps, fails>>
       ELSE \E t \in IF "START" \in status THEN TakeBuffer
                     ELSE {[buf |-> video, wait |-> stamps]} :
              LET taken == IF "START" \in status /\ t.buf # None
                             THEN used \cup {t.buf} ELSE used
              IN  /\ stamps' = t.wait
                  /\ \/ /\ video' = t.buf
                        /\ started' = (t.buf # None)
                        /\ used' = taken
                        /\ UNCHANGED fails
                     \/ /\ t.buf # None
                        /\ EngineFails
                        /\ used' = taken \ {t.buf}
                        /\ started' = FALSE
                        /\ video' = None
  /\ UNCHANGED sendFlag
  /\ PieceDone

\* The history of a piece in the middle or at the end of a frame.
Follow ==
  run' = IF run # None /\ encQueued.odd = run.odd /\ encQueued.piece = run.piece + 1
           THEN [run EXCEPT !.piece = @ + 1] ELSE None

\* case 2
MiddlePiece ==
  /\ Receive("enc", "PIECE") /\ NextCount \in 2 .. Pieces - 1
  /\ cnt' = NextCount
  /\ Follow
  /\ inbox' = Rest("enc")
  /\ \/ UNCHANGED <<video, started, used, fails>>
     \/ ~ action /\ started /\ EngineFails /\ EncodeFail(video)
  /\ UNCHANGED <<action, captureFlag, stamps, sendFlag>>
  /\ PieceDone

\* Mutant: the next frame is encoded for the picture, too.
PictureEncodedAgain ==
  /\ Receive("enc", "PIECE") /\ NextCount = 0
  /\ action
  /\ cnt' = 0
  /\ Follow
  /\ inbox' = Post(Rest("enc"), "avi", Plain("CAPTURE_PICTURE"))
  /\ UNCHANGED <<video, started, action, captureFlag, fails, queueVars>>
  /\ PieceDone

\* case 3, for a picture: the AVI state task writes it.
PictureEncoded ==
  /\ Receive("enc", "PIECE") /\ NextCount = 0
  /\ action
  /\ cnt' = 0
  /\ action' = FALSE
  /\ Follow
  /\ inbox' = Post(Rest("enc"), "avi", Plain("CAPTURE_PICTURE"))
  /\ UNCHANGED <<video, started, captureFlag, fails, queueVars>>
  /\ PieceDone

\* Mutant: the newest frame goes first.
SentNewest(waiters) == [first |-> Last(waiters), rest |-> Front(waiters)]

Sent(waiters) == [first |-> Head(waiters), rest |-> Tail(waiters)]

\* case 3, while recording: the frame waits for the packer, or is sent.
FrameEncoded ==
  /\ Receive("enc", "PIECE") /\ NextCount = 0
  /\ ~ action /\ started /\ "START" \in status
  /\ cnt' = 0
  /\ Follow
  /\ LET waiters == Append(stamps, video)
     IN  IF sendFlag
           THEN stamps' = waiters /\ inbox' = Rest("enc")
           ELSE /\ stamps' = Sent(waiters).rest
                /\ inbox' = Post(Rest("enc"), "packer", Frame(Sent(waiters).first))
  /\ sendFlag' = TRUE
  /\ started' = FALSE
  /\ video' = None
  /\ UNCHANGED <<action, captureFlag, used, fails>>
  /\ PieceDone

\* case 3, when nothing is encoded, recording has stopped since the frame
\* began, or the engine fails.
FrameDropped ==
  /\ Receive("enc", "PIECE") /\ NextCount = 0
  /\ ~ action
  /\ cnt' = 0
  /\ Follow
  /\ inbox' = Rest("enc")
  /\ \/ ~ started /\ UNCHANGED <<video, started, used, fails>>
     \/ started /\ EngineFails /\ EncodeFail(video)
     \/ /\ started /\ "START" \notin status
        /\ started' = FALSE /\ video' = None
        /\ UNCHANGED <<used, fails>>
  /\ UNCHANGED <<action, captureFlag, stamps, sendFlag>>
  /\ PieceDone

\* Mutant: a picture that fails is not tried again.
WantedOnce == captureFlag

WantedAgain == captureFlag \/ action

\* case 4: a piece has been lost; a picture is tried again.
PieceMissing ==
  /\ Receive("enc", "PIECE") /\ NextCount >= Pieces
  /\ cnt' = 0
  /\ action' = FALSE
  /\ captureFlag' = WantedAgain
  /\ run' = None
  /\ inbox' = Rest("enc")
  /\ IF started THEN EncodeFail(video) ELSE UNCHANGED <<used, started, video>>
  /\ UNCHANGED <<fails, stamps, sendFlag>>
  /\ PieceDone

notEncoding == <<sensorVars, encodeVars, reports, packing, clientVars, hurried>>

\* Mutant: the packer counts as busy although nothing has been sent.
StillBusy == sendFlag

BusyAgain == stamps # <<>>

\* AVIPACKER_MSG_VIDEO_WRITE_DONE: the packer gets the next frame.
VideoWriteDone ==
  /\ Receive("enc", "WRITE_DONE")
  /\ used' = used \ {encQueued.buf}
  /\ sendFlag' = BusyAgain
  /\ IF stamps = <<>>
       THEN UNCHANGED stamps /\ inbox' = Rest("enc")
       ELSE /\ stamps' = Sent(stamps).rest
            /\ inbox' = Post(Rest("enc"), "packer", Frame(Sent(stamps).first))
  /\ UNCHANGED <<ack, notEncoding>>

MjpegInit ==
  /\ Receive("enc", "INIT")
  /\ inbox' = Rest("enc")
  /\ started' = FALSE /\ video' = None
  /\ Acknowledge("enc")
  /\ UNCHANGED <<sensorVars, cnt, action, captureFlag, run, fails, queueVars,
                 packing, reports, clientVars, hurried>>

EncodeTaskStop ==
  /\ Receive("enc", "STOP")
  /\ inbox' = [inbox EXCEPT !["enc"] = <<>>]
  /\ Acknowledge("enc")
  /\ UNCHANGED <<queueVars, notEncoding>>

EncoderTask ==
  \/ FirstPiece \/ MiddlePiece \/ PieceMissing
  \/ PictureEncoded \/ FrameEncoded \/ FrameDropped
  \/ VideoWriteDone \/ MjpegInit \/ EncodeTaskStop
-----------------------------------------------------------------------------
(* scaler_task_entry; here also what scaler_task_start and _stop do to the *)
(* memory: the buffers are allocated anew, with is_used 0.                 *)

ScalerTask ==
  /\ \/ Receive("scaler", "SCALER_INIT") /\ cnt' = 0
     \/ Receive("scaler", "SCALER_STOP") /\ UNCHANGED cnt
  /\ used' = {}
  /\ inbox' = Rest("scaler")
  /\ Acknowledge("scaler")
  /\ UNCHANGED <<sensorVars, video, started, action, captureFlag, run, fails,
                 stamps, sendFlag, packing, reports, clientVars, hurried>>
-----------------------------------------------------------------------------
(* avi_encode_state_task_entry.                                            *)

\* Mutant: what is in the queue stays there.
NotFlushed == cmosq

\* OSQFlush(cmos_frame_q)
Flushed == <<>>

\* Flush the queue, post all buffers, and take two for the registers.  Which
\* of these the sensor fills first is external: csi_fifo_flag is right.
StartSensor ==
  /\ Receive("avi", "START_SENSOR")
  /\ sensor' = [sensor EXCEPT !.on = TRUE, !.side = 0, !.piece = 1, !.odd = ~ @]
  /\ regs' = [s \in 0 .. 1 |-> s + 1]
  /\ cmosq' = Flushed \o [k \in 1 .. CsiNo - 2 |-> k + 2]
  /\ late' = 0
  /\ inbox' = Rest("avi")
  /\ Acknowledge("avi")
  /\ UNCHANGED <<encodeVars, queueVars, packing, reports, clientVars, hurried>>

\* video_encode_sensor_stop
SensorStop ==
  /\ sensor' = [sensor EXCEPT !.on = FALSE]
  /\ regs' = [s \in 0 .. 1 |-> DUMMY]
  /\ late' = 0

StopSensor ==
  /\ Receive("avi", "STOP_SENSOR")
  /\ SensorStop
  /\ cmosq' = Flushed
  /\ inbox' = Rest("avi")
  /\ Acknowledge("avi")
  /\ UNCHANGED <<encodeVars, queueVars, packing, reports, clientVars, hurried>>

(* Nothing is left of an earlier recording: the frame under encoding when  *)
(* it stopped has ended, and the packer has done with what it got.  Making *)
(* a file mostly takes longer than that; the code does not wait for it.    *)
Settled ==
  /\ ~ started
  /\ inbox["packer"] = <<>>
  /\ \A k \in DOMAIN inbox["enc"] : inbox["enc"][k].id # "WRITE_DONE"

StartEncode ==
  /\ Receive("avi", "START_ENCODE")
  /\ hurried' = ~ Settled
  /\ sendFlag' = FALSE
  /\ stamps' = <<>>
  /\ used' = {}
  /\ inbox' = Rest("avi")
  /\ Acknowledge("avi")
  /\ UNCHANGED <<sensorVars, encodeVars, reports, packing, clientVars>>

\* Mutant: nobody is told.
StopEncodeSilent ==
  /\ Receive("avi", "STOP_ENCODE")
  /\ inbox' = Rest("avi")
  /\ UNCHANGED <<ack, queueVars, notEncoding>>

StopEncode ==
  /\ Receive("avi", "STOP_ENCODE")
  /\ inbox' = Rest("avi")
  /\ Acknowledge("avi")
  /\ UNCHANGED <<queueVars, notEncoding>>

\* Stop the sensor, write the picture, close the file, report.  Nobody waits
\* for the acknowledgement.
CapturePicture ==
  /\ Receive("avi", "CAPTURE_PICTURE")
  /\ SensorStop
  /\ captureFlag' = FALSE
  /\ reports' = reports + 1
  /\ inbox' = Rest("avi")
  /\ Acknowledge("avi")
  /\ UNCHANGED <<cmosq, cnt, video, started, action, run, fails, queueVars,
                 packing, clientVars, hurried>>

AviTask ==
  \/ StartSensor \/ StopSensor \/ StartEncode \/ StopEncode \/ CapturePicture
-----------------------------------------------------------------------------
(* The AVI packer (external).  It takes its messages in order; what it is  *)
(* handed while it has no file open is dropped, and perhaps reported.      *)

PackerTask ==
  LET m == Head(inbox["packer"])
  IN  /\ inbox["packer"] # <<>>
      /\ IF m.id = "FRAME"
           THEN /\ \/ inbox' = Post(Rest("packer"), "enc", WriteDone(m.buf))
                   \/ ~ packing /\ inbox' = Rest("packer")
                /\ UNCHANGED <<ack, packing>>
           ELSE /\ packing' = (m.id = "OPEN")
                /\ inbox' = Rest("packer")
                /\ Acknowledge("packer")
      /\ UNCHANGED <<sensorVars, encodeVars, queueVars, reports, clientVars, hurried>>
-----------------------------------------------------------------------------
(* The state-handling task.                                                *)

others == <<sensorVars, queueVars, packing, hurried>>

\* Mutant: what is in the mailbox stays there.
NotAccepted(to) == ack

Accepted(to) == [ack EXCEPT ![to] = FALSE]

\* POST_MESSAGE, first half: empty the mailbox, post.
PostMessage ==
  LET r == Head(todo)
  IN  /\ todo # <<>> /\ ~ waiting
      /\ IF (r.flag \in status) = r.on
           THEN todo' = Tail(todo) /\ UNCHANGED <<waiting, ack, inbox>>
           ELSE /\ ack' = Accepted(r.to)
                /\ inbox' = Post(inbox, r.to, Plain(r.id))
                /\ waiting' = TRUE
                /\ UNCHANGED todo
      /\ UNCHANGED <<encodeVars, reports, status, shooting, calls, others>>

\* Second half: wait for the acknowledgement.
PendMessage ==
  LET r == Head(todo)
  IN  /\ waiting /\ ack[r.to]
      /\ ack' = [ack EXCEPT ![r.to] = FALSE]
      /\ waiting' = FALSE
      /\ status' = IF r.on THEN status \cup {r.flag} ELSE status \ {r.flag}
      /\ todo' = Tail(todo)
      /\ UNCHANGED <<inbox, encodeVars, reports, shooting, calls, others>>

Call(requests) ==
  /\ todo = <<>> /\ reports = 0 /\ ~ shooting
  /\ calls < MaxCalls
  /\ calls' = calls + 1
  /\ todo' = requests
  /\ UNCHANGED <<inbox, ack, cnt, video, started, action, run, fails, reports,
                 status, waiting, others>>

\* video_encode_start, video_encode_stop
CallStart == "START" \notin status /\ Call(VideoEncodeStart) /\ UNCHANGED <<captureFlag, shooting>>
CallStop == "START" \in status /\ Call(VideoEncodeStop) /\ UNCHANGED <<captureFlag, shooting>>

\* video_encode_capture_picture, avi_enc_save_jpeg
CallCapture ==
  /\ "START" \notin status
  /\ Call(<<>>)
  /\ captureFlag' = TRUE
  /\ shooting' = TRUE

\* MSG_STORAGE_SERVICE_PIC_DONE, capture_switch
CaptureSwitch ==
  /\ todo = <<>> /\ reports > 0
  /\ reports' = reports - 1
  /\ shooting' = FALSE
  /\ todo' = PreviewStop \o PreviewStart
  /\ UNCHANGED <<inbox, ack, encodeVars, status, waiting, calls, others>>

StateHandlingTask == PostMessage \/ PendMessage \/ CaptureSwitch
-----------------------------------------------------------------------------
Next ==
  \/ SwitchBuffer
  \/ EncoderTask
  \/ ScalerTask
  \/ AviTask
  \/ PackerTask
  \/ StateHandlingTask
  \/ CallStart \/ CallStop \/ CallCapture

Spec == Init /\ [][Next]_vars

\* Tasks handle their messages, the sensor delivers; nobody has to call.
Fairness ==
  /\ WF_vars(SwitchBuffer) /\ WF_vars(EncoderTask) /\ WF_vars(ScalerTask)
  /\ WF_vars(AviTask) /\ WF_vars(PackerTask) /\ WF_vars(StateHandlingTask)

FairSpec == Spec /\ Fairness
-----------------------------------------------------------------------------
\* Where in a mailbox's queue the messages of a kind are.
Queued(b, id) == {k \in DOMAIN inbox[b] : inbox[b][k].id = id}
Buffers(b, id) == {inbox[b][k].buf : k \in Queued(b, id)}

\* Buffers of frames that the packer has not written, or not reported yet.
PackerHas == Buffers("enc", "WRITE_DONE") \cup Buffers("packer", "FRAME")

Messages(b) ==
  CASE b = "avi" -> [id : {"START_SENSOR", "STOP_SENSOR", "START_ENCODE", "STOP_ENCODE",
                           "CAPTURE_PICTURE"}]
    [] b = "scaler" -> [id : {"SCALER_INIT", "SCALER_STOP"}]
    [] b = "packer" -> [id : {"OPEN", "CLOSE"}] \cup [id : {"FRAME"}, buf : VideoBuffers]
    [] OTHER -> [id : {"INIT", "STOP"}] \cup [id : {"WRITE_DONE"}, buf : VideoBuffers]
                \cup [id : {"PIECE"}, buf : CsiBuffers, last : BOOLEAN,
                      odd : BOOLEAN, piece : 1 .. Pieces]

TypeOK ==
  /\ sensor \in [on : BOOLEAN, side : 0 .. 1, odd : BOOLEAN, piece : 1 .. Pieces]
  /\ regs \in [0 .. 1 -> CsiBuffers \cup {DUMMY}]
  /\ cmosq \in Seq(CsiBuffers)
  /\ DOMAIN inbox = Mailboxes /\ \A b \in Mailboxes : inbox[b] \in Seq(Messages(b))
  /\ ack \in [Mailboxes -> BOOLEAN]
  /\ cnt \in 0 .. Pieces - 1
  /\ video \in VideoBuffers \cup {None}
  /\ started \in BOOLEAN /\ action \in BOOLEAN /\ captureFlag \in BOOLEAN
  /\ used \subseteq VideoBuffers
  /\ stamps \in Seq(VideoBuffers)
  /\ sendFlag \in BOOLEAN /\ packing \in BOOLEAN
  /\ status \subseteq {"SCALER", "VIDEO", "SENSOR", "PACKER0", "START"}
  /\ waiting \in BOOLEAN /\ shooting \in BOOLEAN /\ hurried \in BOOLEAN
  /\ reports \in 0 .. 1
  /\ late \in 0 .. MaxLate /\ fails \in 0 .. MaxFails /\ calls \in 0 .. MaxCalls

\* The places where sensor buffer b is, and those where video buffer b is.
SensorPlaces(b) ==
  {<<"free", k>> : k \in {j \in DOMAIN cmosq : cmosq[j] = b}}
  \cup {<<"register", s>> : s \in {r \in 0 .. 1 : regs[r] = b}}
  \cup {<<"piece", k>> : k \in {j \in Queued("enc", "PIECE") : inbox["enc"][j].buf = b}}

VideoPlaces(b) ==
  {<<"waits", k>> : k \in {j \in DOMAIN stamps : stamps[j] = b}}
  \cup {<<"written", k>> : k \in {j \in Queued("enc", "WRITE_DONE") : inbox["enc"][j].buf = b}}
  \cup {<<"handed", k>> : k \in {j \in Queued("packer", "FRAME") : inbox["packer"][j].buf = b}}
  \cup {<<"encoded", v>> : v \in {w \in {video} : started /\ w = b}}

(* While the sensor runs each of its buffers is in exactly one place: free, *)
(* being filled, or on its way to the encoder.                              *)
SensorBufsOwned ==
  sensor.on => \A b \in CsiBuffers : Cardinality(SensorPlaces(b)) = 1

(* The frame under encoding overwrites no frame that waits or that the     *)
(* packer writes, and none of these twice or free while recording, if the  *)
(* recording has not begun too soon after the last.                        *)
VideoBufsOwned ==
  "START" \in status /\ ~ hurried =>
    \A b \in VideoBuffers : Cardinality(VideoPlaces(b)) = IF b \in used THEN 1 ELSE 0

(* A frame does not wait while the packer has nothing to do.               *)
NoStall ==
  "START" \in status /\ packing /\ stamps # <<>> => sendFlag /\ PackerHas # {}

(* A request has been handled when the caller goes on, whatever            *)
(* acknowledgement a picture has left in the mailbox.                      *)
Answered ==
  ~ waiting =>
    \A b \in Mailboxes : \A k \in DOMAIN inbox[b] :
      inbox[b][k].id \in {"PIECE", "WRITE_DONE", "FRAME", "CAPTURE_PICTURE"}

(* What is encoded as a frame is one frame, whole, as long as fewer than a *)
(* frame's worth of pieces is lost before an end of frame gets through.    *)
WholeFrames ==
  [][FrameEncoded \/ PictureEncoded => run' # None /\ run'.piece = Pieces]_vars

(* Frames reach the packer in order and one at a time, and are given up    *)
(* only when every buffer holds one; a recording that has begun too soon   *)
(* breaks this, until the next one begins.                                 *)
Queue == INSTANCE FrameQueue
           WITH N <- VideoNo, wait <- stamps, writing <- PackerHas, broken <- hurried
ImplementsFrameQueue == Queue!Spec

(* If from some time on no piece is lost, a picture that was asked for is  *)
(* taken.                                                                  *)
PictureTaken ==
  (<>[](sensor.on => DUMMY \notin Range(regs))) => (shooting ~> ~ shooting)

(* What the state-handling task calls for comes to an end.                 *)
CallsEnd == todo # <<>> ~> todo = <<>>
=============================================================================
