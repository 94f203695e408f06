# Verification of the mini-DVR firmware (GPDV66xx, product 2256)

The repository is the firmware of a one-key video recorder: an image sensor, a
JPEG engine, a memory card and a dozen tasks on uC/OS-II. The tasks talk through
message queues, mailboxes, shared flags and two interrupts. This directory holds
TLA+ modules of the parts in which those interleavings matter, the TLC
instances that check them, and TLAPS proofs, for every value of the constants, of
nearly all the safety properties that TLC checks on those instances.

To check a module: `tlc -config MCMsgQ_tasks.cfg MCMsgQ`; to check a module of
proofs: `tlapm MsgQProofs.tla`, and so for the other modules named `...Proofs`.

Paths below are relative to `src/`; `app/` stands for `application/`.

## 1. Inventory

Priorities (a lower number runs first): video encoder 14, audio record 16, scaler 18, AVI state
task 20, storage service 21, AVI packer 22, state handling 27, peripheral 30,
USB device 36.

### The paths through the system

1. **Control.** The key is read by the peripheral task, which sends a message to
   the state-handling task (ApQ). To record, that task asks the storage task for a
   file (StorageServiceQ), and on its reply starts the encoder with the file's
   handle. LED messages go back to the peripheral task (PeripheralTaskQ), and
   some of these send a message of their own. Software timers send the ticks for
   card polling, cyclic recording and power off.
2. **Frames.** The sensor's interrupt posts pieces of frames to the video encoder
   task, which encodes them and posts frames to the AVI packer, which writes them.
   The state-handling task starts and stops all this with requests that it posts
   to the tasks and that are acknowledged in mailboxes (`POST_MESSAGE`).
3. **Sound.** A DMA channel fills one buffer while the next is already set; its
   interrupt tells the audio task, which hands full buffers to the packer (or
   announces them to USB) and sets the next. Recordings and the web-cam mode
   start and stop it, with memory from the heap.

### Components

| Component | State it keeps | Operations | What is hard | What makes it correct | Status |
|---|---|---|---|---|---|
| Message queues, `app/msg_manager` | pool of slots (free: id 0), OSQ of slot pointers | send, receive, accept, flush | senders are tasks and an interrupt; the scheduler lock holds off only the tasks; the receiver takes the pointer before it locks | a slot has one owner; nothing is lost, duplicated or reordered; slots do not leak | MsgQ, Channel, MsgQProofs |
| Software timers, `driver_l2/system/src/system_timer.c` | the enable word, tick counters, table of user ISRs | set, kill, register, release, the time-base interrupt | one word shared by tasks of three priorities and updated without a lock; the time base is started and stopped by its becoming (non-)zero | a timer that is set rings each period until killed; the time base runs exactly while needed | SysTimer, Alarms, SysTimerProofs |
| Storage service, `app/task_storage_service` | mount timer, phase, current storage, open files; tables of used numbers, next numbers | poll, mount with a scan of the card, open for video, cycle and picture | stale polling ticks; a card that is pulled or does not answer; failures to open; numbers that run out | never mounts under an open file; polling comes back; no file is replaced before its time | StorageService (in Recorder), RecorderProofs, FileNumbers, FileNumbersProofs |
| Video recording, `.../state_video_record` | flags UNMOUNT, BUSY, WAIT; cycle timer id; current file | key, replies, cycle, packer errors | two-step start with anything in between; every step may fail | no handle lost or used twice; the key controls what is recorded; no endless wait | Recorder, RecorderProofs |
| Picture taking, `.../state_video_preview` | flags UNMOUNT, BUSY; `pic_down_flag` | enter, request, reply, done, leave | the key is dead until the picture is reported | the key comes back | Recorder, RecorderProofs |
| State dispatch, `app/task_state_handling`, `state_startup` | which state runs, `sh_curr_storage_id` | start-up handshake, change of state | messages meant for the other state are dropped | as above | Recorder (start-up is its `Init`) |
| Peripheral task, `app/task_peripheral_handling` | LED mode, power-off timer, key counters | key, LED messages, ADC, battery, LED blinking | LED messages send `RECORD_ACTIVE` and start timers | no loop of messages restarts what an error stopped | Recorder (key and LED messages); pins, battery and debouncing are not modelled |
| AVI state task, packer control, `avi_encoder_app.c`, `avi_encoder_state.c`, `video_encoder.c` | status flags, file handle, sensor buffers' queue | sensor, recording and picture requests; sensor interrupt | late acknowledgements; restarts while buffers are out | buffers have one place; requests are handled when they return | Recorder (effects on files), FramePipe (pipeline), FramePipeProofs |
| Video encode and scaler tasks, `avi_encoder_scaler_jpeg.c` | piece counter, frame under encoding, buffers in use, waiting frames | piece 1..n, missing piece, write done, init, stop | pieces are counted and not numbered; recording stops in mid-frame; packer slower than sensor | frames are whole, in order, not overwritten, not stuck | FramePipe, FrameQueue, FramePipeProofs |
| Audio record task, `avi_audio_record.c` (with `audio_record.c`, `audio_encoder.c` of the unused audio state) | three buffers, which two are at the DMA, which are at the packer; `bStop` | DMA done, start, stop; `avi_enc_start/stop`, `usb_webcam_start/stop` | double buffering against a slow packer; two kinds of sessions share the task; stopping spans two interrupts; time-outs | the controller writes only to memory that is held; blocks reach the packer in order and unchanged; callers get an answer | AudioRecord, AudioRecordProofs |
| USB device task, `app/task_usb` | mass storage or web-cam mode | plug, unplug, transfer | the protocol is in a binary library | – | AudioRecord, as a caller only |
| Start-up and upgrade, `ap_startup.c` | flash contents | copy an image from the card | sequential, before other tasks matter | – | not modelled |
| User configuration and resources, `ap_state_config.c`, `ap_state_resource.c` | a structure in NVRAM | get, set, checksum | sequential | – | not modelled |
| Serial-number check, `Secrecy.c` | – | read a chip over two wires | sequential | – | not modelled |
| Audio-only state, `state_audio_record` | – | – | no key of this product leads to it | – | not modelled |
| Codec callbacks and file joining | – | glue for the playback API, not called | – | – | not modelled |
| Host message hook, `ap_jh_message.c` | – | writes a status file | none | – | not modelled |
| Memory manager, `gplib/mm` | the list of blocks | allocate, allocate aligned, free | off-by-one at headers and alignment; users that give up | blocks do not overlap; none leaks | Heap, HeapProofs |
| DMA driver, `drv_l1_dma.c` | use of channels, queues to wait in | transfer, transfer and wait, double buffering, the interrupt | tasks of three priorities contend for channels and queues; callers that poll have no queue; transfers are refused, or are for nothing | each waiter gets its own answer, queues come back | Dma, DmaProofs |
| Vendor library (storages, JPEG, graphics, calendar, file-system drivers) | – | – | third-party code | – | not modelled |
| Other chip drivers, `driver_l1`, SPI flash | registers | register access | what they do is in the hardware | – | not modelled |

`PROJECT.json` lists the same components with their files, and the hazards with
their lines.

## 2. Modules, and how they correspond to the code

```
 Channel <--refined by-- MsgQ                 Alarms <--refined by-- SysTimer
                          |  used as sequences                         |  used as sets
                          v                                            v
                     StorageService --EXTENDS--> Recorder <-----------+
                                                    . calls (video_encode_start ...)
                                                    v
                          FrameQueue <--refined by-- FramePipe
                                                    . the packer
             Heap, Dma --EXTENDS--> AudioRecord . . +
             (each with a specification of its own, which AudioRecord refines)

 FileNumbers   (the storage task again: which number a file gets)
```

**Channel** is the promise of a message queue: bounded, one reader, in order,
urgent messages first. **MsgQ** is `msg_manager.c`. `slot` is the pool, `q` the
OSQ. `msgQSend` of a task is three actions (`SendScan`, `SendFill`,
`SendPost`), since the interrupt can come between them; `msgQSend` of the
time-base interrupt is one (`TickSend`). `msgQReceive` and `msgQAccept` are
`OSQPend`/`OSQBlock` and `ReceiveCopy`, as the pointer is taken off the OSQ before
the scheduler is locked. `msgQFlush` is `FlushQueue` and `FlushPool`. OSQPost is
external; the model gives the pointer to a pending receiver, or queues it, or
refuses it when the OSQ is full, as uC/OS-II does. The interrupt may send at any
moment. `clashed` is history: an interrupt has sent in one of the two gaps in which
that does harm, between a task's scan and its fill or within a flush. `msgQCreate` is
`Init`; nothing calls `msgQDelete`, and the queries change nothing. Every `msgQCreate`
gives the OSQ the size of the pool and every `msgQReceive` passes its queue's own
message length, so `MsgQAssumption` says both: a refused post and a refused receive,
for which the code has branches, cannot come about in this firmware.

**Alarms** is the promise of the timers. **SysTimer** is `system_timer.c`. A call
is a sequence of steps, each of which a task of higher priority (`Priority`, `Runs`) and the
interrupt may come before: the bit is chosen (`EnterIsr`), the record is filled in two
assignments (`SetTimer`, `FillRecord`), or the table of user ISRs in one (`FillIsr`), and
`|=` and `&=` on `gstSysTimerEnable` are a `Load` and a `Store`. `enable` is the word as a
set of bits, and `running` is history: what the owners have asked for. `raced` is history
too: a task has stored between another's load and store (`LookedAtWord`), has stopped the
time base on which another counts (`CountsOnBase`), or has taken the entry of the table that
another is about to fill (`AboutBit`). `sys_kill_all_timer` and `sys_128Hz_timer_init`
have no caller.

**StorageService** is the storage task, with its three queues as sequences.
Sequences without loss are what Channel promises; the race described below under
findings is thereby left out of the Recorder. `MountTick` is the timer,
`StorageCheck` the poll with the mount, `FileOpen` the three kinds of open, and
`CyclicSearch` the search for a number that goes round for ever when all are used
(`searching`). `MountCard` is `_devicemount`; `mountedOver` is history and says that one
came over an open file. A file name is not modelled; a handle is the lowest free one, as
the file system gives it.

**FileNumbers** is the same task seen from the card: which file a handle is for.
`Mount` is the scan of `get_file_final_avi_index` and
`get_file_final_jpeg_index`, with the files too short to be kept, those that
cannot be removed, and the continuation behind the latest file when number 9999
is in use; what depends on an uninitialised variable there is any outcome.
`FileOpen` is VID_REQ and PIC_REQ, which open the next number without asking the
table; `CyclicFileOpen` searches the table. `IndexNo` is the code's 10000; a
number that is not below it lies outside the table, and `Mark` then sets a bit
that belongs to another array.

**Recorder** EXTENDS it with the state-handling task (one action per message and
state), the peripheral task (`LedSet`, `LedFlashSet`, `VideoKey`), what the encoder
does to the file (`EncodeStop`, `Started`, `NotStarted`, `CapturePicture`), and the
timers. A handler is one action: each task handles one message at a time, and
what it shares with others is passed in messages. A handler works on a record
`Work`; what can fail yields a set of results, and `Commit` writes one back.
`PowerOn` is the end of start-up, with or without a card in. The end of a file group
with an error (`PackerGroupEnd`) mounts the card itself, as `state_video_record.c:228`
does. `Mishaps` selects what may go wrong: the card is moved, a file does not open, the
encoder does not start (with the next file: `"restart"`) or does not stop, the packer
reports errors, the numbers are used up. Timers and the packer send at any time. The
handlers of `CYCLIC_VIDEO_RECORD`, of the packer's errors and of `POWER_KEY_ACTIVE` do not
look whether the message still fits; `derailed` is history and remembers that one did not,
or that a next file was refused by the encoder. `unasked` is history: a press of the key for
a picture asked for none.

**FrameQueue** is the promise of the encoder about encoded frames: they reach the
packer in order, one at a time, and one is given up only when every buffer holds a
frame. It may break, and works again from a new recording on (`Restart`). **FramePipe** is the
pipeline, in the mode the product is built for (`SENSOR_BUF_FIFO_MODE`, 1280x720,
pictures of 2560x1440): `SwitchBuffer` is the
sensor's interrupt; `FirstPiece`, `MiddlePiece`, `PictureEncoded`, `FrameEncoded`,
`FrameDropped` and `PieceMissing` are the cases of `video_encode_task_entry`,
`VideoWriteDone`, `MjpegInit` and `EncodeTaskStop` its other messages;
`ScalerTask` the scaler's two; `StartSensor`, `StopSensor`, `StartEncode`,
`StopEncode`, `CapturePicture` those of the AVI state task. `PostMessage` and
`PendMessage` are the halves of the macro `POST_MESSAGE`. The packer, the sensor
and the JPEG engine are external: the packer takes its messages in order and drops
frames it gets while closed; the engine may fail. `run` is history: which pieces
the frame under encoding consists of; so is `hurried`: the last recording to begin has
begun before the one before it had settled.

**Heap** is `gplib_mm_gplus.c`: a set of blocks stands for the list, which is
ordered by address. **Dma** is `drv_l1_dma.c`: channels, the one-entry queues in
which tasks wait, the interrupt. A call of
`dma_transfer_wait_ready` is `GetQueue`, then `StartTransfer`, `StartRefused` or `StartEmpty`,
and `EndTransfer`. A count of 0 succeeds without a channel (`drv_l1_dma.c:638`), and its
caller pends for ever with its queue: `waiter` is then `"strands"`. `Transfer` is
`dma_transfer`, whose callers (SPI, DAC, ADC, microphone) poll and have no queue. With no
queue free, `notify` is left pointing at a local variable (`:839`), and so it is in
`waiter`. A refused call that has had a channel for a moment (`:740`-`:765`) has given it
back when it returns, and is one step. The DAC's own double buffering is an owner of an
occupied channel like any (`OwnerStep`), and is not modelled further. Heap and Dma have a
specification of their own (`HeapSpec`, `DmaSpec`) in which their users do anything that
the interfaces allow.

**AudioRecord** EXTENDS both with the audio task (one action per case of
`avi_audio_record_entry`; `DMA_DONE` is split by its outcome), its interrupt, its
callers step by step (`EncStart` ... `WebcamStopped`), the packer, and others that use
the heap and the DMA. `filled`, `tardy` and `lost` are history: the buffers
that are full and not handled, whether the packer took longer than a buffer lasts,
and the time-outs so far.

The MC modules only define what a `.cfg` cannot write: sets, a constraint (`Followed`),
and in MCDma a specification with numbers from a finite set. Definitions whose
comment begins with `Mutant:` are faulty variants of their neighbours, used to
confirm that each property can fail; no specification uses them.

## 3. Plan

Done, in this order: MsgQ with Channel and proofs; StorageService and Recorder;
SysTimer with Alarms and proofs; FramePipe with FrameQueue; Heap, Dma and
AudioRecord with proofs; FileNumbers with a proof; then the proofs about
AudioRecord, Recorder and FramePipe, and the types of all.

Next:

1. Power off and USB plug-in in the Recorder: what leaves the record state while
   a request is under way.
2. `POST_MESSAGE` with its time-out for the video requests. A late acknowledgement
   stays in the mailbox and may answer the next request. FramePipe assumes that
   requests are answered in time (AudioRecord does not).
3. The debouncing of the key and the counters in `ap_peripheral_handling.c`.

Theorems to prove next, the most valuable first: `PowerOffSet` of Recorder; what
`RepliesOpen` and `CycleArmed` still promise when a next file was refused and nothing else
derailed the recorder (it needs an invariant in which BUSY and the cycle timer part);
`WholeFrames` of FramePipe, which needs to count the pieces that are queued and lost since
the last end of frame; and that Recorder's use of the storage task's queues implements
Channel. No module has a RECURSIVE operator, so all can be proved about.

## 4. The runs

| Run | Instance | What it shows |
|---|---|---|
| `queue_tasks` | two tasks and an interrupt that sends at any time, three messages of which one is urgent, three slots, flush | until the interrupt has sent in a gap (`clashed`): **OneOwner** (a slot is in the OSQ once, or in the receiver's hand, or with one sender), **NoLeak** (an occupied slot has an owner), **QueuedStays** (nobody writes to a queued slot), **ImplementsChannel**, **EventuallyReceived** (a queued message is received unless urgent ones keep overtaking it) |
| `queue_race` | the same without flush | **QueuedKept** (nobody ever writes to a queued slot) **is violated**, see finding 1 |
| `recorder_faults` | power-on with or without a card, three key presses, two card moves, a packer error, failures to open or start, an encoder or packer that does not stop, interrupts at any time | until the recorder is derailed: **Controlled** (the key can stop whatever is recorded, unless the encoder has refused to stop), **PollingResumes**, **CycleOnlyWhileBusy**, **FilesAccounted** (no open handle is forgotten), **RepliesOpen** (none is closed or given out twice on its way), **PollsWhileClosed** (no task mounts over an open file), **CycleArmed** (but for the first recording after a power-on without a card), **PowerOffSet** (the end of a recording does not stop the power-off timer, whose id is the 0 that the cycle timer's has then) |
| `recorder_ends` | two key presses, a card move, failures to open and start, a packer error, a full table of numbers; derailed or not | **WaitEnds** (who waits for a file is answered, unless the storage task searches for a number for ever), **PictureEnds** (the key works again after it was pressed for a picture, unless a press asked for none, or in that search) |
| `timer_calls` | three tasks, two timers, two user ISRs, a task of higher priority and the interrupt at any step | until a task has raced another: **WordTrue** (between calls, the word is what the callers asked for), **ImplementsAlarms**, **TimerRings** |
| `timer_preempted` | one timer and one user ISR, the same calls | **WordHolds** (`WordTrue` for ever) **is violated**, see finding 2 |
| `frame_pieces` | three sensor buffers, frames of three pieces, two calls | **SensorBufsOwned** (a sensor buffer is in exactly one place, through overruns and restarts), **Answered** (a request has been handled when the caller goes on, in spite of acknowledgements nobody waited for), **WholeFrames** (what is encoded is one frame, whole), **PictureTaken**, **CallsEnd** |
| `frame_queue` | four video buffers, record, stop, record (at any moment), an engine failure, a packer of any speed | **NoStall** (a frame does not wait while the packer has nothing); in a recording that has begun after the last had settled, **VideoBufsOwned** (no buffer is encoded into while its frame waits or is written) and **ImplementsFrameQueue** |
| `dma_transfers` | three waiting tasks, two channels, two queues, callers that poll, an owner of an occupied channel, refused and empty transfers, time-outs | **AnswersReach** (each task that waits for a transfer gets its own answer, from the one channel that runs for it; one that waits for nothing takes nobody's; a queue in use has one task) |
| `audio_sessions` | recordings and web-cam sessions in any order, a heap that one other block makes too small, a DMA channel that another task and callers that poll contend for, a packer up to three blocks behind, one time-out of the channel | **HeapAccounted** (nothing leaks or is freed twice, whoever frees it), **BlocksApart**, **WritesInside** (the controller writes only to memory that is held), **BlocksKept** (no block is overwritten while a packer in its time reads it), **PackedInOrder** (the packer gets the oldest full block, once, also after some were thrown away), **ErrorOnlyUnplugging** (the endless loop behind "audio buffer error!" is reached in the way of finding 3 only), **CallsEnd** (who starts or stops the sound goes on) |
| `audio_webcam` | one web-cam session | **NoBufferError is violated**, see finding 3 |
| `files` | two numbers per kind and two behind them; any card to begin with, any mount, failing opens, deletions outside, power cuts | **KeepsFiles** (no file with content is opened anew before the highest number has been used; the next file of a recording never replaces one the table can hold) |

Each property of a passing run has a mutant in `PROJECT.json`: a plausible mistake
in the code under which TLC finds the property violated in that same instance.

### Findings

1. **A tick can overwrite a queued message** (`queue_race`). `msgQSend` looks for a
   free slot (`msg_manager.c:133`) and writes to it (`:147`) under `OSSchedLock`,
   which does not hold off `TimeBaseC_ISR`; the interrupt calls `msgQSend` too
   (`system_timer.c:250`). A tick between the two lines takes the same slot: both
   sends succeed, one message is lost, and the other is delivered twice or from a
   freed slot.
2. **A timer that was set may never ring** (`timer_preempted`). The bits of all timers
   and user ISRs share `gstSysTimerEnable`, and its updates are loads and stores
   without a lock. A task preempted in between stores an old word, and a timer set
   meanwhile is lost while its owner holds its id. The peripheral task, the
   lowest of the three, does this whenever it registers or releases its LED ISR.
3. **Unplugging the web-cam can stop the recorder for good** (`audio_webcam`).
   `usb_webcam_stop` clears `C_AVI_ENCODE_USB_WEBCAM` (`avi_encoder_state.c:247`), waits
   for the AVI state task (`:249`) and only then asks the audio task to stop (`:251`). A
   buffer that is full in between is taken for a recording's; none of the recording's
   buffers has its address, so the task prints "audio buffer error!" and enters
   `while(1)` (`avi_audio_record.c:146`). At priority 16 it keeps every task below it
   from running. `ErrorOnlyUnplugging` says that there is no other way to that loop.

### Where properties end

Some components promise something only until a thing happens that the code neither
prevents nor repairs. There the model lets it happen, a history variable remembers it,
and the property says *until then*: `~ clashed => ...`. The abstract specifications do the
same with `broken`. No document of the repository promises more, except where a finding
says so.

- `clashed` (MsgQ): the interrupt has sent between a task's scan and its fill, or within
  a flush. After that a slot may have two owners for good (finding 1).
- `raced` (SysTimer): a task has come between the load and the store of another, has
  stopped the time base after another had seen to it that it runs, or has taken another's
  entry in the table. After that a timer may be lost (finding 2), or the time base stand
  still while timers are set, until the next call that finds the word 0.
- `derailed` (Recorder): a message of the cycle timer, of the packer or for
  `POWER_KEY_ACTIVE` was handled that no longer fitted, or the encoder did not start with
  the next file of a recording. Then a file is recorded without BUSY, or BUSY is cleared
  while the cycle timer runs on, and all of the recorder's safety properties but
  `PowerOffSet` say nothing more; `WaitEnds` and `PictureEnds` go on to hold.
- `hurried` (FramePipe): a recording has begun before the last frame of the one before
  had ended. `START_ENCODE` resets `is_used` of the buffer that is still encoded into, and
  a frame may be overwritten. Making a file takes far longer than a frame, but nothing in
  the code waits for it. The next recording that begins after the last has settled sets
  everything right, and the property says so.
- The first recording after a power-on without a card is not cut into files:
  `ap_video_record_init` returns before it sets `cyclic_record_timerid` to 0xFF
  (`ap_video_record.c:21`), the id stays 0, and the test at `:349` takes it for a running
  timer. `CycleArmed` leaves it out (`cyc # 0`).
- A next file that did not open leaves BUSY set with nothing recorded and polling off;
  `PollingResumes` speaks of BUSY clear. The key then stops the recording that is not
  there, and polling comes back.
- A picture request whose file did not open leaves BUSY set in the preview state
  (`ap_video_preview.c:78`): the next press sets `pic_down_flag` and asks for nothing
  (`state_video_preview.c:76`), and the key is dead for good. So it is when the card is
  pulled between the key and its handler. `PictureEnds` names both (`unasked`).
- When all numbers are used, the search for the next one never ends
  (`ap_storage_service.c:792`), and with it every wait for the storage task. The search is
  at priority 21 and keeps the state-handling and peripheral tasks from running as well.
  `WaitEnds` and `PictureEnds` name it (`searching`).
- An encoder that neither starts nor stops when told can go on into a closed file.
  `Controlled` therefore says nothing from the first refused stop on (`refused`,
  which is history); the other properties of `recorder_faults` hold nevertheless.
- `WholeFrames` fails when a full frame's worth of pieces is lost before an end of
  frame gets through (`MaxLate = Pieces`): pieces are counted, not numbered, so the
  rest of two frames adds up to one. `MaxLate = Pieces - 1` is the largest bound
  for which the claim is true.
- `BlocksKept` has the premise that the packer never took longer than a buffer lasts
  (`~ tardy`; a second). The search for the next buffer skips the one being filled
  and those in use, but the one just filled is marked as used only afterwards. So
  the search may pick it, and a slower packer reads sound that is being
  overwritten: that half of the hazard no property rules out, since the code does not. `PackedInOrder` and `WritesInside` hold all the same.
- When the DMA channel of the sound times out (`MaxLost`), it stays occupied. The
  stop that follows gets no answer, its caller gives up after 5 s and frees the
  memory itself, and the flags AUDIO and START stay set: later recordings are
  silent, and each of their stops is 5 s late. Nothing leaks on the way
  (`HeapAccounted`), and nothing is written to freed memory (`WritesInside`).
- `dma_transfer_wait_ready` with a count of 0 pends for ever and keeps its queue
  (`drv_l1_dma.c:638`, `:856`). Its caller in this build, `spi_flash_disk.c`, passes counts
  above 0. `AnswersReach` says of such a task only that no other's answer wakes it.
- `gp_malloc_align` asks for one word more than it uses, so `BlocksApart` holds with
  room to spare, and a request that would just fit is refused.
- `KeepsFiles` promises to keep files only until the last number, 9999, has been
  used. After that a request may open number 10000, whose bit is outside the table,
  or start again from 0 with `O_TRUNC`; and when the table is full, the search for
  the next file of a recording never ends and with it the storage task
  (`stuck`).

## 5. Bounds

- **MsgQ.** `MaxMsgs = 3`: one slot queued, one in the receiver's hand, one being
  filled, which is every owner at once; a full pool and a full OSQ are both
  reached. Messages are three values, one urgent. Sizes 4, 8, 12 against slots of 8
  reach accepted and refused sends. The receiver's buffer has the 8 of its queue, as
  everywhere in the firmware; refused receives are not reached. Nothing bounds how long the queue
  runs.
- **Recorder.** `Files = {1, 2}`: a video and a picture, or a leaked handle and the
  next one. In `recorder_faults`, `MaxKeys = 3`: record, stop, and one more in any gap;
  `MaxCardMoves = 2`: out and in again; `MaxUpsets = 1`: a packer error, for a second one
  finds the recorder derailed or as the first did. `MaxNews` limits the reports of the
  mount that others have not heard yet; a poll is a second away from the next,
  so 1 is the realistic value and 2 lets them pile up. The constraint `Followed` ends a
  behaviour at the state in which it derails, as its properties say nothing after that
  (`PowerOffSet` is checked so far only, too). What a tick of the cycle timer
  sets off is done before its next tick, minutes later (`CycleWork`). The queues need no bound of their own. `recorder_ends` has two
  keys and one card move, goes on after derailing, and leaves out `"restart"` and
  `"stop"`: they concern what is done with a file that is there, and neither WAIT nor the
  picture waits for that.
- **SysTimer.** Two timers of different owners and two user ISRs, so that all three
  tasks call; a table of one entry in place of five, so that a full table is reached. The
  interval 2 tells a first period from a later one and a tick that counts from one that
  rings. Intervals 1 and 2 together (2.9 million states) satisfy the safety properties as
  well, and they are proved for all.
- **FramePipe.** The build has 5 sensor buffers, 8 video buffers, 45 pieces per
  frame, a queue of 64 for free sensor buffers and of 32 for the encoder. Three
  sensor buffers are two in the registers and one free, so an overrun comes with a
  single slow piece. Three pieces are a first, a middle and a last; two suffice
  where pieces do not matter. Four video buffers are one encoded, one at the
  packer and two waiting, the least number with which a waiting frame is chosen
  among several. `MaxCalls = 3` is record, stop, record;
  `MaxCalls = 2` is record and stop, two pictures, or a recording after a picture.
  The engine fails once (`MaxFails = 1`). A larger instance (`VideoNo = 3`,
  `Pieces = 3`, `MaxLate = 2`, `MaxFails = 1`, `MaxCalls = 3`; 9.9 million states) satisfies the safety
  properties as well; it is not among the runs for its length.
- **AudioRecord.** Buffers have 8 and 4 words in place of a second of sound, which is
  enough to tell a header from samples and one address from another. The heap ends
  at 50: the three buffers of a recording do not fit when another's block was there
  first, those for USB do. So an allocation fails before one start and not before
  the next. One channel and one queue reach contention with another task that waits
  and with callers that poll; contention among several tasks is `dma_transfers`' matter. `MaxBehind = 3`: every buffer may be at the packer. `MaxLost = 1`: once its
  only channel has timed out, the sound has none to lose. The number of sessions is
  not bounded.
- **Dma.** Three tasks for two channels and two queues: no queue, no channel for who has
  a queue, and an answer that comes while others want the queue. Channel 0 is the one that
  is not for the internal RAM. The owner's channels and targets are 0 and 1, the idle
  target and another.
- **FileNumbers.** Two numbers stand for 10000, with two more behind the table
  (`LastIndex = 3`): the highest plus one, the wrap, a gap, and files that lie
  outside the table. Three numbers (1.9 million states) satisfy the property as
  well, and it is proved for any number.

`CHECK_DEADLOCK FALSE` stands in three runs. In `files` the bound `LastIndex` ends the
requests, and a search that goes round for ever does stop the storage task. In
`recorder_ends` that search stops all three tasks, and a derailed recorder may come to
rest with polling off, from where only a key press leads on, and these are bounded. In
`recorder_faults` it is the same for the states in which the recorder derails. All other
runs check for deadlock.

## 6. Assumptions

- A handler of the storage, state-handling, peripheral and AVI state tasks is
  atomic: the state it touches is its own, or passed by message. An encoder
  handler waits for the JPEG engine, but touches what it shares only before or
  after that.
- In Recorder, the queues between the tasks do not lose messages. That is what `Channel`
  says until it breaks; what finding 1 does to the recorder is not modelled.
- A tick of a software timer is handled before the timer's next tick.
- In FramePipe: requests are answered before `POST_MESSAGE` gives up; the encoder's
  queue of 32 never fills with at most 5 pieces, 8 reports and a request; which register the
  sensor fills first after a start agrees with `csi_fifo_flag` (hardware;
  `capture_switch` sets the flag to match).
- In AudioRecord: the audio task, at priority 16, has handled one buffer before the
  next is full; the packer (22) and the callers (27 and 36) run only while its queue
  is empty and it does not spin. Starts and stops of recordings and of the web-cam
  mode come from tasks that wait for the answer, one at a time.
- In AudioRecord: the heap ends below the address 0x40000000 (`HeapEnd <= DUMMY`, in
  words), which the code gives the controller for a buffer that is not kept; the SDRAM
  of the board is far smaller.
- In Heap and Dma: their calls are atomic, as they hold the scheduler, and the
  driver masks its interrupt where it chooses a channel. Which kind of target a
  transfer has is left open (`internal`). In FileNumbers: the storage
  task alone opens files, and power may fail between its handlers.
- In SysTimer: a timer has one owner, who sets it only when it does not run and
  kills it only when it does. The callers keep the id 0xFF for that purpose.

**Fairness.** It is assumed only where the scheduler gives it.

- MsgQ: a task that holds the scheduler lock runs on to its unlock (WF of
  `SendFill`, `SendPost`, `FlushPool`); the receiver gets its turn again and
  again although senders take the lock in between (SF of `OSQPend`, `ReceiveCopy`,
  since the lock disables and enables them). No sender is obliged to send.
- Recorder: a task with a message handles it (WF per task), and the capture ends.
  The user, the timers, the card and the errors are under no obligation.
- SysTimer: a call that has begun goes on (WF per task), and a time base that runs
  ticks.
- AudioRecord: WF of the audio task, of the sound's interrupt and of the packer. A
  caller that has begun goes on (SF of `CallerGoesOn`): it is kept off while the
  audio task has messages, and between two buffers it has its turn again and again.
  Nobody has to begin.
- FileNumbers: none; it only has a property of steps.
- FramePipe: WF per task and for the sensor. No call is ever obliged to come.
  `PictureTaken` has a premise: from some time on no piece is lost. Without it a picture
  may be retried for ever, which is what the code does.

## 7. What is proved

For every value of the constants, from the assumptions named `MsgQAssumption`,
`SysTimerAssumption`, `FilesAssumption`, `RecorderAssumption`, `PipeAssumption`,
`HeapAssumption`, `DmaAssumption`, `AudioAssumption` and `IndexAssumption`, which the
runs evaluate. All safety properties of the passing runs are proved, invariants,
action properties and refinements, but for `WholeFrames` and `PowerOffSet`. No theorem
has a premise: each is about every behaviour of the specification. Where the code can
get into a state in which it promises nothing, the specification goes there, too, and
the invariant has the form `clashed \/ Sound`. It is inductive because a step that leaves
`Sound` sets the flag, and the flag is not taken back (`hurried` is, and there the proof
shows that a recording that begins settled makes everything sound again).

**MsgQProofs.** They cover any number of sending tasks, a flushing receiver, and an
interrupt that sends at any time. `QueueTypeOK`: `TypeOK` holds also after a clash: a
send that an interrupt cuts still writes into the pool.

- `SlotsAreOwned`: `TypeOK`, and until a clash `OneOwner` and `NoGhosts`.
- `QueuedMessagesStay`: `QueuedStays`.
- `SlotsAreNotLost`: `NoLeak`.
- `QueueImplementsChannel`: every behaviour is one of `Channel`, which breaks with the
  clash.

`OneOwner` and `NoGhosts` are not inductive. A sender that has picked a slot must
know that it still is free when it fills it, which holds because it has the lock;
a flush must know that the OSQ is empty when it clears the pool. `InProgress`
says so, `Sound` is the conjunction `TypeOK /\ InProgress /\ OwnedOnce /\ NoGhosts`, and
`IInv` is `TypeOK /\ (clashed \/ Sound)`. The proof has one lemma per
group of actions (`SendInv`, `TickInv`, `ReceiveInv`, `FlushInv`), over lemmas on
sequences without repetition (`TailOfDistinct`, `AppendOfDistinct`,
`FrontOfDistinct`) and one on posting (`PostInv`) shared by both kinds of sender.
The refinement has a lemma per action of Channel; `PostIsPut` is the one in which
a post becomes a `Put`.

**SysTimerProofs.** `TimerTypeOK`: `TypeOK` holds even when tasks cut each other's calls.
A word that a task stores back can name timers that are set no more; `Shapes`, the
invariant, says that each timer in the word, in a word about to be stored, or about to
be set has ticks left (at 0 the interrupt would count through the whole range), and
that every other bit is one of the table. The other theorems say what holds
until a task has raced another; that calls preempt one another everywhere else, and the
interrupt comes at any step, is part of them.

- `WordIsTrue`: `WordTrue`, and `BaseFollows` (the time base runs exactly while the word
  is not 0).
- `TimersAreAlarms`: every behaviour is one of `Alarms`, which break with the race.

`WordTrue` speaks of the time between calls. `Sound` adds what holds at each step
of every call under way: which bit the word lacks or has too many, that `seen` is the word
still, that the timer's record is filled and untouched by ticks before it is
enabled, that no two calls are about one entry of the table, and the state of the time base.

**RecorderProofs.** `RecorderTypeOK`: `TypeOK` whatever goes wrong. The others say what
holds until the recorder derails, from power-on with or without a card, while cards are
pulled, files do not open, encoder and packer fail to start or stop, timers and the packer
send at any moment, and the storage task may search for ever, any number of times.

- `RecorderFilesAccounted`, `RecorderRepliesOpen`: no handle is lost, none is used twice.
- `RecorderControlled`: what is recorded can be stopped.
- `RecorderPollsWhileClosed`, `RecorderPollingResumes`: the card is polled while no file is
  open, no task mounts over an open one, and polling comes back afterwards.
- `RecorderCycleOnlyWhileBusy`, `RecorderCycleArmed`: the cycle timer goes with the recording.

All follow from `SoundUntilDerailed`, `derailed \/ Sound`, where `Sound` is `RecInv`, or
`SearchInv` once the storage task searches for ever. The properties speak of queues and flags of three tasks
that no single step relates, so the invariant is about what is *under way*: at most
one request, answer, capture or error is (`QueuesInv`); WAIT and BUSY say in
which of these places the recorder is (`WaitInv`); the open file is in the one answer,
in the capture, or written to (`FilesInv`); encoder (`EncInv`), poll timer (`PollInv`) and
cycle timer (`CycleInv`) agree with the place. What is in a queue is asked by
predicates (`Holds`, `Tells`, `Asks`, `Answers`), with lemmas on what appending to it and
taking from it do to them; each handler then has one lemma.

**FramePipeProofs.** For any number of sensor and video buffers, pieces of a frame, lost pieces,
engine failures and calls, and however hurried the next recording begins:

- `PipeTypeOK`: `TypeOK`, with the bounds of the piece counter and of the reports.
- `PipeAnswered`: `Answered`.
- `PipeSensorBufsOwned`: `SensorBufsOwned`.
- `PipeNoStall`: `NoStall`.

And in a recording that has begun after the last had settled (`~ hurried`):

- `PipeVideoBufsOwned`: `VideoBufsOwned`.
- `PipeImplementsFrameQueue`: every behaviour is one of `FrameQueue`, which breaks when a
  recording begins too soon and works again when the next does not.

The first four follow from `PipeInv`. Everything that is sensitive to a restart depends
on how far the calling task has come with its requests, so the invariant begins
with it (`Client`): `todo` is the rest of one of four calls, `status` is what the next
request expects, and a request is in a mailbox only while its caller waits and has
no acknowledgement yet. On that rest `PictureInv` (a wanted picture is in one place:
wanted, being encoded, posted or reported), `EncoderInv` (nothing is encoded between frames,
nor while the preview is switched), `SensorInv` (a buffer is free, in a register or in
one piece; none is on its way when the sensor starts), `PackerInv` (a file is open throughout a
recording) and `FlowInv` (frames wait only while the packer has one).

The other two need `hurried \/ FlightInv` beside it (`FlightInvHolds`; `FlightStarts` is
the step that re-establishes it): the packer has one frame at most (`OneFrame`),
and while a file is recorded the buffers in use are those that wait, the packer's, and
the one encoded into, without overlap (`InOneRole`). That a frame is given up only
when all buffers hold one is then a matter of counting (`AllHoldFrames`).

**HeapProofs.** `HeapBlocksApart`: `BlocksApart` for any sequence of calls with any
sizes and alignments. It is inductive once it is known that blocks have natural
numbers for their ends (`BlocksOK`); the work is in `AllocateApart`, by which the
first gap that is large enough holds the new block with its header and alignment.

**DmaProofs.** `DmaAnswersReach`: `AnswersReach` for any number of tasks, queues and
channels, with transfers refused or for nothing, callers that poll (`Transfer`), and
whatever who has occupied a channel does with it (`OwnerStep`). The inductive invariant
`DmaInv` adds the types, and that a queue is empty when its task starts a transfer
(`StartsEmpty`): nothing that ran for an earlier owner of the queue may still answer.

**AudioRecordProofs.** Each step of the audio task, its interrupt, its callers and the
others is one of the heap's or none, and one of the driver's or none
(`StepComposed`, with one lemma per group of actions). The one thing this needs of
the audio task's own state is that what it passes on are addresses and indices
(`Addresses`). What the two modules prove then holds of the composition:

- `AudioBlocksApart`: `BlocksApart` of the composed specification.
- `AudioImplementsDma`: every behaviour is one of `DmaSpec`.
- `AudioAnswersReach`: `AnswersReach`; recording sound never takes another task's answer
  or queue.

On that rest the audio task's own properties, for all sizes of buffers and of the
heap, any number of sessions, time-outs and other users: `AudioTypeOK`,
`AudioHeapAccounted`, `AudioWritesInside`, `AudioBlocksKept`, `AudioPackedInOrder` and
`AudioErrorOnlyUnplugging`. Their invariant, `AudioInv`, says what the task's queue can hold
(`QueueInv`), where the caller and the task are with each other, time-outs included
(`CallInv`), which block of the heap is the task's and how the three buffers lie in it
(`MemoryInv`, `FrameInv`), and what the channel is told in relation to them
(`ChannelInv`, `RecordInv`, `WebcamInv`, `PendingInv`, `PackingInv`): the buffer it fills, the
one it fills next, and the full ones that nobody has handled are different.

**FileNumbersProofs.** `FilesKept`: `KeepsFiles`. Its invariant, `NumbersInv`, says
that the table of a mounted card has every number on it that it can hold
(`TableKnows`), and that the next number is above all in the table until the last one
is used (`NextIsNew`). Neither is preserved alone: a mount takes the next number from the
names on the card, a request only from the one before, and the table is what says
of both that the number is new.

**Only model-checked.** Liveness (`EventuallyReceived`, `WaitEnds`, `PictureEnds`,
`TimerRings`, `PictureTaken`, both `CallsEnd`), which is out of the prover's reach;
`WholeFrames`, whose invariant would have to count the pieces that are queued and lost since
the last end of frame, by induction over the queue; `PowerOffSet`; the violated properties.

## 8. What is not modelled

The components marked so in section 1, for the reasons given there. Within the
modelled ones: text, LED patterns, battery, charger and key debouncing; USB plug-in
and power-off in the state handling; pause and resume; the motion detector, the
automatic deletion of old files and the scaler's preview, which the build leaves
out; quality control, the OSD and the USB camera's pictures in the encoder;
time-outs of the requests about video.

- Storage task: the check for a serial number and the search for an upgrade at
  mount; sound files, which only the unused audio state asks for.
- Audio task: restart and the low-pass filter, which are not built in, and exit,
  which nothing asks for; what the sound is.
- Heap: the table for the internal RAM, which only the MPEG-4 encoder asks for, and
  that is not built in. DMA driver:
  `dma_memory_fill`, `dma_buffer_copy` and `dma_transfer_with_queue`, which nothing
  calls.
