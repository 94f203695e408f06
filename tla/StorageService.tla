-------------------------- MODULE StorageService ---------------------------
(***************************************************************************)
(* application/task_storage_service: the task that mounts the memory card  *)
(* and opens files for the state-handling task.  While nobody writes, a    *)
(* software timer makes it look for the card once a second; it stops that  *)
(* timer before it opens a file, and the state-handling task asks for it   *)
(* back with TIMER_START when it has done with the file.                   *)
(*                                                                         *)
(* The queues are MsgQ's seen from outside: sequences without loss (see    *)
(* Channel).  The file system is external: a card that is in answers, and  *)
(* a file opens or does not.                                               *)
(***************************************************************************)
EXTENDS Naturals, Sequences, FiniteSets

CONSTANTS
  Files,          \* file handles the file system can give out
  NoFile,         \* a negative handle: the file was not opened
  Mishaps,        \* what may go wrong; see Recorder
  MaxCardMoves,   \* bound: how often the user inserts or removes the card
  MaxNews         \* bound: News

ASSUME FilesAssumption ==
  /\ Files \subseteq Nat
  /\ IsFiniteSet(Files)
  /\ NoFile \notin Files
  /\ MaxCardMoves \in Nat
  /\ MaxNews \in Nat

VARIABLES
  stq,            \* StorageServiceQ: message ids
  apq,            \* ApQ: messages to the state-handling task
  perq,           \* PeripheralTaskQ: the LED messages that change state
  mountTimer,     \* storage_mount_timerid # 0xFF: the card is polled
  phase,          \* device_plug_phase: the card was there at the last look
  storage,        \* curr_storage_id
  missed,         \* card_first_dete: no card seen since the last mount
  full,           \* card_space_less_flag
  card,           \* is the card in?
  moves,          \* how often it has been moved
  open,           \* the open file handles
  searching,      \* the task looks for a free file number, and there is none
  mountedOver     \* history: the card has been mounted while a file was open

storageVars == <<mountTimer, phase, storage, missed>>
cardVars == <<card, moves>>

Message(id) == [id |-> id, file |-> NoFile, room |-> TRUE]
Reply(id, f, r) == [id |-> id, file |-> f, room |-> r]

ReplyIds == {"VID_REPLY", "VID_CYCLIC_REPLY", "PIC_REPLY"}
LedIds == {"CARD_NO_SPACE", "WAITING_CAPTURE", "CAPTURE_FAIL", "FLASH"}

\* What the mount has told the other tasks and they have not heard yet.
News ==
  {<<"apq", i>> : i \in {j \in DOMAIN apq : apq[j].id \in {"MOUNT", "NO_STORAGE"}}}
    \cup {<<"perq", i>> : i \in {j \in DOMAIN perq : perq[j] = "CARD_NO_SPACE"}}
-----------------------------------------------------------------------------
\* curr_storage_id of a card that was in, or not, at power-on.
StorageInit(inserted) ==
  /\ stq = <<>>
  /\ apq = <<>>
  /\ perq = <<>>
  /\ mountTimer = TRUE
  /\ phase = inserted
  /\ storage = IF inserted THEN "card" ELSE "none"
  /\ missed = ~ inserted
  /\ full = FALSE
  /\ card = inserted
  /\ moves = 0
  /\ open = {}
  /\ searching = FALSE
  /\ mountedOver = FALSE

\* _devicemount, which the state-handling task calls as well.
MountCard(files) == mountedOver' = (mountedOver \/ files # {})

StorageReceive(id) ==
  /\ stq # <<>>
  /\ Head(stq) = id
  /\ stq' = Tail(stq)

\* The mount timer's interrupt; one tick is handled before the next is due.
MountTick ==
  /\ mountTimer
  /\ \A i \in DOMAIN stq : stq[i] # "STORAGE_CHECK"
  /\ Cardinality(News) < MaxNews
  /\ stq' = Append(stq, "STORAGE_CHECK")
  /\ UNCHANGED <<apq, perq, storageVars, full, cardVars, open, searching, mountedOver>>

(* ap_storage_service_storage_mount.  In phase 0 it stops the timer and    *)
(* mounts; in phase 1 it only asks the card for a sign of life.  When that *)
(* fails it stops the timer and mounts once more.  Stopping the timer      *)
(* forgets curr_storage_id (0x55, "unknown"), and the second mount forgets *)
(* it again when it succeeds.                                              *)
StorageMount(alive) ==
  LET mounted == alive \/ card
      known == CASE alive /\ phase -> storage
                 [] ~ alive /\ card -> "none"
                 [] OTHER -> "unknown"
      changed == known # IF mounted THEN "card" ELSE "none"
  IN  /\ phase' = mounted
      /\ storage' = IF mounted THEN "card" ELSE "none"
      /\ missed' = ~ mounted
      /\ mountTimer' = TRUE
      /\ MountCard(IF phase /\ alive THEN {} ELSE open)
      /\ apq' = IF ~ changed THEN apq
                ELSE Append(apq, Message(IF mounted THEN "MOUNT" ELSE "NO_STORAGE"))
      /\ \E room \in BOOLEAN :
           /\ full' = (full /\ mounted /\ ~ missed /\ ~ (changed /\ room))
           /\ perq' = IF mounted /\ changed /\ ~ room
                        THEN Append(perq, "CARD_NO_SPACE") ELSE perq

\* A card that is in may fail to answer once.
Responses == IF "card" \in Mishaps THEN {card, FALSE} ELSE {card}

\* Mutant: a tick that was already queued when the timer stopped is obeyed.
StorageCheckStale ==
  /\ StorageReceive("STORAGE_CHECK")
  /\ \E alive \in Responses : StorageMount(alive)
  /\ UNCHANGED <<cardVars, open, searching>>

\* The tick may be older than the request that stopped the timer.
StorageCheck ==
  /\ StorageReceive("STORAGE_CHECK")
  /\ IF mountTimer
       THEN \E alive \in Responses : StorageMount(alive)
       ELSE UNCHANGED <<apq, perq, storageVars, full, mountedOver>>
  /\ UNCHANGED <<cardVars, open, searching>>

TimerStart ==
  /\ StorageReceive("TIMER_START")
  /\ mountTimer' = TRUE
  /\ UNCHANGED <<apq, perq, phase, storage, missed, full, cardVars, open, searching, mountedOver>>

\* open() gives the lowest free handle, or none.
OpenResults ==
  LET free == Files \ open
      usable == card /\ storage = "card" /\ free # {}
  IN  (IF usable THEN {f \in free : \A g \in free : f <= g} ELSE {NoFile})
        \cup (IF "open" \in Mishaps THEN {NoFile} ELSE {})

(* ap_storage_service_file_open_handle: stop polling, open, answer.        *)
FileOpen(request, reply) ==
  /\ StorageReceive(request)
  /\ mountTimer' = FALSE
  /\ \E f \in OpenResults, room \in BOOLEAN :
       /\ open' = open \cup ({f} \ {NoFile})
       /\ apq' = Append(apq, Reply(reply, f, room \/ f = NoFile))
  /\ UNCHANGED <<perq, phase, storage, missed, full, cardVars, searching, mountedOver>>

(* ap_storage_service_cyclic_record_file_open_handle: the same for the next *)
(* file of a recording, under a free number.  When every number is used    *)
(* the task looks for one for ever, and answers nothing any more.          *)
CyclicSearch ==
  /\ "numbers" \in Mishaps
  /\ StorageReceive("VID_CYCLIC_REQ")
  /\ mountTimer' = FALSE
  /\ searching' = TRUE
  /\ UNCHANGED <<apq, perq, phase, storage, missed, full, cardVars, open, mountedOver>>

CyclicFileOpen == FileOpen("VID_CYCLIC_REQ", "VID_CYCLIC_REPLY") \/ CyclicSearch

StorageTask ==
  /\ ~ searching
  /\ \/ StorageCheck
     \/ TimerStart
     \/ FileOpen("VID_REQ", "VID_REPLY")
     \/ FileOpen("PIC_REQ", "PIC_REPLY")
     \/ CyclicFileOpen

\* The user.
MoveCard ==
  /\ "card" \in Mishaps
  /\ moves < MaxCardMoves
  /\ card' = ~ card
  /\ moves' = moves + 1
  /\ UNCHANGED <<stq, apq, perq, storageVars, full, open, searching, mountedOver>>

StorageTypeOK ==
  /\ stq \in Seq({"STORAGE_CHECK", "TIMER_START", "VID_REQ", "VID_CYCLIC_REQ", "PIC_REQ"})
  /\ \A i \in DOMAIN apq :
       /\ apq[i].file \in Files \cup {NoFile}
       /\ apq[i].file # NoFile => apq[i].id \in ReplyIds
       /\ apq[i].room \in BOOLEAN
  /\ perq \in Seq(LedIds)
  /\ mountTimer \in BOOLEAN
  /\ phase \in BOOLEAN
  /\ storage \in {"none", "card"}
  /\ missed \in BOOLEAN
  /\ full \in BOOLEAN
  /\ card \in BOOLEAN
  /\ moves \in 0 .. MaxCardMoves
  /\ open \subseteq Files
  /\ searching \in BOOLEAN
  /\ mountedOver \in BOOLEAN
=============================================================================
