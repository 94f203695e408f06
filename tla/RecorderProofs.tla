--------------------------- MODULE RecorderProofs ---------------------------
(***************************************************************************)
(* What the recorder's tasks do with one file after the other, for any     *)
(* number of key presses, card moves and errors, and any moment at which   *)
(* timers and packer send.                                                 *)
(*                                                                         *)
(* One file at a time is asked for, answered, written or closed again, and *)
(* RecInv says in which of these places it is: a request in the storage    *)
(* task's queue, an answer in the state-handling task's, a recording or a  *)
(* picture.  When the storage task searches for a number for ever the      *)
(* request is lost with it, and SearchInv says what is left.  One of the   *)
(* two holds until the recorder is derailed, which it remembers: Sound.    *)
(***************************************************************************)
EXTENDS Recorder, TLAPS

StIds == {"STORAGE_CHECK", "TIMER_START", "VID_REQ", "VID_CYCLIC_REQ", "PIC_REQ"}
RequestIds == {"VID_REQ", "VID_CYCLIC_REQ", "PIC_REQ"}
AnswerIds == ReplyIds \cup {"PIC_DONE"}
InterruptIds == {"CYCLIC_VIDEO_RECORD", "POWER_KEY_ACTIVE", "WRITE_ERROR", "GROUP_END"}

\* Messages: only a reply brings a file.
ApMsgs == {m \in [id : ApIds, file : Files \cup {NoFile}, room : BOOLEAN] :
             m.file # NoFile => m.id \in ReplyIds}

\* What is in the storage task's queue s, and in the state task's queue s.
Holds(s, id) == \E i \in DOMAIN s : s[i] = id
Asks(s) == Holds(s, "VID_REQ") \/ Holds(s, "VID_CYCLIC_REQ") \/ Holds(s, "PIC_REQ")

Tells(s, id) == \E i \in DOMAIN s : s[i].id = id
Answers(s) ==
  \/ Tells(s, "VID_REPLY") \/ Tells(s, "VID_CYCLIC_REPLY") \/ Tells(s, "PIC_REPLY")
  \/ Tells(s, "PIC_DONE")
\* Behind a request the storage task has only looks for the card to do.
RequestLast(s) ==
  \A i, j \in DOMAIN s : s[i] \in RequestIds /\ i < j => s[j] = "STORAGE_CHECK"

\* One answer at most, with the one open file.
OneAnswer(s) ==
  \A i, j \in DOMAIN s : s[i].id \in AnswerIds /\ s[j].id \in AnswerIds => i = j
AnswersWith(s, files) ==
  \A i \in DOMAIN s : s[i].id \in AnswerIds => files = {s[i].file} \ {NoFile}

Requested == Asks(stq)
Answering == Answers(apq)
TimerAsked == Holds(stq, "TIMER_START")
Ticked == Tells(apq, "CYCLIC_VIDEO_RECORD")
Busy == "BUSY" \in sts
Waits == "WAIT" \in sts

QueueTypes ==
  /\ stq \in Seq(StIds)
  /\ apq \in Seq(ApMsgs)
  /\ perq \in Seq(LedIds)

EncType == [started : BOOLEAN, packer0 : BOOLEAN, file : Files \cup {NoFile},
            into : Files \cup {NoFile}, refused : BOOLEAN]

DataTypes ==
  /\ mountTimer \in BOOLEAN /\ phase \in BOOLEAN /\ storage \in {"none", "card"}
  /\ missed \in BOOLEAN /\ full \in BOOLEAN /\ card \in BOOLEAN
  /\ moves \in 0 .. MaxCardMoves
  /\ open \subseteq Files
  /\ state \in {"record", "preview"}
  /\ sts \subseteq {"UNMOUNT", "BUSY", "WAIT"}
  /\ psts \subseteq {"UNMOUNT", "BUSY"}
  /\ cyc \in {0, VIDEO_RECORD_CYCLE_TIMER_ID, NO_TIMER}
  /\ curr \in Files \cup {NoFile, 0}
  /\ mounted \in BOOLEAN /\ picDown \in BOOLEAN
  /\ enc \in EncType
  /\ capturing \in BOOLEAN /\ latched \in BOOLEAN
  /\ timers \subseteq {POWER_OFF_TIMER_ID, VIDEO_RECORD_CYCLE_TIMER_ID}
  /\ keys \in 0 .. MaxKeys
  /\ upsets \in 0 .. MaxUpsets
  /\ searching \in BOOLEAN /\ mountedOver \in BOOLEAN
  /\ derailed \in BOOLEAN /\ unasked \in BOOLEAN

Types == QueueTypes /\ DataTypes

QueuesInv ==
  /\ RequestLast(stq) /\ OneAnswer(apq)
  /\ ~ (Requested /\ Answering)
  /\ capturing => ~ Requested /\ ~ Answering

\* The record state waits while its request or its reply is under way, and
\* the preview state is busy with its picture.
WaitInv ==
  /\ Waits <=> \/ Holds(stq, "VID_REQ") \/ Holds(stq, "VID_CYCLIC_REQ")
               \/ Tells(apq, "VID_REPLY") \/ Tells(apq, "VID_CYCLIC_REPLY")
  /\ Waits => Busy
  /\ state = "preview" => sts = {}
  /\ Holds(stq, "PIC_REQ") \/ Tells(apq, "PIC_REPLY") \/ Tells(apq, "PIC_DONE") \/ capturing
       => state = "preview" /\ "BUSY" \in psts

\* The open file is the one that is recorded.
Writes ==
  /\ state = "record" /\ Busy /\ ~ Waits
  /\ Recording /\ enc.file = enc.into /\ open = {enc.into}

FilesInv ==
  /\ Requested => open = {}
  /\ AnswersWith(apq, open)
  /\ capturing => enc.file # NoFile /\ open = {enc.file}
  /\ open = {} \/ Answering \/ capturing \/ Writes

EncInv ==
  /\ enc.into # NoFile => enc.packer0
  /\ enc.started /\ ~ enc.refused => state = "record" /\ Busy /\ ~ Waits

PollInv ==
  /\ Answering \/ capturing \/ open # {} => ~ mountTimer /\ ~ TimerAsked
  /\ ~ mountTimer => TimerAsked \/ Requested \/ Answering \/ capturing \/ Busy
  /\ ~ mountedOver

\* The cycle timer runs during a recording, and ticks only once its id is
\* known not to be the 0 of the first one.
CycleInv ==
  /\ VIDEO_RECORD_CYCLE_TIMER_ID \in timers <=> cyc = VIDEO_RECORD_CYCLE_TIMER_ID
  /\ cyc = VIDEO_RECORD_CYCLE_TIMER_ID => state = "record" /\ Busy
  /\ Holds(stq, "VID_REQ") \/ Tells(apq, "VID_REPLY")
       => cyc # VIDEO_RECORD_CYCLE_TIMER_ID
  /\ Holds(stq, "VID_CYCLIC_REQ") \/ Tells(apq, "VID_CYCLIC_REPLY")
       => cyc = VIDEO_RECORD_CYCLE_TIMER_ID
  /\ state = "record" /\ Busy /\ ~ Waits => cyc \in {0, VIDEO_RECORD_CYCLE_TIMER_ID}
  /\ Ticked => cyc # 0

RecInv == QueuesInv /\ WaitInv /\ FilesInv /\ EncInv /\ PollInv /\ CycleInv

\* The request has been taken, and no answer will come.
SearchInv ==
  /\ state = "record" /\ Busy /\ Waits
  /\ open = {} /\ ~ Answering /\ ~ capturing
  /\ enc.started => enc.refused
  /\ ~ mountTimer /\ ~ mountedOver

Sound == IF searching THEN SearchInv ELSE RecInv
-----------------------------------------------------------------------------
(* The queues.                                                             *)

(* The sets of messages and the questions about them.                      *)
LEMMA Questions ==
  ASSUME NEW s
  PROVE  /\ Asks(s) <=> \E i \in DOMAIN s : s[i] \in RequestIds
         /\ Answers(s) <=> \E i \in DOMAIN s : s[i].id \in AnswerIds
         /\ ~ Answers(s) => OneAnswer(s) /\ \A files : AnswersWith(s, files)
<1>1. Asks(s) <=> \E i \in DOMAIN s : s[i] \in RequestIds
  BY DEF Asks, Holds, RequestIds
<1>2. Answers(s) <=> \E i \in DOMAIN s : s[i].id \in AnswerIds
  BY DEF Answers, Tells, AnswerIds, ReplyIds
<1> QED
  BY <1>1, <1>2 DEF OneAnswer, AnswersWith

(* What a storage queue holds when a message is put behind it.             *)
LEMMA HoldsAppend ==
  ASSUME NEW S, NEW s \in Seq(S), NEW x \in S
  PROVE  /\ Append(s, x) \in Seq(S)
         /\ \A id : Holds(Append(s, x), id) <=> Holds(s, id) \/ x = id
         /\ RequestLast(s) /\ (x = "STORAGE_CHECK" \/ ~ Asks(s)) => RequestLast(Append(s, x))
<1>1. /\ Append(s, x) \in Seq(S) /\ Len(Append(s, x)) = Len(s) + 1
      /\ Append(s, x)[Len(s) + 1] = x
      /\ \A i \in 1 .. Len(s) : Append(s, x)[i] = s[i]
      /\ DOMAIN Append(s, x) = 1 .. Len(s) + 1 /\ DOMAIN s = 1 .. Len(s) /\ Len(s) \in Nat
  OBVIOUS
<1> DEFINE t == Append(s, x)
<1> HIDE DEF t
<1>2. ASSUME NEW id PROVE Holds(t, id) <=> Holds(s, id) \/ x = id
  BY <1>1 DEF Holds, t
<1>3. ASSUME RequestLast(s), x = "STORAGE_CHECK" \/ ~ Asks(s)
      PROVE  RequestLast(t)
  BY <1>1, <1>3, Questions DEF RequestLast, t, RequestIds
<1> QED
  BY <1>1, <1>2, <1>3 DEF t

(* ... and when its first message is taken.                                *)
LEMMA HoldsTail ==
  ASSUME NEW S, NEW s \in Seq(S), s # <<>>
  PROVE  /\ Head(s) \in S /\ Tail(s) \in Seq(S)
         /\ \A id : Holds(s, id) <=> Holds(Tail(s), id) \/ Head(s) = id
         /\ RequestLast(s) => /\ RequestLast(Tail(s))
                              /\ Head(s) \in RequestIds => ~ Asks(Tail(s))
                              /\ Head(s) \in RequestIds => ~ Holds(Tail(s), "TIMER_START")
<1>1. /\ Len(s) \in Nat \ {0} /\ Head(s) = s[1] /\ s[1] \in S /\ Tail(s) \in Seq(S)
      /\ DOMAIN s = 1 .. Len(s) /\ DOMAIN Tail(s) = 1 .. Len(s) - 1
      /\ \A i \in 1 .. Len(s) - 1 : Tail(s)[i] = s[i + 1]
  OBVIOUS
<1> DEFINE t == Tail(s)
<1> HIDE DEF t
<1>2. ASSUME NEW id PROVE Holds(s, id) <=> Holds(t, id) \/ Head(s) = id
  <2>1. ASSUME NEW i \in DOMAIN s, s[i] = id PROVE Holds(t, id) \/ Head(s) = id
    <3>1. CASE i = 1
      BY <1>1, <2>1, <3>1
    <3>2. CASE i # 1
      <4>1. i - 1 \in DOMAIN t /\ t[i - 1] = s[i]
        BY <1>1, <3>2 DEF t
      <4> QED
        BY <2>1, <4>1 DEF Holds
    <3> QED
      BY <3>1, <3>2
  <2>2. ASSUME NEW i \in DOMAIN t, t[i] = id PROVE Holds(s, id)
    <3>1. i + 1 \in DOMAIN s /\ s[i + 1] = t[i]
      BY <1>1 DEF t
    <3> QED
      BY <2>2, <3>1 DEF Holds
  <2>3. Head(s) = id => Holds(s, id)
    BY <1>1 DEF Holds
  <2> QED
    BY <2>1, <2>2, <2>3 DEF Holds
<1>3. ASSUME RequestLast(s) PROVE RequestLast(t)
  BY <1>1, <1>3 DEF RequestLast, t
<1>4. ASSUME RequestLast(s), Head(s) \in RequestIds
      PROVE  ~ Asks(t) /\ ~ Holds(t, "TIMER_START")
  <2>1. \A i \in DOMAIN t : t[i] = "STORAGE_CHECK"
    BY <1>1, <1>4 DEF RequestLast, t
  <2> QED
    BY <2>1 DEF Asks, Holds
<1> QED
  BY <1>1, <1>2, <1>3, <1>4 DEF t

(* The same of the state-handling task's queue.                            *)
LEMMA TellsAppend ==
  ASSUME NEW S, NEW s \in Seq(S), NEW m \in S
  PROVE  /\ Append(s, m) \in Seq(S)
         /\ \A id : Tells(Append(s, m), id) <=> Tells(s, id) \/ m.id = id
         /\ OneAnswer(s) /\ (m.id \notin AnswerIds \/ ~ Answers(s))
              => OneAnswer(Append(s, m))
         /\ \A files :
              /\ AnswersWith(s, files)
              /\ m.id \notin AnswerIds \/ files = {m.file} \ {NoFile}
              => AnswersWith(Append(s, m), files)
<1>1. /\ Append(s, m) \in Seq(S) /\ Len(Append(s, m)) = Len(s) + 1
      /\ Append(s, m)[Len(s) + 1] = m
      /\ \A i \in 1 .. Len(s) : Append(s, m)[i] = s[i]
      /\ DOMAIN Append(s, m) = 1 .. Len(s) + 1 /\ DOMAIN s = 1 .. Len(s) /\ Len(s) \in Nat
  OBVIOUS
<1> DEFINE t == Append(s, m)
<1> HIDE DEF t
<1>2. ASSUME NEW id PROVE Tells(t, id) <=> Tells(s, id) \/ m.id = id
  BY <1>1 DEF Tells, t
<1>3. ASSUME OneAnswer(s), m.id \notin AnswerIds \/ ~ Answers(s)
      PROVE  OneAnswer(t)
  BY <1>1, <1>3, Questions DEF OneAnswer, t
<1>5. ASSUME NEW files, AnswersWith(s, files),
             m.id \notin AnswerIds \/ files = {m.file} \ {NoFile}
      PROVE  AnswersWith(t, files)
  BY <1>1, <1>5 DEF AnswersWith, t
<1> QED
  BY <1>1, <1>2, <1>3, <1>5 DEF t

LEMMA TellsTail ==
  ASSUME NEW S, NEW s \in Seq(S), s # <<>>
  PROVE  /\ Head(s) \in S /\ Tail(s) \in Seq(S)
         /\ \A id : Tells(s, id) <=> Tells(Tail(s), id) \/ Head(s).id = id
         /\ OneAnswer(s) => /\ OneAnswer(Tail(s))
                            /\ Head(s).id \in AnswerIds => ~ Answers(Tail(s))
         /\ \A files : AnswersWith(s, files) =>
              /\ AnswersWith(Tail(s), files)
              /\ Head(s).id \in AnswerIds => files = {Head(s).file} \ {NoFile}
<1>1. /\ Len(s) \in Nat \ {0} /\ Head(s) = s[1] /\ s[1] \in S /\ Tail(s) \in Seq(S)
      /\ DOMAIN s = 1 .. Len(s) /\ DOMAIN Tail(s) = 1 .. Len(s) - 1
      /\ \A i \in 1 .. Len(s) - 1 : Tail(s)[i] = s[i + 1]
  OBVIOUS
<1> DEFINE t == Tail(s)
<1> HIDE DEF t
<1>2. ASSUME NEW id PROVE Tells(s, id) <=> Tells(t, id) \/ Head(s).id = id
  <2>1. ASSUME NEW i \in DOMAIN s, s[i].id = id PROVE Tells(t, id) \/ Head(s).id = id
    <3>1. CASE i = 1
      BY <1>1, <2>1, <3>1
    <3>2. CASE i # 1
      <4>1. i - 1 \in DOMAIN t /\ t[i - 1] = s[i]
        BY <1>1, <3>2 DEF t
      <4> QED
        BY <2>1, <4>1 DEF Tells
    <3> QED
      BY <3>1, <3>2
  <2>2. ASSUME NEW i \in DOMAIN t, t[i].id = id PROVE Tells(s, id)
    <3>1. i + 1 \in DOMAIN s /\ s[i + 1] = t[i]
      BY <1>1 DEF t
    <3> QED
      BY <2>2, <3>1 DEF Tells
  <2>3. Head(s).id = id => Tells(s, id)
    BY <1>1 DEF Tells
  <2> QED
    BY <2>1, <2>2, <2>3 DEF Tells
<1>3. ASSUME OneAnswer(s) PROVE OneAnswer(t)
  BY <1>1, <1>3 DEF OneAnswer, t
<1>4. ASSUME OneAnswer(s), Head(s).id \in AnswerIds PROVE ~ Answers(t)
  <2> SUFFICES ASSUME NEW i \in DOMAIN t, t[i].id \in AnswerIds PROVE FALSE
    BY Questions
  <2>1. i + 1 \in DOMAIN s /\ s[i + 1] = t[i] /\ 1 \in DOMAIN s /\ i + 1 # 1
    BY <1>1 DEF t
  <2> QED
    BY <1>1, <1>4, <2>1 DEF OneAnswer
<1>7. ASSUME NEW files, AnswersWith(s, files)
      PROVE  /\ AnswersWith(t, files)
             /\ Head(s).id \in AnswerIds => files = {Head(s).file} \ {NoFile}
  BY <1>1, <1>7 DEF AnswersWith, t
<1> QED
  BY <1>1, <1>2, <1>3, <1>4, <1>7 DEF t
-----------------------------------------------------------------------------
(* What the handlers make of their work.                                   *)

WorkType == [sts : SUBSET {"UNMOUNT", "BUSY", "WAIT"},
             cyc : {0, VIDEO_RECORD_CYCLE_TIMER_ID, NO_TIMER}, enc : EncType,
             timers : SUBSET {POWER_OFF_TIMER_ID, VIDEO_RECORD_CYCLE_TIMER_ID},
             open : SUBSET Files, stq : Seq(StIds)]

\* A record with one file open at most, which is recorded, and a cycle timer
\* whose id is known.
Tidy(w) ==
  /\ w.enc.into # NoFile => w.enc.packer0
  /\ w.open = {} \/ (w.enc.into # NoFile /\ w.enc.file = w.enc.into /\ w.open = {w.enc.into})
  /\ VIDEO_RECORD_CYCLE_TIMER_ID \in w.timers <=> w.cyc = VIDEO_RECORD_CYCLE_TIMER_ID

LEMMA WorkIs ==
  /\ Work.sts = sts /\ Work.cyc = cyc /\ Work.enc = enc
  /\ Work.timers = timers /\ Work.open = open /\ Work.stq = stq
  /\ Types => Work \in WorkType
  BY DEF Work, Types, QueueTypes, DataTypes, WorkType

LEMMA CommitTypes ==
  ASSUME NEW w \in WorkType, Commit(w)
  PROVE  /\ sts' \subseteq {"UNMOUNT", "BUSY", "WAIT"}
         /\ cyc' \in {0, VIDEO_RECORD_CYCLE_TIMER_ID, NO_TIMER} /\ enc' \in EncType
         /\ timers' \subseteq {POWER_OFF_TIMER_ID, VIDEO_RECORD_CYCLE_TIMER_ID}
         /\ open' \subseteq Files /\ stq' \in Seq(StIds)
  BY DEF Commit, WorkType

LEMMA ToStorageIs ==
  ASSUME NEW w \in WorkType, NEW id \in StIds, NEW v, v = ToStorage(w, id)
  PROVE  /\ v \in WorkType
         /\ v.sts = w.sts /\ v.cyc = w.cyc /\ v.enc = w.enc
         /\ v.timers = w.timers /\ v.open = w.open /\ v.stq = Append(w.stq, id)
<1>1. Append(w.stq, id) \in Seq(StIds)
  BY DEF WorkType
<1>2. v = [w EXCEPT !.stq = Append(w.stq, id)]
  BY DEF ToStorage
<1> QED
  BY <1>1, <1>2 DEF WorkType

LEMMA CloseIs ==
  ASSUME NEW w \in WorkType, NEW f, NEW v, v = Close(w, f)
  PROVE  /\ v \in WorkType
         /\ v.sts = w.sts /\ v.cyc = w.cyc /\ v.enc = w.enc
         /\ v.timers = w.timers /\ v.open = w.open \ {f} /\ v.stq = w.stq
  BY DEF Close, WorkType

LEMMA StartedIs ==
  ASSUME NEW w \in WorkType, NEW f \in Files, NEW v, v = Started(w, f)
  PROVE  /\ v \in WorkType
         /\ v.sts = w.sts /\ v.cyc = w.cyc /\ v.timers = w.timers
         /\ v.open = w.open /\ v.stq = w.stq
         /\ v.enc.started /\ v.enc.packer0 /\ v.enc.file = f /\ v.enc.into = f
  BY DEF Started, WorkType, EncType

LEMMA NotStartedIs ==
  ASSUME NEW w \in WorkType, NEW f \in Files, NEW v \in NotStarted(w, f)
  PROVE  /\ v \in WorkType
         /\ v.sts = w.sts /\ v.cyc = w.cyc /\ v.timers = w.timers
         /\ v.open = w.open /\ v.stq = w.stq
         /\ v.enc.started = w.enc.started /\ v.enc.refused = w.enc.refused
         /\ v.enc.packer0
<1>1. PICK g \in {f, NoFile} :
        v = [w EXCEPT !.enc.packer0 = TRUE, !.enc.file = f, !.enc.into = g]
  BY DEF NotStarted
<1> DEFINE e == [w.enc EXCEPT !.packer0 = TRUE, !.file = f, !.into = g]
<1>2. /\ e \in EncType /\ e.packer0
      /\ e.started = w.enc.started /\ e.refused = w.enc.refused
  BY DEF WorkType, EncType
<1>3. v = [w EXCEPT !.enc = e]
  BY <1>1
<1> HIDE DEF e
<1> QED
  BY <1>2, <1>3 DEF WorkType

LEMMA KillIs ==
  ASSUME NEW w \in WorkType, NEW v, v = KillCycleTimer(w)
  PROVE  /\ v \in WorkType
         /\ v.sts = w.sts /\ v.enc = w.enc /\ v.open = w.open /\ v.stq = w.stq
         /\ v.cyc = NO_TIMER
         /\ Tidy(w) => VIDEO_RECORD_CYCLE_TIMER_ID \notin v.timers
<1>1. CASE w.cyc = NO_TIMER
  BY <1>1 DEF KillCycleTimer, Tidy, VIDEO_RECORD_CYCLE_TIMER_ID, NO_TIMER
<1>2. CASE w.cyc # NO_TIMER
  <2>1. v = [w EXCEPT !.timers = w.timers \ {w.cyc}, !.cyc = NO_TIMER]
    BY <1>2 DEF KillCycleTimer
  <2>2. /\ v \in WorkType /\ v.timers = w.timers \ {w.cyc} /\ v.cyc = NO_TIMER
        /\ v.sts = w.sts /\ v.enc = w.enc /\ v.open = w.open /\ v.stq = w.stq
    BY <2>1 DEF WorkType
  <2> QED
    BY <2>2 DEF Tidy
<1> QED
  BY <1>1, <1>2

LEMMA SetIs ==
  ASSUME NEW w \in WorkType, NEW v, v = SetCycleTimer(w)
  PROVE  /\ v \in WorkType
         /\ v.sts = w.sts /\ v.enc = w.enc /\ v.open = w.open /\ v.stq = w.stq
         /\ v.cyc = IF w.cyc = NO_TIMER THEN VIDEO_RECORD_CYCLE_TIMER_ID ELSE w.cyc
         /\ (VIDEO_RECORD_CYCLE_TIMER_ID \in w.timers <=> w.cyc = VIDEO_RECORD_CYCLE_TIMER_ID)
              => (VIDEO_RECORD_CYCLE_TIMER_ID \in v.timers
                    <=> v.cyc = VIDEO_RECORD_CYCLE_TIMER_ID)
<1>1. CASE w.cyc # NO_TIMER
  BY <1>1 DEF SetCycleTimer
<1>2. CASE w.cyc = NO_TIMER
  <2>1. v = [w EXCEPT !.timers = w.timers \cup {VIDEO_RECORD_CYCLE_TIMER_ID},
                      !.cyc = VIDEO_RECORD_CYCLE_TIMER_ID]
    BY <1>2 DEF SetCycleTimer
  <2>2. /\ v \in WorkType /\ v.cyc = VIDEO_RECORD_CYCLE_TIMER_ID
        /\ v.timers = w.timers \cup {VIDEO_RECORD_CYCLE_TIMER_ID}
        /\ v.sts = w.sts /\ v.enc = w.enc /\ v.open = w.open /\ v.stq = w.stq
    <3> DEFINE more == w.timers \cup {VIDEO_RECORD_CYCLE_TIMER_ID}
    <3>1. more \in SUBSET {POWER_OFF_TIMER_ID, VIDEO_RECORD_CYCLE_TIMER_ID}
      BY DEF WorkType
    <3> HIDE DEF more
    <3>2. v = [w EXCEPT !.timers = more, !.cyc = VIDEO_RECORD_CYCLE_TIMER_ID]
      BY <2>1 DEF more
    <3> QED
      BY <3>1, <3>2 DEF WorkType, more
  <2> QED
    BY <1>2, <2>2
<1> QED
  BY <1>1, <1>2

LEMMA EncodeStopIs ==
  ASSUME NEW w \in WorkType, NEW v \in EncodeStop(w)
  PROVE  /\ v \in WorkType
         /\ v.sts = w.sts /\ v.cyc = w.cyc /\ v.timers = w.timers /\ v.stq = w.stq
         /\ v.enc.started => v.enc.refused
         /\ Tidy(w) => v.open = {} /\ v.enc.into = NoFile
<1> DEFINE closed == IF w.enc.packer0 THEN Close(w, w.enc.file) ELSE w
           keep(f) == IF w.enc.packer0 THEN NoFile ELSE f
<1>1. PICK hangs \in May("stop"), broken \in May("stop") :
        v = [closed EXCEPT !.enc = [started |-> w.enc.started /\ hangs,
                                    packer0 |-> w.enc.packer0 /\ broken,
                                    file |-> keep(w.enc.file),
                                    into |-> keep(w.enc.into),
                                    refused |-> \/ w.enc.refused
                                                \/ w.enc.started /\ hangs
                                                \/ w.enc.packer0 /\ broken]]
  BY DEF EncodeStop
<1>2. /\ closed \in WorkType
      /\ closed.sts = w.sts /\ closed.cyc = w.cyc /\ closed.timers = w.timers
      /\ closed.stq = w.stq
      /\ closed.open = IF w.enc.packer0 THEN w.open \ {w.enc.file} ELSE w.open
  <2>1. CASE w.enc.packer0
    BY <2>1, CloseIs
  <2>2. CASE ~ w.enc.packer0
    BY <2>2
  <2> QED
    BY <2>1, <2>2
<1>3. hangs \in BOOLEAN /\ broken \in BOOLEAN
  BY DEF May
<1> DEFINE e == [started |-> w.enc.started /\ hangs, packer0 |-> w.enc.packer0 /\ broken,
                 file |-> keep(w.enc.file), into |-> keep(w.enc.into),
                 refused |-> \/ w.enc.refused
                             \/ w.enc.started /\ hangs
                             \/ w.enc.packer0 /\ broken]
<1>4. e \in EncType
  BY <1>3 DEF WorkType, EncType
<1>5. e.started => e.refused
  BY <1>3
<1>6. e.into = keep(w.enc.into)
  OBVIOUS
<1>7. v = [closed EXCEPT !.enc = e]
  BY <1>1
<1> HIDE DEF closed, e
<1>8. /\ v \in WorkType /\ v.enc = e
      /\ v.sts = w.sts /\ v.cyc = w.cyc /\ v.timers = w.timers /\ v.stq = w.stq
      /\ v.open = IF w.enc.packer0 THEN w.open \ {w.enc.file} ELSE w.open
  BY <1>2, <1>4, <1>7 DEF WorkType
<1>9. Tidy(w) => v.open = {} /\ v.enc.into = NoFile
  BY <1>6, <1>8 DEF Tidy
<1> QED
  BY <1>5, <1>8, <1>9

LEMMA StopRecordingIs ==
  ASSUME NEW w \in WorkType, NEW v \in StopRecording(w)
  PROVE  /\ v \in WorkType
         /\ v.sts = w.sts \ {"BUSY"} /\ v.stq = Append(w.stq, "TIMER_START")
         /\ v.enc.started => v.enc.refused
         /\ v.cyc = NO_TIMER
         /\ Tidy(w) => /\ v.open = {} /\ v.enc.into = NoFile
                       /\ VIDEO_RECORD_CYCLE_TIMER_ID \notin v.timers
<1> DEFINE stopped(u) == IF u.enc.started \/ u.enc.packer0 THEN Close(u, curr) ELSE u
           idle(u) == [KillCycleTimer(stopped(u)) EXCEPT !.sts = @ \ {"BUSY"}]
<1>1. PICK u \in EncodeStop(w) : v = ToStorage(idle(u), "TIMER_START")
  BY DEF StopRecording
<1>2. /\ u \in WorkType
      /\ u.sts = w.sts /\ u.cyc = w.cyc /\ u.timers = w.timers /\ u.stq = w.stq
      /\ u.enc.started => u.enc.refused
      /\ Tidy(w) => u.open = {} /\ u.enc.into = NoFile
  BY EncodeStopIs
<1>3. /\ stopped(u) \in WorkType
      /\ stopped(u).sts = u.sts /\ stopped(u).cyc = u.cyc /\ stopped(u).enc = u.enc
      /\ stopped(u).timers = u.timers /\ stopped(u).open \subseteq u.open
      /\ stopped(u).stq = u.stq
  BY <1>2, CloseIs
<1>4. Tidy(w) => Tidy(stopped(u)) /\ stopped(u).open = {}
  BY <1>2, <1>3 DEF Tidy
<1> DEFINE killed == KillCycleTimer(stopped(u))
<1> HIDE DEF stopped
<1>5. /\ killed \in WorkType /\ killed.sts = w.sts /\ killed.enc = u.enc
      /\ killed.stq = w.stq /\ killed.cyc = NO_TIMER
      /\ Tidy(w) => /\ killed.open = {}
                    /\ VIDEO_RECORD_CYCLE_TIMER_ID \notin killed.timers
  BY <1>2, <1>3, <1>4, KillIs
<1>6. idle(u) = [killed EXCEPT !.sts = w.sts \ {"BUSY"}]
  BY <1>5
<1>7. w.sts \ {"BUSY"} \in SUBSET {"UNMOUNT", "BUSY", "WAIT"}
  BY DEF WorkType
<1> HIDE DEF killed, idle
<1>8. /\ idle(u) \in WorkType /\ idle(u).sts = w.sts \ {"BUSY"} /\ idle(u).enc = u.enc
      /\ idle(u).stq = w.stq /\ idle(u).cyc = NO_TIMER
      /\ Tidy(w) => /\ idle(u).open = {}
                    /\ VIDEO_RECORD_CYCLE_TIMER_ID \notin idle(u).timers
  BY <1>5, <1>6, <1>7 DEF WorkType
<1> QED
  BY <1>1, <1>2, <1>8, ToStorageIs DEF StIds

LEMMA GiveUpIs ==
  ASSUME NEW w \in WorkType, NEW f, NEW v, v = GiveUp(w, f)
  PROVE  /\ v \in WorkType
         /\ v.sts = w.sts \ {"BUSY"} /\ v.stq = Append(w.stq, "TIMER_START")
         /\ v.open = w.open \ {f} /\ v.enc = w.enc
         /\ v.cyc = w.cyc /\ v.timers = w.timers
<1> DEFINE closed == Close(w, f)
           idle == [closed EXCEPT !.sts = @ \ {"BUSY"}]
<1>1. /\ closed \in WorkType
      /\ closed.sts = w.sts /\ closed.cyc = w.cyc /\ closed.enc = w.enc
      /\ closed.timers = w.timers /\ closed.open = w.open \ {f} /\ closed.stq = w.stq
  BY CloseIs
<1>2. w.sts \ {"BUSY"} \in SUBSET {"UNMOUNT", "BUSY", "WAIT"}
  BY DEF WorkType
<1>3. idle = [closed EXCEPT !.sts = w.sts \ {"BUSY"}]
  BY <1>1
<1>4. v = ToStorage(idle, "TIMER_START")
  BY DEF GiveUp
<1> HIDE DEF closed, idle
<1>5. /\ idle \in WorkType
      /\ idle.sts = w.sts \ {"BUSY"} /\ idle.cyc = w.cyc /\ idle.enc = w.enc
      /\ idle.timers = w.timers /\ idle.open = w.open \ {f} /\ idle.stq = w.stq
  BY <1>1, <1>2, <1>3 DEF WorkType
<1> QED
  BY <1>4, <1>5, ToStorageIs DEF StIds

(* The key: stop, ask for a file, or ask for polling.                      *)
LEMMA FuncKeyIs ==
  ASSUME NEW w \in WorkType, NEW v \in FuncKeyActive(w)
  PROVE  /\ v \in WorkType
         /\ \/ /\ "BUSY" \in w.sts
               /\ v.sts = w.sts \ {"BUSY"} /\ v.stq = Append(w.stq, "TIMER_START")
               /\ v.enc.started => v.enc.refused
               /\ v.cyc = NO_TIMER
               /\ Tidy(w) => /\ v.open = {} /\ v.enc.into = NoFile
                             /\ VIDEO_RECORD_CYCLE_TIMER_ID \notin v.timers
            \/ /\ w.sts = {}
               /\ v.sts = {"BUSY", "WAIT"} /\ v.stq = Append(w.stq, "VID_REQ")
               /\ v.open = w.open /\ v.enc = w.enc
               /\ v.cyc = w.cyc /\ v.timers = w.timers
            \/ /\ "BUSY" \notin w.sts /\ w.sts # {}
               /\ v.sts = w.sts /\ v.stq = Append(w.stq, "TIMER_START")
               /\ v.open = w.open /\ v.enc = w.enc
               /\ v.cyc = w.cyc /\ v.timers = w.timers
<1>1. CASE "BUSY" \in w.sts
  BY <1>1, StopRecordingIs DEF FuncKeyActive
<1>2. CASE w.sts = {}
  <2> DEFINE u == [w EXCEPT !.sts = {"BUSY", "WAIT"}]
  <2>1. v = ToStorage(u, "VID_REQ")
    BY <1>2 DEF FuncKeyActive
  <2>2. /\ u \in WorkType
        /\ u.sts = {"BUSY", "WAIT"} /\ u.cyc = w.cyc /\ u.enc = w.enc
        /\ u.timers = w.timers /\ u.open = w.open /\ u.stq = w.stq
    BY DEF WorkType
  <2> HIDE DEF u
  <2> QED
    BY <1>2, <2>1, <2>2, ToStorageIs DEF StIds
<1>3. CASE "BUSY" \notin w.sts /\ w.sts # {}
  BY <1>3, ToStorageIs DEF FuncKeyActive, StIds
<1> QED
  BY <1>1, <1>2, <1>3
-----------------------------------------------------------------------------
(* Types, whatever goes wrong.                                             *)

LEMMA MessagesTyped ==
  /\ \A id \in ApIds : Message(id) \in ApMsgs
  /\ \A id \in ReplyIds, f \in Files \cup {NoFile}, r \in BOOLEAN :
       Reply(id, f, r) \in ApMsgs
  /\ {"MOUNT", "NO_STORAGE", "RECORD_ACTIVE", "CAPTURE_ACTIVE", "PIC_DONE",
      "CYCLIC_VIDEO_RECORD", "POWER_KEY_ACTIVE", "WRITE_ERROR", "GROUP_END"} \subseteq ApIds
<1>1. {"MOUNT", "NO_STORAGE", "RECORD_ACTIVE", "CAPTURE_ACTIVE"} \subseteq ApIds
  BY DEF ApIds
<1>2. Unhandled["record"] \cup Unhandled["preview"] \cup ReplyIds \subseteq ApIds
  BY DEF ApIds
<1>3. {"PIC_DONE", "CYCLIC_VIDEO_RECORD", "POWER_KEY_ACTIVE", "WRITE_ERROR", "GROUP_END"}
        \subseteq Unhandled["record"] \cup Unhandled["preview"]
  BY DEF Unhandled
<1> QED
  BY <1>1, <1>2, <1>3 DEF Message, Reply, ApMsgs

\* What a handler sends to its own task.
Selves == {<<>>, <<Message("RECORD_ACTIVE")>>, <<Message("CAPTURE_ACTIVE")>>}

(* The message that is handled leaves the queue, and a message of the key  *)
(* may come back to its end.                                               *)
LEMMA TakeIs ==
  ASSUME apq \in Seq(ApMsgs), NEW id, NEW sent \in Selves, Take(id, sent)
  PROVE  /\ apq' \in Seq(ApMsgs)
         /\ Head(apq) \in ApMsgs /\ Head(apq).id = id
         /\ Tells(apq, id)
         /\ \A x : x \notin {"RECORD_ACTIVE", "CAPTURE_ACTIVE"} =>
              /\ Tells(apq', x) => Tells(apq, x)
              /\ Tells(apq, x) => Tells(apq', x) \/ x = id
         /\ OneAnswer(apq) => /\ OneAnswer(apq')
                              /\ id \in AnswerIds => ~ Answers(apq')
         /\ \A files : AnswersWith(apq, files) =>
              /\ AnswersWith(apq', files)
              /\ id \in AnswerIds => files = {Head(apq).file} \ {NoFile}
<1> DEFINE t == Tail(apq)
<1>1. /\ Head(apq) \in ApMsgs /\ t \in Seq(ApMsgs)
      /\ \A x : Tells(apq, x) <=> Tells(t, x) \/ Head(apq).id = x
      /\ OneAnswer(apq) => OneAnswer(t) /\ (Head(apq).id \in AnswerIds => ~ Answers(t))
      /\ \A files : AnswersWith(apq, files) =>
           /\ AnswersWith(t, files)
           /\ Head(apq).id \in AnswerIds => files = {Head(apq).file} \ {NoFile}
  BY TellsTail, apq # <<>> DEF Take
<1>2. Head(apq).id = id
  BY DEF Take
<1>3. CASE sent = <<>>
  <2>1. apq' = t
    BY <1>1, <1>3 DEF Take
  <2> HIDE DEF t
  <2> QED
    BY <1>1, <1>2, <2>1
<1>4. ASSUME NEW self \in {"RECORD_ACTIVE", "CAPTURE_ACTIVE"}, sent = <<Message(self)>>
      PROVE  /\ apq' \in Seq(ApMsgs)
             /\ \A x : Tells(apq', x) <=> Tells(t, x) \/ x = self
             /\ OneAnswer(apq) => /\ OneAnswer(apq')
                                  /\ id \in AnswerIds => ~ Answers(apq')
             /\ \A files : AnswersWith(apq, files) => AnswersWith(apq', files)
  <2>1. Message(self) \in ApMsgs
    BY MessagesTyped
  <2>2. apq' = Append(t, Message(self))
    BY <1>1, <1>4, <2>1 DEF Take
  <2>3. Message(self).id = self /\ self \notin AnswerIds
    BY DEF Message, AnswerIds, ReplyIds
  <2> HIDE DEF t
  <2>4. /\ apq' \in Seq(ApMsgs)
        /\ \A x : Tells(apq', x) <=> Tells(t, x) \/ self = x
        /\ OneAnswer(t) => OneAnswer(apq')
        /\ \A files : AnswersWith(t, files) => AnswersWith(apq', files)
    BY <1>1, <2>1, <2>2, <2>3, TellsAppend
  <2>5. Answers(apq') <=> Answers(t)
    BY <2>4 DEF Answers
  <2> QED
    BY <1>1, <1>2, <2>4, <2>5
<1>5. CASE sent # <<>>
  <2>1. PICK self \in {"RECORD_ACTIVE", "CAPTURE_ACTIVE"} : sent = <<Message(self)>>
    BY <1>5 DEF Selves
  <2> HIDE DEF t
  <2>2. /\ apq' \in Seq(ApMsgs)
        /\ \A x : Tells(apq', x) <=> Tells(t, x) \/ x = self
        /\ OneAnswer(apq) => /\ OneAnswer(apq')
                             /\ id \in AnswerIds => ~ Answers(apq')
        /\ \A files : AnswersWith(apq, files) => AnswersWith(apq', files)
    BY <1>4, <2>1
  <2> QED
    BY <1>1, <1>2, <2>2
<1> QED
  BY <1>3, <1>5

(* The steps of the storage task and its timer, one lemma for both parts.  *)
LEMMA StorageTypesStep ==
  ASSUME Types, MountTick \/ StorageTask \/ MoveCard, UNCHANGED otherTasks
  PROVE  Types'
<1> USE DEF Types, QueueTypes, DataTypes, otherTasks, apVars, countVars, storageVars, cardVars
<1>1. CASE MountTick
  <2>1. stq' \in Seq(StIds)
    BY <1>1, HoldsAppend DEF MountTick, StIds
  <2> QED
    BY <1>1, <2>1 DEF MountTick
<1>2. CASE StorageCheck
  <2>1. stq' \in Seq(StIds)
    BY <1>2, HoldsTail DEF StorageCheck, StorageReceive
  <2>2. CASE mountTimer
    <3>1. PICK alive \in Responses : StorageMount(alive)
      BY <1>2, <2>2 DEF StorageCheck
    <3>2. alive \in BOOLEAN
      BY DEF Responses
    <3>3. apq' \in Seq(ApMsgs)
      BY <3>1, TellsAppend, MessagesTyped DEF StorageMount
    <3>4. perq' \in Seq(LedIds) /\ full' \in BOOLEAN
      BY <3>1 DEF StorageMount, LedIds
    <3>5. phase' \in BOOLEAN /\ storage' \in {"none", "card"} /\ missed' \in BOOLEAN
          /\ mountTimer' \in BOOLEAN /\ mountedOver' \in BOOLEAN
      BY <3>1, <3>2 DEF StorageMount, MountCard
    <3>6. UNCHANGED <<card, moves, open, searching>>
      BY <1>2 DEF StorageCheck
    <3> QED
      BY <2>1, <3>3, <3>4, <3>5, <3>6
  <2>3. CASE ~ mountTimer
    BY <1>2, <2>1, <2>3 DEF StorageCheck
  <2> QED
    BY <2>2, <2>3
<1>3. CASE TimerStart
  <2>1. stq' \in Seq(StIds)
    BY <1>3, HoldsTail DEF TimerStart, StorageReceive
  <2> QED
    BY <1>3, <2>1 DEF TimerStart
<1>4. ASSUME NEW request, NEW reply \in ReplyIds, FileOpen(request, reply) PROVE Types'
  <2>1. stq' \in Seq(StIds)
    BY <1>4, HoldsTail DEF FileOpen, StorageReceive
  <2>2. PICK f \in OpenResults, room \in BOOLEAN :
          /\ open' = open \cup ({f} \ {NoFile})
          /\ apq' = Append(apq, Reply(reply, f, room \/ f = NoFile))
    BY <1>4 DEF FileOpen
  <2>3. f \in Files \cup {NoFile}
    BY DEF OpenResults
  <2>4. apq' \in Seq(ApMsgs) /\ open' \subseteq Files
    BY <2>2, <2>3, MessagesTyped, TellsAppend
  <2>5. mountTimer' = FALSE
        /\ UNCHANGED <<perq, phase, storage, missed, full, card, moves, searching,
                        mountedOver>>
    BY <1>4 DEF FileOpen
  <2>6. mountTimer' \in BOOLEAN /\ perq' \in Seq(LedIds)
        /\ UNCHANGED <<phase, storage, missed, full, card, moves, searching, mountedOver>>
    BY <2>5
  <2> QED
    BY <2>1, <2>4, <2>6
<1>5. CASE MoveCard
  <2>1. card' \in BOOLEAN /\ moves' \in 0 .. MaxCardMoves
    BY <1>5, FilesAssumption DEF MoveCard
  <2> QED
    BY <1>5, <2>1 DEF MoveCard
<1>6. CASE CyclicSearch
  <2>1. stq' \in Seq(StIds)
    BY <1>6, HoldsTail DEF CyclicSearch, StorageReceive
  <2>2. /\ mountTimer' \in BOOLEAN /\ searching' \in BOOLEAN
        /\ UNCHANGED <<apq, perq, phase, storage, missed, full, card, moves, open, mountedOver>>
    BY <1>6 DEF CyclicSearch
  <2> QED
    BY <2>1, <2>2
<1>7. CASE \/ FileOpen("VID_REQ", "VID_REPLY") \/ FileOpen("PIC_REQ", "PIC_REPLY")
           \/ FileOpen("VID_CYCLIC_REQ", "VID_CYCLIC_REPLY")
  <2>1. {"VID_REPLY", "PIC_REPLY", "VID_CYCLIC_REPLY"} \subseteq ReplyIds
    BY DEF ReplyIds
  <2> HIDE DEF Types
  <2> QED
    BY <1>4, <1>7, <2>1
<1> HIDE DEF Types, QueueTypes, DataTypes, otherTasks
<1> QED
  BY <1>1, <1>2, <1>3, <1>5, <1>6, <1>7 DEF StorageTask, CyclicFileOpen

(* A handler that only works on its task's data.                           *)
LEMMA HandlerTypes ==
  ASSUME Types, NEW id, NEW sent \in Selves, Take(id, sent), NEW w \in WorkType, Commit(w),
         curr' \in Files \cup {NoFile, 0}, perq' \in Seq(LedIds), UNCHANGED unheard,
         derailed' \in BOOLEAN, mountedOver' \in BOOLEAN
  PROVE  Types'
<1>1. apq' \in Seq(ApMsgs)
  BY TakeIs DEF Types, QueueTypes
<1> QED
  BY <1>1, CommitTypes
     DEF Types, QueueTypes, DataTypes, unheard, outside, countVars

LEMMA Sending ==
  /\ <<>> \in Selves
  /\ <<Message("RECORD_ACTIVE")>> \in Selves /\ <<Message("CAPTURE_ACTIVE")>> \in Selves
  BY DEF Selves

LEMMA RecordTypesStep ==
  ASSUME Types,
         \/ RecordActive \/ CaptureWhileRecording \/ CyclicVideoRecord
         \/ PackerWriteError \/ PackerGroupEnd \/ PowerKeyActive
  PROVE  Types'
<1>1. Work \in WorkType
  BY WorkIs
<1>2. \A w \in WorkType : \A v \in FuncKeyActive(w) : v \in WorkType
  BY FuncKeyIs
<1>3. perq \in Seq(LedIds) /\ Append(perq, "FLASH") \in Seq(LedIds)
      /\ curr \in Files \cup {NoFile, 0}
  BY DEF Types, QueueTypes, DataTypes, LedIds
<1>0. derailed' \in BOOLEAN /\ mountedOver' \in BOOLEAN
  <2>1. derailed \in BOOLEAN /\ mountedOver \in BOOLEAN
    BY DEF Types, DataTypes
  <2> QED
    BY <2>1 DEF RecordActive, CaptureWhileRecording, CyclicVideoRecord, PackerWriteError,
         PackerGroupEnd, PowerKeyActive, Derails, MountCard
<1>4. CASE RecordActive \/ CaptureWhileRecording
  <2>1. PICK id \in {"RECORD_ACTIVE", "CAPTURE_ACTIVE"}, sent \in Selves, w \in WorkType :
          Take(id, sent) /\ Commit(w)
    BY <1>1, <1>2, <1>4, Sending DEF RecordActive, CaptureWhileRecording
  <2> QED
    BY <1>3, <1>4, <2>1, <1>0, HandlerTypes DEF RecordActive, CaptureWhileRecording
<1>5. CASE CyclicVideoRecord
  <2>1. PICK w \in EncodeStop(Work) :
          Commit(ToStorage([w EXCEPT !.sts = @ \cup {"WAIT"}], "VID_CYCLIC_REQ"))
    BY <1>5 DEF CyclicVideoRecord
  <2> DEFINE flags == w.sts \cup {"WAIT"}
             u == [w EXCEPT !.sts = flags]
  <2>2. w \in WorkType
    BY <1>1, EncodeStopIs
  <2>3. flags \in SUBSET {"UNMOUNT", "BUSY", "WAIT"}
    BY <2>2 DEF WorkType
  <2>4. Commit(ToStorage(u, "VID_CYCLIC_REQ"))
    BY <2>1
  <2> HIDE DEF flags
  <2>5. u \in WorkType
    BY <2>2, <2>3 DEF WorkType
  <2> HIDE DEF u
  <2>6. ToStorage(u, "VID_CYCLIC_REQ") \in WorkType
    BY <2>5, ToStorageIs DEF StIds
  <2> QED
    BY <1>3, <1>5, <2>4, <2>6, Sending, <1>0, HandlerTypes DEF CyclicVideoRecord
<1>6. CASE PackerWriteError \/ PowerKeyActive
  <2>1. PICK id \in {"WRITE_ERROR", "POWER_KEY_ACTIVE"}, w \in WorkType :
          Take(id, <<>>) /\ Commit(w)
    BY <1>1, <1>2, <1>6 DEF PackerWriteError, PowerKeyActive
  <2> QED
    BY <1>3, <1>6, <2>1, Sending, <1>0, HandlerTypes DEF PackerWriteError, PowerKeyActive
<1>7. CASE PackerGroupEnd
  <2>1. PICK w \in WorkType : Commit(w)
    BY <1>1, <1>2, <1>7 DEF PackerGroupEnd
  <2> QED
    BY <1>3, <1>7, <2>1, Sending, <1>0, HandlerTypes DEF PackerGroupEnd
<1> QED
  BY <1>4, <1>5, <1>6, <1>7

(* The two replies: the work of VidReply and VidCyclicReply.               *)
LEMMA ReplyWorkIs ==
  ASSUME Types, NEW w, w = [Work EXCEPT !.sts = @ \ {"WAIT"}]
  PROVE  /\ w \in WorkType
         /\ w.sts = sts \ {"WAIT"} /\ w.cyc = cyc /\ w.enc = enc
         /\ w.timers = timers /\ w.open = open /\ w.stq = stq
<1>1. /\ Work \in WorkType
      /\ Work.sts = sts /\ Work.cyc = cyc /\ Work.enc = enc
      /\ Work.timers = timers /\ Work.open = open /\ Work.stq = stq
  BY WorkIs
<1> DEFINE flags == sts \ {"WAIT"}
<1>2. flags \in SUBSET {"UNMOUNT", "BUSY", "WAIT"}
  BY DEF Types, DataTypes
<1>3. w = [Work EXCEPT !.sts = flags]
  BY <1>1
<1> HIDE DEF flags
<1> QED
  BY <1>1, <1>2, <1>3 DEF WorkType, flags

LEMMA ReplyTypesStep ==
  ASSUME Types, VidReply \/ VidCyclicReply
  PROVE  Types'
<1> DEFINE f == Head(apq).file
           w == [Work EXCEPT !.sts = @ \ {"WAIT"}]
<1>1. w \in WorkType
  BY ReplyWorkIs
<1>2. PICK id \in {"VID_REPLY", "VID_CYCLIC_REPLY"} : Take(id, <<>>)
  BY DEF VidReply, VidCyclicReply
<1>3. f \in Files \cup {NoFile}
  BY <1>2, TakeIs, Sending DEF Types, QueueTypes, ApMsgs
<1>4. /\ perq' \in {perq, Append(perq, "CARD_NO_SPACE")}
      /\ curr' \in {curr, f}
      /\ UNCHANGED <<unheard, mountedOver>>
  BY DEF VidReply, VidCyclicReply
<1>0. derailed' \in BOOLEAN /\ mountedOver' \in BOOLEAN
  <2>1. derailed \in BOOLEAN /\ mountedOver \in BOOLEAN
    BY DEF Types, DataTypes
  <2> QED
    BY <2>1 DEF VidReply, VidCyclicReply, Derails
<1>5. perq' \in Seq(LedIds) /\ curr' \in Files \cup {NoFile, 0}
  <2> HIDE DEF f
  <2>1. perq \in Seq(LedIds) /\ "CARD_NO_SPACE" \in LedIds /\ curr \in Files \cup {NoFile, 0}
    BY DEF Types, QueueTypes, DataTypes, LedIds
  <2> QED
    BY <1>3, <1>4, <2>1
<1>6. \/ f # NoFile /\ Commit(SetCycleTimer(Started(w, f)))
      \/ f # NoFile /\ Commit(Started(w, f))
      \/ f # NoFile /\ \E v \in NotStarted(w, f) : Commit(GiveUp(v, f))
      \/ Commit(GiveUp(w, f))
      \/ Commit(w)
  BY DEF VidReply, VidCyclicReply
<1> HIDE DEF w, f
<1>7. \E v \in WorkType : Commit(v)
  BY <1>1, <1>3, <1>6, StartedIs, SetIs, NotStartedIs, GiveUpIs
<1> QED
  BY <1>0, <1>2, <1>5, <1>4, <1>7, Sending, HandlerTypes

LEMMA StateTypesStep ==
  ASSUME Types,
         \/ StorageNews("MOUNT") \/ StorageNews("NO_STORAGE") \/ GoToPreview \/ GoToRecord
         \/ CaptureActive \/ PicReply \/ PicDone \/ DropMessage
  PROVE  Types'
<1>1. PICK sent \in Selves : \E id : Take(id, sent)
  <2>1. \/ \E id : Take(id, <<>>)
        \/ \E id : Take(id, <<Message("RECORD_ACTIVE")>>)
        \/ \E id : Take(id, <<Message("CAPTURE_ACTIVE")>>)
    <3> HIDE DEF Take
    <3> QED
      BY DEF StorageNews, GoToPreview, GoToRecord, CaptureActive, PicReply, PicDone,
             DropMessage
  <2> QED
    BY <2>1, Sending
<1>2. apq' \in Seq(ApMsgs) /\ Head(apq) \in ApMsgs
  BY <1>1, TakeIs DEF Types, QueueTypes
<1> USE DEF Types, QueueTypes, DataTypes
<1>3. CASE StorageNews("MOUNT") \/ StorageNews("NO_STORAGE")
  <2>1. /\ sts' \subseteq {"UNMOUNT", "BUSY", "WAIT"}
        /\ psts' \subseteq {"UNMOUNT", "BUSY"}
        /\ mounted' \in BOOLEAN
    BY <1>3 DEF StorageNews
  <2> QED
    BY <1>2, <1>3, <2>1 DEF StorageNews, countVars, outside, history
<1>4. CASE GoToPreview
  <2>1. CASE Commit(Work) /\ UNCHANGED <<state, psts>>
    BY <1>2, <1>4, <2>1, WorkIs, CommitTypes DEF GoToPreview, countVars, outside, history
  <2>2. CASE /\ Commit([KillCycleTimer(Work) EXCEPT !.sts = {}])
             /\ state' = "preview"
             /\ psts' = IF mounted THEN {} ELSE {"UNMOUNT"}
    <3> DEFINE w == KillCycleTimer(Work)
               v == [w EXCEPT !.sts = {}]
    <3>1. w \in WorkType
      BY WorkIs, KillIs
    <3> HIDE DEF w
    <3>2. v \in WorkType
      BY <3>1 DEF WorkType
    <3>3. Commit(v)
      BY <2>2 DEF w
    <3> HIDE DEF v
    <3>4. /\ sts' \subseteq {"UNMOUNT", "BUSY", "WAIT"}
          /\ cyc' \in {0, VIDEO_RECORD_CYCLE_TIMER_ID, NO_TIMER} /\ enc' \in EncType
          /\ timers' \subseteq {POWER_OFF_TIMER_ID, VIDEO_RECORD_CYCLE_TIMER_ID}
          /\ open' \subseteq Files /\ stq' \in Seq(StIds)
      BY <3>2, <3>3, CommitTypes
    <3>5. state' \in {"record", "preview"} /\ psts' \subseteq {"UNMOUNT", "BUSY"}
      BY <2>2
    <3>6. UNCHANGED <<curr, perq, mounted, picDown, capturing, latched, full,
                      keys, upsets, card, moves, mountTimer, phase, storage, missed,
                      searching, mountedOver, derailed, unasked>>
      BY <1>4 DEF GoToPreview, countVars, outside, history
    <3> QED
      BY <1>2, <3>4, <3>5, <3>6
  <2> QED
    BY <1>4, <2>1, <2>2 DEF GoToPreview
<1>5. CASE GoToRecord
  <2>1. /\ state' \in {"record", "preview"} /\ psts' \subseteq {"UNMOUNT", "BUSY"}
        /\ sts' \subseteq {"UNMOUNT", "BUSY", "WAIT"}
        /\ cyc' \in {0, VIDEO_RECORD_CYCLE_TIMER_ID, NO_TIMER}
    BY <1>5 DEF GoToRecord
  <2> QED
    BY <1>2, <1>5, <2>1 DEF GoToRecord, countVars, outside, history
<1>6. CASE CaptureActive
  <2>1. stq' \in Seq(StIds)
    <3>1. Append(stq, "PIC_REQ") \in Seq(StIds)
      BY HoldsAppend DEF StIds
    <3> QED
      BY <1>6, <3>1 DEF CaptureActive
  <2>2. psts' \subseteq {"UNMOUNT", "BUSY"} /\ picDown' \in BOOLEAN /\ unasked' \in BOOLEAN
    BY <1>6 DEF CaptureActive
  <2> QED
    BY <1>2, <1>6, <2>1, <2>2 DEF CaptureActive, recordOnly, countVars, outside, history
<1>7. CASE PicReply
  <2> DEFINE f == Head(apq).file
  <2>1. f \in Files \cup {NoFile}
    BY <1>2 DEF ApMsgs
  <2> HIDE DEF f
  <2>2. UNCHANGED <<state, sts, psts, recordOnly, unasked>>
    BY <1>7 DEF PicReply
  <2>3. CASE /\ enc' = [enc EXCEPT !.file = f]
             /\ capturing' = TRUE
             /\ UNCHANGED <<stq, perq, open, picDown>>
    <3>1. enc' \in EncType
      BY <2>1, <2>3 DEF EncType
    <3> QED
      BY <1>2, <2>2, <2>3, <3>1 DEF recordOnly, countVars, outside, history
  <2>4. CASE /\ open' = open \ {f}
             /\ stq' = Append(stq, "TIMER_START")
             /\ perq' = Append(perq, IF f = NoFile THEN "CAPTURE_FAIL" ELSE "CARD_NO_SPACE")
             /\ picDown' = FALSE
             /\ UNCHANGED <<enc, capturing>>
    <3>1. stq' \in Seq(StIds)
      BY <2>4, HoldsAppend DEF StIds
    <3>2. perq' \in Seq(LedIds) /\ open' \subseteq Files /\ picDown' \in BOOLEAN
      <4>1. \A led \in LedIds : Append(perq, led) \in Seq(LedIds)
        OBVIOUS
      <4>2. (IF f = NoFile THEN "CAPTURE_FAIL" ELSE "CARD_NO_SPACE") \in LedIds
        BY DEF LedIds
      <4> QED
        BY <2>4, <4>1, <4>2
    <3> QED
      BY <1>2, <2>2, <2>4, <3>1, <3>2 DEF recordOnly, countVars, outside, history
  <2> QED
    BY <1>7, <2>3, <2>4 DEF PicReply, f
<1>8. CASE PicDone
  <2>1. stq' \in Seq(StIds)
    BY <1>8, HoldsAppend DEF PicDone, StIds
  <2>2. psts' \subseteq {"UNMOUNT", "BUSY"} /\ picDown' \in BOOLEAN /\ perq' \in Seq(LedIds)
    <3>1. Append(perq, "WAITING_CAPTURE") \in Seq(LedIds)
      BY DEF LedIds
    <3> QED
      BY <1>8, <3>1 DEF PicDone
  <2> QED
    BY <1>2, <1>8, <2>1, <2>2 DEF PicDone, recordOnly, countVars, outside, history
<1>9. CASE DropMessage
  BY <1>2, <1>9 DEF DropMessage, apVars, countVars, outside, history
<1> QED
  BY <1>3, <1>4, <1>5, <1>6, <1>7, <1>8, <1>9

LEMMA OthersTypesStep ==
  ASSUME Types,
         \/ PeripheralTask
         \/ \E long \in BOOLEAN : VideoKey(long)
         \/ TimerTick(VIDEO_RECORD_CYCLE_TIMER_ID, "CYCLIC_VIDEO_RECORD", CycleWork)
         \/ TimerTick(POWER_OFF_TIMER_ID, "POWER_KEY_ACTIVE", {"POWER_KEY_ACTIVE"})
         \/ \E id \in {"WRITE_ERROR", "GROUP_END"} : PackerError(id)
         \/ CapturePicture
  PROVE  Types'
<1>1. \A id \in {"RECORD_ACTIVE", "CAPTURE_ACTIVE", "PIC_DONE", "CYCLIC_VIDEO_RECORD",
                 "POWER_KEY_ACTIVE", "WRITE_ERROR", "GROUP_END"} :
        Append(apq, Message(id)) \in Seq(ApMsgs)
  BY MessagesTyped, TellsAppend DEF Types, QueueTypes
<1> USE DEF Types, QueueTypes, DataTypes
<1>2. CASE LedSet
  <2>1. perq' \in Seq(LedIds) /\ full' \in BOOLEAN
    BY <1>2 DEF LedSet
  <2>2. apq' \in Seq(ApMsgs)
    BY <1>1, <1>2 DEF LedSet
  <2> QED
    BY <1>2, <2>1, <2>2 DEF LedSet, apSide, apVars, outside, history
<1>3. CASE LedFlashSet
  <2>1. perq' \in Seq(LedIds)
    BY <1>3 DEF LedFlashSet
  <2>2. apq' \in Seq(ApMsgs) /\ latched' \in BOOLEAN
        /\ timers' \subseteq {POWER_OFF_TIMER_ID, VIDEO_RECORD_CYCLE_TIMER_ID}
    BY <1>1, <1>3 DEF LedFlashSet
  <2> QED
    BY <1>3, <2>1, <2>2 DEF LedFlashSet, apSide, apVars, outside, history
<1>4. ASSUME NEW long \in BOOLEAN, VideoKey(long) PROVE Types'
  <2>1. apq' \in Seq(ApMsgs)
    BY <1>1, <1>4 DEF VideoKey
  <2>2. keys' \in 0 .. MaxKeys
    BY <1>4, RecorderAssumption DEF VideoKey
  <2> QED
    BY <1>4, <2>1, <2>2 DEF VideoKey, apSide, apVars, outside, history
<1>5. ASSUME NEW id \in {"CYCLIC_VIDEO_RECORD", "POWER_KEY_ACTIVE", "WRITE_ERROR", "GROUP_END"},
             Interrupt(id), upsets' \in 0 .. MaxUpsets
      PROVE  Types'
  <2>1. apq' \in Seq(ApMsgs)
    BY <1>1, <1>5 DEF Interrupt
  <2> QED
    BY <1>5, <2>1 DEF Interrupt, apVars, outside, history
<1>6. CASE CapturePicture
  <2>1. apq' \in Seq(ApMsgs)
    BY <1>1, <1>6 DEF CapturePicture
  <2>2. open' \subseteq Files /\ capturing' \in BOOLEAN
    BY <1>6 DEF CapturePicture
  <2> QED
    BY <1>6, <2>1, <2>2 DEF CapturePicture, apVars, countVars, outside, history
<1>7. CASE \/ TimerTick(VIDEO_RECORD_CYCLE_TIMER_ID, "CYCLIC_VIDEO_RECORD", CycleWork)
           \/ TimerTick(POWER_OFF_TIMER_ID, "POWER_KEY_ACTIVE", {"POWER_KEY_ACTIVE"})
  BY <1>5, <1>7 DEF TimerTick
<1>8. ASSUME NEW id \in {"WRITE_ERROR", "GROUP_END"}, PackerError(id) PROVE Types'
  <2>1. upsets' \in 0 .. MaxUpsets
    BY <1>8, RecorderAssumption DEF PackerError
  <2> QED
    BY <1>5, <1>8, <2>1 DEF PackerError
<1> QED
  BY <1>2, <1>3, <1>4, <1>6, <1>7, <1>8 DEF PeripheralTask

LEMMA TypesStep ==
  ASSUME Types, [Next]_vars
  PROVE  Types'
<1>1. CASE UNCHANGED vars
  BY <1>1 DEF vars, apVars, countVars, outside, history, Types, QueueTypes, DataTypes
<1>2. CASE Next
  BY <1>2, StorageTypesStep, RecordTypesStep, ReplyTypesStep, StateTypesStep, OthersTypesStep
     DEF Next, StateHandlingTask
<1> QED
  BY <1>1, <1>2

LEMMA InitTypes ==
  ASSUME NEW inserted \in BOOLEAN, PowerOn(inserted)
  PROVE  Types
<1>1. QueueTypes
  BY DEF PowerOn, StorageInit, QueueTypes
<1>2. 0 \in 0 .. MaxCardMoves /\ 0 \in 0 .. MaxKeys /\ 0 \in 0 .. MaxUpsets
  BY FilesAssumption, RecorderAssumption
<1>4. /\ mountTimer \in BOOLEAN /\ phase \in BOOLEAN /\ storage \in {"none", "card"}
      /\ missed \in BOOLEAN /\ full \in BOOLEAN /\ card \in BOOLEAN
      /\ moves \in 0 .. MaxCardMoves /\ open \subseteq Files
      /\ searching \in BOOLEAN /\ mountedOver \in BOOLEAN
  BY <1>2 DEF PowerOn, StorageInit
<1>5. enc \in EncType
  BY DEF PowerOn, Idle, EncType
<1>6. /\ state \in {"record", "preview"}
      /\ sts \subseteq {"UNMOUNT", "BUSY", "WAIT"} /\ psts \subseteq {"UNMOUNT", "BUSY"}
      /\ cyc \in {0, VIDEO_RECORD_CYCLE_TIMER_ID, NO_TIMER}
      /\ curr \in Files \cup {NoFile, 0} /\ mounted \in BOOLEAN /\ picDown \in BOOLEAN
  BY DEF PowerOn
<1>7. /\ capturing \in BOOLEAN /\ latched \in BOOLEAN
      /\ timers \subseteq {POWER_OFF_TIMER_ID, VIDEO_RECORD_CYCLE_TIMER_ID}
      /\ keys \in 0 .. MaxKeys /\ upsets \in 0 .. MaxUpsets
      /\ derailed \in BOOLEAN /\ unasked \in BOOLEAN
  BY <1>2 DEF PowerOn
<1> QED
  BY <1>1, <1>4, <1>5, <1>6, <1>7 DEF Types, DataTypes

(* Every variable of the recorder keeps its type, whatever goes wrong: a   *)
(* reply's file is a handle or the negative handle, and only a reply has   *)
(* one.                                                                    *)
THEOREM RecorderTypeOK == Spec => []TypeOK
<1>1. Init => Types
  BY InitTypes DEF Init
<1>2. Types /\ [Next]_vars => Types'
  BY TypesStep
<1>3. Types => TypeOK
  <2> SUFFICES ASSUME Types PROVE TypeOK
    OBVIOUS
  <2>1. \A i \in DOMAIN apq : apq[i] \in ApMsgs
    BY DEF Types, QueueTypes
  <2>2. \A i \in DOMAIN apq :
          /\ apq[i].id \in ApIds /\ apq[i].file \in Files \cup {NoFile}
          /\ apq[i].file # NoFile => apq[i].id \in ReplyIds
          /\ apq[i].room \in BOOLEAN
    BY <2>1 DEF ApMsgs
  <2> QED
    BY <2>2 DEF Types, QueueTypes, DataTypes, StIds, EncType, TypeOK, StorageTypeOK
<1> QED
  BY <1>1, <1>2, <1>3, PTL DEF Spec
-----------------------------------------------------------------------------
(* Where the file is: the steps that leave it where it is.                 *)

LEMMA Kept ==
  ASSUME RecInv,
         RequestLast(stq'), \A x \in StIds \ {"STORAGE_CHECK"} : Holds(stq', x) <=> Holds(stq, x),
         OneAnswer(apq'), AnswersWith(apq', open),
         \A x \in AnswerIds : Tells(apq', x) <=> Tells(apq, x),
         Ticked' => cyc # 0,
         Busy' <=> Busy, Waits' <=> Waits, state = "preview" => sts' = {},
         "BUSY" \in psts => "BUSY" \in psts',
         VIDEO_RECORD_CYCLE_TIMER_ID \in timers' <=> VIDEO_RECORD_CYCLE_TIMER_ID \in timers,
         UNCHANGED <<state, cyc, enc, capturing, mountTimer, mountedOver, open>>
  PROVE  RecInv'
<1>1. /\ Holds(stq', "TIMER_START") <=> Holds(stq, "TIMER_START")
      /\ Holds(stq', "VID_REQ") <=> Holds(stq, "VID_REQ")
      /\ Holds(stq', "VID_CYCLIC_REQ") <=> Holds(stq, "VID_CYCLIC_REQ")
      /\ Holds(stq', "PIC_REQ") <=> Holds(stq, "PIC_REQ")
  BY DEF StIds
<1>2. /\ Tells(apq', "VID_REPLY") <=> Tells(apq, "VID_REPLY")
      /\ Tells(apq', "VID_CYCLIC_REPLY") <=> Tells(apq, "VID_CYCLIC_REPLY")
      /\ Tells(apq', "PIC_REPLY") <=> Tells(apq, "PIC_REPLY")
      /\ Tells(apq', "PIC_DONE") <=> Tells(apq, "PIC_DONE")
  BY DEF AnswerIds, ReplyIds
<1>3. (Asks(stq') <=> Asks(stq)) /\ (Answers(apq') <=> Answers(apq))
  BY <1>1, <1>2 DEF Asks, Answers
<1> USE DEF RecInv, Requested, Answering, TimerAsked
<1>4. QueuesInv'
  BY <1>1, <1>2, <1>3 DEF QueuesInv
<1>5. WaitInv'
  BY <1>1, <1>2 DEF WaitInv
<1>6. FilesInv'
  BY <1>3 DEF FilesInv, Writes, Recording
<1>7. EncInv'
  BY DEF EncInv
<1>8. PollInv'
  BY <1>1, <1>3 DEF PollInv
<1>9. CycleInv'
  BY <1>1, <1>2 DEF CycleInv
<1> QED
  BY <1>4, <1>5, <1>6, <1>7, <1>8, <1>9

(* A message to the state-handling task that tells it of no file.          *)
LEMMA TellingKeeps ==
  ASSUME Types, RecInv, NEW m \in ApMsgs, apq' = Append(apq, m) \/ apq' = apq,
         m.id \notin AnswerIds, m.id = "CYCLIC_VIDEO_RECORD" => cyc # 0
  PROVE  /\ OneAnswer(apq') /\ AnswersWith(apq', open)
         /\ \A x \in AnswerIds : Tells(apq', x) <=> Tells(apq, x)
         /\ Ticked' => cyc # 0
<1>1. /\ OneAnswer(apq) /\ AnswersWith(apq, open) /\ apq \in Seq(ApMsgs)
      /\ Ticked => cyc # 0
  BY DEF RecInv, QueuesInv, FilesInv, CycleInv, Types, QueueTypes
<1>2. CASE apq' = apq
  BY <1>1, <1>2 DEF Ticked
<1>3. CASE apq' = Append(apq, m)
  BY <1>1, <1>3, TellsAppend DEF Ticked
<1> QED
  BY <1>2, <1>3

(* A message that is handled and told of no file.                          *)
LEMMA TakingKeeps ==
  ASSUME Types, RecInv, NEW id, NEW sent \in Selves, Take(id, sent), id \notin AnswerIds
  PROVE  /\ OneAnswer(apq') /\ AnswersWith(apq', open)
         /\ \A x \in AnswerIds : Tells(apq', x) <=> Tells(apq, x)
         /\ Ticked' => cyc # 0
<1>1. /\ OneAnswer(apq) /\ AnswersWith(apq, open) /\ apq \in Seq(ApMsgs)
      /\ Ticked => cyc # 0
  BY DEF RecInv, QueuesInv, FilesInv, CycleInv, Types, QueueTypes
<1>2. {"RECORD_ACTIVE", "CAPTURE_ACTIVE"} \cap AnswerIds = {}
  BY DEF AnswerIds, ReplyIds
<1>3. Ticked' => Ticked
  BY <1>1, TakeIs DEF Ticked
<1> QED
  BY <1>1, <1>2, <1>3, TakeIs

LEMMA StqKeeps ==
  ASSUME RecInv, stq' = stq
  PROVE  RequestLast(stq') /\ \A x : Holds(stq', x) <=> Holds(stq, x)
  BY DEF RecInv, QueuesInv

(* The mount timer, the card, and the look for the card: while a file may  *)
(* be open the timer is stopped, and an old tick changes nothing.          *)
LEMMA PollingStep ==
  ASSUME Types, RecInv, MountTick \/ StorageCheck \/ MoveCard, UNCHANGED otherTasks
  PROVE  RecInv'
<1>1. stq \in Seq(StIds) /\ RequestLast(stq) /\ mountTimer \in BOOLEAN
  BY DEF Types, QueueTypes, DataTypes, RecInv, QueuesInv
<1>2. RequestLast(stq') /\ \A x \in StIds \ {"STORAGE_CHECK"} : Holds(stq', x) <=> Holds(stq, x)
  <2>1. CASE MountTick
    BY <1>1, <2>1, HoldsAppend DEF MountTick, StIds
  <2>2. CASE StorageCheck
    BY <1>1, <2>2, HoldsTail DEF StorageCheck, StorageReceive
  <2>3. CASE MoveCard
    BY <1>1, <2>3 DEF MoveCard
  <2> QED
    BY <2>1, <2>2, <2>3
<1>3. UNCHANGED <<open, mountTimer, mountedOver>>
  <2>1. mountTimer => open = {}
    BY DEF RecInv, PollInv
  <2> QED
    BY <1>1, <2>1 DEF MountTick, StorageCheck, StorageMount, MountCard, MoveCard, storageVars,
                      cardVars, RecInv, PollInv, Types, DataTypes
<1>4. PICK m \in ApMsgs : /\ apq' = Append(apq, m) \/ apq' = apq
                          /\ m.id \notin AnswerIds /\ m.id # "CYCLIC_VIDEO_RECORD"
  <2>1. /\ Message("MOUNT") \in ApMsgs /\ Message("NO_STORAGE") \in ApMsgs
        /\ Message("MOUNT").id \notin AnswerIds \cup {"CYCLIC_VIDEO_RECORD"}
        /\ Message("NO_STORAGE").id \notin AnswerIds \cup {"CYCLIC_VIDEO_RECORD"}
    BY MessagesTyped DEF Message, AnswerIds, ReplyIds
  <2>2. \/ apq' = apq
        \/ apq' = Append(apq, Message("MOUNT")) \/ apq' = Append(apq, Message("NO_STORAGE"))
    BY DEF MountTick, StorageCheck, StorageMount, MoveCard
  <2> QED
    BY <2>1, <2>2
<1>5. UNCHANGED <<state, sts, psts, cyc, enc, capturing, timers>>
  BY DEF otherTasks, apVars
<1>6. state = "preview" => sts = {}
  BY DEF RecInv, WaitInv
<1> QED
  BY <1>2, <1>3, <1>4, <1>5, <1>6, TellingKeeps, Kept DEF Busy, Waits

(* The card is moved or mounted while a state sees its flag.               *)
LEMMA NewsStep ==
  ASSUME Types, RecInv, NEW id \in {"MOUNT", "NO_STORAGE"}, StorageNews(id)
  PROVE  RecInv'
<1>1. id \notin AnswerIds
  BY DEF AnswerIds, ReplyIds
<1>2. Take(id, <<>>)
  BY DEF StorageNews
<1>3. /\ (Busy' <=> Busy) /\ (Waits' <=> Waits)
      /\ "BUSY" \in psts => "BUSY" \in psts'
  BY DEF StorageNews, Busy, Waits
<1>4. state = "preview" => sts' = {}
  BY DEF StorageNews, RecInv, WaitInv
<1>5. UNCHANGED <<stq, state, cyc, enc, capturing, mountTimer, mountedOver, open, timers>>
  BY DEF StorageNews, outside, history
<1> QED
  BY <1>1, <1>2, <1>3, <1>4, <1>5, Sending, TakingKeeps, StqKeeps, Kept

(* A file is opened only when none is open, and its answer is the only one. *)
LEMMA FileOpenStep ==
  ASSUME Types, RecInv, UNCHANGED otherTasks,
         NEW request \in RequestIds, NEW reply \in ReplyIds, FileOpen(request, reply),
         <<request, reply>> \in {<<"VID_REQ", "VID_REPLY">>, <<"PIC_REQ", "PIC_REPLY">>,
                                 <<"VID_CYCLIC_REQ", "VID_CYCLIC_REPLY">>}
  PROVE  RecInv'
<1>1. /\ stq \in Seq(StIds) /\ stq # <<>> /\ apq \in Seq(ApMsgs)
      /\ Head(stq) = request /\ stq' = Tail(stq)
  BY DEF Types, QueueTypes, FileOpen, StorageReceive
<1>2. PICK f \in OpenResults, room \in BOOLEAN :
        /\ open' = open \cup ({f} \ {NoFile})
        /\ apq' = Append(apq, Reply(reply, f, room \/ f = NoFile))
  BY DEF FileOpen
<1> DEFINE m == Reply(reply, f, room \/ f = NoFile)
<1>3. m \in ApMsgs /\ m.id = reply /\ m.file = f
  <2>1. f \in Files \cup {NoFile}
    BY DEF OpenResults
  <2> QED
    BY <2>1, MessagesTyped DEF Reply
<1> HIDE DEF m
<1>4. /\ \A x : Holds(stq, x) <=> Holds(stq', x) \/ request = x
      /\ RequestLast(stq') /\ ~ Asks(stq') /\ ~ Holds(stq', "TIMER_START")
  BY <1>1, HoldsTail DEF RecInv, QueuesInv
<1>5. Requested /\ open = {} /\ ~ Answering /\ ~ capturing
  <2>1. Requested
    BY <1>4 DEF Requested, Asks, RequestIds
  <2> QED
    BY <2>1 DEF RecInv, QueuesInv, FilesInv
<1>6. /\ \A x : Tells(apq', x) <=> Tells(apq, x) \/ reply = x
      /\ OneAnswer(apq') /\ AnswersWith(apq', {f} \ {NoFile})
  <2>1. OneAnswer(apq) /\ AnswersWith(apq, {f} \ {NoFile})
    BY <1>5, Questions DEF Answering
  <2>2. ~ Answers(apq)
    BY <1>5 DEF Answering
  <2> QED
    BY <1>1, <1>2, <1>3, <2>1, <2>2, TellsAppend DEF m
<1>7. open' = {f} \ {NoFile}
  BY <1>2, <1>5
<1>8. /\ mountTimer' = FALSE
      /\ UNCHANGED <<state, sts, psts, cyc, enc, capturing, timers, mountedOver>>
  BY DEF FileOpen, otherTasks, apVars
<1>9. Answers(apq') /\ (Ticked' => Ticked)
  BY <1>6 DEF Answers, ReplyIds, Ticked
<1> USE DEF Requested, Answering, TimerAsked
<1>10. QueuesInv'
  BY <1>4, <1>5, <1>6, <1>8, <1>9 DEF QueuesInv
<1>11. WaitInv'
  <2>1. WaitInv
    BY DEF RecInv
  <2> QED
    BY <1>4, <1>5, <1>6, <1>8, <2>1 DEF WaitInv, Busy, Waits, Asks, Answers
<1>12. FilesInv'
  BY <1>4, <1>5, <1>6, <1>7, <1>8, <1>9 DEF FilesInv
<1>13. EncInv'
  BY <1>8 DEF RecInv, EncInv, Busy, Waits
<1>14. PollInv'
  BY <1>4, <1>8, <1>9 DEF PollInv, RecInv
<1>15. CycleInv'
  <2>1. CycleInv
    BY DEF RecInv
  <2> QED
    BY <1>4, <1>5, <1>6, <1>8, <1>9, <2>1 DEF CycleInv, Busy, Waits, Asks, Answers
<1> QED
  BY <1>10, <1>11, <1>12, <1>13, <1>14, <1>15 DEF RecInv

(* Polling begins again only when no file is open or on its way.           *)
LEMMA TimerStartStep ==
  ASSUME Types, RecInv, UNCHANGED otherTasks, TimerStart
  PROVE  RecInv'
<1>1. /\ stq \in Seq(StIds) /\ stq # <<>> /\ Head(stq) = "TIMER_START" /\ stq' = Tail(stq)
  BY DEF Types, QueueTypes, TimerStart, StorageReceive
<1>2. /\ \A x : Holds(stq, x) <=> Holds(stq', x) \/ "TIMER_START" = x
      /\ RequestLast(stq')
  BY <1>1, HoldsTail DEF RecInv, QueuesInv
<1>3. Asks(stq') <=> Asks(stq)
  BY <1>2 DEF Asks
<1>4. ~ Answering /\ ~ capturing /\ open = {}
  BY <1>2 DEF RecInv, PollInv, TimerAsked
<1>5. mountTimer' = TRUE
      /\ UNCHANGED <<apq, open, state, sts, psts, cyc, enc, capturing, timers, mountedOver>>
  BY DEF TimerStart, otherTasks, apVars
<1> USE DEF RecInv, Requested, Answering, TimerAsked, Busy, Waits, Ticked
<1>6. QueuesInv'
  BY <1>2, <1>3, <1>5 DEF QueuesInv
<1>7. WaitInv'
  BY <1>2, <1>5 DEF WaitInv
<1>8. FilesInv'
  BY <1>3, <1>4, <1>5 DEF FilesInv
<1>9. EncInv'
  BY <1>5 DEF EncInv
<1>10. PollInv'
  BY <1>4, <1>5 DEF PollInv
<1>11. CycleInv'
  BY <1>2, <1>5 DEF CycleInv
<1> QED
  BY <1>6, <1>7, <1>8, <1>9, <1>10, <1>11

(* The search begins with the request for the next file, when none is open. *)
LEMMA CyclicSearchStep ==
  ASSUME Types, RecInv, CyclicSearch, UNCHANGED otherTasks
  PROVE  Sound'
<1>1. Holds(stq, "VID_CYCLIC_REQ")
  <2>1. stq \in Seq(StIds) /\ stq # <<>> /\ Head(stq) = "VID_CYCLIC_REQ"
    BY DEF CyclicSearch, StorageReceive, Types, QueueTypes
  <2> QED
    BY <2>1, HoldsTail
<1>2. Requested /\ ~ Answering /\ ~ capturing /\ open = {}
  BY <1>1 DEF Requested, Asks, RecInv, QueuesInv, FilesInv
<1>3. Busy /\ Waits /\ state = "record"
  BY <1>1 DEF RecInv, WaitInv, Busy, Waits, Types, DataTypes
<1>4. (enc.started => enc.refused) /\ ~ mountedOver
  BY <1>3 DEF RecInv, EncInv, PollInv
<1>5. /\ searching' = TRUE /\ mountTimer' = FALSE
      /\ UNCHANGED <<apq, open, mountedOver, state, sts, enc, capturing>>
  BY DEF CyclicSearch, otherTasks, apVars
<1> QED
  BY <1>2, <1>3, <1>4, <1>5 DEF Sound, SearchInv, Answering, Busy, Waits

LEMMA StorageTaskStep ==
  ASSUME Types, RecInv, ~ searching, StorageTask, UNCHANGED otherTasks
  PROVE  Sound'
<1>1. /\ {"VID_REQ", "VID_CYCLIC_REQ", "PIC_REQ"} \subseteq RequestIds
      /\ {"VID_REPLY", "VID_CYCLIC_REPLY", "PIC_REPLY"} \subseteq ReplyIds
  BY DEF RequestIds, ReplyIds
<1>2. ASSUME NEW request \in RequestIds, NEW reply \in ReplyIds, FileOpen(request, reply),
             <<request, reply>> \in {<<"VID_REQ", "VID_REPLY">>, <<"PIC_REQ", "PIC_REPLY">>,
                                     <<"VID_CYCLIC_REQ", "VID_CYCLIC_REPLY">>}
      PROVE  Sound'
  BY <1>2, FileOpenStep DEF Sound, FileOpen
<1>3. CASE FileOpen("VID_REQ", "VID_REPLY") \/ FileOpen("PIC_REQ", "PIC_REPLY")
  BY <1>1, <1>2, <1>3
<1>4. CASE CyclicFileOpen
  BY <1>1, <1>2, <1>4, CyclicSearchStep DEF CyclicFileOpen
<1>5. CASE StorageCheck \/ TimerStart
  <2>1. RecInv'
    BY <1>5, PollingStep, TimerStartStep
  <2>2. ~ searching'
    BY <1>5 DEF StorageCheck, TimerStart
  <2> QED
    BY <2>1, <2>2 DEF Sound
<1> QED
  BY <1>3, <1>4, <1>5 DEF StorageTask
-----------------------------------------------------------------------------
(* The record state's handlers: what their work is like when no request    *)
(* and no answer is under way, and when a request has been made.           *)

Calm(w) ==
  /\ Tidy(w) /\ RequestLast(w.stq) /\ ~ Asks(w.stq)
  /\ "WAIT" \notin w.sts
  /\ w.open # {} => /\ "BUSY" \in w.sts /\ w.enc.started
                    /\ ~ mountTimer /\ ~ Holds(w.stq, "TIMER_START")
  /\ w.enc.started /\ ~ w.enc.refused => "BUSY" \in w.sts
  /\ ~ mountTimer => "BUSY" \in w.sts \/ Holds(w.stq, "TIMER_START")
  /\ w.cyc = VIDEO_RECORD_CYCLE_TIMER_ID => "BUSY" \in w.sts
  /\ "BUSY" \in w.sts => w.cyc \in {0, VIDEO_RECORD_CYCLE_TIMER_ID}
  /\ Ticked => w.cyc # 0

Asked(w) ==
  /\ RequestLast(w.stq) /\ w.open = {} /\ {"BUSY", "WAIT"} \subseteq w.sts
  /\ ~ Holds(w.stq, "PIC_REQ")
  /\ Holds(w.stq, "VID_REQ") \/ Holds(w.stq, "VID_CYCLIC_REQ")
  /\ Holds(w.stq, "VID_REQ") => w.cyc # VIDEO_RECORD_CYCLE_TIMER_ID
  /\ Holds(w.stq, "VID_CYCLIC_REQ") => w.cyc = VIDEO_RECORD_CYCLE_TIMER_ID
  /\ w.enc.into # NoFile => w.enc.packer0
  /\ w.enc.started => w.enc.refused
  /\ VIDEO_RECORD_CYCLE_TIMER_ID \in w.timers <=> w.cyc = VIDEO_RECORD_CYCLE_TIMER_ID
  /\ Ticked => w.cyc # 0

(* The record state is calm whenever it does not wait.                     *)
LEMMA WorkCalm ==
  ASSUME Types, RecInv, state = "record", ~ Waits
  PROVE  Work \in WorkType /\ Calm(Work) /\ ~ Answering /\ ~ capturing
<1>1. ~ Requested /\ ~ Answering /\ ~ capturing
  BY DEF RecInv, WaitInv, Requested, Asks, Answering, Answers
<1>2. open = {} \/ Writes
  BY <1>1 DEF RecInv, FilesInv
<1>3. Tidy(Work)
  BY <1>2, WorkIs DEF RecInv, EncInv, CycleInv, Tidy, Writes, Recording
<1>4. open # {} => Busy /\ enc.started /\ ~ mountTimer /\ ~ TimerAsked
  BY <1>2 DEF RecInv, PollInv, Writes, Recording
<1>5. /\ enc.started /\ ~ enc.refused => Busy
      /\ ~ mountTimer => Busy \/ TimerAsked
      /\ cyc = VIDEO_RECORD_CYCLE_TIMER_ID => Busy
      /\ Busy => cyc \in {0, VIDEO_RECORD_CYCLE_TIMER_ID}
      /\ Ticked => cyc # 0
  BY <1>1 DEF RecInv, EncInv, PollInv, CycleInv
<1>6. RequestLast(stq)
  BY DEF RecInv, QueuesInv
<1> QED
  BY <1>1, <1>3, <1>4, <1>5, <1>6, WorkIs DEF Calm, Busy, Waits, TimerAsked, Requested

(* The key keeps calm, or asks.                                            *)
LEMMA FuncKeyCalm ==
  ASSUME NEW w \in WorkType, Calm(w), NEW v \in FuncKeyActive(w)
  PROVE  /\ v \in WorkType /\ (Calm(v) \/ Asked(v))
         /\ "BUSY" \in w.sts => Calm(v) /\ v.open = {}
<1>1. /\ w.stq \in Seq(StIds) /\ "TIMER_START" \in StIds /\ "VID_REQ" \in StIds
  BY DEF WorkType, StIds
<1> DEFINE s == Append(w.stq, "TIMER_START")
           t == Append(w.stq, "VID_REQ")
<1>2. /\ RequestLast(s) /\ RequestLast(t)
      /\ \A id : Holds(s, id) <=> Holds(w.stq, id) \/ "TIMER_START" = id
      /\ \A id : Holds(t, id) <=> Holds(w.stq, id) \/ "VID_REQ" = id
  BY <1>1, HoldsAppend DEF Calm
<1>3. ~ Asks(s) /\ Holds(s, "TIMER_START") /\ Holds(t, "VID_REQ")
      /\ ~ Holds(t, "VID_CYCLIC_REQ") /\ ~ Holds(t, "PIC_REQ")
  BY <1>2 DEF Calm, Asks
<1> HIDE DEF s, t
<1>4. Tidy(w)
  BY DEF Calm
<1>5. CASE /\ "BUSY" \in w.sts
           /\ v.sts = w.sts \ {"BUSY"} /\ v.stq = s
           /\ v.enc.started => v.enc.refused
           /\ v.cyc = NO_TIMER
           /\ v.open = {} /\ v.enc.into = NoFile
           /\ VIDEO_RECORD_CYCLE_TIMER_ID \notin v.timers
  <2>1. "WAIT" \notin v.sts /\ "BUSY" \notin v.sts
    BY <1>5 DEF Calm
  <2>2. Tidy(v)
    BY <1>5 DEF Tidy, NO_TIMER, VIDEO_RECORD_CYCLE_TIMER_ID
  <2>3. v.cyc # 0 /\ v.cyc # VIDEO_RECORD_CYCLE_TIMER_ID
    BY <1>5 DEF NO_TIMER, VIDEO_RECORD_CYCLE_TIMER_ID
  <2>4. Calm(v)
    BY <1>2, <1>3, <1>5, <2>1, <2>2, <2>3 DEF Calm
  <2> QED
    BY <1>5, <2>4, FuncKeyIs
<1>6. CASE /\ w.sts = {}
           /\ v.sts = {"BUSY", "WAIT"} /\ v.stq = t
           /\ v.open = w.open /\ v.enc = w.enc
           /\ v.cyc = w.cyc /\ v.timers = w.timers
  <2>1. Asked(v)
    BY <1>2, <1>3, <1>4, <1>6 DEF Calm, Asked, Tidy
  <2> QED
    BY <1>6, <2>1, FuncKeyIs
<1>7. CASE /\ "BUSY" \notin w.sts /\ w.sts # {}
           /\ v.sts = w.sts /\ v.stq = s
           /\ v.open = w.open /\ v.enc = w.enc
           /\ v.cyc = w.cyc /\ v.timers = w.timers
  <2>1. Tidy(v)
    BY <1>4, <1>7 DEF Tidy
  <2>2. Calm(v)
    BY <1>2, <1>3, <1>7, <2>1 DEF Calm
  <2> QED
    BY <1>7, <2>2, FuncKeyIs
<1> QED
  BY <1>4, <1>5, <1>6, <1>7, FuncKeyIs DEF s, t

(* When the work is done and nothing else is under way, the invariant      *)
(* holds.                                                                  *)
LEMMA CommitKeeps ==
  ASSUME Types, NEW w \in WorkType, Commit(w), Calm(w) \/ Asked(w),
         apq' \in Seq(ApMsgs), ~ Answers(apq'), Ticked' => Ticked,
         state' = "record", ~ capturing', UNCHANGED mountTimer, ~ mountedOver'
  PROVE  RecInv'
<1>1. /\ sts' = w.sts /\ cyc' = w.cyc /\ enc' = w.enc /\ timers' = w.timers
      /\ open' = w.open /\ stq' = w.stq
  BY DEF Commit
<1>2. /\ OneAnswer(apq') /\ AnswersWith(apq', open')
      /\ ~ Tells(apq', "VID_REPLY") /\ ~ Tells(apq', "VID_CYCLIC_REPLY")
      /\ ~ Tells(apq', "PIC_REPLY") /\ ~ Tells(apq', "PIC_DONE")
  BY Questions DEF Answers
<1>3. CASE Calm(w)
  <2> USE <1>1, <1>2, <1>3 DEF Calm, Requested, Answering, TimerAsked, Busy, Waits
  <2>0. /\ ~ Holds(stq', "VID_REQ") /\ ~ Holds(stq', "VID_CYCLIC_REQ")
        /\ ~ Holds(stq', "PIC_REQ")
    BY DEF Asks
  <2>1. QueuesInv'
    BY DEF QueuesInv
  <2>2. WaitInv'
    BY <2>0 DEF WaitInv
  <2>3. FilesInv'
    BY DEF FilesInv, Tidy, Writes, Recording
  <2>4. EncInv'
    BY DEF EncInv, Tidy
  <2>5. PollInv'
    BY DEF PollInv
  <2>6. CycleInv'
    BY <2>0 DEF CycleInv, Tidy
  <2> QED
    BY <2>1, <2>2, <2>3, <2>4, <2>5, <2>6 DEF RecInv
<1>4. CASE Asked(w)
  <2> USE <1>1, <1>2, <1>4 DEF Asked, Requested, Answering, TimerAsked, Busy, Waits
  <2>1. QueuesInv'
    BY DEF QueuesInv
  <2>2. WaitInv'
    BY DEF WaitInv
  <2>3. FilesInv'
    BY DEF FilesInv
  <2>4. EncInv'
    BY DEF EncInv
  <2>5. PollInv'
    BY DEF PollInv
  <2>6. CycleInv'
    BY DEF CycleInv
  <2> QED
    BY <2>1, <2>2, <2>3, <2>4, <2>5, <2>6 DEF RecInv
<1> QED
  BY <1>3, <1>4

(* A message that is not an answer is taken when nothing else is awaited.  *)
LEMMA TakeCalm ==
  ASSUME Types, RecInv, ~ Answering, NEW id, NEW sent \in Selves, Take(id, sent)
  PROVE  apq' \in Seq(ApMsgs) /\ ~ Answers(apq') /\ (Ticked' => Ticked)
<1>1. apq \in Seq(ApMsgs)
  BY DEF Types, QueueTypes
<1>2. {"RECORD_ACTIVE", "CAPTURE_ACTIVE"} \cap AnswerIds = {}
  BY DEF AnswerIds, ReplyIds
<1>3. \A x \in AnswerIds : Tells(apq', x) => Tells(apq, x)
  BY <1>1, <1>2, TakeIs
<1> QED
  BY <1>1, <1>3, TakeIs DEF Answering, Answers, AnswerIds, ReplyIds, Ticked

(* The key, also as the power key and as the packer's errors press it.     *)
LEMMA KeyStep ==
  ASSUME Types, RecInv, ~ derailed',
         \/ RecordActive \/ CaptureWhileRecording
         \/ PackerWriteError \/ PackerGroupEnd \/ PowerKeyActive
  PROVE  RecInv'
<1>1. /\ state = "record" /\ UNCHANGED <<state, psts, capturing, mountTimer>>
  BY DEF RecordActive, CaptureWhileRecording, PackerWriteError, PackerGroupEnd,
         PowerKeyActive, unheard, outside
<1>0. ~ mountedOver
  BY DEF RecInv, PollInv
<1>2. ASSUME ~ Waits, ~ mountedOver',
             NEW id, Take(id, <<>>), NEW w \in WorkType, Commit(w), Calm(w) \/ Asked(w)
      PROVE  RecInv'
  BY <1>1, <1>2, WorkCalm, TakeCalm, Sending, CommitKeeps
<1>3. ASSUME ~ Waits
      PROVE  /\ Work \in WorkType /\ Calm(Work)
             /\ \A w \in FuncKeyActive(Work) :
                  /\ w \in WorkType /\ (Calm(w) \/ Asked(w))
                  /\ Busy => /\ Calm(w)
                             /\ w.open = {}
                             /\ \A v \in FuncKeyActive(w) :
                                  v \in WorkType /\ (Calm(v) \/ Asked(v))
  BY <1>1, <1>3, WorkCalm, FuncKeyCalm, WorkIs DEF Busy
<1>4. ASSUME Waits, NEW id \in {"RECORD_ACTIVE", "CAPTURE_ACTIVE"},
             NEW sent \in Selves, Take(id, sent), Commit(Work), UNCHANGED mountedOver
      PROVE  RecInv'
  <2>1. id \notin AnswerIds
    BY DEF AnswerIds, ReplyIds
  <2>2. UNCHANGED <<sts, cyc, enc, timers, open, stq>>
    BY <1>4, WorkIs DEF Commit
  <2> QED
    BY <1>1, <1>4, <2>1, <2>2, TakingKeeps, StqKeeps, Kept DEF Busy, Waits
<1>5. CASE RecordActive
  BY <1>0, <1>2, <1>3, <1>4, <1>5, Sending DEF RecordActive, Waits
<1>6. CASE CaptureWhileRecording
  BY <1>0, <1>2, <1>3, <1>4, <1>6, Sending DEF CaptureWhileRecording, Waits
<1>7. CASE PackerWriteError
  <2>1. ~ Waits
    BY <1>7 DEF PackerWriteError, Derails, Waits
  <2> QED
    BY <1>0, <1>2, <1>3, <1>7, <2>1 DEF PackerWriteError
<1>8. CASE PackerGroupEnd
  <2>1. ~ Waits
    BY <1>8 DEF PackerGroupEnd, Derails, Waits
  <2>2. PICK w \in IF "BUSY" \in sts THEN FuncKeyActive(Work) ELSE {Work} :
          MountCard(w.open) /\ \E v \in FuncKeyActive(w) : Commit(v)
    BY <1>8 DEF PackerGroupEnd
  <2>3. PICK v \in FuncKeyActive(w) : Commit(v)
    BY <2>2
  <2>5. w.open = {}
    <3>1. "BUSY" \notin Work.sts => Work.open = {}
      BY <1>3, <2>1 DEF Calm
    <3> QED
      BY <1>3, <2>1, <2>2, <3>1, WorkIs DEF Busy
  <2>6. ~ mountedOver'
    BY <1>0, <2>2, <2>5 DEF MountCard
  <2>4. v \in WorkType /\ (Calm(v) \/ Asked(v))
    BY <1>3, <2>1, <2>2, <2>3 DEF Busy
  <2> QED
    BY <1>2, <1>8, <2>1, <2>3, <2>4, <2>6 DEF PackerGroupEnd
<1>9. CASE PowerKeyActive
  <2>1. ~ Waits
    BY <1>9 DEF PowerKeyActive, Derails, Waits
  <2> QED
    BY <1>0, <1>2, <1>3, <1>9, <2>1 DEF PowerKeyActive
<1> QED
  BY <1>5, <1>6, <1>7, <1>8, <1>9

(* The cycle timer's tick: one file is closed, and the next asked for.     *)
LEMMA CycleStep ==
  ASSUME Types, RecInv, ~ derailed', CyclicVideoRecord
  PROVE  RecInv'
<1>1. /\ state = "record" /\ Take("CYCLIC_VIDEO_RECORD", <<>>)
      /\ UNCHANGED <<state, psts, capturing, mountTimer, mountedOver>>
  BY DEF CyclicVideoRecord, unheard, outside
<1>2. Busy /\ ~ Waits
  BY DEF CyclicVideoRecord, Derails, Busy, Waits
<1>3. cyc = VIDEO_RECORD_CYCLE_TIMER_ID
  <2>1. Ticked
    BY <1>1, TakeIs, Sending DEF Types, QueueTypes, Ticked
  <2> QED
    BY <1>1, <1>2, <2>1 DEF RecInv, CycleInv
<1>4. Work \in WorkType /\ Calm(Work) /\ ~ Answering /\ ~ capturing
  BY <1>1, <1>2, WorkCalm
<1>5. PICK w \in EncodeStop(Work) :
        Commit(ToStorage([w EXCEPT !.sts = @ \cup {"WAIT"}], "VID_CYCLIC_REQ"))
  BY DEF CyclicVideoRecord
<1>6. /\ w \in WorkType
      /\ w.sts = sts /\ w.cyc = cyc /\ w.timers = timers /\ w.stq = stq
      /\ w.enc.started => w.enc.refused
      /\ w.open = {} /\ w.enc.into = NoFile
  BY <1>4, EncodeStopIs, WorkIs DEF Calm
<1> DEFINE flags == w.sts \cup {"WAIT"}
           u == [w EXCEPT !.sts = flags]
           v == ToStorage(u, "VID_CYCLIC_REQ")
<1>7. /\ u \in WorkType /\ u.sts = flags
      /\ u.cyc = w.cyc /\ u.timers = w.timers /\ u.stq = w.stq /\ u.enc = w.enc
      /\ u.open = w.open
  <2>1. flags \in SUBSET {"UNMOUNT", "BUSY", "WAIT"}
    BY <1>6 DEF WorkType
  <2> HIDE DEF flags
  <2> QED
    BY <1>6, <2>1 DEF WorkType
<1>8. Commit(v)
  BY <1>5
<1> HIDE DEF u
<1>9. /\ v \in WorkType /\ v.sts = flags /\ v.stq = Append(stq, "VID_CYCLIC_REQ")
      /\ v.cyc = VIDEO_RECORD_CYCLE_TIMER_ID /\ v.timers = timers /\ v.enc = w.enc
      /\ v.open = {}
  BY <1>3, <1>6, <1>7, ToStorageIs DEF StIds
<1> HIDE DEF v
<1>10. /\ RequestLast(v.stq)
       /\ Holds(v.stq, "VID_CYCLIC_REQ")
       /\ ~ Holds(v.stq, "VID_REQ") /\ ~ Holds(v.stq, "PIC_REQ")
  <2>1. RequestLast(stq) /\ ~ Asks(stq) /\ stq \in Seq(StIds)
    BY <1>4, WorkIs DEF Calm, Types, QueueTypes
  <2> QED
    BY <1>9, <2>1, HoldsAppend DEF StIds, Asks
<1>11. Asked(v)
  <2>1. /\ "BUSY" \in sts
        /\ VIDEO_RECORD_CYCLE_TIMER_ID \in timers
        /\ Ticked => cyc # 0
    BY <1>3, <1>4, WorkIs DEF Calm, Tidy
  <2> QED
    BY <1>3, <1>6, <1>9, <1>10, <2>1 DEF Asked
<1> QED
  BY <1>1, <1>4, <1>8, <1>9, <1>11, Sending, TakeCalm, CommitKeeps DEF RecInv, PollInv

(* What an answer that is taken says of its file.                          *)
LEMMA AnswerIs ==
  ASSUME Types, RecInv, NEW id \in AnswerIds, Take(id, <<>>)
  PROVE  /\ Answering /\ ~ Requested /\ ~ capturing /\ Tells(apq, id)
         /\ open = {Head(apq).file} \ {NoFile}
         /\ Head(apq).file \in Files \cup {NoFile}
         /\ Head(apq).file # NoFile => id \in ReplyIds
         /\ apq' \in Seq(ApMsgs) /\ ~ Answers(apq') /\ (Ticked' => Ticked)
         /\ ~ mountTimer /\ ~ TimerAsked /\ ~ mountedOver
<1>1. OneAnswer(apq) /\ AnswersWith(apq, open) /\ apq \in Seq(ApMsgs)
  BY DEF RecInv, QueuesInv, FilesInv, Types, QueueTypes
<1>2. /\ apq' \in Seq(ApMsgs) /\ ~ Answers(apq') /\ (Ticked' => Ticked) /\ Tells(apq, id)
      /\ open = {Head(apq).file} \ {NoFile}
      /\ Head(apq) \in ApMsgs /\ Head(apq).id = id
  BY <1>1, TakeIs, Sending DEF Ticked
<1>3. Answering
  BY <1>2 DEF Answering, Answers, AnswerIds, ReplyIds
<1> QED
  BY <1>2, <1>3 DEF RecInv, QueuesInv, PollInv, ApMsgs

(* The reply to the key: recording begins, or the file is closed.          *)
LEMMA VidReplyStep ==
  ASSUME Types, RecInv, VidReply
  PROVE  RecInv'
<1> DEFINE f == Head(apq).file
           w == [Work EXCEPT !.sts = @ \ {"WAIT"}]
           usable == f # NoFile /\ Head(apq).room
<1>1. /\ state = "record" /\ Take("VID_REPLY", <<>>)
      /\ UNCHANGED <<state, psts, capturing, mountTimer, mountedOver>>
  BY DEF VidReply, unheard, outside
<1>2. /\ ~ Requested /\ ~ capturing /\ Tells(apq, "VID_REPLY")
      /\ open = {f} \ {NoFile} /\ f \in Files \cup {NoFile}
      /\ apq' \in Seq(ApMsgs) /\ ~ Answers(apq') /\ (Ticked' => Ticked)
      /\ ~ mountTimer /\ ~ TimerAsked /\ ~ mountedOver
  BY <1>1, AnswerIs DEF AnswerIds, ReplyIds
<1>3. /\ w \in WorkType
      /\ w.sts = sts \ {"WAIT"} /\ w.cyc = cyc /\ w.enc = enc
      /\ w.timers = timers /\ w.open = open /\ w.stq = stq
  BY ReplyWorkIs
<1>4. /\ \/ usable /\ Commit(SetCycleTimer(Started(w, f)))
         \/ usable /\ \E v \in NotStarted(w, f) : Commit(GiveUp(v, f))
         \/ Commit(GiveUp(w, f))
  BY DEF VidReply
<1> HIDE DEF w, f
<1>5. /\ Busy /\ Waits
      /\ enc.started => enc.refused
      /\ enc.into # NoFile => enc.packer0
      /\ cyc # VIDEO_RECORD_CYCLE_TIMER_ID /\ cyc \in {0, NO_TIMER}
      /\ VIDEO_RECORD_CYCLE_TIMER_ID \notin timers
      /\ Ticked => cyc # 0
  BY <1>2 DEF RecInv, WaitInv, EncInv, CycleInv, Types, DataTypes
<1>6. RequestLast(stq) /\ ~ Asks(stq) /\ ~ Holds(stq, "TIMER_START") /\ stq \in Seq(StIds)
  BY <1>2 DEF RecInv, QueuesInv, Requested, TimerAsked, Types, QueueTypes
<1>7. CASE usable /\ Commit(SetCycleTimer(Started(w, f)))
  <2> DEFINE u == Started(w, f)
             v == SetCycleTimer(u)
  <2>1. /\ u \in WorkType /\ u.sts = w.sts /\ u.cyc = cyc /\ u.timers = timers
        /\ u.open = open /\ u.stq = stq
        /\ u.enc.started /\ u.enc.packer0 /\ u.enc.file = f /\ u.enc.into = f
    BY <1>2, <1>3, <1>7, StartedIs
  <2> HIDE DEF u
  <2>2. /\ v \in WorkType /\ v.sts = w.sts /\ v.enc = u.enc /\ v.open = open /\ v.stq = stq
        /\ v.cyc = IF cyc = NO_TIMER THEN VIDEO_RECORD_CYCLE_TIMER_ID ELSE cyc
        /\ VIDEO_RECORD_CYCLE_TIMER_ID \in v.timers <=> v.cyc = VIDEO_RECORD_CYCLE_TIMER_ID
    BY <1>5, <2>1, SetIs
  <2>3. Commit(v)
    BY <1>7 DEF u
  <2> HIDE DEF v
  <2>4. open = {f} /\ "BUSY" \in v.sts /\ "WAIT" \notin v.sts
    BY <1>2, <1>3, <1>5, <1>7, <2>2 DEF Busy
  <2>5. Tidy(v)
    BY <1>7, <2>1, <2>2, <2>4 DEF Tidy
  <2>6. v.cyc \in {0, VIDEO_RECORD_CYCLE_TIMER_ID} /\ (Ticked => v.cyc # 0)
    BY <1>5, <2>2 DEF VIDEO_RECORD_CYCLE_TIMER_ID
  <2>7. Calm(v)
    BY <1>2, <1>6, <2>1, <2>2, <2>4, <2>5, <2>6 DEF Calm
  <2> QED
    BY <1>1, <1>2, <2>2, <2>3, <2>7, CommitKeeps
<1>8. ASSUME NEW u \in WorkType, Commit(GiveUp(u, f)),
             u.sts = w.sts, u.cyc = cyc, u.timers = timers, u.open = open, u.stq = stq,
             u.enc.started => u.enc.refused, u.enc.into # NoFile => u.enc.packer0
      PROVE  RecInv'
  <2> DEFINE v == GiveUp(u, f)
  <2>1. /\ v \in WorkType /\ v.sts = w.sts \ {"BUSY"} /\ v.stq = Append(stq, "TIMER_START")
        /\ v.open = open \ {f} /\ v.enc = u.enc /\ v.cyc = cyc /\ v.timers = timers
    BY <1>8, GiveUpIs
  <2>2. Commit(v)
    BY <1>8
  <2> HIDE DEF v
  <2>3. /\ RequestLast(v.stq) /\ ~ Asks(v.stq) /\ Holds(v.stq, "TIMER_START")
    BY <1>6, <2>1, HoldsAppend DEF StIds, Asks
  <2>4. v.open = {} /\ "WAIT" \notin v.sts
    BY <1>2, <1>3, <2>1
  <2>5. Calm(v)
    BY <1>5, <1>8, <2>1, <2>3, <2>4 DEF Calm, Tidy
  <2> QED
    BY <1>1, <1>2, <2>1, <2>2, <2>5, CommitKeeps
<1>9. CASE usable /\ \E v \in NotStarted(w, f) : Commit(GiveUp(v, f))
  <2>1. PICK u \in NotStarted(w, f) : Commit(GiveUp(u, f))
    BY <1>9
  <2>2. /\ u \in WorkType /\ u.sts = w.sts /\ u.cyc = cyc /\ u.timers = timers
        /\ u.open = open /\ u.stq = stq
        /\ u.enc.started = enc.started /\ u.enc.refused = enc.refused /\ u.enc.packer0
    BY <1>2, <1>3, <1>9, NotStartedIs
  <2> QED
    BY <1>5, <1>8, <2>1, <2>2
<1>10. CASE Commit(GiveUp(w, f))
  BY <1>3, <1>5, <1>8, <1>10
<1> QED
  BY <1>4, <1>7, <1>9, <1>10

(* The reply to the cycle timer: the next file is recorded, or none.       *)
LEMMA VidCyclicReplyStep ==
  ASSUME Types, RecInv, ~ derailed', VidCyclicReply
  PROVE  RecInv'
<1> DEFINE f == Head(apq).file
           w == [Work EXCEPT !.sts = @ \ {"WAIT"}]
<1>1. /\ state = "record" /\ Take("VID_CYCLIC_REPLY", <<>>)
      /\ UNCHANGED <<state, psts, capturing, mountTimer, mountedOver>>
  BY DEF VidCyclicReply, unheard, outside
<1>2. /\ ~ Requested /\ ~ capturing /\ Tells(apq, "VID_CYCLIC_REPLY")
      /\ open = {f} \ {NoFile} /\ f \in Files \cup {NoFile}
      /\ apq' \in Seq(ApMsgs) /\ ~ Answers(apq') /\ (Ticked' => Ticked)
      /\ ~ mountTimer /\ ~ TimerAsked /\ ~ mountedOver
  BY <1>1, AnswerIs DEF AnswerIds, ReplyIds
<1>3. /\ w \in WorkType
      /\ w.sts = sts \ {"WAIT"} /\ w.cyc = cyc /\ w.enc = enc
      /\ w.timers = timers /\ w.open = open /\ w.stq = stq
  BY ReplyWorkIs
<1>4. (f = NoFile /\ Commit(w)) \/ (f # NoFile /\ Commit(Started(w, f)))
  BY DEF VidCyclicReply, Derails
<1> HIDE DEF w, f
<1>5. /\ Busy /\ Waits
      /\ enc.started => enc.refused
      /\ enc.into # NoFile => enc.packer0
      /\ cyc = VIDEO_RECORD_CYCLE_TIMER_ID
      /\ VIDEO_RECORD_CYCLE_TIMER_ID \in timers
      /\ Ticked => cyc # 0
  BY <1>2 DEF RecInv, WaitInv, EncInv, CycleInv
<1>6. RequestLast(stq) /\ ~ Asks(stq) /\ ~ Holds(stq, "TIMER_START")
  BY <1>2 DEF RecInv, QueuesInv, Requested, TimerAsked
<1>7. "BUSY" \in w.sts /\ "WAIT" \notin w.sts
  BY <1>3, <1>5 DEF Busy
<1>8. CASE f = NoFile /\ Commit(w)
  <2>1. w.open = {}
    BY <1>2, <1>3, <1>8
  <2>2. Calm(w)
    BY <1>3, <1>5, <1>6, <1>7, <2>1 DEF Calm, Tidy
  <2> QED
    BY <1>1, <1>2, <1>3, <1>8, <2>2, CommitKeeps
<1>9. CASE f # NoFile /\ Commit(Started(w, f))
  <2> DEFINE v == Started(w, f)
  <2>1. /\ v \in WorkType /\ v.sts = w.sts /\ v.cyc = cyc /\ v.timers = timers
        /\ v.open = open /\ v.stq = stq
        /\ v.enc.started /\ v.enc.packer0 /\ v.enc.file = f /\ v.enc.into = f
    BY <1>2, <1>3, <1>9, StartedIs
  <2>2. Commit(v)
    BY <1>9
  <2> HIDE DEF v
  <2>3. open = {f}
    BY <1>2, <1>9
  <2>4. Calm(v)
    BY <1>2, <1>5, <1>6, <1>7, <1>9, <2>1, <2>3 DEF Calm, Tidy
  <2> QED
    BY <1>1, <1>2, <2>1, <2>2, <2>4, CommitKeeps
<1> QED
  BY <1>4, <1>8, <1>9
-----------------------------------------------------------------------------
(* The change of state, and pictures.                                      *)

LEMMA GoToPreviewStep ==
  ASSUME Types, RecInv, GoToPreview
  PROVE  RecInv'
<1>1. /\ state = "record" /\ ~ Busy /\ Take("CAPTURE_ACTIVE", <<Message("CAPTURE_ACTIVE")>>)
      /\ UNCHANGED <<capturing, mountTimer, mountedOver>>
  BY DEF GoToPreview, outside, history, Busy
<1>2. ~ Waits
  BY <1>1 DEF RecInv, WaitInv
<1>3. Work \in WorkType /\ Calm(Work) /\ ~ Answering /\ ~ capturing
  BY <1>1, <1>2, WorkCalm
<1>4. ~ Answers(apq')
  BY <1>1, <1>3, TakeCalm, Sending
<1> DEFINE w == KillCycleTimer(Work)
           v == [w EXCEPT !.sts = {}]
<1>5. Commit(v) /\ state' = "preview"
  BY <1>2 DEF GoToPreview, Waits
<1>6. /\ w \in WorkType /\ w.enc = enc /\ w.open = open /\ w.stq = stq /\ w.cyc = NO_TIMER
      /\ VIDEO_RECORD_CYCLE_TIMER_ID \notin w.timers
  BY <1>3, KillIs, WorkIs DEF Calm
<1> HIDE DEF w
<1>7. /\ sts' = {} /\ enc' = enc /\ open' = open /\ stq' = stq /\ cyc' = NO_TIMER
      /\ VIDEO_RECORD_CYCLE_TIMER_ID \notin timers'
  BY <1>5, <1>6 DEF Commit, WorkType
<1>8. /\ open = {} /\ (enc.started => enc.refused) /\ (~ mountTimer => TimerAsked)
      /\ ~ Requested /\ RequestLast(stq) /\ (enc.into # NoFile => enc.packer0)
  BY <1>1, <1>3, WorkIs DEF Calm, Tidy, Busy, TimerAsked, Requested
<1>9. /\ OneAnswer(apq') /\ AnswersWith(apq', open')
      /\ ~ Tells(apq', "VID_REPLY") /\ ~ Tells(apq', "VID_CYCLIC_REPLY")
      /\ ~ Tells(apq', "PIC_REPLY") /\ ~ Tells(apq', "PIC_DONE")
  BY <1>4, Questions DEF Answers
<1>10. ~ Holds(stq, "VID_REQ") /\ ~ Holds(stq, "VID_CYCLIC_REQ") /\ ~ Holds(stq, "PIC_REQ")
  BY <1>8 DEF Requested, Asks
<1> HIDE DEF v
<1> USE <1>1, <1>3, <1>4, <1>5, <1>7, <1>8, <1>9, <1>10
    DEF Requested, Answering, TimerAsked, Busy, Waits
<1>11. QueuesInv'
  BY DEF QueuesInv
<1>12. WaitInv'
  BY DEF WaitInv
<1>13. FilesInv'
  BY DEF FilesInv
<1>14. EncInv'
  BY DEF EncInv
<1>15. PollInv'
  BY DEF PollInv, RecInv
<1>16. CycleInv'
  BY DEF CycleInv, NO_TIMER, VIDEO_RECORD_CYCLE_TIMER_ID
<1> QED
  BY <1>11, <1>12, <1>13, <1>14, <1>15, <1>16 DEF RecInv

(* What is not under way in the preview state.                             *)
LEMMA PreviewIs ==
  ASSUME Types, RecInv, state = "preview"
  PROVE  /\ ~ Holds(stq, "VID_REQ") /\ ~ Holds(stq, "VID_CYCLIC_REQ")
         /\ ~ Tells(apq, "VID_REPLY") /\ ~ Tells(apq, "VID_CYCLIC_REPLY")
         /\ sts = {} /\ cyc # VIDEO_RECORD_CYCLE_TIMER_ID
         /\ VIDEO_RECORD_CYCLE_TIMER_ID \notin timers
         /\ enc.started => enc.refused
         /\ enc.into # NoFile => enc.packer0
         /\ open = {} \/ Answering \/ capturing
         /\ "BUSY" \notin psts =>
              ~ Requested /\ ~ Answering /\ ~ capturing /\ open = {}
<1>1. sts = {}
  BY DEF RecInv, WaitInv
<1>2. /\ ~ Holds(stq, "VID_REQ") /\ ~ Holds(stq, "VID_CYCLIC_REQ")
      /\ ~ Tells(apq, "VID_REPLY") /\ ~ Tells(apq, "VID_CYCLIC_REPLY")
      /\ "BUSY" \notin psts => ~ Requested /\ ~ Answering /\ ~ capturing
  BY <1>1 DEF RecInv, WaitInv, Waits, Requested, Asks, Answering, Answers
<1>3. /\ cyc # VIDEO_RECORD_CYCLE_TIMER_ID
      /\ VIDEO_RECORD_CYCLE_TIMER_ID \notin timers
  BY DEF RecInv, CycleInv
<1>4. /\ enc.started => enc.refused
      /\ enc.into # NoFile => enc.packer0
  BY DEF RecInv, EncInv
<1>5. open = {} \/ Answering \/ capturing
  BY DEF RecInv, FilesInv, Writes
<1> QED
  BY <1>1, <1>2, <1>3, <1>4, <1>5

(* Of the conjuncts the preview state's handlers leave only these open.    *)
LEMMA PreviewKeeps ==
  ASSUME Types, RecInv, state = "preview", UNCHANGED <<state, sts, cyc, timers, mountTimer, mountedOver>>,
         RequestLast(stq'), OneAnswer(apq'), AnswersWith(apq', open'), Ticked' => Ticked,
         ~ Holds(stq', "VID_REQ"), ~ Holds(stq', "VID_CYCLIC_REQ"),
         ~ Tells(apq', "VID_REPLY"), ~ Tells(apq', "VID_CYCLIC_REPLY"),
         Requested' => ~ Answering' /\ ~ capturing' /\ open' = {},
         capturing' => /\ ~ Answering'
                       /\ enc'.file # NoFile /\ open' = {enc'.file},
         Requested' \/ Answering' \/ capturing' => "BUSY" \in psts',
         open' = {} \/ Answering' \/ capturing',
         Answering' \/ capturing' => ~ mountTimer /\ ~ TimerAsked',
         ~ mountTimer => TimerAsked' \/ Requested' \/ Answering' \/ capturing',
         enc'.started = enc.started, enc'.refused = enc.refused,
         enc'.into = enc.into, enc'.packer0 = enc.packer0
  PROVE  RecInv'
<1>1. /\ sts = {} /\ cyc # VIDEO_RECORD_CYCLE_TIMER_ID
      /\ VIDEO_RECORD_CYCLE_TIMER_ID \notin timers
      /\ enc.started => enc.refused
      /\ enc.into # NoFile => enc.packer0
  BY PreviewIs
<1>2. (Ticked => cyc # 0) /\ ~ mountedOver
  BY DEF RecInv, CycleInv, PollInv
<1>3. /\ Tells(apq', "PIC_REPLY") \/ Tells(apq', "PIC_DONE") => Answering'
      /\ Holds(stq', "PIC_REQ") => Requested'
  BY DEF Answering, Answers, Requested, Asks
<1>5. QueuesInv'
  BY DEF QueuesInv
<1>6. WaitInv'
  BY <1>1, <1>3 DEF WaitInv, Waits, Busy
<1>7. FilesInv'
  BY DEF FilesInv
<1>8. EncInv'
  BY <1>1 DEF EncInv
<1>9. PollInv'
  BY <1>2 DEF PollInv
<1>10. CycleInv'
  BY <1>1, <1>2 DEF CycleInv
<1> QED
  BY <1>5, <1>6, <1>7, <1>8, <1>9, <1>10 DEF RecInv

LEMMA GoToRecordStep ==
  ASSUME Types, RecInv, GoToRecord
  PROVE  RecInv'
<1>1. PICK sent \in Selves : Take("RECORD_ACTIVE", sent)
  BY Sending DEF GoToRecord
<1>2. /\ state = "preview"
      /\ UNCHANGED <<stq, open, enc, capturing, timers, mountTimer, mountedOver>>
  BY DEF GoToRecord, outside, history
<1>3. CASE "BUSY" \in psts
  <2>1. "RECORD_ACTIVE" \notin AnswerIds
    BY DEF AnswerIds, ReplyIds
  <2>2. UNCHANGED <<state, sts, psts, cyc>>
    BY <1>3 DEF GoToRecord
  <2>3. sts = {}
    BY <1>2, PreviewIs
  <2> QED
    BY <1>1, <1>2, <2>1, <2>2, <2>3, TakingKeeps, StqKeeps, Kept DEF Busy, Waits
<1>4. CASE "BUSY" \notin psts
  <2>1. /\ ~ Requested /\ ~ Answering /\ ~ capturing /\ open = {}
        /\ sts = {} /\ cyc # VIDEO_RECORD_CYCLE_TIMER_ID
        /\ VIDEO_RECORD_CYCLE_TIMER_ID \notin timers
        /\ enc.started => enc.refused
        /\ enc.into # NoFile => enc.packer0
    BY <1>2, <1>4, PreviewIs
  <2>2. ~ Answers(apq') /\ (Ticked' => Ticked)
    BY <1>1, <2>1, TakeCalm
  <2>3. /\ OneAnswer(apq') /\ AnswersWith(apq', open')
        /\ ~ Tells(apq', "VID_REPLY") /\ ~ Tells(apq', "VID_CYCLIC_REPLY")
        /\ ~ Tells(apq', "PIC_REPLY") /\ ~ Tells(apq', "PIC_DONE")
      BY <2>2, Questions DEF Answers
  <2>4. /\ state' = "record" /\ ~ Busy' /\ ~ Waits'
        /\ cyc' = cyc \/ cyc' = NO_TIMER
    BY <1>4, <2>1 DEF GoToRecord, Busy, Waits
  <2>5. /\ ~ Holds(stq, "VID_REQ") /\ ~ Holds(stq, "VID_CYCLIC_REQ")
        /\ ~ Holds(stq, "PIC_REQ")
    BY <2>1 DEF Requested, Asks
  <2>6. /\ RequestLast(stq)
        /\ ~ mountTimer => TimerAsked
        /\ ~ mountedOver /\ (Ticked => cyc # 0)
    BY <1>2, <2>1 DEF RecInv, QueuesInv, PollInv, CycleInv, Busy
  <2> USE <1>2, <2>1, <2>2, <2>3, <2>4, <2>5, <2>6 DEF Requested, Answering, TimerAsked
  <2>7. QueuesInv'
    BY DEF QueuesInv
  <2>8. WaitInv'
    BY DEF WaitInv
  <2>9. FilesInv'
    BY DEF FilesInv
  <2>10. EncInv'
    BY DEF EncInv
  <2>11. PollInv'
    BY DEF PollInv
  <2>12. CycleInv'
    BY DEF CycleInv, NO_TIMER, VIDEO_RECORD_CYCLE_TIMER_ID
  <2> QED
    BY <2>7, <2>8, <2>9, <2>10, <2>11, <2>12 DEF RecInv
<1> QED
  BY <1>3, <1>4

LEMMA CaptureActiveStep ==
  ASSUME Types, RecInv, CaptureActive
  PROVE  RecInv'
<1>1. /\ Take("CAPTURE_ACTIVE", <<>>) /\ state = "preview"
      /\ UNCHANGED <<open, state, sts, cyc, enc, capturing, timers, mountTimer, mountedOver>>
  BY DEF CaptureActive, recordOnly, outside
<1>2. sts = {}
  BY <1>1, PreviewIs
<1>3. CASE psts # {}
  <2>1. "CAPTURE_ACTIVE" \notin AnswerIds
    BY DEF AnswerIds, ReplyIds
  <2>2. UNCHANGED <<psts, stq>>
    BY <1>3 DEF CaptureActive
  <2> QED
    BY <1>1, <1>2, <2>1, <2>2, Sending, TakingKeeps, StqKeeps, Kept DEF Busy, Waits
<1>4. CASE psts = {}
  <2>1. /\ ~ Requested /\ ~ Answering /\ ~ capturing /\ open = {}
        /\ ~ Holds(stq, "VID_REQ") /\ ~ Holds(stq, "VID_CYCLIC_REQ")
    BY <1>1, <1>4, PreviewIs
  <2>2. ~ Answers(apq') /\ (Ticked' => Ticked)
    BY <1>1, <2>1, TakeCalm, Sending
  <2>3. psts' = {"BUSY"} /\ stq' = Append(stq, "PIC_REQ")
    BY <1>4 DEF CaptureActive
  <2>4. /\ RequestLast(stq') /\ Requested'
        /\ ~ Holds(stq', "VID_REQ") /\ ~ Holds(stq', "VID_CYCLIC_REQ")
    <3>1. stq \in Seq(StIds) /\ RequestLast(stq) /\ ~ Asks(stq)
      BY <2>1 DEF Types, QueueTypes, RecInv, QueuesInv, Requested
    <3> QED
      BY <2>1, <2>3, <3>1, HoldsAppend DEF StIds, Requested, Asks
  <2>5. /\ OneAnswer(apq') /\ AnswersWith(apq', open') /\ ~ Answering'
        /\ ~ Tells(apq', "VID_REPLY") /\ ~ Tells(apq', "VID_CYCLIC_REPLY")
    BY <2>2, Questions DEF Answers, Answering
  <2> QED
    BY <1>1, <2>1, <2>2, <2>3, <2>4, <2>5, PreviewKeeps
<1> QED
  BY <1>3, <1>4

LEMMA PicReplyStep ==
  ASSUME Types, RecInv, PicReply
  PROVE  RecInv'
<1> DEFINE f == Head(apq).file
<1>1. /\ Take("PIC_REPLY", <<>>) /\ state = "preview"
      /\ UNCHANGED <<state, sts, psts, cyc, timers, mountTimer, mountedOver>>
  BY DEF PicReply, recordOnly, outside
<1>2. /\ ~ Requested /\ ~ capturing /\ Tells(apq, "PIC_REPLY")
      /\ open = {f} \ {NoFile}
      /\ ~ Answers(apq') /\ (Ticked' => Ticked)
      /\ ~ mountTimer /\ ~ TimerAsked
  BY <1>1, AnswerIs DEF AnswerIds, ReplyIds
<1>3. /\ OneAnswer(apq') /\ AnswersWith(apq', open') /\ ~ Answering'
      /\ ~ Tells(apq', "VID_REPLY") /\ ~ Tells(apq', "VID_CYCLIC_REPLY")
  BY <1>2, Questions DEF Answers, Answering
<1>4. /\ "BUSY" \in psts
      /\ RequestLast(stq) /\ ~ Asks(stq) /\ stq \in Seq(StIds) /\ enc \in EncType
  BY <1>2 DEF RecInv, WaitInv, QueuesInv, Requested, Types, QueueTypes, DataTypes
<1>5. ~ Holds(stq, "VID_REQ") /\ ~ Holds(stq, "VID_CYCLIC_REQ")
  BY <1>4 DEF Asks
<1>6. CASE /\ f # NoFile
           /\ enc' = [enc EXCEPT !.file = f]
           /\ capturing' = TRUE
           /\ UNCHANGED <<stq, open>>
  <2>1. /\ enc'.file = f /\ enc'.started = enc.started /\ enc'.refused = enc.refused
        /\ enc'.into = enc.into /\ enc'.packer0 = enc.packer0
    BY <1>4, <1>6 DEF EncType
  <2>2. open' = {enc'.file} /\ ~ Requested' /\ ~ TimerAsked'
    BY <1>2, <1>6, <2>1 DEF Requested, TimerAsked
  <2> HIDE DEF f
  <2> QED
    BY <1>1, <1>2, <1>3, <1>4, <1>5, <1>6, <2>1, <2>2, PreviewKeeps
<1>7. CASE /\ open' = open \ {f}
           /\ stq' = Append(stq, "TIMER_START")
           /\ UNCHANGED <<enc, capturing>>
  <2>1. /\ RequestLast(stq') /\ TimerAsked' /\ ~ Requested'
        /\ ~ Holds(stq', "VID_REQ") /\ ~ Holds(stq', "VID_CYCLIC_REQ")
    BY <1>4, <1>5, <1>7, HoldsAppend DEF StIds, TimerAsked, Requested, Asks
  <2>2. open' = {} /\ ~ capturing'
    BY <1>2, <1>7
  <2> HIDE DEF f
  <2> QED
    BY <1>1, <1>2, <1>3, <1>7, <2>1, <2>2, PreviewKeeps
<1> QED
  BY <1>6, <1>7 DEF PicReply

LEMMA PicDoneStep ==
  ASSUME Types, RecInv, PicDone
  PROVE  RecInv'
<1>1. /\ Take("PIC_DONE", <<>>) /\ state = "preview" /\ stq' = Append(stq, "TIMER_START")
      /\ UNCHANGED <<open, state, sts, enc, capturing, cyc, timers, mountTimer, mountedOver>>
  BY DEF PicDone, recordOnly, outside
<1>2. /\ ~ Requested /\ ~ capturing /\ open = {}
      /\ ~ Answers(apq') /\ (Ticked' => Ticked)
      /\ ~ mountTimer /\ ~ TimerAsked
  <2>1. /\ ~ Requested /\ ~ capturing
        /\ open = {Head(apq).file} \ {NoFile}
        /\ Head(apq).file # NoFile => "PIC_DONE" \in ReplyIds
        /\ ~ Answers(apq') /\ (Ticked' => Ticked)
        /\ ~ mountTimer /\ ~ TimerAsked
    BY <1>1, AnswerIs DEF AnswerIds
  <2> QED
    BY <2>1 DEF ReplyIds
<1>3. /\ OneAnswer(apq') /\ AnswersWith(apq', open') /\ ~ Answering'
      /\ ~ Tells(apq', "VID_REPLY") /\ ~ Tells(apq', "VID_CYCLIC_REPLY")
  BY <1>2, Questions DEF Answers, Answering
<1>4. /\ RequestLast(stq') /\ TimerAsked' /\ ~ Requested'
      /\ ~ Holds(stq', "VID_REQ") /\ ~ Holds(stq', "VID_CYCLIC_REQ")
  <2>1. RequestLast(stq) /\ ~ Asks(stq) /\ stq \in Seq(StIds)
    BY <1>2 DEF RecInv, QueuesInv, Requested, Types, QueueTypes
  <2> QED
    BY <1>1, <2>1, HoldsAppend DEF StIds, TimerAsked, Requested, Asks
<1> QED
  BY <1>1, <1>2, <1>3, <1>4, PreviewKeeps

(* The picture is written and its file closed.                             *)
LEMMA PictureStep ==
  ASSUME Types, RecInv, CapturePicture
  PROVE  RecInv'
<1>1. /\ capturing /\ capturing' = FALSE
      /\ open' = open \ {enc.file} /\ apq' = Append(apq, Message("PIC_DONE"))
      /\ UNCHANGED <<stq, state, sts, psts, cyc, enc, timers, mountTimer, mountedOver>>
  BY DEF CapturePicture, apVars, outside, history
<1>2. /\ ~ Requested /\ ~ Answering
      /\ state = "preview" /\ "BUSY" \in psts
      /\ open = {enc.file} /\ RequestLast(stq)
      /\ ~ mountTimer /\ ~ TimerAsked
  BY <1>1 DEF RecInv, QueuesInv, WaitInv, FilesInv, PollInv
<1>3. Message("PIC_DONE") \in ApMsgs
      /\ Message("PIC_DONE").id = "PIC_DONE" /\ Message("PIC_DONE").file = NoFile
  BY MessagesTyped DEF Message
<1>4. /\ \A x : Tells(apq', x) <=> Tells(apq, x) \/ "PIC_DONE" = x
      /\ OneAnswer(apq') /\ AnswersWith(apq', {})
  <2>1. apq \in Seq(ApMsgs) /\ ~ Answers(apq) /\ OneAnswer(apq) /\ AnswersWith(apq, {})
    BY <1>2, Questions DEF Types, QueueTypes, Answering
  <2>2. {} = {NoFile} \ {NoFile}
    OBVIOUS
  <2> QED
    BY <1>1, <1>3, <2>1, <2>2, TellsAppend
<1>5. open' = {}
  BY <1>1, <1>2
<1>6. /\ Answering' /\ (Ticked' => Ticked) /\ ~ Requested' /\ ~ TimerAsked'
      /\ ~ Tells(apq', "VID_REPLY") /\ ~ Tells(apq', "VID_CYCLIC_REPLY")
      /\ ~ Holds(stq', "VID_REQ") /\ ~ Holds(stq', "VID_CYCLIC_REQ")
  BY <1>1, <1>2, <1>4 DEF Answering, Answers, Ticked, Requested, Asks, TimerAsked
<1> QED
  BY <1>1, <1>2, <1>4, <1>5, <1>6, PreviewKeeps

(* What a state does not know is no answer and no request of its own.      *)
LEMMA DropStep ==
  ASSUME Types, RecInv, DropMessage
  PROVE  RecInv'
<1>1. PICK id \in Unhandled[state] : Take(id, <<>>)
  BY DEF DropMessage
<1>2. Tells(apq, id)
  BY <1>1, TakeIs, Sending DEF Types, QueueTypes
<1>3. state \in {"record", "preview"}
  BY DEF Types, DataTypes
<1>4. id \notin AnswerIds
  <2>1. CASE state = "record"
    <3>1. id \in {"PIC_REPLY", "PIC_DONE"}
      BY <1>1, <2>1 DEF Unhandled
    <3> QED
      BY <1>2, <2>1, <3>1 DEF RecInv, WaitInv
  <2>2. CASE state = "preview"
    <3>1. id \in {"VID_REPLY", "VID_CYCLIC_REPLY"} \cup InterruptIds
      BY <1>1, <2>2 DEF Unhandled, InterruptIds
    <3>2. id \in InterruptIds
      BY <1>2, <2>2, <3>1, PreviewIs
    <3> QED
      BY <3>2 DEF InterruptIds, AnswerIds, ReplyIds
  <2> QED
    BY <1>3, <2>1, <2>2
<1>5. UNCHANGED <<stq, state, sts, psts, cyc, enc, capturing, timers, open, mountTimer,
                  mountedOver>>
  BY DEF DropMessage, apVars, outside, history
<1>6. state = "preview" => sts = {}
  BY PreviewIs
<1> QED
  BY <1>1, <1>4, <1>5, <1>6, Sending, TakingKeeps, StqKeeps, Kept DEF Busy, Waits
-----------------------------------------------------------------------------
(* The other tasks and the interrupts.                                     *)

LEMMA PeripheralStep ==
  ASSUME Types, RecInv, PeripheralTask \/ \E long \in BOOLEAN : VideoKey(long)
  PROVE  RecInv'
<1>1. /\ Message("RECORD_ACTIVE") \in ApMsgs /\ Message("CAPTURE_ACTIVE") \in ApMsgs
      /\ Message("RECORD_ACTIVE").id \notin AnswerIds \cup {"CYCLIC_VIDEO_RECORD"}
      /\ Message("CAPTURE_ACTIVE").id \notin AnswerIds \cup {"CYCLIC_VIDEO_RECORD"}
  BY MessagesTyped DEF Message, AnswerIds, ReplyIds
<1>2. \/ apq' = apq
      \/ apq' = Append(apq, Message("RECORD_ACTIVE"))
      \/ apq' = Append(apq, Message("CAPTURE_ACTIVE"))
  BY DEF PeripheralTask, LedSet, LedFlashSet, VideoKey
<1>3. UNCHANGED <<stq, open, state, sts, psts, cyc, enc, capturing, mountTimer, mountedOver>>
  BY DEF PeripheralTask, LedSet, LedFlashSet, VideoKey, apSide, apVars, outside, history
<1>4. VIDEO_RECORD_CYCLE_TIMER_ID \in timers' <=> VIDEO_RECORD_CYCLE_TIMER_ID \in timers
  BY DEF PeripheralTask, LedSet, LedFlashSet, VideoKey, POWER_OFF_TIMER_ID,
         VIDEO_RECORD_CYCLE_TIMER_ID
<1>5. state = "preview" => sts' = {}
  BY <1>3, PreviewIs
<1> QED
  BY <1>1, <1>2, <1>3, <1>4, <1>5, TellingKeeps, StqKeeps, Kept DEF Busy, Waits

(* A message of a timer or the packer, at any time.                        *)
LEMMA InterruptStep ==
  ASSUME Types, RecInv, NEW id \in InterruptIds, Interrupt(id),
         id = "CYCLIC_VIDEO_RECORD" => VIDEO_RECORD_CYCLE_TIMER_ID \in timers
  PROVE  RecInv'
<1>1. /\ apq' = Append(apq, Message(id))
      /\ UNCHANGED <<stq, open, state, sts, psts, cyc, enc, capturing, timers, mountTimer,
                     mountedOver>>
  BY DEF Interrupt, apVars, outside, history
<1>2. /\ Message(id) \in ApMsgs /\ Message(id).id = id /\ id \notin AnswerIds
      /\ id = "CYCLIC_VIDEO_RECORD" => cyc # 0
  BY MessagesTyped DEF Message, InterruptIds, AnswerIds, ReplyIds, RecInv, CycleInv,
                       VIDEO_RECORD_CYCLE_TIMER_ID
<1>3. state = "preview" => sts' = {}
  BY <1>1, PreviewIs
<1> QED
  BY <1>1, <1>2, <1>3, TellingKeeps, StqKeeps, Kept DEF Busy, Waits

LEMMA InterruptsStep ==
  ASSUME Types, RecInv,
         \/ TimerTick(VIDEO_RECORD_CYCLE_TIMER_ID, "CYCLIC_VIDEO_RECORD", CycleWork)
         \/ TimerTick(POWER_OFF_TIMER_ID, "POWER_KEY_ACTIVE", {"POWER_KEY_ACTIVE"})
         \/ \E id \in {"WRITE_ERROR", "GROUP_END"} : PackerError(id)
  PROVE  RecInv'
  BY InterruptStep DEF TimerTick, PackerError, InterruptIds

\* The storage task does not begin to search.
LEMMA NoSearch ==
  ASSUME ~ searching,
         \/ StateHandlingTask \/ PeripheralTask \/ \E long \in BOOLEAN : VideoKey(long)
         \/ TimerTick(VIDEO_RECORD_CYCLE_TIMER_ID, "CYCLIC_VIDEO_RECORD", CycleWork)
         \/ TimerTick(POWER_OFF_TIMER_ID, "POWER_KEY_ACTIVE", {"POWER_KEY_ACTIVE"})
         \/ \E id \in {"WRITE_ERROR", "GROUP_END"} : PackerError(id)
         \/ CapturePicture
  PROVE  ~ searching'
<1>1. CASE StateHandlingTask
  BY <1>1 DEF StateHandlingTask, StorageNews, RecordActive, CaptureWhileRecording, GoToPreview,
              VidReply, VidCyclicReply, CyclicVideoRecord, PackerWriteError, PackerGroupEnd,
              PowerKeyActive, GoToRecord, CaptureActive, PicReply, PicDone, DropMessage,
              unheard, recordOnly, outside
<1>2. CASE PeripheralTask \/ \E long \in BOOLEAN : VideoKey(long)
  BY <1>2 DEF PeripheralTask, LedSet, LedFlashSet, VideoKey, apSide, outside
<1>3. CASE \/ TimerTick(VIDEO_RECORD_CYCLE_TIMER_ID, "CYCLIC_VIDEO_RECORD", CycleWork)
           \/ TimerTick(POWER_OFF_TIMER_ID, "POWER_KEY_ACTIVE", {"POWER_KEY_ACTIVE"})
           \/ \E id \in {"WRITE_ERROR", "GROUP_END"} : PackerError(id)
  BY <1>3 DEF TimerTick, PackerError, Interrupt, outside
<1>4. CASE CapturePicture
  BY <1>4 DEF CapturePicture, outside
<1> QED
  BY <1>1, <1>2, <1>3, <1>4

LEMMA RecInvStep ==
  ASSUME Types, RecInv, ~ searching, ~ derailed', [Next]_vars
  PROVE  Sound'
<1>1. CASE UNCHANGED vars
  <2>1. RecInv'
    BY <1>1 DEF vars, apVars, countVars, outside, history, RecInv, QueuesInv, WaitInv, FilesInv,
                EncInv, PollInv, CycleInv, Writes, Recording, Requested, Answering, TimerAsked,
                Ticked, Busy, Waits
  <2> QED
    BY <1>1, <2>1 DEF Sound, vars, outside
<1>2. CASE (MountTick \/ MoveCard) /\ UNCHANGED otherTasks
  BY <1>2, PollingStep DEF Sound, MountTick, MoveCard
<1>3. CASE StorageTask /\ UNCHANGED otherTasks
  BY <1>3, StorageTaskStep
<1>4. CASE StateHandlingTask
  <2>1. RecInv'
    BY <1>4, NewsStep, KeyStep, GoToPreviewStep, VidReplyStep, VidCyclicReplyStep, CycleStep,
       GoToRecordStep, CaptureActiveStep, PicReplyStep, PicDoneStep, DropStep
       DEF StateHandlingTask
  <2> QED
    BY <1>4, <2>1, NoSearch DEF Sound
<1>5. CASE PeripheralTask \/ \E long \in BOOLEAN : VideoKey(long)
  BY <1>5, PeripheralStep, NoSearch DEF Sound
<1>6. CASE \/ TimerTick(VIDEO_RECORD_CYCLE_TIMER_ID, "CYCLIC_VIDEO_RECORD", CycleWork)
           \/ TimerTick(POWER_OFF_TIMER_ID, "POWER_KEY_ACTIVE", {"POWER_KEY_ACTIVE"})
           \/ \E id \in {"WRITE_ERROR", "GROUP_END"} : PackerError(id)
  BY <1>6, InterruptsStep, NoSearch DEF Sound
<1>7. CASE CapturePicture
  BY <1>7, PictureStep, NoSearch DEF Sound
<1> QED
  BY <1>1, <1>2, <1>3, <1>4, <1>5, <1>6, <1>7 DEF Next

(* During the search only interrupts and the user do anything.             *)
LEMMA SearchStep ==
  ASSUME Types, SearchInv, searching, [Next]_vars
  PROVE  searching' /\ SearchInv'
<1>1. /\ UNCHANGED <<searching, state, sts, open, capturing, enc, mountTimer, mountedOver>>
      /\ \/ apq' = apq
         \/ \E id \in InterruptIds : apq' = Append(apq, Message(id))
  <2>1. CASE UNCHANGED vars
    BY <2>1 DEF vars, apVars, outside, history
  <2>2. CASE (MountTick \/ StorageTask \/ MoveCard) /\ UNCHANGED otherTasks
    BY <2>2 DEF SearchInv, MountTick, StorageTask, MoveCard, otherTasks, apVars, storageVars
  <2>3. CASE StateHandlingTask \/ PeripheralTask \/ \E long \in BOOLEAN : VideoKey(long)
    BY <2>3 DEF StateHandlingTask, PeripheralTask, VideoKey
  <2>4. CASE CapturePicture
    BY <2>4 DEF SearchInv, CapturePicture
  <2>5. ASSUME NEW id \in InterruptIds, Interrupt(id)
        PROVE  /\ UNCHANGED <<searching, state, sts, open, capturing, enc, mountTimer,
                              mountedOver>>
               /\ apq' = Append(apq, Message(id))
    BY <2>5 DEF Interrupt, apVars, outside, history
  <2>6. CASE \/ TimerTick(VIDEO_RECORD_CYCLE_TIMER_ID, "CYCLIC_VIDEO_RECORD", CycleWork)
             \/ TimerTick(POWER_OFF_TIMER_ID, "POWER_KEY_ACTIVE", {"POWER_KEY_ACTIVE"})
             \/ \E id \in {"WRITE_ERROR", "GROUP_END"} : PackerError(id)
    BY <2>5, <2>6 DEF TimerTick, PackerError, InterruptIds
  <2> QED
    BY <2>1, <2>2, <2>3, <2>4, <2>6 DEF Next
<1>2. ~ Answers(apq')
  <2>1. ASSUME NEW id \in InterruptIds, apq' = Append(apq, Message(id)) PROVE ~ Answers(apq')
    <3>1. Message(id) \in ApMsgs /\ Message(id).id = id /\ id \notin AnswerIds
      BY MessagesTyped DEF Message, InterruptIds, AnswerIds, ReplyIds
    <3>2. apq \in Seq(ApMsgs)
      BY DEF Types, QueueTypes
    <3> QED
      BY <2>1, <3>1, <3>2, TellsAppend DEF SearchInv, Answering, Answers, AnswerIds, ReplyIds
  <2> QED
    BY <1>1, <2>1 DEF SearchInv, Answering
<1> QED
  BY <1>1, <1>2 DEF SearchInv, Answering, Busy, Waits

(* What derails the recorder is not forgotten.                             *)
LEMMA DerailedStays ==
  ASSUME derailed, [Next]_vars
  PROVE  derailed'
<1>1. CASE UNCHANGED vars
  BY <1>1 DEF vars, history
<1>2. CASE (MountTick \/ StorageTask \/ MoveCard) /\ UNCHANGED otherTasks
  BY <1>2 DEF otherTasks
<1>3. CASE StateHandlingTask
  BY <1>3 DEF StateHandlingTask, StorageNews, RecordActive, CaptureWhileRecording, GoToPreview,
              VidReply, VidCyclicReply, CyclicVideoRecord, PackerWriteError, PackerGroupEnd,
              PowerKeyActive, GoToRecord, CaptureActive, PicReply, PicDone, DropMessage,
              Derails, recordOnly, history
<1>4. CASE PeripheralTask \/ \E long \in BOOLEAN : VideoKey(long)
  BY <1>4 DEF PeripheralTask, LedSet, LedFlashSet, VideoKey, apSide, history
<1>5. CASE \/ TimerTick(VIDEO_RECORD_CYCLE_TIMER_ID, "CYCLIC_VIDEO_RECORD", CycleWork)
           \/ TimerTick(POWER_OFF_TIMER_ID, "POWER_KEY_ACTIVE", {"POWER_KEY_ACTIVE"})
           \/ \E id \in {"WRITE_ERROR", "GROUP_END"} : PackerError(id)
  BY <1>5 DEF TimerTick, PackerError, Interrupt, history
<1>6. CASE CapturePicture
  BY <1>6 DEF CapturePicture, history
<1> QED
  BY <1>1, <1>2, <1>3, <1>4, <1>5, <1>6 DEF Next

LEMMA InitSound ==
  ASSUME NEW inserted \in BOOLEAN, PowerOn(inserted)
  PROVE  Sound
<1>1. /\ stq = <<>> /\ apq = <<>> /\ mountTimer = TRUE /\ open = {} /\ ~ mountedOver
      /\ state = "record" /\ sts \subseteq {"UNMOUNT"} /\ psts = {} /\ ~ searching
      /\ cyc = IF inserted THEN NO_TIMER ELSE 0
      /\ enc = Idle /\ capturing = FALSE /\ timers = {}
  BY DEF PowerOn, StorageInit
<1>2. /\ \A x : ~ Holds(stq, x) /\ ~ Tells(apq, x)
      /\ RequestLast(stq) /\ OneAnswer(apq)
      /\ \A files : AnswersWith(apq, files)
  BY <1>1 DEF Holds, Tells, RequestLast, OneAnswer, AnswersWith
<1>3. ~ Requested /\ ~ Answering
  BY <1>2 DEF Requested, Asks, Answering, Answers
<1>4. ~ Busy /\ ~ Waits
  BY <1>1 DEF Busy, Waits
<1>5. enc.into = NoFile /\ ~ enc.started
  BY <1>1 DEF Idle
<1>6. cyc # VIDEO_RECORD_CYCLE_TIMER_ID
  BY <1>1 DEF NO_TIMER, VIDEO_RECORD_CYCLE_TIMER_ID
<1>7. QueuesInv
  BY <1>1, <1>2, <1>3 DEF QueuesInv
<1>8. WaitInv
  BY <1>1, <1>2, <1>4 DEF WaitInv
<1>9. FilesInv /\ EncInv /\ PollInv
  BY <1>1, <1>2, <1>3, <1>5 DEF FilesInv, EncInv, PollInv
<1>10. CycleInv
  BY <1>1, <1>2, <1>4, <1>6 DEF CycleInv, Ticked
<1> QED
  BY <1>1, <1>7, <1>8, <1>9, <1>10 DEF RecInv, Sound

(* The invariant: the recorder is sound until it is derailed.              *)
THEOREM SoundUntilDerailed == Spec => [](Types /\ (derailed \/ Sound))
<1>1. Init => Types /\ (derailed \/ Sound)
  BY InitTypes, InitSound DEF Init
<1>2. Types /\ (derailed \/ Sound) /\ [Next]_vars => Types' /\ (derailed' \/ Sound')
  <2> SUFFICES ASSUME Types, derailed \/ Sound, [Next]_vars, ~ derailed' PROVE Types' /\ Sound'
    BY TypesStep
  <2>1. Types'
    BY TypesStep
  <2>2. Sound
    BY DerailedStays
  <2>3. CASE searching
    BY <2>1, <2>2, <2>3, SearchStep DEF Sound
  <2>4. CASE ~ searching
    BY <2>1, <2>2, <2>4, RecInvStep DEF Sound
  <2> QED
    BY <2>1, <2>3, <2>4
<1> QED
  BY <1>1, <1>2, PTL DEF Spec
-----------------------------------------------------------------------------
(* What the invariant says.                                                *)

(* The messages that bring a file are the answers.                         *)
LEMMA FilesInAnswers ==
  ASSUME Types
  PROVE  \A i \in DOMAIN apq : apq[i].file # NoFile => apq[i].id \in AnswerIds
<1> SUFFICES ASSUME NEW i \in DOMAIN apq PROVE apq[i].file # NoFile => apq[i].id \in AnswerIds
  OBVIOUS
<1>1. apq[i] \in ApMsgs
  BY DEF Types, QueueTypes
<1> QED
  BY <1>1 DEF ApMsgs, AnswerIds

\* During the search nothing is quiet, and nothing is recorded that the
\* encoder has not refused to stop.
LEMMA SearchIs ==
  ASSUME SearchInv
  PROVE  /\ ~ Quiet /\ open = {} /\ ~ mountTimer /\ ~ mountedOver /\ ~ Answering
         /\ Recording => enc.refused
  BY DEF SearchInv, Quiet, Waits, Recording

(* No handle is lost: an open file is on its way to the state-handling     *)
(* task, or the encoder or the picture writes to it, until the recorder is *)
(* derailed.                                                               *)
THEOREM RecorderFilesAccounted == Spec => []FilesAccounted
<1>1. Types /\ (derailed \/ Sound) => FilesAccounted
  <2> SUFFICES ASSUME Types, Sound, NEW f \in open
               PROVE  \/ f \in InReplies
                      \/ f = enc.into /\ Recording
                      \/ f = enc.file /\ capturing
    BY DEF FilesAccounted
  <2>1. f # NoFile
    BY FilesAssumption DEF Types, DataTypes
  <2>2. RecInv
    BY SearchIs DEF Sound
  <2>3. CASE Answering
    <3>1. PICK i \in DOMAIN apq : apq[i].id \in AnswerIds
      BY <2>3, Questions DEF Answering
    <3>2. open = {apq[i].file} \ {NoFile}
      BY <2>2, <3>1 DEF RecInv, FilesInv, AnswersWith
    <3> QED
      BY <2>1, <3>2 DEF InReplies
  <2>4. CASE capturing
    BY <2>2, <2>4 DEF RecInv, FilesInv
  <2>5. CASE Writes
    BY <2>5 DEF Writes
  <2> QED
    BY <2>2, <2>3, <2>4, <2>5 DEF RecInv, FilesInv
<1> QED
  BY <1>1, SoundUntilDerailed, PTL

(* No handle is stolen: a file on its way to the state-handling task is    *)
(* open, and is on its way once, until the recorder is derailed.           *)
THEOREM RecorderRepliesOpen == Spec => []RepliesOpen
<1>1. Types /\ (derailed \/ Sound) => RepliesOpen
  <2> SUFFICES ASSUME Types, Sound
               PROVE  /\ InReplies \subseteq open
                      /\ \A i, j \in DOMAIN apq :
                           apq[i].file = apq[j].file /\ apq[i].file # NoFile => i = j
    BY DEF RepliesOpen
  <2>1. \A i \in DOMAIN apq : apq[i].file # NoFile => apq[i].id \in AnswerIds
    BY FilesInAnswers
  <2>2. AnswersWith(apq, open) /\ OneAnswer(apq)
    <3>1. SearchInv => ~ Answers(apq)
      BY SearchIs DEF Answering
    <3> QED
      BY <3>1, Questions DEF Sound, RecInv, QueuesInv, FilesInv
  <2>3. InReplies \subseteq open
    BY <2>1, <2>2 DEF InReplies, AnswersWith
  <2>4. \A i, j \in DOMAIN apq : apq[i].file = apq[j].file /\ apq[i].file # NoFile => i = j
    BY <2>1, <2>2 DEF OneAnswer
  <2> QED
    BY <2>3, <2>4
<1> QED
  BY <1>1, SoundUntilDerailed, PTL

(* Whatever the encoder records, the key can stop: the task is in the      *)
(* record state and busy, until encoder or packer has refused to stop or   *)
(* the recorder is derailed.                                               *)
THEOREM RecorderControlled == Spec => []Controlled
<1>1. derailed \/ Sound => Controlled
  BY SearchIs DEF Sound, RecInv, EncInv, Controlled, Recording, Busy
<1> QED
  BY <1>1, SoundUntilDerailed, PTL

(* The card is looked for, and mounted, only while no file is open, until  *)
(* the recorder is derailed: also by the state-handling task, which mounts *)
(* it when a group of clusters is used up.                                 *)
THEOREM RecorderPollsWhileClosed == Spec => []PollsWhileClosed
<1>1. derailed \/ Sound => PollsWhileClosed
  BY SearchIs DEF Sound, RecInv, PollInv, PollsWhileClosed
<1> QED
  BY <1>1, SoundUntilDerailed, PTL

(* A quiet moment: no request, no answer is under way.                     *)
LEMMA QuietIs ==
  ASSUME Quiet
  PROVE  ~ Requested /\ ~ Answering /\ ~ TimerAsked /\ ~ capturing /\ ~ Waits
<1>1. \A x : x # "STORAGE_CHECK" => ~ Holds(stq, x)
  BY DEF Quiet, Holds
<1>2. \A x : ~ Tells(apq, x)
  BY DEF Quiet, Tells
<1> QED
  BY <1>1, <1>2 DEF Quiet, Requested, Asks, Answering, Answers, TimerAsked, Waits

(* Once BUSY is clear the card is looked for again, until the recorder is  *)
(* derailed: whoever stops a recording, gives up a file or takes a picture *)
(* asks for it.                                                            *)
THEOREM RecorderPollingResumes == Spec => []PollingResumes
<1>1. derailed \/ Sound => PollingResumes
  BY SearchIs, QuietIs DEF Sound, RecInv, PollInv, PollingResumes, Busy
<1> QED
  BY <1>1, SoundUntilDerailed, PTL

(* The cycle timer runs only during a recording, until the recorder is     *)
(* derailed: every way out of a recording kills it.                        *)
THEOREM RecorderCycleOnlyWhileBusy == Spec => []CycleOnlyWhileBusy
<1>1. derailed \/ Sound => CycleOnlyWhileBusy
  BY SearchIs DEF Sound, RecInv, CycleInv, CycleOnlyWhileBusy, Busy
<1> QED
  BY <1>1, SoundUntilDerailed, PTL

(* A recording is cut into files, until the recorder is derailed; but for  *)
(* the first one after power-on without a card, which finds the timer's id *)
(* 0 and takes the timer for set.                                          *)
THEOREM RecorderCycleArmed == Spec => []CycleArmed
<1>1. Types /\ (derailed \/ Sound) => CycleArmed
  <2> SUFFICES ASSUME Types, Sound, Quiet, Recording, Busy, cyc # 0
               PROVE  VIDEO_RECORD_CYCLE_TIMER_ID \in timers
    BY DEF CycleArmed, Busy
  <2>1. RecInv
    BY SearchIs DEF Sound
  <2>2. ~ Waits /\ ~ Requested /\ ~ Answering /\ ~ capturing
    BY QuietIs
  <2>3. state = "record"
    BY <2>1 DEF RecInv, WaitInv, Busy, Types, DataTypes
  <2> QED
    BY <2>1, <2>2, <2>3 DEF RecInv, CycleInv
<1> QED
  BY <1>1, SoundUntilDerailed, PTL
=============================================================================
