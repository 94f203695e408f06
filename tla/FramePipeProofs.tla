--------------------------- MODULE FramePipeProofs --------------------------
(***************************************************************************)
(* What holds of the way of pictures to the AVI packer for any number of   *)
(* sensor and video buffers, of pieces of a frame, of losses, failures and *)
(* calls.  What is promised of the frames' buffers holds of every recording *)
(* that has begun after the one before it had settled, whatever came        *)
(* before (~ hurried).                                                     *)
(***************************************************************************)
EXTENDS FramePipe, SequenceTheorems, FiniteSetTheorems, WellFoundedInduction, TLAPS

-----------------------------------------------------------------------------
\* The messages that are no requests.
Data == {"PIECE", "WRITE_DONE", "FRAME", "CAPTURE_PICTURE"}

\* The request that the state-handling task makes, and whether it is done.
Doing == IF todo = <<>> THEN "nothing" ELSE Head(todo).id
Handled(id) == Doing = id /\ waiting /\ ack[Head(todo).to]

\* What a request asks for, and the one that comes after it.
RequestOf(id) ==
  CASE id = "STOP_SENSOR" -> Request("avi", id, "SENSOR", FALSE)
    [] id = "STOP" -> Request("enc", id, "VIDEO", FALSE)
    [] id = "SCALER_STOP" -> Request("scaler", id, "SCALER", FALSE)
    [] id = "SCALER_INIT" -> Request("scaler", id, "SCALER", TRUE)
    [] id = "INIT" -> Request("enc", id, "VIDEO", TRUE)
    [] id = "START_SENSOR" -> Request("avi", id, "SENSOR", TRUE)
    [] id = "OPEN" -> Request("packer", id, "PACKER0", TRUE)
    [] id = "START_ENCODE" -> Request("avi", id, "START", TRUE)
    [] id = "STOP_ENCODE" -> Request("avi", id, "START", FALSE)
    [] OTHER -> Request("packer", id, "PACKER0", FALSE)

After(id) ==
  CASE id = "STOP_SENSOR" -> "STOP"
    [] id = "STOP" -> "SCALER_STOP"
    [] id = "SCALER_STOP" -> "SCALER_INIT"
    [] id = "SCALER_INIT" -> "INIT"
    [] id = "INIT" -> "START_SENSOR"
    [] id = "OPEN" -> "START_ENCODE"
    [] id = "STOP_ENCODE" -> "CLOSE"
    [] OTHER -> "nothing"

SwitchIds == {"STOP_SENSOR", "STOP", "SCALER_STOP", "SCALER_INIT", "INIT", "START_SENSOR"}
RequestIds == SwitchIds \cup {"OPEN", "START_ENCODE", "STOP_ENCODE", "CLOSE"}

Flags == {"SCALER", "VIDEO", "SENSOR", "PACKER0", "START"}

\* The requests are the rest of one of the calls.
TodoInv ==
  /\ todo \in Seq([to : Mailboxes, id : RequestIds, flag : Flags, on : BOOLEAN])
  /\ \A k \in DOMAIN todo :
       /\ todo[k] = RequestOf(todo[k].id)
       /\ IF k = Len(todo) THEN After(todo[k].id) = "nothing"
          ELSE todo[k + 1].id = After(todo[k].id)

\* The flags in the status, before each request.
Preview == {"SCALER", "VIDEO", "SENSOR"}
StatusAt(id) ==
  CASE id = "STOP" -> {"SCALER", "VIDEO"}
    [] id = "SCALER_STOP" -> {"SCALER"}
    [] id = "SCALER_INIT" -> {}
    [] id = "INIT" -> {"SCALER"}
    [] id = "START_SENSOR" -> {"SCALER", "VIDEO"}
    [] id \in {"START_ENCODE", "CLOSE"} -> Preview \cup {"PACKER0"}
    [] id = "STOP_ENCODE" -> Preview \cup {"PACKER0", "START"}
    [] OTHER -> Preview

StatusInv ==
  IF Doing = "nothing" THEN status \in {Preview, Preview \cup {"PACKER0", "START"}}
  ELSE status = StatusAt(Doing)

\* A request is under way only while its caller waits for the acknowledgement.
RequestInv ==
  /\ waiting => todo # <<>>
  /\ \A b \in Mailboxes : \A k \in DOMAIN inbox[b] : inbox[b][k].id \notin Data =>
       /\ waiting /\ Head(todo).to = b /\ Doing = inbox[b][k].id /\ ~ ack[b]
       /\ \A j \in DOMAIN inbox[b] : inbox[b][j].id \notin Data => j = k

Client == TodoInv /\ StatusInv /\ RequestInv

\* A picture that was asked for is in one place.
Captures == Queued("avi", "CAPTURE_PICTURE")
PictureInv ==
  /\ shooting => todo = <<>> /\ "START" \notin status
  /\ captureFlag \/ action \/ Captures # {} \/ reports > 0 => shooting
  /\ captureFlag => ~ action
  /\ captureFlag \/ action => Captures = {} /\ reports = 0
  /\ Captures # {} => reports = 0
  /\ \A j, k \in Captures : j = k

\* Nothing is encoded between frames, nor for a recording while a picture is taken.
EncoderInv ==
  /\ started <=> video # None
  /\ cnt = 0 => ~ started
  /\ action \/ Captures # {} \/ reports > 0 \/ Doing \in SwitchIds => ~ started

\* A sensor buffer is free, in a register, or in one piece on its way.
OnePieceEach ==
  \A j, k \in Queued("enc", "PIECE") : inbox["enc"][j].buf = inbox["enc"][k].buf => j = k

InOnePlace ==
  /\ IsInjective(cmosq) /\ OnePieceEach
  /\ regs[0] = regs[1] => regs[0] = DUMMY
  /\ Range(cmosq) \cap Buffers("enc", "PIECE") = {}
  /\ {regs[0], regs[1]} \cap (Range(cmosq) \cup Buffers("enc", "PIECE")) = {}
  /\ CsiBuffers \subseteq Range(cmosq) \cup Buffers("enc", "PIECE") \cup {regs[0], regs[1]}

SensorInv ==
  /\ Handled("STOP_SENSOR") \/ (Doing \in SwitchIds \ {"STOP_SENSOR"} /\ ~ Handled("START_SENSOR"))
       => ~ sensor.on
  /\ Handled("STOP") \/ (Doing \in SwitchIds \ {"STOP_SENSOR", "STOP"} /\ ~ Handled("START_SENSOR"))
       => Queued("enc", "PIECE") = {}
  /\ sensor.on => InOnePlace

PackerInv ==
  Handled("OPEN") \/ ("PACKER0" \in status /\ Doing # "CLOSE") => packing

\* The packer has one frame at most.
AtMostOne(b, id) == \A j, k \in Queued(b, id) : j = k
OneFrame ==
  /\ AtMostOne("enc", "WRITE_DONE") /\ AtMostOne("packer", "FRAME")
  /\ Buffers("enc", "WRITE_DONE") = {} \/ Buffers("packer", "FRAME") = {}

\* A video buffer is used for one frame, which waits, is written, or is encoded.
Recording == "START" \in status \/ Handled("START_ENCODE")
Encoding == IF started THEN {video} ELSE {}
InOneRole ==
  /\ used = Range(stamps) \cup PackerHas \cup Encoding
  /\ IsInjective(stamps)
  /\ Range(stamps) \cap PackerHas = {}
  /\ Encoding \cap (Range(stamps) \cup PackerHas) = {}

\* A recording's frames wait only while the packer has one.
FlowInv ==
  Recording =>
    /\ sendFlag => PackerHas # {}
    /\ ~ sendFlag => stamps = <<>>

PipeInv ==
  /\ TypeOK /\ Client /\ PictureInv /\ EncoderInv
  /\ SensorInv /\ PackerInv /\ FlowInv

\* ... and exactly one when a recording has begun after the last had settled.
FlightInv ==
  /\ OneFrame
  /\ Recording => (PackerHas # {} => sendFlag) /\ InOneRole
  /\ Handled("START_ENCODE") => ~ started
-----------------------------------------------------------------------------
(* Messages and mailboxes.                                                 *)

\* Sequence t is s without its first element; t is s with m at its end.
Shifted(s, t) ==
  /\ Len(s) \in Nat \ {0} /\ DOMAIN s = 1 .. Len(s) /\ DOMAIN t = 1 .. Len(s) - 1
  /\ \A k \in DOMAIN t : t[k] = s[k + 1]

Extended(s, t, m) ==
  /\ Len(s) \in Nat /\ DOMAIN s = 1 .. Len(s) /\ DOMAIN t = 1 .. Len(s) + 1
  /\ \A k \in DOMAIN s : t[k] = s[k]
  /\ t[Len(s) + 1] = m

LEMMA TailShifts ==
  ASSUME NEW S, NEW s \in Seq(S), s # <<>>
  PROVE  /\ Tail(s) \in Seq(S) /\ Shifted(s, Tail(s)) /\ Len(Tail(s)) = Len(s) - 1
         /\ Head(s) = s[1] /\ s[1] \in S /\ 1 \in DOMAIN s
<1>1. Len(s) \in Nat \ {0} /\ DOMAIN s = 1 .. Len(s)
  BY EmptySeq, LenProperties
<1>2. /\ Tail(s) \in Seq(S) /\ Len(Tail(s)) = Len(s) - 1
      /\ \A i \in 1 .. Len(Tail(s)) : Tail(s)[i] = s[i + 1]
  BY HeadTailProperties
<1>3. DOMAIN Tail(s) = 1 .. Len(s) - 1
  BY <1>2, LenProperties
<1>4. Head(s) = s[1] /\ s[1] \in S
  BY <1>1, ElementOfSeq
<1> QED
  BY <1>1, <1>2, <1>3, <1>4 DEF Shifted

LEMMA AppendExtends ==
  ASSUME NEW S, NEW s \in Seq(S), NEW m \in S
  PROVE  /\ Append(s, m) \in Seq(S) /\ Extended(s, Append(s, m), m)
         /\ Len(Append(s, m)) = Len(s) + 1 /\ Append(s, m) # <<>>
<1>1. Len(s) \in Nat /\ DOMAIN s = 1 .. Len(s)
  BY LenProperties
<1>2. /\ Append(s, m) \in Seq(S) /\ Len(Append(s, m)) = Len(s) + 1 /\ Append(s, m) # <<>>
      /\ \A i \in 1 .. Len(s) : Append(s, m)[i] = s[i]
      /\ Append(s, m)[Len(s) + 1] = m
  BY AppendProperties
<1>3. DOMAIN Append(s, m) = 1 .. Len(s) + 1
  BY <1>2, LenProperties
<1> QED
  BY <1>1, <1>2, <1>3 DEF Extended

\* What a step does to mailbox b.
Taken(b) == Shifted(inbox[b], inbox'[b])
Given(b, m) == Extended(inbox[b], inbox'[b], m)
Same(b) == inbox'[b] = inbox[b]

Boxes(box) == DOMAIN box = Mailboxes /\ \A b \in Mailboxes : box[b] \in Seq(Messages(b))

LEMMA MailboxNames == Mailboxes = {"avi", "enc", "scaler", "packer"}
BY DEF Mailboxes

LEMMA FirstMessage ==
  ASSUME TypeOK, NEW b \in Mailboxes, inbox[b] # <<>>
  PROVE  Head(inbox[b]) = inbox[b][1] /\ inbox[b][1] \in Messages(b) /\ 1 \in DOMAIN inbox[b]
BY TailShifts DEF TypeOK

LEMMA AllMessages ==
  ASSUME TypeOK
  PROVE  \A b \in Mailboxes : \A k \in DOMAIN inbox[b] : inbox[b][k] \in Messages(b)
<1> SUFFICES ASSUME NEW b \in Mailboxes, NEW k \in DOMAIN inbox[b]
             PROVE  inbox[b][k] \in Messages(b)
  OBVIOUS
<1>1. inbox[b] \in Seq(Messages(b))
  BY DEF TypeOK
<1> QED
  BY <1>1, LenProperties

LEMMA RestTakes ==
  ASSUME TypeOK, NEW b \in Mailboxes, inbox[b] # <<>>, inbox' = Rest(b)
  PROVE  Boxes(inbox') /\ Taken(b) /\ \A a \in Mailboxes \ {b} : Same(a)
<1>1. DOMAIN inbox = Mailboxes /\ inbox[b] \in Seq(Messages(b))
  BY DEF TypeOK
<1>2. inbox'[b] = Tail(inbox[b]) /\ \A a \in Mailboxes \ {b} : inbox'[a] = inbox[a]
  BY <1>1 DEF Rest
<1>3. DOMAIN inbox' = Mailboxes
  BY <1>1 DEF Rest
<1>4. Tail(inbox[b]) \in Seq(Messages(b)) /\ Shifted(inbox[b], Tail(inbox[b]))
  BY <1>1, TailShifts
<1> QED
  BY <1>2, <1>3, <1>4 DEF Taken, Same, Boxes, TypeOK

LEMMA PostGives ==
  ASSUME TypeOK, NEW b \in Mailboxes, NEW m \in Messages(b), inbox' = Post(inbox, b, m)
  PROVE  Boxes(inbox') /\ Given(b, m) /\ \A a \in Mailboxes \ {b} : Same(a)
<1>1. DOMAIN inbox = Mailboxes /\ inbox[b] \in Seq(Messages(b))
  BY DEF TypeOK
<1>2. inbox'[b] = Append(inbox[b], m) /\ \A a \in Mailboxes \ {b} : inbox'[a] = inbox[a]
  BY <1>1 DEF Post
<1>3. DOMAIN inbox' = Mailboxes
  BY <1>1 DEF Post
<1>4. Append(inbox[b], m) \in Seq(Messages(b)) /\ Extended(inbox[b], Append(inbox[b], m), m)
  BY <1>1, AppendExtends
<1> QED
  BY <1>2, <1>3, <1>4 DEF Given, Same, Boxes, TypeOK

LEMMA PostRestMoves ==
  ASSUME TypeOK, NEW c \in Mailboxes, inbox[c] # <<>>,
         NEW b \in Mailboxes \ {c}, NEW m \in Messages(b), inbox' = Post(Rest(c), b, m)
  PROVE  Boxes(inbox') /\ Taken(c) /\ Given(b, m) /\ \A a \in Mailboxes \ {b, c} : Same(a)
<1>1. DOMAIN inbox = Mailboxes /\ inbox[b] \in Seq(Messages(b)) /\ inbox[c] \in Seq(Messages(c))
  BY DEF TypeOK
<1>2. Rest(c)[b] = inbox[b] /\ DOMAIN Rest(c) = Mailboxes /\ Rest(c)[c] = Tail(inbox[c])
      /\ \A a \in Mailboxes \ {c} : Rest(c)[a] = inbox[a]
  BY <1>1 DEF Rest
<1>3. /\ inbox'[b] = Append(inbox[b], m) /\ inbox'[c] = Tail(inbox[c])
      /\ \A a \in Mailboxes \ {b, c} : inbox'[a] = inbox[a]
      /\ DOMAIN inbox' = Mailboxes
  BY <1>2 DEF Post
<1>4. Append(inbox[b], m) \in Seq(Messages(b)) /\ Extended(inbox[b], Append(inbox[b], m), m)
  BY <1>1, AppendExtends
<1>5. Tail(inbox[c]) \in Seq(Messages(c)) /\ Shifted(inbox[c], Tail(inbox[c]))
  BY <1>1, TailShifts
<1> QED
  BY <1>3, <1>4, <1>5 DEF Given, Taken, Same, Boxes, TypeOK

\* What can be in which mailbox.
LEMMA MessageKinds ==
  ASSUME TypeOK
  PROVE  /\ \A k \in DOMAIN inbox["avi"] : inbox["avi"][k].id \in
              {"START_SENSOR", "STOP_SENSOR", "START_ENCODE", "STOP_ENCODE", "CAPTURE_PICTURE"}
         /\ \A k \in DOMAIN inbox["scaler"] :
              inbox["scaler"][k].id \in {"SCALER_INIT", "SCALER_STOP"}
         /\ \A k \in DOMAIN inbox["packer"] :
              /\ inbox["packer"][k].id \in {"OPEN", "CLOSE", "FRAME"}
              /\ inbox["packer"][k].id = "FRAME" => inbox["packer"][k].buf \in VideoBuffers
         /\ \A k \in DOMAIN inbox["enc"] :
              /\ inbox["enc"][k].id \in {"INIT", "STOP", "WRITE_DONE", "PIECE"}
              /\ inbox["enc"][k].id = "WRITE_DONE" => inbox["enc"][k].buf \in VideoBuffers
              /\ inbox["enc"][k].id = "PIECE" =>
                   inbox["enc"][k].buf \in CsiBuffers /\ inbox["enc"][k].last \in BOOLEAN
<1>1. \A k \in DOMAIN inbox["avi"] : inbox["avi"][k].id \in
              {"START_SENSOR", "STOP_SENSOR", "START_ENCODE", "STOP_ENCODE", "CAPTURE_PICTURE"}
  BY AllMessages, MailboxNames DEF Messages
<1>2. \A k \in DOMAIN inbox["scaler"] :
              inbox["scaler"][k].id \in {"SCALER_INIT", "SCALER_STOP"}
  BY AllMessages, MailboxNames DEF Messages
<1>3. \A k \in DOMAIN inbox["packer"] :
              /\ inbox["packer"][k].id \in {"OPEN", "CLOSE", "FRAME"}
              /\ inbox["packer"][k].id = "FRAME" => inbox["packer"][k].buf \in VideoBuffers
  BY AllMessages, MailboxNames DEF Messages
<1>4. \A k \in DOMAIN inbox["enc"] :
              /\ inbox["enc"][k].id \in {"INIT", "STOP", "WRITE_DONE", "PIECE"}
              /\ inbox["enc"][k].id = "WRITE_DONE" => inbox["enc"][k].buf \in VideoBuffers
              /\ inbox["enc"][k].id = "PIECE" =>
                   inbox["enc"][k].buf \in CsiBuffers /\ inbox["enc"][k].last \in BOOLEAN
  BY AllMessages, MailboxNames DEF Messages
<1> QED
  BY <1>1, <1>2, <1>3, <1>4

-----------------------------------------------------------------------------
(* The buffer for the next frame.                                          *)

LEMMA RemoveAtDoes ==
  ASSUME NEW S, NEW s \in Seq(S), NEW k \in DOMAIN s
  PROVE  /\ RemoveAt(s, k) \in Seq(S) /\ Len(RemoveAt(s, k)) = Len(s) - 1
         /\ Len(s) \in Nat \ {0} /\ DOMAIN s = 1 .. Len(s)
         /\ \A i \in 1 .. Len(s) - 1 :
              RemoveAt(s, k)[i] = IF i < k THEN s[i] ELSE s[i + 1]
<1>1. Len(s) \in Nat /\ DOMAIN s = 1 .. Len(s) /\ \A i \in 1 .. Len(s) : s[i] \in S
  BY LenProperties
<1>2. k \in 1 .. Len(s)
  BY <1>1
<1> DEFINE a == SubSeq(s, 1, k - 1)
           b == SubSeq(s, k + 1, Len(s))
<1>3. /\ a \in Seq(S) /\ Len(a) = k - 1
      /\ \A i \in 1 .. k - 1 : a[i] = s[i]
  BY <1>1, <1>2, SubSeqProperties
<1>4. /\ b \in Seq(S) /\ Len(b) = Len(s) - k
      /\ \A i \in 1 .. Len(s) - k : b[i] = s[k + i]
  <2>1. /\ b \in Seq(S) /\ Len(b) = IF k + 1 <= Len(s) THEN Len(s) - (k + 1) + 1 ELSE 0
        /\ \A i \in 1 .. Len(s) - (k + 1) + 1 : b[i] = s[(k + 1) + i - 1]
    <3>1. k + 1 \in Int /\ Len(s) \in Int /\ \A i \in k + 1 .. Len(s) : s[i] \in S
      BY <1>1, <1>2
    <3> HIDE DEF b
    <3> QED
      BY <3>1, SubSeqProperties DEF b
  <2> HIDE DEF b
  <2>2. Len(b) = Len(s) - k
    BY <1>1, <1>2, <2>1
  <2>3. \A i \in 1 .. Len(s) - k : b[i] = s[k + i]
    <3> SUFFICES ASSUME NEW i \in 1 .. Len(s) - k PROVE b[i] = s[k + i]
      OBVIOUS
    <3>1. i \in 1 .. Len(s) - (k + 1) + 1 /\ (k + 1) + i - 1 = k + i
      BY <1>1, <1>2
    <3> QED
      BY <2>1, <3>1
  <2> QED
    BY <2>1, <2>2, <2>3
<1>5. RemoveAt(s, k) = a \o b
  BY DEF RemoveAt
<1> HIDE DEF a, b
<1>6. /\ a \o b \in Seq(S) /\ Len(a \o b) = Len(a) + Len(b)
      /\ \A i \in 1 .. Len(a) + Len(b) :
           (a \o b)[i] = IF i <= Len(a) THEN a[i] ELSE b[i - Len(a)]
  BY <1>3, <1>4, ConcatProperties
<1>7. ASSUME NEW i \in 1 .. Len(s) - 1
      PROVE  RemoveAt(s, k)[i] = IF i < k THEN s[i] ELSE s[i + 1]
  <2>1. i \in 1 .. Len(a) + Len(b) /\ (i <= Len(a) <=> i < k)
    BY <1>1, <1>2, <1>3, <1>4
  <2>2. CASE i < k
    <3>1. i \in 1 .. k - 1
      BY <1>1, <1>2, <2>2
    <3> QED
      BY <1>3, <1>5, <1>6, <2>1, <2>2, <3>1
  <2>3. CASE ~ (i < k)
    <3>1. i - Len(a) \in 1 .. Len(s) - k /\ k + (i - Len(a)) = i + 1
      BY <1>1, <1>2, <1>3, <2>3
    <3> QED
      BY <1>4, <1>5, <1>6, <2>1, <2>3, <3>1
  <2> QED
    BY <2>2, <2>3
<1> QED
  BY <1>1, <1>2, <1>3, <1>4, <1>5, <1>6, <1>7

\* There is a last free buffer.
LEMMA LastFree ==
  ASSUME NEW S \in SUBSET VideoBuffers, S # {}
  PROVE  Max(S) \in S
<1>1. VideoNo \in Nat /\ S \subseteq Nat /\ \A b \in S : b < VideoNo
  BY PipeAssumption DEF VideoBuffers
<1> DEFINE below == {VideoNo - b : b \in S}
<1>2. below \subseteq Nat /\ below # {}
  BY <1>1
<1>3. PICK m \in below : \A n \in below : ~ (<<n, m>> \in OpToRel(<, Nat))
  BY <1>2, NatLessThanWellFounded, WFMin
<1>4. PICK c \in S : m = VideoNo - c
  BY <1>3
<1>5. \A b \in S : ~ (VideoNo - b < VideoNo - c)
  BY <1>2, <1>3, <1>4 DEF OpToRel
<1>6. \A b \in S : c >= b
  BY <1>1, <1>5
<1> QED
  BY <1>6 DEF Max

\* avi_encode_get_video_frame takes a free buffer, gives a waiting frame up
\* or, when none is free, does without one.
LEMMA BufferTaken ==
  ASSUME TypeOK, NEW t \in TakeBuffer
  PROVE  \/ t.buf \in VideoBuffers \ used /\ t.wait = stamps
         \/ /\ used = VideoBuffers
            /\ \E k \in DOMAIN stamps : t.buf = stamps[k] /\ t.wait = RemoveAt(stamps, k)
         \/ t.buf = None /\ t.wait = stamps
<1> DEFINE free == VideoBuffers \ used
<1>1. CASE free # {}
  <2>1. Max(free) \in free
    BY <1>1, LastFree
  <2> QED
    BY <1>1, <2>1 DEF TakeBuffer
<1>2. CASE free = {}
  <2>1. used = VideoBuffers
    BY <1>2 DEF TypeOK
  <2>2. \/ \E k \in 0 .. Len(stamps) - 1 : t = [buf |-> stamps[k + 1], wait |-> GivenUp(k)]
        \/ t = [buf |-> None, wait |-> stamps]
    BY <1>2 DEF TakeBuffer
  <2>3. ASSUME NEW k \in 0 .. Len(stamps) - 1, t = [buf |-> stamps[k + 1], wait |-> GivenUp(k)]
        PROVE  \E j \in DOMAIN stamps : t.buf = stamps[j] /\ t.wait = RemoveAt(stamps, j)
    <3>1. k + 1 \in DOMAIN stamps
      <4>1. Len(stamps) \in Nat /\ DOMAIN stamps = 1 .. Len(stamps)
        BY LenProperties DEF TypeOK
      <4> QED
        BY <2>3, <4>1
    <3>2. t.buf = stamps[k + 1] /\ t.wait = RemoveAt(stamps, k + 1)
      BY <2>3 DEF GivenUp
    <3> QED
      BY <3>1, <3>2
  <2> QED
    BY <2>1, <2>2, <2>3
<1> QED
  BY <1>1, <1>2


-----------------------------------------------------------------------------
(* What the steps do to the mailboxes, and that they keep the types.       *)

\* Only the start of a recording decides whether it has come too soon.
LEMMA HurriedDecided ==
  ASSUME Next
  PROVE  /\ StartEncode => (hurried' <=> ~ Settled)
         /\ ~ StartEncode => hurried' = hurried
<1>1. StartEncode => (hurried' <=> ~ Settled)
  BY DEF StartEncode
<1>2. CASE SwitchBuffer \/ ScalerTask \/ PackerTask
  BY <1>1, <1>2 DEF SwitchBuffer, ScalerTask, PackerTask
<1>3. CASE FirstPiece \/ MiddlePiece \/ PieceMissing \/ PictureEncoded \/ FrameEncoded \/ FrameDropped
  BY <1>1, <1>3 DEF FirstPiece, MiddlePiece, PieceMissing, PictureEncoded, FrameEncoded,
                    FrameDropped, PieceDone
<1>4. CASE VideoWriteDone \/ MjpegInit \/ EncodeTaskStop
  BY <1>1, <1>4 DEF VideoWriteDone, MjpegInit, EncodeTaskStop, notEncoding
<1>5. CASE StartSensor \/ StopSensor \/ StopEncode \/ CapturePicture
  BY <1>1, <1>5 DEF StartSensor, StopSensor, StopEncode, CapturePicture, notEncoding
<1>6. CASE PostMessage \/ PendMessage \/ CaptureSwitch
  BY <1>1, <1>6 DEF PostMessage, PendMessage, CaptureSwitch, others
<1>7. CASE CallStart \/ CallStop \/ CallCapture
  BY <1>1, <1>7 DEF CallStart, CallStop, CallCapture, Call, others
<1> QED
  BY <1>1, <1>2, <1>3, <1>4, <1>5, <1>6, <1>7
  DEF Next, EncoderTask, AviTask, StateHandlingTask

LEMMA HurriedTypes ==
  ASSUME TypeOK,
         \/ SwitchBuffer \/ ScalerTask \/ PackerTask
         \/ VideoWriteDone \/ MjpegInit \/ EncodeTaskStop
         \/ StartSensor \/ StopSensor \/ StartEncode \/ StopEncode \/ CapturePicture
         \/ PostMessage \/ PendMessage \/ CaptureSwitch \/ CallStart \/ CallStop \/ CallCapture
  PROVE  hurried' \in BOOLEAN
<1>1. hurried \in BOOLEAN
  BY DEF TypeOK
<1>2. Next
  BY DEF Next, EncoderTask, AviTask, StateHandlingTask
<1>3. CASE StartEncode
  BY <1>3 DEF StartEncode
<1> QED
  BY <1>1, <1>2, <1>3, HurriedDecided

LEMMA PieceReceived ==
  ASSUME TypeOK, Receive("enc", "PIECE"), PieceDone
  PROVE  /\ inbox["enc"] # <<>> /\ 1 \in DOMAIN inbox["enc"]
         /\ encQueued = inbox["enc"][1] /\ inbox["enc"][1].id = "PIECE"
         /\ inbox["enc"][1].buf \in CsiBuffers
         /\ cmosq' \in Seq(CsiBuffers) /\ Extended(cmosq, cmosq', inbox["enc"][1].buf)
         /\ UNCHANGED <<sensor, regs, late, ack, packing, reports, clientVars, hurried>>
         /\ NextCount = 1 => cnt = 0
<1>1. "enc" \in Mailboxes /\ inbox["enc"] # <<>> /\ Head(inbox["enc"]).id = "PIECE"
  BY MailboxNames DEF Receive
<1>2. Head(inbox["enc"]) = inbox["enc"][1] /\ 1 \in DOMAIN inbox["enc"]
  BY <1>1, FirstMessage
<1>3. inbox["enc"][1].buf \in CsiBuffers /\ inbox["enc"][1].last \in BOOLEAN
  BY <1>1, <1>2, MessageKinds
<1>4. cmosq' = Append(cmosq, inbox["enc"][1].buf)
  BY <1>2 DEF PieceDone, encQueued
<1>5. cmosq' \in Seq(CsiBuffers) /\ Extended(cmosq, cmosq', inbox["enc"][1].buf)
  BY <1>3, <1>4, AppendExtends DEF TypeOK
<1>6. NextCount = 1 => cnt = 0
  BY PipeAssumption DEF NextCount, Count, BROKEN, TypeOK
<1> QED
  BY <1>1, <1>2, <1>3, <1>5, <1>6 DEF PieceDone, encQueued

\* The parts of the type invariant that a piece can change.
LEMMA PieceTypes ==
  ASSUME TypeOK, cmosq' \in Seq(CsiBuffers), Boxes(inbox'),
         cnt' \in 0 .. Pieces - 1, video' \in VideoBuffers \cup {None},
         started' \in BOOLEAN, action' \in BOOLEAN, captureFlag' \in BOOLEAN,
         used' \subseteq VideoBuffers, stamps' \in Seq(VideoBuffers), sendFlag' \in BOOLEAN,
         fails' \in 0 .. MaxFails,
         UNCHANGED <<sensor, regs, late, ack, packing, reports, clientVars, hurried>>
  PROVE  TypeOK'
<1>1. UNCHANGED <<sensor, regs, late, ack, packing, reports, status, waiting, shooting, calls, hurried>>
  BY DEF clientVars
<1> QED
  BY <1>1 DEF TypeOK, Boxes

LEMMA FailsTypes ==
  ASSUME TypeOK
  PROVE  EngineFails => fails' \in 0 .. MaxFails
BY PipeAssumption DEF EngineFails, TypeOK

\* The first piece of a frame: a picture's frame, or a recording's, or none.
NoBuffer == UNCHANGED <<video, started, used, stamps>>
NewBuffer(b) ==
  \/ video' = b /\ started' /\ used' = used \cup {b}
  \/ video' = None /\ ~ started' /\ used' = used \ {b}
Chosen ==
  /\ "START" \in status /\ ~ action' /\ ~ started
  /\ \/ \E b \in VideoBuffers \ used : NewBuffer(b) /\ stamps' = stamps
     \/ /\ used = VideoBuffers
        /\ \E k \in DOMAIN stamps : NewBuffer(stamps[k]) /\ stamps' = RemoveAt(stamps, k)

LEMMA FirstPieceDoes ==
  ASSUME TypeOK, EncoderInv, FirstPiece
  PROVE  /\ cnt = 0 /\ cnt' = 1 /\ ~ started
         /\ action' = (action \/ captureFlag) /\ ~ captureFlag'
         /\ sendFlag' = sendFlag /\ fails' \in 0 .. MaxFails
         /\ NoBuffer \/ Chosen
<1>1. /\ cnt = 0 /\ cnt' = 1 /\ action' = (action \/ captureFlag) /\ ~ captureFlag'
      /\ sendFlag' = sendFlag
  BY PieceReceived DEF FirstPiece
<1>2. ~ started /\ video = None /\ None \notin VideoBuffers
  BY <1>1, PipeAssumption DEF EncoderInv, VideoBuffers
<1>3. CASE action'
  <2>1. UNCHANGED <<video, started, used, stamps, fails>>
    BY <1>3 DEF FirstPiece
  <2> QED
    BY <1>1, <1>2, <2>1 DEF NoBuffer, TypeOK
<1>4. CASE ~ action' /\ "START" \notin status
  <2>1. PICK t \in {[buf |-> video, wait |-> stamps]} :
          /\ stamps' = t.wait
          /\ \/ /\ video' = t.buf
                /\ started' = (t.buf # None)
                /\ used' = used
                /\ UNCHANGED fails
             \/ t.buf # None
    BY <1>4 DEF FirstPiece
  <2>2. t.buf = None /\ t.wait = stamps
    BY <1>2, <2>1
  <2> QED
    BY <1>1, <1>2, <2>1, <2>2 DEF NoBuffer, TypeOK
<1>5. CASE ~ action' /\ "START" \in status
  <2>1. PICK t \in TakeBuffer :
          LET taken == IF t.buf # None THEN used \cup {t.buf} ELSE used
          IN  /\ stamps' = t.wait
              /\ \/ /\ video' = t.buf
                    /\ started' = (t.buf # None)
                    /\ used' = taken
                    /\ UNCHANGED fails
                 \/ /\ t.buf # None
                    /\ EngineFails
                    /\ used' = taken \ {t.buf}
                    /\ started' = FALSE
                    /\ video' = None
    BY <1>5 DEF FirstPiece
  <2>2. fails' \in 0 .. MaxFails
    BY <2>1, FailsTypes DEF TypeOK
  <2>3. CASE t.buf = None /\ t.wait = stamps
    <3>1. NoBuffer
      BY <1>2, <2>1, <2>3 DEF NoBuffer, TypeOK
    <3> QED
      BY <1>1, <1>2, <2>2, <3>1
  <2>4. CASE t.buf # None
    <3>1. NewBuffer(t.buf) /\ stamps' = t.wait
      BY <2>1, <2>4 DEF NewBuffer
    <3>2. \/ t.buf \in VideoBuffers \ used /\ t.wait = stamps
          \/ /\ used = VideoBuffers
             /\ \E k \in DOMAIN stamps : t.buf = stamps[k] /\ t.wait = RemoveAt(stamps, k)
      BY <2>4, BufferTaken
    <3>3. Chosen
      BY <1>2, <1>5, <3>1, <3>2 DEF Chosen
    <3> QED
      BY <1>1, <1>2, <2>2, <3>3
  <2>5. t.buf = None => t.wait = stamps
    <3>1. \A k \in DOMAIN stamps : stamps[k] # None
      <4>1. DOMAIN stamps = 1 .. Len(stamps) /\ \A k \in 1 .. Len(stamps) : stamps[k] \in VideoBuffers
        BY LenProperties DEF TypeOK
      <4> QED
        BY <1>2, <4>1
    <3> QED
      BY <1>2, <3>1, BufferTaken
  <2> QED
    BY <2>3, <2>4, <2>5
<1> QED
  BY <1>3, <1>4, <1>5

\* What every piece does.
PieceMoves ==
  /\ 1 \in DOMAIN inbox["enc"] /\ inbox["enc"][1].id = "PIECE"
  /\ Taken("enc") /\ Extended(cmosq, cmosq', inbox["enc"][1].buf)
  /\ Same("scaler")
  /\ UNCHANGED <<sensor, regs, ack, packing, reports, status, todo, waiting, shooting>>

LEMMA FirstPieceTypes ==
  ASSUME TypeOK, EncoderInv, FirstPiece
  PROVE  TypeOK' /\ PieceMoves /\ Same("avi") /\ Same("packer")
<1>1. Receive("enc", "PIECE") /\ PieceDone /\ inbox' = Rest("enc")
  BY DEF FirstPiece
<1>2. Boxes(inbox') /\ Taken("enc") /\ Same("avi") /\ Same("packer") /\ Same("scaler")
  BY <1>1, RestTakes, PieceReceived, MailboxNames
<1>3. cnt' \in 0 .. Pieces - 1
  BY FirstPieceDoes, PipeAssumption
<1>4. action' \in BOOLEAN /\ captureFlag' \in BOOLEAN /\ sendFlag' \in BOOLEAN
      /\ fails' \in 0 .. MaxFails
  BY FirstPieceDoes DEF TypeOK, FirstPiece
<1>5. /\ video' \in VideoBuffers \cup {None} /\ started' \in BOOLEAN
      /\ used' \subseteq VideoBuffers /\ stamps' \in Seq(VideoBuffers)
  <2>1. CASE NoBuffer
    BY <2>1 DEF NoBuffer, TypeOK
  <2>2. CASE Chosen
    <3>1. started' \in BOOLEAN
      <4>1. \/ UNCHANGED started
            \/ \E b : started' = (b # None)
            \/ started' = FALSE
        BY DEF FirstPiece
      <4> QED
        BY <4>1 DEF TypeOK
    <3>2. \A k \in DOMAIN stamps :
            stamps[k] \in VideoBuffers /\ RemoveAt(stamps, k) \in Seq(VideoBuffers)
      <4>1. DOMAIN stamps = 1 .. Len(stamps) /\ \A k \in 1 .. Len(stamps) : stamps[k] \in VideoBuffers
        BY LenProperties DEF TypeOK
      <4> QED
        BY <4>1, RemoveAtDoes DEF TypeOK
    <3> QED
      BY <2>2, <3>1, <3>2 DEF Chosen, NewBuffer, TypeOK
  <2> QED
    BY <2>1, <2>2, FirstPieceDoes
<1>6. TypeOK'
  BY <1>1, <1>2, <1>3, <1>4, <1>5, PieceReceived, PieceTypes
<1> QED
  BY <1>1, <1>2, <1>6, PieceReceived DEF PieceMoves, clientVars

LEMMA MiddlePieceTypes ==
  ASSUME TypeOK, MiddlePiece
  PROVE  TypeOK' /\ PieceMoves /\ Same("avi") /\ Same("packer")
         /\ cnt' # 0 /\ UNCHANGED <<action, captureFlag, stamps, sendFlag>>
         /\ \/ UNCHANGED <<video, started, used>>
            \/ started /\ video' = None /\ ~ started' /\ used' = used \ {video}
<1>1. Receive("enc", "PIECE") /\ PieceDone /\ inbox' = Rest("enc")
  BY DEF MiddlePiece
<1>2. Boxes(inbox') /\ Taken("enc") /\ Same("avi") /\ Same("packer") /\ Same("scaler")
  BY <1>1, RestTakes, PieceReceived, MailboxNames
<1>3. cnt' \in 0 .. Pieces - 1 /\ cnt' # 0
  BY PipeAssumption DEF MiddlePiece
<1>4. UNCHANGED <<action, captureFlag, stamps, sendFlag>>
  BY DEF MiddlePiece
<1>5. /\ fails' \in 0 .. MaxFails
      /\ \/ UNCHANGED <<video, started, used>>
         \/ started /\ video' = None /\ started' = FALSE /\ used' = used \ {video}
  BY FailsTypes DEF MiddlePiece, EncodeFail, TypeOK
<1>6. TypeOK'
  <2>1. /\ action' \in BOOLEAN /\ captureFlag' \in BOOLEAN /\ stamps' \in Seq(VideoBuffers)
        /\ sendFlag' \in BOOLEAN
    BY <1>4 DEF TypeOK
  <2>2. video' \in VideoBuffers \cup {None} /\ started' \in BOOLEAN /\ used' \subseteq VideoBuffers
    BY <1>5 DEF TypeOK
  <2> QED
    BY <1>1, <1>2, <1>3, <1>5, <2>1, <2>2, PieceReceived, PieceTypes
<1> QED
  BY <1>1, <1>2, <1>3, <1>4, <1>5, <1>6, PieceReceived DEF PieceMoves, clientVars

LEMMA PieceMissingTypes ==
  ASSUME TypeOK, PieceMissing
  PROVE  TypeOK' /\ PieceMoves /\ Same("avi") /\ Same("packer")
         /\ cnt' = 0 /\ ~ action' /\ captureFlag' = (captureFlag \/ action)
         /\ UNCHANGED <<stamps, sendFlag>>
         /\ \/ ~ started /\ UNCHANGED <<video, started, used>>
            \/ started /\ video' = None /\ ~ started' /\ used' = used \ {video}
<1>1. Receive("enc", "PIECE") /\ PieceDone /\ inbox' = Rest("enc")
  BY DEF PieceMissing
<1>2. Boxes(inbox') /\ Taken("enc") /\ Same("avi") /\ Same("packer") /\ Same("scaler")
  BY <1>1, RestTakes, PieceReceived, MailboxNames
<1>3. cnt' = 0 /\ 0 \in 0 .. Pieces - 1
  BY PipeAssumption DEF PieceMissing
<1>4. /\ action' = FALSE /\ captureFlag' = (captureFlag \/ action)
      /\ UNCHANGED <<stamps, sendFlag, fails>>
  BY DEF PieceMissing, WantedAgain
<1>5. \/ ~ started /\ UNCHANGED <<video, started, used>>
      \/ started /\ video' = None /\ started' = FALSE /\ used' = used \ {video}
  BY DEF PieceMissing, EncodeFail
<1>6. TypeOK'
  <2>1. /\ action' \in BOOLEAN /\ captureFlag' \in BOOLEAN /\ stamps' \in Seq(VideoBuffers)
        /\ sendFlag' \in BOOLEAN /\ fails' \in 0 .. MaxFails
    BY <1>4 DEF TypeOK
  <2>2. video' \in VideoBuffers \cup {None} /\ started' \in BOOLEAN /\ used' \subseteq VideoBuffers
    BY <1>5 DEF TypeOK
  <2> QED
    BY <1>1, <1>2, <1>3, <2>1, <2>2, PieceReceived, PieceTypes
<1> QED
  BY <1>1, <1>2, <1>3, <1>4, <1>5, <1>6, PieceReceived DEF PieceMoves, clientVars

LEMMA PictureEncodedTypes ==
  ASSUME TypeOK, PictureEncoded
  PROVE  TypeOK' /\ PieceMoves /\ Same("packer")
         /\ Given("avi", Plain("CAPTURE_PICTURE"))
         /\ action /\ ~ action' /\ cnt' = 0
         /\ UNCHANGED <<video, started, captureFlag, used, stamps, sendFlag>>
<1>1. Receive("enc", "PIECE") /\ PieceDone
      /\ inbox' = Post(Rest("enc"), "avi", Plain("CAPTURE_PICTURE"))
  BY DEF PictureEncoded
<1>2. Plain("CAPTURE_PICTURE") \in Messages("avi")
  BY DEF Plain, Messages
<1>3. Boxes(inbox') /\ Taken("enc") /\ Given("avi", Plain("CAPTURE_PICTURE"))
      /\ Same("packer") /\ Same("scaler")
  BY <1>1, <1>2, PostRestMoves, PieceReceived, MailboxNames
<1>4. cnt' = 0 /\ 0 \in 0 .. Pieces - 1 /\ action /\ action' = FALSE
  BY PipeAssumption DEF PictureEncoded
<1>5. UNCHANGED <<video, started, captureFlag, fails, used, stamps, sendFlag>>
  BY DEF PictureEncoded, queueVars
<1>6. TypeOK'
  <2>1. /\ action' \in BOOLEAN /\ captureFlag' \in BOOLEAN /\ stamps' \in Seq(VideoBuffers)
        /\ sendFlag' \in BOOLEAN /\ fails' \in 0 .. MaxFails
        /\ video' \in VideoBuffers \cup {None} /\ started' \in BOOLEAN /\ used' \subseteq VideoBuffers
    BY <1>4, <1>5 DEF TypeOK
  <2> QED
    BY <1>1, <1>3, <1>4, <2>1, PieceReceived, PieceTypes
<1> QED
  BY <1>1, <1>3, <1>4, <1>5, <1>6, PieceReceived DEF PieceMoves, clientVars

\* Handing a frame to the packer.
LEMMA FrameMessage ==
  /\ \A i \in VideoBuffers : /\ Frame(i) \in Messages("packer")
                             /\ Frame(i).id = "FRAME" /\ Frame(i).buf = i
  /\ \A i \in VideoBuffers : /\ WriteDone(i) \in Messages("enc")
                             /\ WriteDone(i).id = "WRITE_DONE" /\ WriteDone(i).buf = i
BY DEF Frame, WriteDone, Messages

LEMMA FrameEncodedTypes ==
  ASSUME TypeOK, EncoderInv, FrameEncoded
  PROVE  TypeOK' /\ PieceMoves /\ Same("avi")
         /\ cnt' = 0 /\ UNCHANGED <<action, captureFlag, used>>
         /\ "START" \in status /\ ~ action /\ started /\ video \in VideoBuffers
         /\ sendFlag' /\ ~ started' /\ video' = None
         /\ \/ sendFlag /\ Same("packer") /\ stamps' = Append(stamps, video)
            \/ /\ ~ sendFlag
               /\ \E i \in VideoBuffers :
                    Given("packer", Frame(i)) /\ (stamps = <<>> => i = video /\ stamps' = <<>>)
<1>1. Receive("enc", "PIECE") /\ PieceDone
  BY DEF FrameEncoded
<1>2. /\ "START" \in status /\ ~ action /\ started /\ video \in VideoBuffers
  BY DEF FrameEncoded, EncoderInv, TypeOK
<1>3. /\ cnt' = 0 /\ 0 \in 0 .. Pieces - 1 /\ sendFlag' = TRUE /\ started' = FALSE /\ video' = None
      /\ UNCHANGED <<action, captureFlag, used, fails>>
  BY PipeAssumption DEF FrameEncoded
<1> DEFINE waiters == Append(stamps, video)
<1>4. /\ waiters \in Seq(VideoBuffers) /\ waiters # <<>>
      /\ Head(waiters) \in VideoBuffers /\ Tail(waiters) \in Seq(VideoBuffers)
      /\ stamps = <<>> => Head(waiters) = video /\ Tail(waiters) = <<>>
  BY <1>2, AppendProperties, HeadTailProperties, HeadTailAppend DEF TypeOK
<1>5. \/ sendFlag /\ stamps' = waiters /\ inbox' = Rest("enc")
      \/ /\ ~ sendFlag /\ stamps' = Tail(waiters)
         /\ inbox' = Post(Rest("enc"), "packer", Frame(Head(waiters)))
  BY DEF FrameEncoded, Sent
<1> HIDE DEF waiters
<1>6. TypeOK' \/ ~ Boxes(inbox') \/ ~ (stamps' \in Seq(VideoBuffers))
  <2>1. /\ action' \in BOOLEAN /\ captureFlag' \in BOOLEAN
        /\ sendFlag' \in BOOLEAN /\ fails' \in 0 .. MaxFails
        /\ video' \in VideoBuffers \cup {None} /\ started' \in BOOLEAN /\ used' \subseteq VideoBuffers
    BY <1>3 DEF TypeOK
  <2> QED
    BY <1>1, <1>3, <2>1, PieceReceived, PieceTypes
<1>7. CASE sendFlag
  <2>1. inbox' = Rest("enc") /\ stamps' = waiters
    BY <1>5, <1>7
  <2>2. Boxes(inbox') /\ Taken("enc") /\ Same("avi") /\ Same("packer") /\ Same("scaler")
    BY <1>1, <2>1, RestTakes, PieceReceived, MailboxNames
  <2> QED
    BY <1>1, <1>2, <1>3, <1>4, <1>6, <1>7, <2>1, <2>2, PieceReceived
    DEF PieceMoves, clientVars, waiters
<1>8. CASE ~ sendFlag
  <2>1. inbox' = Post(Rest("enc"), "packer", Frame(Head(waiters))) /\ stamps' = Tail(waiters)
    BY <1>5, <1>8
  <2>2. Frame(Head(waiters)) \in Messages("packer")
    BY <1>4, FrameMessage
  <2>3. Boxes(inbox') /\ Taken("enc") /\ Given("packer", Frame(Head(waiters)))
        /\ Same("avi") /\ Same("scaler")
    BY <1>1, <2>1, <2>2, PostRestMoves, PieceReceived, MailboxNames
  <2> QED
    BY <1>1, <1>2, <1>3, <1>4, <1>6, <1>8, <2>1, <2>3, PieceReceived DEF PieceMoves, clientVars
<1> QED
  BY <1>7, <1>8

LEMMA FrameDroppedTypes ==
  ASSUME TypeOK, FrameDropped
  PROVE  TypeOK' /\ PieceMoves /\ Same("avi") /\ Same("packer")
         /\ cnt' = 0 /\ UNCHANGED <<action, captureFlag, stamps, sendFlag>>
         /\ ~ started'
         /\ \/ ~ started /\ UNCHANGED <<video, used>>
            \/ started /\ video' = None /\ used' = used \ {video}
            \/ started /\ "START" \notin status /\ video' = None /\ used' = used
<1>1. Receive("enc", "PIECE") /\ PieceDone /\ inbox' = Rest("enc")
  BY DEF FrameDropped
<1>2. Boxes(inbox') /\ Taken("enc") /\ Same("avi") /\ Same("packer") /\ Same("scaler")
  BY <1>1, RestTakes, PieceReceived, MailboxNames
<1>3. cnt' = 0 /\ 0 \in 0 .. Pieces - 1
      /\ UNCHANGED <<action, captureFlag, stamps, sendFlag>>
  BY PipeAssumption DEF FrameDropped
<1>4. /\ started' \in BOOLEAN /\ ~ started' /\ fails' \in 0 .. MaxFails
      /\ \/ ~ started /\ UNCHANGED <<video, used>>
         \/ started /\ video' = None /\ used' = used \ {video}
         \/ started /\ "START" \notin status /\ video' = None /\ used' = used
  <2>1. CASE ~ started /\ UNCHANGED <<video, started, used, fails>>
    BY <2>1 DEF TypeOK
  <2>2. CASE started /\ EngineFails /\ EncodeFail(video)
    BY <2>2, FailsTypes DEF EncodeFail
  <2>3. CASE started /\ "START" \notin status /\ started' = FALSE /\ video' = None
             /\ UNCHANGED <<used, fails>>
    BY <2>3 DEF TypeOK
  <2> QED
    BY <2>1, <2>2, <2>3 DEF FrameDropped
<1>5. TypeOK'
  <2>1. /\ action' \in BOOLEAN /\ captureFlag' \in BOOLEAN /\ stamps' \in Seq(VideoBuffers)
        /\ sendFlag' \in BOOLEAN
    BY <1>3 DEF TypeOK
  <2>2. video' \in VideoBuffers \cup {None} /\ used' \subseteq VideoBuffers
    BY <1>4 DEF TypeOK
  <2> QED
    BY <1>1, <1>2, <1>3, <1>4, <2>1, <2>2, PieceReceived, PieceTypes
<1> QED
  BY <1>1, <1>2, <1>3, <1>4, <1>5, PieceReceived DEF PieceMoves, clientVars

\* The requests' variables and the sensor's.
ClientStays == UNCHANGED <<todo, waiting, status, shooting>>
SensorStays == UNCHANGED <<sensor, regs, cmosq>>

LEMMA VideoWriteDoneTypes ==
  ASSUME TypeOK, VideoWriteDone
  PROVE  TypeOK' /\ ClientStays /\ SensorStays /\ ack' = ack
         /\ 1 \in DOMAIN inbox["enc"] /\ inbox["enc"][1].id = "WRITE_DONE"
         /\ Taken("enc") /\ Same("avi") /\ Same("scaler")
         /\ used' = used \ {inbox["enc"][1].buf}
         /\ UNCHANGED <<cnt, video, started, action, captureFlag, packing, reports>>
         /\ \/ stamps = <<>> /\ stamps' = stamps /\ ~ sendFlag' /\ Same("packer")
            \/ /\ stamps # <<>> /\ stamps' = Tail(stamps) /\ sendFlag'
               /\ stamps[1] \in VideoBuffers /\ Given("packer", Frame(stamps[1]))
<1>1. "enc" \in Mailboxes /\ inbox["enc"] # <<>> /\ Head(inbox["enc"]).id = "WRITE_DONE"
  BY MailboxNames DEF VideoWriteDone, Receive
<1>2. Head(inbox["enc"]) = inbox["enc"][1] /\ 1 \in DOMAIN inbox["enc"]
  BY <1>1, FirstMessage
<1>3. /\ UNCHANGED <<sensor, regs, cmosq, late, cnt, video, started, action, captureFlag, fails,
                     reports, packing, status, todo, waiting, shooting, calls, ack>>
      /\ used' = used \ {inbox["enc"][1].buf} /\ sendFlag' = (stamps # <<>>)
  BY <1>2 DEF VideoWriteDone, encQueued, BusyAgain, notEncoding, sensorVars, encodeVars, clientVars
<1>4. TypeOK' \/ ~ Boxes(inbox') \/ ~ (stamps' \in Seq(VideoBuffers))
  <2>1. used' \subseteq VideoBuffers /\ sendFlag' \in BOOLEAN
    BY <1>3 DEF TypeOK
  <2> QED
    BY <1>3, <2>1, HurriedTypes DEF TypeOK, Boxes
<1>5. CASE stamps = <<>>
  <2>1. stamps' = stamps /\ inbox' = Rest("enc")
    BY <1>5 DEF VideoWriteDone
  <2>2. Boxes(inbox') /\ Taken("enc") /\ Same("avi") /\ Same("packer") /\ Same("scaler")
    BY <1>1, <2>1, RestTakes, MailboxNames
  <2>3. stamps' \in Seq(VideoBuffers)
    BY <2>1 DEF TypeOK
  <2> QED
    BY <1>1, <1>2, <1>3, <1>4, <1>5, <2>1, <2>2, <2>3 DEF ClientStays, SensorStays
<1>6. CASE stamps # <<>>
  <2>1. Head(stamps) = stamps[1] /\ stamps[1] \in VideoBuffers /\ Tail(stamps) \in Seq(VideoBuffers)
    BY <1>6, TailShifts DEF TypeOK
  <2>2. stamps' = Tail(stamps) /\ inbox' = Post(Rest("enc"), "packer", Frame(stamps[1]))
    BY <1>6, <2>1 DEF VideoWriteDone, Sent
  <2>3. Boxes(inbox') /\ Taken("enc") /\ Given("packer", Frame(stamps[1]))
        /\ Same("avi") /\ Same("scaler")
    BY <1>1, <2>1, <2>2, FrameMessage, PostRestMoves, MailboxNames
  <2> QED
    BY <1>1, <1>2, <1>3, <1>4, <1>6, <2>1, <2>2, <2>3 DEF ClientStays, SensorStays
<1> QED
  BY <1>5, <1>6

\* The order of a request that the state-handling task has posted.
Order(b, id) ==
  /\ 1 \in DOMAIN inbox[b] /\ inbox[b][1].id = id /\ b \in Mailboxes
  /\ \A a \in Mailboxes \ {b} : Same(a)
  /\ ack' = [ack EXCEPT ![b] = TRUE]
  /\ ClientStays

LEMMA OrderTaken ==
  ASSUME TypeOK, NEW b \in Mailboxes, NEW id, Receive(b, id), inbox' = Rest(b),
         Acknowledge(b), ClientStays
  PROVE  Order(b, id) /\ Taken(b) /\ Boxes(inbox') /\ ack' \in [Mailboxes -> BOOLEAN]
<1>1. inbox[b] # <<>> /\ Head(inbox[b]).id = id
  BY DEF Receive
<1>2. Head(inbox[b]) = inbox[b][1] /\ 1 \in DOMAIN inbox[b]
  BY <1>1, FirstMessage
<1>3. Boxes(inbox') /\ Taken(b) /\ \A a \in Mailboxes \ {b} : Same(a)
  BY <1>1, RestTakes
<1>4. ack' = [ack EXCEPT ![b] = TRUE] /\ ack' \in [Mailboxes -> BOOLEAN]
  BY DEF Acknowledge, TypeOK
<1> QED
  BY <1>1, <1>2, <1>3, <1>4 DEF Order

LEMMA MjpegInitTypes ==
  ASSUME TypeOK, MjpegInit
  PROVE  TypeOK' /\ Order("enc", "INIT") /\ Taken("enc") /\ SensorStays
         /\ ~ started' /\ video' = None
         /\ UNCHANGED <<cnt, action, captureFlag, used, stamps, sendFlag, packing, reports>>
<1>1. /\ Receive("enc", "INIT") /\ inbox' = Rest("enc") /\ Acknowledge("enc") /\ ClientStays
      /\ started' = FALSE /\ video' = None
      /\ UNCHANGED <<sensor, regs, cmosq, late, cnt, action, captureFlag, fails, used, stamps,
                     sendFlag, packing, reports, status, waiting, shooting, calls>>
  BY DEF MjpegInit, ClientStays, clientVars, sensorVars, queueVars
<1>2. Order("enc", "INIT") /\ Taken("enc") /\ Boxes(inbox') /\ ack' \in [Mailboxes -> BOOLEAN]
  BY <1>1, OrderTaken, MailboxNames
<1>3. TypeOK'
  BY <1>1, <1>2, HurriedTypes DEF TypeOK, Boxes
<1> QED
  BY <1>1, <1>2, <1>3 DEF SensorStays

LEMMA EncodeTaskStopTypes ==
  ASSUME TypeOK, EncodeTaskStop
  PROVE  TypeOK' /\ Order("enc", "STOP") /\ inbox'["enc"] = <<>> /\ SensorStays
         /\ UNCHANGED <<cnt, video, started, action, captureFlag, used, stamps, sendFlag,
                        packing, reports>>
<1>1. /\ Receive("enc", "STOP") /\ Acknowledge("enc") /\ ClientStays
      /\ inbox' = [inbox EXCEPT !["enc"] = <<>>]
      /\ UNCHANGED <<sensor, regs, cmosq, late, cnt, video, started, action, captureFlag, fails,
                     used, stamps, sendFlag, packing, reports, status, waiting, shooting, calls>>
  BY DEF EncodeTaskStop, ClientStays, notEncoding, clientVars, sensorVars, queueVars, encodeVars
<1>2. "enc" \in Mailboxes
  BY MailboxNames
<1>3. inbox["enc"] # <<>> /\ Head(inbox["enc"]).id = "STOP"
  BY <1>1 DEF Receive
<1>4. Head(inbox["enc"]) = inbox["enc"][1] /\ 1 \in DOMAIN inbox["enc"]
  BY <1>2, <1>3, FirstMessage
<1>5. inbox'["enc"] = <<>> /\ DOMAIN inbox' = Mailboxes /\ \A a \in Mailboxes \ {"enc"} : Same(a)
  BY <1>1, <1>2 DEF TypeOK, Same
<1>6. \A a \in Mailboxes : inbox'[a] \in Seq(Messages(a))
  BY <1>5, EmptySeq DEF TypeOK, Same
<1>7. ack' = [ack EXCEPT !["enc"] = TRUE] /\ ack' \in [Mailboxes -> BOOLEAN]
  BY <1>1 DEF Acknowledge, TypeOK
<1>8. TypeOK'
  BY <1>1, <1>5, <1>6, <1>7, HurriedTypes DEF TypeOK
<1> QED
  BY <1>1, <1>2, <1>3, <1>4, <1>5, <1>7, <1>8 DEF Order, SensorStays

LEMMA ScalerTaskTypes ==
  ASSUME TypeOK, ScalerTask
  PROVE  TypeOK' /\ SensorStays /\ Taken("scaler")
         /\ \/ Order("scaler", "SCALER_INIT")
            \/ Order("scaler", "SCALER_STOP") /\ cnt' = cnt
         /\ UNCHANGED <<video, started, action, captureFlag, stamps, sendFlag, packing, reports>>
<1>1. PICK id \in {"SCALER_INIT", "SCALER_STOP"} :
        Receive("scaler", id) /\ (id = "SCALER_STOP" => cnt' = cnt)
        /\ cnt' \in 0 .. Pieces - 1
  BY PipeAssumption DEF ScalerTask, TypeOK
<1>2. /\ inbox' = Rest("scaler") /\ Acknowledge("scaler") /\ ClientStays /\ used' = {}
      /\ UNCHANGED <<sensor, regs, cmosq, late, video, started, action, captureFlag, fails, stamps,
                     sendFlag, packing, reports, status, waiting, shooting, calls>>
  BY DEF ScalerTask, ClientStays, clientVars, sensorVars
<1>3. Order("scaler", id) /\ Taken("scaler") /\ Boxes(inbox') /\ ack' \in [Mailboxes -> BOOLEAN]
  BY <1>1, <1>2, OrderTaken, MailboxNames
<1>4. TypeOK'
  BY <1>1, <1>2, <1>3, HurriedTypes DEF TypeOK, Boxes
<1> QED
  BY <1>1, <1>2, <1>3, <1>4 DEF SensorStays

LEMMA StartSensorTypes ==
  ASSUME TypeOK, StartSensor
  PROVE  TypeOK' /\ Order("avi", "START_SENSOR") /\ Taken("avi")
         /\ regs' = [s \in 0 .. 1 |-> s + 1]
         /\ DOMAIN cmosq' = 1 .. CsiNo - 2 /\ (\A k \in DOMAIN cmosq' : cmosq'[k] = k + 2)
         /\ UNCHANGED <<cnt, video, started, action, captureFlag, used, stamps, sendFlag,
                        packing, reports>>
<1>1. /\ Receive("avi", "START_SENSOR") /\ inbox' = Rest("avi") /\ Acknowledge("avi") /\ ClientStays
      /\ UNCHANGED <<cnt, video, started, action, captureFlag, fails, used, stamps,
                     sendFlag, packing, reports, status, waiting, shooting, calls>>
      /\ sensor' = [sensor EXCEPT !.on = TRUE, !.side = 0, !.piece = 1, !.odd = ~ @]
      /\ regs' = [s \in 0 .. 1 |-> s + 1] /\ late' = 0
      /\ cmosq' = <<>> \o [k \in 1 .. CsiNo - 2 |-> k + 2]
  BY DEF StartSensor, ClientStays, clientVars, encodeVars, queueVars, Flushed
<1>2. Order("avi", "START_SENSOR") /\ Taken("avi") /\ Boxes(inbox') /\ ack' \in [Mailboxes -> BOOLEAN]
  BY <1>1, OrderTaken, MailboxNames
<1> DEFINE all == [k \in 1 .. CsiNo - 2 |-> k + 2]
<1>3. all \in Seq(CsiBuffers)
  <2>1. CsiNo - 2 \in Nat /\ \A k \in 1 .. CsiNo - 2 : k + 2 \in CsiBuffers
    BY PipeAssumption DEF CsiBuffers
  <2>2. all \in [1 .. CsiNo - 2 -> CsiBuffers]
    BY <2>1
  <2> QED
    BY <2>1, <2>2, SeqDef
<1>4. cmosq' = all
  <2> HIDE DEF all
  <2>1. <<>> \o all = all
    BY <1>3, ConcatEmptySeq
  <2> QED
    BY <1>1, <2>1 DEF all
<1>5. DOMAIN cmosq' = 1 .. CsiNo - 2 /\ \A k \in DOMAIN cmosq' : cmosq'[k] = k + 2
  BY <1>4
<1>6. regs' \in [0 .. 1 -> CsiBuffers \cup {DUMMY}]
  BY <1>1, PipeAssumption DEF CsiBuffers
<1>7. sensor' \in [on : BOOLEAN, side : 0 .. 1, odd : BOOLEAN, piece : 1 .. Pieces]
  <2> DEFINE odd == ~ sensor.odd
  <2>1. odd \in BOOLEAN
        /\ sensor' = [sensor EXCEPT !.on = TRUE, !.side = 0, !.piece = 1, !.odd = odd]
    BY <1>1 DEF TypeOK
  <2> HIDE DEF odd
  <2>2. 1 \in 1 .. Pieces /\ 0 \in 0 .. 1
    BY PipeAssumption
  <2> QED
    BY <2>1, <2>2 DEF TypeOK
<1>8. late' \in 0 .. MaxLate
  BY <1>1, PipeAssumption
<1> HIDE DEF all
<1>9. TypeOK'
  BY <1>1, <1>2, <1>3, <1>4, <1>6, <1>7, <1>8, HurriedTypes DEF TypeOK, Boxes
<1> QED
  BY <1>1, <1>2, <1>5, <1>9

LEMMA SensorStopTypes ==
  ASSUME TypeOK, SensorStop
  PROVE  /\ sensor' \in [on : BOOLEAN, side : 0 .. 1, odd : BOOLEAN, piece : 1 .. Pieces]
         /\ ~ sensor'.on
         /\ regs' \in [0 .. 1 -> CsiBuffers \cup {DUMMY}]
         /\ late' \in 0 .. MaxLate
<1>1. sensor' = [sensor EXCEPT !.on = FALSE]
  BY DEF SensorStop
<1>2. sensor' \in [on : BOOLEAN, side : 0 .. 1, odd : BOOLEAN, piece : 1 .. Pieces]
      /\ sensor'.on = FALSE
  BY <1>1 DEF TypeOK
<1>3. regs' \in [0 .. 1 -> CsiBuffers \cup {DUMMY}]
  BY DEF SensorStop
<1>4. late' \in 0 .. MaxLate
  BY PipeAssumption DEF SensorStop
<1> QED
  BY <1>2, <1>3, <1>4

LEMMA StopSensorTypes ==
  ASSUME TypeOK, StopSensor
  PROVE  TypeOK' /\ Order("avi", "STOP_SENSOR") /\ Taken("avi") /\ ~ sensor'.on
         /\ UNCHANGED <<cnt, video, started, action, captureFlag, used, stamps, sendFlag,
                        packing, reports>>
<1>1. /\ Receive("avi", "STOP_SENSOR") /\ inbox' = Rest("avi") /\ Acknowledge("avi") /\ ClientStays
      /\ UNCHANGED <<cnt, video, started, action, captureFlag, fails, used, stamps,
                     sendFlag, packing, reports, status, waiting, shooting, calls>>
      /\ SensorStop /\ cmosq' = <<>>
  BY DEF StopSensor, ClientStays, clientVars, encodeVars, queueVars, Flushed
<1>2. Order("avi", "STOP_SENSOR") /\ Taken("avi") /\ Boxes(inbox') /\ ack' \in [Mailboxes -> BOOLEAN]
  BY <1>1, OrderTaken, MailboxNames
<1>3. cmosq' \in Seq(CsiBuffers)
  BY <1>1, EmptySeq
<1>4. TypeOK'
  BY <1>1, <1>2, <1>3, SensorStopTypes, HurriedTypes DEF TypeOK, Boxes
<1> QED
  BY <1>1, <1>2, <1>4, SensorStopTypes

LEMMA StartEncodeTypes ==
  ASSUME TypeOK, StartEncode
  PROVE  TypeOK' /\ Order("avi", "START_ENCODE") /\ Taken("avi") /\ SensorStays
         /\ (hurried' <=> ~ Settled)
         /\ ~ sendFlag' /\ stamps' = <<>> /\ used' = {}
         /\ UNCHANGED <<cnt, video, started, action, captureFlag, packing, reports>>
<1>1. /\ Receive("avi", "START_ENCODE") /\ inbox' = Rest("avi") /\ Acknowledge("avi") /\ ClientStays
      /\ UNCHANGED <<sensor, regs, cmosq, late, cnt, video, started, action, captureFlag, fails,
                     packing, reports, status, waiting, shooting, calls>>
      /\ sendFlag' = FALSE /\ stamps' = <<>> /\ used' = {}
      /\ hurried' <=> ~ Settled
  BY DEF StartEncode, ClientStays, clientVars, encodeVars, sensorVars, notEncoding
<1>2. Order("avi", "START_ENCODE") /\ Taken("avi") /\ Boxes(inbox') /\ ack' \in [Mailboxes -> BOOLEAN]
  BY <1>1, OrderTaken, MailboxNames
<1>3. stamps' \in Seq(VideoBuffers)
  BY <1>1, EmptySeq
<1>4. TypeOK'
  BY <1>1, <1>2, <1>3, HurriedTypes DEF TypeOK, Boxes
<1> QED
  BY <1>1, <1>2, <1>4 DEF SensorStays

LEMMA StopEncodeTypes ==
  ASSUME TypeOK, StopEncode
  PROVE  TypeOK' /\ Order("avi", "STOP_ENCODE") /\ Taken("avi") /\ SensorStays
         /\ UNCHANGED <<cnt, video, started, action, captureFlag, used, stamps, sendFlag,
                        packing, reports>>
<1>1. /\ Receive("avi", "STOP_ENCODE") /\ inbox' = Rest("avi") /\ Acknowledge("avi") /\ ClientStays
      /\ UNCHANGED <<sensor, regs, cmosq, late, cnt, video, started, action, captureFlag, fails,
                     used, stamps, sendFlag, packing, reports, status, waiting, shooting, calls>>
  BY DEF StopEncode, ClientStays, clientVars, encodeVars, sensorVars, queueVars, notEncoding
<1>2. Order("avi", "STOP_ENCODE") /\ Taken("avi") /\ Boxes(inbox') /\ ack' \in [Mailboxes -> BOOLEAN]
  BY <1>1, OrderTaken, MailboxNames
<1>3. TypeOK'
  BY <1>1, <1>2, HurriedTypes DEF TypeOK, Boxes
<1> QED
  BY <1>1, <1>2, <1>3 DEF SensorStays

LEMMA CapturePictureTypes ==
  ASSUME TypeOK, PictureInv, CapturePicture
  PROVE  TypeOK' /\ Order("avi", "CAPTURE_PICTURE") /\ Taken("avi") /\ ~ sensor'.on
         /\ ~ captureFlag' /\ reports = 0 /\ reports' = 1
         /\ UNCHANGED <<cnt, video, started, action, used, stamps, sendFlag, packing>>
<1>1. /\ Receive("avi", "CAPTURE_PICTURE") /\ inbox' = Rest("avi") /\ Acknowledge("avi")
      /\ ClientStays /\ captureFlag' = FALSE /\ reports' = reports + 1
      /\ UNCHANGED <<cmosq, cnt, video, started, action, fails,
                     used, stamps, sendFlag, packing, status, waiting, shooting, calls>>
      /\ SensorStop
  BY DEF CapturePicture, ClientStays, clientVars, queueVars
<1>2. Order("avi", "CAPTURE_PICTURE") /\ Taken("avi") /\ Boxes(inbox')
      /\ ack' \in [Mailboxes -> BOOLEAN]
  BY <1>1, OrderTaken, MailboxNames
<1>3. 1 \in Captures
  BY <1>2 DEF Order, Captures, Queued
<1>4. reports = 0 /\ reports' = 1
  BY <1>1, <1>3 DEF PictureInv
<1>5. TypeOK'
  <2>1. /\ captureFlag' \in BOOLEAN /\ reports' \in 0 .. 1
        /\ UNCHANGED <<cmosq, cnt, video, started, action, fails,
                       used, stamps, sendFlag, packing, status, waiting, shooting, calls>>
    <3>1. captureFlag' \in BOOLEAN
      BY <1>1
    <3>2. reports' \in 0 .. 1
      BY <1>4
    <3> QED
      BY <1>1, <3>1, <3>2
  <2>2. /\ sensor' \in [on : BOOLEAN, side : 0 .. 1, odd : BOOLEAN, piece : 1 .. Pieces]
        /\ regs' \in [0 .. 1 -> CsiBuffers \cup {DUMMY}] /\ late' \in 0 .. MaxLate
    BY <1>1, SensorStopTypes
  <2> QED
    BY <1>2, <2>1, <2>2, HurriedTypes DEF TypeOK, Boxes
<1> QED
  BY <1>1, <1>2, <1>4, <1>5, SensorStopTypes

LEMMA SwitchBufferTypes ==
  ASSUME TypeOK, SwitchBuffer
  PROVE  LET side == sensor.side
             ready == regs[side]
         IN  /\ TypeOK' /\ sensor.on /\ sensor'.on
             /\ side \in {0, 1} /\ ready \in CsiBuffers \cup {DUMMY}
             /\ \/ ready = DUMMY /\ Same("enc")
                \/ /\ ready \in CsiBuffers
                   /\ \E m : m.id = "PIECE" /\ m.buf = ready /\ Given("enc", m)
             /\ Same("avi") /\ Same("scaler") /\ Same("packer")
             /\ \/ /\ cmosq = <<>> /\ cmosq' = cmosq
                   /\ regs' = [regs EXCEPT ![side] = DUMMY]
                \/ /\ cmosq # <<>> /\ cmosq' = Tail(cmosq)
                   /\ regs' = [regs EXCEPT ![side] = cmosq[1]]
             /\ ClientStays
             /\ UNCHANGED <<ack, cnt, video, started, action, captureFlag, used, stamps,
                            sendFlag, packing, reports>>
<1> DEFINE side == sensor.side
           ready == regs[side]
           last == sensor.piece = Pieces
           next == IF cmosq = <<>> THEN DUMMY ELSE Head(cmosq)
<1>1. side \in {0, 1} /\ ready \in CsiBuffers \cup {DUMMY} /\ sensor.odd \in BOOLEAN
      /\ sensor.piece \in 1 .. Pieces
  BY DEF TypeOK
<1>2. /\ sensor.on /\ regs' = [regs EXCEPT ![side] = next]
      /\ cmosq' = IF cmosq = <<>> THEN cmosq ELSE Tail(cmosq)
      /\ sensor' = [sensor EXCEPT !.side = 1 - @,
                                  !.piece = IF last THEN 1 ELSE @ + 1,
                                  !.odd = IF last THEN ~ @ ELSE @]
      /\ late' = IF last /\ ready # DUMMY THEN Dummies(regs')
                 ELSE IF next = DUMMY THEN late + 1 ELSE late
      /\ late' <= MaxLate
      /\ inbox' = IF ready = DUMMY THEN inbox
                  ELSE Post(inbox, "enc", Piece(ready, last, sensor.odd, sensor.piece))
      /\ UNCHANGED <<ack, cnt, video, started, action, captureFlag, fails, used, stamps,
                     sendFlag, packing, reports, status, todo, waiting, shooting, calls>>
  BY DEF SwitchBuffer, encodeVars, queueVars, clientVars
<1>3. \/ cmosq = <<>> /\ next = DUMMY /\ cmosq' = cmosq
      \/ cmosq # <<>> /\ next = cmosq[1] /\ next \in CsiBuffers /\ cmosq' = Tail(cmosq)
         /\ cmosq' \in Seq(CsiBuffers)
  BY <1>2, TailShifts DEF TypeOK
<1>4. sensor'.on /\ sensor' \in [on : BOOLEAN, side : 0 .. 1, odd : BOOLEAN, piece : 1 .. Pieces]
  <2> DEFINE s == 1 - sensor.side
             p == IF last THEN 1 ELSE sensor.piece + 1
             o == IF last THEN ~ sensor.odd ELSE sensor.odd
  <2>1. s \in 0 .. 1 /\ p \in 1 .. Pieces
    BY <1>1, PipeAssumption
  <2>2. o \in BOOLEAN
    BY <1>1
  <2>3. sensor' = [sensor EXCEPT !.side = s, !.piece = p, !.odd = o]
    BY <1>2
  <2> HIDE DEF s, p, o
  <2> QED
    BY <1>2, <2>1, <2>2, <2>3 DEF TypeOK
<1>5. late' \in 0 .. MaxLate
  <2>1. Dummies(regs') \in Nat
    <3>1. IsFiniteSet(0 .. 1)
      <4>1. 0 \in Int /\ 1 \in Int
        OBVIOUS
      <4> QED
        BY <4>1, FS_Interval
    <3>2. {s \in 0 .. 1 : regs'[s] = DUMMY} \subseteq 0 .. 1
      OBVIOUS
    <3> QED
      BY <3>1, <3>2, FS_Subset, FS_CardinalityType DEF Dummies
  <2>2. late \in Nat
    BY DEF TypeOK
  <2>3. late' \in Nat
    BY <1>2, <2>1, <2>2
  <2> QED
    BY <1>2, <2>3, PipeAssumption
<1>6. regs' \in [0 .. 1 -> CsiBuffers \cup {DUMMY}]
  BY <1>2, <1>3 DEF TypeOK
<1>7. /\ \/ ready = DUMMY /\ Same("enc")
         \/ /\ ready \in CsiBuffers
            /\ \E m : m.id = "PIECE" /\ m.buf = ready /\ Given("enc", m)
      /\ Same("avi") /\ Same("scaler") /\ Same("packer") /\ Boxes(inbox')
  <2>1. CASE ready = DUMMY
    BY <1>2, <2>1 DEF Same, Boxes, TypeOK
  <2>2. CASE ready # DUMMY
    <3> DEFINE m == Piece(ready, last, sensor.odd, sensor.piece)
    <3>1. ready \in CsiBuffers
      BY <1>1, <2>2
    <3>2. m.id = "PIECE" /\ m.buf = ready /\ m \in Messages("enc")
      BY <1>1, <3>1 DEF Piece, Messages
    <3>3. inbox' = Post(inbox, "enc", m)
      BY <1>2, <2>2
    <3> HIDE DEF m
    <3>4. Boxes(inbox') /\ Given("enc", m) /\ Same("avi") /\ Same("scaler") /\ Same("packer")
      BY <3>2, <3>3, PostGives, MailboxNames
    <3> QED
      BY <3>1, <3>2, <3>4
  <2> QED
    BY <2>1, <2>2
<1>8. cmosq' \in Seq(CsiBuffers)
  BY <1>3 DEF TypeOK
<1> HIDE DEF next, last
<1>9. TypeOK'
  BY <1>2, <1>4, <1>5, <1>6, <1>7, <1>8, HurriedTypes DEF TypeOK, Boxes
<1> QED
  BY <1>1, <1>2, <1>3, <1>4, <1>7, <1>9 DEF ClientStays

LEMMA PackerTaskTypes ==
  ASSUME TypeOK, PackerTask
  PROVE  /\ TypeOK' /\ SensorStays /\ ClientStays /\ 1 \in DOMAIN inbox["packer"]
         /\ Taken("packer") /\ Same("avi") /\ Same("scaler")
         /\ UNCHANGED <<cnt, video, started, action, captureFlag, used, stamps, sendFlag, reports>>
         /\ \/ /\ inbox["packer"][1].id = "FRAME" /\ inbox["packer"][1].buf \in VideoBuffers
               /\ UNCHANGED <<ack, packing>>
               /\ \/ Given("enc", WriteDone(inbox["packer"][1].buf))
                  \/ ~ packing /\ Same("enc")
            \/ \E id \in {"OPEN", "CLOSE"} : Order("packer", id) /\ packing' = (id = "OPEN")
<1> DEFINE m == inbox["packer"][1]
<1>1. "packer" \in Mailboxes /\ inbox["packer"] # <<>>
  BY MailboxNames DEF PackerTask
<1>2. Head(inbox["packer"]) = m /\ 1 \in DOMAIN inbox["packer"]
  BY <1>1, FirstMessage
<1>3. m.id \in {"OPEN", "CLOSE", "FRAME"} /\ (m.id = "FRAME" => m.buf \in VideoBuffers)
  BY <1>2, MessageKinds
<1>4. UNCHANGED <<sensor, regs, cmosq, late, cnt, video, started, action, captureFlag, fails,
                  used, stamps, sendFlag, reports, status, todo, waiting, shooting, calls>>
  BY DEF PackerTask, sensorVars, encodeVars, queueVars, clientVars
<1>5. CASE m.id = "FRAME"
  <2>1. /\ \/ inbox' = Post(Rest("packer"), "enc", WriteDone(m.buf))
           \/ ~ packing /\ inbox' = Rest("packer")
        /\ UNCHANGED <<ack, packing>>
    BY <1>2, <1>5 DEF PackerTask
  <2>2. CASE inbox' = Post(Rest("packer"), "enc", WriteDone(m.buf))
    <3>1. Boxes(inbox') /\ Taken("packer") /\ Given("enc", WriteDone(m.buf))
          /\ Same("avi") /\ Same("scaler")
      BY <1>1, <1>3, <1>5, <2>2, FrameMessage, PostRestMoves, MailboxNames
    <3>2. TypeOK'
      BY <1>4, <2>1, <3>1, HurriedTypes DEF TypeOK, Boxes
    <3> QED
      BY <1>2, <1>3, <1>4, <1>5, <2>1, <3>1, <3>2 DEF SensorStays, ClientStays
  <2>3. CASE ~ packing /\ inbox' = Rest("packer")
    <3>1. Boxes(inbox') /\ Taken("packer") /\ Same("enc") /\ Same("avi") /\ Same("scaler")
      BY <1>1, <2>3, RestTakes, MailboxNames
    <3>2. TypeOK'
      BY <1>4, <2>1, <3>1, HurriedTypes DEF TypeOK, Boxes
    <3> QED
      BY <1>2, <1>3, <1>4, <1>5, <2>1, <2>3, <3>1, <3>2 DEF SensorStays, ClientStays
  <2> QED
    BY <2>1, <2>2, <2>3
<1>6. CASE m.id # "FRAME"
  <2>1. packing' = (m.id = "OPEN") /\ inbox' = Rest("packer") /\ Acknowledge("packer")
        /\ Receive("packer", m.id)
    BY <1>1, <1>2, <1>6 DEF PackerTask, Receive
  <2>2. m.id \in {"OPEN", "CLOSE"} /\ packing' \in BOOLEAN
    BY <1>3, <1>6, <2>1
  <2>3. Order("packer", m.id) /\ Taken("packer") /\ Boxes(inbox') /\ ack' \in [Mailboxes -> BOOLEAN]
    BY <1>1, <1>4, <2>1, OrderTaken DEF ClientStays
  <2>4. TypeOK'
    BY <1>4, <2>2, <2>3, HurriedTypes DEF TypeOK, Boxes
  <2>5. Same("avi") /\ Same("scaler")
    BY <2>3, MailboxNames DEF Order
  <2> QED
    BY <1>2, <1>4, <2>1, <2>2, <2>3, <2>4, <2>5 DEF SensorStays, ClientStays
<1> QED
  BY <1>5, <1>6

-----------------------------------------------------------------------------
(* The requests of the state-handling task.                                *)

LEMMA RequestsType ==
  ASSUME NEW id \in RequestIds
  PROVE  /\ RequestOf(id).id = id /\ RequestOf(id).to \in Mailboxes
         /\ RequestOf(id).flag \in Flags /\ RequestOf(id).on \in BOOLEAN
         /\ RequestOf(id) \in [to : Mailboxes, id : RequestIds, flag : Flags, on : BOOLEAN]
         /\ Plain(id) \in Messages(RequestOf(id).to) /\ Plain(id).id = id /\ id \notin Data
         /\ id # "nothing"
<1>1. id \in {"STOP_SENSOR", "STOP", "SCALER_STOP", "SCALER_INIT", "INIT", "START_SENSOR",
              "OPEN", "START_ENCODE", "STOP_ENCODE", "CLOSE"}
  BY DEF RequestIds, SwitchIds
<1>2. /\ RequestOf(id).id = id /\ RequestOf(id).to \in Mailboxes
      /\ RequestOf(id).flag \in Flags /\ RequestOf(id).on \in BOOLEAN
  BY <1>1 DEF RequestOf, Request, Flags, Mailboxes
<1>3. RequestOf(id) \in [to : Mailboxes, id : RequestIds, flag : Flags, on : BOOLEAN]
  BY <1>1 DEF RequestOf, Request, Flags, Mailboxes
<1>4. Plain(id) \in Messages(RequestOf(id).to)
  BY <1>1 DEF RequestOf, Request, Plain, Messages
<1> QED
  BY <1>1, <1>2, <1>3, <1>4 DEF Plain, Data

LEMMA FirstRequest ==
  ASSUME TodoInv, todo # <<>>
  PROVE  /\ Doing \in RequestIds /\ Head(todo) = RequestOf(Doing) /\ Head(todo) = todo[1]
         /\ Head(todo).id = Doing /\ 1 \in DOMAIN todo
<1>1. Head(todo) = todo[1] /\ 1 \in DOMAIN todo
      /\ todo[1] \in [to : Mailboxes, id : RequestIds, flag : Flags, on : BOOLEAN]
  BY TailShifts DEF TodoInv
<1>2. Doing = todo[1].id
  BY <1>1 DEF Doing
<1> QED
  BY <1>1, <1>2 DEF TodoInv

LEMMA NextRequest ==
  ASSUME TodoInv, todo # <<>>, todo' = Tail(todo)
  PROVE  TodoInv' /\ Doing' = After(Doing)
<1> DEFINE S == [to : Mailboxes, id : RequestIds, flag : Flags, on : BOOLEAN]
<1>1. todo \in Seq(S)
  BY DEF TodoInv
<1> HIDE DEF S
<1>2. todo' \in Seq(S) /\ Shifted(todo, todo') /\ Len(todo') = Len(todo) - 1
  BY <1>1, TailShifts
<1>3. ASSUME NEW k \in DOMAIN todo'
      PROVE  /\ todo'[k] = RequestOf(todo'[k].id)
             /\ IF k = Len(todo') THEN After(todo'[k].id) = "nothing"
                ELSE todo'[k + 1].id = After(todo'[k].id)
  <2>1. /\ k \in Nat /\ k + 1 \in DOMAIN todo /\ todo'[k] = todo[k + 1]
        /\ (k = Len(todo') <=> k + 1 = Len(todo))
        /\ k # Len(todo') => k + 1 \in DOMAIN todo' /\ todo'[k + 1] = todo[k + 2]
    BY <1>2 DEF Shifted
  <2>2. /\ todo[k + 1] = RequestOf(todo[k + 1].id)
        /\ IF k + 1 = Len(todo) THEN After(todo[k + 1].id) = "nothing"
           ELSE todo[(k + 1) + 1].id = After(todo[k + 1].id)
    BY <2>1 DEF TodoInv
  <2>3. (k + 1) + 1 = k + 2
    BY <2>1
  <2> QED
    BY <2>1, <2>2, <2>3
<1>4. TodoInv'
  BY <1>2, <1>3 DEF TodoInv, S
<1>5. Doing' = After(Doing)
  <2>1. Doing = todo[1].id /\ 1 \in DOMAIN todo
    BY FirstRequest
  <2>2. IF 1 = Len(todo) THEN After(todo[1].id) = "nothing" ELSE todo[1 + 1].id = After(todo[1].id)
    BY <2>1 DEF TodoInv
  <2>3. CASE Len(todo) = 1
    <3>1. todo' = <<>>
      BY <1>2, <2>3, EmptySeq
    <3> QED
      BY <2>1, <2>2, <2>3, <3>1 DEF Doing
  <2>4. CASE Len(todo) # 1
    <3>1. 1 \in DOMAIN todo' /\ todo'[1] = todo[1 + 1] /\ todo' # <<>>
      <4>1. Len(todo) >= 2
        BY <1>2, <2>4 DEF Shifted
      <4>2. 1 \in DOMAIN todo' /\ todo'[1] = todo[1 + 1]
        BY <1>2, <4>1 DEF Shifted
      <4>3. Len(todo') # 0 /\ Len(<<>>) = 0
        BY <1>2, <4>1 DEF Shifted
      <4> QED
        BY <4>2, <4>3
    <3>2. Head(todo') = todo'[1]
      BY <1>2, <3>1, TailShifts
    <3> QED
      BY <2>1, <2>2, <2>4, <3>1, <3>2 DEF Doing
  <2> QED
    BY <2>3, <2>4
<1> QED
  BY <1>4, <1>5

\* The calls' requests.
Planned ==
  /\ todo = PreviewStart => TodoInv /\ Doing = "SCALER_INIT" /\ todo # <<>>
  /\ todo = PreviewStop \o PreviewStart => TodoInv /\ Doing = "STOP_SENSOR" /\ todo # <<>>
  /\ todo = VideoEncodeStart => TodoInv /\ Doing = "OPEN" /\ todo # <<>>
  /\ todo = VideoEncodeStop => TodoInv /\ Doing = "STOP_ENCODE" /\ todo # <<>>
  /\ todo = <<>> => TodoInv /\ Doing = "nothing"

LEMMA Plans == Planned
<1> DEFINE S == [to : Mailboxes, id : RequestIds, flag : Flags, on : BOOLEAN]
<1>1. \A id \in RequestIds : RequestOf(id) \in S /\ RequestOf(id).id = id
  BY RequestsType
<1>2. SwitchIds \subseteq RequestIds /\ {"OPEN", "START_ENCODE", "STOP_ENCODE", "CLOSE"} \subseteq RequestIds
  BY DEF RequestIds
<1> HIDE DEF S
<1>3. PreviewStart = <<RequestOf("SCALER_INIT"), RequestOf("INIT"), RequestOf("START_SENSOR")>>
  BY DEF PreviewStart, RequestOf
<1>4. PreviewStop = <<RequestOf("STOP_SENSOR"), RequestOf("STOP"), RequestOf("SCALER_STOP")>>
  BY DEF PreviewStop, RequestOf
<1>5. VideoEncodeStart = <<RequestOf("OPEN"), RequestOf("START_ENCODE")>>
  BY DEF VideoEncodeStart, RequestOf
<1>6. VideoEncodeStop = <<RequestOf("STOP_ENCODE"), RequestOf("CLOSE")>>
  BY DEF VideoEncodeStop, RequestOf
<1>7. /\ "SCALER_INIT" \in RequestIds /\ "INIT" \in RequestIds /\ "START_SENSOR" \in RequestIds
      /\ "STOP_SENSOR" \in RequestIds /\ "STOP" \in RequestIds /\ "SCALER_STOP" \in RequestIds
      /\ "OPEN" \in RequestIds /\ "START_ENCODE" \in RequestIds
      /\ "STOP_ENCODE" \in RequestIds /\ "CLOSE" \in RequestIds
  BY DEF RequestIds, SwitchIds
<1>8. ASSUME NEW s, s \in Seq(S), s # <<>>,
             \A k \in DOMAIN s : /\ s[k] = RequestOf(s[k].id)
                                 /\ IF k = Len(s) THEN After(s[k].id) = "nothing"
                                    ELSE s[k + 1].id = After(s[k].id),
             todo = s
      PROVE  TodoInv /\ Doing = s[1].id
  <2>1. TodoInv
    BY <1>8 DEF TodoInv, S
  <2> QED
    BY <1>8, <2>1, FirstRequest
<1>9. todo = PreviewStart => TodoInv /\ Doing = "SCALER_INIT" /\ todo # <<>>
  <2> DEFINE s == PreviewStart
  <2>1. /\ s \in Seq(S) /\ Len(s) = 3 /\ DOMAIN s = 1 .. 3 /\ s # <<>>
        /\ s[1] = RequestOf("SCALER_INIT") /\ s[2] = RequestOf("INIT")
        /\ s[3] = RequestOf("START_SENSOR")
    BY <1>1, <1>3, <1>7
  <2> HIDE DEF s
  <2>2. s[1].id = "SCALER_INIT" /\ s[2].id = "INIT" /\ s[3].id = "START_SENSOR"
    BY <1>1, <1>7, <2>1
  <2>3. \A k \in DOMAIN s : /\ s[k] = RequestOf(s[k].id)
                            /\ IF k = Len(s) THEN After(s[k].id) = "nothing"
                               ELSE s[k + 1].id = After(s[k].id)
    <3> SUFFICES ASSUME NEW k \in {1, 2, 3}
                 PROVE  /\ s[k] = RequestOf(s[k].id)
                        /\ IF k = Len(s) THEN After(s[k].id) = "nothing"
                           ELSE s[k + 1].id = After(s[k].id)
      BY <2>1
    <3> QED
      BY <2>1, <2>2 DEF After
  <2> QED
    BY <1>8, <2>1, <2>2, <2>3 DEF s
<1>10. todo = PreviewStop \o PreviewStart => TodoInv /\ Doing = "STOP_SENSOR" /\ todo # <<>>
  <2> DEFINE s == PreviewStop \o PreviewStart
             a == PreviewStop
             b == PreviewStart
  <2>1. /\ b \in Seq(S) /\ Len(b) = 3
        /\ b[1] = RequestOf("SCALER_INIT") /\ b[2] = RequestOf("INIT")
        /\ b[3] = RequestOf("START_SENSOR")
    BY <1>1, <1>3, <1>7
  <2>2. /\ a \in Seq(S) /\ Len(a) = 3
        /\ a[1] = RequestOf("STOP_SENSOR") /\ a[2] = RequestOf("STOP")
        /\ a[3] = RequestOf("SCALER_STOP")
    BY <1>1, <1>4, <1>7
  <2> HIDE DEF a, b
  <2>3. s = a \o b
    BY DEF a, b
  <2> HIDE DEF s
  <2>4. /\ s \in Seq(S) /\ Len(s) = 6
        /\ \A k \in 1 .. 6 : s[k] = IF k <= 3 THEN a[k] ELSE b[k - 3]
    <3>1. /\ a \o b \in Seq(S) /\ Len(a \o b) = Len(a) + Len(b)
          /\ \A k \in 1 .. Len(a) + Len(b) : (a \o b)[k] = IF k <= Len(a) THEN a[k] ELSE b[k - Len(a)]
      BY <2>1, <2>2, ConcatProperties
    <3> QED
      BY <2>1, <2>2, <2>3, <3>1
  <2>5. DOMAIN s = {1, 2, 3, 4, 5, 6} /\ s # <<>>
    <3>1. DOMAIN s = 1 .. Len(s)
      BY <2>4, LenProperties
    <3>2. Len(<<>>) = 0
      OBVIOUS
    <3>3. 1 .. 6 = {1, 2, 3, 4, 5, 6}
      OBVIOUS
    <3>4. Len(s) = 6
      BY <2>4
    <3>5. DOMAIN s = {1, 2, 3, 4, 5, 6}
      BY <3>1, <3>3, <3>4
    <3>6. s # <<>>
      BY <3>2, <3>4
    <3> QED
      BY <3>5, <3>6
  <2>6. /\ s[1] = RequestOf("STOP_SENSOR") /\ s[2] = RequestOf("STOP")
        /\ s[3] = RequestOf("SCALER_STOP") /\ s[4] = RequestOf("SCALER_INIT")
        /\ s[5] = RequestOf("INIT") /\ s[6] = RequestOf("START_SENSOR")
    BY <2>1, <2>2, <2>4
  <2>7. /\ s[1].id = "STOP_SENSOR" /\ s[2].id = "STOP" /\ s[3].id = "SCALER_STOP"
        /\ s[4].id = "SCALER_INIT" /\ s[5].id = "INIT" /\ s[6].id = "START_SENSOR"
    BY <1>1, <1>7, <2>6
  <2>8. \A k \in DOMAIN s : /\ s[k] = RequestOf(s[k].id)
                            /\ IF k = Len(s) THEN After(s[k].id) = "nothing"
                               ELSE s[k + 1].id = After(s[k].id)
    <3> SUFFICES ASSUME NEW k \in {1, 2, 3, 4, 5, 6}
                 PROVE  /\ s[k] = RequestOf(s[k].id)
                        /\ IF k = Len(s) THEN After(s[k].id) = "nothing"
                           ELSE s[k + 1].id = After(s[k].id)
      BY <2>5
    <3> QED
      BY <2>4, <2>6, <2>7 DEF After
  <2> QED
    BY <1>8, <2>4, <2>5, <2>7, <2>8 DEF s
<1>11. todo = VideoEncodeStart => TodoInv /\ Doing = "OPEN" /\ todo # <<>>
  <2> DEFINE s == VideoEncodeStart
  <2>1. /\ s \in Seq(S) /\ Len(s) = 2 /\ DOMAIN s = 1 .. 2 /\ s # <<>>
        /\ s[1] = RequestOf("OPEN") /\ s[2] = RequestOf("START_ENCODE")
    BY <1>1, <1>5, <1>7
  <2> HIDE DEF s
  <2>2. s[1].id = "OPEN" /\ s[2].id = "START_ENCODE"
    BY <1>1, <1>7, <2>1
  <2>3. \A k \in DOMAIN s : /\ s[k] = RequestOf(s[k].id)
                            /\ IF k = Len(s) THEN After(s[k].id) = "nothing"
                               ELSE s[k + 1].id = After(s[k].id)
    <3> SUFFICES ASSUME NEW k \in {1, 2}
                 PROVE  /\ s[k] = RequestOf(s[k].id)
                        /\ IF k = Len(s) THEN After(s[k].id) = "nothing"
                           ELSE s[k + 1].id = After(s[k].id)
      BY <2>1
    <3> QED
      BY <2>1, <2>2 DEF After
  <2> QED
    BY <1>8, <2>1, <2>2, <2>3 DEF s
<1>12. todo = VideoEncodeStop => TodoInv /\ Doing = "STOP_ENCODE" /\ todo # <<>>
  <2> DEFINE s == VideoEncodeStop
  <2>1. /\ s \in Seq(S) /\ Len(s) = 2 /\ DOMAIN s = 1 .. 2 /\ s # <<>>
        /\ s[1] = RequestOf("STOP_ENCODE") /\ s[2] = RequestOf("CLOSE")
    BY <1>1, <1>6, <1>7
  <2> HIDE DEF s
  <2>2. s[1].id = "STOP_ENCODE" /\ s[2].id = "CLOSE"
    BY <1>1, <1>7, <2>1
  <2>3. \A k \in DOMAIN s : /\ s[k] = RequestOf(s[k].id)
                            /\ IF k = Len(s) THEN After(s[k].id) = "nothing"
                               ELSE s[k + 1].id = After(s[k].id)
    <3> SUFFICES ASSUME NEW k \in {1, 2}
                 PROVE  /\ s[k] = RequestOf(s[k].id)
                        /\ IF k = Len(s) THEN After(s[k].id) = "nothing"
                           ELSE s[k + 1].id = After(s[k].id)
      BY <2>1
    <3> QED
      BY <2>1, <2>2 DEF After
  <2> QED
    BY <1>8, <2>1, <2>2, <2>3 DEF s
<1>13. todo = <<>> => TodoInv /\ Doing = "nothing"
  <2>1. <<>> \in Seq([to : Mailboxes, id : RequestIds, flag : Flags, on : BOOLEAN])
        /\ DOMAIN <<>> = {}
    OBVIOUS
  <2> QED
    BY <2>1 DEF TodoInv, Doing
<1> QED
  BY <1>9, <1>10, <1>11, <1>12, <1>13 DEF Planned

\* The flags are such that no request is left out.
LEMMA NoneLeftOut ==
  ASSUME TodoInv, StatusInv, todo # <<>>
  PROVE  /\ status = StatusAt(Doing) /\ Doing # "nothing"
         /\ Head(todo).flag \in status <=> ~ Head(todo).on
<1>1. Doing \in RequestIds /\ Head(todo) = RequestOf(Doing) /\ Doing # "nothing"
  BY FirstRequest, RequestsType
<1>2. status = StatusAt(Doing)
  BY <1>1 DEF StatusInv
<1>3. Doing \in {"STOP_SENSOR", "STOP", "SCALER_STOP", "SCALER_INIT", "INIT", "START_SENSOR",
                 "OPEN", "START_ENCODE", "STOP_ENCODE", "CLOSE"}
  BY <1>1 DEF RequestIds, SwitchIds
<1> DEFINE Open(id) == RequestOf(id).flag \in StatusAt(id) <=> ~ RequestOf(id).on
<1>4. Open("STOP_SENSOR")
  BY DEF RequestOf, Request, StatusAt, Preview
<1>5. Open("STOP")
  BY DEF RequestOf, Request, StatusAt, Preview
<1>6. Open("SCALER_STOP")
  BY DEF RequestOf, Request, StatusAt, Preview
<1>7. Open("SCALER_INIT")
  BY DEF RequestOf, Request, StatusAt, Preview
<1>8. Open("INIT")
  BY DEF RequestOf, Request, StatusAt, Preview
<1>9. Open("START_SENSOR")
  BY DEF RequestOf, Request, StatusAt, Preview
<1>10. Open("OPEN")
  BY DEF RequestOf, Request, StatusAt, Preview
<1>11. Open("START_ENCODE")
  BY DEF RequestOf, Request, StatusAt, Preview
<1>12. Open("STOP_ENCODE")
  BY DEF RequestOf, Request, StatusAt, Preview
<1>13. Open("CLOSE")
  BY DEF RequestOf, Request, StatusAt, Preview
<1> HIDE DEF Open
<1>14. Open(Doing)
  BY <1>3, <1>4, <1>5, <1>6, <1>7, <1>8, <1>9, <1>10, <1>11, <1>12, <1>13
<1> QED
  BY <1>1, <1>2, <1>14 DEF Open

\* A mailbox in which no request appears.
NoOrders(b) ==
  \/ Same(b) \/ Taken(b) \/ inbox'[b] = <<>>
  \/ \E m : m.id \in Data /\ Given(b, m)

LEMMA OrdersStay ==
  ASSUME NEW b \in Mailboxes, DOMAIN inbox[b] = 1 .. Len(inbox[b]), Len(inbox[b]) \in Nat,
         NoOrders(b)
  PROVE  \A k \in DOMAIN inbox'[b] : inbox'[b][k].id \notin Data =>
           \E i \in DOMAIN inbox[b] :
             /\ inbox[b][i] = inbox'[b][k]
             /\ i = k \/ (Taken(b) /\ i = k + 1)
<1>1. CASE Same(b)
  BY <1>1 DEF Same
<1>2. CASE Taken(b)
  <2> SUFFICES ASSUME NEW k \in DOMAIN inbox'[b]
               PROVE  k + 1 \in DOMAIN inbox[b] /\ inbox[b][k + 1] = inbox'[b][k]
    BY <1>2
  <2> QED
    BY <1>2 DEF Taken, Shifted
<1>3. CASE inbox'[b] = <<>>
  BY <1>3
<1>4. ASSUME NEW m, m.id \in Data, Given(b, m)
      PROVE  \A k \in DOMAIN inbox'[b] : inbox'[b][k].id \notin Data =>
               k \in DOMAIN inbox[b] /\ inbox[b][k] = inbox'[b][k]
  BY <1>4 DEF Given, Extended
<1> QED
  BY <1>1, <1>2, <1>3, <1>4 DEF NoOrders

LEMMA RequestsStay ==
  ASSUME TypeOK, RequestInv, \A b \in Mailboxes : NoOrders(b),
         UNCHANGED <<todo, waiting>>,
         ack' = ack \/ ~ waiting
  PROVE  RequestInv'
<1>1. Doing' = Doing
  BY DEF Doing
<1>2. \A b \in Mailboxes : DOMAIN inbox[b] = 1 .. Len(inbox[b]) /\ Len(inbox[b]) \in Nat
  BY LenProperties DEF TypeOK
<1>3. ASSUME NEW b \in Mailboxes, NEW k \in DOMAIN inbox'[b], inbox'[b][k].id \notin Data
      PROVE  /\ waiting' /\ Head(todo').to = b /\ Doing' = inbox'[b][k].id /\ ~ ack'[b]
             /\ \A j \in DOMAIN inbox'[b] : inbox'[b][j].id \notin Data => j = k
  <2>1. PICK i \in DOMAIN inbox[b] : inbox[b][i] = inbox'[b][k]
                                     /\ (i = k \/ (Taken(b) /\ i = k + 1))
    BY <1>2, <1>3, OrdersStay
  <2>2. /\ waiting /\ Head(todo).to = b /\ Doing = inbox[b][i].id /\ ~ ack[b]
        /\ \A j \in DOMAIN inbox[b] : inbox[b][j].id \notin Data => j = i
    BY <1>3, <2>1 DEF RequestInv
  <2>3. ASSUME NEW j \in DOMAIN inbox'[b], inbox'[b][j].id \notin Data
        PROVE  j = k
    <3>1. PICK h \in DOMAIN inbox[b] : inbox[b][h] = inbox'[b][j]
                                       /\ (h = j \/ (Taken(b) /\ h = j + 1))
      BY <1>2, <2>3, OrdersStay
    <3>2. h = i
      BY <2>2, <2>3, <3>1
    <3>3. CASE Taken(b)
      <4>1. j \in DOMAIN inbox'[b] /\ k \in DOMAIN inbox'[b] /\ DOMAIN inbox'[b] \subseteq Nat
        BY <1>3, <2>3, <3>3 DEF Taken, Shifted
      <4>2. \A n \in DOMAIN inbox'[b] : inbox'[b][n] = inbox[b][n + 1]
        BY <3>3 DEF Taken, Shifted
      <4>3. k + 1 \in DOMAIN inbox[b] /\ j + 1 \in DOMAIN inbox[b]
        BY <1>3, <2>3, <3>3 DEF Taken, Shifted
      <4>4. k + 1 = i /\ j + 1 = i
        BY <1>3, <2>2, <2>3, <4>1, <4>2, <4>3
      <4> QED
        BY <4>1, <4>4
    <3> QED
      BY <2>1, <3>1, <3>2, <3>3
  <2> QED
    BY <1>1, <2>1, <2>2, <2>3
<1> QED
  BY <1>3 DEF RequestInv

\* An order is carried out and acknowledged.
LEMMA OrderDone ==
  ASSUME TypeOK, RequestInv, NEW b \in Mailboxes, NEW id, id \notin Data, Order(b, id),
         Taken(b) \/ inbox'[b] = <<>>
  PROVE  /\ RequestInv'
         /\ waiting /\ Doing = id /\ ~ ack[b] /\ Head(todo).to = b
         /\ \A x : Handled(x)' <=> x = id
         /\ \A x : ~ Handled(x)
<1>1. /\ waiting /\ Head(todo).to = b /\ Doing = id /\ ~ ack[b]
      /\ \A j \in DOMAIN inbox[b] : inbox[b][j].id \notin Data => j = 1
  BY DEF Order, RequestInv
<1>2. \A a \in Mailboxes : DOMAIN inbox[a] = 1 .. Len(inbox[a]) /\ Len(inbox[a]) \in Nat
  BY LenProperties DEF TypeOK
<1>3. ASSUME NEW a \in Mailboxes, NEW k \in DOMAIN inbox'[a], inbox'[a][k].id \notin Data
      PROVE  FALSE
  <2>1. CASE a = b
    <3>1. Taken(b)
      BY <1>3, <2>1
    <3>2. k + 1 \in DOMAIN inbox[b] /\ inbox[b][k + 1] = inbox'[b][k] /\ k + 1 # 1
      BY <1>3, <2>1, <3>1 DEF Taken, Shifted
    <3> QED
      BY <1>1, <1>3, <2>1, <3>2
  <2>2. CASE a # b
    BY <1>1, <1>3, <2>2 DEF Order, Same, RequestInv
  <2> QED
    BY <2>1, <2>2
<1>4. waiting' = waiting /\ todo' = todo /\ ack'[b] = TRUE
  BY DEF Order, ClientStays, TypeOK
<1>5. RequestInv'
  BY <1>3, <1>4 DEF RequestInv
<1>6. Doing' = Doing
  BY <1>4 DEF Doing
<1> QED
  BY <1>1, <1>4, <1>5, <1>6 DEF Handled

\* Whoever carries an order out.
LEMMA NoWaitNothingHandled == ~ waiting => \A x : ~ Handled(x)
BY DEF Handled

-----------------------------------------------------------------------------
(* The state-handling task.                                                *)

\* Without a caller that waits there is no request in a mailbox.
LEMMA NoRequests ==
  ASSUME RequestInv, ~ waiting
  PROVE  \A b \in Mailboxes : \A k \in DOMAIN inbox[b] : inbox[b][k].id \in Data
BY DEF RequestInv

\* What the requests' steps leave alone.
PipeStays ==
  UNCHANGED <<sensor, regs, cmosq, cnt, video, started, action, used, stamps, sendFlag, packing>>

LEMMA PostMessageTypes ==
  ASSUME TypeOK, Client, PostMessage
  PROVE  /\ TypeOK' /\ Client' /\ PipeStays
         /\ UNCHANGED <<todo, status, shooting, captureFlag, reports>>
         /\ \A x : ~ Handled(x) /\ ~ Handled(x)'
         /\ \E b \in Mailboxes, id \in RequestIds :
              /\ Given(b, Plain(id)) /\ Plain(id).id = id
              /\ \A a \in Mailboxes \ {b} : Same(a)
<1> DEFINE r == Head(todo)
<1>1. todo # <<>> /\ ~ waiting
  BY DEF PostMessage
<1>2. Doing \in RequestIds /\ r = RequestOf(Doing)
  BY <1>1, FirstRequest DEF Client
<1>3. /\ r.to \in Mailboxes /\ r.id = Doing /\ Plain(Doing) \in Messages(r.to)
      /\ Plain(Doing).id = Doing /\ Doing \notin Data
  BY <1>2, RequestsType
<1>4. r.flag \in status <=> ~ r.on
  BY <1>1, NoneLeftOut DEF Client
<1>5. /\ ack' = [ack EXCEPT ![r.to] = FALSE] /\ inbox' = Post(inbox, r.to, Plain(r.id))
      /\ waiting' = TRUE /\ todo' = todo
  <2>1. ~ ((r.flag \in status) = r.on)
    <3>1. r.on \in BOOLEAN
      BY <1>2, RequestsType
    <3> QED
      BY <1>4, <3>1
  <2> QED
    BY <2>1 DEF PostMessage, Accepted
<1>6. /\ PipeStays /\ UNCHANGED <<status, shooting, captureFlag, reports, late, fails, calls>>
  BY DEF PostMessage, PipeStays, encodeVars, others, sensorVars, queueVars
<1> HIDE DEF r
<1>7. Boxes(inbox') /\ Given(r.to, Plain(Doing)) /\ \A a \in Mailboxes \ {r.to} : Same(a)
  BY <1>3, <1>5, PostGives
<1>8. TypeOK'
  BY <1>5, <1>6, <1>7, HurriedTypes DEF TypeOK, Boxes, PipeStays
<1>9. Doing' = Doing
  BY <1>5 DEF Doing
<1>10. TodoInv' /\ StatusInv'
  BY <1>5, <1>6, <1>9 DEF Client, TodoInv, StatusInv
<1>11. ~ ack'[r.to]
  BY <1>3, <1>5 DEF TypeOK
<1>12. Head(todo') = r
  BY <1>5 DEF r
<1>13. RequestInv'
  <2>1. \A b \in Mailboxes : \A k \in DOMAIN inbox[b] : inbox[b][k].id \in Data
    BY <1>1, NoRequests DEF Client
  <2>2. \A a \in Mailboxes \ {r.to} : \A k \in DOMAIN inbox'[a] : inbox'[a][k].id \in Data
    BY <1>7, <2>1 DEF Same
  <2>3. /\ Len(inbox[r.to]) \in Nat /\ DOMAIN inbox'[r.to] = 1 .. Len(inbox[r.to]) + 1
        /\ \A k \in DOMAIN inbox'[r.to] : k # Len(inbox[r.to]) + 1 => inbox'[r.to][k].id \in Data
        /\ inbox'[r.to][Len(inbox[r.to]) + 1] = Plain(Doing)
    BY <1>3, <1>7, <2>1 DEF Given, Extended
  <2>4. ASSUME NEW b \in Mailboxes, NEW k \in DOMAIN inbox'[b], inbox'[b][k].id \notin Data
        PROVE  /\ waiting' /\ Head(todo').to = b /\ Doing' = inbox'[b][k].id /\ ~ ack'[b]
               /\ \A j \in DOMAIN inbox'[b] : inbox'[b][j].id \notin Data => j = k
    <3>1. b = r.to
      BY <2>2, <2>4
    <3>2. k = Len(inbox[r.to]) + 1
      BY <2>3, <2>4, <3>1
    <3>3. \A j \in DOMAIN inbox'[b] : inbox'[b][j].id \notin Data => j = k
      BY <2>3, <3>1, <3>2
    <3>4. Doing' = inbox'[b][k].id
      BY <1>3, <1>9, <2>3, <3>1, <3>2
    <3> QED
      BY <1>5, <1>11, <1>12, <3>1, <3>3, <3>4
  <2> QED
    BY <1>1, <1>5, <2>4 DEF RequestInv
<1>14. \A x : ~ Handled(x) /\ ~ Handled(x)'
  BY <1>1, <1>11, <1>12 DEF Handled
<1> QED
  BY <1>2, <1>3, <1>5, <1>6, <1>7, <1>8, <1>10, <1>13, <1>14 DEF Client

\* The flags after a request are those of the next one.
LEMMA StatusFollows ==
  ASSUME NEW id \in RequestIds,
         status' = IF RequestOf(id).on THEN StatusAt(id) \cup {RequestOf(id).flag}
                   ELSE StatusAt(id) \ {RequestOf(id).flag}
  PROVE  /\ After(id) = "nothing" => status' \in {Preview, Preview \cup {"PACKER0", "START"}}
         /\ After(id) # "nothing" => status' = StatusAt(After(id))
         /\ "START" \in status' <=> id \in {"START_ENCODE"}
         /\ "PACKER0" \in status' <=> id \in {"OPEN", "START_ENCODE", "STOP_ENCODE"}
<1>1. CASE id = "STOP_SENSOR"
  BY <1>1 DEF StatusAt, After, RequestOf, Request, Preview
<1>2. CASE id = "STOP"
  BY <1>2 DEF StatusAt, After, RequestOf, Request, Preview
<1>3. CASE id = "SCALER_STOP"
  BY <1>3 DEF StatusAt, After, RequestOf, Request, Preview
<1>4. CASE id = "SCALER_INIT"
  BY <1>4 DEF StatusAt, After, RequestOf, Request, Preview
<1>5. CASE id = "INIT"
  BY <1>5 DEF StatusAt, After, RequestOf, Request, Preview
<1>6. CASE id = "START_SENSOR"
  BY <1>6 DEF StatusAt, After, RequestOf, Request, Preview
<1>7. CASE id = "OPEN"
  BY <1>7 DEF StatusAt, After, RequestOf, Request, Preview
<1>8. CASE id = "START_ENCODE"
  BY <1>8 DEF StatusAt, After, RequestOf, Request, Preview
<1>9. CASE id = "STOP_ENCODE"
  BY <1>9 DEF StatusAt, After, RequestOf, Request, Preview
<1>10. CASE id = "CLOSE"
  BY <1>10 DEF StatusAt, After, RequestOf, Request, Preview
<1> QED
  BY <1>1, <1>2, <1>3, <1>4, <1>5, <1>6, <1>7, <1>8, <1>9, <1>10 DEF RequestIds, SwitchIds

LEMMA PendMessageTypes ==
  ASSUME TypeOK, Client, PendMessage
  PROVE  /\ TypeOK' /\ Client' /\ PipeStays /\ inbox' = inbox
         /\ UNCHANGED <<shooting, captureFlag, reports>>
         /\ todo # <<>> /\ Handled(Doing) /\ Doing \in RequestIds /\ Doing' = After(Doing)
         /\ status = StatusAt(Doing) /\ \A x : ~ Handled(x)'
         /\ "START" \in status' <=> Doing \in {"START_ENCODE"}
         /\ "PACKER0" \in status' <=> Doing \in {"OPEN", "START_ENCODE", "STOP_ENCODE"}
<1> DEFINE r == Head(todo)
<1>1. waiting /\ ack[r.to] /\ todo # <<>>
  BY DEF PendMessage, Client, RequestInv
<1>2. Doing \in RequestIds /\ r = RequestOf(Doing)
  BY <1>1, FirstRequest DEF Client
<1>3. status = StatusAt(Doing)
  BY <1>1, NoneLeftOut DEF Client
<1>4. /\ ack' = [ack EXCEPT ![r.to] = FALSE] /\ waiting' = FALSE /\ todo' = Tail(todo)
      /\ status' = IF r.on THEN status \cup {r.flag} ELSE status \ {r.flag}
      /\ inbox' = inbox
  BY DEF PendMessage
<1>5. /\ PipeStays /\ UNCHANGED <<shooting, captureFlag, reports, late, fails, calls>>
  BY DEF PendMessage, PipeStays, encodeVars, others, sensorVars, queueVars
<1> HIDE DEF r
<1>6. TodoInv' /\ Doing' = After(Doing)
  BY <1>1, <1>4, NextRequest DEF Client
<1>7. /\ After(Doing) = "nothing" => status' \in {Preview, Preview \cup {"PACKER0", "START"}}
      /\ After(Doing) # "nothing" => status' = StatusAt(After(Doing))
      /\ "START" \in status' <=> Doing \in {"START_ENCODE"}
      /\ "PACKER0" \in status' <=> Doing \in {"OPEN", "START_ENCODE", "STOP_ENCODE"}
  <2>1. status' = IF RequestOf(Doing).on THEN StatusAt(Doing) \cup {RequestOf(Doing).flag}
                  ELSE StatusAt(Doing) \ {RequestOf(Doing).flag}
    BY <1>2, <1>3, <1>4
  <2> QED
    BY <1>2, <2>1, StatusFollows
<1>8. StatusInv'
  BY <1>6, <1>7 DEF StatusInv
<1>9. \A b \in Mailboxes : \A k \in DOMAIN inbox[b] : inbox[b][k].id \in Data
  BY <1>1 DEF Client, RequestInv, r
<1>10. RequestInv'
  BY <1>4, <1>9 DEF RequestInv
<1>11. Handled(Doing) /\ \A x : ~ Handled(x)'
  BY <1>1, <1>4 DEF Handled, r
<1>12. TypeOK'
  <2>1. r.flag \in Flags
    BY <1>2, RequestsType
  <2>2. status' \subseteq {"SCALER", "VIDEO", "SENSOR", "PACKER0", "START"}
    BY <1>4, <2>1 DEF TypeOK, Flags
  <2>3. ack' \in [Mailboxes -> BOOLEAN] /\ waiting' \in BOOLEAN
    BY <1>4 DEF TypeOK
  <2> QED
    BY <1>4, <1>5, <2>2, <2>3, HurriedTypes DEF TypeOK, PipeStays
<1> QED
  BY <1>1, <1>2, <1>3, <1>4, <1>5, <1>6, <1>7, <1>8, <1>10, <1>11, <1>12 DEF Client

\* A new call: what is to be done next.
CallStays == inbox' = inbox /\ ack' = ack /\ PipeStays /\ UNCHANGED <<status, waiting>>

LEMMA NewCall ==
  ASSUME TypeOK, Client, todo = <<>>, CallStays, TodoInv',
         \/ Doing' = "nothing"
         \/ Doing' \in {"OPEN", "STOP_SENSOR"} /\ "START" \notin status
         \/ Doing' = "STOP_ENCODE" /\ "START" \in status
  PROVE  Client' /\ (\A x : ~ Handled(x) /\ ~ Handled(x)')
<1>1. ~ waiting /\ ~ waiting'
  BY DEF Client, RequestInv, CallStays
<1>2. Doing = "nothing"
  BY DEF Doing
<1>3. StatusInv'
  <2>1. status \in {Preview, Preview \cup {"PACKER0", "START"}} /\ status' = status
    BY <1>2 DEF Client, StatusInv, CallStays
  <2>2. "START" \notin Preview
    BY DEF Preview
  <2> QED
    BY <2>1, <2>2 DEF StatusInv, StatusAt
<1>4. RequestInv'
  <2>1. \A b \in Mailboxes : \A k \in DOMAIN inbox'[b] : inbox'[b][k].id \in Data
    BY <1>1, NoRequests DEF Client, CallStays
  <2> QED
    BY <1>1, <2>1 DEF RequestInv
<1>5. \A x : ~ Handled(x) /\ ~ Handled(x)'
  BY <1>1 DEF Handled
<1> QED
  BY <1>3, <1>4, <1>5 DEF Client

\* The calls' requests, in the state that a call leads to.
LEMMA PlannedNext == Planned'
BY Plans, PTL

LEMMA CallTypes ==
  ASSUME TypeOK, Client, PictureInv, CallStart \/ CallStop \/ CallCapture
  PROVE  /\ TypeOK' /\ Client' /\ CallStays
         /\ \A x : ~ Handled(x) /\ ~ Handled(x)'
         /\ todo = <<>> /\ ~ shooting /\ reports' = reports /\ Doing = "nothing"
         /\ \/ UNCHANGED <<captureFlag, shooting>> /\ Doing' \in {"OPEN", "STOP_ENCODE"}
            \/ captureFlag' /\ shooting' /\ todo' = <<>> /\ Doing' = "nothing"
               /\ "START" \notin status
<1>1. PICK requests : Call(requests)
  BY DEF CallStart, CallStop, CallCapture
<1>2. /\ todo = <<>> /\ ~ shooting /\ reports' = reports /\ CallStays
      /\ calls < MaxCalls /\ calls' = calls + 1
      /\ UNCHANGED <<late, fails>>
  BY <1>1 DEF Call, CallStays, PipeStays, others, sensorVars, queueVars
<1>3. calls' \in 0 .. MaxCalls
  BY <1>2, PipeAssumption DEF TypeOK
<1>4. /\ TodoInv'
      /\ \/ UNCHANGED <<captureFlag, shooting>>
            /\ \/ Doing' = "OPEN" /\ "START" \notin status
               \/ Doing' = "STOP_ENCODE" /\ "START" \in status
         \/ captureFlag' = TRUE /\ shooting' = TRUE /\ todo' = <<>> /\ Doing' = "nothing"
            /\ "START" \notin status
  <2>1. CASE CallStart
    <3>1. todo' = VideoEncodeStart /\ UNCHANGED <<captureFlag, shooting>> /\ "START" \notin status
      BY <2>1 DEF CallStart, Call
    <3> QED
      BY <3>1, PlannedNext DEF Planned
  <2>2. CASE CallStop
    <3>1. todo' = VideoEncodeStop /\ UNCHANGED <<captureFlag, shooting>> /\ "START" \in status
      BY <2>2 DEF CallStop, Call
    <3> QED
      BY <3>1, PlannedNext DEF Planned
  <2>3. CASE CallCapture
    <3>1. todo' = <<>> /\ captureFlag' = TRUE /\ shooting' = TRUE /\ "START" \notin status
      BY <2>3 DEF CallCapture, Call
    <3> QED
      BY <3>1, PlannedNext DEF Planned
  <2> QED
    BY <2>1, <2>2, <2>3
<1>5. Client' /\ \A x : ~ Handled(x) /\ ~ Handled(x)'
  BY <1>2, <1>4, NewCall
<1>6. Doing = "nothing"
  BY <1>2 DEF Doing
<1>7. TypeOK'
  <2>1. captureFlag' \in BOOLEAN /\ shooting' \in BOOLEAN
    BY <1>4 DEF TypeOK
  <2> QED
    BY <1>2, <1>3, <2>1, HurriedTypes DEF TypeOK, CallStays, PipeStays
<1> QED
  BY <1>2, <1>4, <1>5, <1>6, <1>7

LEMMA CaptureSwitchTypes ==
  ASSUME TypeOK, Client, PictureInv, CaptureSwitch
  PROVE  /\ TypeOK' /\ Client' /\ CallStays
         /\ \A x : ~ Handled(x) /\ ~ Handled(x)'
         /\ todo = <<>> /\ Doing = "nothing" /\ Doing' = "STOP_SENSOR"
         /\ shooting /\ reports = 1 /\ reports' = 0 /\ ~ shooting' /\ captureFlag' = captureFlag
<1>1. /\ todo = <<>> /\ reports > 0 /\ reports' = reports - 1 /\ shooting' = FALSE
      /\ todo' = PreviewStop \o PreviewStart
  BY DEF CaptureSwitch
<1>2. CallStays /\ UNCHANGED <<captureFlag, late, fails, calls>>
  BY DEF CaptureSwitch, CallStays, PipeStays, encodeVars, others, sensorVars, queueVars
<1>3. shooting /\ "START" \notin status
  BY <1>1 DEF PictureInv
<1>4. TodoInv' /\ Doing' = "STOP_SENSOR"
  BY <1>1, PlannedNext DEF Planned
<1>5. Client' /\ \A x : ~ Handled(x) /\ ~ Handled(x)'
  BY <1>1, <1>2, <1>3, <1>4, NewCall
<1>6. Doing = "nothing"
  BY <1>1 DEF Doing
<1>7. reports = 1 /\ reports' = 0
  BY <1>1 DEF TypeOK
<1>8. TypeOK'
  <2>1. reports' \in 0 .. 1
    BY <1>7
  <2>2. shooting' \in BOOLEAN
    BY <1>1
  <2> QED
    BY <1>2, <2>1, <2>2, HurriedTypes DEF TypeOK, CallStays, PipeStays
<1> QED
  BY <1>1, <1>2, <1>3, <1>4, <1>5, <1>6, <1>7, <1>8

-----------------------------------------------------------------------------
(* Messages of one kind in a mailbox.                                      *)

\* No two of them are about the same buffer.
OneEach(b, id) == \A j, k \in Queued(b, id) : inbox[b][j].buf = inbox[b][k].buf => j = k

LEMMA NoneQueued ==
  ASSUME NEW b, NEW id
  PROVE  /\ Queued(b, id) = {} <=> Buffers(b, id) = {}
         /\ Queued(b, id) = {} => AtMostOne(b, id) /\ OneEach(b, id)
         /\ AtMostOne(b, id) => OneEach(b, id)
BY DEF Buffers, AtMostOne, OneEach

\* A step that neither brings one nor takes one away.
KindStays(b, id) ==
  \/ Same(b)
  \/ Taken(b) /\ inbox[b][1].id # id
  \/ \E m : m.id # id /\ Given(b, m)

LEMMA KindUnchanged ==
  ASSUME NEW b, NEW id, KindStays(b, id)
  PROVE  /\ Buffers(b, id)' = Buffers(b, id)
         /\ Queued(b, id)' = {} <=> Queued(b, id) = {}
         /\ AtMostOne(b, id) => AtMostOne(b, id)'
         /\ OneEach(b, id) => OneEach(b, id)'
<1>1. CASE Same(b)
  BY <1>1 DEF Same, Buffers, Queued, AtMostOne, OneEach
<1>2. CASE Taken(b) /\ inbox[b][1].id # id
  <2>1. \A k : k \in Queued(b, id)' =>
          /\ k \in Nat /\ k + 1 \in Queued(b, id) /\ inbox'[b][k] = inbox[b][k + 1]
    BY <1>2 DEF Taken, Shifted, Queued
  <2>2. ASSUME NEW k \in Queued(b, id)
        PROVE  k \in Nat /\ k - 1 \in Queued(b, id)' /\ inbox'[b][k - 1] = inbox[b][k]
    <3>1. k \in DOMAIN inbox[b] /\ inbox[b][k].id = id /\ k # 1
      BY <1>2 DEF Queued
    <3>2. k \in Nat /\ k - 1 \in DOMAIN inbox'[b] /\ (k - 1) + 1 = k
      BY <1>2, <3>1 DEF Taken, Shifted
    <3>3. inbox'[b][k - 1] = inbox[b][k]
      BY <1>2, <3>2 DEF Taken, Shifted
    <3> QED
      BY <3>1, <3>2, <3>3 DEF Queued
  <2>3. Buffers(b, id)' = Buffers(b, id)
    BY <2>1, <2>2 DEF Buffers
  <2>4. Queued(b, id)' = {} <=> Queued(b, id) = {}
    BY <2>1, <2>2
  <2>5. AtMostOne(b, id) => AtMostOne(b, id)'
    BY <2>1 DEF AtMostOne
  <2>6. OneEach(b, id) => OneEach(b, id)'
    BY <2>1 DEF OneEach
  <2> QED
    BY <2>3, <2>4, <2>5, <2>6
<1>3. ASSUME NEW m, m.id # id, Given(b, m)
      PROVE  /\ Buffers(b, id)' = Buffers(b, id)
             /\ Queued(b, id)' = {} <=> Queued(b, id) = {}
             /\ AtMostOne(b, id) => AtMostOne(b, id)'
             /\ OneEach(b, id) => OneEach(b, id)'
  <2>1. Queued(b, id)' = Queued(b, id) /\ \A k \in Queued(b, id) : inbox'[b][k] = inbox[b][k]
    BY <1>3 DEF Given, Extended, Queued
  <2> QED
    BY <2>1 DEF Buffers, AtMostOne, OneEach
<1> QED
  BY <1>1, <1>2, <1>3 DEF KindStays

\* The first one is taken.
LEMMA KindTaken ==
  ASSUME NEW b, NEW id, Taken(b), inbox[b][1].id = id
  PROVE  /\ 1 \in Queued(b, id)
         /\ Buffers(b, id) = Buffers(b, id)' \cup {inbox[b][1].buf}
         /\ AtMostOne(b, id) => Queued(b, id)' = {}
         /\ OneEach(b, id) => OneEach(b, id)' /\ inbox[b][1].buf \notin Buffers(b, id)'
<1>1. \A k : k \in Queued(b, id)' =>
        /\ k \in Nat \ {0} /\ k + 1 \in Queued(b, id) /\ inbox'[b][k] = inbox[b][k + 1]
  BY DEF Taken, Shifted, Queued
<1>2. \A k : k \in Queued(b, id) /\ k # 1 =>
        /\ k \in Nat /\ k - 1 \in Queued(b, id)' /\ inbox'[b][k - 1] = inbox[b][k]
  BY DEF Taken, Shifted, Queued
<1>3. 1 \in Queued(b, id)
  BY DEF Taken, Shifted, Queued
<1>4. Buffers(b, id) = Buffers(b, id)' \cup {inbox[b][1].buf}
  <2>1. Buffers(b, id) \subseteq Buffers(b, id)' \cup {inbox[b][1].buf}
    BY <1>2 DEF Buffers
  <2>2. Buffers(b, id)' \subseteq Buffers(b, id)
    BY <1>1 DEF Buffers
  <2>3. inbox[b][1].buf \in Buffers(b, id)
    BY <1>3 DEF Buffers
  <2> QED
    BY <2>1, <2>2, <2>3
<1>5. AtMostOne(b, id) => Queued(b, id)' = {}
  BY <1>1, <1>3 DEF AtMostOne
<1>6. OneEach(b, id) => OneEach(b, id)' /\ inbox[b][1].buf \notin Buffers(b, id)'
  <2>1. OneEach(b, id) => OneEach(b, id)'
    BY <1>1 DEF OneEach
  <2>2. OneEach(b, id) => inbox[b][1].buf \notin Buffers(b, id)'
    BY <1>1, <1>3 DEF OneEach, Buffers
  <2> QED
    BY <2>1, <2>2
<1> QED
  BY <1>3, <1>4, <1>5, <1>6

\* Another one comes.
LEMMA KindGiven ==
  ASSUME NEW b, NEW m, Given(b, m)
  PROVE  /\ Buffers(b, m.id)' = Buffers(b, m.id) \cup {m.buf}
         /\ Queued(b, m.id)' # {}
         /\ Queued(b, m.id) = {} => AtMostOne(b, m.id)'
         /\ OneEach(b, m.id) /\ m.buf \notin Buffers(b, m.id) => OneEach(b, m.id)'
<1> DEFINE n == Len(inbox[b]) + 1
<1>1. /\ n \notin Queued(b, m.id) /\ Queued(b, m.id)' = Queued(b, m.id) \cup {n}
      /\ inbox'[b][n] = m
      /\ \A k \in Queued(b, m.id) : inbox'[b][k] = inbox[b][k]
  BY DEF Given, Extended, Queued
<1> HIDE DEF n
<1>2. Buffers(b, m.id)' = Buffers(b, m.id) \cup {m.buf}
  BY <1>1 DEF Buffers
<1>3. Queued(b, m.id) = {} => AtMostOne(b, m.id)'
  BY <1>1 DEF AtMostOne
<1>4. OneEach(b, m.id) /\ m.buf \notin Buffers(b, m.id) => OneEach(b, m.id)'
  BY <1>1 DEF OneEach, Buffers
<1> QED
  BY <1>1, <1>2, <1>3, <1>4

LEMMA KindEmptied ==
  ASSUME NEW b, NEW id, inbox'[b] = <<>>
  PROVE  Queued(b, id)' = {} /\ Buffers(b, id)' = {} /\ AtMostOne(b, id)' /\ OneEach(b, id)'
BY DEF Queued, Buffers, AtMostOne, OneEach

-----------------------------------------------------------------------------
(* Queues of buffers.                                                      *)

LEMMA RangeExtended ==
  ASSUME NEW s, NEW t, NEW m, Extended(s, t, m)
  PROVE  /\ Range(t) = Range(s) \cup {m}
         /\ IsInjective(s) /\ m \notin Range(s) => IsInjective(t)
<1>1. /\ DOMAIN t = DOMAIN s \cup {Len(s) + 1} /\ Len(s) + 1 \notin DOMAIN s
      /\ \A k \in DOMAIN s : t[k] = s[k]
      /\ t[Len(s) + 1] = m
  BY DEF Extended
<1> DEFINE n == Len(s) + 1
<1> HIDE DEF n
<1>2. DOMAIN t = DOMAIN s \cup {n} /\ n \notin DOMAIN s /\ t[n] = m
  BY <1>1 DEF n
<1> QED
  BY <1>1, <1>2 DEF Range, IsInjective

LEMMA RangeShifted ==
  ASSUME NEW s, NEW t, Shifted(s, t)
  PROVE  /\ Range(s) = Range(t) \cup {s[1]}
         /\ IsInjective(s) => IsInjective(t) /\ s[1] \notin Range(t)
<1>1. \A k \in DOMAIN t : k \in Nat \ {0} /\ k + 1 \in DOMAIN s /\ t[k] = s[k + 1]
  BY DEF Shifted
<1>2. 1 \in DOMAIN s /\ \A k \in DOMAIN s : k # 1 => k - 1 \in DOMAIN t /\ t[k - 1] = s[k]
  <2>1. 1 \in DOMAIN s
    BY DEF Shifted
  <2>2. ASSUME NEW k \in DOMAIN s, k # 1
        PROVE  k - 1 \in DOMAIN t /\ t[k - 1] = s[k]
    <3>1. k \in Nat /\ k - 1 \in DOMAIN t /\ (k - 1) + 1 = k
      BY <2>2 DEF Shifted
    <3> QED
      BY <1>1, <3>1
  <2> QED
    BY <2>1, <2>2
<1>3. Range(s) = Range(t) \cup {s[1]}
  <2>1. Range(s) \subseteq Range(t) \cup {s[1]}
    BY <1>2 DEF Range
  <2>2. Range(t) \subseteq Range(s) /\ s[1] \in Range(s)
    BY <1>1, <1>2 DEF Range
  <2> QED
    BY <2>1, <2>2
<1>4. IsInjective(s) => IsInjective(t)
  BY <1>1 DEF IsInjective
<1>5. IsInjective(s) => s[1] \notin Range(t)
  BY <1>1, <1>2 DEF IsInjective, Range
<1> QED
  BY <1>3, <1>4, <1>5

LEMMA RangeRemoved ==
  ASSUME NEW S, NEW s \in Seq(S), NEW k \in DOMAIN s
  PROVE  /\ Range(s) = Range(RemoveAt(s, k)) \cup {s[k]}
         /\ IsInjective(s) => IsInjective(RemoveAt(s, k)) /\ s[k] \notin Range(RemoveAt(s, k))
<1> DEFINE t == RemoveAt(s, k)
<1>1. /\ t \in Seq(S) /\ Len(t) = Len(s) - 1 /\ Len(s) \in Nat \ {0} /\ DOMAIN s = 1 .. Len(s)
      /\ \A i \in 1 .. Len(s) - 1 : t[i] = IF i < k THEN s[i] ELSE s[i + 1]
  BY RemoveAtDoes
<1>2. DOMAIN t = 1 .. Len(s) - 1
  BY <1>1, LenProperties
<1> HIDE DEF t
<1> DEFINE up(i) == IF i < k THEN i ELSE i + 1
<1>3. /\ \A i \in DOMAIN t : up(i) \in DOMAIN s /\ up(i) # k /\ t[i] = s[up(i)]
      /\ \A i, j \in DOMAIN t : up(i) = up(j) => i = j
  BY <1>1, <1>2
<1>4. ASSUME NEW j \in DOMAIN s, j # k
      PROVE  \E i \in DOMAIN t : t[i] = s[j]
  <2>1. CASE j < k
    <3>1. j \in 1 .. Len(s) - 1
      BY <1>1, <1>4, <2>1
    <3> QED
      BY <1>1, <1>2, <2>1, <3>1
  <2>2. CASE ~ (j < k)
    <3>1. j - 1 \in 1 .. Len(s) - 1 /\ ~ (j - 1 < k) /\ (j - 1) + 1 = j
      BY <1>1, <1>4, <2>2
    <3> QED
      BY <1>1, <1>2, <2>2, <3>1
  <2> QED
    BY <2>1, <2>2
<1> HIDE DEF up
<1>5. Range(s) = Range(t) \cup {s[k]}
  <2>1. Range(s) \subseteq Range(t) \cup {s[k]}
    BY <1>4 DEF Range
  <2>2. Range(t) \subseteq Range(s) /\ s[k] \in Range(s)
    BY <1>3 DEF Range
  <2> QED
    BY <2>1, <2>2
<1>6. IsInjective(s) => IsInjective(t)
  BY <1>3 DEF IsInjective
<1>7. IsInjective(s) => s[k] \notin Range(t)
  BY <1>3 DEF IsInjective, Range
<1> QED
  BY <1>5, <1>6, <1>7 DEF t

-----------------------------------------------------------------------------
(* The invariant, part by part: the types and the requests.                *)

\* The step is none of the state-handling task's, and acknowledges nothing.
Quiet == ClientStays /\ ack' = ack

LEMMA QuietHandled ==
  ASSUME Quiet
  PROVE  Doing' = Doing /\ \A x : Handled(x)' <=> Handled(x)
BY DEF Quiet, ClientStays, Doing, Handled

LEMMA QuietClient ==
  ASSUME TypeOK, Client, Quiet,
         NoOrders("avi"), NoOrders("enc"), NoOrders("scaler"), NoOrders("packer")
  PROVE  Client'
<1>1. \A b \in Mailboxes : NoOrders(b)
  BY MailboxNames
<1>2. RequestInv'
  BY <1>1, RequestsStay DEF Client, Quiet, ClientStays
<1>3. TodoInv' /\ StatusInv'
  BY QuietHandled DEF Client, TodoInv, StatusInv, Quiet, ClientStays
<1> QED
  BY <1>2, <1>3 DEF Client

LEMMA OrderClient ==
  ASSUME TypeOK, Client, NEW b \in Mailboxes, NEW id, id \notin Data, Order(b, id),
         Taken(b) \/ inbox'[b] = <<>>
  PROVE  /\ Client' /\ Doing = id /\ Doing' = id
         /\ \A x : Handled(x)' <=> x = id
         /\ \A x : ~ Handled(x)
<1>1. /\ RequestInv' /\ Doing = id
      /\ \A x : Handled(x)' <=> x = id
      /\ \A x : ~ Handled(x)
  BY OrderDone DEF Client
<1>2. Doing' = Doing
  BY DEF Doing, Order, ClientStays
<1>3. TodoInv' /\ StatusInv'
  BY <1>2 DEF Client, TodoInv, StatusInv, Order, ClientStays
<1> QED
  BY <1>1, <1>2, <1>3 DEF Client

\* No request is made while a picture is being taken.
LEMMA NobodyWaits ==
  ASSUME Client, PictureInv, shooting
  PROVE  todo = <<>> /\ ~ waiting /\ Doing = "nothing" /\ \A x : ~ Handled(x)
<1>1. todo = <<>> /\ ~ waiting
  BY DEF Client, PictureInv, RequestInv
<1> QED
  BY <1>1 DEF Doing, Handled

LEMMA CaptureClient ==
  ASSUME TypeOK, Client, PictureInv, CapturePicture
  PROVE  /\ Client' /\ Doing' = Doing
         /\ 1 \in Captures /\ shooting /\ \A x : ~ Handled(x) /\ ~ Handled(x)'
<1>1. Order("avi", "CAPTURE_PICTURE") /\ Taken("avi")
  BY CapturePictureTypes
<1>2. 1 \in Captures
  BY <1>1 DEF Order, Captures, Queued
<1>3. shooting
  BY <1>2 DEF PictureInv
<1>4. ~ waiting /\ \A x : ~ Handled(x)
  BY <1>3, NobodyWaits
<1>5. \A b \in Mailboxes : NoOrders(b)
  BY <1>1, MailboxNames DEF Order, NoOrders
<1>6. UNCHANGED <<todo, waiting, status>> /\ Doing' = Doing
  BY <1>1 DEF Order, ClientStays, Doing
<1>7. RequestInv'
  BY <1>4, <1>5, <1>6, RequestsStay DEF Client
<1>8. TodoInv' /\ StatusInv'
  BY <1>6 DEF Client, TodoInv, StatusInv
<1>9. \A x : ~ Handled(x)'
  BY <1>4, <1>6 DEF Handled
<1> QED
  BY <1>2, <1>3, <1>4, <1>6, <1>7, <1>8, <1>9 DEF Client

\* What a piece, or a frame on its way, does to the requests.
LEMMA PipeClient ==
  ASSUME TypeOK, Client, PictureInv, EncoderInv,
         \/ SwitchBuffer \/ FirstPiece \/ MiddlePiece \/ PieceMissing
         \/ PictureEncoded \/ FrameEncoded \/ FrameDropped \/ VideoWriteDone
  PROVE  TypeOK' /\ Client' /\ Quiet
<1>1. CASE SwitchBuffer
  <2>1. TypeOK' /\ Quiet /\ NoOrders("avi") /\ NoOrders("scaler") /\ NoOrders("packer")
    BY <1>1, SwitchBufferTypes DEF Quiet, NoOrders
  <2>2. NoOrders("enc")
    BY <1>1, SwitchBufferTypes DEF NoOrders, Data
  <2> QED
    BY <2>1, <2>2, QuietClient
<1>2. ASSUME PieceMoves, TypeOK', NoOrders("avi"), NoOrders("packer")
      PROVE  TypeOK' /\ Client' /\ Quiet
  <2>1. Quiet /\ NoOrders("enc") /\ NoOrders("scaler")
    BY <1>2 DEF Quiet, PieceMoves, NoOrders, ClientStays
  <2> QED
    BY <1>2, <2>1, QuietClient
<1>3. CASE FirstPiece
  BY <1>2, <1>3, FirstPieceTypes DEF NoOrders
<1>4. CASE MiddlePiece
  BY <1>2, <1>4, MiddlePieceTypes DEF NoOrders
<1>5. CASE PieceMissing
  BY <1>2, <1>5, PieceMissingTypes DEF NoOrders
<1>6. CASE PictureEncoded
  <2>1. Plain("CAPTURE_PICTURE").id \in Data
    BY DEF Plain, Data
  <2> QED
    BY <1>2, <1>6, <2>1, PictureEncodedTypes DEF NoOrders
<1>7. CASE FrameEncoded
  <2>1. \A i \in VideoBuffers : Frame(i).id \in Data
    BY FrameMessage DEF Data
  <2> QED
    BY <1>2, <1>7, <2>1, FrameEncodedTypes DEF NoOrders
<1>8. CASE FrameDropped
  BY <1>2, <1>8, FrameDroppedTypes DEF NoOrders
<1>9. CASE VideoWriteDone
  <2>1. \A i \in VideoBuffers : Frame(i).id \in Data
    BY FrameMessage DEF Data
  <2>2. TypeOK' /\ Quiet /\ NoOrders("avi") /\ NoOrders("scaler") /\ NoOrders("enc")
    BY <1>9, VideoWriteDoneTypes DEF Quiet, NoOrders
  <2>3. NoOrders("packer")
    BY <1>9, <2>1, VideoWriteDoneTypes DEF NoOrders
  <2> QED
    BY <2>2, <2>3, QuietClient
<1> QED
  BY <1>1, <1>3, <1>4, <1>5, <1>6, <1>7, <1>8, <1>9

\* The orders.
LEMMA OrderIds ==
  /\ \A id \in {"INIT", "STOP", "SCALER_INIT", "SCALER_STOP", "START_SENSOR", "STOP_SENSOR",
                "START_ENCODE", "STOP_ENCODE", "OPEN", "CLOSE"} : id \notin Data
  /\ {"avi", "enc", "scaler", "packer"} \subseteq Mailboxes
BY DEF Data, Mailboxes

\* A frame that the packer writes, or drops.
PackerFrame ==
  /\ inbox["packer"][1].id = "FRAME" /\ inbox["packer"][1].buf \in VideoBuffers
  /\ UNCHANGED <<ack, packing>>
  /\ \/ Given("enc", WriteDone(inbox["packer"][1].buf))
     \/ ~ packing /\ Same("enc")

PackerOrder(id) == Order("packer", id) /\ packing' = (id = "OPEN")

LEMMA PackerClient ==
  ASSUME TypeOK, Client, PackerTask
  PROVE  /\ TypeOK' /\ Client'
         /\ \/ PackerFrame /\ Quiet
            \/ \E id \in {"OPEN", "CLOSE"} : PackerOrder(id)
<1>1. PackerFrame \/ \E id \in {"OPEN", "CLOSE"} : PackerOrder(id)
  BY PackerTaskTypes DEF PackerFrame, PackerOrder
<1>2. CASE PackerFrame
  <2>1. Quiet /\ NoOrders("avi") /\ NoOrders("scaler") /\ NoOrders("packer")
    BY <1>2, PackerTaskTypes DEF PackerFrame, Quiet, NoOrders
  <2>2. NoOrders("enc")
    BY <1>2, FrameMessage DEF PackerFrame, NoOrders, Data
  <2> QED
    BY <1>2, <2>1, <2>2, QuietClient, PackerTaskTypes
<1>3. ASSUME NEW id \in {"OPEN", "CLOSE"}, PackerOrder(id)
      PROVE  Client'
  BY <1>3, OrderIds, OrderClient, PackerTaskTypes DEF PackerOrder
<1> QED
  BY <1>1, <1>2, <1>3, PackerTaskTypes

LEMMA ClientKept ==
  ASSUME TypeOK, Client, PictureInv, EncoderInv, Next
  PROVE  TypeOK' /\ Client'
<1>1. CASE SwitchBuffer \/ FirstPiece \/ MiddlePiece \/ PieceMissing
           \/ PictureEncoded \/ FrameEncoded \/ FrameDropped \/ VideoWriteDone
  BY <1>1, PipeClient
<1>2. CASE MjpegInit
  <2>1. Order("enc", "INIT") /\ Taken("enc") /\ TypeOK'
    BY <1>2, MjpegInitTypes
  <2>2. "INIT" \notin Data /\ "enc" \in Mailboxes
    BY OrderIds
  <2> QED
    BY <2>1, <2>2, OrderClient
<1>3. CASE EncodeTaskStop
  <2>1. Order("enc", "STOP") /\ inbox'["enc"] = <<>> /\ TypeOK'
    BY <1>3, EncodeTaskStopTypes
  <2>2. "STOP" \notin Data /\ "enc" \in Mailboxes
    BY OrderIds
  <2> QED
    BY <2>1, <2>2, OrderClient
<1>4. CASE ScalerTask
  <2>1. PICK id \in {"SCALER_INIT", "SCALER_STOP"} : Order("scaler", id) /\ Taken("scaler") /\ TypeOK'
    BY <1>4, ScalerTaskTypes
  <2>2. id \notin Data /\ "scaler" \in Mailboxes
    BY OrderIds
  <2> QED
    BY <2>1, <2>2, OrderClient
<1>5. CASE StartSensor
  <2>1. Order("avi", "START_SENSOR") /\ Taken("avi") /\ TypeOK'
    BY <1>5, StartSensorTypes
  <2>2. "START_SENSOR" \notin Data /\ "avi" \in Mailboxes
    BY OrderIds
  <2> QED
    BY <2>1, <2>2, OrderClient
<1>6. CASE StopSensor
  <2>1. Order("avi", "STOP_SENSOR") /\ Taken("avi") /\ TypeOK'
    BY <1>6, StopSensorTypes
  <2>2. "STOP_SENSOR" \notin Data /\ "avi" \in Mailboxes
    BY OrderIds
  <2> QED
    BY <2>1, <2>2, OrderClient
<1>7. CASE StartEncode
  <2>1. Order("avi", "START_ENCODE") /\ Taken("avi") /\ TypeOK'
    BY <1>7, StartEncodeTypes
  <2>2. "START_ENCODE" \notin Data /\ "avi" \in Mailboxes
    BY OrderIds
  <2> QED
    BY <2>1, <2>2, OrderClient
<1>8. CASE StopEncode
  <2>1. Order("avi", "STOP_ENCODE") /\ Taken("avi") /\ TypeOK'
    BY <1>8, StopEncodeTypes
  <2>2. "STOP_ENCODE" \notin Data /\ "avi" \in Mailboxes
    BY OrderIds
  <2> QED
    BY <2>1, <2>2, OrderClient
<1>9. CASE CapturePicture
  BY <1>9, CapturePictureTypes, CaptureClient
<1>10. CASE PackerTask
  BY <1>10, PackerClient
<1>11. CASE PostMessage
  BY <1>11, PostMessageTypes
<1>12. CASE PendMessage
  BY <1>12, PendMessageTypes
<1>13. CASE CaptureSwitch
  BY <1>13, CaptureSwitchTypes
<1>14. CASE CallStart \/ CallStop \/ CallCapture
  BY <1>14, CallTypes
<1> QED
  BY <1>1, <1>2, <1>3, <1>4, <1>5, <1>6, <1>7, <1>8, <1>9, <1>10, <1>11, <1>12, <1>13, <1>14
  DEF Next, EncoderTask, AviTask, StateHandlingTask

-----------------------------------------------------------------------------
(* The picture.                                                            *)

\* An order changes its own kind of message only.
LEMMA OrderKinds ==
  ASSUME NEW b, NEW id, Order(b, id), Taken(b), NEW c \in Mailboxes, NEW x, x # id \/ c # b
  PROVE  KindStays(c, x)
BY DEF Order, KindStays

LEMMA PictureStays ==
  ASSUME PictureInv, UNCHANGED <<shooting, captureFlag, action, reports, status, todo>>,
         KindStays("avi", "CAPTURE_PICTURE")
  PROVE  PictureInv'
<1>1. /\ Captures' = {} <=> Captures = {}
      /\ (\A j, k \in Captures : j = k) => (\A j, k \in Captures' : j = k)
  BY KindUnchanged DEF Captures, AtMostOne
<1> QED
  BY <1>1 DEF PictureInv

LEMMA PictureKept ==
  ASSUME TypeOK, Client, PictureInv, EncoderInv, Next
  PROVE  PictureInv'
<1> DEFINE kind == "CAPTURE_PICTURE"
<1>0. "avi" \in Mailboxes
  BY MailboxNames
<1>1. CASE SwitchBuffer
  <2>1. UNCHANGED <<shooting, captureFlag, action, reports, status, todo>> /\ KindStays("avi", kind)
    BY <1>1, SwitchBufferTypes DEF ClientStays, KindStays
  <2> QED
    BY <2>1, PictureStays
<1>2. CASE FirstPiece
  <2>1. UNCHANGED <<shooting, reports, status, todo>> /\ Same("avi")
    BY <1>2, FirstPieceTypes DEF PieceMoves
  <2>2. Captures' = Captures
    BY <2>1 DEF Captures, Queued, Same
  <2>3. action' = (action \/ captureFlag) /\ ~ captureFlag'
    BY <1>2, FirstPieceDoes
  <2> QED
    BY <2>1, <2>2, <2>3 DEF PictureInv
<1>3. CASE MiddlePiece
  <2>1. UNCHANGED <<shooting, captureFlag, action, reports, status, todo>> /\ KindStays("avi", kind)
    BY <1>3, MiddlePieceTypes DEF PieceMoves, KindStays
  <2> QED
    BY <2>1, PictureStays
<1>4. CASE PieceMissing
  <2>1. UNCHANGED <<shooting, reports, status, todo>> /\ Same("avi")
    BY <1>4, PieceMissingTypes DEF PieceMoves
  <2>2. Captures' = Captures
    BY <2>1 DEF Captures, Queued, Same
  <2>3. captureFlag' = (captureFlag \/ action) /\ ~ action'
    BY <1>4, PieceMissingTypes
  <2> QED
    BY <2>1, <2>2, <2>3 DEF PictureInv
<1>5. CASE PictureEncoded
  <2>1. UNCHANGED <<shooting, reports, status, todo>> /\ action /\ ~ action'
        /\ captureFlag' = captureFlag /\ Given("avi", Plain(kind))
    BY <1>5, PictureEncodedTypes DEF PieceMoves
  <2>2. Plain(kind).id = kind
    BY DEF Plain
  <2>3. Captures = {} /\ reports = 0 /\ shooting /\ ~ captureFlag
    BY <2>1 DEF PictureInv
  <2>4. \A j, k \in Captures' : j = k
    BY <2>1, <2>2, <2>3, KindGiven DEF Captures, AtMostOne
  <2> QED
    BY <2>1, <2>3, <2>4 DEF PictureInv
<1>6. CASE FrameEncoded
  <2>1. UNCHANGED <<shooting, captureFlag, action, reports, status, todo>> /\ KindStays("avi", kind)
    BY <1>6, FrameEncodedTypes DEF PieceMoves, KindStays
  <2> QED
    BY <2>1, PictureStays
<1>7. CASE FrameDropped
  <2>1. UNCHANGED <<shooting, captureFlag, action, reports, status, todo>> /\ KindStays("avi", kind)
    BY <1>7, FrameDroppedTypes DEF PieceMoves, KindStays
  <2> QED
    BY <2>1, PictureStays
<1>8. CASE VideoWriteDone
  <2>1. UNCHANGED <<shooting, captureFlag, action, reports, status, todo>> /\ KindStays("avi", kind)
    BY <1>8, VideoWriteDoneTypes DEF ClientStays, KindStays
  <2> QED
    BY <2>1, PictureStays
<1>9. CASE MjpegInit
  <2>1. UNCHANGED <<shooting, captureFlag, action, reports, status, todo>>
        /\ Order("enc", "INIT") /\ Taken("enc")
    BY <1>9, MjpegInitTypes DEF ClientStays, Order
  <2> QED
    BY <1>0, <2>1, OrderKinds, PictureStays
<1>10. CASE EncodeTaskStop
  <2>1. UNCHANGED <<shooting, captureFlag, action, reports, status, todo>> /\ Same("avi")
    BY <1>10, EncodeTaskStopTypes, MailboxNames DEF ClientStays, Order
  <2> QED
    BY <2>1, PictureStays DEF KindStays
<1>11. CASE ScalerTask
  <2>1. UNCHANGED <<shooting, captureFlag, action, reports, status, todo>> /\ Same("avi")
    BY <1>11, ScalerTaskTypes, MailboxNames DEF ClientStays, Order
  <2> QED
    BY <2>1, PictureStays DEF KindStays
<1>12. CASE StartSensor
  <2>1. UNCHANGED <<shooting, captureFlag, action, reports, status, todo>>
        /\ Order("avi", "START_SENSOR") /\ Taken("avi")
    BY <1>12, StartSensorTypes DEF ClientStays, Order
  <2> QED
    BY <1>0, <2>1, OrderKinds, PictureStays
<1>13. CASE StopSensor
  <2>1. UNCHANGED <<shooting, captureFlag, action, reports, status, todo>>
        /\ Order("avi", "STOP_SENSOR") /\ Taken("avi")
    BY <1>13, StopSensorTypes DEF ClientStays, Order
  <2> QED
    BY <1>0, <2>1, OrderKinds, PictureStays
<1>14. CASE StartEncode
  <2>1. UNCHANGED <<shooting, captureFlag, action, reports, status, todo>>
        /\ Order("avi", "START_ENCODE") /\ Taken("avi")
    BY <1>14, StartEncodeTypes DEF ClientStays, Order
  <2> QED
    BY <1>0, <2>1, OrderKinds, PictureStays
<1>15. CASE StopEncode
  <2>1. UNCHANGED <<shooting, captureFlag, action, reports, status, todo>>
        /\ Order("avi", "STOP_ENCODE") /\ Taken("avi")
    BY <1>15, StopEncodeTypes DEF ClientStays, Order
  <2> QED
    BY <1>0, <2>1, OrderKinds, PictureStays
<1>16. CASE CapturePicture
  <2>1. /\ Order("avi", kind) /\ Taken("avi") /\ ~ captureFlag' /\ reports' = 1
        /\ action' = action
    BY <1>16, CapturePictureTypes
  <2>2. Captures # {} /\ shooting
    BY <1>16, CaptureClient
  <2>3. Captures' = {}
    BY <2>1, KindTaken DEF Captures, Order, PictureInv, AtMostOne
  <2>4. ~ action
    BY <2>2 DEF PictureInv
  <2>5. UNCHANGED <<shooting, todo, status>>
    BY <2>1 DEF Order, ClientStays
  <2> QED
    BY <2>1, <2>2, <2>3, <2>4, <2>5 DEF PictureInv
<1>17. CASE PackerTask
  <2>1. UNCHANGED <<shooting, captureFlag, action, reports, status, todo>> /\ KindStays("avi", kind)
    BY <1>17, PackerTaskTypes DEF ClientStays, KindStays
  <2> QED
    BY <2>1, PictureStays
<1>18. CASE PostMessage
  <2>1. UNCHANGED <<shooting, captureFlag, action, reports, status, todo>>
    BY <1>18, PostMessageTypes DEF PipeStays
  <2>2. PICK b \in Mailboxes, id \in RequestIds :
          Given(b, Plain(id)) /\ Plain(id).id = id /\ \A a \in Mailboxes \ {b} : Same(a)
    BY <1>18, PostMessageTypes
  <2>3. id # kind
    BY <2>2, RequestsType DEF Data
  <2>4. KindStays("avi", kind)
    BY <1>0, <2>2, <2>3 DEF KindStays
  <2> QED
    BY <2>1, <2>4, PictureStays
<1>19. CASE PendMessage
  <2>1. /\ UNCHANGED <<shooting, captureFlag, action, reports, inbox>> /\ todo # <<>>
    BY <1>19, PendMessageTypes DEF PipeStays
  <2>2. ~ shooting
    BY <2>1 DEF PictureInv
  <2>3. Captures' = Captures
    BY <2>1 DEF Captures, Queued
  <2> QED
    BY <2>1, <2>2, <2>3 DEF PictureInv
<1>20. CASE CaptureSwitch
  <2>1. /\ UNCHANGED <<captureFlag, action, inbox>> /\ reports = 1 /\ reports' = 0 /\ ~ shooting'
    BY <1>20, CaptureSwitchTypes DEF CallStays, PipeStays
  <2>2. Captures' = Captures
    BY <2>1 DEF Captures, Queued
  <2>3. ~ captureFlag /\ ~ action /\ Captures = {}
    BY <2>1 DEF PictureInv
  <2> QED
    BY <2>1, <2>2, <2>3 DEF PictureInv
<1>21. CASE CallStart \/ CallStop \/ CallCapture
  <2>1. /\ UNCHANGED <<action, inbox, status, reports>> /\ ~ shooting
        /\ \/ UNCHANGED <<captureFlag, shooting>>
           \/ captureFlag' /\ shooting' /\ todo' = <<>> /\ "START" \notin status
    BY <1>21, CallTypes DEF CallStays, PipeStays
  <2>2. Captures' = Captures
    BY <2>1 DEF Captures, Queued
  <2>3. ~ captureFlag /\ ~ action /\ Captures = {} /\ ~ (reports > 0) /\ reports = 0
    BY <2>1 DEF PictureInv, TypeOK
  <2> QED
    BY <2>1, <2>2, <2>3 DEF PictureInv
<1> QED
  BY <1>1, <1>2, <1>3, <1>4, <1>5, <1>6, <1>7, <1>8, <1>9, <1>10, <1>11, <1>12, <1>13, <1>14,
     <1>15, <1>16, <1>17, <1>18, <1>19, <1>20, <1>21
  DEF Next, EncoderTask, AviTask, StateHandlingTask

-----------------------------------------------------------------------------
(* The encoder.                                                            *)

LEMMA Switching ==
  ASSUME Client, Doing \in SwitchIds
  PROVE  "START" \notin status /\ "PACKER0" \notin status
<1>1. status = StatusAt(Doing)
  BY DEF Client, StatusInv, SwitchIds
<1> QED
  BY <1>1 DEF StatusAt, SwitchIds, Preview

LEMMA EncoderStays ==
  ASSUME EncoderInv, UNCHANGED <<started, video, cnt, action, reports>>, Doing' = Doing,
         KindStays("avi", "CAPTURE_PICTURE")
  PROVE  EncoderInv'
<1>1. Captures' = {} <=> Captures = {}
  BY KindUnchanged DEF Captures
<1> QED
  BY <1>1 DEF EncoderInv

LEMMA EncoderIdle ==
  ASSUME ~ started', video' = None
  PROVE  EncoderInv'
BY DEF EncoderInv

LEMMA EncoderKept ==
  ASSUME TypeOK, Client, PictureInv, EncoderInv, Next
  PROVE  EncoderInv'
<1> DEFINE kind == "CAPTURE_PICTURE"
<1>0. "avi" \in Mailboxes
  BY MailboxNames
<1>1. CASE SwitchBuffer
  <2>1. UNCHANGED <<started, video, cnt, action, reports>> /\ KindStays("avi", kind) /\ Doing' = Doing
    BY <1>1, SwitchBufferTypes DEF ClientStays, KindStays, Doing
  <2> QED
    BY <2>1, EncoderStays
<1>2. CASE FirstPiece
  <2>1. UNCHANGED <<shooting, reports, status, todo>> /\ Same("avi")
    BY <1>2, FirstPieceTypes DEF PieceMoves
  <2>2. Captures' = Captures /\ Doing' = Doing
    BY <2>1 DEF Captures, Queued, Same, Doing
  <2>3. ~ started /\ video = None /\ cnt' = 1 /\ (NoBuffer \/ Chosen)
    BY <1>2, FirstPieceDoes DEF EncoderInv
  <2>4. CASE NoBuffer
    <3>1. ~ started' /\ video' = None
      BY <1>2, <2>4, FirstPieceDoes DEF NoBuffer, EncoderInv
    <3> QED
      BY <3>1, EncoderIdle
  <2>5. CASE Chosen
    <3>1. "START" \in status /\ ~ action'
      BY <2>5 DEF Chosen
    <3>2. ~ (Captures # {} \/ reports > 0)
      BY <3>1 DEF PictureInv
    <3>3. Doing \notin SwitchIds
      BY <3>1, Switching
    <3>4. (started' /\ video' # None) \/ (~ started' /\ video' = None)
      <4>1. \A k \in DOMAIN stamps : stamps[k] \in VideoBuffers
        BY LenProperties DEF TypeOK
      <4>2. None \notin VideoBuffers
        BY PipeAssumption DEF VideoBuffers
      <4> QED
        BY <2>5, <4>1, <4>2 DEF Chosen, NewBuffer
    <3>5. cnt' # 0
      BY <1>2, FirstPieceDoes
    <3> QED
      BY <2>1, <2>2, <3>1, <3>2, <3>3, <3>4, <3>5 DEF EncoderInv
  <2> QED
    BY <1>2, <2>4, <2>5, FirstPieceDoes
<1>3. CASE MiddlePiece
  <2>1. UNCHANGED <<action, reports, todo>> /\ Same("avi") /\ cnt' # 0
    BY <1>3, MiddlePieceTypes DEF PieceMoves
  <2>2. Captures' = Captures /\ Doing' = Doing
    BY <2>1 DEF Captures, Queued, Same, Doing
  <2>3. UNCHANGED <<video, started>> \/ (video' = None /\ ~ started')
    BY <1>3, MiddlePieceTypes
  <2> QED
    BY <2>1, <2>2, <2>3 DEF EncoderInv
<1>4. CASE PieceMissing
  <2>1. ~ started' /\ video' = None
    BY <1>4, PieceMissingTypes DEF EncoderInv
  <2> QED
    BY <2>1, EncoderIdle
<1>5. CASE PictureEncoded
  <2>1. ~ started' /\ video' = None
    BY <1>5, PictureEncodedTypes DEF EncoderInv
  <2> QED
    BY <2>1, EncoderIdle
<1>6. CASE FrameEncoded
  BY <1>6, FrameEncodedTypes, EncoderIdle
<1>7. CASE FrameDropped
  <2>1. ~ started' /\ video' = None
    BY <1>7, FrameDroppedTypes DEF EncoderInv
  <2> QED
    BY <2>1, EncoderIdle
<1>8. CASE VideoWriteDone
  <2>1. UNCHANGED <<started, video, cnt, action, reports>> /\ KindStays("avi", kind) /\ Doing' = Doing
    BY <1>8, VideoWriteDoneTypes DEF ClientStays, KindStays, Doing
  <2> QED
    BY <2>1, EncoderStays
<1>9. CASE MjpegInit
  BY <1>9, MjpegInitTypes, EncoderIdle
<1>10. CASE EncodeTaskStop
  <2>1. UNCHANGED <<started, video, cnt, action, reports>> /\ Same("avi") /\ Doing' = Doing
    BY <1>10, EncodeTaskStopTypes, MailboxNames DEF ClientStays, Order, Doing
  <2> QED
    BY <2>1, EncoderStays DEF KindStays
<1>11. CASE ScalerTask
  <2>1. UNCHANGED <<started, video, action, reports>> /\ Same("avi") /\ Doing' = Doing
    BY <1>11, ScalerTaskTypes, MailboxNames DEF ClientStays, Order, Doing
  <2>2. CASE cnt' = cnt
    BY <2>1, <2>2, EncoderStays DEF KindStays
  <2>3. CASE Order("scaler", "SCALER_INIT") /\ Taken("scaler")
    <3>1. Doing = "SCALER_INIT"
      BY <1>0, <2>3, OrderIds, OrderClient
    <3>2. ~ started
      BY <3>1 DEF EncoderInv, SwitchIds
    <3>3. ~ started' /\ video' = None
      BY <2>1, <3>2 DEF EncoderInv
    <3> QED
      BY <3>3, EncoderIdle
  <2> QED
    BY <1>11, <2>2, <2>3, ScalerTaskTypes
<1>12. CASE StartSensor
  <2>1. UNCHANGED <<started, video, cnt, action, reports>> /\ Doing' = Doing
        /\ Order("avi", "START_SENSOR") /\ Taken("avi")
    BY <1>12, StartSensorTypes DEF ClientStays, Order, Doing
  <2> QED
    BY <1>0, <2>1, OrderKinds, EncoderStays
<1>13. CASE StopSensor
  <2>1. UNCHANGED <<started, video, cnt, action, reports>> /\ Doing' = Doing
        /\ Order("avi", "STOP_SENSOR") /\ Taken("avi")
    BY <1>13, StopSensorTypes DEF ClientStays, Order, Doing
  <2> QED
    BY <1>0, <2>1, OrderKinds, EncoderStays
<1>14. CASE StartEncode
  <2>1. UNCHANGED <<started, video, cnt, action, reports>> /\ Doing' = Doing
        /\ Order("avi", "START_ENCODE") /\ Taken("avi")
    BY <1>14, StartEncodeTypes DEF ClientStays, Order, Doing
  <2> QED
    BY <1>0, <2>1, OrderKinds, EncoderStays
<1>15. CASE StopEncode
  <2>1. UNCHANGED <<started, video, cnt, action, reports>> /\ Doing' = Doing
        /\ Order("avi", "STOP_ENCODE") /\ Taken("avi")
    BY <1>15, StopEncodeTypes DEF ClientStays, Order, Doing
  <2> QED
    BY <1>0, <2>1, OrderKinds, EncoderStays
<1>16. CASE CapturePicture
  <2>1. UNCHANGED <<started, video>>
    BY <1>16, CapturePictureTypes
  <2>2. Captures # {}
    BY <1>16, CaptureClient
  <2>3. ~ started' /\ video' = None
    BY <2>1, <2>2 DEF EncoderInv
  <2> QED
    BY <2>3, EncoderIdle
<1>17. CASE PackerTask
  <2>1. UNCHANGED <<started, video, cnt, action, reports>> /\ KindStays("avi", kind) /\ Doing' = Doing
    BY <1>17, PackerTaskTypes DEF ClientStays, KindStays, Doing
  <2> QED
    BY <2>1, EncoderStays
<1>18. CASE PostMessage
  <2>1. UNCHANGED <<started, video, cnt, action, reports>> /\ Doing' = Doing
    BY <1>18, PostMessageTypes DEF PipeStays, Doing
  <2>2. PICK b \in Mailboxes, id \in RequestIds :
          Given(b, Plain(id)) /\ Plain(id).id = id /\ \A a \in Mailboxes \ {b} : Same(a)
    BY <1>18, PostMessageTypes
  <2>3. id # kind
    BY <2>2, RequestsType DEF Data
  <2>4. KindStays("avi", kind)
    BY <1>0, <2>2, <2>3 DEF KindStays
  <2> QED
    BY <2>1, <2>4, EncoderStays
<1>19. CASE PendMessage
  <2>1. /\ UNCHANGED <<started, video, cnt, action, reports, inbox>>
        /\ Doing' = After(Doing) /\ Doing \in RequestIds
    BY <1>19, PendMessageTypes DEF PipeStays
  <2>2. Captures' = Captures
    BY <2>1 DEF Captures, Queued
  <2>3. Doing' \in SwitchIds => Doing \in SwitchIds
    BY <2>1 DEF After, RequestIds, SwitchIds
  <2> QED
    BY <2>1, <2>2, <2>3 DEF EncoderInv
<1>20. CASE CaptureSwitch
  <2>1. UNCHANGED <<started, video>> /\ reports = 1
    BY <1>20, CaptureSwitchTypes DEF CallStays, PipeStays
  <2>2. ~ started' /\ video' = None
    BY <2>1 DEF EncoderInv
  <2> QED
    BY <2>2, EncoderIdle
<1>21. CASE CallStart \/ CallStop \/ CallCapture
  <2>1. /\ UNCHANGED <<started, video, cnt, action, inbox, reports>>
        /\ Doing' \in {"OPEN", "STOP_ENCODE", "nothing"}
    BY <1>21, CallTypes DEF CallStays, PipeStays
  <2>2. Captures' = Captures
    BY <2>1 DEF Captures, Queued
  <2>3. Doing' \notin SwitchIds
    BY <2>1 DEF SwitchIds
  <2> QED
    BY <2>1, <2>2, <2>3 DEF EncoderInv
<1> QED
  BY <1>1, <1>2, <1>3, <1>4, <1>5, <1>6, <1>7, <1>8, <1>9, <1>10, <1>11, <1>12, <1>13, <1>14,
     <1>15, <1>16, <1>17, <1>18, <1>19, <1>20, <1>21
  DEF Next, EncoderTask, AviTask, StateHandlingTask

-----------------------------------------------------------------------------
(* The sensor's buffers.                                                   *)

LEMMA Places ==
  ASSUME TypeOK
  PROVE  /\ Range(cmosq) \subseteq CsiBuffers /\ Buffers("enc", "PIECE") \subseteq CsiBuffers
         /\ DUMMY \notin CsiBuffers
         /\ InOnePlace <=>
              /\ IsInjective(cmosq) /\ OneEach("enc", "PIECE")
              /\ regs[0] = regs[1] => regs[0] = DUMMY
              /\ Range(cmosq) \cap Buffers("enc", "PIECE") = {}
              /\ {regs[0], regs[1]} \cap (Range(cmosq) \cup Buffers("enc", "PIECE")) = {}
              /\ CsiBuffers \subseteq Range(cmosq) \cup Buffers("enc", "PIECE") \cup {regs[0], regs[1]}
<1>1. Range(cmosq) \subseteq CsiBuffers
  BY LenProperties DEF TypeOK, Range
<1>2. Buffers("enc", "PIECE") \subseteq CsiBuffers
  BY MessageKinds DEF Buffers, Queued
<1>3. DUMMY \notin CsiBuffers
  BY PipeAssumption DEF CsiBuffers, DUMMY
<1> QED
  BY <1>1, <1>2, <1>3 DEF InOnePlace, OnePieceEach, OneEach

LEMMA PlacesStay ==
  ASSUME UNCHANGED <<regs, cmosq>>, KindStays("enc", "PIECE")
  PROVE  /\ InOnePlace => InOnePlace'
         /\ Queued("enc", "PIECE")' = {} <=> Queued("enc", "PIECE") = {}
<1>1. /\ Buffers("enc", "PIECE")' = Buffers("enc", "PIECE")
      /\ Queued("enc", "PIECE")' = {} <=> Queued("enc", "PIECE") = {}
      /\ OnePieceEach => OnePieceEach'
  BY KindUnchanged DEF OneEach, OnePieceEach
<1> QED
  BY <1>1 DEF InOnePlace

\* A piece gives its buffer back.
LEMMA PiecePlaces ==
  ASSUME TypeOK, TypeOK', PieceMoves
  PROVE  InOnePlace => InOnePlace'
<1> DEFINE R == Range(cmosq)
           P == Buffers("enc", "PIECE")
           x == inbox["enc"][1].buf
<1>1. Taken("enc") /\ Extended(cmosq, cmosq', x) /\ regs' = regs /\ inbox["enc"][1].id = "PIECE"
  BY DEF PieceMoves
<1>2. /\ R' = R \cup {x}
      /\ IsInjective(cmosq) /\ x \notin R => IsInjective(cmosq')
  BY <1>1, RangeExtended
<1>3. /\ P = P' \cup {x}
      /\ OneEach("enc", "PIECE") => OneEach("enc", "PIECE")' /\ x \notin P'
  BY <1>1, KindTaken
<1>4. InOnePlace <=>
        /\ IsInjective(cmosq) /\ OneEach("enc", "PIECE")
        /\ regs[0] = regs[1] => regs[0] = DUMMY
        /\ R \cap P = {} /\ {regs[0], regs[1]} \cap (R \cup P) = {}
        /\ CsiBuffers \subseteq R \cup P \cup {regs[0], regs[1]}
  BY Places
<1>5. InOnePlace' <=>
        /\ IsInjective(cmosq') /\ OneEach("enc", "PIECE")'
        /\ regs[0] = regs[1] => regs[0] = DUMMY
        /\ R' \cap P' = {} /\ {regs[0], regs[1]} \cap (R' \cup P') = {}
        /\ CsiBuffers \subseteq R' \cup P' \cup {regs[0], regs[1]}
  BY <1>1 DEF InOnePlace, OnePieceEach, OneEach
<1> HIDE DEF R, P, x
<1> SUFFICES ASSUME InOnePlace PROVE InOnePlace'
  OBVIOUS
<1>6. x \notin R
  BY <1>3, <1>4
<1> QED
  BY <1>2, <1>3, <1>4, <1>5, <1>6

\* A register's buffer is full.
LEMMA SwitchPlaces ==
  ASSUME TypeOK, TypeOK', SwitchBuffer
  PROVE  InOnePlace => InOnePlace'
<1> DEFINE R == Range(cmosq)
           P == Buffers("enc", "PIECE")
           side == sensor.side
           full == regs[side]
           other == regs[1 - side]
           next == regs'[side]
<1>1. /\ side \in {0, 1} /\ full \in CsiBuffers \cup {DUMMY}
      /\ \/ full = DUMMY /\ Same("enc")
         \/ full \in CsiBuffers /\ \E m : m.id = "PIECE" /\ m.buf = full /\ Given("enc", m)
      /\ \/ cmosq = <<>> /\ cmosq' = cmosq /\ regs' = [regs EXCEPT ![side] = DUMMY]
         \/ cmosq # <<>> /\ cmosq' = Tail(cmosq) /\ regs' = [regs EXCEPT ![side] = cmosq[1]]
  BY SwitchBufferTypes
<1>2. /\ {regs[0], regs[1]} = {full, other} /\ {regs'[0], regs'[1]} = {next, other}
      /\ regs[0] = regs[1] => full = other
      /\ (full = other => full = DUMMY) => (regs[0] = regs[1] => regs[0] = DUMMY)
      /\ regs'[0] = regs'[1] => next = other /\ next = regs'[0]
      /\ full = other => regs[0] = regs[1] /\ regs[0] = full
      /\ cmosq = <<>> => next = DUMMY
      /\ cmosq # <<>> => next = cmosq[1]
  <2>1. DOMAIN regs = {0, 1}
    BY DEF TypeOK
  <2>2. CASE side = 0
    BY <1>1, <2>1, <2>2
  <2>3. CASE side = 1
    BY <1>1, <2>1, <2>3
  <2> QED
    BY <1>1, <2>2, <2>3
<1>3. /\ \/ R = {} /\ R' = {} /\ next = DUMMY
         \/ R = R' \cup {next} /\ (IsInjective(cmosq) => next \notin R')
      /\ IsInjective(cmosq) => IsInjective(cmosq')
  <2>1. CASE cmosq = <<>>
    <3>1. cmosq' = cmosq /\ next = DUMMY
      BY <1>1, <1>2, <2>1
    <3>2. R = {} /\ R' = {}
      BY <2>1, <3>1 DEF Range
    <3> QED
      BY <3>1, <3>2
  <2>2. CASE cmosq # <<>>
    <3>1. cmosq' = Tail(cmosq) /\ next = cmosq[1]
      BY <1>1, <1>2, <2>2
    <3>2. Shifted(cmosq, cmosq')
      BY <2>2, <3>1, TailShifts DEF TypeOK
    <3>3. /\ Range(cmosq) = Range(cmosq') \cup {cmosq[1]}
          /\ IsInjective(cmosq) => IsInjective(cmosq') /\ cmosq[1] \notin Range(cmosq')
      BY <3>2, RangeShifted
    <3> QED
      BY <3>1, <3>3
  <2> QED
    BY <2>1, <2>2
<1>4. /\ \/ full = DUMMY /\ P' = P
         \/ full \in CsiBuffers /\ P' = P \cup {full}
      /\ OneEach("enc", "PIECE") /\ full \notin P => OneEach("enc", "PIECE")'
  <2>1. CASE full = DUMMY /\ Same("enc")
    BY <2>1, KindUnchanged DEF KindStays
  <2>2. ASSUME full \in CsiBuffers, NEW m, m.id = "PIECE", m.buf = full, Given("enc", m)
        PROVE  /\ P' = P \cup {full}
               /\ OneEach("enc", "PIECE") /\ full \notin P => OneEach("enc", "PIECE")'
    <3>1. /\ Buffers("enc", m.id)' = Buffers("enc", m.id) \cup {m.buf}
          /\ OneEach("enc", m.id) /\ m.buf \notin Buffers("enc", m.id) => OneEach("enc", m.id)'
      BY <2>2, KindGiven
    <3> QED
      BY <2>2, <3>1
  <2> QED
    BY <1>1, <2>1, <2>2
<1>5. /\ R \subseteq CsiBuffers /\ P \subseteq CsiBuffers /\ DUMMY \notin CsiBuffers
      /\ InOnePlace <=>
           /\ IsInjective(cmosq) /\ OneEach("enc", "PIECE")
           /\ regs[0] = regs[1] => regs[0] = DUMMY
           /\ R \cap P = {} /\ {regs[0], regs[1]} \cap (R \cup P) = {}
           /\ CsiBuffers \subseteq R \cup P \cup {regs[0], regs[1]}
  BY Places
<1>6. InOnePlace' <=>
        /\ IsInjective(cmosq') /\ OneEach("enc", "PIECE")'
        /\ regs'[0] = regs'[1] => regs'[0] = DUMMY
        /\ R' \cap P' = {} /\ {regs'[0], regs'[1]} \cap (R' \cup P') = {}
        /\ CsiBuffers \subseteq R' \cup P' \cup {regs'[0], regs'[1]}
  BY DEF InOnePlace, OnePieceEach, OneEach
<1> HIDE DEF R, P, side, full, other, next
<1> SUFFICES ASSUME InOnePlace PROVE InOnePlace'
  OBVIOUS
<1>7. /\ IsInjective(cmosq) /\ OneEach("enc", "PIECE") /\ R \cap P = {}
      /\ full = other => full = DUMMY
      /\ full \notin R /\ full \notin P /\ other \notin R /\ other \notin P
      /\ CsiBuffers \subseteq R \cup P \cup {full, other}
  BY <1>2, <1>5
<1>8. IsInjective(cmosq') /\ OneEach("enc", "PIECE")'
  BY <1>3, <1>4, <1>7
<1>9. next = other => next = DUMMY
  BY <1>3, <1>7
<1>10. R' \cap P' = {}
  BY <1>3, <1>4, <1>7
<1>11. next \notin R' /\ next \notin P'
  BY <1>3, <1>4, <1>5, <1>7
<1>12. other \notin R' /\ other \notin P'
  BY <1>3, <1>4, <1>5, <1>7
<1>13. CsiBuffers \subseteq R' \cup P' \cup {next, other}
  BY <1>3, <1>4, <1>5, <1>7
<1> QED
  BY <1>2, <1>6, <1>8, <1>9, <1>10, <1>11, <1>12, <1>13

\* All buffers are handed out anew.
LEMMA StartPlaces ==
  ASSUME TypeOK, StartSensor, Queued("enc", "PIECE") = {}
  PROVE  InOnePlace'
<1>1. /\ regs' = [s \in 0 .. 1 |-> s + 1]
      /\ DOMAIN cmosq' = 1 .. CsiNo - 2 /\ \A k \in DOMAIN cmosq' : cmosq'[k] = k + 2
      /\ Order("avi", "START_SENSOR")
  BY StartSensorTypes
<1>2. Same("enc")
  BY <1>1, MailboxNames DEF Order
<1>3. Queued("enc", "PIECE")' = {} /\ Buffers("enc", "PIECE")' = {} /\ OnePieceEach'
  BY <1>2 DEF Same, Queued, Buffers, OnePieceEach
<1>4. regs'[0] = 1 /\ regs'[1] = 2
  BY <1>1
<1>5. CsiNo \in Nat /\ CsiNo >= 2 /\ CsiBuffers = 1 .. CsiNo
  BY PipeAssumption DEF CsiBuffers
<1>6. IsInjective(cmosq')
  BY <1>1, <1>5 DEF IsInjective
<1>7. Range(cmosq') = 3 .. CsiNo
  <2>1. Range(cmosq') \subseteq 3 .. CsiNo
    BY <1>1, <1>5 DEF Range
  <2>2. ASSUME NEW b \in 3 .. CsiNo PROVE b \in Range(cmosq')
    <3>1. b - 2 \in DOMAIN cmosq' /\ cmosq'[b - 2] = b
      BY <1>1, <1>5
    <3> QED
      BY <3>1 DEF Range
  <2> QED
    BY <2>1, <2>2
<1>8. {regs'[0], regs'[1]} \cap Range(cmosq') = {}
  BY <1>4, <1>7
<1>9. CsiBuffers \subseteq Range(cmosq') \cup {regs'[0], regs'[1]}
  BY <1>4, <1>5, <1>7
<1>10. regs'[0] # regs'[1]
  BY <1>4
<1> QED
  BY <1>3, <1>6, <1>8, <1>9, <1>10 DEF InOnePlace

LEMMA SensorQuiet ==
  ASSUME SensorInv, Quiet, SensorStays, KindStays("enc", "PIECE")
  PROVE  SensorInv'
<1>1. /\ InOnePlace => InOnePlace'
      /\ Queued("enc", "PIECE")' = {} <=> Queued("enc", "PIECE") = {}
  BY PlacesStay DEF SensorStays
<1>2. sensor' = sensor /\ Doing' = Doing /\ \A x : Handled(x)' <=> Handled(x)
  BY QuietHandled DEF SensorStays
<1> QED
  BY <1>1, <1>2 DEF SensorInv

\* While pieces come the sensor is being neither switched off nor on again.
LEMMA PieceSensor ==
  ASSUME TypeOK, TypeOK', SensorInv, Quiet, PieceMoves
  PROVE  SensorInv'
<1>1. 1 \in Queued("enc", "PIECE")
  BY DEF PieceMoves, Queued
<1>2. InOnePlace => InOnePlace'
  BY PiecePlaces
<1>3. sensor' = sensor /\ Doing' = Doing /\ \A x : Handled(x)' <=> Handled(x)
  BY QuietHandled DEF PieceMoves
<1> QED
  BY <1>1, <1>2, <1>3 DEF SensorInv

LEMMA OrderSensor ==
  ASSUME SensorInv, SensorStays, KindStays("enc", "PIECE"),
         NEW id, id \notin {"STOP_SENSOR", "STOP", "START_SENSOR"},
         Doing' = Doing, \A x : Handled(x)' <=> x = id, \A x : ~ Handled(x)
  PROVE  SensorInv'
<1>1. /\ InOnePlace => InOnePlace'
      /\ Queued("enc", "PIECE")' = {} <=> Queued("enc", "PIECE") = {}
  BY PlacesStay DEF SensorStays
<1>2. sensor' = sensor /\ ~ Handled("STOP_SENSOR")' /\ ~ Handled("STOP")' /\ ~ Handled("START_SENSOR")'
  BY DEF SensorStays
<1> QED
  BY <1>1, <1>2 DEF SensorInv

LEMMA SensorKept ==
  ASSUME TypeOK, TypeOK', Client, PictureInv, EncoderInv, SensorInv, Next
  PROVE  SensorInv'
<1> DEFINE kind == "PIECE"
<1>0. "avi" \in Mailboxes /\ "enc" \in Mailboxes /\ "scaler" \in Mailboxes /\ "packer" \in Mailboxes
  BY MailboxNames
<1>1. CASE SwitchBuffer
  <2>1. sensor.on /\ sensor'.on /\ Quiet
    BY <1>1, SwitchBufferTypes, PipeClient
  <2>2. InOnePlace'
    BY <1>1, <2>1, SwitchPlaces DEF SensorInv
  <2>3. Doing' = Doing /\ \A x : Handled(x)' <=> Handled(x)
    BY <2>1, QuietHandled
  <2>4. Handled("STOP") => Doing = "STOP" /\ ~ Handled("START_SENSOR")
    BY DEF Handled
  <2>5. "STOP" \in SwitchIds \ {"STOP_SENSOR"}
    BY DEF SwitchIds
  <2>6. ~ (Handled("STOP_SENSOR") \/ (Doing \in SwitchIds \ {"STOP_SENSOR"} /\ ~ Handled("START_SENSOR")))
    BY <2>1 DEF SensorInv
  <2> QED
    BY <2>2, <2>3, <2>4, <2>5, <2>6 DEF SensorInv
<1>2. CASE FirstPiece
  BY <1>2, FirstPieceTypes, PipeClient, PieceSensor
<1>3. CASE MiddlePiece
  BY <1>3, MiddlePieceTypes, PipeClient, PieceSensor
<1>4. CASE PieceMissing
  BY <1>4, PieceMissingTypes, PipeClient, PieceSensor
<1>5. CASE PictureEncoded
  BY <1>5, PictureEncodedTypes, PipeClient, PieceSensor
<1>6. CASE FrameEncoded
  BY <1>6, FrameEncodedTypes, PipeClient, PieceSensor
<1>7. CASE FrameDropped
  BY <1>7, FrameDroppedTypes, PipeClient, PieceSensor
<1>8. CASE VideoWriteDone
  <2>1. Quiet /\ SensorStays /\ KindStays("enc", kind)
    BY <1>8, VideoWriteDoneTypes, PipeClient DEF KindStays
  <2> QED
    BY <2>1, SensorQuiet
<1>9. CASE MjpegInit
  <2>1. Order("enc", "INIT") /\ Taken("enc") /\ SensorStays
    BY <1>9, MjpegInitTypes
  <2>2. KindStays("enc", kind)
    BY <1>0, <2>1, OrderKinds
  <2>3. Doing' = Doing /\ (\A x : Handled(x)' <=> x = "INIT") /\ \A x : ~ Handled(x)
    BY <1>0, <2>1, OrderIds, OrderClient
  <2> QED
    BY <2>1, <2>2, <2>3, OrderSensor
<1>10. CASE EncodeTaskStop
  <2>1. Order("enc", "STOP") /\ inbox'["enc"] = <<>> /\ SensorStays
    BY <1>10, EncodeTaskStopTypes
  <2>2. Doing = "STOP" /\ (\A x : Handled(x)' <=> x = "STOP") /\ \A x : ~ Handled(x)
    BY <1>0, <2>1, OrderIds, OrderClient
  <2>3. ~ sensor.on /\ sensor' = sensor
    BY <2>1, <2>2 DEF SensorInv, SwitchIds, SensorStays
  <2>4. Queued("enc", kind)' = {}
    BY <2>1, KindEmptied
  <2> QED
    BY <2>3, <2>4 DEF SensorInv
<1>11. CASE ScalerTask
  <2>1. PICK id \in {"SCALER_INIT", "SCALER_STOP"} : Order("scaler", id) /\ Taken("scaler") /\ SensorStays
    BY <1>11, ScalerTaskTypes
  <2>2. KindStays("enc", kind)
    BY <1>0, <2>1, OrderKinds
  <2>3. Doing' = Doing /\ (\A x : Handled(x)' <=> x = id) /\ \A x : ~ Handled(x)
    BY <1>0, <2>1, OrderIds, OrderClient
  <2>4. id \notin {"STOP_SENSOR", "STOP", "START_SENSOR"}
    BY <2>1
  <2> QED
    BY <2>1, <2>2, <2>3, <2>4, OrderSensor
<1>12. CASE StartSensor
  <2>1. Order("avi", "START_SENSOR") /\ Taken("avi")
    BY <1>12, StartSensorTypes
  <2>2. Doing = "START_SENSOR" /\ Doing' = Doing
        /\ (\A x : Handled(x)' <=> x = "START_SENSOR") /\ \A x : ~ Handled(x)
    BY <1>0, <2>1, OrderIds, OrderClient
  <2>3. Queued("enc", kind) = {}
    BY <2>2 DEF SensorInv, SwitchIds
  <2>4. InOnePlace'
    BY <1>12, <2>3, StartPlaces
  <2> QED
    BY <2>2, <2>4 DEF SensorInv
<1>13. CASE StopSensor
  <2>1. Order("avi", "STOP_SENSOR") /\ Taken("avi") /\ ~ sensor'.on
    BY <1>13, StopSensorTypes
  <2>2. Doing' = "STOP_SENSOR" /\ (\A x : Handled(x)' <=> x = "STOP_SENSOR")
    BY <1>0, <2>1, OrderIds, OrderClient
  <2> QED
    BY <2>1, <2>2 DEF SensorInv
<1>14. CASE StartEncode
  <2>1. Order("avi", "START_ENCODE") /\ Taken("avi") /\ SensorStays
    BY <1>14, StartEncodeTypes
  <2>2. KindStays("enc", kind)
    BY <1>0, <2>1, OrderKinds
  <2>3. Doing' = Doing /\ (\A x : Handled(x)' <=> x = "START_ENCODE") /\ \A x : ~ Handled(x)
    BY <1>0, <2>1, OrderIds, OrderClient
  <2> QED
    BY <2>1, <2>2, <2>3, OrderSensor
<1>15. CASE StopEncode
  <2>1. Order("avi", "STOP_ENCODE") /\ Taken("avi") /\ SensorStays
    BY <1>15, StopEncodeTypes
  <2>2. KindStays("enc", kind)
    BY <1>0, <2>1, OrderKinds
  <2>3. Doing' = Doing /\ (\A x : Handled(x)' <=> x = "STOP_ENCODE") /\ \A x : ~ Handled(x)
    BY <1>0, <2>1, OrderIds, OrderClient
  <2> QED
    BY <2>1, <2>2, <2>3, OrderSensor
<1>16. CASE CapturePicture
  <2>1. ~ sensor'.on
    BY <1>16, CapturePictureTypes
  <2>2. Doing' = "nothing" /\ \A x : ~ Handled(x)'
    BY <1>16, CaptureClient, NobodyWaits
  <2> QED
    BY <2>1, <2>2 DEF SensorInv, SwitchIds
<1>17. CASE PackerTask
  <2>1. CASE PackerFrame /\ Quiet
    <3>1. SensorStays
      BY <1>17, PackerTaskTypes
    <3>2. KindStays("enc", kind)
      BY <2>1, FrameMessage DEF PackerFrame, KindStays
    <3> QED
      BY <2>1, <3>1, <3>2, SensorQuiet
  <2>2. ASSUME NEW id \in {"OPEN", "CLOSE"}, PackerOrder(id)
        PROVE  SensorInv'
    <3>1. Order("packer", id) /\ Taken("packer") /\ SensorStays
      BY <1>17, <2>2, PackerTaskTypes DEF PackerOrder
    <3>2. KindStays("enc", kind)
      BY <1>0, <3>1, OrderKinds
    <3>3. Doing' = Doing /\ (\A x : Handled(x)' <=> x = id) /\ \A x : ~ Handled(x)
      BY <1>0, <3>1, OrderIds, OrderClient
    <3>4. id \notin {"STOP_SENSOR", "STOP", "START_SENSOR"}
      BY <2>2
    <3> QED
      BY <3>1, <3>2, <3>3, <3>4, OrderSensor
  <2> QED
    BY <1>17, <2>1, <2>2, PackerClient
<1>18. CASE PostMessage
  <2>1. UNCHANGED <<sensor, regs, cmosq, todo>> /\ \A x : ~ Handled(x) /\ ~ Handled(x)'
    BY <1>18, PostMessageTypes DEF PipeStays
  <2>2. PICK b \in Mailboxes, id \in RequestIds :
          Given(b, Plain(id)) /\ Plain(id).id = id /\ \A a \in Mailboxes \ {b} : Same(a)
    BY <1>18, PostMessageTypes
  <2>3. id # kind
    BY <2>2, RequestsType DEF Data
  <2>4. KindStays("enc", kind)
    BY <1>0, <2>2, <2>3 DEF KindStays
  <2>5. /\ InOnePlace => InOnePlace'
        /\ Queued("enc", kind)' = {} <=> Queued("enc", kind) = {}
    BY <2>1, <2>4, PlacesStay
  <2>6. Doing' = Doing
    BY <2>1 DEF Doing
  <2> QED
    BY <2>1, <2>5, <2>6 DEF SensorInv
<1>19. CASE PendMessage
  <2>1. /\ UNCHANGED <<sensor, regs, cmosq, inbox>>
        /\ Doing' = After(Doing) /\ Doing \in RequestIds /\ Handled(Doing) /\ \A x : ~ Handled(x)'
    BY <1>19, PendMessageTypes DEF PipeStays
  <2>2. /\ InOnePlace => InOnePlace'
        /\ Queued("enc", kind)' = {} <=> Queued("enc", kind) = {}
    <3>1. KindStays("enc", kind)
      BY <2>1 DEF KindStays, Same
    <3> QED
      BY <2>1, <3>1, PlacesStay
  <2>3. \A x : Handled(x) <=> x = Doing
    BY <2>1 DEF Handled
  <2>4. Doing' \in SwitchIds \ {"STOP_SENSOR"} =>
          Doing \in SwitchIds \ {"START_SENSOR"}
    BY <2>1 DEF After, RequestIds, SwitchIds
  <2>5. Doing' \in SwitchIds \ {"STOP_SENSOR", "STOP"} =>
          Doing \in SwitchIds \ {"STOP_SENSOR", "START_SENSOR"}
    BY <2>1 DEF After, RequestIds, SwitchIds
  <2> QED
    BY <2>1, <2>2, <2>3, <2>4, <2>5 DEF SensorInv
<1>20. CASE CaptureSwitch
  <2>1. /\ UNCHANGED <<sensor, regs, cmosq, inbox>>
        /\ Doing' = "STOP_SENSOR" /\ \A x : ~ Handled(x)'
    BY <1>20, CaptureSwitchTypes DEF CallStays, PipeStays
  <2>2. KindStays("enc", kind)
    BY <2>1 DEF KindStays, Same
  <2>3. InOnePlace => InOnePlace'
    BY <2>1, <2>2, PlacesStay
  <2> QED
    BY <2>1, <2>3 DEF SensorInv
<1>21. CASE CallStart \/ CallStop \/ CallCapture
  <2>1. /\ UNCHANGED <<sensor, regs, cmosq, inbox>>
        /\ Doing' \in {"OPEN", "STOP_ENCODE", "nothing"} /\ \A x : ~ Handled(x)'
    BY <1>21, CallTypes DEF CallStays, PipeStays
  <2>2. KindStays("enc", kind)
    BY <2>1 DEF KindStays, Same
  <2>3. InOnePlace => InOnePlace'
    BY <2>1, <2>2, PlacesStay
  <2>4. Doing' \notin SwitchIds
    BY <2>1 DEF SwitchIds
  <2> QED
    BY <2>1, <2>3, <2>4 DEF SensorInv
<1> QED
  BY <1>1, <1>2, <1>3, <1>4, <1>5, <1>6, <1>7, <1>8, <1>9, <1>10, <1>11, <1>12, <1>13, <1>14,
     <1>15, <1>16, <1>17, <1>18, <1>19, <1>20, <1>21
  DEF Next, EncoderTask, AviTask, StateHandlingTask

-----------------------------------------------------------------------------
(* The packer's file, and the recording.                                   *)

\* Before and after a request is carried out.
OrderStep(id) ==
  /\ status' = status /\ Doing = id /\ Doing' = id
  /\ \A x : Handled(x)' <=> x = id
  /\ \A x : ~ Handled(x)

LEMMA OrderSteps ==
  ASSUME TypeOK, Client, NEW b \in {"avi", "enc", "scaler", "packer"},
         NEW id \in {"INIT", "STOP", "SCALER_INIT", "SCALER_STOP", "START_SENSOR", "STOP_SENSOR",
                     "START_ENCODE", "STOP_ENCODE", "OPEN", "CLOSE"},
         Order(b, id), Taken(b) \/ inbox'[b] = <<>>
  PROVE  OrderStep(id)
<1>1. b \in Mailboxes /\ id \notin Data
  BY OrderIds
<1>2. status' = status
  BY DEF Order, ClientStays
<1> QED
  BY <1>1, <1>2, OrderClient DEF OrderStep

LEMMA Orders ==
  ASSUME TypeOK, Client
  PROVE  /\ MjpegInit => OrderStep("INIT")
         /\ EncodeTaskStop => OrderStep("STOP")
         /\ ScalerTask => OrderStep("SCALER_INIT") \/ OrderStep("SCALER_STOP")
         /\ StartSensor => OrderStep("START_SENSOR")
         /\ StopSensor => OrderStep("STOP_SENSOR")
         /\ StartEncode => OrderStep("START_ENCODE")
         /\ StopEncode => OrderStep("STOP_ENCODE")
         /\ \A id \in {"OPEN", "CLOSE"} : PackerTask /\ PackerOrder(id) => OrderStep(id)
<1>1. MjpegInit => OrderStep("INIT")
  BY MjpegInitTypes, OrderSteps
<1>2. EncodeTaskStop => OrderStep("STOP")
  BY EncodeTaskStopTypes, OrderSteps
<1>3. ScalerTask => OrderStep("SCALER_INIT") \/ OrderStep("SCALER_STOP")
  BY ScalerTaskTypes, OrderSteps
<1>4. StartSensor => OrderStep("START_SENSOR")
  BY StartSensorTypes, OrderSteps
<1>5. StopSensor => OrderStep("STOP_SENSOR")
  BY StopSensorTypes, OrderSteps
<1>6. StartEncode => OrderStep("START_ENCODE")
  BY StartEncodeTypes, OrderSteps
<1>7. StopEncode => OrderStep("STOP_ENCODE")
  BY StopEncodeTypes, OrderSteps
<1>8. \A id \in {"OPEN", "CLOSE"} : PackerTask /\ PackerOrder(id) => OrderStep(id)
  BY PackerTaskTypes, OrderSteps DEF PackerOrder
<1> QED
  BY <1>1, <1>2, <1>3, <1>4, <1>5, <1>6, <1>7, <1>8

LEMMA QuietPacker ==
  ASSUME PackerInv, Quiet, packing' = packing
  PROVE  PackerInv'
<1>1. status' = status /\ Doing' = Doing /\ \A x : Handled(x)' <=> Handled(x)
  BY QuietHandled DEF Quiet, ClientStays
<1> QED
  BY <1>1 DEF PackerInv

LEMMA OrderPacker ==
  ASSUME PackerInv, packing' = packing, NEW id, id # "OPEN", OrderStep(id)
  PROVE  PackerInv'
BY DEF PackerInv, OrderStep

LEMMA PackerKept ==
  ASSUME TypeOK, Client, PictureInv, EncoderInv, PackerInv, Next
  PROVE  PackerInv'
<1>1. CASE SwitchBuffer \/ FirstPiece \/ MiddlePiece \/ PieceMissing
           \/ PictureEncoded \/ FrameEncoded \/ FrameDropped \/ VideoWriteDone
  <2>1. Quiet
    BY <1>1, PipeClient
  <2>2. packing' = packing
    BY <1>1, SwitchBufferTypes, FirstPieceTypes, MiddlePieceTypes, PieceMissingTypes,
       PictureEncodedTypes, FrameEncodedTypes, FrameDroppedTypes, VideoWriteDoneTypes
    DEF PieceMoves
  <2> QED
    BY <2>1, <2>2, QuietPacker
<1>2. CASE MjpegInit
  BY <1>2, MjpegInitTypes, Orders, OrderPacker
<1>3. CASE EncodeTaskStop
  BY <1>3, EncodeTaskStopTypes, Orders, OrderPacker
<1>4. CASE ScalerTask
  BY <1>4, ScalerTaskTypes, Orders, OrderPacker
<1>5. CASE StartSensor
  BY <1>5, StartSensorTypes, Orders, OrderPacker
<1>6. CASE StopSensor
  BY <1>6, StopSensorTypes, Orders, OrderPacker
<1>7. CASE StartEncode
  BY <1>7, StartEncodeTypes, Orders, OrderPacker
<1>8. CASE StopEncode
  BY <1>8, StopEncodeTypes, Orders, OrderPacker
<1>9. CASE CapturePicture
  <2>1. packing' = packing /\ status' = status
    BY <1>9, CapturePictureTypes DEF Order, ClientStays
  <2>2. Doing' = Doing /\ \A x : ~ Handled(x) /\ ~ Handled(x)'
    BY <1>9, CaptureClient
  <2> QED
    BY <2>1, <2>2 DEF PackerInv
<1>10. CASE PackerTask
  <2>1. CASE PackerFrame /\ Quiet
    BY <2>1, QuietPacker DEF PackerFrame
  <2>2. CASE PackerOrder("OPEN")
    BY <2>2 DEF PackerOrder, PackerInv
  <2>3. CASE PackerOrder("CLOSE")
    <3>1. OrderStep("CLOSE")
      BY <1>10, <2>3, Orders
    <3> QED
      BY <3>1 DEF OrderStep, PackerInv
  <2> QED
    BY <1>10, <2>1, <2>2, <2>3, PackerClient
<1>11. CASE PostMessage
  <2>1. UNCHANGED <<packing, status, todo>> /\ \A x : ~ Handled(x) /\ ~ Handled(x)'
    BY <1>11, PostMessageTypes DEF PipeStays
  <2>2. Doing' = Doing
    BY <2>1 DEF Doing
  <2> QED
    BY <2>1, <2>2 DEF PackerInv
<1>12. CASE PendMessage
  <2>1. /\ packing' = packing /\ Doing' = After(Doing) /\ Doing \in RequestIds /\ Handled(Doing)
        /\ \A x : ~ Handled(x)'
        /\ "PACKER0" \in status' <=> Doing \in {"OPEN", "START_ENCODE", "STOP_ENCODE"}
        /\ status = StatusAt(Doing)
    BY <1>12, PendMessageTypes DEF PipeStays
  <2>2. CASE Doing = "OPEN"
    BY <2>1, <2>2 DEF PackerInv
  <2>3. CASE Doing = "START_ENCODE"
    BY <2>1, <2>3 DEF PackerInv, StatusAt
  <2>4. CASE Doing = "STOP_ENCODE"
    <3>1. Doing' = "CLOSE"
      BY <2>1, <2>4 DEF After
    <3> QED
      BY <2>1, <3>1 DEF PackerInv
  <2>5. CASE Doing \notin {"OPEN", "START_ENCODE", "STOP_ENCODE"}
    BY <2>1, <2>5 DEF PackerInv
  <2> QED
    BY <2>2, <2>3, <2>4, <2>5
<1>13. CASE CaptureSwitch
  <2>1. UNCHANGED <<packing, status>> /\ Doing = "nothing" /\ \A x : ~ Handled(x)'
    BY <1>13, CaptureSwitchTypes DEF CallStays, PipeStays
  <2> QED
    BY <2>1 DEF PackerInv
<1>14. CASE CallStart \/ CallStop \/ CallCapture
  <2>1. UNCHANGED <<packing, status>> /\ Doing = "nothing" /\ \A x : ~ Handled(x)'
    BY <1>14, CallTypes DEF CallStays, PipeStays
  <2> QED
    BY <2>1 DEF PackerInv
<1> QED
  BY <1>1, <1>2, <1>3, <1>4, <1>5, <1>6, <1>7, <1>8, <1>9, <1>10, <1>11, <1>12, <1>13, <1>14
  DEF Next, EncoderTask, AviTask, StateHandlingTask

-----------------------------------------------------------------------------
(* Frames on their way to the packer.                                      *)

FramesStay == KindStays("enc", "WRITE_DONE") /\ KindStays("packer", "FRAME")

LEMMA PackerHasStays ==
  ASSUME FramesStay
  PROVE  PackerHas' = PackerHas
BY KindUnchanged DEF FramesStay, PackerHas

\* Most steps leave the frames alone, and begin no recording.
NoNewRecording == (Recording' => Recording) /\ (Handled("START_ENCODE")' => Handled("START_ENCODE"))

LEMMA QuietRecording ==
  ASSUME Quiet
  PROVE  NoNewRecording
BY QuietHandled DEF Quiet, ClientStays, Recording, NoNewRecording

LEMMA OrderRecording ==
  ASSUME NEW id, id # "START_ENCODE", OrderStep(id)
  PROVE  NoNewRecording
BY DEF OrderStep, Recording, NoNewRecording

LEMMA OrderFrames ==
  ASSUME NEW b, NEW id, id \notin Data, Order(b, id), Taken(b)
  PROVE  FramesStay
<1>1. "enc" \in Mailboxes /\ "packer" \in Mailboxes
  BY MailboxNames
<1>2. id # "WRITE_DONE" /\ id # "FRAME"
  BY DEF Data
<1> QED
  BY <1>1, <1>2, OrderKinds DEF FramesStay

\* The steps that no frame is part of.
Aside ==
  \/ SwitchBuffer \/ MjpegInit \/ ScalerTask \/ StartSensor \/ StopSensor \/ StopEncode
  \/ CapturePicture \/ PostMessage \/ PendMessage \/ CaptureSwitch
  \/ CallStart \/ CallStop \/ CallCapture

LEMMA AsideDoes ==
  ASSUME TypeOK, Client, PictureInv, EncoderInv, Aside
  PROVE  /\ FramesStay /\ NoNewRecording /\ UNCHANGED <<sendFlag, stamps>>
         /\ ~ ScalerTask => used' = used
         /\ ~ MjpegInit => UNCHANGED <<started, video>>
<1>0. "enc" \in Mailboxes /\ "packer" \in Mailboxes
  BY MailboxNames
<1>1. CASE SwitchBuffer
  <2>1. KindStays("enc", "WRITE_DONE") /\ KindStays("packer", "FRAME")
    BY <1>1, SwitchBufferTypes DEF KindStays
  <2>2. NoNewRecording
    BY <1>1, PipeClient, QuietRecording
  <2> QED
    BY <1>1, <2>1, <2>2, SwitchBufferTypes DEF FramesStay
<1>2. CASE MjpegInit
  <2>1. FramesStay
    BY <1>2, MjpegInitTypes, OrderIds, OrderFrames
  <2>2. NoNewRecording
    BY <1>2, Orders, OrderRecording
  <2>3. UNCHANGED <<sendFlag, stamps, used>>
    BY <1>2, MjpegInitTypes
  <2> QED
    BY <1>2, <2>1, <2>2, <2>3
<1>3. CASE ScalerTask
  <2>1. FramesStay
    BY <1>3, ScalerTaskTypes, OrderIds, OrderFrames
  <2>2. NoNewRecording
    BY <1>3, Orders, OrderRecording
  <2>3. UNCHANGED <<sendFlag, stamps, started, video>>
    BY <1>3, ScalerTaskTypes
  <2> QED
    BY <1>3, <2>1, <2>2, <2>3
<1>4. CASE StartSensor
  <2>1. FramesStay
    BY <1>4, StartSensorTypes, OrderIds, OrderFrames
  <2>2. NoNewRecording
    BY <1>4, Orders, OrderRecording
  <2> QED
    BY <1>4, <2>1, <2>2, StartSensorTypes
<1>5. CASE StopSensor
  <2>1. FramesStay
    BY <1>5, StopSensorTypes, OrderIds, OrderFrames
  <2>2. NoNewRecording
    BY <1>5, Orders, OrderRecording
  <2> QED
    BY <1>5, <2>1, <2>2, StopSensorTypes
<1>6. CASE StopEncode
  <2>1. FramesStay
    BY <1>6, StopEncodeTypes, OrderIds, OrderFrames
  <2>2. NoNewRecording
    BY <1>6, Orders, OrderRecording
  <2> QED
    BY <1>6, <2>1, <2>2, StopEncodeTypes
<1>7. CASE CapturePicture
  <2>1. Order("avi", "CAPTURE_PICTURE") /\ Taken("avi")
        /\ UNCHANGED <<started, video, used, stamps, sendFlag>>
    BY <1>7, CapturePictureTypes
  <2>2. FramesStay
    BY <1>0, <2>1, OrderKinds DEF FramesStay
  <2>3. NoNewRecording
    BY <1>7, <2>1, CaptureClient DEF Recording, NoNewRecording, Order, ClientStays
  <2> QED
    BY <2>1, <2>2, <2>3
<1>8. CASE PostMessage
  <2>1. UNCHANGED <<started, video, used, stamps, sendFlag, status>>
        /\ \A x : ~ Handled(x) /\ ~ Handled(x)'
    BY <1>8, PostMessageTypes DEF PipeStays
  <2>2. PICK b \in Mailboxes, id \in RequestIds :
          Given(b, Plain(id)) /\ Plain(id).id = id /\ \A a \in Mailboxes \ {b} : Same(a)
    BY <1>8, PostMessageTypes
  <2>3. id \notin Data
    BY <2>2, RequestsType
  <2>4. FramesStay
    BY <1>0, <2>2, <2>3 DEF FramesStay, KindStays, Data
  <2> QED
    BY <2>1, <2>4 DEF Recording, NoNewRecording
<1>9. CASE PendMessage
  <2>1. UNCHANGED <<started, video, used, stamps, sendFlag, inbox>>
        /\ Handled(Doing) /\ \A x : ~ Handled(x)'
    BY <1>9, PendMessageTypes DEF PipeStays
  <2>2. "START" \in status' <=> Doing \in {"START_ENCODE"}
    BY <1>9, PendMessageTypes
  <2>3. FramesStay
    BY <2>1 DEF FramesStay, KindStays, Same
  <2> QED
    BY <2>1, <2>2, <2>3 DEF Recording, NoNewRecording
<1>10. CASE CaptureSwitch
  <2>1. UNCHANGED <<started, video, used, stamps, sendFlag, inbox, status>> /\ \A x : ~ Handled(x)'
    BY <1>10, CaptureSwitchTypes DEF PipeStays, CallStays
  <2>2. FramesStay
    BY <2>1 DEF FramesStay, KindStays, Same
  <2> QED
    BY <2>1, <2>2 DEF Recording, NoNewRecording
<1>11. CASE CallStart \/ CallStop \/ CallCapture
  <2>1. UNCHANGED <<started, video, used, stamps, sendFlag, inbox, status>> /\ \A x : ~ Handled(x)'
    BY <1>11, CallTypes DEF PipeStays, CallStays
  <2>2. FramesStay
    BY <2>1 DEF FramesStay, KindStays, Same
  <2> QED
    BY <2>1, <2>2 DEF Recording, NoNewRecording
<1> QED
  BY <1>1, <1>2, <1>3, <1>4, <1>5, <1>6, <1>7, <1>8, <1>9, <1>10, <1>11 DEF Aside

\* No recording goes on while the preview is switched.
LEMMA NotRecording ==
  ASSUME Client, Doing \in SwitchIds
  PROVE  ~ Recording
BY Switching DEF Recording, Handled, SwitchIds

\* The packer has a file open throughout a recording.
LEMMA RecordingPacks ==
  ASSUME TypeOK, Client, PackerInv, Recording
  PROVE  packing
<1>1. CASE Handled("START_ENCODE")
  <2>1. Doing = "START_ENCODE" /\ status = StatusAt(Doing)
    BY <1>1 DEF Handled, Client, StatusInv
  <2> QED
    BY <2>1 DEF PackerInv, StatusAt
<1>2. CASE "START" \in status
  <2>1. CASE Doing = "nothing"
    BY <1>2, <2>1 DEF Client, StatusInv, Preview, PackerInv
  <2>2. CASE Doing # "nothing"
    <3>1. status = StatusAt(Doing)
      BY <2>2 DEF Client, StatusInv
    <3>2. Doing = "STOP_ENCODE"
      BY <1>2, <3>1 DEF StatusAt, Preview
    <3> QED
      BY <3>1, <3>2 DEF PackerInv, StatusAt
  <2> QED
    BY <2>1, <2>2
<1> QED
  BY <1>1, <1>2 DEF Recording

LEMMA PieceFrames ==
  ASSUME PieceMoves, Same("packer")
  PROVE  FramesStay
BY DEF PieceMoves, FramesStay, KindStays

\* Handing a frame over, and what becomes of it.
LEMMA HandsOver ==
  ASSUME KindStays("enc", "WRITE_DONE"), NEW i \in VideoBuffers, Given("packer", Frame(i))
  PROVE  /\ Buffers("enc", "WRITE_DONE")' = Buffers("enc", "WRITE_DONE")
         /\ Buffers("packer", "FRAME")' = Buffers("packer", "FRAME") \cup {i}
         /\ PackerHas' = PackerHas \cup {i}
<1>1. Frame(i).id = "FRAME" /\ Frame(i).buf = i
  BY FrameMessage
<1>2. Buffers("packer", "FRAME")' = Buffers("packer", "FRAME") \cup {i}
  BY <1>1, KindGiven
<1>3. Buffers("enc", "WRITE_DONE")' = Buffers("enc", "WRITE_DONE")
  BY KindUnchanged
<1> QED
  BY <1>2, <1>3 DEF PackerHas

LEMMA ReportsFrame ==
  ASSUME TypeOK, PackerTask, PackerFrame, Given("enc", WriteDone(inbox["packer"][1].buf))
  PROVE  LET i == inbox["packer"][1].buf
         IN  /\ Buffers("enc", "WRITE_DONE")' = Buffers("enc", "WRITE_DONE") \cup {i}
             /\ Buffers("packer", "FRAME") = Buffers("packer", "FRAME")' \cup {i}
             /\ PackerHas' = PackerHas /\ PackerHas # {}
<1> DEFINE i == inbox["packer"][1].buf
<1>1. WriteDone(i).id = "WRITE_DONE" /\ WriteDone(i).buf = i
  BY FrameMessage DEF PackerFrame
<1>2. Buffers("enc", "WRITE_DONE")' = Buffers("enc", "WRITE_DONE") \cup {i}
  BY <1>1, KindGiven
<1>3. Buffers("packer", "FRAME") = Buffers("packer", "FRAME")' \cup {i}
  BY PackerTaskTypes, KindTaken DEF PackerFrame
<1> QED
  BY <1>2, <1>3 DEF PackerHas

LEMMA FlowStays ==
  ASSUME FlowInv, FramesStay, NoNewRecording, UNCHANGED <<sendFlag, stamps>>
  PROVE  FlowInv'
BY PackerHasStays DEF FlowInv, NoNewRecording

LEMMA FlowKept ==
  ASSUME TypeOK, Client, PictureInv, EncoderInv, PackerInv, FlowInv, Next
  PROVE  FlowInv'
<1>1. CASE Aside
  BY <1>1, AsideDoes, FlowStays
<1>2. CASE FirstPiece
  <2>1. PieceMoves /\ Same("packer") /\ sendFlag' = sendFlag
    BY <1>2, FirstPieceTypes, FirstPieceDoes
  <2>2. NoNewRecording
    BY <1>2, PipeClient, QuietRecording
  <2>3. PackerHas' = PackerHas
    BY <2>1, PieceFrames, PackerHasStays
  <2>4. stamps = <<>> => stamps' = <<>>
    <3>1. stamps = <<>> => DOMAIN stamps = {}
      OBVIOUS
    <3> QED
      BY <1>2, <3>1, FirstPieceDoes DEF NoBuffer, Chosen
  <2> QED
    BY <2>1, <2>2, <2>3, <2>4 DEF FlowInv, NoNewRecording
<1>3. CASE MiddlePiece
  BY <1>3, MiddlePieceTypes, PieceFrames, PipeClient, QuietRecording, FlowStays
<1>4. CASE PieceMissing
  BY <1>4, PieceMissingTypes, PieceFrames, PipeClient, QuietRecording, FlowStays
<1>5. CASE PictureEncoded
  BY <1>5, PictureEncodedTypes, PieceFrames, PipeClient, QuietRecording, FlowStays
<1>6. CASE FrameEncoded
  <2>1. sendFlag' /\ Recording
    BY <1>6, FrameEncodedTypes DEF Recording
  <2>2. CASE sendFlag /\ Same("packer")
    <3>1. PackerHas' = PackerHas
      BY <1>6, <2>2, FrameEncodedTypes, PieceFrames, PackerHasStays
    <3> QED
      BY <2>1, <2>2, <3>1 DEF FlowInv
  <2>3. ASSUME NEW i \in VideoBuffers, Given("packer", Frame(i))
        PROVE  FlowInv'
    <3>1. KindStays("enc", "WRITE_DONE")
      BY <1>6, FrameEncodedTypes DEF PieceMoves, KindStays
    <3>2. i \in PackerHas'
      BY <2>3, <3>1, HandsOver
    <3> QED
      BY <2>1, <3>2 DEF FlowInv
  <2> QED
    BY <1>6, <2>2, <2>3, FrameEncodedTypes
<1>7. CASE FrameDropped
  BY <1>7, FrameDroppedTypes, PieceFrames, PipeClient, QuietRecording, FlowStays
<1>8. CASE VideoWriteDone
  <2>1. CASE stamps = <<>> /\ stamps' = stamps /\ ~ sendFlag'
    BY <2>1 DEF FlowInv
  <2>2. CASE sendFlag' /\ stamps[1] \in VideoBuffers /\ Given("packer", Frame(stamps[1]))
    <3>1. Frame(stamps[1]).id = "FRAME"
      BY <2>2, FrameMessage
    <3>2. Queued("packer", "FRAME")' # {}
      BY <2>2, <3>1, KindGiven
    <3>3. Buffers("packer", "FRAME")' # {}
      BY <3>2 DEF Buffers
    <3> QED
      BY <2>2, <3>3 DEF FlowInv, PackerHas
  <2> QED
    BY <1>8, <2>1, <2>2, VideoWriteDoneTypes
<1>9. CASE EncodeTaskStop
  <2>1. OrderStep("STOP")
    BY <1>9, Orders
  <2>2. Doing \in SwitchIds
    BY <2>1 DEF OrderStep, SwitchIds
  <2>3. ~ Recording'
    BY <2>1, <2>2, NotRecording, OrderRecording DEF NoNewRecording
  <2> QED
    BY <2>3 DEF FlowInv
<1>10. CASE StartEncode
  BY <1>10, StartEncodeTypes DEF FlowInv
<1>11. CASE PackerTask
  <2>1. UNCHANGED <<sendFlag, stamps>>
    BY <1>11, PackerTaskTypes
  <2>2. CASE PackerFrame /\ Quiet
    <3>1. NoNewRecording
      BY <2>2, QuietRecording
    <3>2. CASE Given("enc", WriteDone(inbox["packer"][1].buf))
      <4>1. PackerHas' = PackerHas
        BY <1>11, <2>2, <3>2, ReportsFrame
      <4> QED
        BY <2>1, <3>1, <4>1 DEF FlowInv, NoNewRecording
    <3>3. CASE ~ packing
      <4>1. ~ Recording'
        BY <3>1, <3>3, RecordingPacks DEF NoNewRecording
      <4> QED
        BY <4>1 DEF FlowInv
    <3> QED
      BY <2>2, <3>2, <3>3 DEF PackerFrame
  <2>3. ASSUME NEW id \in {"OPEN", "CLOSE"}, PackerOrder(id)
        PROVE  FlowInv'
    <3>1. FramesStay
      BY <1>11, <2>3, PackerTaskTypes, OrderIds, OrderFrames DEF PackerOrder
    <3>2. NoNewRecording
      BY <1>11, <2>3, Orders, OrderRecording
    <3> QED
      BY <2>1, <3>1, <3>2, FlowStays
  <2> QED
    BY <1>11, <2>2, <2>3, PackerClient
<1> QED
  BY <1>1, <1>2, <1>3, <1>4, <1>5, <1>6, <1>7, <1>8, <1>9, <1>10, <1>11
  DEF Next, EncoderTask, AviTask, StateHandlingTask, Aside

-----------------------------------------------------------------------------
(* The invariant holds.                                                    *)

LEMMA InitPipe ==
  ASSUME Init
  PROVE  PipeInv
<1>1. TodoInv /\ Doing = "SCALER_INIT" /\ todo # <<>>
  BY Plans DEF Init, Planned
<1>2. \A b \in Mailboxes : inbox[b] = <<>> /\ DOMAIN inbox[b] = {}
  BY DEF Init
<1>3. StatusInv
  BY <1>1 DEF StatusInv, StatusAt, Init
<1>4. RequestInv
  BY <1>2 DEF RequestInv, Init
<1>5. \A x : ~ Handled(x)
  BY DEF Handled, Init
<1>6. /\ Captures = {} /\ Queued("enc", "PIECE") = {}
  BY <1>2, MailboxNames DEF Captures, Queued
<1>7. PictureInv
  BY <1>6 DEF PictureInv, Init
<1>8. EncoderInv
  BY DEF EncoderInv, Init
<1>9. SensorInv
  BY <1>6 DEF SensorInv, Init, Off
<1>10. PackerInv
  BY <1>5 DEF PackerInv, Init
<1>11. FlowInv
  BY <1>5 DEF FlowInv, Recording, Init
<1>12. TypeOK
  <2>1. sensor \in [on : BOOLEAN, side : 0 .. 1, odd : BOOLEAN, piece : 1 .. Pieces]
    BY PipeAssumption DEF Init, Off
  <2>2. regs \in [0 .. 1 -> CsiBuffers \cup {DUMMY}] /\ cmosq \in Seq(CsiBuffers)
    BY EmptySeq DEF Init
  <2>3. DOMAIN inbox = Mailboxes /\ \A b \in Mailboxes : inbox[b] \in Seq(Messages(b))
    BY EmptySeq DEF Init
  <2>4. cnt \in 0 .. Pieces - 1 /\ late \in 0 .. MaxLate /\ fails \in 0 .. MaxFails
        /\ calls \in 0 .. MaxCalls /\ reports \in 0 .. 1
    BY PipeAssumption DEF Init
  <2>5. stamps \in Seq(VideoBuffers) /\ used \subseteq VideoBuffers
    BY EmptySeq DEF Init
  <2>6. ack \in [Mailboxes -> BOOLEAN]
    BY DEF Init
  <2>7. started \in BOOLEAN /\ action \in BOOLEAN /\ captureFlag \in BOOLEAN
        /\ sendFlag \in BOOLEAN /\ packing \in BOOLEAN /\ waiting \in BOOLEAN /\ shooting \in BOOLEAN
        /\ hurried \in BOOLEAN
    BY DEF Init
  <2>8. video \in VideoBuffers \cup {None}
        /\ status \subseteq {"SCALER", "VIDEO", "SENSOR", "PACKER0", "START"}
    BY DEF Init
  <2> QED
    BY <2>1, <2>2, <2>3, <2>4, <2>5, <2>6, <2>7, <2>8 DEF TypeOK
<1> QED
  BY <1>1, <1>3, <1>4, <1>7, <1>8, <1>9, <1>10, <1>11, <1>12 DEF PipeInv, Client

\* The invariant looks at no other variable than these.
LEMMA PipeUnchanged ==
  ASSUME PipeInv, UNCHANGED vars
  PROVE  PipeInv'
<1>1. UNCHANGED <<sensor, regs, cmosq, late, inbox, ack, cnt, video, started, action, captureFlag,
                  fails, used, stamps, sendFlag, packing, status, todo, waiting, shooting, calls,
                  reports, hurried>>
  BY DEF vars, sensorVars, encodeVars, queueVars, clientVars
<1>2. TypeOK'
  BY <1>1 DEF PipeInv, TypeOK
<1>3. Doing' = Doing /\ \A x : Handled(x)' <=> Handled(x)
  BY <1>1 DEF Doing, Handled
<1>4. \A b, id : Queued(b, id)' = Queued(b, id) /\ Buffers(b, id)' = Buffers(b, id)
  BY <1>1 DEF Queued, Buffers
<1>5. Client'
  <2>1. TodoInv'
    BY <1>1 DEF PipeInv, Client, TodoInv
  <2>2. StatusInv'
    BY <1>1, <1>3 DEF PipeInv, Client, StatusInv
  <2>3. RequestInv'
    BY <1>1, <1>3 DEF PipeInv, Client, RequestInv
  <2> QED
    BY <2>1, <2>2, <2>3 DEF Client
<1>6. PictureInv' /\ EncoderInv'
  BY <1>1, <1>3, <1>4 DEF PipeInv, PictureInv, EncoderInv, Captures
<1>7. SensorInv'
  <2>1. InOnePlace' <=> InOnePlace
    BY <1>1, <1>4 DEF InOnePlace, OnePieceEach
  <2> QED
    BY <1>1, <1>3, <1>4, <2>1 DEF PipeInv, SensorInv
<1>8. PackerInv'
  BY <1>1, <1>3 DEF PipeInv, PackerInv
<1>9. FlowInv'
  BY <1>1, <1>3, <1>4 DEF PipeInv, FlowInv, PackerHas, Recording
<1> QED
  BY <1>2, <1>5, <1>6, <1>7, <1>8, <1>9 DEF PipeInv

LEMMA PipeInvHolds == Spec => []PipeInv
<1>1. Init => PipeInv
  BY InitPipe
<1>2. PipeInv /\ [Next]_vars => PipeInv'
  <2>1. ASSUME PipeInv, Next PROVE PipeInv'
    <3>1. TypeOK /\ Client /\ PictureInv /\ EncoderInv /\ SensorInv /\ PackerInv /\ FlowInv
      BY <2>1 DEF PipeInv
    <3>2. TypeOK' /\ Client'
      BY <2>1, <3>1, ClientKept
    <3>3. PictureInv' /\ EncoderInv'
      BY <2>1, <3>1, PictureKept, EncoderKept
    <3>4. SensorInv' /\ PackerInv' /\ FlowInv'
      BY <2>1, <3>1, <3>2, SensorKept, PackerKept, FlowKept
    <3> QED
      BY <3>2, <3>3, <3>4 DEF PipeInv
  <2> QED
    BY <2>1, PipeUnchanged
<1> QED
  BY <1>1, <1>2, PTL DEF Spec

\* Every variable has its type: no message gets into the wrong mailbox, and
\* cnt, late and reports keep their bounds.
THEOREM PipeTypeOK == Spec => []TypeOK
<1>1. PipeInv => TypeOK
  BY DEF PipeInv
<1> QED
  BY <1>1, PipeInvHolds, PTL

\* POST_MESSAGE: when the state-handling task goes on the task it asked has
\* taken its request, though a picture may have left an acknowledgement.
THEOREM PipeAnswered == Spec => []Answered
<1>1. PipeInv => Answered
  <2> SUFFICES ASSUME PipeInv, ~ waiting, NEW b \in Mailboxes, NEW k \in DOMAIN inbox[b]
               PROVE  inbox[b][k].id \in {"PIECE", "WRITE_DONE", "FRAME", "CAPTURE_PICTURE"}
    BY DEF Answered
  <2>1. inbox[b][k].id \in Data
    BY NoRequests DEF PipeInv, Client
  <2> QED
    BY <2>1 DEF Data
<1> QED
  BY <1>1, PipeInvHolds, PTL

\* While a file is recorded no frame waits unless the packer has one, so that
\* its report will fetch the next.
THEOREM PipeNoStall == Spec => []NoStall
<1>1. PipeInv => NoStall
  BY DEF PipeInv, FlowInv, Recording, NoStall
<1> QED
  BY <1>1, PipeInvHolds, PTL

\* The sensor's interrupt and the encoder's task hand the sensor's buffers
\* back and forth, and lose or double none while the sensor runs.
THEOREM PipeSensorBufsOwned == Spec => []SensorBufsOwned
<1>1. PipeInv => SensorBufsOwned
  <2> SUFFICES ASSUME PipeInv, sensor.on, NEW b \in CsiBuffers
               PROVE  Cardinality(SensorPlaces(b)) = 1
    BY DEF SensorBufsOwned
  <2>1. InOnePlace
    BY DEF PipeInv, SensorInv
  <2>2. b # DUMMY
    BY PipeAssumption DEF CsiBuffers, DUMMY
  <2> DEFINE free == {j \in DOMAIN cmosq : cmosq[j] = b}
             filled == {r \in 0 .. 1 : regs[r] = b}
             queued == {j \in Queued("enc", "PIECE") : inbox["enc"][j].buf = b}
  <2>3. SensorPlaces(b) = {<<"free", k>> : k \in free} \cup {<<"register", s>> : s \in filled}
                           \cup {<<"piece", k>> : k \in queued}
    BY DEF SensorPlaces
  <2>4. \E p : SensorPlaces(b) = {p}
    <3>1. CASE b \in Range(cmosq)
      <4>1. PICK k \in DOMAIN cmosq : cmosq[k] = b
        BY <3>1 DEF Range
      <4>2. \A j \in DOMAIN cmosq : cmosq[j] = b => j = k
        BY <2>1, <4>1 DEF InOnePlace, IsInjective
      <4>3. b \notin {regs[0], regs[1]} /\ b \notin Buffers("enc", "PIECE")
        BY <2>1, <3>1 DEF InOnePlace
      <4>4. free = {k}
        BY <4>1, <4>2
      <4>5. filled = {}
        BY <4>3
      <4>6. queued = {}
        BY <4>3 DEF Buffers
      <4> HIDE DEF free, filled, queued
      <4>7. SensorPlaces(b) = {<<"free", k>>}
        BY <2>3, <4>4, <4>5, <4>6
      <4> QED
        BY <4>7
    <3>2. CASE b \in Buffers("enc", "PIECE")
      <4>1. PICK k \in Queued("enc", "PIECE") : inbox["enc"][k].buf = b
        BY <3>2 DEF Buffers
      <4>2. \A j \in Queued("enc", "PIECE") : inbox["enc"][j].buf = b => j = k
        BY <2>1, <4>1 DEF InOnePlace, OnePieceEach
      <4>3. b \notin {regs[0], regs[1]} /\ b \notin Range(cmosq)
        BY <2>1, <3>2 DEF InOnePlace
      <4>4. queued = {k}
        BY <4>1, <4>2
      <4>5. filled = {}
        BY <4>3
      <4>6. free = {}
        BY <4>3 DEF Range
      <4> HIDE DEF free, filled, queued
      <4>7. SensorPlaces(b) = {<<"piece", k>>}
        BY <2>3, <4>4, <4>5, <4>6
      <4> QED
        BY <4>7
    <3>3. CASE b \in {regs[0], regs[1]}
      <4>1. PICK s \in 0 .. 1 : regs[s] = b
        BY <3>3
      <4>2. \A r \in 0 .. 1 : regs[r] = b => r = s
        BY <2>1, <2>2, <4>1 DEF InOnePlace
      <4>3. b \notin Range(cmosq) /\ b \notin Buffers("enc", "PIECE")
        BY <2>1, <3>3 DEF InOnePlace
      <4>4. filled = {s}
        BY <4>1, <4>2
      <4>5. queued = {}
        BY <4>3 DEF Buffers
      <4>6. free = {}
        BY <4>3 DEF Range
      <4> HIDE DEF free, filled, queued
      <4>7. SensorPlaces(b) = {<<"register", s>>}
        BY <2>3, <4>4, <4>5, <4>6
      <4> QED
        BY <4>7
    <3> QED
      BY <2>1, <3>1, <3>2, <3>3 DEF InOnePlace
  <2> QED
    BY <2>4, FS_Singleton
<1> QED
  BY <1>1, PipeInvHolds, PTL

-----------------------------------------------------------------------------
(* The frames' buffers, in a recording that has begun after the last had    *)
(* settled.                                                                 *)

LEMMA OneFrameStays ==
  ASSUME OneFrame, FramesStay
  PROVE  OneFrame'
<1>1. /\ Buffers("enc", "WRITE_DONE")' = Buffers("enc", "WRITE_DONE")
      /\ AtMostOne("enc", "WRITE_DONE") => AtMostOne("enc", "WRITE_DONE")'
  BY KindUnchanged DEF FramesStay
<1>2. /\ Buffers("packer", "FRAME")' = Buffers("packer", "FRAME")
      /\ AtMostOne("packer", "FRAME") => AtMostOne("packer", "FRAME")'
  BY KindUnchanged DEF FramesStay
<1> QED
  BY <1>1, <1>2 DEF OneFrame

LEMMA FlightStays ==
  ASSUME FlightInv, FramesStay, NoNewRecording,
         ~ Recording \/ UNCHANGED <<sendFlag, stamps, used, started, video>>
  PROVE  FlightInv'
<1>1. OneFrame' /\ PackerHas' = PackerHas
  BY OneFrameStays, PackerHasStays DEF FlightInv
<1>2. CASE ~ Recording
  <2>1. ~ Recording' /\ ~ Handled("START_ENCODE")'
    BY <1>2 DEF NoNewRecording, Recording
  <2> QED
    BY <1>1, <2>1 DEF FlightInv
<1>3. CASE UNCHANGED <<sendFlag, stamps, used, started, video>>
  <2>1. InOneRole => InOneRole'
    BY <1>1, <1>3 DEF InOneRole, Encoding
  <2> QED
    BY <1>1, <1>3, <2>1 DEF FlightInv, NoNewRecording
<1> QED
  BY <1>2, <1>3

\* What a recording needs, and the start of one.
LEMMA StartIsBefore ==
  ASSUME Client, "START" \in status
  PROVE  ~ Handled("START_ENCODE")
<1>1. SUFFICES ASSUME Handled("START_ENCODE") PROVE FALSE
  OBVIOUS
<1>2. Doing = "START_ENCODE"
  BY <1>1 DEF Handled
<1>3. status = StatusAt("START_ENCODE")
  BY <1>2 DEF Client, StatusInv
<1> QED
  BY <1>3 DEF StatusAt, Preview

\* Encoding fails, or begins.
LEMMA RoleFails ==
  ASSUME InOneRole, FramesStay, stamps' = stamps, started, used' = used \ {video}, ~ started'
  PROVE  InOneRole'
<1>1. PackerHas' = PackerHas
  BY PackerHasStays
<1>2. Encoding = {video} /\ Encoding' = {}
  BY DEF Encoding
<1> QED
  BY <1>1, <1>2 DEF InOneRole

LEMMA RoleChosen ==
  ASSUME TypeOK, InOneRole, FramesStay, Chosen
  PROVE  InOneRole'
<1>1. PackerHas' = PackerHas /\ Encoding = {}
  BY PackerHasStays DEF Chosen, Encoding
<1>2. ASSUME NEW b \in VideoBuffers \ used, NewBuffer(b), stamps' = stamps
      PROVE  InOneRole'
  <2>1. b \notin Range(stamps) /\ b \notin PackerHas
    BY DEF InOneRole
  <2>2. CASE video' = b /\ started' /\ used' = used \cup {b}
    <3>1. Encoding' = {b}
      BY <2>2 DEF Encoding
    <3> QED
      BY <1>1, <1>2, <2>1, <2>2, <3>1 DEF InOneRole
  <2>3. CASE ~ started' /\ used' = used \ {b}
    <3>1. Encoding' = {} /\ used' = used
      BY <1>2, <2>3 DEF Encoding
    <3> QED
      BY <1>1, <1>2, <3>1 DEF InOneRole
  <2> QED
    BY <1>2, <2>2, <2>3 DEF NewBuffer
<1>3. ASSUME NEW k \in DOMAIN stamps, used = VideoBuffers, NewBuffer(stamps[k]),
             stamps' = RemoveAt(stamps, k)
      PROVE  InOneRole'
  <2> DEFINE b == stamps[k]
  <2>1. /\ Range(stamps) = Range(stamps') \cup {b}
        /\ IsInjective(stamps') /\ b \notin Range(stamps')
    BY <1>3, RangeRemoved DEF TypeOK, InOneRole
  <2>2. b \in used /\ b \notin PackerHas
    BY <2>1 DEF InOneRole
  <2> HIDE DEF b
  <2>3. CASE video' = b /\ started' /\ used' = used \cup {b}
    <3>1. Encoding' = {b} /\ used' = used
      BY <2>2, <2>3 DEF Encoding
    <3> QED
      BY <1>1, <2>1, <2>2, <3>1 DEF InOneRole
  <2>4. CASE ~ started' /\ used' = used \ {b}
    <3>1. Encoding' = {}
      BY <2>4 DEF Encoding
    <3> QED
      BY <1>1, <2>1, <2>2, <2>4, <3>1 DEF InOneRole
  <2> QED
    BY <1>3, <2>3, <2>4 DEF NewBuffer, b
<1> QED
  BY <1>2, <1>3 DEF Chosen

\* A frame has been encoded: it waits, or the packer gets it.
LEMMA FrameGoes ==
  ASSUME TypeOK, EncoderInv, FlowInv, OneFrame, PackerHas # {} => sendFlag, FrameEncoded
  PROVE  /\ OneFrame'
         /\ \/ /\ sendFlag /\ PackerHas' = PackerHas
               /\ stamps' = Append(stamps, video) /\ Extended(stamps, stamps', video)
            \/ ~ sendFlag /\ stamps = <<>> /\ stamps' = <<>> /\ PackerHas = {} /\ PackerHas' = {video}
<1>1. /\ PieceMoves /\ "START" \in status /\ video \in VideoBuffers
      /\ \/ sendFlag /\ Same("packer") /\ stamps' = Append(stamps, video)
         \/ /\ ~ sendFlag
            /\ \E i \in VideoBuffers :
                 Given("packer", Frame(i)) /\ (stamps = <<>> => i = video /\ stamps' = <<>>)
  BY FrameEncodedTypes
<1>2. CASE sendFlag /\ Same("packer") /\ stamps' = Append(stamps, video)
  <2>1. FramesStay
    BY <1>1, <1>2, PieceFrames
  <2>2. OneFrame' /\ PackerHas' = PackerHas
    BY <2>1, OneFrameStays, PackerHasStays
  <2>3. Extended(stamps, stamps', video)
    BY <1>1, <1>2, AppendExtends DEF TypeOK
  <2> QED
    BY <1>2, <2>2, <2>3
<1>3. ASSUME ~ sendFlag, NEW i \in VideoBuffers, Given("packer", Frame(i)),
             stamps = <<>> => i = video /\ stamps' = <<>>
      PROVE  OneFrame' /\ stamps = <<>> /\ stamps' = <<>> /\ PackerHas = {} /\ PackerHas' = {video}
  <2>1. stamps = <<>> /\ i = video /\ stamps' = <<>> /\ PackerHas = {}
    BY <1>1, <1>3 DEF FlowInv, Recording
  <2>2. KindStays("enc", "WRITE_DONE")
    BY <1>1 DEF PieceMoves, KindStays
  <2>3. /\ Buffers("enc", "WRITE_DONE")' = {} /\ PackerHas' = {video}
    BY <1>3, <2>1, <2>2, HandsOver DEF PackerHas
  <2>4. AtMostOne("enc", "WRITE_DONE")' /\ AtMostOne("packer", "FRAME")'
    <3>1. AtMostOne("enc", "WRITE_DONE")'
      BY <2>2, KindUnchanged DEF OneFrame
    <3>2. Queued("packer", "FRAME") = {}
      BY <2>1, NoneQueued DEF PackerHas
    <3>3. Frame(i).id = "FRAME"
      BY FrameMessage
    <3>4. Queued("packer", Frame(i).id) = {} => AtMostOne("packer", Frame(i).id)'
      BY <1>3, KindGiven
    <3> QED
      BY <3>1, <3>2, <3>3, <3>4
  <2>5. OneFrame'
    BY <2>3, <2>4 DEF OneFrame
  <2> QED
    BY <2>1, <2>3, <2>5
<1> QED
  BY <1>1, <1>2, <1>3

LEMMA FrameEncodedFlight ==
  ASSUME TypeOK, EncoderInv, FlowInv, FlightInv, FrameEncoded
  PROVE  FlightInv'
<1>1. "START" \in status /\ started /\ sendFlag' /\ ~ started' /\ used' = used
  BY FrameEncodedTypes
<1>2. InOneRole /\ OneFrame /\ (PackerHas # {} => sendFlag)
  BY <1>1 DEF FlightInv, Recording
<1>3. Encoding = {video} /\ Encoding' = {}
  BY <1>1 DEF Encoding
<1>4. OneFrame'
  BY <1>2, FrameGoes
<1>5. InOneRole'
  <2>1. CASE PackerHas' = PackerHas /\ Extended(stamps, stamps', video)
    <3>1. video \notin Range(stamps)
      BY <1>2, <1>3 DEF InOneRole
    <3>2. Range(stamps') = Range(stamps) \cup {video} /\ IsInjective(stamps')
      BY <1>2, <2>1, <3>1, RangeExtended DEF InOneRole
    <3> QED
      BY <1>1, <1>2, <1>3, <2>1, <3>2 DEF InOneRole
  <2>2. CASE stamps = <<>> /\ stamps' = <<>> /\ PackerHas = {} /\ PackerHas' = {video}
    <3>1. Range(stamps) = {} /\ Range(stamps') = {} /\ IsInjective(stamps')
      BY <2>2 DEF Range, IsInjective
    <3> QED
      BY <1>1, <1>2, <1>3, <2>2, <3>1 DEF InOneRole
  <2> QED
    BY <1>2, <2>1, <2>2, FrameGoes
<1> QED
  BY <1>1, <1>4, <1>5 DEF FlightInv

\* The packer has written a frame, and gets the next one.
LEMMA NextGoes ==
  ASSUME TypeOK, OneFrame, VideoWriteDone
  PROVE  /\ OneFrame' /\ PackerHas = {inbox["enc"][1].buf}
         /\ \/ stamps = <<>> /\ stamps' = stamps /\ ~ sendFlag' /\ PackerHas' = {}
            \/ /\ stamps # <<>> /\ sendFlag' /\ PackerHas' = {stamps[1]}
               /\ stamps' = Tail(stamps) /\ Shifted(stamps, stamps') /\ Head(stamps) = stamps[1]
<1> DEFINE w == inbox["enc"][1].buf
<1>1. /\ Taken("enc") /\ inbox["enc"][1].id = "WRITE_DONE"
      /\ \/ stamps = <<>> /\ stamps' = stamps /\ ~ sendFlag' /\ Same("packer")
         \/ /\ stamps # <<>> /\ stamps' = Tail(stamps) /\ sendFlag'
            /\ stamps[1] \in VideoBuffers /\ Given("packer", Frame(stamps[1]))
  BY VideoWriteDoneTypes
<1>2. /\ Queued("enc", "WRITE_DONE")' = {} /\ Buffers("enc", "WRITE_DONE") = {w}
      /\ Buffers("enc", "WRITE_DONE")' = {} /\ AtMostOne("enc", "WRITE_DONE")'
  <2>1. /\ Queued("enc", "WRITE_DONE")' = {}
        /\ Buffers("enc", "WRITE_DONE") = Buffers("enc", "WRITE_DONE")' \cup {w}
    BY <1>1, KindTaken DEF OneFrame
  <2>2. Buffers("enc", "WRITE_DONE")' = {} /\ AtMostOne("enc", "WRITE_DONE")'
    BY <2>1 DEF Buffers, AtMostOne
  <2> QED
    BY <2>1, <2>2
<1>3. Buffers("packer", "FRAME") = {} /\ Queued("packer", "FRAME") = {} /\ PackerHas = {w}
  BY <1>2, NoneQueued DEF OneFrame, PackerHas
<1> HIDE DEF w
<1>4. CASE stamps = <<>> /\ stamps' = stamps /\ ~ sendFlag' /\ Same("packer")
  <2>1. KindStays("packer", "FRAME")
    BY <1>4 DEF KindStays
  <2>2. Buffers("packer", "FRAME")' = {} /\ AtMostOne("packer", "FRAME")'
    BY <1>3, <2>1, KindUnchanged DEF OneFrame
  <2>3. OneFrame' /\ PackerHas' = {}
    BY <1>2, <2>2 DEF OneFrame, PackerHas
  <2> QED
    BY <1>3, <1>4, <2>3 DEF w
<1>5. CASE /\ stamps # <<>> /\ stamps' = Tail(stamps) /\ sendFlag'
           /\ stamps[1] \in VideoBuffers /\ Given("packer", Frame(stamps[1]))
  <2>1. Shifted(stamps, stamps') /\ Head(stamps) = stamps[1]
    BY <1>5, TailShifts DEF TypeOK
  <2>2. Frame(stamps[1]).id = "FRAME" /\ Frame(stamps[1]).buf = stamps[1]
    BY <1>5, FrameMessage
  <2>3. Buffers("packer", "FRAME")' = {stamps[1]} /\ AtMostOne("packer", "FRAME")'
    BY <1>3, <1>5, <2>2, KindGiven
  <2>4. OneFrame' /\ PackerHas' = {stamps[1]}
    BY <1>2, <2>3 DEF OneFrame, PackerHas
  <2> QED
    BY <1>3, <1>5, <2>1, <2>4 DEF w
<1> QED
  BY <1>1, <1>4, <1>5

LEMMA VideoWriteDoneFlight ==
  ASSUME TypeOK, Client, PictureInv, EncoderInv, FlightInv, VideoWriteDone
  PROVE  FlightInv'
<1>1. OneFrame /\ OneFrame' /\ NoNewRecording
  BY PipeClient, QuietRecording, NextGoes DEF FlightInv
<1>2. Handled("START_ENCODE")' => ~ started'
  BY <1>1, VideoWriteDoneTypes DEF FlightInv, NoNewRecording
<1>3. /\ PackerHas = {inbox["enc"][1].buf} /\ used' = used \ {inbox["enc"][1].buf}
      /\ Encoding' = Encoding
  BY <1>1, NextGoes, VideoWriteDoneTypes DEF Encoding
<1>4. CASE stamps' = stamps /\ ~ sendFlag' /\ PackerHas' = {}
  <2>1. InOneRole => InOneRole'
    BY <1>3, <1>4 DEF InOneRole
  <2> QED
    BY <1>1, <1>2, <1>4, <2>1 DEF FlightInv, NoNewRecording
<1>5. CASE sendFlag' /\ PackerHas' = {stamps[1]} /\ Shifted(stamps, stamps')
  <2>1. /\ Range(stamps) = Range(stamps') \cup {stamps[1]}
        /\ IsInjective(stamps) => IsInjective(stamps') /\ stamps[1] \notin Range(stamps')
    BY <1>5, RangeShifted
  <2>2. InOneRole => InOneRole'
    BY <1>3, <1>5, <2>1 DEF InOneRole
  <2> QED
    BY <1>1, <1>2, <1>5, <2>2 DEF FlightInv, NoNewRecording
<1> QED
  BY <1>1, <1>4, <1>5, NextGoes

\* A recording that begins when the last has settled has all the buffers.
LEMMA FlightStarts ==
  ASSUME TypeOK, Client, StartEncode, Settled
  PROVE  FlightInv' /\ PackerHas' = {} /\ stamps' = <<>>
<1>1. ~ sendFlag' /\ stamps' = <<>> /\ used' = {} /\ started' = started
  BY StartEncodeTypes
<1>2. FramesStay
  BY StartEncodeTypes, OrderIds, OrderFrames
<1>3. OneFrame /\ PackerHas = {}
  <2>1. Queued("enc", "WRITE_DONE") = {} /\ Queued("packer", "FRAME") = {}
    BY DEF Settled, Queued
  <2> QED
    BY <2>1 DEF OneFrame, AtMostOne, PackerHas, Buffers
<1>4. OneFrame' /\ PackerHas' = {}
  BY <1>2, <1>3, OneFrameStays, PackerHasStays
<1>5. ~ started' /\ Encoding' = {}
  BY <1>1 DEF Settled, Encoding
<1>6. Range(stamps') = {} /\ IsInjective(stamps')
  BY <1>1 DEF Range, IsInjective
<1>7. InOneRole'
  BY <1>1, <1>4, <1>5, <1>6 DEF InOneRole
<1> QED
  BY <1>1, <1>4, <1>5, <1>7 DEF FlightInv

LEMMA FlightKept ==
  ASSUME PipeInv, FlightInv, Next, ~ StartEncode
  PROVE  FlightInv'
<1>0. TypeOK /\ Client /\ PictureInv /\ EncoderInv /\ PackerInv /\ FlowInv
  BY DEF PipeInv
<1>1. CASE Aside
  <2>1. /\ FramesStay /\ NoNewRecording /\ UNCHANGED <<sendFlag, stamps>>
        /\ ~ ScalerTask => used' = used
        /\ ~ MjpegInit => UNCHANGED <<started, video>>
    BY <1>0, <1>1, AsideDoes
  <2>2. ScalerTask \/ MjpegInit => ~ Recording
    <3>1. ScalerTask \/ MjpegInit => Doing \in SwitchIds
      BY <1>0, Orders DEF OrderStep, SwitchIds
    <3> QED
      BY <1>0, <3>1, NotRecording
  <2> QED
    BY <2>1, <2>2, FlightStays
<1>2. CASE FirstPiece
  <2>1. FramesStay /\ NoNewRecording
    BY <1>0, <1>2, FirstPieceTypes, PieceFrames, PipeClient, QuietRecording
  <2>2. sendFlag' = sendFlag /\ ~ started /\ (NoBuffer \/ Chosen)
    BY <1>0, <1>2, FirstPieceDoes
  <2>3. CASE NoBuffer
    BY <2>1, <2>2, <2>3, FlightStays DEF NoBuffer
  <2>4. CASE Chosen
    <3>1. "START" \in status /\ Recording
      BY <2>4 DEF Chosen, Recording
    <3>2. InOneRole'
      BY <1>0, <2>1, <2>4, <3>1, RoleChosen DEF FlightInv
    <3>3. OneFrame' /\ PackerHas' = PackerHas
      BY <2>1, OneFrameStays, PackerHasStays DEF FlightInv
    <3>4. ~ Handled("START_ENCODE")'
      BY <1>0, <2>1, <3>1, StartIsBefore DEF NoNewRecording
    <3> QED
      BY <2>2, <3>1, <3>2, <3>3, <3>4 DEF FlightInv
  <2> QED
    BY <2>2, <2>3, <2>4
<1>3. ASSUME FramesStay, NoNewRecording, UNCHANGED <<stamps, sendFlag>>,
             started, used' = used \ {video}, ~ started'
      PROVE  FlightInv'
  <2>1. OneFrame' /\ PackerHas' = PackerHas
    BY <1>3, OneFrameStays, PackerHasStays DEF FlightInv
  <2>2. Recording => InOneRole'
    BY <1>3, RoleFails DEF FlightInv
  <2> QED
    BY <1>3, <2>1, <2>2 DEF FlightInv, NoNewRecording
<1>4. CASE MiddlePiece
  <2>1. FramesStay /\ NoNewRecording
    BY <1>0, <1>4, MiddlePieceTypes, PieceFrames, PipeClient, QuietRecording
  <2> QED
    BY <1>0, <1>3, <1>4, <2>1, MiddlePieceTypes, FlightStays
<1>5. CASE PieceMissing
  <2>1. FramesStay /\ NoNewRecording
    BY <1>0, <1>5, PieceMissingTypes, PieceFrames, PipeClient, QuietRecording
  <2> QED
    BY <1>0, <1>3, <1>5, <2>1, PieceMissingTypes, FlightStays
<1>6. CASE PictureEncoded
  <2>1. FramesStay /\ NoNewRecording
    BY <1>0, <1>6, PictureEncodedTypes, PieceFrames, PipeClient, QuietRecording
  <2> QED
    BY <1>0, <1>6, <2>1, PictureEncodedTypes, FlightStays
<1>7. CASE FrameEncoded
  BY <1>0, <1>7, FrameEncodedFlight
<1>8. CASE FrameDropped
  <2>1. FramesStay /\ NoNewRecording
    BY <1>0, <1>8, FrameDroppedTypes, PieceFrames, PipeClient, QuietRecording
  <2>2. UNCHANGED <<stamps, sendFlag>> /\ ~ started'
    BY <1>0, <1>8, FrameDroppedTypes
  <2>3. CASE ~ started /\ UNCHANGED <<video, used>>
    <3>1. Encoding' = Encoding
      BY <2>2, <2>3 DEF Encoding
    <3>2. OneFrame' /\ PackerHas' = PackerHas
      BY <2>1, OneFrameStays, PackerHasStays DEF FlightInv
    <3>3. InOneRole => InOneRole'
      BY <2>2, <2>3, <3>1, <3>2 DEF InOneRole
    <3> QED
      BY <2>1, <2>2, <3>2, <3>3 DEF FlightInv, NoNewRecording
  <2>4. CASE started /\ video' = None /\ used' = used \ {video}
    BY <1>3, <2>1, <2>2, <2>4
  <2>5. CASE started /\ "START" \notin status
    <3>1. ~ Recording
      BY <2>5 DEF FlightInv, Recording
    <3> QED
      BY <2>1, <3>1, FlightStays
  <2> QED
    BY <1>0, <1>8, <2>3, <2>4, <2>5, FrameDroppedTypes
<1>9. CASE VideoWriteDone
  BY <1>0, <1>9, VideoWriteDoneFlight
<1>10. CASE EncodeTaskStop
  <2>1. OrderStep("STOP") /\ inbox'["enc"] = <<>> /\ Same("packer")
    BY <1>0, <1>10, Orders, EncodeTaskStopTypes, MailboxNames DEF Order
  <2>2. Doing \in SwitchIds
    BY <2>1 DEF OrderStep, SwitchIds
  <2>3. ~ Recording' /\ ~ Handled("START_ENCODE")'
    BY <1>0, <2>1, <2>2, NotRecording, OrderRecording DEF NoNewRecording, Recording
  <2>4. OneFrame'
    <3>1. Buffers("enc", "WRITE_DONE")' = {} /\ AtMostOne("enc", "WRITE_DONE")'
      BY <2>1, KindEmptied
    <3>2. AtMostOne("packer", "FRAME")'
      BY <2>1, KindUnchanged DEF KindStays, FlightInv, OneFrame
    <3> QED
      BY <3>1, <3>2 DEF OneFrame
  <2> QED
    BY <2>3, <2>4 DEF FlightInv
<1>12. CASE PackerTask
  <2>1. UNCHANGED <<sendFlag, stamps, used, started, video>>
    BY <1>0, <1>12, PackerTaskTypes
  <2>2. CASE PackerFrame /\ Quiet
    <3>1. NoNewRecording
      BY <2>2, QuietRecording
    <3>2. /\ Queued("packer", "FRAME")' = {} /\ Buffers("packer", "FRAME")' = {}
          /\ AtMostOne("packer", "FRAME")' /\ Buffers("enc", "WRITE_DONE") = {}
      <4>1. /\ 1 \in Queued("packer", "FRAME") /\ Queued("packer", "FRAME")' = {}
        BY <1>0, <1>12, <2>2, PackerTaskTypes, KindTaken DEF PackerFrame, FlightInv, OneFrame
      <4>2. Buffers("packer", "FRAME") # {}
        BY <4>1 DEF Buffers
      <4>3. Buffers("packer", "FRAME")' = {} /\ AtMostOne("packer", "FRAME")'
        BY <4>1 DEF Buffers, AtMostOne
      <4> QED
        BY <4>1, <4>2, <4>3 DEF FlightInv, OneFrame
    <3>3. CASE Given("enc", WriteDone(inbox["packer"][1].buf))
      <4>1. PackerHas' = PackerHas
        BY <1>0, <1>12, <2>2, <3>3, ReportsFrame
      <4>2. AtMostOne("enc", "WRITE_DONE")'
        <5>1. WriteDone(inbox["packer"][1].buf).id = "WRITE_DONE"
          BY <2>2, FrameMessage DEF PackerFrame
        <5>2. Queued("enc", "WRITE_DONE") = {}
          BY <3>2, NoneQueued
        <5> QED
          BY <3>3, <5>1, <5>2, KindGiven
      <4>3. OneFrame'
        BY <3>2, <4>2 DEF OneFrame
      <4>4. InOneRole => InOneRole'
        BY <2>1, <4>1 DEF InOneRole, Encoding
      <4> QED
        BY <2>1, <3>1, <4>1, <4>3, <4>4 DEF FlightInv, NoNewRecording
    <3>4. CASE ~ packing /\ Same("enc")
      <4>1. ~ Recording' /\ ~ Handled("START_ENCODE")'
        BY <1>0, <3>1, <3>4, RecordingPacks DEF NoNewRecording, Recording
      <4>2. AtMostOne("enc", "WRITE_DONE")' /\ Buffers("enc", "WRITE_DONE")' = {}
        BY <3>2, <3>4, KindUnchanged DEF KindStays, FlightInv, OneFrame
      <4>3. OneFrame'
        BY <3>2, <4>2 DEF OneFrame
      <4> QED
        BY <4>1, <4>3 DEF FlightInv
    <3> QED
      BY <2>2, <3>3, <3>4 DEF PackerFrame
  <2>3. ASSUME NEW id \in {"OPEN", "CLOSE"}, PackerOrder(id)
        PROVE  FlightInv'
    <3>1. FramesStay
      BY <1>0, <1>12, <2>3, PackerTaskTypes, OrderIds, OrderFrames DEF PackerOrder
    <3>2. NoNewRecording
      BY <1>0, <1>12, <2>3, Orders, OrderRecording
    <3> QED
      BY <2>1, <3>1, <3>2, FlightStays
  <2> QED
    BY <1>0, <1>12, <2>2, <2>3, PackerClient
<1> QED
  BY <1>1, <1>2, <1>4, <1>5, <1>6, <1>7, <1>8, <1>9, <1>10, <1>12
  DEF Next, EncoderTask, AviTask, StateHandlingTask, Aside

LEMMA FlightInvHolds == Spec => [](hurried \/ FlightInv)
<1>1. Init => FlightInv
  <2> SUFFICES ASSUME Init PROVE FlightInv
    OBVIOUS
  <2>1. \A b \in Mailboxes : DOMAIN inbox[b] = {}
    BY DEF Init
  <2>2. Queued("enc", "WRITE_DONE") = {} /\ Queued("packer", "FRAME") = {}
    BY <2>1, MailboxNames DEF Queued
  <2>3. OneFrame
    BY <2>2, NoneQueued DEF OneFrame
  <2>4. ~ Recording /\ ~ Handled("START_ENCODE")
    BY DEF Recording, Handled, Init
  <2> QED
    BY <2>3, <2>4 DEF FlightInv
<1>2. PipeInv /\ (hurried \/ FlightInv) /\ [Next]_vars => (hurried \/ FlightInv)'
  <2>1. ASSUME FlightInv, UNCHANGED vars PROVE FlightInv'
    <3>1. UNCHANGED <<inbox, started, video, used, stamps, sendFlag, status, todo, waiting, ack>>
      BY <2>1 DEF vars, encodeVars, queueVars, clientVars
    <3>2. FramesStay
      BY <3>1 DEF FramesStay, KindStays, Same
    <3>3. NoNewRecording
      BY <3>1 DEF NoNewRecording, Recording, Handled, Doing
    <3> QED
      BY <2>1, <3>1, <3>2, <3>3, FlightStays
  <2>2. UNCHANGED vars => hurried' = hurried
    BY DEF vars
  <2>3. PipeInv /\ StartEncode /\ Settled => FlightInv'
    BY FlightStarts DEF PipeInv
  <2> QED
    BY <2>1, <2>2, <2>3, FlightKept, HurriedDecided
<1> QED
  BY <1>1, <1>2, PipeInvHolds, PTL DEF Spec

\* While a file is recorded the encoder never writes into a frame that waits or
\* that the packer has, and no buffer is lost, unless that recording has begun
\* before the last one had settled (is_used, avi_encode_get_video_frame).
THEOREM PipeVideoBufsOwned == Spec => []VideoBufsOwned
<1>1. hurried \/ FlightInv => VideoBufsOwned
  <2> SUFFICES ASSUME FlightInv, "START" \in status, NEW b \in VideoBuffers
               PROVE  Cardinality(VideoPlaces(b)) = IF b \in used THEN 1 ELSE 0
    BY DEF VideoBufsOwned
  <2>1. InOneRole /\ OneFrame
    BY DEF FlightInv, Recording
  <2> DEFINE waits == {j \in DOMAIN stamps : stamps[j] = b}
             written == {j \in Queued("enc", "WRITE_DONE") : inbox["enc"][j].buf = b}
             handed == {j \in Queued("packer", "FRAME") : inbox["packer"][j].buf = b}
             encoded == {w \in {video} : started /\ w = b}
  <2>2. VideoPlaces(b) = {<<"waits", k>> : k \in waits} \cup {<<"written", k>> : k \in written}
                          \cup {<<"handed", k>> : k \in handed}
                          \cup {<<"encoded", v>> : v \in encoded}
    BY DEF VideoPlaces
  <2>3. /\ waits = {} <=> b \notin Range(stamps)
        /\ written = {} <=> b \notin Buffers("enc", "WRITE_DONE")
        /\ handed = {} <=> b \notin Buffers("packer", "FRAME")
        /\ encoded = {} <=> b \notin Encoding
    <3>1. waits = {} <=> b \notin Range(stamps)
      BY DEF Range
    <3>2. written = {} <=> b \notin Buffers("enc", "WRITE_DONE")
      BY DEF Buffers
    <3>3. handed = {} <=> b \notin Buffers("packer", "FRAME")
      BY DEF Buffers
    <3>4. encoded = {} <=> b \notin Encoding
      BY DEF Encoding
    <3> QED
      BY <3>1, <3>2, <3>3, <3>4
  <2>4. /\ \A j, k \in waits : j = k
        /\ \A j, k \in written : j = k
        /\ \A j, k \in handed : j = k
        /\ \A j, k \in encoded : j = k
    <3>1. \A j, k \in waits : j = k
      BY <2>1 DEF InOneRole, IsInjective
    <3>2. (\A j, k \in written : j = k) /\ (\A j, k \in handed : j = k)
      BY <2>1 DEF OneFrame, AtMostOne
    <3> QED
      BY <3>1, <3>2
  <2> HIDE DEF waits, written, handed, encoded
  <2>5. CASE b \notin used
    <3>1. waits = {} /\ written = {} /\ handed = {} /\ encoded = {}
      BY <2>1, <2>3, <2>5 DEF InOneRole, PackerHas
    <3>2. VideoPlaces(b) = {}
      BY <2>2, <3>1
    <3> QED
      BY <2>5, <3>2, FS_EmptySet
  <2>6. CASE b \in used
    <3>1. \E p : VideoPlaces(b) = {p}
      <4>1. CASE waits # {}
        <5>1. written = {} /\ handed = {} /\ encoded = {}
          BY <2>1, <2>3, <4>1 DEF InOneRole, PackerHas
        <5>2. PICK k : waits = {k}
          BY <2>4, <4>1
        <5>3. VideoPlaces(b) = {<<"waits", k>>}
          BY <2>2, <5>1, <5>2
        <5> QED
          BY <5>3
      <4>2. CASE written # {}
        <5>1. waits = {} /\ handed = {} /\ encoded = {}
          BY <2>1, <2>3, <4>2 DEF InOneRole, PackerHas, OneFrame
        <5>2. PICK k : written = {k}
          BY <2>4, <4>2
        <5>3. VideoPlaces(b) = {<<"written", k>>}
          BY <2>2, <5>1, <5>2
        <5> QED
          BY <5>3
      <4>3. CASE handed # {}
        <5>1. waits = {} /\ written = {} /\ encoded = {}
          BY <2>1, <2>3, <4>3 DEF InOneRole, PackerHas, OneFrame
        <5>2. PICK k : handed = {k}
          BY <2>4, <4>3
        <5>3. VideoPlaces(b) = {<<"handed", k>>}
          BY <2>2, <5>1, <5>2
        <5> QED
          BY <5>3
      <4>4. CASE encoded # {}
        <5>1. waits = {} /\ written = {} /\ handed = {}
          BY <2>1, <2>3, <4>4 DEF InOneRole, PackerHas
        <5>2. PICK k : encoded = {k}
          BY <2>4, <4>4
        <5>3. VideoPlaces(b) = {<<"encoded", k>>}
          BY <2>2, <5>1, <5>2
        <5> QED
          BY <5>3
      <4>5. waits # {} \/ written # {} \/ handed # {} \/ encoded # {}
        BY <2>1, <2>3, <2>6 DEF InOneRole, PackerHas
      <4> QED
        BY <4>1, <4>2, <4>3, <4>4, <4>5
    <3> QED
      BY <2>6, <3>1, FS_Singleton
  <2> QED
    BY <2>5, <2>6
<1> QED
  BY <1>1, FlightInvHolds, PTL

-----------------------------------------------------------------------------
(* The encoder implements the queue of frames.                             *)

LEMMA RangeCounts ==
  ASSUME NEW S, NEW s \in Seq(S), IsInjective(s)
  PROVE  IsFiniteSet(Range(s)) /\ Cardinality(Range(s)) = Len(s)
<1>1. Len(s) \in Nat /\ DOMAIN s = 1 .. Len(s) /\ s \in [1 .. Len(s) -> S]
  BY LenProperties
<1>2. s \in [1 .. Len(s) -> Range(s)]
  BY <1>1 DEF Range
<1>3. s \in Bijection(1 .. Len(s), Range(s))
  BY <1>1, <1>2 DEF Bijection, Injection, Surjection, Range
<1>4. ExistsBijection(1 .. Len(s), Range(s))
  BY <1>3 DEF ExistsBijection
<1> QED
  BY <1>1, <1>4, FS_NatBijection, FS_CountingElements

\* When no buffer is free before a frame is encoded, all hold frames.
LEMMA AllHoldFrames ==
  ASSUME TypeOK, InOneRole, used = VideoBuffers, ~ started
  PROVE  Len(stamps) + Cardinality(PackerHas) = VideoNo
<1>1. /\ Range(stamps) \cup PackerHas = VideoBuffers /\ Range(stamps) \cap PackerHas = {}
      /\ IsInjective(stamps)
  BY DEF InOneRole, Encoding
<1>2. IsFiniteSet(VideoBuffers) /\ Cardinality(VideoBuffers) = VideoNo
  <2>1. 0 \in Int /\ VideoNo - 1 \in Int /\ ~ (0 > VideoNo - 1) /\ (VideoNo - 1) - 0 + 1 = VideoNo
    BY PipeAssumption
  <2> QED
    BY <2>1, FS_Interval DEF VideoBuffers
<1>3. IsFiniteSet(Range(stamps)) /\ Cardinality(Range(stamps)) = Len(stamps)
  BY <1>1, RangeCounts DEF TypeOK
<1>4. IsFiniteSet(PackerHas)
  BY <1>1, <1>2, FS_Subset
<1>5. Cardinality(VideoBuffers) = Cardinality(Range(stamps)) + Cardinality(PackerHas)
                                  - Cardinality(Range(stamps) \cap PackerHas)
  BY <1>1, <1>3, <1>4, FS_Union
<1>6. Cardinality(Range(stamps) \cap PackerHas) = 0
  BY <1>1, FS_EmptySet
<1>7. Cardinality(PackerHas) \in Nat /\ Len(stamps) \in Nat
  BY <1>4, FS_CardinalityType, LenProperties DEF TypeOK
<1> QED
  BY <1>2, <1>3, <1>5, <1>6, <1>7

\* The queue's steps.
LEMMA QueueFinish ==
  ASSUME NEW i \in VideoBuffers, i \notin Range(stamps) \cup PackerHas,
         \/ stamps' = Append(stamps, i) /\ PackerHas' = PackerHas
         \/ stamps = <<>> /\ PackerHas = {} /\ PackerHas' = {i} /\ stamps' = stamps
  PROVE  Queue!Works
<1>1. Queue!Finish(i)
  BY DEF Queue!Finish, Queue!Range, Range
<1> QED
  BY <1>1 DEF Queue!Works, VideoBuffers

LEMMA QueueWritten ==
  ASSUME \/ PackerHas' = {} /\ stamps' = stamps
         \/ stamps # <<>> /\ PackerHas' = {Head(stamps)} /\ stamps' = Tail(stamps)
  PROVE  Queue!Works
BY DEF Queue!Works, Queue!Written

LEMMA QueueGiveUp ==
  ASSUME NEW k \in DOMAIN stamps, stamps' = RemoveAt(stamps, k), PackerHas' = PackerHas,
         Len(stamps) + Cardinality(PackerHas) = VideoNo
  PROVE  Queue!Works
<1>1. Queue!RemoveAt(stamps, k) = RemoveAt(stamps, k)
  BY DEF Queue!RemoveAt, RemoveAt
<1>2. Queue!Full
  <2>1. Queue!Cardinality(PackerHas) = Cardinality(PackerHas)
    BY DEF Queue!Cardinality, Cardinality
  <2> QED
    BY <2>1 DEF Queue!Full
<1>3. Queue!GiveUp(k)
  BY <1>1, <1>2 DEF Queue!GiveUp
<1> QED
  BY <1>3 DEF Queue!Works

LEMMA StepQueues ==
  ASSUME PipeInv, FlightInv, Next, ~ StartEncode
  PROVE  Queue!Works \/ UNCHANGED <<stamps, PackerHas>>
<1>0. TypeOK /\ Client /\ PictureInv /\ EncoderInv /\ FlowInv /\ OneFrame
  BY DEF PipeInv, FlightInv
<1>1. ASSUME FramesStay, stamps' = stamps
      PROVE  UNCHANGED <<stamps, PackerHas>>
  BY <1>1, PackerHasStays
<1>2. CASE Aside
  BY <1>0, <1>1, <1>2, AsideDoes
<1>3. CASE FirstPiece
  <2>1. FramesStay /\ ~ started /\ (NoBuffer \/ Chosen)
    BY <1>0, <1>3, FirstPieceTypes, PieceFrames, FirstPieceDoes
  <2>2. CASE stamps' = stamps
    BY <1>1, <2>1, <2>2
  <2>3. ASSUME "START" \in status, used = VideoBuffers,
               NEW k \in DOMAIN stamps, stamps' = RemoveAt(stamps, k)
        PROVE  Queue!Works
    <3>1. InOneRole
      BY <2>3 DEF FlightInv, Recording
    <3>2. Len(stamps) + Cardinality(PackerHas) = VideoNo
      BY <1>0, <2>1, <2>3, <3>1, AllHoldFrames
    <3>3. PackerHas' = PackerHas
      BY <2>1, PackerHasStays
    <3> QED
      BY <2>3, <3>2, <3>3, QueueGiveUp
  <2> QED
    BY <2>1, <2>2, <2>3 DEF NoBuffer, Chosen
<1>4. CASE MiddlePiece
  BY <1>0, <1>1, <1>4, MiddlePieceTypes, PieceFrames
<1>5. CASE PieceMissing
  BY <1>0, <1>1, <1>5, PieceMissingTypes, PieceFrames
<1>6. CASE PictureEncoded
  BY <1>0, <1>1, <1>6, PictureEncodedTypes, PieceFrames
<1>7. CASE FrameDropped
  BY <1>0, <1>1, <1>7, FrameDroppedTypes, PieceFrames
<1>8. CASE FrameEncoded
  <2>1. "START" \in status /\ started /\ video \in VideoBuffers
    BY <1>0, <1>8, FrameEncodedTypes
  <2>2. InOneRole /\ (PackerHas # {} => sendFlag)
    BY <2>1 DEF FlightInv, Recording
  <2>3. video \notin Range(stamps) \cup PackerHas
    BY <2>1, <2>2 DEF InOneRole, Encoding
  <2> QED
    BY <1>0, <1>8, <2>1, <2>2, <2>3, FrameGoes, QueueFinish
<1>9. CASE VideoWriteDone
  BY <1>0, <1>9, NextGoes, QueueWritten
<1>10. CASE EncodeTaskStop
  <2>1. inbox'["enc"] = <<>> /\ Same("packer") /\ stamps' = stamps
    BY <1>0, <1>10, EncodeTaskStopTypes, MailboxNames DEF Order
  <2>2. PackerHas' = Buffers("packer", "FRAME")
    <3>1. Buffers("enc", "WRITE_DONE")' = {}
      BY <2>1, KindEmptied
    <3>2. Buffers("packer", "FRAME")' = Buffers("packer", "FRAME")
      BY <2>1, KindUnchanged DEF KindStays
    <3> QED
      BY <3>1, <3>2 DEF PackerHas
  <2>3. PackerHas' = {} \/ PackerHas' = PackerHas
    BY <1>0, <2>2 DEF OneFrame, PackerHas
  <2> QED
    BY <2>1, <2>3, QueueWritten
<1>12. CASE PackerTask
  <2>1. stamps' = stamps
    BY <1>0, <1>12, PackerTaskTypes
  <2>2. CASE PackerFrame /\ Given("enc", WriteDone(inbox["packer"][1].buf))
    <3>1. PackerHas' = PackerHas
      BY <1>0, <1>12, <2>2, ReportsFrame
    <3> QED
      BY <2>1, <3>1
  <2>3. CASE PackerFrame /\ Same("enc")
    <3>1. /\ 1 \in Queued("packer", "FRAME") /\ Queued("packer", "FRAME")' = {}
      BY <1>0, <1>12, <2>3, PackerTaskTypes, KindTaken DEF PackerFrame, OneFrame
    <3>2. Buffers("packer", "FRAME") # {} /\ Buffers("packer", "FRAME")' = {}
      BY <3>1 DEF Buffers
    <3>3. Buffers("enc", "WRITE_DONE")' = Buffers("enc", "WRITE_DONE")
      BY <2>3, KindUnchanged DEF KindStays
    <3>4. PackerHas' = {}
      BY <1>0, <3>2, <3>3 DEF OneFrame, PackerHas
    <3> QED
      BY <2>1, <3>4, QueueWritten
  <2>4. ASSUME NEW id \in {"OPEN", "CLOSE"}, PackerOrder(id)
        PROVE  UNCHANGED <<stamps, PackerHas>>
    <3>1. FramesStay
      BY <1>0, <1>12, <2>4, PackerTaskTypes, OrderIds, OrderFrames DEF PackerOrder
    <3> QED
      BY <1>1, <2>1, <3>1
  <2> QED
    BY <1>0, <1>12, <2>2, <2>3, <2>4, PackerClient DEF PackerFrame
<1> QED
  BY <1>2, <1>3, <1>4, <1>5, <1>6, <1>7, <1>8, <1>9, <1>10, <1>12
  DEF Next, EncoderTask, AviTask, StateHandlingTask, Aside

\* Frames reach the packer in the order they were encoded in and one at a time,
\* and one is given up only when every buffer holds one (time_stamp_buffer,
\* JpegSendFlag, avi_encode_get_video_frame); a recording that begins before the
\* last one has settled breaks this until the next one begins.
THEOREM PipeImplementsFrameQueue == Spec => ImplementsFrameQueue
<1>1. Init => Queue!Init
  <2> SUFFICES ASSUME Init PROVE Queue!Init
    OBVIOUS
  <2>1. Queued("enc", "WRITE_DONE") = {} /\ Queued("packer", "FRAME") = {}
    BY MailboxNames DEF Init, Queued
  <2>2. PackerHas = {}
    BY <2>1, NoneQueued DEF PackerHas
  <2> QED
    BY <2>2 DEF Queue!Init, Init
<1>2. PipeInv /\ (hurried \/ FlightInv) /\ [Next]_vars => [Queue!Next]_(Queue!queueVars)
  <2> SUFFICES ASSUME PipeInv, hurried \/ FlightInv, [Next]_vars
               PROVE  Queue!Next \/ UNCHANGED <<stamps, PackerHas, hurried>>
    BY DEF Queue!queueVars
  <2>1. CASE UNCHANGED vars
    BY <2>1 DEF vars, queueVars, PackerHas, Buffers, Queued
  <2>2. CASE Next /\ StartEncode /\ Settled
    <3>1. PackerHas' = {} /\ stamps' = <<>>
      BY <2>2, FlightStarts DEF PipeInv
    <3>2. hurried' = FALSE
      BY <2>2 DEF StartEncode
    <3>3. Queue!Restart
      BY <3>1, <3>2 DEF Queue!Restart
    <3> QED
      BY <3>3 DEF Queue!Next
  <2>3. CASE Next /\ StartEncode /\ ~ Settled
    <3>1. hurried' = TRUE
      BY <2>3 DEF StartEncode
    <3> QED
      BY <3>1 DEF Queue!Next, Queue!Break
  <2>4. CASE Next /\ ~ StartEncode
    <3>1. hurried' = hurried
      BY <2>4, HurriedDecided
    <3>2. CASE hurried
      <4>1. hurried' = TRUE
        BY <3>1, <3>2 DEF PipeInv, TypeOK
      <4> QED
        BY <4>1 DEF Queue!Next, Queue!Break
    <3>3. CASE ~ hurried /\ FlightInv
      <4>1. Queue!Works \/ UNCHANGED <<stamps, PackerHas>>
        BY <2>4, <3>3, StepQueues
      <4> QED
        BY <3>1, <3>3, <4>1 DEF Queue!Next
    <3> QED
      BY <3>2, <3>3
  <2> QED
    BY <2>1, <2>2, <2>3, <2>4
<1> QED
  BY <1>1, <1>2, PipeInvHolds, FlightInvHolds, PTL DEF Spec, ImplementsFrameQueue, Queue!Spec

=============================================================================
