---------------------------- MODULE StreamerProofs ----------------------------
(***************************************************************************)
(* What the streamer thread keeps for every ring, frame, channel and       *)
(* number of utterances: the release of a gate reaches the segment it is   *)
(* for, a segment that closes on it has taken everything captured before   *)
(* it, and what goes out on a connection is what UplinkProtocol allows.    *)
(***************************************************************************)
EXTENDS Streamer, TLAPS

-----------------------------------------------------------------------------
(* The inductive invariant *)

(* The telemetry thread's state, within its bounds. *)
GateType ==
  /\ vad \in [open : BOOLEAN, n : Nat]
  /\ segment_open \in BOOLEAN /\ flag \in BOOLEAN
  /\ tick \in 0..(DoaEveryN - 1)
  /\ tpc \in {"rest", "opened", "closed", "undo", "forward", "doa", "dead"}
  /\ write_head \in 0..MaxHead /\ onset \in 0..write_head
  /\ onsets \in 0..MaxOnsets
  /\ released \in [1..MaxOnsets -> Int]

(* An onset's gate is unreleased only while it is the latest and the       *)
(* machine is open; a release is dated before the present.                 *)
ReleasedInv ==
  /\ \A k \in 1..MaxOnsets : released[k] = NotReleased \/ released[k] \in 0..write_head
  /\ \A k \in 1..MaxOnsets : k < onsets => released[k] # NotReleased
  /\ \A k \in 1..MaxOnsets : k > onsets => released[k] = NotReleased
  /\ vad.open => onsets > 0 /\ released[onsets] = NotReleased
  /\ (~vad.open /\ onsets > 0) => released[onsets] # NotReleased

(* The flag says that no segment is open, except before the first onset    *)
(* and between a dropped onset and its undoing.                            *)
FlagInv ==
  /\ segment_open => vad.open /\ ~flag
  /\ tpc = "opened" => segment_open
  /\ tpc = "undo" => ~segment_open
  /\ tpc = "closed" => ~vad.open /\ onsets > 0
  /\ (onsets > 0 /\ ~segment_open /\ tpc # "undo") => flag

GateInv == GateType /\ ReleasedInv /\ FlagInv

(* An onset the streamer was told of: the latest one counts once its       *)
(* message is in the channel, and never if it was dropped.                 *)
Delivered(n) ==
  /\ n \in 1..onsets
  /\ n = onsets => tpc # "opened" /\ (vad.open => segment_open)

(* The channel: onsets come in order, each after the ones that were served, *)
(* and a release comes after the onset it is for.                           *)
ChanInv ==
  /\ chan \in Seq(Message) /\ Len(chan) <= ChanCap
  /\ \A i \in 1..Len(chan) : chan[i].type = "VadOpened" =>
       /\ Delivered(chan[i].onset)
       /\ segment_counter < chan[i].onset
       /\ seg.onset < chan[i].onset
       /\ chan[i].write_head <= write_head
  /\ \A i \in 1..Len(chan) : chan[i].type = "VadClosed" =>
       /\ chan[i].onset \in 1..onsets
       /\ released[chan[i].onset] # NotReleased
       /\ seg.onset <= chan[i].onset
  /\ \A i, j \in 1..Len(chan) : (i < j /\ chan[i].type = "VadOpened") =>
       /\ chan[j].type = "VadOpened" => chan[i].onset < chan[j].onset
       /\ chan[j].type = "VadClosed" => chan[i].onset <= chan[j].onset

SegFields ==
  [vad_write_head : Nat, onset : Nat, segment_id : Nat, read_cursor : Nat,
   samples_sent : Nat, vad_closed : BOOLEAN, channel_lost : BOOLEAN,
   segment_end : {NoEnd, "InternalError", "Overrun", "VadRelease"},
   outbound : {seg.outbound}, wrote : BOOLEAN, write_blocked : BOOLEAN,
   pending : Nat, frames_this_wake : Nat, planned : Nat]

AtRest == spc \in {"idle", "exited"}

(* The segment's locals.  A release that was read is the release of this   *)
(* segment's own onset, and a cursor that is to close on it has passed the *)
(* head of that moment.                                                    *)
SegInv ==
  /\ spc \in {"idle", "onset", "start", "reconnect", "exited", "drain", "flag",
              "select", "copy", "write", "watch"}
  /\ seg \in SegFields
  /\ AtRest => seg = NoSegment
  /\ ~AtRest => Delivered(seg.onset)
  /\ segment_counter \in 0..onsets
  /\ tpc = "opened" => segment_counter < onsets
  /\ spc = "onset" => /\ segment_counter < seg.onset /\ seg.vad_write_head <= write_head
                      /\ seg.segment_end = NoEnd
  /\ seg.read_cursor <= write_head
  /\ seg.pending <= PendingCap /\ seg.planned <= FrameSamples
  /\ seg.vad_closed => released[seg.onset] # NotReleased
  /\ seg.segment_end = "VadRelease" =>
       seg.vad_closed /\ seg.read_cursor >= released[seg.onset]
  /\ spc = "copy" =>
       /\ seg.planned >= 1 /\ seg.read_cursor + seg.planned <= write_head
       /\ seg.planned < FrameSamples =>
            seg.vad_closed /\ seg.read_cursor + seg.planned >= released[seg.onset]

(* The frame in hand continues what the connection was sent. *)
OutboundInv ==
  \/ /\ seg.outbound \in {NoFrame, Wire!TelemetryFrame}
     /\ seg.read_cursor = sess.next
  \/ /\ seg.outbound = Wire!SegmentEnd(seg.segment_id, sess.count, seg.outbound.reason)
     /\ seg.read_cursor = sess.next
  \/ /\ seg.outbound = Wire!Audio(seg.segment_id, sess.next, seg.outbound.pcm)
     /\ seg.outbound.pcm \in Seq(Int) /\ seg.outbound.pcm # <<>>
     /\ Wire!TrueSamples(seg.outbound)
     /\ seg.read_cursor = sess.next + Len(seg.outbound.pcm)

Session == [phase : {"none", "idle", "open"}, id : Int, next : Nat, count : Nat]

(* The connection against the segment. *)
WireInv ==
  /\ link \in BOOLEAN /\ fresh \in BOOLEAN
  /\ faults \in 0..MaxFaults
  /\ sess \in Session
  /\ link <=> sess.phase # "none"
  /\ sess.id < segment_counter /\ sess.count <= sess.next
  /\ spc \in {"start", "reconnect"} =>
       sess.id < seg.segment_id /\ seg.segment_id < segment_counter
  /\ spc = "start" => link
  /\ ~InSegment => /\ half = NoFrame /\ seg.outbound = NoFrame
                   /\ ~seg.wrote /\ seg.samples_sent = 0
  /\ InSegment =>
       /\ sess.phase = "open" /\ sess.id = seg.segment_id
       /\ sess.count = seg.samples_sent
       /\ half = IF seg.wrote THEN seg.outbound ELSE NoFrame
       /\ seg.wrote => seg.outbound # NoFrame
       /\ OutboundInv
  /\ spc \in {"select", "copy"} => seg.outbound = NoFrame
  /\ spc = "write" => seg.outbound # NoFrame

IInv == GateInv /\ ChanInv /\ SegInv /\ WireInv

-----------------------------------------------------------------------------
(* The operators *)

(* Two indices less than a lap apart with one slot are one index. *)
LEMMA OneSlot ==
  ASSUME NEW i \in Int, NEW j \in Int, j % RingCap = i % RingCap,
         j - i < RingCap, i - j < RingCap
  PROVE  i = j
<1>0. RingCap \in Nat /\ RingCap > 0
  BY RingAssumption
<1> DEFINE p == i \div RingCap
           q == j \div RingCap
<1>1. p \in Int /\ q \in Int
  BY <1>0
<1>2. i = RingCap * p + (i % RingCap) /\ j = RingCap * q + (j % RingCap)
  BY <1>0
<1>3. i % RingCap \in Int /\ RingCap * p \in Int /\ RingCap * q \in Int
  BY <1>0, <1>1
<1> HIDE DEF p, q
<1>4. RingCap * q - RingCap * p = j - i
  BY <1>2, <1>3
<1>5. RingCap * q - RingCap * p = RingCap * (q - p)
  BY <1>0, <1>1
<1> DEFINE d == q - p
<1>6. d \in Int /\ RingCap * d = j - i
  BY <1>1, <1>4, <1>5
<1> HIDE DEF d
<1>7. CASE d >= 1
  <2>1. RingCap * d >= RingCap
    BY <1>0, <1>6, <1>7
  <2> QED
    BY <2>1, <1>0, <1>6
<1>8. CASE d <= -1
  <2>1. RingCap * d <= -RingCap
    BY <1>0, <1>6, <1>8
  <2> QED
    BY <2>1, <1>0, <1>6
<1>9. CASE d = 0
  BY <1>9, <1>0, <1>6
<1> QED
  BY <1>6, <1>7, <1>8, <1>9

(* A slot that was not lapped holds the sample its index names. *)
LEMMA SlotHolds ==
  ASSUME NEW h \in Nat, NEW i \in (h - RingCap)..(h - 1)
  PROVE  SlotValue(h, i) = i
<1>0. RingCap \in Nat
  BY RingAssumption, Zenon
<1>1. \A j \in (h - RingCap)..(h - 1) : j % RingCap = i % RingCap => j = i
  <2> SUFFICES ASSUME NEW j \in (h - RingCap)..(h - 1), j % RingCap = i % RingCap
               PROVE  j = i
    OBVIOUS
  <2>1. i \in Int /\ j \in Int /\ j - i < RingCap /\ i - j < RingCap
    BY <1>0
  <2> QED
    BY <2>1, OneSlot, Zenon
<1> QED
  BY <1>1, Zenon DEF SlotValue

(* The pre-roll starts inside what was captured. *)
LEMMA PrerollBounds ==
  ASSUME NEW h \in Nat
  PROVE  preroll_cursor(h) \in 0..h
<1>0. RingCap \in Nat /\ Preroll \in Nat
  BY RingAssumption, Zenon
<1> DEFINE t == IF h < Preroll THEN 0 ELSE h - Preroll
           o == oldest(h)
<1>1. t \in 0..h /\ o \in 0..h
  BY <1>0 DEF oldest, held
<1> HIDE DEF t, o
<1>2. Max({t, o}) \in {t, o}
  <2>1. t \in Int /\ o \in Int
    BY <1>1
  <2>2. \E x \in {t, o} : \A y \in {t, o} : x >= y
    BY <2>1
  <2> QED
    BY <2>2, Zenon DEF Max
<1>3. preroll_cursor(h) = Max({t, o})
  BY Zenon DEF preroll_cursor, t, o
<1> QED
  BY <1>1, <1>2, <1>3, Zenon

-----------------------------------------------------------------------------
(* The initial state *)

LEMMA InitHolds == Init => IInv
<1> SUFFICES ASSUME Init PROVE IInv
  OBVIOUS
<1> USE GateAssumption, RingAssumption, StreamerAssumption DEF Init, GateInit
<1>1. GateInv
  <2>1. GateType
    <3>1. vad \in [open : BOOLEAN, n : Nat]
      OBVIOUS
    <3>2. released \in [1..MaxOnsets -> Int]
      BY DEF NotReleased
    <3>3. tick \in 0..(DoaEveryN - 1) /\ write_head \in 0..MaxHead
          /\ onset \in 0..write_head /\ onsets \in 0..MaxOnsets
      OBVIOUS
    <3>4. segment_open \in BOOLEAN /\ flag \in BOOLEAN /\ tpc = "rest"
      BY Zenon
    <3> QED
      BY ONLY <3>1, <3>2, <3>3, <3>4, Zenon DEF GateType
  <2>2. ReleasedInv
    BY DEF ReleasedInv
  <2>3. FlagInv
    BY DEF FlagInv
  <2> QED
    BY <2>1, <2>2, <2>3, Zenon DEF GateInv
<1>2. chan = <<>> /\ chan \in Seq(Message) /\ Len(chan) = 0
  OBVIOUS
<1>3. ChanInv
  BY <1>2 DEF ChanInv
<1>4. SegInv
  BY DEF SegInv, SegFields, AtRest, NoSegment, NoEnd, NotReleased
<1>5. WireInv
  <2>1. sess = [phase |-> "none", id |-> -1, next |-> 0, count |-> 0]
    BY Zenon DEF Wire!NoSession
  <2>2. sess \in Session
    BY <2>1 DEF Session
  <2>3. sess.phase = "none" /\ sess.id = -1 /\ sess.next = 0 /\ sess.count = 0
    BY <2>1
  <2>4. half = NoFrame /\ seg.outbound = NoFrame /\ ~seg.wrote /\ seg.samples_sent = 0
    BY Zenon DEF NoSegment
  <2>5. link \in BOOLEAN /\ fresh \in BOOLEAN /\ ~link /\ spc = "idle"
    BY Zenon
  <2>6. faults \in 0..MaxFaults /\ segment_counter = 0
    OBVIOUS
  <2> QED
    BY ONLY <2>2, <2>3, <2>4, <2>5, <2>6 DEF WireInv, InSegment
<1> QED
  BY <1>1, <1>3, <1>4, <1>5, Zenon DEF IInv

-----------------------------------------------------------------------------
(* The telemetry thread.  What it may do to what the streamer relies on:   *)
(* an onset that was delivered stays so, a release stays where it was.     *)

GateKeeps ==
  /\ \A n \in Nat : Delivered(n) => Delivered(n)'
  /\ \A n \in 1..onsets : released[n] # NotReleased => released'[n] = released[n]
  /\ onsets' >= onsets /\ onsets' \in Nat
  /\ (tpc' = "opened" /\ tpc # "opened") => onsets' > onsets
  /\ (tpc' = "opened" /\ tpc = "opened") => onsets' = onsets
  /\ write_head' = write_head

LEMMA OpenedKeeps ==
  ASSUME GateInv, NEW above \in BOOLEAN, NoteVadOpened(above, write_head),
         write_head' = write_head
  PROVE  GateInv' /\ GateKeeps
<1> USE GateAssumption, RingAssumption
<1>0. VadAfter(above) = [open |-> TRUE, n |-> 0] /\ ~vad.open
  <2>1. Opens(above) /\ ~Closes(above) /\ ~vad.open
    BY Zenon DEF NoteVadOpened, Opens, Closes
  <2> QED
    BY <2>1, Zenon DEF VadAfter
<1>1. /\ vad' = [open |-> TRUE, n |-> 0] /\ ~vad.open
      /\ onset' = write_head /\ flag' = FALSE /\ segment_open' = TRUE
      /\ onsets' = onsets + 1 /\ onsets < MaxOnsets /\ tpc = "rest" /\ tpc' = "opened"
      /\ tick' = tick /\ released' = released
  BY <1>0, Zenon DEF NoteVadOpened, FlagAtOnset
<1>2. vad'.open = TRUE
  BY <1>1, Zenon
<1>3. GateInv'
  <2>1. GateType'
    <3>1. vad' \in [open : BOOLEAN, n : Nat]
      BY <1>1, Zenon
    <3>2. released' \in [1..MaxOnsets -> Int]
      BY <1>1, Zenon DEF GateInv, GateType
    <3>3. onset' \in 0..write_head' /\ onsets' \in 0..MaxOnsets
      BY <1>1 DEF GateInv, GateType
    <3> QED
      BY Zenon, <1>1, <3>1, <3>2, <3>3 DEF GateInv, GateType
  <2>2. ReleasedInv'
    BY <1>1, <1>2 DEF GateInv, GateType, ReleasedInv
  <2>3. FlagInv'
    BY <1>1, <1>2, Zenon DEF FlagInv
  <2> QED
    BY <2>1, <2>2, <2>3, Zenon DEF GateInv
<1>4. GateKeeps
  <2>1. onsets \in Nat /\ onsets' = onsets + 1
    BY <1>1 DEF GateInv, GateType
  <2>2. ASSUME NEW n \in Nat, Delivered(n) PROVE Delivered(n)'
    BY <2>1, <2>2 DEF Delivered
  <2> QED
    BY <1>1, <2>1, <2>2 DEF GateKeeps
<1> QED
  BY <1>3, <1>4, Zenon

LEMMA ClosedKeeps ==
  ASSUME GateInv, NEW above \in BOOLEAN, NoteVadClosed(above, write_head),
         write_head' = write_head
  PROVE  GateInv' /\ GateKeeps
<1> USE GateAssumption, RingAssumption
<1>1. /\ vad' = [open |-> FALSE, n |-> 0] /\ vad.open
      /\ onset' = onset /\ flag' = TRUE /\ segment_open' = FALSE
      /\ onsets' = onsets /\ tpc = "rest" /\ tpc' = "closed"
      /\ tick' = tick /\ released' = [released EXCEPT ![onsets] = write_head]
  BY Zenon DEF NoteVadClosed, VadAfter, Opens, Closes
<1>2. onsets \in 1..MaxOnsets /\ released[onsets] = NotReleased
  BY <1>1 DEF GateInv, GateType, ReleasedInv
<1>3. /\ released' \in [1..MaxOnsets -> Int]
      /\ \A k \in 1..MaxOnsets : released'[k] = IF k = onsets THEN write_head ELSE released[k]
  BY <1>1, <1>2 DEF GateInv, GateType
<1>4. ~vad'.open
  BY <1>1, Zenon
<1>5. GateInv'
  <2>1. GateType'
    BY Zenon, <1>1, <1>3 DEF GateInv, GateType
  <2>2. ReleasedInv'
    BY <1>1, <1>2, <1>3, <1>4 DEF GateInv, GateType, ReleasedInv, NotReleased
  <2>3. FlagInv'
    BY <1>1, <1>2, <1>4 DEF FlagInv
  <2> QED
    BY <2>1, <2>2, <2>3, Zenon DEF GateInv
<1>6. GateKeeps
  <2>1. ASSUME NEW n \in Nat, Delivered(n) PROVE Delivered(n)'
    BY <1>1, <1>4, <2>1, Zenon DEF Delivered
  <2> QED
    BY <1>1, <1>2, <1>3, <2>1 DEF GateKeeps, GateInv, GateType
<1> QED
  BY <1>5, <1>6, Zenon

(* The other steps neither open nor release a gate. *)
LEMMA QuietKeeps ==
  ASSUME GateInv, vad' \in [open : BOOLEAN, n : Nat], vad'.open <=> vad.open,
         UNCHANGED <<onset, onsets, released, write_head>>,
         tick' \in 0..(DoaEveryN - 1),
         tpc' \in {"rest", "closed", "undo", "forward", "doa", "dead"},
         segment_open' \in BOOLEAN, flag' \in BOOLEAN,
         tpc # "opened" => segment_open' = segment_open,
         FlagInv'
  PROVE  GateInv' /\ GateKeeps
<1>1. GateType'
  BY Zenon DEF GateInv, GateType
<1>2. ReleasedInv'
  BY Zenon DEF GateInv, ReleasedInv
<1>3. ASSUME NEW n \in Nat, Delivered(n) PROVE Delivered(n)'
  BY <1>3, Zenon DEF Delivered
<1>4. onsets \in Nat
  BY GateAssumption DEF GateInv, GateType
<1>5. GateKeeps
  BY <1>3, <1>4 DEF GateKeeps
<1> QED
  BY <1>1, <1>2, <1>5, Zenon DEF GateInv

LEMMA EndsTickTypes ==
  ASSUME GateInv, NEW pc \in {"forward", "doa"}, EndsTick(pc)
  PROVE  /\ tick' \in 0..(DoaEveryN - 1)
         /\ tpc' \in {pc, "rest"}
<1>1. tick \in 0..(DoaEveryN - 1) /\ DoaEveryN \in Nat \ {0}
  BY GateAssumption, Zenon DEF GateInv, GateType
<1>2. (tick + 1) % DoaEveryN \in 0..(DoaEveryN - 1)
  BY <1>1
<1> QED
  BY <1>1, <1>2, Zenon DEF EndsTick

LEMMA UnchangedKeeps ==
  ASSUME GateInv, NEW above \in BOOLEAN, Unchanged(above), write_head' = write_head
  PROVE  GateInv' /\ GateKeeps
<1>0. PICK o \in BOOLEAN, n \in Nat : vad = [open |-> o, n |-> n]
  BY Zenon DEF GateInv, GateType
<1>1. vad' = [vad EXCEPT !.n = IF vad.open = above THEN 0 ELSE vad.n + 1]
  BY Zenon DEF Unchanged, VadAfter
<1>2. vad' = [open |-> o, n |-> IF o = above THEN 0 ELSE n + 1]
  BY <1>0, <1>1, Zenon
<1>3. vad' \in [open : BOOLEAN, n : Nat] /\ (vad'.open <=> vad.open)
  <2>1. (IF o = above THEN 0 ELSE n + 1) \in Nat
    OBVIOUS
  <2> QED
    BY <1>0, <1>2, <2>1, Zenon
<1>4. /\ UNCHANGED <<segment_open, onset, flag, onsets, released>>
      /\ tpc = "rest" /\ EndsTick("forward")
  BY Zenon DEF Unchanged
<1>5. tick' \in 0..(DoaEveryN - 1) /\ tpc' \in {"forward", "rest"}
  BY <1>4, EndsTickTypes, Zenon
<1>6. FlagInv'
  BY <1>3, <1>4, <1>5, Zenon DEF GateInv, FlagInv
<1> QED
  BY <1>3, <1>4, <1>5, <1>6, QuietKeeps, Zenon DEF GateInv, GateType

LEMMA OtherKeeps ==
  ASSUME GateInv, write_head' = write_head,
         \/ ReadFails \/ SendOpened \/ UndoOpened \/ SendClosed
         \/ ForwardEnergy \/ ForwardAzimuths \/ GateDies
  PROVE  GateInv' /\ GateKeeps
<1>0. UNCHANGED <<vad, onset, onsets, released>>
  BY Zenon DEF ReadFails, SendOpened, UndoOpened, SendClosed, ForwardEnergy,
         ForwardAzimuths, GateDies
<1>1. /\ vad' \in [open : BOOLEAN, n : Nat] /\ (vad'.open <=> vad.open)
      /\ tick \in 0..(DoaEveryN - 1) /\ DoaEveryN \in Nat \ {0}
      /\ segment_open \in BOOLEAN /\ flag \in BOOLEAN
  BY <1>0, GateAssumption, Zenon DEF GateInv, GateType
<1>2. CASE ReadFails
  <2>1. tpc = "rest" /\ UNCHANGED <<segment_open, flag>> /\ EndsTick("doa")
    BY <1>2, Zenon DEF ReadFails
  <2>2. tick' \in 0..(DoaEveryN - 1) /\ tpc' \in {"doa", "rest"}
    BY <2>1, EndsTickTypes, Zenon
  <2>3. FlagInv'
    BY <1>0, <2>1, <2>2, Zenon DEF GateInv, FlagInv
  <2> QED
    BY <1>0, <1>1, <2>1, <2>2, <2>3, QuietKeeps, Zenon
<1>3. CASE SendOpened
  <2>1. /\ tpc = "opened" /\ UNCHANGED <<tick, flag>> /\ segment_open' = HasRoom
        /\ tpc' = IF HasRoom THEN "forward" ELSE "undo"
    BY <1>3, Zenon DEF SendOpened
  <2>2. HasRoom \in BOOLEAN
    BY DEF HasRoom
  <2>3. FlagInv'
    BY <1>0, <2>1, <2>2, Zenon DEF GateInv, FlagInv
  <2>4. tpc' \in {"forward", "undo"} /\ segment_open' \in BOOLEAN
    BY <2>1, <2>2, Zenon
  <2> QED
    BY <1>0, <1>1, <2>1, <2>3, <2>4, QuietKeeps, Zenon
<1>4. CASE UndoOpened
  <2>1. tpc = "undo" /\ UNCHANGED segment_open /\ flag' = TRUE /\ EndsTick("forward")
    BY <1>4, Zenon DEF UndoOpened, FlagRestored
  <2>2. tick' \in 0..(DoaEveryN - 1) /\ tpc' \in {"forward", "rest"}
    BY <2>1, EndsTickTypes, Zenon
  <2>3. FlagInv'
    BY <1>0, <2>1, <2>2, Zenon DEF GateInv, FlagInv
  <2> QED
    BY <1>0, <1>1, <2>1, <2>2, <2>3, QuietKeeps, Zenon
<1>5. CASE SendClosed
  <2>1. tpc = "closed" /\ UNCHANGED <<segment_open, flag>> /\ EndsTick("forward")
    BY <1>5, Zenon DEF SendClosed
  <2>2. tick' \in 0..(DoaEveryN - 1) /\ tpc' \in {"forward", "rest"}
    BY <2>1, EndsTickTypes, Zenon
  <2>3. FlagInv'
    BY <1>0, <2>1, <2>2, Zenon DEF GateInv, FlagInv
  <2> QED
    BY <1>0, <1>1, <2>1, <2>2, <2>3, QuietKeeps, Zenon
<1>6. CASE ForwardEnergy \/ ForwardAzimuths \/ GateDies
  <2>1. /\ tpc \in {"forward", "doa", "rest"} /\ UNCHANGED <<segment_open, flag>>
        /\ tpc' \in {"doa", "rest", "dead"}
        /\ tick' = tick \/ tick' = (tick + 1) % DoaEveryN
    BY <1>6, Zenon DEF ForwardEnergy, ForwardAzimuths, GateDies
  <2>2. tick' \in 0..(DoaEveryN - 1)
    BY <1>1, <2>1
  <2>3. FlagInv'
    BY <1>0, <2>1, Zenon DEF GateInv, FlagInv
  <2> QED
    BY <1>0, <1>1, <2>1, <2>2, <2>3, QuietKeeps, Zenon
<1> QED
  BY <1>2, <1>3, <1>4, <1>5, <1>6, Zenon

(* What the telemetry thread sends, and what it finds in the channel when  *)
(* it does.                                                                *)
Offers(m) ==
  /\ m \in Message
  /\ m.type = "VadOpened" =>
       /\ Delivered(m.onset)' /\ m.onset = onsets /\ tpc = "opened"
       /\ m.write_head <= write_head
  /\ m.type = "VadClosed" => m.onset = onsets /\ onsets > 0 /\ released[onsets] # NotReleased

LEMMA ChanKept ==
  ASSUME IInv, GateKeeps, UNCHANGED <<seg, segment_counter, chan>>
  PROVE  ChanInv'
<1>0. onsets \in Nat /\ onsets' \in Nat /\ onsets <= onsets' /\ write_head' = write_head
  BY GateAssumption DEF IInv, GateInv, GateType, GateKeeps
<1>1. \A i \in 1..Len(chan) : chan[i].type = "VadOpened" => Delivered(chan[i].onset)'
  <2> SUFFICES ASSUME NEW i \in 1..Len(chan), chan[i].type = "VadOpened"
               PROVE  Delivered(chan[i].onset)'
    OBVIOUS
  <2>1. Delivered(chan[i].onset)
    BY Zenon DEF IInv, ChanInv
  <2>2. chan[i].onset \in Nat
    BY <2>1, <1>0 DEF Delivered
  <2> QED
    BY <2>1, <2>2, Zenon DEF GateKeeps
<1>2. \A i \in 1..Len(chan) : chan[i].type = "VadClosed" =>
        chan[i].onset \in 1..onsets' /\ released'[chan[i].onset] # NotReleased
  BY <1>0 DEF IInv, ChanInv, GateKeeps
<1> QED
  BY <1>0, <1>1, <1>2, Zenon DEF IInv, ChanInv

LEMMA ChanAppended ==
  ASSUME IInv, GateKeeps, UNCHANGED <<seg, segment_counter>>,
         NEW m, Offers(m), HasRoom, chan' = Append(chan, m), onsets' = onsets,
         released' = released
  PROVE  ChanInv'
<1>0. /\ onsets \in Nat /\ write_head' = write_head
      /\ segment_counter \in 0..onsets /\ (tpc = "opened" => segment_counter < onsets)
      /\ chan \in Seq(Message) /\ Len(chan) < ChanCap /\ Len(chan) \in Nat /\ ChanCap \in Nat
      /\ m \in Message
  BY GateAssumption DEF IInv, GateInv, GateType, GateKeeps, SegInv, ChanInv, HasRoom, Offers
<1>1. /\ chan' \in Seq(Message) /\ Len(chan') = Len(chan) + 1
      /\ \A i \in 1..Len(chan) : chan'[i] = chan[i]
      /\ chan'[Len(chan) + 1] = m
  BY <1>0
<1>2. seg.onset \in Nat /\ seg.onset <= onsets /\ (tpc = "opened" => seg.onset < onsets)
  <2>1. CASE AtRest
    BY <1>0, <2>1 DEF IInv, SegInv, NoSegment, GateInv, FlagInv, GateType, ReleasedInv
  <2>2. CASE ~AtRest
    BY <1>0, <2>2 DEF IInv, SegInv, Delivered
  <2> QED
    BY <2>1, <2>2, Zenon
<1>3. \A i \in 1..Len(chan) : chan[i].type = "VadOpened" =>
        /\ Delivered(chan[i].onset)' /\ chan[i].onset \in 1..onsets
        /\ tpc = "opened" => chan[i].onset < onsets
  <2> SUFFICES ASSUME NEW i \in 1..Len(chan), chan[i].type = "VadOpened"
               PROVE  /\ Delivered(chan[i].onset)' /\ chan[i].onset \in 1..onsets
                      /\ tpc = "opened" => chan[i].onset < onsets
    OBVIOUS
  <2>1. Delivered(chan[i].onset)
    BY Zenon DEF IInv, ChanInv
  <2>2. chan[i].onset \in Nat
    BY <2>1, <1>0 DEF Delivered
  <2> QED
    BY <1>0, <2>1, <2>2 DEF GateKeeps, Delivered
<1>4. ASSUME NEW i \in 1..Len(chan'), chan'[i].type = "VadOpened"
      PROVE  /\ Delivered(chan[i].onset)'
             /\ segment_counter < chan'[i].onset
             /\ seg.onset < chan'[i].onset
             /\ chan'[i].write_head <= write_head
  <2>1. CASE i \in 1..Len(chan)
    <3>1. chan'[i] = chan[i] /\ chan[i].type = "VadOpened"
      BY <1>1, <1>4, <2>1, Zenon
    <3>2. Delivered(chan[i].onset)'
      BY <1>3, <2>1, <3>1, Zenon
    <3> QED
      BY <2>1, <3>1, <3>2, Zenon DEF IInv, ChanInv
  <2>2. CASE i = Len(chan) + 1
    <3>1. chan'[i] = m /\ m.type = "VadOpened"
      BY <1>1, <1>4, <2>2, Zenon
    <3>2. Delivered(m.onset)'
      BY <3>1, Zenon DEF Offers
    <3>3. Delivered(chan[i].onset)'
      BY ONLY <3>1, <3>2, Zenon DEF Delivered
    <3> QED
      BY <1>0, <1>2, <3>1, <3>3, Zenon DEF Offers
  <2> QED
    BY <1>0, <1>1, <2>1, <2>2
<1>5. ASSUME NEW i \in 1..Len(chan'), chan'[i].type = "VadClosed"
      PROVE  /\ chan'[i].onset \in 1..onsets
             /\ released[chan'[i].onset] # NotReleased
             /\ seg.onset <= chan'[i].onset
  <2>1. CASE i \in 1..Len(chan)
    <3>1. chan'[i] = chan[i] /\ chan[i].type = "VadClosed"
      BY <1>1, <1>5, <2>1, Zenon
    <3> QED
      BY <2>1, <3>1, Zenon DEF IInv, ChanInv
  <2>2. CASE i = Len(chan) + 1
    <3>1. chan'[i] = m /\ m.type = "VadClosed"
      BY <1>1, <1>5, <2>2, Zenon
    <3> QED
      BY <1>0, <1>2, <3>1 DEF Offers
  <2> QED
    BY <1>0, <1>1, <2>1, <2>2
<1>6. ASSUME NEW i \in 1..Len(chan'), NEW j \in 1..Len(chan'),
             i < j, chan'[i].type = "VadOpened"
      PROVE  /\ chan'[j].type = "VadOpened" => chan'[i].onset < chan'[j].onset
             /\ chan'[j].type = "VadClosed" => chan'[i].onset <= chan'[j].onset
  <2>0. i \in 1..Len(chan) /\ chan'[i] = chan[i]
    BY <1>0, <1>1, <1>6
  <2>1. CASE j \in 1..Len(chan)
    BY <1>1, <1>6, <2>0, <2>1, Zenon DEF IInv, ChanInv
  <2>2. CASE j = Len(chan) + 1
    BY <1>0, <1>1, <1>3, <1>6, <2>0, <2>2 DEF Offers
  <2> QED
    BY <1>0, <1>1, <2>1, <2>2
<1>7. Len(chan') <= ChanCap
  BY <1>0, <1>1
<1>8. UNCHANGED <<write_head, onsets, released, seg, segment_counter>>
  BY <1>0, Zenon
<1> QED
  BY ONLY <1>1, <1>4, <1>5, <1>6, <1>7, <1>8, Zenon DEF ChanInv

LEMMA SegKept ==
  ASSUME IInv, GateKeeps, UNCHANGED streamer
  PROVE  SegInv' /\ WireInv'
<1>0. UNCHANGED <<spc, link, fresh, segment_counter, seg, sess, half, faults>>
  BY Zenon DEF streamer
<1>1. WireInv'
  BY <1>0, Zenon DEF IInv, WireInv, InSegment, OutboundInv
<1>2. /\ onsets \in Nat /\ onsets' \in Nat /\ onsets <= onsets' /\ write_head' = write_head
      /\ segment_counter \in 0..onsets /\ seg \in SegFields /\ seg.onset \in Nat
  BY GateAssumption DEF IInv, GateInv, GateType, GateKeeps, SegInv, SegFields
<1>3. seg' \in SegFields'
  BY <1>0, <1>2, Zenon DEF SegFields
<1>4. ~AtRest => Delivered(seg.onset) /\ Delivered(seg.onset)' /\ seg.onset \in 1..onsets
  <2> SUFFICES ASSUME ~AtRest
               PROVE  Delivered(seg.onset) /\ Delivered(seg.onset)' /\ seg.onset \in 1..onsets
    OBVIOUS
  <2>1. Delivered(seg.onset)
    BY Zenon DEF IInv, SegInv
  <2> DEFINE n == seg.onset
  <2>2. n' = n
    BY <1>0, Zenon
  <2>3. \A k \in Nat : Delivered(k) => Delivered(k)'
    BY Zenon DEF GateKeeps
  <2>4. Delivered(seg.onset)'
    BY <1>0, <1>2, <2>1, <2>3, Zenon DEF Delivered
  <2> QED
    BY <2>1, <2>4, Zenon DEF Delivered
<1>5. tpc' = "opened" => segment_counter < onsets'
  BY <1>2 DEF GateKeeps, IInv, SegInv
<1>6. seg.vad_closed =>
        seg.onset \in 1..onsets /\ released[seg.onset] # NotReleased
                                /\ released'[seg.onset] = released[seg.onset]
  <2> SUFFICES ASSUME seg.vad_closed
               PROVE  seg.onset \in 1..onsets /\ released[seg.onset] # NotReleased
                                /\ released'[seg.onset] = released[seg.onset]
    OBVIOUS
  <2>1. ~AtRest
    BY DEF IInv, SegInv, NoSegment
  <2>2. seg.onset \in 1..onsets /\ released[seg.onset] # NotReleased
    BY <1>4, <2>1, Zenon DEF IInv, SegInv
  <2> QED
    BY <2>2, Zenon DEF GateKeeps
<1>7. AtRest' <=> AtRest
  BY <1>0, Zenon DEF AtRest
<1>8. SegInv'
  BY <1>0, <1>2, <1>3, <1>4, <1>5, <1>6, <1>7 DEF IInv, SegInv
<1> QED
  BY <1>1, <1>8, Zenon

LEMMA TelemeterPreserves ==
  ASSUME IInv, Telemeter
  PROVE  IInv'
<1>0. UNCHANGED <<write_head, spc, link, fresh, segment_counter, seg, sess, half, out, faults>>
  BY Zenon DEF Telemeter, streamer
<1>1. GateInv
  BY Zenon DEF IInv
<1>2. UNCHANGED streamer
  BY <1>0, Zenon DEF streamer
<1>3. CASE \E above \in BOOLEAN : NoteVadOpened(above, write_head)
  <2>1. GateInv' /\ GateKeeps /\ chan' = chan
    BY <1>0, <1>1, <1>3, OpenedKeeps, Zenon DEF NoteVadOpened
  <2> QED
    BY <1>0, <1>2, <2>1, ChanKept, SegKept, Zenon DEF IInv
<1>4. CASE \E above \in BOOLEAN : NoteVadClosed(above, write_head)
  <2>1. GateInv' /\ GateKeeps /\ chan' = chan
    BY Zenon, <1>0, <1>1, <1>4, ClosedKeeps DEF NoteVadClosed
  <2> QED
    BY <1>0, <1>2, <2>1, ChanKept, SegKept, Zenon DEF IInv
<1>5. CASE \E above \in BOOLEAN : Unchanged(above)
  <2>1. GateInv' /\ GateKeeps /\ chan' = chan
    BY <1>0, <1>1, <1>5, UnchangedKeeps, Zenon DEF Unchanged
  <2> QED
    BY <1>0, <1>2, <2>1, ChanKept, SegKept, Zenon DEF IInv
<1>6. CASE \/ ReadFails \/ SendOpened \/ UndoOpened \/ SendClosed
           \/ ForwardEnergy \/ ForwardAzimuths \/ GateDies
  <2>1. GateInv' /\ GateKeeps
    BY <1>0, <1>1, <1>6, OtherKeeps, Zenon
  <2>2. onsets' = onsets /\ released' = released
    BY <1>6, Zenon DEF ReadFails, SendOpened, UndoOpened, SendClosed, ForwardEnergy,
                ForwardAzimuths, GateDies
  <2>3. CASE chan' = chan
    BY <1>0, <1>2, <2>1, <2>3, ChanKept, SegKept, Zenon DEF IInv
  <2>4. ASSUME NEW m, TrySend(m), HasRoom => Offers(m) PROVE ChanInv'
    <3>1. CASE HasRoom
      <4>1. chan' = Append(chan, m)
        BY <2>4, <3>1, Zenon DEF TrySend
      <4> QED
        BY <1>0, <2>1, <2>2, <2>4, <3>1, <4>1, ChanAppended, Zenon
    <3>2. CASE ~HasRoom
      <4>1. chan' = chan
        BY <2>4, <3>2, Zenon DEF TrySend
      <4> QED
        BY <1>0, <2>1, <4>1, ChanKept, Zenon
    <3> QED
      BY <3>1, <3>2, Zenon
  <2>5. CASE TrySend(Telemetry)
    <3>1. Offers(Telemetry)
      BY Zenon DEF Offers, Telemetry, Message
    <3> QED
      BY <1>2, <2>1, <2>4, <2>5, <3>1, SegKept, Zenon DEF IInv
  <2>6. CASE SendClosed
    <3>1. tpc = "closed" /\ onsets \in Nat /\ TrySend(VadClosed(onsets))
      BY <1>1, <2>6, GateAssumption DEF SendClosed, GateInv, GateType
    <3>2. onsets > 0 /\ released[onsets] # NotReleased
      BY <1>1, <3>1, Zenon DEF GateInv, FlagInv, ReleasedInv
    <3>3. PICK m : m = VadClosed(onsets)
      OBVIOUS
    <3>4. Offers(m)
      BY <3>1, <3>2, <3>3, Zenon DEF Offers, VadClosed, Message
    <3>5. TrySend(m)
      BY <3>1, <3>3, Zenon DEF TrySend
    <3> QED
      BY <1>2, <2>1, <2>4, <3>4, <3>5, SegKept, Zenon DEF IInv
  <2>7. CASE SendOpened
    <3>1. /\ tpc = "opened" /\ onsets \in Nat /\ onsets > 0 /\ onset \in 0..write_head
          /\ write_head \in Nat /\ TrySend(VadOpened(onset, onsets))
      BY <1>1, <2>7, GateAssumption, RingAssumption
         DEF SendOpened, GateInv, GateType, FlagInv, ReleasedInv
    <3>2. HasRoom => tpc' = "forward" /\ segment_open' = TRUE
      BY <2>7, Zenon DEF SendOpened
    <3>3. PICK m : m = VadOpened(onset, onsets)
      OBVIOUS
    <3>4. m \in Message /\ m.type = "VadOpened" /\ m.onset = onsets /\ m.write_head = onset
      BY <3>1, <3>3 DEF VadOpened, Message
    <3>5. ASSUME HasRoom PROVE Offers(m)
      <4>1. Delivered(m.onset)'
        BY <2>2, <3>1, <3>2, <3>4, <3>5 DEF Delivered
      <4> QED
        BY <3>1, <3>4, <4>1 DEF Offers
    <3>6. TrySend(m)
      BY <3>1, <3>3, Zenon DEF TrySend
    <3> QED
      BY <1>2, <2>1, <2>4, <3>5, <3>6, SegKept, Zenon DEF IInv
  <2> QED
    BY <1>6, <2>3, <2>5, <2>6, <2>7, Zenon DEF ReadFails, UndoOpened, ForwardEnergy, ForwardAzimuths,
       GateDies
<1> QED
  BY <1>3, <1>4, <1>5, <1>6, Zenon DEF Telemeter, GateStep

-----------------------------------------------------------------------------
(* The capture thread only makes the head grow. *)

LEMMA CapturePreserves ==
  ASSUME IInv, Capture
  PROVE  IInv'
<1>0. PICK k \in 1..MaxChunk : CaptureChunk(k)
  BY Zenon DEF Capture
<1>1. UNCHANGED <<vad, segment_open, tick, tpc, onset, onsets, released, flag, chan,
                  spc, link, fresh, segment_counter, seg, sess, half, faults>>
  BY Zenon DEF Capture, gate, streamer
<1>2. write_head \in Nat /\ write_head' \in 0..MaxHead /\ write_head <= write_head'
  BY <1>0, RingAssumption DEF CaptureChunk, IInv, GateInv, GateType
<1>3. GateInv'
  <2>1. GateType'
    BY <1>1, <1>2 DEF IInv, GateInv, GateType
  <2>2. ReleasedInv'
    BY <1>1, <1>2 DEF IInv, GateInv, ReleasedInv
  <2>3. FlagInv'
    BY <1>1, Zenon DEF IInv, GateInv, FlagInv
  <2> QED
    BY <2>1, <2>2, <2>3, Zenon DEF GateInv
<1>4. \A n : Delivered(n) => Delivered(n)'
  BY <1>1, Zenon DEF Delivered
<1>5. ChanInv'
  <2>1. ASSUME NEW i \in 1..Len(chan), chan[i].type = "VadOpened"
        PROVE  Delivered(chan[i].onset)' /\ chan[i].write_head <= write_head'
    <3>1. Delivered(chan[i].onset) /\ chan[i].write_head <= write_head
      BY <2>1, Zenon DEF IInv, ChanInv
    <3>2. chan[i] \in Message
      BY DEF IInv, ChanInv
    <3>3. chan[i].write_head \in Nat
      BY <2>1, <3>2 DEF Message, Telemetry
    <3> QED
      BY <1>1, <1>2, <3>1, <3>3 DEF Delivered
  <2> QED
    BY <1>1, <2>1, Zenon DEF IInv, ChanInv
<1>6. SegInv'
  <2>1. seg \in SegFields /\ seg.read_cursor \in Nat /\ seg.planned \in Nat
        /\ seg.vad_write_head \in Nat
    BY Zenon DEF IInv, SegInv, SegFields
  <2>2. seg' \in SegFields'
    BY <1>1, <2>1, Zenon DEF SegFields
  <2>3. ~AtRest => Delivered(seg.onset)'
    BY <1>1, Zenon DEF IInv, SegInv, Delivered
  <2> QED
    BY <1>1, <1>2, <2>1, <2>2, <2>3 DEF IInv, SegInv, AtRest
<1>7. WireInv'
  BY <1>1, Zenon DEF IInv, WireInv, InSegment, OutboundInv
<1> QED
  BY <1>3, <1>5, <1>6, <1>7, Zenon DEF IInv

-----------------------------------------------------------------------------
(* The streamer's own steps leave the telemetry thread's state and the     *)
(* ring's head alone.                                                      *)

Quiet == UNCHANGED <<vad, segment_open, tick, tpc, onset, onsets, released, flag, write_head>>

LEMMA QuietGate ==
  ASSUME IInv, Quiet
  PROVE  GateInv' /\ (\A n : Delivered(n) => Delivered(n)')
  BY Zenon DEF Quiet, IInv, GateInv, GateType, ReleasedInv, FlagInv, Delivered

LEMMA ChanStays ==
  ASSUME IInv, Quiet, UNCHANGED <<chan, segment_counter>>, seg'.onset \in {seg.onset, 0}
  PROVE  ChanInv'
<1>0. seg.onset \in Nat /\ seg'.onset \in Nat /\ seg'.onset <= seg.onset
  BY DEF IInv, SegInv, SegFields
<1>1. ASSUME NEW i \in 1..Len(chan), chan[i].type = "VadOpened"
      PROVE  Delivered(chan[i].onset)' /\ seg'.onset < chan[i].onset
  <2>1. Delivered(chan[i].onset) /\ seg.onset < chan[i].onset
    BY <1>1, Zenon DEF IInv, ChanInv
  <2>2. chan[i].onset \in Int
    BY <2>1, GateAssumption DEF Delivered, IInv, GateInv, GateType
  <2> QED
    BY <1>0, <2>1, <2>2 DEF Delivered, Quiet
<1>2. ASSUME NEW i \in 1..Len(chan), chan[i].type = "VadClosed"
      PROVE  seg'.onset <= chan[i].onset
  <2>1. chan[i].onset \in 1..onsets /\ seg.onset <= chan[i].onset
    BY <1>2, Zenon DEF IInv, ChanInv
  <2> QED
    BY <1>0, <2>1, GateAssumption DEF IInv, GateInv, GateType
<1> QED
  BY <1>1, <1>2, Zenon DEF IInv, ChanInv, Quiet

LEMMA HeadAndTail ==
  ASSUME NEW s \in Seq(Message), s # <<>>
  PROVE  /\ Len(s) \in Nat /\ Len(s) >= 1 /\ 1 \in 1..Len(s)
         /\ Head(s) = s[1] /\ Head(s) \in Message
         /\ Tail(s) \in Seq(Message) /\ Len(Tail(s)) = Len(s) - 1
         /\ \A i \in 1..Len(Tail(s)) : i + 1 \in 1..Len(s) /\ Tail(s)[i] = s[i + 1]
  OBVIOUS

LEMMA ChanTaken ==
  ASSUME IInv, Quiet, chan # <<>>, chan' = Tail(chan), UNCHANGED segment_counter,
         \/ seg'.onset = seg.onset
         \/ Head(chan).type = "VadOpened" /\ seg'.onset = Head(chan).onset
  PROVE  ChanInv'
<1>1. /\ chan \in Seq(Message) /\ Len(chan) \in Nat /\ Len(chan) >= 1
      /\ chan' \in Seq(Message) /\ Len(chan') = Len(chan) - 1
      /\ \A i \in 1..Len(chan') : i + 1 \in 1..Len(chan) /\ chan'[i] = chan[i + 1]
      /\ Head(chan) = chan[1] /\ 1 \in 1..Len(chan)
  <2>1. chan \in Seq(Message)
    BY Zenon DEF IInv, ChanInv
  <2> QED
    BY <2>1, HeadAndTail, Zenon
<1>2. ASSUME NEW i \in 1..Len(chan'), chan'[i].type = "VadOpened"
      PROVE  /\ Delivered(chan[i].onset)'
             /\ segment_counter' < chan'[i].onset
             /\ seg'.onset < chan'[i].onset
             /\ chan'[i].write_head <= write_head'
  <2>1. chan'[i] = chan[i + 1] /\ i + 1 \in 1..Len(chan) /\ chan[i + 1].type = "VadOpened"
    BY <1>1, <1>2, Zenon
  <2>2. /\ Delivered(chan[i + 1].onset) /\ segment_counter < chan[i + 1].onset
        /\ seg.onset < chan[i + 1].onset /\ chan[i + 1].write_head <= write_head
    BY <2>1, Zenon DEF IInv, ChanInv
  <2>3. Head(chan).type = "VadOpened" => Head(chan).onset < chan[i + 1].onset
    <3>1. 1 < i + 1
      BY <1>1
    <3> QED
      BY <1>1, <2>1, <3>1, Zenon DEF IInv, ChanInv
  <2>4. Delivered(chan[i].onset)'
    BY <2>1, <2>2, Zenon DEF Delivered, Quiet
  <2> QED
    BY <2>1, <2>2, <2>3, <2>4, Zenon DEF Quiet
<1>3. ASSUME NEW i \in 1..Len(chan'), chan'[i].type = "VadClosed"
      PROVE  /\ chan'[i].onset \in 1..onsets'
             /\ released'[chan'[i].onset] # NotReleased
             /\ seg'.onset <= chan'[i].onset
  <2>1. chan'[i] = chan[i + 1] /\ i + 1 \in 1..Len(chan) /\ chan[i + 1].type = "VadClosed"
    BY <1>1, <1>3, Zenon
  <2>2. /\ chan[i + 1].onset \in 1..onsets /\ released[chan[i + 1].onset] # NotReleased
        /\ seg.onset <= chan[i + 1].onset
    BY <2>1, Zenon DEF IInv, ChanInv
  <2>3. Head(chan).type = "VadOpened" => Head(chan).onset <= chan[i + 1].onset
    <3>1. 1 < i + 1
      BY <1>1
    <3> QED
      BY <1>1, <2>1, <3>1, Zenon DEF IInv, ChanInv
  <2> QED
    BY <2>1, <2>2, <2>3, Zenon DEF Quiet
<1>4. ASSUME NEW i \in 1..Len(chan'), NEW j \in 1..Len(chan'),
             i < j, chan'[i].type = "VadOpened"
      PROVE  /\ chan'[j].type = "VadOpened" => chan'[i].onset < chan'[j].onset
             /\ chan'[j].type = "VadClosed" => chan'[i].onset <= chan'[j].onset
  <2>1. /\ chan'[i] = chan[i + 1] /\ i + 1 \in 1..Len(chan)
        /\ chan'[j] = chan[j + 1] /\ j + 1 \in 1..Len(chan) /\ i + 1 < j + 1
    BY <1>1, <1>4
  <2> QED
    BY <1>4, <2>1, Zenon DEF IInv, ChanInv
<1>5. Len(chan') <= ChanCap
  BY <1>1, GateAssumption DEF IInv, ChanInv
<1> QED
  BY ONLY <1>1, <1>2, <1>3, <1>4, <1>5, Zenon DEF ChanInv

(* A connection made, lost or left alone. *)
LinkSound ==
  /\ link' \in BOOLEAN /\ sess' \in Session /\ (link' <=> sess'.phase # "none")
  /\ sess'.id < segment_counter /\ sess'.count <= sess'.next

(* With no frame in hand the connection stands at the cursor. *)
LEMMA EmptyHanded ==
  ASSUME IInv, InSegment, seg.outbound = NoFrame
  PROVE  ~seg.wrote /\ half = NoFrame /\ seg.read_cursor = sess.next
<1>1. OutboundInv /\ ~seg.wrote /\ half = NoFrame
  BY Zenon DEF IInv, WireInv
<1>2. \A i, n, r : NoFrame # Wire!SegmentEnd(i, n, r)
  BY Zenon DEF NoFrame, Wire!NoFrame, Wire!SegmentEnd
<1>3. \A i, n, p : NoFrame # Wire!Audio(i, n, p)
  BY Zenon DEF NoFrame, Wire!NoFrame, Wire!Audio
<1> QED
  BY <1>1, <1>2, <1>3, Zenon DEF OutboundInv

LEMMA ConnectSound ==
  ASSUME IInv, Connect
  PROVE  /\ LinkSound /\ link' = TRUE /\ half' = NoFrame
         /\ sess'.phase = "idle" /\ sess'.id = sess.id
<1>1. PICK p \in {"none", "idle", "open"}, i \in Int, n \in Nat, c \in Nat :
        sess = [phase |-> p, id |-> i, next |-> n, count |-> c]
  BY Zenon DEF IInv, WireInv, Session
<1>2. sess' = [phase |-> "idle", id |-> i, next |-> n, count |-> c]
  BY <1>1, Zenon DEF Connect
<1>3. link' = TRUE /\ half' = NoFrame
  BY Zenon DEF Connect
<1>4. sess' \in Session
  BY <1>2, Zenon DEF Session
<1>5. sess'.phase = "idle" /\ sess'.id = sess.id /\ sess'.next = sess.next /\ sess'.count = sess.count
  BY <1>1, <1>2, Zenon
<1> QED
  BY <1>3, <1>4, <1>5, Zenon DEF LinkSound, IInv, WireInv

LEMMA LostSound ==
  ASSUME IInv, NoteSocketLost
  PROVE  /\ LinkSound /\ link' = FALSE /\ half' = NoFrame
         /\ sess'.phase = "none" /\ sess'.id = sess.id
<1>1. PICK p \in {"none", "idle", "open"}, i \in Int, n \in Nat, c \in Nat :
        sess = [phase |-> p, id |-> i, next |-> n, count |-> c]
  BY Zenon DEF IInv, WireInv, Session
<1>2. sess' = [phase |-> "none", id |-> i, next |-> n, count |-> c]
  BY <1>1, Zenon DEF NoteSocketLost
<1>3. link' = FALSE /\ half' = NoFrame
  BY Zenon DEF NoteSocketLost
<1>4. sess' \in Session
  BY <1>2, Zenon DEF Session
<1>5. sess'.phase = "none" /\ sess'.id = sess.id /\ sess'.next = sess.next /\ sess'.count = sess.count
  BY <1>1, <1>2, Zenon
<1> QED
  BY Zenon, <1>3, <1>4, <1>5 DEF LinkSound, IInv, WireInv

LEMMA KeptSound ==
  ASSUME IInv, LinkKept
  PROVE  LinkSound /\ sess' = sess /\ link' = link /\ half' = half
  BY Zenon DEF LinkKept, LinkSound, IInv, WireInv


(* Whatever becomes of the connection, the thread that gives a segment up  *)
(* is back where it started.                                               *)
LEMMA BackPreserves ==
  ASSUME IInv, Quiet, BackToIdle, UNCHANGED <<chan, segment_counter, faults>>,
         LinkSound, half' = NoFrame
  PROVE  IInv'
<1>1. spc' = "idle" /\ seg' = NoSegment /\ fresh' = FALSE
  BY Zenon DEF BackToIdle
<1>2. GateInv'
  BY QuietGate, Zenon
<1>3. ChanInv'
  BY <1>1, ChanStays, Zenon DEF NoSegment
<1>4. SegInv'
  <2>1. seg' \in SegFields' /\ AtRest'
    BY <1>1, Zenon DEF SegFields, NoSegment, AtRest, NoEnd
  <2>2. /\ segment_counter' \in 0..onsets' /\ (tpc' = "opened" => segment_counter' < onsets')
        /\ 0 <= write_head'
    BY RingAssumption DEF IInv, SegInv, Quiet, GateInv, GateType
  <2>3. /\ seg'.read_cursor = 0 /\ seg'.pending = 0 /\ seg'.planned = 0
        /\ seg'.vad_closed = FALSE /\ seg'.segment_end = "none"
    BY <1>1, Zenon DEF NoSegment, NoEnd
  <2> QED
    BY <1>1, <2>1, <2>2, <2>3, StreamerAssumption DEF SegInv
<1>5. WireInv'
  <2>1. seg'.outbound = NoFrame /\ ~seg'.wrote /\ seg'.samples_sent = 0
    BY <1>1, Zenon DEF NoSegment
  <2>2. ~InSegment'
    BY <1>1, Zenon DEF InSegment
  <2>3. faults' \in 0..MaxFaults /\ fresh' \in BOOLEAN
    BY Zenon, <1>1 DEF IInv, WireInv
  <2> QED
    BY <1>1, <2>1, <2>2, <2>3, Zenon DEF WireInv, LinkSound
<1> QED
  BY <1>2, <1>3, <1>4, <1>5, Zenon DEF IInv

(* The flag speaks of the segment that reads it. *)
LEMMA FlagMeansReleased ==
  ASSUME IInv, flag, ~AtRest
  PROVE  released[seg.onset] # NotReleased
<1>1. Delivered(seg.onset) /\ ~segment_open
  BY Zenon DEF IInv, SegInv, GateInv, FlagInv
<1>2. onsets \in 0..MaxOnsets /\ MaxOnsets \in Nat
  BY GateAssumption, Zenon DEF IInv, GateInv, GateType
<1>3. CASE seg.onset = onsets
  BY <1>1, <1>2, <1>3 DEF Delivered, IInv, GateInv, ReleasedInv
<1>4. CASE seg.onset < onsets
  BY <1>1, <1>2, <1>4 DEF Delivered, IInv, GateInv, ReleasedInv
<1> QED
  BY <1>1, <1>2, <1>3, <1>4 DEF Delivered

(* A step within an utterance that does not move the cursor. *)
LEMMA SegStep ==
  ASSUME IInv, Quiet, UNCHANGED segment_counter, ~AtRest,
         spc' \in {"start", "reconnect", "drain", "flag", "select", "write", "watch"},
         seg' \in SegFields', seg'.onset = seg.onset,
         seg'.read_cursor = seg.read_cursor,
         seg'.pending <= PendingCap, seg'.planned <= FrameSamples,
         seg.vad_closed => seg'.vad_closed,
         seg'.vad_closed => released[seg.onset] # NotReleased,
         seg'.segment_end = "VadRelease" => seg.segment_end = "VadRelease"
  PROVE  SegInv'
<1>1. ~AtRest' /\ Delivered(seg.onset)'
  BY Zenon DEF AtRest, IInv, SegInv, Delivered, Quiet
<1>2. /\ segment_counter' \in 0..onsets' /\ (tpc' = "opened" => segment_counter' < onsets')
      /\ seg'.read_cursor <= write_head'
  BY Zenon DEF IInv, SegInv, Quiet
<1>3. seg'.segment_end = "VadRelease" => seg'.vad_closed /\ seg'.read_cursor >= released'[seg'.onset]
  BY Zenon DEF IInv, SegInv, Quiet
<1>4. released'[seg'.onset] = released[seg.onset]
  BY Zenon DEF Quiet
<1> QED
  BY <1>1, <1>2, <1>3, <1>4, Zenon DEF SegInv

(* A step of run_segment that writes nothing and takes no frame in hand. *)
LEMMA WireStays ==
  ASSUME IInv, LinkKept, UNCHANGED <<segment_counter, faults, fresh>>, InSegment,
         spc' \in {"drain", "flag", "select", "copy", "write", "watch"},
         seg'.segment_id = seg.segment_id, seg'.samples_sent = seg.samples_sent,
         seg'.read_cursor = seg.read_cursor, seg'.outbound = seg.outbound,
         seg'.wrote = seg.wrote,
         spc' \in {"select", "copy"} => seg.outbound = NoFrame,
         spc' = "write" => seg.outbound # NoFrame
  PROVE  WireInv'
<1>1. InSegment' /\ UNCHANGED <<sess, half, link>>
  BY Zenon DEF InSegment, LinkKept
<1>2. OutboundInv'
  BY <1>1, Zenon DEF IInv, WireInv, OutboundInv
<1>3. spc' \notin {"start", "reconnect"}
  OBVIOUS
<1> QED
  BY <1>1, <1>2, <1>3, Zenon DEF IInv, WireInv

(* Putting a step within an utterance together. *)
LEMMA StepPreserves ==
  ASSUME IInv, Quiet, ChanInv', SegInv', WireInv'
  PROVE  IInv'
  BY QuietGate, Zenon DEF IInv

LEMMA QuietStep ==
  ASSUME UNCHANGED <<gate, flag, write_head>>
  PROVE  Quiet
  BY Zenon DEF Quiet, gate

-----------------------------------------------------------------------------
(* run_segment, step by step *)

LEMMA DrainMsgPreserves ==
  ASSUME IInv, DrainMsg
  PROVE  IInv'
<1>0. /\ Quiet /\ LinkKept /\ spc = "drain" /\ chan # <<>> /\ chan' = Tail(chan)
      /\ UNCHANGED <<spc, fresh, segment_counter, faults>>
  BY QuietStep, Zenon DEF DrainMsg
<1>1. InSegment /\ ~AtRest /\ spc' = "drain"
  BY <1>0, Zenon DEF InSegment, AtRest
<1>2. chan \in Seq(Message) /\ Head(chan) = chan[1] /\ 1 \in 1..Len(chan) /\ Head(chan) \in Message
  <2>1. chan \in Seq(Message)
    BY Zenon DEF IInv, ChanInv
  <2> QED
    BY <1>0, <2>1, HeadAndTail, Zenon
<1>3. seg \in SegFields /\ PendingCap \in Nat /\ seg.pending <= PendingCap /\ seg.planned <= FrameSamples
  BY StreamerAssumption, Zenon DEF IInv, SegInv
<1>4. Head(chan).type \in {"Telemetry", "VadClosed", "VadOpened"}
  BY <1>2 DEF Message, Telemetry
<1>5. /\ seg' \in SegFields' /\ seg'.onset = seg.onset
      /\ seg'.read_cursor = seg.read_cursor /\ seg'.planned = seg.planned
      /\ seg'.pending <= PendingCap
      /\ seg.vad_closed => seg'.vad_closed
      /\ seg'.vad_closed => seg.vad_closed \/ Head(chan).type = "VadClosed"
      /\ seg'.segment_end = seg.segment_end
      /\ seg'.segment_id = seg.segment_id /\ seg'.samples_sent = seg.samples_sent
      /\ seg'.outbound = seg.outbound /\ seg'.wrote = seg.wrote
  <2>1. CASE Head(chan).type = "Telemetry"
    <3>1. seg' = [seg EXCEPT !.pending = PendingAfter(@)]
      BY <2>1, Zenon DEF DrainMsg
    <3>2. PendingAfter(seg.pending) \in Nat /\ PendingAfter(seg.pending) <= PendingCap
      BY <1>3 DEF PendingAfter, SegFields
    <3> QED
      BY <1>3, <3>1, <3>2, Zenon DEF SegFields
  <2>2. CASE Head(chan).type = "VadClosed"
    <3>1. seg' = [seg EXCEPT !.vad_closed = TRUE]
      BY <2>2, Zenon DEF DrainMsg
    <3> QED
      BY Zenon, <1>3, <2>2, <3>1 DEF SegFields
  <2>3. CASE Head(chan).type = "VadOpened"
    <3>1. seg' = seg
      BY <2>3, Zenon DEF DrainMsg
    <3> QED
      BY <1>3, <3>1, Zenon DEF SegFields
  <2> QED
    BY <1>4, <2>1, <2>2, <2>3, Zenon
<1>6. Head(chan).type = "VadClosed" => released[seg.onset] # NotReleased
  <2> SUFFICES ASSUME Head(chan).type = "VadClosed"
               PROVE  released[seg.onset] # NotReleased
    OBVIOUS
  <2>1. /\ chan[1].onset \in 1..onsets /\ released[chan[1].onset] # NotReleased
        /\ seg.onset <= chan[1].onset
    BY <1>2, Zenon DEF IInv, ChanInv
  <2>2. Delivered(seg.onset)
    BY <1>1, Zenon DEF IInv, SegInv
  <2>3. onsets \in 0..MaxOnsets /\ MaxOnsets \in Nat /\ seg.onset \in 1..onsets
    BY <2>2, GateAssumption, Zenon DEF IInv, GateInv, GateType, Delivered
  <2>4. CASE seg.onset = chan[1].onset
    BY <2>1, <2>4, Zenon
  <2>5. CASE seg.onset < onsets
    BY <2>3, <2>5 DEF IInv, GateInv, ReleasedInv
  <2> QED
    BY <2>1, <2>3, <2>4, <2>5
<1>7. ChanInv'
  BY <1>0, <1>5, ChanTaken, Zenon
<1>8. SegInv'
  <2>1. seg'.vad_closed => released[seg.onset] # NotReleased
    BY <1>5, <1>6, Zenon DEF IInv, SegInv
  <2> QED
    BY <1>0, <1>1, <1>3, <1>5, <2>1, SegStep, Zenon
<1>9. WireInv'
  BY <1>0, <1>1, <1>5, WireStays, Zenon
<1> QED
  BY <1>0, <1>7, <1>8, <1>9, StepPreserves, Zenon

LEMMA DrainEndsPreserves ==
  ASSUME IInv, DrainEnds
  PROVE  IInv'
<1>0. /\ Quiet /\ LinkKept /\ spc = "drain" /\ spc' = "flag"
      /\ UNCHANGED <<chan, fresh, segment_counter, faults>>
  BY QuietStep, Zenon DEF DrainEnds, Goto
<1>1. InSegment /\ ~AtRest
  BY <1>0, Zenon DEF InSegment, AtRest
<1>2. seg \in SegFields /\ seg.pending <= PendingCap /\ seg.planned <= FrameSamples
  BY Zenon DEF IInv, SegInv
<1>3. \/ seg' = seg
      \/ seg' = [seg EXCEPT !.channel_lost = TRUE,
                            !.segment_end = IF @ = NoEnd THEN "InternalError" ELSE @]
  BY Zenon DEF DrainEnds
<1>4. /\ seg' \in SegFields' /\ seg'.onset = seg.onset
      /\ seg'.read_cursor = seg.read_cursor /\ seg'.planned = seg.planned
      /\ seg'.pending = seg.pending /\ seg'.vad_closed = seg.vad_closed
      /\ seg'.segment_end = "VadRelease" => seg.segment_end = "VadRelease"
      /\ seg'.segment_id = seg.segment_id /\ seg'.samples_sent = seg.samples_sent
      /\ seg'.outbound = seg.outbound /\ seg'.wrote = seg.wrote
  BY Zenon, <1>2, <1>3 DEF SegFields
<1>5. ChanInv'
  BY <1>0, <1>4, ChanStays, Zenon
<1>6. SegInv'
  <2>1. seg'.vad_closed => released[seg.onset] # NotReleased
    BY <1>4, Zenon DEF IInv, SegInv
  <2> QED
    BY <1>0, <1>1, <1>2, <1>4, <2>1, SegStep, Zenon
<1>7. WireInv'
  BY <1>0, <1>1, <1>4, WireStays, Zenon
<1> QED
  BY <1>0, <1>5, <1>6, <1>7, StepPreserves, Zenon

LEMMA LoadFlagPreserves ==
  ASSUME IInv, NEW w \in BOOLEAN, LoadFlag(w)
  PROVE  IInv'
<1>0. /\ Quiet /\ LinkKept /\ spc = "flag"
      /\ spc' = IF seg.outbound = NoFrame THEN "select" ELSE "write"
      /\ UNCHANGED <<chan, fresh, segment_counter, faults>>
  BY QuietStep, Zenon DEF LoadFlag, Goto
<1>1. InSegment /\ ~AtRest
  BY <1>0, Zenon DEF InSegment, AtRest
<1>2. seg \in SegFields /\ seg.pending <= PendingCap /\ seg.planned <= FrameSamples
      /\ flag \in BOOLEAN
  BY Zenon DEF IInv, SegInv, GateInv, GateType
<1>3. seg' = [seg EXCEPT !.vad_closed = @ \/ flag,
                         !.write_blocked = @ /\ ~w,
                         !.frames_this_wake = 0]
  BY Zenon DEF LoadFlag, FlagSeen
<1>4. /\ seg' \in SegFields' /\ seg'.onset = seg.onset
      /\ seg'.read_cursor = seg.read_cursor /\ seg'.planned = seg.planned
      /\ seg'.pending = seg.pending
      /\ seg'.segment_end = seg.segment_end
      /\ seg'.segment_id = seg.segment_id /\ seg'.samples_sent = seg.samples_sent
      /\ seg'.outbound = seg.outbound /\ seg'.wrote = seg.wrote
  BY Zenon, <1>2, <1>3 DEF SegFields
<1>5. (seg.vad_closed => seg'.vad_closed) /\ (seg'.vad_closed => seg.vad_closed \/ flag)
  BY <1>2, <1>3, Zenon DEF SegFields
<1>6. ChanInv'
  BY <1>0, <1>4, ChanStays, Zenon
<1>7. SegInv'
  <2>1. seg'.vad_closed => released[seg.onset] # NotReleased
    BY <1>1, <1>5, FlagMeansReleased, Zenon DEF IInv, SegInv
  <2>2. spc' \in {"select", "write"}
    BY <1>0, Zenon
  <2> QED
    BY <1>0, <1>1, <1>2, <1>4, <1>5, <2>1, <2>2, SegStep, Zenon
<1>8. WireInv'
  BY <1>0, <1>1, <1>4, WireStays, Zenon
<1> QED
  BY <1>0, <1>6, <1>7, <1>8, StepPreserves, Zenon

(* Steps that leave the locals alone. *)
LEMMA WatchPreserves ==
  ASSUME IInv, PaceHolds \/ WithinDeadlines
  PROVE  IInv'
<1>0. /\ Quiet /\ LinkKept /\ spc \in {"select", "watch"} /\ spc' \in {"watch", "drain"}
      /\ UNCHANGED <<chan, fresh, segment_counter, seg, faults>>
  BY QuietStep, Zenon DEF PaceHolds, WithinDeadlines, Goto
<1>1. InSegment /\ ~AtRest
  BY <1>0, Zenon DEF InSegment, AtRest
<1>2. seg \in SegFields /\ seg' \in SegFields'
  BY <1>0, Zenon DEF IInv, SegInv, SegFields
<1>3. ChanInv'
  BY <1>0, ChanStays, Zenon
<1>4. SegInv'
  BY <1>0, <1>1, <1>2, SegStep, Zenon DEF IInv, SegInv
<1>5. WireInv'
  BY <1>0, <1>1, WireStays, Zenon
<1> QED
  BY <1>0, <1>3, <1>4, <1>5, StepPreserves, Zenon

LEMMA WouldBlockPreserves ==
  ASSUME IInv, WouldBlock
  PROVE  IInv'
<1>0. /\ Quiet /\ LinkKept /\ spc = "write" /\ spc' = "watch"
      /\ UNCHANGED <<chan, fresh, segment_counter, faults>>
  BY QuietStep, Zenon DEF WouldBlock, Goto
<1>1. InSegment /\ ~AtRest
  BY <1>0, Zenon DEF InSegment, AtRest
<1>2. seg \in SegFields /\ seg' = [seg EXCEPT !.write_blocked = TRUE]
  BY Zenon DEF IInv, SegInv, WouldBlock
<1>3. /\ seg' \in SegFields' /\ seg'.onset = seg.onset
      /\ seg'.read_cursor = seg.read_cursor /\ seg'.planned = seg.planned
      /\ seg'.pending = seg.pending /\ seg'.vad_closed = seg.vad_closed
      /\ seg'.segment_end = seg.segment_end
      /\ seg'.segment_id = seg.segment_id /\ seg'.samples_sent = seg.samples_sent
      /\ seg'.outbound = seg.outbound /\ seg'.wrote = seg.wrote
  BY Zenon, <1>2 DEF SegFields
<1>4. ChanInv'
  BY <1>0, <1>3, ChanStays, Zenon
<1>5. SegInv'
  BY <1>0, <1>1, <1>3, SegStep, Zenon DEF IInv, SegInv
<1>6. WireInv'
  BY <1>0, <1>1, <1>3, WireStays, Zenon
<1> QED
  BY <1>0, <1>4, <1>5, <1>6, StepPreserves, Zenon

(* A frame is taken in hand: SegmentEnd or telemetry. *)
LEMMA SelectPreserves ==
  ASSUME IInv, SelectEnd \/ SelectTelemetry
  PROVE  IInv'
<1>0. /\ Quiet /\ LinkKept /\ spc = "select" /\ spc' = "write"
      /\ UNCHANGED <<chan, fresh, segment_counter, faults>>
  BY QuietStep, Zenon DEF SelectEnd, SelectTelemetry, Goto
<1>1. InSegment /\ ~AtRest /\ InSegment'
  BY <1>0, Zenon DEF InSegment, AtRest
<1>2. seg \in SegFields /\ seg.pending <= PendingCap /\ PendingCap \in Nat
  BY StreamerAssumption, Zenon DEF IInv, SegInv
<1>3. PICK f, p : /\ seg' = [seg EXCEPT !.outbound = f, !.pending = p]
                  /\ p \in Nat /\ p <= PendingCap
                  /\ \/ f = Wire!TelemetryFrame
                     \/ f = Wire!SegmentEnd(seg.segment_id, seg.samples_sent,
                                            seg.segment_end)
  <2>1. CASE SelectEnd
    <3>1. seg' = [seg EXCEPT !.outbound = Wire!SegmentEnd(seg.segment_id, seg.samples_sent,
                                                seg.segment_end),
                             !.pending = seg.pending]
      BY Zenon, <1>2, <2>1 DEF SelectEnd, SegFields
    <3> QED
      BY Zenon, <1>2, <3>1 DEF SegFields
  <2>2. CASE SelectTelemetry
    <3>1. seg' = [seg EXCEPT !.outbound = Wire!TelemetryFrame, !.pending = seg.pending - 1]
          /\ seg.pending > 0
      BY <1>2, <2>2, Zenon DEF SelectTelemetry, SegFields
    <3>2. seg.pending - 1 \in Nat /\ seg.pending - 1 <= PendingCap
      BY <1>2, <3>1 DEF SegFields
    <3> QED
      BY Zenon, <3>1, <3>2
  <2> QED
    BY Zenon, <2>1, <2>2
<1>4. /\ seg' \in SegFields' /\ seg'.onset = seg.onset
      /\ seg'.read_cursor = seg.read_cursor /\ seg'.planned = seg.planned
      /\ seg'.pending = p /\ seg'.vad_closed = seg.vad_closed
      /\ seg'.segment_end = seg.segment_end
      /\ seg'.segment_id = seg.segment_id /\ seg'.samples_sent = seg.samples_sent
      /\ seg'.outbound = f /\ seg'.wrote = seg.wrote
  BY Zenon, <1>2, <1>3 DEF SegFields
<1>5. ChanInv'
  BY <1>0, <1>4, ChanStays, Zenon
<1>6. SegInv'
  BY <1>0, <1>1, <1>3, <1>4, SegStep, Zenon DEF IInv, SegInv
<1>7. WireInv'
  <2>0. seg.outbound = NoFrame
    BY <1>0, Zenon DEF IInv, WireInv
  <2>1. seg.outbound = NoFrame /\ ~seg.wrote /\ seg.read_cursor = sess.next
    BY <1>1, <2>0, EmptyHanded, Zenon
  <2>2. UNCHANGED <<link, sess, half>> /\ half = NoFrame /\ sess.count = seg.samples_sent
    BY <1>0, <1>1, <2>1, Zenon DEF LinkKept, IInv, WireInv
  <2>3. f # NoFrame /\ OutboundInv'
    <3>1. CASE f = Wire!TelemetryFrame
      BY <1>4, <2>1, <2>2, <3>1 DEF OutboundInv, NoFrame, Wire!NoFrame, Wire!TelemetryFrame
    <3>2. CASE f = Wire!SegmentEnd(seg.segment_id, seg.samples_sent, seg.segment_end)
      <4>1. f.reason = seg.segment_end /\ f # NoFrame
        BY <3>2, Zenon DEF Wire!SegmentEnd, NoFrame, Wire!NoFrame
      <4>2. f = Wire!SegmentEnd(seg'.segment_id, sess'.count, f.reason)
        BY <1>4, <2>2, <3>2, <4>1, Zenon
      <4> QED
        BY <1>4, <2>1, <2>2, <4>1, <4>2, Zenon DEF OutboundInv
    <3> QED
      BY <1>3, <3>1, <3>2, Zenon
  <2> QED
    BY <1>0, <1>1, <1>4, <2>1, <2>2, <2>3, Zenon DEF IInv, WireInv
<1> QED
  BY <1>0, <1>5, <1>6, <1>7, StepPreserves, Zenon

(* The first look at the ring plans no more than was captured, and closes  *)
(* on the release only when nothing captured is left.                      *)
LEMMA SelectAudioPreserves ==
  ASSUME IInv, SelectAudio
  PROVE  IInv'
<1>0. /\ Quiet /\ LinkKept /\ spc = "select" /\ seg.segment_end = NoEnd
      /\ UNCHANGED <<chan, fresh, segment_counter, faults>>
      /\ spc' \in {"select", "copy", "watch"}
  BY QuietStep, Zenon DEF SelectAudio, Goto
<1>1. InSegment /\ ~AtRest /\ ~AtRest'
  BY <1>0, Zenon DEF InSegment, AtRest
<1>2. /\ seg \in SegFields /\ seg.read_cursor \in Nat /\ seg.read_cursor <= write_head
      /\ write_head \in Nat /\ FrameSamples \in Nat \ {0} /\ seg.planned <= FrameSamples
      /\ seg.vad_closed \in BOOLEAN
  BY StreamerAssumption, RingAssumption DEF IInv, SegInv, SegFields, GateInv, GateType
<1> DEFINE avail == available(write_head, seg.read_cursor)
<1>3. avail = write_head - seg.read_cursor /\ avail \in Nat
  BY <1>2 DEF available
<1>4. \/ /\ seg' = [seg EXCEPT !.segment_end = "Overrun"] /\ spc' = "select"
      \/ /\ seg' = [seg EXCEPT !.planned = FrameSamples] /\ spc' = "copy"
         /\ avail >= FrameSamples
      \/ /\ seg' = [seg EXCEPT !.planned = avail] /\ spc' = "copy"
         /\ avail > 0 /\ avail < FrameSamples /\ seg.vad_closed
      \/ /\ seg' = [seg EXCEPT !.segment_end = "VadRelease"] /\ spc' = "select"
         /\ ~(avail > 0) /\ seg.vad_closed
      \/ /\ seg' = seg /\ spc' = "watch"
  BY Zenon DEF SelectAudio, Residue, Goto
<1> HIDE DEF avail
<1>5. /\ seg' \in SegFields' /\ seg'.onset = seg.onset
      /\ seg'.read_cursor = seg.read_cursor
      /\ seg'.pending = seg.pending /\ seg'.vad_closed = seg.vad_closed
      /\ seg'.segment_id = seg.segment_id /\ seg'.samples_sent = seg.samples_sent
      /\ seg'.outbound = seg.outbound /\ seg'.wrote = seg.wrote
  BY <1>2, <1>3, <1>4 DEF SegFields
<1>6. ChanInv'
  BY <1>0, <1>5, ChanStays, Zenon
<1>7. WireInv'
  <2>1. seg.outbound = NoFrame
    BY <1>0, Zenon DEF IInv, WireInv
  <2> QED
    BY <1>0, <1>1, <1>5, <2>1, WireStays, Zenon
<1>8. seg.vad_closed => seg.onset \in 1..MaxOnsets /\ released[seg.onset] \in 0..write_head
  <2>1. ~AtRest => seg.onset \in 1..MaxOnsets
    BY GateAssumption DEF IInv, SegInv, Delivered, GateInv, GateType
  <2> QED
    BY <1>1, <2>1, Zenon DEF IInv, SegInv, GateInv, ReleasedInv
<1>9. /\ seg'.planned <= FrameSamples
      /\ seg'.segment_end = "VadRelease" =>
           seg'.vad_closed /\ seg'.read_cursor >= released[seg.onset]
      /\ spc' = "copy" =>
           /\ seg'.planned >= 1 /\ seg'.read_cursor + seg'.planned <= write_head
           /\ seg'.planned < FrameSamples =>
                seg'.vad_closed /\ seg'.read_cursor + seg'.planned >= released[seg.onset]
  BY <1>0, <1>2, <1>3, <1>4, <1>8 DEF SegFields, NoEnd
<1>10. SegInv'
  <2>1. Delivered(seg.onset)' /\ seg'.read_cursor <= write_head' /\ seg'.pending <= PendingCap
    BY <1>0, <1>1, <1>5, Zenon DEF IInv, SegInv, Delivered, Quiet
  <2>2. segment_counter' \in 0..onsets' /\ (tpc' = "opened" => segment_counter' < onsets')
    BY <1>0, Zenon DEF IInv, SegInv, Quiet
  <2>3. seg'.vad_closed => released'[seg'.onset] # NotReleased
    BY <1>0, <1>5, Zenon DEF IInv, SegInv, Quiet
  <2>4. released'[seg'.onset] = released[seg.onset] /\ write_head' = write_head
    BY <1>0, <1>5, Zenon DEF Quiet
  <2> QED
    BY <1>0, <1>1, <1>5, <1>9, <2>1, <2>2, <2>3, <2>4, Zenon DEF SegInv
<1> QED
  BY <1>0, <1>6, <1>7, <1>10, StepPreserves, Zenon

(* What the copy takes out of an unlapped ring is what was captured. *)
LEMMA CopyIsTrue ==
  ASSUME NEW h \in Nat, NEW c \in Nat, NEW n \in Nat \ {0}, c + n <= h, ~is_overrun(h, c)
  PROVE  LET p == push_pcm_samples(h, c, n)
         IN  /\ p \in Seq(Int) /\ Len(p) = n /\ p # <<>>
             /\ \A k \in 1..n : p[k] = c + k - 1
<1> DEFINE p == push_pcm_samples(h, c, n)
<1>1. ASSUME NEW k \in 1..n PROVE SlotValue(h, c + k - 1) = c + k - 1
  <2>1. c + k - 1 \in (h - RingCap)..(h - 1)
    BY RingAssumption DEF is_overrun
  <2> QED
    BY <2>1, SlotHolds, Zenon
<1>2. p = [k \in 1..n |-> c + k - 1]
  BY <1>1, Zenon DEF push_pcm_samples
<1> HIDE DEF p
<1>3. p \in Seq(Int) /\ Len(p) = n
  BY <1>2
<1>4. p # <<>>
  BY <1>3, Zenon
<1> QED
  BY <1>2, <1>3, <1>4, Zenon DEF p

LEMMA CopyFramePreserves ==
  ASSUME IInv, CopyFrame
  PROVE  IInv'
<1>0. /\ Quiet /\ LinkKept /\ spc = "copy"
      /\ UNCHANGED <<chan, fresh, segment_counter, faults>>
  BY QuietStep, Zenon DEF CopyFrame, Goto
<1>1. InSegment /\ ~AtRest
  BY <1>0, Zenon DEF InSegment, AtRest
<1>2. /\ seg \in SegFields /\ seg.read_cursor \in Nat /\ write_head \in Nat
      /\ seg.planned \in Nat \ {0} /\ seg.read_cursor + seg.planned <= write_head
      /\ FrameSamples \in Nat \ {0} /\ seg.pending <= PendingCap
  BY <1>0, StreamerAssumption, RingAssumption DEF IInv, SegInv, SegFields, GateInv, GateType
<1>3. seg.outbound = NoFrame /\ ~seg.wrote /\ seg.read_cursor = sess.next /\ half = NoFrame
  <2>1. seg.outbound = NoFrame
    BY <1>0, Zenon DEF IInv, WireInv
  <2> QED
    BY <1>1, <2>1, EmptyHanded, Zenon
<1>4. CASE is_overrun(write_head, seg.read_cursor)
  <2>1. seg' = [seg EXCEPT !.segment_end = "Overrun", !.planned = 0] /\ spc' = "select"
    BY <1>4, Zenon DEF CopyFrame, LappedSinceRead, Goto
  <2>2. /\ seg' \in SegFields' /\ seg'.onset = seg.onset
        /\ seg'.read_cursor = seg.read_cursor /\ seg'.planned = 0
        /\ seg'.pending = seg.pending /\ seg'.vad_closed = seg.vad_closed
        /\ seg'.segment_end = "Overrun"
        /\ seg'.segment_id = seg.segment_id /\ seg'.samples_sent = seg.samples_sent
        /\ seg'.outbound = seg.outbound /\ seg'.wrote = seg.wrote
    BY Zenon, <1>2, <2>1 DEF SegFields
  <2>3. ChanInv'
    BY <1>0, <2>2, ChanStays, Zenon
  <2>4. SegInv'
    <3>1. seg'.vad_closed => released[seg.onset] # NotReleased
      BY <2>2, Zenon DEF IInv, SegInv
    <3> QED
      BY <1>0, <1>1, <1>2, <2>1, <2>2, <3>1, SegStep
  <2>5. WireInv'
    BY <1>0, <1>1, <1>3, <2>1, <2>2, WireStays, Zenon
  <2> QED
    BY <1>0, <2>3, <2>4, <2>5, StepPreserves, Zenon
<1>5. CASE ~is_overrun(write_head, seg.read_cursor)
  <2> DEFINE pcm == push_pcm_samples(write_head, seg.read_cursor, seg.planned)
             f   == Wire!Audio(seg.segment_id, seg.read_cursor, pcm)
             e   == IF seg.planned < FrameSamples THEN "VadRelease" ELSE seg.segment_end
  <2>1. /\ spc' = "write"
        /\ seg' = [seg EXCEPT !.outbound = f, !.read_cursor = @ + seg.planned,
                              !.segment_end = e, !.planned = 0]
    BY <1>2, <1>5, Zenon DEF CopyFrame, LappedSinceRead, Goto, SegFields
  <2>2. /\ pcm \in Seq(Int) /\ Len(pcm) = seg.planned /\ pcm # <<>>
        /\ \A k \in 1..seg.planned : pcm[k] = seg.read_cursor + k - 1
    BY <1>2, <1>5, CopyIsTrue, Zenon
  <2>3. f.pcm = pcm /\ f.first = seg.read_cursor /\ f.type = "Audio"
    BY Zenon DEF Wire!Audio
  <2>4. f = Wire!Audio(seg.segment_id, sess.next, f.pcm) /\ f # NoFrame
    BY <1>3, <2>3 DEF NoFrame, Wire!NoFrame
  <2> HIDE DEF pcm, f, e
  <2>5. e \in {NoEnd, "InternalError", "Overrun", "VadRelease"}
    BY <1>2, Zenon DEF e, SegFields
  <2>6. /\ seg' \in SegFields' /\ seg'.onset = seg.onset
        /\ seg'.read_cursor = seg.read_cursor + seg.planned /\ seg'.planned = 0
        /\ seg'.pending = seg.pending /\ seg'.vad_closed = seg.vad_closed
        /\ seg'.segment_end = e
        /\ seg'.segment_id = seg.segment_id /\ seg'.samples_sent = seg.samples_sent
        /\ seg'.outbound = f /\ seg'.wrote = seg.wrote
    <3>1. PICK r : r = seg.read_cursor + seg.planned /\ r \in Nat
      BY <1>2
    <3>2. seg' = [seg EXCEPT !.outbound = f, !.read_cursor = r, !.segment_end = e, !.planned = 0]
      BY <1>2, <2>1, <3>1, Zenon DEF SegFields
    <3>3. seg'.outbound = f
      BY <1>2, <3>2, Zenon DEF SegFields
    <3>4. seg' \in SegFields'
      BY Zenon, <1>2, <2>5, <3>1, <3>2, <3>3 DEF SegFields
    <3> QED
      BY <1>2, <3>1, <3>2, <3>4, Zenon DEF SegFields
  <2>7. ChanInv'
    BY <1>0, <2>6, ChanStays, Zenon
  <2>8. SegInv'
    <3>1. Delivered(seg.onset)'
      BY <1>0, <1>1, <2>6, Zenon DEF IInv, SegInv, Delivered, Quiet
    <3>2. segment_counter' \in 0..onsets' /\ (tpc' = "opened" => segment_counter' < onsets')
      BY <1>0, Zenon DEF IInv, SegInv, Quiet
    <3>3. seg'.vad_closed => released'[seg'.onset] # NotReleased
      BY <1>0, <2>6, Zenon DEF IInv, SegInv, Quiet
    <3>4. released'[seg'.onset] = released[seg.onset] /\ write_head' = write_head
      BY <1>0, <2>6, Zenon DEF Quiet
    <3>5. seg'.segment_end = "VadRelease" =>
            seg'.vad_closed /\ seg'.read_cursor >= released[seg.onset]
      <4>1. CASE seg.planned < FrameSamples
        BY <1>0, <2>6, <4>1, Zenon DEF IInv, SegInv
      <4>2. CASE ~(seg.planned < FrameSamples)
        <5> SUFFICES ASSUME seg'.segment_end = "VadRelease"
                     PROVE  seg'.vad_closed /\ seg'.read_cursor >= released[seg.onset]
          OBVIOUS
        <5>1. seg.segment_end = "VadRelease"
          BY <2>6, <4>2, Zenon DEF e
        <5>2. seg.vad_closed /\ seg.read_cursor >= released[seg.onset]
          BY <5>1, Zenon DEF IInv, SegInv
        <5>3. released[seg.onset] \in Int
          <6>1. seg.onset \in 1..MaxOnsets
            BY <1>1, GateAssumption DEF IInv, SegInv, Delivered, GateInv, GateType
          <6> QED
            BY <6>1, Zenon DEF IInv, GateInv, GateType
        <5> QED
          BY <1>2, <2>6, <5>2, <5>3
      <4> QED
        BY <4>1, <4>2, Zenon
    <3>6. ~AtRest' /\ seg'.planned <= FrameSamples
      BY <1>2, <2>1, <2>6 DEF AtRest
    <3> QED
      BY <1>2, <2>1, <2>6, <3>1, <3>2, <3>3, <3>4, <3>5, <3>6, Zenon DEF SegInv
  <2>9. WireInv'
    <3>1. UNCHANGED <<link, sess, half>> /\ InSegment'
      BY <1>0, <2>1, Zenon DEF LinkKept, InSegment
    <3>2. Wire!TrueSamples(f)
      <4>1. DOMAIN pcm = 1..seg.planned
        BY <2>2
      <4>2. \A k \in DOMAIN pcm : pcm[k] = seg.read_cursor + k - 1
        BY <2>2, <4>1, Zenon
      <4> QED
        BY ONLY <2>3, <4>2, Zenon DEF Wire!TrueSamples
    <3>3. OutboundInv'
      <4>1. Wire!TrueSamples(seg.outbound)'
        BY <2>6, <3>2, Zenon DEF Wire!TrueSamples
      <4> QED
        BY <1>3, <2>2, <2>3, <2>4, <2>6, <3>1, <4>1, Zenon DEF OutboundInv
    <3> QED
      BY <1>0, <1>1, <1>3, <2>1, <2>4, <2>6, <3>1, <3>3, Zenon DEF IInv, WireInv
  <2> QED
    BY <1>0, <2>7, <2>8, <2>9, StepPreserves, Zenon
<1> QED
  BY <1>4, <1>5, Zenon

-----------------------------------------------------------------------------
(* The writes *)

LEMMA WrotePartialPreserves ==
  ASSUME IInv, WrotePartial
  PROVE  IInv'
<1>0. /\ Quiet /\ spc = "write" /\ half' = seg.outbound
      /\ seg' = [seg EXCEPT !.wrote = TRUE]
      /\ UNCHANGED <<link, sess, chan, spc, fresh, segment_counter, faults>>
  BY QuietStep, Zenon DEF WrotePartial, Writing
<1>1. InSegment /\ ~AtRest /\ InSegment' /\ spc' = "write"
  BY <1>0, Zenon DEF InSegment, AtRest
<1>2. seg \in SegFields /\ seg.outbound # NoFrame
  BY <1>0, Zenon DEF IInv, SegInv, WireInv
<1>3. /\ seg' \in SegFields' /\ seg'.onset = seg.onset
      /\ seg'.read_cursor = seg.read_cursor /\ seg'.planned = seg.planned
      /\ seg'.pending = seg.pending /\ seg'.vad_closed = seg.vad_closed
      /\ seg'.segment_end = seg.segment_end
      /\ seg'.segment_id = seg.segment_id /\ seg'.samples_sent = seg.samples_sent
      /\ seg'.outbound = seg.outbound /\ seg'.wrote = TRUE
  BY Zenon, <1>0, <1>2 DEF SegFields
<1>4. ChanInv'
  BY <1>0, <1>3, ChanStays, Zenon
<1>5. SegInv'
  BY <1>0, <1>1, <1>3, SegStep, Zenon DEF IInv, SegInv
<1>6. OutboundInv'
  BY <1>0, <1>1, <1>3, Zenon DEF IInv, WireInv, OutboundInv
<1>7. WireInv'
  BY <1>0, <1>1, <1>2, <1>3, <1>6, Zenon DEF IInv, WireInv
<1> QED
  BY <1>0, <1>4, <1>5, <1>7, StepPreserves, Zenon

(* What the connection holds once the frame in hand is out: SegmentEnd     *)
(* closes the segment, anything else leaves it open at the cursor.         *)
LEMMA WroteSess ==
  ASSUME IInv, InSegment, seg.outbound # NoFrame, sess' = Wire!SessAfter(sess, seg.outbound)
  PROVE  /\ sess' \in Session /\ sess'.id = sess.id /\ sess'.count <= sess'.next
         /\ sess'.phase = IF seg.outbound.type = "SegmentEnd" THEN "idle" ELSE "open"
         /\ sess'.next = seg.read_cursor
         /\ sess'.count = seg.samples_sent + SamplesOf(seg.outbound)
         /\ SamplesOf(seg.outbound) \in Nat
<1>1. PICK p \in {"none", "idle", "open"}, i \in Int, n \in Nat, c \in Nat :
        sess = [phase |-> p, id |-> i, next |-> n, count |-> c]
  BY Zenon DEF IInv, WireInv, Session
<1>2. /\ sess.phase = p /\ sess.id = i /\ sess.next = n /\ sess.count = c
      /\ p = "open" /\ c <= n /\ seg.samples_sent = c
  BY <1>1, Zenon DEF IInv, WireInv
<1>3. OutboundInv
  BY Zenon DEF IInv, WireInv
<1>4. CASE seg.outbound = Wire!TelemetryFrame /\ seg.read_cursor = sess.next
  <2>1. seg.outbound.type = "Telemetry"
    BY <1>4 DEF Wire!TelemetryFrame
  <2>2. sess' = sess /\ SamplesOf(seg.outbound) = 0
    BY <2>1, Zenon DEF Wire!SessAfter, SamplesOf
  <2> QED
    BY <1>1, <1>2, <1>4, <2>1, <2>2 DEF Session
<1>5. CASE /\ seg.outbound = Wire!SegmentEnd(seg.segment_id, sess.count, seg.outbound.reason)
           /\ seg.read_cursor = sess.next
  <2>1. seg.outbound.type = "SegmentEnd"
    BY <1>5 DEF Wire!SegmentEnd
  <2>2. sess' = [sess EXCEPT !.phase = "idle"] /\ SamplesOf(seg.outbound) = 0
    BY <2>1, Zenon DEF Wire!SessAfter, SamplesOf
  <2>3. sess' = [phase |-> "idle", id |-> i, next |-> n, count |-> c]
    BY <1>1, <2>2, Zenon
  <2> QED
    BY <1>1, <1>2, <1>5, <2>1, <2>2, <2>3 DEF Session
<1>6. CASE /\ seg.outbound = Wire!Audio(seg.segment_id, sess.next, seg.outbound.pcm)
           /\ seg.outbound.pcm \in Seq(Int) /\ seg.outbound.pcm # <<>>
           /\ seg.read_cursor = sess.next + Len(seg.outbound.pcm)
  <2>0. PICK l \in Nat : l = Len(seg.outbound.pcm)
    BY <1>6
  <2>1. seg.outbound.type = "Audio"
    BY <1>6 DEF Wire!Audio
  <2>2. /\ sess' = [sess EXCEPT !.next = @ + l, !.count = @ + l]
        /\ SamplesOf(seg.outbound) = l
    BY <2>0, <2>1, Zenon DEF Wire!SessAfter, SamplesOf
  <2>3. sess' = [phase |-> p, id |-> i, next |-> n + l, count |-> c + l]
    BY Zenon, <1>1, <2>2
  <2>4. sess' \in Session
    BY <2>3 DEF Session
  <2> QED
    BY <1>1, <1>2, <1>6, <2>0, <2>1, <2>2, <2>3, <2>4
<1> QED
  BY <1>3, <1>4, <1>5, <1>6, Zenon DEF OutboundInv

LEMMA WroteWholePreserves ==
  ASSUME IInv, WroteWhole
  PROVE  IInv'
<1>0. /\ Quiet /\ spc = "write" /\ half' = NoFrame
      /\ sess' = Wire!SessAfter(sess, seg.outbound)
      /\ UNCHANGED <<link, chan, segment_counter, faults>>
  BY QuietStep, Zenon DEF WroteWhole, Writing, Sent
<1>1. InSegment /\ ~AtRest /\ seg.outbound # NoFrame /\ seg \in SegFields
  BY <1>0, Zenon DEF InSegment, AtRest, IInv, SegInv, WireInv
<1>2. /\ sess' \in Session /\ sess'.id = sess.id /\ sess'.count <= sess'.next
      /\ sess'.phase = IF seg.outbound.type = "SegmentEnd" THEN "idle" ELSE "open"
      /\ sess'.next = seg.read_cursor
      /\ sess'.count = seg.samples_sent + SamplesOf(seg.outbound)
      /\ SamplesOf(seg.outbound) \in Nat
  BY <1>0, <1>1, WroteSess, Zenon
<1>3. LinkSound
  <2>1. link \in BOOLEAN /\ link /\ sess.id < segment_counter
    BY <1>1, Zenon DEF IInv, WireInv
  <2>2. sess'.phase # "none"
    BY <1>2, Zenon
  <2> QED
    BY <1>0, <1>2, <2>1, <2>2, Zenon DEF LinkSound
<1>4. CASE seg.outbound.type = "SegmentEnd"
  <2>1. BackToIdle
    BY <1>4, Zenon DEF WroteWhole
  <2> QED
    BY <1>0, <1>3, <2>1, BackPreserves, Zenon
<1>5. CASE seg.outbound.type # "SegmentEnd"
  <2> DEFINE wake == seg.frames_this_wake + 1
             s    == seg.samples_sent + SamplesOf(seg.outbound)
  <2>1. /\ seg' = [seg EXCEPT !.samples_sent = s, !.outbound = NoFrame, !.wrote = FALSE,
                              !.frames_this_wake = wake]
        /\ spc' \in {"watch", "select"} /\ fresh' = fresh
    BY <1>1, <1>5, Zenon DEF WroteWhole, Goto, SegFields
  <2>2. wake \in Nat /\ s \in Nat
    BY <1>1, <1>2 DEF SegFields
  <2> HIDE DEF wake, s
  <2>3. seg'.outbound = NoFrame
    BY <1>1, <2>1, Zenon DEF SegFields
  <2>4. seg' \in SegFields'
    BY Zenon, <1>1, <2>1, <2>2, <2>3 DEF SegFields
  <2>5. /\ seg'.onset = seg.onset
        /\ seg'.read_cursor = seg.read_cursor /\ seg'.planned = seg.planned
        /\ seg'.pending = seg.pending /\ seg'.vad_closed = seg.vad_closed
        /\ seg'.segment_end = seg.segment_end
        /\ seg'.segment_id = seg.segment_id /\ seg'.samples_sent = s
        /\ seg'.wrote = FALSE
    BY <1>1, <2>1, Zenon DEF SegFields
  <2>6. ChanInv'
    BY <1>0, <2>5, ChanStays, Zenon
  <2>7. SegInv'
    BY <1>0, <1>1, <2>1, <2>4, <2>5, SegStep, Zenon DEF IInv, SegInv
  <2>8. WireInv'
    <3>1. InSegment' /\ sess'.phase = "open"
      BY <1>2, <1>5, <2>1, Zenon DEF InSegment
    <3>2. OutboundInv'
      BY <1>2, <2>3, <2>5, Zenon DEF OutboundInv
    <3>3. sess'.id = seg'.segment_id /\ sess'.count = seg'.samples_sent
      BY <1>1, <1>2, <2>5, Zenon DEF IInv, WireInv, s
    <3>4. fresh' \in BOOLEAN /\ faults' \in 0..MaxFaults
      BY <1>0, <2>1, Zenon DEF IInv, WireInv
    <3> QED
      BY <1>0, <1>3, <2>1, <2>3, <2>5, <3>1, <3>2, <3>3, <3>4, Zenon DEF WireInv, LinkSound
  <2> QED
    BY <1>0, <2>6, <2>7, <2>8, StepPreserves, Zenon
<1> QED
  BY <1>4, <1>5, Zenon

(* The ways a segment, or an utterance before its first frame, is given up. *)
LEMMA GivenUpPreserves ==
  ASSUME IInv, \/ SegmentSocketLost \/ DeadlineElapses
               \/ OnsetConnectFails \/ StartBackpressure \/ (StartFails /\ fresh)
  PROVE  IInv'
<1>0. Quiet /\ BackToIdle /\ UNCHANGED <<chan, segment_counter, faults>>
  BY QuietStep, Zenon DEF SegmentSocketLost, DeadlineElapses, OnsetConnectFails,
     StartBackpressure, StartFails
<1>1. CASE NoteSocketLost
  BY <1>0, <1>1, LostSound, BackPreserves, Zenon
<1>2. CASE LinkKept /\ half = NoFrame
  BY <1>0, <1>2, KeptSound, BackPreserves, Zenon
<1>3. ASSUME DeadlineElapses, LinkKept, FrameAligned PROVE half = NoFrame
  BY <1>3, Zenon DEF DeadlineElapses, FrameAligned, InSegment, IInv, WireInv
<1>4. ASSUME OnsetConnectFails \/ StartBackpressure PROVE half = NoFrame
  BY <1>4, Zenon DEF OnsetConnectFails, StartBackpressure, InSegment, IInv, WireInv
<1> QED
  BY <1>1, <1>2, <1>3, <1>4, Zenon DEF SegmentSocketLost, DeadlineElapses, OnsetConnectFails,
     StartBackpressure, StartFails

-----------------------------------------------------------------------------
(* Between segments *)

(* A connection made or lost while no frame is in hand. *)
LEMMA LinkPreserves ==
  ASSUME IInv, Quiet, UNCHANGED <<chan, segment_counter, seg>>,
         LinkSound, half' = NoFrame, sess'.id = sess.id,
         fresh' \in BOOLEAN, faults' \in 0..MaxFaults,
         ~InSegment, spc' \in {spc, "start", "reconnect"},
         spc' # spc => spc \in {"start", "reconnect"},
         spc' = "start" => link'
  PROVE  IInv'
<1>1. ~InSegment' /\ (AtRest' <=> AtRest) /\ spc' # "copy"
      /\ spc' \notin {"select", "copy", "write"} /\ (spc' = "onset" => spc = "onset")
  BY Zenon DEF InSegment, AtRest
<1>2. ChanInv'
  BY ChanStays, Zenon
<1>3. SegInv'
  <2>1. seg' \in SegFields' /\ (~AtRest => Delivered(seg.onset)')
    BY Zenon DEF IInv, SegInv, SegFields, Delivered, Quiet
  <2>2. spc' \in {"idle", "onset", "start", "reconnect", "exited"}
    BY Zenon DEF InSegment, IInv, SegInv
  <2> QED
    BY <1>1, <2>1, <2>2, Zenon DEF IInv, SegInv, Quiet
<1>4. WireInv'
  BY <1>1, Zenon DEF IInv, WireInv, LinkSound
<1> QED
  BY <1>2, <1>3, <1>4, StepPreserves, Zenon

LEMMA ConnectingPreserves ==
  ASSUME IInv, \/ EnsureConnected \/ IdleSocketLost \/ OnsetConnect \/ Reconnect
               \/ (StartFails /\ ~fresh)
  PROVE  IInv'
<1>0. Quiet /\ UNCHANGED <<chan, segment_counter, seg>>
  BY QuietStep, Zenon DEF EnsureConnected, IdleSocketLost, OnsetConnect, Reconnect, StartFails
<1>1. fresh \in BOOLEAN /\ faults \in 0..MaxFaults /\ MaxFaults \in Nat
  BY StreamerAssumption, Zenon DEF IInv, WireInv
<1>2. CASE EnsureConnected
  <2>1. spc = "idle" /\ Connect /\ UNCHANGED <<spc, fresh, faults>> /\ ~InSegment
    BY <1>2, Zenon DEF EnsureConnected, InSegment
  <2> QED
    BY <1>0, <1>1, <2>1, ConnectSound, LinkPreserves, Zenon
<1>3. CASE IdleSocketLost
  <2>1. spc \in {"idle", "onset"} /\ NoteSocketLost /\ UNCHANGED <<spc, fresh>> /\ ~InSegment
    BY <1>3, Zenon DEF IdleSocketLost, InSegment
  <2>2. faults' \in 0..MaxFaults
    BY <1>1, <1>3 DEF IdleSocketLost
  <2> QED
    BY <1>0, <1>1, <2>1, <2>2, LostSound, LinkPreserves, Zenon
<1>4. CASE OnsetConnect
  <2>1. spc = "onset" /\ Connect /\ UNCHANGED <<spc, faults>> /\ fresh' = TRUE /\ ~InSegment
    BY <1>4, Zenon DEF OnsetConnect, InSegment
  <2> QED
    BY <1>0, <1>1, <2>1, ConnectSound, LinkPreserves, Zenon
<1>5. CASE Reconnect
  <2>1. /\ spc = "reconnect" /\ Connect /\ UNCHANGED faults /\ fresh' = TRUE /\ ~InSegment
        /\ spc' = "start"
    BY <1>5, Zenon DEF Reconnect, InSegment
  <2> QED
    BY <1>0, <1>1, <2>1, ConnectSound, LinkPreserves, Zenon
<1>6. CASE StartFails /\ ~fresh
  <2>1. /\ spc = "start" /\ NoteSocketLost /\ UNCHANGED <<fresh, faults>> /\ ~InSegment
        /\ spc' = "reconnect"
    BY <1>6, Zenon DEF StartFails, Goto, InSegment
  <2> QED
    BY <1>0, <1>1, <2>1, LostSound, LinkPreserves, Zenon
<1> QED
  BY <1>2, <1>3, <1>4, <1>5, <1>6, Zenon

LEMMA IdleRecvPreserves ==
  ASSUME IInv, IdleRecv
  PROVE  IInv'
<1>0. /\ Quiet /\ LinkKept /\ spc = "idle" /\ chan # <<>> /\ chan' = Tail(chan)
      /\ UNCHANGED <<fresh, segment_counter, faults>>
  BY QuietStep, Zenon DEF IdleRecv
<1>1. AtRest /\ ~InSegment /\ seg = NoSegment /\ seg \in SegFields
  BY <1>0, Zenon DEF AtRest, InSegment, IInv, SegInv
<1>2. chan \in Seq(Message) /\ Head(chan) = chan[1] /\ 1 \in 1..Len(chan) /\ chan[1] \in Message
  <2>1. chan \in Seq(Message)
    BY Zenon DEF IInv, ChanInv
  <2> QED
    BY <1>0, <2>1, HeadAndTail, Zenon
<1>3. UNCHANGED <<link, sess, half>> /\ half = NoFrame
  BY <1>0, <1>1, Zenon DEF LinkKept, IInv, WireInv
<1>4. CASE Head(chan).type = "VadOpened"
  <2>1. /\ spc' = "onset"
        /\ seg' = [NoSegment EXCEPT !.vad_write_head = chan[1].write_head,
                                    !.onset = chan[1].onset]
    BY Zenon, <1>2, <1>4 DEF IdleRecv
  <2>2. chan[1].type = "VadOpened" /\ chan[1].write_head \in Nat /\ chan[1].onset \in Nat
    BY <1>2, <1>4 DEF Message, Telemetry
  <2>3. /\ seg'.vad_write_head = chan[1].write_head /\ seg'.onset = chan[1].onset
        /\ seg'.read_cursor = 0 /\ seg'.pending = 0 /\ seg'.planned = 0
        /\ seg'.vad_closed = FALSE /\ seg'.segment_end = "none"
        /\ seg'.outbound = NoFrame /\ ~seg'.wrote /\ seg'.samples_sent = 0
    BY <2>1, Zenon DEF NoSegment, NoEnd
  <2>4. seg' \in SegFields'
    BY Zenon, <1>1, <2>1, <2>2, <2>3 DEF SegFields
  <2>5. /\ Delivered(chan[1].onset) /\ segment_counter < chan[1].onset
        /\ chan[1].write_head <= write_head
    BY <1>2, <2>2, Zenon DEF IInv, ChanInv
  <2>6. ChanInv'
    BY <1>0, <1>2, <1>4, <2>3, ChanTaken, Zenon
  <2>7. SegInv'
    <3>1. Delivered(seg.onset)' /\ ~AtRest'
      BY <1>0, <2>1, <2>3, <2>5, Zenon DEF Delivered, Quiet, AtRest
    <3>2. /\ segment_counter' \in 0..onsets' /\ (tpc' = "opened" => segment_counter' < onsets')
          /\ 0 <= write_head'
      BY <1>0, RingAssumption DEF IInv, SegInv, Quiet, GateInv, GateType
    <3>3. /\ segment_counter' < seg'.onset /\ seg'.vad_write_head <= write_head'
          /\ seg'.segment_end = NoEnd
      BY <1>0, <2>3, <2>5, Zenon DEF Quiet, NoEnd
    <3> QED
      BY <2>1, <2>3, <2>4, <3>1, <3>2, <3>3, StreamerAssumption DEF SegInv
  <2>8. WireInv'
    <3>1. ~InSegment' /\ spc' = "onset"
      BY <2>1, Zenon DEF InSegment
    <3> QED
      BY <1>0, <1>3, <2>3, <3>1, Zenon DEF IInv, WireInv
  <2> QED
    BY <1>0, <2>6, <2>7, <2>8, StepPreserves, Zenon
<1>5. CASE Head(chan).type # "VadOpened"
  <2>1. UNCHANGED <<spc, seg>>
    BY <1>5, Zenon DEF IdleRecv
  <2>2. ChanInv'
    BY <1>0, <2>1, ChanTaken, Zenon
  <2>3. SegInv'
    BY <1>0, <1>1, <2>1, Zenon DEF IInv, SegInv, SegFields, Quiet, AtRest
  <2>4. WireInv'
    BY <1>0, <1>1, <1>3, <2>1, Zenon DEF IInv, WireInv, InSegment
  <2> QED
    BY <1>0, <2>2, <2>3, <2>4, StepPreserves, Zenon
<1> QED
  BY <1>4, <1>5, Zenon

LEMMA IdleDisconnectedPreserves ==
  ASSUME IInv, IdleDisconnected
  PROVE  IInv'
<1>0. /\ Quiet /\ LinkKept /\ spc = "idle" /\ spc' = "exited"
      /\ UNCHANGED <<chan, seg, fresh, segment_counter, faults>>
  BY QuietStep, Zenon DEF IdleDisconnected, Goto
<1>1. ChanInv'
  BY <1>0, ChanStays, Zenon
<1>2. SegInv'
  BY <1>0, Zenon DEF IInv, SegInv, SegFields, Quiet, AtRest
<1>3. UNCHANGED <<link, sess, half>> /\ ~InSegment /\ ~InSegment'
  BY <1>0, Zenon DEF LinkKept, InSegment
<1>4. WireInv'
  BY <1>0, <1>3, Zenon DEF IInv, WireInv
<1> QED
  BY <1>0, <1>1, <1>2, <1>4, StepPreserves, Zenon

LEMMA PlanPreserves ==
  ASSUME IInv, PlanSegmentStart
  PROVE  IInv'
<1>0. /\ Quiet /\ LinkKept /\ spc = "onset" /\ link /\ spc' = "start"
      /\ UNCHANGED <<chan, fresh, faults>>
      /\ segment_counter' = segment_counter + 1
      /\ seg' = [seg EXCEPT !.segment_id = segment_counter,
                            !.read_cursor = preroll_cursor(seg.vad_write_head)]
  BY QuietStep, Zenon DEF PlanSegmentStart, Goto
<1>1. ~AtRest /\ ~InSegment /\ ~AtRest' /\ ~InSegment'
  BY <1>0, Zenon DEF AtRest, InSegment
<1>2. /\ seg \in SegFields /\ seg.onset \in Nat /\ seg.vad_write_head \in Nat
      /\ segment_counter \in Nat /\ onsets \in Nat /\ write_head \in Nat
      /\ segment_counter < seg.onset /\ seg.vad_write_head <= write_head
      /\ Delivered(seg.onset)
  BY <1>0, <1>1, GateAssumption, RingAssumption
     DEF IInv, SegInv, SegFields, GateInv, GateType
<1>3. PICK c \in 0..seg.vad_write_head : c = preroll_cursor(seg.vad_write_head)
  BY <1>2, PrerollBounds, Zenon
<1>4. c \in Nat /\ c <= write_head
  BY <1>2, <1>3
<1>5. /\ seg' \in SegFields' /\ seg'.onset = seg.onset /\ seg'.segment_id = segment_counter
      /\ seg'.read_cursor = c /\ seg'.outbound = seg.outbound /\ seg'.wrote = seg.wrote
      /\ seg'.samples_sent = seg.samples_sent /\ seg'.vad_closed = seg.vad_closed
      /\ seg'.segment_end = seg.segment_end /\ seg'.pending = seg.pending
      /\ seg'.planned = seg.planned
  BY Zenon, <1>0, <1>2, <1>3, <1>4 DEF SegFields
<1>6. /\ segment_counter + 1 <= seg.onset /\ seg.onset \in 1..onsets
      /\ tpc = "opened" => seg.onset < onsets
  BY <1>2 DEF Delivered
<1>7. ChanInv'
  <2>1. ASSUME NEW i \in 1..Len(chan), chan[i].type = "VadOpened"
        PROVE  /\ Delivered(chan[i].onset)' /\ segment_counter' < chan[i].onset
               /\ seg'.onset < chan[i].onset
    <3>1. Delivered(chan[i].onset) /\ seg.onset < chan[i].onset
      BY <2>1, Zenon DEF IInv, ChanInv
    <3>2. chan[i].onset \in Int
      BY <3>1, <1>2 DEF Delivered
    <3>3. Delivered(chan[i].onset)'
      BY <1>0, <3>1, Zenon DEF Delivered, Quiet
    <3> QED
      BY <1>0, <1>2, <1>5, <1>6, <3>1, <3>2, <3>3
  <2> QED
    BY <1>0, <1>5, <2>1, Zenon DEF IInv, ChanInv, Quiet
<1>8. SegInv'
  <2>1. Delivered(seg.onset)'
    BY <1>0, <1>2, <1>5, Zenon DEF Delivered, Quiet
  <2>2. segment_counter' \in 0..onsets' /\ (tpc' = "opened" => segment_counter' < onsets')
    BY <1>0, <1>2, <1>6 DEF Quiet
  <2>3. /\ seg'.segment_end # "VadRelease"
        /\ seg'.vad_closed => released'[seg'.onset] # NotReleased
    BY <1>0, <1>5, Zenon DEF IInv, SegInv, NoEnd, Quiet
  <2>4. seg'.read_cursor <= write_head'
    BY <1>0, <1>4, <1>5, Zenon DEF Quiet
  <2>5. seg'.pending <= PendingCap /\ seg'.planned <= FrameSamples
    BY <1>5, Zenon DEF IInv, SegInv
  <2> QED
    BY <1>0, <1>1, <1>5, <2>1, <2>2, <2>3, <2>4, <2>5, Zenon DEF SegInv
<1>9. WireInv'
  <2>1. UNCHANGED <<link, sess, half>>
    BY <1>0, Zenon DEF LinkKept
  <2>2. sess.id \in Int /\ sess.id < segment_counter
    BY Zenon DEF IInv, WireInv, Session
  <2>3. sess.id < seg'.segment_id /\ seg'.segment_id < segment_counter' /\ sess.id < segment_counter'
    BY <1>0, <1>2, <1>5, <2>2
  <2> QED
    BY <1>0, <1>1, <1>5, <2>1, <2>3, Zenon DEF IInv, WireInv
<1> QED
  BY <1>0, <1>7, <1>8, <1>9, StepPreserves, Zenon

LEMMA StartSentPreserves ==
  ASSUME IInv, StartSent
  PROVE  IInv'
<1>0. /\ Quiet /\ spc = "start" /\ spc' = "drain" /\ fresh' = FALSE
      /\ sess' = Wire!SessAfter(sess, Wire!SegmentStart(seg.segment_id, seg.read_cursor))
      /\ half' = NoFrame
      /\ UNCHANGED <<chan, link, segment_counter, seg, faults>>
  BY QuietStep, Zenon DEF StartSent, Sent
<1>1. ~AtRest /\ ~InSegment /\ InSegment'
  BY <1>0, Zenon DEF AtRest, InSegment
<1>2. seg \in SegFields /\ seg' \in SegFields' /\ seg.segment_id \in Nat /\ seg.read_cursor \in Nat
  BY <1>0, Zenon DEF IInv, SegInv, SegFields
<1>3. sess' = [phase |-> "open", id |-> seg.segment_id, next |-> seg.read_cursor, count |-> 0]
  BY <1>0, Zenon DEF Wire!SessAfter, Wire!SegmentStart
<1>4. ChanInv'
  BY <1>0, ChanStays, Zenon
<1>5. SegInv'
  BY <1>0, <1>1, <1>2, SegStep, Zenon DEF IInv, SegInv
<1>6. WireInv'
  <2>1. sess' \in Session
    BY <1>2, <1>3 DEF Session
  <2>2. sess'.phase = "open" /\ sess'.id = seg.segment_id /\ sess'.next = seg.read_cursor
        /\ sess'.count = 0
    BY <1>3, Zenon
  <2>3. /\ link /\ seg.outbound = NoFrame /\ ~seg.wrote /\ seg.samples_sent = 0
        /\ seg.segment_id < segment_counter
    BY <1>0, <1>1, Zenon DEF IInv, WireInv
  <2>4. OutboundInv'
    BY <1>0, <2>2, <2>3, Zenon DEF OutboundInv
  <2>5. /\ link' \in BOOLEAN /\ link' /\ fresh' \in BOOLEAN /\ faults' \in 0..MaxFaults
        /\ segment_counter' = segment_counter
    BY Zenon, <1>0, <2>3 DEF IInv, WireInv
  <2>6. /\ seg'.outbound = NoFrame /\ ~seg'.wrote /\ seg'.samples_sent = 0
        /\ seg'.segment_id = seg.segment_id
    BY <1>0, <2>3, Zenon
  <2> QED
    BY <1>0, <1>1, <1>2, <2>1, <2>2, <2>3, <2>4, <2>5, <2>6 DEF WireInv
<1> QED
  BY <1>0, <1>4, <1>5, <1>6, StepPreserves, Zenon

-----------------------------------------------------------------------------
LEMMA NextPreserves == IInv /\ [Next]_vars => IInv'
<1> SUFFICES ASSUME IInv, [Next]_vars PROVE IInv'
  OBVIOUS
<1>1. CASE Capture
  BY <1>1, CapturePreserves, Zenon
<1>2. CASE Telemeter
  BY <1>2, TelemeterPreserves, Zenon
<1>3. CASE IdleStep
  BY <1>3, ConnectingPreserves, IdleRecvPreserves, IdleDisconnectedPreserves, Zenon DEF IdleStep
<1>4. CASE OnsetStep
  BY <1>4, ConnectingPreserves, GivenUpPreserves, PlanPreserves, StartSentPreserves, Zenon
     DEF OnsetStep
<1>5. CASE SegmentStep
  BY <1>5, DrainMsgPreserves, DrainEndsPreserves, LoadFlagPreserves, SelectPreserves,
     SelectAudioPreserves, WatchPreserves, CopyFramePreserves, WroteWholePreserves,
     WrotePartialPreserves, WouldBlockPreserves, GivenUpPreserves, Zenon
     DEF SegmentStep
<1>6. CASE UNCHANGED vars
  <2>1. UNCHANGED <<vad, segment_open, tick, tpc, onset, onsets, released, flag, chan,
                    write_head, spc, link, fresh, segment_counter, seg, sess, half, faults>>
    BY <1>6, Zenon DEF vars, gate, streamer
  <2>2. Quiet
    BY <2>1, Zenon DEF Quiet
  <2>3. ChanInv'
    BY <2>1, <2>2, ChanStays, Zenon
  <2>4. SegInv'
    BY <2>1 DEF IInv, SegInv, SegFields, AtRest, Delivered
  <2>5. WireInv'
    BY <2>1, Zenon DEF IInv, WireInv, InSegment, OutboundInv
  <2> QED
    BY <2>2, <2>3, <2>4, <2>5, StepPreserves, Zenon
<1> QED
  BY <1>1, <1>2, <1>3, <1>4, <1>5, <1>6, Zenon DEF Next

(* The invariant holds in every reachable state, for every ring, frame,    *)
(* channel and number of utterances.                                       *)
THEOREM StreamerInvariance == Spec => []IInv
  BY InitHolds, NextPreserves, PTL DEF Spec

(* note_vad_closed and note_vad_opened against run_segment: the release of *)
(* a gate reaches the segment it is for, a stale release never does, and   *)
(* every queue and counter keeps its bound.                                *)
THEOREM ReleasesReachTheirSegments == Spec => []ReleaseReachesItsSegment
<1>1. ASSUME IInv PROVE ReleaseReachesItsSegment
  <2> USE <1>1
  <2>0. /\ GateInv /\ ChanInv /\ SegInv /\ WireInv
        /\ MaxHead \in Nat /\ MaxOnsets \in Nat /\ PendingCap \in Nat /\ FrameSamples \in Nat
    BY GateAssumption, RingAssumption, StreamerAssumption, Zenon DEF IInv
  <2>1. released \in [1..MaxOnsets -> Nat \cup {NotReleased}]
    <3>1. \A k \in 1..MaxOnsets : released[k] \in Nat \cup {NotReleased}
      BY <2>0 DEF GateInv, GateType, ReleasedInv
    <3> QED
      BY <2>0, <3>1, Zenon DEF GateInv, GateType
  <2>2. GateTypeOK
    <3>1. write_head \in Nat /\ onset \in Nat
      BY <2>0 DEF GateInv, GateType
    <3> QED
      BY <2>0, <2>1, <3>1, Zenon DEF GateInv, GateType, ChanInv, GateTypeOK
  <2>3. /\ seg.read_cursor \in 0..write_head /\ write_head \in 0..MaxHead
        /\ seg.pending \in 0..PendingCap /\ seg.planned \in 0..FrameSamples
        /\ segment_counter \in 0..onsets /\ onsets \in 0..MaxOnsets
    BY <2>0 DEF SegInv, SegFields, GateInv, GateType
  <2>4. seg.samples_sent \in 0..seg.read_cursor
    <3>1. seg.samples_sent \in Nat /\ seg.read_cursor \in Nat
      BY <2>0, Zenon DEF SegInv, SegFields
    <3>2. CASE ~InSegment
      BY <2>0, <3>1, <3>2 DEF WireInv
    <3>3. CASE InSegment
      <4>1. /\ seg.samples_sent = sess.count /\ sess.count <= sess.next
            /\ sess.count \in Nat /\ sess.next \in Nat
        BY <2>0, <3>3, Zenon DEF WireInv, Session
      <4>2. seg.read_cursor >= sess.next
        <5>1. CASE seg.read_cursor = sess.next
          BY <4>1, <5>1
        <5>2. CASE /\ seg.outbound.pcm \in Seq(Int)
                   /\ seg.read_cursor = sess.next + Len(seg.outbound.pcm)
          BY <4>1, <5>2
        <5> QED
          BY <2>0, <3>3, <5>1, <5>2, Zenon DEF WireInv, OutboundInv
      <4> QED
        BY <3>1, <4>1, <4>2
    <3> QED
      BY <3>2, <3>3, Zenon
  <2>5. TypeOK
    <3>1. /\ seg.read_cursor \in 0..MaxHead /\ seg.samples_sent \in 0..MaxHead
          /\ segment_counter \in 0..MaxOnsets
      BY <2>0, <2>3, <2>4
    <3> QED
      BY <2>0, <2>2, <2>3, <3>1, Zenon DEF TypeOK, SegInv, WireInv
  <2>6. ASSUME InSegment, ~segment_open, tpc \in {"rest", "doa", "closed", "forward"}
        PROVE  flag
    <3>1. Delivered(seg.onset)
      BY <2>0, <2>6, Zenon DEF SegInv, InSegment, AtRest
    <3>2. onsets > 0
      BY <2>3, <3>1 DEF Delivered
    <3> QED
      BY <2>0, <2>6, <3>2, Zenon DEF GateInv, FlagInv
  <2>7. (InSegment /\ seg.vad_closed) => released[seg.onset] # NotReleased
    BY <2>0, Zenon DEF SegInv
  <2> QED
    BY <2>5, <2>6, <2>7, Zenon DEF ReleaseReachesItsSegment
<1> QED
  BY <1>1, StreamerInvariance, PTL

(* The two-phase read of run_segment: a segment that closes on the release *)
(* has taken everything captured up to that release.                       *)
THEOREM TailsAreSent == Spec => []TailIsSent
<1>1. IInv => TailIsSent
  BY Zenon DEF IInv, SegInv, TailIsSent
<1> QED
  BY <1>1, StreamerInvariance, PTL

-----------------------------------------------------------------------------
(* The wire *)

(* The frame in hand is one that may follow. *)
LEMMA OutboundMayFollow ==
  ASSUME IInv, InSegment, seg.outbound # NoFrame
  PROVE  Wire!MayFollow(sess, seg.outbound)
<1>1. OutboundInv /\ sess.phase = "open" /\ sess.id = seg.segment_id
  BY Zenon DEF IInv, WireInv
<1>2. CASE seg.outbound = Wire!TelemetryFrame
  <2>1. seg.outbound.type = "Telemetry"
    BY <1>2 DEF Wire!TelemetryFrame
  <2> QED
    BY <1>1, <2>1, Zenon DEF Wire!MayFollow
<1>3. CASE seg.outbound = Wire!SegmentEnd(seg.segment_id, sess.count, seg.outbound.reason)
  <2>1. /\ seg.outbound.type = "SegmentEnd" /\ seg.outbound.id = seg.segment_id
        /\ seg.outbound.samples = sess.count
    BY <1>3 DEF Wire!SegmentEnd
  <2> QED
    BY <1>1, <2>1, Zenon DEF Wire!MayFollow
<1>4. CASE /\ seg.outbound = Wire!Audio(seg.segment_id, sess.next, seg.outbound.pcm)
           /\ seg.outbound.pcm # <<>> /\ Wire!TrueSamples(seg.outbound)
  <2>1. /\ seg.outbound.type = "Audio" /\ seg.outbound.id = seg.segment_id
        /\ seg.outbound.first = sess.next
    BY <1>4 DEF Wire!Audio
  <2> QED
    BY <1>1, <1>4, <2>1, Zenon DEF Wire!MayFollow
<1> QED
  BY <1>1, <1>2, <1>3, <1>4, Zenon DEF OutboundInv

LEMMA WireStep ==
  ASSUME IInv, [Next]_vars
  PROVE  [Wire!Next]_(Wire!vars)
<1>1. CASE UNCHANGED <<link, sess, half, out>>
  BY <1>1, Zenon DEF Wire!vars
<1>2. CASE Connect
  BY <1>2, Zenon DEF Connect, NoFrame, Wire!Next, Wire!Connect
<1>3. CASE NoteSocketLost
  BY <1>3, Zenon DEF NoteSocketLost, NoFrame, Wire!Next, Wire!Lose
<1>4. CASE StartSent
  <2> DEFINE f == Wire!SegmentStart(seg.segment_id, seg.read_cursor)
  <2>1. f.type = "SegmentStart" /\ f.id = seg.segment_id
    BY Zenon DEF Wire!SegmentStart
  <2>2. spc = "start" /\ Sent(f) /\ UNCHANGED link
    BY <1>4, Zenon DEF StartSent
  <2> HIDE DEF f
  <2>3. /\ link /\ half = NoFrame /\ sess.phase # "none" /\ sess.id < seg.segment_id
        /\ sess.id \in Int /\ seg.segment_id \in Nat
    BY <2>2, Zenon DEF IInv, WireInv, InSegment, Session, SegInv, SegFields
  <2>4. Wire!MayFollow(sess, f)
    BY <2>1, <2>3, Zenon DEF Wire!MayFollow
  <2>5. Wire!Send(out')
    BY <2>2, <2>3, <2>4, Zenon DEF Wire!Send, Sent, NoFrame
  <2> QED
    BY <2>5, Zenon DEF Wire!Next
<1>5. CASE WroteWhole
  <2>1. spc = "write" /\ Sent(seg.outbound) /\ UNCHANGED link
    BY <1>5, Zenon DEF WroteWhole, Writing
  <2>2. InSegment /\ seg.outbound # NoFrame /\ link /\ half \in {NoFrame, seg.outbound}
    BY <2>1, Zenon DEF InSegment, IInv, WireInv
  <2>3. Wire!Send(out')
    BY <2>1, <2>2, OutboundMayFollow, Zenon DEF Wire!Send, Sent, NoFrame
  <2> QED
    BY <2>3, Zenon DEF Wire!Next
<1>6. CASE WrotePartial
  <2>1. spc = "write" /\ half' = seg.outbound /\ UNCHANGED <<link, sess, out>>
    BY <1>6, Zenon DEF WrotePartial, Writing
  <2>2. InSegment /\ seg.outbound # NoFrame /\ link /\ half \in {NoFrame, seg.outbound}
    BY <2>1, Zenon DEF InSegment, IInv, WireInv
  <2>3. CASE half = NoFrame
    <3>1. Wire!Begin(half')
      BY <2>1, <2>2, <2>3, OutboundMayFollow, Zenon DEF Wire!Begin, NoFrame
    <3> QED
      BY <3>1, Zenon DEF Wire!Next
  <2>4. CASE half = seg.outbound
    BY <2>1, <2>4, Zenon DEF Wire!vars
  <2> QED
    BY <2>2, <2>3, <2>4, Zenon
<1>7. CASE Capture \/ Telemeter \/ UNCHANGED vars
  BY <1>7, <1>1, Zenon DEF Capture, Telemeter, vars, streamer
<1>8. CASE IdleStep
  BY <1>8, <1>1, <1>2, <1>3, Zenon DEF IdleStep, EnsureConnected, IdleSocketLost, IdleRecv,
     IdleDisconnected, LinkKept
<1>9. CASE OnsetStep
  BY <1>9, <1>1, <1>2, <1>3, <1>4, Zenon DEF OnsetStep, OnsetConnect, OnsetConnectFails,
     PlanSegmentStart, StartBackpressure, StartFails, Reconnect, LinkKept
<1>10. CASE SegmentStep
  BY Zenon, <1>10, <1>1, <1>3, <1>5, <1>6 DEF SegmentStep, DrainMsg, DrainEnds, LoadFlag, SelectEnd,
     SelectTelemetry, SelectAudio, PaceHolds, CopyFrame, WouldBlock, SegmentSocketLost,
     WithinDeadlines, DeadlineElapses, LinkKept
<1> QED
  BY <1>7, <1>8, <1>9, <1>10, Zenon DEF Next

(* run_streamer_loop and run_segment keep the protocol: on every           *)
(* connection the pod sends what UplinkProtocol allows, in whatever pieces *)
(* the socket takes it, whatever the capture and telemetry threads do.     *)
THEOREM StreamerImplementsUplink == Spec => ImplementsUplinkProtocol
<1>1. Init => Wire!Init
  BY Zenon DEF Init, Wire!Init, NoFrame
<1>2. IInv /\ [Next]_vars => [Wire!Next]_(Wire!vars)
  BY WireStep, Zenon
<1> QED
  BY <1>1, <1>2, StreamerInvariance, PTL DEF Spec, ImplementsUplinkProtocol, Wire!Spec
=============================================================================
