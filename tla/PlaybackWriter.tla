---------------------------- MODULE PlaybackWriter ----------------------------
(***************************************************************************)
(* The host's paced playback writer of one pod connection (speech-pipeline *)
(* playback.rs) and the handle other tasks reach it through.               *)
(*                                                                         *)
(* The writer is one task.  A step of it ends where it awaits a write, a   *)
(* timer, an event or the job queue; between two steps a handle may enqueue*)
(* a job, ask for a flush, be dropped, or the connection be cancelled.     *)
(* Time is counted in frames.  Clips are numbered in the order in which    *)
(* they are offered.  Left out: the PCM itself, the estimate of what was   *)
(* heard that a flush answers with, and the counters.                      *)
(***************************************************************************)
EXTENDS Integers, Sequences, FiniteSets, SequencesExt

CONSTANTS Clip,         \* Clip[j] = [turn, frames, interruptible, may_wake]
          JobQueueDepth,
          Lead,         \* lead_ms, in frames
          Hop,          \* PLAYBACK_PLAYOUT_HOP_MS, in frames
          MaxElapsed    \* bound: age of a stream clock

ASSUME PacerAssumption ==
  JobQueueDepth \in Nat \ {0} /\ Lead \in Nat /\ Hop \in Nat

Job    == DOMAIN Clip
NoTurn == 0
NoJob  == 0
Unset  == -1
Turn   == {Clip[j].turn : j \in Job} \ {NoTurn}

VARIABLES
  pc,                   \* where the writer is
  rx, rx_open,          \* the job queue; not closed by the receiver
  senders,              \* a handle is still held
  cancel,
  pending, deferred, queue_closed, last_audible, marked_turn,
  anchor,               \* age of the stream clock, Unset without one
  frames_in_stream,
  job,                  \* the job being written, its frames out, and rewritten
  cut,                  \* the turn a flush is cutting
  current, target,      \* JobProgress::current and FlushSignal::target
  started, ended,       \* history: per job, Started and terminal events
  device, wire          \* history: frames of a job the device got since the
                        \* last FlushPlayback; the frame written last

queueVars  == <<rx, rx_open, senders, cancel>>
clockVars  == <<anchor, frames_in_stream>>
floorVars  == <<last_audible, marked_turn>>
eventVars  == <<started, ended>>
deviceVars == <<device, wire>>
writerVars == <<pc, queueVars, pending, deferred, queue_closed, floorVars,
                clockVars, job, cut, current, target, eventVars, deviceVars>>

TurnOf(j) == IF j = NoJob THEN NoTurn ELSE Clip[j].turn
Idle      == [id |-> NoJob, frames |-> 0, rewritten |-> FALSE]
Silence   == [turn |-> NoTurn, interruptible |-> FALSE, may_wake |-> FALSE,
              active |-> FALSE]

WriterInit ==
  /\ pc = "hello"
  /\ rx = <<>> /\ rx_open = TRUE /\ senders = TRUE /\ cancel = FALSE
  /\ pending = <<>> /\ deferred = <<>> /\ queue_closed = FALSE
  /\ last_audible = Silence /\ marked_turn = NoTurn
  /\ anchor = Unset /\ frames_in_stream = 0
  /\ job = Idle /\ cut = NoTurn
  /\ current = NoJob /\ target = NoTurn
  /\ started = [j \in Job |-> 0] /\ ended = [j \in Job |-> <<>>]
  /\ device = [j \in Job |-> 0] /\ wire = "none"

-----------------------------------------------------------------------------
(* Pieces of the writer's steps. *)

Audible(p) == IF p = <<>> THEN NoJob ELSE Head(p).id
IdsOf(s)   == [i \in DOMAIN s |-> s[i].id]

publish_current(p) == current' = Audible(p)

(* The audible job and whether its turn has said the wake phrase. *)
OwnWords(j) == Clip[j].may_wake       \* variant: the clip's words only
Wakes(j) == Clip[j].may_wake \/ (TurnOf(j) # NoTurn /\ TurnOf(j) = marked_turn)

emit_audible(p) ==
  LET j == Audible(p) IN
  IF j = NoJob
  THEN last_audible' = Silence /\ UNCHANGED marked_turn
  ELSE /\ last_audible' = [turn |-> TurnOf(j), interruptible |-> Clip[j].interruptible,
                           may_wake |-> Wakes(j), active |-> TRUE]
       /\ marked_turn' = IF TurnOf(j) = NoTurn THEN marked_turn
                         ELSE IF Wakes(j) THEN TurnOf(j) ELSE NoTurn

Ends(S, how) ==
  ended' = [j \in Job |-> IF j \in S THEN Append(ended[j], how) ELSE ended[j]]

Due   == pending # <<>> /\ Head(pending).ends # Unset /\ Head(pending).ends <= anchor
Ahead == IF anchor = Unset THEN 0 ELSE frames_in_stream - anchor

(* The writer gives up on the job it writes; the backlog follows in Drain. *)
AbortJob ==
  /\ pending' = IF job.frames > 0 THEN Front(pending) ELSE pending
  /\ publish_current(pending')
  /\ Ends({job.id}, "aborted")
  /\ job' = Idle
  /\ pc' = "drain"
  /\ UNCHANGED <<queueVars, deferred, queue_closed, floorVars, clockVars, cut,
                 target, started, deviceVars>>

(* drain_aborted: the queue is closed first, then everything banked, parked or
   queued is aborted.  Nothing another task does meets the events in between. *)
Drain ==
  /\ pc = "drain"
  /\ rx_open' = FALSE
  /\ Ends(ToSet(IdsOf(pending) \o IdsOf(deferred) \o rx), "aborted")
  /\ pending' = <<>> /\ deferred' = <<>> /\ rx' = <<>>
  /\ publish_current(<<>>) /\ emit_audible(<<>>)
  /\ pc' = "dead"
  /\ UNCHANGED <<senders, cancel, queue_closed, clockVars, job, cut, target,
                 started, deviceVars>>

-----------------------------------------------------------------------------
(* run *)

HelloWritten ==
  /\ pc = "hello" /\ ~cancel
  /\ wire' = "hello" /\ pc' = "idle"
  /\ UNCHANGED <<queueVars, pending, deferred, queue_closed, floorVars, clockVars,
                 job, cut, current, target, eventVars, device>>

HelloFailed ==
  /\ pc = "hello" /\ pc' = "drain"
  /\ UNCHANGED <<queueVars, pending, deferred, queue_closed, floorVars, clockVars,
                 job, cut, current, target, eventVars, deviceVars>>

(* retire_heard, one job of its loop. *)
Retire ==
  /\ pc \in {"idle", "slot"} /\ Due
  /\ pending' = Tail(pending)
  /\ publish_current(pending') /\ emit_audible(pending')
  /\ Ends({Head(pending).id}, "finished")
  /\ IF pending' = <<>> THEN anchor' = Unset /\ frames_in_stream' = 0
                        ELSE UNCHANGED clockVars
  /\ UNCHANGED <<pc, queueVars, deferred, queue_closed, job, cut, target, started,
                 deviceVars>>

StartJob(j, rewritten) ==
  /\ job' = [id |-> j, frames |-> 0, rewritten |-> rewritten]
  /\ pc' = IF Clip[j].frames = 0 THEN "complete" ELSE "slot"
  /\ UNCHANGED <<rx_open, senders, cancel, pending, queue_closed, floorVars,
                 clockVars, cut, current, target, eventVars, deviceVars>>

(* next_step: deferred jobs first, ... *)
TakeDeferred ==
  /\ pc = "idle" /\ ~Due /\ deferred # <<>>
  /\ deferred' = Tail(deferred)
  /\ StartJob(Head(deferred).id, Head(deferred).started)
  /\ UNCHANGED rx

(* Variant: the queue is served before the jobs parked. *)
TakeJobFirst ==
  /\ pc = "idle" /\ ~Due /\ target = NoTurn /\ ~cancel
  /\ ~queue_closed /\ rx # <<>>
  /\ rx' = Tail(rx)
  /\ StartJob(Head(rx), FALSE)
  /\ UNCHANGED deferred

(* ... then the queue, ... *)
TakeJob ==
  /\ pc = "idle" /\ ~Due /\ deferred = <<>> /\ target = NoTurn /\ ~cancel
  /\ ~queue_closed /\ rx # <<>>
  /\ rx' = Tail(rx)
  /\ StartJob(Head(rx), FALSE)
  /\ UNCHANGED deferred

(* ... or its end: the writer stays until the bank is heard out. *)
QueueClosed ==
  /\ pc = "idle" /\ ~Due /\ deferred = <<>> /\ target = NoTurn /\ ~cancel
  /\ ~queue_closed /\ rx = <<>> /\ ~senders
  /\ queue_closed' = TRUE
  /\ pc' = IF pending = <<>> THEN "dead" ELSE "idle"
  /\ UNCHANGED <<queueVars, pending, deferred, floorVars, clockVars, job, cut,
                 current, target, eventVars, deviceVars>>

HeardOut ==
  /\ pc = "idle" /\ deferred = <<>> /\ target = NoTurn
  /\ queue_closed /\ pending = <<>>
  /\ pc' = "dead"
  /\ UNCHANGED <<queueVars, pending, deferred, queue_closed, floorVars, clockVars,
                 job, cut, current, target, eventVars, deviceVars>>

Cancelled ==
  /\ pc = "idle" /\ ~Due /\ deferred = <<>> /\ cancel
  /\ ~(queue_closed /\ pending = <<>>)
  /\ pc' = "drain"
  /\ UNCHANGED <<queueVars, pending, deferred, queue_closed, floorVars, clockVars,
                 job, cut, current, target, eventVars, deviceVars>>

-----------------------------------------------------------------------------
(* play_job and wait_frame_slot *)

SlotReady ==
  /\ pc = "slot" /\ ~Due /\ target = NoTurn
  /\ Ahead <= Lead
  /\ anchor' = IF anchor = Unset THEN 0 ELSE anchor
  /\ pc' = "audio"
  /\ UNCHANGED <<queueVars, pending, deferred, queue_closed, floorVars,
                 frames_in_stream, job, cut, current, target, eventVars, deviceVars>>

SlotCancelled ==
  /\ pc = "slot" /\ ~Due /\ cancel
  /\ Ahead > Lead
  /\ AbortJob

AudioWritten ==
  /\ pc = "audio" /\ ~cancel
  /\ frames_in_stream' = frames_in_stream + 1
  /\ job' = [job EXCEPT !.frames = @ + 1]
  /\ device' = [device EXCEPT ![job.id] = @ + 1] /\ wire' = "audio"
  /\ IF job.frames = 0
     THEN /\ pending' = Append(pending, [id |-> job.id, ends |-> Unset])
          /\ publish_current(pending')
          /\ started' = [started EXCEPT ![job.id] = IF job.rewritten THEN @ ELSE @ + 1]
          /\ emit_audible(pending')
     ELSE UNCHANGED <<pending, current, started, floorVars>>
  /\ pc' = IF job.frames + 1 = Clip[job.id].frames THEN "complete" ELSE "slot"
  /\ UNCHANGED <<queueVars, deferred, queue_closed, anchor, cut, target, ended>>

AudioFailed == pc = "audio" /\ AbortJob

(* The job's audio is all out: its audible end is dated on the stream clock.
   An empty clip never reached the stream and has been heard. *)
Written ==
  /\ IF job.frames > 0
     THEN /\ pending' = [pending EXCEPT ![Len(pending)].ends = Hop + frames_in_stream]
          /\ UNCHANGED ended
     ELSE Ends({job.id}, "finished") /\ UNCHANGED pending
  /\ job' = Idle /\ pc' = "idle"
  /\ UNCHANGED <<queueVars, deferred, queue_closed, floorVars, clockVars, cut,
                 current, target, started, device>>

Drained == deferred = <<>> /\ rx = <<>>

Continue == pc = "complete" /\ ~Drained /\ Written /\ UNCHANGED wire

EndStream ==
  /\ pc = "complete" /\ Drained /\ pc' = "eoa"
  /\ UNCHANGED <<queueVars, pending, deferred, queue_closed, floorVars, clockVars,
                 job, cut, current, target, eventVars, deviceVars>>

EoaWritten == pc = "eoa" /\ ~cancel /\ Written /\ wire' = "eoa"
EoaFailed  == pc = "eoa" /\ AbortJob

-----------------------------------------------------------------------------
(* take_flush_for and handle_flush *)

FlushPoint ==
  /\ target # NoTurn /\ ~Due
  /\ pc = "slot" \/ (pc = "idle" /\ deferred = <<>>)

(* A target that does not name the audible job's turn is dropped. *)
StaleFlushLingers ==       \* variant: the mismatch leaves the target
  FlushPoint /\ TurnOf(Audible(pending)) # target /\ UNCHANGED writerVars

StaleFlush ==
  /\ FlushPoint /\ TurnOf(Audible(pending)) # target
  /\ target' = NoTurn
  /\ UNCHANGED <<pc, queueVars, pending, deferred, queue_closed, floorVars,
                 clockVars, job, cut, current, eventVars, deviceVars>>

(* The audible job is cut and reported; current is not published yet. *)
CutAudible ==
  /\ FlushPoint /\ TurnOf(Audible(pending)) = target
  /\ cut' = target /\ target' = NoTurn
  /\ pending' = Tail(pending)
  /\ Ends({Audible(pending)}, "cut")
  /\ pc' = "evict"
  /\ UNCHANGED <<queueVars, deferred, queue_closed, floorVars, clockVars, job,
                 current, started, deviceVars>>

OfCut(d)  == TurnOf(d.id) = cut
Spared(d) == ~OfCut(d)

Unwritten ==
  IF job.id # NoJob /\ job.frames = 0
  THEN <<[id |-> job.id, started |-> FALSE]>> ELSE <<>>

(* Everything banked and the job in hand goes ahead of the jobs parked before. *)
Requeued ==
  [i \in DOMAIN pending |-> [id |-> pending[i].id, started |-> TRUE]]
    \o Unwritten \o deferred

(* Variant: another turn's banked jobs stay on the stream the device discards. *)
EvictTurnOnly ==
  /\ pc = "evict"
  /\ pending' = SelectSeq(pending, Spared) /\ publish_current(pending')
  /\ deferred' = SelectSeq(Unwritten \o deferred, Spared)
  /\ Ends(ToSet(IdsOf(SelectSeq(Requeued, OfCut))), "flushed")
  /\ job' = Idle
  /\ pc' = "sweep"
  /\ UNCHANGED <<queueVars, queue_closed, floorVars, clockVars, cut, target, started,
                 deviceVars>>

Evict ==
  /\ pc = "evict"
  /\ deferred' = SelectSeq(Requeued, Spared)
  /\ Ends(ToSet(IdsOf(SelectSeq(Requeued, OfCut))), "flushed")
  /\ pending' = <<>> /\ publish_current(<<>>)
  /\ job' = Idle
  /\ pc' = "sweep"
  /\ UNCHANGED <<queueVars, queue_closed, floorVars, clockVars, cut, target, started,
                 deviceVars>>

Sweep ==
  /\ pc = "sweep" /\ rx # <<>>
  /\ rx' = Tail(rx)
  /\ IF TurnOf(Head(rx)) = cut
     THEN Ends({Head(rx)}, "flushed") /\ UNCHANGED deferred
     ELSE /\ deferred' = Append(deferred, [id |-> Head(rx), started |-> FALSE])
          /\ UNCHANGED ended
  /\ UNCHANGED <<pc, rx_open, senders, cancel, pending, queue_closed, floorVars,
                 clockVars, job, cut, current, target, started, deviceVars>>

Swept ==
  /\ pc = "sweep" /\ rx = <<>> /\ pc' = "flush"
  /\ UNCHANGED <<queueVars, pending, deferred, queue_closed, floorVars, clockVars,
                 job, cut, current, target, eventVars, deviceVars>>

FlushWritten ==
  /\ pc = "flush" /\ ~cancel
  /\ device' = [j \in Job |-> 0] /\ wire' = "flush"
  /\ anchor' = Unset /\ frames_in_stream' = 0
  /\ emit_audible(<<>>)
  /\ cut' = NoTurn /\ pc' = "idle"
  /\ UNCHANGED <<queueVars, pending, deferred, queue_closed, job, current, target,
                 eventVars>>

FlushFailed ==
  /\ pc = "flush" /\ pc' = "drain"
  /\ UNCHANGED <<queueVars, pending, deferred, queue_closed, floorVars, clockVars,
                 job, cut, current, target, eventVars, deviceVars>>

WriterNext ==
  \/ HelloWritten \/ HelloFailed \/ Retire \/ TakeDeferred \/ TakeJob \/ QueueClosed
  \/ HeardOut \/ Cancelled \/ SlotReady \/ SlotCancelled \/ AudioWritten
  \/ AudioFailed \/ Continue \/ EndStream \/ EoaWritten \/ EoaFailed \/ StaleFlush
  \/ CutAudible \/ Evict \/ Sweep \/ Swept \/ FlushWritten \/ FlushFailed \/ Drain

-----------------------------------------------------------------------------
(* The handle, and what happens around the writer. *)

Accepts == rx_open /\ pc # "dead" /\ Len(rx) < JobQueueDepth

try_play(j) ==
  /\ rx' = IF Accepts THEN Append(rx, j) ELSE rx
  /\ UNCHANGED <<pc, rx_open, senders, cancel, pending, deferred, queue_closed,
                 floorVars, clockVars, job, cut, current, target, eventVars, deviceVars>>

current_turn == TurnOf(current)

FlushGranted(turn) ==
  /\ rx_open /\ pc # "dead"
  /\ turn # NoTurn /\ turn = TurnOf(current)
  /\ Clip[current].interruptible

flush(turn) ==
  /\ target' = IF FlushGranted(turn) THEN turn ELSE target
  /\ UNCHANGED <<pc, queueVars, pending, deferred, queue_closed, floorVars,
                 clockVars, job, cut, current, eventVars, deviceVars>>

DropHandle ==
  /\ senders /\ senders' = FALSE
  /\ UNCHANGED <<pc, rx, rx_open, cancel, pending, deferred, queue_closed, floorVars,
                 clockVars, job, cut, current, target, eventVars, deviceVars>>

Cancel ==
  /\ ~cancel /\ cancel' = TRUE
  /\ UNCHANGED <<pc, rx, rx_open, senders, pending, deferred, queue_closed, floorVars,
                 clockVars, job, cut, current, target, eventVars, deviceVars>>

Tick ==
  /\ anchor # Unset /\ anchor < MaxElapsed
  /\ anchor' = anchor + 1
  /\ UNCHANGED <<pc, queueVars, pending, deferred, queue_closed, floorVars,
                 frames_in_stream, job, cut, current, target, eventVars, deviceVars>>

-----------------------------------------------------------------------------
(* The writer's state is well typed and the job queue never holds more than
   job_queue_depth jobs. *)
WriterTypeOK ==
  /\ pc \in {"hello", "idle", "slot", "audio", "complete", "eoa", "evict", "sweep",
             "flush", "drain", "dead"}
  /\ rx \in Seq(Job) /\ Len(rx) <= JobQueueDepth
  /\ rx_open \in BOOLEAN /\ senders \in BOOLEAN /\ cancel \in BOOLEAN
  /\ queue_closed \in BOOLEAN
  /\ pending \in Seq([id : Job, ends : Nat \cup {Unset}])
  /\ deferred \in Seq([id : Job, started : BOOLEAN])
  /\ marked_turn \in Turn \cup {NoTurn}
  /\ anchor \in 0..MaxElapsed \cup {Unset} /\ frames_in_stream \in Nat
  /\ job.id \in Job \cup {NoJob} /\ job.frames \in Nat
  /\ cut \in Turn \cup {NoTurn} /\ target \in Turn \cup {NoTurn}
  /\ current \in Job \cup {NoJob}

(* Every job the writer accepted comes to one end only: heard out, cut, evicted
   or aborted (the terminal PlaybackEvents the turn ledger settles from).  It is
   reported Finished only when the device got all of its frames since the last
   FlushPlayback: a job banked behind a cut is written again whole. *)
OneTrueEnding ==
  [][\A j \in Job : ended'[j] # ended[j] =>
       /\ ended[j] = <<>> /\ Len(ended'[j]) = 1
       /\ Last(ended'[j]) = "finished" => device[j] = Clip[j].frames]_writerVars

InHandOnly == IF job.id # NoJob /\ job.frames = 0 THEN <<job.id>> ELSE <<>>
Backlog == IdsOf(pending) \o InHandOnly \o IdsOf(deferred) \o rx

(* What the writer has not ended is banked, in hand, parked and queued in the
   order it was offered, whatever flushes handle_flush served in between. *)
BacklogInOrder ==
  \A a, b \in DOMAIN Backlog : a < b => Backlog[a] < Backlog[b]

(* A clip of j's turn before j, with no other turn between, said the wake phrase. *)
SaidBefore(j) ==
  \E i \in 1..j-1 : /\ Clip[i].may_wake /\ started[i] > 0
                    /\ \A k \in i..j : TurnOf(k) = TurnOf(j)

(* Between jobs and between frames, what emit_audible last told the listener's
   floor is the job at the front of pending.  Once a clip of a turn said the wake
   phrase, the later clips of that turn are reported as saying it, also across a
   silence between them (marked_turn).  And run never leaves the stream open: with
   nothing to play, the last frame the device got is an EndOfAudio or a
   FlushPlayback. *)
FloorIsTrue ==
  pc \in {"idle", "slot", "dead"} =>
    LET j == Audible(pending) IN
    /\ pc = "idle" /\ Backlog = <<>> => wire # "audio"
    /\ last_audible.active = (j # NoJob)
    /\ j # NoJob => /\ last_audible.turn = TurnOf(j)
                    /\ last_audible.interruptible = Clip[j].interruptible
                    /\ TurnOf(j) # NoTurn /\ SaidBefore(j) => last_audible.may_wake

(* A job written again after a flush reports no second Started (play_job). *)
StartedOnce == \A j \in Job : started[j] <= 1
=============================================================================
