------------------------------ MODULE SessionFsm ------------------------------
(***************************************************************************)
(* The sans-I/O session machine of pod-ingest session.rs: Feed and Close   *)
(* map a session, a frame and the resume ledger to the next session, the   *)
(* next ledger and the events emitted.  Frames are those of UplinkProtocol *)
(* plus the ones a host must survive: a Hello of another version or format *)
(* (BadHello) or another pod (ForeignHello), a downlink Control frame and  *)
(* audio with an odd byte count (OddAudio).                                *)
(*                                                                         *)
(* Left out: clocks and telemetry payloads, counters, and the events of    *)
(* non-fatal violations, which only reach the log.  Audio is counted in    *)
(* samples.                                                                *)
(***************************************************************************)
EXTENDS ResumeLedger

NoSegment == [segment_id |-> -1, is_resume |-> FALSE, samples_received |-> 0,
              last_index |-> 0, last_samples |-> 0]

NewSession == [state |-> "AwaitHello", seg |-> NoSegment]

(* Events. *)
HelloAccepted(own)       == [type |-> "HelloAccepted", own |-> own]
Fatal                    == [type |-> "Fatal"]
SegmentOpened(id, base, is_resume) ==
  [type |-> "SegmentOpened", id |-> id, base |-> base, is_resume |-> is_resume]
AudioEvent(id, first, n, gap) ==
  [type |-> "Audio", id |-> id, first |-> first, n |-> n, gap |-> gap]
TelemetryEvent(id)       == [type |-> "Telemetry", id |-> id]
SegmentClosed(id, close) == [type |-> "SegmentClosed", id |-> id, close |-> close]

Step(s, L, events) == [fsm |-> s, ledger |-> L, events |-> events]

IdleSession == [state |-> "Idle", seg |-> NoSegment]
DeadSession == [state |-> "Dead", seg |-> NoSegment]

(* truncate_open_segment: the ledger note is made under its lock. *)
TruncateOpenSegment(s, L, pod) ==
  Step(IdleSession,
       NoteTruncated(L, pod, s.seg.segment_id),
       <<SegmentClosed(s.seg.segment_id, "Truncated")>>)

OpenSegment(s, f, L, pod) ==
  LET resume == TakeResume(L, pod, f.id)
  IN  Step([state |-> "InSegment",
            seg   |-> [segment_id |-> f.id, is_resume |-> resume.found,
                       samples_received |-> 0, last_index |-> f.base,
                       last_samples |-> 0]],
           resume.ledger,
           <<SegmentOpened(f.id, f.base, resume.found)>>)

(* feed_await_hello *)
FeedAwaitHello(s, f, L) ==
  IF f.type \in {"Hello", "ForeignHello"}
    THEN Step(IdleSession, L, <<HelloAccepted(f.type = "Hello")>>)
    ELSE Step(DeadSession, L, <<Fatal>>)

(* feed_idle: everything but a SegmentStart is skipped. *)
FeedIdle(s, f, L, pod) ==
  IF f.type = "SegmentStart" THEN OpenSegment(s, f, L, pod) ELSE Step(s, L, <<>>)

(* The variant loses count of what was received before. *)
ReceivedLast(seg, n) == n

Received(seg, n) == seg.samples_received + n

OnAudio(s, f, L) ==
  LET n == Len(f.pcm)
  IN  Step([s EXCEPT !.seg = [@ EXCEPT !.last_index = f.first, !.last_samples = n,
                                       !.samples_received = Received(s.seg, n)]],
           L,
           <<AudioEvent(s.seg.segment_id, f.first, n,
                        f.first # s.seg.last_index + s.seg.last_samples)>>)

CrossCheck(seg, samples_sent) ==
  CASE seg.is_resume                        -> "SkippedResume"
    [] ~seg.is_resume /\ samples_sent = seg.samples_received -> "Match"
    [] OTHER                                -> "Mismatch"

(* feed_in_segment.  A duplicate SegmentStart truncates, then opens: two
   sections of the ledger lock, one step here. *)
FeedInSegment(s, f, L, pod) ==
  CASE f.type = "SegmentStart" ->
         LET cut  == TruncateOpenSegment(s, L, pod)
             next == OpenSegment(cut.fsm, f, cut.ledger, pod)
         IN  [next EXCEPT !.events = cut.events \o @]
    [] f.type = "Audio"      -> OnAudio(s, f, L)
    [] f.type = "Telemetry"  -> Step(s, L, <<TelemetryEvent(s.seg.segment_id)>>)
    [] f.type = "SegmentEnd" ->
         Step(IdleSession, L,
              <<SegmentClosed(s.seg.segment_id, CrossCheck(s.seg, f.samples))>>)
    [] OTHER                 -> Step(s, L, <<>>)

(* A frame fed to a dead session emits nothing (debug builds assert). *)
Feed(s, f, L, pod) ==
  CASE s.state = "AwaitHello" -> FeedAwaitHello(s, f, L)
    [] s.state = "Idle"       -> FeedIdle(s, f, L, pod)
    [] s.state = "InSegment"  -> FeedInSegment(s, f, L, pod)
    [] s.state = "Dead"       -> Step(s, L, <<>>)

Close(s, L, pod) ==
  IF s.state = "InSegment"
    THEN [TruncateOpenSegment(s, L, pod) EXCEPT !.fsm = DeadSession]
    ELSE Step(DeadSession, L, <<>>)
=============================================================================
