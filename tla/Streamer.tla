------------------------------- MODULE Streamer -------------------------------
(***************************************************************************)
(* The streamer thread: run_streamer_loop (pod-streamer run.rs) and        *)
(* run_segment (segment.rs), against the telemetry thread (VadGate), the   *)
(* capture thread (CaptureRing) and a socket whose writes complete, stop   *)
(* half way, block or fail as they please.  A step is what happens between *)
(* two accesses to something shared: the channel, the flag, the ring lock, *)
(* the socket.  Time is abstract: a deadline may have passed whenever it   *)
(* is looked at, and a reconnect backoff is the choice not to connect yet. *)
(***************************************************************************)
EXTENDS VadGate, CaptureRing

CONSTANTS FrameSamples,    \* AUDIO_SAMPLES_PER_FRAME
          FramesPerWake,   \* OUTBOUND_FRAMES_PER_WAKE
          PendingCap,      \* PENDING_TELEMETRY_CAP
          MaxFaults,       \* bound on socket losses between segments
          MayDie           \* the telemetry thread may go away

ASSUME StreamerAssumption ==
  /\ FrameSamples \in Nat \ {0} /\ FramesPerWake \in Nat \ {0}
  /\ PendingCap \in Nat \ {0} /\ MaxFaults \in Nat /\ MayDie \in BOOLEAN

VARIABLES spc,             \* where the thread is
          link,            \* a connection is in hand
          fresh,           \* fresh_connect, or the one reconnect was used
          segment_counter,
          seg,             \* the locals of the onset and of run_segment
          sess, half, out, \* ghost: what the current connection was sent
          faults           \* socket losses between segments so far

streamer == <<spc, link, fresh, segment_counter, seg, sess, half,
              out, faults>>
vars     == <<gate, flag, chan, write_head, streamer>>

Wire == INSTANCE UplinkProtocol WITH up <- link, MayResume <- FALSE

NoFrame == Wire!NoFrame
NoEnd   == "none"

NoSegment ==
  [vad_write_head |-> 0, onset |-> 0, segment_id |-> 0, read_cursor |-> 0,
   samples_sent |-> 0, vad_closed |-> FALSE, channel_lost |-> FALSE,
   segment_end |-> NoEnd, outbound |-> NoFrame, wrote |-> FALSE,
   write_blocked |-> FALSE, pending |-> 0, frames_this_wake |-> 0, planned |-> 0]

Init ==
  /\ GateInit
  /\ write_head = 0
  /\ spc = "idle" /\ link = FALSE /\ fresh = FALSE
  /\ segment_counter = 0 /\ seg = NoSegment
  /\ sess = Wire!NoSession /\ half = NoFrame /\ out = Wire!Hello
  /\ faults = 0

-----------------------------------------------------------------------------
(* The connection.  note_socket_lost and note_socket_established also touch *)
(* the playback sink; PlaybackSink has that half.                           *)

Connect ==
  /\ ~link
  /\ link' = TRUE
  /\ sess' = [sess EXCEPT !.phase = "idle"]
  /\ half' = NoFrame
  /\ out' = Wire!Hello

NoteSocketLost ==
  /\ link
  /\ link' = FALSE
  /\ sess' = [sess EXCEPT !.phase = "none"]
  /\ half' = NoFrame
  /\ out' = out

(* A frame the kernel has taken whole. *)
Sent(f) ==
  /\ sess' = Wire!SessAfter(sess, f)
  /\ half' = NoFrame
  /\ out' = f

BackToIdle == spc' = "idle" /\ seg' = NoSegment /\ fresh' = FALSE

LinkKept == UNCHANGED <<link, sess, half, out>>

Goto(pc) == spc' = pc /\ UNCHANGED fresh

-----------------------------------------------------------------------------
(* The idle half of run_streamer_loop *)

EnsureConnected ==
  /\ spc = "idle"
  /\ Connect
  /\ UNCHANGED <<gate, flag, chan, write_head, spc, fresh, segment_counter, seg, faults>>

(* A poll fault or a failed inbound drain, before or after the onset of    *)
(* this iteration was taken.                                               *)
IdleSocketLost ==
  /\ spc = "idle" \/ (spc = "onset" /\ ~fresh)
  /\ faults < MaxFaults /\ faults' = faults + 1
  /\ NoteSocketLost
  /\ UNCHANGED <<gate, flag, chan, write_head, spc, fresh, segment_counter, seg>>

IdleRecv ==
  /\ spc = "idle" /\ chan # <<>>
  /\ LET m == Head(chan)
     IN  IF m.type = "VadOpened"
           THEN /\ spc' = "onset"
                /\ seg' = [NoSegment EXCEPT !.vad_write_head = m.write_head,
                                            !.onset = m.onset]
           ELSE UNCHANGED <<spc, seg>>
  /\ chan' = Tail(chan)
  /\ LinkKept
  /\ UNCHANGED <<gate, flag, write_head, fresh, segment_counter, faults>>

IdleDisconnected ==
  /\ spc = "idle" /\ chan = <<>> /\ tpc = "dead"
  /\ Goto("exited")
  /\ LinkKept
  /\ UNCHANGED <<gate, flag, chan, write_head, segment_counter, seg, faults>>

OnsetConnect ==
  /\ spc = "onset"
  /\ Connect
  /\ fresh' = TRUE
  /\ UNCHANGED <<gate, flag, chan, write_head, spc, segment_counter, seg, faults>>

(* Real time or drop: the utterance goes with the failed connect. *)
OnsetConnectFails ==
  /\ spc \in {"onset", "reconnect"} /\ ~link
  /\ BackToIdle
  /\ LinkKept
  /\ UNCHANGED <<gate, flag, chan, write_head, segment_counter, faults>>

PlanSegmentStart ==
  /\ spc = "onset" /\ link
  /\ seg' = [seg EXCEPT !.segment_id = segment_counter,
                        !.read_cursor = preroll_cursor(seg.vad_write_head)]
  /\ segment_counter' = segment_counter + 1
  /\ Goto("start")
  /\ LinkKept
  /\ UNCHANGED <<gate, flag, chan, write_head, faults>>

StartSent ==
  /\ spc = "start"
  /\ Sent(Wire!SegmentStart(seg.segment_id, seg.read_cursor))
  /\ spc' = "drain" /\ fresh' = FALSE
  /\ UNCHANGED <<gate, flag, chan, write_head, link, segment_counter, seg, faults>>

StartBackpressure ==
  /\ spc = "start"
  /\ BackToIdle
  /\ LinkKept
  /\ UNCHANGED <<gate, flag, chan, write_head, segment_counter, faults>>

StartFails ==
  /\ spc = "start"
  /\ NoteSocketLost
  /\ IF fresh THEN BackToIdle ELSE Goto("reconnect") /\ UNCHANGED seg
  /\ UNCHANGED <<gate, flag, chan, write_head, segment_counter, faults>>

Reconnect ==
  /\ spc = "reconnect"
  /\ Connect
  /\ spc' = "start" /\ fresh' = TRUE
  /\ UNCHANGED <<gate, flag, chan, write_head, segment_counter, seg, faults>>

-----------------------------------------------------------------------------
(* run_segment: one wake drains the channel, looks at the flag, and pumps  *)
(* frames out until there is none, the socket blocks or the wake is spent. *)

PendingAfter(n) == IF n < PendingCap THEN n + 1 ELSE n

DrainMsg ==
  /\ spc = "drain" /\ chan # <<>> /\ ~seg.channel_lost
  /\ LET m == Head(chan)
     IN  /\ seg' = CASE m.type = "Telemetry" ->
                          [seg EXCEPT !.pending = PendingAfter(@)]
                     [] m.type = "VadClosed" -> [seg EXCEPT !.vad_closed = TRUE]
                     [] m.type = "VadOpened" -> seg
  /\ chan' = Tail(chan)
  /\ LinkKept
  /\ UNCHANGED <<gate, flag, write_head, spc, fresh, segment_counter, faults>>

DrainEnds ==
  /\ spc = "drain" /\ (chan = <<>> \/ seg.channel_lost)
  /\ seg' = IF tpc = "dead" /\ ~seg.channel_lost
              THEN [seg EXCEPT !.channel_lost = TRUE,
                               !.segment_end = IF @ = NoEnd THEN "InternalError" ELSE @]
              ELSE seg
  /\ Goto("flag")
  /\ LinkKept
  /\ UNCHANGED <<gate, flag, chan, write_head, segment_counter, faults>>

FlagSeen == flag

LoadFlag(writable) ==
  /\ spc = "flag"
  /\ seg' = [seg EXCEPT !.vad_closed = @ \/ FlagSeen,
                        !.write_blocked = @ /\ ~writable,
                        !.frames_this_wake = 0]
  /\ Goto(IF seg.outbound = NoFrame THEN "select" ELSE "write")
  /\ LinkKept
  /\ UNCHANGED <<gate, flag, chan, write_head, segment_counter, faults>>

SelectEnd ==
  /\ spc = "select" /\ seg.segment_end # NoEnd
  /\ seg' = [seg EXCEPT !.outbound =
               Wire!SegmentEnd(seg.segment_id, seg.samples_sent, seg.segment_end)]
  /\ Goto("write")
  /\ LinkKept
  /\ UNCHANGED <<gate, flag, chan, write_head, segment_counter, faults>>

SelectTelemetry ==
  /\ spc = "select" /\ seg.segment_end = NoEnd /\ seg.pending > 0
  /\ seg' = [seg EXCEPT !.outbound = Wire!TelemetryFrame, !.pending = @ - 1]
  /\ Goto("write")
  /\ LinkKept
  /\ UNCHANGED <<gate, flag, chan, write_head, segment_counter, faults>>

(* The variant closes on a release without sending what is left. *)
ResidueDropped(avail) == 0

Residue(avail) == avail

(* A full frame is ready and the pace gate holds it back. *)
PaceHolds ==
  /\ spc = "select" /\ seg.segment_end = NoEnd /\ seg.pending = 0
  /\ ~is_overrun(write_head, seg.read_cursor)
  /\ available(write_head, seg.read_cursor) >= FrameSamples
  /\ Goto("watch")
  /\ LinkKept
  /\ UNCHANGED <<gate, flag, chan, write_head, segment_counter, seg, faults>>

(* The audio arm's first look at the ring: lapped, a full frame that the   *)
(* pace gate lets go, the residue of a released gate, or nothing to send.  *)
SelectAudio ==
  /\ spc = "select" /\ seg.segment_end = NoEnd /\ seg.pending = 0
  /\ LET avail == available(write_head, seg.read_cursor)
         over  == is_overrun(write_head, seg.read_cursor)
     IN  \/ /\ over
            /\ seg' = [seg EXCEPT !.segment_end = "Overrun"]
            /\ Goto("select")
         \/ /\ ~over /\ avail >= FrameSamples
            /\ seg' = [seg EXCEPT !.planned = FrameSamples]
            /\ Goto("copy")
         \/ /\ ~over /\ avail < FrameSamples /\ seg.vad_closed
            /\ IF Residue(avail) > 0
                 THEN seg' = [seg EXCEPT !.planned = avail] /\ Goto("copy")
                 ELSE seg' = [seg EXCEPT !.segment_end = "VadRelease"] /\ Goto("select")
         \/ /\ ~over /\ avail < FrameSamples /\ ~seg.vad_closed
            /\ seg' = seg /\ Goto("watch")
  /\ LinkKept
  /\ UNCHANGED <<gate, flag, chan, write_head, segment_counter, faults>>

(* The variant copies without looking at the head again. *)
NotRechecked(head, cursor) == FALSE

LappedSinceRead(head, cursor) == is_overrun(head, cursor)

(* The copy, under the lock again. *)
CopyFrame ==
  /\ spc = "copy"
  /\ IF LappedSinceRead(write_head, seg.read_cursor)
       THEN /\ seg' = [seg EXCEPT !.segment_end = "Overrun", !.planned = 0]
            /\ Goto("select")
       ELSE /\ seg' = [seg EXCEPT
                 !.outbound = Wire!Audio(seg.segment_id, seg.read_cursor,
                                push_pcm_samples(write_head, seg.read_cursor, seg.planned)),
                 !.read_cursor = @ + seg.planned,
                 !.segment_end = IF seg.planned < FrameSamples THEN "VadRelease" ELSE @,
                 !.planned = 0]
            /\ Goto("write")
  /\ LinkKept
  /\ UNCHANGED <<gate, flag, chan, write_head, segment_counter, faults>>

-----------------------------------------------------------------------------
(* FrameWriteState *)

Writing == spc = "write" /\ ~seg.write_blocked

(* The variant counts every audio frame as a full one. *)
SamplesWhole(f) == IF f.type = "Audio" THEN FrameSamples ELSE 0

SamplesOf(f) == IF f.type = "Audio" THEN Len(f.pcm) ELSE 0

WroteWhole ==
  /\ Writing
  /\ Sent(seg.outbound)
  /\ IF seg.outbound.type = "SegmentEnd"
       THEN BackToIdle
       ELSE LET wake == seg.frames_this_wake + 1
            IN  /\ seg' = [seg EXCEPT !.samples_sent = @ + SamplesOf(seg.outbound),
                                      !.outbound = NoFrame, !.wrote = FALSE,
                                      !.frames_this_wake = wake]
                /\ Goto(IF wake >= FramesPerWake THEN "watch" ELSE "select")
  /\ UNCHANGED <<gate, flag, chan, write_head, link, segment_counter, faults>>

WrotePartial ==
  /\ Writing
  /\ seg' = [seg EXCEPT !.wrote = TRUE]
  /\ half' = seg.outbound
  /\ UNCHANGED <<link, sess, out, gate, flag, chan, write_head, spc, fresh, segment_counter, faults>>

WouldBlock ==
  /\ spc = "write"
  /\ seg' = [seg EXCEPT !.write_blocked = TRUE]
  /\ Goto("watch")
  /\ LinkKept
  /\ UNCHANGED <<gate, flag, chan, write_head, segment_counter, faults>>

(* A fault of the poll, of the inbound pump, or of a write. *)
SegmentSocketLost ==
  /\ spc = "drain" \/ Writing
  /\ NoteSocketLost
  /\ BackToIdle
  /\ UNCHANGED <<gate, flag, chan, write_head, segment_counter, faults>>

(* check_deadlines: still within both, or ... *)
WithinDeadlines ==
  /\ spc = "watch"
  /\ Goto("drain")
  /\ LinkKept
  /\ UNCHANGED <<gate, flag, chan, write_head, segment_counter, seg, faults>>

FrameAligned == ~seg.wrote

(* ... a budget is spent: aligned keeps the socket, mid-frame loses it. *)
DeadlineElapses ==
  /\ spc = "watch" /\ seg.outbound # NoFrame
  /\ IF FrameAligned THEN LinkKept ELSE NoteSocketLost
  /\ BackToIdle
  /\ UNCHANGED <<gate, flag, chan, write_head, segment_counter, faults>>

-----------------------------------------------------------------------------
Capture == \E k \in 1..MaxChunk : CaptureChunk(k) /\ UNCHANGED <<gate, flag, chan, streamer>>

Telemeter == \/ GateStep(write_head) /\ UNCHANGED <<write_head, streamer>>
             \/ MayDie /\ GateDies /\ UNCHANGED <<write_head, streamer>>

SegmentStep ==
  \/ DrainMsg \/ DrainEnds \/ (\E w \in BOOLEAN : LoadFlag(w))
  \/ SelectEnd \/ SelectTelemetry \/ SelectAudio \/ PaceHolds \/ CopyFrame
  \/ WroteWhole \/ WrotePartial \/ WouldBlock
  \/ SegmentSocketLost \/ WithinDeadlines \/ DeadlineElapses

OnsetStep ==
  \/ OnsetConnect \/ OnsetConnectFails \/ PlanSegmentStart
  \/ StartSent \/ StartBackpressure \/ StartFails \/ Reconnect

IdleStep == EnsureConnected \/ IdleSocketLost \/ IdleRecv \/ IdleDisconnected

Next == Capture \/ Telemeter \/ IdleStep \/ OnsetStep \/ SegmentStep

Spec == Init /\ [][Next]_vars

-----------------------------------------------------------------------------
TypeOK ==
  /\ GateTypeOK
  /\ write_head \in 0..MaxHead
  /\ spc \in {"idle", "onset", "start", "reconnect", "exited", "drain", "flag",
              "select", "copy", "write", "watch"}
  /\ link \in BOOLEAN /\ fresh \in BOOLEAN
  /\ segment_counter \in 0..MaxOnsets
  /\ seg.read_cursor \in 0..MaxHead /\ seg.samples_sent \in 0..MaxHead
  /\ seg.pending \in 0..PendingCap
  /\ seg.planned \in 0..FrameSamples
  /\ faults \in 0..MaxFaults

InSegment == spc \in {"drain", "flag", "select", "copy", "write", "watch"}

(* The wire: on every connection the pod sends what UplinkProtocol allows, *)
(* whatever the threads, the ring and the socket do.  Audio is contiguous  *)
(* and is what was captured under that index, SegmentEnd counts exactly    *)
(* the samples whose frames went out whole, and nothing is sent after a    *)
(* frame that stopped half way.                                            *)
ImplementsUplinkProtocol == Wire!Spec

(* A release reaches the segment it is for (note_vad_closed,               *)
(* note_vad_opened).  When the telemetry thread holds no segment open, a   *)
(* segment that still runs has the release in front of it, in the flag or  *)
(* in the channel, or has read it, even if the message for it, or the      *)
(* onset after it, was dropped.  "A stale true is never visible to a new   *)
(* segment": it takes the gate for released only if that came after its    *)
(* own onset.  The queues between the threads keep their bounds (TypeOK).  *)
ReleaseReachesItsSegment ==
  /\ TypeOK
  /\ (InSegment /\ ~segment_open /\ tpc \in {"rest", "doa", "closed", "forward"}) =>
        seg.vad_closed \/ flag \/ seg.channel_lost
  /\ (InSegment /\ seg.vad_closed) => released[seg.onset] # NotReleased

(* A segment that closes on the release has taken everything captured up   *)
(* to the moment its gate released.                                        *)
TailIsSent ==
  (InSegment /\ seg.segment_end = "VadRelease") =>
     seg.read_cursor >= released[seg.onset]

=============================================================================
