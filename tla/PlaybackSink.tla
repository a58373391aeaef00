----------------------------- MODULE PlaybackSink -----------------------------
(***************************************************************************)
(* The streamer thread's side of playback: RingSink / I2sStreamSink over   *)
(* the inbound ring, and the socket-lifecycle calls of pod-streamer        *)
(* idle.rs and inbound.rs that drive it.  flush_playback is two critical   *)
(* sections, so the drain may run in between.                              *)
(***************************************************************************)
EXTENDS InboundPcmRing

CONSTANTS MaxFrame,    \* largest audio frame
          MaxWritten,  \* bound on bytes ever written
          MaxResets,   \* bound on resets
          MaxMarks     \* bound on end-of-audio marks

ASSUME SinkAssumption ==
  /\ MaxFrame \in 1..Cap
  /\ MaxWritten \in Nat /\ MaxResets \in Nat /\ MaxMarks \in Nat

VARIABLES connected,   \* held_socket.is_some()
          flushing,    \* between the reset and the mark of a flush
          marked       \* marks pushed so far

sink == <<connected, flushing, marked>>

SinkInit == connected = FALSE /\ flushing = FALSE /\ marked = 0

(* accept: the frame is banked, or Full is returned and nothing changes. *)
Accept(need) ==
  /\ connected /\ ~flushing
  /\ written + need <= MaxWritten
  /\ Write(need)
  /\ UNCHANGED sink

(* An inbound EndOfAudio frame. *)
EndOfAudio ==
  /\ connected /\ ~flushing
  /\ marked < MaxMarks
  /\ MarkEndOfAudio
  /\ marked' = marked + 1
  /\ UNCHANGED <<connected, flushing>>

(* An inbound FlushPlayback frame: reset ... *)
FlushPlayback ==
  /\ connected /\ ~flushing
  /\ marked < MaxMarks /\ generation < MaxResets
  /\ Reset
  /\ flushing' = TRUE
  /\ UNCHANGED <<connected, marked>>

(* ... then mark. *)
FlushMark ==
  /\ flushing
  /\ MarkEndOfAudio
  /\ flushing' = FALSE
  /\ marked' = marked + 1
  /\ UNCHANGED connected

(* note_socket_lost ends the audio; note_socket_established resets. *)
NoteSocketLost ==
  /\ connected /\ ~flushing
  /\ marked < MaxMarks
  /\ MarkEndOfAudio
  /\ connected' = FALSE
  /\ marked' = marked + 1
  /\ UNCHANGED flushing

NoteSocketEstablished ==
  /\ ~connected
  /\ generation < MaxResets
  /\ Reset
  /\ connected' = TRUE
  /\ UNCHANGED <<flushing, marked>>

SinkStep ==
  \/ \E need \in 1..MaxFrame : Accept(need)
  \/ EndOfAudio
  \/ FlushPlayback
  \/ FlushMark
  \/ NoteSocketLost
  \/ NoteSocketEstablished

SinkTypeOK ==
  connected \in BOOLEAN /\ flushing \in BOOLEAN /\ marked \in Nat

=============================================================================
