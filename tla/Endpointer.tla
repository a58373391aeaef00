----------------------------- MODULE Endpointer -----------------------------
(* The endpointer of the listener: from one speech probability a chunk to     *)
(* where an utterance starts, pauses, resumes and closes.  Samples are        *)
(* counted in chunks; a probability is a level against the two thresholds.    *)
EXTENDS Integers

CONSTANTS
  OnsetChunks, HangoverChunks, ContinuationChunks,   \* soft_hangover_chunks
  Preroll, MaxUtterance

ASSUME EndpointerAssumption ==
  /\ {OnsetChunks, HangoverChunks, ContinuationChunks} \subseteq Nat \ {0}
  /\ {Preroll, MaxUtterance} \subseteq Nat

Low == 0      \* under release_thresh
Middle == 1   \* under onset_thresh
High == 2

Minus(a, b) == IF a > b THEN a - b ELSE 0    \* saturating_sub

-----------------------------------------------------------------------------
(* State: run counts the onset, release or continuation chunks so far. *)
Idle == [st |-> "Idle", start |-> 0, end |-> 0, run |-> 0]
Onsetting(anchor, run) == [st |-> "Idle", start |-> anchor, end |-> 0, run |-> run]
Speech(start, end, run) == [st |-> "Speech", start |-> start, end |-> end, run |-> run]
SoftEndpointed(start, run) == [st |-> "SoftEndpointed", start |-> start, end |-> 0, run |-> run]

InProgress(ep) == ep.st # "Idle"
FullyIdle(ep) == ep.st = "Idle" /\ ep.run = 0
Speaking(ep) == ep.st = "Speech"

(* A step's event, and the cause of the transition it records. *)
NoEvent == [kind |-> "none", start |-> 0, end |-> 0, cause |-> "none"]
SoftEndpoint(start, end, cause) ==
  [kind |-> "SoftEndpoint", start |-> start, end |-> end, cause |-> cause]
Superseded == [NoEvent EXCEPT !.kind = "Superseded"]
UtteranceClosed == [NoEvent EXCEPT !.kind = "UtteranceClosed"]

Step(ep, event, transition) == [ep |-> ep, event |-> event, transition |-> transition]

PushIdle(ep, p, t) ==
  LET anchor == IF ep.run = 0 THEN t - 1 ELSE ep.start
  IN CASE p < High -> Step(Idle, NoEvent, "none")
       [] p >= High /\ ep.run + 1 < OnsetChunks ->
            Step(Onsetting(anchor, ep.run + 1), NoEvent, "none")
       [] OTHER -> Step(Speech(Minus(anchor, Preroll), t, 0), NoEvent, "Onset")

(* The cap goes before the probability. *)
PushSpeech(ep, p, t) ==
  CASE Minus(t, ep.start) >= MaxUtterance ->
         Step(Idle, SoftEndpoint(ep.start, t, "Capped"), "Capped")
    [] Minus(t, ep.start) < MaxUtterance /\ p >= Middle ->
         Step(Speech(ep.start, t, 0), NoEvent, "none")
    [] Minus(t, ep.start) < MaxUtterance /\ p < Middle /\ ep.run + 1 < HangoverChunks ->
         Step(Speech(ep.start, ep.end, ep.run + 1), NoEvent, "none")
    [] OTHER -> Step(SoftEndpointed(ep.start, 0),
                     SoftEndpoint(ep.start, ep.end, "SoftEndpoint"), "SoftEndpoint")

PushSoftEndpointed(ep, p, t) ==
  CASE p >= High -> Step(Speech(ep.start, t, 0), Superseded, "Continuation")
    [] p < High /\ ep.run + 1 < ContinuationChunks ->
         Step(SoftEndpointed(ep.start, ep.run + 1), NoEvent, "none")
    [] OTHER -> Step(Idle, UtteranceClosed, "Closed")

Push(ep, p, t) ==
  CASE ep.st = "Idle" -> PushIdle(ep, p, t)
    [] ep.st = "Speech" -> PushSpeech(ep, p, t)
    [] ep.st = "SoftEndpointed" -> PushSoftEndpointed(ep, p, t)

(* The fallback carve of a wake whose onset was missed. *)
MissedOnset(t, wake_end) ==
  LET from == Minus(wake_end, Preroll)
      start == IF from > Minus(t, MaxUtterance) THEN from ELSE Minus(t, MaxUtterance)
  IN IF start < t THEN SoftEndpoint(start, t, "DeviceVadRelease") ELSE NoEvent

OnDeviceRelease(ep, t, armed, wake_end) ==
  Step(Idle,
       CASE ep.st = "Speech" -> SoftEndpoint(ep.start, t, "DeviceVadRelease")
         [] ep.st = "SoftEndpointed" -> UtteranceClosed
         [] ep.st = "Idle" /\ armed -> MissedOnset(t, wake_end)
         [] OTHER -> NoEvent,
       "DeviceRelease")

=============================================================================
