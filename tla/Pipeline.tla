------------------------------ MODULE Pipeline ------------------------------
(* The pipeline task's state for one pod, and one operator for each item it   *)
(* takes from its queue.  The record also holds what its calls change: the    *)
(* transcriptions that run, and how the scripter has the head.                *)
EXTENDS Listener, FiniteSets

CONSTANTS
  RecentWindow,     \* RECENT_WINDOW
  UnreachableClip   \* a clip is configured for when the transcriber fails

ASSUME PipelineAssumption == RecentWindow \in Nat \ {0} /\ UnreachableClip \in BOOLEAN

NoFlight == [id |-> NoId, nonce |-> 0]

(* hold_release: "none", "armed", or "speaking": armed, and kept off by speech. *)
NewPipeline ==
  [epoch |-> 0, in_flight |-> NoFlight, spawn_seq |-> 0, dispatched |-> <<>>,
   hold_release |-> "none", listen_release |-> FALSE,
   running |-> {}, head |-> [held |-> FALSE, turn |-> NoTurn]]

(* order_key *)
OrderedUpTo(a, b) == a[1] < b[1] \/ (a[1] = b[1] /\ a[2] <= b[2])

(* abort: a task that has sent its result is past stopping. *)
Abort(s) ==
  [s EXCEPT !.running = {task \in @ : task.nonce # s.in_flight.nonce}, !.in_flight = NoFlight]

Stale(s, epoch) == epoch < s.epoch

AdoptEpoch(s, epoch) ==
  IF epoch <= s.epoch THEN s
  ELSE [Abort(s) EXCEPT !.epoch = epoch, !.dispatched = <<>>,
                        !.hold_release = "none", !.listen_release = FALSE]

-----------------------------------------------------------------------------
(* Inputs of the scripter, as far as they hold the head up or let it go: a    *)
(* head that is not held is at rest, or comes down by a script that says so.  *)
Raised(s, turn) == [s EXCEPT !.head = [held |-> TRUE, turn |-> turn]]

LetGo(s) == [s EXCEPT !.head = [held |-> FALSE, turn |-> NoTurn]]   \* Heard, Unanswered

GrantExpired(s) ==                                   \* WakeExpired, ListenExpired
  IF s.head.turn # NoTurn THEN s ELSE [s EXCEPT !.head.held = FALSE]

TurnSettled(s, turn) == IF s.head.turn = turn THEN [s EXCEPT !.head.held = FALSE] ELSE s

-----------------------------------------------------------------------------
(* handle_listener, one operator an event.  s has adopted the event's epoch. *)

OnSoftEndpointAnsweredOrNot(s, carve) ==
  LET nonce == s.spawn_seq + 1
  IN IF s.in_flight # NoFlight /\ ~OrderedUpTo(s.in_flight.id, carve.id) THEN s
     ELSE [Abort(s) EXCEPT
             !.spawn_seq = nonce, !.hold_release = "none", !.listen_release = FALSE,
             !.in_flight = [id |-> carve.id, nonce |-> nonce],
             !.running = @ \cup {[nonce |-> nonce, carve |-> carve]}]

(* A carve replaces the transcription of the same utterance or an older one. *)
OnSoftEndpoint(s, carve) ==
  IF \E i \in DOMAIN s.dispatched : s.dispatched[i] = carve.id THEN s
  ELSE LET released == [s EXCEPT !.hold_release = "none", !.listen_release = FALSE]
           nonce == s.spawn_seq + 1
       IN IF s.in_flight # NoFlight /\ ~OrderedUpTo(s.in_flight.id, carve.id) THEN released
          ELSE [Abort(released) EXCEPT
                  !.spawn_seq = nonce,
                  !.in_flight = [id |-> carve.id, nonce |-> nonce],
                  !.running = @ \cup {[nonce |-> nonce, carve |-> carve]}]

OnTransition(s, speaking) ==
  IF s.hold_release = "none" THEN s
  ELSE [s EXCEPT !.hold_release = IF speaking THEN "speaking" ELSE "armed"]

(* WakeHeld, WakeRestored *)
OnHold(s, event) ==
  [s EXCEPT !.listen_release = FALSE,
            !.hold_release = CASE ~event.left -> @
                               [] event.left /\ event.speaking -> "speaking"
                               [] OTHER -> "armed"]

OnListenRestored(s, event) ==
  [s EXCEPT !.listen_release = @ \/ (s.hold_release = "none" /\ event.left)]

OnSuperseded(s, id) == IF s.in_flight.id = id THEN Abort(s) ELSE s

OnArmExpiredOnlyIfUnminted(s, event) ==
  LET released == [s EXCEPT !.hold_release = "none"]
  IN IF event.cause = "FreshWake" \/ event.minted THEN released ELSE GrantExpired(released)

OnArmExpired(s, event) ==
  LET released == [s EXCEPT !.hold_release = "none"]
  IN IF event.cause = "FreshWake" THEN released ELSE GrantExpired(released)

(* The events that carry an epoch, adopted or stale. *)
Adopted(s, event) ==
  LET a == AdoptEpoch(s, IF event.kind = "SoftEndpoint" THEN event.id[1] ELSE event.epoch)
  IN CASE event.kind = "Connected" -> a
       [] event.kind = "WakeDetected" -> Raised(a, NoTurn)
       [] event.kind = "SoftEndpoint" -> OnSoftEndpoint(a, event)
       [] event.kind = "Transition" -> OnTransition(a, event.speaking)
       [] event.kind \in {"WakeHeld", "WakeRestored"} -> OnHold(a, event)
       [] event.kind = "ListenRestored" -> OnListenRestored(a, event)
       [] event.kind = "ListenHeard" -> LetGo([a EXCEPT !.listen_release = FALSE])
       [] event.kind = "ListenExpired" -> GrantExpired([a EXCEPT !.listen_release = FALSE])

HandleEvent(s, event) ==
  CASE event.kind = "ArmExpired" -> OnArmExpired(s, event)
    [] event.kind = "Superseded" -> IF Stale(s, event.id[1]) THEN s ELSE OnSuperseded(s, event.id)
    [] event.kind = "BargeIn" -> IF event.cause = "Wake" THEN s ELSE Raised(s, NoTurn)
    [] event.kind = "SoftEndpoint" -> IF Stale(s, event.id[1]) THEN s ELSE Adopted(s, event)
    [] OTHER -> IF Stale(s, event.epoch) THEN s ELSE Adopted(s, event)

-----------------------------------------------------------------------------
(* handle_stt_done: a result is "text", "poor" (under the confidence gate),   *)
(* "empty" or "error".                                                        *)
CurrentById(s, done) == s.in_flight # NoFlight /\ s.in_flight.id = done.carve.id

Current(s, done) == s.in_flight # NoFlight /\ s.in_flight.nonce = done.nonce

Provenance(carve) ==
  CASE carve.wake -> "Wake"
    [] ~carve.wake /\ carve.barge_in -> "Barge"
    [] ~carve.wake /\ ~carve.barge_in /\ carve.follow_up -> "FollowUp"
    [] ~carve.wake /\ ~carve.barge_in /\ ~carve.follow_up /\ carve.over_playback -> "OverPlayback"
    [] OTHER -> "Bypassed"

Gate(carve, result) ==
  CASE result = "text" -> "Dispatch"
    [] result = "poor" /\ Provenance(carve) = "Bypassed" -> "Dispatch"
    [] result = "error" /\ UnreachableClip /\ Provenance(carve) = "Wake" -> "OfflineReply"
    [] OTHER -> "Decline"

(* What a decline tells the scripter at once; a grant or a window that the    *)
(* listener gives back tells the rest.                                        *)
Settled(s, carve) ==
  LET from == Provenance(carve)
  IN CASE from \in {"Barge", "Bypassed"} -> LetGo(s)
       [] from = "Wake" /\ ~carve.grant_spent -> GrantExpired(s)
       [] OTHER -> s

Finished(s) == [s EXCEPT !.in_flight = NoFlight]

(* push_bounded *)
PushBounded(seq, x) ==
  LET longer == Append(seq, x)
  IN IF Len(longer) > RecentWindow THEN Tail(longer) ELSE longer

Dispatching(s, id, turn) ==
  Raised([Finished(s) EXCEPT !.dispatched = PushBounded(@, id)], turn)

=============================================================================
