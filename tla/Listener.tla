------------------------------ MODULE Listener ------------------------------
(* The listener of one pod: a state record, and one operator for each feed    *)
(* that its thread handles.  An operator's result has the events the feed     *)
(* raised appended to out, in the order the code pushes them; events that     *)
(* only produce a log line are left out.                                      *)
EXTENDS Endpointer, Sequences

CONSTANTS
  Policy,                 \* WakePolicy: "WakeGated" or "Bypass"
  SustainChunks, MuteTail,           \* of the barge-in modes
  ArmSlack, WakeTail, CommandWait

ASSUME ListenerAssumption ==
  /\ Policy \in {"WakeGated", "Bypass"}
  /\ SustainChunks \in Nat /\ SustainChunks >= OnsetChunks     \* BargeInConfig::validate
  /\ {MuteTail, ArmSlack, WakeTail, CommandWait} \subseteq Nat

None == -1          \* no sample
NoId == <<0, 0>>    \* an utterance id is its epoch and its sequence number
NoTurn == 0

-----------------------------------------------------------------------------
NoGrant == [kind |-> "None", on |-> NoId, arm |-> None, deadline |-> None,
            barge |-> FALSE, seen |-> FALSE, restored |-> FALSE]
Closed == [kind |-> "Closed", on |-> NoId, deadline |-> None]
NoPlayback == [active |-> FALSE, interruptible |-> FALSE, may_wake |-> FALSE,
               turn |-> NoTurn, sustain_run |-> 0, fired |-> FALSE]

(* mode: BargeMode, as configured. *)
NewListener(mode) ==
  [mode |-> mode, ep |-> Idle, cursor |-> 0, expected |-> None, wake |-> None, grant |-> NoGrant,
   id |-> NoId, with_wake |-> FALSE, barge |-> FALSE, follow_up |-> FALSE, over |-> FALSE,
   capture |-> Closed, playback |-> NoPlayback, muted_until |-> 0,
   pending |-> FALSE, from_wake |-> FALSE, speech_over |-> FALSE,
   seq |-> 0, epoch |-> 0, out |-> <<>>]

Emit(l, event) == [l EXCEPT !.out = Append(@, event)]
Event(l, kind) == [kind |-> kind, epoch |-> l.epoch]

(* WakeHeld and WakeRestored; left: the deadline is ahead of the stream. *)
HoldEvent(l, kind, speaking, left) ==
  [kind |-> kind, epoch |-> l.epoch, speaking |-> speaking, left |-> left]

ClearUtterance(l) ==
  [l EXCEPT !.id = NoId, !.with_wake = FALSE, !.barge = FALSE, !.follow_up = FALSE,
            !.over = FALSE, !.speech_over = FALSE]

ExpireForgetsTheMint(l, cause) ==
  LET spent  == l.grant.kind = "Spent"
      arm    == IF spent THEN l.grant.arm ELSE l.wake
      taken  == [l EXCEPT !.grant = NoGrant, !.wake = IF spent THEN @ ELSE None]
  IN IF arm = None THEN taken
     ELSE Emit([taken EXCEPT !.pending = @ /\ ~l.from_wake, !.from_wake = FALSE],
               [kind |-> "ArmExpired", arm |-> arm, minted |-> spent, cause |-> cause])

(* The arm nobody consumed: told, with whether a candidate came of it. *)
ExpireUnconsumedArm(l, cause) ==
  LET spent  == l.grant.kind = "Spent"
      arm    == IF spent THEN l.grant.arm ELSE l.wake
      minted == spent \/ (l.grant.kind = "Standing" /\ l.grant.restored)
      taken  == [l EXCEPT !.grant = NoGrant, !.wake = IF spent THEN @ ELSE None]
  IN IF arm = None THEN taken
     ELSE Emit([taken EXCEPT !.pending = @ /\ ~l.from_wake, !.from_wake = FALSE],
               [kind |-> "ArmExpired", arm |-> arm, minted |-> minted, cause |-> cause])

CloseListen(l) ==
  IF l.capture = Closed THEN l
  ELSE Emit([l EXCEPT !.capture = Closed], Event(l, "ListenExpired"))

Past(deadline, t) == deadline # None /\ t >= deadline

RetireReanchoredPast(l, t) ==
  LET held == IF Past(l.grant.deadline, t) THEN ExpireUnconsumedArm(l, "Deadline") ELSE l
  IN IF Past(held.capture.deadline, t) THEN CloseListen(held) ELSE held

CheckHoldExpiry(l, t) ==
  IF FullyIdle(l.ep) /\ Past(l.grant.deadline, t) THEN ExpireUnconsumedArm(l, "Deadline") ELSE l

CheckListenExpiry(l, t) ==
  IF /\ l.capture.kind = "Open" /\ l.grant.kind = "None"
     /\ FullyIdle(l.ep) /\ Past(l.capture.deadline, t)
  THEN CloseListen(l) ELSE l

(* drain_transitions: what a transition of the endpointer tells. *)
Drain(l, transition) ==
  LET to_speech == transition \in {"Onset", "Continuation"}
      marked == IF transition = "Onset" THEN [l EXCEPT !.speech_over = l.playback.active] ELSE l
      heard == IF to_speech /\ l.capture.kind = "Open" /\ ~l.playback.active
               THEN Emit(marked, Event(l, "ListenHeard")) ELSE marked
  IN IF to_speech \/ transition = "Reset"
     THEN Emit(heard, [kind |-> "Transition", epoch |-> l.epoch, speaking |-> to_speech])
     ELSE heard

ResetTransition(l) == IF InProgress(l.ep) THEN "Reset" ELSE "none"

ResetStream(l, anchor) ==
  [l EXCEPT !.ep = Idle, !.cursor = anchor, !.pending = FALSE, !.from_wake = FALSE,
            !.speech_over = FALSE]

-----------------------------------------------------------------------------
(* Feed::Connected: everything is reset, under the old epoch. *)
Connected(l, epoch) ==
  LET at      == IF l.expected = None THEN l.cursor ELSE l.expected
      expired == ExpireUnconsumedArm(l, "Reconnect")
      cleared == ClearUtterance([ResetStream(expired, at) EXCEPT
                    !.wake = None, !.grant = NoGrant, !.playback = NoPlayback, !.muted_until = 0])
      reset   == Drain(CloseListen(cleared), ResetTransition(l))
  IN [reset EXCEPT !.epoch = epoch, !.expected = None]

SegmentOpened(l, base) ==
  LET reset == [ResetStream(l, base) EXCEPT !.expected = base]
  IN Drain(RetireReanchoredPast(reset, base), ResetTransition(l))

(* handle_audio's first part: audio that does not follow what came before. *)
Discontinuity(l, first) ==
  LET closed  == ClearUtterance(l)
      retired == IF l.expected # None /\ first < l.expected /\ l.grant.kind # "None"
                 THEN ExpireUnconsumedArm(closed, "Discontinuity") ELSE closed
      reset   == Drain(ResetStream(retired, first), ResetTransition(l))
  IN RetireReanchoredPast(reset, first)

Muted(l, t) == l.mode = "Mute" /\ (l.playback.active \/ t <= l.muted_until)
FloorOpen(l) == l.playback.active /\ l.playback.interruptible /\ ~l.playback.fired

BargeUnmarked(l, cause) ==
  LET fired == Emit([l EXCEPT !.playback.fired = TRUE],
                    [kind |-> "BargeIn", epoch |-> l.epoch, cause |-> cause])
  IN IF l.id # NoId THEN [fired EXCEPT !.barge = TRUE]
     ELSE [fired EXCEPT !.pending = TRUE, !.from_wake = (cause = "Wake")]

(* The trigger fires: on the utterance, or on the one to come. *)
Barge(l, cause) ==
  LET fired == Emit([l EXCEPT !.playback.fired = TRUE],
                    [kind |-> "BargeIn", epoch |-> l.epoch, cause |-> cause])
  IN IF l.id # NoId THEN [fired EXCEPT !.barge = TRUE, !.over = TRUE]
     ELSE [fired EXCEPT !.pending = TRUE, !.from_wake = (cause = "Wake")]

DriveBargeGuard(l, p) ==
  CASE l.mode # "Speech" \/ ~FloorOpen(l) -> l
    [] l.mode = "Speech" /\ FloorOpen(l) /\ p < High -> [l EXCEPT !.playback.sustain_run = 0]
    [] OTHER -> LET counted == [l EXCEPT !.playback.sustain_run = @ + 1]
                IN IF counted.playback.sustain_run < SustainChunks THEN counted
                   ELSE Barge(counted, "Speech")

OnWakeDetection(l, t) ==
  IF Muted(l, t) THEN l
  ELSE LET fresh == [ExpireUnconsumedArm(l, "FreshWake") EXCEPT !.wake = t]
           told  == Emit(fresh, Event(l, "WakeDetected"))
           clear == IF told.id # NoId THEN ClearUtterance(told) ELSE told
           held  == Emit([clear EXCEPT !.grant = [NoGrant EXCEPT !.kind = "Standing",
                                                                 !.deadline = t + CommandWait]],
                         HoldEvent(l, "WakeHeld", Speaking(l.ep), CommandWait > 0))
           armed == IF Policy = "WakeGated" /\ CommandWait # 0 THEN held ELSE told
       IN IF FloorOpen(armed) /\ ~armed.playback.may_wake THEN Barge(armed, "Wake") ELSE armed

-----------------------------------------------------------------------------
(* carve_utterance *)

SpentHoldRedated(grant, end) ==
  [grant EXCEPT !.deadline = end + CommandWait, !.barge = FALSE, !.seen = TRUE]

SpentHold(grant, end) ==
  [grant EXCEPT !.deadline = IF grant.restored THEN @ ELSE end + CommandWait,
                !.barge = FALSE, !.seen = TRUE]

Published(l, end, grant_spent) ==
  LET marked == [l EXCEPT !.over = @ \/ l.speech_over]
  IN Emit(marked, [kind |-> "SoftEndpoint", id |-> l.id, end |-> end, wake |-> l.with_wake,
                   barge_in |-> marked.barge, over_playback |-> marked.over,
                   follow_up |-> l.follow_up, grant_spent |-> grant_spent])

(* A further carve under the current id. *)
Recarve(l, end) ==
  LET spender == l.grant.kind = "Spent" /\ l.grant.on = l.id
  IN Published(IF spender THEN [l EXCEPT !.grant = SpentHold(@, end)] ELSE l, end, spender)

(* A new id.  An open capture window is spent on it, as a standing hold is. *)
Mint(l, end, with_wake, barge, follow_up) ==
  LET id    == <<l.epoch, l.seq + 1>>
      spend == with_wake /\ l.grant.kind = "Standing"
      grant == CASE spend -> [SpentHold(l.grant, end) EXCEPT !.kind = "Spent", !.on = id, !.arm = l.wake]
                 [] with_wake /\ ~spend -> NoGrant
                 [] OTHER -> l.grant
      minted == [l EXCEPT
        !.seq = @ + 1, !.id = id, !.grant = grant, !.wake = IF with_wake THEN None ELSE @,
        !.with_wake = with_wake, !.barge = barge, !.follow_up = follow_up, !.over = @ \/ barge,
        !.capture = IF @.kind = "Open" THEN [@ EXCEPT !.kind = "Spent", !.on = id] ELSE Closed]
  IN Published(minted, end, spend)

(* A carve that is the wake word alone waits for the command. *)
WakeOnly(l, end) == CommandWait # 0 /\ Minus(end, l.wake) < WakeTail

HoldWakeOnly(l, end, barge) ==
  LET standing == l.grant.kind = "Standing"
  IN Emit([l EXCEPT !.grant = [NoGrant EXCEPT
             !.kind = "Standing", !.deadline = end + CommandWait, !.seen = TRUE,
             !.barge = barge \/ (standing /\ l.grant.barge),
             !.restored = standing /\ l.grant.restored]],
          HoldEvent(l, "WakeHeld", FALSE, TRUE))

FirstCarve(l, start, end) ==
  LET a        == [l EXCEPT !.pending = FALSE, !.from_wake = FALSE]
      standing == l.grant.kind = "Standing"
      inside   == l.wake # None /\ l.wake >= Minus(start, ArmSlack) /\ l.wake <= end
      armed    == Policy = "WakeGated" /\ IF standing THEN l.wake # None ELSE inside
      follows  == /\ ~l.over /\ ~l.speech_over
                  /\ l.capture.kind = "Open" /\ start <= l.capture.deadline
  IN CASE Policy = "Bypass" ->
            Mint([a EXCEPT !.wake = IF inside THEN None ELSE @], end, FALSE, l.pending, FALSE)
       [] armed /\ WakeOnly(l, end) -> HoldWakeOnly(a, end, l.pending)
       [] armed /\ ~WakeOnly(l, end) ->
            Mint(a, end, TRUE, l.pending \/ (standing /\ l.grant.barge), FALSE)
       [] Policy = "WakeGated" /\ ~armed /\ l.pending -> Mint(a, end, FALSE, TRUE, FALSE)
       [] Policy = "WakeGated" /\ ~armed /\ ~l.pending /\ follows ->
            Mint(Emit(a, Event(l, "ListenHeard")), end, FALSE, FALSE, TRUE)
       [] OTHER -> a

CarveUtterance(l, start, end) ==
  IF l.id # NoId THEN Recarve(l, end) ELSE FirstCarve(l, start, end)

ApplyEndpointEvent(l, event) ==
  CASE event.kind = "SoftEndpoint" ->
         LET carved == CarveUtterance(l, event.start, event.end)
         IN IF event.cause \in {"Capped", "DeviceVadRelease"} THEN ClearUtterance(carved) ELSE carved
    [] event.kind = "Superseded" ->
         IF l.id = NoId THEN l ELSE Emit(l, [kind |-> "Superseded", id |-> l.id])
    [] event.kind = "UtteranceClosed" -> ClearUtterance(l)
    [] OTHER -> l

-----------------------------------------------------------------------------
DriveProbability(l, p, t) ==
  LET guarded == DriveBargeGuard(l, p)
      step    == Push(l.ep, IF Muted(l, t) THEN Low ELSE p, t)
      drained == Drain([guarded EXCEPT !.ep = step.ep], step.transition)
      marked  == [drained EXCEPT !.speech_over = @ \/ (InProgress(step.ep) /\ l.playback.active)]
      applied == ApplyEndpointEvent(marked, step.event)
  IN CheckListenExpiry(CheckHoldExpiry(applied, t), t)

(* Feed::Audio, a chunk; the wake model's detection goes before the VAD. *)
Received(l, first) ==
  [(IF l.expected = first THEN l ELSE Discontinuity(l, first)) EXCEPT !.expected = first + 1]

Audio(l, first, wake, p) ==
  LET received == Received(l, first)
      scored   == IF wake THEN OnWakeDetection(received, first + 1) ELSE received
  IN DriveProbability([scored EXCEPT !.cursor = @ + 1], p, scored.cursor + 1)

(* A model fails on the chunk: the state so far stays, the events are gone,  *)
(* and the next audio is a discontinuity.                                    *)
AudioFails(l, first, wake) ==
  LET received == Received(l, first)
      scored   == IF wake THEN OnWakeDetection(received, first + 1) ELSE received
  IN [scored EXCEPT !.out = <<>>, !.expected = None]

PlaybackState(l, active, interruptible, may_wake, turn) ==
  LET rising == active /\ ~l.playback.active
      ended  == CASE rising /\ l.capture.kind = "Spent" /\ turn # NoTurn -> [l EXCEPT !.capture = Closed]
                  [] rising /\ ~(l.capture.kind = "Spent" /\ turn # NoTurn) -> CloseListen(l)
                  [] OTHER -> l
      same   == l.playback.active /\ active /\ turn # NoTurn /\ l.playback.turn = turn
      drops  == l.mode = "Mute" /\ l.playback.active /\ ~active
  IN IF same THEN [ended EXCEPT !.playback.interruptible = interruptible, !.playback.may_wake = may_wake]
     ELSE [ended EXCEPT
             !.muted_until = IF drops THEN l.cursor + MuteTail ELSE @,
             !.playback = [NoPlayback EXCEPT !.active = active, !.interruptible = interruptible,
                                             !.may_wake = may_wake, !.turn = turn]]

Listen(l, window) ==
  [l EXCEPT !.capture = [kind |-> "Open", on |-> NoId, deadline |-> l.cursor + window]]

RestoreWake(l, id) ==
  IF l.grant.kind # "Spent" \/ l.grant.on # id THEN l
  ELSE LET cleared  == IF l.id = id THEN ClearUtterance(l) ELSE l
           restored == [cleared EXCEPT
              !.wake = l.grant.arm,
              !.grant = [@ EXCEPT !.kind = "Standing", !.on = NoId, !.arm = None, !.restored = TRUE]]
       IN CheckHoldExpiry(Emit(restored, HoldEvent(l, "WakeRestored", Speaking(l.ep),
                                                   l.grant.deadline > l.cursor)),
                          l.cursor)

RestoreListen(l, id) ==
  IF l.capture.kind # "Spent" \/ l.capture.on # id THEN l
  ELSE LET open == [l EXCEPT !.capture = [@ EXCEPT !.kind = "Open", !.on = NoId]]
           told == CheckListenExpiry(
                     Emit(open, [kind |-> "ListenRestored", epoch |-> l.epoch,
                                 left |-> l.capture.deadline > l.cursor]), l.cursor)
       IN IF told.capture.kind = "Open" /\ Speaking(l.ep) /\ l.ep.start <= l.capture.deadline
          THEN Emit(told, Event(l, "ListenHeard")) ELSE told

CandidateDeclined(l, id) == RestoreListen(RestoreWake(l, id), id)

CandidateDispatched(l, id) ==
  LET spent == [l EXCEPT !.grant = IF @.kind = "Spent" THEN NoGrant ELSE @]
  IN IF l.id # id THEN spent ELSE [ClearUtterance(spent) EXCEPT !.ep = Idle]

SegmentClosed(l) ==
  LET t       == IF l.expected = None THEN l.cursor ELSE l.expected
      armed   == /\ Policy = "WakeGated" /\ l.wake # None
                 /\ l.grant.kind = "None" \/ (l.grant.kind = "Standing" /\ ~l.grant.seen)
      step    == OnDeviceRelease(l.ep, t, armed, l.wake)
      applied == ApplyEndpointEvent([l EXCEPT !.ep = step.ep], step.event)
      expired == IF applied.grant.kind = "None" THEN ExpireUnconsumedArm(applied, "SegmentClosed")
                 ELSE applied
  IN ClearUtterance(CheckListenExpiry(expired, t))

=============================================================================
