--------------------------- MODULE MotionScripter ---------------------------
(* The motion scripter of the host, for one pod: the decisions (Scripter),    *)
(* the task that makes them (ScriptTask), the publisher that carries a script *)
(* to the bus (Publisher, publish_loop), and, from how the scripter uses it,  *)
(* the motion daemon that executes the newest script it has received.         *)
(* Instants are kept relative to now: a duration to come, or one gone by when *)
(* negative.  Elapse moves them all.                                          *)
EXTENDS Integers, FiniteSetsExt

CONSTANTS
  Refresh, Linger, MaxEngaged, StowMargin,   \* ScriptTiming
  StowMove,       \* the pace of the configured stow
  MaxTimeout,     \* MAX_TIMEOUT_MS
  WakePose,       \* the configured wake raise: a pose, or "keep"
  Horizons,       \* the ends of speech an Audio fact may report
  Span,           \* how long a cued motion plays
  Attempts,       \* PUBLISH_ATTEMPTS
  MaxTurns, MaxInputs, MaxDropped

(* What the configuration's validation admits. *)
ASSUME TimingAssumption ==
  /\ {Refresh, Linger, MaxEngaged, StowMargin, StowMove, MaxTimeout, Span} \subseteq Nat
  /\ 0 < Refresh /\ Refresh <= MaxTimeout /\ 0 < MaxEngaged /\ MaxEngaged <= MaxTimeout
  /\ Horizons \subseteq Nat /\ Attempts \in Nat \ {0}

(* What it leaves to the operator: a refresh comes no later than the stow of *)
(* a hold that keeps the pose, at the bound or the furthest it can be named. *)
ASSUME RefreshAssumption ==
  /\ Refresh <= MaxEngaged
  /\ 2 * Refresh <= MaxTimeout /\ Refresh + StowMove <= MaxTimeout

VARIABLES
  pod,      \* the pod's PodScript
  slot, sent, attempts, ppc, closed,   \* the publisher: latest, and what is on its way
  daemon,   \* how long the head stays up under the daemon's script; Rest when it is down
  ending,   \* whether that script schedules its own stow
  turns, ended,          \* turns dispatched, and those the brain has finished
  behind,   \* history: scripts offered since the one the daemon has, up to two
  inputs, dropped, torn

publisher == <<slot, sent, attempts, ppc, closed>>
vars == <<pod, publisher, daemon, ending, behind, turns, ended, inputs, dropped, torn>>

-----------------------------------------------------------------------------
NoTurn == 0
Rest == 0
Past == -(Linger + StowMargin)    \* older than this is all the same
Never == Past - 1                 \* None, for an instant

NoFact == [done |-> FALSE, awaiting |-> 1, horizon |-> Never]
Quiet == [kind |-> "Quiet", at |-> "none", stow_at |-> Never]
Hold(at) == [kind |-> "Hold", at |-> at, stow_at |-> Never]
Closing(at, t) == [kind |-> "Closing", at |-> at, stow_at |-> t]
Stowing == [kind |-> "Stowing", at |-> "none", stow_at |-> Never]

NoPod == [turn |-> NoTurn, end |-> "none", audio |-> NoFact, want |-> Quiet,
          running |-> Never, refresh |-> Never, gaze |-> "none"]

NoScript == [up |-> FALSE, stow |-> Never, timeout |-> 0, landed |-> FALSE, newer |-> 0]

Engaged(p) == p.want.kind \in {"Hold", "Closing"}

ClearTurn(p) == [p EXCEPT !.turn = NoTurn, !.end = "none", !.audio = NoFact]

(* A script as the daemon reads it: at a pose from now, down after stow or   *)
(* after timeout, whichever comes first.                                     *)
Script(up, stow, timeout) == [up |-> up, stow |-> stow, timeout |-> timeout,
                              landed |-> FALSE, newer |-> 0]

StowHeadroom == Max({Refresh, StowMove})
FurthestStow == Max({0, MaxTimeout - StowHeadroom})

RearmedOnce(p) == p
RearmedAfresh(p) == [p EXCEPT !.refresh = Refresh, !.want.stow_at = IF @ = Never THEN @ ELSE Linger]
Rearmed(p) == [p EXCEPT !.refresh = Refresh]

(* The stow is said, and is said once more at the next refresh. *)
SaidOnce(p) == NoPod
Stowed(p) == [Rearmed(p) EXCEPT !.want = Stowing, !.gaze = "none"]

(* emit answers with the pod after it, and the script if there is one to      *)
(* publish.  While a cued motion plays the script carries no stow.            *)
Playing(p) ==
  [pod |-> Rearmed(p),
   out |-> Script(TRUE, Never, Min({MaxTimeout, Max({MaxEngaged, Span + Refresh})}))]

(* The steps of a want that stands; a hold that keeps the pose is given a stow. *)
Standing(p) ==
  LET armed == Rearmed(p)
      stow == IF p.want.kind = "Hold" THEN Min({MaxEngaged, FurthestStow}) ELSE armed.want.stow_at
  IN [pod |-> armed,
      out |-> IF p.want.kind = "Hold" /\ p.want.at # "keep" THEN Script(TRUE, Never, Max({MaxEngaged, Refresh}))
              ELSE Script(TRUE, stow, Max({MaxEngaged, stow + StowHeadroom}))]

(* The stow is due: said now, and again if this is the first time. *)
Due(p, change) ==
  [pod |-> IF p.want.kind = "Closing" /\ change THEN Stowed(p) ELSE NoPod,
   out |-> IF p.want.kind = "Quiet" THEN NoScript
           ELSE Script(FALSE, 0, Max({MaxEngaged, StowHeadroom}))]

Emit(p, change) ==
  IF Engaged(p) /\ p.running # Never THEN Playing(p)
  ELSE IF p.want.kind = "Hold" \/ (p.want.kind = "Closing" /\ p.want.stow_at > 0) THEN Standing(p)
  ELSE Due(p, change)

Kept(p) == [pod |-> p, out |-> NoScript]

Set(p, want) == IF p.want = want THEN Kept(p) ELSE Emit([p EXCEPT !.want = want], TRUE)

(* raise: an input that cuts a motion short is published whatever it wants. *)
Raise(p, at) ==
  LET cleared == [ClearTurn(p) EXCEPT !.running = Never]
  IN IF p.running # Never THEN Emit([cleared EXCEPT !.want = Hold(at)], TRUE)
                          ELSE Set(cleared, Hold(at))

(* closing: a stow past the ceiling is cut to it, and one already scheduled *)
(* is not walked forward by being cut again.                                *)
ClosingAt(p, t) ==
  Closing(p.want.at,
          IF t <= FurthestStow THEN t
          ELSE IF p.want.kind = "Closing" THEN Min({p.want.stow_at, FurthestStow}) ELSE FurthestStow)

Tail(end) == IF end = "Closed" THEN StowMargin ELSE Linger

Reconsider(p) ==
  IF \/ ~Engaged(p) \/ p.end = "none" \/ ~p.audio.done \/ p.audio.awaiting > 0
     \/ (p.audio.horizon = Never /\ p.want.kind = "Closing")
  THEN Kept(p)
  ELSE Set(p, ClosingAt(p, Tail(p.end) + (IF p.audio.horizon = Never THEN 0 ELSE p.audio.horizon)))

WaitOutLinger(p) == LET cleared == [ClearTurn(p) EXCEPT !.running = Never]
                    IN Set(cleared, ClosingAt(cleared, Linger))

Heard(p) == Set(ClearTurn(p), Closing(p.want.at, Min({MaxEngaged, FurthestStow})))

GrantExpiredRegardless(p) == Set(p, ClosingAt(p, 0))
GrantExpired(p) == IF p.turn # NoTurn THEN Kept(p) ELSE Set(p, ClosingAt(p, 0))

-----------------------------------------------------------------------------
Init ==
  /\ pod = NoPod
  /\ slot = NoScript /\ sent = NoScript /\ attempts = 0 /\ ppc = "idle" /\ closed = FALSE
  /\ daemon = Rest /\ ending = FALSE
  /\ turns = 0 /\ ended = {}
  /\ behind = 0 /\ inputs = 0 /\ dropped = 0 /\ torn = FALSE

(* ScriptTask::publish and BusSink::offer: the newest script has the slot. *)
OneMore(n) == Min({n + 1, 2})

Offer(r) ==
  /\ pod' = r.pod
  /\ IF r.out = NoScript THEN UNCHANGED <<slot, sent, behind>>
     ELSE /\ slot' = r.out /\ behind' = OneMore(behind)
          /\ sent' = IF sent = NoScript THEN sent ELSE [sent EXCEPT !.newer = OneMore(@)]
  /\ UNCHANGED <<attempts, ppc, closed, daemon, ending, torn>>

(* One input: counted, and lost when the queue is full. *)
Apply(r) ==
  /\ ~torn /\ inputs < MaxInputs /\ inputs' = inputs + 1
  /\ \/ Offer(r) /\ UNCHANGED dropped
     \/ /\ dropped < MaxDropped /\ dropped' = dropped + 1
        /\ UNCHANGED <<pod, publisher, daemon, ending, behind, torn>>

InputWake ==
  /\ \E gaze \in {"none", "look"} :
       Apply(Raise([pod EXCEPT !.gaze = gaze], IF gaze = "none" THEN WakePose ELSE gaze))
  /\ UNCHANGED <<turns, ended>>

InputBarge == Apply(Raise(pod, WakePose)) /\ UNCHANGED <<turns, ended>>

InputTurnStarted ==
  /\ turns < MaxTurns /\ turns' = turns + 1
  /\ LET r == Raise(pod, IF pod.gaze = "none" THEN "turn" ELSE pod.gaze)
     IN Apply([r EXCEPT !.pod.turn = turns + 1])
  /\ UNCHANGED ended

(* A fact about a turn, current or not. *)
InputTurnEnded ==
  /\ \E t \in (1..turns) \ ended, end \in {"Closed", "Open"} :
       /\ ended' = ended \cup {t}
       /\ Apply(IF pod.turn # t THEN Kept(pod) ELSE Reconsider([pod EXCEPT !.end = end]))
  /\ UNCHANGED turns

InputAudio ==
  /\ \E t \in 1..turns, awaiting \in {0, 1}, horizon \in Horizons \cup {Never} :
       LET audio == [done |-> t \in ended, awaiting |-> awaiting, horizon |-> horizon]
       IN Apply(IF pod.turn # t THEN Kept(pod) ELSE Reconsider([pod EXCEPT !.audio = audio]))
  /\ UNCHANGED <<turns, ended>>

(* refusal: what only an engaged head can hear. *)
WhenEngaged(r) == Apply(IF Engaged(pod) THEN r ELSE Kept(pod)) /\ UNCHANGED <<turns, ended>>

InputUnanswered == WhenEngaged(WaitOutLinger(pod))
InputHeard == WhenEngaged(Heard(pod))
InputGrantExpired == WhenEngaged(GrantExpired(pod))   \* ListenExpired, WakeExpired
InputPoseCue == WhenEngaged(Emit([pod EXCEPT !.want.at = "cue"], TRUE))
InputMotionCue == WhenEngaged(Emit([pod EXCEPT !.running = Span], TRUE))

(* tick: a motion that is over is lifted, a script is said again. *)
Lifts == pod.running # Never /\ pod.running <= 0
TickDue == ~torn /\ (Lifts \/ (pod.refresh # Never /\ pod.refresh <= 0))

ScripterTick ==
  /\ TickDue
  /\ Offer(Emit([pod EXCEPT !.running = IF Lifts THEN Never ELSE @], Lifts))
  /\ UNCHANGED <<turns, ended, inputs, dropped>>

Teardown ==
  /\ ~torn /\ torn' = TRUE /\ closed' = TRUE
  /\ UNCHANGED <<pod, slot, sent, attempts, ppc, daemon, ending, behind, turns, ended, inputs, dropped>>

-----------------------------------------------------------------------------
(* publish_loop *)

outside == <<pod, turns, ended, inputs, dropped, torn>>

TakeLatest ==
  /\ ppc = "idle" /\ slot # NoScript
  /\ sent' = slot /\ slot' = NoScript /\ attempts' = 0 /\ ppc' = "publishing"
  /\ UNCHANGED <<closed, daemon, ending, behind, outside>>

LoopEnds ==
  /\ ppc = "idle" /\ slot = NoScript /\ closed /\ ppc' = "ended"
  /\ UNCHANGED <<slot, sent, attempts, closed, daemon, ending, behind, outside>>

(* How long the daemon has the head up under a script. *)
Lasts(s) == IF ~s.up THEN Rest
            ELSE IF s.stow = Never THEN s.timeout ELSE Min({s.stow, s.timeout})

(* It runs the newest script it has, from its arrival. *)
Execute(s) ==
  IF s.landed THEN UNCHANGED <<daemon, ending, behind>>
  ELSE behind' = s.newer /\ ending' = (s.stow # Never) /\ daemon' = Lasts(s)

Done == sent' = NoScript /\ attempts' = 0 /\ ppc' = "idle"

PublishOk ==
  /\ ppc = "publishing" /\ Execute(sent) /\ Done
  /\ UNCHANGED <<slot, closed, outside>>

(* Accepted by the bus, and lost on the way to the daemon. *)
PublishVanishes ==
  /\ ppc = "publishing" /\ Done
  /\ UNCHANGED <<slot, closed, daemon, ending, behind, outside>>

(* An error: nothing landed, or the answer was lost and it did.  A refused  *)
(* publish is tried again after a pause, up to the attempts.                *)
PublishRefused ==
  /\ ppc = "publishing"
  /\ \E landed \in BOOLEAN :
       /\ IF landed THEN Execute(sent) ELSE UNCHANGED <<daemon, ending, behind>>
       /\ IF attempts + 1 < Attempts
          THEN /\ sent' = [sent EXCEPT !.landed = @ \/ landed]
               /\ attempts' = attempts + 1 /\ ppc' = "backoff"
          ELSE Done
  /\ UNCHANGED <<slot, closed, outside>>

(* retry: a newer script in the slot is never replaced.  The slot is taken  *)
(* up again at once, with the attempts it has had.                          *)
Retry ==
  /\ ppc = "backoff"
  /\ IF slot # NoScript THEN Done ELSE ppc' = "publishing" /\ UNCHANGED <<sent, attempts>>
  /\ UNCHANGED <<slot, closed, daemon, ending, behind, outside>>

-----------------------------------------------------------------------------
Earlier(t) == IF t = Never THEN Never ELSE Max({t - 1, Past})

(* A unit of time.  The task's timer is prompt: what is due goes first. *)
Elapse ==
  /\ ~TickDue
  /\ pod' = [pod EXCEPT !.want.stow_at = Earlier(@), !.running = Earlier(@),
                        !.refresh = Earlier(@), !.audio.horizon = Earlier(@)]
  /\ daemon' = IF daemon = Rest THEN Rest ELSE daemon - 1
  /\ UNCHANGED <<publisher, ending, behind, turns, ended, inputs, dropped, torn>>

Input ==
  \/ InputWake \/ InputBarge \/ InputTurnStarted \/ InputTurnEnded \/ InputAudio
  \/ InputUnanswered \/ InputHeard \/ InputGrantExpired \/ InputPoseCue \/ InputMotionCue

Publish == TakeLatest \/ LoopEnds \/ PublishOk \/ PublishVanishes \/ PublishRefused \/ Retry

Next == Input \/ ScripterTick \/ Teardown \/ Publish \/ Elapse

Spec == Init /\ [][Next]_vars

(* The task and its publisher run, and time passes. *)
FairSpec == Spec /\ WF_vars(ScripterTick) /\ WF_vars(Publish) /\ WF_vars(Elapse)

-----------------------------------------------------------------------------
Delivered == slot = NoScript /\ sent = NoScript

(* The head is up for as long as the scripter wants it up: a daemon that has *)
(* the newest script has the head up while it is held, or while its stow is  *)
(* still to come.  A long think never crosses the timeout of the hold it     *)
(* stands on (the refresh), and no timeout cuts a closing script short.      *)
UpUntilTheStow ==
  (Delivered /\ behind = 0 /\ ~torn /\ ~TickDue
     /\ (pod.want.kind = "Hold" \/ (pod.want.kind = "Closing" /\ pod.want.stow_at > 0)))
  => daemon > Rest

(* The scripter falls silent only once the head is down or on its way down  *)
(* by a stow it scheduled, even if the last script it sent was lost: "two    *)
(* lost messages in a row fall to the standing script's own timeout", one    *)
(* does not.                                                                 *)
QuietMeansDown ==
  (Delivered /\ behind <= 1 /\ pod = NoPod) => (daemon = Rest \/ ending)

(* While the brain has the current turn no ending is scheduled: not by a    *)
(* grant that expires, and not by what an earlier, barged turn reports.     *)
ThinkIsNotCut ==
  (pod.turn # NoTurn /\ pod.turn \notin ended) => pod.want.kind = "Hold"

(* A scheduled ending arrives: the head comes down, whatever is lost on the *)
(* way, unless something raises it again.                                   *)
HeadComesDown ==
  (pod.want.kind \in {"Closing", "Stowing"}) ~> (daemon = Rest \/ pod.want.kind = "Hold")

=============================================================================
