---------------------------- MODULE Conversation ----------------------------
(* A pod's speech, from its connection through the listener, the pipeline and *)
(* the brain to the reply and back to the listener: the listener's thread,    *)
(* the pipeline task, the transcriptions, the router's playback reports and   *)
(* the pod's connections all run on their own.                                *)
(*                                                                            *)
(* A feed is handled when it is sent: the channel to the listener is a FIFO   *)
(* with one reader that reports only through the pipeline's queue, so that a  *)
(* feed that waits is a sender that has not got round to sending it.          *)
EXTENDS Pipeline

CONSTANTS
  Window,            \* window_samples of a reply that listens
  MaxSegments,       \* MAX_CONTINUATIONS
  Modes,             \* the barge-in modes of the instance
  Levels,            \* the probability levels the VAD reports
  Results,           \* what a transcription may come to
  MaxSample, MaxTurns, MaxWakes, MaxFaults

ASSUME ConversationAssumption ==
  /\ {Window, MaxSegments, MaxSample, MaxTurns, MaxWakes, MaxFaults} \subseteq Nat
  /\ Modes \subseteq {"Wake", "Speech", "Mute"}
  /\ Levels \subseteq {Low, Middle, High} /\ Results \subseteq {"text", "poor", "empty", "error"}

VARIABLES
  now, open, conn, hello,     \* the pod's next sample; a segment is open; the
                              \* connection that feeds, and one that has said Hello
  listener, queue, pipeline, done,
  turn, brain, segments,      \* the last turn; "idle", "handling"; its messages
  reply, end,                 \* of each turn: its audio, and its TurnEnd
  floor,                      \* the turn last reported audible, or NoTurn
  wakes, faults,              \* wakes so far; what went wrong, each kind once
  taken, judged, dispatches,  \* history: the newest carve the pipeline took on and
                              \* has not heard superseded, the last one judged,
                              \* the ids dispatched
  robbed,                     \* history: the ids whose grant another's dispatch ended
  barge,                      \* history: whether a barge in speech was the last to
                              \* raise the head, and its speech was dropped
  minted, absent, overdue     \* history: the wakes that became a candidate, those
                              \* reported to have had no command, and the last
                              \* one given back with no time left

pod == <<now, open, conn, hello, wakes>>
voice == <<turn, brain, segments, reply, end, floor>>
verdicts == <<taken, judged, dispatches, robbed, barge>>
wakeLog == <<minted, absent, overdue>>
vars == <<pod, listener, queue, pipeline, done, voice, faults, verdicts, wakeLog>>

Turns == 1..MaxTurns
NoCarve == [id |-> NoId, end |-> 0]
Sounding == {"active", "more"}    \* alone, or with another clip behind

Init ==
  /\ now = 0 /\ open = FALSE /\ conn = 1 /\ hello = 0 /\ wakes = 0
  /\ \E mode \in Modes : listener = [NewListener(mode) EXCEPT !.epoch = 1]
  /\ pipeline = [NewPipeline EXCEPT !.epoch = 1]
  /\ queue = <<>> /\ done = <<>>
  /\ turn = 0 /\ brain = "idle" /\ segments = 0
  /\ reply = [t \in Turns |-> "none"] /\ end = [t \in Turns |-> "none"]
  /\ floor = NoTurn /\ barge = "none"
  /\ faults = {} /\ taken = NoCarve /\ judged = NoCarve
  /\ dispatches = {} /\ robbed = {} /\ minted = {} /\ absent = {} /\ overdue = None

-----------------------------------------------------------------------------
(* The listener's thread: a feed handled, its events sent to the pipeline. *)
Told(l, kind) == {l.out[i] : i \in {j \in DOMAIN l.out : l.out[j].kind = kind}}

(* A wake is known by its sample; one heard again in audio that was sent       *)
(* again is another.                                                           *)
Heard(l) ==
  LET fresh == IF Told(l, "WakeDetected") # {} THEN {l.wake} ELSE {}
  IN /\ listener' = [l EXCEPT !.out = <<>>]
     /\ minted' = (minted \ fresh) \cup (IF l.grant.kind = "Spent" THEN {l.grant.arm} ELSE {})
     /\ absent' = (absent \cup {e.arm : e \in {x \in Told(l, "ArmExpired") : ~x.minted}}) \ fresh
     /\ overdue' = IF \E e \in Told(l, "WakeRestored") : ~e.left THEN l.wake ELSE overdue

Feed(l) == Heard(l) /\ queue' = queue \o l.out

(* Of the faults these lose nothing on the way to the listener. *)
Whole(f) == f \subseteq {"reconnect", "resent"}

(* Bound: one wake only where something is lost. *)
WakesBound(w, f) == w <= IF Whole(f) THEN MaxWakes ELSE 1

Fault(kind) ==
  /\ kind \notin faults /\ Cardinality(faults) < MaxFaults
  /\ faults' = faults \cup {kind} /\ WakesBound(wakes, faults')

(* A marker, dropped if the channel stays full for MARKER_SEND_TIMEOUT. *)
FeedMarker(l) ==
  \/ Feed(l) /\ UNCHANGED faults
  \/ Fault("marker") /\ UNCHANGED <<listener, queue, wakeLog>>

-----------------------------------------------------------------------------
(* The pod and its connections *)

rest == <<pipeline, done, voice, verdicts>>

(* MaxSample bounds the audio sent, what is sent again included. *)
MaxNow == MaxSample - Cardinality(faults \cap {"resent", "resent unmarked"})

(* Of an open segment, the pod's next chunk. *)
Heed == open /\ now < MaxNow /\ now' = now + 1

SendAudio ==
  /\ Heed
  /\ \E p \in Levels, wake \in BOOLEAN :
       /\ wakes' = IF wake THEN wakes + 1 ELSE wakes
       /\ \/ Feed(Audio(listener, now, wake, p)) /\ UNCHANGED faults
          \/ Feed(AudioFails(listener, now, wake)) /\ Fault("model")
       /\ WakesBound(wakes', faults')
  /\ UNCHANGED <<open, conn, hello, rest>>

(* Lost on the link, or dropped at a full feed channel. *)
DropAudio ==
  /\ Heed /\ Fault("audio")
  /\ UNCHANGED <<open, conn, hello, wakes, listener, queue, wakeLog, rest>>

(* At once, or after samples that belong to no segment. *)
OpenSegment ==
  /\ ~open /\ hello = 0 /\ open' = TRUE
  /\ now' \in now..(MaxNow - 1)
  /\ FeedMarker(SegmentOpened(listener, now'))
  /\ UNCHANGED <<conn, hello, wakes, rest>>

(* A segment that opens within a preroll of the last one's close sends the    *)
(* audio in between again.                                                    *)
ReopenSegment ==
  /\ ~open /\ hello = 0 /\ 0 < now /\ now < MaxSample /\ open' = TRUE
  /\ now' = now - 1
  /\ \/ Fault("resent") /\ Feed(SegmentOpened(listener, now'))
     \/ Fault("resent unmarked") /\ UNCHANGED <<listener, queue, wakeLog>>
  /\ UNCHANGED <<conn, hello, wakes, rest>>

CloseSegment ==
  /\ open /\ open' = FALSE
  /\ FeedMarker(SegmentClosed(listener))
  /\ UNCHANGED <<now, conn, hello, wakes, rest>>

(* A new connection's Hello reaches the listener before the connection it    *)
(* supersedes has finished, and the pipeline after.                          *)
Hello ==
  /\ hello = 0 /\ hello' = conn + 1
  /\ \/ Fault("reconnect") /\ Feed(Connected(listener, conn + 1))
     \/ Fault("reconnect untold") /\ UNCHANGED <<listener, queue, wakeLog>>
  /\ UNCHANGED <<now, open, conn, wakes, rest>>

Registered ==
  /\ hello # 0 /\ ~open
  /\ conn' = hello /\ hello' = 0
  /\ queue' = Append(queue, [kind |-> "Connected", epoch |-> hello])
  /\ UNCHANGED <<now, open, wakes, listener, faults, wakeLog, rest>>

-----------------------------------------------------------------------------
(* The transcriptions *)

SttFinishes ==
  /\ \E task \in pipeline.running, result \in Results :
       /\ pipeline' = [pipeline EXCEPT !.running = @ \ {task}]
       /\ done' = Append(done, [nonce |-> task.nonce, carve |-> task.carve, result |-> result])
  /\ UNCHANGED <<pod, listener, queue, voice, faults, verdicts, wakeLog>>

-----------------------------------------------------------------------------
(* The pipeline task: one item, one result or one release at a time, and none *)
(* while it waits for the brain.                                              *)

(* flush: the turn that sounds is cut short, but for the offline clip. *)
Cut == [t \in Turns |-> IF reply[t] \in Sounding /\ end[t] # "Offline" THEN "cut" ELSE reply[t]]

(* What the event makes of the last raise of the head. *)
BargeAfter(event) ==
  CASE event.kind = "WakeDetected" /\ ~Stale(pipeline, event.epoch) -> "none"
    [] event.kind = "BargeIn" /\ event.cause # "Wake" -> "raised"
    [] barge = "raised" /\ pipeline'.epoch # pipeline.epoch -> "dropped"
    [] barge = "raised" /\ event.kind = "Superseded" /\ event.id \in dispatches -> "dropped"
    [] OTHER -> barge

HandleItem ==
  /\ brain = "idle" /\ queue # <<>>
  /\ LET event == Head(queue)
     IN /\ pipeline' = HandleEvent(pipeline, event)
        /\ reply' = IF event.kind = "BargeIn" THEN Cut ELSE reply
        /\ taken' = CASE pipeline'.spawn_seq # pipeline.spawn_seq -> [id |-> event.id, end |-> event.end]
                      [] event.kind = "Superseded" /\ event.id = taken.id -> NoCarve
                      [] OTHER -> taken
        /\ barge' = BargeAfter(event)
  /\ queue' = Tail(queue)
  /\ UNCHANGED <<pod, listener, done, turn, brain, segments, end, floor, faults, judged, dispatches, robbed,
                 wakeLog>>

ReleaseDue ==
  /\ brain = "idle"
  /\ \/ /\ pipeline.hold_release = "armed"
        /\ pipeline' = GrantExpired([pipeline EXCEPT !.hold_release = "none"])
     \/ /\ pipeline.listen_release
        /\ pipeline' = GrantExpired([pipeline EXCEPT !.listen_release = FALSE])
  /\ UNCHANGED <<pod, listener, queue, done, voice, faults, verdicts, wakeLog>>

(* A result that is not the one in flight is dropped. *)
StaleResult ==
  /\ brain = "idle" /\ done # <<>> /\ ~Current(pipeline, Head(done))
  /\ done' = Tail(done)
  /\ UNCHANGED <<pod, listener, queue, pipeline, voice, faults, verdicts, wakeLog>>

Judge(gate) ==
  /\ brain = "idle" /\ done # <<>> /\ Current(pipeline, Head(done))
  /\ Gate(Head(done).carve, Head(done).result) = gate
  /\ done' = Tail(done)
  /\ judged' = [id |-> Head(done).carve.id, end |-> Head(done).carve.end]

Decline ==
  /\ Judge("Decline")
  /\ LET carve == Head(done).carve
     IN /\ pipeline' = Settled(Finished(pipeline), carve)
        /\ FeedMarker(CandidateDeclined(listener, carve.id))
  /\ UNCHANGED <<pod, voice, taken, dispatches, robbed, barge>>

StartTurn(id) ==
  /\ turn < MaxTurns /\ turn' = turn + 1
  /\ dispatches' = dispatches \cup {id}
  /\ robbed' = IF listener.grant.kind = "Spent" /\ listener.grant.on # id
               THEN robbed \cup {listener.grant.on} ELSE robbed
  /\ barge' = "none"
  /\ FeedMarker(CandidateDispatched(listener, id))

Dispatch ==
  /\ Judge("Dispatch")
  /\ LET id == Head(done).carve.id
     IN StartTurn(id) /\ pipeline' = Dispatching(pipeline, id, turn')
  /\ brain' = "handling" /\ segments' = 0
  /\ UNCHANGED <<pod, reply, end, floor, taken>>

(* The clip is the turn, and nothing waits for a brain. *)
OfflineReply ==
  /\ Judge("OfflineReply")
  /\ LET id == Head(done).carve.id
     IN StartTurn(id) /\ pipeline' = Dispatching(pipeline, id, turn')
  /\ reply' = [reply EXCEPT ![turn'] = "queued"]
  /\ end' = [end EXCEPT ![turn'] = "Offline"]
  /\ UNCHANGED <<pod, brain, segments, floor, taken>>

-----------------------------------------------------------------------------
(* BrennBrain::handle, and end_turn after it *)

Settles(r, e) == e # "none" /\ r \in {"none", "heard", "stopped"}
Opens(r, e) == e = "Open" /\ r \in {"none", "heard"}

(* One more clip: dropped once the turn is interrupted. *)
Spoken(r) == CASE r \in {"cut", "stopped"} -> r
               [] r \in Sounding -> "more"
               [] OTHER -> "queued"

EndTurn(spoken, e) ==
  /\ brain' = "idle"
  /\ reply' = [reply EXCEPT ![turn] = IF spoken THEN Spoken(@) ELSE @]
  /\ end' = [end EXCEPT ![turn] = e]
  /\ pipeline' = IF Settles(reply'[turn], e) THEN TurnSettled(pipeline, turn) ELSE pipeline
  /\ IF Opens(reply'[turn], e) THEN FeedMarker(Listen(listener, Window))
     ELSE UNCHANGED <<listener, queue, wakeLog, faults>>
  /\ UNCHANGED <<pod, done, turn, segments, floor, verdicts>>

(* A message of the turn that says more will follow. *)
BrainContinues ==
  /\ brain = "handling" /\ segments + 1 < MaxSegments /\ segments' = segments + 1
  /\ reply' = [reply EXCEPT ![turn] = Spoken(@)]
  /\ UNCHANGED <<pod, listener, queue, pipeline, done, turn, brain, end, floor, faults, verdicts,
                 wakeLog>>

(* The last one; or, if the publish fails or no answer comes in time, an      *)
(* apology that does not listen.                                              *)
BrainEnds ==
  /\ brain = "handling"
  /\ \E spoken, listen \in BOOLEAN : EndTurn(spoken, IF listen THEN "Open" ELSE "Closed")

-----------------------------------------------------------------------------
(* The reply's audio, and what the router tells the listener of it *)

audioRest == <<pod, done, turn, brain, segments, end, verdicts>>

(* Audible: the first clip of a turn, or its next right behind the last. *)
PlaybackStarts ==
  /\ \E t \in Turns, may_wake \in BOOLEAN :
       /\ \/ /\ reply[t] = "queued" /\ \A u \in 1..(t - 1) : reply[u] # "queued"
             /\ \A u \in Turns : reply[u] \notin Sounding \cup {"cut"}
          \/ reply[t] = "more"
       /\ reply' = [reply EXCEPT ![t] = "active"] /\ floor' = t
       /\ FeedMarker(PlaybackState(listener, TRUE, end[t] # "Offline", may_wake, t))
  /\ UNCHANGED <<pipeline, audioRest>>

(* Finished, with nothing behind it so far: a turn that listens opens its      *)
(* window.                                                                     *)
PlaybackEnds ==
  /\ \E t \in Turns :
       /\ reply[t] \in Sounding
       /\ reply' = [reply EXCEPT ![t] = IF @ = "more" THEN "queued" ELSE "heard"]
       /\ pipeline' = IF Settles(reply'[t], end[t]) THEN TurnSettled(pipeline, t) ELSE pipeline
       /\ IF Opens(reply'[t], end[t]) THEN FeedMarker(Listen(listener, Window))
          ELSE UNCHANGED <<listener, queue, wakeLog, faults>>
  /\ UNCHANGED <<floor, audioRest>>

(* Flushed *)
PlaybackStops ==
  /\ \E t \in Turns :
       /\ reply[t] = "cut" /\ reply' = [reply EXCEPT ![t] = "stopped"]
       /\ pipeline' = IF Settles(reply'[t], end[t]) THEN TurnSettled(pipeline, t) ELSE pipeline
  /\ UNCHANGED <<listener, queue, wakeLog, faults, floor, audioRest>>

(* The Audible behind either: the floor is free. *)
FloorFree ==
  /\ floor # NoTurn /\ floor' = NoTurn
  /\ \A t \in Turns : reply[t] \notin Sounding \cup {"cut"}
  /\ FeedMarker(PlaybackState(listener, FALSE, FALSE, FALSE, NoTurn))
  /\ UNCHANGED <<reply, pipeline, audioRest>>

-----------------------------------------------------------------------------
Pod ==
  \/ SendAudio \/ DropAudio \/ OpenSegment \/ ReopenSegment \/ CloseSegment
  \/ Hello \/ Registered
Task == HandleItem \/ ReleaseDue \/ StaleResult \/ Decline \/ Dispatch \/ OfflineReply
Brain == BrainContinues \/ BrainEnds
Playback == PlaybackStarts \/ PlaybackEnds \/ PlaybackStops \/ FloorFree

Next == Pod \/ SttFinishes \/ Task \/ Brain \/ Playback

Spec == Init /\ [][Next]_vars

-----------------------------------------------------------------------------
(* A verdict is on the newest carve: however late a transcription completes,  *)
(* its result counts only while no later carve and no resumed speech has      *)
(* overtaken it, and utterances are judged in the order they were spoken      *)
(* (handle_stt_done's nonce; a continuation reuses its utterance's id).       *)
VerdictOnNewestCarve ==
  [][judged' # judged => judged' = taken /\ OrderedUpTo(judged.id, judged'.id)]_vars

(* No utterance is dispatched twice: what the listener still carves of one    *)
(* that has been dispatched is dropped ("carve_after_dispatch").              *)
DispatchedOnce == [][turn' # turn => dispatches' # dispatches]_vars

(* The listener's own assertions: the arm of a spent grant is consumed, and   *)
(* a barge carve is by construction speech over playback.                     *)
AssertsHold ==
  /\ listener.grant.kind = "Spent" => listener.wake = None
  /\ listener.barge => listener.over

(* A wake is reported to have had no command only if no candidate was ever    *)
(* made of it (ArmExpired's candidate_minted).                                *)
AbsentMeansUnminted == minted \cap absent = {}

Arm(l) == IF l.grant.kind = "Spent" THEN l.grant.arm ELSE l.wake

(* A wake that was given back once keeps the deadline it came back with:      *)
(* declines in a row do not keep the room awake (spent_hold's restored).      *)
RestoredDeadlineStands ==
  [][listener.grant.restored /\ listener'.grant.restored /\ Arm(listener') = Arm(listener)
       => listener'.grant.deadline = listener.grant.deadline]_vars

(* Nothing is left for the pipeline to do, the pod is silent, and nothing was *)
(* lost on the way.                                                           *)
Unattended ==
  /\ queue = <<>> /\ done = <<>> /\ pipeline.running = {} /\ brain = "idle"
  /\ ~open /\ hello = 0 /\ Whole(faults)
  /\ floor = NoTurn /\ \A t \in Turns : reply[t] \notin Sounding \cup {"queued", "cut"}

(* A head held up for somebody to speak is never forgotten: with nothing left *)
(* for the pipeline to do and the pod silent, a release is due.  "The decline *)
(* reported below gives the grant back, and the grant's own ending - its      *)
(* arm_expired, or the head's wall-clock release - brings the head down."     *)
DeclineBringsHeadDown ==
  Unattended /\ pipeline.head.held => pipeline.listen_release \/ pipeline.hold_release = "armed"

(* A wake given back past its deadline, in a pause of speech. *)
Overdue(l) == l.grant.kind = "Standing" /\ l.grant.restored /\ l.wake = overdue

(* The same, but for a wake given back overdue, a candidate whose grant ended *)
(* with the dispatch of an older one, and a head raised by a barge whose      *)
(* speech was dropped, for a new connection or with the dispatch of the       *)
(* utterance it resumed: whatever else becomes of a wake (a decline, a fresh  *)
(* wake, a held wake word, a new connection), its head comes down.            *)
NoStrandedHead ==
  Unattended /\ pipeline.head.held =>
    \/ pipeline.listen_release \/ pipeline.hold_release = "armed"
    \/ Overdue(listener)
    \/ taken.id \in robbed \/ barge = "dropped"

=============================================================================
