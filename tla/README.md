# Verification of the brenn-pod voice path

brenn-pod is a voice satellite. A *pod* — an ESP32-S3 board (`respeaker-pod`) or
a Linux board (`reachy-pod`) — captures speech, streams it to a host and plays
the host's answer. The *host* (`speech-surface` and the crates it uses)
assembles the streamed segments, listens for a wake word, runs speech-to-text,
asks a brain and streams synthesised speech back. The modules here model the
concurrent and stateful parts of that path. TLC checks them on small instances;
TLAPS proves, for every instance, the safety of the queue between the host's
stages and that it implements its abstract promise; the safety of the record
store; that both playback drains play in order; that the uplink hands every
release to its segment, sends the tail, and implements the wire protocol; that
the ingest serves one connection of a pod at a time and hands over its tail
before it announces the next;
and that the head stays up while it is owed.

## 1. The system

    pod                                        host
    ------------------------------------       ---------------------------------------
    capture thread -> CaptureRing              accept loop -> connection tasks
    telemetry thread (VAD) --chan, flag-->        SessionFsm + ResumeLedger
    streamer thread ==== wire frames =====>       SegmentAssembler
                                                  DropOldestQueue -> pipeline -> brain
    streamer thread <=== wire frames ======    playback writer <- router <- turn ledger
       PlaybackSink -> InboundPcmRing          listener thread (Endpointer, Listener)
       -> drain -> device                      motion scripter -> bridge -> head
                                               recorder, labels, pins, pruner: RecordStore

| part | source | state | operations | what makes it hard |
|---|---|---|---|---|
| voice-activity gate | `audio-pipeline/vad.rs`, `pod-streamer/telemetry.rs` | VAD state, sticky `vad_closed_flag`, bounded channel | poll a level, note opened/closed, send, undo | channel full; streamer reads between the flag and the send |
| streamer | `pod-streamer/{run,segment,idle}.rs`, `audio-pipeline/stream_send.rs` | link, segment locals, half-written frame | connect, open a segment, drain, select and write frames, end | partial writes, deadlines, a lapping capture thread, a lost socket |
| capture ring | `audio-pipeline/ring.rs` | write head, slots | push a chunk, cursor arithmetic | the reader is overtaken |
| inbound ring | `audio-pipeline/playback.rs` | wrapping head and tail, generation, end marks | write, reset, mark, copy a run, advance | each call is its own critical section |
| playback drains | `reachy-pod/playback.rs`, `respeaker-pod/capture.rs` | preroll gate, acted generation, staged residue, mute clock | one pass, in six to ten ring accesses | resets, marks and flushes inside a pass; device faults |
| session, ledger | `pod-ingest/session.rs` | per-connection state, shared LRU of truncated ids | feed a frame, close | resume across connections |
| assembler | `speech-pipeline/assembler.rs` | the open part | opened, audio, telemetry, closed | host cap, gaps |
| ingest server | `speech-surface/server.rs` | registries, tokens, permits | accept, read, supersede, finalise, shut down | overlapping connections of one pod |
| stage queue | `speech-pipeline/queue.rs` | buffer, counters, `Notify` | send on two lanes, recv, drops | lost wake-ups, closing against sending |
| pipeline | `speech-surface/pipeline.rs` | per-pod epoch, in-flight STT, recent wakes | segment, listener event, STT done | late completions, stale epochs |
| playback writer | `speech-pipeline/playback.rs` | pending and deferred jobs, flush target | play, flush, retire, die | a flush racing the end of a job |
| router, turn ledger | `speech-surface/{playback_router,barge}.rs` | interrupted mark, settlement counts | route, settle, interrupt | settlement in any order, exactly once |
| listener | `speech-pipeline/listener/*` | endpointer, wake arm, hold and grant, capture window, playback floor | one operator per feed | dropped feeds, failing models, continuation after dispatch |
| brain and bridge | `speech-pipeline/brenn_brain.rs`, `speech-surface/brenn/*`, `brenn-bridge` | armed turn slot, windows | handle, deliver, publish | late and stray answers |
| motion scripter | `speech-surface/scripter.rs` | what the head is wanted to do, the newest script, its publisher | one operator per input, tick, publish, retry | time, lost and refused scripts |
| record store | `speech-surface/{recorder,prune}.rs` | log files, sidecars, pins, open set | record, rename, roll, label, pin, prune | two processes, crashes, a stale inventory |
| Wi-Fi supervisor, transport, device control | `wifi-reconnect`, `psk-link`, `pod-transport`, device crates | backoff, TLS state, registers | — | time, I/O |

`PROJECT.json` lists these components with what is and is not modelled, the
hazards found in them, and the source lines behind every definition.

## 2. The modules

### Stage queue: `DropOldestQueue`, `TwoLaneFifo`
`DropOldestQueue` has one action per critical section or atomic access of
`queue.rs`: a push is `PushCheck` (unlocked closed check), `PushLocked`
(re-check, `push_back`, eviction scan) and `PushNotify`; `recv` is
`RecvRegister`, `RecvLocked`, `RecvWake`, and `RecvCancel` for the `select!`
that drops it; the receiver's `Drop` is `ReceiverDrop` and `ReceiverSweep`.
tokio's `Notify` is external: one stored permit, and a count of
`notify_waiters` calls. Payloads are stamps in lock order. `TwoLaneFifo` is the
promise its users rely on: Put, Take, Close and Discard on a set of stamped
entries.

### Downlink: `InboundPcmRing`, `PlaybackSink`, `PrerollGate`, `PlaybackDrain`, `CaptureDrain`
`InboundPcmRing` has the ring operations, each one hold of the mutex, with
counters that wrap at `Modulus`; a byte is the position it was written at, so
order and loss are visible. `PlaybackSink` is what the streamer thread does to
the ring for each inbound frame and socket event. `PrerollGate` is the gate
shared by both drains. `PlaybackDrain` (reachy) and `CaptureDrain`
(respeaker) split a pass at each ring access, so a write, a mark, a flush or a
reset may land between any two of them. `CaptureDrain` adds the residue staged
for the DMA, the tone test that takes over the device, codec re-bring-up faults
and the DAC mute clock.

### Uplink: `VadGate`, `CaptureRing`, `Streamer`, `UplinkProtocol`
`VadGate` is the telemetry thread, one step per access of the flag or the
channel. `CaptureRing` is the history ring; a sample is its index.
`Streamer` is the streamer thread: `IdleStep`, `OnsetStep` and `SegmentStep`
follow `run_streamer_loop` and `run_segment`, a step ending at the next access
to the channel, the flag, the ring or the socket. `UplinkProtocol` says what
the wire promises the host: the order of frames, contiguous and true samples
inside a segment, a count that matches, and no frame begun before the last one
is whole. Left out: the encode-error paths of `FrameWriteState::begin`, which
no frame the streamer builds can take.

### Ingest: `ResumeLedger`, `SessionFsm`, `SegmentAssembler`, `IngestServer`
The first three are operators: the ledger as a value with its LRU, `Feed` and
`Close` of the session machine returning the next state, the ledger and the
events, and `OnEvent` of the assembler. `IngestServer` composes them: each
connection is a task whose step ends where it awaits or lets go of a lock.
Its environment is a pod that follows `UplinkProtocol` — the specification the
streamer is shown to implement — and may reboot, open a connection while the
host still serves earlier ones, and send a bounded number of frames outside the
protocol. The pipeline queue follows `TwoLaneFifo`. A duplicate SegmentStart
takes the ledger lock twice in the source and is one step here: what another
task does between the two holds is not explored. What the task hands to the
listener is in `Conversation`, what it hands to the recorder in `RecordStore`.

### Replies: `PlaybackWriter`, `TurnLedger`, `ReplyPath`
`PlaybackWriter` is the writer task of one connection. A step ends where it
awaits a write, a timer or the queue: `next_step` is `TakeDeferred`, `TakeJob`,
`QueueClosed`, `HeardOut` and `Cancelled`; a frame is `SlotReady` and
`AudioWritten` or `AudioFailed`; `handle_flush` is `CutAudible`, `Evict`,
`Sweep`, `FlushWritten`. An event the writer awaits is part of the step that
emits it, except that `CutAudible` and `Evict` are apart, because `current` is
published only after the cut has been reported. Time is a count of frames since
the stream's anchor. `TurnLedger` is the ledger as operators, one per method.
`ReplyPath` composes both with the pipeline (dispatch, replies, end of the turn,
barge-in) and the router. The pipeline awaits the brain inline, so barge-ins wait
in its queue meanwhile; `playback_flush` reads the audible turn and asks for its
flush in two calls under the registry's lock. Evictions of one flush are one
step, and so is the draining of a dying writer after it closed its queue.

### Conversation: `Endpointer`, `Listener`, `Pipeline`, `Conversation`
The first three are operators over a state record, one operator per method or
feed, so that a handler is one step with all it calls. `Endpointer` turns a
speech level per chunk (below the release threshold, between, at the onset
threshold) into onset, soft endpoint, resume and close. `Listener` is
`ListenerState::handle`: wake arm, its hold and grant, capture window, playback
floor and barge guard; an operator returns the listener with the events it
raised, in order. `Pipeline` is the per-pod state of the pipeline task: epoch,
transcription in flight, recent dispatches, the two head releases, and, as far
as the properties need them, the transcriptions that run and whether the
scripter holds the head up. `Conversation` composes them with the pod's
connections, the transcriptions, the brain and the playback reports:

| action | code |
|---|---|
| `SendAudio`, `DropAudio`, `OpenSegment`, `CloseSegment`, `ReopenSegment` | `tap_listener` and `FeedSender::feed`, a full channel, the pod |
| `Hello`, `Registered` | a new connection speaks to the listener at once, to the pipeline once the old one has finished |
| `SttFinishes`, `StaleResult`, `Decline`, `Dispatch`, `OfflineReply` | `spawn_stt`, `handle_stt_done` |
| `HandleItem`, `ReleaseDue` | the pipeline's `select!` |
| `BrainContinues`, `BrainEnds` | `BrennBrain::handle`, `end_turn` |
| `PlaybackStarts`, `PlaybackEnds`, `PlaybackStops`, `FloorFree` | `fan_out_playback_event` |

A feed is handled when it is sent: the channel is a FIFO with one reader that
reports only through the pipeline's queue, so a feed that waits is a sender that
has not got round to sending it. A segment may open after a silence, right behind
the last one, or on audio that was sent before: a preroll that reaches back into
the last segment. Disturbances, each at most once: a chunk lost to a full
channel, a model that fails inside a chunk, a marker that times out, a segment
that sends audio again, a new connection, the last two with or without the
marker that tells the listener. A turn's clips follow one another: a clip that
is heard out is reported finished, then the next one or nobody has the floor, in
two reports to the listener. The offline clip is never cut. The pipeline awaits
the brain inline, so its queue waits meanwhile.

### Head: `MotionScripter`
The decisions (`Scripter`), the one-place publisher with its retries, and the
head, which is external and executes the newest script it received until that
script ends or times out. Instants are kept relative to now and `Elapse` moves
them all, so the state space has no clock. An input may be dropped, a script
refused, lost or overtaken by a newer one.

### Record store: `RecordStore`
One directory, four actors. The recorder of a connection creates a log, renames
it at the hello, rolls it, and rewrites the sidecar after each segment
(`RecordSegment` takes the lock and reads, `SegmentWritten` renames into place);
the pipeline labels a segment with a verdict that may come late; a pin command
in another process does the same read, merge and rename; the pruner takes an
inventory without the lock, then deletes tier by tier, rechecking each log under
the lock (`Recheck`, `UnlinkSidecar`, `UnlinkFramelog`). Any disk operation may
fail, a sidecar may become unreadable, and the daemon or the pin command may die
at any point; the lock is an flock and dies with its holder. Logs weigh one and
are numbered in the order their names sort.

### Composition
Streamer refines UplinkProtocol; IngestServer assumes it. DropOldestQueue
refines TwoLaneFifo; IngestServer's `items` and Conversation's `queue` assume
it. Each side is checked by itself, so the product is never built.

## 3. What the runs check

| run | question | bounds | states |
|---|---|---|---|
| `queue` | two handles against a receiver that cancels, closes and sweeps | 2 handles, capacity 1, 4 pushes | 153 k |
| `reachy_drain` | order, bounds, flush latency and liveness of the reachy drain | ring 3, wrap 6, 6 bytes, 2 resets, 2 marks | 352 k |
| `respeaker_drain` | the same for the respeaker drain, and that the mute swallows nothing | ring 2, wrap 4, 5 bytes, 2 resets, 1 tone test, 1 codec fault | 358 k |
| `uplink` | wire order, tail and handoff of two utterances with a lapped ring and a lost socket | ring 2, 3 samples, chunks of 2, 2 utterances, channel 2, 1 loss, threads may die | 2.7 M |
| `ingest_supersede` | three overlapping connections | 3 connections, 3 permits, 1 empty segment | 272 k |
| `ingest_sessions` | session, ledger and assembler in step | 2 connections, 1 permit, 2 segments, 2 samples, cap 2, 1 stray frame, reboot | 1.2 M |
| `reply_path` | two turns, two barge-ins, a closing connection and failing writes | clips of 2, 1 and 1 frames, queues of 1, lead 1, hop 1, 2 segments of context | 636 k |
| `record_store` | recorder, labels, a pin and the pruner on one directory | 3 log names, 1 segment a log, quota 1, 1 fault, 1 pin, 2 passes | 2.7 M |
| `head` | the head is up while owed and comes down afterwards | 4 inputs, 2 turns, 2 attempts, 1 dropped input; timeout 4, refresh 1 | 902 k |
| `conversation` | wakes, commands, barges, follow-ups and a reconnect against late transcriptions | 4 chunks, 2 turns, 2 wakes, 1 disturbance, all three barge modes | 4.1 M |
| `conversation_grant` | *violated*: a declined wake command lets the head down | 6 chunks, 2 turns, 2 wakes | — |
| `reply_rewrite` | *violated*: a job reports Started once | 3 turns of 1 clip, 2 barge-ins | — |

The properties, with the sentence of the source each comes from, are at the end
of each module. Several have parts: the type invariants are the first conjunct
of `RingStaysSound`, of respeaker's `PlaysInOrder`, and of
`ReleaseReachesItsSegment`, `AssemblerFollowsSession` and `SettlementIsTrue`;
`PlaysInOrder` also bounds what is played after a flush; `SoleReader` also says
that a registry slot is not lost to a late cleanup; `TasksEnd` that waits end and
that a shutdown drains; `OneTrueEnding` that a command ends once and is reported
finished only if it was heard whole; `EveryItemLeaves` that the end of the stream
is seen.

The bounds are the smallest at which the hazards occur: the queue must fill,
shed, close and sweep while both handles are inside a call; a ring must wrap, be
exactly full and split a run, and be reset twice so that a second reset can meet
the leftovers of the first; the VAD must release and reopen while the channel is
full; a supersede chain needs three connections; a reply must be banked behind
another turn's tail when that turn is cut, with one more in the queue. A log must
be created, renamed at the hello and rolled, which takes three names, while a
pass of the pruner that started before is under way; two passes, because a pass
that fails half way leaves a sidecar without its log or the reverse. (With two
segments a log the same properties hold over 54 M states; that instance takes a
quarter of an hour and is not kept as a run. The proofs have no such bound.) A
conversation needs a wake, its command, a pause, and a continuation or a second
wake (where a chunk or a marker is lost the instance has one wake; audio sent
again counts against the four chunks), with every threshold of the endpointer one chunk; the thresholds larger
than one and the level between the two are left to the unit tests of the
endpointer. The head needs a turn cut by another, and time to cross the refresh,
the linger and the timeout, which are all different. `MaxElapsed` lets the stream
clock pass the audible end of all that a stream can hold. Each property of a
passing run is also shown to fail when one definition is changed the way a
plausible bug would change it (the *variant* operators in the modules).

`CHECK_DEADLOCK FALSE` is set where the system may stop: every handle dropped,
every bounded input used up, a device that failed for good, the process shut
down.

### Fairness
* queue: a task that is inside a call goes on (weak fairness), as the tokio
  runtime schedules every ready task. Nothing is assumed of a caller that has
  not called; the end of the stream is promised to a receiver that keeps
  receiving.
* drains: the drain thread loops, its timers elapse; respeaker's DMA that is
  offered bytes again and again takes some (strong fairness, since an offer may
  be refused each time it is looked at). Nothing is assumed of the sender.
* ingest: every ready task runs; `select!` picks among ready branches at
  random, so a task that returns to its read for ever notices a cancelled token
  (strong fairness of `ReadInterrupted`). Whether a peer ever sends or fails is
  assumed of nobody.
* reply path: some task that can run does, or a timer that is due fires: weak
  fairness of their disjunction, and nothing about which of them. New turns,
  barge-ins and the end of the connection may never come.
* head: time passes, the scripter's tick that is due is taken and the publish
  loop goes on (weak fairness). A publish may be refused or lost every time.

The conversation, the uplink and the record store have safety properties only:
their liveness would rest on the room going quiet, on the network, or on the
disk.

## 4. What is proved

### The stage queue
`DropOldestQueueProofs` proves for every finite set of handles, every capacity
of at least one and every bound on pushes:

| theorem | says |
|---|---|
| `TypeCorrect` | the type invariant |
| `LaneAccountingHolds` | `sheddable_len` is the number of bulk entries and at most `Capacity`; the bookkeeping assertion never fires |
| `NoLostWakeupHolds` | a parked receiver with something to see has a permit or a notification on its way |
| `NoOrphansHolds` | after the sweep nothing is left or comes back |
| `QueueImplementsTwoLaneFifo` | each critical section is a Put, Take, Close or Discard, everything else a stutter |

The inductive invariant `IInv` is the type invariant with two parts.
`BufferInv` adds to the lane accounting that the buffer is sorted by stamp and
that every stamp is at most `pushed`; without it the eviction scan could not be
shown to find the oldest bulk entry, nor a push to be new. `WakeInv` adds to
`NoLostWakeup` and `NoOrphans` that `senders` counts the live handles, that
`closed` says where the receiver is, and that `seen_calls` never runs ahead of
`waiters_calls`; without them a last handle's drop could not be told from any
other, nor a push after the close be refused. Lemmas about `Append`,
`Tail` and `RemoveAt` on sorted sequences carry the three ways the buffer
changes. The assumptions are the three named ones of the module.

That recv yields push order and that overflow takes the oldest bulk entry only
is part of the last theorem: Take and Put of `TwoLaneFifo` say so.

### The record store
`RecordStoreProofs` proves for any number of log names, segments, pins, passes
and faults, and any quotas:

| theorem | says |
|---|---|
| `PinsAreKept` | a pin that landed stays in its sidecar, unless that rots, and its log stays in the store |
| `OpenLogsStay` | the pruner never unlinks the log a recorder has open |
| `SegmentsAreKept` | a readable sidecar lists every segment recorded into its log |
| `LateVerdictsSpare` | a log lifted to Positive is deleted only by a pass that took it for Positive |

The inductive invariant is `TypeOK` with seven parts. `LockInv` says who is in
the critical section that each value of `lock` names; `BufInv` that what the
holder is about to rename into place keeps the pin and the segments now on disk,
which is what the merge under the lock is for; `CountInv` ties the recorder's
copy in memory to the number of segments it has recorded under each name;
`NameInv` says that both names of a rename or roll are in the open set while it is
under way; `PrunerInv` that an entry the pruner is about to unlink is not open,
not pinned, and on disk still of the tier being drained; `LabelInv` that a label
is for a name in use; and `PinnedIsKept` itself. Without `BufInv` a rewrite could
lose a pin between its read and its rename; without `CountInv` the rewrite from
memory could be shorter than the file; without `NameInv` a recheck could take the
new name of a log for a closed one. There is one lemma per action, one step per
part, and a frame lemma for each part that says which variables it looks at. The
assumption is that the bounds are naturals.

### The playback drains
`PlaybackRingProofs` has what both drains need of the inbound ring:
`RingInv`, that the wrapping counters are the true ones modulo `Modulus` and that
the last `Cap` bytes written are in their slots, kept by every operation of the
ring; and that a run copied out is the bytes from the tail on, whether or not it
splits. `CaptureDrainProofs` and `PlaybackDrainProofs` use it, for any capacity
that divides the modulus, any write unit, budget and gate target, and any number
of bytes, resets, marks, tone tests, faults and underruns:

| theorem | says |
|---|---|
| `CapturePlaysInOrder` | respeaker: bytes reach the DMA in order and once, neither end of the ring overruns the other, and a flush lets at most one write unit of superseded audio through |
| `CaptureSilencesNothing` | no committed byte meets a muted DAC |
| `PlaybackPlaysInOrder` | reachy: the same order as long as no reset lands inside a pass; at most one pass of superseded audio follows a flush even when one does |
| `PlaybackRingStaysSound` | reachy: neither end overruns the other, on the same condition |

The invariant follows the bytes. `RunInv` says that the run in hand is the next
bytes of the ring, `StagedInv` (respeaker) that what is staged lies between what
was played and what is banked, `OrderInv` (reachy) that the last byte played is
the last one consumed unless a reset skipped some. `FenceInv` relates the
generation a drain has acted on to the position of the last reset: one that is
pending fences off all that was consumed or is in hand, one that was applied has
nothing left before it; without it `consumed` could pass `written` when the tail
is moved to `head_at_reset`. `LatencyInv` counts what was played of a superseded
stream together with what is still on its way, and `DacInv` says that a residue
is staged only while the DAC is on and its mute clock has not run out. The
remainder arithmetic of the counters is proved from well-founded induction on the
naturals, by least counterexample.

### The uplink
`StreamerProofs` proves for any ring, pre-roll, frame size, channel capacity and
number of utterances, chunks and losses:

| theorem | says |
|---|---|
| `ReleasesReachTheirSegments` | the release of a gate is read by the segment its onset opened and by no other |
| `TailsAreSent` | a segment that ends on its release has taken every sample captured before it |
| `StreamerImplementsUplink` | every write is a step of `UplinkProtocol`, everything else a stutter |

`GateInv` says what the telemetry thread leaves behind: only the newest onset is
unreleased, and the flag says that no segment is open except before the first
onset and between a dropped onset and its undoing. `ChanInv` orders the channel:
onsets ascend, each newer than the segment being served, and a release comes
after the onset it is for. `SegInv` says that a release that was read is the one
of this segment's onset and that a cursor about to close on it has passed the
head of that moment; `WireInv` that the frame in hand continues what the
connection was sent. The second theorem needs all of the first three: the
streamer learns of the release through the flag or through the channel, and
either may be about an earlier onset unless the order of the channel excludes it.

### The ingest
`IngestServerProofs` proves for any number of connections, permits, segments and
frames, in the protocol or outside of it, and any depth of the queue:

| theorem | says |
|---|---|
| `OneReaderAtATime` | no two connections of a pod are past their wait with anything left to export, and a served one that was not superseded owns its slots |
| `TailsPrecedeAnnouncements` | the pipeline takes the last segment of a connection before the announcement of the one that superseded it |

Both set aside a wait that was given up, the second also a hello that overtook
the hello of an older connection; the code allows both (section 5). `OrderInv`
says there is an order of the tasks, that of their hellos, in which the owner of
the registry is last, whoever does not wait has nobody before it still in, and
whoever waits has nobody between itself and the one it waits for. Without it the
chain of three connections could not be excluded in which the second gives way
to the third before the first is done. Unless a hello was overtaken this is the
order of the connection numbers, so the queue can be compared with it
(`QueueInv`): the epochs queued ascend from the announced one and none is above
that of a task that is still in. `QuietInv`, that a task before its hello has no
segment to export, and `EventsInv`, that a frame raises at most two events,
carry it through the loop over the events of a frame. The session's share is a
set of lemmas about `Feed` and `Close`: one hello is accepted, and before it
nothing else comes out.

### The head
`MotionScripterProofs` proves for any number of turns, inputs, lost or refused
scripts and dropped inputs, and any timing with `RefreshAssumption`:

| theorem | says |
|---|---|
| `HeadStaysUp` | a daemon that has the newest script has the head up until the stow the scripter wants |
| `ThinksAreNotCut` | no ending is scheduled while the brain has the current turn |

`UpInv` says of each place a script can be (slot, in flight, daemon) that it lasts
until the next refresh or the stow, unless a newer one has been offered. The proof
goes through one lemma per input of the scripter: its answer is a script that
lasts, or it changed nothing the standing script is for. `TimingAssumption` is
what the configuration validates; `RefreshAssumption`, that a refresh comes no
later than the bound on a hold and the timeout admits the next one, is not
validated (section 5) and is a hypothesis of the theorem and a constraint of the
run.

### Only model-checked
* Liveness (`EveryItemLeaves`, `EveryByteLeaves`, `TasksEnd`, `EveryCommandEnds`,
  `HeadComesDown`), which is out of the prover's reach.
* `QuietMeansDown`. It needs a linger longer than the refresh, which the
  configuration does not ask for (section 5), and an account of every attempt of
  the publisher; it has no theorem.
* `AssemblerFollowsSession` and `ArrivesWhole`: what arrives is whole because the
  pod numbers its samples without a gap, so the induction has to carry the pod's
  side of every connection as well as the host's.
* The reply path (`OneTrueEnding`, `BacklogInOrder`, `FloorIsTrue`,
  `SettlementIsTrue`, `OneMarkSuffices`, `CompletesWhenHeard`). The ledger is settled
  by a fold over the commands a step ended, and what a fold returns for every
  input is an induction over data.
* The conversation (`VerdictOnNewestCarve`, `DispatchedOnce`, `AssertsHold`,
  `AbsentMeansUnminted`, `RestoredDeadlineStands`, `NoStrandedHead`). A feed is
  one step through a dozen nested operators, and each would need its own lemma.

## 5. Where the code and its comments disagree

With a run of its own:

* **Robbed grant** (`conversation_grant`). A second wake command is carved on
  its held grant while the first is still being judged. The dispatch of the
  first ends *the* spent grant, "whichever candidate spent it"
  (`close_dispatched`). The second command still carries `grant_spent`, so its
  decline tells the head nothing, and nothing is left to give back: the head
  stays up. `handle_stt_done` and `Carve::grant_spent` both promise the
  opposite. `NoStrandedHead` sets such a candidate aside when it is the last one
  the pipeline took on (`robbed`).
* **Second Started** (`reply_rewrite`). A job pulled back by one flush and in
  hand, unwritten, at the next is parked as not started and reports `Started`
  again; the ledger then counts a start too many.

Seen while modelling, set aside by the passing properties or outside of them:

* *Refresh and the bound on a hold.* `config.rs` validates the presence timings one
  by one and admits a `presence_refresh_ms` above `presence_max_engaged_ms`. The
  timeout of a pose on hold covers both, but a script that a Keep leads has its
  stow at the bound on a hold: the head then drops before the refresh renews it,
  while it is wanted up. `scripter.rs:301` says "a hold script is kept clear of
  its own timeout by them". `RefreshAssumption` sets such a configuration aside.
* *Linger and refresh.* `wait_out_linger` clears `running` without publishing when
  the want has not changed. With a linger no longer than the refresh, one lost
  script then leaves the head to the script's own timeout. The `head` run keeps
  the linger longer.

* *Rewind after a raced reset.* The reachy drain does not compare the generation
  of a run with the one it acted on, as `copy_run_into` asks of its caller; a
  reset between its check and its copy makes it play bytes of the new stream and
  rewind over them. `PlaysInOrder` of `PlaybackDrain` sets such passes aside
  (`raced`). The respeaker drain compares, and its order has no exception.
* *Swallowed onset.* A release and the next onset queued while the streamer
  connects are both read by the first segment, which discards the onset; the
  comment (`segment.rs:405`) calls it a re-onset, which the VAD cannot produce.
* *Dropped tail.* A task superseded while it waits gives up; its successor then
  announces its epoch while the first connection's tail is still to come, and
  the pipeline drops it, which the comment at `server.rs:2814` says the wait is
  there to prevent. `TailBeforeAnnouncement` sets this aside (`abandoned`).
* *Listener ahead of the pipeline.* The listener hears of a new connection at its
  hello, the pipeline once the old connection has finished. Events of the new
  epoch make the pipeline adopt it early, and the old connection's last segment
  is then stale and dropped, though its announcement waited. So the ingest's
  property is about the announcement and not about what is dropped;
  `Conversation` has the early adoption.
* *Overdue restore.* A wake given back with no time left arms no release, on the
  ground that the listener's own expiry follows; but in a pause of speech, or
  when the segment closes, no hold expiry is checked. `NoStrandedHead` sets aside
  the wake that came back so, for as long as it stands (`Overdue`).
* *Heads without an ending.* A transcription aborted by resumed speech whose
  stream is then reset by a gap, and a lost `Declined` or `SegmentClosed` marker,
  leave a raised head with no event that ends it. So does a barge in speech whose
  speech is dropped: by a new connection, or because the utterance it resumed has
  meanwhile been dispatched and what is carved of it comes too late.
  `NoStrandedHead` is about runs in which nothing is lost, and sets the barge
  aside when its speech was dropped (`barge`). The scripter's header says of a lost input that "the
  standing script carries a timeout", but the refresh renews it for as long as
  the head is wanted.
* *Label clobbered.* The recorder takes labels it finds on disk into memory when
  it rewrites the sidecar; if a late detection then upgrades a segment to
  Positive on disk, the next rewrite puts the remembered Negative back.
  `pipeline.rs:697` says a later detection "can upgrade it, never downgrade".
* *Pin left behind.* A pin made under the name a log has before its hello stays
  with that name when the log is renamed. A pin of a name whose log is gone is
  taken as well, and leaves a sidecar without a log.
* *Orphaned sidecar.* A sidecar written between the inventory's look for it and
  its look at the open set is not in the entry, and stays when the log is
  deleted.
* An end mark followed by fresh audio between a drain's look at the tail and
  its copy is passed by the run and never matched again until a reset
  (`copy_run_into` says such a mark "must be observed *before* draining past
  it"). Order and liveness hold regardless.
* The ring's comment asks for no relation between `2^32` and the capacity;
  positions `head % cap` do jump at the wrap unless the capacity divides it.
  The one capacity in use, 65 536, does. The models keep the relation
  (`Modulus` a multiple of `Cap`).
* Hellos of two connections may be processed in the other order than the
  connections were accepted; the older is then announced last and its segments
  are dropped. `TailBeforeAnnouncement` excludes this case (`overtaken`).
* After a wait was given up, the older connection may register its playback
  writer after its successor did (`SoleReader` excludes it).
* A pod that reboots restarts its segment ids; an entry left in the ledger then
  marks a fresh segment as resumed.
* The barge-in flushes before it marks the turn, so a router past its last check
  may still deliver a command of the turn after the cut; the comment at the mark
  says such a command "can never land after the flush has already cut its audio".
* A `BargeIn` names no turn and waits while the pipeline awaits the brain, so it
  cuts the turn that is audible when it is handled, possibly a later one.
* `handle_flush` takes the front of `pending` and awaits the event before it
  publishes `current`; `emit_audible` says the handle "never reads a `current`
  that lags the queue across an await". The model has the gap and the stale
  request is dropped.
* A command the full speak channel refuses has been counted by the tap and is
  never settled: `awaiting_start` stays above zero until the next dispatch.
  `EveryCommandEnds` speaks of the commands the channel took.
* A flush granted just before the audible job is heard out marks a turn
  interrupted that was heard whole; the source has a TODO for it.

## 6. What could come next

* The brain's wait slots and the matching of late and stray responses to turns,
  and the reconnecting driver of the bridge, as a module beside `Conversation`.
* Reply path: announcements, clips without a turn, empty clips, which the modules
  allow or leave out and no run has.
* A refinement from `Conversation` and `ReplyPath` to one abstract turn: asked,
  answered or declined, heard or cut, once.
* Proofs: exactly-once settlement of the reply path, and the session and the
  assembler in step.

## 7. Not modelled

* Model inference and speech backends: numeric, or one HTTP request at a time.
* TLS and poll readiness: the streamer sees only whole, partial, blocked and
  failed writes. The byte-level framing and parsing of the wire.
* Device control (USB and I2C registers, codec and beam set-up), self tests, the
  commissioning tools and the hardware-in-the-loop host, which is the largest
  file of the repository: sequential request and response with one device.
* The Wi-Fi supervisor: backoff arithmetic inside one thread.
* Configuration, console, replay tools, log rendering, statistics, time stamps.

Of the repository's lines about three in four are tests, comments and those
tools; the modules cover most of the remaining code that shares state or waits.
The reasons are with each component in `PROJECT.json`.
