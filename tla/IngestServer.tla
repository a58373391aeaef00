----------------------------- MODULE IngestServer -----------------------------
(***************************************************************************)
(* The host's ingest of one pod: speech-surface server.rs, with the        *)
(* session, the ledger and the assembler of each connection and the order  *)
(* in which the pipeline (pipeline.rs) takes what they send.               *)
(*                                                                         *)
(* Every connection is a task.  A task's step ends where it awaits or lets *)
(* go of a lock another task takes: the registries, the ledger, the item   *)
(* queue.  The pod is the environment: it follows UplinkProtocol, except   *)
(* for at most MaxStray frames, and may open a connection while the host   *)
(* still serves earlier ones.                                              *)
(***************************************************************************)
EXTENDS SessionFsm, SegmentAssembler, FiniteSetsExt

CONSTANTS Pod,              \* the pod
          MaxConns,         \* bound: connections the pod opens
          MaxConnections,   \* accept permits
          SegmentQueueDepth,
          MaxSegments,      \* bound: segment ids the pod uses
          MaxSamples,       \* bound: sample indexes the pod reaches
          MaxWire,          \* bound: frames in flight on a connection
          MaxStray,         \* bound: connections with a frame outside the protocol
          MayReboot         \* the pod may reboot

ASSUME IngestAssumption ==
  /\ MaxConns \in Nat /\ MaxConnections \in Nat \ {0} /\ SegmentQueueDepth \in Nat \ {0}
  /\ MaxSegmentSamples \in Nat \ {0} /\ MaxTelemetryReadings \in Nat

Conn == 1..MaxConns
None == 0

VARIABLES
  sess, wire, stray,        \* the pod: protocol state, frames in flight per
                            \* connection, connections with a stray frame
  conn_seq,                 \* connections accepted so far
  pc, fsm, asm, evs, old,   \* per task: where it is, its session and
                            \* assembler, events to process, whom it waits for
  registered,               \* tasks whose registered_pod is set
  cancelled, finished,      \* the tokens of each task
  registry, playback,       \* owners of the pod's slots, or None
  ledger,
  shutdown,
  items,                    \* the pipeline queue
  announced,                \* the newest Connected the pipeline took, or None
  abandoned,                \* history: a superseded task gave up its wait
  overtaken,                \* history: a Hello was read after a later one
  late                      \* history: a segment was taken behind the
                            \* Connected of a later connection

podVars  == <<sess, wire, stray, conn_seq>>
taskVars == <<fsm, asm, evs, old, registered, cancelled, finished>>
pipeVars == <<announced, late>>
vars == <<podVars, pc, taskVars, registry, playback, ledger, shutdown, items,
          pipeVars, abandoned, overtaken>>

U == INSTANCE UplinkProtocol WITH
       MayResume <- FALSE, up <- sess.phase # "none", sess <- sess,
       half <- [type |-> "none"], out <- [type |-> "none"]

Init ==
  /\ sess = U!NoSession /\ wire = [c \in Conn |-> <<>>] /\ stray = {}
  /\ conn_seq = 0
  /\ pc = [c \in Conn |-> "off"]
  /\ fsm = [c \in Conn |-> NewSession] /\ asm = [c \in Conn |-> NewAssembler]
  /\ evs = [c \in Conn |-> <<>>] /\ old = [c \in Conn |-> None]
  /\ registered = {} /\ cancelled = {} /\ finished = {}
  /\ registry = None /\ playback = None
  /\ ledger = EmptyLedger /\ shutdown = FALSE /\ items = <<>>
  /\ announced = None /\ late = FALSE
  /\ abandoned = FALSE /\ overtaken = FALSE

-----------------------------------------------------------------------------
(* The pod (external). *)

Frames ==
  {U!SegmentStart(id, b) : id \in 0..MaxSegments-1, b \in {sess.next}}
    \cup {U!Audio(sess.id, sess.next, <<sess.next>>), U!TelemetryFrame,
          U!SegmentEnd(sess.id, sess.count, "VadRelease")}

(* Frames that do not fit the protocol where they are sent.  A SegmentStart of
   an id used before is how a segment is resumed; a sample is skipped in
   GapAudio. *)
GapAudio == U!Audio(sess.id, sess.next + 1, <<sess.next + 1>>)

StrayOpenings ==
  {[type |-> "BadHello"], [type |-> "ForeignHello"], [type |-> "Control"]}

StrayFrames ==
  {[type |-> "Control"], [type |-> "OddAudio"], U!Hello, GapAudio}
    \cup {f \in Frames : ~U!MayFollow(sess, f)}

MayStray == Cardinality(stray) < MaxStray

(* The pod leaves its connection, if any, and opens the next, perhaps after a
   reboot, which restarts its segment ids and sample indexes.  The accept loop
   takes the connection if a permit is free and closes it at once if not.  A
   failed TLS handshake is a read that fails before the first frame. *)
Busy == {c \in Conn : pc[c] \notin {"off", "done"}}

PodConnects ==
  /\ ~shutdown /\ conn_seq < MaxConns
  /\ conn_seq' = conn_seq + 1
  /\ pc' = [pc EXCEPT ![conn_seq + 1] =
              IF Cardinality(Busy) < MaxConnections THEN "read" ELSE "done"]
  /\ \E base \in {sess} \cup (IF MayReboot THEN {U!NoSession} ELSE {}) :
       sess' = [base EXCEPT !.phase = "idle"]
  /\ \E f \in {U!Hello} \cup (IF MayStray THEN StrayOpenings ELSE {}) :
       /\ wire' = [wire EXCEPT ![conn_seq + 1] = <<f>>]
       /\ stray' = IF f = U!Hello THEN stray ELSE stray \cup {conn_seq + 1}
  /\ UNCHANGED <<taskVars, registry, playback, ledger, shutdown, items,
                 pipeVars, abandoned, overtaken>>

InFlight(f) == wire' = [wire EXCEPT ![conn_seq] = Append(@, f)]

(* What is sent to a task that no longer reads is lost, and left out. *)
Reads(c) == pc[c] \in {"read", "events", "wait", "announce", "spawn"}

PodSends ==
  /\ conn_seq # 0 /\ Reads(conn_seq) /\ Len(wire[conn_seq]) < MaxWire
  /\ \/ \E f \in Frames :
          /\ U!MayFollow(sess, f)
          /\ f.type = "Audio" => sess.next < MaxSamples
          /\ sess' = U!SessAfter(sess, f) /\ InFlight(f)
          /\ UNCHANGED stray
     \/ \E f \in StrayFrames :
          /\ MayStray /\ conn_seq \notin stray
          /\ stray' = stray \cup {conn_seq} /\ InFlight(f)
          /\ UNCHANGED sess
  /\ UNCHANGED <<conn_seq, pc, taskVars, registry, playback, ledger, shutdown,
                 items, pipeVars, abandoned, overtaken>>

-----------------------------------------------------------------------------
(* A connection task: the read loop. *)

Goto(c, where) == pc' = [pc EXCEPT ![c] = where]

Interrupted(c) == c \in cancelled \/ shutdown

(* Token or socket: a read select! polls its ready branches in random order,
   so a frame may still be read by an interrupted task. *)
ReadFrame(c) ==
  /\ pc[c] = "read" /\ wire[c] # <<>>
  /\ wire' = [wire EXCEPT ![c] = Tail(@)]
  /\ LET step == Feed(fsm[c], Head(wire[c]), ledger, Pod)
     IN  /\ fsm' = [fsm EXCEPT ![c] = step.fsm]
         /\ ledger' = step.ledger
         /\ evs' = [evs EXCEPT ![c] = step.events]
         /\ Goto(c, IF step.events = <<>> THEN "read" ELSE "events")
  /\ UNCHANGED <<sess, stray, conn_seq, asm, old, registered, cancelled,
                 finished, registry, playback, shutdown, items, pipeVars,
                 abandoned, overtaken>>

(* The read loop breaks; the socket goes with what it holds. *)
BreakRead(c) == Goto(c, "close") /\ wire' = [wire EXCEPT ![c] = <<>>]

(* EOF, a socket or decode error, HELLO_DEADLINE or PAYLOAD_READ_TIMEOUT. *)
ReadFails(c) ==
  /\ pc[c] = "read"
  /\ BreakRead(c)
  /\ UNCHANGED <<sess, stray, conn_seq, taskVars, registry, playback, ledger, shutdown,
                 items, pipeVars, abandoned, overtaken>>

ReadInterrupted(c) ==
  /\ pc[c] = "read" /\ Interrupted(c)
  /\ BreakRead(c)
  /\ UNCHANGED <<sess, stray, conn_seq, taskVars, registry, playback, ledger, shutdown,
                 items, pipeVars, abandoned, overtaken>>

-----------------------------------------------------------------------------
(* A connection task: the events of one frame. *)

(* Supersede: take the pod's slot, cancel whoever held it, and wait for that
   task to finish.  The variant leaves the old task alone. *)
CancelsNone(prev) == {}

Cancels(prev) == {prev} \ {None}

(* The variant does not wait. *)
NeverWaits(prev) == "announce"

AfterHello(prev) == IF prev = None THEN "announce" ELSE "wait"

OnHelloAccepted(c) ==
  /\ pc[c] = "events" /\ Head(evs[c]).type = "HelloAccepted"
  /\ evs' = [evs EXCEPT ![c] = <<>>]
  /\ IF Head(evs[c]).own
       THEN /\ registry' = c /\ registered' = registered \cup {c}
            /\ old' = [old EXCEPT ![c] = registry]
            /\ cancelled' = cancelled \cup Cancels(registry)
            /\ Goto(c, AfterHello(registry)) /\ UNCHANGED wire
            /\ overtaken' = (overtaken \/ \E d \in registered : d > c)
       ELSE /\ BreakRead(c)       \* hello_identity_mismatch
            /\ UNCHANGED <<registry, registered, old, cancelled, overtaken>>
  /\ UNCHANGED <<sess, stray, conn_seq, fsm, asm, finished, playback, ledger, shutdown,
                 items, pipeVars, abandoned>>

WaitFinished(c) ==
  /\ pc[c] = "wait" /\ old[c] \in finished
  /\ Goto(c, "announce")
  /\ UNCHANGED <<podVars, taskVars, registry, playback, ledger, shutdown,
                 items, pipeVars, abandoned, overtaken>>

WaitAbandoned(c) ==
  /\ pc[c] = "wait" /\ c \in cancelled
  /\ BreakRead(c)
  /\ abandoned' = (abandoned \/ old[c] \notin finished)
  /\ UNCHANGED <<sess, stray, conn_seq, taskVars, registry, playback, ledger, shutdown,
                 items, pipeVars, overtaken>>

Announce(c) ==
  /\ pc[c] = "announce"
  /\ items' = Append(items, [kind |-> "Connected", epoch |-> c])
  /\ Goto(c, "spawn")
  /\ UNCHANGED <<podVars, taskVars, registry, playback, ledger, shutdown,
                 pipeVars, abandoned, overtaken>>

(* PlaybackWriter::spawn and playback_register. *)
SpawnWriter(c) ==
  /\ pc[c] = "spawn"
  /\ playback' = c
  /\ Goto(c, "read")
  /\ UNCHANGED <<podVars, taskVars, registry, ledger, shutdown, items,
                 pipeVars, abandoned, overtaken>>

(* send_sheddable, as TwoLaneFifo promises it: a full bulk lane loses its
   oldest segment, a Connected is never shed. *)
IsSegment(item) == item.kind = "Segment"

Segments(q) == {i \in DOMAIN q : IsSegment(q[i])}

LaneFull(q) == Cardinality(Segments(q)) >= SegmentQueueDepth

WithoutOldest(q) ==
  LET oldest == Min(Segments(q))
  IN  SubSeq(q, 1, oldest - 1) \o SubSeq(q, oldest + 1, Len(q))

SendSheddable(q, item) == Append(IF LaneFull(q) THEN WithoutOldest(q) ELSE q, item)

(* One event of a frame: the assembler folds it in, and the segment it
   finishes, if any, is sent. *)
Export(c, at, ev) ==
  LET r == OnEvent(at.asm, ev)
  IN  [asm   |-> r.asm,
       items |-> IF r.segments = <<>> THEN at.items
                 ELSE SendSheddable(at.items, [kind |-> "Segment", epoch |-> c,
                                               seg |-> Head(r.segments)])]

Exported(c, a, q, events) ==
  LET run[k \in 0..Len(events)] ==
        IF k = 0 THEN [asm |-> a, items |-> q] ELSE Export(c, run[k - 1], events[k])
  IN  run[Len(events)]

Exports(c) ==
  LET r == Exported(c, asm[c], items, evs[c])
  IN  /\ asm' = [asm EXCEPT ![c] = r.asm]
      /\ items' = r.items
      /\ evs' = [evs EXCEPT ![c] = <<>>]

(* The for loop over the events of a frame; a fatal one ends the read loop. *)
ProcessEvents(c) ==
  /\ pc[c] = "events" /\ Head(evs[c]).type # "HelloAccepted"
  /\ Exports(c)
  /\ IF Fatal \in Range(evs[c]) THEN BreakRead(c)
                                ELSE Goto(c, "read") /\ UNCHANGED wire
  /\ UNCHANGED <<sess, stray, conn_seq, fsm, old, registered, cancelled, finished, registry,
                 playback, ledger, shutdown, pipeVars, abandoned, overtaken>>

-----------------------------------------------------------------------------
(* A connection task: the finalize path. *)

CloseSession(c) ==
  /\ pc[c] = "close"
  /\ LET step == Close(fsm[c], ledger, Pod)
     IN  /\ fsm' = [fsm EXCEPT ![c] = step.fsm]
         /\ ledger' = step.ledger
         /\ evs' = [evs EXCEPT ![c] = step.events]
  /\ Goto(c, "export")
  /\ UNCHANGED <<podVars, asm, old, registered, cancelled, finished, registry,
                 playback, shutdown, items, pipeVars, abandoned, overtaken>>

ExportTail(c) ==
  /\ pc[c] = "export"
  /\ Exports(c)
  /\ Goto(c, "deregister")
  /\ UNCHANGED <<podVars, fsm, old, registered, cancelled, finished, registry,
                 playback, ledger, shutdown, pipeVars, abandoned, overtaken>>

(* The variant removes the entry whoever owns it. *)
UnguardedRemove(owner, c) == None

(* guarded_remove *)
GuardedRemove(owner, c) == IF owner = c THEN None ELSE owner

Deregister(c) ==
  /\ pc[c] = "deregister"
  /\ registry' = IF c \in registered THEN GuardedRemove(registry, c) ELSE registry
  /\ Goto(c, "playback_deregister")
  /\ UNCHANGED <<podVars, taskVars, playback, ledger, shutdown, items,
                 pipeVars, abandoned, overtaken>>

PlaybackDeregister(c) ==
  /\ pc[c] = "playback_deregister"
  /\ playback' = IF c \in registered THEN GuardedRemove(playback, c) ELSE playback
  /\ Goto(c, "finish")
  /\ UNCHANGED <<podVars, taskVars, registry, ledger, shutdown, items,
                 pipeVars, abandoned, overtaken>>

(* finished.cancel(), then the permit is dropped with the task. *)
Finish(c) ==
  /\ pc[c] = "finish"
  /\ finished' = finished \cup {c}
  /\ old' = [old EXCEPT ![c] = None]
  /\ Goto(c, "done")
  /\ UNCHANGED <<podVars, fsm, asm, evs, registered, cancelled, registry,
                 playback, ledger, shutdown, items, pipeVars, abandoned,
                 overtaken>>

-----------------------------------------------------------------------------
(* The pipeline and the server. *)

(* run takes the next item, and a Connected raises the pod's epoch.  So does an
   event of the listener for a connection it was told of; the listener's events
   and what the pipeline does with an item are in Pipeline and Conversation. *)
PipelineTakes ==
  /\ items # <<>>
  /\ items' = Tail(items)
  /\ LET item == Head(items)
     IN  /\ announced' = IF item.kind = "Connected" /\ announced < item.epoch
                         THEN item.epoch ELSE announced
         /\ late' = (late \/ (IsSegment(item) /\ item.epoch < announced))
  /\ UNCHANGED <<podVars, pc, taskVars, registry, playback, ledger, shutdown,
                 abandoned, overtaken>>

(* The accept loop breaks, shutdown_token is cancelled, conns.wait(). *)
Shutdown ==
  /\ ~shutdown
  /\ shutdown' = TRUE
  /\ UNCHANGED <<podVars, pc, taskVars, registry, playback, ledger, items,
                 pipeVars, abandoned, overtaken>>

(* What a task does without waiting for anyone. *)
TaskRuns(c) ==
  \/ OnHelloAccepted(c) \/ WaitFinished(c) \/ WaitAbandoned(c)
  \/ Announce(c) \/ SpawnWriter(c) \/ ProcessEvents(c)
  \/ CloseSession(c) \/ ExportTail(c) \/ Deregister(c)
  \/ PlaybackDeregister(c) \/ Finish(c)

Next ==
  \/ PodConnects \/ PodSends \/ PipelineTakes \/ Shutdown
  \/ \E c \in Conn : ReadFrame(c) \/ ReadFails(c) \/ ReadInterrupted(c) \/ TaskRuns(c)

Spec == Init /\ [][Next]_vars

(* The runtime runs every ready task.  Whether a peer ever sends, or its
   connection ever fails, is assumed of nobody.  A select! that is ready on a
   token and on the socket picks at random, so a task that keeps coming back
   to it cannot miss the token for ever: strong fairness. *)
FairSpec ==
  /\ Spec
  /\ \A c \in Conn : WF_vars(TaskRuns(c)) /\ SF_vars(ReadInterrupted(c))

-----------------------------------------------------------------------------
(* Properties *)

Part == [open : BOOLEAN, id : -1..MaxSegments-1, part : Nat, base : Nat,
         len : 0..MaxSegmentSamples-1, is_resume : BOOLEAN, gaps : BOOLEAN,
         telemetry : 0..MaxTelemetryReadings]

TypeOK ==
  /\ conn_seq \in 0..MaxConns /\ stray \subseteq Conn
  /\ \A c \in Conn :
       /\ pc[c] \in {"off", "read", "events", "wait", "announce", "spawn", "close",
                      "export", "deregister", "playback_deregister", "finish", "done"}
       /\ fsm[c].state \in {"AwaitHello", "Idle", "InSegment", "Dead"}
       /\ asm[c].cur \in Part /\ asm[c].violated \in BOOLEAN
       /\ (pc[c] = "events") => evs[c] # <<>>
       /\ old[c] \in {None} \cup Conn
  /\ registered \cup cancelled \cup finished \subseteq Conn
  /\ {registry, playback} \subseteq {None} \cup Conn
  /\ Cardinality(Segments(items)) <= SegmentQueueDepth
  /\ announced \in {None} \cup Conn

(* The assembler's "FSM ordering contract": between two frames the assembler
   is open on exactly the segment its session is in, contract_violations is
   zero, and a part opened at the host cap starts where the capping chunk
   ended, whatever gaps came before; the ledger they share stays sound while
   tasks note and take concurrently, and the segment lane within its depth. *)
AssemblerFollowsSession ==
  TypeOK /\ Sound(ledger) /\ \A c \in Conn :
    /\ ~asm[c].violated
    /\ evs[c] = <<>> =>
         LET seg == fsm[c].seg
             cur == asm[c].cur
         IN  /\ cur.open = (fsm[c].state = "InSegment")
             /\ cur.open => cur.id = seg.segment_id
             /\ cur.open /\ cur.len = 0 => cur.base = seg.last_index + seg.last_samples

(* The cross-check reports a device or transport fault only when there is one:
   the segments of a pod that keeps the wire protocol arrive without gaps and
   with matching counts, however connections are cut, capped and superseded. *)
ArrivesWhole ==
  \A i \in DOMAIN items :
    IsSegment(items[i]) /\ items[i].epoch \notin stray =>
      ~items[i].seg.gaps /\ items[i].seg.cross # "Mismatch"

Serving(c) ==
  /\ c \in registered
  /\ pc[c] \in {"announce", "spawn", "read", "events", "close", "export"}

(* "That write must strictly precede this connection's first resume lookup":
   no two connections of the pod are past their wait with a session or a tail
   still to export (unless a superseded task gave up its own wait).  "A
   superseding successor may already own the slot and must keep it": a
   connection that is served and not superseded is where the registry and the
   playback router find the pod. *)
SoleReader ==
  /\ abandoned \/ \A c, d \in Conn : Serving(c) /\ Serving(d) => c = d
  /\ \A c \in registered \ cancelled :
       pc[c] \in {"read", "events"} => registry = c /\ (abandoned \/ playback = c)

(* "Sent after the superseded connection has finished, because [...] enqueued
   ahead of its close, it would make the pipeline drop the old connection's
   last segment": no segment reaches the pipeline behind a later connection's
   Connected (unless a wait was given up, or the pod's connections were
   identified out of order).  It is the announcement that waits: what the
   listener says for the later connection, whose Hello it hears of before the
   wait, may retire the epoch first, and then the segment is dropped. *)
TailBeforeAnnouncement == abandoned \/ overtaken \/ ~late

(* "A superseded-while-superseding task cannot hang forever holding its
   permit": once the pod stops opening connections, nobody is left waiting for
   a superseded one.  And conns.wait() returns: after a shutdown every
   connection task ends. *)
TasksEnd ==
  /\ []<>(\A c \in Conn : pc[c] # "wait")
  /\ shutdown ~> (Busy = {})

=============================================================================
