------------------------- MODULE IngestServerProofs -------------------------
(* One connection of a pod is served at a time, and what a connection        *)
(* exports reaches the pipeline ahead of the next one's announcement,        *)
(* whatever the number of connections and however their tasks are scheduled. *)
EXTENDS IngestServer, NaturalsInduction, SequenceTheorems,
        FiniteSetTheorems, TLAPS

(* Before a task takes itself out of the registry, having its session or a   *)
(* tail still to export.                                                     *)
Live == {"read", "events", "announce", "spawn", "close", "export", "deregister"}
Places == Live \cup {"off", "wait", "playback_deregister", "finish", "done"}
States == {"AwaitHello", "Idle", "InSegment", "Dead"}

IsSession(s) == s = [state |-> s.state, seg |-> s.seg] /\ s.state \in States

ShapeInv ==
  /\ pc \in [Conn -> Places] /\ conn_seq \in 0..MaxConns
  /\ fsm = [c \in Conn |-> fsm[c]] /\ \A c \in Conn : IsSession(fsm[c])
  /\ evs = [c \in Conn |-> evs[c]]
  /\ old \in [Conn -> Conn \cup {None}]
  /\ registered \subseteq Conn /\ finished \subseteq Conn
  /\ registry \in Conn \cup {None} /\ playback \in Conn \cup {None}
  /\ abandoned \in BOOLEAN

(* A task is on the register from its one Hello on. *)
HelloInv ==
  /\ \A c \in Conn : c > conn_seq => pc[c] = "off"
  /\ \A c \in Conn : pc[c] \in {"wait", "announce", "spawn"} => c \in registered
  /\ \A c \in registered : pc[c] # "off" /\ fsm[c].state # "AwaitHello"
  /\ \A c \in Conn : pc[c] = "events" /\ Head(evs[c]).type = "HelloAccepted"
                       => c \notin registered /\ fsm[c].state # "AwaitHello"
  /\ \A c \in finished : pc[c] = "done"

In == {c \in registered : pc[c] \in Live \cup {"wait"}}

(* In the order of their hellos: the owner of the slot is the last, whoever  *)
(* does not wait has nobody left before it, and whoever waits has nobody     *)
(* between itself and the task it waits for.                                 *)
Ordered(rank, top) ==
  /\ \A c \in registered : rank[c] < top
  /\ \A c, d \in registered : rank[c] = rank[d] => c = d
  /\ IF registry = None THEN In = {}
     ELSE registry \in In /\ \A c \in In : rank[c] <= rank[registry]
  /\ \A c \in registered : pc[c] # "wait" => \A d \in In : rank[d] >= rank[c]
  /\ \A c \in registered : pc[c] = "wait" =>
       /\ old[c] \in registered /\ rank[old[c]] < rank[c]
       /\ \A d \in In : rank[d] < rank[c] => rank[d] <= rank[old[c]]

(* Unless a hello was overtaken, that is the order of the connections. *)
Numbered(rank) == overtaken \/ \A c \in registered : rank[c] = c

OrderInv ==
  abandoned \/ \E rank \in [Conn -> Nat], top \in Nat : Ordered(rank, top) /\ Numbered(rank)

(* A task that was not superseded still owns what it took. *)
OwnerInv ==
  /\ \A c \in In \ cancelled : registry = c
  /\ abandoned \/ \A c \in In \ cancelled : pc[c] \in {"read", "events"} => playback = c

IInv == ShapeInv /\ HelloInv /\ OrderInv /\ OwnerInv

-----------------------------------------------------------------------------
(* What the ordering needs of the session: it accepts one hello. *)
Greets(events) == events # <<>> /\ Head(events).type = "HelloAccepted"

AcceptsOnce(s, step) ==
  /\ IsSession(step.fsm) /\ step.fsm.state # "AwaitHello"
  /\ s.state # "AwaitHello" => ~Greets(step.events)

LEMMA NoneGreets ==
  ASSUME NEW e, e.type # "HelloAccepted" PROVE ~Greets(<<e>>)
<1>1. Head(<<e>>) = e
  OBVIOUS
<1>. QED  BY <1>1, Zenon DEF Greets

LEMMA Sessions ==
  /\ IsSession(IdleSession) /\ IdleSession.state = "Idle"
  /\ IsSession(DeadSession) /\ DeadSession.state = "Dead"
BY Zenon DEF IdleSession, DeadSession, IsSession, States

LEMMA Counted ==
  ASSUME NEW s, IsSession(s), NEW y
  PROVE  LET t == [s EXCEPT !.seg = y] IN IsSession(t) /\ t.state = s.state
<1> DEFINE t == [s EXCEPT !.seg = y]
<1>1. PICK a, b : s = [state |-> a, seg |-> b] /\ a \in States
  BY Zenon DEF IsSession
<1>2. t = [state |-> a, seg |-> y]
  BY <1>1
<1>. HIDE DEF t
<1>. QED  BY <1>1, <1>2 DEF IsSession

LEMMA TruncateAccepts ==
  ASSUME NEW s, IsSession(s), NEW L, NEW p
  PROVE  LET cut == TruncateOpenSegment(s, L, p)
         IN  /\ IsSession(cut.fsm) /\ cut.fsm.state = "Idle"
             /\ \E e : cut.events = <<e>> /\ e.type # "HelloAccepted"
             /\ cut = [fsm |-> cut.fsm, ledger |-> cut.ledger, events |-> cut.events]
<1> DEFINE n == NoteTruncated(L, p, s.seg.segment_id)
           e == SegmentClosed(s.seg.segment_id, "Truncated")
<1>1. TruncateOpenSegment(s, L, p) = [fsm |-> IdleSession, ledger |-> n, events |-> <<e>>]
  BY Zenon DEF TruncateOpenSegment, Step
<1>2. e.type # "HelloAccepted"
  BY Zenon DEF SegmentClosed
<1>. HIDE DEF n, e
<1>. QED  BY <1>1, <1>2, Sessions

LEMMA OpenAccepts ==
  ASSUME NEW s, NEW f, NEW L, NEW p
  PROVE  LET next == OpenSegment(s, f, L, p)
         IN  /\ IsSession(next.fsm) /\ next.fsm.state = "InSegment"
             /\ \E e : next.events = <<e>> /\ e.type # "HelloAccepted"
             /\ next = [fsm |-> next.fsm, ledger |-> next.ledger, events |-> next.events]
BY DEF OpenSegment, Step, IsSession, States, SegmentOpened

LEMMA InSegmentAccepts ==
  ASSUME NEW s, IsSession(s), NEW f, NEW L, NEW p, s.state = "InSegment"
  PROVE  AcceptsOnce(s, FeedInSegment(s, f, L, p))
<1> DEFINE step == FeedInSegment(s, f, L, p)
<1>1. CASE f.type = "SegmentStart"
  <2> DEFINE cut == TruncateOpenSegment(s, L, p)
             next == OpenSegment(cut.fsm, f, cut.ledger, p)
  <2>1. step = [next EXCEPT !.events = cut.events \o next.events]
    BY <1>1, Zenon DEF FeedInSegment
  <2>2. PICK e : cut.events = <<e>> /\ e.type # "HelloAccepted"
    BY TruncateAccepts, Zenon
  <2>3. PICK e2 : next.events = <<e2>>
    BY OpenAccepts
  <2>4. IsSession(next.fsm) /\ next.fsm.state = "InSegment"
        /\ next = [fsm |-> next.fsm, ledger |-> next.ledger, events |-> next.events]
    BY OpenAccepts
  <2>. HIDE DEF cut, next, step
  <2>5. step.fsm = next.fsm /\ step.events = <<e>> \o <<e2>>
    BY <2>1, <2>2, <2>3, <2>4, Zenon
  <2>6. Head(<<e>> \o <<e2>>) = e
    OBVIOUS
  <2>. QED  BY <2>2, <2>4, <2>5, <2>6 DEF AcceptsOnce, Greets, step
<1>2. CASE f.type = "Audio"
  <2>1. step = OnAudio(s, f, L)
    BY <1>2, Zenon DEF FeedInSegment
  <2> DEFINE n == Len(f.pcm)
             y == [s.seg EXCEPT !.last_index = f.first, !.last_samples = n,
                                !.samples_received = Received(s.seg, n)]
             t == [s EXCEPT !.seg = y]
             e == AudioEvent(s.seg.segment_id, f.first, n,
                             f.first # s.seg.last_index + s.seg.last_samples)
  <2>2. OnAudio(s, f, L) = [fsm |-> t, ledger |-> L, events |-> <<e>>]
    BY Zenon DEF OnAudio, Step
  <2>3. IsSession(t) /\ t.state = "InSegment"
    BY Counted, Zenon
  <2>4. e.type # "HelloAccepted"
    BY Zenon DEF AudioEvent
  <2>. HIDE DEF t, e, step
  <2>. QED  BY <2>1, <2>2, <2>3, <2>4, NoneGreets DEF AcceptsOnce, step
<1>3. CASE f.type = "Telemetry"
  <2>1. step = Step(s, L, <<TelemetryEvent(s.seg.segment_id)>>)
    BY <1>3, Zenon DEF FeedInSegment
  <2>2. TelemetryEvent(s.seg.segment_id).type # "HelloAccepted"
    BY Zenon DEF TelemetryEvent
  <2>. QED  BY <2>1, <2>2, NoneGreets DEF AcceptsOnce, Step
<1>4. CASE f.type = "SegmentEnd"
  <2> DEFINE e == SegmentClosed(s.seg.segment_id, CrossCheck(s.seg, f.samples))
  <2>1. step = [fsm |-> IdleSession, ledger |-> L, events |-> <<e>>]
    BY <1>4, Zenon DEF FeedInSegment, Step
  <2>2. e.type # "HelloAccepted"
    BY Zenon DEF SegmentClosed
  <2>. HIDE DEF e, step
  <2>. QED  BY <2>1, <2>2, Sessions, NoneGreets DEF AcceptsOnce, step
<1>5. CASE f.type \notin {"SegmentStart", "Audio", "Telemetry", "SegmentEnd"}
  <2>1. step = Step(s, L, <<>>)
    BY <1>5, Zenon DEF FeedInSegment
  <2>. QED  BY <2>1 DEF AcceptsOnce, Step, Greets
<1>. QED  BY <1>1, <1>2, <1>3, <1>4, <1>5

LEMMA FeedAccepts ==
  ASSUME NEW s, IsSession(s), NEW f, NEW L, NEW p
  PROVE  AcceptsOnce(s, Feed(s, f, L, p))
<1>1. CASE s.state = "AwaitHello"
  <2>1. Feed(s, f, L, p) = FeedAwaitHello(s, f, L)
    BY <1>1, Zenon DEF Feed
  <2>. QED  BY <1>1, <2>1, Sessions DEF FeedAwaitHello, AcceptsOnce, Step
<1>2. CASE s.state = "Idle"
  <2>1. Feed(s, f, L, p) = FeedIdle(s, f, L, p)
    BY <1>2, Zenon DEF Feed
  <2>2. CASE f.type = "SegmentStart"
    BY <1>2, <2>1, <2>2, OpenAccepts, NoneGreets DEF FeedIdle, AcceptsOnce
  <2>3. CASE f.type # "SegmentStart"
    BY <1>2, <2>1, <2>3 DEF FeedIdle, AcceptsOnce, Step, Greets
  <2>. QED  BY <2>2, <2>3, Zenon
<1>3. CASE s.state = "InSegment"
  BY <1>3, InSegmentAccepts, Zenon DEF Feed
<1>4. CASE s.state = "Dead"
  <2>1. Feed(s, f, L, p) = Step(s, L, <<>>)
    BY <1>4, Zenon DEF Feed
  <2>. QED  BY <1>4, <2>1 DEF AcceptsOnce, Step, Greets
<1>. QED  BY <1>1, <1>2, <1>3, <1>4, Zenon DEF IsSession, States

LEMMA CloseAccepts ==
  ASSUME NEW s, IsSession(s), NEW L, NEW p
  PROVE  Close(s, L, p).fsm = DeadSession
<1>1. CASE s.state = "InSegment"
  <2> DEFINE cut == TruncateOpenSegment(s, L, p)
  <2>1. cut = [fsm |-> cut.fsm, ledger |-> cut.ledger, events |-> cut.events]
    BY TruncateAccepts, Zenon
  <2>2. Close(s, L, p) = [cut EXCEPT !.fsm = DeadSession]
    BY <1>1, Zenon DEF Close
  <2>. HIDE DEF cut
  <2>. QED  BY <2>1, <2>2, Zenon
<1>2. CASE s.state # "InSegment"
  BY <1>2, Zenon DEF Close, Step
<1>. QED  BY <1>1, <1>2, Zenon

-----------------------------------------------------------------------------
(* Steps that move no task into or out of the order. *)
LEMMA SameOrder ==
  ASSUME OrderInv, ShapeInv, UNCHANGED <<registered, registry, overtaken>>, abandoned => abandoned', In' = In,
         \A c \in registered : (pc'[c] = "wait") <=> (pc[c] = "wait"),
         \A c \in registered : pc[c] = "wait" => old'[c] = old[c]
  PROVE  OrderInv'
<1>1. CASE abandoned
  BY <1>1, Zenon DEF OrderInv
<1>2. CASE ~abandoned
  <2>1. PICK rank \in [Conn -> Nat], top \in Nat : Ordered(rank, top) /\ Numbered(rank)
    BY <1>2, Zenon DEF OrderInv
  <2>2. Ordered(rank, top)' /\ Numbered(rank)'
    BY <2>1, Zenon DEF Ordered, Numbered
  <2>. QED  BY <2>1, <2>2, Zenon DEF OrderInv
<1>. QED  BY <1>1, <1>2, Zenon

LEMMA SameOwner ==
  ASSUME OwnerInv, UNCHANGED <<registered, cancelled, registry, playback>>,
         abandoned => abandoned', In' = In,
         \A c \in In : pc'[c] \in {"read", "events"} => pc[c] \in {"read", "events"}
  PROVE  OwnerInv'
BY Zenon DEF OwnerInv

(* A task moves, outside the registry. *)
LEMMA Moves ==
  ASSUME ShapeInv, HelloInv, OrderInv, OwnerInv, NEW c \in Conn, NEW where \in Places, Goto(c, where),
         UNCHANGED <<registered, cancelled, registry, playback, old, abandoned, overtaken>>,
         \/ pc[c] \in Live \ {"announce", "spawn"} /\ where \in Live \ {"wait", "announce"}
         \/ pc[c] = "announce" /\ where = "spawn"
         \/ c \notin registered,
         where \in {"read", "events"} => pc[c] \in {"read", "events"} \/ c \notin registered
  PROVE  OrderInv' /\ OwnerInv'
<1>1. /\ pc' \in [Conn -> Places] /\ pc'[c] = where
      /\ \A d \in Conn : d # c => pc'[d] = pc[d]
  BY Zenon DEF ShapeInv, Goto
<1>2. In' = In /\ registered \subseteq Conn
  BY <1>1, Zenon DEF In, Live, ShapeInv
<1>3. \A d \in registered : (pc'[d] = "wait") <=> (pc[d] = "wait")
  BY <1>1, <1>2, Zenon DEF Live
<1>4. \A d \in In : pc'[d] \in {"read", "events"} => pc[d] \in {"read", "events"}
  BY <1>1, <1>2, Zenon DEF In
<1>5. OrderInv'
  BY <1>2, <1>3, SameOrder, Zenon
<1>6. OwnerInv'
  BY <1>2, <1>4, SameOwner, Zenon
<1>. QED  BY <1>5, <1>6, Zenon

LEMMA OffstagePreserves ==
  ASSUME IInv, UNCHANGED <<pc, conn_seq, taskVars, registry, playback, abandoned, overtaken>>
  PROVE  IInv'
<1>1. UNCHANGED <<fsm, evs, old, registered, cancelled, finished>>
  BY Zenon DEF taskVars
<1>2. In' = In
  BY <1>1, Zenon DEF In
<1>3. OrderInv'
  BY <1>1, <1>2, SameOrder, Zenon DEF IInv
<1>4. OwnerInv'
  BY <1>1, <1>2, SameOwner, Zenon DEF IInv
<1>5. ShapeInv' /\ HelloInv'
  BY <1>1, Zenon DEF IInv, ShapeInv, HelloInv
<1>. QED  BY <1>3, <1>4, <1>5, Zenon DEF IInv

LEMMA PodConnectsPreserves == ASSUME IInv, PodConnects PROVE IInv'
<1> DEFINE n == conn_seq + 1
           where == IF Cardinality(Busy) < MaxConnections THEN "read" ELSE "done"
<1>1. n \in Conn /\ pc[n] = "off" /\ n \notin registered /\ n \notin finished /\ conn_seq' = n
  <2>1. conn_seq < MaxConns /\ conn_seq' = n
    BY Zenon DEF PodConnects
  <2>2. conn_seq \in 0..MaxConns
    BY Zenon DEF IInv, ShapeInv
  <2>3. n \in Conn /\ n > conn_seq
    BY <2>1, <2>2, IngestAssumption DEF Conn
  <2>. HIDE DEF n
  <2>4. pc[n] = "off"
    BY <2>3, Zenon DEF IInv, HelloInv
  <2>. QED  BY <2>1, <2>3, <2>4, Zenon DEF IInv, HelloInv
<1>2. Goto(n, where) /\ where \in {"read", "done"}
  BY Zenon DEF PodConnects, Goto
<1>3. UNCHANGED <<fsm, evs, old, registered, cancelled, finished, registry, playback, abandoned, overtaken>>
  BY Zenon DEF PodConnects, taskVars
<1>. HIDE DEF where
<1>4. OrderInv' /\ OwnerInv'
  BY <1>1, <1>2, <1>3, Moves, Zenon DEF IInv, Places, Live
<1>5. ShapeInv'
  BY <1>1, <1>2, <1>3, IngestAssumption DEF IInv, ShapeInv, Goto, Places, Live, Conn
<1>6. HelloInv'
  <2>1. /\ \A d \in Conn : d # n => pc'[d] = pc[d]
        /\ pc'[n] \in {"read", "done"}
    BY <1>1, <1>2, Zenon DEF IInv, ShapeInv, Goto
  <2>2. \A d \in Conn : d > n => d # n /\ d > conn_seq
    BY <1>1, IngestAssumption DEF IInv, ShapeInv, Conn
  <2>3. registered \subseteq Conn /\ finished \subseteq Conn
    BY Zenon DEF IInv, ShapeInv
  <2>. HIDE DEF n
  <2>. QED  BY <1>1, <1>3, <2>1, <2>2, <2>3, ZenonT(30) DEF IInv, HelloInv
<1>. QED  BY <1>4, <1>5, <1>6, Zenon DEF IInv

LEMMA ReadFramePreserves ==
  ASSUME IInv, NEW c \in Conn, ReadFrame(c) PROVE IInv'
<1> DEFINE step == Feed(fsm[c], Head(wire[c]), ledger, Pod)
           where == IF step.events = <<>> THEN "read" ELSE "events"
<1>1. /\ pc[c] = "read" /\ Goto(c, where)
      /\ fsm' = [fsm EXCEPT ![c] = step.fsm] /\ evs' = [evs EXCEPT ![c] = step.events]
      /\ UNCHANGED <<conn_seq, old, registered, cancelled, finished, registry, playback, abandoned, overtaken>>
  BY Zenon DEF ReadFrame
<1>2. AcceptsOnce(fsm[c], step)
  BY FeedAccepts, Zenon DEF IInv, ShapeInv
<1>3. step.events # <<>> /\ Head(step.events).type = "HelloAccepted" => fsm[c].state = "AwaitHello"
  BY <1>2, Zenon DEF AcceptsOnce, Greets
<1>4. where \in {"read", "events"} /\ (where = "events" => step.events # <<>>)
  OBVIOUS
<1>5. IsSession(step.fsm) /\ step.fsm.state # "AwaitHello"
  BY <1>2, Zenon DEF AcceptsOnce
<1>. HIDE DEF step, where
<1>6. OrderInv' /\ OwnerInv'
  BY <1>1, <1>4, Moves, Zenon DEF IInv, Places, Live
<1>7. /\ \A d \in Conn \ {c} : pc'[d] = pc[d] /\ fsm'[d] = fsm[d] /\ evs'[d] = evs[d]
      /\ pc'[c] = where /\ fsm'[c] = step.fsm /\ evs'[c] = step.events
      /\ pc' \in [Conn -> Places]
      /\ fsm' = [d \in Conn |-> fsm'[d]] /\ evs' = [d \in Conn |-> evs'[d]]
  BY <1>1, <1>4, Zenon DEF IInv, ShapeInv, Goto, Places, Live
<1>8. ShapeInv'
  BY <1>1, <1>5, <1>7, Zenon DEF IInv, ShapeInv
<1>9. HelloInv'
  <2>1. c \notin finished /\ ~(c > conn_seq) /\ registered \subseteq Conn /\ finished \subseteq Conn
    BY <1>1, Zenon DEF IInv, HelloInv, ShapeInv
  <2>2. pc'[c] = "events" /\ Head(evs'[c]).type = "HelloAccepted"
           => c \notin registered /\ fsm'[c].state # "AwaitHello"
    BY <1>3, <1>4, <1>5, <1>7 DEF IInv, HelloInv
  <2>3. \A d \in Conn \ {c} : pc'[d] = "events" /\ Head(evs'[d]).type = "HelloAccepted"
           => d \notin registered /\ fsm'[d].state # "AwaitHello"
    BY <1>7 DEF IInv, HelloInv
  <2>4. \A d \in registered : pc'[d] # "off" /\ fsm'[d].state # "AwaitHello"
    BY <1>4, <1>5, <1>7, <2>1, Zenon DEF IInv, HelloInv
  <2>5. \A d \in Conn : pc'[d] \in {"wait", "announce", "spawn"} => d \in registered
    BY <1>4, <1>7, Zenon DEF IInv, HelloInv
  <2>6. /\ \A d \in Conn : d > conn_seq => pc'[d] = "off"
        /\ \A d \in finished : pc'[d] = "done"
    BY <1>7, <2>1, Zenon DEF IInv, HelloInv
  <2>. QED  BY <1>1, <2>2, <2>3, <2>4, <2>5, <2>6 DEF HelloInv
<1>. QED  BY <1>6, <1>8, <1>9, Zenon DEF IInv

(* A task goes on in its read loop, or leaves it and works through its end. *)
LEMMA RunsPreserves ==
  ASSUME IInv, NEW c \in Conn, NEW where \in {"read", "close", "export", "deregister"},
         pc[c] \in {"read", "events", "close", "export"}, where = "read" => pc[c] = "events",
         Goto(c, where),
         UNCHANGED <<conn_seq, old, registered, cancelled, finished, registry, playback, abandoned, overtaken>>,
         evs' = [d \in Conn |-> evs'[d]], \A d \in Conn \ {c} : evs'[d] = evs[d],
         fsm' = [d \in Conn |-> fsm'[d]], \A d \in Conn \ {c} : fsm'[d] = fsm[d],
         fsm'[c] \in {fsm[c], DeadSession}
  PROVE  IInv'
<1>1. OrderInv' /\ OwnerInv'
  BY Moves, Zenon DEF IInv, Places, Live
<1>2. /\ \A d \in Conn \ {c} : pc'[d] = pc[d]
      /\ pc'[c] = where /\ pc' \in [Conn -> Places]
  BY Zenon DEF IInv, ShapeInv, Goto, Places, Live
<1>3. ShapeInv'
  BY <1>2, Sessions DEF IInv, ShapeInv
<1>4. HelloInv'
  <2>1. c \notin finished /\ ~(c > conn_seq) /\ registered \subseteq Conn /\ finished \subseteq Conn
    BY Zenon DEF IInv, HelloInv, ShapeInv
  <2>2. \A d \in Conn : pc'[d] = "events" /\ Head(evs'[d]).type = "HelloAccepted"
           => d \notin registered /\ fsm'[d].state # "AwaitHello"
    BY <1>2 DEF IInv, HelloInv
  <2>3. \A d \in registered : pc'[d] # "off" /\ fsm'[d].state # "AwaitHello"
    BY <1>2, <2>1, Sessions DEF IInv, HelloInv
  <2>4. \A d \in Conn : pc'[d] \in {"wait", "announce", "spawn"} => d \in registered
    BY <1>2, Zenon DEF IInv, HelloInv
  <2>5. /\ \A d \in Conn : d > conn_seq => pc'[d] = "off"
        /\ \A d \in finished : pc'[d] = "done"
    BY <1>2, <2>1 DEF IInv, HelloInv
  <2>. QED  BY <2>2, <2>3, <2>4, <2>5 DEF HelloInv
<1>. QED  BY <1>1, <1>3, <1>4 DEF IInv

(* A registered task takes a step that reads nothing and closes nothing. *)
LEMMA StepsShape ==
  ASSUME IInv, NEW c \in Conn, NEW where \in Places \ {"off", "events"}, Goto(c, where),
         where = "done" => finished' = finished \cup {c}, where # "done" => finished' = finished,
         pc[c] \notin {"off", "done"},
         where \in {"wait", "announce", "spawn"} => c \in registered,
         UNCHANGED <<conn_seq, registered, fsm, evs>>, abandoned' \in BOOLEAN,
         old' \in [Conn -> Conn \cup {None}],
         registry' \in Conn \cup {None}, playback' \in Conn \cup {None}
  PROVE  /\ ShapeInv' /\ HelloInv' /\ registered \subseteq Conn
         /\ \A d \in Conn \ {c} : pc'[d] = pc[d]
         /\ pc'[c] = where
<1>1. /\ \A d \in Conn \ {c} : pc'[d] = pc[d]
      /\ pc'[c] = where /\ pc' \in [Conn -> Places] /\ registered \subseteq Conn /\ finished \subseteq Conn
  BY Zenon DEF IInv, ShapeInv, Goto
<1>2. ShapeInv'
  BY <1>1, Zenon DEF IInv, ShapeInv
<1>3. HelloInv'
  <2>1. c \notin finished /\ ~(c > conn_seq)
    BY Zenon DEF IInv, HelloInv
  <2>2. /\ \A d \in Conn : pc'[d] = "events" /\ Head(evs'[d]).type = "HelloAccepted"
              => d \notin registered /\ fsm'[d].state # "AwaitHello"
        /\ \A d \in registered : pc'[d] # "off" /\ fsm'[d].state # "AwaitHello"
    BY <1>1, Zenon DEF IInv, HelloInv
  <2>3. \A d \in Conn : pc'[d] \in {"wait", "announce", "spawn"} => d \in registered
    BY <1>1, Zenon DEF IInv, HelloInv
  <2>4. /\ \A d \in Conn : d > conn_seq => pc'[d] = "off"
        /\ \A d \in finished' : pc'[d] = "done"
    BY <1>1, <2>1, Zenon DEF IInv, HelloInv
  <2>. QED  BY <2>2, <2>3, <2>4, Zenon DEF HelloInv
<1>. QED  BY <1>1, <1>2, <1>3, Zenon

LEMMA AnnouncePreserves ==
  ASSUME IInv, NEW c \in Conn, Announce(c) PROVE IInv'
<1>1. /\ pc[c] = "announce" /\ Goto(c, "spawn")
      /\ UNCHANGED <<conn_seq, fsm, evs, old, registered, cancelled, finished, registry, playback, abandoned, overtaken>>
  BY Zenon DEF Announce, podVars, taskVars
<1>2. ShapeInv' /\ HelloInv'
  BY <1>1, StepsShape, Zenon DEF IInv, ShapeInv, HelloInv, Places, Live
<1>3. OrderInv' /\ OwnerInv'
  BY <1>1, Moves, Zenon DEF IInv, Places, Live
<1>. QED  BY <1>2, <1>3, Zenon DEF IInv

(* No two tasks past their wait have anything left to export. *)
LEMMA OneServed ==
  ASSUME ShapeInv, OrderInv, ~abandoned, NEW c \in In, NEW d \in In,
         pc[c] # "wait", pc[d] # "wait"
  PROVE  c = d
<1>1. PICK rank \in [Conn -> Nat], top \in Nat : Ordered(rank, top) /\ Numbered(rank)
  BY Zenon DEF OrderInv
<1>2. c \in registered /\ d \in registered /\ c \in Conn /\ d \in Conn
  BY Zenon DEF In, ShapeInv
<1>3. rank[c] <= rank[d] /\ rank[d] <= rank[c] /\ rank[c] \in Nat /\ rank[d] \in Nat
  BY <1>1, <1>2, Zenon DEF Ordered
<1>4. rank[c] = rank[d]
  BY <1>3
<1>. QED  BY <1>1, <1>2, <1>4, Zenon DEF Ordered

LEMMA SpawnPreserves ==
  ASSUME IInv, NEW c \in Conn, SpawnWriter(c) PROVE IInv'
<1>1. /\ pc[c] = "spawn" /\ Goto(c, "read") /\ playback' = c
      /\ UNCHANGED <<conn_seq, fsm, evs, old, registered, cancelled, finished, registry, abandoned, overtaken>>
  BY Zenon DEF SpawnWriter, podVars, taskVars
<1>2. /\ ShapeInv' /\ HelloInv' /\ registered \subseteq Conn
      /\ \A d \in Conn \ {c} : pc'[d] = pc[d]
      /\ pc'[c] = "read"
  BY <1>1, StepsShape, Zenon DEF IInv, ShapeInv, HelloInv, Places, Live
<1>3. In' = In /\ c \in In
  BY <1>1, <1>2 DEF In, Live, IInv, HelloInv
<1>4. OrderInv'
  <2>1. \A d \in registered : (pc'[d] = "wait") <=> (pc[d] = "wait")
    BY <1>1, <1>2, Zenon
  <2>. QED  BY <1>1, <1>3, <2>1, SameOrder, Zenon DEF IInv
<1>5. \A d \in In \ cancelled : registry' = d
  BY <1>1, Zenon DEF IInv, OwnerInv
<1>6. ASSUME ~abandoned, NEW d \in In \ cancelled, pc'[d] \in {"read", "events"} PROVE playback' = d
  <2>1. d \in Conn /\ pc[d] # "wait"
    BY <1>1, <1>2, <1>6, Zenon DEF In
  <2>2. d = c
    BY <1>1, <1>3, <1>6, <2>1, OneServed DEF IInv
  <2>. QED  BY <1>1, <2>2, Zenon
<1>7. OwnerInv'
  BY <1>1, <1>3, <1>5, <1>6 DEF OwnerInv
<1>. QED  BY <1>2, <1>4, <1>7 DEF IInv

(* Once the task it waits for has finished, nobody is before a waiting one. *)
LEMMA Alone ==
  ASSUME ShapeInv, HelloInv, NEW rank \in [Conn -> Nat], NEW top, Ordered(rank, top),
         NEW c \in registered, pc[c] = "wait", old[c] \in finished, NEW d \in In
  PROVE  rank[d] >= rank[c]
<1> DEFINE o == old[c]
<1>1. /\ o \in registered /\ pc[o] = "done" /\ o \notin In
      /\ rank[d] < rank[c] => rank[d] <= rank[o]
  BY Zenon DEF Ordered, HelloInv, In, Live
<1>2. d \in registered /\ c \in Conn /\ d \in Conn /\ o \in Conn
  BY <1>1, Zenon DEF In, ShapeInv
<1>. HIDE DEF o
<1>3. rank[d] >= rank[o]
  BY <1>1, Zenon DEF Ordered
<1>4. rank[d] # rank[o]
  BY <1>1, <1>2, Zenon DEF Ordered
<1>5. rank[d] \in Nat /\ rank[o] \in Nat /\ rank[c] \in Nat
  BY <1>2, Zenon
<1>. QED  BY <1>1, <1>3, <1>4, <1>5

(* The task it waits for has finished: a task gets on, or ends. *)
LEMMA LeavesWait ==
  ASSUME IInv, NEW c \in Conn, NEW where \in {"announce", "close"}, pc[c] = "wait",
         old[c] \in finished \/ abandoned', abandoned => abandoned', abandoned' \in BOOLEAN,
         Goto(c, where), UNCHANGED <<conn_seq, taskVars, registry, playback, overtaken>>
  PROVE  IInv'
<1>1. UNCHANGED <<fsm, evs, old, registered, cancelled, finished>>
  BY Zenon DEF taskVars
<1>2. c \in registered
  BY Zenon DEF IInv, HelloInv
<1>3. /\ ShapeInv' /\ HelloInv' /\ registered \subseteq Conn
      /\ \A d \in Conn \ {c} : pc'[d] = pc[d]
      /\ pc'[c] = where
  BY <1>1, <1>2, StepsShape, Zenon DEF IInv, ShapeInv, HelloInv, Places, Live
<1>4. In' = In
  BY <1>1, <1>3, Zenon DEF In, Live
<1>5. OrderInv'
  <2>1. CASE abandoned'
    BY <2>1, Zenon DEF OrderInv
  <2>2. CASE ~abandoned'
    <3>1. PICK rank \in [Conn -> Nat], top \in Nat : Ordered(rank, top) /\ Numbered(rank)
      BY <2>2, Zenon DEF IInv, OrderInv
    <3>2. \A d \in In : rank[d] >= rank[c]
      BY <1>2, <2>2, <3>1, Alone DEF IInv
    <3>3. Ordered(rank, top)'
      BY <1>1, <1>3, <1>4, <3>1, <3>2 DEF Ordered
    <3>4. Numbered(rank)'
      BY <1>1, <3>1, Zenon DEF Numbered
    <3>. QED  BY <3>1, <3>3, <3>4, Zenon DEF OrderInv
  <2>. QED  BY <2>1, <2>2, Zenon
<1>6. \A d \in In : pc'[d] \in {"read", "events"} => pc[d] \in {"read", "events"}
  BY <1>3, Zenon DEF In
<1>7. OwnerInv'
  BY <1>1, <1>4, <1>6, SameOwner DEF IInv
<1>. QED  BY <1>3, <1>5, <1>7, Zenon DEF IInv

LEMMA WaitPreserves ==
  ASSUME IInv, NEW c \in Conn, WaitFinished(c) \/ WaitAbandoned(c) PROVE IInv'
<1>0. abandoned \in BOOLEAN
  BY Zenon DEF IInv, ShapeInv
<1>1. CASE WaitFinished(c)
  <2>1. /\ pc[c] = "wait" /\ old[c] \in finished /\ Goto(c, "announce")
        /\ UNCHANGED <<conn_seq, taskVars, registry, playback, abandoned, overtaken>>
    BY <1>1, Zenon DEF WaitFinished, podVars
  <2>. QED  BY <1>0, <2>1, LeavesWait
<1>2. CASE WaitAbandoned(c)
  <2>1. /\ pc[c] = "wait" /\ Goto(c, "close") /\ abandoned' = (abandoned \/ old[c] \notin finished)
        /\ UNCHANGED <<conn_seq, taskVars, registry, playback, overtaken>>
    BY <1>2, Zenon DEF WaitAbandoned, BreakRead
  <2>. QED  BY <1>0, <2>1, LeavesWait, Zenon
<1>. QED  BY <1>1, <1>2, Zenon

(* A task that leaves the register leaves it to the next, or empty. *)
LEMMA DeregisterPreserves ==
  ASSUME IInv, NEW c \in Conn, Deregister(c) PROVE IInv'
<1>1. /\ pc[c] = "deregister" /\ Goto(c, "playback_deregister")
      /\ registry' = IF c \in registered THEN GuardedRemove(registry, c) ELSE registry
      /\ UNCHANGED <<conn_seq, fsm, evs, old, registered, cancelled, finished, playback, abandoned, overtaken>>
  BY Zenon DEF Deregister, podVars, taskVars
<1>2. registry' = registry \/ (c \in registered /\ registry = c /\ registry' = None)
  BY <1>1, Zenon DEF GuardedRemove
<1>3. /\ ShapeInv' /\ HelloInv' /\ registered \subseteq Conn
      /\ \A d \in Conn \ {c} : pc'[d] = pc[d]
      /\ pc'[c] = "playback_deregister"
  BY <1>1, <1>2, StepsShape, Zenon DEF IInv, ShapeInv, HelloInv, Places, Live
<1>4. In' = In \ {c} /\ (c \in registered => c \in In /\ registry' # c)
  <2>1. c # None
    BY DEF Conn, None
  <2>2. c \in registered => registry' # c
    BY <1>1, <2>1, Zenon DEF GuardedRemove
  <2>3. In' = In \ {c} /\ (c \in registered => c \in In)
    BY <1>1, <1>3, Zenon DEF In, Live
  <2>. QED  BY <2>2, <2>3, Zenon
<1>5. OrderInv'
  <2>1. CASE abandoned
    BY <1>1, <2>1, Zenon DEF OrderInv
  <2>2. CASE ~abandoned
    <3>1. PICK rank \in [Conn -> Nat], top \in Nat : Ordered(rank, top) /\ Numbered(rank)
      BY <2>2, Zenon DEF IInv, OrderInv
    <3>2. IF registry' = None THEN In' = {}
          ELSE registry' \in In' /\ \A d \in In' : rank[d] <= rank[registry']
      <4>1. CASE registry' = registry
        <5>1. registry = None => In' = {}
          BY <1>4, <3>1, Zenon DEF Ordered
        <5>2. registry # None => registry # c \/ c \notin registered
          BY <1>4, <4>1, Zenon
        <5>3. registry # None => registry \in In /\ registry # c /\ \A d \in In : rank[d] <= rank[registry]
          BY <3>1, <5>2, Zenon DEF Ordered, In
        <5>. QED  BY <1>4, <4>1, <5>1, <5>3
      <4>2. CASE c \in registered /\ registry = c /\ registry' = None
        <5>1. c # None
          BY DEF Conn, None
        <5>2. ASSUME NEW d \in In PROVE d = c
          <6>1. rank[d] <= rank[c] /\ rank[d] >= rank[c] /\ d \in registered
            BY <1>1, <3>1, <4>2, <5>1 DEF Ordered, In
          <6>2. rank[d] \in Nat /\ rank[c] \in Nat
            BY <1>3, <6>1, Zenon
          <6>3. rank[d] = rank[c]
            BY <6>1, <6>2
          <6>. QED  BY <3>1, <4>2, <6>1, <6>3 DEF Ordered
        <5>. QED  BY <1>4, <4>2, <5>2
      <4>. QED  BY <1>2, <4>1, <4>2
    <3>3. \A d \in registered : (pc'[d] = "wait") <=> (pc[d] = "wait")
      BY <1>1, <1>3, Zenon
    <3>4. Ordered(rank, top)'
      BY <1>1, <1>4, <3>1, <3>2, <3>3 DEF Ordered
    <3>5. Numbered(rank)'
      BY <1>1, <3>1, Zenon DEF Numbered
    <3>. QED  BY <3>1, <3>4, <3>5, Zenon DEF OrderInv
  <2>. QED  BY <2>1, <2>2, Zenon
<1>6. OwnerInv'
  <2>1. \A d \in In' \ cancelled : registry' = d
    BY <1>2, <1>4, Zenon DEF IInv, OwnerInv
  <2>2. \A d \in In' : pc'[d] = pc[d] /\ d \in In
    BY <1>3, <1>4, Zenon DEF In
  <2>. QED  BY <1>1, <2>1, <2>2, Zenon DEF IInv, OwnerInv
<1>. QED  BY <1>3, <1>5, <1>6 DEF IInv

LEMMA PlaybackPreserves ==
  ASSUME IInv, NEW c \in Conn, PlaybackDeregister(c) PROVE IInv'
<1>1. /\ pc[c] = "playback_deregister" /\ Goto(c, "finish")
      /\ playback' = IF c \in registered THEN GuardedRemove(playback, c) ELSE playback
      /\ UNCHANGED <<conn_seq, fsm, evs, old, registered, cancelled, finished, registry, abandoned, overtaken>>
  BY Zenon DEF PlaybackDeregister, podVars, taskVars
<1>2. playback' = playback \/ (playback = c /\ playback' = None)
  BY <1>1, Zenon DEF GuardedRemove
<1>3. /\ ShapeInv' /\ HelloInv' /\ registered \subseteq Conn
      /\ \A d \in Conn \ {c} : pc'[d] = pc[d]
      /\ pc'[c] = "finish"
  BY <1>1, <1>2, StepsShape, Zenon DEF IInv, ShapeInv, HelloInv, Places, Live
<1>4. In' = In /\ c \notin In
  BY <1>1, <1>3, Zenon DEF In, Live
<1>5. \A d \in registered : (pc'[d] = "wait") <=> (pc[d] = "wait")
  BY <1>1, <1>3, Zenon
<1>6. OrderInv'
  BY <1>1, <1>4, <1>5, SameOrder, Zenon DEF IInv
<1>7. \A d \in In : pc'[d] = pc[d] /\ d # c
  BY <1>3, <1>4, Zenon DEF In
<1>8. OwnerInv'
  BY <1>1, <1>2, <1>4, <1>7, Zenon DEF IInv, OwnerInv
<1>. QED  BY <1>3, <1>6, <1>8, Zenon DEF IInv

LEMMA FinishPreserves ==
  ASSUME IInv, NEW c \in Conn, Finish(c) PROVE IInv'
<1>1. /\ pc[c] = "finish" /\ Goto(c, "done") /\ finished' = finished \cup {c}
      /\ old' = [old EXCEPT ![c] = None]
      /\ UNCHANGED <<conn_seq, fsm, evs, registered, cancelled, registry, playback, abandoned, overtaken>>
  BY Zenon DEF Finish, podVars
<1>2. /\ ShapeInv' /\ HelloInv' /\ registered \subseteq Conn
      /\ \A d \in Conn \ {c} : pc'[d] = pc[d]
      /\ pc'[c] = "done"
  BY <1>1, StepsShape, Zenon DEF IInv, ShapeInv, HelloInv, Places, Live
<1>3. In' = In
  BY <1>1, <1>2, Zenon DEF In, Live
<1>4. \A d \in registered : /\ (pc'[d] = "wait") <=> (pc[d] = "wait")
                            /\ pc[d] = "wait" => old'[d] = old[d]
  BY <1>1, <1>2, Zenon DEF IInv, ShapeInv
<1>5. OrderInv'
  BY <1>1, <1>3, <1>4, SameOrder, Zenon DEF IInv
<1>6. \A d \in In : pc'[d] \in {"read", "events"} => pc[d] \in {"read", "events"}
  BY <1>2, Zenon DEF In
<1>7. OwnerInv'
  BY <1>1, <1>3, <1>6, SameOwner, Zenon DEF IInv
<1>. QED  BY <1>2, <1>5, <1>7, Zenon DEF IInv

(* The read loop and what follows it. *)
LEMMA ReadEndsPreserves ==
  ASSUME IInv, NEW c \in Conn, ReadFails(c) \/ ReadInterrupted(c) PROVE IInv'
<1>1. /\ pc[c] = "read" /\ Goto(c, "close")
      /\ UNCHANGED <<conn_seq, fsm, evs, old, registered, cancelled, finished, registry, playback, abandoned, overtaken>>
  BY Zenon DEF ReadFails, ReadInterrupted, BreakRead, taskVars
<1>. QED  BY <1>1, RunsPreserves, Zenon DEF IInv, ShapeInv

LEMMA ProcessPreserves ==
  ASSUME IInv, NEW c \in Conn, ProcessEvents(c) \/ ExportTail(c) PROVE IInv'
<1>1. evs' = [evs EXCEPT ![c] = <<>>]
  BY Zenon DEF ProcessEvents, ExportTail, Exports
<1>2. UNCHANGED <<conn_seq, fsm, old, registered, cancelled, finished, registry, playback, abandoned, overtaken>>
  BY Zenon DEF ProcessEvents, ExportTail, podVars
<1>3. /\ evs' = [d \in Conn |-> evs'[d]] /\ \A d \in Conn \ {c} : evs'[d] = evs[d]
      /\ fsm' = [d \in Conn |-> fsm'[d]]
  BY <1>1, <1>2, Zenon DEF IInv, ShapeInv
<1>4. CASE ProcessEvents(c)
  <2>1. pc[c] = "events" /\ (Goto(c, "close") \/ Goto(c, "read"))
    BY <1>4, Zenon DEF ProcessEvents, BreakRead
  <2>. QED  BY <1>2, <1>3, <2>1, RunsPreserves
<1>5. CASE ExportTail(c)
  <2>1. pc[c] = "export" /\ Goto(c, "deregister")
    BY <1>5, Zenon DEF ExportTail
  <2>. QED  BY <1>2, <1>3, <2>1, RunsPreserves
<1>. QED  BY <1>4, <1>5, Zenon

LEMMA ClosePreserves ==
  ASSUME IInv, NEW c \in Conn, CloseSession(c) PROVE IInv'
<1> DEFINE step == Close(fsm[c], ledger, Pod)
<1>1. /\ pc[c] = "close" /\ Goto(c, "export")
      /\ fsm' = [fsm EXCEPT ![c] = step.fsm] /\ evs' = [evs EXCEPT ![c] = step.events]
      /\ UNCHANGED <<conn_seq, old, registered, cancelled, finished, registry, playback, abandoned, overtaken>>
  BY Zenon DEF CloseSession, podVars
<1>2. step.fsm = DeadSession
  BY CloseAccepts, Zenon DEF IInv, ShapeInv
<1>. HIDE DEF step
<1>3. /\ evs' = [d \in Conn |-> evs'[d]] /\ \A d \in Conn \ {c} : evs'[d] = evs[d]
      /\ fsm' = [d \in Conn |-> fsm'[d]] /\ \A d \in Conn \ {c} : fsm'[d] = fsm[d]
      /\ fsm'[c] = DeadSession
  BY <1>1, <1>2, Zenon DEF IInv, ShapeInv
<1>. QED  BY <1>1, <1>3, RunsPreserves, Zenon

(* A hello puts its task last, after the owner of the slot, for whom it waits. *)
LEMMA HelloOrders ==
  ASSUME ShapeInv, NEW c \in Conn \ registered, NEW rank \in [Conn -> Nat], NEW top \in Nat,
         Ordered(rank, top), Numbered(rank), registry' = c, registered' = registered \cup {c},
         old' = [old EXCEPT ![c] = registry], Goto(c, AfterHello(registry)),
         overtaken' = (overtaken \/ \E d \in registered : d > c)
  PROVE  OrderInv'
<1> DEFINE Above(v) == \A d \in registered : rank[d] < v
<1>01. Above(top)
  BY Zenon DEF Ordered
<1>02. ~overtaken' => ~overtaken /\ c \in Nat /\ Above(c)
  <2>. SUFFICES ASSUME ~overtaken' PROVE ~overtaken /\ c \in Nat /\ Above(c)
    OBVIOUS
  <2>1. ~overtaken /\ \A d \in registered : ~(d > c)
    BY Zenon
  <2>2. \A d \in registered : rank[d] = d /\ d # c /\ d \in Conn
    BY <2>1, Zenon DEF Numbered, ShapeInv
  <2>. QED  BY <2>1, <2>2, IngestAssumption DEF Conn
<1>. HIDE DEF Above
<1>0. PICK last \in Nat : Above(last) /\ (overtaken' \/ (last = c /\ ~overtaken))
  <2>1. CASE overtaken'
    BY <1>01, <2>1, Zenon
  <2>2. CASE ~overtaken'
    BY <1>02, <2>2, Zenon
  <2>. QED  BY <2>1, <2>2, Zenon
<1> DEFINE r == [rank EXCEPT ![c] = last]
<1>1. /\ r \in [Conn -> Nat] /\ r[c] = last /\ last + 1 \in Nat
      /\ \A d \in registered : d \in Conn /\ d # c /\ r[d] = rank[d] /\ rank[d] < last /\ rank[d] \in Nat
  <2>1. last + 1 \in Nat /\ c \in Conn /\ c \notin registered /\ registered \subseteq Conn
    BY DEF ShapeInv
  <2>2. r \in [Conn -> Nat] /\ r[c] = last /\ \A d \in Conn : d # c => r[d] = rank[d]
    BY <2>1, Zenon
  <2>. HIDE DEF r
  <2>3. \A d \in registered : d \in Conn /\ d # c /\ rank[d] \in Nat
    BY <2>1, Zenon
  <2>. QED  BY <1>0, <2>1, <2>2, <2>3, Zenon DEF Above
<1>2. /\ \A d \in registered : pc'[d] = pc[d] /\ old'[d] = old[d]
      /\ pc'[c] = AfterHello(registry) /\ old'[c] = registry
  BY <1>1, Zenon DEF ShapeInv, Goto
<1>3. In' = In \cup {c} /\ In \subseteq registered
  BY <1>2, Zenon DEF In, AfterHello, Live
<1>4. registry = None => In = {}
  BY Zenon DEF Ordered
<1>5. registry # None => /\ registry \in In
                         /\ \A d \in In : rank[d] <= rank[registry]
  BY Zenon DEF Ordered
<1>. HIDE DEF r
<1>6. c # None
  BY DEF Conn, None
<1>7. Ordered(r, last + 1)'
  <2>1. \A d \in registered' : r[d] < last + 1
    BY <1>1
  <2>2. \A d, e \in registered' : r[d] = r[e] => d = e
    BY <1>1 DEF Ordered
  <2>3. registry' \in In' /\ \A d \in In' : r[d] <= r[registry']
    BY <1>1, <1>3
  <2>4. ASSUME NEW d \in registered', pc'[d] # "wait", NEW e \in In' PROVE r[e] >= r[d]
    <3>1. CASE d = c
      <4>1. e = c
        BY <1>2, <1>3, <1>4, <2>4, <3>1, Zenon DEF AfterHello
      <4>. QED  BY <1>1, <3>1, <4>1
    <3>2. CASE d # c
      <4>1. d \in registered /\ pc[d] # "wait"
        BY <1>2, <2>4, <3>2, Zenon
      <4>2. e \in In => rank[e] >= rank[d]
        BY <4>1, Zenon DEF Ordered
      <4>. QED  BY <1>1, <1>3, <4>1, <4>2
    <3>. QED  BY <3>1, <3>2, Zenon
  <2>5. ASSUME NEW d \in registered', pc'[d] = "wait"
        PROVE  /\ old'[d] \in registered' /\ r[old'[d]] < r[d]
               /\ \A e \in In' : r[e] < r[d] => r[e] <= r[old'[d]]
    <3>1. CASE d = c
      <4>1. registry # None
        BY <1>2, <2>5, <3>1, Zenon DEF AfterHello
      <4>2. registry \in registered /\ old'[d] = registry
        BY <1>2, <1>3, <1>5, <3>1, <4>1, Zenon
      <4>. QED  BY <1>1, <1>3, <1>5, <3>1, <4>1, <4>2
    <3>2. CASE d # c
      <4>1. d \in registered /\ pc[d] = "wait" /\ old'[d] = old[d]
        BY <1>2, <2>5, <3>2, Zenon
      <4>2. /\ old[d] \in registered /\ rank[old[d]] < rank[d]
            /\ \A e \in In : rank[e] < rank[d] => rank[e] <= rank[old[d]]
        BY <4>1, Zenon DEF Ordered
      <4>3. ~(r[c] < r[d])
        BY <1>1, <4>1
      <4>. QED  BY <1>1, <1>3, <4>1, <4>2, <4>3
    <3>. QED  BY <3>1, <3>2, Zenon
  <2>. QED  BY <1>6, <2>1, <2>2, <2>3, <2>4, <2>5, Zenon DEF Ordered
<1>8. Numbered(r)'
  BY <1>0, <1>1, Zenon DEF Numbered
<1>. QED  BY <1>1, <1>7, <1>8, Zenon DEF OrderInv

LEMMA HelloPreserves ==
  ASSUME IInv, NEW c \in Conn, OnHelloAccepted(c) PROVE IInv'
<1>1. /\ pc[c] = "events" /\ Head(evs[c]).type = "HelloAccepted" /\ evs' = [evs EXCEPT ![c] = <<>>]
      /\ UNCHANGED <<conn_seq, fsm, finished, playback, abandoned>>
  BY Zenon DEF OnHelloAccepted
<1>2. c \notin registered /\ fsm[c].state # "AwaitHello" /\ c \notin finished /\ ~(c > conn_seq)
  BY <1>1, Zenon DEF IInv, HelloInv
<1>3. /\ evs' = [d \in Conn |-> evs'[d]] /\ \A d \in Conn \ {c} : evs'[d] = evs[d]
      /\ fsm' = [d \in Conn |-> fsm'[d]]
  BY <1>1, Zenon DEF IInv, ShapeInv
<1>4. CASE ~Head(evs[c]).own
  <2>1. Goto(c, "close") /\ UNCHANGED <<registry, registered, old, cancelled, overtaken>>
    BY <1>4, Zenon DEF OnHelloAccepted, BreakRead
  <2>. QED  BY <1>1, <1>3, <2>1, RunsPreserves, Zenon
<1>5. CASE Head(evs[c]).own
  <2>1. /\ registry' = c /\ registered' = registered \cup {c}
        /\ old' = [old EXCEPT ![c] = registry] /\ cancelled' = cancelled \cup Cancels(registry)
        /\ Goto(c, AfterHello(registry))
        /\ overtaken' = (overtaken \/ \E d \in registered : d > c)
    BY <1>5, Zenon DEF OnHelloAccepted
  <2>2. /\ \A d \in Conn \ {c} : pc'[d] = pc[d]
        /\ pc'[c] \in {"announce", "wait"} /\ pc' \in [Conn -> Places]
    BY <2>1, Zenon DEF IInv, ShapeInv, Goto, AfterHello, Places, Live
  <2>3. registered \subseteq Conn /\ finished \subseteq Conn
    BY Zenon DEF IInv, ShapeInv
  <2>4. ShapeInv'
    BY <1>1, <1>3, <2>1, <2>2 DEF IInv, ShapeInv
  <2>5. HelloInv'
    <3>1. /\ \A d \in Conn : d > conn_seq => pc'[d] = "off"
          /\ \A d \in finished : pc'[d] = "done"
      BY <1>2, <2>2, <2>3, Zenon DEF IInv, HelloInv
    <3>2. \A d \in Conn : pc'[d] \in {"wait", "announce", "spawn"} => d \in registered'
      BY <2>1, <2>2, Zenon DEF IInv, HelloInv
    <3>3. \A d \in registered' : pc'[d] # "off" /\ fsm[d].state # "AwaitHello"
      BY <1>2, <2>1, <2>2, <2>3 DEF IInv, HelloInv
    <3>4. \A d \in Conn : pc'[d] = "events" /\ Head(evs'[d]).type = "HelloAccepted"
             => d \notin registered' /\ fsm[d].state # "AwaitHello"
      BY <1>3, <2>1, <2>2 DEF IInv, HelloInv
    <3>. QED  BY <1>1, <3>1, <3>2, <3>3, <3>4 DEF HelloInv
  <2>6. OrderInv'
    <3>1. CASE abandoned
      BY <1>1, <3>1, Zenon DEF OrderInv
    <3>2. CASE ~abandoned
      <4>1. PICK rank \in [Conn -> Nat], top \in Nat : Ordered(rank, top) /\ Numbered(rank)
        BY <3>2, Zenon DEF IInv, OrderInv
      <4>. QED  BY <1>2, <2>1, <4>1, HelloOrders, Zenon DEF IInv
    <3>. QED  BY <3>1, <3>2, Zenon
  <2>7. OwnerInv'
    <3>1. In' = In \cup {c}
      BY <1>2, <2>1, <2>2, <2>3 DEF In, Live
    <3>2. ASSUME NEW d \in In' \ cancelled' PROVE d = c
      <4>1. d \in In \ cancelled => d = registry /\ d # None
        BY <2>3 DEF IInv, OwnerInv, In, Conn, None
      <4>. QED  BY <2>1, <3>1, <3>2, <4>1 DEF Cancels
    <3>. QED  BY <2>1, <2>2, <3>2, Zenon DEF OwnerInv
  <2>. QED  BY <2>4, <2>5, <2>6, <2>7 DEF IInv
<1>. QED  BY <1>4, <1>5, Zenon

-----------------------------------------------------------------------------
LEMMA InitHolds == Init => IInv
<1>. SUFFICES ASSUME Init PROVE IInv
  OBVIOUS
<1>1. In = {}
  BY Zenon DEF Init, In
<1>2. ShapeInv
  <2>1. conn_seq \in 0..MaxConns
    BY IngestAssumption DEF Init
  <2>2. IsSession(NewSession)
    BY Zenon DEF NewSession, IsSession, States
  <2>3. fsm = [c \in Conn |-> fsm[c]] /\ \A c \in Conn : IsSession(fsm[c])
    BY <2>2, Zenon DEF Init
  <2>4. pc \in [Conn -> Places] /\ evs = [c \in Conn |-> evs[c]] /\ old \in [Conn -> Conn \cup {None}]
    BY Zenon DEF Init, Places
  <2>5. /\ registered \subseteq Conn /\ finished \subseteq Conn /\ abandoned \in BOOLEAN
        /\ registry \in Conn \cup {None} /\ playback \in Conn \cup {None}
    BY Zenon DEF Init
  <2>. QED  BY <2>1, <2>3, <2>4, <2>5, Zenon DEF ShapeInv
<1>3. HelloInv /\ OwnerInv
  BY <1>1, Zenon DEF Init, HelloInv, OwnerInv
<1>4. OrderInv
  <2>1. Ordered([c \in Conn |-> 0], 0) /\ Numbered([c \in Conn |-> 0])
    BY <1>1, Zenon DEF Init, Ordered, Numbered
  <2>. QED  BY <2>1, Zenon DEF OrderInv
<1>. QED  BY <1>2, <1>3, <1>4, Zenon DEF IInv

(* Every step of the pod, of a connection task, of the pipeline and of the   *)
(* server keeps the tasks of a pod in the order of their hellos.             *)
LEMMA NextPreserves == IInv /\ [Next]_vars => IInv'
<1>. SUFFICES ASSUME IInv, [Next]_vars PROVE IInv'
  OBVIOUS
<1>1. CASE PodConnects
  BY <1>1, PodConnectsPreserves, Zenon
<1>2. CASE PodSends \/ PipelineTakes \/ Shutdown \/ UNCHANGED vars
  <2>1. UNCHANGED <<pc, conn_seq, taskVars, registry, playback, abandoned, overtaken>>
    BY <1>2 DEF PodSends, PipelineTakes, Shutdown, vars, podVars
  <2>. QED  BY <2>1, OffstagePreserves, Zenon
<1>3. ASSUME NEW c \in Conn, ReadFrame(c) \/ ReadFails(c) \/ ReadInterrupted(c) \/ TaskRuns(c)
      PROVE  IInv'
  <2>1. CASE ReadFrame(c) \/ ReadFails(c) \/ ReadInterrupted(c)
    BY <2>1, ReadFramePreserves, ReadEndsPreserves
  <2>2. CASE OnHelloAccepted(c) \/ WaitFinished(c) \/ WaitAbandoned(c)
    BY <2>2, HelloPreserves, WaitPreserves
  <2>3. CASE Announce(c) \/ SpawnWriter(c) \/ ProcessEvents(c)
    BY <2>3, AnnouncePreserves, SpawnPreserves, ProcessPreserves
  <2>4. CASE CloseSession(c) \/ ExportTail(c)
    BY <2>4, ClosePreserves, ProcessPreserves
  <2>5. CASE Deregister(c) \/ PlaybackDeregister(c) \/ Finish(c)
    BY <2>5, DeregisterPreserves, PlaybackPreserves, FinishPreserves
  <2>. QED  BY <1>3, <2>1, <2>2, <2>3, <2>4, <2>5 DEF TaskRuns
<1>. QED  BY <1>1, <1>2, <1>3, Zenon DEF Next

(* The tasks of a pod stay in the order of their hellos, each behind the one *)
(* it superseded, and the last is the one the registry knows.                *)
THEOREM IngestInvariance == Spec => []IInv
BY InitHolds, NextPreserves, PTL DEF Spec

(* No two connections of a pod are past their wait with anything left to     *)
(* export, and a connection that is served and was not superseded is the one *)
(* the registry and the playback router find: for any number of connections, *)
(* permits, frames and samples.                                              *)
THEOREM OneReaderAtATime == Spec => []SoleReader
<1>1. IInv => SoleReader
  <2>. SUFFICES ASSUME IInv PROVE SoleReader
    OBVIOUS
  <2>1. ASSUME ~abandoned, NEW c \in Conn, NEW d \in Conn, Serving(c), Serving(d) PROVE c = d
    <3>1. c \in In /\ d \in In /\ pc[c] # "wait" /\ pc[d] # "wait"
      BY <2>1, Zenon DEF Serving, In, Live
    <3>. QED  BY <2>1, <3>1, OneServed DEF IInv
  <2>2. \A c \in registered \ cancelled :
          pc[c] \in {"read", "events"} => registry = c /\ (abandoned \/ playback = c)
    BY Zenon DEF IInv, OwnerInv, In, Live
  <2>. QED  BY <2>1, <2>2 DEF SoleReader
<1>. QED  BY <1>1, IngestInvariance, PTL

-----------------------------------------------------------------------------
(* The queue of the pipeline: in the order of the connections, from          *)
(* connection lo on, none of a later connection than hi, and all of them of  *)
(* R.                                                                        *)
IsSeq(q) == q \in Seq({q[i] : i \in DOMAIN q})

Lined(q, lo, hi, R) ==
  /\ IsSeq(q)
  /\ \A i \in DOMAIN q : q[i].epoch \in R /\ lo <= q[i].epoch /\ q[i].epoch <= hi
  /\ \A i, j \in DOMAIN q : i <= j => q[i].epoch <= q[j].epoch

LEMMA ElementsMakeIt ==
  ASSUME NEW S, NEW q \in Seq(S) PROVE IsSeq(q)
<1> DEFINE T == {q[i] : i \in DOMAIN q}
<1>1. q \in [1..Len(q) -> T] /\ Len(q) \in Nat
  OBVIOUS
<1>. HIDE DEF T
<1>2. q \in Seq(T)
  BY <1>1
<1>. QED  BY <1>2, Zenon DEF IsSeq, T

LEMMA LinedAppend ==
  ASSUME NEW R \in SUBSET Nat, NEW lo \in Nat, NEW c \in R, lo <= c,
         NEW q, Lined(q, lo, c, R), NEW x, x.epoch = c
  PROVE  Lined(Append(q, x), lo, c, R)
<1> DEFINE S == {q[i] : i \in DOMAIN q} \cup {x}
           r == Append(q, x)
<1>1. q \in Seq(S)
  BY DEF Lined, IsSeq
<1>2. DOMAIN q = 1..Len(q) /\ Len(q) \in Nat
  BY <1>1
<1>. HIDE DEF S
<1>3. /\ r \in Seq(S) /\ DOMAIN r = 1..(Len(q) + 1)
      /\ \A i \in 1..Len(q) : r[i] = q[i]
      /\ r[Len(q) + 1] = x
  BY <1>1, x \in S DEF S
<1>. HIDE DEF r
<1>4. \A i \in DOMAIN r : (i \in DOMAIN q /\ r[i] = q[i]) \/ (r[i] = x /\ i = Len(q) + 1)
  BY <1>2, <1>3
<1>5. \A i \in DOMAIN r : r[i].epoch \in R /\ lo <= r[i].epoch /\ r[i].epoch <= c
  BY <1>4 DEF Lined
<1>6. ASSUME NEW i \in DOMAIN r, NEW j \in DOMAIN r, i <= j PROVE r[i].epoch <= r[j].epoch
  <2>1. CASE r[j] = x
    BY <1>5, <2>1
  <2>2. CASE j \in DOMAIN q /\ r[j] = q[j]
    <3>1. i \in DOMAIN q /\ r[i] = q[i]
      BY <1>2, <1>3, <1>6, <2>2
    <3>. QED  BY <1>6, <2>2, <3>1, Zenon DEF Lined
  <2>. QED  BY <1>4, <2>1, <2>2, Zenon
<1>7. IsSeq(r)
  BY <1>3, ElementsMakeIt, Zenon
<1>. QED  BY <1>5, <1>6, <1>7, Zenon DEF Lined, r

LEMMA SubSeqIs ==
  ASSUME NEW S, NEW q, NEW m \in Nat, NEW n \in Nat, \A i \in (m + 1)..n : q[i] \in S, m <= n
  PROVE  /\ SubSeq(q, m + 1, n) \in Seq(S) /\ Len(SubSeq(q, m + 1, n)) = n - m
         /\ \A i \in 1..(n - m) : SubSeq(q, m + 1, n)[i] = q[m + i]
<1> DEFINE a == m + 1
           v == SubSeq(q, a, n)
<1>1. a \in Int /\ n \in Int
  OBVIOUS
<1>2. /\ n - a + 1 = n - m /\ (~(a <= n) => n - m = 0)
      /\ \A i \in 1..(n - m) : a + i - 1 = m + i
  OBVIOUS
<1>. HIDE DEF a
<1>3. /\ v \in Seq(S) /\ Len(v) = (IF a <= n THEN n - a + 1 ELSE 0)
      /\ \A i \in 1..(n - a + 1) : v[i] = q[a + i - 1]
  BY <1>1, SubSeqProperties DEF a
<1>. HIDE DEF v
<1>4. /\ v \in Seq(S) /\ Len(v) = n - m
      /\ \A i \in 1..(n - m) : v[i] = q[m + i]
  BY <1>2, <1>3, Zenon
<1>. QED  BY <1>4, Zenon DEF v, a

LEMMA LinedWithout ==
  ASSUME NEW R, NEW lo, NEW hi, NEW q, Lined(q, lo, hi, R), NEW k \in 1..Len(q)
  PROVE  Lined(SubSeq(q, 1, k - 1) \o SubSeq(q, k + 1, Len(q)), lo, hi, R)
<1> DEFINE S == {q[i] : i \in DOMAIN q}
           from(i) == IF i < k THEN i ELSE i + 1
<1>1. q \in Seq(S) /\ DOMAIN q = 1..Len(q) /\ Len(q) \in Nat
  BY DEF Lined, IsSeq
<1>. HIDE DEF S
<1> DEFINE u == SubSeq(q, 1, k - 1)
           v == SubSeq(q, k + 1, Len(q))
           r == u \o v
<1>2. /\ u \in Seq(S) /\ Len(u) = k - 1 /\ \A i \in 1..(k - 1) : u[i] = q[i]
  <2>1. /\ \A i \in (0 + 1)..(k - 1) : q[i] \in S
        /\ 0 <= k - 1 /\ k - 1 \in Nat /\ 0 \in Nat /\ 0 + 1 = 1 /\ (k - 1) - 0 = k - 1
        /\ \A i \in 1..(k - 1) : 0 + i = i
    BY <1>1, ElementOfSeq
  <2>. QED  BY <2>1, SubSeqIs
<1>3. /\ v \in Seq(S) /\ Len(v) = Len(q) - k /\ \A i \in 1..(Len(q) - k) : v[i] = q[k + i]
  <2>1. k \in Nat /\ k <= Len(q) /\ \A i \in (k + 1)..Len(q) : q[i] \in S
    BY <1>1, ElementOfSeq
  <2>. QED  BY <1>1, <2>1, SubSeqIs
<1>. HIDE DEF u, v
<1>5. /\ r \in Seq(S) /\ Len(r) = Len(u) + Len(v)
      /\ \A i \in 1..(Len(u) + Len(v)) : r[i] = IF i <= Len(u) THEN u[i] ELSE v[i - Len(u)]
  BY <1>2, <1>3, ConcatProperties, Zenon
<1>. HIDE DEF r
<1>51. Len(u) + Len(v) = Len(q) - 1 /\ DOMAIN r = 1..(Len(q) - 1)
  BY <1>1, <1>2, <1>3, <1>5, LenProperties
<1>6. ASSUME NEW i \in DOMAIN r PROVE from(i) \in DOMAIN q /\ r[i] = q[from(i)]
  <2>1. i \in 1..(Len(q) - 1) /\ r[i] = IF i <= Len(u) THEN u[i] ELSE v[i - Len(u)]
    BY <1>5, <1>51, Zenon
  <2>2. CASE i < k
    <3>1. i \in 1..(k - 1) /\ i <= Len(u) /\ from(i) = i /\ i \in 1..Len(q)
      BY <1>1, <1>2, <2>1, <2>2
    <3>. QED  BY <1>1, <1>2, <2>1, <3>1, Zenon
  <2>3. CASE ~(i < k)
    <3>1. /\ i - Len(u) \in 1..(Len(q) - k) /\ ~(i <= Len(u)) /\ from(i) = i + 1
          /\ k + (i - Len(u)) = i + 1 /\ i + 1 \in 1..Len(q)
      BY <1>1, <1>2, <2>1, <2>3
    <3>. QED  BY <1>1, <1>3, <2>1, <3>1, Zenon
  <2>. QED  BY <2>2, <2>3, Zenon
<1>7. \A i, j \in DOMAIN r : i <= j => from(i) <= from(j)
  BY <1>1, <1>51
<1>. HIDE DEF from
<1>8. IsSeq(r)
  BY <1>5, ElementsMakeIt, Zenon
<1>. QED  BY <1>6, <1>7, <1>8, Zenon DEF Lined, r, u, v

LEMMA LinedTail ==
  ASSUME NEW R, NEW lo, NEW hi, NEW q, Lined(q, lo, hi, R), q # <<>>
  PROVE  /\ Head(q).epoch \in R /\ lo <= Head(q).epoch /\ Head(q).epoch <= hi
         /\ Lined(Tail(q), Head(q).epoch, hi, R)
<1> DEFINE S == {q[i] : i \in DOMAIN q}
           r == Tail(q)
<1>1. q \in Seq(S) /\ DOMAIN q = 1..Len(q) /\ Len(q) \in Nat
  BY DEF Lined, IsSeq
<1>. HIDE DEF S
<1>2. 1 \in DOMAIN q /\ Head(q) = q[1]
  BY <1>1
<1>3. /\ r \in Seq(S) /\ DOMAIN r = 1..(Len(q) - 1)
      /\ \A i \in DOMAIN r : i + 1 \in DOMAIN q /\ r[i] = q[i + 1] /\ 1 <= i + 1
      /\ \A i, j \in DOMAIN r : i <= j => i + 1 <= j + 1
  BY <1>1, <1>2
<1>4. IsSeq(r)
  BY <1>3, ElementsMakeIt, Zenon
<1>. HIDE DEF r
<1>5. Lined(r, q[1].epoch, hi, R)
  BY <1>2, <1>3, <1>4, Zenon DEF Lined
<1>6. q[1].epoch \in R /\ lo <= q[1].epoch /\ q[1].epoch <= hi
  BY <1>2, Zenon DEF Lined
<1>. QED  BY <1>2, <1>5, <1>6, Zenon DEF r

LEMMA LinedBelow ==
  ASSUME NEW R \in SUBSET Nat, NEW lo, NEW hi \in Nat, NEW top \in Nat, hi <= top, NEW Q, R \subseteq Q,
         NEW q, Lined(q, lo, hi, R)
  PROVE  Lined(q, lo, top, Q)
<1>1. \A i \in DOMAIN q : q[i].epoch \in Nat /\ q[i].epoch <= hi /\ q[i].epoch \in Q /\ lo <= q[i].epoch
  BY Zenon DEF Lined
<1>2. \A i \in DOMAIN q : q[i].epoch <= top
  BY <1>1
<1>. QED  BY <1>1, <1>2, Zenon DEF Lined

LEMMA LeastNatural ==
  ASSUME NEW T \in SUBSET Nat, T # {}
  PROVE  \E i \in T : \A j \in T : i <= j
<1>1. PICK i \in T : \A j \in T : ~(<<j, i>> \in OpToRel(<, Nat))
  BY WFMin, NatLessThanWellFounded, Zenon
<1>2. \A j \in T : ~(j < i)
  BY <1>1, Zenon DEF OpToRel
<1>. QED  BY <1>2

(* A full lane loses its oldest segment; the rest keep their places. *)
LEMMA LinedSend ==
  ASSUME NEW R \in SUBSET Nat, NEW lo \in Nat, NEW c \in R, lo <= c,
         NEW q, Lined(q, lo, c, R), NEW x, x.epoch = c
  PROVE  Lined(SendSheddable(q, x), lo, c, R)
<1>1. CASE LaneFull(q)
  <2> DEFINE I == Segments(q)
             r == WithoutOldest(q)
  <2>1. I # {}
    <3>1. SegmentQueueDepth >= 1 /\ SegmentQueueDepth \in Nat
      BY IngestAssumption
    <3>. QED  BY <1>1, <3>1, FS_EmptySet DEF LaneFull
  <2>2. DOMAIN q = 1..Len(q) /\ Len(q) \in Nat
    BY DEF Lined, IsSeq
  <2>3. I \subseteq 1..Len(q) /\ I \in SUBSET Nat
    BY <2>2 DEF Segments
  <2>. HIDE DEF I
  <2>4. \E i \in I : \A j \in I : i <= j
    BY <2>1, <2>3, LeastNatural, Zenon
  <2>5. Min(I) \in I
    BY <2>4 DEF Min
  <2>6. Lined(r, lo, c, R)
    BY <2>3, <2>5, LinedWithout, Zenon DEF WithoutOldest, I
  <2>. HIDE DEF r
  <2>. QED  BY <1>1, <2>6, LinedAppend, Zenon DEF SendSheddable, r
<1>2. CASE ~LaneFull(q)
  BY <1>2, LinedAppend, Zenon DEF SendSheddable
<1>. QED  BY <1>1, <1>2, Zenon

(* The events of a frame are at most two, exported one after the other. *)
Starts(a, q) == [asm |-> a, items |-> q]

LEMMA ExportedIs ==
  ASSUME NEW c, NEW a, NEW q, NEW events, Len(events) \in 0..2
  PROVE  Exported(c, a, q, events) =
           IF Len(events) = 0 THEN Starts(a, q)
           ELSE IF Len(events) = 1 THEN Export(c, Starts(a, q), events[1])
           ELSE Export(c, Export(c, Starts(a, q), events[1]), events[2])
<1> DEFINE n == Len(events)
           s0 == Starts(a, q)
           s1 == Export(c, s0, events[1])
           s2 == Export(c, s1, events[2])
           Body(f) == [k \in 0..n |-> IF k = 0 THEN s0 ELSE Export(c, f[k - 1], events[k])]
           run == CHOOSE f : f = Body(f)
           g == [k \in 0..n |-> IF k = 0 THEN s0 ELSE IF k = 1 THEN s1 ELSE s2]
<1>1. Exported(c, a, q, events) = run[n]
  BY Zenon DEF Exported, Starts
<1>2. n \in 0..2
  OBVIOUS
<1>. HIDE DEF n, s0
<1>3. \E f : f = Body(f)
  <2>1. \A k \in 0..n : k = 0 \/ (k = 1 /\ k - 1 = 0 /\ 0 \in 0..n) \/ (k = 2 /\ k - 1 = 1 /\ 1 \in 0..n)
    BY <1>2
  <2>2. ASSUME NEW k \in 0..n PROVE g[k] = Body(g)[k]
    <3>1. CASE k = 0
      BY <3>1, Zenon
    <3>2. CASE k = 1 /\ k - 1 = 0 /\ 0 \in 0..n
      <4>1. g[k - 1] = s0 /\ k # 0
        BY <3>2
      <4>2. g[k] = s1
        BY <3>2, <4>1, Zenon
      <4>3. Body(g)[k] = Export(c, g[k - 1], events[k])
        BY <4>1, Zenon
      <4>. QED  BY <3>2, <4>1, <4>2, <4>3, Zenon
    <3>3. CASE k = 2 /\ k - 1 = 1 /\ 1 \in 0..n
      <4>1. 1 # 0 /\ 2 # 0 /\ 2 # 1
        OBVIOUS
      <4>2. g[k - 1] = s1 /\ g[k] = s2
        BY <3>3, <4>1, Zenon
      <4>3. Body(g)[k] = Export(c, g[k - 1], events[k])
        BY <3>3, <4>1, Zenon
      <4>. QED  BY <3>3, <4>2, <4>3, Zenon
    <3>. QED  BY <2>1, <3>1, <3>2, <3>3, Zenon
  <2>3. g = [k \in 0..n |-> g[k]] /\ Body(g) = [k \in 0..n |-> Body(g)[k]]
    OBVIOUS
  <2>. HIDE DEF g, Body
  <2>4. g = Body(g)
    BY <2>2, <2>3, Zenon
  <2>. QED  BY <2>4, Zenon
<1>4. run = Body(run)
  <2>. HIDE DEF Body
  <2>. QED  BY <1>3, Zenon DEF run
<1>. HIDE DEF run
<1>5. ASSUME NEW k \in 0..n PROVE run[k] = IF k = 0 THEN s0 ELSE Export(c, run[k - 1], events[k])
  BY <1>4, Zenon
<1>6. /\ 0 \in 0..n /\ (n # 0 => 1 \in 0..n) /\ (n # 0 /\ n # 1 => n = 2 /\ 2 \in 0..n)
      /\ 1 # 0 /\ 2 # 0 /\ 1 - 1 = 0 /\ 2 - 1 = 1
  BY <1>2
<1>7. run[0] = s0 /\ (n # 0 => run[1] = s1) /\ (n # 0 /\ n # 1 => run[n] = s2)
  <2>1. run[0] = s0
    BY <1>5, <1>6, Zenon
  <2>2. n # 0 => run[1] = s1
    BY <1>5, <1>6, <2>1, Zenon
  <2>3. n # 0 /\ n # 1 => run[2] = s2
    BY <1>5, <1>6, <2>2, Zenon
  <2>. QED  BY <1>6, <2>1, <2>2, <2>3, Zenon
<1>. QED  BY <1>1, <1>7, Zenon DEF n, s0

(* What an unregistered task has to process finishes no segment. *)
Quiet == {<<>>, <<Fatal>>, <<HelloAccepted(TRUE)>>, <<HelloAccepted(FALSE)>>}

LEMMA QuietExports ==
  ASSUME NEW c, NEW a, NEW q, NEW events \in Quiet
  PROVE  Len(events) \in 0..2 /\ Exported(c, a, q, events).items = q
<1>1. events = <<>> \/ \E e : events = <<e>> /\ e.type \in {"Fatal", "HelloAccepted"}
  <2>1. Fatal.type = "Fatal" /\ \A own : HelloAccepted(own).type = "HelloAccepted"
    BY Zenon DEF Fatal, HelloAccepted
  <2>. QED  BY <2>1, Zenon DEF Quiet
<1>2. Starts(a, q).items = q /\ Starts(a, q).asm = a
  BY Zenon DEF Starts
<1>3. CASE events = <<>>
  <2>1. Len(events) = 0
    BY <1>3
  <2>. QED  BY <1>2, <2>1, ExportedIs
<1>4. CASE \E e : events = <<e>> /\ e.type \in {"Fatal", "HelloAccepted"}
  <2>1. PICK e : events = <<e>> /\ e.type \in {"Fatal", "HelloAccepted"}
    BY <1>4, Zenon
  <2>2. Len(events) = 1 /\ events[1] = e
    BY <2>1
  <2>3. OnEvent(a, e) = Result(a, <<>>)
    BY <2>1, Zenon DEF OnEvent
  <2>4. Export(c, Starts(a, q), e).items = q
    <3>1. OnEvent(Starts(a, q).asm, e).segments = <<>>
      BY <1>2, <2>3 DEF Result
    <3>. QED  BY <1>2, <3>1 DEF Export
  <2>5. Len(events) \in 0..2 /\ Exported(c, a, q, events) = Export(c, Starts(a, q), e)
    BY <2>2, ExportedIs
  <2>. QED  BY <2>4, <2>5, Zenon
<1>. QED  BY <1>1, <1>3, <1>4, Zenon

(* What a task exports goes to the end of the queue. *)
LEMMA LinedExport ==
  ASSUME NEW R \in SUBSET Nat, NEW lo \in Nat, NEW c \in R, lo <= c, NEW at, NEW ev,
         Lined(at.items, lo, c, R)
  PROVE  Lined(Export(c, at, ev).items, lo, c, R)
<1> DEFINE r == OnEvent(at.asm, ev)
           x == [kind |-> "Segment", epoch |-> c, seg |-> Head(r.segments)]
<1>1. Export(c, at, ev).items = at.items \/ Export(c, at, ev).items = SendSheddable(at.items, x)
  BY Zenon DEF Export
<1>2. x.epoch = c
  BY Zenon
<1>. HIDE DEF x
<1>. QED  BY <1>1, <1>2, LinedSend, Zenon

LEMMA LinedExports ==
  ASSUME NEW R \in SUBSET Nat, NEW lo \in Nat, NEW c \in R, lo <= c, NEW a, NEW q, NEW events,
         Len(events) \in 0..2, Lined(q, lo, c, R)
  PROVE  Lined(Exported(c, a, q, events).items, lo, c, R)
<1> DEFINE s0 == Starts(a, q)
           s1 == Export(c, s0, events[1])
           s2 == Export(c, s1, events[2])
<1>1. Exported(c, a, q, events) \in {s0, s1, s2}
  <2>. HIDE DEF s0
  <2>1. \/ Exported(c, a, q, events) = s0
        \/ Exported(c, a, q, events) = s1
        \/ Exported(c, a, q, events) = s2
    BY ExportedIs DEF s0
  <2>. QED  BY <2>1, Zenon
<1>2. Lined(s0.items, lo, c, R)
  BY Zenon DEF Starts
<1>. HIDE DEF s0
<1>3. Lined(s1.items, lo, c, R)
  BY <1>2, LinedExport, Zenon
<1>. HIDE DEF s1
<1>4. Lined(s2.items, lo, c, R)
  BY <1>3, LinedExport, Zenon
<1>. QED  BY <1>1, <1>2, <1>3, <1>4, Zenon

(* What the session emits: two events of a frame that closes a segment and   *)
(* opens the next, and of an opening frame one that finishes no segment.     *)
LEMMA FeedEmits ==
  ASSUME NEW s, IsSession(s), NEW f, NEW L, NEW p
  PROVE  Len(Feed(s, f, L, p).events) \in 0..2
<1> DEFINE step == Feed(s, f, L, p)
<1>0. /\ \A e : Len(<<e>>) \in 0..2
      /\ \A e, g : Len(<<e>> \o <<g>>) \in 0..2
      /\ Len(<<>>) \in 0..2
  OBVIOUS
<1>1. /\ \A e : Step(s, L, <<e>>).events = <<e>>
      /\ Step(s, L, <<>>).events = <<>>
      /\ \A x, e : Step(x, L, <<e>>).events = <<e>>
  BY Zenon DEF Step
<1>2. CASE s.state = "AwaitHello"
  <2>1. step = FeedAwaitHello(s, f, L)
    BY <1>2, Zenon DEF Feed
  <2>2. \E x, e : step = Step(x, L, <<e>>)
    BY <2>1, Zenon DEF FeedAwaitHello
  <2>. QED  BY <1>0, <1>1, <2>2, Zenon
<1>3. CASE s.state = "Idle"
  <2>1. step = FeedIdle(s, f, L, p)
    BY <1>3, Zenon DEF Feed
  <2>2. \E e : OpenSegment(s, f, L, p).events = <<e>>
    BY OpenAccepts, Zenon
  <2>. QED  BY <1>0, <1>1, <2>1, <2>2, Zenon DEF FeedIdle
<1>4. CASE s.state = "InSegment"
  <2>1. step = FeedInSegment(s, f, L, p)
    BY <1>4, Zenon DEF Feed
  <2>. HIDE DEF step
  <2>2. CASE f.type = "SegmentStart"
    <3> DEFINE cut == TruncateOpenSegment(s, L, p)
               next == OpenSegment(cut.fsm, f, cut.ledger, p)
    <3>1. step = [next EXCEPT !.events = cut.events \o next.events]
      BY <2>1, <2>2, Zenon DEF FeedInSegment
    <3>2. PICK e : cut.events = <<e>>
      BY TruncateAccepts, Zenon
    <3>3. PICK g : next.events = <<g>>
      BY OpenAccepts
    <3>4. next = [fsm |-> next.fsm, ledger |-> next.ledger, events |-> next.events]
      BY OpenAccepts
    <3>. HIDE DEF cut, next
    <3>5. step.events = <<e>> \o <<g>>
      BY <3>1, <3>2, <3>3, <3>4, Zenon
    <3>. QED  BY <1>0, <3>5, Zenon DEF step
  <2>3. CASE f.type = "Audio"
    <3>1. step = OnAudio(s, f, L)
      BY <2>1, <2>3, Zenon DEF FeedInSegment
    <3>2. \E e : OnAudio(s, f, L).events = <<e>>
      BY <1>1, Zenon DEF OnAudio
    <3>. QED  BY <1>0, <3>1, <3>2, Zenon DEF step
  <2>4. CASE f.type = "Telemetry"
    <3>1. \E e : step = Step(s, L, <<e>>)
      BY <2>1, <2>4, Zenon DEF FeedInSegment
    <3>. QED  BY <1>0, <1>1, <3>1, Zenon DEF step
  <2>5. CASE f.type = "SegmentEnd"
    <3>1. \E e : step = Step(IdleSession, L, <<e>>)
      BY <2>1, <2>5, Zenon DEF FeedInSegment
    <3>. QED  BY <1>0, <1>1, <3>1, Zenon DEF step
  <2>6. CASE f.type \notin {"SegmentStart", "Audio", "Telemetry", "SegmentEnd"}
    <3>1. step = Step(s, L, <<>>)
      BY <2>1, <2>6, Zenon DEF FeedInSegment
    <3>. QED  BY <1>0, <1>1, <3>1, Zenon DEF step
  <2>. QED  BY <2>2, <2>3, <2>4, <2>5, <2>6, Zenon
<1>5. CASE s.state = "Dead"
  <2>1. step = Step(s, L, <<>>)
    BY <1>5, Zenon DEF Feed
  <2>. QED  BY <1>0, <1>1, <2>1, Zenon
<1>. QED  BY <1>2, <1>3, <1>4, <1>5, Zenon DEF IsSession, States

LEMMA OpeningEmits ==
  ASSUME NEW s, s.state = "AwaitHello", NEW f, NEW L, NEW p
  PROVE  /\ Feed(s, f, L, p).events \in Quiet \ {<<>>}
         /\ Feed(s, f, L, p).fsm.state # "InSegment"
<1>1. Feed(s, f, L, p) = FeedAwaitHello(s, f, L)
  BY Zenon DEF Feed
<1>2. (f.type = "Hello") \in BOOLEAN
  OBVIOUS
<1>3. \A e : <<e>> # <<>>
  OBVIOUS
<1>4. IdleSession.state # "InSegment" /\ DeadSession.state # "InSegment"
  BY Sessions
<1>5. CASE f.type \in {"Hello", "ForeignHello"}
  <2>1. FeedAwaitHello(s, f, L) = Step(IdleSession, L, <<HelloAccepted(f.type = "Hello")>>)
    BY <1>5, Zenon DEF FeedAwaitHello
  <2>2. <<HelloAccepted(f.type = "Hello")>> \in Quiet \ {<<>>}
    <3>1. CASE f.type = "Hello"
      <4>1. (f.type = "Hello") = TRUE
        BY <3>1, Zenon
      <4>. QED  BY <1>3, <4>1, Zenon DEF Quiet
    <3>2. CASE f.type # "Hello"
      <4>1. (f.type = "Hello") = FALSE
        BY <3>2, Zenon
      <4>. QED  BY <1>3, <4>1, Zenon DEF Quiet
    <3>. QED  BY <3>1, <3>2, Zenon
  <2>3. Feed(s, f, L, p).events = <<HelloAccepted(f.type = "Hello")>> /\ Feed(s, f, L, p).fsm = IdleSession
    BY <1>1, <2>1, SMT DEF Step
  <2>. QED  BY <1>4, <2>2, <2>3, Zenon
<1>6. CASE f.type \notin {"Hello", "ForeignHello"}
  <2>1. FeedAwaitHello(s, f, L) = Step(DeadSession, L, <<Fatal>>)
    BY <1>6, Zenon DEF FeedAwaitHello
  <2>2. <<Fatal>> \in Quiet \ {<<>>}
    BY <1>3, Zenon DEF Quiet
  <2>3. Feed(s, f, L, p).events = <<Fatal>> /\ Feed(s, f, L, p).fsm = DeadSession
    BY <1>1, <2>1, SMT DEF Step
  <2>. QED  BY <1>4, <2>2, <2>3, Zenon
<1>. QED  BY <1>5, <1>6, Zenon

LEMMA CloseEmits ==
  ASSUME NEW s, IsSession(s), NEW L, NEW p
  PROVE  /\ Len(Close(s, L, p).events) \in 0..2
         /\ s.state # "InSegment" => Close(s, L, p).events = <<>>
<1>1. CASE s.state = "InSegment"
  <2> DEFINE cut == TruncateOpenSegment(s, L, p)
  <2>1. cut = [fsm |-> cut.fsm, ledger |-> cut.ledger, events |-> cut.events] /\ \E e : cut.events = <<e>>
    BY TruncateAccepts, Zenon
  <2>2. Close(s, L, p) = [cut EXCEPT !.fsm = DeadSession]
    BY <1>1, Zenon DEF Close
  <2>. HIDE DEF cut
  <2>3. Close(s, L, p).events = cut.events
    BY <2>1, <2>2, Zenon
  <2>. QED  BY <1>1, <2>1, <2>3
<1>2. CASE s.state # "InSegment"
  <2>1. Close(s, L, p).events = <<>>
    BY <1>2, Zenon DEF Close, Step
  <2>. QED  BY <2>1
<1>. QED  BY <1>1, <1>2, Zenon

-----------------------------------------------------------------------------
(* Why no segment is late: the queue is in line with the order of the tasks.  *)
EventsInv == \A c \in Conn : Len(evs[c]) \in 0..2

(* Before its hello a task has no segment to export. *)
QuietTask(c) ==
  /\ fsm[c].state # "InSegment"
  /\ pc[c] \in {"off", "read"} => fsm[c].state = "AwaitHello"
  /\ evs[c] \in Quiet /\ (pc[c] = "events" => evs[c] # <<>>)

QuietInv == \A c \in Conn : c \in registered \/ QuietTask(c)

InLine ==
  /\ ~late /\ announced \in registered \cup {0}
  /\ Lined(items, announced, MaxConns, registered)
  /\ \A c \in In : announced <= c /\ Lined(items, announced, c, registered)

QueueInv == abandoned \/ overtaken \/ InLine

LineInv == EventsInv /\ QuietInv /\ QueueInv

LEMMA Numbers == Conn \subseteq Nat /\ MaxConns \in Nat /\ \A c \in Conn : 0 <= c /\ c <= MaxConns
BY IngestAssumption DEF Conn

(* A task's step that leaves the queue alone. *)
LEMMA TaskQuiet ==
  ASSUME ShapeInv, EventsInv, QuietInv, NEW c \in Conn,
         \A d \in Conn \ {c} : pc'[d] = pc[d] /\ fsm'[d] = fsm[d] /\ evs'[d] = evs[d],
         Len(evs'[c]) \in 0..2, c \in registered' \/ QuietTask(c)', registered \subseteq registered'
  PROVE  EventsInv' /\ QuietInv'
<1>1. \A d \in Conn \ {c} : QuietTask(d)' <=> QuietTask(d)
  BY Zenon DEF QuietTask
<1>2. EventsInv'
  BY Zenon DEF EventsInv
<1>. HIDE DEF QuietTask
<1>3. QuietInv'
  BY <1>1, Zenon DEF QuietInv
<1>. QED  BY <1>2, <1>3, Zenon

LEMMA TaskQueue ==
  ASSUME QueueInv, UNCHANGED <<registered, items, announced, late, overtaken>>,
         abandoned => abandoned', In' \subseteq In
  PROVE  QueueInv'
BY Zenon DEF QueueInv, InLine

LEMMA TaskLines ==
  ASSUME ShapeInv, LineInv, NEW c \in Conn, NEW where, Goto(c, where),
         \A d \in Conn \ {c} : fsm'[d] = fsm[d] /\ evs'[d] = evs[d],
         Len(evs'[c]) \in 0..2,
         c \in registered \/ (/\ fsm'[c].state # "InSegment" /\ evs'[c] \in Quiet
                              /\ where \in {"off", "read"} => fsm'[c].state = "AwaitHello"
                              /\ where = "events" => evs'[c] # <<>>),
         pc[c] \in Live \cup {"wait"} \/ where \notin Live \cup {"wait"} \/ c \notin registered,
         UNCHANGED <<registered, items, announced, late, overtaken>>, abandoned => abandoned'
  PROVE  LineInv'
<1>1. pc'[c] = where /\ \A d \in Conn \ {c} : pc'[d] = pc[d]
  BY Zenon DEF ShapeInv, Goto
<1>2. In' \subseteq In
  BY <1>1, Zenon DEF In, ShapeInv
<1>3. c \in registered' \/ QuietTask(c)'
  BY <1>1, Zenon DEF QuietTask
<1>4. EventsInv' /\ QuietInv'
  BY <1>1, <1>3, TaskQuiet, Zenon DEF LineInv
<1>5. QueueInv'
  BY <1>2, TaskQueue, Zenon DEF LineInv
<1>. QED  BY <1>4, <1>5, Zenon DEF LineInv

(* Without events to process, or with the ones it has. *)
LEMMA TaskGoesOn ==
  ASSUME ShapeInv, LineInv, NEW c \in Conn, NEW where, Goto(c, where),
         c \in registered \/ where \notin {"off", "read", "events"},
         pc[c] \in Live \cup {"wait"} \/ where \notin Live \cup {"wait"} \/ c \notin registered,
         UNCHANGED <<fsm, evs, registered, items, announced, late, overtaken>>, abandoned => abandoned'
  PROVE  LineInv'
<1>1. Len(evs'[c]) \in 0..2
  BY Zenon DEF LineInv, EventsInv
<1>2. c \in registered \/ (fsm'[c].state # "InSegment" /\ evs'[c] \in Quiet)
  BY Zenon DEF LineInv, QuietInv, QuietTask
<1>3. \A d \in Conn \ {c} : fsm'[d] = fsm[d] /\ evs'[d] = evs[d]
  BY Zenon
<1>4. \/ c \in registered
      \/ /\ fsm'[c].state # "InSegment" /\ evs'[c] \in Quiet
         /\ where \in {"off", "read"} => fsm'[c].state = "AwaitHello"
         /\ where = "events" => evs'[c] # <<>>
  BY <1>2, Zenon
<1>. QED  BY <1>1, <1>3, <1>4, TaskLines, Zenon

LEMMA PodConnectsLines ==
  ASSUME IInv, LineInv, PodConnects PROVE LineInv'
<1> DEFINE n == conn_seq + 1
           where == IF Cardinality(Busy) < MaxConnections THEN "read" ELSE "done"
<1>1. n \in Conn /\ pc[n] = "off" /\ n \notin registered
  <2>1. conn_seq < MaxConns
    BY Zenon DEF PodConnects
  <2>2. conn_seq \in 0..MaxConns
    BY Zenon DEF IInv, ShapeInv
  <2>3. n \in Conn /\ n > conn_seq
    BY <2>1, <2>2, IngestAssumption DEF Conn
  <2>. HIDE DEF n
  <2>. QED  BY <2>3, Zenon DEF IInv, HelloInv
<1>2. Goto(n, where) /\ where \in {"read", "done"}
  BY Zenon DEF PodConnects, Goto
<1>3. UNCHANGED <<fsm, evs, registered, items, announced, late, overtaken, abandoned>>
  BY Zenon DEF PodConnects, taskVars, pipeVars
<1>. HIDE DEF n, where
<1>4. fsm[n].state # "InSegment" /\ evs[n] \in Quiet /\ fsm[n].state = "AwaitHello"
  BY <1>1, Zenon DEF LineInv, QuietInv, QuietTask
<1>5. Len(evs[n]) \in 0..2
  BY <1>1, Zenon DEF LineInv, EventsInv
<1>6. \A d \in Conn \ {n} : fsm'[d] = fsm[d] /\ evs'[d] = evs[d]
  BY <1>3, Zenon
<1>. QED  BY <1>1, <1>2, <1>3, <1>4, <1>5, <1>6, TaskLines DEF IInv

LEMMA ReadFrameLines ==
  ASSUME IInv, LineInv, NEW c \in Conn, ReadFrame(c) PROVE LineInv'
<1> DEFINE step == Feed(fsm[c], Head(wire[c]), ledger, Pod)
           where == IF step.events = <<>> THEN "read" ELSE "events"
<1>1. /\ pc[c] = "read" /\ Goto(c, where)
      /\ fsm' = [fsm EXCEPT ![c] = step.fsm] /\ evs' = [evs EXCEPT ![c] = step.events]
      /\ UNCHANGED <<registered, items, announced, late, abandoned, overtaken>>
  BY Zenon DEF ReadFrame, pipeVars
<1>2. Len(step.events) \in 0..2
  BY FeedEmits, Zenon DEF IInv, ShapeInv
<1>3. c \in registered \/ (step.events \in Quiet \ {<<>>} /\ step.fsm.state # "InSegment")
  BY <1>1, OpeningEmits, Zenon DEF LineInv, QuietInv, QuietTask
<1>4. c \in registered \/ where = "events"
  BY <1>3, Zenon
<1>. HIDE DEF step, where
<1>5. /\ \A d \in Conn \ {c} : fsm'[d] = fsm[d] /\ evs'[d] = evs[d]
      /\ fsm'[c] = step.fsm /\ evs'[c] = step.events
  BY <1>1, Zenon DEF IInv, ShapeInv
<1>6. pc[c] \in Live
  BY <1>1, Zenon DEF Live
<1>. QED  BY <1>1, <1>2, <1>3, <1>4, <1>5, <1>6, TaskLines DEF IInv

LEMMA CloseLines ==
  ASSUME IInv, LineInv, NEW c \in Conn, CloseSession(c) PROVE LineInv'
<1> DEFINE step == Close(fsm[c], ledger, Pod)
<1>1. /\ pc[c] = "close" /\ Goto(c, "export")
      /\ fsm' = [fsm EXCEPT ![c] = step.fsm] /\ evs' = [evs EXCEPT ![c] = step.events]
      /\ UNCHANGED <<registered, items, announced, late, abandoned, overtaken>>
  BY Zenon DEF CloseSession, pipeVars
<1>2. Len(step.events) \in 0..2 /\ step.fsm = DeadSession
  BY CloseEmits, CloseAccepts, ZenonT(30) DEF IInv, ShapeInv
<1>3. c \in registered \/ step.events = <<>>
  <2>1. c \in registered \/ fsm[c].state # "InSegment"
    BY Zenon DEF LineInv, QuietInv, QuietTask
  <2>2. IsSession(fsm[c])
    BY Zenon DEF IInv, ShapeInv
  <2>. QED  BY <2>1, <2>2, CloseEmits, Zenon
<1>. HIDE DEF step
<1>4. /\ \A d \in Conn \ {c} : fsm'[d] = fsm[d] /\ evs'[d] = evs[d]
      /\ fsm'[c] = DeadSession /\ evs'[c] = step.events
  BY <1>1, <1>2, Zenon DEF IInv, ShapeInv
<1>5. c \in registered \/ (fsm'[c].state # "InSegment" /\ evs'[c] \in Quiet)
  <2>1. DeadSession.state # "InSegment"
    BY Sessions
  <2>. QED  BY <1>3, <1>4, <2>1, Zenon DEF Quiet
<1>6. pc[c] \in Live
  BY <1>1, Zenon DEF Live
<1>. QED  BY <1>1, <1>2, <1>4, <1>5, <1>6, TaskLines DEF IInv

(* Whoever is past its wait is the first of those with something to export. *)
LEMMA FirstIn ==
  ASSUME ShapeInv, OrderInv, ~abandoned, ~overtaken, NEW c \in registered, pc[c] # "wait", NEW d \in In
  PROVE  c <= d
<1>1. PICK rank \in [Conn -> Nat], top \in Nat : Ordered(rank, top) /\ Numbered(rank)
  BY Zenon DEF OrderInv
<1>2. d \in registered /\ rank[c] = c /\ rank[d] = d /\ rank[d] >= rank[c]
  BY <1>1, Zenon DEF In, Ordered, Numbered
<1>3. c \in Nat /\ d \in Nat
  BY <1>2, Numbers, Zenon DEF ShapeInv
<1>. QED  BY <1>2, <1>3

(* It sends to the end of the queue. *)
LEMMA SendsLast ==
  ASSUME ShapeInv, OrderInv, QueueInv, NEW c \in In, pc[c] # "wait", In' \subseteq In,
         UNCHANGED <<registered, announced, late, abandoned, overtaken>>,
         \A R \in SUBSET Nat, lo \in Nat :
           c \in R /\ lo <= c /\ Lined(items, lo, c, R) => Lined(items', lo, c, R)
  PROVE  QueueInv'
<1>1. CASE abandoned \/ overtaken
  BY <1>1, Zenon DEF QueueInv
<1>2. CASE ~abandoned /\ ~overtaken
  <2>1. InLine
    BY <1>2, Zenon DEF QueueInv
  <2>2. registered \in SUBSET Nat /\ registered \subseteq Conn
    BY Numbers, Zenon DEF ShapeInv
  <2>3. 0 \in Nat
    OBVIOUS
  <2>4. announced \in Nat /\ c \in registered
    BY <2>1, <2>2, <2>3, Zenon DEF InLine, In
  <2>5. announced <= c /\ Lined(items', announced, c, registered)
    BY <2>1, <2>2, <2>4, Zenon DEF InLine
  <2>6. ASSUME NEW d \in Nat, c <= d PROVE Lined(items', announced, d, registered)
    <3>1. c \in Nat /\ registered \subseteq registered
      BY <2>2, <2>4, Zenon
    <3>. QED  BY <2>2, <2>5, <2>6, <3>1, LinedBelow, Zenon
  <2>7. MaxConns \in Nat /\ c <= MaxConns
    BY <2>2, <2>4, Numbers, Zenon
  <2>8. \A d \in In : d \in Nat /\ c <= d
    BY <1>2, <2>2, <2>4, FirstIn, Zenon DEF In
  <2>9. /\ ~late /\ announced \in registered \cup {0}
        /\ \A d \in In : announced <= d
    BY <2>1, Zenon DEF InLine
  <2>10. InLine'
    BY <2>6, <2>7, <2>8, <2>9, Zenon DEF InLine
  <2>. QED  BY <2>10, Zenon DEF QueueInv
<1>. QED  BY <1>1, <1>2, Zenon

LEMMA AnnounceLines ==
  ASSUME IInv, LineInv, NEW c \in Conn, Announce(c) PROVE LineInv'
<1> DEFINE x == [kind |-> "Connected", epoch |-> c]
<1>1. /\ pc[c] = "announce" /\ Goto(c, "spawn") /\ items' = Append(items, x)
      /\ UNCHANGED <<fsm, evs, registered, announced, late, abandoned, overtaken>>
  BY Zenon DEF Announce, taskVars, pipeVars
<1>2. x.epoch = c
  BY ZenonT(30)
<1>. HIDE DEF x
<1>3. c \in registered /\ c \in In /\ pc[c] # "wait"
  BY <1>1 DEF IInv, HelloInv, In, Live
<1>4. pc'[c] = "spawn" /\ \A d \in Conn \ {c} : pc'[d] = pc[d]
  BY <1>1, Zenon DEF IInv, ShapeInv, Goto
<1>5. In' \subseteq In
  BY <1>1, <1>3, <1>4, Zenon DEF In, IInv, ShapeInv
<1>6. QueueInv'
  <2>1. \A R \in SUBSET Nat, lo \in Nat :
          c \in R /\ lo <= c /\ Lined(items, lo, c, R) => Lined(items', lo, c, R)
    BY <1>1, <1>2, LinedAppend, Zenon
  <2>. QED  BY <1>1, <1>3, <1>5, <2>1, SendsLast, Zenon DEF IInv, LineInv
<1>7. EventsInv' /\ QuietInv'
  <2>1. Len(evs'[c]) \in 0..2
    BY <1>1, Zenon DEF LineInv, EventsInv
  <2>. QED  BY <1>1, <1>3, <1>4, <2>1, TaskQuiet, Zenon DEF IInv, LineInv
<1>. QED  BY <1>6, <1>7, Zenon DEF LineInv

(* Of the tasks that process events, the unregistered send nothing. *)
LEMMA ExportsLines ==
  ASSUME IInv, LineInv, NEW c \in Conn, NEW where \in {"read", "close", "deregister"}, Goto(c, where),
         Exports(c), pc[c] \in {"events", "export"}, c \in registered \/ where # "read",
         UNCHANGED <<fsm, registered, announced, late, abandoned, overtaken>>
  PROVE  LineInv'
<1>1. items' = Exported(c, asm[c], items, evs[c]).items /\ evs' = [evs EXCEPT ![c] = <<>>]
  BY Zenon DEF Exports
<1>2. evs'[c] = <<>> /\ \A d \in Conn \ {c} : fsm'[d] = fsm[d] /\ evs'[d] = evs[d]
  BY <1>1, Zenon DEF IInv, ShapeInv
<1>3. Len(evs'[c]) \in 0..2 /\ evs'[c] \in Quiet
  BY <1>2 DEF Quiet
<1>4. pc'[c] = where /\ \A d \in Conn \ {c} : pc'[d] = pc[d]
  BY Zenon DEF IInv, ShapeInv, Goto
<1>5. pc[c] \in Live /\ pc[c] # "wait" /\ where \notin {"off", "events"}
  BY DEF Live
<1>6. CASE c \in registered
  <2>1. c \in In /\ In' \subseteq In
    BY <1>4, <1>5, <1>6, Zenon DEF In, IInv, ShapeInv
  <2>2. Len(evs[c]) \in 0..2
    BY Zenon DEF LineInv, EventsInv
  <2>3. \A R \in SUBSET Nat, lo \in Nat :
          c \in R /\ lo <= c /\ Lined(items, lo, c, R) => Lined(items', lo, c, R)
    BY <1>1, <2>2, LinedExports, Zenon
  <2>4. QueueInv'
    BY <1>5, <2>1, <2>3, SendsLast, Zenon DEF IInv, LineInv
  <2>5. EventsInv' /\ QuietInv'
    BY <1>2, <1>3, <1>4, <1>6, TaskQuiet, Zenon DEF IInv, LineInv
  <2>. QED  BY <2>4, <2>5, Zenon DEF LineInv
<1>7. CASE c \notin registered
  <2>1. evs[c] \in Quiet /\ fsm[c].state # "InSegment"
    BY <1>7, Zenon DEF LineInv, QuietInv, QuietTask
  <2>2. items' = items
    BY <1>1, <2>1, QuietExports
  <2>3. /\ fsm'[c].state # "InSegment" /\ evs'[c] \in Quiet
        /\ where \in {"off", "read"} => fsm'[c].state = "AwaitHello"
        /\ where = "events" => evs'[c] # <<>>
    BY <1>3, <1>5, <1>7, <2>1
  <2>. QED  BY <1>2, <1>3, <1>7, <2>2, <2>3, TaskLines, Zenon DEF IInv
<1>. QED  BY <1>6, <1>7, Zenon

LEMMA ProcessLines ==
  ASSUME IInv, LineInv, NEW c \in Conn, ProcessEvents(c) \/ ExportTail(c) PROVE LineInv'
<1>1. Exports(c) /\ UNCHANGED <<fsm, registered, announced, late, abandoned, overtaken>>
  BY Zenon DEF ProcessEvents, ExportTail, pipeVars
<1>2. CASE ExportTail(c)
  <2>1. pc[c] = "export" /\ Goto(c, "deregister")
    BY <1>2, Zenon DEF ExportTail
  <2>2. "deregister" # "read"
    OBVIOUS
  <2>. QED  BY <1>1, <2>1, <2>2, ExportsLines, Zenon
<1>3. CASE ProcessEvents(c)
  <2>1. /\ pc[c] = "events" /\ Head(evs[c]).type # "HelloAccepted"
        /\ Goto(c, IF Fatal \in Range(evs[c]) THEN "close" ELSE "read")
    BY <1>3, Zenon DEF ProcessEvents, BreakRead
  <2>2. ASSUME c \notin registered PROVE Fatal \in Range(evs[c])
    <3>1. evs[c] \in Quiet /\ evs[c] # <<>>
      BY <2>1, <2>2, Zenon DEF LineInv, QuietInv, QuietTask
    <3>2. \A own : Head(<<HelloAccepted(own)>>).type = "HelloAccepted"
      BY DEF HelloAccepted
    <3>3. evs[c] = <<Fatal>>
      BY <2>1, <3>1, <3>2, Zenon DEF Quiet
    <3>4. 1 \in DOMAIN <<Fatal>> /\ <<Fatal>>[1] = Fatal
      OBVIOUS
    <3>. QED  BY <3>3, <3>4, Zenon DEF Range
  <2>3. CASE Fatal \in Range(evs[c])
    <3>1. Goto(c, "close") /\ "close" # "read"
      BY <2>1, <2>3
    <3>. QED  BY <1>1, <2>1, <3>1, ExportsLines, Zenon
  <2>4. CASE Fatal \notin Range(evs[c])
    <3>1. Goto(c, "read") /\ c \in registered
      BY <2>1, <2>2, <2>4, Zenon
    <3>. QED  BY <1>1, <2>1, <3>1, ExportsLines, Zenon
  <2>. QED  BY <2>3, <2>4, Zenon
<1>. QED  BY <1>2, <1>3, Zenon

(* A hello that is not overtaken comes from a later connection than any task *)
(* before it, and than anything in the queue.                                *)
LEMMA HelloLines ==
  ASSUME IInv, LineInv, NEW c \in Conn, OnHelloAccepted(c) PROVE LineInv'
<1>1. /\ pc[c] = "events" /\ Head(evs[c]).type = "HelloAccepted" /\ evs' = [evs EXCEPT ![c] = <<>>]
      /\ UNCHANGED <<fsm, items, announced, late, abandoned>>
  BY Zenon DEF OnHelloAccepted, pipeVars
<1>2. c \notin registered
  BY <1>1, Zenon DEF IInv, HelloInv
<1>3. evs'[c] = <<>> /\ \A d \in Conn \ {c} : fsm'[d] = fsm[d] /\ evs'[d] = evs[d]
  BY <1>1, Zenon DEF IInv, ShapeInv
<1>4. Len(evs'[c]) \in 0..2 /\ evs'[c] \in Quiet
  BY <1>3 DEF Quiet
<1>5. fsm'[c].state # "InSegment"
  BY <1>1, <1>2, Zenon DEF LineInv, QuietInv, QuietTask
<1>6. CASE ~Head(evs[c]).own
  <2>1. Goto(c, "close") /\ UNCHANGED <<registered, overtaken>>
    BY <1>6, Zenon DEF OnHelloAccepted, BreakRead
  <2>2. "close" \notin {"off", "read"} /\ "close" # "events"
    OBVIOUS
  <2>. QED  BY <1>1, <1>2, <1>3, <1>4, <1>5, <2>1, <2>2, TaskLines, Zenon DEF IInv
<1>7. CASE Head(evs[c]).own
  <2>1. /\ registered' = registered \cup {c} /\ Goto(c, AfterHello(registry))
        /\ overtaken' = (overtaken \/ \E d \in registered : d > c)
    BY <1>7, Zenon DEF OnHelloAccepted
  <2>2. \A d \in Conn \ {c} : pc'[d] = pc[d]
    BY <2>1, Zenon DEF IInv, ShapeInv, Goto
  <2>3. EventsInv' /\ QuietInv'
    BY <1>3, <1>4, <2>1, <2>2, TaskQuiet, Zenon DEF IInv, LineInv
  <2>4. In' \subseteq In \cup {c} /\ registered \subseteq Conn
    BY <2>1, <2>2, Zenon DEF In, IInv, ShapeInv
  <2>5. CASE abandoned \/ overtaken \/ \E d \in registered : d > c
    BY <1>1, <2>1, <2>3, <2>5, Zenon DEF LineInv, QueueInv
  <2>6. CASE ~abandoned /\ ~overtaken /\ ~\E d \in registered : d > c
    <3>1. InLine
      BY <2>6, Zenon DEF LineInv, QueueInv
    <3>2. registered \in SUBSET Nat /\ c \in Nat /\ 0 <= c
      BY <2>4, Numbers, Zenon
    <3>3. \A d \in registered : d <= c
      BY <2>6, <3>2
    <3>4. announced <= c /\ Lined(items, announced, c, registered')
      <4>1. announced <= c
        BY <3>1, <3>2, <3>3, Zenon DEF InLine
      <4>. QED  BY <2>1, <3>1, <3>3, <4>1, Zenon DEF InLine, Lined
    <3>5. Lined(items, announced, MaxConns, registered')
      BY <2>1, <3>1, Zenon DEF InLine, Lined
    <3>6. \A d \in In : announced <= d /\ Lined(items, announced, d, registered')
      BY <2>1, <3>1, Zenon DEF InLine, Lined
    <3>7. ~late /\ announced \in registered' \cup {0}
      BY <2>1, <3>1, Zenon DEF InLine
    <3>8. InLine'
      BY <1>1, <2>4, <3>4, <3>5, <3>6, <3>7, Zenon DEF InLine
    <3>. QED  BY <2>3, <3>8, Zenon DEF LineInv, QueueInv
  <2>. QED  BY <2>5, <2>6, Zenon
<1>. QED  BY <1>6, <1>7, Zenon

(* The pipeline takes the oldest, which is not behind what was announced. *)
LEMMA LinedFrom ==
  ASSUME NEW R \in SUBSET Nat, NEW lo \in Nat, NEW from \in Nat, lo <= from, NEW hi,
         NEW q, Lined(q, from, hi, R)
  PROVE  Lined(q, lo, hi, R)
<1>1. \A i \in DOMAIN q : q[i].epoch \in Nat /\ from <= q[i].epoch /\ q[i].epoch \in R /\ q[i].epoch <= hi
  BY Zenon DEF Lined
<1>2. \A i \in DOMAIN q : lo <= q[i].epoch
  BY <1>1
<1>. QED  BY <1>1, <1>2, Zenon DEF Lined

LEMMA TakesLines ==
  ASSUME IInv, LineInv, PipelineTakes PROVE LineInv'
<1> DEFINE e == Head(items).epoch
<1>1. /\ items # <<>> /\ items' = Tail(items)
      /\ announced' \in {announced, e}
      /\ late' = (late \/ (IsSegment(Head(items)) /\ e < announced))
      /\ UNCHANGED <<pc, fsm, evs, registered, abandoned, overtaken>>
  BY Zenon DEF PipelineTakes, taskVars
<1>2. EventsInv' /\ QuietInv' /\ In' = In
  BY <1>1, Zenon DEF LineInv, EventsInv, QuietInv, QuietTask, In
<1>3. CASE abandoned \/ overtaken
  BY <1>1, <1>2, <1>3, Zenon DEF LineInv, QueueInv
<1>4. CASE ~abandoned /\ ~overtaken
  <2>1. InLine
    BY <1>4, Zenon DEF LineInv, QueueInv
  <2>2. e \in registered /\ announced <= e /\ Lined(items', e, MaxConns, registered)
    BY <1>1, <2>1, LinedTail, Zenon DEF InLine
  <2>3. \A c \in In : e <= c /\ Lined(items', e, c, registered)
    BY <1>1, <2>1, LinedTail, Zenon DEF InLine
  <2>. HIDE DEF e
  <2>4. registered \in SUBSET Nat /\ 0 \in Nat /\ \A c \in In : c \in Nat
    BY Numbers DEF IInv, ShapeInv, In
  <2>5. announced \in Nat /\ e \in Nat
    BY <2>1, <2>2, <2>4, Zenon DEF InLine
  <2>6. ~(e < announced) /\ announced' \in Nat /\ announced' <= e
    BY <1>1, <2>2, <2>5
  <2>7. ~late' /\ announced' \in registered \cup {0}
    BY <1>1, <2>1, <2>2, <2>6, Zenon DEF InLine
  <2>8. Lined(items', announced', MaxConns, registered)
    BY <2>2, <2>4, <2>5, <2>6, LinedFrom, Zenon
  <2>9. ASSUME NEW c \in In PROVE announced' <= c /\ Lined(items', announced', c, registered)
    <3>1. announced' <= c
      BY <2>3, <2>4, <2>5, <2>6
    <3>. QED  BY <2>3, <2>4, <2>5, <2>6, <3>1, LinedFrom, Zenon
  <2>10. InLine'
    BY <1>1, <1>2, <2>7, <2>8, <2>9, Zenon DEF InLine
  <2>. QED  BY <1>2, <2>10, Zenon DEF LineInv, QueueInv
<1>. QED  BY <1>3, <1>4, Zenon

(* What a registered task does outside the queue, and what any task does at  *)
(* its end.                                                                  *)
LEMMA MovesLines ==
  ASSUME IInv, LineInv, NEW c \in Conn,
         \/ ReadFails(c) \/ ReadInterrupted(c) \/ WaitFinished(c) \/ WaitAbandoned(c)
         \/ SpawnWriter(c) \/ Deregister(c) \/ PlaybackDeregister(c) \/ Finish(c)
  PROVE  LineInv'
<1>0. pc[c] \in {"wait", "announce", "spawn"} => c \in registered
  BY Zenon DEF IInv, HelloInv
<1>1. UNCHANGED <<fsm, evs, registered, items, announced, late, overtaken>>
  BY Zenon DEF ReadFails, ReadInterrupted, WaitFinished, WaitAbandoned, SpawnWriter, Deregister,
     PlaybackDeregister, Finish, taskVars, pipeVars
<1>2. abandoned => abandoned'
  BY Zenon DEF ReadFails, ReadInterrupted, WaitFinished, WaitAbandoned, SpawnWriter, Deregister,
     PlaybackDeregister, Finish
<1>3. \E where :
        /\ Goto(c, where)
        /\ c \in registered \/ where \notin {"off", "read", "events"}
        /\ pc[c] \in Live \cup {"wait"} \/ where \notin Live \cup {"wait"} \/ c \notin registered
  <2>1. CASE ReadFails(c) \/ ReadInterrupted(c)
    <3>1. pc[c] = "read" /\ Goto(c, "close")
      BY <2>1, Zenon DEF ReadFails, ReadInterrupted, BreakRead
    <3>. QED  BY <3>1 DEF Live
  <2>2. CASE WaitFinished(c) \/ WaitAbandoned(c)
    <3>1. pc[c] = "wait" /\ (Goto(c, "announce") \/ Goto(c, "close"))
      BY <2>2, Zenon DEF WaitFinished, WaitAbandoned, BreakRead
    <3>. QED  BY <1>0, <3>1
  <2>3. CASE SpawnWriter(c)
    <3>1. pc[c] = "spawn" /\ Goto(c, "read")
      BY <2>3, Zenon DEF SpawnWriter
    <3>. QED  BY <1>0, <3>1 DEF Live
  <2>4. CASE Deregister(c)
    <3>1. Goto(c, "playback_deregister")
      BY <2>4, Zenon DEF Deregister
    <3>. QED  BY <3>1 DEF Live
  <2>5. CASE PlaybackDeregister(c)
    <3>1. Goto(c, "finish")
      BY <2>5, Zenon DEF PlaybackDeregister
    <3>. QED  BY <3>1 DEF Live
  <2>6. CASE Finish(c)
    <3>1. Goto(c, "done")
      BY <2>6, Zenon DEF Finish
    <3>. QED  BY <3>1 DEF Live
  <2>. QED  BY <2>1, <2>2, <2>3, <2>4, <2>5, <2>6, Zenon
<1>. QED  BY <1>1, <1>2, <1>3, TaskGoesOn, Zenon DEF IInv

LEMMA InitLines == Init => LineInv
<1>. SUFFICES ASSUME Init PROVE LineInv
  OBVIOUS
<1>1. EventsInv
  BY DEF Init, EventsInv
<1>2. NewSession.state # "InSegment" /\ NewSession.state = "AwaitHello"
  BY DEF NewSession
<1>3. QuietInv
  BY <1>2, Zenon DEF Init, QuietInv, QuietTask, Quiet
<1>4. \A lo, hi, R : Lined(<<>>, lo, hi, R)
  <2>1. DOMAIN <<>> = {} /\ \A S : <<>> \in Seq(S)
    OBVIOUS
  <2>. QED  BY <2>1, Zenon DEF Lined, IsSeq
<1>5. QueueInv
  BY <1>4, Zenon DEF Init, QueueInv, InLine, In, None
<1>. QED  BY <1>1, <1>3, <1>5, Zenon DEF LineInv

LEMMA NextLines == IInv /\ LineInv /\ [Next]_vars => LineInv'
<1>. SUFFICES ASSUME IInv, LineInv, [Next]_vars PROVE LineInv'
  OBVIOUS
<1>1. CASE PodConnects \/ PipelineTakes
  BY <1>1, PodConnectsLines, TakesLines, Zenon
<1>2. CASE PodSends \/ Shutdown \/ UNCHANGED vars
  <2>1. UNCHANGED <<pc, fsm, evs, registered, items, announced, late, abandoned, overtaken>>
    BY <1>2, Zenon DEF PodSends, Shutdown, vars, podVars, taskVars, pipeVars
  <2>. QED  BY <2>1, Zenon DEF LineInv, EventsInv, QuietInv, QuietTask, QueueInv, InLine, In
<1>3. ASSUME NEW c \in Conn, ReadFrame(c) \/ ReadFails(c) \/ ReadInterrupted(c) \/ TaskRuns(c)
      PROVE  LineInv'
  <2>1. CASE ReadFrame(c) \/ OnHelloAccepted(c) \/ Announce(c)
    BY <2>1, ReadFrameLines, HelloLines, AnnounceLines, Zenon
  <2>2. CASE ProcessEvents(c) \/ ExportTail(c)
    BY <2>2, ProcessLines, Zenon
  <2>3. CASE CloseSession(c)
    BY <2>3, CloseLines, Zenon
  <2>4. CASE \/ ReadFails(c) \/ ReadInterrupted(c) \/ WaitFinished(c) \/ WaitAbandoned(c)
             \/ SpawnWriter(c) \/ Deregister(c) \/ PlaybackDeregister(c) \/ Finish(c)
    BY <2>4, MovesLines, Zenon
  <2>. QED  BY <1>3, <2>1, <2>2, <2>3, <2>4, Zenon DEF TaskRuns
<1>. QED  BY <1>1, <1>2, <1>3, Zenon DEF Next

(* Every segment a connection exports reaches the pipeline before the        *)
(* announcement of any later connection, whatever the number of connections, *)
(* frames and segments, the depth of the lane and the pace of the pipeline,  *)
(* unless a wait was given up or a hello was read after a later one: the     *)
(* place of send_reliable behind the wait is enough for that.                *)
THEOREM TailsPrecedeAnnouncements == Spec => []TailBeforeAnnouncement
<1>1. LineInv => TailBeforeAnnouncement
  BY Zenon DEF LineInv, QueueInv, InLine, TailBeforeAnnouncement
<1>2. Spec => []LineInv
  BY InitLines, NextLines, IngestInvariance, PTL DEF Spec
<1>. QED  BY <1>1, <1>2, PTL

=============================================================================
