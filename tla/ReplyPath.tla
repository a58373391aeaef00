------------------------------- MODULE ReplyPath -------------------------------
(***************************************************************************)
(* How a reply reaches a pod and how a barge-in stops it: the pipeline's   *)
(* dispatch and barge handling (pipeline.rs), the playback router          *)
(* (playback_router.rs), the turn ledger (barge.rs) and the playback       *)
(* writer, for one pod and one connection.                                 *)
(*                                                                         *)
(* The pipeline is one task: it awaits the brain inline, so a barge that   *)
(* is detected meanwhile waits in its queue.  The router is another task,  *)
(* the writer a third.  A playback event is delivered to the ledger in the *)
(* writer's own step.  Commands are the writer's jobs: command c of the    *)
(* speak channel is job c.  Left out: the scripter, the room's other pods, *)
(* a bot's own timing.                                                     *)
(***************************************************************************)
EXTENDS PlaybackWriter, TurnLedger

CONSTANTS Body,             \* Body[c] \in {"text", "pcm"}
          SpeakQueueDepth,
          OpenTurns,        \* turns whose reply asks to keep listening
          MaxBarges         \* bound: barge-ins the listener raises

ASSUME ReplyAssumption ==
  SpeakQueueDepth \in Nat \ {0} /\ MAX_CONTEXT_SEGMENTS \in Nat \ {0}

VARIABLES
  ledger,               \* PodTurns of the pod
  pipe,                 \* the pipeline: [at, turn]
  heard,                \* turns dispatched so far
  sent,                 \* commands offered to the speak channel so far
  speak,                \* the speak channel
  router,               \* [at, cmd]
  barges,               \* BargeIn events waiting in the pipeline's queue
  raised,               \* barge-ins raised so far
  opened,               \* history: capture windows opened per turn
  refused, abandoned,   \* history: commands the speak channel refused, commands
                        \* the router gave up on
  marked,               \* history: turns ever marked interrupted
  passed                \* history: commands taken after their turn was marked,
                        \* and delivered

pathVars == <<pipe, heard, sent, speak, router, barges, raised, refused, abandoned,
              marked, passed>>
vars == <<writerVars, ledger, opened, pathVars>>

TurnCmds(t) == {c \in Job : TurnOf(c) = t}

Init ==
  /\ WriterInit
  /\ ledger = NewPodTurns
  /\ pipe = [at |-> "loop", turn |-> NoTurn] /\ heard = 0 /\ sent = 0
  /\ speak = <<>> /\ router = [at |-> "idle", cmd |-> NoJob]
  /\ barges = 0 /\ raised = 0
  /\ opened = [t \in Turn |-> 0]
  /\ refused = {} /\ abandoned = {} /\ marked = {} /\ passed = {}

Opens(s, t) == opened' = IF ListenOpen(s) THEN [opened EXCEPT ![t] = @ + 1] ELSE opened

-----------------------------------------------------------------------------
(* The pipeline: handle_stt_done's dispatch and end_turn. *)

Dispatch ==
  /\ pipe.at = "loop" /\ heard < Cardinality(Turn)
  /\ heard' = heard + 1
  /\ pipe' = [at |-> "handle", turn |-> heard + 1]
  /\ ledger' = record_dispatch(ledger, heard + 1)
  /\ UNCHANGED <<writerVars, opened, sent, speak, router, barges, raised, refused,
                 abandoned, marked, passed>>

Offer(c) ==
  IF Len(speak) < SpeakQueueDepth
  THEN speak' = Append(speak, c) /\ UNCHANGED refused
  ELSE refused' = refused \cup {c} /\ UNCHANGED speak

(* ResponseSink::try_send: the tap counts the command, then it is queued or
   refused. *)
Reply ==
  /\ pipe.at = "handle" /\ sent < Len(Clip) /\ TurnOf(sent + 1) = pipe.turn
  /\ sent' = sent + 1
  /\ ledger' = record_cmd(ledger, pipe.turn,
                          IF Body[sent + 1] = "text" THEN sent + 1 ELSE NoText)
  /\ Offer(sent + 1)
  /\ UNCHANGED <<writerVars, opened, pipe, heard, router, barges, raised, abandoned,
                 marked, passed>>

EndTurn ==
  /\ pipe.at = "handle"
  /\ sent < Len(Clip) => TurnOf(sent + 1) # pipe.turn
  /\ LET t == pipe.turn open == t \in OpenTurns IN
       /\ ledger' = dispatch_done(ledger, t, open)
       /\ Opens(Done(ledger, t, open), t)
  /\ pipe' = [at |-> "loop", turn |-> NoTurn]
  /\ UNCHANGED <<writerVars, heard, sent, speak, router, barges, raised, refused,
                 abandoned, marked, passed>>

(* The listener raises a barge-in over an interruptible reply (external). *)
RaiseBarge ==
  /\ raised < MaxBarges /\ last_audible.active /\ last_audible.interruptible
  /\ raised' = raised + 1
  /\ barges' = barges + 1
  /\ UNCHANGED <<writerVars, ledger, opened, pipe, heard, sent, speak, router, refused,
                 abandoned, marked, passed>>

(* ListenerEvent::BargeIn: mouth first.  playback_flush holds the registry's lock
   over two calls of the handle: it reads the audible turn ... *)
BargeIn ==
  /\ pipe.at = "loop" /\ barges > 0
  /\ barges' = barges - 1
  /\ pipe' = IF senders /\ current_turn # NoTurn
             THEN [at |-> "flush", turn |-> current_turn] ELSE pipe
  /\ UNCHANGED <<writerVars, ledger, opened, heard, sent, speak, router, raised,
                 refused, abandoned, marked, passed>>

(* ... and asks for a flush of it, which a change in between turns away. *)
BargeFlush ==
  /\ pipe.at = "flush"
  /\ flush(pipe.turn)
  /\ pipe' = IF FlushGranted(pipe.turn) THEN [pipe EXCEPT !.at = "mark"]
             ELSE [at |-> "loop", turn |-> NoTurn]
  /\ UNCHANGED <<ledger, opened, heard, sent, speak, router, barges, raised, refused,
                 abandoned, marked, passed>>

RegistryFree == pipe.at # "flush"

(* ... then throat. *)
BargeMark ==
  /\ pipe.at = "mark"
  /\ ledger' = interrupt(ledger, pipe.turn)
  /\ marked' = marked \cup {pipe.turn}
  /\ pipe' = [at |-> "loop", turn |-> NoTurn]
  /\ UNCHANGED <<writerVars, opened, heard, sent, speak, router, barges, raised,
                 refused, abandoned, passed>>

-----------------------------------------------------------------------------
(* The router. *)

Interrupted(c) == is_interrupted(ledger, TurnOf(c))
Rest == [at |-> "idle", cmd |-> NoJob]

(* abandon: the command is settled unclean. *)
Abandon(c) ==
  /\ ledger' = settle_job(ledger, TurnOf(c), FALSE)
  /\ abandoned' = abandoned \cup {c}
  /\ router' = Rest
  /\ UNCHANGED <<writerVars, opened, pipe, heard, sent, barges, raised, refused,
                 marked, passed>>

Advance(c, at) ==
  /\ router' = [at |-> at, cmd |-> c]
  /\ UNCHANGED <<writerVars, ledger, opened, pipe, heard, sent, barges, raised,
                 refused, abandoned, marked>>

RouteTake ==
  /\ router.at = "idle" /\ speak # <<>>
  /\ speak' = Tail(speak)
  /\ LET c == Head(speak) IN
       IF Interrupted(c) THEN Abandon(c)
       ELSE /\ Advance(c, "synth")
            /\ passed' = IF TurnOf(c) \in marked THEN passed \cup {c} ELSE passed

(* The body is PCM now, and the turn is checked once more. *)
SynthDone ==
  /\ router.at = "synth" /\ ~Interrupted(router.cmd)
  /\ Advance(router.cmd, "deliver") /\ UNCHANGED <<speak, passed>>

SynthDropped ==
  /\ router.at = "synth"      \* the turn was interrupted, or synthesis failed
  /\ Interrupted(router.cmd) \/ Body[router.cmd] = "text"
  /\ Abandon(router.cmd) /\ UNCHANGED speak

Deliver ==
  /\ router.at = "deliver" /\ RegistryFree
  /\ IF senders /\ Accepts
     THEN /\ try_play(router.cmd)
          /\ router' = Rest
          /\ UNCHANGED <<ledger, opened, pipe, heard, sent, barges, raised, refused,
                         abandoned, marked, passed>>
     ELSE Abandon(router.cmd)
  /\ UNCHANGED speak

-----------------------------------------------------------------------------
(* The writer, with fan_out_playback_event as part of its step. *)

NewlyStarted == {j \in Job : started'[j] # started[j]}
NewlyEnded   == {j \in Job : ended'[j] # ended[j]}
Clean(j)     == Last(ended'[j]) = "finished"

SettleEnded(p, j) == settle_job(p, TurnOf(j), Clean(j))

WriterStep ==
  /\ WriterNext
  /\ ledger' =
       IF NewlyStarted # {}
       THEN record_started(ledger, TurnOf(CHOOSE j \in NewlyStarted : TRUE))
       ELSE FoldSet(LAMBDA j, p : SettleEnded(p, j), ledger, NewlyEnded)
  /\ IF \E j \in NewlyEnded : Clean(j) /\ Holds(ledger, TurnOf(j))
     THEN LET t == TurnOf(CHOOSE j \in NewlyEnded : TRUE)
          IN Opens(Settled(ledger.settlement[t], TRUE), t)
     ELSE UNCHANGED opened
  /\ UNCHANGED pathVars

Environment ==
  /\ (DropHandle /\ RegistryFree) \/ Cancel \/ Tick
  /\ UNCHANGED <<ledger, opened, pathVars>>

Next ==
  \/ Dispatch \/ Reply \/ EndTurn \/ RaiseBarge \/ BargeIn \/ BargeFlush \/ BargeMark
  \/ RouteTake \/ SynthDone \/ SynthDropped \/ Deliver
  \/ WriterStep \/ Environment

Spec == Init /\ [][Next]_vars

(* Some task that can run does, a timer that is due fires: no more is assumed of
   the runtime.  New turns, barge-ins and the end of a connection may never come. *)
Runtime ==
  \/ Reply \/ EndTurn \/ BargeIn \/ BargeFlush \/ BargeMark
  \/ RouteTake \/ SynthDone \/ SynthDropped \/ Deliver
  \/ WriterStep \/ (Tick /\ UNCHANGED <<ledger, opened, pathVars>>)

FairSpec == Spec /\ WF_vars(Runtime)

-----------------------------------------------------------------------------
(* The path's state is well typed; the job queue, the speak channel and the
   context chain keep their bounds. *)
TypeOK ==
  /\ WriterTypeOK
  /\ DOMAIN ledger.settlement \subseteq Turn /\ ledger.transcripts \subseteq Turn
  /\ ledger.interrupted \in Turn \cup {NoTurn}
  /\ Len(ledger.chain) <= MAX_CONTEXT_SEGMENTS
  /\ pipe.at \in {"loop", "handle", "flush", "mark"} /\ router.at \in {"idle", "synth", "deliver"}
  /\ Len(speak) <= SpeakQueueDepth /\ refused \cup abandoned \subseteq Job

Over(c)  == ended[c] # <<>> \/ c \in abandoned
Offered(t) == {c \in TurnCmds(t) : c <= sent}

(* The settlement of a turn the ledger holds counts what became of its commands,
   each once; awaiting_start errs in the direction of waiting.  The state is well
   typed and every queue and chain within its bound. *)
SettlementIsTrue ==
  TypeOK /\ \A t \in DOMAIN ledger.settlement :
    LET s == ledger.settlement[t] IN
    /\ s.cmds_sent = Cardinality(Offered(t))
    /\ s.cmds_settled = Cardinality({c \in Offered(t) : Over(c)})
    /\ AwaitingStart(s) >= Cardinality({c \in Offered(t) : started[c] = 0 /\ ~Over(c)})

HeardUnbroken(t) ==
  Offered(t) # {} /\ \A c \in Offered(t) : ended[c] = <<"finished">>

(* A turn completes when all of its reply was heard and nothing cut it: then only
   does dispatch_done or settle_job answer listen_open, once for the turn, and
   settle_check drop the context of the turns interrupted before. *)
CompletesWhenHeard ==
  [][/\ \A t \in Turn : opened'[t] # opened[t] =>
          opened[t] = 0 /\ (HeardUnbroken(t))' /\ t \notin marked
     /\ ledger.chain # <<>> /\ ledger'.chain = <<>> =>
          \E t \in Turn : (HeardUnbroken(t))' /\ t \notin marked]_vars

(* The one interrupted mark of a pod is enough: a command taken by the router after
   its turn was marked is dropped even when another turn has been marked since. *)
OneMarkSuffices == passed = {}

(* Every command the speak channel took is heard, cut, evicted or aborted by the
   writer, or abandoned by the router: none waits for ever on a pacer slot, a stale
   flush target or a writer that died. *)
EveryCommandEnds == <>[](\A c \in (1..sent) \ refused : Over(c))
=============================================================================
