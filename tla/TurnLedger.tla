------------------------------ MODULE TurnLedger ------------------------------
(***************************************************************************)
(* The turn ledger of one pod (speech-surface barge.rs) as operators on    *)
(* its state: every method locks, so each is one step of its caller.       *)
(* Texts are kept as whether they are known (a transcript) or as the       *)
(* command they belong to (a response); the horizon, a wall-clock estimate *)
(* that only the motion scripter reads, is left out.                       *)
(***************************************************************************)
EXTENDS Integers, Sequences, Functions, TLC

CONSTANT MAX_CONTEXT_SEGMENTS

NoUtterance == 0
NoText      == 0

NewSettlement ==
  [cmds_sent |-> 0, cmds_settled |-> 0, all_clean |-> TRUE, dispatch_done |-> FALSE,
   listen |-> FALSE, cmds_started |-> 0, playing |-> 0, settled_unstarted |-> 0]

NewPodTurns ==
  [interrupted |-> NoUtterance, responses |-> <<>>, transcripts |-> {},
   settlement |-> <<>>, chain |-> <<>>]

(* Variant: however they settled. *)
completed(s) == s.dispatch_done /\ s.cmds_sent > 0 /\ s.cmds_settled >= s.cmds_sent

completed_clean(s) ==
  /\ s.dispatch_done /\ s.all_clean
  /\ s.cmds_sent > 0 /\ s.cmds_settled >= s.cmds_sent

AwaitingStart(s) ==
  LET known == s.cmds_started + s.settled_unstarted
  IN IF known > s.cmds_sent THEN 0 ELSE s.cmds_sent - known

ListenOpen(s) == s.listen /\ completed_clean(s)

Holds(p, t) == t \in DOMAIN p.settlement
SettlementOf(p, t) == IF Holds(p, t) THEN p.settlement[t] ELSE NewSettlement
WithSettlement(p, t, s) == [p EXCEPT !.settlement = (t :> s) @@ @]

OnlyTurn(f, t)  == Restrict(f, DOMAIN f \cap {t})
WithoutTurn(f, t) == Restrict(f, DOMAIN f \ {t})

prune_turn(p, t) ==
  [p EXCEPT !.responses = WithoutTurn(@, t), !.transcripts = @ \ {t},
            !.settlement = WithoutTurn(@, t)]

(* A turn dispatched retires every older one. *)
record_dispatch(p, t) ==
  LET q == [p EXCEPT !.responses = OnlyTurn(@, t), !.transcripts = {t},
                     !.settlement = OnlyTurn(@, t)]
  IN WithSettlement(q, t, SettlementOf(q, t))

record_cmd(p, t, text) ==
  LET q == WithSettlement(p, t, [SettlementOf(p, t) EXCEPT !.cmds_sent = @ + 1])
  IN IF text = NoText THEN q ELSE [q EXCEPT !.responses = (t :> text) @@ @]

Completes(p, t) ==
  p.interrupted # t /\ Holds(p, t) /\ completed_clean(p.settlement[t])

settle_check(p, t) ==
  IF Completes(p, t) THEN prune_turn([p EXCEPT !.chain = <<>>], t) ELSE p

(* dispatch_done and settle_job answer from the settlement before settle_check. *)
Done(p, t, open) ==
  [SettlementOf(p, t) EXCEPT !.dispatch_done = TRUE, !.listen = open]

dispatch_done(p, t, open) == settle_check(WithSettlement(p, t, Done(p, t, open)), t)

record_started(p, t) ==
  IF Holds(p, t)
  THEN WithSettlement(p, t, [p.settlement[t] EXCEPT !.cmds_started = @ + 1,
                                                   !.playing = @ + 1])
  ELSE p

(* Variant: a settle with nothing playing is not counted. *)
SettledPlaying(s, clean) ==
  [s EXCEPT !.cmds_settled = IF s.playing > 0 THEN @ + 1 ELSE @, !.all_clean = @ /\ clean,
            !.playing = IF @ > 0 THEN @ - 1 ELSE 0]

Settled(s, clean) ==
  [s EXCEPT !.cmds_settled = @ + 1, !.all_clean = @ /\ clean,
            !.playing = IF @ > 0 THEN @ - 1 ELSE 0,
            !.settled_unstarted = IF s.playing > 0 THEN @ ELSE @ + 1]

settle_job(p, t, clean) ==
  IF Holds(p, t)
  THEN settle_check(WithSettlement(p, t, Settled(p.settlement[t], clean)), t)
  ELSE p

Segment(p, t) ==
  [utterance |-> t, transcript |-> t \in p.transcripts,
   response |-> IF t \in DOMAIN p.responses THEN p.responses[t] ELSE NoText]

(* Drop-oldest. *)
Chained(chain, seg) ==
  Append(IF Len(chain) = MAX_CONTEXT_SEGMENTS THEN Tail(chain) ELSE chain, seg)

(* Variant: the first mark stays. *)
FirstMark(p, t) ==
  prune_turn([p EXCEPT !.chain = Chained(@, Segment(p, t)),
                       !.interrupted = IF @ = NoUtterance THEN t ELSE @], t)

interrupt(p, t) ==
  prune_turn([p EXCEPT !.chain = Chained(@, Segment(p, t)), !.interrupted = t], t)

is_interrupted(p, t) == t # NoUtterance /\ p.interrupted = t
=============================================================================
