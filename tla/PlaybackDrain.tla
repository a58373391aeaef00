---------------------------- MODULE PlaybackDrain -----------------------------
(***************************************************************************)
(* The reachy-pod playback drain thread (playback.rs, PlaybackDrain::pass  *)
(* and run_drain_loop) over the inbound ring, with the streamer thread     *)
(* running beside it.  The pass takes the ring lock several times; each    *)
(* acquisition is one action.  The sound card is external: a write takes   *)
(* some of the frames, underruns and is recovered, or fails for good.      *)
(***************************************************************************)
EXTENDS PlaybackSink, PrerollGate

CONSTANTS WriteUnit,       \* INBOUND_PCM_WRITE_UNIT_BYTES
          PassBudget,      \* DRAIN_BYTES_PER_PASS
          MaxRecoveries    \* MAX_CONSECUTIVE_RECOVERIES

ASSUME DrainAssumption ==
  /\ WriteUnit \in Nat \ {0} /\ PassBudget \in Nat /\ PassBudget >= WriteUnit
  /\ MaxRecoveries \in Nat

VARIABLES
  pc,                \* where the pass stands
  gate,
  acted_generation,
  budget,
  run,               \* the run copied out of the ring
  accepted,          \* bytes of it the device took
  consecutive,       \* RecoveryBudget.consecutive
  last,              \* history: stamp of the byte played last
  inOrder,           \* history: each byte played followed its predecessor
  superseded,        \* history: bytes played that a reset had superseded
  raced              \* history: a reset landed inside a pass

drain == <<pc, gate, acted_generation, budget, run, accepted, consecutive>>
history == <<last, inOrder, superseded, raced>>
vars == <<ring, sink, drain, history>>

NoRun == [bytes |-> <<>>, generation |-> 0, reached_end_of_audio |-> FALSE]

Init ==
  /\ RingInit /\ SinkInit
  /\ pc = "top" /\ gate = ArmBase /\ acted_generation = 0
  /\ budget = 0 /\ run = NoRun /\ accepted = 0 /\ consecutive = 0
  /\ last = 0 /\ inOrder = TRUE /\ superseded = 0 /\ raced = FALSE

-----------------------------------------------------------------------------
(* A byte stream s going to the device after byte l: consecutive bytes,
   except that bytes a reset superseded may be skipped. *)
Follows(s, l) ==
  /\ s[1] > l
  /\ s[1] = l + 1 \/ s[1] <= fence + 1
  /\ \A i \in 1..Len(s)-1 : s[i+1] = s[i] + 1

(* Local state between passes is dead; forget it. *)
EndPass == pc' = "top" /\ budget' = 0 /\ run' = NoRun /\ accepted' = 0

(* A reset is pending. *)
ResetPending == generation # acted_generation

CheckGeneration ==
  /\ pc = "top"
  /\ pc' = IF ResetPending THEN "apply" ELSE "mark"
  /\ UNCHANGED <<ring, gate, acted_generation, budget, run, accepted,
                 consecutive, history>>

DrainReset ==
  /\ pc = "apply"
  /\ ApplyReset
  /\ acted_generation' = generation
  /\ gate' = ArmBase
  /\ pc' = "mark"
  /\ UNCHANGED <<budget, run, accepted, consecutive, history>>

BoundaryAtTail ==
  /\ pc = "mark"
  /\ TakeMarkAtTail
  /\ IF MarkAt(tail) THEN gate' = ArmBase /\ pc' = "top"
                     ELSE pc' = "poll" /\ UNCHANGED gate
  /\ UNCHANGED <<acted_generation, budget, run, accepted, consecutive,
                 history>>

(* note_empty *)
NoteEmpty(g) == IF g.pending \/ ~g.saw_audio THEN ClearAudioSeen(g)
                                             ELSE RearmEscalated(g)

Poll ==
  /\ pc = "poll"
  /\ IF Used = 0
       THEN gate' = NoteEmpty(gate)
       ELSE gate' = Admit(NoteAudioSeen(gate), Used)
  /\ IF Used = 0 \/ gate'.pending
       THEN EndPass
       ELSE pc' = "copy" /\ budget' = PassBudget /\ UNCHANGED <<run, accepted>>
  /\ UNCHANGED <<ring, acted_generation, consecutive, history>>

(* The length one run may have. *)
RunLimit == Min({budget, WriteUnit})

CopyRunInto ==
  /\ pc = "copy"
  /\ LET r == CopyRun(RunLimit)
     IN  IF r.bytes = <<>>
           THEN EndPass
           ELSE pc' = "write" /\ run' = r /\ UNCHANGED <<budget, accepted>>
  /\ UNCHANGED <<ring, gate, acted_generation, consecutive, history>>

(* write_frames took k of the bytes. *)
WriteFrames(k) ==
  /\ pc = "write"
  /\ LET s == SubSeq(run.bytes, 1, k)
     IN  /\ inOrder' = (inOrder /\ Follows(s, last))
         /\ last' = s[k]
         /\ superseded' = superseded
                            + Cardinality({i \in 1..k : s[i] <= fence})
  /\ UNCHANGED raced
  /\ accepted' = k
  /\ consecutive' = 0
  /\ pc' = "advance"
  /\ UNCHANGED <<ring, gate, acted_generation, budget, run>>

(* write_frames failed: RecoveryBudget allows a recovery, or the ceiling is
   spent, or the recovery itself fails; the last two end the drain. *)
WriteUnderrun ==
  /\ pc = "write"
  /\ consecutive < MaxRecoveries
  /\ consecutive' = consecutive + 1
  /\ gate' = RearmEscalated(gate)
  /\ EndPass
  /\ UNCHANGED <<ring, acted_generation, history>>

WriteFatal ==
  /\ pc = "write"
  /\ pc' = "dead"
  /\ UNCHANGED <<ring, gate, acted_generation, budget, run, accepted,
                 consecutive, history>>

(* "Only what the device took is consumed."  The variant consumes the run. *)
WholeRun == Len(run.bytes)
TakenBytes == accepted

AdvanceTail ==
  /\ pc = "advance"
  /\ Advance(TakenBytes)
  /\ LET crossed == MarkAt(WrappingAdd(tail, TakenBytes))
         short   == accepted < Len(run.bytes)
     IN  /\ gate' = IF crossed THEN ArmBase ELSE gate
         /\ IF crossed \/ short \/ budget = accepted
              THEN EndPass
              ELSE /\ pc' = "copy" /\ budget' = budget - accepted
                   /\ UNCHANGED <<run, accepted>>
  /\ UNCHANGED <<acted_generation, consecutive, history>>

(* max_wait_ms passes. *)
FallbackElapses ==
  /\ gate.first_bytes_at = "running"
  /\ gate' = [gate EXCEPT !.first_bytes_at = "elapsed"]
  /\ UNCHANGED <<ring, sink, pc, acted_generation, budget, run, accepted,
                 consecutive, history>>

(* The pass has read the generation and will not read it again. *)
InsidePass == pc \notin {"top", "apply", "dead"}

DrainStep ==
  \/ CheckGeneration \/ DrainReset \/ BoundaryAtTail \/ Poll \/ CopyRunInto
  \/ \E k \in 1..Len(run.bytes) : WriteFrames(k)
  \/ WriteUnderrun \/ WriteFatal \/ AdvanceTail

Next ==
  \/ DrainStep /\ UNCHANGED sink
  \/ /\ SinkStep
     /\ superseded' = IF generation' # generation THEN 0 ELSE superseded
     /\ raced' = (raced \/ (generation' # generation /\ InsidePass))
     /\ UNCHANGED <<drain, last, inOrder>>
  \/ FallbackElapses

Spec == Init /\ [][Next]_vars

(* The drain thread runs, time passes, and a flush that was begun is
   finished.  Nothing is assumed of the host or of the socket. *)
FairSpec ==
  /\ Spec
  /\ WF_vars(DrainStep /\ UNCHANGED sink)
  /\ WF_vars(FallbackElapses)
  /\ WF_vars(FlushMark /\ UNCHANGED <<drain, history>>)

-----------------------------------------------------------------------------
(* Properties *)

TypeOK ==
  /\ RingTypeOK /\ SinkTypeOK
  /\ pc \in {"top", "apply", "mark", "poll", "copy", "write", "advance",
             "dead"}
  /\ gate \in Gate
  /\ acted_generation \in 0..generation
  /\ budget \in 0..PassBudget
  /\ Len(run.bytes) <= WriteUnit /\ accepted \in 0..WriteUnit
  /\ consecutive \in 0..MaxRecoveries
  /\ last \in 0..written /\ superseded \in Nat

(* "Not lost audio", "a short write leaves the rest banked": the device gets
   every banked byte once and in order, through wrap splits, short writes,
   underrun retries, marks pushed mid-pass and resets between passes; only a
   reset skips bytes, and only those banked before it.  A flush or a replaced
   connection silences what was banked before it: at most one pass's worth of
   superseded audio still reaches the device.  (A reset inside a pass is apart:
   pass does not compare the generation of the run it copied.) *)
PlaysInOrder == (raced \/ inOrder) /\ superseded <= PassBudget

(* The ring and the drain stay within their types and bounds; as long as no reset
   lands inside a pass, neither end of the ring overruns the other and what is
   banked is what was written. *)
RingStaysSound == TypeOK /\ (raced \/ (NoOverrun /\ BankedBytesIntact))

(* The fallback "is what makes a short utterance play at all": every banked
   byte is eventually played or dropped by a reset, unless the device failed
   for good (or a reset raced a pass, after which Used no longer counts the
   banked bytes). *)
EveryByteLeaves ==
  \A n \in 1..MaxWritten :
    (written >= n) ~> (consumed >= n \/ pc = "dead" \/ raced)

=============================================================================
