----------------------------- MODULE CaptureDrain -----------------------------
(***************************************************************************)
(* The playback half of the respeaker-pod capture thread (capture.rs): the *)
(* drain loop over the inbound ring, the transmit staging buffer, the DAC  *)
(* mute policy and the tone test, with the streamer thread beside it.      *)
(*                                                                         *)
(* The I2S driver and the codec are external: a non-blocking write takes   *)
(* any part of what is staged while transmit is enabled and nothing while  *)
(* it is disabled; bring-up and unmute may fail.                           *)
(***************************************************************************)
EXTENDS PlaybackSink, PrerollGate

CONSTANTS WriteUnit,    \* INBOUND_PCM_WRITE_UNIT_BYTES
          PassBudget,   \* INBOUND_DRAIN_BYTES_PER_PASS
          MaxTones,     \* bound on tone tests
          MaxFaults     \* bound on codec faults

ASSUME DrainAssumption ==
  /\ WriteUnit \in Nat \ {0} /\ PassBudget \in Nat /\ PassBudget >= WriteUnit
  /\ MaxTones \in Nat /\ MaxFaults \in Nat

VARIABLES
  pc,                \* where the outer loop stands
  gate,
  acted_generation,
  available,         \* the level read at the top of the inner loop
  first_poll,
  drained,           \* drained_bytes_this_iter
  run,               \* the run copied out of the ring
  staged,            \* TxStager: bytes the DMA has not taken yet
  speaker_ready, needs_rebringup, dac_active, mute_armed,
  last_pcm_write,    \* "none", "running", or "elapsed" past the mute delay
  tx_enabled,        \* driver state: transmit channel running
  tones, faults,     \* tone tests and codec faults so far
  last, inOrder, superseded, silenced   \* history

local == <<available, first_poll, drained, run>>
dac   == <<speaker_ready, needs_rebringup, dac_active, mute_armed,
           last_pcm_write, tx_enabled>>
drain == <<pc, gate, acted_generation, local, staged, dac, tones, faults>>
history == <<last, inOrder, superseded, silenced>>
vars == <<ring, sink, drain, history>>

NoRun == [bytes |-> <<>>, generation |-> 0, reached_end_of_audio |-> FALSE]

(* speaker_stream_init at thread start succeeds or fails for good; it leaves
   the codec unmuted but the streaming gate closed. *)
Init ==
  /\ RingInit /\ SinkInit
  /\ pc = "tone" /\ gate = ArmBase /\ acted_generation = 0
  /\ available = 0 /\ first_poll = TRUE /\ drained = 0 /\ run = NoRun
  /\ staged = <<>>
  /\ speaker_ready \in BOOLEAN /\ tx_enabled = speaker_ready
  /\ needs_rebringup = FALSE /\ dac_active = FALSE /\ mute_armed = FALSE
  /\ last_pcm_write = "none"
  /\ tones = 0 /\ faults = 0
  /\ last = 0 /\ inOrder = TRUE /\ superseded = 0 /\ silenced = 0

-----------------------------------------------------------------------------
(* The DMA takes the first k bytes of s, which are then bound to be played;
   bytes taken while the DAC is muted go unheard. *)
DmaTakes(s, k, unmuted) ==
  /\ staged' = SubSeq(s, k + 1, Len(s))
  /\ last' = IF k = 0 THEN last ELSE s[k]
  /\ inOrder' = (inOrder /\ \A i \in 1..k :
                    s[i] > (IF i = 1 THEN last ELSE s[i-1]))
  /\ superseded' = superseded + Cardinality({i \in 1..k : s[i] <= fence})
  /\ silenced' = silenced + (IF unmuted THEN 0 ELSE k)

(* stager.reset.  The variant keeps the residue. *)
ResidueKept == staged
ResidueAfterTone == <<>>

(* Outer loop: a tone test tears transmit down and mutes the DAC.  The staged
   residue is discarded with it. *)
ToneTest ==
  /\ pc = "tone" /\ tones < MaxTones
  /\ tones' = tones + 1
  /\ tx_enabled' = FALSE
  /\ IF speaker_ready
       THEN /\ needs_rebringup' = TRUE /\ dac_active' = FALSE
            /\ last_pcm_write' = "none"
            /\ staged' = ResidueAfterTone
       ELSE UNCHANGED <<needs_rebringup, dac_active, last_pcm_write, staged>>
  /\ pc' = "generation"
  /\ UNCHANGED <<ring, gate, acted_generation, local, speaker_ready,
                 mute_armed, faults, history>>

NoToneTest ==
  /\ pc = "tone"
  /\ pc' = "generation"
  /\ UNCHANGED <<ring, gate, acted_generation, local, staged, dac, tones,
                 faults, history>>

(* Step 0 *)
CheckGeneration ==
  /\ pc = "generation"
  /\ pc' = IF generation # acted_generation THEN "apply" ELSE "residue"
  /\ first_poll' = TRUE /\ drained' = 0
  /\ UNCHANGED <<ring, gate, acted_generation, available, run, staged, dac,
                 tones, faults, history>>

DrainReset ==
  /\ pc = "apply"
  /\ ApplyReset
  /\ acted_generation' = generation
  /\ gate' = ArmBase
  /\ pc' = "residue"
  /\ UNCHANGED <<local, staged, dac, tones, faults, history>>

(* Inner loop: push the residue, then read the level. *)
PushResidue(k) ==
  /\ pc = "residue"
  /\ k <= Len(staged) /\ (k > 0 => tx_enabled)
  /\ DmaTakes(staged, k, dac_active)
  /\ pc' = "available"
  /\ UNCHANGED <<ring, gate, acted_generation, local, dac, tones, faults>>

ReadAvailable ==
  /\ pc = "available"
  /\ available' = Used
  /\ pc' = "mark"
  /\ UNCHANGED <<ring, gate, acted_generation, first_poll, drained, run,
                 staged, dac, tones, faults, history>>

(* should_rearm_preroll *)
should_rearm_preroll(g) == g.saw_audio /\ dac_active /\ ~g.pending

(* First-poll classification: the gate after it. *)
Classified ==
  CASE ~first_poll                     -> gate
    [] first_poll /\ available > 0     -> NoteAudioSeen(gate)
    [] OTHER -> IF staged = <<>> /\ should_rearm_preroll(gate)
                  THEN RearmEscalated(gate) ELSE gate

(* take_mark_at_tail, then the classification, the gate, the residue and the
   budget decide whether to copy a run. *)
BoundaryOrGate ==
  /\ pc = "mark"
  /\ TakeMarkAtTail
  /\ IF MarkAt(tail)
       THEN /\ gate' = ArmBase /\ mute_armed' = TRUE
            /\ pc' = "mute"
            /\ UNCHANGED first_poll
       ELSE /\ UNCHANGED mute_armed
            /\ IF first_poll /\ available = 0
                 THEN gate' = Classified /\ pc' = "mute" /\ UNCHANGED first_poll
                 ELSE /\ first_poll' = FALSE
                      /\ gate' = IF Classified.pending
                                 THEN Admit(Classified, available)
                                 ELSE Classified
                      /\ pc' = IF \/ gate'.pending \/ staged # <<>>
                                  \/ drained >= PassBudget
                               THEN "mute" ELSE "copy"
  /\ UNCHANGED <<acted_generation, available, drained, run, staged,
                 speaker_ready, needs_rebringup, dac_active, last_pcm_write,
                 tx_enabled, tones, faults, history>>

(* The length one run may have. *)
RunLimit == Min({PassBudget - drained, WriteUnit})

(* A reset landed since step 0.  The variant does not look. *)
NeverStale(r) == FALSE
StaleRun(r) == r.generation # acted_generation

(* copy_run_into; a run of another generation is left for apply_reset. *)
CopyRunInto ==
  /\ pc = "copy"
  /\ LET r == CopyRun(RunLimit)
     IN  IF r.bytes = <<>> \/ StaleRun(r)
           THEN pc' = "mute" /\ UNCHANGED run
           ELSE pc' = "commit" /\ run' = r
  /\ UNCHANGED <<ring, gate, acted_generation, available, first_poll, drained,
                 staged, dac, tones, faults, history>>

(* Re-bring-up or resume-unmute fails: the run stays in the ring. *)
CommitFails ==
  /\ pc = "commit" /\ speaker_ready
  /\ faults < MaxFaults
  /\ \/ needs_rebringup /\ UNCHANGED <<needs_rebringup, tx_enabled>>
     \/ ~dac_active /\ needs_rebringup' = FALSE
        /\ tx_enabled' = (tx_enabled \/ needs_rebringup)
  /\ faults' = faults + 1
  /\ run' = NoRun
  /\ pc' = "mute"
  /\ UNCHANGED <<ring, gate, acted_generation, available, first_poll, drained,
                 staged, speaker_ready, dac_active, mute_armed,
                 last_pcm_write, tones, history>>

(* last_pcm_write restarts with every committed run.  The variant times the
   mute from the first one. *)
MuteClockStartedOnce ==
  last_pcm_write' = IF last_pcm_write = "none" THEN "running"
                                               ELSE last_pcm_write
MuteClockRestarted == last_pcm_write' = "running"

(* Re-bring-up and resume-unmute done, stage the run and push; the DMA takes
   k bytes of it. *)
CommitRun(k) ==
  /\ pc = "commit" /\ speaker_ready
  /\ k <= Len(run.bytes)
  /\ needs_rebringup' = FALSE
  /\ tx_enabled' = (tx_enabled \/ needs_rebringup)
  /\ k > 0 => tx_enabled'
  /\ dac_active' = TRUE
  /\ DmaTakes(run.bytes, k, TRUE)
  /\ MuteClockRestarted
  /\ pc' = "advance"
  /\ UNCHANGED <<ring, gate, acted_generation, local, speaker_ready,
                 mute_armed, tones, faults>>

(* No speaker: the run is dropped. *)
DropRun ==
  /\ pc = "commit" /\ ~speaker_ready
  /\ pc' = "advance"
  /\ UNCHANGED <<ring, gate, acted_generation, local, staged, dac, tones,
                 faults, history>>

AdvanceTail ==
  /\ pc = "advance"
  /\ Advance(Len(run.bytes))
  /\ LET boundary == \/ run.reached_end_of_audio
                     \/ MarkAt(WrappingAdd(tail, Len(run.bytes)))
     IN  /\ gate' = IF boundary THEN ArmBase ELSE gate
         /\ mute_armed' = boundary
  /\ drained' = drained + Len(run.bytes)
  /\ run' = NoRun
  /\ pc' = IF staged # <<>> THEN "mute" ELSE "residue"
  /\ UNCHANGED <<acted_generation, available, first_poll, staged,
                 speaker_ready, needs_rebringup, dac_active, last_pcm_write,
                 tx_enabled, tones, faults, history>>

(* The end-of-audio mute, then the rest of the outer loop. *)
EndOfAudioMute ==
  /\ pc = "mute"
  /\ IF dac_active /\ mute_armed /\ last_pcm_write = "elapsed"
       THEN /\ dac_active' = FALSE /\ mute_armed' = FALSE
            /\ last_pcm_write' = "none"
       ELSE UNCHANGED <<dac_active, mute_armed, last_pcm_write>>
  /\ available' = 0 /\ first_poll' = TRUE /\ drained' = 0 /\ run' = NoRun
  /\ pc' = "tone"
  /\ UNCHANGED <<ring, gate, acted_generation, staged, speaker_ready,
                 needs_rebringup, tx_enabled, tones, faults, history>>

(* Time passes.  STREAM_EOA_MUTE_DELAY_MS "comfortably exceeds" what the DMA
   and the staged residue take to play out, so it does not elapse while
   committed audio is still staged. *)
FallbackElapses ==
  /\ gate.first_bytes_at = "running"
  /\ gate' = [gate EXCEPT !.first_bytes_at = "elapsed"]
  /\ UNCHANGED <<ring, sink, pc, acted_generation, local, staged, dac, tones,
                 faults, history>>

MuteDelayElapses ==
  /\ last_pcm_write = "running" /\ staged = <<>>
  /\ last_pcm_write' = "elapsed"
  /\ UNCHANGED <<ring, sink, pc, gate, acted_generation, local, staged,
                 speaker_ready, needs_rebringup, dac_active, mute_armed,
                 tx_enabled, tones, faults, history>>

DrainStep ==
  \/ ToneTest \/ NoToneTest \/ CheckGeneration \/ DrainReset
  \/ \E k \in 0..WriteUnit : PushResidue(k)
  \/ ReadAvailable \/ BoundaryOrGate \/ CopyRunInto \/ CommitFails
  \/ \E k \in 0..WriteUnit : CommitRun(k)
  \/ DropRun \/ AdvanceTail \/ EndOfAudioMute

Next ==
  \/ DrainStep /\ UNCHANGED sink
  \/ /\ SinkStep
     /\ superseded' = IF generation' # generation THEN 0 ELSE superseded
     /\ UNCHANGED <<drain, last, inOrder, silenced>>
  \/ FallbackElapses
  \/ MuteDelayElapses

Spec == Init /\ [][Next]_vars

(* The capture thread runs, time passes, and an enabled DMA that is offered
   bytes again and again takes some of them. *)
FairSpec ==
  /\ Spec
  /\ WF_vars(DrainStep /\ UNCHANGED sink)
  /\ SF_vars((\E k \in 1..WriteUnit : PushResidue(k)) /\ UNCHANGED sink)
  /\ WF_vars(FallbackElapses)
  /\ WF_vars(MuteDelayElapses)

-----------------------------------------------------------------------------
(* Properties *)

TypeOK ==
  /\ RingTypeOK /\ SinkTypeOK
  /\ pc \in {"tone", "generation", "apply", "residue", "available", "mark",
             "copy", "commit", "advance", "mute"}
  /\ gate \in Gate
  /\ acted_generation \in 0..generation
  /\ available \in 0..Cap /\ first_poll \in BOOLEAN
  /\ drained \in 0..PassBudget
  /\ Len(run.bytes) <= WriteUnit /\ Len(staged) <= WriteUnit
  /\ {speaker_ready, needs_rebringup, dac_active, mute_armed, tx_enabled}
       \subseteq BOOLEAN
  /\ last_pcm_write \in {"none", "running", "elapsed"}
  /\ last \in 0..written

(* "tail is not advanced, and apply_reset jumps tail past these stale bytes":
   bytes reach the DMA in the order they were written and never twice, however
   resets, marks, partial DMA writes, codec faults and tone tests interleave;
   neither end of the ring overruns the other, and what is banked is what was
   written.  After a reset at most one write unit of the audio it superseded,
   already copied or staged, still reaches the DMA: the latency of a flush. *)
PlaysInOrder ==
  TypeOK /\ inOrder /\ NoOverrun /\ BankedBytesIntact /\ superseded <= WriteUnit

(* No committed audio is pushed into a muted DAC: the mute waits for the
   stream to end and to be played out, and a tone test discards the residue. *)
NothingSilenced == silenced = 0

(* "A pending residue would strand [re-bring-up] and wedge playback for the
   process lifetime": every banked byte eventually leaves the ring, tone tests
   and codec faults notwithstanding. *)
EveryByteLeaves ==
  \A n \in 1..MaxWritten : (written >= n) ~> (consumed >= n)

=============================================================================
