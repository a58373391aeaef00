-------------------------- MODULE CaptureDrainProofs --------------------------
(***************************************************************************)
(* The respeaker drain for every ring, frame, write unit and pass budget,  *)
(* and for any number of resets, marks, tone tests and codec faults: bytes *)
(* reach the DMA in order and once, a flush lets at most one write unit    *)
(* through, and none of it meets a muted DAC.                              *)
(***************************************************************************)
EXTENDS CaptureDrain, PlaybackRingProofs

-----------------------------------------------------------------------------
(* The inductive invariant *)

Run == [bytes : Seq(Nat), generation : Nat, reached_end_of_audio : BOOLEAN]

LocalInv ==
  /\ pc \in {"tone", "generation", "apply", "residue", "available", "mark",
             "copy", "commit", "advance", "mute"}
  /\ gate \in Gate
  /\ acted_generation \in 0..generation
  /\ available \in 0..Cap /\ first_poll \in BOOLEAN
  /\ drained \in 0..PassBudget
  /\ run \in Run /\ Len(run.bytes) <= WriteUnit
  /\ staged \in Seq(Nat) /\ Len(staged) <= WriteUnit
  /\ superseded \in Nat

DacInv ==
  /\ {speaker_ready, needs_rebringup, dac_active, mute_armed, tx_enabled} \subseteq BOOLEAN
  /\ last_pcm_write \in {"none", "running", "elapsed"}
  /\ staged # <<>> => dac_active /\ last_pcm_write # "elapsed"
  /\ silenced = 0

(* A reset that is pending fences off everything consumed or in hand; one   *)
(* that was applied has nothing left before it.                             *)
FenceInv ==
  /\ generation = acted_generation => fence <= consumed
  /\ generation # acted_generation => consumed + Len(run.bytes) <= fence
  /\ pc = "apply" => generation # acted_generation

(* The run in hand is the next bytes of the ring. *)
RunInv ==
  /\ pc \notin {"commit", "advance"} => run = NoRun
  /\ consumed + Len(run.bytes) <= written
  /\ drained + Len(run.bytes) <= PassBudget
  /\ \A i \in 1..Len(run.bytes) : run.bytes[i] = consumed + i
  /\ pc \in {"copy", "commit"} => staged = <<>>

(* The last byte of the run, once it was handed over. *)
Top == IF pc = "advance" THEN consumed + Len(run.bytes) ELSE consumed

(* What is staged comes after what was played and before what is banked. *)
StagedInv ==
  /\ last \in 0..Top
  /\ \A i \in 1..Len(staged) : last < staged[i] /\ staged[i] <= Top
  /\ \A i, j \in 1..Len(staged) : i < j => staged[i] < staged[j]
  /\ inOrder = TRUE

(* The bytes on their way from the ring to the DMA. *)
Flight == IF pc = "commit" THEN run.bytes ELSE staged

(* Superseded bytes that were played and those still on their way are one  *)
(* write unit together.                                                    *)
LatencyInv ==
  /\ superseded <= WriteUnit
  /\ Flight # <<>> /\ Flight[1] <= fence => superseded + Len(Flight) <= WriteUnit

IInv ==
  /\ RingInv /\ NoOverrun /\ SinkTypeOK
  /\ LocalInv /\ DacInv /\ FenceInv /\ RunInv /\ StagedInv /\ LatencyInv

-----------------------------------------------------------------------------
LEMMA DrainConstants ==
  /\ WriteUnit \in Nat \ {0} /\ PassBudget \in Nat /\ WriteUnit <= PassBudget
  /\ Cap \in Nat \ {0}
BY DrainAssumption, RingConstants, Zenon

LEMMA NoRunIs == NoRun \in Run /\ NoRun.bytes = <<>> /\ Len(NoRun.bytes) = 0
BY DEF NoRun, Run

LEMMA ElementIs == ASSUME NEW t \in Seq(Nat), NEW i \in 1..Len(t) PROVE t[i] \in Nat
OBVIOUS

LEMMA SumStaysWithin ==
  ASSUME NEW a \in Nat, NEW m \in Nat, NEW w \in Nat, NEW k \in 0..m, NEW b \in a..(a + k),
         a + m <= w
  PROVE  b <= w /\ b + (m - k) <= w
OBVIOUS

LEMMA NothingMore == \A d \in 0..PassBudget : d + 0 <= PassBudget
BY DrainConstants

LEMMA Numbers ==
  ASSUME IInv
  PROVE  /\ written \in Nat /\ consumed \in Nat /\ consumed <= written /\ fence \in 0..written
         /\ generation \in Nat /\ acted_generation \in 0..generation
         /\ run \in Run /\ run.bytes \in Seq(Nat) /\ Len(run.bytes) \in Nat
         /\ staged \in Seq(Nat) /\ Len(staged) \in Nat
         /\ superseded \in Nat /\ last \in Nat /\ Top \in Nat /\ drained \in 0..PassBudget
<1>1. /\ written \in Nat /\ consumed \in Nat /\ consumed <= written /\ fence \in 0..written
      /\ generation \in Nat
  BY RingTypes, Zenon DEF IInv
<1>2. run \in Run /\ staged \in Seq(Nat) /\ superseded \in Nat /\ drained \in 0..PassBudget
      /\ acted_generation \in 0..generation
  BY Zenon DEF IInv, LocalInv
<1>3. run.bytes \in Seq(Nat)
  BY <1>2, Zenon DEF Run
<1>4. Len(run.bytes) \in Nat /\ Len(staged) \in Nat
  BY <1>2, <1>3
<1>5. Top \in Nat
  BY <1>1, <1>4 DEF Top
<1>6. last \in 0..Top
  BY Zenon DEF IInv, StagedInv
<1> QED
  BY <1>1, <1>2, <1>3, <1>4, <1>5, <1>6

LEMMA InitHolds == Init => IInv
<1> SUFFICES ASSUME Init PROVE IInv
  OBVIOUS
<1>1. RingInv /\ NoOverrun
  BY RingStarts, Zenon DEF Init
<1>2. SinkTypeOK
  BY Zenon DEF Init, SinkInit, SinkTypeOK
<1>3. generation = 0 /\ fence = 0 /\ consumed = 0 /\ written = 0
  BY Zenon DEF Init, RingInit
<1>4. /\ pc = "tone" /\ gate = ArmBase /\ acted_generation = 0 /\ available = 0
      /\ first_poll = TRUE /\ drained = 0 /\ run = NoRun /\ staged = <<>>
      /\ last = 0 /\ inOrder = TRUE /\ superseded = 0 /\ silenced = 0
  BY Zenon DEF Init
<1>5. LocalInv
  <2>1. gate \in Gate
    BY <1>4, TargetAssumption DEF ArmBase, Gate
  <2>2. run \in Run /\ Len(run.bytes) <= WriteUnit
    BY <1>4, NoRunIs, DrainConstants
  <2>3. staged \in Seq(Nat) /\ Len(staged) <= WriteUnit
    BY <1>4, DrainConstants
  <2>4. available \in 0..Cap /\ drained \in 0..PassBudget /\ acted_generation \in 0..generation
    BY <1>3, <1>4, DrainConstants
  <2> QED
    BY <2>1, <2>2, <2>3, <2>4, <1>4 DEF LocalInv
<1>6. DacInv
  BY Zenon, <1>4 DEF Init, DacInv
<1>7. FenceInv
  BY <1>3, <1>4 DEF FenceInv
<1>8. RunInv
  <2>1. Len(run.bytes) = 0
    BY <1>4, NoRunIs, Zenon
  <2> QED
    BY <2>1, <1>3, <1>4, DrainConstants DEF RunInv
<1>9. StagedInv
  BY <1>3, <1>4 DEF StagedInv, Top
<1>10. LatencyInv
  BY <1>4, DrainConstants DEF LatencyInv, Flight
<1> QED
  BY <1>1, <1>2, <1>5, <1>6, <1>7, <1>8, <1>9, <1>10 DEF IInv

-----------------------------------------------------------------------------
(* Handing bytes over *)

(* Bytes in order that come after everything played: what the DMA takes of  *)
(* them is played in order, what it leaves still comes after.               *)
LEMMA DmaTakesKeeps ==
  ASSUME NEW s \in Seq(Nat), NEW k \in 0..Len(s), NEW u \in BOOLEAN,
         last \in Nat, superseded \in Nat, fence \in Nat, silenced = 0, inOrder = TRUE,
         \A i \in 1..Len(s) : last < s[i],
         \A i, j \in 1..Len(s) : i < j => s[i] < s[j],
         k > 0 => u,
         DmaTakes(s, k, u)
  PROVE  /\ staged' \in Seq(Nat) /\ Len(staged') = Len(s) - k
         /\ \A i \in 1..Len(staged') : staged'[i] = s[i + k]
         /\ last' = IF k = 0 THEN last ELSE s[k]
         /\ inOrder' = TRUE /\ silenced' = 0
         /\ superseded' \in superseded..(superseded + k)
         /\ (s # <<>> => s[1] > fence) => superseded' = superseded
<1>1. Len(s) \in Nat /\ k \in Nat /\ k <= Len(s) /\ \A i \in 1..Len(s) : s[i] \in Nat
  OBVIOUS
<1>2. staged' = SubSeq(s, k + 1, Len(s))
  BY Zenon DEF DmaTakes
<1>3. /\ staged' \in Seq(Nat) /\ Len(staged') = Len(s) - k
      /\ \A i \in 1..Len(staged') : staged'[i] = s[i + k]
  <2>1. CASE k = Len(s)
    <3>1. staged' = <<>>
      BY <2>1, <1>1, <1>2
    <3> QED
      BY <3>1, <2>1, <1>1
  <2>2. CASE k < Len(s)
    BY <2>2, <1>1, <1>2
  <2> QED
    BY <2>1, <2>2, <1>1
<1>4. inOrder' = TRUE
  <2>1. ASSUME NEW i \in 1..k PROVE s[i] > (IF i = 1 THEN last ELSE s[i - 1])
    <3>1. i \in 1..Len(s)
      BY <1>1
    <3>2. CASE i = 1
      BY <3>1, <3>2, <1>1
    <3>3. CASE i # 1
      <4>1. i - 1 \in 1..Len(s) /\ i - 1 < i
        BY <3>1, <3>3, <1>1
      <4> QED
        BY <4>1, <3>1, <3>3, <1>1, Zenon
    <3> QED
      BY <3>2, <3>3
  <2> QED
    BY Zenon, <2>1 DEF DmaTakes
<1>5. silenced' = 0
  BY <1>1 DEF DmaTakes
<1> DEFINE S == {i \in 1..k : s[i] <= fence}
<1>6. superseded' = superseded + Cardinality(S)
  BY Zenon DEF DmaTakes
<1>7. Cardinality(S) \in 0..k
  <2>1. IsFiniteSet(1..k) /\ Cardinality(1..k) = k
    <3>1. 1 \in Int /\ k \in Int
      BY <1>1
    <3>2. IsFiniteSet(1..k) /\ Cardinality(1..k) = IF 1 > k THEN 0 ELSE k - 1 + 1
      BY <3>1, FS_Interval, Zenon
    <3> QED
      BY <3>2, <1>1
  <2>2. S \subseteq 1..k
    OBVIOUS
  <2> HIDE DEF S
  <2>3. IsFiniteSet(S) /\ Cardinality(S) <= Cardinality(1..k)
    BY Zenon, <2>1, <2>2, FS_Subset
  <2>4. Cardinality(S) \in Nat
    BY <2>3, FS_CardinalityType, Zenon
  <2> QED
    BY <2>1, <2>3, <2>4, <1>1
<1>8. ASSUME s # <<>> => s[1] > fence PROVE Cardinality(S) = 0
  <2>1. ASSUME NEW i \in 1..k PROVE ~(s[i] <= fence)
    <3>1. i \in 1..Len(s) /\ 1 \in 1..Len(s) /\ s # <<>>
      BY <1>1
    <3>2. CASE i = 1
      BY <3>1, <3>2, <1>1, <1>8
    <3>3. CASE i # 1
      <4>1. 1 < i
        BY <3>3
      <4>2. s[1] < s[i] /\ s[1] > fence /\ s[1] \in Nat /\ s[i] \in Nat
        BY <4>1, <3>1, <1>1, <1>8
      <4> QED
        BY <4>2
    <3> QED
      BY <3>2, <3>3, Zenon
  <2>2. S = {}
    BY <2>1, Zenon
  <2> QED
    BY Zenon, <2>2, FS_EmptySet
<1> HIDE DEF S
<1>9. superseded' \in superseded..(superseded + k)
  BY <1>1, <1>6, <1>7
<1>10. (s # <<>> => s[1] > fence) => superseded' = superseded
  BY <1>6, <1>8
<1>11. last' = IF k = 0 THEN last ELSE s[k]
  BY Zenon DEF DmaTakes
<1> QED
  BY <1>3, <1>4, <1>5, <1>9, <1>10, <1>11


-----------------------------------------------------------------------------
(* Steps that hand nothing over and leave both ends of the ring where they  *)
(* are: the run is kept or let go, the residue is kept or discarded.        *)
LEMMA QuietStep ==
  ASSUME IInv, RingInv', NoOverrun', SinkTypeOK',
         UNCHANGED <<generation, written, consumed, fence, acted_generation,
                     last, inOrder, superseded, silenced>>,
         pc' \in {"tone", "generation", "apply", "residue", "available", "mark",
                  "copy", "commit", "advance", "mute"},
         gate' \in Gate, available' \in 0..Cap, first_poll' \in BOOLEAN,
         drained' \in 0..PassBudget,
         {speaker_ready', needs_rebringup', dac_active', mute_armed', tx_enabled'}
           \subseteq BOOLEAN,
         last_pcm_write' \in {"none", "running", "elapsed"},
         staged' = staged \/ staged' = <<>>,
         staged' # <<>> => dac_active' /\ last_pcm_write' # "elapsed",
         pc' = "apply" => generation # acted_generation,
         run' = run \/ run' = NoRun,
         drained' = drained \/ run' = NoRun,
         pc' \notin {"commit", "advance"} => run' = NoRun,
         pc' \in {"copy", "commit"} => staged' = <<>>,
         pc' = "commit" => pc = "commit" /\ run' = run,
         pc = "advance" => pc' = "advance" /\ run' = run
  PROVE  IInv'
<1>0. /\ written \in Nat /\ consumed \in Nat /\ consumed <= written /\ fence \in 0..written
      /\ generation \in Nat /\ acted_generation \in 0..generation
      /\ run \in Run /\ run.bytes \in Seq(Nat) /\ Len(run.bytes) \in Nat
      /\ staged \in Seq(Nat) /\ Len(staged) \in Nat
      /\ superseded \in Nat /\ last \in Nat /\ Top \in Nat
  BY Numbers, Zenon
<1>1. run' \in Run /\ Len(run'.bytes) <= Len(run.bytes) /\ Len(run'.bytes) \in Nat
      /\ (run' # run => Len(run'.bytes) = 0)
  <2>1. CASE run' = run
    BY <2>1, <1>0
  <2>2. CASE run' = NoRun
    <3>1. run'.bytes = <<>> /\ run' \in Run
      BY <2>2, NoRunIs, Zenon
    <3> QED
      BY <3>1, <1>0
  <2> QED
    BY <2>1, <2>2, Zenon
<1>2. staged' \in Seq(Nat) /\ Len(staged') <= Len(staged) /\ Len(staged') \in Nat
  <2>1. CASE staged' = staged
    BY <2>1, <1>0
  <2>2. CASE staged' = <<>>
    <3>1. Len(staged') = 0 /\ staged' \in Seq(Nat)
      BY <2>2
    <3> QED
      BY <3>1, <1>0
  <2> QED
    BY <2>1, <2>2, Zenon
<1>3. LocalInv'
  <2>1. Len(run'.bytes) <= WriteUnit
    <3>1. Len(run.bytes) <= WriteUnit
      BY Zenon DEF IInv, LocalInv
    <3> QED
      BY <3>1, <1>0, <1>1, DrainConstants
  <2>2. Len(staged') <= WriteUnit
    <3>1. Len(staged) <= WriteUnit
      BY Zenon DEF IInv, LocalInv
    <3> QED
      BY <3>1, <1>0, <1>2, DrainConstants
  <2>3. acted_generation' \in 0..generation' /\ superseded' \in Nat
    BY <1>0, Zenon
  <2> QED
    BY <2>1, <2>2, <2>3, <1>1, <1>2, Zenon DEF LocalInv
<1>4. DacInv'
  BY Zenon DEF IInv, DacInv
<1>5. FenceInv'
  <2>1. generation' = acted_generation' => fence' <= consumed'
    BY Zenon DEF IInv, FenceInv
  <2>2. generation' # acted_generation' => consumed' + Len(run'.bytes) <= fence'
    <3>1. generation # acted_generation => consumed + Len(run.bytes) <= fence
      BY Zenon DEF IInv, FenceInv
    <3> QED
      BY <3>1, <1>0, <1>1
  <2> QED
    BY <2>1, <2>2, Zenon DEF FenceInv
<1>6. RunInv'
  <2>1. consumed + Len(run.bytes) <= written /\ drained + Len(run.bytes) <= PassBudget
    BY Zenon DEF IInv, RunInv
  <2>2. consumed' + Len(run'.bytes) <= written'
    BY <2>1, <1>0, <1>1
  <2>3. drained' + Len(run'.bytes) <= PassBudget
    <3>1. CASE run' = NoRun
      <4>1. Len(run'.bytes) = 0
        BY <3>1, NoRunIs, Zenon
      <4> QED
        BY <4>1, NothingMore, Zenon
    <3>2. CASE run' # NoRun
      <4>1. run' = run /\ drained' = drained
        BY <3>2, Zenon
      <4> QED
        BY <4>1, <2>1, Zenon
    <3> QED
      BY <3>1, <3>2, Zenon
  <2>4. \A i \in 1..Len(run'.bytes) : run'.bytes[i] = consumed' + i
    <3>1. CASE run' = run
      BY <3>1, Zenon DEF IInv, RunInv
    <3>2. CASE run' # run
      BY <3>2, <1>1
    <3> QED
      BY <3>1, <3>2, Zenon
  <2> QED
    BY <2>2, <2>3, <2>4 DEF RunInv
<1>7. StagedInv'
  <2>1. /\ last \in 0..Top /\ inOrder = TRUE
        /\ \A i \in 1..Len(staged) : last < staged[i] /\ staged[i] <= Top
        /\ \A i, j \in 1..Len(staged) : i < j => staged[i] < staged[j]
    BY Zenon DEF IInv, StagedInv
  <2>2. Top' \in Nat /\ Top <= Top'
    BY <1>0, <1>1 DEF Top
  <2>3. last' \in 0..Top'
    BY <2>1, <2>2, <1>0
  <2>4. CASE staged' = <<>>
    BY <2>1, <2>3, <2>4 DEF StagedInv
  <2>5. CASE staged' = staged
    <3>1. ASSUME NEW i \in 1..Len(staged) PROVE last < staged[i] /\ staged[i] <= Top'
      <4>1. staged[i] \in Nat
        BY <1>0, ElementIs, Zenon
      <4>2. last < staged[i] /\ staged[i] <= Top
        BY <2>1, Zenon
      <4> QED
        BY <4>1, <4>2, <2>2, <1>0
    <3> QED
      BY <3>1, <2>1, <2>3, <2>5, Zenon DEF StagedInv
  <2> QED
    BY <2>4, <2>5, Zenon
<1>8. LatencyInv'
  <2>1. Flight' = <<>> \/ Flight' = Flight
    <3>1. pc = "commit" => staged = <<>>
      BY Zenon DEF IInv, RunInv
    <3> QED
      BY <3>1, Zenon DEF Flight
  <2> QED
    BY <2>1, Zenon DEF IInv, LatencyInv
<1> QED
  BY <1>3, <1>4, <1>5, <1>6, <1>7, <1>8 DEF IInv


-----------------------------------------------------------------------------
(* The quiet actions *)

LEMMA SinkRests == SinkTypeOK /\ UNCHANGED sink => SinkTypeOK'
BY Zenon DEF SinkTypeOK, sink

LEMMA RingRests == RingInv /\ NoOverrun /\ UNCHANGED ring => RingInv' /\ NoOverrun'
BY Zenon DEF RingInv, RingTypeOK, NoOverrun, ring

LEMMA Locals ==
  ASSUME IInv
  PROVE  /\ RingInv /\ NoOverrun /\ SinkTypeOK
         /\ pc \in {"tone", "generation", "apply", "residue", "available", "mark",
                    "copy", "commit", "advance", "mute"}
         /\ gate \in Gate /\ available \in 0..Cap /\ first_poll \in BOOLEAN
         /\ drained \in 0..PassBudget /\ 0 \in 0..PassBudget /\ 0 \in 0..Cap
         /\ {speaker_ready, needs_rebringup, dac_active, mute_armed, tx_enabled}
              \subseteq BOOLEAN
         /\ last_pcm_write \in {"none", "running", "elapsed"}
         /\ (staged # <<>> => dac_active /\ last_pcm_write # "elapsed")
         /\ (pc \notin {"commit", "advance"} => run = NoRun)
         /\ (pc \in {"copy", "commit"} => staged = <<>>)
         /\ (pc = "apply" => generation # acted_generation)
<1>1. 0 \in 0..PassBudget /\ 0 \in 0..Cap
  BY DrainConstants
<1> QED
  BY <1>1, Zenon DEF IInv, LocalInv, DacInv, FenceInv, RunInv

LEMMA ToneTestKeeps ==
  ASSUME IInv, ToneTest, UNCHANGED sink PROVE IInv'
<1>1. RingInv' /\ NoOverrun' /\ SinkTypeOK'
  BY Locals, RingRests, SinkRests, Zenon DEF ToneTest
<1>2. UNCHANGED <<generation, written, consumed, fence, acted_generation,
                  last, inOrder, superseded, silenced, gate, available, first_poll, drained, run>>
  BY Zenon DEF ToneTest, ring, local, history
<1>3. staged' = staged \/ staged' = <<>>
  BY Zenon DEF ToneTest, ResidueAfterTone
<1>4. pc = "tone" /\ pc' = "generation"
  BY Zenon DEF ToneTest
<1>5. {speaker_ready', needs_rebringup', dac_active', mute_armed', tx_enabled'} \subseteq BOOLEAN
  BY Zenon, Locals DEF ToneTest
<1>6. /\ last_pcm_write' \in {"none", "running", "elapsed"}
      /\ staged' # <<>> => dac_active' /\ last_pcm_write' # "elapsed"
  BY Locals, Zenon DEF ToneTest, ResidueAfterTone
<1> QED
  BY <1>1, <1>2, <1>3, <1>4, <1>5, <1>6, Locals, QuietStep

LEMMA NoToneTestKeeps ==
  ASSUME IInv, NoToneTest, UNCHANGED sink PROVE IInv'
<1>1. RingInv' /\ NoOverrun' /\ SinkTypeOK'
  BY Locals, RingRests, SinkRests, Zenon DEF NoToneTest
<1>2. UNCHANGED <<generation, written, consumed, fence, acted_generation, last, inOrder,
                  superseded, silenced, gate, available, first_poll, drained, run, staged,
                  speaker_ready, needs_rebringup, dac_active, mute_armed, last_pcm_write,
                  tx_enabled>>
  BY Zenon DEF NoToneTest, ring, local, history, dac
<1>3. pc = "tone" /\ pc' = "generation"
  BY Zenon DEF NoToneTest
<1> QED
  BY <1>1, <1>2, <1>3, Locals, QuietStep

LEMMA CheckGenerationKeeps ==
  ASSUME IInv, CheckGeneration, UNCHANGED sink PROVE IInv'
<1>1. RingInv' /\ NoOverrun' /\ SinkTypeOK'
  BY Locals, RingRests, SinkRests, Zenon DEF CheckGeneration
<1>2. UNCHANGED <<generation, written, consumed, fence, acted_generation, last, inOrder,
                  superseded, silenced, gate, available, run, staged,
                  speaker_ready, needs_rebringup, dac_active, mute_armed, last_pcm_write,
                  tx_enabled>>
  BY Zenon DEF CheckGeneration, ring, history, dac
<1>3. /\ pc = "generation" /\ pc' \in {"apply", "residue"}
      /\ pc' = "apply" => generation # acted_generation
      /\ first_poll' = TRUE /\ drained' = 0
  BY Zenon DEF CheckGeneration
<1> QED
  BY <1>1, <1>2, <1>3, Locals, QuietStep

LEMMA ReadAvailableKeeps ==
  ASSUME IInv, ReadAvailable, UNCHANGED sink PROVE IInv'
<1>1. RingInv' /\ NoOverrun' /\ SinkTypeOK'
  BY Locals, RingRests, SinkRests, Zenon DEF ReadAvailable
<1>2. UNCHANGED <<generation, written, consumed, fence, acted_generation, last, inOrder,
                  superseded, silenced, gate, first_poll, drained, run, staged,
                  speaker_ready, needs_rebringup, dac_active, mute_armed, last_pcm_write,
                  tx_enabled>>
  BY Zenon DEF ReadAvailable, ring, history, dac
<1>3. pc = "available" /\ pc' = "mark" /\ available' = Used
  BY Zenon DEF ReadAvailable
<1>4. Used \in 0..Cap
  <2>1. Used = written - consumed
    BY Locals, UsedIs, Zenon
  <2>2. NoOverrun
    BY Locals, Zenon
  <2> QED
    BY <2>1, <2>2, Numbers, DrainConstants DEF NoOverrun
<1> QED
  BY <1>1, <1>2, <1>3, <1>4, Locals, QuietStep

LEMMA BoundaryOrGateKeeps ==
  ASSUME IInv, BoundaryOrGate, UNCHANGED sink PROVE IInv'
<1>1. RingInv' /\ NoOverrun' /\ SinkTypeOK'
  <2>1. TakeMarkAtTail
    BY Zenon DEF BoundaryOrGate
  <2> QED
    BY <2>1, Locals, TakeMarkKeeps, SinkRests, Zenon
<1>2. UNCHANGED <<generation, written, consumed, fence, acted_generation, last, inOrder,
                  superseded, silenced, available, drained, run, staged,
                  speaker_ready, needs_rebringup, dac_active, last_pcm_write, tx_enabled>>
  BY Zenon DEF BoundaryOrGate, TakeMarkAtTail, history
<1>3. pc = "mark" /\ pc' \in {"mute", "copy"} /\ (pc' = "copy" => staged = <<>>)
  BY Zenon DEF BoundaryOrGate
<1>4. first_poll' \in BOOLEAN /\ mute_armed' \in BOOLEAN
  BY Zenon, Locals DEF BoundaryOrGate
<1>5. gate' \in Gate
  <2>1. available \in Nat
    BY Locals
  <2>2. Classified \in Gate
    BY Zenon, <2>1, Locals, GateKeeps DEF Classified
  <2>3. ArmBase \in Gate /\ Admit(Classified, available) \in Gate
    BY Zenon, <2>1, <2>2, GateKeeps
  <2> QED
    BY <2>2, <2>3, Zenon DEF BoundaryOrGate
<1> QED
  BY <1>1, <1>2, <1>3, <1>4, <1>5, Locals, QuietStep


LEMMA CommitFailsKeeps ==
  ASSUME IInv, CommitFails, UNCHANGED sink PROVE IInv'
<1>1. RingInv' /\ NoOverrun' /\ SinkTypeOK'
  BY Locals, RingRests, SinkRests, Zenon DEF CommitFails
<1>2. UNCHANGED <<generation, written, consumed, fence, acted_generation, last, inOrder,
                  superseded, silenced, gate, available, first_poll, drained, staged,
                  speaker_ready, dac_active, mute_armed, last_pcm_write>>
  BY Zenon DEF CommitFails, ring, history
<1>3. pc = "commit" /\ pc' = "mute" /\ run' = NoRun
  BY Zenon DEF CommitFails
<1>4. needs_rebringup' \in BOOLEAN /\ tx_enabled' \in BOOLEAN
  BY Zenon, Locals DEF CommitFails
<1> QED
  BY <1>1, <1>2, <1>3, <1>4, Locals, QuietStep, Zenon

LEMMA DropRunKeeps ==
  ASSUME IInv, DropRun, UNCHANGED sink PROVE IInv'
<1>1. RingInv' /\ NoOverrun' /\ SinkTypeOK'
  BY Locals, RingRests, SinkRests, Zenon DEF DropRun
<1>2. UNCHANGED <<generation, written, consumed, fence, acted_generation, last, inOrder,
                  superseded, silenced, gate, available, first_poll, drained, run, staged,
                  speaker_ready, needs_rebringup, dac_active, mute_armed, last_pcm_write,
                  tx_enabled>>
  BY Zenon DEF DropRun, ring, local, history, dac
<1>3. pc = "commit" /\ pc' = "advance"
  BY Zenon DEF DropRun
<1> QED
  BY <1>1, <1>2, <1>3, Locals, QuietStep

LEMMA EndOfAudioMuteKeeps ==
  ASSUME IInv, EndOfAudioMute, UNCHANGED sink PROVE IInv'
<1>1. RingInv' /\ NoOverrun' /\ SinkTypeOK'
  BY Locals, RingRests, SinkRests, Zenon DEF EndOfAudioMute
<1>2. UNCHANGED <<generation, written, consumed, fence, acted_generation, last, inOrder,
                  superseded, silenced, gate, staged, speaker_ready, needs_rebringup,
                  tx_enabled>>
  BY Zenon DEF EndOfAudioMute, ring, history
<1>3. /\ pc = "mute" /\ pc' = "tone" /\ run' = NoRun
      /\ available' = 0 /\ first_poll' = TRUE /\ drained' = 0
  BY Zenon DEF EndOfAudioMute
<1>4. /\ dac_active' \in BOOLEAN /\ mute_armed' \in BOOLEAN
      /\ last_pcm_write' \in {"none", "running", "elapsed"}
  BY Zenon, Locals DEF EndOfAudioMute
<1>5. staged' # <<>> => dac_active' /\ last_pcm_write' # "elapsed"
  BY Locals, <1>2, Zenon DEF EndOfAudioMute
<1> QED
  BY <1>1, <1>2, <1>3, <1>4, <1>5, Locals, QuietStep

LEMMA FallbackElapsesKeeps ==
  ASSUME IInv, FallbackElapses PROVE IInv'
<1>1. RingInv' /\ NoOverrun' /\ SinkTypeOK'
  BY Locals, RingRests, SinkRests, Zenon DEF FallbackElapses
<1>2. UNCHANGED <<generation, written, consumed, fence, acted_generation, last, inOrder,
                  superseded, silenced, pc, available, first_poll, drained, run, staged,
                  speaker_ready, needs_rebringup, dac_active, mute_armed, last_pcm_write,
                  tx_enabled>>
  BY Zenon DEF FallbackElapses, ring, local, history, dac
<1>3. gate' \in Gate
  <2>1. gate' = [gate EXCEPT !.first_bytes_at = "elapsed"]
    BY Zenon DEF FallbackElapses
  <2>2. gate \in Gate /\ 0 \in Nat
    BY Locals, Zenon
  <2> QED
    BY <2>1, <2>2, GateKeeps, Zenon
<1> QED
  BY <1>1, <1>2, <1>3, Locals, QuietStep

LEMMA MuteDelayElapsesKeeps ==
  ASSUME IInv, MuteDelayElapses PROVE IInv'
<1>1. RingInv' /\ NoOverrun' /\ SinkTypeOK'
  BY Locals, RingRests, SinkRests, Zenon DEF MuteDelayElapses
<1>2. UNCHANGED <<generation, written, consumed, fence, acted_generation, last, inOrder,
                  superseded, silenced, pc, gate, available, first_poll, drained, run, staged,
                  speaker_ready, needs_rebringup, dac_active, mute_armed, tx_enabled>>
  BY Zenon DEF MuteDelayElapses, ring, local, history
<1>3. last_pcm_write' = "elapsed" /\ staged = <<>>
  BY Zenon DEF MuteDelayElapses
<1> QED
  BY <1>1, <1>2, <1>3, Locals, QuietStep

-----------------------------------------------------------------------------
(* A run is copied out of the ring: the bytes that come next, of the        *)
(* generation the drain has acted on.                                       *)
LEMMA RunLimitIs ==
  ASSUME IInv
  PROVE  RunLimit \in Nat /\ RunLimit <= WriteUnit /\ drained + RunLimit <= PassBudget
<1>0. drained \in 0..PassBudget
  BY Numbers, Zenon
<1> DEFINE a == PassBudget - drained
<1>1. a \in Nat /\ drained + a = PassBudget
  BY <1>0, DrainConstants
<1>2. RunLimit = Min({a, WriteUnit})
  BY Zenon DEF RunLimit
<1> HIDE DEF a
<1>3. {a, WriteUnit} \in SUBSET Int /\ a \in {a, WriteUnit} /\ WriteUnit \in {a, WriteUnit}
  BY <1>1, DrainConstants
<1>4. CASE a <= WriteUnit
  <2>1. \A y \in {a, WriteUnit} : a <= y
    BY <1>1, <1>4, DrainConstants
  <2>2. RunLimit = a
    BY Zenon, <2>1, <1>2, <1>3, MinOf
  <2> QED
    BY <2>2, <1>0, <1>1, <1>4, DrainConstants
<1>5. CASE ~(a <= WriteUnit)
  <2>1. \A y \in {a, WriteUnit} : WriteUnit <= y
    BY <1>1, <1>5, DrainConstants
  <2>2. RunLimit = WriteUnit
    BY Zenon, <2>1, <1>2, <1>3, MinOf
  <2> QED
    BY <2>2, <1>0, <1>1, <1>5, DrainConstants
<1> QED
  BY <1>4, <1>5, Zenon

LEMMA CopyRunIntoKeeps ==
  ASSUME IInv, CopyRunInto, UNCHANGED sink PROVE IInv'
<1> DEFINE r == CopyRun(RunLimit)
<1>0. UNCHANGED <<ring, gate, acted_generation, available, first_poll, drained,
                  staged, dac, tones, faults, history>> /\ pc = "copy"
  BY Zenon DEF CopyRunInto
<1>1. RingInv' /\ NoOverrun' /\ SinkTypeOK'
  BY <1>0, Locals, RingRests, SinkRests, Zenon
<1>2. UNCHANGED <<generation, written, consumed, fence, acted_generation, last, inOrder,
                  superseded, silenced, gate, available, first_poll, drained, staged,
                  speaker_ready, needs_rebringup, dac_active, mute_armed, last_pcm_write,
                  tx_enabled>>
  BY <1>0, Zenon DEF ring, history, dac
<1>3. \/ pc' = "mute" /\ run' = run
      \/ pc' = "commit" /\ run' = r /\ r.bytes # <<>> /\ ~StaleRun(r)
  BY Zenon DEF CopyRunInto
<1>4. CASE pc' = "mute" /\ run' = run
  BY <1>0, <1>1, <1>2, <1>4, Locals, QuietStep
<1>5. CASE pc' = "commit" /\ run' = r /\ r.bytes # <<>> /\ ~StaleRun(r)
  <2>0. RunLimit \in Nat /\ RunLimit <= WriteUnit /\ drained + RunLimit <= PassBudget
    BY RunLimitIs, Zenon
  <2>1. /\ r = [bytes |-> r.bytes, generation |-> generation,
                reached_end_of_audio |-> r.reached_end_of_audio]
        /\ r.reached_end_of_audio \in BOOLEAN
        /\ r.bytes \in Seq(Nat) /\ Len(r.bytes) <= RunLimit
        /\ consumed + Len(r.bytes) <= written
        /\ \A i \in 1..Len(r.bytes) : r.bytes[i] = consumed + i
    BY <2>0, Locals, CopyRunIs, Zenon
  <2> HIDE DEF r
  <2>2. r \in Run /\ r.generation = generation
    BY <2>1, Numbers DEF Run
  <2>3. generation = acted_generation
    BY <2>2, <1>5, Zenon DEF StaleRun
  <2>4. Len(r.bytes) \in Nat
    BY <2>1
  <2>5. staged = <<>>
    BY <1>0, Locals, Zenon
  <2>6. LocalInv'
    <3>1. Len(r.bytes) <= WriteUnit
      BY <2>0, <2>1, <2>4, DrainConstants
    <3>2. LocalInv
      BY Zenon DEF IInv
    <3> QED
      BY <3>1, <3>2, <2>2, <1>2, <1>5 DEF LocalInv
  <2>7. DacInv'
    BY <1>2, Zenon DEF IInv, DacInv
  <2>8. FenceInv'
    BY <1>2, <1>5, <2>3, Zenon DEF IInv, FenceInv
  <2>9. RunInv'
    <3>1. drained + Len(r.bytes) <= PassBudget
      <4> DEFINE n == Len(r.bytes)
      <4>1. n \in Nat /\ n <= RunLimit /\ RunLimit \in Nat /\ drained + RunLimit <= PassBudget
        BY <2>0, <2>1, <2>4, Zenon
      <4>2. drained \in Nat /\ PassBudget \in Nat
        BY Numbers, DrainConstants
      <4> HIDE DEF n
      <4>3. drained + n <= PassBudget
        BY <4>1, <4>2
      <4> QED
        BY <4>3, Zenon DEF n
    <3> QED
      BY <3>1, <2>1, <2>5, <1>2, <1>5, Zenon DEF RunInv
  <2>10. StagedInv'
    <3>1. Top' = Top
      BY <1>0, <1>2, <1>5 DEF Top
    <3> QED
      BY <3>1, <1>2, Zenon DEF IInv, StagedInv
  <2>11. LatencyInv'
    <3>1. Flight' = r.bytes
      BY <1>5, Zenon DEF Flight
    <3>2. r.bytes[1] = consumed + 1
      <4>1. 1 \in 1..Len(r.bytes)
        BY <2>1, <2>4, <1>5
      <4> QED
        BY <4>1, <2>1, Zenon
    <3>3. fence <= consumed
      BY <2>3, Zenon DEF IInv, FenceInv
    <3>4. ~(r.bytes[1] <= fence)
      BY <3>2, <3>3, Numbers
    <3>5. superseded <= WriteUnit
      BY Zenon DEF IInv, LatencyInv
    <3> QED
      BY <3>1, <3>4, <3>5, <1>2 DEF LatencyInv
  <2> QED
    BY <1>1, <2>6, <2>7, <2>8, <2>9, <2>10, <2>11 DEF IInv
<1> QED
  BY <1>3, <1>4, <1>5, Zenon


-----------------------------------------------------------------------------
(* Bytes are handed to the DMA, out of the residue or out of a fresh run. *)

LEMMA FlightIs ==
  ASSUME IInv, pc # "advance"
  PROVE  /\ Flight \in Seq(Nat) /\ Len(Flight) \in Nat /\ Len(Flight) <= WriteUnit
         /\ \A i \in 1..Len(Flight) : Flight[i] \in Nat /\ last < Flight[i]
                                      /\ Flight[i] <= consumed + Len(run.bytes)
         /\ \A i, j \in 1..Len(Flight) : i < j => Flight[i] < Flight[j]
<1>0. /\ last \in 0..Top /\ Top = consumed
      /\ \A i \in 1..Len(staged) : last < staged[i] /\ staged[i] <= Top
      /\ \A i, j \in 1..Len(staged) : i < j => staged[i] < staged[j]
  BY Zenon DEF IInv, StagedInv, Top
<1>1. Len(staged) <= WriteUnit /\ Len(run.bytes) <= WriteUnit
  BY Zenon DEF IInv, LocalInv
<1>2. CASE pc # "commit"
  <2>1. Flight = staged
    BY <1>2, Zenon DEF Flight
  <2>2. ASSUME NEW i \in 1..Len(staged)
        PROVE  staged[i] \in Nat /\ staged[i] <= consumed + Len(run.bytes)
    <3>1. staged[i] \in Nat
      BY Numbers, ElementIs, Zenon
    <3>2. staged[i] <= consumed
      BY <1>0, Zenon
    <3>3. consumed \in Nat /\ Len(run.bytes) \in Nat
      BY Numbers, Zenon
    <3> DEFINE b == staged[i]
               n == Len(run.bytes)
    <3>4. b \in Nat /\ b <= consumed /\ n \in Nat
      BY <3>1, <3>2, <3>3
    <3> HIDE DEF b, n
    <3>5. b <= consumed + n
      BY <3>3, <3>4
    <3> QED
      BY <3>1, <3>5, Zenon DEF b, n
  <2> QED
    BY <2>1, <2>2, <1>0, <1>1, Numbers
<1>3. CASE pc = "commit"
  <2>1. Flight = run.bytes
    BY <1>3, Zenon DEF Flight
  <2>2. \A i \in 1..Len(run.bytes) : run.bytes[i] = consumed + i
    BY Zenon DEF IInv, RunInv
  <2> DEFINE n == Len(run.bytes)
  <2>3. n \in Nat /\ consumed \in Nat /\ last \in Nat /\ last <= consumed
    BY <1>0, Numbers
  <2> HIDE DEF n
  <2>4. ASSUME NEW i \in 1..n
        PROVE  consumed + i \in Nat /\ last < consumed + i /\ consumed + i <= consumed + n
    BY <2>3
  <2>5. ASSUME NEW i \in 1..n, NEW j \in 1..n, i < j PROVE consumed + i < consumed + j
    BY <2>3, <2>5
  <2>6. /\ \A i \in 1..n : run.bytes[i] \in Nat /\ last < run.bytes[i]
                           /\ run.bytes[i] <= consumed + n
        /\ \A i, j \in 1..n : i < j => run.bytes[i] < run.bytes[j]
    BY <2>2, <2>4, <2>5, Zenon DEF n
  <2> QED
    BY <2>1, <2>6, <1>1, Numbers, Zenon DEF n
<1> QED
  BY <1>2, <1>3, Zenon

(* What StagedInv and LatencyInv need after the DMA took k bytes. *)
LEMMA HandOver ==
  ASSUME IInv, pc # "advance", NEW k \in 0..Len(Flight), NEW u \in BOOLEAN, k > 0 => u,
         DmaTakes(Flight, k, u)
  PROVE  /\ staged' \in Seq(Nat) /\ Len(staged') <= WriteUnit
         /\ silenced' = 0 /\ inOrder' = TRUE
         /\ last' \in 0..(consumed + Len(run.bytes))
         /\ \A i \in 1..Len(staged') : last' < staged'[i]
                                       /\ staged'[i] <= consumed + Len(run.bytes)
         /\ \A i, j \in 1..Len(staged') : i < j => staged'[i] < staged'[j]
         /\ superseded' \in Nat /\ superseded' <= WriteUnit
         /\ staged' # <<>> /\ staged'[1] <= fence => superseded' + Len(staged') <= WriteUnit
<1> DEFINE s == Flight
<1>1. /\ s \in Seq(Nat) /\ Len(s) \in Nat /\ Len(s) <= WriteUnit
      /\ \A i \in 1..Len(s) : s[i] \in Nat /\ last < s[i] /\ s[i] <= consumed + Len(run.bytes)
      /\ \A i, j \in 1..Len(s) : i < j => s[i] < s[j]
  BY FlightIs, Zenon
<1>2. /\ superseded <= WriteUnit
      /\ s # <<>> /\ s[1] <= fence => superseded + Len(s) <= WriteUnit
  BY Zenon DEF IInv, LatencyInv
<1>3. silenced = 0 /\ inOrder = TRUE /\ last \in Nat /\ superseded \in Nat /\ fence \in Nat
      /\ last <= consumed + Len(run.bytes) /\ consumed + Len(run.bytes) \in Nat
  <2>1. last \in 0..Top /\ Top = consumed
    BY Zenon DEF IInv, StagedInv, Top
  <2>2. silenced = 0 /\ inOrder = TRUE
    BY Zenon DEF IInv, DacInv, StagedInv
  <2>3. consumed \in Nat /\ Len(run.bytes) \in Nat /\ superseded \in Nat /\ fence \in 0..written
        /\ written \in Nat
    BY Numbers, Zenon
  <2> QED
    BY <2>1, <2>2, <2>3
<1>4. k \in 0..Len(s) /\ DmaTakes(s, k, u)
  OBVIOUS
<1> DEFINE top == consumed + Len(run.bytes)
<1> HIDE DEF s, top
<1>5. /\ staged' \in Seq(Nat) /\ Len(staged') = Len(s) - k
      /\ \A i \in 1..Len(staged') : staged'[i] = s[i + k]
      /\ last' = IF k = 0 THEN last ELSE s[k]
      /\ inOrder' = TRUE /\ silenced' = 0
      /\ superseded' \in superseded..(superseded + k)
      /\ (s # <<>> => s[1] > fence) => superseded' = superseded
  BY <1>1, <1>3, <1>4, DmaTakesKeeps, Zenon
<1>6. top \in Nat /\ last <= top /\ \A i \in 1..Len(s) : s[i] <= top
  BY <1>1, <1>3, Zenon DEF top
<1>7. last' \in 0..top
  <2>1. CASE k = 0
    BY <2>1, <1>3, <1>5, <1>6
  <2>2. CASE k # 0
    <3>1. k \in 1..Len(s)
      BY <2>2, <1>1, <1>4
    <3> QED
      BY <3>1, <2>2, <1>1, <1>5, <1>6
  <2> QED
    BY <2>1, <2>2, Zenon
<1>8. ASSUME NEW i \in 1..Len(staged')
      PROVE  /\ i + k \in 1..Len(s) /\ staged'[i] = s[i + k] /\ staged'[i] \in Nat
             /\ last' < staged'[i] /\ staged'[i] <= top
  <2>1. i + k \in 1..Len(s) /\ staged'[i] = s[i + k]
    BY <1>1, <1>4, <1>5
  <2>2. CASE k = 0
    BY <2>1, <2>2, <1>1, <1>5, <1>6
  <2>3. CASE k # 0
    <3>1. k \in 1..Len(s) /\ k < i + k
      BY <2>3, <2>1, <1>1, <1>4
    <3> QED
      BY <3>1, <2>1, <2>3, <1>1, <1>5, <1>6
  <2> QED
    BY <2>2, <2>3, <2>1, Zenon
<1>9. ASSUME NEW i \in 1..Len(staged'), NEW j \in 1..Len(staged'), i < j
      PROVE  staged'[i] < staged'[j]
  <2>1. i + k < j + k
    BY <1>9, <1>1, <1>4
  <2> QED
    BY <2>1, <1>8, <1>1
<1>10. superseded' \in Nat /\ Len(staged') <= WriteUnit
  BY <1>1, <1>3, <1>4, <1>5, DrainConstants
<1>11. /\ superseded' <= WriteUnit
       /\ staged' # <<>> /\ staged'[1] <= fence => superseded' + Len(staged') <= WriteUnit
  <2>1. CASE s # <<>> /\ s[1] <= fence
    <3> DEFINE m == Len(s)
    <3>1. superseded + m <= WriteUnit
      BY <2>1, <1>2, Zenon
    <3>2. /\ Len(staged') = m - k /\ superseded' \in superseded..(superseded + k)
          /\ k \in 0..m /\ m \in Nat /\ superseded \in Nat
      BY <1>1, <1>3, <1>4, <1>5, Zenon
    <3>3. WriteUnit \in Nat
      BY DrainConstants, Zenon
    <3> HIDE DEF m
    <3>4. superseded' <= WriteUnit /\ superseded' + (m - k) <= WriteUnit
      BY <3>1, <3>2, <3>3, SumStaysWithin, Zenon
    <3> QED
      BY <3>2, <3>4, Zenon
  <2>2. CASE ~(s # <<>> /\ s[1] <= fence)
    <3>1. s # <<>> => s[1] \in Nat
      BY <1>1
    <3>2. s # <<>> => s[1] > fence
      BY <2>2, <3>1, <1>3
    <3>3. superseded' = superseded
      BY <3>2, <1>5, Zenon
    <3>4. ASSUME staged' # <<>> PROVE ~(staged'[1] <= fence)
      <4>1. 1 \in 1..Len(staged')
        BY <3>4, <1>5
      <4>2. 1 + k \in 1..Len(s) /\ staged'[1] = s[1 + k] /\ staged'[1] \in Nat
        BY <4>1, <1>8, Zenon
      <4>3. 1 \in 1..Len(s) /\ s # <<>>
        BY <4>2, <1>1, <1>4
      <4>4. s[1] <= s[1 + k]
        <5>1. CASE k = 0
          BY <5>1, <1>1, <4>3
        <5>2. CASE k # 0
          <6>1. 1 < 1 + k
            BY <5>2, <1>4, <1>1
          <6> QED
            BY <6>1, <4>2, <4>3, <1>1
        <5> QED
          BY <5>1, <5>2, Zenon
      <4> QED
        BY <4>2, <4>3, <4>4, <3>1, <3>2, <1>3
    <3> QED
      BY <3>3, <3>4, <1>2, Zenon
  <2> QED
    BY <2>1, <2>2, Zenon
<1> QED
  BY <1>5, <1>7, <1>8, <1>9, <1>10, <1>11 DEF top


LEMMA PushResidueKeeps ==
  ASSUME IInv, NEW k \in Nat, PushResidue(k), UNCHANGED sink PROVE IInv'
<1>0. /\ pc = "residue" /\ pc' = "available" /\ k <= Len(staged)
      /\ DmaTakes(staged, k, dac_active)
      /\ UNCHANGED <<ring, gate, acted_generation, local, dac, tones, faults>>
  BY Zenon DEF PushResidue
<1>1. RingInv' /\ NoOverrun' /\ SinkTypeOK'
  BY <1>0, Locals, RingRests, SinkRests, Zenon
<1>2. UNCHANGED <<generation, written, consumed, fence, acted_generation, gate,
                  available, first_poll, drained, run,
                  speaker_ready, needs_rebringup, dac_active, mute_armed, last_pcm_write,
                  tx_enabled>>
  BY <1>0, Zenon DEF ring, local, dac
<1>3. Flight = staged /\ run = NoRun /\ Len(run.bytes) = 0
  BY <1>0, Locals, NoRunIs, Zenon DEF Flight
<1>4. k \in 0..Len(Flight) /\ (k > 0 => dac_active) /\ dac_active \in BOOLEAN
  <2>1. k \in 0..Len(staged) /\ (k > 0 => staged # <<>>)
    BY <1>0, Numbers
  <2> QED
    BY <2>1, <1>3, Locals, Zenon
<1>5. /\ staged' \in Seq(Nat) /\ Len(staged') <= WriteUnit
      /\ silenced' = 0 /\ inOrder' = TRUE
      /\ last' \in 0..(consumed + Len(run.bytes))
      /\ \A i \in 1..Len(staged') : last' < staged'[i]
                                    /\ staged'[i] <= consumed + Len(run.bytes)
      /\ \A i, j \in 1..Len(staged') : i < j => staged'[i] < staged'[j]
      /\ superseded' \in Nat /\ superseded' <= WriteUnit
      /\ staged' # <<>> /\ staged'[1] <= fence => superseded' + Len(staged') <= WriteUnit
  <2>1. pc # "advance" /\ DmaTakes(Flight, k, dac_active)
    BY <1>0, <1>3, Zenon
  <2> QED
    BY <2>1, <1>4, HandOver, Zenon
<1>6. LocalInv'
  BY <1>0, <1>2, <1>5, Zenon DEF IInv, LocalInv
<1>7. DacInv'
  <2>1. staged' # <<>> => staged # <<>>
    BY <1>0 DEF DmaTakes
  <2> QED
    BY <2>1, <1>2, <1>5, Zenon DEF IInv, DacInv
<1>8. FenceInv'
  BY <1>0, <1>2, Zenon DEF IInv, FenceInv
<1>9. RunInv'
  BY <1>0, <1>2, Zenon DEF IInv, RunInv
<1>10. StagedInv'
  <2>1. Top' = consumed + Len(run.bytes)
    BY <1>0, <1>2, <1>3, Numbers DEF Top
  <2> QED
    BY <2>1, <1>5, Zenon DEF StagedInv
<1>11. LatencyInv'
  <2>1. Flight' = staged'
    BY <1>0 DEF Flight
  <2> QED
    BY <2>1, <1>2, <1>5, Zenon DEF LatencyInv
<1> QED
  BY <1>1, <1>6, <1>7, <1>8, <1>9, <1>10, <1>11 DEF IInv

LEMMA CommitRunKeeps ==
  ASSUME IInv, NEW k \in Nat, CommitRun(k), UNCHANGED sink PROVE IInv'
<1>0. /\ pc = "commit" /\ pc' = "advance" /\ k <= Len(run.bytes)
      /\ DmaTakes(run.bytes, k, TRUE)
      /\ UNCHANGED <<ring, gate, acted_generation, local, speaker_ready,
                     mute_armed, tones, faults>>
  BY Zenon DEF CommitRun
<1>1. RingInv' /\ NoOverrun' /\ SinkTypeOK'
  BY <1>0, Locals, RingRests, SinkRests, Zenon
<1>2. UNCHANGED <<generation, written, consumed, fence, acted_generation, gate,
                  available, first_poll, drained, run, speaker_ready, mute_armed>>
  BY <1>0, Zenon DEF ring, local
<1>3. Flight = run.bytes
  BY <1>0, Zenon DEF Flight
<1>4. k \in 0..Len(Flight)
  BY <1>0, <1>3, Numbers
<1>5. /\ staged' \in Seq(Nat) /\ Len(staged') <= WriteUnit
      /\ silenced' = 0 /\ inOrder' = TRUE
      /\ last' \in 0..(consumed + Len(run.bytes))
      /\ \A i \in 1..Len(staged') : last' < staged'[i]
                                    /\ staged'[i] <= consumed + Len(run.bytes)
      /\ \A i, j \in 1..Len(staged') : i < j => staged'[i] < staged'[j]
      /\ superseded' \in Nat /\ superseded' <= WriteUnit
      /\ staged' # <<>> /\ staged'[1] <= fence => superseded' + Len(staged') <= WriteUnit
  <2>1. pc # "advance" /\ DmaTakes(Flight, k, TRUE)
    BY Zenon, <1>0, <1>3
  <2> QED
    BY <2>1, <1>4, HandOver, Zenon
<1>6. LocalInv'
  BY <1>0, <1>2, <1>5, Zenon DEF IInv, LocalInv
<1>7. DacInv'
  <2>1. dac_active' = TRUE /\ last_pcm_write' = "running" /\ needs_rebringup' = FALSE
    BY Zenon DEF CommitRun, MuteClockRestarted
  <2>2. tx_enabled' \in BOOLEAN
    BY Zenon DEF CommitRun
  <2> QED
    BY Zenon, <2>1, <2>2, <1>2, <1>5 DEF IInv, DacInv
<1>8. FenceInv'
  BY <1>0, <1>2, Zenon DEF IInv, FenceInv
<1>9. RunInv'
  BY <1>0, <1>2 DEF IInv, RunInv
<1>10. StagedInv'
  <2>1. Top' = consumed + Len(run.bytes)
    BY <1>0, <1>2, Zenon DEF Top
  <2> QED
    BY <2>1, <1>5, Zenon DEF StagedInv
<1>11. LatencyInv'
  <2>1. Flight' = staged'
    BY <1>0 DEF Flight
  <2> QED
    BY <2>1, <1>2, <1>5, Zenon DEF LatencyInv
<1> QED
  BY <1>1, <1>6, <1>7, <1>8, <1>9, <1>10, <1>11, Zenon DEF IInv

-----------------------------------------------------------------------------
(* The tail moves. *)

LEMMA AdvanceTailKeeps ==
  ASSUME IInv, AdvanceTail, UNCHANGED sink PROVE IInv'
<1> DEFINE n == Len(run.bytes)
<1>0. /\ pc = "advance" /\ pc' \in {"mute", "residue"} /\ Advance(n)
      /\ drained' = drained + n /\ run' = NoRun
      /\ UNCHANGED <<acted_generation, available, first_poll, staged,
                     speaker_ready, needs_rebringup, dac_active, last_pcm_write,
                     tx_enabled, tones, faults, history>>
  BY Zenon DEF AdvanceTail
<1>1. n \in Nat /\ consumed + n <= written /\ drained + n <= PassBudget
  BY Numbers, Zenon DEF IInv, RunInv
<1>2. Len(run'.bytes) = 0 /\ run' \in Run
  BY <1>0, NoRunIs, Zenon
<1> HIDE DEF n
<1>3. RingInv' /\ NoOverrun' /\ SinkTypeOK'
  BY <1>0, <1>1, Locals, AdvanceKeeps, SinkRests, Zenon
<1>4. UNCHANGED <<generation, written, fence>> /\ consumed' = consumed + n
  BY <1>0, Zenon DEF Advance
<1>5. LocalInv'
  <2>1. gate' \in Gate
    <3>1. ArmBase \in Gate /\ gate \in Gate
      BY Zenon, Locals, GateKeeps, 0 \in Nat
    <3> QED
      BY <3>1, Zenon DEF AdvanceTail
  <2>2. drained' \in 0..PassBudget
    BY <1>0, <1>1, Numbers, DrainConstants
  <2>3. superseded' = superseded
    BY <1>0, Zenon DEF history
  <2>4. Len(run'.bytes) <= WriteUnit
    BY <1>2, DrainConstants
  <2> QED
    BY <2>1, <2>2, <2>3, <2>4, <1>0, <1>2, <1>4 DEF IInv, LocalInv
<1>6. DacInv'
  <2>1. mute_armed' \in BOOLEAN
    BY Zenon DEF AdvanceTail, MarkAt, IInv, LocalInv, Run
  <2>2. silenced' = silenced
    BY <1>0, Zenon DEF history
  <2> QED
    BY <2>1, <2>2, <1>0, Zenon DEF IInv, DacInv
<1>7. FenceInv'
  <2>1. /\ generation = acted_generation => fence <= consumed
        /\ generation # acted_generation => consumed + n <= fence
    BY Zenon DEF IInv, FenceInv, n
  <2>2. generation = acted_generation => fence <= consumed'
    BY <2>1, <1>1, <1>4, Numbers
  <2>3. generation # acted_generation => consumed' + Len(run'.bytes) <= fence
    BY <2>1, <1>1, <1>2, <1>4, Numbers
  <2> QED
    BY <2>2, <2>3, <1>0, <1>4, Zenon DEF FenceInv
<1>8. RunInv'
  <2>1. consumed' + Len(run'.bytes) <= written'
    BY <1>1, <1>2, <1>4, Numbers
  <2>2. drained' + Len(run'.bytes) <= PassBudget
    BY <1>0, <1>1, <1>2, Numbers
  <2> QED
    BY <2>1, <2>2, <1>0, <1>2 DEF RunInv
<1>9. StagedInv'
  <2>1. Top' = Top
    BY <1>0, <1>4 DEF Top, n
  <2>2. UNCHANGED <<last, inOrder, staged>>
    BY <1>0, Zenon DEF history
  <2> QED
    BY <2>1, <2>2 DEF IInv, StagedInv
<1>10. LatencyInv'
  <2>1. Flight' = Flight /\ superseded' = superseded
    BY <1>0 DEF Flight, history
  <2> QED
    BY <2>1, <1>4 DEF IInv, LatencyInv
<1> QED
  BY <1>3, <1>5, <1>6, <1>7, <1>8, <1>9, <1>10, Zenon DEF IInv

LEMMA DrainResetKeeps ==
  ASSUME IInv, DrainReset, UNCHANGED sink PROVE IInv'
<1>0. /\ pc = "apply" /\ pc' = "residue" /\ ApplyReset
      /\ acted_generation' = generation /\ gate' = ArmBase
      /\ UNCHANGED <<local, staged, dac, tones, faults, history>>
  BY Zenon DEF DrainReset
<1>1. run = NoRun /\ Len(run.bytes) = 0 /\ generation # acted_generation
  BY <1>0, Locals, NoRunIs, Zenon
<1>2. consumed <= fence
  <2>1. consumed + Len(run.bytes) <= fence
    BY <1>1, Zenon DEF IInv, FenceInv
  <2> QED
    BY <2>1, <1>1, Numbers
<1>3. RingInv' /\ NoOverrun' /\ SinkTypeOK'
  BY <1>0, <1>2, Locals, ApplyResetKeeps, SinkRests, Zenon
<1>4. UNCHANGED <<generation, written, fence, available, first_poll, drained, run, staged,
                  last, inOrder, superseded, silenced, speaker_ready, needs_rebringup,
                  dac_active, mute_armed, last_pcm_write, tx_enabled>>
      /\ consumed' = fence
  BY <1>0, Zenon DEF ApplyReset, local, dac, history
<1>5. LocalInv'
  <2>1. ArmBase \in Gate
    BY Zenon, Locals, GateKeeps, 0 \in Nat
  <2>2. generation \in 0..generation
    BY Numbers
  <2> QED
    BY <2>1, <2>2, <1>0, <1>4 DEF IInv, LocalInv
<1>6. DacInv'
  BY <1>4, Zenon DEF IInv, DacInv
<1>7. FenceInv'
  BY <1>0, <1>4, Numbers DEF FenceInv
<1>8. RunInv'
  <2>1. consumed' + Len(run'.bytes) <= written'
    BY <1>1, <1>4, Numbers
  <2>2. drained' + Len(run'.bytes) <= PassBudget
    BY <1>4, Zenon DEF IInv, RunInv
  <2> QED
    BY <2>1, <2>2, <1>0, <1>1, <1>4 DEF RunInv
<1>9. StagedInv'
  <2>1. /\ last \in 0..Top /\ inOrder = TRUE
        /\ \A i \in 1..Len(staged) : last < staged[i] /\ staged[i] <= Top
        /\ \A i, j \in 1..Len(staged) : i < j => staged[i] < staged[j]
    BY Zenon DEF IInv, StagedInv
  <2>2. Top = consumed /\ Top' = fence
    BY <1>0, <1>4, Zenon DEF Top
  <2>3. ASSUME NEW i \in 1..Len(staged) PROVE last < staged[i] /\ staged[i] <= fence
    <3>1. staged[i] \in Nat
      BY Numbers, ElementIs, Zenon
    <3> QED
      BY <3>1, <2>1, <2>2, <1>2, Numbers
  <2>4. last \in 0..fence
    BY <2>1, <2>2, <1>2, Numbers
  <2> QED
    BY <2>1, <2>2, <2>3, <2>4, <1>4 DEF StagedInv
<1>10. LatencyInv'
  <2>1. Flight' = Flight
    BY <1>0, <1>4, Zenon DEF Flight
  <2> QED
    BY <2>1, <1>4, Zenon DEF IInv, LatencyInv
<1> QED
  BY <1>3, <1>5, <1>6, <1>7, <1>8, <1>9, <1>10, Zenon DEF IInv


-----------------------------------------------------------------------------
(* The streamer writes, marks or resets between any two steps of the drain. *)
LEMMA SinkStepKeeps ==
  ASSUME IInv, SinkStep,
         superseded' = IF generation' # generation THEN 0 ELSE superseded,
         UNCHANGED <<drain, last, inOrder, silenced>>
  PROVE  IInv'
<1>1. /\ RingInv' /\ SinkTypeOK' /\ NoOverrun'
      /\ consumed' = consumed /\ written' \in Nat /\ written <= written'
      /\ \/ generation' = generation /\ fence' = fence
         \/ generation' = generation + 1 /\ fence' = written
  BY Locals, SinkKeeps, Zenon
<1>2. UNCHANGED <<pc, gate, acted_generation, available, first_poll, drained, run, staged,
                  last, inOrder, silenced, speaker_ready, needs_rebringup, dac_active,
                  mute_armed, last_pcm_write, tx_enabled>>
  BY Zenon DEF drain, local, dac
<1>3. LocalInv'
  <2>1. acted_generation' \in 0..generation'
    BY <1>1, <1>2, Numbers
  <2>2. superseded' \in Nat
    BY Numbers, Zenon
  <2> QED
    BY <2>1, <2>2, <1>2, Zenon DEF IInv, LocalInv
<1>4. DacInv'
  BY <1>2, Zenon DEF IInv, DacInv
<1>5. consumed + Len(run.bytes) <= written
  BY Zenon DEF IInv, RunInv
<1>6. FenceInv'
  <2>0. FenceInv
    BY Zenon DEF IInv
  <2>1. CASE generation' = generation /\ fence' = fence
    BY <2>0, <2>1, <1>1, <1>2 DEF FenceInv
  <2>2. CASE generation' = generation + 1 /\ fence' = written
    <3>1. generation' # acted_generation'
      BY <2>2, <1>2, Numbers
    <3> QED
      BY <3>1, <2>2, <1>1, <1>2, <1>5 DEF FenceInv
  <2> QED
    BY <2>1, <2>2, <1>1
<1>7. RunInv'
  <2>1. consumed' + Len(run'.bytes) <= written'
    BY <1>1, <1>2, <1>5, Numbers
  <2> QED
    BY <2>1, <1>1, <1>2 DEF IInv, RunInv
<1>8. StagedInv'
  <2>1. Top' = Top
    BY <1>1, <1>2 DEF Top
  <2> QED
    BY <2>1, <1>2, Zenon DEF IInv, StagedInv
<1>9. LatencyInv'
  <2>1. Flight' = Flight
    BY <1>2, Zenon DEF Flight
  <2>2. CASE generation' = generation /\ fence' = fence
    BY <2>1, <2>2, Zenon DEF IInv, LatencyInv
  <2>3. CASE generation' = generation + 1 /\ fence' = written
    <3>1. superseded' = 0
      BY <2>3, Numbers
    <3>2. Len(Flight) <= WriteUnit /\ Len(Flight) \in Nat
      BY Numbers, Zenon DEF IInv, LocalInv, Flight
    <3> QED
      BY <3>1, <3>2, <2>1, DrainConstants DEF LatencyInv
  <2> QED
    BY <2>2, <2>3, <1>1, Zenon
<1> QED
  BY <1>1, <1>3, <1>4, <1>6, <1>7, <1>8, <1>9 DEF IInv

LEMMA StutterKeeps == IInv /\ UNCHANGED vars => IInv'
<1> SUFFICES ASSUME IInv, UNCHANGED vars PROVE IInv'
  OBVIOUS
<1>1. RingInv' /\ NoOverrun' /\ SinkTypeOK'
  BY Locals, RingRests, SinkRests, Zenon DEF vars
<1>2. UNCHANGED <<generation, written, consumed, fence, acted_generation, last, inOrder,
                  superseded, silenced, pc, gate, available, first_poll, drained, run, staged,
                  speaker_ready, needs_rebringup, dac_active, mute_armed, last_pcm_write,
                  tx_enabled>>
  BY Zenon DEF vars, ring, drain, local, history, dac
<1> QED
  BY <1>1, <1>2, Locals, QuietStep, Zenon

LEMMA NextKeeps == IInv /\ [Next]_vars => IInv'
<1> SUFFICES ASSUME IInv, Next PROVE IInv'
  BY StutterKeeps, Zenon
<1>1. ASSUME DrainStep, UNCHANGED sink PROVE IInv'
  <2>1. ASSUME NEW k \in 0..WriteUnit, PushResidue(k) \/ CommitRun(k) PROVE IInv'
    <3>1. k \in Nat
      BY DrainConstants
    <3> QED
      BY <3>1, <2>1, <1>1, PushResidueKeeps, CommitRunKeeps
  <2> QED
    BY <2>1, <1>1, ToneTestKeeps, NoToneTestKeeps, CheckGenerationKeeps, DrainResetKeeps,
       ReadAvailableKeeps, BoundaryOrGateKeeps, CopyRunIntoKeeps, CommitFailsKeeps,
       DropRunKeeps, AdvanceTailKeeps, EndOfAudioMuteKeeps DEF DrainStep
<1> QED
  BY <1>1, SinkStepKeeps, FallbackElapsesKeeps, MuteDelayElapsesKeeps, Zenon DEF Next

(* The inductive invariant holds throughout: the run in hand is what comes  *)
(* next in the ring, what is staged comes after what was played, and the    *)
(* superseded bytes on their way and those already played are one write     *)
(* unit together.                                                           *)
THEOREM DrainInvariance == Spec => []IInv
<1>1. Init => IInv
  BY InitHolds, Zenon
<1>2. IInv /\ [Next]_vars => IInv'
  BY NextKeeps, Zenon
<1> QED
  BY <1>1, <1>2, PTL DEF Spec

LEMMA InvPlaysInOrder == IInv => PlaysInOrder
<1> SUFFICES ASSUME IInv PROVE PlaysInOrder
  OBVIOUS
<1>1. RingTypeOK /\ NoOverrun /\ SinkTypeOK
  BY Zenon DEF IInv, RingInv
<1>2. BankedBytesIntact
  BY Locals, Banked, Zenon
<1>3. last \in 0..written
  <2>1. last \in 0..Top /\ Top <= written
    BY Numbers, Zenon DEF IInv, StagedInv, RunInv, Top
  <2> QED
    BY <2>1, Numbers
<1>4. TypeOK
  BY <1>1, <1>3 DEF TypeOK, IInv, LocalInv, DacInv
<1> QED
  BY <1>1, <1>2, <1>4, Zenon DEF PlaysInOrder, IInv, StagedInv, LatencyInv

(* For every ring, frame, write unit and pass budget: bytes reach the DMA   *)
(* in the order they were written and never twice, the two ends of the ring *)
(* never overrun each other, what is banked is what was written, and after  *)
(* a reset at most one write unit of superseded audio still gets through    *)
(* ("apply_reset jumps tail past these stale bytes").                       *)
THEOREM CapturePlaysInOrder == Spec => []PlaysInOrder
BY DrainInvariance, InvPlaysInOrder, PTL

(* For every instance: no committed audio is pushed into a muted DAC,       *)
(* however tone tests, codec faults, marks and resets interleave with the   *)
(* end-of-audio mute.                                                       *)
THEOREM CaptureSilencesNothing == Spec => []NothingSilenced
<1>1. IInv => NothingSilenced
  BY Zenon DEF IInv, DacInv, NothingSilenced
<1> QED
  BY <1>1, DrainInvariance, PTL
=============================================================================
