------------------------- MODULE PlaybackDrainProofs --------------------------
(***************************************************************************)
(* The reachy drain for every ring, frame, write unit and pass budget, and *)
(* for any number of resets, marks, short writes and underruns: as long as *)
(* no reset lands inside a pass the device gets every byte once and in     *)
(* order, and a flush lets at most one pass's worth of superseded audio    *)
(* through even when one does.                                             *)
(***************************************************************************)
EXTENDS PlaybackDrain, PlaybackRingProofs

-----------------------------------------------------------------------------
(* The inductive invariant *)

Run == [bytes : Seq(Nat), generation : Nat, reached_end_of_audio : BOOLEAN]

LocalInv ==
  /\ pc \in {"top", "apply", "mark", "poll", "copy", "write", "advance", "dead"}
  /\ gate \in Gate
  /\ acted_generation \in 0..generation
  /\ budget \in 0..PassBudget
  /\ run \in Run /\ Len(run.bytes) <= WriteUnit
  /\ accepted \in 0..WriteUnit /\ consecutive \in 0..MaxRecoveries
  /\ raced \in BOOLEAN /\ inOrder \in BOOLEAN /\ last \in 0..written

(* An applied reset has nothing left before it, raced or not; a pending one *)
(* that did not race a pass fences off everything consumed.                 *)
FenceInv ==
  /\ generation = acted_generation => fence <= consumed
  /\ pc = "apply" => generation # acted_generation
  /\ generation # acted_generation /\ ~raced => consumed <= fence /\ ~InsidePass

(* The run in hand comes after what was consumed; it is the next bytes of   *)
(* the ring unless a reset raced a pass.                                    *)
RunInv ==
  /\ pc \in {"write", "advance"} =>
       /\ run.bytes # <<>> /\ Len(run.bytes) <= budget
       /\ consumed + Len(run.bytes) <= written
       /\ \A i \in 1..Len(run.bytes) :
            run.bytes[i] \in (consumed + i)..written /\ (raced \/ run.bytes[i] = consumed + i)
  /\ pc = "advance" => accepted \in 1..Len(run.bytes)

(* Without a race, what was played last is what was consumed last, or a     *)
(* reset has skipped the bytes in between.                                  *)
OrderInv ==
  ~raced => /\ inOrder = TRUE
            /\ pc = "advance" => last = consumed + accepted
            /\ pc # "advance" => last <= consumed /\ (last = consumed \/ consumed <= fence)

(* A pass that a reset raced plays no more than the rest of its budget. *)
LatencyInv ==
  /\ superseded \in 0..PassBudget
  /\ generation # acted_generation =>
       /\ pc \in {"mark", "poll"} => superseded = 0
       /\ pc \in {"copy", "write"} => superseded + budget <= PassBudget
       /\ pc = "advance" => superseded + budget - accepted <= PassBudget

IInv ==
  /\ RingInv /\ SinkTypeOK /\ (raced \/ NoOverrun)
  /\ LocalInv /\ FenceInv /\ RunInv /\ OrderInv /\ LatencyInv

-----------------------------------------------------------------------------
LEMMA DrainConstants ==
  /\ WriteUnit \in Nat \ {0} /\ PassBudget \in Nat /\ WriteUnit <= PassBudget
  /\ MaxRecoveries \in Nat /\ Cap \in Nat \ {0}
BY DrainAssumption, RingConstants, Zenon

LEMMA NoRunIs == NoRun \in Run /\ NoRun.bytes = <<>> /\ Len(NoRun.bytes) = 0
BY DEF NoRun, Run

LEMMA Numbers ==
  ASSUME IInv
  PROVE  /\ written \in Nat /\ consumed \in Nat /\ consumed <= written /\ fence \in 0..written
         /\ generation \in Nat /\ acted_generation \in 0..generation
         /\ run \in Run /\ run.bytes \in Seq(Nat) /\ Len(run.bytes) \in Nat
         /\ budget \in 0..PassBudget /\ accepted \in 0..WriteUnit
         /\ superseded \in 0..PassBudget /\ last \in 0..written
<1>1. /\ written \in Nat /\ consumed \in Nat /\ consumed <= written /\ fence \in 0..written
      /\ generation \in Nat
  BY RingTypes, Zenon DEF IInv
<1>2. run \in Run /\ budget \in 0..PassBudget /\ accepted \in 0..WriteUnit
      /\ superseded \in 0..PassBudget /\ last \in 0..written
      /\ acted_generation \in 0..generation
  BY Zenon DEF IInv, LocalInv, LatencyInv
<1>3. run.bytes \in Seq(Nat)
  BY <1>2, Zenon DEF Run
<1>4. Len(run.bytes) \in Nat
  BY <1>3
<1> QED
  BY <1>1, <1>2, <1>3, <1>4, Zenon

LEMMA InitHolds == Init => IInv
<1> SUFFICES ASSUME Init PROVE IInv
  OBVIOUS
<1>1. RingInv /\ NoOverrun
  BY RingStarts, Zenon DEF Init
<1>2. SinkTypeOK
  BY Zenon DEF Init, SinkInit, SinkTypeOK
<1>3. generation = 0 /\ fence = 0 /\ consumed = 0 /\ written = 0
  BY Zenon DEF Init, RingInit
<1>4. /\ pc = "top" /\ gate = ArmBase /\ acted_generation = 0
      /\ budget = 0 /\ run = NoRun /\ accepted = 0 /\ consecutive = 0
      /\ last = 0 /\ inOrder = TRUE /\ superseded = 0 /\ raced = FALSE
  BY Zenon DEF Init
<1>5. LocalInv
  <2>1. gate \in Gate
    BY <1>4, TargetAssumption DEF ArmBase, Gate
  <2>2. run \in Run /\ Len(run.bytes) <= WriteUnit
    BY <1>4, NoRunIs, DrainConstants
  <2>3. /\ budget \in 0..PassBudget /\ acted_generation \in 0..generation
        /\ accepted \in 0..WriteUnit /\ consecutive \in 0..MaxRecoveries /\ last \in 0..written
    BY <1>3, <1>4, DrainConstants
  <2> QED
    BY Zenon, <2>1, <2>2, <2>3, <1>4 DEF LocalInv
<1>6. FenceInv
  BY <1>3, <1>4 DEF FenceInv
<1>7. RunInv
  BY <1>4, Zenon DEF RunInv
<1>8. OrderInv
  BY <1>3, <1>4 DEF OrderInv
<1>9. LatencyInv
  BY <1>3, <1>4, DrainConstants DEF LatencyInv
<1> QED
  BY <1>1, <1>2, <1>5, <1>6, <1>7, <1>8, <1>9 DEF IInv

-----------------------------------------------------------------------------
(* Steps that play nothing and leave both ends of the ring where they are. *)
LEMMA QuietStep ==
  ASSUME IInv, RingInv', SinkTypeOK', raced \/ NoOverrun',
         UNCHANGED <<generation, written, consumed, fence, acted_generation,
                     last, inOrder, superseded, raced>>,
         pc' \in {"top", "apply", "mark", "poll", "copy", "write", "advance", "dead"},
         gate' \in Gate, budget' \in 0..PassBudget, accepted' \in 0..WriteUnit,
         consecutive' \in 0..MaxRecoveries,
         run' = run \/ run' = NoRun,
         pc' = "apply" => generation # acted_generation,
         pc' \in {"mark", "poll", "copy"} => InsidePass \/ generation = acted_generation,
         pc' \in {"write", "advance"} => UNCHANGED <<pc, run, budget, accepted>>,
         pc = "advance" => pc' = "advance",
         generation # acted_generation =>
           /\ pc' \in {"mark", "poll"} => superseded = 0
           /\ pc' = "copy" => superseded + budget' <= PassBudget
  PROVE  IInv'
<1>1. LocalInv'
  <2>1. run' \in Run /\ Len(run'.bytes) <= WriteUnit
    <3>1. CASE run' = run
      BY <3>1, Zenon DEF IInv, LocalInv
    <3>2. CASE run' = NoRun
      <4>1. run' \in Run /\ Len(run'.bytes) = 0
        BY <3>2, NoRunIs, Zenon
      <4> QED
        BY <4>1, DrainConstants
    <3> QED
      BY <3>1, <3>2, Zenon
  <2> QED
    BY <2>1, Zenon DEF IInv, LocalInv
<1>2. FenceInv'
  <2>1. FenceInv
    BY Zenon DEF IInv
  <2>2. InsidePass' => InsidePass \/ generation = acted_generation
    BY Zenon DEF InsidePass
  <2> QED
    BY <2>1, <2>2, Zenon DEF FenceInv
<1>3. RunInv'
  BY Zenon DEF IInv, RunInv
<1>4. OrderInv'
  BY Zenon DEF IInv, OrderInv
<1>5. LatencyInv'
  BY Zenon DEF IInv, LatencyInv
<1>6. raced' \/ NoOverrun'
  OBVIOUS
<1> QED
  BY <1>1, <1>2, <1>3, <1>4, <1>5, <1>6 DEF IInv

LEMMA SinkRests == SinkTypeOK /\ UNCHANGED sink => SinkTypeOK'
BY Zenon DEF SinkTypeOK, sink

LEMMA RingRests ==
  RingInv /\ (raced \/ NoOverrun) /\ UNCHANGED ring => RingInv' /\ (raced \/ NoOverrun')
BY Zenon DEF RingInv, RingTypeOK, NoOverrun, ring

LEMMA Locals ==
  ASSUME IInv
  PROVE  /\ RingInv /\ SinkTypeOK /\ (raced \/ NoOverrun)
         /\ pc \in {"top", "apply", "mark", "poll", "copy", "write", "advance", "dead"}
         /\ gate \in Gate /\ budget \in 0..PassBudget /\ accepted \in 0..WriteUnit
         /\ consecutive \in 0..MaxRecoveries /\ raced \in BOOLEAN
         /\ 0 \in 0..PassBudget /\ 0 \in 0..WriteUnit /\ 0 \in Nat
         /\ PassBudget \in 0..PassBudget
         /\ (pc = "apply" => generation # acted_generation)
<1>1. 0 \in 0..PassBudget /\ 0 \in 0..WriteUnit /\ 0 \in Nat /\ PassBudget \in 0..PassBudget
  BY DrainConstants
<1> QED
  BY <1>1, Zenon DEF IInv, LocalInv, FenceInv

LEMMA CheckGenerationKeeps ==
  ASSUME IInv, CheckGeneration, UNCHANGED sink PROVE IInv'
<1>1. RingInv' /\ SinkTypeOK' /\ (raced \/ NoOverrun')
  BY Locals, RingRests, SinkRests, Zenon DEF CheckGeneration
<1>2. UNCHANGED <<generation, written, consumed, fence, acted_generation, last, inOrder,
                  superseded, raced, gate, budget, run, accepted, consecutive>>
  BY Zenon DEF CheckGeneration, ring, history
<1>3. /\ pc = "top" /\ pc' \in {"apply", "mark"}
      /\ pc' = "apply" => generation # acted_generation
      /\ pc' = "mark" => generation = acted_generation
  BY Zenon DEF CheckGeneration, ResetPending
<1> QED
  BY <1>1, <1>2, <1>3, Locals, QuietStep

LEMMA BoundaryAtTailKeeps ==
  ASSUME IInv, BoundaryAtTail, UNCHANGED sink PROVE IInv'
<1>1. RingInv' /\ SinkTypeOK' /\ (raced \/ NoOverrun')
  <2>1. TakeMarkAtTail
    BY Zenon DEF BoundaryAtTail
  <2> QED
    BY <2>1, Locals, TakeMarkKeeps, SinkRests, Zenon
<1>2. UNCHANGED <<generation, written, consumed, fence, acted_generation, last, inOrder,
                  superseded, raced, budget, run, accepted, consecutive>>
  BY Zenon DEF BoundaryAtTail, TakeMarkAtTail, history
<1>3. pc = "mark" /\ pc' \in {"top", "poll"}
  BY Zenon DEF BoundaryAtTail
<1>4. gate' \in Gate
  <2>1. ArmBase \in Gate /\ gate \in Gate
    BY Locals, GateKeeps, Zenon
  <2> QED
    BY <2>1, Zenon DEF BoundaryAtTail
<1>5. InsidePass /\ (generation # acted_generation => superseded = 0)
  BY <1>3, Zenon DEF InsidePass, IInv, LatencyInv
<1> QED
  BY <1>1, <1>2, <1>3, <1>4, <1>5, Locals, QuietStep

LEMMA PollKeeps ==
  ASSUME IInv, Poll, UNCHANGED sink PROVE IInv'
<1>1. RingInv' /\ SinkTypeOK' /\ (raced \/ NoOverrun')
  BY Locals, RingRests, SinkRests, Zenon DEF Poll
<1>2. UNCHANGED <<generation, written, consumed, fence, acted_generation, last, inOrder,
                  superseded, raced, consecutive>>
  BY Zenon DEF Poll, ring, history
<1>3. pc = "poll"
      /\ \/ pc' = "top" /\ budget' = 0 /\ run' = NoRun /\ accepted' = 0
         \/ pc' = "copy" /\ budget' = PassBudget /\ UNCHANGED <<run, accepted>>
  BY Zenon DEF Poll, EndPass
<1>4. gate' \in Gate
  <2>1. Used \in Nat
    <3>1. RingInv
      BY Locals, Zenon
    <3>2. Used \in 0..(written - consumed)
      BY <3>1, UsedIs
    <3> QED
      BY <3>2
  <2>2. gate \in Gate
    BY Locals, Zenon
  <2>3. NoteAudioSeen(gate) \in Gate /\ ClearAudioSeen(gate) \in Gate /\ RearmEscalated(gate) \in Gate
    BY <2>1, <2>2, GateKeeps, Zenon
  <2>4. Admit(NoteAudioSeen(gate), Used) \in Gate
    BY <2>1, <2>3, GateKeeps, Zenon
  <2>5. NoteEmpty(gate) \in Gate
    BY <2>3, Zenon DEF NoteEmpty
  <2> QED
    BY <2>4, <2>5, Zenon DEF Poll
<1>5. InsidePass /\ (generation # acted_generation => superseded = 0)
  BY <1>3, Zenon DEF InsidePass, IInv, LatencyInv
<1>6. 0 + PassBudget <= PassBudget
  BY DrainConstants
<1> QED
  BY <1>1, <1>2, <1>3, <1>4, <1>5, <1>6, Locals, QuietStep


LEMMA WriteUnderrunKeeps ==
  ASSUME IInv, WriteUnderrun, UNCHANGED sink PROVE IInv'
<1>1. RingInv' /\ SinkTypeOK' /\ (raced \/ NoOverrun')
  BY Locals, RingRests, SinkRests, Zenon DEF WriteUnderrun
<1>2. UNCHANGED <<generation, written, consumed, fence, acted_generation, last, inOrder,
                  superseded, raced>>
  BY Zenon DEF WriteUnderrun, ring, history
<1>3. pc = "write" /\ pc' = "top" /\ budget' = 0 /\ run' = NoRun /\ accepted' = 0
  BY Zenon DEF WriteUnderrun, EndPass
<1>4. gate' \in Gate
  <2>1. gate \in Gate /\ 0 \in Nat
    BY Locals, Zenon
  <2> QED
    BY <2>1, GateKeeps, Zenon DEF WriteUnderrun
<1>5. consecutive' \in 0..MaxRecoveries
  BY Locals, DrainConstants DEF WriteUnderrun
<1> QED
  BY <1>1, <1>2, <1>3, <1>4, <1>5, Locals, QuietStep

LEMMA WriteFatalKeeps ==
  ASSUME IInv, WriteFatal, UNCHANGED sink PROVE IInv'
<1>1. RingInv' /\ SinkTypeOK' /\ (raced \/ NoOverrun')
  BY Locals, RingRests, SinkRests, Zenon DEF WriteFatal
<1>2. UNCHANGED <<generation, written, consumed, fence, acted_generation, last, inOrder,
                  superseded, raced, gate, budget, run, accepted, consecutive>>
  BY Zenon DEF WriteFatal, ring, history
<1>3. pc = "write" /\ pc' = "dead"
  BY Zenon DEF WriteFatal
<1> QED
  BY <1>1, <1>2, <1>3, Locals, QuietStep, Zenon

LEMMA FallbackElapsesKeeps ==
  ASSUME IInv, FallbackElapses PROVE IInv'
<1>1. RingInv' /\ SinkTypeOK' /\ (raced \/ NoOverrun')
  BY Locals, RingRests, SinkRests, Zenon DEF FallbackElapses
<1>2. UNCHANGED <<generation, written, consumed, fence, acted_generation, last, inOrder,
                  superseded, raced, pc, budget, run, accepted, consecutive>>
  BY Zenon DEF FallbackElapses, ring, history
<1>3. gate' \in Gate
  <2>1. gate \in Gate /\ 0 \in Nat
    BY Locals, Zenon
  <2> QED
    BY <2>1, GateKeeps, Zenon DEF FallbackElapses
<1>4. pc \in {"mark", "poll", "copy"} => InsidePass
  BY Zenon DEF InsidePass
<1>5. generation # acted_generation =>
        /\ pc \in {"mark", "poll"} => superseded = 0
        /\ pc = "copy" => superseded + budget <= PassBudget
  BY Zenon DEF IInv, LatencyInv
<1> QED
  BY <1>1, <1>2, <1>3, <1>4, <1>5, Locals, QuietStep, Zenon

LEMMA StutterKeeps == IInv /\ UNCHANGED vars => IInv'
<1> SUFFICES ASSUME IInv, UNCHANGED vars PROVE IInv'
  OBVIOUS
<1>1. RingInv' /\ SinkTypeOK' /\ (raced \/ NoOverrun')
  BY Locals, RingRests, SinkRests, Zenon DEF vars
<1>2. UNCHANGED <<generation, written, consumed, fence, acted_generation, last, inOrder,
                  superseded, raced, pc, gate, budget, run, accepted, consecutive>>
  BY Zenon DEF vars, ring, drain, history
<1>4. pc \in {"mark", "poll", "copy"} => InsidePass
  BY Zenon DEF InsidePass
<1>5. generation # acted_generation =>
        /\ pc \in {"mark", "poll"} => superseded = 0
        /\ pc = "copy" => superseded + budget <= PassBudget
  BY Zenon DEF IInv, LatencyInv
<1> QED
  BY <1>1, <1>2, <1>4, <1>5, Locals, QuietStep

-----------------------------------------------------------------------------
(* A run is copied out of the ring. *)

LEMMA RunLimitIs ==
  ASSUME IInv
  PROVE  RunLimit \in Nat /\ RunLimit <= WriteUnit /\ RunLimit <= budget
<1>1. budget \in Nat /\ WriteUnit \in Nat
  BY Numbers, DrainConstants
<1>2. {budget, WriteUnit} \in SUBSET Int /\ budget \in {budget, WriteUnit}
      /\ WriteUnit \in {budget, WriteUnit}
  BY <1>1
<1>3. CASE budget <= WriteUnit
  <2>1. \A y \in {budget, WriteUnit} : budget <= y
    BY <1>1, <1>3
  <2>2. RunLimit = budget
    BY Zenon, <2>1, <1>2, MinOf DEF RunLimit
  <2> QED
    BY <2>2, <1>1, <1>3
<1>4. CASE ~(budget <= WriteUnit)
  <2>1. \A y \in {budget, WriteUnit} : WriteUnit <= y
    BY <1>1, <1>4
  <2>2. RunLimit = WriteUnit
    BY Zenon, <2>1, <1>2, MinOf DEF RunLimit
  <2> QED
    BY <2>2, <1>1, <1>4
<1> QED
  BY <1>3, <1>4, Zenon

LEMMA CopyRunIntoKeeps ==
  ASSUME IInv, CopyRunInto, UNCHANGED sink PROVE IInv'
<1> DEFINE r == CopyRun(RunLimit)
<1>0. UNCHANGED <<ring, gate, acted_generation, consecutive, history>> /\ pc = "copy"
  BY Zenon DEF CopyRunInto
<1>1. RingInv' /\ SinkTypeOK' /\ (raced \/ NoOverrun')
  BY <1>0, Locals, RingRests, SinkRests, Zenon
<1>2. UNCHANGED <<generation, written, consumed, fence, acted_generation, last, inOrder,
                  superseded, raced, gate, consecutive>>
  BY <1>0, Zenon DEF ring, history
<1>3. \/ pc' = "top" /\ budget' = 0 /\ run' = NoRun /\ accepted' = 0
      \/ pc' = "write" /\ run' = r /\ r.bytes # <<>> /\ UNCHANGED <<budget, accepted>>
  BY Zenon DEF CopyRunInto, EndPass
<1>4. CASE pc' = "top" /\ budget' = 0 /\ run' = NoRun /\ accepted' = 0
  BY <1>0, <1>1, <1>2, <1>4, Locals, QuietStep
<1>5. CASE pc' = "write" /\ run' = r /\ r.bytes # <<>> /\ UNCHANGED <<budget, accepted>>
  <2>0. RunLimit \in Nat /\ RunLimit <= WriteUnit /\ RunLimit <= budget
    BY RunLimitIs, Zenon
  <2>1. /\ r = [bytes |-> r.bytes, generation |-> generation,
                reached_end_of_audio |-> r.reached_end_of_audio]
        /\ r.reached_end_of_audio \in BOOLEAN
        /\ r.bytes \in Seq(Nat) /\ Len(r.bytes) <= RunLimit
        /\ consumed + Len(r.bytes) <= written
        /\ \A i \in 1..Len(r.bytes) : r.bytes[i] \in (consumed + i)..written
        /\ raced \/ \A i \in 1..Len(r.bytes) : r.bytes[i] = consumed + i
    BY <2>0, Locals, CopyRunIs, Zenon
  <2> HIDE DEF r
  <2>2. r \in Run
    BY <2>1, Numbers DEF Run
  <2>3. Len(r.bytes) \in Nat
    BY <2>1
  <2>4. Len(r.bytes) <= WriteUnit /\ Len(r.bytes) <= budget
    <3> DEFINE n == Len(r.bytes)
    <3>1. n \in Nat /\ n <= RunLimit /\ RunLimit \in Nat /\ RunLimit <= WriteUnit
          /\ RunLimit <= budget
      BY <2>0, <2>1, <2>3, Zenon
    <3>2. budget \in Nat /\ WriteUnit \in Nat
      BY Numbers, DrainConstants
    <3> HIDE DEF n
    <3>3. n <= WriteUnit /\ n <= budget
      BY <3>1, <3>2
    <3> QED
      BY <3>3, Zenon DEF n
  <2>5. LocalInv'
    BY <2>2, <2>4, <1>2, <1>5 DEF IInv, LocalInv
  <2>6. FenceInv'
    <3>1. InsidePass
      BY <1>0, Zenon DEF InsidePass
    <3> QED
      BY <3>1, <1>2, <1>5, Zenon DEF IInv, FenceInv
  <2>7. RunInv'
    <3>1. \A i \in 1..Len(r.bytes) :
            r.bytes[i] \in (consumed + i)..written /\ (raced \/ r.bytes[i] = consumed + i)
      BY <2>1, Zenon
    <3> QED
      BY <3>1, <2>1, <2>4, <1>2, <1>5 DEF RunInv
  <2>8. OrderInv'
    BY <1>0, <1>2, <1>5 DEF IInv, OrderInv
  <2>9. LatencyInv'
    BY <1>0, <1>2, <1>5, Zenon DEF IInv, LatencyInv
  <2>10. raced' \/ NoOverrun'
    BY <1>1, <1>2, Zenon
  <2> QED
    BY <1>1, <2>5, <2>6, <2>7, <2>8, <2>9, <2>10 DEF IInv
<1> QED
  BY <1>3, <1>4, <1>5, Zenon


-----------------------------------------------------------------------------
(* The device takes the first k bytes of the run. *)

LEMMA CountIs ==
  ASSUME NEW k \in Nat, NEW s \in Seq(Nat), NEW f \in Nat
  PROVE  LET S == {i \in 1..k : s[i] <= f}
         IN  Cardinality(S) \in 0..k /\ ((\A i \in 1..k : ~(s[i] <= f)) => Cardinality(S) = 0)
<1> DEFINE S == {i \in 1..k : s[i] <= f}
<1>1. IsFiniteSet(1..k) /\ Cardinality(1..k) = k
  <2>1. 1 \in Int /\ k \in Int
    OBVIOUS
  <2>2. IsFiniteSet(1..k) /\ Cardinality(1..k) = IF 1 > k THEN 0 ELSE k - 1 + 1
    BY <2>1, FS_Interval, Zenon
  <2> QED
    BY <2>2
<1>2. S \subseteq 1..k
  OBVIOUS
<1>3. ASSUME \A i \in 1..k : ~(s[i] <= f) PROVE Cardinality(S) = 0
  <2>1. S = {}
    BY <1>3, Zenon
  <2> QED
    BY <2>1, FS_EmptySet, Zenon
<1> HIDE DEF S
<1>4. IsFiniteSet(S) /\ Cardinality(S) <= Cardinality(1..k)
  BY Zenon, <1>1, <1>2, FS_Subset
<1>5. Cardinality(S) \in Nat
  BY <1>4, FS_CardinalityType, Zenon
<1>6. Cardinality(S) \in 0..k
  BY <1>1, <1>4, <1>5
<1> QED
  BY <1>3, <1>6, Zenon DEF S

LEMMA PrefixIs ==
  ASSUME NEW t \in Seq(Nat), NEW k \in 1..Len(t)
  PROVE  /\ SubSeq(t, 1, k) \in Seq(Nat) /\ Len(SubSeq(t, 1, k)) = k
         /\ k \in Nat /\ k <= Len(t) /\ k \in 1..k /\ 1 \in 1..k
         /\ \A i \in 1..k : SubSeq(t, 1, k)[i] = t[i] /\ i \in 1..Len(t)
OBVIOUS

LEMMA WriteFramesKeeps ==
  ASSUME IInv, NEW k \in 1..Len(run.bytes), WriteFrames(k), UNCHANGED sink PROVE IInv'
<1> DEFINE s == SubSeq(run.bytes, 1, k)
           c == Cardinality({i \in 1..k : s[i] <= fence})
<1>0. /\ pc = "write" /\ pc' = "advance" /\ accepted' = k /\ consecutive' = 0
      /\ UNCHANGED <<ring, gate, acted_generation, budget, run, raced>>
      /\ inOrder' = (inOrder /\ Follows(s, last)) /\ last' = s[k]
      /\ superseded' = superseded + c
  BY Zenon DEF WriteFrames
<1>1. RingInv' /\ SinkTypeOK' /\ (raced \/ NoOverrun')
  BY <1>0, Locals, RingRests, SinkRests, Zenon
<1>2. UNCHANGED <<generation, written, consumed, fence, acted_generation, gate, budget, run,
                  raced>>
  BY <1>0, Zenon DEF ring
<1>3. /\ run.bytes # <<>> /\ Len(run.bytes) <= budget
      /\ consumed + Len(run.bytes) <= written
      /\ \A i \in 1..Len(run.bytes) :
           run.bytes[i] \in (consumed + i)..written /\ (raced \/ run.bytes[i] = consumed + i)
  BY <1>0, Zenon DEF IInv, RunInv
<1>4. /\ s \in Seq(Nat) /\ Len(s) = k /\ k \in Nat /\ k <= Len(run.bytes)
      /\ k \in 1..k /\ 1 \in 1..k
      /\ \A i \in 1..k : s[i] = run.bytes[i] /\ i \in 1..Len(run.bytes)
  <2>1. run.bytes \in Seq(Nat)
    BY Numbers, Zenon
  <2> QED
    BY <2>1, PrefixIs, Zenon
<1> HIDE DEF s
<1>5. \A i \in 1..k : s[i] \in (consumed + i)..written /\ (raced \/ s[i] = consumed + i)
  BY <1>3, <1>4, Zenon
<1>6. k \in 1..k /\ 1 \in 1..k
  BY <1>4, Zenon
<1>7. last' \in 0..written
  <2>1. last' \in (consumed + k)..written
    BY <1>0, <1>5, <1>6, Zenon
  <2>2. consumed \in Nat /\ written \in Nat /\ k \in Nat
    BY <1>4, Numbers, Zenon
  <2> QED
    BY <2>1, <2>2
<1>8. c \in 0..k /\ ((\A i \in 1..k : ~(s[i] <= fence)) => c = 0)
  <2>1. fence \in Nat
    BY Numbers
  <2> QED
    BY Zenon, <2>1, <1>4, CountIs
<1> HIDE DEF c
<1>9. k <= WriteUnit /\ k <= budget
  <2>1. Len(run.bytes) <= WriteUnit
    BY Zenon DEF IInv, LocalInv
  <2> DEFINE n == Len(run.bytes)
  <2>2. n \in Nat /\ n <= WriteUnit /\ n <= budget /\ k \in Nat /\ k <= n
    BY <2>1, <1>3, <1>4, Numbers, Zenon
  <2>3. budget \in Nat /\ WriteUnit \in Nat
    BY Numbers, DrainConstants
  <2> HIDE DEF n
  <2> QED
    BY <2>2, <2>3
<1>10. LocalInv'
  <2>1. accepted' \in 0..WriteUnit /\ consecutive' \in 0..MaxRecoveries
    BY <1>0, <1>4, <1>9, DrainConstants
  <2>2. inOrder' \in BOOLEAN
    BY <1>0, Zenon
  <2> QED
    BY <2>1, <2>2, <1>0, <1>2, <1>7, Zenon DEF IInv, LocalInv
<1>11. FenceInv'
  <2>1. InsidePass
    BY <1>0, Zenon DEF InsidePass
  <2> QED
    BY <2>1, <1>0, <1>2 DEF IInv, FenceInv
<1>12. RunInv'
  BY <1>0, <1>2, <1>3 DEF RunInv
<1>13. OrderInv'
  <2>1. ASSUME ~raced PROVE inOrder' = TRUE /\ last' = consumed' + accepted'
    <3>1. \A i \in 1..k : s[i] = consumed + i
      BY <2>1, <1>5
    <3>2. inOrder = TRUE /\ last <= consumed /\ (last = consumed \/ consumed <= fence)
      BY <2>1, <1>0, Zenon DEF IInv, OrderInv
    <3>3. s[1] = consumed + 1 /\ s[k] = consumed + k
      BY <3>1, <1>6, Zenon
    <3>4. \A i \in 1..(Len(s) - 1) : s[i + 1] = s[i] + 1
      <4>1. ASSUME NEW i \in 1..(k - 1) PROVE s[i + 1] = s[i] + 1
        <5>1. i \in 1..k /\ i + 1 \in 1..k /\ i \in Nat
          BY <1>4
        <5>2. s[i] = consumed + i /\ s[i + 1] = consumed + (i + 1)
          BY <5>1, <3>1, Zenon
        <5>3. consumed \in Nat
          BY Numbers, Zenon
        <5> QED
          BY <5>1, <5>2, <5>3
      <4> QED
        BY <4>1, <1>4, Zenon
    <3>5. s[1] > last /\ (s[1] = last + 1 \/ s[1] <= fence + 1)
      <4>1. consumed \in Nat /\ fence \in Nat /\ last \in Nat
        BY Numbers
      <4> QED
        BY <4>1, <3>2, <3>3
    <3>6. Follows(s, last)
      BY <3>4, <3>5 DEF Follows
    <3> QED
      BY Zenon, <3>2, <3>3, <3>6, <1>0, <1>2
  <2>2. raced' = raced /\ pc' = "advance"
    BY <1>0, Zenon
  <2> QED
    BY <2>1, <2>2, Zenon DEF OrderInv
<1>14. LatencyInv'
  <2>1. superseded \in 0..PassBudget
    BY Numbers, Zenon
  <2>2. CASE generation = acted_generation
    <3>1. fence <= consumed
      BY <2>2, Zenon DEF IInv, FenceInv
    <3>2. ASSUME NEW i \in 1..k PROVE ~(s[i] <= fence)
      <4> DEFINE b == s[i]
      <4>1. b \in (consumed + i)..written
        BY <1>5, Zenon
      <4>2. consumed \in Nat /\ written \in Nat /\ fence \in Nat /\ i \in 1..k /\ k \in Nat
        BY <1>4, Numbers
      <4> HIDE DEF b
      <4>3. ~(b <= fence)
        BY <4>1, <4>2, <3>1
      <4> QED
        BY <4>3, Zenon DEF b
    <3>3. superseded' = superseded
      BY <3>2, <1>0, <1>8, <2>1
    <3> QED
      BY <3>3, <2>1, <2>2, <1>2 DEF LatencyInv
  <2>3. CASE generation # acted_generation
    <3>1. superseded + budget <= PassBudget
      BY <2>3, <1>0, Zenon DEF IInv, LatencyInv
    <3>2. superseded' \in 0..PassBudget /\ superseded' + budget - k <= PassBudget
      <4>1. superseded' = superseded + c /\ c \in 0..k /\ k \in Nat /\ k <= budget
        BY <1>0, <1>4, <1>8, <1>9, Zenon
      <4>2. budget \in Nat /\ PassBudget \in Nat
        BY Numbers, DrainConstants
      <4> QED
        BY <4>1, <4>2, <3>1, <2>1
    <3> QED
      BY <3>2, <1>0, <1>2 DEF LatencyInv
  <2> QED
    BY <2>2, <2>3, Zenon
<1>15. raced' \/ NoOverrun'
  BY <1>1, <1>2, Zenon
<1> QED
  BY <1>1, <1>10, <1>11, <1>12, <1>13, <1>14, <1>15 DEF IInv

-----------------------------------------------------------------------------
(* The tail moves. *)

LEMMA AdvanceTailKeeps ==
  ASSUME IInv, AdvanceTail, UNCHANGED sink PROVE IInv'
<1>0. /\ pc = "advance" /\ Advance(accepted)
      /\ UNCHANGED <<acted_generation, consecutive, history>>
      /\ gate' = ArmBase \/ gate' = gate
      /\ \/ pc' = "top" /\ budget' = 0 /\ run' = NoRun /\ accepted' = 0
         \/ pc' = "copy" /\ budget' = budget - accepted /\ UNCHANGED <<run, accepted>>
  BY Zenon DEF AdvanceTail, TakenBytes, EndPass
<1>1. /\ Len(run.bytes) <= budget /\ consumed + Len(run.bytes) <= written
      /\ accepted \in 1..Len(run.bytes)
  BY <1>0 DEF IInv, RunInv
<1>2. accepted \in Nat /\ consumed + accepted <= written /\ accepted <= budget
  <2> DEFINE n == Len(run.bytes)
  <2>1. n \in Nat /\ n <= budget /\ consumed + n <= written /\ accepted \in 1..n
    BY <1>1, Numbers, Zenon
  <2>2. consumed \in Nat /\ written \in Nat /\ budget \in Nat
    BY Numbers
  <2> HIDE DEF n
  <2> QED
    BY <2>1, <2>2
<1>3. RingInv' /\ SinkTypeOK' /\ (raced \/ NoOverrun')
  BY <1>0, <1>2, Locals, AdvanceKeeps, SinkRests, Zenon
<1>4. UNCHANGED <<generation, written, fence, acted_generation, consecutive, last, inOrder,
                  superseded, raced>> /\ consumed' = consumed + accepted
  BY <1>0, Zenon DEF Advance, history
<1>5. LocalInv'
  <2>1. gate' \in Gate
    <3>1. ArmBase \in Gate /\ gate \in Gate
      BY Locals, GateKeeps, Zenon
    <3> QED
      BY <3>1, <1>0
  <2>2. budget' \in 0..PassBudget /\ accepted' \in 0..WriteUnit
    <3>1. /\ 0 \in 0..PassBudget /\ 0 \in 0..WriteUnit /\ accepted \in 0..WriteUnit
          /\ budget - accepted \in 0..PassBudget
      BY <1>2, Numbers, DrainConstants
    <3> QED
      BY <3>1, <1>0, Zenon
  <2>3. run' \in Run /\ Len(run'.bytes) <= WriteUnit
    <3>1. run \in Run /\ Len(run.bytes) <= WriteUnit
      BY Zenon DEF IInv, LocalInv
    <3>2. NoRun \in Run /\ Len(NoRun.bytes) <= WriteUnit
      BY NoRunIs, DrainConstants
    <3> QED
      BY <3>1, <3>2, <1>0, Zenon
  <2> QED
    BY <2>1, <2>2, <2>3, <1>0, <1>4 DEF IInv, LocalInv
<1>6. FenceInv'
  <2>1. InsidePass
    BY <1>0, Zenon DEF InsidePass
  <2>2. generation = acted_generation => fence <= consumed'
    BY <1>2, <1>4, Numbers DEF IInv, FenceInv
  <2> QED
    BY <2>1, <2>2, <1>0, <1>4 DEF IInv, FenceInv
<1>7. RunInv'
  BY <1>0, Zenon DEF RunInv
<1>8. OrderInv'
  <2>1. ~raced => inOrder = TRUE /\ last = consumed + accepted
    BY <1>0, Zenon DEF IInv, OrderInv
  <2>2. consumed' \in Nat
    BY <1>2, <1>4, Numbers
  <2> QED
    BY <2>1, <2>2, <1>0, <1>4 DEF OrderInv
<1>9. LatencyInv'
  <2>1. /\ superseded \in 0..PassBudget
        /\ generation # acted_generation => superseded + budget - accepted <= PassBudget
    BY <1>0, Zenon DEF IInv, LatencyInv
  <2>2. superseded + (budget - accepted) = superseded + budget - accepted
    BY <2>1, <1>2, Numbers
  <2> QED
    BY <2>1, <2>2, <1>0, <1>4 DEF LatencyInv
<1>10. raced' \/ NoOverrun'
  BY <1>3, <1>4
<1> QED
  BY <1>3, <1>5, <1>6, <1>7, <1>8, <1>9, <1>10, Zenon DEF IInv

LEMMA DrainResetKeeps ==
  ASSUME IInv, DrainReset, UNCHANGED sink PROVE IInv'
<1>0. /\ pc = "apply" /\ pc' = "mark" /\ ApplyReset
      /\ acted_generation' = generation /\ gate' = ArmBase
      /\ UNCHANGED <<budget, run, accepted, consecutive, history>>
  BY Zenon DEF DrainReset
<1>1. raced \/ consumed <= fence
  BY <1>0, Zenon DEF IInv, FenceInv
<1>2. RingInv' /\ SinkTypeOK' /\ (raced \/ NoOverrun')
  BY <1>0, <1>1, Locals, ApplyResetKeeps, SinkRests, Zenon
<1>3. UNCHANGED <<generation, written, fence, budget, run, accepted, consecutive,
                  last, inOrder, superseded, raced>> /\ consumed' = fence
  BY <1>0, Zenon DEF ApplyReset, history
<1>4. LocalInv'
  <2>1. ArmBase \in Gate
    BY Locals, GateKeeps, Zenon
  <2>2. generation \in 0..generation
    BY Numbers
  <2> QED
    BY <2>1, <2>2, <1>0, <1>3 DEF IInv, LocalInv
<1>5. FenceInv'
  BY <1>0, <1>3, Numbers DEF FenceInv
<1>6. RunInv'
  BY <1>0, Zenon DEF RunInv
<1>7. OrderInv'
  <2>1. ~raced => inOrder = TRUE /\ last <= consumed
    BY <1>0, Zenon DEF IInv, OrderInv
  <2>2. ~raced => last <= fence
    BY <2>1, <1>1, Numbers
  <2>3. fence <= fence
    BY Numbers
  <2> QED
    BY <2>1, <2>2, <2>3, <1>0, <1>3 DEF OrderInv
<1>8. LatencyInv'
  BY <1>0, <1>3, Zenon DEF IInv, LatencyInv
<1>9. raced' \/ NoOverrun'
  BY <1>2, <1>3, Zenon
<1> QED
  BY <1>2, <1>4, <1>5, <1>6, <1>7, <1>8, <1>9, Zenon DEF IInv


-----------------------------------------------------------------------------
(* The streamer writes, marks or resets between any two steps of the pass. *)
LEMMA SinkStepKeeps ==
  ASSUME IInv, SinkStep,
         superseded' = IF generation' # generation THEN 0 ELSE superseded,
         raced' = (raced \/ (generation' # generation /\ InsidePass)),
         UNCHANGED <<drain, last, inOrder>>
  PROVE  IInv'
<1>1. /\ RingInv' /\ SinkTypeOK' /\ (raced \/ NoOverrun')
      /\ consumed' = consumed /\ written' \in Nat /\ written <= written'
      /\ \/ generation' = generation /\ fence' = fence
         \/ generation' = generation + 1 /\ fence' = written
  BY Locals, SinkKeeps, Zenon
<1>2. UNCHANGED <<pc, gate, acted_generation, budget, run, accepted, consecutive,
                  last, inOrder>>
  BY Zenon DEF drain
<1>3. raced' \in BOOLEAN /\ (~raced' => ~raced)
  BY Locals
<1>4. LocalInv'
  <2>1. acted_generation' \in 0..generation' /\ last' \in 0..written'
    BY <1>1, <1>2, Numbers
  <2> QED
    BY <2>1, <1>2, <1>3 DEF IInv, LocalInv
<1>5. FenceInv'
  <2>0. FenceInv
    BY Zenon DEF IInv
  <2>1. InsidePass' = InsidePass
    BY <1>2, Zenon DEF InsidePass
  <2>2. CASE generation' = generation /\ fence' = fence
    BY <2>0, <2>1, <2>2, <1>1, <1>2, <1>3 DEF FenceInv
  <2>3. CASE generation' = generation + 1 /\ fence' = written
    <3>1. generation' # acted_generation' /\ generation' # generation
      BY <2>3, <1>2, Numbers
    <3>2. ~raced' => ~InsidePass
      BY Zenon, <3>1
    <3> QED
      BY <3>1, <3>2, <2>1, <2>3, <1>1, <1>2, Numbers DEF FenceInv
  <2> QED
    BY <2>2, <2>3, <1>1, Zenon
<1>6. RunInv'
  <2>0. RunInv
    BY Zenon DEF IInv
  <2>1. ASSUME pc \in {"write", "advance"}
        PROVE  /\ consumed' + Len(run'.bytes) <= written'
               /\ \A i \in 1..Len(run'.bytes) :
                    run'.bytes[i] \in (consumed' + i)..written'
                    /\ (raced' \/ run'.bytes[i] = consumed' + i)
    <3>1. /\ consumed + Len(run.bytes) <= written
          /\ \A i \in 1..Len(run.bytes) :
               run.bytes[i] \in (consumed + i)..written /\ (raced \/ run.bytes[i] = consumed + i)
      BY <2>0, <2>1, Zenon DEF RunInv
    <3>2. consumed + Len(run.bytes) <= written'
      BY <3>1, <1>1, Numbers
    <3>3. ASSUME NEW i \in 1..Len(run.bytes)
          PROVE  run.bytes[i] \in (consumed + i)..written' /\ (raced' \/ run.bytes[i] = consumed + i)
      <4>1. run.bytes[i] \in (consumed + i)..written /\ (raced \/ run.bytes[i] = consumed + i)
        BY <3>1, Zenon
      <4>2. run.bytes[i] \in (consumed + i)..written'
        <5> DEFINE b == run.bytes[i]
        <5>1. b \in (consumed + i)..written /\ i \in Nat
          BY <4>1, Numbers
        <5> HIDE DEF b
        <5>2. b \in (consumed + i)..written'
          BY <5>1, <1>1, Numbers
        <5> QED
          BY <5>2, Zenon DEF b
      <4> QED
        BY <4>1, <4>2, <1>3, Zenon
    <3> QED
      BY <3>2, <3>3, <1>1, <1>2, Zenon
  <2> QED
    BY <2>0, <2>1, <1>2, Zenon DEF RunInv
<1>7. OrderInv'
  <2>0. OrderInv
    BY Zenon DEF IInv
  <2>1. consumed <= fence => consumed <= fence'
    BY <1>1, Numbers
  <2> QED
    BY <2>0, <2>1, <1>1, <1>2, <1>3 DEF OrderInv
<1>8. LatencyInv'
  <2>1. CASE generation' = generation /\ fence' = fence
    BY <2>1, <1>2 DEF IInv, LatencyInv
  <2>2. CASE generation' = generation + 1 /\ fence' = written
    <3>1. superseded' = 0
      BY <2>2, Numbers
    <3>2. 0 \in 0..PassBudget /\ 0 + budget <= PassBudget
      BY Numbers, DrainConstants
    <3>3. 0 + budget - accepted <= PassBudget
      BY Numbers, DrainConstants
    <3> QED
      BY <3>1, <3>2, <3>3, <1>2 DEF LatencyInv
  <2> QED
    BY <2>1, <2>2, <1>1, Zenon
<1>9. raced' \/ NoOverrun'
  BY Zenon, <1>1
<1> QED
  BY <1>1, <1>4, <1>5, <1>6, <1>7, <1>8, <1>9 DEF IInv

LEMMA NextKeeps == IInv /\ [Next]_vars => IInv'
<1> SUFFICES ASSUME IInv, Next PROVE IInv'
  BY StutterKeeps, Zenon
<1>1. ASSUME DrainStep, UNCHANGED sink PROVE IInv'
  BY <1>1, CheckGenerationKeeps, DrainResetKeeps, BoundaryAtTailKeeps, PollKeeps,
     CopyRunIntoKeeps, WriteFramesKeeps, WriteUnderrunKeeps, WriteFatalKeeps,
     AdvanceTailKeeps DEF DrainStep
<1> QED
  BY <1>1, SinkStepKeeps, FallbackElapsesKeeps DEF Next

(* The inductive invariant holds throughout, with or without a race. *)
THEOREM DrainInvariance == Spec => []IInv
<1>1. Init => IInv
  BY InitHolds, Zenon
<1>2. IInv /\ [Next]_vars => IInv'
  BY NextKeeps, Zenon
<1> QED
  BY <1>1, <1>2, PTL DEF Spec

(* For every ring, frame, write unit and pass budget: through wrap splits,  *)
(* short writes, underrun retries and marks pushed mid-pass the device gets *)
(* every banked byte once and in order, a reset skips only what was banked  *)
(* before it, and after one at most a pass's worth of superseded audio      *)
(* still plays ("a short write leaves the rest banked").                    *)
THEOREM PlaybackPlaysInOrder == Spec => []PlaysInOrder
<1>1. IInv => PlaysInOrder
  <2> SUFFICES ASSUME IInv PROVE PlaysInOrder
    OBVIOUS
  <2>1. raced \/ inOrder
    BY Zenon DEF IInv, OrderInv
  <2>2. superseded <= PassBudget
    BY Numbers
  <2> QED
    BY <2>1, <2>2, Zenon DEF PlaysInOrder
<1> QED
  BY <1>1, DrainInvariance, PTL

(* For every instance: the ring and the drain stay within their types and   *)
(* bounds, and until a reset lands inside a pass neither end of the ring    *)
(* overruns the other and what is banked is what was written.               *)
THEOREM PlaybackRingStaysSound == Spec => []RingStaysSound
<1>1. IInv => RingStaysSound
  <2> SUFFICES ASSUME IInv PROVE RingStaysSound
    OBVIOUS
  <2>1. RingTypeOK
    BY Zenon DEF IInv, RingInv
  <2>2. superseded \in Nat
    BY Numbers
  <2>3. TypeOK
    BY <2>1, <2>2 DEF TypeOK, IInv, LocalInv
  <2>4. raced \/ (NoOverrun /\ BankedBytesIntact)
    BY Locals, Banked, Zenon
  <2> QED
    BY <2>3, <2>4, Zenon DEF RingStaysSound
<1> QED
  BY <1>1, DrainInvariance, PTL
=============================================================================
