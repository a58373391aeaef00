---------------------------- MODULE InboundPcmRing ----------------------------
(***************************************************************************)
(* The byte ring between the streamer thread (producer) and the playback   *)
(* drain (consumer): audio-pipeline playback.rs.  Every operator below is  *)
(* one critical section of the ring's mutex.                               *)
(*                                                                         *)
(* A byte is abstracted to its stamp, the number of bytes written up to    *)
(* and including it, so a property can tell which byte was read.  written  *)
(* and consumed are the unwrapped counters head and tail stand for.        *)
(***************************************************************************)
EXTENDS Integers, Sequences, FiniteSetsExt

CONSTANTS Cap,       \* ring capacity
          Modulus,   \* 2^32: the counters wrap at this value
          MarkCap    \* RING_EOA_MARK_CAP

ASSUME RingAssumption ==
  /\ Cap \in Nat \ {0} /\ MarkCap \in Nat \ {0}
  /\ Modulus \in Nat /\ Modulus > Cap
  /\ Modulus % Cap = 0   \* INBOUND_PCM_RING_BYTES = 65_536

VARIABLES
  head, tail,           \* wrapping counters
  generation,           \* bumped by every reset
  head_at_reset,
  buf,                  \* slot -> stamp of the byte it holds (0: none yet)
  marks,                \* FIFO of [pos, generation]
  written,              \* history: bytes ever written
  consumed,             \* history: bytes consumed or dropped, unwrapped
  fence                 \* history: value of written at the latest reset

ring == <<head, tail, generation, head_at_reset, buf, marks, written,
          consumed, fence>>

WrappingAdd(a, n) == (a + n) % Modulus
WrappingSub(a, b) == (a - b) % Modulus
Used == WrappingSub(head, tail)

RingInit ==
  /\ head = 0 /\ tail = 0
  /\ generation = 0 /\ head_at_reset = 0
  /\ buf = [s \in 0..Cap-1 |-> 0]
  /\ marks = <<>>
  /\ written = 0 /\ consumed = 0 /\ fence = 0

-----------------------------------------------------------------------------
(* Producer *)

(* The variant is off by one. *)
HasRoomOffByOne(need) == Used > Cap \/ Cap - Used + 1 >= need

(* cap - used >= need.  used > cap makes the usize subtraction wrap to a huge
   value in the release build, so the write is then let through. *)
HasRoom(need) == Used > Cap \/ Cap - Used >= need

(* write, when there is room: at most two runs, split at the end of buf. *)
Write(need) ==
  /\ HasRoom(need)
  /\ buf' = [s \in 0..Cap-1 |->
               LET off == (s - (head % Cap)) % Cap
               IN  IF off < need THEN written + 1 + off ELSE buf[s]]
  /\ head' = WrappingAdd(head, need)
  /\ written' = written + need
  /\ UNCHANGED <<tail, generation, head_at_reset, marks, consumed, fence>>

Reset ==
  /\ generation' = generation + 1
  /\ head_at_reset' = head
  /\ fence' = written
  /\ UNCHANGED <<head, tail, buf, marks, written, consumed>>

(* push_mark: a full FIFO drops its oldest mark. *)
MarkEndOfAudio ==
  /\ LET kept == IF Len(marks) = MarkCap THEN Tail(marks) ELSE marks
     IN  marks' = Append(kept, [pos |-> head, generation |-> generation])
  /\ UNCHANGED <<head, tail, generation, head_at_reset, buf, written,
                 consumed, fence>>

-----------------------------------------------------------------------------
(* Consumer *)

(* copy_run_into: the contiguous run at tail, cut at the next mark ahead. *)
CopyRun(max_run) ==
  LET start  == tail % Cap
      base_n == Min({Used, max_run, Cap - start})
      dist   == WrappingSub(marks[1].pos, tail)
      atMark == marks # <<>> /\ dist > 0 /\ dist <= base_n
      n      == IF atMark THEN dist ELSE base_n
  IN  [bytes |-> [i \in 1..n |-> buf[start + i - 1]],
       generation |-> generation,
       reached_end_of_audio |-> atMark]

MarkAt(pos) == marks # <<>> /\ marks[1].pos = pos

(* pop_mark_if_at *)
PopMarkIfAt(pos) == marks' = IF MarkAt(pos) THEN Tail(marks) ELSE marks

TakeMarkAtTail ==
  /\ PopMarkIfAt(tail)
  /\ UNCHANGED <<head, tail, generation, head_at_reset, buf, written,
                 consumed, fence>>

(* advance reports MarkAt(WrappingAdd(tail, n)). *)
Advance(n) ==
  /\ tail' = WrappingAdd(tail, n)
  /\ consumed' = consumed + n
  /\ PopMarkIfAt(WrappingAdd(tail, n))
  /\ UNCHANGED <<head, generation, head_at_reset, buf, written, fence>>

(* discard_dead_generation_marks: one mark after the other, those of the
   current generation are kept in order. *)
LiveMarks ==
  LET kept[n \in 0..Len(marks)] ==
        IF n = 0 THEN <<>>
        ELSE IF marks[n].generation = generation
          THEN Append(kept[n - 1], marks[n]) ELSE kept[n - 1]
  IN  kept[Len(marks)]

(* apply_reset: discard marks of superseded generations, jump to the reset
   position. *)
ApplyReset ==
  /\ marks' = LiveMarks
  /\ tail' = head_at_reset
  /\ consumed' = fence
  /\ UNCHANGED <<head, generation, head_at_reset, buf, written, fence>>

-----------------------------------------------------------------------------
RingTypeOK ==
  /\ head \in 0..Modulus-1 /\ tail \in 0..Modulus-1
  /\ generation \in Nat /\ head_at_reset \in 0..Modulus-1
  /\ buf \in [0..Cap-1 -> 0..written]
  /\ marks \in Seq([pos : 0..Modulus-1, generation : 0..generation])
  /\ Len(marks) <= MarkCap
  /\ written \in Nat /\ consumed \in Nat /\ fence \in 0..written

(* The consumer never overtakes the producer and the producer never
   overwrites a byte the consumer has not released: the two conditions every
   wrapping subtraction in the ring relies on (write's cap - used, advance's
   debug_assert). *)
NoOverrun == consumed <= written /\ written - consumed <= Cap

(* "resets move tail only to a previously-written position", "reads are
   bounded to [tail, head)", "no 2^32 % cap == 0 requirement": the slots the
   reader visits next hold the bytes the producer wrote, in order. *)
BankedBytesIntact ==
  \A i \in 1..Used : buf[WrappingAdd(tail, i - 1) % Cap] = consumed + i

(* Every pending end-of-audio mark is still ahead of the drain: the consumer
   has not run past a boundary without observing it. *)
MarksAhead == \A i \in DOMAIN marks : WrappingSub(marks[i].pos, tail) <= Used

=============================================================================
