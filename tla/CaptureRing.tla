----------------------------- MODULE CaptureRing -----------------------------
(***************************************************************************)
(* The microphone ring of audio-pipeline ring.rs: absolute sample indices  *)
(* over RingCap slots.  The capture thread writes one chunk per lock hold; *)
(* sample number i holds the value i, so what a slot holds is the latest   *)
(* index written to it.                                                    *)
(***************************************************************************)
EXTENDS Integers, Sequences, FiniteSetsExt

CONSTANTS RingCap,     \* RING_CAPACITY_SAMPLES
          Preroll,     \* PREROLL_SAMPLES
          MaxChunk,    \* largest chunk of one capture read
          MaxHead      \* bound on samples ever captured

ASSUME RingAssumption ==
  /\ RingCap \in Nat \ {0} /\ Preroll \in Nat
  /\ MaxChunk \in Nat \ {0} /\ MaxHead \in Nat

VARIABLE write_head

held(head)   == IF head < RingCap THEN head ELSE RingCap
oldest(head) == head - held(head)

preroll_cursor(head) ==
  LET target == IF head < Preroll THEN 0 ELSE head - Preroll
  IN  Max({target, oldest(head)})

is_overrun(head, cursor) == head > cursor + RingCap

available(head, cursor) == IF head < cursor THEN 0 ELSE head - cursor

(* push_pcm_samples: what the slots of first .. first + count - 1 hold.   *)
SlotValue(head, i) == CHOOSE j \in (head - RingCap)..(head - 1) :
                         j % RingCap = i % RingCap

push_pcm_samples(head, first, count) ==
  [k \in 1..count |-> SlotValue(head, first + k - 1)]

(* The capture thread: one chunk under the lock. *)
CaptureChunk(k) ==
  /\ write_head + k <= MaxHead
  /\ write_head' = write_head + k

=============================================================================
