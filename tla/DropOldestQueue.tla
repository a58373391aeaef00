--------------------------- MODULE DropOldestQueue ---------------------------
(***************************************************************************)
(* The two-lane FIFO between the assembler / listener tasks and the       *)
(* pipeline task (speech-pipeline queue.rs).  Senders and the single      *)
(* receiver run on different tokio workers; each action below is one      *)
(* critical section or one atomic access, so the interleavings are the    *)
(* ones the mutex and the atomics leave open.                             *)
(*                                                                         *)
(* The payload is abstracted to a stamp: the position of the push in lock *)
(* order.  tokio's Notify is external: notify_one stores a permit,        *)
(* notify_waiters completes every Notified future that already exists.    *)
(***************************************************************************)
EXTENDS Integers, Sequences, FiniteSets, SequencesExt

CONSTANTS Sender,     \* the sender handles that may ever exist
          Capacity,   \* bound of the sheddable lane
          MaxPush     \* bound on accepted pushes and on counted failures

ASSUME CapacityAssumption == Capacity \in Nat \ {0}
ASSUME SenderAssumption == Sender # {} /\ IsFiniteSet(Sender)
ASSUME MaxPushAssumption == MaxPush \in Nat

VARIABLES
  items,               \* Buffer.items: sequence of entries [id, sheddable]
  sheddable_len,       \* Buffer.sheddable_len
  pushed,              \* counters, all monotone
  dropped_oldest,
  bookkeeping_faults,
  send_failures,
  high_water,
  reliable_high_water,
  senders,             \* live Sender count
  closed,              \* set by the Receiver's Drop
  permit,              \* Notify: a stored notify_one permit
  waiters_calls,       \* Notify: how often notify_waiters was called
  spc,                 \* per handle: where it stands in push / drop
  lane,                \* per handle: the lane of the push in progress
  evicted,             \* per handle: did its push displace an entry
  rpc,                 \* where the receiver stands in recv / drop
  seen_calls           \* waiters_calls when the Notified was created

counters == <<pushed, dropped_oldest, bookkeeping_faults, send_failures,
              high_water, reliable_high_water>>
buffer   == <<items, sheddable_len>>
notify   == <<permit, waiters_calls>>
handles  == <<spc, lane, evicted>>
receiver == <<rpc, seen_calls>>
vars == <<buffer, counters, senders, closed, notify, handles, receiver>>

Entry == [id : Nat \ {0}, sheddable : BOOLEAN]

Larger(a, b) == IF a > b THEN a ELSE b
Sheddable(q) == {e \in Range(q) : e.sheddable}
Reliable(q)  == {e \in Range(q) : ~e.sheddable}

(* DropOldestQueue::new: one sender handle, one receiver. *)
Init ==
  /\ items = <<>> /\ sheddable_len = 0
  /\ pushed = 0 /\ dropped_oldest = 0 /\ bookkeeping_faults = 0
  /\ send_failures = 0 /\ high_water = 0 /\ reliable_high_water = 0
  /\ senders = 1
  /\ closed = FALSE
  /\ permit = FALSE /\ waiters_calls = 0
  /\ \E s \in Sender :
       spc = [t \in Sender |-> IF t = s THEN "idle" ELSE "unborn"]
  /\ lane = [s \in Sender |-> FALSE]
  /\ evicted = [s \in Sender |-> FALSE]
  /\ rpc = "idle" /\ seen_calls = 0

-----------------------------------------------------------------------------
(* Senders *)

(* senders.fetch_add(1) *)
SendersAfterClone == senders + 1

(* Clone for Sender. *)
CloneSender(s, t) ==
  /\ spc[s] = "idle" /\ spc[t] = "unborn"
  /\ senders' = SendersAfterClone
  /\ spc' = [spc EXCEPT ![t] = "idle"]
  /\ UNCHANGED <<buffer, counters, closed, notify, lane, evicted, receiver>>

(* send_sheddable / send_reliable up to the pre-lock closed_send check. *)
PushCheck(s, sheddable) ==
  /\ spc[s] = "idle"
  /\ pushed + send_failures < MaxPush
  /\ IF closed
       THEN /\ send_failures' = send_failures + 1
            /\ UNCHANGED handles
       ELSE /\ spc' = [spc EXCEPT ![s] = "push"]
            /\ lane' = [lane EXCEPT ![s] = sheddable]
            /\ UNCHANGED <<evicted, send_failures>>
  /\ UNCHANGED <<buffer, pushed, dropped_oldest, bookkeeping_faults,
                 high_water, reliable_high_water, senders, closed, notify,
                 receiver>>

(* The re-check of closed inside the lock.  The variant drops it. *)
ClosedUnchecked == FALSE
ClosedUnderLock == closed

(* q.items.push_back. *)
PushBack(q, e) == Append(q, e)

(* The variant evicts the head whatever its lane. *)
VictimHead(q) == 1

(* The position of the entry an over-full sheddable lane evicts: the oldest
   sheddable one, skipping reliable entries at the head. *)
Victim(q) == CHOOSE i \in DOMAIN q : q[i].sheddable /\
                \A j \in DOMAIN q : q[j].sheddable => i <= j

(* push inside the lock. *)
PushLocked(s) ==
  /\ spc[s] = "push"
  /\ \/ /\ ClosedUnderLock
        /\ send_failures' = send_failures + 1
        /\ spc' = [spc EXCEPT ![s] = "idle"]
        /\ UNCHANGED <<buffer, pushed, bookkeeping_faults, high_water,
                       reliable_high_water, evicted>>
     \/ /\ ~ClosedUnderLock
        /\ pushed' = pushed + 1
        /\ LET q        == PushBack(items, [id |-> pushed + 1,
                                            sheddable |-> lane[s]])
               n        == sheddable_len + (IF lane[s] THEN 1 ELSE 0)
               overflow == lane[s] /\ n > Capacity
               found    == overflow /\ Sheddable(q) # {}
               v        == Victim(q)
           IN  /\ items' = IF found THEN RemoveAt(q, v) ELSE q
               /\ sheddable_len' = IF found THEN n - 1 ELSE n
               /\ evicted' = [evicted EXCEPT ![s] = found]
               /\ bookkeeping_faults' =
                    bookkeeping_faults + (IF overflow /\ ~found THEN 1 ELSE 0)
        /\ high_water' = Larger(high_water, Len(items'))
        /\ reliable_high_water' =
             IF lane[s] THEN reliable_high_water
             ELSE Larger(reliable_high_water, Len(items') - sheddable_len')
        /\ spc' = [spc EXCEPT ![s] = "notify"]
        /\ UNCHANGED send_failures
  /\ UNCHANGED <<dropped_oldest, senders, closed, notify, lane, receiver>>

(* notify_one stores a permit even when nobody waits yet.  The variant
   forgets the call. *)
NotifyForgotten == permit' = permit
NotifyOne == permit' = TRUE

(* push after the unlock: count the displaced item, then notify_one. *)
PushNotify(s) ==
  /\ spc[s] = "notify"
  /\ dropped_oldest' = dropped_oldest + (IF evicted[s] THEN 1 ELSE 0)
  /\ NotifyOne
  /\ spc' = [spc EXCEPT ![s] = "idle"]
  /\ UNCHANGED <<buffer, pushed, bookkeeping_faults, send_failures,
                 high_water, reliable_high_water, senders, closed,
                 waiters_calls, lane, evicted, receiver>>

(* fetch_sub returns the count before the subtraction.  The variant compares
   it with zero. *)
NoHandleLeft == senders = 0
LastHandle == senders = 1

(* Drop for Sender: the fetch_sub ... *)
DropSender(s) ==
  /\ spc[s] = "idle"
  /\ senders' = senders - 1
  /\ spc' = [spc EXCEPT ![s] = IF LastHandle THEN "wake" ELSE "gone"]
  /\ UNCHANGED <<buffer, counters, closed, notify, lane, evicted, receiver>>

(* ... and, for the last handle, notify_waiters. *)
DropNotify(s) ==
  /\ spc[s] = "wake"
  /\ waiters_calls' = waiters_calls + 1
  /\ spc' = [spc EXCEPT ![s] = "gone"]
  /\ UNCHANGED <<buffer, counters, senders, closed, permit, lane, evicted,
                 receiver>>

-----------------------------------------------------------------------------
(* The receiver *)

(* recv registers for a notification before it looks at the queue. *)
RecvRegister ==
  /\ rpc = "idle"
  /\ rpc' = "registered"
  /\ seen_calls' = waiters_calls
  /\ UNCHANGED <<buffer, counters, senders, closed, notify, handles>>

(* recv inside the lock: an item, the end, or wait. *)
RecvLocked ==
  /\ rpc = "registered"
  /\ IF items # <<>>
       THEN /\ items' = Tail(items)
            /\ sheddable_len' =
                 sheddable_len - (IF Head(items).sheddable THEN 1 ELSE 0)
            /\ rpc' = "idle"
       ELSE /\ rpc' = IF senders = 0 THEN "ended" ELSE "parked"
            /\ UNCHANGED buffer
  /\ UNCHANGED <<counters, senders, closed, notify, handles, seen_calls>>

(* notified.await completes: by the permit, which it consumes, or by a
   notify_waiters call made since the future was created.  The loop then
   registers again. *)
RecvWake ==
  /\ rpc = "parked"
  /\ \/ permit /\ permit' = FALSE
     \/ waiters_calls # seen_calls /\ UNCHANGED permit
  /\ rpc' = "registered"
  /\ seen_calls' = waiters_calls
  /\ UNCHANGED <<buffer, counters, senders, closed, waiters_calls, handles>>

(* The pipeline's select! drops a pending recv when another branch wins.  A
   Notified that is dropped hands an unconsumed permit back. *)
RecvCancel ==
  /\ rpc = "parked"
  /\ rpc' = "idle"
  /\ UNCHANGED <<buffer, counters, senders, closed, notify, handles,
                 seen_calls>>

(* Drop for Receiver: the store of closed, before the lock ... *)
ReceiverDrop ==
  /\ rpc \in {"idle", "ended"}
  /\ closed' = TRUE
  /\ rpc' = "closing"
  /\ UNCHANGED <<buffer, counters, senders, notify, handles, seen_calls>>

(* ... and the sweep under the lock. *)
ReceiverSweep ==
  /\ rpc = "closing"
  /\ items' = <<>> /\ sheddable_len' = 0
  /\ rpc' = "closed"
  /\ UNCHANGED <<counters, senders, closed, notify, handles, seen_calls>>

-----------------------------------------------------------------------------
SenderStep(s) == PushLocked(s) \/ PushNotify(s) \/ DropNotify(s)
ReceiverStep  == RecvRegister \/ RecvLocked \/ RecvWake

Next ==
  \/ \E s, t \in Sender : CloneSender(s, t)
  \/ \E s \in Sender, sheddable \in BOOLEAN : PushCheck(s, sheddable)
  \/ \E s \in Sender : PushLocked(s)
  \/ \E s \in Sender : PushNotify(s)
  \/ \E s \in Sender : DropSender(s)
  \/ \E s \in Sender : DropNotify(s)
  \/ RecvRegister
  \/ RecvLocked
  \/ RecvWake
  \/ RecvCancel
  \/ ReceiverDrop
  \/ ReceiverSweep

Spec == Init /\ [][Next]_vars

(* A task inside push, Drop or recv is eventually scheduled again; whether a
   further send, clone or drop ever happens is the caller's choice.  A waiting
   recv may be cancelled any number of times, so its wake-up needs strong
   fairness only through the re-registration, which is not cancellable. *)
FairSpec ==
  /\ Spec
  /\ \A s \in Sender : WF_vars(SenderStep(s))
  /\ WF_vars(ReceiverStep)
  /\ WF_vars(ReceiverSweep)

-----------------------------------------------------------------------------
(* Properties *)

TypeOK ==
  /\ items \in Seq(Entry) /\ sheddable_len \in Int
  /\ pushed \in Nat /\ dropped_oldest \in Nat /\ bookkeeping_faults \in Nat
  /\ send_failures \in Nat /\ high_water \in Nat
  /\ reliable_high_water \in Int
  /\ senders \in Nat /\ closed \in BOOLEAN
  /\ permit \in BOOLEAN /\ waiters_calls \in Nat
  /\ spc \in [Sender -> {"unborn", "idle", "push", "notify", "wake", "gone"}]
  /\ lane \in [Sender -> BOOLEAN] /\ evicted \in [Sender -> BOOLEAN]
  /\ rpc \in {"idle", "registered", "parked", "ended", "closing", "closed"}
  /\ seen_calls \in Nat

(* "The quantity capacity bounds, and never above it" and "always 0 in a
   correct build" (QueueStats): the running lane count is the number of
   sheddable entries buffered, never exceeds the capacity, and the eviction
   scan always finds a victim, whatever the interleaving of pushes, pops and
   the closing sweep. *)
LaneAccounting ==
  /\ sheddable_len = Cardinality(Sheddable(items))
  /\ sheddable_len <= Capacity
  /\ bookkeeping_faults = 0

(* No lost wake-up: while recv is parked on a non-empty queue or after the
   last sender left, a wake-up is stored or some sender is still about to
   deliver one. *)
NoLostWakeup ==
  rpc = "parked" =>
    /\ items # <<>> => permit \/ \E s \in Sender : spc[s] = "notify"
    /\ senders = 0 => \/ permit \/ waiters_calls # seen_calls
                      \/ \E s \in Sender : spc[s] = "wake"

(* The drop/send race is closed: once the receiver's Drop has swept, no
   racing send ever leaves an item in the orphaned buffer. *)
NoOrphans == rpc = "closed" => items = <<>> /\ sheddable_len = 0

(* The queue implements its abstract promise: each critical section is one
   Put, Take, Close or Discard of TwoLaneFifo, everything else is internal. *)
Promise == INSTANCE TwoLaneFifo
             WITH buffered <- Range(items), last <- pushed, open <- ~closed
ImplementsTwoLaneFifo == Promise!Spec

(* Every buffered item is eventually taken, displaced or swept; and "returns
   None once every Sender has dropped and both lanes have drained": a receiver
   that keeps receiving learns of the end. *)
EveryItemLeaves ==
  /\ \A n \in 1..MaxPush :
       (\E e \in Range(items) : e.id = n) ~> ~(\E e \in Range(items) : e.id = n)
  /\ (senders = 0) ~> (rpc \in {"ended", "closing", "closed"})

=============================================================================
