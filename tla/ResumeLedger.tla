----------------------------- MODULE ResumeLedger -----------------------------
(***************************************************************************)
(* The cross-connection resume ledger of pod-ingest session.rs, as         *)
(* operators on its value: which truncated segments of which pods a later  *)
(* connection may take up again.  Each operator is one critical section of *)
(* the ledger's mutex.  The eviction counters are left out.                *)
(***************************************************************************)
EXTENDS Integers, Sequences, Functions

CONSTANTS PerPodCap,   \* PER_POD_CAP: truncated ids kept per pod
          MaxPods      \* MAX_PODS: pods tracked

ASSUME LedgerAssumption == PerPodCap \in Nat \ {0} /\ MaxPods \in Nat \ {0}

(* position and remove: an order queue lists an element once. *)
Without(order, e) == SelectSeq(order, LAMBDA o : o # e)

NoEntries == [members |-> {}, order |-> <<>>]

EmptyLedger == [per_pod |-> <<>>, pod_order |-> <<>>]

Entries(L, pod) == IF pod \in DOMAIN L.per_pod THEN L.per_pod[pod] ELSE NoEntries

Resumable(L, pod, id) == id \in Entries(L, pod).members

(* One pod's ids with id added; past the cap the oldest id goes. *)
WithId(e, id) ==
  IF id \in e.members THEN e
  ELSE LET order == Append(e.order, id)
       IN  IF Len(order) > PerPodCap
             THEN [members |-> (e.members \cup {id}) \ {Head(order)},
                   order   |-> Tail(order)]
             ELSE [members |-> e.members \cup {id}, order |-> order]

(* touch_pod *)
Touched(pod_order, pod) == Append(Without(pod_order, pod), pod)

(* evict_pods_over_cap: the loop runs at most once, a note adds one pod. *)
Kept(pod_order) ==
  IF Len(pod_order) > MaxPods THEN Tail(pod_order) ELSE pod_order

NoteTruncated(L, pod, id) ==
  LET order == Kept(Touched(L.pod_order, pod))
      entry == WithId(Entries(L, pod), id)
  IN  [per_pod   |-> [p \in Range(order) |->
                        IF p = pod THEN entry ELSE L.per_pod[p]],
       pod_order |-> order]

WithoutId(e, id) == [members |-> e.members \ {id}, order |-> Without(e.order, id)]

Gone(pod, entry) == IF entry.members = {} THEN {pod} ELSE {}

(* The ledger once take_resume found id; a pod left with no id is dropped. *)
Taken(L, pod, id) ==
  LET entry == WithoutId(L.per_pod[pod], id)
      gone  == Gone(pod, entry)
  IN  [per_pod   |-> [p \in DOMAIN L.per_pod \ gone |->
                        IF p = pod THEN entry ELSE L.per_pod[p]],
       pod_order |-> IF gone = {} THEN L.pod_order ELSE Without(L.pod_order, pod)]

TakeResume(L, pod, id) ==
  [found  |-> Resumable(L, pod, id),
   ledger |-> IF Resumable(L, pod, id) THEN Taken(L, pod, id) ELSE L]

(* What both evictions and take_resume rely on: the order queues list exactly
   the members, once, within the caps, and no pod is kept without an id. *)
Sound(L) ==
  /\ \A pod \in DOMAIN L.per_pod :
       LET e == L.per_pod[pod]
       IN  /\ e.members = Range(e.order) /\ IsInjective(e.order)
           /\ Len(e.order) \in 1..PerPodCap
  /\ DOMAIN L.per_pod = Range(L.pod_order) /\ IsInjective(L.pod_order)
  /\ Len(L.pod_order) <= MaxPods
=============================================================================
