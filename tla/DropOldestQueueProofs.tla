------------------------ MODULE DropOldestQueueProofs ------------------------
(***************************************************************************)
(* For every set of sender handles and every capacity: the lane           *)
(* accounting never drifts, no wake-up is lost, nothing is left behind    *)
(* after the closing sweep, and the queue implements TwoLaneFifo.         *)
(***************************************************************************)
EXTENDS DropOldestQueue, FiniteSetTheorems, SequenceTheorems,
        WellFoundedInduction, TLAPS

(* Entries are stamped in push order, so a buffer is sorted by stamp. *)
Sorted(q) == \A i, j \in 1..Len(q) : i < j => q[i].id < q[j].id

-----------------------------------------------------------------------------
(* Lemmas about the three ways the buffer changes. *)

LEMMA RangeIsImage ==
  ASSUME NEW q \in Seq(Entry)
  PROVE  /\ \A e : e \in Range(q) <=> \E i \in 1..Len(q) : q[i] = e
         /\ q # <<>> <=> Range(q) # {}
BY DEF Range

(* push_back of a younger entry. *)
LEMMA AppendSorted ==
  ASSUME NEW q \in Seq(Entry), NEW e \in Entry, Sorted(q),
         \A f \in Range(q) : f.id < e.id
  PROVE  /\ Append(q, e) \in Seq(Entry)
         /\ Append(q, e) # <<>>
         /\ Sorted(Append(q, e))
         /\ Range(Append(q, e)) = Range(q) \cup {e}
         /\ e \notin Range(q)
<1> DEFINE r == Append(q, e)
<1>1. /\ r \in Seq(Entry) /\ Len(r) = Len(q) + 1 /\ r # <<>>
      /\ \A i \in 1..Len(q) : r[i] = q[i]
      /\ r[Len(q) + 1] = e
  BY AppendProperties
<1>2. \A i \in 1..Len(q) : q[i].id < e.id
  BY RangeIsImage, Zenon
<1> HIDE DEF r
<1>3. Sorted(r)
  <2> SUFFICES ASSUME NEW i \in 1..Len(q) + 1, NEW j \in 1..Len(q) + 1, i < j
               PROVE  r[i].id < r[j].id
    BY <1>1, Zenon DEF Sorted
  <2>1. i \in 1..Len(q) /\ r[i] = q[i]
    BY <1>1
  <2>2. CASE j = Len(q) + 1
    BY <2>1, <2>2, <1>1, <1>2, Zenon
  <2>3. CASE j # Len(q) + 1
    <3>1. j \in 1..Len(q) /\ r[j] = q[j]
      BY <2>3, <1>1
    <3>. QED  BY <3>1, <2>1, Zenon DEF Sorted
  <2>. QED  BY <2>2, <2>3, Zenon
<1>4. Range(r) = Range(q) \cup {e}
  <2>1. \A x : (\E i \in 1..Len(q) + 1 : r[i] = x) <=>
               (\E i \in 1..Len(q) : q[i] = x) \/ x = e
    BY <1>1
  <2>2. /\ \A x : x \in Range(r) <=> \E i \in 1..Len(q) + 1 : r[i] = x
        /\ \A x : x \in Range(q) <=> \E i \in 1..Len(q) : q[i] = x
    BY <1>1, RangeIsImage
  <2>. QED  BY <2>1, <2>2, Zenon
<1>5. e \notin Range(q)
  BY DEF Entry
<1>. QED  BY <1>1, <1>3, <1>4, <1>5, Zenon DEF r

(* pop_front. *)
LEMMA TailSorted ==
  ASSUME NEW q \in Seq(Entry), q # <<>>, Sorted(q)
  PROVE  /\ Tail(q) \in Seq(Entry)
         /\ Sorted(Tail(q))
         /\ Range(Tail(q)) = Range(q) \ {Head(q)}
         /\ Head(q) \in Range(q)
         /\ \A f \in Range(q) : Head(q).id <= f.id
<1> DEFINE r == Tail(q)
<1>1. /\ r \in Seq(Entry) /\ Len(r) = Len(q) - 1
      /\ \A i \in 1..Len(r) : r[i] = q[i + 1]
      /\ Head(q) = q[1] /\ Len(q) \in Nat \ {0}
  BY HeadTailProperties, EmptySeq
<1> HIDE DEF r
<1>2. Sorted(r)
  BY <1>1 DEF Sorted
<1>3. \A i \in 1..Len(q) : q[i] \in Entry
  BY ElementOfSeq, Zenon
<1>4. /\ \A i \in 2..Len(q) : q[1].id < q[i].id
      /\ \A i \in 1..Len(q) : q[1].id <= q[i].id
  BY <1>1, <1>3 DEF Sorted, Entry
<1>5. \A i \in 2..Len(q) : q[i] # q[1]
  BY <1>1, <1>3, <1>4 DEF Entry
<1>6. Range(r) = Range(q) \ {Head(q)}
  <2>1. \A x : (\E i \in 1..Len(r) : r[i] = x) =>
               (\E i \in 1..Len(q) : q[i] = x) /\ x # q[1]
    BY <1>1, <1>5
  <2>2. \A x : (\E i \in 1..Len(q) : q[i] = x) /\ x # q[1] =>
               (\E i \in 1..Len(r) : r[i] = x)
    <3> SUFFICES ASSUME NEW x, NEW i \in 1..Len(q), q[i] = x, x # q[1]
                 PROVE  \E j \in 1..Len(r) : r[j] = x
      OBVIOUS
    <3>1. i - 1 \in 1..Len(r) /\ r[i - 1] = x
      BY <1>1
    <3>. QED  BY <3>1, Zenon
  <2>3. \A x : x \in Range(r) <=> x \in Range(q) /\ x # q[1]
    BY <2>1, <2>2, <1>1, RangeIsImage, Zenon
  <2>. QED  BY <2>3, <1>1, Zenon
<1>7. Head(q) \in Range(q) /\ \A f \in Range(q) : Head(q).id <= f.id
  BY <1>1, <1>4, RangeIsImage
<1>. QED  BY <1>1, <1>2, <1>6, <1>7, Zenon DEF r

(* remove(i) somewhere in the middle. *)
LEMMA RemoveSorted ==
  ASSUME NEW q \in Seq(Entry), NEW v \in 1..Len(q), Sorted(q)
  PROVE  /\ RemoveAt(q, v) \in Seq(Entry)
         /\ Sorted(RemoveAt(q, v))
         /\ Range(RemoveAt(q, v)) = Range(q) \ {q[v]}
<1> DEFINE a == SubSeq(q, 1, v - 1)
           b == SubSeq(q, v + 1, Len(q))
           r == RemoveAt(q, v)
<1>0. \A i \in 1..Len(q) : q[i] \in Entry
  BY ElementOfSeq, Zenon
<1>1. /\ a \in Seq(Entry) /\ Len(a) = v - 1
      /\ \A i \in 1..v - 1 : a[i] = q[i]
  <2>1. \A i \in 1..v - 1 : q[i] \in Entry
    BY <1>0
  <2>. QED  BY <2>1, SubSeqProperties, Z3
<1>2. /\ b \in Seq(Entry) /\ Len(b) = Len(q) - v
      /\ \A i \in 1..Len(q) - v : b[i] = q[v + i]
  <2>1. \A i \in v + 1..Len(q) : q[i] \in Entry
    BY <1>0
  <2>. QED  BY <2>1, SubSeqProperties, Z3
<1>3. /\ r \in Seq(Entry) /\ Len(r) = Len(q) - 1
      /\ \A i \in 1..Len(q) - 1 : r[i] = IF i < v THEN q[i] ELSE q[i + 1]
  <2>1. /\ a \o b \in Seq(Entry) /\ Len(a \o b) = Len(a) + Len(b)
        /\ \A i \in 1..Len(a) + Len(b) :
              (a \o b)[i] = IF i <= Len(a) THEN a[i] ELSE b[i - Len(a)]
    BY <1>1, <1>2, ConcatProperties, Zenon
  <2>2. r = a \o b
    BY Zenon DEF RemoveAt
  <2> HIDE DEF a, b, r
  <2>3. Len(r) = Len(q) - 1
    <3>1. Len(r) = Len(a) + Len(b)
      BY <2>1, <2>2, Zenon
    <3>2. Len(a) = v - 1 /\ Len(b) = Len(q) - v /\ Len(q) \in Nat
      BY <1>1, <1>2, LenProperties, Zenon
    <3>. QED  BY <3>1, <3>2
  <2>4. ASSUME NEW i \in 1..Len(q) - 1
        PROVE  r[i] = IF i < v THEN q[i] ELSE q[i + 1]
    <3>1. i \in 1..Len(a) + Len(b)
      BY <1>1, <1>2
    <3>2. CASE i < v
      BY <3>1, <3>2, <2>1, <2>2, <1>1
    <3>3. CASE i >= v
      <4>1. r[i] = b[i - (v - 1)]
        BY <3>1, <3>3, <2>1, <2>2, <1>1
      <4>2. i - (v - 1) \in 1..Len(q) - v
        BY <3>3
      <4>3. b[i - (v - 1)] = q[v + (i - (v - 1))]
        BY <4>2, <1>2, Zenon
      <4>. QED  BY <4>1, <4>3, <3>3
    <3>. QED  BY <3>2, <3>3
  <2>. QED  BY <2>1, <2>2, <2>3, <2>4, Zenon
<1> HIDE DEF r
<1>4. Sorted(r)
  <2> SUFFICES ASSUME NEW i \in 1..Len(q) - 1, NEW j \in 1..Len(q) - 1, i < j
               PROVE  r[i].id < r[j].id
    BY <1>3, Zenon DEF Sorted
  <2>1. PICK k \in 1..Len(q), l \in 1..Len(q) :
           r[i] = q[k] /\ r[j] = q[l] /\ k < l
    <3>0. Len(q) \in Nat
      BY LenProperties, Zenon
    <3>1. CASE j < v
      <4>1. r[i] = q[i] /\ r[j] = q[j]
        BY <1>3, <3>1
      <4>. QED  BY <4>1, <3>0
    <3>2. CASE i < v /\ j >= v
      <4>1. r[i] = q[i] /\ r[j] = q[j + 1]
        BY <1>3, <3>2
      <4>. QED  BY <4>1, <3>0
    <3>3. CASE i >= v
      <4>1. r[i] = q[i + 1] /\ r[j] = q[j + 1]
        BY <1>3, <3>3
      <4>. QED  BY <4>1, <3>0
    <3>. QED  BY <3>1, <3>2, <3>3
  <2>. QED  BY <2>1, Zenon DEF Sorted
<1>5. \A i \in 1..Len(q) : i # v => q[i] # q[v]
  <2> SUFFICES ASSUME NEW i \in 1..Len(q), i # v
               PROVE  q[i] # q[v]
    OBVIOUS
  <2>0. q[i] \in Entry /\ q[v] \in Entry
    BY ElementOfSeq, Zenon
  <2>1. q[i].id \in Nat /\ q[v].id \in Nat
    BY <2>0, Zenon DEF Entry
  <2>2. i < v => q[i].id < q[v].id
    BY Zenon DEF Sorted
  <2>3. v < i => q[v].id < q[i].id
    BY Zenon DEF Sorted
  <2>. QED  BY <2>1, <2>2, <2>3, <1>0
<1>6. Range(r) = Range(q) \ {q[v]}
  <2>1. \A x : (\E i \in 1..Len(r) : r[i] = x) =>
               (\E i \in 1..Len(q) : q[i] = x) /\ x # q[v]
    BY <1>3, <1>5
  <2>2. \A x : (\E i \in 1..Len(q) : q[i] = x) /\ x # q[v] =>
               (\E i \in 1..Len(r) : r[i] = x)
    <3> SUFFICES ASSUME NEW x, NEW i \in 1..Len(q), q[i] = x, x # q[v]
                 PROVE  \E j \in 1..Len(r) : r[j] = x
      OBVIOUS
    <3>1. CASE i < v
      BY <1>3, <3>1, SMTT(20)
    <3>2. CASE i > v
      <4>1. i - 1 \in 1..Len(r) /\ r[i - 1] = x
        BY <1>3, <3>2
      <4>. QED  BY <4>1, Zenon
    <3>. QED  BY <3>1, <3>2
  <2>3. \A x : x \in Range(r) <=> x \in Range(q) /\ x # q[v]
    BY <2>1, <2>2, <1>3, RangeIsImage, Zenon
  <2>. QED  BY <2>3, Zenon
<1>. QED  BY <1>3, <1>4, <1>6, Zenon DEF r

(* A non-empty set of naturals has a least element. *)
LEMMA LeastNatural ==
  ASSUME NEW T \in SUBSET Nat, T # {}
  PROVE  \E i \in T : \A j \in T : i <= j
<1>1. PICK i \in T : \A j \in T : ~(<<j, i>> \in OpToRel(<, Nat))
  BY WFMin, NatLessThanWellFounded, Zenon
<1>2. \A j \in T : ~(j < i)
  BY <1>1, Zenon DEF OpToRel
<1>. QED  BY <1>2

(* The eviction scan finds the oldest sheddable entry. *)
LEMMA VictimIsOldest ==
  ASSUME NEW q \in Seq(Entry), Sorted(q), Sheddable(q) # {}
  PROVE  /\ Victim(q) \in 1..Len(q)
         /\ q[Victim(q)] \in Sheddable(q)
         /\ \A f \in Sheddable(q) : q[Victim(q)].id <= f.id
<1> DEFINE T == {i \in 1..Len(q) : q[i].sheddable}
<1>1. T \in SUBSET Nat /\ T # {}
  BY RangeIsImage DEF Sheddable
<1>2. \E i \in T : \A j \in T : i <= j
  BY <1>1, LeastNatural, Zenon
<1>3. PICK i \in T : \A j \in T : i <= j
  BY <1>2, Zenon
<1>4. DOMAIN q = 1..Len(q)
  BY LenProperties, Zenon
<1>5. \E k \in DOMAIN q : q[k].sheddable /\
         \A j \in DOMAIN q : q[j].sheddable => k <= j
  BY <1>3, <1>4, Zenon
<1>6. /\ Victim(q) \in 1..Len(q) /\ q[Victim(q)].sheddable
      /\ \A j \in 1..Len(q) : q[j].sheddable => Victim(q) <= j
  BY <1>4, <1>5, Zenon DEF Victim
<1> HIDE DEF T
<1>7. \A j \in 1..Len(q) : q[j] \in Entry
  BY ElementOfSeq, Zenon
<1>8. \A j \in 1..Len(q) : q[j].sheddable => q[Victim(q)].id <= q[j].id
  BY <1>6, <1>7 DEF Sorted, Entry
<1>. QED  BY <1>6, <1>8, RangeIsImage DEF Sheddable

-----------------------------------------------------------------------------
(* The inductive invariant: typing, the buffer sorted by stamp with the lane
   counter equal to the number of bulk entries, the sender count equal to the
   number of live handles, and the wake-up bookkeeping. *)
Live == {s \in Sender : spc[s] \in {"idle", "push", "notify"}}

BufferInv ==
  /\ Sorted(items)
  /\ \A e \in Range(items) : e.id <= pushed
  /\ IsFiniteSet(Sheddable(items))
  /\ LaneAccounting

WakeInv ==
  /\ senders = Cardinality(Live)
  /\ closed <=> rpc \in {"closing", "closed"}
  /\ seen_calls <= waiters_calls
  /\ NoLostWakeup
  /\ NoOrphans

IInv == TypeOK /\ BufferInv /\ WakeInv

LEMMA LiveFinite == IsFiniteSet(Live)
BY SenderAssumption, FS_Subset, Zenon DEF Live

(* One accepted push: the buffer grows by the new entry and, when the bulk
   lane was full, loses its oldest bulk entry. *)
LEMMA AcceptedPush ==
  ASSUME IInv, NEW s \in Sender, PushLocked(s), ~closed
  PROVE  LET e    == [id |-> pushed + 1, sheddable |-> lane[s]]
             with == Range(items) \cup {e}
             full == lane[s] /\ Cardinality(Sheddable(items)) = Capacity
         IN  /\ items' \in Seq(Entry)
             /\ e \in Entry
             /\ items' # <<>>
             /\ BufferInv'
             /\ pushed' = pushed + 1
             /\ ~full => Range(items') = with
             /\ full => \E v \in with :
                  /\ v.sheddable
                  /\ \A f \in with : f.sheddable => v.id <= f.id
                  /\ Range(items') = with \ {v}
<1> DEFINE e        == [id |-> pushed + 1, sheddable |-> lane[s]]
           with     == Range(items) \cup {e}
           q        == Append(items, e)
           n        == sheddable_len + (IF lane[s] THEN 1 ELSE 0)
           overflow == lane[s] /\ n > Capacity
           found    == overflow /\ Sheddable(q) # {}
           v        == Victim(q)
<1>1. /\ items' = IF found THEN RemoveAt(q, v) ELSE q
      /\ sheddable_len' = IF found THEN n - 1 ELSE n
      /\ bookkeeping_faults' =
           bookkeeping_faults + (IF overflow /\ ~found THEN 1 ELSE 0)
      /\ pushed' = pushed + 1
  BY Zenon DEF PushLocked, ClosedUnderLock, PushBack
<1>2. /\ e \in Entry /\ e.id = pushed + 1 /\ e.sheddable = lane[s]
      /\ lane[s] \in BOOLEAN
      /\ \A f \in Range(items) : f \in Entry /\ f.id < e.id
      /\ items \in Seq(Entry)
  <2>1. items \in Seq(Entry) /\ pushed \in Nat /\ lane[s] \in BOOLEAN
    BY Zenon DEF IInv, TypeOK
  <2>2. \A f \in Range(items) : f \in Entry
    BY <2>1, RangeOfSeq, Zenon
  <2>. QED  BY <2>1, <2>2 DEF IInv, BufferInv, Entry
<1>3. /\ q \in Seq(Entry) /\ Sorted(q) /\ Range(q) = with
      /\ e \notin Range(items) /\ q # <<>>
  BY <1>2, AppendSorted, Zenon DEF IInv, BufferInv
<1>4. /\ IsFiniteSet(Sheddable(q)) /\ Cardinality(Sheddable(q)) = n
      /\ n \in Nat /\ sheddable_len \in Nat /\ sheddable_len <= Capacity
      /\ sheddable_len = Cardinality(Sheddable(items))
  <2>1. /\ IsFiniteSet(Sheddable(items))
        /\ sheddable_len = Cardinality(Sheddable(items))
        /\ sheddable_len \in Nat /\ sheddable_len <= Capacity
    BY FS_CardinalityType, Zenon DEF IInv, BufferInv, LaneAccounting
  <2>2. CASE lane[s]
    <3>1. Sheddable(q) = Sheddable(items) \cup {e} /\ e \notin Sheddable(items)
      BY <1>2, <1>3, <2>2, Zenon DEF Sheddable
    <3>2. /\ IsFiniteSet(Sheddable(items) \cup {e})
          /\ Cardinality(Sheddable(items) \cup {e}) = sheddable_len + 1
      BY <3>1, <2>1, FS_AddElement, Zenon
    <3>3. n = sheddable_len + 1
      BY <2>2, Zenon
    <3> HIDE DEF n, q, e
    <3>. QED  BY <3>1, <3>2, <3>3, <2>1
  <2>3. CASE ~lane[s]
    <3>1. Sheddable(q) = Sheddable(items)
      BY <1>2, <1>3, <2>3, Zenon DEF Sheddable
    <3>. QED  BY <3>1, <2>1, <2>3
  <2>. QED  BY <2>2, <2>3, <1>2, Zenon
<1>5. overflow => found
  BY <1>4, FS_EmptySet, CapacityAssumption
<1>6. overflow <=> lane[s] /\ Cardinality(Sheddable(items)) = Capacity
  BY <1>4, CapacityAssumption
<1>7. \A f \in with : f \in Entry /\ f.id <= pushed + 1
  BY <1>2 DEF IInv, TypeOK, Entry
<1>0. bookkeeping_faults = 0 /\ pushed \in Nat
  BY Zenon DEF IInv, TypeOK, BufferInv, LaneAccounting
<1> HIDE DEF q, n, v, e, with
<1>8. CASE found
  <2>1. /\ v \in 1..Len(q) /\ q[v] \in Sheddable(q)
        /\ \A f \in Sheddable(q) : q[v].id <= f.id
    BY <1>3, <1>8, VictimIsOldest, Zenon DEF v
  <2>2. /\ items' \in Seq(Entry) /\ Sorted(items')
        /\ Range(items') = with \ {q[v]}
    BY <1>1, <1>3, <1>8, <2>1, RemoveSorted, Zenon
  <2>3. Sheddable(items') = Sheddable(q) \ {q[v]}
    BY <2>2, <1>3, Zenon DEF Sheddable
  <2>4. /\ IsFiniteSet(Sheddable(items'))
        /\ Cardinality(Sheddable(items')) = n - 1
    BY <2>1, <2>3, <1>4, FS_RemoveElement
  <2>5. LaneAccounting'
    <3>1. n <= Capacity + 1
      BY <1>4, CapacityAssumption DEF n
    <3>2. bookkeeping_faults' = 0
      BY <1>1, <1>5, <1>0
    <3>. QED  BY <3>1, <3>2, <2>4, <1>1, <1>8, <1>4, CapacityAssumption
              DEF LaneAccounting
  <2>6. q[v] \in with /\ q[v].sheddable /\ q[v] \in Entry
        /\ \A f \in with : f.sheddable => q[v].id <= f.id
    BY <2>1, <1>3, <1>7 DEF Sheddable
  <2>7. items' # <<>>
    (* the new entry is the youngest, so it is evicted only if it was alone,
       and then the lane would not have been over-full *)
    <3>1. n > 1
      BY <1>8, CapacityAssumption, <1>4
    <3>2. Cardinality(Sheddable(items')) # 0
      BY <3>1, <2>4, <1>4
    <3>3. Sheddable(items') # {}
      BY <3>2, FS_EmptySet, Zenon
    <3>. QED  BY <3>3, <2>2, RangeIsImage DEF Sheddable
  <2>8. BufferInv'
    BY <2>2, <2>4, <2>5, <1>7, <1>1 DEF BufferInv
  <2>. QED  BY <2>2, <2>6, <2>7, <2>8, <1>1, <1>2, <1>6, <1>8, Zenon
            DEF e, with
<1>9. CASE ~found
  <2>1. items' = q /\ sheddable_len' = n
    BY <1>1, <1>9, Zenon
  <2>2. n <= Capacity
    BY <1>4, <1>5, <1>9, CapacityAssumption DEF n
  <2>3. LaneAccounting'
    BY <2>1, <2>2, <1>1, <1>4, <1>5, <1>0 DEF LaneAccounting
  <2>4. BufferInv'
    BY <2>1, <2>3, <1>1, <1>3, <1>4, <1>7, Zenon DEF BufferInv
  <2>. QED  BY <2>1, <2>4, <1>1, <1>2, <1>3, <1>5, <1>6, <1>9, <1>0, Zenon DEF e, with
<1>. QED  BY <1>8, <1>9, Zenon

(* One pop: the oldest entry leaves and the accounting follows. *)
LEMMA OnePop ==
  ASSUME IInv, RecvLocked, items # <<>>
  PROVE  /\ items' \in Seq(Entry)
         /\ BufferInv'
         /\ Head(items) \in Range(items)
         /\ Head(items) \in Entry
         /\ \A f \in Range(items) : Head(items).id <= f.id
         /\ Range(items') = Range(items) \ {Head(items)}
<1>1. /\ items' = Tail(items)
      /\ sheddable_len' =
           sheddable_len - (IF Head(items).sheddable THEN 1 ELSE 0)
      /\ pushed' = pushed /\ bookkeeping_faults' = bookkeeping_faults
  BY Zenon DEF RecvLocked, counters
<1>2. /\ items' \in Seq(Entry) /\ Sorted(items')
      /\ Range(items') = Range(items) \ {Head(items)}
      /\ Head(items) \in Range(items) /\ Head(items) \in Entry
      /\ \A f \in Range(items) : Head(items).id <= f.id
  BY <1>1, TailSorted, HeadTailProperties, Zenon DEF IInv, TypeOK, BufferInv
<1>3. Sheddable(items') = Sheddable(items) \ {Head(items)}
  BY <1>2, Zenon DEF Sheddable
<1>4. Head(items) \in Sheddable(items) <=> Head(items).sheddable
  BY <1>2, Zenon DEF Sheddable
<1>5. /\ IsFiniteSet(Sheddable(items)) /\ sheddable_len \in Nat
      /\ Cardinality(Sheddable(items)) = sheddable_len
      /\ sheddable_len <= Capacity /\ bookkeeping_faults = 0
  BY FS_CardinalityType, Zenon DEF IInv, BufferInv, LaneAccounting
<1>6. /\ IsFiniteSet(Sheddable(items'))
      /\ Cardinality(Sheddable(items')) =
           sheddable_len - (IF Head(items).sheddable THEN 1 ELSE 0)
  BY <1>3, <1>4, <1>5, FS_RemoveElement
<1>7. LaneAccounting'
  BY <1>1, <1>5, <1>6, CapacityAssumption DEF LaneAccounting
<1>. QED  BY <1>1, <1>2, <1>6, <1>7 DEF IInv, BufferInv

LEMMA EmptySorted == Sorted(<<>>)
BY DEF Sorted

LEMMA InitIInv == Init => IInv
<1> SUFFICES ASSUME Init PROVE IInv
  OBVIOUS
<1>1. items = <<>> /\ Range(items) = {} /\ Sheddable(items) = {}
  BY DEF Init, Range, Sheddable
<1>4. PICK s \in Sender :
        spc = [t \in Sender |-> IF t = s THEN "idle" ELSE "unborn"]
  BY Zenon DEF Init
<1>2. TypeOK
  <2>1. items \in Seq(Entry)
    BY <1>1, EmptySeq, Zenon DEF Init
  <2>2. spc \in [Sender -> {"unborn", "idle", "push", "notify", "wake", "gone"}]
    BY <1>4, Zenon
  <2>3. lane \in [Sender -> BOOLEAN] /\ evicted \in [Sender -> BOOLEAN]
    BY Zenon DEF Init
  <2>4. /\ sheddable_len = 0 /\ pushed = 0 /\ dropped_oldest = 0
        /\ bookkeeping_faults = 0 /\ send_failures = 0 /\ high_water = 0
        /\ reliable_high_water = 0 /\ senders = 1 /\ closed = FALSE
        /\ permit = FALSE /\ waiters_calls = 0 /\ rpc = "idle"
        /\ seen_calls = 0
    BY Zenon DEF Init
  <2>5. /\ sheddable_len \in Int /\ pushed \in Nat /\ dropped_oldest \in Nat
        /\ bookkeeping_faults \in Nat /\ send_failures \in Nat
        /\ high_water \in Nat /\ reliable_high_water \in Int
        /\ senders \in Nat /\ waiters_calls \in Nat /\ seen_calls \in Nat
    BY <2>4
  <2>6. /\ closed \in BOOLEAN /\ permit \in BOOLEAN
        /\ rpc \in {"idle", "registered", "parked", "ended", "closing",
                    "closed"}
    BY <2>4, Zenon
  <2>. QED  BY <2>1, <2>2, <2>3, <2>5, <2>6, Zenon DEF TypeOK
<1>3. BufferInv
  <2>0. sheddable_len = 0 /\ bookkeeping_faults = 0
    BY Zenon DEF Init
  <2>1. LaneAccounting
    BY <1>1, <2>0, FS_EmptySet, CapacityAssumption DEF LaneAccounting
  <2>. QED  BY <2>1, <1>1, FS_EmptySet, EmptySorted, Zenon DEF BufferInv
<1>5. Live = {s}
  BY <1>4, Zenon DEF Live
<1>6. Cardinality(Live) = 1
  BY <1>5, FS_Singleton, Zenon
<1>7. WakeInv
  BY <1>6 DEF Init, WakeInv, NoLostWakeup, NoOrphans
<1>. QED  BY <1>2, <1>3, <1>7, Zenon DEF IInv

(* Steps that leave the buffer and its counters alone keep BufferInv. *)
LEMMA BufferFrame ==
  ASSUME BufferInv,
         UNCHANGED <<items, sheddable_len, pushed, bookkeeping_faults>>
  PROVE  BufferInv'
BY Zenon DEF BufferInv, LaneAccounting, Sorted, Sheddable

LEMMA StepIInv == IInv /\ [Next]_vars => IInv'
<1> SUFFICES ASSUME IInv, [Next]_vars PROVE IInv'
  OBVIOUS
<1> USE DEF counters, buffer, notify, handles, receiver
<1>1. CASE UNCHANGED vars
  <2>1. BufferInv'
    BY <1>1, BufferFrame, Zenon DEF IInv, vars
  <2>2. TypeOK' /\ WakeInv'
    BY <1>1, Zenon DEF IInv, TypeOK, vars, WakeInv, NoLostWakeup, NoOrphans, Live
  <2>. QED  BY <2>1, <2>2, Zenon DEF IInv
<1>2. ASSUME NEW s \in Sender, NEW t \in Sender, CloneSender(s, t)
      PROVE  IInv'
  <2>1. BufferInv'
    BY <1>2, BufferFrame, Zenon DEF IInv, CloneSender, SendersAfterClone
  <2>2. Live' = Live \cup {t} /\ t \notin Live
    BY <1>2, Zenon DEF IInv, TypeOK, CloneSender, SendersAfterClone, Live
  <2>3. Cardinality(Live') = Cardinality(Live) + 1
    BY <2>2, LiveFinite, FS_AddElement, Zenon
  <2>4. TypeOK'
    BY <1>2 DEF IInv, TypeOK, CloneSender, SendersAfterClone
  <2>5. WakeInv'
    BY <1>2, <2>3 DEF IInv, TypeOK, CloneSender, SendersAfterClone, WakeInv, NoLostWakeup,
                      NoOrphans
  <2>. QED  BY <2>1, <2>4, <2>5, Zenon DEF IInv
<1>3. ASSUME NEW s \in Sender, NEW b \in BOOLEAN, PushCheck(s, b)
      PROVE  IInv'
  <2>1. BufferInv'
    BY <1>3, BufferFrame, Zenon DEF IInv, PushCheck
  <2>2. TypeOK'
    <3>1. CASE closed
      BY <1>3, <3>1 DEF IInv, TypeOK, PushCheck
    <3>2. CASE ~closed
      <4>1. lane' \in [Sender -> BOOLEAN]
        BY <1>3, <3>2, Zenon DEF IInv, TypeOK, PushCheck
      <4>. QED  BY <1>3, <3>2, <4>1, Zenon DEF IInv, TypeOK, PushCheck
    <3>. QED  BY <3>1, <3>2, Zenon
  <2>3. Live' = Live
    BY <1>3, Zenon DEF IInv, TypeOK, PushCheck, Live
  <2>4. WakeInv'
    BY <1>3, <2>3, Zenon DEF IInv, TypeOK, PushCheck, WakeInv, NoLostWakeup,
                      NoOrphans
  <2>. QED  BY <2>1, <2>2, <2>4, Zenon DEF IInv
<1>4. ASSUME NEW s \in Sender, PushLocked(s)
      PROVE  IInv'
  <2>1. Live' = Live
    BY <1>4, Zenon DEF IInv, TypeOK, PushLocked, ClosedUnderLock, PushBack, Live
  <2>2. CASE closed
    <3>1. BufferInv'
      BY <1>4, <2>2, BufferFrame, Zenon DEF IInv, PushLocked, ClosedUnderLock, PushBack
    <3>2. TypeOK'
      BY <1>4, <2>2 DEF IInv, TypeOK, PushLocked, ClosedUnderLock, PushBack
    <3>3. WakeInv'
      BY <1>4, <2>1, <2>2, Zenon DEF IInv, TypeOK, PushLocked, ClosedUnderLock, PushBack, WakeInv,
                              NoLostWakeup, NoOrphans
    <3>. QED  BY <3>1, <3>2, <3>3, Zenon DEF IInv
  <2>3. CASE ~closed
    <3>1. /\ BufferInv' /\ items' \in Seq(Entry)
          /\ pushed' = pushed + 1
      BY <1>4, <2>3, AcceptedPush, Zenon
    <3>2. /\ high_water' = Larger(high_water, Len(items'))
          /\ reliable_high_water' =
               IF lane[s] THEN reliable_high_water
               ELSE Larger(reliable_high_water, Len(items') - sheddable_len')
          /\ spc' = [spc EXCEPT ![s] = "notify"]
          /\ UNCHANGED <<send_failures, dropped_oldest, senders, closed,
                         notify, lane, receiver>>
      BY <1>4, <2>3, Zenon DEF PushLocked, ClosedUnderLock, PushBack
    <3>3. bookkeeping_faults' \in Nat /\ sheddable_len' \in Nat
      BY <3>1, FS_CardinalityType, Zenon DEF BufferInv, LaneAccounting
    <3>4. evicted' \in [Sender -> BOOLEAN]
      <4>1. evicted \in [Sender -> BOOLEAN]
        BY Zenon DEF IInv, TypeOK
      <4>2. \E b \in BOOLEAN : evicted' = [evicted EXCEPT ![s] = b]
        BY <1>4, <2>3, CapacityAssumption, Zenon DEF PushLocked, ClosedUnderLock, PushBack, IInv, TypeOK
      <4>. QED  BY <4>1, <4>2, Zenon
    <3>5. Len(items') \in Nat
      BY <3>1, LenProperties, Zenon
    <3>6. /\ high_water' \in Nat /\ reliable_high_water' \in Int
          /\ spc' \in [Sender -> {"unborn", "idle", "push", "notify",
                                  "wake", "gone"}]
      BY <3>2, <3>3, <3>5 DEF IInv, TypeOK, Larger
    <3>7. TypeOK'
      BY <3>1, <3>2, <3>3, <3>4, <3>6 DEF IInv, TypeOK
    <3>8. WakeInv'
      <4>1. spc'[s] = "notify" /\ \A t \in Sender \ {s} : spc'[t] = spc[t]
        BY <3>2, Zenon DEF IInv, TypeOK
      <4>2. spc[s] = "push"
        BY <1>4, Zenon DEF PushLocked, ClosedUnderLock, PushBack
      <4>3. NoLostWakeup'
        BY <3>2, <4>1, <4>2, Zenon DEF IInv, WakeInv, NoLostWakeup
      <4>4. NoOrphans'
        BY <3>2, <2>3 DEF IInv, WakeInv, NoOrphans
      <4>. QED  BY <3>2, <2>1, <4>3, <4>4, Zenon DEF IInv, WakeInv
    <3>. QED  BY <3>1, <3>7, <3>8, Zenon DEF IInv
  <2>. QED  BY <2>2, <2>3, Zenon
<1>5. ASSUME NEW s \in Sender, PushNotify(s)
      PROVE  IInv'
  <2>1. BufferInv'
    BY <1>5, BufferFrame, Zenon DEF IInv, PushNotify, NotifyOne
  <2>2. TypeOK'
    BY <1>5 DEF IInv, TypeOK, PushNotify, NotifyOne
  <2>3. Live' = Live
    BY <1>5, Zenon DEF IInv, TypeOK, PushNotify, NotifyOne, Live
  <2>4. WakeInv'
    BY <1>5, <2>3, Zenon DEF IInv, TypeOK, PushNotify, NotifyOne, WakeInv, NoLostWakeup,
                      NoOrphans
  <2>. QED  BY <2>1, <2>2, <2>4, Zenon DEF IInv
<1>6. ASSUME NEW s \in Sender, DropSender(s)
      PROVE  IInv'
  <2>1. BufferInv'
    BY <1>6, BufferFrame, Zenon DEF IInv, DropSender, LastHandle
  <2>2. Live' = Live \ {s} /\ s \in Live
    BY <1>6, Zenon DEF IInv, TypeOK, DropSender, LastHandle, Live
  <2>3. /\ Cardinality(Live') = Cardinality(Live) - 1
        /\ Cardinality(Live') \in Nat
    BY <2>2, LiveFinite, FS_RemoveElement, FS_CardinalityType, Zenon
  <2>4. senders' = Cardinality(Live') /\ senders' \in Nat
    BY <1>6, <2>3, Zenon DEF IInv, WakeInv, DropSender, LastHandle
  <2>5. TypeOK'
    BY <1>6, <2>4, Zenon DEF IInv, TypeOK, DropSender, LastHandle
  <2>6. WakeInv'
    BY <1>6, <2>4 DEF IInv, TypeOK, DropSender, LastHandle, WakeInv, NoLostWakeup,
                      NoOrphans
  <2>. QED  BY <2>1, <2>5, <2>6, Zenon DEF IInv
<1>7. ASSUME NEW s \in Sender, DropNotify(s)
      PROVE  IInv'
  <2>1. BufferInv'
    BY <1>7, BufferFrame, Zenon DEF IInv, DropNotify
  <2>2. TypeOK'
    BY <1>7 DEF IInv, TypeOK, DropNotify
  <2>3. Live' = Live
    BY <1>7, Zenon DEF IInv, TypeOK, DropNotify, Live
  <2>4. WakeInv'
    BY <1>7, <2>3 DEF IInv, TypeOK, DropNotify, WakeInv, NoLostWakeup,
                      NoOrphans
  <2>. QED  BY <2>1, <2>2, <2>4, Zenon DEF IInv
<1>8. CASE RecvRegister
  <2>1. BufferInv'
    BY <1>8, BufferFrame, Zenon DEF IInv, RecvRegister
  <2>2. TypeOK' /\ WakeInv'
    BY <1>8 DEF IInv, TypeOK, RecvRegister, WakeInv, NoLostWakeup, NoOrphans,
                Live
  <2>. QED  BY <2>1, <2>2, Zenon DEF IInv
<1>9. CASE RecvLocked
  <2>1. Live' = Live
    BY <1>9, Zenon DEF RecvLocked, Live
  <2>2. CASE items = <<>>
    <3>1. BufferInv'
      BY <1>9, <2>2, BufferFrame, Zenon DEF IInv, RecvLocked
    <3>2. TypeOK'
      BY <1>9, <2>2, Zenon DEF IInv, TypeOK, RecvLocked
    <3>3. WakeInv'
      BY <1>9, <2>1, <2>2, Zenon DEF IInv, TypeOK, RecvLocked, WakeInv,
                              NoLostWakeup, NoOrphans
    <3>. QED  BY <3>1, <3>2, <3>3, Zenon DEF IInv
  <2>3. CASE items # <<>>
    <3>1. /\ items' \in Seq(Entry) /\ BufferInv' /\ Head(items) \in Entry
      BY <1>9, <2>3, OnePop, Zenon
    <3>2. /\ sheddable_len' =
               sheddable_len - (IF Head(items).sheddable THEN 1 ELSE 0)
          /\ rpc' = "idle"
          /\ UNCHANGED <<counters, senders, closed, notify, handles,
                         seen_calls>>
      BY <1>9, <2>3, Zenon DEF RecvLocked
    <3>3. sheddable_len' \in Int
      BY <3>1, <3>2 DEF IInv, TypeOK, Entry
    <3>4. TypeOK'
      BY <3>1, <3>2, <3>3, Zenon DEF IInv, TypeOK
    <3>5. rpc = "registered"
      BY <1>9, Zenon DEF RecvLocked
    <3>6. WakeInv'
      BY <3>2, <3>5, <2>1, Zenon DEF IInv, WakeInv, NoLostWakeup, NoOrphans
    <3>. QED  BY <3>1, <3>4, <3>6, Zenon DEF IInv
  <2>. QED  BY <2>2, <2>3, Zenon
<1>10. CASE RecvWake
  <2>1. BufferInv'
    BY <1>10, BufferFrame, Zenon DEF IInv, RecvWake
  <2>2. TypeOK'
    <3>1. permit' \in BOOLEAN
      BY <1>10, Zenon DEF IInv, TypeOK, RecvWake
    <3>. QED  BY <1>10, <3>1, Zenon DEF IInv, TypeOK, RecvWake
  <2>3. WakeInv'
    BY <1>10 DEF IInv, TypeOK, RecvWake, WakeInv, NoLostWakeup, NoOrphans, Live
  <2>. QED  BY <2>1, <2>2, <2>3, Zenon DEF IInv
<1>11. CASE RecvCancel
  <2>1. BufferInv'
    BY <1>11, BufferFrame, Zenon DEF IInv, RecvCancel
  <2>2. TypeOK' /\ WakeInv'
    BY <1>11, Zenon DEF IInv, TypeOK, RecvCancel, WakeInv, NoLostWakeup, NoOrphans,
                 Live
  <2>. QED  BY <2>1, <2>2, Zenon DEF IInv
<1>12. CASE ReceiverDrop
  <2>1. BufferInv'
    BY <1>12, BufferFrame, Zenon DEF IInv, ReceiverDrop
  <2>2. TypeOK' /\ WakeInv'
    BY <1>12, Zenon DEF IInv, TypeOK, ReceiverDrop, WakeInv, NoLostWakeup, NoOrphans,
                 Live
  <2>. QED  BY <2>1, <2>2, Zenon DEF IInv
<1>13. CASE ReceiverSweep
  <2>1. /\ items' = <<>> /\ Range(items') = {} /\ Sheddable(items') = {}
        /\ sheddable_len' = 0
    BY <1>13 DEF ReceiverSweep, Range, Sheddable
  <2>2. BufferInv'
    <3>1. bookkeeping_faults' = 0
      BY <1>13, Zenon DEF ReceiverSweep, IInv, BufferInv, LaneAccounting
    <3>2. LaneAccounting'
      BY <2>1, <3>1, FS_EmptySet, CapacityAssumption DEF LaneAccounting
    <3>. QED  BY <2>1, <3>2, FS_EmptySet, EmptySorted, Zenon DEF BufferInv
  <2>4. TypeOK'
    BY <1>13, <2>1, EmptySeq DEF IInv, TypeOK, ReceiverSweep
  <2>5. Live' = Live
    BY <1>13, Zenon DEF ReceiverSweep, Live
  <2>6. WakeInv'
    BY <1>13, <2>1, <2>5, Zenon DEF IInv, ReceiverSweep, WakeInv, NoLostWakeup,
                             NoOrphans
  <2>. QED  BY <2>2, <2>4, <2>6, Zenon DEF IInv
<1>. QED
  BY <1>1, <1>2, <1>3, <1>4, <1>5, <1>6, <1>7, <1>8, <1>9, <1>10, <1>11,
     <1>12, <1>13, Zenon DEF Next

LEMMA Invariance == Spec => []IInv
<1>1. Init => IInv
  BY InitIInv, Zenon
<1>2. IInv /\ [Next]_vars => IInv'
  BY StepIInv, Zenon
<1>. QED  BY <1>1, <1>2, PTL DEF Spec

-----------------------------------------------------------------------------
(* Every variable keeps its type; in particular the sender count never goes
   below zero although clones and drops of handles interleave freely. *)
THEOREM TypeCorrect == Spec => []TypeOK
<1>1. IInv => TypeOK
  BY Zenon DEF IInv
<1>. QED  BY <1>1, Invariance, PTL

(* For every capacity and any number of senders, the lane counter is the
   number of bulk entries buffered, never exceeds the capacity, and push never
   meets its "bookkeeping bug" arm. *)
THEOREM LaneAccountingHolds == Spec => []LaneAccounting
<1>1. IInv => LaneAccounting
  BY Zenon DEF IInv, BufferInv
<1>. QED  BY <1>1, Invariance, PTL

(* recv never sleeps through a send or through the last sender's drop: the
   registration before the queue check closes the race. *)
THEOREM NoLostWakeupHolds == Spec => []NoLostWakeup
<1>1. IInv => NoLostWakeup
  BY Zenon DEF IInv, WakeInv
<1>. QED  BY <1>1, Invariance, PTL

(* The in-lock closed check keeps the swept buffer empty for ever. *)
THEOREM NoOrphansHolds == Spec => []NoOrphans
<1>1. IInv => NoOrphans
  BY Zenon DEF IInv, WakeInv
<1>. QED  BY <1>1, Invariance, PTL

-----------------------------------------------------------------------------
(* The oldest entry of a set is determined by its stamp. *)
LEMMA OldestIs ==
  ASSUME NEW S, S \subseteq Entry, NEW e \in S, \A f \in S : e.id <= f.id,
         \A f, g \in S : f.id = g.id => f = g
  PROVE  Promise!Oldest(S) = e
<1>1. \A x \in S : (\A f \in S : x.id <= f.id) => x = e
  BY DEF Entry
<1>. QED  BY <1>1, Zenon DEF Promise!Oldest

(* The instance's own copy of the cardinality operator. *)
LEMMA SameCardinality ==
  ASSUME NEW S PROVE Promise!Cardinality(S) = Cardinality(S)
BY Zenon DEF Promise!Cardinality, Cardinality

(* Stamps identify the entries of a sorted buffer. *)
LEMMA StampsUnique ==
  ASSUME NEW q \in Seq(Entry), Sorted(q)
  PROVE  \A f, g \in Range(q) : f.id = g.id => f = g
<1> SUFFICES ASSUME NEW f \in Range(q), NEW g \in Range(q), f.id = g.id
             PROVE  f = g
  OBVIOUS
<1>0. PICK i \in 1..Len(q), j \in 1..Len(q) : q[i] = f /\ q[j] = g
  BY RangeIsImage
<1>1. q[i].id \in Nat /\ q[j].id \in Nat
  <2>1. q[i] \in Entry /\ q[j] \in Entry
    BY ElementOfSeq, Zenon
  <2>. QED  BY <2>1, Zenon DEF Entry
<1>2. ~(i < j) /\ ~(j < i)
  BY <1>0, <1>1 DEF Sorted
<1>3. Len(q) \in Nat
  BY LenProperties, Zenon
<1>. QED  BY <1>0, <1>2, <1>3

(* Every step of the queue is a step of the abstract FIFO or invisible. *)
LEMMA StepRefines == IInv /\ [Next]_vars => [Promise!Next]_Promise!vars
<1> SUFFICES ASSUME IInv, [Next]_vars PROVE [Promise!Next]_Promise!vars
  OBVIOUS
<1> USE DEF counters, buffer, notify, handles, receiver
<1>0. ASSUME UNCHANGED <<items, pushed, closed>>
      PROVE  [Promise!Next]_Promise!vars
  BY <1>0, Zenon DEF Promise!vars
<1>1. ASSUME NEW s \in Sender, PushLocked(s)
      PROVE  [Promise!Next]_Promise!vars
  <2>1. CASE closed
    BY <1>0, <1>1, <2>1, Zenon DEF PushLocked, ClosedUnderLock, PushBack
  <2>2. CASE ~closed
    <3> DEFINE e    == [id |-> pushed + 1, sheddable |-> lane[s]]
               with == Range(items) \cup {e}
               full == lane[s] /\ Cardinality(Sheddable(items)) = Capacity
    <3>1. /\ pushed' = pushed + 1 /\ closed' = closed
          /\ ~full => Range(items') = with
          /\ full => \E v \in with :
                  /\ v.sheddable
                  /\ \A f \in with : f.sheddable => v.id <= f.id
                  /\ Range(items') = with \ {v}
          /\ e \in Entry
      <4>1. closed' = closed
        BY <1>1, Zenon DEF PushLocked, ClosedUnderLock, PushBack
      <4>. QED  BY <4>1, <1>1, <2>2, AcceptedPush
    <3>2. /\ Range(items) \subseteq Entry /\ lane[s] \in BOOLEAN
          /\ pushed \in Nat
          /\ \A f \in Range(items) : f.id <= pushed
          /\ \A f, g \in Range(items) : f.id = g.id => f = g
      BY RangeOfSeq, StampsUnique, Zenon DEF IInv, TypeOK, BufferInv
    <3>3. /\ with \subseteq Entry
          /\ \A f, g \in with : f.id = g.id => f = g
      <4>1. e.id = pushed + 1
        OBVIOUS
      <4>2. \A f \in Range(items) : f.id \in Nat
        BY <3>2, Zenon DEF Entry
      <4>3. \A f \in Range(items) : f.id # e.id
        BY <4>1, <4>2, <3>2
      <4> HIDE DEF e
      <4>. QED  BY <3>1, <3>2, <4>3, Zenon
    <3>4. Promise!Bulk(Range(items)) = Sheddable(items)
      BY Zenon DEF Promise!Bulk, Sheddable
    <3> HIDE DEF e, with
    <3>5. CASE ~full
      <4>1. Range(items)' = with
        BY <3>1, <3>5, Zenon
      <4>2. ~(lane[s] /\
               Promise!Cardinality(Promise!Bulk(Range(items))) = Capacity)
        BY <3>4, <3>5, SameCardinality, Zenon
      <4>3. Promise!Put(lane[s])
        BY <4>1, <4>2, <3>1, <2>2, Zenon DEF Promise!Put, e, with
      <4>. QED  BY <4>3, <3>2, Zenon DEF Promise!Next
    <3>6. CASE full
      <4>1. PICK v \in with : /\ v.sheddable
                              /\ \A f \in with : f.sheddable => v.id <= f.id
                              /\ Range(items') = with \ {v}
        BY <3>1, <3>6, Zenon
      <4>2. Promise!Oldest(Promise!Bulk(with)) = v
        <5>1. /\ Promise!Bulk(with) \subseteq Entry /\ v \in Promise!Bulk(with)
              /\ \A f \in Promise!Bulk(with) : v.id <= f.id
              /\ \A f, g \in Promise!Bulk(with) : f.id = g.id => f = g
          BY <4>1, <3>3, Zenon DEF Promise!Bulk
        <5>. QED  BY <5>1, OldestIs, Zenon
      <4>3. Range(items)' = with \ {Promise!Oldest(Promise!Bulk(with))}
        BY <4>1, <4>2, Zenon
      <4>4. /\ lane[s]
            /\ Promise!Cardinality(Promise!Bulk(Range(items))) = Capacity
        BY <3>4, <3>6, SameCardinality, Zenon
      <4>5. Promise!Put(lane[s])
        BY <4>3, <4>4, <3>1, <2>2, Zenon DEF Promise!Put, e, with
      <4>. QED  BY <4>5, <3>2, Zenon DEF Promise!Next
    <3>. QED  BY <3>5, <3>6, Zenon
  <2>. QED  BY <2>1, <2>2, Zenon
<1>2. CASE RecvLocked
  <2>1. CASE items = <<>>
    BY <1>0, <1>2, <2>1, Zenon DEF RecvLocked
  <2>2. CASE items # <<>>
    <3>1. /\ Head(items) \in Range(items)
          /\ \A f \in Range(items) : Head(items).id <= f.id
          /\ Range(items') = Range(items) \ {Head(items)}
      BY <1>2, <2>2, OnePop, Zenon
    <3>2. /\ Range(items) \subseteq Entry
          /\ \A f, g \in Range(items) : f.id = g.id => f = g
      BY RangeOfSeq, StampsUnique, Zenon DEF IInv, TypeOK, BufferInv
    <3>3. Promise!Oldest(Range(items)) = Head(items)
      BY <3>1, <3>2, OldestIs
    <3>4. /\ pushed' = pushed /\ closed' = closed /\ ~closed
      BY <1>2, Zenon DEF RecvLocked, IInv, WakeInv
    <3>. QED  BY <3>1, <3>3, <3>4, Zenon DEF Promise!Next, Promise!Take
  <2>. QED  BY <2>1, <2>2, Zenon
<1>3. CASE ReceiverDrop
  <2>1. ~closed /\ closed' = TRUE /\ items' = items /\ pushed' = pushed
    BY <1>3, Zenon DEF ReceiverDrop, IInv, WakeInv
  <2>. QED  BY <2>1, Zenon DEF Promise!Next, Promise!Close
<1>4. CASE ReceiverSweep
  <2>1. closed /\ closed' = closed /\ items' = <<>> /\ pushed' = pushed
    BY <1>4, Zenon DEF ReceiverSweep, IInv, WakeInv
  <2>2. Range(items') = {}
    BY <2>1 DEF Range
  <2>. QED  BY <2>1, <2>2, Zenon DEF Promise!Next, Promise!Discard
<1>5. CASE UNCHANGED vars
  BY <1>0, <1>5, Zenon DEF vars
<1>6. ASSUME NEW s \in Sender, NEW t \in Sender, CloneSender(s, t)
      PROVE  [Promise!Next]_Promise!vars
  BY <1>0, <1>6, Zenon DEF CloneSender, SendersAfterClone
<1>7. ASSUME NEW s \in Sender, NEW b \in BOOLEAN, PushCheck(s, b)
      PROVE  [Promise!Next]_Promise!vars
  BY <1>0, <1>7 DEF PushCheck
<1>8. ASSUME NEW s \in Sender, PushNotify(s) \/ DropSender(s) \/ DropNotify(s)
      PROVE  [Promise!Next]_Promise!vars
  BY <1>0, <1>8 DEF PushNotify, NotifyOne, DropSender, LastHandle, DropNotify
<1>9. CASE RecvRegister \/ RecvWake \/ RecvCancel
  BY <1>0, <1>9 DEF RecvRegister, RecvWake, RecvCancel
<1>. QED
  BY <1>1, <1>2, <1>3, <1>4, <1>5, <1>6, <1>7, <1>8, <1>9 DEF Next

(* The queue, with its mutex, atomics and wake-ups, implements the abstract
   two-lane FIFO for every capacity and any number of senders: control entries
   leave only by recv or after the receiver closed, bulk entries are shed
   oldest first, and both lanes come out in push order. *)
THEOREM QueueImplementsTwoLaneFifo == Spec => ImplementsTwoLaneFifo
<1>1. Init => Promise!Init
  <2> SUFFICES ASSUME Init PROVE Promise!Init
    OBVIOUS
  <2>1. items = <<>> /\ pushed = 0 /\ closed = FALSE
    BY Zenon DEF Init
  <2>2. Range(items) = {}
    BY <2>1 DEF Range
  <2>. QED  BY <2>1, <2>2, Zenon DEF Promise!Init
<1>2. IInv /\ [Next]_vars => [Promise!Next]_Promise!vars
  BY StepRefines, Zenon
<1>. QED
  BY <1>1, <1>2, Invariance, PTL DEF Spec, Promise!Spec, ImplementsTwoLaneFifo
=============================================================================
