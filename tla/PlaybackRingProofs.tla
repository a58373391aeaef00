------------------------- MODULE PlaybackRingProofs -------------------------
(***************************************************************************)
(* What both drains need of the inbound ring, for every capacity that      *)
(* divides the modulus of the counters: the counters stand for the         *)
(* unwrapped ones, the slots hold the last Cap bytes written, and a run    *)
(* copied out is the bytes from the tail on.                               *)
(***************************************************************************)
EXTENDS PlaybackSink, PrerollGate, FiniteSetTheorems, WellFoundedInduction, TLAPS

-----------------------------------------------------------------------------
(* Remainders *)

(* A remainder is what is left of a number after a multiple. *)
LEMMA RemainderIs ==
  ASSUME NEW m \in Nat \ {0}, NEW q \in Int, NEW r \in 0..(m - 1)
  PROVE  (m * q + r) % m = r
<1> SUFFICES ASSUME NEW a \in Int, a = m * q + r PROVE a % m = r
  OBVIOUS
<1> DEFINE p == a \div m
           s == a % m
<1>1. p \in Int /\ s \in 0..(m - 1) /\ a = m * p + s
  OBVIOUS
<1>2. m * q \in Int /\ m * p \in Int /\ m * (q - p) = m * q - m * p
  BY <1>1
<1> HIDE DEF p, s
<1> DEFINE d == q - p
<1>3. d \in Int /\ m * d = s - r
  BY <1>1, <1>2
<1> HIDE DEF d
<1>4. CASE d >= 1
  <2>1. m * d >= m
    BY <1>3, <1>4
  <2> QED
    BY <2>1, <1>1, <1>3
<1>5. CASE d <= -1
  <2>1. m * d <= -m
    BY <1>3, <1>5
  <2> QED
    BY <2>1, <1>1, <1>3
<1>6. CASE d = 0
  <2>1. m * d = 0
    BY <1>6
  <2>2. s = r
    BY <2>1, <1>1, <1>3
  <2> QED
    BY <2>2, Zenon DEF s
<1> QED
  BY <1>3, <1>4, <1>5, <1>6

(* Every number is a multiple and its remainder. *)
LEMMA Quotient ==
  ASSUME NEW m \in Nat \ {0}, NEW a \in Int
  PROVE  a % m \in 0..(m - 1) /\ \E q \in Int : a = m * q + (a % m)
<1>1. a \div m \in Int /\ a % m \in 0..(m - 1) /\ a = m * (a \div m) + (a % m)
  OBVIOUS
<1> QED
  BY Zenon, <1>1

LEMMA SmallRemainder ==
  ASSUME NEW m \in Nat \ {0}, NEW a \in 0..(m - 1)
  PROVE  a % m = a
<1>1. (m * 0 + a) % m = a
  BY 0 \in Int, RemainderIs, Zenon
<1>2. m * 0 + a = a
  OBVIOUS
<1> QED
  BY <1>1, <1>2, Zenon

(* Numbers a multiple apart have one remainder. *)
LEMMA SameRemainder ==
  ASSUME NEW m \in Nat \ {0}, NEW a \in Int, NEW k \in Int
  PROVE  (a + m * k) % m = a % m
<1>1. PICK q \in Int : a = m * q + (a % m)
  BY Zenon, Quotient
<1> DEFINE r == a % m
<1>2. r \in 0..(m - 1)
  BY Quotient, Zenon
<1>3. a = m * q + r
  BY <1>1, Zenon
<1> HIDE DEF r
<1>4. m * (q + k) = m * q + m * k /\ m * q \in Int /\ m * k \in Int /\ q + k \in Int
  OBVIOUS
<1> DEFINE n == q + k
<1>5. n \in Int /\ a + m * k = m * n + r
  BY <1>2, <1>3, <1>4
<1> HIDE DEF n
<1>6. (m * n + r) % m = r
  BY <1>2, <1>5, RemainderIs, Zenon
<1> QED
  BY <1>5, <1>6, Zenon DEF r

LEMMA RemainderOfSum ==
  ASSUME NEW m \in Nat \ {0}, NEW a \in Int, NEW b \in Int
  PROVE  ((a % m) + b) % m = (a + b) % m
<1>1. PICK q \in Int : a = m * q + (a % m)
  BY Zenon, Quotient
<1> DEFINE r == a % m
<1>2. r \in Int /\ a = m * q + r
  BY <1>1, Quotient
<1> HIDE DEF r
<1>3. r + b \in Int /\ a + b \in Int /\ a + b = (r + b) + m * q
  BY <1>2
<1>4. ((r + b) + m * q) % m = (r + b) % m
  BY <1>3, SameRemainder, Zenon
<1> QED
  BY <1>3, <1>4, Zenon DEF r

LEMMA RemainderOfDifference ==
  ASSUME NEW m \in Nat \ {0}, NEW a \in Int, NEW b \in Int
  PROVE  /\ ((a % m) - (b % m)) % m = (a - b) % m
         /\ (a - (b % m)) % m = (a - b) % m
<1>1. PICK p \in Int : a = m * p + (a % m)
  BY Quotient, Zenon
<1>2. PICK q \in Int : b = m * q + (b % m)
  BY Zenon, Quotient
<1>3. a % m \in Int /\ b % m \in Int
  BY Quotient
<1> DEFINE r == a % m
           s == b % m
<1>4. m * (p - q) = m * p - m * q /\ m * p \in Int /\ m * q \in Int /\ p - q \in Int
  OBVIOUS
<1>5. r \in Int /\ s \in Int /\ a = m * p + r /\ b = m * q + s
  BY <1>1, <1>2, <1>3, Zenon
<1> HIDE DEF r, s
<1> DEFINE n == p - q
<1>6. n \in Int /\ a - b = (r - s) + m * n
  BY <1>4, <1>5
<1> HIDE DEF n
<1>7. ((r - s) + m * n) % m = (r - s) % m
  <2>1. a - b \in Int /\ r - s \in Int
    BY <1>5
  <2> QED
    BY <2>1, <1>6, SameRemainder, Zenon
<1>8. a - s = (a - b) + m * q
  BY <1>4, <1>5
<1>9. ((a - b) + m * q) % m = (a - b) % m
  <2>1. a - b \in Int /\ a - s \in Int
    BY <1>5
  <2> QED
    BY <2>1, <1>8, SameRemainder, Zenon
<1> QED
  BY <1>6, <1>7, <1>8, <1>9, Zenon DEF r, s

LEMMA RingConstants ==
  Cap \in Nat \ {0} /\ Modulus \in Nat \ {0} /\ Cap < Modulus /\ MarkCap \in Nat \ {0}
BY RingAssumption

(* Where the counters wrap, the slots do not jump. *)
LEMMA WrapKeepsSlot ==
  ASSUME NEW a \in Int
  PROVE  (a % Modulus) % Cap = a % Cap
<1>0. Cap \in Nat \ {0} /\ Modulus \in Nat \ {0} /\ Modulus % Cap = 0
  BY RingAssumption
<1>1. PICK k \in Int : Modulus = Cap * k + (Modulus % Cap)
  <2>1. Modulus \in Int
    BY <1>0
  <2> QED
    BY <2>1, <1>0, Quotient, Zenon
<1>2. PICK q \in Int : a = Modulus * q + (a % Modulus)
  BY Zenon, <1>0, Quotient
<1> DEFINE r == a % Modulus
<1>3. r \in Int /\ a = Modulus * q + r
  BY <1>0, <1>2, Quotient
<1> HIDE DEF r
<1>4. Modulus = Cap * k
  BY <1>0, <1>1
<1> DEFINE n == k * q
<1>5. n \in Int /\ Modulus * q = Cap * n
  <2>1. Cap \in Int
    BY <1>0
  <2>2. \A x, y, z \in Int : (x * y) * z = x * (y * z)
    OBVIOUS
  <2>3. (Cap * k) * q = Cap * (k * q)
    BY <2>1, <2>2, Zenon
  <2> QED
    BY <2>3, <1>4
<1> HIDE DEF n
<1>6. a = r + Cap * n
  <2>1. Cap * n \in Int
    BY <1>0, <1>5
  <2> QED
    BY <2>1, <1>3, <1>5
<1>7. (r + Cap * n) % Cap = r % Cap
  BY <1>0, <1>3, <1>5, SameRemainder, Zenon
<1> QED
  BY <1>6, <1>7, Zenon DEF r

-----------------------------------------------------------------------------
(* The ring *)

(* The counters are those of the history modulo the wrap, and the last Cap *)
(* bytes written are in their slots, whatever the drain does.              *)
RingInv ==
  /\ RingTypeOK
  /\ consumed <= written
  /\ head = written % Modulus /\ tail = consumed % Modulus
  /\ head_at_reset = fence % Modulus
  /\ \A p \in 0..(written - 1) : p >= written - Cap => buf[p % Cap] = p + 1

(* The level the drain reads never exceeds what is banked, and is that as  *)
(* long as no end overran the other.                                       *)
LEMMA UsedIs ==
  ASSUME RingInv
  PROVE  Used \in 0..(written - consumed) /\ (NoOverrun => Used = written - consumed)
<1> DEFINE b == written - consumed
<1>0. b \in Nat /\ written \in Int /\ consumed \in Int
  BY DEF RingInv, RingTypeOK
<1>1. Used = b % Modulus
  <2>1. ((written % Modulus) - (consumed % Modulus)) % Modulus = (written - consumed) % Modulus
    BY <1>0, RingConstants, RemainderOfDifference, Zenon
  <2> QED
    BY <2>1, Zenon DEF RingInv, Used, WrappingSub
<1> HIDE DEF b
<1>2. PICK q \in Int : b = Modulus * q + (b % Modulus)
  <2>1. b \in Int
    BY <1>0
  <2> QED
    BY <2>1, RingConstants, Quotient, Zenon
<1>3. b % Modulus \in 0..(Modulus - 1)
  BY <1>0, RingConstants, Quotient
<1>4. b % Modulus <= b
  <2> DEFINE r == b % Modulus
  <2>1. r \in 0..(Modulus - 1) /\ b = Modulus * q + r
    BY <1>2, <1>3, Zenon
  <2> HIDE DEF r
  <2>2. CASE q >= 0
    <3>1. Modulus * q >= 0 /\ Modulus * q \in Int
      BY <2>2, RingConstants
    <3> QED
      BY <3>1, <2>1, <1>0 DEF r
  <2>3. CASE q <= -1
    <3>1. Modulus * q <= -Modulus /\ Modulus * q \in Int
      BY <2>3, RingConstants
    <3> QED
      BY <3>1, <2>1, <1>0, RingConstants
  <2> QED
    BY <2>2, <2>3
<1>5. NoOverrun => b % Modulus = b
  <2> SUFFICES ASSUME NoOverrun PROVE b % Modulus = b
    OBVIOUS
  <2>1. b \in 0..(Modulus - 1)
    BY <1>0, RingConstants DEF NoOverrun, b
  <2> QED
    BY <2>1, RingConstants, SmallRemainder, Zenon
<1> QED
  BY <1>0, <1>1, <1>3, <1>4, <1>5 DEF b

(* The slot of a byte written holds it, or a later one. *)
LEMMA SlotHolds ==
  ASSUME RingInv, NEW p \in 0..(written - 1)
  PROVE  /\ p % Cap \in 0..(Cap - 1)
         /\ buf[p % Cap] \in (p + 1)..written
         /\ written - p <= Cap => buf[p % Cap] = p + 1
<1>0. written \in Nat /\ buf \in [0..(Cap - 1) -> 0..written] /\ Cap \in Nat \ {0}
  BY RingConstants, Zenon DEF RingInv, RingTypeOK
<1>1. p % Cap \in 0..(Cap - 1)
  BY <1>0, Quotient
<1>2. ASSUME written - p <= Cap PROVE buf[p % Cap] = p + 1
  <2>1. p >= written - Cap
    BY <1>0, <1>2
  <2> QED
    BY <2>1, Zenon DEF RingInv
<1>3. ASSUME written - p > Cap PROVE buf[p % Cap] >= p + 1
  <2> DEFINE d == (written - 1) - p
  <2>1. d \in Int /\ d = (written - 1) - p
    BY <1>0
  <2> HIDE DEF d
  <2>2. PICK k \in Int : d = Cap * k + (d % Cap)
    BY <2>1, <1>0, Quotient, Zenon
  <2> DEFINE e == d % Cap
  <2>3. e \in 0..(Cap - 1) /\ d = Cap * k + e
    BY <2>1, <2>2, <1>0, Quotient, Zenon
  <2> HIDE DEF e
  <2> DEFINE n == p + Cap * k
  <2>4. Cap * k \in Int
    BY <1>0
  <2>5. n = (written - 1) - e
    BY <2>1, <2>3, <2>4, <1>0
  <2>6. n % Cap = p % Cap
    <3>1. p \in Int
      BY <1>0
    <3> QED
      BY <3>1, <1>0, SameRemainder, Zenon
  <2> HIDE DEF n
  <2>7. n \in 0..(written - 1) /\ n >= written - Cap /\ n >= p
    BY <2>3, <2>5, <1>0, <1>3
  <2>8. buf[n % Cap] = n + 1
    BY <2>7, Zenon DEF RingInv
  <2> QED
    BY <2>6, <2>7, <2>8
<1>4. buf[p % Cap] \in 0..written
  BY <1>0, <1>1, Zenon
<1> QED
  BY <1>0, <1>1, <1>2, <1>3, <1>4

(* The slot a position of the unwrapped counter has. *)
LEMMA TailSlot ==
  ASSUME RingInv, NEW i \in Nat
  PROVE  /\ tail % Cap = consumed % Cap /\ tail % Cap \in 0..(Cap - 1)
         /\ WrappingAdd(tail, i) = (consumed + i) % Modulus
         /\ WrappingAdd(tail, i) % Cap = (consumed + i) % Cap
         /\ (tail % Cap) + i < Cap => (consumed + i) % Cap = (tail % Cap) + i
<1>0. consumed \in Int /\ consumed + i \in Int /\ i \in Int /\ tail = consumed % Modulus
  BY DEF RingInv, RingTypeOK
<1>1. (consumed % Modulus) % Cap = consumed % Cap
  BY <1>0, WrapKeepsSlot, Zenon
<1>2. consumed % Cap \in 0..(Cap - 1)
  BY <1>0, RingConstants, Quotient, Zenon
<1>3. ((consumed % Modulus) + i) % Modulus = (consumed + i) % Modulus
  BY <1>0, RingConstants, RemainderOfSum, Zenon
<1>4. WrappingAdd(tail, i) = (consumed + i) % Modulus
  BY <1>0, <1>3, Zenon DEF WrappingAdd
<1>5. ((consumed + i) % Modulus) % Cap = (consumed + i) % Cap
  BY <1>0, WrapKeepsSlot, Zenon
<1>6. ((consumed % Cap) + i) % Cap = (consumed + i) % Cap
  BY <1>0, RingConstants, RemainderOfSum, Zenon
<1>7. ASSUME (tail % Cap) + i < Cap PROVE (consumed + i) % Cap = (tail % Cap) + i
  <2> DEFINE t == (consumed % Cap) + i
  <2>1. t \in 0..(Cap - 1)
    BY <1>0, <1>1, <1>2, <1>7, RingConstants
  <2> HIDE DEF t
  <2>2. t % Cap = t
    BY <2>1, RingConstants, SmallRemainder, Zenon
  <2> QED
    BY <2>2, <1>0, <1>1, <1>6, Zenon DEF t
<1> QED
  BY <1>0, <1>1, <1>2, <1>4, <1>5, <1>7, Zenon

(* What is banked is what was written. *)
LEMMA Banked ==
  ASSUME RingInv, NoOverrun
  PROVE  BankedBytesIntact
<1> SUFFICES ASSUME NEW i \in 1..Used
             PROVE  buf[WrappingAdd(tail, i - 1) % Cap] = consumed + i
  BY Zenon DEF BankedBytesIntact
<1>0. written \in Nat /\ consumed \in Nat /\ Cap \in Nat /\ Used = written - consumed
  BY UsedIs, RingConstants, Zenon DEF RingInv, RingTypeOK
<1> DEFINE p == consumed + (i - 1)
<1>1. p \in 0..(written - 1) /\ written - p <= Cap /\ p + 1 = consumed + i /\ i - 1 \in Nat
  BY <1>0 DEF NoOverrun
<1>2. WrappingAdd(tail, i - 1) % Cap = p % Cap
  BY <1>1, TailSlot, Zenon
<1> HIDE DEF p
<1>3. buf[p % Cap] = p + 1
  BY <1>1, SlotHolds, Zenon
<1> QED
  BY <1>1, <1>2, <1>3, Zenon

LEMMA MinOf ==
  ASSUME NEW S \in SUBSET Int, NEW x \in S, \A y \in S : x <= y
  PROVE  Min(S) = x
<1> DEFINE m == Min(S)
<1>1. m \in S /\ \A y \in S : m <= y
  BY Zenon DEF Min
<1> HIDE DEF m
<1>2. m \in Int /\ x \in Int /\ m <= x /\ x <= m
  BY <1>1, Zenon
<1> QED
  BY <1>2 DEF m

(* A run is the bytes from the tail on, as many as the caller has room for; *)
(* after an overrun they may be later ones, never earlier.                  *)
LEMMA CopyRunIs ==
  ASSUME RingInv, NEW room \in Nat
  PROVE  LET r == CopyRun(room)
         IN  /\ r = [bytes |-> r.bytes, generation |-> generation,
                     reached_end_of_audio |-> r.reached_end_of_audio]
             /\ r.reached_end_of_audio \in BOOLEAN
             /\ r.bytes \in Seq(Nat) /\ Len(r.bytes) <= room
             /\ consumed + Len(r.bytes) <= written
             /\ \A i \in 1..Len(r.bytes) : r.bytes[i] \in (consumed + i)..written
             /\ NoOverrun => \A i \in 1..Len(r.bytes) : r.bytes[i] = consumed + i
<1> DEFINE start  == tail % Cap
           base_n == Min({Used, room, Cap - start})
           dist   == WrappingSub(marks[1].pos, tail)
           atMark == marks # <<>> /\ dist > 0 /\ dist <= base_n
           n      == IF atMark THEN dist ELSE base_n
           bytes  == [i \in 1..n |-> buf[start + i - 1]]
<1>0. /\ written \in Nat /\ consumed \in Nat /\ consumed <= written /\ Cap \in Nat \ {0}
      /\ Used \in 0..(written - consumed) /\ start \in 0..(Cap - 1)
  BY Zenon, UsedIs, TailSlot, 0 \in Nat, RingConstants DEF RingInv, RingTypeOK
<1>1. CopyRun(room) = [bytes |-> bytes, generation |-> generation,
                       reached_end_of_audio |-> atMark]
  BY Zenon DEF CopyRun
<1>2. base_n \in Nat /\ base_n <= Used /\ base_n <= room /\ base_n <= Cap - start
  <2> HIDE DEF start
  <2> DEFINE S == {Used, room, Cap - start}
  <2>1. Used \in Nat /\ Cap - start \in Nat /\ S \in SUBSET Int
    BY <1>0
  <2>2. \E x \in S : \A y \in S : x <= y
    <3> DEFINE u == Used
               c == Cap - start
    <3>1. u \in Nat /\ c \in Nat
      BY <2>1, Zenon
    <3> HIDE DEF u, c
    <3>2. \E x \in {u, room, c} : \A y \in {u, room, c} : x <= y
      <4>1. CASE u <= room /\ u <= c
        BY <3>1, <4>1
      <4>2. CASE room <= u /\ room <= c
        BY <3>1, <4>2
      <4>3. CASE c <= room /\ c <= u
        BY <3>1, <4>3
      <4> QED
        BY <3>1, <4>1, <4>2, <4>3
    <3> QED
      BY <3>2, Zenon DEF u, c
  <2>3. PICK x \in S : \A y \in S : x <= y
    BY <2>2, Zenon
  <2> HIDE DEF S
  <2>4. Min(S) = x
    BY <2>1, <2>3, MinOf, Zenon
  <2> QED
    BY <2>1, <2>3, <2>4, Zenon DEF S
<1>3. n \in Nat /\ n <= base_n
  <2>1. CASE marks = <<>>
    BY <2>1, <1>2
  <2>2. CASE marks # <<>>
    <3>1. marks[1].pos \in Int /\ tail \in Int
      <4> DEFINE R == [pos : 0..(Modulus - 1), generation : 0..generation]
      <4>1. marks \in Seq(R) /\ tail \in 0..(Modulus - 1) /\ Modulus \in Int
        BY RingConstants DEF RingInv, RingTypeOK
      <4> HIDE DEF R
      <4>2. marks[1] \in R
        BY <4>1, <2>2
      <4>3. marks[1].pos \in 0..(Modulus - 1)
        BY <4>2, Zenon DEF R
      <4> QED
        BY <4>1, <4>3
    <3>2. dist \in 0..(Modulus - 1)
      <4> DEFINE d == marks[1].pos - tail
      <4>1. d \in Int /\ dist = d % Modulus
        BY <3>1 DEF WrappingSub
      <4> HIDE DEF d
      <4>2. d % Modulus \in 0..(Modulus - 1)
        BY <4>1, RingConstants, Quotient, Zenon
      <4> QED
        BY <4>1, <4>2, Zenon
    <3> HIDE DEF dist
    <3> QED
      BY <3>2, <1>2, RingConstants
  <2> QED
    BY <2>1, <2>2, Zenon
<1> HIDE DEF n, base_n, atMark
<1>4. n <= room /\ n <= written - consumed /\ n <= Cap - start
  BY <1>0, <1>2, <1>3
<1>5. ASSUME NEW i \in 1..n
      PROVE  /\ bytes[i] \in (consumed + i)..written
             /\ NoOverrun => bytes[i] = consumed + i
  <2>1. i - 1 \in Nat /\ start + (i - 1) < Cap /\ i \in Nat
    BY <1>0, <1>3, <1>4, <1>5
  <2> DEFINE p == consumed + (i - 1)
  <2>2. p % Cap = start + (i - 1)
    BY <2>1, TailSlot, Zenon
  <2>3. p \in 0..(written - 1) /\ p + 1 = consumed + i
    BY <2>1, <1>0, <1>3, <1>4, <1>5
  <2>4. NoOverrun => written - p <= Cap
    BY <2>1, <2>3, <1>0 DEF NoOverrun
  <2>5. bytes[i] = buf[p % Cap]
    <3>1. start + i - 1 = start + (i - 1)
      BY <1>0, <2>1, Zenon
    <3>2. bytes[i] = buf[start + i - 1]
      BY <1>5, Zenon
    <3> QED
      BY ONLY <3>1, <3>2, <2>2, Zenon
  <2> HIDE DEF p, start, bytes
  <2>6. buf[p % Cap] \in (p + 1)..written /\ (written - p <= Cap => buf[p % Cap] = p + 1)
    BY <2>3, SlotHolds, Zenon
  <2> QED
    BY <2>3, <2>4, <2>5, <2>6, Zenon
<1>6. bytes \in Seq(Nat) /\ Len(bytes) = n
  <2>1. \A i \in 1..n : bytes[i] \in Nat
    BY <1>0, <1>5, <1>3
  <2>2. DOMAIN bytes = 1..n /\ bytes = [i \in 1..n |-> bytes[i]]
    OBVIOUS
  <2> HIDE DEF bytes
  <2>3. bytes \in [1..n -> Nat]
    BY <2>1, <2>2, Zenon
  <2> QED
    BY <2>2, <2>3, <1>3
<1> HIDE DEF bytes
<1>7. atMark \in BOOLEAN
  BY Zenon DEF atMark
<1> QED
  BY <1>0, <1>1, <1>4, <1>5, <1>6, <1>7

-----------------------------------------------------------------------------
(* The marks *)

LEMMA LeastNatural ==
  ASSUME NEW T \in SUBSET Nat, T # {}
  PROVE  \E i \in T : \A j \in T : i <= j
<1>1. PICK i \in T : \A j \in T : ~(<<j, i>> \in OpToRel(<, Nat))
  BY WFMin, NatLessThanWellFounded, Zenon
<1>2. \A j \in T : ~(j < i)
  BY Zenon, <1>1 DEF OpToRel
<1>. QED  BY <1>2

(* The loop that keeps the live marks, after n of them. *)
KeepsLive(f, s, g, n) ==
  /\ f = [i \in 0..n |-> f[i]] /\ f[0] = <<>>
  /\ \A i \in 1..n :
       f[i] = IF s[i].generation = g THEN Append(f[i - 1], s[i]) ELSE f[i - 1]

(* The loop runs to its end. *)
LEMMA LoopRuns ==
  ASSUME NEW s, NEW g, NEW k \in Nat
  PROVE  \E f : KeepsLive(f, s, g, k)
<1> DEFINE T == {n \in Nat : ~\E f : KeepsLive(f, s, g, n)}
<1>1. SUFFICES ASSUME T # {} PROVE FALSE
  BY <1>1, Zenon
<1>2. T \in SUBSET Nat
  OBVIOUS
<1> HIDE DEF T
<1>3. PICK n \in T : \A j \in T : n <= j
  BY <1>1, <1>2, LeastNatural, Zenon
<1>4. n \in Nat
  BY <1>2, Zenon
<1>5. CASE n = 0
  <2> DEFINE f == [i \in 0..0 |-> <<>>]
  <2>1. KeepsLive(f, s, g, 0)
    <3>1. f = [i \in 0..0 |-> f[i]] /\ f[0] = <<>>
      OBVIOUS
    <3> QED
      BY <3>1 DEF KeepsLive
  <2> QED
    BY <2>1, <1>5, Zenon DEF T
<1>6. CASE n # 0
  <2>1. n - 1 \in Nat /\ ~(n <= n - 1)
    BY <1>4, <1>6
  <2>2. n - 1 \notin T
    BY <2>1, <1>3, Zenon
  <2>3. PICK f : KeepsLive(f, s, g, n - 1)
    BY <2>1, <2>2, Zenon DEF T
  <2> DEFINE last == IF s[n].generation = g THEN Append(f[n - 1], s[n]) ELSE f[n - 1]
             h == [i \in 0..n |-> IF i = n THEN last ELSE f[i]]
  <2>4. h = [i \in 0..n |-> h[i]]
    OBVIOUS
  <2>5. h[n] = last /\ \A i \in 0..(n - 1) : h[i] = f[i]
    BY <1>4
  <2>6. f[0] = <<>> /\ \A i \in 1..(n - 1) :
          f[i] = IF s[i].generation = g THEN Append(f[i - 1], s[i]) ELSE f[i - 1]
    BY Zenon, <2>3 DEF KeepsLive
  <2> HIDE DEF h
  <2>7. h[0] = <<>>
    BY <2>5, <2>6, <1>4, <1>6
  <2>8. ASSUME NEW i \in 1..n
        PROVE  h[i] = IF s[i].generation = g THEN Append(h[i - 1], s[i]) ELSE h[i - 1]
    <3>1. h[i - 1] = f[i - 1]
      BY <2>5, <1>4
    <3>2. CASE i = n
      BY <3>1, <3>2, <2>5, Zenon
    <3>3. CASE i # n
      <4>1. i \in 1..(n - 1) /\ i \in 0..(n - 1)
        BY <3>3, <1>4
      <4> QED
        BY <4>1, <3>1, <2>5, <2>6, Zenon
    <3> QED
      BY <3>2, <3>3, Zenon
  <2>9. KeepsLive(h, s, g, n)
    BY <2>4, <2>7, <2>8, Zenon DEF KeepsLive
  <2> QED
    BY <2>9, <1>4, Zenon DEF T
<1> QED
  BY <1>5, <1>6, Zenon

(* It keeps some of the marks, and no others. *)
LEMMA LoopKeeps ==
  ASSUME NEW R, NEW s \in Seq(R), NEW g, NEW f, KeepsLive(f, s, g, Len(s))
  PROVE  f[Len(s)] \in Seq(R) /\ Len(f[Len(s)]) <= Len(s)
<1> DEFINE T == {n \in 0..Len(s) : ~(f[n] \in Seq(R) /\ Len(f[n]) <= n)}
<1>1. SUFFICES ASSUME T # {} PROVE FALSE
  BY <1>1
<1>2. T \in SUBSET Nat
  OBVIOUS
<1> HIDE DEF T
<1>3. PICK n \in T : \A j \in T : n <= j
  BY <1>1, <1>2, LeastNatural, Zenon
<1>4. n \in 0..Len(s) /\ ~(f[n] \in Seq(R) /\ Len(f[n]) <= n)
  BY <1>3, Zenon DEF T
<1>5. CASE n = 0
  <2>1. f[n] = <<>>
    BY <1>5, Zenon DEF KeepsLive
  <2>2. <<>> \in Seq(R) /\ Len(<<>>) = 0
    OBVIOUS
  <2>3. f[n] \in Seq(R) /\ Len(f[n]) <= n
    BY <2>1, <2>2, <1>5
  <2> QED
    BY <2>3, <1>4, Zenon
<1>6. CASE n # 0
  <2>1. n - 1 \in 0..Len(s) /\ ~(n <= n - 1) /\ n \in 1..Len(s)
    BY <1>4, <1>6
  <2>2. f[n - 1] \in Seq(R) /\ Len(f[n - 1]) <= n - 1
    BY <2>1, <1>3, Zenon DEF T
  <2>3. f[n] = IF s[n].generation = g THEN Append(f[n - 1], s[n]) ELSE f[n - 1]
    BY Zenon, <2>1 DEF KeepsLive
  <2>4. s[n] \in R
    BY <2>1
  <2> DEFINE e == f[n - 1]
  <2>5. Append(e, s[n]) \in Seq(R) /\ Len(Append(e, s[n])) = Len(e) + 1
    BY <2>2, <2>4
  <2>6. f[n] \in {e, Append(e, s[n])}
    BY <2>3, Zenon
  <2> HIDE DEF e
  <2>7. Len(e) <= n - 1 /\ e \in Seq(R) /\ n \in Nat
    BY <2>1, <2>2 DEF e
  <2> DEFINE a == Append(e, s[n])
  <2>8. Len(e) \in Int /\ Len(e) <= n
    BY <2>7
  <2>9. Len(a) <= n /\ a \in Seq(R)
    BY <2>5, <2>7, <2>8
  <2> HIDE DEF a
  <2>10. f[n] \in {e, a}
    BY <2>6, Zenon DEF a
  <2>11. f[n] \in Seq(R) /\ Len(f[n]) <= n
    BY <2>7, <2>8, <2>9, <2>10, Zenon
  <2> QED
    BY <2>11, <1>4, Zenon
<1> QED
  BY <1>5, <1>6, Zenon

LEMMA LiveMarksAre ==
  ASSUME NEW R, marks \in Seq(R)
  PROVE  LiveMarks \in Seq(R) /\ Len(LiveMarks) <= Len(marks)
<1> DEFINE Body(f) == [n \in 0..Len(marks) |->
                         IF n = 0 THEN <<>>
                         ELSE IF marks[n].generation = generation
                           THEN Append(f[n - 1], marks[n]) ELSE f[n - 1]]
           kept == CHOOSE f : f = Body(f)
<1>1. LiveMarks = kept[Len(marks)]
  BY Zenon DEF LiveMarks
<1>2. Len(marks) \in Nat
  OBVIOUS
<1>3. PICK f : KeepsLive(f, marks, generation, Len(marks))
  BY Zenon, <1>2, LoopRuns
<1>4. f = Body(f)
  <2>1. f = [i \in 0..Len(marks) |-> f[i]]
    BY <1>3, Zenon DEF KeepsLive
  <2>2. \A i \in 0..Len(marks) : f[i] = Body(f)[i]
    BY <1>2, <1>3 DEF KeepsLive
  <2>3. Body(f) = [i \in 0..Len(marks) |-> Body(f)[i]]
    OBVIOUS
  <2> HIDE DEF Body
  <2> QED
    BY <2>1, <2>2, <2>3, Zenon
<1>5. kept = Body(kept)
  <2> HIDE DEF Body
  <2> QED
    BY <1>4, Zenon DEF kept
<1> HIDE DEF kept
<1>6. KeepsLive(kept, marks, generation, Len(marks))
  <2>1. DOMAIN kept = 0..Len(marks)
    BY <1>5, Zenon
  <2>2. kept = [i \in 0..Len(marks) |-> kept[i]]
    BY <1>5, Zenon
  <2>3. kept[0] = <<>>
    BY <1>5, <1>2
  <2>4. ASSUME NEW i \in 1..Len(marks)
        PROVE  kept[i] = IF marks[i].generation = generation
                         THEN Append(kept[i - 1], marks[i]) ELSE kept[i - 1]
    <3>1. i \in 0..Len(marks) /\ i # 0
      BY <1>2
    <3>2. kept[i] = Body(kept)[i]
      BY Zenon, <1>5
    <3> QED
      BY <3>1, <3>2, Zenon
  <2> QED
    BY <2>2, <2>3, <2>4, Zenon DEF KeepsLive
<1>7. kept[Len(marks)] \in Seq(R) /\ Len(kept[Len(marks)]) <= Len(marks)
  BY <1>6, LoopKeeps, Zenon
<1> QED
  BY <1>1, <1>7, Zenon

-----------------------------------------------------------------------------
(* The critical sections *)

Marks(g) == [pos : 0..(Modulus - 1), generation : 0..g]

LEMMA RingTypes ==
  ASSUME RingInv
  PROVE  /\ head \in 0..(Modulus - 1) /\ tail \in 0..(Modulus - 1)
         /\ generation \in Nat /\ head_at_reset \in 0..(Modulus - 1)
         /\ buf \in [0..(Cap - 1) -> 0..written]
         /\ marks \in Seq(Marks(generation)) /\ Len(marks) <= MarkCap
         /\ written \in Nat /\ consumed \in Nat /\ consumed <= written
         /\ fence \in 0..written
BY Zenon DEF RingInv, RingTypeOK, Marks

LEMMA RingStarts == RingInit => RingInv /\ NoOverrun
<1> SUFFICES ASSUME RingInit PROVE RingInv /\ NoOverrun
  OBVIOUS
<1> USE RingConstants
<1>1. 0 % Modulus = 0
  <2>1. 0 \in 0..(Modulus - 1)
    OBVIOUS
  <2> QED
    BY <2>1, SmallRemainder, Zenon
<1>2. RingTypeOK
  <2>1. <<>> \in Seq([pos : 0..(Modulus - 1), generation : 0..0]) /\ Len(<<>>) = 0
    OBVIOUS
  <2> QED
    BY <2>1 DEF RingInit, RingTypeOK
<1> QED
  BY <1>1, <1>2 DEF RingInit, RingInv, NoOverrun

(* A write puts the next bytes in the next slots; the ones it overwrites    *)
(* are a lap behind.                                                        *)
LEMMA WriteKeeps ==
  ASSUME RingInv, NEW need \in 1..Cap, Write(need)
  PROVE  RingInv' /\ (NoOverrun => NoOverrun')
<1>0. /\ written' = written + need /\ head' = WrappingAdd(head, need)
      /\ UNCHANGED <<tail, generation, head_at_reset, marks, consumed, fence>>
  BY Zenon DEF Write
<1>1. Cap \in Nat \ {0} /\ need \in Nat /\ need > 0 /\ need <= Cap
  BY RingConstants
<1> DEFINE off(s) == (s - (head % Cap)) % Cap
<1>2. buf' = [s \in 0..(Cap - 1) |-> IF off(s) < need THEN written + 1 + off(s) ELSE buf[s]]
  BY Zenon DEF Write
<1>3. head % Cap = written % Cap /\ head % Cap \in 0..(Cap - 1)
  <2>1. written \in Int /\ head = written % Modulus
    BY RingTypes DEF RingInv
  <2>2. (written % Modulus) % Cap = written % Cap
    BY <2>1, WrapKeepsSlot, Zenon
  <2>3. written % Cap \in 0..(Cap - 1)
    BY <2>1, <1>1, Quotient, Zenon
  <2> QED
    BY <2>1, <2>2, <2>3, Zenon
<1>4. ASSUME NEW s \in 0..(Cap - 1) PROVE off(s) \in 0..(Cap - 1)
  <2> DEFINE d == s - (head % Cap)
  <2>1. d \in Int
    BY <1>1, <1>3
  <2> HIDE DEF d
  <2>2. d % Cap \in 0..(Cap - 1)
    BY <2>1, <1>1, Quotient, Zenon
  <2> QED
    BY <2>2, Zenon DEF d
<1>5. ASSUME NEW p \in Int PROVE off(p % Cap) = (p - written) % Cap
  <2>1. written \in Int
    BY RingTypes
  <2>2. ((p % Cap) - (written % Cap)) % Cap = (p - written) % Cap
    BY <2>1, <1>1, RemainderOfDifference, Zenon
  <2> QED
    BY <2>2, <1>3, Zenon
<1> HIDE DEF off
<1>6. buf' \in [0..(Cap - 1) -> 0..written']
  <2>1. ASSUME NEW s \in 0..(Cap - 1) PROVE buf'[s] \in 0..written'
    <3>1. buf'[s] = IF off(s) < need THEN written + 1 + off(s) ELSE buf[s]
      BY <1>2, Zenon
    <3>2. buf \in [0..(Cap - 1) -> 0..written] /\ written \in Nat
      BY RingTypes, Zenon
    <3>3. buf[s] \in 0..written /\ off(s) \in Nat
      BY <3>2, <1>4
    <3> QED
      BY <3>1, <3>2, <3>3, <1>0, <1>1
  <2>2. buf' = [s \in 0..(Cap - 1) |-> buf'[s]]
    BY <1>2, Zenon
  <2> QED
    BY <2>1, <2>2, Zenon
<1>7. head' = written' % Modulus /\ head' \in 0..(Modulus - 1)
  <2>1. written \in Int /\ need \in Int /\ head = written % Modulus /\ written' \in Int
    BY <1>0, RingTypes DEF RingInv
  <2>2. ((written % Modulus) + need) % Modulus = (written + need) % Modulus
    BY <2>1, RingConstants, RemainderOfSum, Zenon
  <2>3. written' % Modulus \in 0..(Modulus - 1)
    BY <2>1, RingConstants, Quotient, Zenon
  <2> QED
    BY <2>1, <2>2, <2>3, <1>0, Zenon DEF WrappingAdd
<1>8. ASSUME NEW p \in 0..(written' - 1), p >= written' - Cap
      PROVE  buf'[p % Cap] = p + 1
  <2>1. p \in Int /\ written \in Nat /\ written' = written + need
    BY <1>0, RingTypes
  <2> DEFINE d == p - written
  <2>2. d \in Int /\ p = written + d /\ d < need /\ d >= need - Cap
    BY <2>1, <1>1, <1>8
  <2>3. off(p % Cap) = d % Cap
    BY <2>1, <1>5, Zenon
  <2>4. p % Cap \in 0..(Cap - 1)
    BY <2>1, <1>1, Quotient, Zenon
  <2> DEFINE s == p % Cap
  <2>5. buf'[s] = IF off(s) < need THEN written + 1 + off(s) ELSE buf[s]
    BY <2>4, <1>2, Zenon
  <2> HIDE DEF d
  <2>6. CASE d >= 0
    <3>1. d % Cap = d
      <4>1. d \in 0..(Cap - 1)
        BY <2>2, <2>6, <1>1
      <4> QED
        BY <4>1, <1>1, SmallRemainder, Zenon
    <3>2. off(s) = d
      BY <3>1, <2>3, Zenon
    <3> HIDE DEF s
    <3> QED
      BY <3>2, <2>1, <2>2, <2>5 DEF s
  <2>7. CASE d < 0
    <3>1. d % Cap = d + Cap
      <4> DEFINE e == d + Cap
      <4>1. e \in 0..(Cap - 1) /\ e = d + Cap * 1 /\ 1 \in Int
        BY <2>2, <2>7, <1>1
      <4>2. (d + Cap * 1) % Cap = d % Cap
        BY <4>1, <2>2, <1>1, SameRemainder, Zenon
      <4> HIDE DEF e
      <4>3. e % Cap = e
        BY <4>1, <1>1, SmallRemainder, Zenon
      <4> QED
        BY <4>1, <4>2, <4>3, Zenon DEF e
    <3>2. off(s) = d + Cap
      BY <3>1, <2>3, Zenon
    <3> HIDE DEF s
    <3>3. buf'[s] = buf[s]
      BY <3>2, <2>2, <2>5, <1>1
    <3>4. p \in 0..(written - 1) /\ written - p <= Cap
      BY <2>1, <2>2, <2>7, <1>1, <1>8
    <3> QED
      BY <3>3, <3>4, SlotHolds, Zenon DEF s
  <2> QED
    BY <2>2, <2>6, <2>7
<1>9. RingTypeOK'
  <2>1. /\ tail' \in 0..(Modulus - 1) /\ generation' \in Nat /\ head_at_reset' \in 0..(Modulus - 1)
        /\ marks' \in Seq([pos : 0..(Modulus - 1), generation : 0..generation'])
        /\ Len(marks') <= MarkCap /\ written' \in Nat /\ consumed' \in Nat /\ fence' \in 0..written'
    BY <1>0, <1>1, RingTypes DEF Marks
  <2> QED
    BY <2>1, <1>6, <1>7, Zenon DEF RingTypeOK
<1>10. consumed' <= written' /\ tail' = consumed' % Modulus /\ head_at_reset' = fence' % Modulus
  BY <1>0, <1>1, RingTypes DEF RingInv
<1>11. RingInv'
  BY <1>7, <1>8, <1>9, <1>10 DEF RingInv
<1>12. ASSUME NoOverrun PROVE NoOverrun'
  <2>1. Used = written - consumed /\ written \in Nat /\ consumed \in Nat
    BY <1>12, UsedIs, RingTypes
  <2>2. written - consumed <= Cap
    BY <1>12, Zenon DEF NoOverrun
  <2>3. Cap - (written - consumed) >= need
    BY <2>1, <2>2, <1>1 DEF Write, HasRoom
  <2> QED
    BY <2>1, <2>3, <1>0, <1>1, <1>10 DEF NoOverrun
<1> QED
  BY <1>11, <1>12, Zenon

(* What does not touch the bytes: the marks and the reset position. *)
LEMMA OthersKeep ==
  ASSUME RingInv, UNCHANGED <<head, tail, buf, written, consumed>>,
         generation' \in Nat, fence' \in 0..written', head_at_reset' = fence' % Modulus,
         marks' \in Seq(Marks(generation')), Len(marks') <= MarkCap
  PROVE  RingInv' /\ (NoOverrun => NoOverrun')
<1>1. head_at_reset' \in 0..(Modulus - 1)
  <2>1. fence' \in Int
    BY RingTypes
  <2> QED
    BY <2>1, RingConstants, Quotient, Zenon
<1>2. RingTypeOK'
  <2>1. /\ head' \in 0..(Modulus - 1) /\ tail' \in 0..(Modulus - 1)
        /\ buf' \in [0..(Cap - 1) -> 0..written'] /\ written' \in Nat /\ consumed' \in Nat
    BY RingTypes, Zenon
  <2> QED
    BY <2>1, <1>1, Zenon DEF RingTypeOK, Marks
<1>3. /\ consumed' <= written' /\ head' = written' % Modulus /\ tail' = consumed' % Modulus
      /\ \A p \in 0..(written' - 1) : p >= written' - Cap => buf'[p % Cap] = p + 1
  BY Zenon DEF RingInv
<1> QED
  BY <1>2, <1>3, Zenon DEF RingInv, NoOverrun

LEMMA MarksGrow ==
  ASSUME NEW g \in Nat, NEW h \in Nat, g <= h, NEW s \in Seq(Marks(g))
  PROVE  s \in Seq(Marks(h))
<1>1. Marks(g) \subseteq Marks(h)
  BY DEF Marks
<1> HIDE DEF Marks
<1> QED
  BY <1>1

LEMMA ResetKeeps ==
  ASSUME RingInv, Reset
  PROVE  RingInv' /\ (NoOverrun => NoOverrun')
<1>1. /\ generation' = generation + 1 /\ head_at_reset' = head /\ fence' = written
      /\ UNCHANGED <<head, tail, buf, marks, written, consumed>>
  BY Zenon DEF Reset
<1>2. generation' \in Nat /\ fence' \in 0..written' /\ head_at_reset' = fence' % Modulus
  BY <1>1, RingTypes DEF RingInv
<1>3. marks' \in Seq(Marks(generation')) /\ Len(marks') <= MarkCap
  <2>1. marks \in Seq(Marks(generation)) /\ generation \in Nat /\ Len(marks) <= MarkCap
    BY RingTypes, Zenon
  <2>2. generation' \in Nat /\ generation <= generation'
    BY <1>1, <2>1
  <2> QED
    BY <2>1, <2>2, <1>1, MarksGrow, Zenon
<1> QED
  BY <1>1, <1>2, <1>3, OthersKeep, Zenon

LEMMA MarkKeeps ==
  ASSUME RingInv, MarkEndOfAudio
  PROVE  RingInv' /\ (NoOverrun => NoOverrun')
<1> DEFINE kept == IF Len(marks) = MarkCap THEN Tail(marks) ELSE marks
           m == [pos |-> head, generation |-> generation]
<1>1. marks' = Append(kept, m)
  BY Zenon DEF MarkEndOfAudio
<1>2. UNCHANGED <<head, tail, generation, head_at_reset, buf, written, consumed, fence>>
  BY Zenon DEF MarkEndOfAudio
<1>3. m \in Marks(generation)
  BY RingTypes DEF Marks
<1>4. marks \in Seq(Marks(generation)) /\ Len(marks) <= MarkCap /\ MarkCap \in Nat \ {0}
  BY RingTypes, RingConstants, Zenon
<1> HIDE DEF m, Marks
<1>5. kept \in Seq(Marks(generation)) /\ Len(kept) < MarkCap
  <2>1. CASE Len(marks) = MarkCap
    <3>1. marks # <<>>
      BY <2>1, <1>4, Zenon
    <3>2. Tail(marks) \in Seq(Marks(generation)) /\ Len(Tail(marks)) = Len(marks) - 1
      BY <3>1, <1>4
    <3> QED
      BY <3>2, <2>1, <1>4
  <2>2. CASE Len(marks) # MarkCap
    <3>1. Len(marks) \in Nat
      BY <1>4
    <3> QED
      BY <3>1, <2>2, <1>4
  <2> QED
    BY <2>1, <2>2, Zenon
<1> HIDE DEF kept
<1>6. marks' \in Seq(Marks(generation)) /\ Len(marks') = Len(kept) + 1 /\ Len(kept) \in Nat
  BY <1>1, <1>3, <1>5
<1>7. marks' \in Seq(Marks(generation')) /\ Len(marks') <= MarkCap
  BY <1>2, <1>4, <1>5, <1>6
<1>8. generation' \in Nat /\ fence' \in 0..written' /\ head_at_reset' = fence' % Modulus
  BY <1>2, RingTypes, Zenon DEF RingInv
<1> QED
  BY <1>2, <1>7, <1>8, OthersKeep, Zenon

LEMMA PoppedMarks ==
  ASSUME RingInv, NEW pos, PopMarkIfAt(pos), generation' = generation
  PROVE  marks' \in Seq(Marks(generation')) /\ Len(marks') <= MarkCap
<1>1. marks \in Seq(Marks(generation)) /\ Len(marks) <= MarkCap /\ MarkCap \in Nat
  BY RingTypes, RingConstants, Zenon
<1> HIDE DEF Marks
<1>2. CASE MarkAt(pos)
  <2>1. marks # <<>> /\ marks' = Tail(marks)
    BY <1>2, Zenon DEF MarkAt, PopMarkIfAt
  <2>2. Tail(marks) \in Seq(Marks(generation)) /\ Len(Tail(marks)) = Len(marks) - 1
        /\ Len(marks) \in Nat
    BY <2>1, <1>1
  <2> QED
    BY <2>1, <2>2, <1>1
<1>3. CASE ~MarkAt(pos)
  BY <1>1, <1>3, Zenon DEF PopMarkIfAt
<1> QED
  BY <1>2, <1>3, Zenon

LEMMA TakeMarkKeeps ==
  ASSUME RingInv, TakeMarkAtTail
  PROVE  RingInv' /\ (NoOverrun => NoOverrun')
<1>1. /\ PopMarkIfAt(tail)
      /\ UNCHANGED <<head, tail, generation, head_at_reset, buf, written, consumed, fence>>
  BY Zenon DEF TakeMarkAtTail
<1>2. marks' \in Seq(Marks(generation')) /\ Len(marks') <= MarkCap
  BY <1>1, PoppedMarks, Zenon
<1>3. generation' \in Nat /\ fence' \in 0..written' /\ head_at_reset' = fence' % Modulus
  BY <1>1, RingTypes, Zenon DEF RingInv
<1> QED
  BY <1>1, <1>2, <1>3, OthersKeep

(* Moving the tail to a position already written. *)
LEMMA TailMoves ==
  ASSUME RingInv, UNCHANGED <<head, generation, head_at_reset, buf, written, fence>>,
         consumed' \in 0..written, tail' = consumed' % Modulus,
         marks' \in Seq(Marks(generation')), Len(marks') <= MarkCap
  PROVE  RingInv' /\ (NoOverrun /\ consumed <= consumed' => NoOverrun')
<1>1. tail' \in 0..(Modulus - 1) /\ consumed' \in Nat /\ consumed' <= written'
  <2>1. consumed' \in Int
    BY RingTypes
  <2>2. consumed' % Modulus \in 0..(Modulus - 1)
    BY <2>1, RingConstants, Quotient, Zenon
  <2> QED
    BY <2>2, RingTypes
<1>2. RingTypeOK'
  <2>1. /\ head' \in 0..(Modulus - 1) /\ generation' \in Nat /\ head_at_reset' \in 0..(Modulus - 1)
        /\ buf' \in [0..(Cap - 1) -> 0..written'] /\ written' \in Nat /\ fence' \in 0..written'
    BY RingTypes, Zenon
  <2> QED
    BY <2>1, <1>1, Zenon DEF RingTypeOK, Marks
<1>3. /\ head' = written' % Modulus /\ head_at_reset' = fence' % Modulus
      /\ \A p \in 0..(written' - 1) : p >= written' - Cap => buf'[p % Cap] = p + 1
  BY Zenon DEF RingInv
<1>4. NoOverrun /\ consumed <= consumed' => NoOverrun'
  <2>1. written \in Nat /\ consumed \in Nat /\ Cap \in Nat
    BY RingTypes, RingConstants, Zenon
  <2>2. consumed' \in Nat /\ consumed' <= written'
    BY <1>1, Zenon
  <2> SUFFICES ASSUME written - consumed <= Cap, consumed <= consumed'
               PROVE  written' - consumed' <= Cap
    BY <2>2, Zenon DEF NoOverrun
  <2>3. written - consumed' <= Cap
    <3>1. \A a, b, c, k \in Nat : a - b <= k /\ b <= c => a - c <= k
      OBVIOUS
    <3>2. consumed' \in Nat
      BY <2>2, Zenon
    <3> QED
      BY <3>1, <3>2, <2>1, Zenon
  <2> QED
    BY <2>3, Zenon
<1> QED
  BY <1>1, <1>2, <1>3, <1>4, Zenon DEF RingInv

LEMMA AdvanceKeeps ==
  ASSUME RingInv, NEW n \in Nat, consumed + n <= written, Advance(n)
  PROVE  RingInv' /\ (NoOverrun => NoOverrun')
<1>1. /\ tail' = WrappingAdd(tail, n) /\ consumed' = consumed + n
      /\ PopMarkIfAt(WrappingAdd(tail, n))
      /\ UNCHANGED <<head, generation, head_at_reset, buf, written, fence>>
  BY Zenon DEF Advance
<1>2. tail' = consumed' % Modulus
  BY <1>1, TailSlot, Zenon
<1>3. marks' \in Seq(Marks(generation')) /\ Len(marks') <= MarkCap
  BY <1>1, PoppedMarks, Zenon
<1>4. consumed' \in 0..written /\ consumed <= consumed'
  BY <1>1, RingTypes
<1> QED
  BY <1>1, <1>2, <1>3, <1>4, TailMoves

LEMMA ApplyResetKeeps ==
  ASSUME RingInv, ApplyReset
  PROVE  RingInv' /\ (NoOverrun /\ consumed <= fence => NoOverrun')
<1>1. /\ marks' = LiveMarks /\ tail' = head_at_reset /\ consumed' = fence
      /\ UNCHANGED <<head, generation, head_at_reset, buf, written, fence>>
  BY Zenon DEF ApplyReset
<1>2. tail' = consumed' % Modulus /\ consumed' \in 0..written
  BY <1>1, RingTypes, Zenon DEF RingInv
<1>3. marks' \in Seq(Marks(generation')) /\ Len(marks') <= MarkCap
  <2>1. marks \in Seq(Marks(generation)) /\ Len(marks) <= MarkCap /\ MarkCap \in Nat
    BY RingTypes, RingConstants, Zenon
  <2>2. LiveMarks \in Seq(Marks(generation)) /\ Len(LiveMarks) <= Len(marks)
    BY <2>1, LiveMarksAre, Zenon
  <2> HIDE DEF Marks
  <2>3. Len(LiveMarks) \in Nat /\ Len(marks) \in Nat
    BY <2>1, <2>2
  <2> QED
    BY <2>1, <2>2, <2>3, <1>1
<1>4. consumed' = fence
  BY <1>1, Zenon
<1>5. RingInv' /\ (NoOverrun /\ consumed <= consumed' => NoOverrun')
  BY <1>1, <1>2, <1>3, TailMoves
<1> QED
  BY <1>4, <1>5, Zenon

-----------------------------------------------------------------------------
(* The producer *)

(* A step of the streamer thread keeps the ring and what the drain has      *)
(* consumed; a reset fences off what was written.                           *)
LEMMA SinkKeeps ==
  ASSUME RingInv, SinkTypeOK, SinkStep
  PROVE  /\ RingInv' /\ SinkTypeOK' /\ (NoOverrun => NoOverrun')
         /\ consumed' = consumed /\ written' \in Nat /\ written <= written'
         /\ \/ generation' = generation /\ fence' = fence
            \/ generation' = generation + 1 /\ fence' = written
<1> DEFINE Kept ==
         /\ RingInv' /\ SinkTypeOK' /\ (NoOverrun => NoOverrun')
         /\ consumed' = consumed /\ written' \in Nat /\ written <= written'
         /\ \/ generation' = generation /\ fence' = fence
            \/ generation' = generation + 1 /\ fence' = written
<1>0. written \in Nat
  BY RingTypes, Zenon
<1>1. ASSUME NEW need \in 1..MaxFrame, Accept(need) PROVE Kept
  <2>1. Write(need) /\ need \in 1..Cap
    BY <1>1, SinkAssumption, RingConstants DEF Accept
  <2>2. RingInv' /\ (NoOverrun => NoOverrun')
    BY <2>1, WriteKeeps, Zenon
  <2>3. SinkTypeOK'
    BY <1>1, Zenon DEF Accept, sink, SinkTypeOK
  <2>4. /\ consumed' = consumed /\ generation' = generation /\ fence' = fence
        /\ written' = written + need
    BY <2>1, Zenon DEF Write
  <2> QED
    BY <2>1, <2>2, <2>3, <2>4, <1>0
<1>2. ASSUME MarkEndOfAudio, SinkTypeOK' PROVE Kept
  <2>1. RingInv' /\ (NoOverrun => NoOverrun')
    BY <1>2, MarkKeeps, Zenon
  <2>2. UNCHANGED <<generation, written, consumed, fence>>
    BY <1>2, Zenon DEF MarkEndOfAudio
  <2> QED
    BY <2>1, <2>2, <1>0, <1>2
<1>3. ASSUME Reset, SinkTypeOK' PROVE Kept
  <2>1. RingInv' /\ (NoOverrun => NoOverrun')
    BY <1>3, ResetKeeps, Zenon
  <2>2. UNCHANGED <<written, consumed>> /\ generation' = generation + 1 /\ fence' = written
    BY <1>3, Zenon DEF Reset
  <2> QED
    BY <2>1, <2>2, <1>0, <1>3
<1>4. CASE EndOfAudio
  <2>1. /\ MarkEndOfAudio /\ marked' = marked + 1
        /\ connected' \in {connected, FALSE} /\ flushing' \in {flushing, FALSE}
    BY <1>4, Zenon DEF EndOfAudio
  <2>2. connected' \in BOOLEAN /\ flushing' \in BOOLEAN
    BY <2>1, Zenon DEF SinkTypeOK
  <2>3. marked' \in Nat
    BY <2>1 DEF SinkTypeOK
  <2>4. SinkTypeOK'
    BY <2>2, <2>3, Zenon DEF SinkTypeOK
  <2> QED
    BY <2>1, <2>4, <1>2, Zenon
<1>5. CASE FlushPlayback
  BY <1>3, <1>5 DEF FlushPlayback, SinkTypeOK
<1>6. CASE FlushMark
  <2>1. /\ MarkEndOfAudio /\ marked' = marked + 1
        /\ connected' \in {connected, FALSE} /\ flushing' \in {flushing, FALSE}
    BY Zenon, <1>6 DEF FlushMark
  <2>2. connected' \in BOOLEAN /\ flushing' \in BOOLEAN
    BY <2>1, Zenon DEF SinkTypeOK
  <2>3. marked' \in Nat
    BY <2>1 DEF SinkTypeOK
  <2>4. SinkTypeOK'
    BY <2>2, <2>3, Zenon DEF SinkTypeOK
  <2> QED
    BY <2>1, <2>4, <1>2, Zenon
<1>7. CASE NoteSocketLost
  <2>1. /\ MarkEndOfAudio /\ marked' = marked + 1
        /\ connected' \in {connected, FALSE} /\ flushing' \in {flushing, FALSE}
    BY Zenon, <1>7 DEF NoteSocketLost
  <2>2. connected' \in BOOLEAN /\ flushing' \in BOOLEAN
    BY <2>1, Zenon DEF SinkTypeOK
  <2>3. marked' \in Nat
    BY <2>1 DEF SinkTypeOK
  <2>4. SinkTypeOK'
    BY <2>2, <2>3, Zenon DEF SinkTypeOK
  <2> QED
    BY <2>1, <2>4, <1>2, Zenon
<1>8. CASE NoteSocketEstablished
  BY <1>3, <1>8, Zenon DEF NoteSocketEstablished, SinkTypeOK
<1> QED
  BY <1>1, <1>4, <1>5, <1>6, <1>7, <1>8 DEF SinkStep

-----------------------------------------------------------------------------
(* The gate stays a gate. *)
LEMMA GateKeeps ==
  ASSUME NEW g \in Gate, NEW a \in Nat
  PROVE  /\ ArmBase \in Gate /\ RearmEscalated(g) \in Gate
         /\ NoteAudioSeen(g) \in Gate /\ ClearAudioSeen(g) \in Gate
         /\ Admit(g, a) \in Gate /\ [g EXCEPT !.first_bytes_at = "elapsed"] \in Gate
<1>1. ArmBase \in Gate
  BY TargetAssumption DEF ArmBase, Gate
<1>2. next_preroll_target(g.target) \in BaseTarget..MaxTarget
  <2>1. g.target \in BaseTarget..MaxTarget
    BY Zenon DEF Gate
  <2> QED
    BY <2>1, TargetAssumption DEF next_preroll_target
<1>3. RearmEscalated(g) \in Gate
  <2> DEFINE t == next_preroll_target(g.target)
  <2>1. RearmEscalated(g) = [pending |-> TRUE, first_bytes_at |-> "none",
                             target |-> t, saw_audio |-> FALSE]
    <3>1. RearmEscalated(g) = [ArmBase EXCEPT !.target = t]
      BY Zenon DEF RearmEscalated
    <3> HIDE DEF t
    <3> QED
      BY Zenon, <3>1 DEF ArmBase
  <2>2. t \in BaseTarget..MaxTarget
    BY <1>2, Zenon
  <2> HIDE DEF t
  <2> QED
    BY <2>1, <2>2 DEF Gate
<1>4. /\ NoteAudioSeen(g) \in Gate /\ ClearAudioSeen(g) \in Gate
      /\ [g EXCEPT !.first_bytes_at = "elapsed"] \in Gate
  <2>1. [g EXCEPT !.saw_audio = TRUE] \in Gate
    BY Zenon DEF Gate
  <2>2. [g EXCEPT !.saw_audio = FALSE] \in Gate
    BY Zenon DEF Gate
  <2>3. [g EXCEPT !.first_bytes_at = "elapsed"] \in Gate
    BY Zenon DEF Gate
  <2> QED
    BY <2>1, <2>2, <2>3 DEF NoteAudioSeen, ClearAudioSeen
<1>5. Admit(g, a) \in Gate
  <2> DEFINE timed == IF a > 0 /\ g.first_bytes_at = "none"
                      THEN [g EXCEPT !.first_bytes_at = "running"] ELSE g
             p == g.pending /\ ~Ready(timed, a)
  <2>1. timed \in Gate
    BY Zenon DEF Gate
  <2>2. p \in BOOLEAN
    OBVIOUS
  <2> HIDE DEF timed, p
  <2>3. [timed EXCEPT !.pending = p] \in Gate
    BY <2>1, <2>2, Zenon DEF Gate
  <2> QED
    BY <2>3, Zenon DEF Admit, timed, p
<1> QED
  BY <1>1, <1>3, <1>4, <1>5
=============================================================================
