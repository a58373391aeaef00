----------------------------- MODULE TwoLaneFifo -----------------------------
(***************************************************************************)
(* What the queue between ingest and pipeline promises, with no mutex,    *)
(* counter or wake-up in sight: a bag of stamped entries from which the   *)
(* oldest is taken, where a bulk entry that finds Capacity others waiting *)
(* costs the oldest bulk entry, and where control entries leave only by   *)
(* being taken or when the reader has closed its end.                     *)
(***************************************************************************)
EXTENDS Integers, FiniteSets

CONSTANT Capacity

VARIABLES buffered,   \* the entries waiting, [id, sheddable]
          last,       \* the stamp of the latest accepted entry
          open        \* the reader still holds its end

vars == <<buffered, last, open>>

Bulk(S)   == {e \in S : e.sheddable}
Oldest(S) == CHOOSE e \in S : \A f \in S : e.id <= f.id

Init == buffered = {} /\ last = 0 /\ open = TRUE

Put(sheddable) ==
  /\ open
  /\ last' = last + 1
  /\ LET with == buffered \cup {[id |-> last + 1, sheddable |-> sheddable]}
     IN  buffered' = IF sheddable /\ Cardinality(Bulk(buffered)) = Capacity
                       THEN with \ {Oldest(Bulk(with))}
                       ELSE with
  /\ UNCHANGED open

Take ==
  /\ open /\ buffered # {}
  /\ buffered' = buffered \ {Oldest(buffered)}
  /\ UNCHANGED <<last, open>>

Close == open /\ open' = FALSE /\ UNCHANGED <<buffered, last>>

Discard == ~open /\ buffered' = {} /\ UNCHANGED <<last, open>>

Next == (\E b \in BOOLEAN : Put(b)) \/ Take \/ Close \/ Discard

Spec == Init /\ [][Next]_vars
=============================================================================
