-------------------------- MODULE MCDropOldestQueue --------------------------
(* Two sender handles, a lane of one, up to four sends. *)
EXTENDS DropOldestQueue, TLC

Symmetry == Permutations(Sender)
=============================================================================
