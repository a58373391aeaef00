---------------------------- MODULE MCRecordStore ----------------------------
(* Model-checking root for the record store; the configurations give the     *)
(* constants their values.                                                   *)
EXTENDS RecordStore
=============================================================================
