------------------------------ MODULE MCStreamer ------------------------------
(* Small pods: a ring of a few samples, frames of two, a channel of two or *)
(* three messages and at most two utterances.                              *)
EXTENDS Streamer
=============================================================================
