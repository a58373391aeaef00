---------------------------- MODULE MCCaptureDrain ----------------------------
(* Model-checking root for the respeaker playback path; the configurations    *)
(* give the constants their values.                                           *)
EXTENDS CaptureDrain
=============================================================================
