--------------------------- MODULE MCPlaybackDrain ----------------------------
(* Model-checking root for the reachy playback path; the configurations give  *)
(* the constants their values.                                                *)
EXTENDS PlaybackDrain
=============================================================================
