-------------------------- MODULE MCMotionScripter --------------------------
(* Model-checking root for the motion scripter; the configuration gives the  *)
(* constants their values.                                                   *)
EXTENDS MotionScripter
=============================================================================
