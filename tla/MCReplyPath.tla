----------------------------- MODULE MCReplyPath -----------------------------
(* Model-checking root for the reply path: the clips of the configurations.   *)
EXTENDS ReplyPath

Said(turn, frames, may_wake) ==
  [turn |-> turn, frames |-> frames, interruptible |-> TRUE, may_wake |-> may_wake]

(* Turn 1 replies with a clip of two frames, turn 2 with two clips, the first of
   which says the wake phrase. *)
TwoTurns      == <<Said(1, 2, FALSE), Said(2, 1, TRUE), Said(2, 1, FALSE)>>
TwoTurnBodies == <<"pcm", "pcm", "text">>

(* Three turns of one clip. *)
ThreeTurns  == <<Said(1, 1, FALSE), Said(2, 1, FALSE), Said(3, 1, FALSE)>>
ThreeBodies == <<"pcm", "pcm", "pcm">>
=============================================================================
