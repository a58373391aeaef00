----------------------------- MODULE PrerollGate ------------------------------
(***************************************************************************)
(* The minimum-fill gate both drains share (audio-pipeline playback.rs).   *)
(* A gate is a record; its fallback clock is abstracted to whether it has  *)
(* started and whether max_wait_ms has elapsed since.                      *)
(***************************************************************************)
EXTENDS Integers

CONSTANTS BaseTarget,   \* PLAYBACK_PREROLL_TARGET_BYTES
          MaxTarget     \* PLAYBACK_PREROLL_MAX_TARGET_BYTES

ASSUME TargetAssumption ==
  BaseTarget \in Nat \ {0} /\ MaxTarget \in Nat /\ MaxTarget >= BaseTarget

Gate == [pending : BOOLEAN, first_bytes_at : {"none", "running", "elapsed"},
         target : BaseTarget..MaxTarget, saw_audio : BOOLEAN]

(* new and arm_base leave the same state. *)
ArmBase == [pending |-> TRUE, first_bytes_at |-> "none",
            target |-> BaseTarget, saw_audio |-> FALSE]

next_preroll_target(current) ==
  IF 2 * current < MaxTarget THEN 2 * current ELSE MaxTarget

RearmEscalated(g) ==
  [ArmBase EXCEPT !.target = next_preroll_target(g.target)]

NoteAudioSeen(g)  == [g EXCEPT !.saw_audio = TRUE]
ClearAudioSeen(g) == [g EXCEPT !.saw_audio = FALSE]

(* The variant has no fallback. *)
ReadyWhenFilled(g, available) == available >= g.target

(* preroll_gate_ready: filled, or the fallback elapsed. *)
Ready(g, available) == available >= g.target \/ g.first_bytes_at = "elapsed"

(* admit: the gate after the call.  It lets audio through iff the result is
   not pending. *)
Admit(g, available) ==
  LET timed == IF available > 0 /\ g.first_bytes_at = "none"
               THEN [g EXCEPT !.first_bytes_at = "running"] ELSE g
  IN  [timed EXCEPT !.pending = g.pending /\ ~Ready(timed, available)]

=============================================================================
