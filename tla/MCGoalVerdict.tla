---------------------------- MODULE MCGoalVerdict ----------------------------
(* Small instances of the goal verdicts for TLC. *)
EXTENDS GoalVerdict, TLC
=============================================================================
