-------------------------- MODULE MCDSStateMachine --------------------------
(* Instance of DSStateMachine for TLC.  The two handles are                 *)
(* interchangeable; symmetry is used where no liveness property is checked. *)
EXTENDS DSStateMachine, TLC

CONSTANTS c1, c2

Handles == Permutations({c1, c2})
=============================================================================
