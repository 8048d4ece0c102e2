------------------------------ MODULE MCLights ------------------------------
(* Instance of Lights for TLC: one duration besides 0, other than those of    *)
(* the battery, so that a pause that is left over differs from one asked for; *)
(* brightnesses on both sides of the threshold.                               *)
EXTENDS Lights
=============================================================================
