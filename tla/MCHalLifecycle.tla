--------------------------- MODULE MCHalLifecycle ---------------------------
(* Instance of HalLifecycle for TLC: two inits, so that one follows a        *)
(* cleanup, two sessions, and two events of the modem and of a shutdown.     *)
EXTENDS HalLifecycle
=============================================================================
