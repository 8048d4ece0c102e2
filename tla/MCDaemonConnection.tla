------------------------- MODULE MCDaemonConnection -------------------------
(* Instance of DaemonConnection for TLC: two processes, pipes of one        *)
(* message, so that they fill up.                                           *)
EXTENDS DaemonConnection

CONSTANTS daemon, quipc, none, own
=============================================================================
