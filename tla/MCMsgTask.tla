------------------------------ MODULE MCMsgTask ------------------------------
(* Instance of MsgTask for TLC: two senders with three messages each.            *)
EXTENDS MsgTask
CONSTANTS s1, s2
=============================================================================
