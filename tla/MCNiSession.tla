----------------------------- MODULE MCNiSession -----------------------------
(* Instance of NiSession for TLC: two requests, one modem restart.             *)
EXTENDS NiSession
=============================================================================
