--------------------------- MODULE MCEngineSession ---------------------------
(* Instance of EngineSession for TLC: up to two reports wait to be handled.    *)
EXTENDS EngineSession
=============================================================================
