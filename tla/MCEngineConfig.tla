---------------------------- MODULE MCEngineConfig ----------------------------
(* Instance of EngineConfig for TLC: a setting of gps_conf and one of sap_conf *)
(* beside the availability of the network, with two values.                    *)
EXTENDS EngineConfig
=============================================================================
