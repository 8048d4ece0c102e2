------------------------- MODULE MCAgpsStateMachine -------------------------
(* Instance of AgpsStateMachine for TLC: the supl and the wifi NIF with the  *)
(* clients that use them, and the internet NIF that the release of a handle  *)
(* searches second.                                                          *)
EXTENDS AgpsStateMachine, TLC

CONSTANTS supl, internet, wifi, atl, bit, quipc

MCUsers == (supl :> {atl, bit}) @@ (internet :> {atl}) @@ (wifi :> {bit, quipc})
MCAtlOrder == <<supl, internet>>
=============================================================================
