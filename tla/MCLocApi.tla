------------------------------ MODULE MCLocApi ------------------------------
(* Instance of LocApi for TLC: one adapter more than there are slots, one    *)
(* event, one adapter that wants none, two adapters that handle requests.    *)
EXTENDS LocApi

CONSTANTS a1, a2, a3, status, none

WantedEvents == [a \in {a1, a2, a3} |->
                   CASE a = a1 -> {status}
                     [] a = a2 -> {}
                     [] a = a3 -> {status}]
=============================================================================
