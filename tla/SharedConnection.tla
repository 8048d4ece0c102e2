-------------------------- MODULE SharedConnection --------------------------
(* What a network-interface state machine promises its clients               *)
(* (AgpsStateMachine, loc_eng_agps.h): they share one   *)
(* connection.  It is asked for when a client wants it, one answer opens it  *)
(* for all who wait, who comes later joins at once, and when it goes nobody  *)
(* is left holding it or waiting for it.                                     *)
CONSTANT Client

VARIABLES
    conn,       \* "none", "asked" or "up"
    waiting,    \* the clients that wait for the connection
    holders     \* the clients that were granted it

Init == conn = "none" /\ waiting = {} /\ holders = {}

\* A client wants the connection while it is not up.
Ask(c) ==
    /\ conn # "up"
    /\ waiting' = waiting \cup {c}
    /\ conn' \in {conn, "asked"}
    /\ UNCHANGED holders

\* A client wants the connection while it is up, and has it.
Join(c) == conn = "up" /\ holders' = holders \cup {c} /\ UNCHANGED <<conn, waiting>>

\* Clients are denied, drop out or are dropped; the others are not concerned.
Leave(S) == waiting' = waiting \ S /\ holders' = holders \ S /\ UNCHANGED conn

\* The connection was given back and is asked for again.
AskAgain == conn = "none" /\ conn' = "asked" /\ UNCHANGED <<waiting, holders>>

\* The connection comes up: whoever waits for it has it.
Open ==
    /\ conn = "asked" /\ conn' = "up"
    /\ waiting' = {} /\ waiting \subseteq holders'
    /\ holders' \in SUBSET Client

\* The connection ends, or will not come: nobody holds it and nobody waits.
Drop == conn' = "none" /\ waiting' = {} /\ holders' = {}

Next ==
    \/ \E c \in Client : Ask(c) \/ Join(c)
    \/ \E S \in SUBSET Client : Leave(S)
    \/ AskAgain \/ Open \/ Drop

\* A step, or none.
Step == [Next]_<<conn, waiting, holders>>

Spec == Init /\ [][Next]_<<conn, waiting, holders>>
=============================================================================
