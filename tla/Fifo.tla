-------------------------------- MODULE Fifo --------------------------------
(* What a task's message queue promises its users (msg_q.h): messages come   *)
(* out one by one, oldest first; after the queue is stopped no message goes  *)
(* in, and what is still queued may be discarded.                            *)
EXTENDS Sequences

CONSTANT Msg

VARIABLES
    queue,      \* messages accepted and not taken out, oldest first
    stopped     \* msg_q_unblock was called

Init == queue = <<>> /\ stopped = FALSE

Put(m) == ~stopped /\ queue' = Append(queue, m) /\ UNCHANGED stopped

Take == queue # <<>> /\ queue' = Tail(queue) /\ UNCHANGED stopped

Stop == stopped' = TRUE /\ UNCHANGED queue

Discard == stopped /\ queue' = <<>> /\ UNCHANGED stopped

Next == (\E m \in Msg : Put(m)) \/ Take \/ Stop \/ Discard

Spec == Init /\ [][Next]_<<queue, stopped>>
=============================================================================
