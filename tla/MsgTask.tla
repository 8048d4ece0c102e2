------------------------------- MODULE MsgTask -------------------------------
(***************************************************************************)
(* A MsgTask (gps/core/MsgTask.cpp) and its queue (gps/utils/msg_q.c): any *)
(* number of threads send messages, one detached thread runs loopMain and  *)
(* handles them, and the destructor of the task unblocks the queue, which  *)
(* ends the thread.  The deferred thread of the HAL is such a thread.      *)
(*                                                                         *)
(* The body of each msg_q function runs under list_mutex and is one step;  *)
(* pthread_cond_wait splits msg_q_rcv, and the thread that waits can be    *)
(* woken by nobody (POSIX allows it).  Messages a handler sends to its own *)
(* task are sends like any other.                                          *)
(***************************************************************************)
EXTENDS Naturals, Sequences, FiniteSets

CONSTANTS
    Sender,     \* threads that call sendMsg
    MaxSends    \* bound: messages of each sender

ASSUME SendsAssumption == MaxSends \in Nat

\* The k-th message of s.  A message is an object of its own.
Msg == Sender \X (1..MaxSends)

VARIABLES
    list,       \* msg_list, oldest message first
    unblocked,  \* msg_q.unblocked
    freed,      \* msg_q_destroy has run
    sends,      \* sends[s]: messages s has sent
    pc,         \* where the thread of loopMain is
    msg,        \* the message it has taken out, as a sequence of at most one
    handled,    \* messages whose proc() has run, in order
    accepted,   \* messages msg_q_snd has listed, in order
    discarded,  \* messages freed with the queue
    leaked,     \* messages that msg_q_snd turned away: nobody frees them
    late        \* messages taken out after the unblock

vars == <<list, unblocked, freed, sends, pc, msg, handled, accepted,
          discarded, leaked, late>>

Locations == {"start", "rcv", "wait", "woken", "proc", "destroy", "exit"}

-----------------------------------------------------------------------------
(* msg_q_snd                                                               *)

\* Mutant: the signal is sent only if the list was not empty.
Signalled_NotFirst == IF pc = "wait" /\ list # <<>> THEN "woken" ELSE pc

\* pthread_cond_signal and pthread_cond_broadcast: one thread waits at most.
Signalled == IF pc = "wait" THEN "woken" ELSE pc

\* Mutant of an add at the end that is read first: the newest goes first.
Listing_Newest(m) == <<m>> \o list

\* linked_list_add puts a message where linked_list_remove finds it last.
Listing(m) == Append(list, m)

\* The queue takes the message, or has been unblocked, or has no memory for
\* a list element (the signal is sent all the same).  sendMsg ignores which.
Snd(s) ==
    LET m == <<s, sends[s] + 1>> IN
    /\ ~freed /\ sends[s] < MaxSends
    /\ sends' = [sends EXCEPT ![s] = @ + 1]
    /\ \/ /\ ~unblocked
          /\ list' = Listing(m)
          /\ accepted' = Append(accepted, m)
          /\ pc' = Signalled
          /\ UNCHANGED leaked
       \/ /\ unblocked
          /\ leaked' = leaked \cup {m}
          /\ UNCHANGED <<list, accepted, pc>>
       \/ /\ ~unblocked
          /\ leaked' = leaked \cup {m}
          /\ pc' = Signalled
          /\ UNCHANGED <<list, accepted>>
    /\ UNCHANGED <<unblocked, freed, msg, handled, discarded, late>>

-----------------------------------------------------------------------------
(* msg_q_unblock, called by the destructor of the task.                     *)

\* Mutant: the flag is set and the waiting thread is not signalled.
Unblock_Silent ==
    /\ ~freed /\ ~unblocked
    /\ unblocked' = TRUE
    /\ UNCHANGED <<list, freed, sends, pc, msg, handled, accepted, discarded, leaked, late>>

Unblock ==
    /\ ~freed /\ ~unblocked
    /\ unblocked' = TRUE
    /\ pc' = Signalled
    /\ UNCHANGED <<list, freed, sends, msg, handled, accepted, discarded, leaked, late>>

-----------------------------------------------------------------------------
(* loopMain and msg_q_rcv                                                   *)

queueUnchanged == UNCHANGED <<unblocked, freed, sends, accepted, discarded, leaked>>

\* The scheduling policy and the associator come before the loop.
Start ==
    /\ pc = "start" /\ pc' = "rcv"
    /\ queueUnchanged /\ UNCHANGED <<list, msg, handled, late>>

\* linked_list_remove: the oldest message, or UNAVAILABLE_RESOURCE, which
\* ends the loop.
Remove ==
    IF list = <<>>
      THEN pc' = "destroy" /\ UNCHANGED <<list, msg, late>>
      ELSE /\ pc' = "proc"
           /\ msg' = <<Head(list)>>
           /\ list' = Tail(list)
           /\ late' = IF unblocked THEN late + 1 ELSE late

\* The wait loop: while the list is empty and the queue not unblocked.
WaitOrRemove ==
    IF list = <<>> /\ ~unblocked
      THEN pc' = "wait" /\ UNCHANGED <<list, msg, late>>
      ELSE Remove

\* Mutant: msg_q_rcv does not look at `unblocked' when it is entered.
RcvEnter_NoCheck ==
    /\ pc = "rcv"
    /\ WaitOrRemove
    /\ queueUnchanged /\ UNCHANGED handled

\* An unblocked queue gives nothing to a thread that enters msg_q_rcv.
RcvEnter ==
    /\ pc = "rcv"
    /\ IF unblocked THEN pc' = "destroy" /\ UNCHANGED <<list, msg, late>>
                    ELSE WaitOrRemove
    /\ queueUnchanged /\ UNCHANGED handled

RcvWoken ==
    /\ pc = "woken"
    /\ WaitOrRemove
    /\ queueUnchanged /\ UNCHANGED handled

SpuriousWakeup ==
    /\ pc = "wait" /\ pc' = "woken"
    /\ queueUnchanged /\ UNCHANGED <<list, msg, handled, late>>

\* proc() and delete.
Proc ==
    /\ pc = "proc" /\ pc' = "rcv"
    /\ handled' = handled \o msg
    /\ msg' = <<>>
    /\ queueUnchanged /\ UNCHANGED <<list, late>>

\* msg_q_destroy frees the listed messages (LocMsgDestroy) and the queue.
Destroy ==
    /\ pc = "destroy" /\ pc' = "exit"
    /\ discarded' = list
    /\ list' = <<>>
    /\ freed' = TRUE
    /\ UNCHANGED <<unblocked, sends, msg, handled, accepted, leaked, late>>

-----------------------------------------------------------------------------
Init ==
    /\ list = <<>> /\ unblocked = FALSE /\ freed = FALSE
    /\ sends = [s \in Sender |-> 0]
    /\ pc = "start" /\ msg = <<>> /\ handled = <<>> /\ accepted = <<>>
    /\ discarded = <<>> /\ leaked = {} /\ late = 0

Loop == Start \/ RcvEnter \/ RcvWoken \/ Proc \/ Destroy

Next == (\E s \in Sender : Snd(s)) \/ Unblock \/ Loop \/ SpuriousWakeup

Spec == Init /\ [][Next]_vars

\* The thread of the task is scheduled.  Nobody has to send or to unblock.
FairSpec == Spec /\ WF_vars(Loop)

-----------------------------------------------------------------------------
(* Properties.                                                             *)

\* The variables have their types.
TypeOK ==
    /\ list \in Seq(Msg) /\ handled \in Seq(Msg) /\ accepted \in Seq(Msg)
    /\ discarded \in Seq(Msg)
    /\ msg \in {<<>>} \cup {<<m>> : m \in Msg}
    /\ unblocked \in BOOLEAN /\ freed \in BOOLEAN
    /\ sends \in [Sender -> 0..MaxSends]
    /\ pc \in Locations
    /\ leaked \subseteq Msg
    /\ late \in Nat

\* Every message the queue accepted is, exactly once and in the order of
\* acceptance, handled, being handled, queued, or freed with the queue: none
\* is lost, doubled, reordered or freed under its handler.
DeliveredInOrder == accepted = handled \o msg \o list \o discarded

\* The thread never sleeps on work or on the unblock: no wake-up is lost,
\* in whatever step of msg_q_rcv the send or the unblock comes.
NoLostWakeup == pc = "wait" => list = <<>> /\ ~unblocked

\* The thread leaves its loop only for an unblocked queue: a spurious or
\* early wake-up does not end the task.
EndsOnlyUnblocked == pc \in {"destroy", "exit"} => unblocked

\* "This function will stop use of the message queue" (msg_q.h, unblock): at
\* most one more message is taken out, by a thread that was waking up.
AtMostOneLate == late <= 1

\* A queued message is handled unless the task is ended.
Handled ==
    \A m \in Msg :
        (\E i \in DOMAIN list : list[i] = m)
            ~> ((\E i \in DOMAIN handled : handled[i] = m) \/ unblocked)

\* An unblocked task ends.
Ends == unblocked ~> pc = "exit"

\* The queue of a task is a FIFO queue.
Queue == INSTANCE Fifo WITH queue <- list, stopped <- unblocked
IsFifo == Queue!Spec
=============================================================================
