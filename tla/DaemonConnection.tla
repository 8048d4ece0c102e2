-------------------------- MODULE DaemonConnection --------------------------
(***************************************************************************)
(* The server that other processes ask for data connections                *)
(* (gps/libloc_api_50001/loc_eng_dmn_conn.cpp): a thread that reads one     *)
(* named pipe and hands what it reads to the deferred thread, and the      *)
(* answers, which the deferred thread writes to the pipe of the process    *)
(* that asked.                                                             *)
(*                                                                         *)
(* The launcher (loc_eng_agps_init) creates the thread, waits until it says *)
(* that it is ready, and goes on whatever the launch returns.  Nothing ends *)
(* the thread from outside: loc_eng_cleanup has the two calls that would    *)
(* under #if 0, and the model leaves them out.                              *)
(*                                                                         *)
(* The state machines that decide on the answers are AgpsStateMachine; here *)
(* they answer a process that has asked, any number of times (a grant, and *)
(* later, unasked, the loss of it).  A message is a request or a release,  *)
(* one the handlers do not know ("invalid"), or one whose size field does  *)
(* not fit ("broken").                                                     *)
(***************************************************************************)
EXTENDS Naturals, Sequences

CONSTANTS
    Sender,    \* processes that ask, each with a pipe for the answers
    Own,       \* the pipe that the server reads
    None,
    Capacity,  \* messages that fit into a pipe
    MaxSends   \* bound: messages of all processes

ASSUME DaemonAssumption ==
    /\ Own \notin Sender /\ None \notin Sender
    /\ Capacity \in Nat \ {0} /\ MaxSends \in Nat

VARIABLES
    launcher,  \* the thread that launches the server
    server,    \* the server's thread
    exit,      \* thelper.thread_exit
    ready,     \* thelper.thread_ready
    pipes,     \* each pipe: absent, open, failed (not made), gone
    inbox,     \* what is in the pipe that the server reads
    outbox,    \* what is in the pipe of each process
    queue,     \* messages to the deferred thread
    answer,    \* the answer that the deferred thread writes
    asked,     \* processes whose messages reached the state machines
    sends,
    fault      \* whether the server could not receive

launchVars == <<launcher, ready>>
dataVars == <<outbox, queue, answer, asked, sends>>
daemonVars == <<launchVars, server, exit, pipes, inbox, fault, dataVars>>

Kind == {"request", "release", "invalid", "broken"}
Status == {"REQUEST_SUCCESS", "RELEASE_SUCCESS", "FAILURE"}
Message == [from : Sender, kind : Kind]
Pipe == Sender \cup {Own}

\* pipeget makes a pipe or does not; a pipe that exists already is taken.
Made == {"open", "failed"}
\* piperemove: the descriptor is closed, and what nobody has read is lost to it.
Removed(p) == [pipes EXCEPT ![p] = "gone"]
\* pipewrite waits until the pipe has room.
Room(contents) == Len(contents) < Capacity
\* msgsnd of a process to the server.
MsgSnd(m) == pipes[Own] = "open" /\ Room(inbox) /\ inbox' = Append(inbox, m)

-----------------------------------------------------------------------------
(* The launcher.                                                            *)

\* thelper_signal_init, and a thread by pthread_create, whose failure ends the
\* launch, or by the framework's callback, whose failure is not looked at.
Launch ==
    /\ launcher = "idle"
    /\ exit' = FALSE /\ ready' = FALSE
    /\ \/ launcher' = "created" /\ server' \in {"init", "none"}
       \/ launcher' = "refused" /\ UNCHANGED server
    /\ UNCHANGED <<pipes, inbox, fault, dataVars>>

\* launch returns thread_exit.
Returned == launcher' = IF exit THEN "refused" ELSE "launched"

\* Mutant: it waits whether the thread is ready or not.
SignalWait_Unchecked ==
    /\ launcher = "created"
    /\ launcher' = "waiting"
    /\ UNCHANGED <<ready, server, exit, pipes, inbox, fault, dataVars>>

\* thelper_signal_wait: with the mutex, it waits only if there is a reason to.
SignalWait ==
    /\ launcher = "created"
    /\ IF ready \/ exit THEN Returned ELSE launcher' = "waiting"
    /\ UNCHANGED <<ready, server, exit, pipes, inbox, fault, dataVars>>

\* The wait is over; nothing is tested again.
SignalWoken ==
    /\ launcher = "woken"
    /\ Returned
    /\ UNCHANGED <<ready, server, exit, pipes, inbox, fault, dataVars>>

\* pthread_cond_wait returns without a signal.
SpuriousWakeup ==
    /\ launcher = "waiting"
    /\ launcher' = "woken"
    /\ UNCHANGED <<ready, server, exit, pipes, inbox, fault, dataVars>>

-----------------------------------------------------------------------------
(* The server's thread (thelper_main).                                      *)

\* Mutant: the thread says that it is ready when it has its own pipe.
OpenPipe_OwnOnly(p) ==
    /\ server = "init" /\ p = Own
    /\ \E made \in Made : pipes' = [pipes EXCEPT ![p] = made]
    /\ server' = "signal"
    /\ UNCHANGED <<launchVars, exit, inbox, fault, dataVars>>

\* loc_api_server_proc_init makes the pipes one by one, its own first, and goes
\* on, and returns 0, also if one fails.  (The order of the others is fixed in
\* the code; here it is any.)
OpenPipe(p) ==
    /\ server = "init" /\ pipes[p] = "absent"
    /\ p # Own => pipes[Own] # "absent"
    /\ \E made \in Made : pipes' = [pipes EXCEPT ![p] = made]
    /\ server' = IF \A q \in Pipe \ {p} : pipes[q] # "absent" THEN "signal" ELSE "init"
    /\ UNCHANGED <<launchVars, exit, inbox, fault, dataVars>>

\* thelper_signal_ready
SignalReady ==
    /\ server = "signal"
    /\ server' = "receive" /\ ready' = TRUE
    /\ launcher' = IF launcher = "waiting" THEN "woken" ELSE launcher
    /\ UNCHANGED <<exit, pipes, inbox, fault, dataVars>>

\* loc_api_server_proc returns -1, and thelper_main sets thread_exit.
Stops ==
    /\ fault' = TRUE
    /\ server' = "check" /\ exit' = TRUE
    /\ UNCHANGED <<launchVars, pipes, dataVars>>

\* loc_eng_dmn_conn_glue_msgrcv fails: there is no pipe, or what it reads is no
\* message of the size that it says.
ReceiveFails ==
    /\ server = "receive"
    /\ \/ pipes[Own] = "failed" /\ UNCHANGED inbox
       \/ /\ inbox # <<>> /\ Head(inbox).kind = "broken"
          /\ inbox' = Tail(inbox)
    /\ Stops

\* There is no memory for the message, or a signal interrupts the read.
ReceiveInterrupted ==
    /\ server = "receive"
    /\ Stops /\ UNCHANGED inbox

\* Mutant: the answer of a handler is the result of loc_api_server_proc.
Ignore_Fails ==
    /\ server = "receive" /\ inbox # <<>>
    /\ Head(inbox).kind = "invalid"
    /\ inbox' = Tail(inbox)
    /\ server' = "check" /\ exit' = TRUE
    /\ UNCHANGED <<launchVars, pipes, fault, dataVars>>

\* A message that no handler knows is dropped.
Ignore ==
    /\ server = "receive" /\ inbox # <<>>
    /\ Head(inbox).kind = "invalid"
    /\ inbox' = Tail(inbox)
    /\ server' = "check"
    /\ UNCHANGED <<launchVars, exit, pipes, fault, dataVars>>

\* Mutant: the handlers answer themselves (as they do with DEBUG_DMN_LOC_API).
Handle_Answers ==
    /\ server = "receive" /\ inbox # <<>>
    /\ Head(inbox).kind \in {"request", "release"}
    /\ Room(outbox[Head(inbox).from])
    /\ inbox' = Tail(inbox)
    /\ outbox' = [outbox EXCEPT ![Head(inbox).from] = Append(@, "REQUEST_SUCCESS")]
    /\ server' = "check"
    /\ UNCHANGED <<launchVars, exit, pipes, fault, queue, answer, asked, sends>>

\* if_request_handler and if_release_handler: a message for the deferred
\* thread, LocEngReqRelWifi or LocEngReqRelBIT.
Handle ==
    /\ server = "receive" /\ inbox # <<>>
    /\ Head(inbox).kind \in {"request", "release"}
    /\ inbox' = Tail(inbox)
    /\ queue' = Append(queue, Head(inbox))
    /\ server' = "check"
    /\ UNCHANGED <<launchVars, exit, pipes, fault, outbox, answer, asked, sends>>

\* while (thelper->thread_exit == 0)
CheckExit ==
    /\ server = "check"
    /\ server' = IF exit THEN "post" ELSE "receive"
    /\ UNCHANGED <<launchVars, exit, pipes, inbox, fault, dataVars>>

\* loc_api_server_proc_post closes and removes the pipes, its own first.  The
\* other processes can still read the answers they have.
RemovePipe(p) ==
    /\ server = "post" /\ pipes[p] # "gone"
    /\ p # Own => pipes[Own] = "gone"
    /\ pipes' = Removed(p) /\ inbox' = <<>>
    /\ server' = IF \A q \in Pipe \ {p} : pipes[q] = "gone" THEN "ended" ELSE "post"
    /\ UNCHANGED <<launchVars, exit, fault, dataVars>>

-----------------------------------------------------------------------------
(* The deferred thread.                                                     *)

\* LocEngReqRelBIT::proc, LocEngReqRelWifi::proc
Take ==
    /\ answer = None /\ queue # <<>>
    /\ queue' = Tail(queue)
    /\ asked' = asked \cup {Head(queue).from}
    /\ UNCHANGED <<launchVars, server, exit, pipes, inbox, fault,
                   outbox, answer, sends>>

\* A state machine has an answer for s (BITSubscriber, WIFISubscriber).
NotifyRsrcStatus(s) ==
    /\ answer = None /\ s \in asked
    /\ \E status \in Status :
          answer' = [to |-> s, status |-> status, blocked |-> FALSE]
    /\ UNCHANGED <<launchVars, server, exit, pipes, inbox, fault,
                   outbox, queue, asked, sends>>

\* loc_eng_dmn_conn_loc_api_server_data_conn: the write fails when the pipe is
\* not open and takes what there is room for.  If there is none it waits, and
\* only a reader ends the wait: the write keeps the pipe although the server
\* closes its descriptor.
DataConn ==
    /\ answer # None
    /\ \/ /\ ~answer.blocked /\ pipes[answer.to] # "open"
          /\ answer' = None /\ UNCHANGED outbox
       \/ /\ answer.blocked \/ pipes[answer.to] = "open"
          /\ Room(outbox[answer.to])
          /\ outbox' = [outbox EXCEPT ![answer.to] = Append(@, answer.status)]
          /\ answer' = None
       \/ /\ ~answer.blocked /\ pipes[answer.to] = "open"
          /\ ~Room(outbox[answer.to])
          /\ answer' = [answer EXCEPT !.blocked = TRUE] /\ UNCHANGED outbox
    /\ UNCHANGED <<launchVars, server, exit, pipes, inbox, fault,
                   queue, asked, sends>>

-----------------------------------------------------------------------------
(* The other processes.                                                     *)

Send(s, kind) ==
    /\ sends < MaxSends /\ sends' = sends + 1
    /\ MsgSnd([from |-> s, kind |-> kind])
    /\ UNCHANGED <<launchVars, server, exit, pipes, fault,
                   outbox, queue, answer, asked>>

Read(s) ==
    /\ outbox[s] # <<>>
    /\ outbox' = [outbox EXCEPT ![s] = Tail(@)]
    /\ UNCHANGED <<launchVars, server, exit, pipes, inbox, fault,
                   queue, answer, asked, sends>>

-----------------------------------------------------------------------------
DaemonInit ==
    /\ launcher = "idle" /\ server = "none"
    /\ exit = FALSE /\ ready = FALSE /\ fault = FALSE
    /\ pipes = [p \in Pipe |-> "absent"]
    /\ inbox = <<>> /\ outbox = [s \in Sender |-> <<>>]
    /\ queue = <<>> /\ answer = None
    /\ asked = {} /\ sends = 0

LaunchStep == SignalWait \/ SignalWoken
ServerStep == \/ \E p \in Pipe : OpenPipe(p) \/ RemovePipe(p)
              \/ SignalReady \/ ReceiveFails \/ Ignore \/ Handle \/ CheckExit
DeferredStep == Take \/ DataConn

DaemonNext ==
    \/ Launch \/ SpuriousWakeup \/ ReceiveInterrupted
    \/ LaunchStep
    \/ ServerStep
    \/ DeferredStep
    \/ \E s \in Sender : \/ NotifyRsrcStatus(s)
                         \/ \E kind \in Kind : Send(s, kind)
                         \/ Read(s)

DaemonSpec == DaemonInit /\ [][DaemonNext]_daemonVars

\* A thread that can run goes on.  Nobody has to send or to read an answer, and
\* no wake-up is spurious and no read interrupted because it could be.
DaemonFairSpec ==
    /\ DaemonSpec
    /\ WF_daemonVars(LaunchStep) /\ WF_daemonVars(ServerStep) /\ WF_daemonVars(DeferredStep)

-----------------------------------------------------------------------------
(* What holds.                                                              *)

DaemonTypeOK ==
    /\ launcher \in {"idle", "created", "waiting", "woken", "refused", "launched"}
    /\ server \in {"none", "init", "signal", "receive", "check", "post", "ended"}
    /\ exit \in BOOLEAN /\ ready \in BOOLEAN /\ fault \in BOOLEAN
    /\ pipes \in [Pipe -> {"absent", "open", "failed", "gone"}]
    /\ inbox \in Seq(Message) /\ outbox \in [Sender -> Seq(Status)]
    /\ queue \in Seq([from : Sender, kind : {"request", "release"}])
    /\ answer \in [to : Sender, status : Status, blocked : BOOLEAN] \cup {None}
    /\ asked \subseteq Sender /\ sends \in Nat

\* The deferred thread has no answer to write before the pipe for it is made, or
\* has failed: until then the static ID of the pipe is 0, which is a descriptor.
\* The launch does not see to it, for it may return too early; that no state
\* machine answers anyone before the server's loop has run does
\* (loc_api_server_proc_init, loc_eng_dmn_conn_loc_api_server_data_conn).
AnswersHavePipe == answer # None => pipes[answer.to] # "absent"

\* The server ends only because it could not receive, never because of a message
\* it does not know (loc_api_server_proc ignores the handlers' results).
EndsForAReason == server \in {"post", "ended"} => fault

\* A launcher that waits for a thread waits for a signal that is still to come:
\* the thread has not got as far as thelper_signal_ready (thelper_signal_wait).
WaitIsSignalled ==
    launcher = "waiting" /\ server # "none" => server \in {"init", "signal"}

\* The launch returns, whenever the new thread gets to run, if there is one
\* (thelper_signal_wait, thelper_signal_ready).
LaunchReturns ==
    launcher = "created" /\ server # "none" ~> launcher \in {"refused", "launched"}

\* The server takes the messages out of its pipe although a process does not read
\* its answers and the deferred thread waits for it, for ever perhaps
\* (loc_eng_dmn_conn_loc_api_server_if_request_handler).
InboxDrained == inbox # <<>> ~> inbox = <<>>

\* Each step uses the queue of the deferred thread as one that promises what
\* Fifo says: it puts one message in, takes the oldest out, or leaves it alone.
Task == INSTANCE Fifo WITH Msg <- [from : Sender, kind : {"request", "release"}],
                           stopped <- FALSE
UsesFifo == Task!Spec

-----------------------------------------------------------------------------
(* What does not hold.                                                      *)

\* "This function will be blocked on the conditional variable until
\* thelper_signal_ready is called": a launch that returns 0 has made the pipes.
LaunchedReady == launcher = "launched" => \A p \in Pipe : pipes[p] # "absent"

\* The launch returns also if the framework's callback has made no thread.
AlwaysReturns == launcher = "created" ~> launcher \in {"refused", "launched"}

\* An answer is written while the pipe is open.  The server that ends leaves the
\* numbers of the closed descriptors in the static IDs.
AnswersWhileOpen == answer # None => pipes[answer.to] # "gone"

\* "fail receiving msg from gpsone_daemon, retry later": a server that fails to
\* receive goes on.
RetriesLater == server # "ended"

\* The deferred thread writes every answer it has.
AnswersWritten == answer # None ~> answer = None
=============================================================================
