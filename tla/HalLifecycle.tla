---------------------------- MODULE HalLifecycle ----------------------------
(***************************************************************************)
(* The GPS HAL between loc_init and loc_cleanup (gps/libloc_api_50001:     *)
(* loc.cpp, loc_eng.cpp, LocEngAdapter): the session that a cleanup has to *)
(* stop, the modem's power vote and lock, and the powerup node.            *)
(*                                                                         *)
(* The framework calls init, start, stop and cleanup from one thread.  The *)
(* deferred thread handles the messages these send, and those of the       *)
(* modem's restart and of a shutdown.  Both threads write the vote, close  *)
(* the node and look at the session, and no lock orders them: a value that *)
(* is read and then used is read in one step and used in another.          *)
(*                                                                         *)
(* What the session does in between is EngineSession.  A target has either *)
(* a QCA1530, whose power HAL votes on, or not (loc_get_target).           *)
(***************************************************************************)
EXTENDS Integers, Sequences

CONSTANTS
    QCA1530,    \* the target has the right to vote
    MaxInits,   \* bound: calls of loc_init
    MaxCalls,   \* bound: calls of loc_start and loc_stop
    MaxEvents   \* bound: restarts of the modem and shutdowns

ASSUME HalAssumption ==
    /\ QCA1530 \in BOOLEAN
    /\ MaxInits \in Nat /\ MaxCalls \in Nat /\ MaxEvents \in Nat

VARIABLES
    fw,        \* the framework's thread: where it is in a call
    deferred,  \* the deferred thread: where it is in a message
    queue,     \* messages to the deferred thread
    session,   \* isInSession()
    missed,    \* a cleanup saw no session, but one was about to begin
    vote,      \* mPowerVote: the modem is wanted
    modem,     \* the modem: its power vote, its lock, whether it is up, and
               \* whether it has restarted since it last heard of a lock
    stale,     \* the last vote was decided on before mPowerVote changed
    pm,        \* loc_mdm_info, but for mdm_fd; found stands for mdm_index >= 0
    fd,        \* loc_mdm_info.mdm_fd
    nodes,     \* descriptors of the powerup node that are open
    foreign,   \* a descriptor was closed that was none of those, or no longer
    shut,      \* a shutdown gave up the node since the last loc_init began
    inits, calls, events

sessionVars == <<session, missed>>
voteVars == <<vote, modem, stale>>
nodeVars == <<pm, fd, nodes, foreign, shut>>
bounds == <<inits, calls, events>>
vars == <<fw, deferred, queue, sessionVars, voteVars, nodeVars, bounds>>

Message == {"start", "stop", "unlock", "lock", "up", "shutdown"}
NoFd == -1
\* open takes the lowest free descriptor; 0 belongs to the process from the
\* start.
FreeFd == {n \in 1 .. 1 + MaxInits : n \notin nodes /\ \A m \in 1 .. n - 1 : m \in nodes}

Idle == [pc |-> "idle", vote |-> FALSE]

-----------------------------------------------------------------------------
(* The framework's thread.                                                  *)

\* loc_init up to loc_eng_init, which does its work the first time only, and
\* setGpsLockMsg(0).
InitBegins ==
    /\ fw \in {"new", "clean"} /\ inits < MaxInits /\ inits' = inits + 1
    /\ fw' = "on"
    /\ queue' = Append(queue, "unlock")
    /\ shut' = FALSE /\ missed' = FALSE
    /\ UNCHANGED <<deferred, session, voteVars, pm, fd, nodes, foreign, calls, events>>

\* requestPowerVote, given what it read: setGpsLock(103) or setGpsLock(101).  A
\* modem that is down hears no setGpsLock.
Voted(v) == modem' = IF QCA1530 /\ modem.up THEN [modem EXCEPT !.power = v] ELSE modem

\* setPowerVote(true), and setPowerVote(false) in loc_cleanup: mPowerVote first,
SetPowerVote ==
    /\ fw \in {"on", "off"}
    /\ vote' = (fw = "on")
    /\ fw' = IF fw = "on" THEN "vote" ELSE "lock"
    /\ UNCHANGED <<deferred, queue, sessionVars, modem, stale, nodeVars, bounds>>

\* then the modem.
InitVotes ==
    /\ fw = "vote"
    /\ Voted(vote) /\ stale' = FALSE
    /\ fw' = "register"
    /\ UNCHANGED <<deferred, queue, sessionVars, vote, nodeVars, bounds>>

\* pm_client_register, unless it was answered before: an error is not.
Registered(ret) ==
    pm' = IF pm.registered THEN pm
          ELSE [pm EXCEPT !.found = TRUE, !.registered = (ret # "failed"),
                          !.supported = (ret = "success")]

\* The modem is looked up once; when that fails, loc_init ends here, and
\* returns what loc_eng_init did.
Register ==
    /\ fw = "register"
    /\ \/ ~pm.found /\ fw' = "ready" /\ UNCHANGED pm
       \/ fw' = "power" /\ \E ret \in {"success", "unsupported", "failed"} : Registered(ret)
    /\ UNCHANGED <<deferred, queue, sessionVars, voteVars, fd, nodes, foreign, shut, bounds>>

\* pm_client_connect, whose result is ignored.
Connected == \E up \in BOOLEAN : pm' = [pm EXCEPT !.asked = TRUE, !.connected = up]

\* Mutant: the node is opened only if mdm_fd says that it is not.
PowerUp_IfClosed ==
    /\ fw = "power" /\ fw' = "ready"
    /\ \/ /\ pm.registered /\ pm.supported
          /\ Connected
          /\ UNCHANGED <<fd, nodes>>
       \/ /\ pm.registered /\ ~pm.supported /\ fd < 0
          /\ fd' \in FreeFd \cup {NoFd} /\ nodes' = (nodes \cup {fd'}) \ {NoFd}
          /\ UNCHANGED pm
       \/ (~pm.registered \/ fd >= 0) /\ UNCHANGED <<pm, fd, nodes>>
    /\ UNCHANGED <<deferred, queue, sessionVars, voteVars, foreign, shut, bounds>>

\* The peripheral manager votes for the modem, or its powerup node is opened.
PowerUp ==
    /\ fw = "power" /\ fw' = "ready"
    /\ \/ /\ pm.registered /\ pm.supported
          /\ Connected
          /\ UNCHANGED <<fd, nodes>>
       \/ /\ pm.registered /\ ~pm.supported
          /\ fd' \in FreeFd \cup {NoFd} /\ nodes' = (nodes \cup {fd'}) \ {NoFd}
          /\ UNCHANGED pm
       \/ ~pm.registered /\ UNCHANGED <<pm, fd, nodes>>
    /\ UNCHANGED <<deferred, queue, sessionVars, voteVars, foreign, shut, bounds>>

\* loc_start and loc_stop only send a message.
StartOrStop ==
    /\ fw = "ready" /\ calls < MaxCalls /\ calls' = calls + 1
    /\ queue' \in {Append(queue, "start"), Append(queue, "stop")}
    /\ UNCHANGED <<fw, deferred, sessionVars, voteVars, nodeVars, inits, events>>

\* loc_cleanup
CleanupBegins ==
    /\ fw = "ready" /\ fw' = "off"
    /\ UNCHANGED <<deferred, queue, sessionVars, voteVars, nodeVars, bounds>>

\* Mutant: the lock is set at once.
CleanupLocks_Now ==
    /\ fw = "lock" /\ fw' = "stop"
    /\ modem' = IF modem.up THEN [modem EXCEPT !.lock = TRUE, !.restarted = FALSE,
                                     !.power = IF QCA1530 THEN vote ELSE @]
                ELSE modem
    /\ stale' = FALSE
    /\ UNCHANGED <<queue, deferred, sessionVars, vote, nodeVars, bounds>>

\* The vote reaches the modem, and the lock of gps.conf is sent for.
CleanupLocks ==
    /\ fw = "lock" /\ fw' = "stop"
    /\ Voted(vote) /\ stale' = FALSE
    /\ queue' = Append(queue, "lock")
    /\ UNCHANGED <<deferred, sessionVars, vote, nodeVars, bounds>>

\* A session may begin without a further call: its message is in the queue, or
\* the modem's restart is about to begin it again.
Beginning == (\E i \in DOMAIN queue : queue[i] = "start") \/ deferred.pc = "restart"

\* Mutant: the session is left alone.
CleanupStops_Not ==
    /\ fw = "stop" /\ fw' = "check"
    /\ missed' = (~session /\ Beginning)
    /\ UNCHANGED <<queue, deferred, session, voteVars, nodeVars, bounds>>

\* loc_eng_cleanup stops the session it sees.
CleanupStops ==
    /\ fw = "stop" /\ fw' = "check"
    /\ queue' = IF session THEN Append(queue, "stop") ELSE queue
    /\ missed' = (~session /\ Beginning)
    /\ UNCHANGED <<deferred, session, voteVars, nodeVars, bounds>>

\* loc_close_mdm_node, for either thread: it looks at mdm_fd,
NodeChecked == ~pm.supported /\ fd >= 0
Disconnected ==
    /\ pm' = IF pm.supported THEN [pm EXCEPT !.asked = FALSE, !.connected = FALSE] ELSE pm
    /\ UNCHANGED <<fd, nodes, foreign>>
\* closes what mdm_fd is by then,
NodeClosed ==
    /\ foreign' = (foreign \/ fd \notin nodes \cup {NoFd})
    /\ nodes' = nodes \ {fd}
    /\ UNCHANGED <<pm, fd>>
\* and forgets what it is after that.
NodeForgotten == fd' = NoFd /\ UNCHANGED <<pm, nodes, foreign>>

CleanupChecks ==
    /\ fw = "check"
    /\ IF NodeChecked THEN fw' = "close" /\ UNCHANGED <<pm, fd, nodes, foreign>>
                      ELSE fw' = "null" /\ Disconnected
    /\ UNCHANGED <<deferred, queue, sessionVars, voteVars, shut, bounds>>

CleanupCloses ==
    /\ fw = "close" /\ fw' = "forget"
    /\ NodeClosed
    /\ UNCHANGED <<deferred, queue, sessionVars, voteVars, shut, bounds>>

CleanupForgets ==
    /\ fw = "forget" /\ fw' = "null"
    /\ NodeForgotten
    /\ UNCHANGED <<deferred, queue, sessionVars, voteVars, shut, bounds>>

\* gps_loc_cb and gps_sv_cb become NULL.
CleanupReturns ==
    /\ fw = "null" /\ fw' = "clean"
    /\ UNCHANGED <<deferred, queue, sessionVars, voteVars, nodeVars, bounds>>

-----------------------------------------------------------------------------
(* The deferred thread.                                                     *)

Take(msg) == deferred = Idle /\ queue # <<>> /\ Head(queue) = msg /\ queue' = Tail(queue)

\* loc_eng_start_handler; startFix may fail.
StartFix ==
    /\ Take("start")
    /\ session' \in {session, TRUE}
    /\ UNCHANGED <<fw, deferred, missed, voteVars, nodeVars, bounds>>

\* loc_eng_stop_handler
StopFix ==
    /\ Take("stop")
    /\ session' = FALSE
    /\ UNCHANGED <<fw, deferred, missed, voteVars, nodeVars, bounds>>

\* LocEngReportPosition: a fix that is reported ends the session if it is for a
\* single fix.
FixEnds ==
    /\ deferred = Idle /\ session /\ session' = FALSE
    /\ UNCHANGED <<fw, deferred, queue, missed, voteVars, nodeVars, bounds>>

\* LocEngAdapterGpsLock: 0 is no lock.  The modem may be down, like in Voted.
GpsLock ==
    /\ \E msg \in {"unlock", "lock"} :
          /\ Take(msg)
          /\ modem' = IF modem.up THEN [modem EXCEPT !.lock = (msg = "lock"),
                                                    !.restarted = FALSE]
                      ELSE modem
    /\ UNCHANGED <<fw, deferred, sessionVars, vote, stale, nodeVars, bounds>>

\* loc_eng_handle_engine_up: requestPowerVote reads mPowerVote,
UpReads ==
    /\ Take("up")
    /\ deferred' = [pc |-> "vote", vote |-> vote]
    /\ UNCHANGED <<fw, sessionVars, voteVars, nodeVars, bounds>>

\* Mutant: the vote is not repeated.
UpVotes_Not ==
    /\ deferred.pc = "vote"
    /\ IF session THEN session' = FALSE /\ deferred' = [Idle EXCEPT !.pc = "restart"]
                  ELSE UNCHANGED session /\ deferred' = Idle
    /\ UNCHANGED <<fw, queue, missed, voteVars, nodeVars, bounds>>

\* and sends it; a session is ended
UpVotes ==
    /\ deferred.pc = "vote"
    /\ Voted(deferred.vote) /\ stale' = (deferred.vote # vote)
    /\ IF session THEN session' = FALSE /\ deferred' = [Idle EXCEPT !.pc = "restart"]
                  ELSE UNCHANGED session /\ deferred' = Idle
    /\ UNCHANGED <<fw, queue, missed, vote, nodeVars, bounds>>

\* and started anew.
UpStarts ==
    /\ deferred.pc = "restart" /\ deferred' = Idle
    /\ session' \in BOOLEAN
    /\ UNCHANGED <<fw, queue, missed, voteVars, nodeVars, bounds>>

\* loc_eng_handle_shutdown calls loc_close_mdm_node.
ShutdownChecks ==
    /\ Take("shutdown")
    /\ shut' = TRUE
    /\ IF NodeChecked THEN deferred' = [Idle EXCEPT !.pc = "close"] /\ UNCHANGED <<pm, fd, nodes, foreign>>
                      ELSE UNCHANGED deferred /\ Disconnected
    /\ UNCHANGED <<fw, sessionVars, voteVars, bounds>>

ShutdownCloses ==
    /\ deferred.pc = "close" /\ deferred' = [Idle EXCEPT !.pc = "forget"]
    /\ shut' = TRUE
    /\ NodeClosed
    /\ UNCHANGED <<fw, queue, sessionVars, voteVars, bounds>>

ShutdownForgets ==
    /\ deferred.pc = "forget" /\ deferred' = Idle
    /\ shut' = TRUE
    /\ NodeForgotten
    /\ UNCHANGED <<fw, queue, sessionVars, voteVars, bounds>>

-----------------------------------------------------------------------------
(* The modem, and who asks for a shutdown.                                  *)

\* The modem goes down, and with it the vote; its lock is then what it takes for
\* one when it starts, which this code does not say.
Down ==
    /\ fw # "new" /\ modem.up
    /\ events < MaxEvents /\ events' = events + 1
    /\ \E lock \in BOOLEAN :
          modem' = [modem EXCEPT !.up = FALSE, !.power = FALSE, !.lock = lock,
                                 !.restarted = TRUE]
    /\ UNCHANGED <<fw, deferred, queue, sessionVars, vote, stale, nodeVars, inits, calls>>

\* It is up again and says so (LocInternalAdapter::handleEngineUpEvent).
Up ==
    /\ ~modem.up
    /\ modem' = [modem EXCEPT !.up = TRUE]
    /\ queue' = Append(queue, "up")
    /\ UNCHANGED <<fw, deferred, sessionVars, vote, stale, nodeVars, bounds>>

\* LocInternalAdapter::shutdown
Shutdown ==
    /\ fw # "new" /\ events < MaxEvents /\ events' = events + 1
    /\ queue' = Append(queue, "shutdown")
    /\ UNCHANGED <<fw, deferred, sessionVars, voteVars, nodeVars, inits, calls>>

-----------------------------------------------------------------------------
\* loc_mdm_info is static: mdm_fd is 0.
Init ==
    /\ fw = "new" /\ deferred = Idle /\ queue = <<>>
    /\ session = FALSE /\ missed = FALSE
    /\ vote = FALSE /\ stale = FALSE
    /\ modem = [power |-> FALSE, lock |-> TRUE, up |-> TRUE, restarted |-> FALSE]
    /\ pm = [found |-> FALSE, registered |-> FALSE, supported |-> FALSE,
             asked |-> FALSE, connected |-> FALSE]
    /\ fd = 0 /\ nodes = {} /\ foreign = FALSE /\ shut = FALSE
    /\ inits = 0 /\ calls = 0 /\ events = 0

InitCall == InitBegins \/ SetPowerVote \/ InitVotes \/ Register \/ PowerUp
CleanupCall == CleanupBegins \/ CleanupLocks \/ CleanupStops \/ CleanupChecks
               \/ CleanupCloses \/ CleanupForgets \/ CleanupReturns
DeferredStep == StartFix \/ StopFix \/ FixEnds \/ GpsLock \/ UpReads \/ UpVotes \/ UpStarts
                \/ ShutdownChecks \/ ShutdownCloses \/ ShutdownForgets

Next == InitCall \/ StartOrStop \/ CleanupCall \/ DeferredStep \/ Down \/ Up \/ Shutdown

Spec == Init /\ [][Next]_vars

-----------------------------------------------------------------------------
(* What holds.                                                              *)

TypeOK ==
    /\ fw \in {"new", "on", "vote", "register", "power", "ready", "off", "lock", "stop",
               "check", "close", "forget", "null", "clean"}
    /\ deferred \in [pc : {"idle", "vote", "restart", "close", "forget"}, vote : BOOLEAN]
    /\ queue \in Seq(Message)
    /\ session \in BOOLEAN /\ missed \in BOOLEAN /\ vote \in BOOLEAN /\ stale \in BOOLEAN
    /\ modem \in [power : BOOLEAN, lock : BOOLEAN, up : BOOLEAN, restarted : BOOLEAN]
    /\ pm \in [found : BOOLEAN, registered : BOOLEAN, supported : BOOLEAN,
               asked : BOOLEAN, connected : BOOLEAN]
    /\ fd \in Int /\ nodes \subseteq Nat /\ foreign \in BOOLEAN /\ shut \in BOOLEAN
    /\ inits \in Nat /\ calls \in Nat /\ events \in Nat

Settled == fw \in {"new", "ready", "clean"} /\ queue = <<>> /\ deferred = Idle /\ modem.up

\* No session runs on after loc_cleanup, unless none was there when
\* loc_eng_cleanup looked: a start was still in the queue, or the modem's
\* restart was between ending the session and starting it.
CleanupEndsSession == fw = "clean" /\ Settled /\ session => missed

\* On a target with the right to vote, the modem ends up with the vote of the
\* framework, also after a restart in the middle of loc_init or loc_cleanup,
\* unless the deferred thread sent a vote it had read before the change
\* (requestPowerVote).
VoteArrives == QCA1530 /\ Settled /\ ~stale => modem.power = vote

\* From the end of loc_init to loc_cleanup the modem is kept powered: the
\* peripheral manager was asked to, or mdm_fd is a node that is open, unless it
\* could not be opened, or a shutdown gave it up, which may still forget what
\* loc_init has opened since (loc_close_mdm_node).
PowerHeld ==
    fw \in {"ready", "off", "lock", "stop", "check"} /\ pm.registered /\ ~shut =>
       IF pm.supported THEN pm.asked ELSE fd \in nodes \cup {NoFd}

\* When all is done, the modem is locked as gps.conf says if HAL is not in use,
\* and not locked if it is: the locks of a cleanup and of an init that follows
\* do not overtake each other (setGpsLockMsg), and none is lost but by a restart
\* of the modem after it, or around it.
LockFollows ==
    fw # "new" /\ Settled /\ ~modem.restarted => modem.lock = (fw = "clean")

\* Each step uses the queue of the deferred thread as one that promises what
\* Fifo says: it puts one message in, takes the oldest out, or leaves it alone.
Task == INSTANCE Fifo WITH Msg <- Message, stopped <- FALSE
UsesFifo == Task!Spec

-----------------------------------------------------------------------------
(* What does not hold.                                                      *)

\* "closes loc_mdm_info.mdm_fd which is the modem powerup node obtained in
\* loc_init": no other descriptor is closed.
ClosesOnlyNode == ~foreign

\* If another is closed, it is 0, because mdm_fd has that value before a node is
\* first opened: never one that was a node and was closed by the other thread.
OnlyZeroClosed == [][foreign' # foreign => fd = 0]_vars

\* No powerup node is left open that mdm_fd does not name.
OneNode == nodes \subseteq {fd}

\* Who has gone through loc_init has a modem that is powered.
PowerGranted == fw = "ready" /\ ~shut => pm.connected \/ fd \in nodes

\* The lock is the one that was last asked for, restarts or not: the vote is sent
\* again after a restart, and the lock is not (loc_eng_handle_engine_up).
LockSurvives == fw # "new" /\ Settled => modem.lock = (fw = "clean")
=============================================================================
