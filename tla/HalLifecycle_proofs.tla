-------------------------- MODULE HalLifecycle_proofs --------------------------
(* Safety of HalLifecycle, for either target and any number of calls, restarts *)
(* and shutdowns.  What the deferred thread will do is in its queue: the       *)
(* invariants speak of the last message of a kind that waits there.            *)
(* At the end, safety of the other HAL, Lights, for any blinks and any         *)
(* brightness of the screen.                                                   *)
EXTENDS HalLifecycle, Lights, TLAPS

\* q holds msg, and nothing of S behind it.
LastIs(q, msg, S) ==
    \E k \in DOMAIN q : q[k] = msg /\ \A i \in DOMAIN q : i > k => q[i] \notin S

\* q holds nothing of S.
Without(q, S) == \A i \in DOMAIN q : q[i] \notin S

\* The modem has the vote, unless a step that sends it is still to come.
VoteInv ==
    /\ QCA1530 /\ ~stale /\ modem.up /\ fw \notin {"vote", "lock"}
       /\ deferred.pc # "vote" /\ Without(queue, {"up"}) => modem.power = vote

\* PowerHeld, and what is registered was found.
NodeInv == PowerHeld /\ (pm.registered => pm.found)

\* After loc_eng_cleanup looked, a stop waits that no start follows, or there
\* is no session and nothing that begins one.
StopInv ==
    fw \in {"check", "close", "forget", "null", "clean"} /\ ~missed =>
       \/ LastIs(queue, "stop", {"start"})
       \/ ~session /\ Without(queue, {"start"}) /\ deferred.pc # "restart"

Locks == {"unlock", "lock"}
Locked == fw \in {"stop", "check", "close", "forget", "null", "clean"}

\* The lock that fits is the last one that waits, or was the last one set, unless
\* the modem was down or went down then.
LockInv ==
    /\ ~modem.up => modem.restarted
    /\ fw # "new" =>
          \/ LastIs(queue, IF Locked THEN "lock" ELSE "unlock", Locks)
          \/ Without(queue, Locks) /\ (modem.restarted \/ modem.lock = Locked)

IInv == TypeOK /\ VoteInv /\ NodeInv /\ StopInv /\ LockInv

-----------------------------------------------------------------------------
(* Queues.                                                                     *)

\* What a message that is appended changes.
LEMMA Appended ==
    ASSUME NEW q \in Seq(Message), NEW msg \in Message
    PROVE  /\ Append(q, msg) \in Seq(Message)
           /\ \A S : LastIs(Append(q, msg), msg, S)
           /\ \A x, S : msg \notin S /\ LastIs(q, x, S) => LastIs(Append(q, msg), x, S)
           /\ \A S : msg \notin S /\ Without(q, S) => Without(Append(q, msg), S)
           /\ \A S : Without(Append(q, msg), S) => Without(q, S) /\ msg \notin S
<1> DEFINE r == Append(q, msg)
<1>1. /\ r \in Seq(Message) /\ Len(r) = Len(q) + 1 /\ r[Len(q) + 1] = msg
      /\ \A i \in 1 .. Len(q) : r[i] = q[i]
      /\ DOMAIN r = 1 .. Len(q) + 1 /\ DOMAIN q = 1 .. Len(q) /\ Len(q) \in Nat
  OBVIOUS
<1> HIDE DEF r
<1>2. ASSUME NEW S PROVE LastIs(r, msg, S)
  BY <1>1 DEF LastIs
<1>3. ASSUME NEW x, NEW S, msg \notin S, LastIs(q, x, S) PROVE LastIs(r, x, S)
  <2>1. PICK k \in DOMAIN q : q[k] = x /\ \A i \in DOMAIN q : i > k => q[i] \notin S
    BY <1>3 DEF LastIs
  <2>2. k \in DOMAIN r /\ r[k] = x
    BY <1>1, <2>1
  <2>3. \A i \in DOMAIN r : i > k => r[i] \notin S
    BY <1>1, <1>3, <2>1
  <2> QED
    BY <2>2, <2>3 DEF LastIs
<1>4. ASSUME NEW S, msg \notin S, Without(q, S) PROVE Without(r, S)
  BY <1>1, <1>4 DEF Without
<1>5. ASSUME NEW S, Without(r, S) PROVE Without(q, S) /\ msg \notin S
  BY <1>1, <1>5 DEF Without
<1> QED
  BY <1>1, <1>2, <1>3, <1>4, <1>5 DEF r

\* What taking the first message changes.
LEMMA Taken ==
    ASSUME NEW q \in Seq(Message), q # <<>>
    PROVE  /\ Tail(q) \in Seq(Message) /\ Head(q) \in Message
           /\ \A x, S : LastIs(q, x, S) =>
                 LastIs(Tail(q), x, S) \/ (Head(q) = x /\ Without(Tail(q), S))
           /\ \A S : Without(q, S) => Without(Tail(q), S) /\ Head(q) \notin S
           /\ \A S : Without(Tail(q), S) /\ Head(q) \notin S => Without(q, S)
<1> DEFINE r == Tail(q)
<1>1. /\ r \in Seq(Message) /\ Len(r) = Len(q) - 1 /\ Head(q) = q[1] /\ Head(q) \in Message
      /\ \A i \in 1 .. Len(q) - 1 : r[i] = q[i + 1]
      /\ DOMAIN r = 1 .. Len(q) - 1 /\ DOMAIN q = 1 .. Len(q) /\ Len(q) \in Nat \ {0}
  OBVIOUS
<1> HIDE DEF r
<1>2. ASSUME NEW x, NEW S, LastIs(q, x, S)
      PROVE  LastIs(r, x, S) \/ (Head(q) = x /\ Without(r, S))
  <2>1. PICK k \in DOMAIN q : q[k] = x /\ \A i \in DOMAIN q : i > k => q[i] \notin S
    BY <1>2 DEF LastIs
  <2>2. \A i \in DOMAIN r : i + 1 \in DOMAIN q /\ r[i] = q[i + 1] /\ (i > k - 1 => i + 1 > k)
    BY <1>1
  <2>3. CASE k = 1
    BY <1>1, <2>1, <2>2, <2>3 DEF Without
  <2>4. CASE k # 1
    <3>1. k - 1 \in DOMAIN r /\ r[k - 1] = x
      BY <1>1, <2>1, <2>4
    <3>2. \A i \in DOMAIN r : i > k - 1 => r[i] \notin S
      BY <2>1, <2>2
    <3> QED
      BY <3>1, <3>2 DEF LastIs
  <2> QED
    BY <2>3, <2>4
<1>3. ASSUME NEW S, Without(q, S) PROVE Without(r, S) /\ Head(q) \notin S
  BY <1>1, <1>3 DEF Without
<1>4. ASSUME NEW S, Without(r, S), Head(q) \notin S PROVE Without(q, S)
  <2>1. \A i \in DOMAIN q : i = 1 \/ (i - 1 \in DOMAIN r /\ q[i] = r[i - 1])
    BY <1>1
  <2> QED
    BY <1>1, <1>4, <2>1 DEF Without
<1> QED
  BY <1>1, <1>2, <1>3, <1>4 DEF r

\* Nothing is in an empty queue.
LEMMA EmptyQueue ==
    /\ \A S : Without(<<>>, S)
    /\ \A x, S : ~LastIs(<<>>, x, S)
BY DEF Without, LastIs

-----------------------------------------------------------------------------
(* Types.                                                                      *)

\* The messages, spelled out.
LEMMA Messages ==
    {"start", "stop", "unlock", "lock", "up", "shutdown"} \subseteq Message
BY DEF Message

\* A step of the framework's thread keeps the types.
LEMMA FrameworkTypes ==
    ASSUME TypeOK, InitCall \/ StartOrStop \/ CleanupCall PROVE TypeOK'
<1> USE DEF sessionVars, voteVars, nodeVars, bounds
<1>0. ASSUME NEW v \in BOOLEAN, Voted(v)
      PROVE  modem' \in [power : BOOLEAN, lock : BOOLEAN, up : BOOLEAN, restarted : BOOLEAN]
  BY <1>0 DEF Voted, TypeOK
<1>1. CASE InitBegins
  <2>1. queue' \in Seq(Message)
    BY <1>1, Appended, Messages DEF InitBegins, TypeOK
  <2>2. /\ fw' = "on" /\ inits' \in Nat
        /\ shut' \in BOOLEAN /\ missed' \in BOOLEAN
    <3>1. inits' = inits + 1 /\ inits \in Nat
      BY <1>1 DEF InitBegins, TypeOK
    <3>2. shut' = FALSE /\ missed' = FALSE /\ fw' = "on"
      BY <1>1 DEF InitBegins
    <3>3. inits' \in Nat
      BY <3>1
    <3> QED
      BY <3>2, <3>3
  <2>3. UNCHANGED <<deferred, session, vote, modem, stale, pm, fd, nodes, foreign, calls, events>>
    BY <1>1 DEF InitBegins
  <2> QED
    BY <2>1, <2>2, <2>3 DEF TypeOK
<1>2. CASE SetPowerVote
  BY <1>2 DEF SetPowerVote, TypeOK
<1>3. CASE InitVotes
  <2>1. modem' \in [power : BOOLEAN, lock : BOOLEAN, up : BOOLEAN, restarted : BOOLEAN]
    BY <1>0, <1>3 DEF InitVotes, TypeOK
  <2> QED
    <3>1. /\ fw' = "register" /\ stale' = FALSE
          /\ UNCHANGED <<deferred, queue, session, missed, vote, pm, fd, nodes, foreign, shut,
                         inits, calls, events>>
      BY <1>3 DEF InitVotes
    <3>2. stale' \in BOOLEAN /\ fw' \in {"register"}
      BY <3>1
    <3> QED
      BY <2>1, <3>1, <3>2 DEF TypeOK
<1>4. CASE Register
  <2>1. pm' \in [found : BOOLEAN, registered : BOOLEAN, supported : BOOLEAN,
                 asked : BOOLEAN, connected : BOOLEAN]
    BY <1>4 DEF Register, Registered, TypeOK
  <2> QED
    BY <1>4, <2>1 DEF Register, TypeOK
<1>5. CASE PowerUp
  <2>1. pm' \in [found : BOOLEAN, registered : BOOLEAN, supported : BOOLEAN,
                 asked : BOOLEAN, connected : BOOLEAN]
    BY <1>5 DEF PowerUp, Connected, TypeOK
  <2>2. fd' \in Int /\ nodes' \subseteq Nat
    <3>1. \/ UNCHANGED <<fd, nodes>>
          \/ fd' \in FreeFd \cup {NoFd} /\ nodes' = (nodes \cup {fd'}) \ {NoFd}
      BY <1>5 DEF PowerUp
    <3>2. NoFd = -1 /\ fd \in Int /\ nodes \subseteq Nat
      BY DEF NoFd, TypeOK
    <3>3. FreeFd \subseteq Nat
      BY HalAssumption DEF FreeFd
    <3>4. CASE fd' \in FreeFd /\ nodes' = (nodes \cup {fd'}) \ {NoFd}
      BY <3>2, <3>3, <3>4
    <3>5. CASE fd' = NoFd /\ nodes' = (nodes \cup {fd'}) \ {NoFd}
      BY <3>2, <3>5
    <3> QED
      BY <3>1, <3>2, <3>4, <3>5
  <2> QED
    BY <1>5, <2>1, <2>2 DEF PowerUp, TypeOK
<1>6. CASE StartOrStop
  <2>1. queue' \in Seq(Message)
    <3>1. queue \in Seq(Message)
      BY DEF TypeOK
    <3>2. PICK msg \in {"start", "stop"} : queue' = Append(queue, msg)
      BY <1>6 DEF StartOrStop
    <3>3. msg \in Message
      BY <3>2, Messages
    <3> QED
      BY <3>1, <3>2, <3>3, Appended
  <2>2. calls' \in Nat
    BY <1>6 DEF StartOrStop, TypeOK
  <2>3. /\ fw' = "ready" /\ fw = "ready"
        /\ UNCHANGED <<deferred, session, missed, vote, modem, stale, pm, fd, nodes, foreign,
                       shut, inits, events>>
    BY <1>6 DEF StartOrStop
  <2> QED
    BY <2>1, <2>2, <2>3 DEF TypeOK
<1>7. CASE CleanupBegins
  BY <1>7 DEF CleanupBegins, TypeOK
<1>8. CASE CleanupLocks
  <2>1. modem' \in [power : BOOLEAN, lock : BOOLEAN, up : BOOLEAN, restarted : BOOLEAN]
    BY <1>0, <1>8 DEF CleanupLocks, TypeOK
  <2>2. queue' \in Seq(Message)
    BY <1>8, Appended, Messages DEF CleanupLocks, TypeOK
  <2> QED
    <3>1. /\ fw' = "stop" /\ stale' = FALSE
          /\ UNCHANGED <<deferred, session, missed, vote, pm, fd, nodes, foreign, shut,
                         inits, calls, events>>
      BY <1>8 DEF CleanupLocks
    <3>2. stale' \in BOOLEAN /\ fw' \in {"stop"}
      BY <3>1
    <3> QED
      BY <2>1, <2>2, <3>1, <3>2 DEF TypeOK
<1>9. CASE CleanupStops
  <2>1. queue' \in Seq(Message)
    BY <1>9, Appended, Messages DEF CleanupStops, TypeOK
  <2>2. missed' \in BOOLEAN
    BY <1>9 DEF CleanupStops
  <2> QED
    BY <1>9, <2>1, <2>2 DEF CleanupStops, TypeOK
<1>10. CASE CleanupChecks
  <2>1. pm' \in [found : BOOLEAN, registered : BOOLEAN, supported : BOOLEAN,
                 asked : BOOLEAN, connected : BOOLEAN]
    BY <1>10 DEF CleanupChecks, Disconnected, TypeOK
  <2>2. fw' \in {"close", "null"} /\ UNCHANGED <<fd, nodes, foreign>>
    BY <1>10 DEF CleanupChecks, Disconnected
  <2> QED
    BY <1>10, <2>1, <2>2 DEF CleanupChecks, TypeOK
<1>11. CASE CleanupCloses
  BY <1>11 DEF CleanupCloses, NodeClosed, TypeOK
<1>13. CASE CleanupForgets
  BY <1>13 DEF CleanupForgets, NodeForgotten, NoFd, TypeOK
<1>12. CASE CleanupReturns
  BY <1>12 DEF CleanupReturns, TypeOK
<1> QED
  BY <1>1, <1>2, <1>3, <1>4, <1>5, <1>6, <1>7, <1>8, <1>9, <1>10, <1>11, <1>12, <1>13
     DEF InitCall, CleanupCall

\* A step of another thread keeps the types.
LEMMA OtherTypes ==
    ASSUME TypeOK, DeferredStep \/ Down \/ Up \/ Shutdown PROVE TypeOK'
<1> USE DEF sessionVars, voteVars, nodeVars, bounds
<1>0. ASSUME NEW msg, Take(msg) PROVE queue' \in Seq(Message)
  BY <1>0, Taken DEF Take, TypeOK
<1>1. CASE StartFix
  <2>1. queue' \in Seq(Message) /\ session' \in BOOLEAN
    BY <1>0, <1>1 DEF StartFix, TypeOK
  <2> QED
    BY <1>1, <2>1 DEF StartFix, TypeOK
<1>2. CASE StopFix
  <2>1. queue' \in Seq(Message) /\ session' \in BOOLEAN
    BY <1>0, <1>2 DEF StopFix
  <2> QED
    BY <1>2, <2>1 DEF StopFix, TypeOK
<1>12. CASE FixEnds
  <2>1. /\ session' \in BOOLEAN
        /\ UNCHANGED <<fw, deferred, queue, missed, vote, modem, stale, pm, fd, nodes, foreign,
                       shut, inits, calls, events>>
    BY <1>12 DEF FixEnds
  <2> QED
    BY <2>1 DEF TypeOK
<1>3. CASE GpsLock
  <2>1. queue' \in Seq(Message)
    BY <1>0, <1>3 DEF GpsLock
  <2>2. modem' \in [power : BOOLEAN, lock : BOOLEAN, up : BOOLEAN, restarted : BOOLEAN]
    BY <1>3 DEF GpsLock, TypeOK
  <2> QED
    BY <1>3, <2>1, <2>2 DEF GpsLock, TypeOK
<1>4. CASE UpReads
  BY <1>0, <1>4 DEF UpReads, TypeOK
<1>5. CASE UpVotes
  <2>1. modem' \in [power : BOOLEAN, lock : BOOLEAN, up : BOOLEAN, restarted : BOOLEAN]
    <3>1. deferred.vote \in BOOLEAN
      BY DEF TypeOK
    <3> QED
      BY <1>5, <3>1 DEF UpVotes, Voted, TypeOK
  <2>2. deferred' \in [pc : {"idle", "vote", "restart", "close", "forget"}, vote : BOOLEAN]
    <3>1. deferred' = Idle \/ deferred' = [Idle EXCEPT !.pc = "restart"]
      BY <1>5 DEF UpVotes
    <3>2. /\ Idle \in [pc : {"idle", "vote", "restart", "close", "forget"}, vote : BOOLEAN]
          /\ [Idle EXCEPT !.pc = "restart"]
                \in [pc : {"idle", "vote", "restart", "close", "forget"}, vote : BOOLEAN]
      BY DEF Idle
    <3> QED
      BY <3>1, <3>2
  <2>3. session' \in BOOLEAN /\ stale' \in BOOLEAN
    BY <1>5 DEF UpVotes, TypeOK
  <2> QED
    BY <1>5, <2>1, <2>2, <2>3 DEF UpVotes, TypeOK
<1>6. CASE UpStarts
  BY <1>6 DEF UpStarts, Idle, TypeOK
<1>7. CASE ShutdownChecks
  <2>1. queue' \in Seq(Message)
    BY <1>0, <1>7 DEF ShutdownChecks
  <2>2. deferred' \in [pc : {"idle", "vote", "restart", "close", "forget"}, vote : BOOLEAN]
    BY <1>7 DEF ShutdownChecks, Idle, TypeOK
  <2>3. pm' \in [found : BOOLEAN, registered : BOOLEAN, supported : BOOLEAN,
                 asked : BOOLEAN, connected : BOOLEAN]
        /\ UNCHANGED <<fd, nodes, foreign>>
    BY <1>7 DEF ShutdownChecks, Disconnected, TypeOK
  <2> QED
    BY <1>7, <2>1, <2>2, <2>3 DEF ShutdownChecks, TypeOK
<1>8. CASE ShutdownCloses \/ ShutdownForgets
  <2>1. deferred' \in [pc : {"idle", "vote", "restart", "close", "forget"}, vote : BOOLEAN]
    <3>1. /\ Idle \in [pc : {"idle", "vote", "restart", "close", "forget"}, vote : BOOLEAN]
          /\ [Idle EXCEPT !.pc = "forget"]
                \in [pc : {"idle", "vote", "restart", "close", "forget"}, vote : BOOLEAN]
      BY DEF Idle
    <3>2. deferred' = Idle \/ deferred' = [Idle EXCEPT !.pc = "forget"]
      BY <1>8 DEF ShutdownCloses, ShutdownForgets
    <3> QED
      BY <3>1, <3>2
  <2>2. fd' \in Int /\ nodes' \subseteq Nat /\ foreign' \in BOOLEAN /\ shut' \in BOOLEAN
    <3>1. CASE NodeClosed /\ shut' = TRUE
      BY <3>1 DEF NodeClosed, TypeOK
    <3>2. CASE NodeForgotten /\ shut' = TRUE
      BY <3>2 DEF NodeForgotten, NoFd, TypeOK
    <3> QED
      BY <1>8, <3>1, <3>2 DEF ShutdownCloses, ShutdownForgets
  <2>3. UNCHANGED <<fw, queue, sessionVars, voteVars, bounds, pm>>
    BY <1>8 DEF ShutdownCloses, ShutdownForgets, NodeClosed, NodeForgotten
  <2> QED
    BY <2>1, <2>2, <2>3 DEF TypeOK
<1>9. CASE Down
  <2>1. modem' \in [power : BOOLEAN, lock : BOOLEAN, up : BOOLEAN, restarted : BOOLEAN]
    BY <1>9 DEF Down, TypeOK
  <2> QED
    <3>1. /\ events' = events + 1
          /\ UNCHANGED <<fw, deferred, queue, session, missed, vote, stale, pm, fd, nodes,
                         foreign, shut, inits, calls>>
      BY <1>9 DEF Down
    <3> QED
      BY <2>1, <3>1 DEF TypeOK
<1>10. CASE Up
  <2>1. modem' \in [power : BOOLEAN, lock : BOOLEAN, up : BOOLEAN, restarted : BOOLEAN]
    BY <1>10 DEF Up, TypeOK
  <2>2. queue' \in Seq(Message)
    BY <1>10, Appended, Messages DEF Up, TypeOK
  <2> QED
    BY <1>10, <2>1, <2>2 DEF Up, TypeOK
<1>11. CASE Shutdown
  BY <1>11, Appended, Messages DEF Shutdown, TypeOK
<1> QED
  BY <1>1, <1>2, <1>3, <1>4, <1>5, <1>6, <1>7, <1>8, <1>9, <1>10, <1>11, <1>12
     DEF DeferredStep

-----------------------------------------------------------------------------
(* The vote.                                                                   *)

\* A step that leaves the vote alone and takes or appends no "up".
LEMMA VoteUnchanged ==
    ASSUME VoteInv, UNCHANGED <<vote, stale, modem.power, modem.up>>,
           fw' \notin {"vote", "lock"} => fw \notin {"vote", "lock"},
           deferred'.pc # "vote" => deferred.pc # "vote",
           Without(queue', {"up"}) => Without(queue, {"up"})
    PROVE  VoteInv'
BY DEF VoteInv

\* A step of the framework's thread.
LEMMA FrameworkVote ==
    ASSUME IInv, InitCall \/ StartOrStop \/ CleanupCall PROVE VoteInv'
<1> USE DEF IInv, sessionVars, voteVars, nodeVars, bounds
<1>1. CASE InitBegins
  BY <1>1, Appended, Messages, VoteUnchanged DEF InitBegins, TypeOK
<1>2. CASE SetPowerVote
  BY <1>2 DEF SetPowerVote, VoteInv
<1>3. CASE InitVotes
  BY <1>3 DEF InitVotes, Voted, VoteInv, TypeOK
<1>4. CASE Register \/ PowerUp
  <2>1. fw \notin {"vote", "lock"} /\ UNCHANGED <<vote, stale, modem, deferred, queue>>
    BY <1>4 DEF Register, PowerUp
  <2> QED
    BY <2>1 DEF VoteInv
<1>5. CASE StartOrStop
  <2>1. Without(queue', {"up"}) => Without(queue, {"up"})
    <3>1. PICK msg \in {"start", "stop"} : queue' = Append(queue, msg)
      BY <1>5 DEF StartOrStop
    <3> QED
      BY <3>1, Appended, Messages DEF TypeOK
  <2> QED
    BY <1>5, <2>1 DEF StartOrStop, VoteInv
<1>6. CASE CleanupBegins
  BY <1>6 DEF CleanupBegins, VoteInv
<1>7. CASE CleanupLocks
  BY <1>7 DEF CleanupLocks, Voted, VoteInv, TypeOK
<1>8. CASE CleanupStops
  <2>1. Without(queue', {"up"}) => Without(queue, {"up"})
    BY <1>8, Appended, Messages DEF CleanupStops, TypeOK
  <2> QED
    BY <1>8, <2>1 DEF CleanupStops, VoteInv
<1>9. CASE CleanupChecks \/ CleanupCloses \/ CleanupForgets \/ CleanupReturns
  <2>1. fw \notin {"vote", "lock"} /\ UNCHANGED <<vote, stale, modem, deferred, queue>>
    BY <1>9 DEF CleanupChecks, CleanupCloses, CleanupForgets, CleanupReturns
  <2> QED
    BY <2>1 DEF VoteInv
<1> QED
  BY <1>1, <1>2, <1>3, <1>4, <1>5, <1>6, <1>7, <1>8, <1>9 DEF InitCall, CleanupCall

\* A step of another thread.
LEMMA OtherVote ==
    ASSUME IInv, DeferredStep \/ Down \/ Up \/ Shutdown PROVE VoteInv'
<1> USE DEF IInv, sessionVars, voteVars, nodeVars, bounds
<1>0. ASSUME NEW msg, Take(msg), msg # "up"
      PROVE  /\ deferred = Idle
             /\ Without(queue', {"up"}) => Without(queue, {"up"})
  BY <1>0, Taken DEF Take, TypeOK
<1>1. CASE StartFix \/ StopFix
  <2>1. UNCHANGED <<vote, stale, modem, fw, deferred>>
    BY <1>1 DEF StartFix, StopFix
  <2>2. Without(queue', {"up"}) => Without(queue, {"up"})
    BY <1>0, <1>1 DEF StartFix, StopFix
  <2> QED
    BY <2>1, <2>2 DEF VoteInv
<1>10. CASE FixEnds
  BY <1>10 DEF FixEnds, VoteInv
<1>2. CASE GpsLock
  <2>1. UNCHANGED <<vote, stale, fw, deferred>> /\ modem'.power = modem.power /\ modem'.up = modem.up
    BY <1>2 DEF GpsLock, TypeOK
  <2>2. Without(queue', {"up"}) => Without(queue, {"up"})
    BY <1>0, <1>2 DEF GpsLock
  <2> QED
    BY <2>1, <2>2 DEF VoteInv
<1>3. CASE UpReads
  BY <1>3 DEF UpReads, VoteInv
<1>4. CASE UpVotes
  BY <1>4 DEF UpVotes, Voted, VoteInv, TypeOK
<1>5. CASE UpStarts
  BY <1>5 DEF UpStarts, VoteInv, Idle
<1>6. CASE ShutdownChecks \/ ShutdownCloses \/ ShutdownForgets
  <2>1. UNCHANGED <<vote, stale, modem, fw>> /\ deferred.pc # "vote"
    BY <1>0, <1>6 DEF ShutdownChecks, ShutdownCloses, ShutdownForgets, Idle
  <2>2. Without(queue', {"up"}) => Without(queue, {"up"})
    BY <1>0, <1>6 DEF ShutdownChecks, ShutdownCloses, ShutdownForgets
  <2> QED
    BY <2>1, <2>2 DEF VoteInv
<1>7. CASE Down
  BY <1>7 DEF Down, VoteInv, TypeOK
<1>8. CASE Up
  <2>1. ~Without(queue', {"up"})
    BY <1>8, Appended, Messages DEF Up, TypeOK
  <2> QED
    BY <2>1 DEF VoteInv
<1>9. CASE Shutdown
  <2>1. Without(queue', {"up"}) => Without(queue, {"up"})
    BY <1>9, Appended, Messages DEF Shutdown, TypeOK
  <2> QED
    BY <1>9, <2>1 DEF Shutdown, VoteInv
<1> QED
  BY <1>1, <1>2, <1>3, <1>4, <1>5, <1>6, <1>7, <1>8, <1>9, <1>10 DEF DeferredStep

-----------------------------------------------------------------------------
(* The powerup node.                                                           *)

\* Only an init, a cleanup past its check and a shutdown touch the node.
LEMMA NodeKept == ASSUME IInv, Next PROVE NodeInv'
<1> USE DEF IInv, NodeInv, PowerHeld, sessionVars, voteVars, nodeVars, bounds
<1>1. CASE InitBegins \/ SetPowerVote \/ InitVotes
  BY <1>1 DEF InitBegins, SetPowerVote, InitVotes
<1>2. CASE Register
  <2>1. CASE ~pm.found
    BY <1>2, <2>1 DEF Register, Registered, TypeOK
  <2>2. CASE fw' = "power"
    BY <1>2, <2>2 DEF Register, Registered, TypeOK
  <2> QED
    BY <1>2, <2>1, <2>2 DEF Register
<1>3. CASE PowerUp
  BY <1>3 DEF PowerUp, Connected, TypeOK
<1>4. CASE StartOrStop \/ CleanupBegins \/ CleanupLocks \/ CleanupStops
  BY <1>4 DEF StartOrStop, CleanupBegins, CleanupLocks, CleanupStops
<1>5. CASE CleanupChecks \/ CleanupCloses \/ CleanupForgets \/ CleanupReturns
  <2>1. fw' \in {"close", "forget", "null", "clean"} /\ pm'.registered = pm.registered /\ pm'.found = pm.found
    BY <1>5 DEF CleanupChecks, CleanupCloses, CleanupForgets, CleanupReturns, Disconnected, NodeClosed, NodeForgotten, TypeOK
  <2> QED
    BY <2>1
<1>6. CASE StartFix \/ StopFix \/ FixEnds \/ GpsLock \/ UpReads \/ UpVotes \/ UpStarts
           \/ Down \/ Up \/ Shutdown
  <2>1. UNCHANGED <<pm, fd, nodes, shut, fw>>
    BY <1>6 DEF StartFix, StopFix, FixEnds, GpsLock, UpReads, UpVotes, UpStarts, Down, Up, Shutdown
  <2> QED
    BY <2>1
<1>7. CASE ShutdownChecks \/ ShutdownCloses \/ ShutdownForgets
  <2>1. shut' /\ pm'.registered = pm.registered /\ pm'.found = pm.found
    BY <1>7 DEF ShutdownChecks, ShutdownCloses, ShutdownForgets, Disconnected, NodeClosed, NodeForgotten, TypeOK
  <2> QED
    BY <2>1
<1> QED
  BY <1>1, <1>2, <1>3, <1>4, <1>5, <1>6, <1>7 DEF Next, InitCall, CleanupCall, DeferredStep

-----------------------------------------------------------------------------
(* The session after a cleanup.                                                *)

\* Only a start and the modem's restart begin a session, and neither overtakes
\* the stop of the cleanup.
LEMMA StopKept == ASSUME IInv, Next PROVE StopInv'
<1> USE DEF IInv, sessionVars, voteVars, nodeVars, bounds
<1>0. ASSUME NEW msg, Take(msg), msg # "stop"
      PROVE  /\ LastIs(queue, "stop", {"start"}) => LastIs(queue', "stop", {"start"})
             /\ Without(queue, {"start"}) => Without(queue', {"start"}) /\ msg # "start"
  BY <1>0, Taken DEF Take, TypeOK
<1>1. CASE InitCall
  <2>1. fw' \notin {"check", "close", "forget", "null", "clean"}
    BY <1>1 DEF InitCall, InitBegins, SetPowerVote, InitVotes, Register, PowerUp
  <2> QED
    BY <2>1 DEF StopInv
<1>2. CASE StartOrStop \/ CleanupBegins \/ CleanupLocks
  <2>1. fw' \notin {"check", "close", "forget", "null", "clean"}
    BY <1>2 DEF StartOrStop, CleanupBegins, CleanupLocks
  <2> QED
    BY <2>1 DEF StopInv
<1>3. CASE CleanupStops
  <2>1. CASE session
    <3>1. LastIs(queue', "stop", {"start"})
      BY <1>3, <2>1, Appended, Messages DEF CleanupStops, TypeOK
    <3> QED
      BY <3>1 DEF StopInv
  <2>2. CASE ~session /\ ~Beginning
    BY <1>3, <2>2 DEF CleanupStops, Beginning, StopInv, Without
  <2>3. CASE ~session /\ Beginning
    BY <1>3, <2>3 DEF CleanupStops, StopInv
  <2> QED
    BY <2>1, <2>2, <2>3
<1>4. CASE CleanupChecks \/ CleanupCloses \/ CleanupForgets \/ CleanupReturns
  <2>1. /\ fw \in {"check", "close", "forget", "null", "clean"}
        /\ UNCHANGED <<session, missed, queue, deferred>>
    BY <1>4 DEF CleanupChecks, CleanupCloses, CleanupForgets, CleanupReturns
  <2> QED
    BY <2>1 DEF StopInv
<1>5. CASE StartFix
  <2>1. Take("start") /\ UNCHANGED <<fw, missed, deferred>>
    BY <1>5 DEF StartFix
  <2> QED
    BY <1>0, <2>1 DEF StopInv
<1>6. CASE StopFix
  <2>1. /\ Take("stop") /\ session' = FALSE /\ deferred' = Idle
        /\ UNCHANGED <<fw, missed>>
    BY <1>6 DEF StopFix, Take
  <2>2. \/ LastIs(queue', "stop", {"start"}) \/ Without(queue', {"start"})
        \/ ~LastIs(queue, "stop", {"start"}) /\ ~Without(queue, {"start"})
    BY <2>1, Taken DEF Take, TypeOK
  <2> QED
    BY <2>1, <2>2 DEF StopInv, Idle
<1>14. CASE FixEnds
  <2>1. UNCHANGED <<fw, missed, queue, deferred>> /\ session' = FALSE
    BY <1>14 DEF FixEnds
  <2> QED
    BY <2>1 DEF StopInv
<1>7. CASE GpsLock
  <2>1. PICK msg \in {"unlock", "lock"} : Take(msg)
    BY <1>7 DEF GpsLock
  <2>2. UNCHANGED <<fw, missed, session, deferred>>
    BY <1>7 DEF GpsLock
  <2> QED
    BY <1>0, <2>1, <2>2 DEF StopInv
<1>8. CASE UpReads
  <2>1. Take("up") /\ UNCHANGED <<fw, missed, session>> /\ deferred'.pc # "restart"
    BY <1>8 DEF UpReads
  <2> QED
    BY <1>0, <2>1 DEF StopInv
<1>9. CASE UpVotes
  <2>1. /\ UNCHANGED <<fw, missed, queue>>
        /\ ~session => ~session' /\ deferred' = Idle
    BY <1>9 DEF UpVotes
  <2> QED
    BY <2>1 DEF StopInv, Idle
<1>10. CASE UpStarts
  <2>1. UNCHANGED <<fw, missed, queue>> /\ deferred.pc = "restart"
    BY <1>10 DEF UpStarts
  <2> QED
    BY <2>1 DEF StopInv
<1>11. CASE ShutdownChecks
  <2>1. /\ Take("shutdown") /\ UNCHANGED <<fw, missed, session>>
        /\ deferred'.pc # "restart"
    BY <1>11 DEF ShutdownChecks, Idle, Take
  <2> QED
    BY <1>0, <2>1 DEF StopInv
<1>12. CASE ShutdownCloses \/ ShutdownForgets \/ Down
  <2>1. /\ UNCHANGED <<fw, missed, session, queue>>
        /\ deferred' \in {deferred, Idle, [Idle EXCEPT !.pc = "forget"]}
    BY <1>12 DEF ShutdownCloses, ShutdownForgets, Down
  <2>2. deferred'.pc = "restart" => deferred.pc = "restart"
    BY <2>1 DEF Idle
  <2> QED
    BY <2>1, <2>2 DEF StopInv
<1>13. CASE Up \/ Shutdown
  <2>1. PICK msg \in {"up", "shutdown"} : queue' = Append(queue, msg)
    BY <1>13 DEF Up, Shutdown
  <2>2. UNCHANGED <<fw, missed, session, deferred>>
    BY <1>13 DEF Up, Shutdown
  <2>3. /\ LastIs(queue, "stop", {"start"}) => LastIs(queue', "stop", {"start"})
        /\ Without(queue, {"start"}) => Without(queue', {"start"})
    BY <2>1, Appended, Messages DEF TypeOK
  <2> QED
    BY <2>2, <2>3 DEF StopInv
<1> QED
  BY <1>1, <1>2, <1>3, <1>4, <1>5, <1>6, <1>7, <1>8, <1>9, <1>10, <1>11, <1>12, <1>13, <1>14
     DEF Next, CleanupCall, DeferredStep

-----------------------------------------------------------------------------
(* The lock.                                                                   *)

\* A step that leaves the locks alone.
LEMMA LockUnchanged ==
    ASSUME LockInv, fw' = "new" => fw = "new", fw # "new", Locked' = Locked,
           UNCHANGED <<modem.lock, modem.restarted>>, modem'.up \/ modem.restarted,
           \A x \in Locks : LastIs(queue, x, Locks) => LastIs(queue', x, Locks),
           Without(queue, Locks) => Without(queue', Locks)
    PROVE  LockInv'
BY DEF LockInv, Locks

\* The queue behind a step that takes or appends another message.
LEMMA LocksKept ==
    ASSUME IInv,
           \/ UNCHANGED queue
           \/ \E msg \in Message \ Locks : Take(msg) \/ queue' = Append(queue, msg)
    PROVE  /\ \A x \in Locks : LastIs(queue, x, Locks) => LastIs(queue', x, Locks)
           /\ Without(queue, Locks) => Without(queue', Locks)
<1>1. CASE UNCHANGED queue
  BY <1>1
<1>2. ASSUME NEW msg \in Message \ Locks, queue' = Append(queue, msg)
      PROVE  /\ \A x \in Locks : LastIs(queue, x, Locks) => LastIs(queue', x, Locks)
             /\ Without(queue, Locks) => Without(queue', Locks)
  BY <1>2, Appended DEF IInv, TypeOK
<1>3. ASSUME NEW msg \in Message \ Locks, Take(msg)
      PROVE  /\ \A x \in Locks : LastIs(queue, x, Locks) => LastIs(queue', x, Locks)
             /\ Without(queue, Locks) => Without(queue', Locks)
  BY <1>3, Taken DEF IInv, TypeOK, Take
<1> QED
  BY <1>1, <1>2, <1>3

\* The locks are set in the order in which an init and a cleanup ask for them.
LEMMA LockKept == ASSUME IInv, Next PROVE LockInv'
<1> USE DEF IInv, sessionVars, voteVars, nodeVars, bounds
<1>1. CASE InitBegins
  <2>1. fw' = "on" /\ queue' = Append(queue, "unlock") /\ UNCHANGED modem
    BY <1>1 DEF InitBegins
  <2>2. LastIs(queue', "unlock", Locks)
    BY <2>1, Appended, Messages DEF TypeOK
  <2> QED
    BY <2>1, <2>2 DEF LockInv, Locked
<1>2. CASE CleanupLocks
  <2>1. fw' = "stop" /\ queue' = Append(queue, "lock")
        /\ UNCHANGED <<modem.up, modem.restarted>>
    BY <1>2 DEF CleanupLocks, Voted, TypeOK
  <2>2. LastIs(queue', "lock", Locks)
    BY <2>1, Appended, Messages DEF TypeOK
  <2> QED
    BY <2>1, <2>2 DEF LockInv, Locked
<1>3. CASE GpsLock
  <2>1. PICK msg \in Locks :
          /\ Take(msg)
          /\ modem' = IF modem.up THEN [modem EXCEPT !.lock = (msg = "lock"),
                                                    !.restarted = FALSE]
                      ELSE modem
    BY <1>3 DEF GpsLock, Locks
  <2>2. /\ UNCHANGED fw /\ modem'.up = modem.up
        /\ modem'.restarted \/ (modem'.up /\ modem'.lock = (msg = "lock"))
        /\ queue # <<>> /\ Head(queue) = msg /\ queue' = Tail(queue)
    BY <1>3, <2>1 DEF GpsLock, Take, TypeOK, LockInv
  <2>3. ~Without(queue, Locks)
    BY <2>2, Taken DEF TypeOK
  <2> DEFINE x == IF Locked THEN "lock" ELSE "unlock"
  <2>4. CASE fw # "new" /\ LastIs(queue, x, Locks)
    <3>1. LastIs(queue', x, Locks) \/ (msg = x /\ Without(queue', Locks))
      BY <2>2, <2>4, Taken DEF TypeOK
    <3>2. Locked' = Locked /\ Locked \in BOOLEAN
      BY <2>2 DEF Locked
    <3> QED
      BY <2>2, <3>1, <3>2 DEF LockInv
  <2> QED
    BY <2>2, <2>3, <2>4 DEF LockInv
<1>4. CASE SetPowerVote \/ InitVotes \/ Register \/ PowerUp \/ CleanupBegins
           \/ CleanupChecks \/ CleanupCloses \/ CleanupForgets \/ CleanupReturns
  <2>1. fw # "new" /\ fw' # "new" /\ Locked' = Locked /\ UNCHANGED queue
    BY <1>4 DEF SetPowerVote, InitVotes, Register, PowerUp, CleanupBegins,
                CleanupChecks, CleanupCloses, CleanupForgets, CleanupReturns, Locked
  <2>2. UNCHANGED <<modem.lock, modem.restarted, modem.up>>
    BY <1>4 DEF SetPowerVote, InitVotes, Voted, Register, PowerUp, CleanupBegins,
                CleanupChecks, CleanupCloses, CleanupForgets, CleanupReturns, TypeOK
  <2>3. modem'.up \/ modem.restarted
    BY <2>2 DEF LockInv
  <2> QED
    BY <2>1, <2>2, <2>3, LocksKept, LockUnchanged
<1>5. CASE StartOrStop \/ CleanupStops
  <2>1. fw # "new" /\ fw' # "new" /\ Locked' = Locked /\ UNCHANGED modem
    BY <1>5 DEF StartOrStop, CleanupStops, Locked
  <2>2. UNCHANGED queue \/ \E msg \in Message \ Locks : queue' = Append(queue, msg)
    BY <1>5, Messages DEF StartOrStop, CleanupStops, Locks
  <2>3. modem'.up \/ modem.restarted
    BY <2>1 DEF LockInv
  <2> QED
    BY <2>1, <2>2, <2>3, LocksKept, LockUnchanged
<1>6. CASE StartFix \/ StopFix \/ FixEnds \/ UpReads \/ UpVotes \/ UpStarts \/ ShutdownChecks
           \/ ShutdownCloses \/ ShutdownForgets \/ Up \/ Shutdown
  <2>1. UNCHANGED fw
    BY <1>6 DEF StartFix, StopFix, FixEnds, UpReads, UpVotes, UpStarts, ShutdownChecks,
                ShutdownCloses, ShutdownForgets, Up, Shutdown
  <2>2. UNCHANGED <<modem.lock, modem.restarted>> /\ (modem.up => modem'.up)
    BY <1>6 DEF StartFix, StopFix, FixEnds, UpReads, UpVotes, Voted, UpStarts, ShutdownChecks,
                ShutdownCloses, ShutdownForgets, Up, Shutdown, TypeOK
  <2>3. UNCHANGED queue \/ \E msg \in Message \ Locks : Take(msg) \/ queue' = Append(queue, msg)
    BY <1>6, Messages
       DEF StartFix, StopFix, FixEnds, UpReads, UpVotes, UpStarts, ShutdownChecks,
           ShutdownCloses, ShutdownForgets, Up, Shutdown, Locks
  <2>4. CASE fw = "new"
    BY <2>1, <2>2, <2>4 DEF LockInv
  <2>5. CASE fw # "new"
    <3>1. modem'.up \/ modem.restarted
      BY <2>2 DEF LockInv
    <3> QED
      BY <2>1, <2>2, <2>3, <2>5, <3>1, LocksKept, LockUnchanged DEF Locked
  <2> QED
    BY <2>4, <2>5
<1>7. CASE Down
  <2>1. UNCHANGED <<fw, queue>> /\ modem'.restarted
    BY <1>7 DEF Down, TypeOK
  <2> QED
    BY <2>1 DEF LockInv, Locked
<1> QED
  BY <1>1, <1>2, <1>3, <1>4, <1>5, <1>6, <1>7 DEF Next, InitCall, CleanupCall, DeferredStep

-----------------------------------------------------------------------------
\* The invariant holds initially.
LEMMA InitInv == Init => IInv
<1> SUFFICES ASSUME Init PROVE IInv
  OBVIOUS
<1>1. TypeOK
  <2>1. /\ fw = "new" /\ queue \in Seq(Message) /\ deferred = Idle
        /\ fd \in Int /\ nodes \subseteq Nat /\ inits \in Nat /\ calls \in Nat /\ events \in Nat
    BY DEF Init
  <2>2. /\ Idle \in [pc : {"idle", "vote", "restart", "close", "forget"}, vote : BOOLEAN]
        /\ modem \in [power : BOOLEAN, lock : BOOLEAN, up : BOOLEAN, restarted : BOOLEAN]
        /\ pm \in [found : BOOLEAN, registered : BOOLEAN, supported : BOOLEAN,
                 asked : BOOLEAN, connected : BOOLEAN]
    BY DEF Init, Idle
  <2>3. /\ session \in BOOLEAN /\ missed \in BOOLEAN /\ vote \in BOOLEAN /\ stale \in BOOLEAN
        /\ foreign \in BOOLEAN /\ shut \in BOOLEAN
    BY DEF Init
  <2> QED
    BY <2>1, <2>2, <2>3 DEF TypeOK
<1>2. VoteInv /\ NodeInv /\ StopInv /\ LockInv
  BY DEF Init, VoteInv, NodeInv, PowerHeld, StopInv, LockInv
<1> QED
  BY <1>1, <1>2 DEF IInv

\* Every step keeps it.
LEMMA NextInv == IInv /\ [Next]_vars => IInv'
<1> SUFFICES ASSUME IInv, [Next]_vars PROVE IInv'
  OBVIOUS
<1>1. CASE Next
  <2>1. TypeOK' /\ VoteInv'
    BY <1>1, FrameworkTypes, OtherTypes, FrameworkVote, OtherVote DEF Next, IInv
  <2> QED
    BY <1>1, <2>1, NodeKept, StopKept, LockKept DEF IInv
<1>2. CASE UNCHANGED vars
  <2>1. TypeOK'
    BY <1>2 DEF IInv, TypeOK, vars, sessionVars, voteVars, nodeVars, bounds
  <2>2. VoteInv' /\ NodeInv' /\ StopInv' /\ LockInv'
    BY <1>2 DEF IInv, VoteInv, NodeInv, PowerHeld, StopInv, LockInv, Locked,
                vars, sessionVars, voteVars, nodeVars, bounds
  <2> QED
    BY <2>1, <2>2 DEF IInv
<1> QED
  BY <1>1, <1>2

-----------------------------------------------------------------------------
\* The invariant holds in every reachable state.
THEOREM InvHolds == Spec => []IInv
BY InitInv, NextInv, PTL DEF Spec

\* The variables keep their types.
THEOREM TypeCorrect == Spec => []TypeOK
<1>1. IInv => TypeOK
  BY DEF IInv
<1> QED
  BY <1>1, InvHolds, PTL

\* No session runs on after loc_cleanup, unless one was about to begin when
\* loc_eng_cleanup looked.
THEOREM CleanupHolds == Spec => []CleanupEndsSession
<1>1. IInv => CleanupEndsSession
  BY EmptyQueue DEF IInv, StopInv, CleanupEndsSession, Settled
<1> QED
  BY <1>1, InvHolds, PTL

\* The modem ends up with the vote of the framework, unless the deferred
\* thread sent one it had read before (requestPowerVote).
THEOREM VoteHolds == Spec => []VoteArrives
<1>1. IInv => VoteArrives
  BY EmptyQueue DEF IInv, VoteInv, VoteArrives, Settled, Idle
<1> QED
  BY <1>1, InvHolds, PTL

\* From loc_init to loc_cleanup the modem is kept powered, unless its node could
\* not be opened or a shutdown gave it up (loc_close_mdm_node).
THEOREM PowerHolds == Spec => []PowerHeld
<1>1. IInv => PowerHeld
  BY DEF IInv, NodeInv
<1> QED
  BY <1>1, InvHolds, PTL

\* The lock of a modem that has not restarted since follows the last init or
\* cleanup (setGpsLockMsg).
THEOREM LockHolds == Spec => []LockFollows
<1>1. IInv => LockFollows
  BY EmptyQueue DEF IInv, LockInv, LockFollows, Settled, Locked
<1> QED
  BY <1>1, InvHolds, PTL

-----------------------------------------------------------------------------
\* What the HAL asks of the queue of the deferred thread is what the message task
\* is proved to give (MsgTask.cpp).
THEOREM UsesFifoHolds == Spec => UsesFifo
<1>1. Init => Task!Init
  BY DEF Init, Task!Init
<1>2. [Next]_vars => [Task!Next]_<<queue, FALSE>>
  <2> SUFFICES ASSUME [Next]_vars
               PROVE  \/ \E m \in Message : queue' = Append(queue, m)
                      \/ queue # <<>> /\ queue' = Tail(queue)
                      \/ UNCHANGED queue
    BY DEF Task!Next, Task!Put, Task!Take
  <2>1. CASE InitBegins \/ StartOrStop \/ CleanupLocks \/ CleanupStops \/ Up \/ Shutdown
    BY <2>1, Messages DEF InitBegins, StartOrStop, CleanupLocks, CleanupStops, Up, Shutdown
  <2>2. CASE StartFix \/ StopFix \/ GpsLock \/ UpReads \/ ShutdownChecks
    BY <2>2 DEF StartFix, StopFix, GpsLock, UpReads, ShutdownChecks, Take
  <2>3. CASE SetPowerVote \/ InitVotes \/ Register \/ PowerUp \/ CleanupBegins
             \/ CleanupChecks \/ CleanupCloses \/ CleanupForgets \/ CleanupReturns
    BY <2>3 DEF SetPowerVote, InitVotes, Register, PowerUp, CleanupBegins,
                CleanupChecks, CleanupCloses, CleanupForgets, CleanupReturns
  <2>4. CASE FixEnds \/ UpVotes \/ UpStarts \/ ShutdownCloses \/ ShutdownForgets \/ Down
             \/ UNCHANGED vars
    BY <2>4 DEF FixEnds, UpVotes, UpStarts, ShutdownCloses, ShutdownForgets, Down, vars
  <2> QED
    BY <2>1, <2>2, <2>3, <2>4 DEF Next, InitCall, CleanupCall, DeferredStep
<1> QED
  BY <1>1, <1>2, PTL DEF Spec, UsesFifo, Task!Spec

-----------------------------------------------------------------------------
(* Lights: what a call leaves unwritten is what an earlier call wrote, so the  *)
(* invariant relates the files of the LED to the source shown last.            *)

\* The sources that are on are those that want light, and the last one shown
\* is the most important of them.
LastInv ==
    /\ active = {s \in Source : Wants(s)}
    /\ last = "none" <=> active = {}
    /\ last # "none" => last \in active /\ \A s \in active : Rank[last] <= Rank[s]

\* The files show it.
LedInv ==
    /\ LedOn <=> last # "none"
    /\ last # "none" => led.table \in Tables[last]

\* They say of a blink what a notification that shows has asked for.
BlinkInv ==
    last = "notification" =>
       /\ "loop" \in led.flags <=> Blinks(state["notification"])
       /\ state["notification"].on > 0 => led.hi = state["notification"].on
       /\ state["notification"].off > 0 => led.lo = state["notification"].off

\* What the files may hold.
Files == [blink : BOOLEAN, flags : SUBSET Flag, hi : Nat, lo : Nat,
          table : {"none", "notification", "battery", "charging", "buttons"}]

\* The inductive invariant of Lights.
LightsInv == LightsTypeOK /\ LastInv /\ LedInv /\ BlinkInv

\* The ranks, source by source.
LEMMA Ranked ==
    /\ Rank["notification"] = 1 /\ Rank["battery"] = 2
    /\ Rank["buttons"] = 4 /\ Rank["none"] = 255
BY DEF Rank, Source

\* What a source is shown with is one of its tables.
LEMMA Tabled ==
    /\ "notification" \in Tables["notification"] /\ "buttons" \in Tables["buttons"]
    /\ "battery" \in Tables["battery"] /\ "charging" \in Tables["battery"]
BY DEF Tables, Source

\* At first every light is off.
LEMMA LightsInitInv == LightsInit => LightsInv
<1> SUFFICES ASSUME LightsInit PROVE LightsInv
  OBVIOUS
<1> USE DEF LightsInit, Dark, LightState
<1>1. LightsTypeOK
  BY LightsAssumption DEF LightsTypeOK, Flag
<1>2. LastInv /\ LedInv /\ BlinkInv
  BY DEF LastInv, LedInv, BlinkInv, LedOn, Wants
<1> QED
  BY <1>1, <1>2 DEF LightsInv

\* What a source is programmed with has the types of the files.
LEMMA ProgrammedType ==
    ASSUME LightsTypeOK,
           NEW table \in {"none", "notification", "battery", "charging", "buttons"},
           NEW flags \in SUBSET Flag, NEW on \in Nat, NEW off \in Nat
    PROVE  /\ Programmed(table, flags, on, off) \in Files
           /\ Programmed(table, flags, on, off).blink
           /\ Programmed(table, flags, on, off).table = table
           /\ Programmed(table, flags, on, off).flags = flags
           /\ on > 0 => Programmed(table, flags, on, off).hi = on
           /\ off > 0 => Programmed(table, flags, on, off).lo = off
BY DEF LightsTypeOK, Programmed, Files

\* The first case of set_breath_light_locked: nothing is on any more.
LEMMA TurnOffInv ==
    ASSUME LightsInv, NEW s \in Source, TurnOff(s)
    PROVE  ~LedOn' /\ last' = "none"
           /\ led' \in Files
BY DEF LightsInv, LightsTypeOK, TurnOff, LedOn, Flag, Files

\* A light shows that is the most important one.
LEMMA ShowInv ==
    ASSUME LightsInv, NEW s \in Source, NEW new \in LightState, NEW on \in SUBSET Source,
           on \ {s} = active \ {s}, s \in on <=> new.lit,
           Show(new, on), ~Hidden(s)
    PROVE  /\ last' \in on /\ \A t \in on : Rank[last'] <= Rank[t]
           /\ led' \in Files
           /\ LedOn' /\ led'.table \in Tables[last']
           /\ last' = "notification" =>
                 /\ s = "notification"
                 /\ "loop" \in led'.flags <=> Blinks(new)
                 /\ new.on > 0 => led'.hi = new.on
                 /\ new.off > 0 => led'.lo = new.off
<1>1. new.on \in Nat /\ new.off \in Nat
  BY LightsAssumption DEF LightState
<1>2. LightsTypeOK
  BY DEF LightsInv
<1>3. CASE "notification" \in on
  <2> DEFINE flags == IF Blinks(new) THEN Blinking ELSE {"rampUp"}
  <2>1. last' = "notification" /\ led' = Programmed("notification", flags, new.on, new.off)
    BY <1>3 DEF Show, NotificationLed
  <2>2. s = "notification"
    BY <1>3, Ranked DEF Hidden, LightsInv, LastInv, Source
  <2>3. /\ flags \in SUBSET Flag /\ "noTable" \notin flags
        /\ "loop" \in flags <=> Blinks(new)
    BY DEF Blinking, Flag
  <2> HIDE DEF flags
  <2>4. /\ led' \in Files /\ led'.blink /\ led'.table = "notification" /\ led'.flags = flags
        /\ new.on > 0 => led'.hi = new.on
        /\ new.off > 0 => led'.lo = new.off
    BY <1>1, <1>2, <2>1, <2>3, ProgrammedType
  <2>5. last' \in on /\ \A t \in on : Rank[last'] <= Rank[t]
    BY <1>3, <2>1, Ranked DEF Source
  <2> QED
    BY <2>1, <2>2, <2>3, <2>4, <2>5, Tabled DEF LedOn
<1>4. CASE "notification" \notin on /\ "battery" \in on
  <2>1. last' = "battery" /\ led' = BatteryLed
    BY <1>4 DEF Show
  <2>2. PICK table \in {"battery", "charging"}, flags \in SUBSET Flag,
             hi \in Nat, lo \in Nat :
          BatteryLed = Programmed(table, flags, hi, lo) /\ "noTable" \notin flags
    BY <1>2, SMTT(30) DEF LightsTypeOK, Supply, BatteryLed, Blinking, Flag
  <2>3. /\ led' \in Files /\ led'.blink /\ led'.table = table /\ led'.flags = flags
    BY <1>2, <2>1, <2>2, ProgrammedType
  <2>4. last' \in on /\ \A t \in on : Rank[last'] <= Rank[t]
    BY <1>4, <2>1, Ranked DEF Source
  <2> QED
    BY <2>1, <2>2, <2>3, <2>4, Tabled DEF LedOn
<1>5. CASE "notification" \notin on /\ "battery" \notin on
  <2>1. /\ "buttons" \in on /\ last' = "buttons"
        /\ led' = IF last = "buttons" THEN led ELSE ButtonsLed(new)
    BY <1>5 DEF Show
  <2>2. \A t \in on : Rank[last'] <= Rank[t]
    BY <1>5, <2>1, Ranked DEF Source
  <2>3. led' \in Files /\ LedOn' /\ led'.table \in Tables["buttons"]
    <3>1. CASE last = "buttons"
      BY <2>1, <3>1 DEF LightsInv, LightsTypeOK, LedInv, LedOn, Files
    <3>2. CASE last # "buttons"
      <4>1. led' = Programmed("buttons", {"rampUp"}, new.on, new.off)
        BY <2>1, <3>2 DEF ButtonsLed
      <4>2. {"rampUp"} \in SUBSET Flag /\ "noTable" \notin {"rampUp"}
        BY DEF Flag
      <4>3. led' \in Files /\ led'.blink /\ led'.table = "buttons" /\ led'.flags = {"rampUp"}
        BY <1>1, <1>2, <4>1, <4>2, ProgrammedType
      <4> QED
        BY <4>2, <4>3, Tabled DEF LedOn
    <3> QED
      BY <3>1, <3>2
  <2> QED
    BY <2>1, <2>2, <2>3
<1> QED
  BY <1>3, <1>4, <1>5

\* A call for a source keeps the invariant, in each of its three outcomes.
LEMMA SetLightInv ==
    ASSUME LightsInv, NEW s \in Source, NEW new \in LightState, SetLight(s, new)
    PROVE  LightsInv'
<1> DEFINE on == IF new.lit THEN active \cup {s} ELSE active \ {s}
<1>1. /\ state' = [state EXCEPT ![s] = new] /\ active' = on
      /\ supply' = supply /\ screen' = screen
  BY DEF SetLight
<1>2. \/ on = {} /\ TurnOff(s)
      \/ on # {} /\ Hidden(s) /\ UNCHANGED <<led, last>>
      \/ on # {} /\ ~Hidden(s) /\ Show(new, on)
  BY DEF SetLight
<1>3. /\ on \in SUBSET Source /\ on \ {s} = active \ {s} /\ (s \in on <=> new.lit)
      /\ state' \in [Source -> LightState]
      /\ on = {t \in Source : Wants(t)'}
  BY <1>1 DEF LightsInv, LightsTypeOK, LastInv, Wants, LightState
<1>4. CASE on = {} /\ TurnOff(s)
  <2>1. LightsTypeOK'
    BY <1>1, <1>3, <1>4, TurnOffInv DEF LightsInv, LightsTypeOK, Files
  <2>2. LastInv'
    BY <1>1, <1>3, <1>4, TurnOffInv DEF LastInv
  <2>3. LedInv' /\ BlinkInv'
    BY <1>4, TurnOffInv DEF LedInv, BlinkInv
  <2> QED
    BY <2>1, <2>2, <2>3 DEF LightsInv
<1>5. CASE on # {} /\ Hidden(s) /\ UNCHANGED <<led, last>>
  <2>1. LightsTypeOK'
    BY <1>1, <1>3, <1>5 DEF LightsInv, LightsTypeOK
  <2>2. last # "none" /\ last # s /\ Rank[last] < Rank[s]
    BY <1>5 DEF Hidden, Rank, Source
  <2>3. last \in on /\ \A t \in on : Rank[last] <= Rank[t]
    BY <1>3, <2>2 DEF LightsInv, LightsTypeOK, LastInv, Rank, Source
  <2>4. LastInv'
    BY <1>1, <1>3, <1>5, <2>2, <2>3 DEF LastInv
  <2>5. LedInv'
    BY <1>5 DEF LightsInv, LedInv, LedOn
  <2>6. last = "notification" => state'["notification"] = state["notification"]
    BY <1>1, <2>2 DEF LightsInv, LightsTypeOK, Source
  <2>7. BlinkInv'
    BY <1>5, <2>6 DEF LightsInv, BlinkInv, Blinks
  <2> QED
    BY <2>1, <2>4, <2>5, <2>7 DEF LightsInv
<1>6. CASE on # {} /\ ~Hidden(s) /\ Show(new, on)
  <2> HIDE DEF on
  <2>1. /\ last' \in on /\ \A t \in on : Rank[last'] <= Rank[t]
        /\ led' \in Files
        /\ LedOn' /\ led'.table \in Tables[last']
        /\ last' = "notification" =>
              /\ s = "notification"
              /\ "loop" \in led'.flags <=> Blinks(new)
              /\ new.on > 0 => led'.hi = new.on
              /\ new.off > 0 => led'.lo = new.off
    BY <1>3, <1>6, ShowInv
  <2>2. "none" \notin on
    BY <1>3 DEF Source
  <2>3. LightsTypeOK'
    BY <1>1, <1>3, <2>1 DEF LightsInv, LightsTypeOK, Files
  <2>4. LastInv'
    BY <1>1, <1>3, <1>6, <2>1, <2>2 DEF LastInv
  <2>5. LedInv'
    BY <2>1, <2>2 DEF LedInv
  <2>6. last' = "notification" => state'["notification"] = new
    BY <1>1, <2>1 DEF LightsInv, LightsTypeOK
  <2>7. BlinkInv'
    BY <2>1, <2>6 DEF BlinkInv, Blinks
  <2> QED
    BY <2>3, <2>4, <2>5, <2>7 DEF LightsInv
<1> QED
  BY <1>2, <1>4, <1>5, <1>6

\* Every step keeps the invariant; only the calls for a source write to the LED.
LEMMA LightsNextInv == LightsInv /\ [LightsNext]_lightsVars => LightsInv'
<1> SUFFICES ASSUME LightsInv, [LightsNext]_lightsVars PROVE LightsInv'
  OBVIOUS
<1>1. ASSUME NEW s \in Source, NEW new \in LightState, SetLight(s, new) PROVE LightsInv'
  BY <1>1, SetLightInv
<1>2. ASSUME UNCHANGED <<state, active, last, led>>,
             supply' \in Supply,
             screen' \in [lcd : Brightness \cup {0}, kcal : {"default", "sun"}, sre : BOOLEAN]
      PROVE  LightsInv'
  <2>1. LightsTypeOK'
    BY <1>2 DEF LightsInv, LightsTypeOK
  <2>2. LastInv' /\ LedInv' /\ BlinkInv'
    BY <1>2 DEF LightsInv, LastInv, LedInv, BlinkInv, LedOn, Wants
  <2> QED
    BY <2>1, <2>2 DEF LightsInv
<1>3. ASSUME NEW b \in Brightness, SetBacklight(b) PROVE LightsInv'
  BY <1>2, <1>3 DEF SetBacklight, LightsInv, LightsTypeOK
<1>4. CASE ToggleSre
  BY <1>2, <1>4 DEF ToggleSre, LightsInv, LightsTypeOK
<1>5. CASE BatteryChanges
  BY <1>2, <1>5 DEF BatteryChanges, LightsInv, LightsTypeOK
<1>6. CASE UNCHANGED lightsVars
  BY <1>2, <1>6 DEF lightsVars, LightsInv, LightsTypeOK
<1> QED
  BY <1>1, <1>3, <1>4, <1>5, <1>6 DEF LightsNext

\* The invariant holds in every reachable state.
THEOREM LightsInvHolds == LightsSpec => []LightsInv
BY LightsInitInv, LightsNextInv, PTL DEF LightsSpec

\* The LED is dark or shows the most important light, after any calls in any order.
THEOREM ShowsMostImportantHolds == LightsSpec => []ShowsMostImportant
<1>1. LightsInv => ShowsMostImportant
  BY DEF LightsInv, LightsTypeOK, LastInv, LedInv, ShowsMostImportant
<1> QED
  BY <1>1, LightsInvHolds, PTL

\* A notification that wants light is the one shown.
LEMMA NotificationShows ==
    ASSUME LightsInv, Wants("notification") PROVE last = "notification"
BY Ranked DEF LightsInv, LightsTypeOK, LastInv, Source

\* While the same notification shows, no step changes the pauses: a call for
\* another source is hidden, and one for this notification writes what they are.
LEMMA Undisturbed ==
    ASSUME LightsInv, LightsNext, Wants("notification"),
           state'["notification"] = state["notification"]
    PROVE  led'.hi = led.hi /\ led'.lo = led.lo
<1>1. last = "notification" /\ "notification" \in active
  BY NotificationShows DEF LightsInv, LastInv, Source
<1>2. ASSUME NEW s \in Source, NEW new \in LightState, SetLight(s, new)
      PROVE  led'.hi = led.hi /\ led'.lo = led.lo
  <2> DEFINE on == IF new.lit THEN active \cup {s} ELSE active \ {s}
  <2>1. \/ on = {} /\ TurnOff(s)
        \/ on # {} /\ Hidden(s) /\ UNCHANGED <<led, last>>
        \/ on # {} /\ ~Hidden(s) /\ Show(new, on)
    BY <1>2 DEF SetLight
  <2>2. CASE s # "notification"
    <3>1. "notification" \in on
      BY <1>1, <2>2
    <3>2. Hidden(s)
      BY <1>1, <2>2, Ranked DEF Hidden, Source
    <3> QED
      BY <2>1, <3>1, <3>2
  <2>3. CASE s = "notification"
    <3>1. new = state["notification"] /\ new.lit
      BY <1>2, <2>3 DEF SetLight, LightsInv, LightsTypeOK, Wants
    <3>2. "notification" \in on /\ ~Hidden(s)
      BY <1>1, <2>3, <3>1, Ranked DEF Hidden
    <3>3. led' = NotificationLed(new)
      BY <2>1, <3>2 DEF Show
    <3>4. /\ new.on > 0 => led.hi = new.on
          /\ new.off > 0 => led.lo = new.off
      BY <1>1, <3>1 DEF LightsInv, BlinkInv
    <3> QED
      BY <3>3, <3>4 DEF NotificationLed, Programmed
  <2> QED
    BY <2>2, <2>3
<1> QED
  BY <1>2 DEF LightsNext, SetBacklight, ToggleSre, BatteryChanges

\* A notification blinks if it asked to, with the pauses it gave, and as long as
\* it stays the same no call changes its pauses, those it gave as 0 among them.
THEOREM BlinksAsAskedHolds == LightsSpec => BlinksAsAsked
<1>1. LightsInv => BlinkOfNotification
  BY NotificationShows DEF LightsInv, BlinkInv, BlinkOfNotification
<1>2. LightsInv /\ LightsInv' /\ [LightsNext]_lightsVars =>
         [/\ BlinkOfNotification'
          /\ Wants("notification") /\ state'["notification"] = state["notification"] =>
                led'.hi = led.hi /\ led'.lo = led.lo]_lightsVars
  <2>1. ASSUME LightsInv' PROVE BlinkOfNotification'
    BY <1>1, <2>1, PTL
  <2> QED
    BY <2>1, Undisturbed
<1> QED
  BY <1>2, LightsInvHolds, PTL DEF LightsSpec, BlinksAsAsked
=============================================================================
