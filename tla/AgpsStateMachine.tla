-------------------------- MODULE AgpsStateMachine --------------------------
(***************************************************************************)
(* The AGPS network-interface (NIF) state machines of the GPS HAL          *)
(* (gps/libloc_api_50001/loc_eng_agps.cpp) as the deferred thread drives   *)
(* them: agnss_nif, internet_nif and wifi_nif of loc_eng_data.             *)
(*                                                                         *)
(* A NIF keeps the clients that want a data connection.  The first one     *)
(* makes it ask the framework for the connection, the last one makes it    *)
(* give the connection back.  Every message to a NIF is handled whole by   *)
(* the one deferred thread, so one handler is one action here.  Clients    *)
(* and framework are the environment: they may send any message at any     *)
(* time, in any order, also answers that nobody waits for.                 *)
(*                                                                         *)
(* The subscriber list is kept as two sets, the active clients and the     *)
(* inactive ones (mIsInactive): addSubscriber refuses a client that is     *)
(* listed already, and the order of the list only decides whose address a  *)
(* request carries.                                                        *)
(***************************************************************************)
EXTENDS Naturals, FiniteSets, Sequences

CONSTANTS
    Nif,        \* the state machines
    Client,     \* identities of subscribers (Subscriber::ID)
    Users,      \* Users[n]: the clients that can subscribe to n
    WaitClient, \* clients with waitForCloseComplete() (WIFISubscriber)
    AtlClient,  \* clients of the modem (ATLSubscriber)
    AtlOrder,   \* the NIFs LocEngReleaseATL searches, in its order
    SingleNif,  \* NIFs built with enforceSingleSubscriber
    ModemNif,   \* NIFs whose subscribers a modem restart drops
    Reused      \* what the ID field of a deleted subscriber may read as

ASSUME UsersAssumption ==
    /\ Users \in [Nif -> SUBSET Client]
    /\ SingleNif \subseteq Nif
    /\ ModemNif \subseteq Nif
    /\ WaitClient \subseteq Client
    /\ AtlClient \subseteq Client \ WaitClient
    \* loc_eng.cpp 1258: a WIFISubscriber is only ever built for wifi_nif
    /\ \A n \in Nif \ SingleNif : Users[n] \cap WaitClient = {}

ASSUME AtlOrderAssumption ==
    /\ AtlOrder \in Seq(Nif)
    /\ Reused \subseteq Client

VARIABLES
    state,      \* mStatePtr of each NIF
    active,     \* its subscribers that are not inactive
    inactive,   \* its inactive subscribers: released, waiting for the close
    lease,      \* the framework was asked for the connection and neither was
                \* told to drop it nor has ended it
    told,       \* what a client last heard from, or last asked of, a NIF
    lost        \* the clients that a modem restart took off the list of a NIF
                \* and that nobody told, until they hear from it again

vars == <<state, active, inactive, lease, told, lost>>

States == {"Released", "Pending", "Acquired", "Releasing"}
Answers == {"none", "asked", "granted", "denied", "leaving", "closed"}

Listed(n) == active[n] \cup inactive[n]

-----------------------------------------------------------------------------
(* What the handlers are built from.                                       *)

\* notifySubscriber: every client of S hears `what` from n.
Notify(n, S, what) ==
    /\ told' = [told EXCEPT ![n] = [c \in Client |-> IF c \in S THEN what ELSE @[c]]]
    /\ lost' = [lost EXCEPT ![n] = @ \ S]

\* addSubscriber adds a clone, unless an equal subscriber is listed.
Added(n, c) == IF c \in Listed(n) THEN active[n] ELSE active[n] \cup {c}

AddSubscriber(n, c) ==
    /\ active' = [active EXCEPT ![n] = Added(n, c)]
    /\ UNCHANGED inactive

\* Mutant: a release is not passed on, as if the test were for a subscriber.
Leased_NeedsUser(n, action, users) ==
    IF users # {} THEN action = "REQUEST" ELSE lease[n]

\* The lease of n after sendRsrcRequest(action) with `users` active: the call
\* goes out only when a release finds nobody active, a request somebody.
Leased(n, action, users) ==
    IF (users = {}) = (action = "RELEASE") THEN action = "REQUEST" ELSE lease[n]

SendRsrcRequest(n, action, users) ==
    lease' = [lease EXCEPT ![n] = Leased(n, action, users)]

\* The clients that a non-waiting client c takes off the list of n when it
\* unsubscribes.  notifySubscribers deletes the subscriber that
\* notification.rcver points to and then searches the list again with it, so
\* the second search compares the list with a freed ID, which may read as
\* any value of Reused.
Leavers(n, c) == { {c} \cup (Listed(n) \cap {r}) : r \in Reused \cup {c} }

-----------------------------------------------------------------------------
(* Requests: subscribeRsrc and the RSRC_SUBSCRIBE branch of each state.     *)

Accepts(n) == n \in SingleNif => Listed(n) = {}

\* A NIF for one subscriber denies every request while it has one.
SubscribeRefused(n, c) ==
    /\ ~Accepts(n)
    /\ Notify(n, {c}, "denied")
    /\ UNCHANGED <<state, active, inactive, lease>>

SubscribeReleased(n, c) ==
    /\ Accepts(n) /\ state[n] = "Released"
    /\ AddSubscriber(n, c)
    /\ SendRsrcRequest(n, "REQUEST", Added(n, c))
    /\ state' = [state EXCEPT ![n] = "Pending"]
    /\ Notify(n, {c}, "asked")

\* Pending and Releasing only list the client: the answer comes later.
SubscribeQueued(n, c) ==
    /\ Accepts(n) /\ state[n] \in {"Pending", "Releasing"}
    /\ AddSubscriber(n, c)
    /\ Notify(n, {c}, "asked")
    /\ UNCHANGED <<state, lease>>

\* Mutant: who comes to an open connection is left to wait for the grant.
SubscribeAcquired_Silent(n, c) ==
    /\ Accepts(n) /\ state[n] = "Acquired"
    /\ Notify(n, {c}, "asked")
    /\ AddSubscriber(n, c)
    /\ UNCHANGED <<state, lease>>

SubscribeAcquired(n, c) ==
    /\ Accepts(n) /\ state[n] = "Acquired"
    /\ Notify(n, {c}, "granted")
    /\ AddSubscriber(n, c)
    /\ UNCHANGED <<state, lease>>

Subscribe(n, c) ==
    /\ c \in Users[n]
    /\ \/ SubscribeRefused(n, c)
       \/ SubscribeReleased(n, c)
       \/ SubscribeQueued(n, c)
       \/ SubscribeAcquired(n, c)

-----------------------------------------------------------------------------
(* Releases: unsubscribeRsrc and the RSRC_UNSUBSCRIBE branch of each state. *)
(* unsubscribeRsrc does nothing for a client that is not listed, so the     *)
(* branch of AgpsReleasedState, whose list is empty, is never reached.      *)

\* Mutant: clients that still wait for the close are not counted.
StateAfterLeave_NoWait(n, users, waiting) ==
    IF users = {} THEN "Released" ELSE state[n]

\* The state of n once its list has become users \cup waiting.
StateAfterLeave(n, users, waiting) ==
    IF users \cup waiting = {} THEN "Released"
    ELSE IF users = {} /\ state[n] # "Releasing" THEN "Releasing"
    ELSE state[n]

\* Mutant: the last client leaves and the framework is not told.
Leave_NoRelease(n, users, waiting) ==
    /\ active' = [active EXCEPT ![n] = users]
    /\ inactive' = [inactive EXCEPT ![n] = waiting]
    /\ state' = [state EXCEPT ![n] = StateAfterLeave(n, users, waiting)]
    /\ UNCHANGED lease

\* What a leave does beyond the list: the last active client gives the
\* connection back, unless that was done when the NIF went to Releasing.
Leave(n, users, waiting) ==
    /\ active' = [active EXCEPT ![n] = users]
    /\ inactive' = [inactive EXCEPT ![n] = waiting]
    /\ state' = [state EXCEPT ![n] = StateAfterLeave(n, users, waiting)]
    /\ IF users = {} /\ state[n] # "Releasing"
         THEN SendRsrcRequest(n, "RELEASE", users)
         ELSE UNCHANGED lease

UnsubscribeWait(n, c) ==
    /\ c \in WaitClient
    /\ Leave(n, active[n] \ {c}, inactive[n] \cup {c})
    /\ Notify(n, {c}, "leaving")

UnsubscribeNow(n, c) ==
    /\ c \notin WaitClient
    /\ \E gone \in Leavers(n, c) :
         /\ Leave(n, active[n] \ gone, inactive[n] \ gone)
         /\ Notify(n, gone, "closed")

Unsubscribe(n, c) ==
    /\ c \in Listed(n)
    /\ UnsubscribeWait(n, c) \/ UnsubscribeNow(n, c)

\* LocEngReleaseATL: the first NIF of AtlOrder that lists the handle.
ReleaseAtl(c) ==
    \E k \in DOMAIN AtlOrder :
        /\ \A j \in 1..(k - 1) : c \notin Listed(AtlOrder[j])
        /\ Unsubscribe(AtlOrder[k], c)

\* LocEngReqRelBIT and LocEngReqRelWifi name their NIF.
ReleaseDaemon(n, c) == c \notin AtlClient /\ Unsubscribe(n, c)

-----------------------------------------------------------------------------
(* Answers of the framework.  A state that has no branch for an event logs  *)
(* it and stays as it is: GRANTED outside Pending, RELEASED in Released and *)
(* Pending, DENIED in Released and Acquired.                                *)

\* Mutant: the grant is not passed on.
RsrcGranted_Silent(n) ==
    /\ state[n] = "Pending"
    /\ state' = [state EXCEPT ![n] = "Acquired"]
    /\ UNCHANGED <<active, inactive, lease, told, lost>>

RsrcGranted(n) ==
    /\ state[n] = "Pending"
    /\ state' = [state EXCEPT ![n] = "Acquired"]
    /\ Notify(n, active[n], "granted")
    /\ UNCHANGED <<active, inactive, lease>>

\* Mutant: the subscribers are deleted and not notified.
EndLease_Silent(n, what) ==
    /\ state' = [state EXCEPT ![n] = "Released"]
    /\ active' = [active EXCEPT ![n] = {}]
    /\ inactive' = [inactive EXCEPT ![n] = {}]
    /\ lease' = [lease EXCEPT ![n] = FALSE]
    /\ UNCHANGED <<told, lost>>

EndLease(n, what) ==
    /\ state' = [state EXCEPT ![n] = "Released"]
    /\ Notify(n, Listed(n), what)
    /\ active' = [active EXCEPT ![n] = {}]
    /\ inactive' = [inactive EXCEPT ![n] = {}]
    /\ lease' = [lease EXCEPT ![n] = FALSE]

RsrcDenied(n) == state[n] = "Pending" /\ EndLease(n, "denied")

\* The framework takes the connection away.
RsrcReleased(n) == state[n] = "Acquired" /\ EndLease(n, "closed")

\* The close is complete (RELEASED, or DENIED if the release overtook the
\* request): the waiting clients hear of it, and the clients that joined
\* meanwhile get a connection of their own.
RsrcDrained(n, what) ==
    /\ state[n] = "Releasing"
    /\ Notify(n, inactive[n], what)
    /\ inactive' = [inactive EXCEPT ![n] = {}]
    /\ IF active[n] # {}
         THEN /\ state' = [state EXCEPT ![n] = "Pending"]
              /\ SendRsrcRequest(n, "REQUEST", active[n])
         ELSE /\ state' = [state EXCEPT ![n] = "Released"]
              /\ UNCHANGED lease
    /\ UNCHANGED active

\* The messages that bring the answers.
AtlOpenSuccess(n) == RsrcGranted(n)
AtlClosed(n) == RsrcReleased(n) \/ RsrcDrained(n, "closed")
AtlOpenFailed(n) == RsrcDenied(n) \/ RsrcDrained(n, "denied")

\* loc_eng_agps_open, loc_eng_agps_closed and loc_eng_agps_open_failed send them
\* to the NIF that is named, whether or not it waits for an answer.
FrameworkAnswers(n) == AtlOpenSuccess(n) \/ AtlClosed(n) \/ AtlOpenFailed(n)

-----------------------------------------------------------------------------
\* loc_eng_handle_engine_up: the lists of agnss_nif and internet_nif are
\* flushed, and nobody on them is notified.  The modem has restarted and knows of
\* none of its requests; the other clients are processes that have not, and
\* go on believing what they last heard.  The states of the two machines stay
\* what they were.
EngineUp ==
    /\ active' = [n \in Nif |-> IF n \in ModemNif THEN {} ELSE active[n]]
    /\ inactive' = [n \in Nif |-> IF n \in ModemNif THEN {} ELSE inactive[n]]
    /\ told' = [n \in Nif |-> [c \in Client |-> IF c \in AtlClient THEN "none" ELSE told[n][c]]]
    /\ lost' = [n \in Nif |-> IF n \in ModemNif THEN lost[n] \cup (Listed(n) \ AtlClient)
                                                ELSE lost[n]]
    /\ UNCHANGED <<state, lease>>

-----------------------------------------------------------------------------
Init ==
    /\ state = [n \in Nif |-> "Released"]
    /\ active = [n \in Nif |-> {}]
    /\ inactive = [n \in Nif |-> {}]
    /\ lease = [n \in Nif |-> FALSE]
    /\ told = [n \in Nif |-> [c \in Client |-> "none"]]
    /\ lost = [n \in Nif |-> {}]

Next ==
    \/ \E n \in Nif, c \in Client : Subscribe(n, c) \/ ReleaseDaemon(n, c)
    \/ \E c \in AtlClient : ReleaseAtl(c)
    \/ \E n \in Nif : FrameworkAnswers(n)
    \/ EngineUp

Spec == Init /\ [][Next]_vars

\* The framework answers: a request is granted or denied in the end, and a
\* release is completed.
Answer(n) == AtlOpenSuccess(n) \/ AtlOpenFailed(n) \/ RsrcDrained(n, "closed")

FairSpec == Spec /\ \A n \in Nif : WF_vars(Answer(n))
-----------------------------------------------------------------------------
(* Properties.                                                             *)

\* The variables have their types.
TypeOK ==
    /\ state \in [Nif -> States]
    /\ active \in [Nif -> SUBSET Client]
    /\ inactive \in [Nif -> SUBSET Client]
    /\ lease \in [Nif -> BOOLEAN]
    /\ told \in [Nif -> [Client -> Answers]]
    /\ lost \in [Nif -> SUBSET Client]

\* A released NIF has no subscriber: the "subscriber list not empty" error
\* that AgpsReleasedState logs (loc_eng_agps.cpp 261) cannot occur, whatever
\* the clients, the framework and modem restarts do.
ReleasedIsEmpty ==
    \A n \in Nif : state[n] = "Released" => Listed(n) = {}

\* The calls to the framework pair up with the states: a NIF has an open
\* request with the framework exactly when it is Pending or Acquired.  So no
\* path to Released or Releasing keeps the connection, and sendRsrcRequest
\* never swallows a call.
LeaseMatchesState ==
    \A n \in Nif : lease[n] <=> state[n] \in {"Pending", "Acquired"}

\* A client that was granted the connection and has not been told otherwise
\* is on the list of a NIF that holds the connection, whatever late answers
\* and other clients' releases do.  The exception is a daemon client that a
\* modem restart took off the list (lost): it still believes in its grant.
GrantBacked ==
    \A n \in Nif, c \in Client :
        told[n][c] = "granted" /\ c \notin lost[n] => c \in active[n] /\ state[n] = "Acquired"

\* A client that waits for an answer is an active subscriber of a NIF that
\* will get one: none waits at a NIF that already has the connection, and no
\* request is forgotten but by a modem restart (lost).
NoForgottenRequest ==
    \A n \in Nif, c \in Client :
        told[n][c] = "asked" /\ c \notin lost[n] =>
            c \in active[n] /\ state[n] \in {"Pending", "Releasing"}

\* A client whose close is not confirmed yet is still listed, by a NIF that
\* is giving its connection back.
NoForgottenRelease ==
    \A n \in Nif, c \in Client :
        told[n][c] = "leaving" /\ c \notin lost[n] =>
            c \in inactive[n] /\ state[n] = "Releasing"

\* Does not hold: a modem restart leaves every request of a daemon client on
\* the list, or answers it.  dropAllSubscribers (loc_eng_agps.h 242) does neither.
RestartKeepsRequests ==
    \A n \in Nif, c \in Client : told[n][c] = "asked" => c \in active[n]

\* A connection that is held for nobody comes only from a modem restart,
\* which flushes the lists and leaves the states (loc_eng.cpp 2785).
Orphaned(n) == lease[n] /\ active[n] = {}

OnlyRestartOrphans ==
    [][\A n \in Nif : Orphaned(n)' => Orphaned(n) \/ EngineUp]_vars

\* What a NIF promises its clients, whoever answers: they share one connection
\* (SharedConnection), which is asked for while the framework has an open
\* request and up when the NIF is Acquired.  A client that a modem restart took
\* off the list has left it, without having been told.
Conn(n) == IF ~lease[n] THEN "none" ELSE IF state[n] = "Acquired" THEN "up" ELSE "asked"
Waiting(n) == {c \in Client \ lost[n] : told[n][c] = "asked"}
Holders(n) == {c \in Client \ lost[n] : told[n][c] = "granted"}

Shared(n) == INSTANCE SharedConnection
    WITH conn <- Conn(n), waiting <- Waiting(n), holders <- Holders(n)

IsShared ==
    /\ \A n \in Nif : Shared(n)!Init
    /\ [][\A n \in Nif : Shared(n)!Step]_vars

\* Every request is answered, if the framework answers, or lost to a modem
\* restart.
RequestAnswered ==
    \A n \in Nif, c \in Client :
        told[n][c] = "asked" ~> told[n][c] # "asked" \/ c \in lost[n]

\* Every release is confirmed to the client, if the framework answers.
ReleaseAnswered ==
    \A n \in Nif, c \in Client : told[n][c] = "leaving" ~> told[n][c] # "leaving"
=============================================================================
