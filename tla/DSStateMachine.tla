--------------------------- MODULE DSStateMachine ---------------------------
(***************************************************************************)
(* DSStateMachine, the NIF of emergency SUPL (ds_nif,                      *)
(* gps/libloc_api_50001/loc_eng_agps.cpp).  It is an AgpsStateMachine      *)
(* whose connection is a data call of the modem's data services: starting  *)
(* the call may fail at once.  A busy engine is asked again later by a     *)
(* timer; when that fails too often, or the call is not supported, the     *)
(* client is sent to the ordinary SUPL connection (requestATL).            *)
(*                                                                         *)
(* Three parties act on the machine: the deferred thread, which handles    *)
(* each message whole; the threads of the retry timers, which look up a    *)
(* subscriber and send themselves a request in its name; and the modem,    *)
(* whose open and close indications come at any time.                      *)
(*                                                                         *)
(* All subscribers are DSSubscribers: those wait for the close to complete *)
(* (waitForCloseComplete), so a release only makes them inactive.          *)
(***************************************************************************)
EXTENDS Naturals, Sequences, FiniteSets

CONSTANTS
    Client,      \* connection handles of emergency SUPL sessions
    MaxRetries,  \* MAX_START_DATA_CALL_RETRIES, 4 in the code
    MaxRequests  \* bound: requests the clients make

ASSUME BoundsAssumption == MaxRetries \in Nat /\ MaxRequests \in Nat

VARIABLES
    state,      \* mStatePtr
    active,     \* the active subscribers, newest first (linked_list_add)
    inactive,   \* the inactive subscribers: released, waiting for the close
    retries,    \* mRetries
    call,       \* the data call was started and neither stopped nor closed
    timers,     \* running retry timers
    queued,     \* queued[c]: RequestSuplEs messages of timers for c
    told,       \* what a client last asked of, or heard from, the machine
    requests    \* requests the clients have made

vars == <<state, active, inactive, retries, call, timers, queued, told, requests>>

States == {"Released", "Pending", "Acquired", "Releasing"}
Answers == {"none", "asked", "granted", "fallback", "closed", "ended"}

\* openAndStartDataCall: SUCCESS, ENGINE_BUSY, UNSUPPORTED, -1, another error.
Results == {"success", "busy", "unsupported", "failed", "other"}

ActiveSet == {active[i] : i \in DOMAIN active}
Listed == ActiveSet \cup inactive

-----------------------------------------------------------------------------
(* What the handlers are built from.                                       *)

\* The list without c (setInactive leaves every other place as it is).
Without(s, c) ==
    IF \E i \in DOMAIN s : s[i] = c
      THEN LET k == CHOOSE i \in DOMAIN s : s[i] = c
           IN  SubSeq(s, 1, k - 1) \o SubSeq(s, k + 1, Len(s))
      ELSE s

\* addSubscriber: a client that is listed, also as inactive, is not added.
Added(c) == IF c \in Listed THEN active ELSE <<c>> \o active

\* Mutant: the last retry is not the last.
GivesUp_Never(res) == res \in {"unsupported", "failed"}

\* The machine stops trying and sends the head of the list to requestATL.
GivesUp(res) ==
    \/ res \in {"unsupported", "failed"}
    \/ res = "busy" /\ retries + 1 > MaxRetries

\* Mutant: each request starts counting anew.
Counted_Anew(res) == IF res = "busy" /\ ~GivesUp(res) THEN 1 ELSE 0

\* incRetries for a busy engine; informStatus(RSRC_DENIED) starts anew, a
\* call that was started does not.
Counted(res) ==
    IF GivesUp(res) THEN 0 ELSE IF res = "busy" THEN retries + 1 ELSE retries

\* sendRsrcRequest(GPS_REQUEST_AGPS_DATA_CONN), with the active list `users'
\* and the answers `before'.  A timer is not always available.
StartDataCall(res, users, before) ==
    /\ call' = (call \/ res = "success")
    /\ retries' = Counted(res)
    /\ IF res = "busy" /\ ~GivesUp(res) THEN timers' \in {timers, timers + 1}
                                        ELSE UNCHANGED timers
    /\ told' = IF GivesUp(res) /\ users # <<>>
                 THEN [before EXCEPT ![Head(users)] = "fallback"] ELSE before

\* sendRsrcRequest(GPS_RELEASE_AGPS_DATA_CONN) always succeeds.
StopDataCall == call' = FALSE

Tell(S, what) == told' = [c \in Client |-> IF c \in S THEN what ELSE told[c]]

-----------------------------------------------------------------------------
(* Requests.  `asked' is what the clients were told with the request.       *)

\* A call that was not started leaves the machine Released, with the client
\* on its list.
SubscribeReleased(c, asked) ==
    /\ state = "Released"
    /\ active' = Added(c)
    /\ \E res \in Results :
         /\ StartDataCall(res, active', asked)
         /\ state' = IF res = "success" THEN "Pending" ELSE state
    /\ UNCHANGED inactive

SubscribeQueued(c, asked) ==
    /\ state \in {"Pending", "Releasing"}
    /\ active' = Added(c)
    /\ told' = asked
    /\ UNCHANGED <<state, inactive, retries, call, timers>>

SubscribeAcquired(c, asked) ==
    /\ state = "Acquired"
    /\ active' = Added(c)
    /\ told' = [asked EXCEPT ![c] = "granted"]
    /\ UNCHANGED <<state, inactive, retries, call, timers>>

Subscribe(c, asked) ==
    \/ SubscribeReleased(c, asked)
    \/ SubscribeQueued(c, asked)
    \/ SubscribeAcquired(c, asked)

\* LocEngRequestSuplEs, sent by the modem for a client.
RequestSuplES(c) ==
    /\ requests < MaxRequests
    /\ requests' = requests + 1
    /\ Subscribe(c, [told EXCEPT ![c] = "asked"])
    /\ UNCHANGED queued

\* LocEngRequestSuplEs, sent by a retry timer: no client asks for it.
RetrySuplES(c) ==
    /\ queued[c] > 0
    /\ queued' = [queued EXCEPT ![c] = @ - 1]
    /\ Subscribe(c, told)
    /\ UNCHANGED requests

\* delay_callback, retryCallback: in the timer's own thread.
TimerFires ==
    /\ timers > 0
    /\ timers' = timers - 1
    /\ queued' = IF active = <<>> THEN queued
                 ELSE [queued EXCEPT ![Head(active)] = @ + 1]
    /\ UNCHANGED <<state, active, inactive, retries, call, told, requests>>

-----------------------------------------------------------------------------
(* Releases: LocEngReleaseATL reaches ds_nif for a client of no other NIF.  *)

\* A released machine tells the client and keeps it on the list.
UnsubscribeReleased(c) ==
    /\ state = "Released"
    /\ Tell({c}, "closed")
    /\ UNCHANGED <<state, active, inactive, call>>

\* Mutant: the call is kept when its last user goes.
UnsubscribeLeased_NoStop(c) ==
    /\ state # "Released"
    /\ active' = Without(active, c)
    /\ inactive' = inactive \cup {c}
    /\ Tell({c}, "closed")
    /\ state' = IF active' = <<>> THEN "Releasing" ELSE state
    /\ UNCHANGED call

\* Otherwise the client is inactive, and the last active one stops the call.
UnsubscribeLeased(c) ==
    /\ state # "Released"
    /\ active' = Without(active, c)
    /\ inactive' = inactive \cup {c}
    /\ Tell({c}, "closed")
    /\ IF state # "Releasing" /\ active' = <<>>
         THEN state' = "Releasing" /\ StopDataCall
         ELSE UNCHANGED <<state, call>>

ReleaseATL(c) ==
    /\ c \in Listed
    /\ UnsubscribeReleased(c) \/ UnsubscribeLeased(c)
    /\ UNCHANGED <<retries, timers, queued, requests>>

-----------------------------------------------------------------------------
(* Indications of the modem.  Those a state has no branch for change        *)
(* nothing.                                                                 *)

\* LocEngSuplEsOpened
SuplEsOpened ==
    /\ state = "Pending"
    /\ state' = "Acquired"
    /\ Tell(ActiveSet, "granted")
    /\ UNCHANGED <<active, inactive, retries, call, timers, queued, requests>>

\* LocEngSuplEsClosed while Pending: RSRC_RELEASED changes no state and is
\* turned into RSRC_DENIED, which sends every subscriber to requestATL.
ClosedPending ==
    /\ state = "Pending"
    /\ state' = "Released"
    /\ active' = <<>> /\ inactive' = {} /\ call' = FALSE
    /\ Tell(Listed, "fallback")
    /\ retries' = IF Listed = {} THEN retries ELSE 0
    /\ UNCHANGED <<timers, queued, requests>>

\* While Acquired: every subscriber is deleted, and closes the data call.
ClosedAcquired ==
    /\ state = "Acquired"
    /\ state' = "Released"
    /\ active' = <<>> /\ inactive' = {} /\ call' = FALSE
    /\ Tell(Listed, "ended")
    /\ UNCHANGED <<retries, timers, queued, requests>>

\* Mutant: the waiting clients are kept.
ClosedReleasing_Keep ==
    /\ state = "Releasing"
    /\ IF active = <<>>
         THEN state' = "Released" /\ UNCHANGED <<retries, call, timers, told>>
         ELSE /\ state' = "Pending"
              /\ \E res \in Results : StartDataCall(res, active, told)
    /\ UNCHANGED <<active, inactive, queued, requests>>

\* While Releasing: the waiting clients are deleted, and for those that came
\* meanwhile the call is started again, whose result is not looked at.
ClosedReleasing ==
    /\ state = "Releasing"
    /\ inactive' = {}
    /\ LET ended == [c \in Client |-> IF c \in inactive THEN "ended" ELSE told[c]] IN
       IF active = <<>>
         THEN /\ state' = "Released" /\ told' = ended
              /\ UNCHANGED <<retries, call, timers>>
         ELSE /\ state' = "Pending"
              /\ \E res \in Results : StartDataCall(res, active, ended)
    /\ UNCHANGED <<active, queued, requests>>

-----------------------------------------------------------------------------
Init ==
    /\ state = "Released" /\ active = <<>> /\ inactive = {}
    /\ retries = 0 /\ call = FALSE /\ timers = 0
    /\ queued = [c \in Client |-> 0]
    /\ told = [c \in Client |-> "none"]
    /\ requests = 0

Retry == \E c \in Client : RetrySuplES(c)

Next ==
    \/ \E c \in Client : RequestSuplES(c) \/ ReleaseATL(c)
    \/ Retry \/ TimerFires
    \/ SuplEsOpened \/ ClosedPending \/ ClosedAcquired \/ ClosedReleasing

Spec == Init /\ [][Next]_vars

\* Timers expire, and the deferred thread handles the messages they send.
\* The clients and the modem owe nothing.
FairSpec == Spec /\ WF_vars(TimerFires) /\ WF_vars(Retry)

-----------------------------------------------------------------------------
(* Properties.                                                             *)

\* The variables have their types.
TypeOK ==
    /\ state \in States
    /\ active \in Seq(Client)
    /\ inactive \in SUBSET Client
    /\ retries \in Nat /\ timers \in Nat /\ requests \in Nat
    /\ call \in BOOLEAN
    /\ queued \in [Client -> Nat]
    /\ told \in [Client -> Answers]

\* A running data call can be ended: its machine is Pending or Acquired, where
\* a close of the modem is heeded, and lists an active subscriber, whose release
\* stops the call.  The paths that could leave it running unreachably: a call
\* started after a failed one, by a timer, or for clients that joined during
\* the release.  That the subscriber still wants the call is not claimed.
CallCanEnd == call => state \in {"Pending", "Acquired"} /\ active # <<>>

\* Does not hold: a call runs only while a listed client has not been told that
\* it is closed.  A client that releases in a Released machine is told so and
\* stays on the list (loc_eng_agps.cpp 286-294), where retryCallback (838) finds
\* it and starts a call in its name.
CallIsWanted ==
    call => \E c \in ActiveSet : told[c] \notin {"closed", "ended"}

\* A client whose close is not complete is never stranded in a machine that
\* expects no close: Released has no inactive subscriber.
InactiveAwaitsClose == state = "Released" => inactive = {}

\* "Fallback to normal ATL SUPL" after MAX_START_DATA_CALL_RETRIES: the
\* counter, kept over successes and shared by all clients, never passes it.
RetriesBounded == retries <= MaxRetries

\* A list has each client once: a client is not active and inactive, nor
\* listed twice by its own request and the timer's.
ListedOnce ==
    /\ \A i, j \in DOMAIN active : active[i] = active[j] => i = j
    /\ ActiveSet \cap inactive = {}

\* Retrying comes to an end, however long the engine stays busy: once the
\* clients make no new request, no timer and no message of a timer is left.
RetriesEnd ==
    <>[](timers = 0 /\ \A c \in Client : queued[c] = 0)

\* "we need to add subscriber to the list" (loc_eng_agps.cpp 524-525): a
\* client that has asked and has no answer yet is an active subscriber.
AskedIsActive ==
    \A c \in Client : told[c] = "asked" => c \in ActiveSet
=============================================================================
