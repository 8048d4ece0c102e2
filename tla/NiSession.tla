------------------------------ MODULE NiSession ------------------------------
(***************************************************************************)
(* Network-initiated (NI) location requests,                               *)
(* gps/libloc_api_50001/loc_eng_ni.cpp.  There is one session for          *)
(* emergency SUPL and one for all other requests.  Three kinds of thread   *)
(* work on a session:                                                      *)
(*  - the deferred thread takes the modem's requests, starts a thread for  *)
(*    each that it accepts, and clears the sessions when the modem dies;   *)
(*  - the NI thread of a request waits under tLock for the user's answer   *)
(*    or a timeout, and sends the answer to the modem;                     *)
(*  - the framework's thread brings the user's answer.                     *)
(* rawRequest, reqID and respTimeLeft are also read and written without    *)
(* tLock: each such access is a step of its own where another thread can   *)
(* come between.  A timed wait can expire at any time, so respTimeLeft is  *)
(* left out.  pthread_create is assumed to succeed.                        *)
(***************************************************************************)
EXTENDS Naturals, FiniteSets

CONSTANTS
    MaxRequests,    \* bound: requests of the modem
    MaxRestarts     \* bound: restarts of the modem

ASSUME BoundsAssumption == MaxRequests \in Nat /\ MaxRestarts \in Nat

Session == {"es", "plain"}
Id == 1..MaxRequests        \* a request and its payload are named by its ID
None == 0

\* The user's answers that differ in the code, and what takes their place.
UserResponse == {"accept", "deny"}
Response == UserResponse \cup {"noresp", "ignore"}

VARIABLES
    raw,        \* rawRequest of each session, None for NULL
    reqID,      \* reqID of each session
    recvd,      \* respRecvd of each session
    resp,       \* resp of each session
    counter,    \* reqIDCounter
    kind,       \* kind[k]: the session of accepted request k
    pc,         \* pc[k]: where the NI thread of request k is
    msg,        \* msg[k]: the message that thread will send, if any
    deferred,   \* where the deferred thread is in its handler
    responding, \* the framework's thread in loc_eng_ni_respond
    meant,      \* the request that a user answered with resp, while respRecvd
    consumed,   \* consumed[k]: times payload k was freed or put in a message
    restarts

vars == <<raw, reqID, recvd, resp, counter, kind, pc, msg, deferred,
          responding, meant, consumed, restarts>>

Locations == {"none", "start", "wait", "taken", "cleared", "done"}
NoMsg == [of |-> None, resp |-> "noresp", meant |-> None]
Msg == [of : Id, resp : UserResponse \cup {"noresp"}, meant : Id \cup {None}]
         \cup {NoMsg}
Handling == [at : {"number", "check", "free", "wake"}, s : Session,
             p : Id \cup {None}]
Idle == [at |-> "idle"]
Responding == [at : {"found", "plain", "silence", "set"}, s : Session, resp : UserResponse, id : Id]

threads == <<kind, pc, msg>>
ghosts == <<meant, consumed, restarts>>

-----------------------------------------------------------------------------
(* loc_eng_ni_request_handler, in the deferred thread.                      *)

\* An emergency request needs its session to be free, any other one both.
Free(s) == raw["es"] = None /\ (s = "plain" => raw["plain"] = None)

requestUnchanged == UNCHANGED <<recvd, resp, msg, responding, ghosts>>

\* Mutant: a new request takes a session that is in use.
Request_Takeover(s) ==
    /\ deferred = Idle /\ counter < MaxRequests
    /\ raw' = [raw EXCEPT ![s] = counter + 1]
    /\ deferred' = [at |-> "number", s |-> s, p |-> counter + 1]
    /\ UNCHANGED <<reqID, counter, kind, pc>> /\ requestUnchanged

\* The payload goes into the session.  A request that finds no free session is
\* ignored: its payload is freed and it gets no ID.
Request(s) ==
    /\ deferred = Idle /\ counter < MaxRequests
    /\ Free(s)
    /\ raw' = [raw EXCEPT ![s] = counter + 1]
    /\ deferred' = [at |-> "number", s |-> s, p |-> counter + 1]
    /\ UNCHANGED <<reqID, counter, kind, pc>> /\ requestUnchanged

\* Mutant: a thread is started only for a request that is not an emergency.
RequestStarts_NotEs ==
    /\ deferred # Idle /\ deferred.at = "number"
    /\ counter' = counter + 1
    /\ reqID' = [reqID EXCEPT ![deferred.s] = counter']
    /\ kind' = [kind EXCEPT ![counter'] = deferred.s]
    /\ pc' = IF deferred.s = "es" THEN pc ELSE [pc EXCEPT ![counter'] = "start"]
    /\ deferred' = Idle
    /\ UNCHANGED raw /\ requestUnchanged

\* The request gets its ID and its thread.
RequestStarts ==
    /\ deferred # Idle /\ deferred.at = "number"
    /\ counter' = counter + 1
    /\ reqID' = [reqID EXCEPT ![deferred.s] = counter']
    /\ kind' = [kind EXCEPT ![counter'] = deferred.s]
    /\ pc' = [pc EXCEPT ![counter'] = "start"]
    /\ deferred' = Idle
    /\ UNCHANGED raw /\ requestUnchanged

-----------------------------------------------------------------------------
(* ni_thread_proc, the thread of request k.                                 *)

\* The thread looks at respRecvd before it waits for the first time.
ThreadWaits(k) ==
    /\ pc[k] = "start" /\ ~recvd[kind[k]]
    /\ pc' = [pc EXCEPT ![k] = "wait"]
    /\ UNCHANGED <<raw, reqID, recvd, resp, counter, kind, msg, deferred,
                   responding, ghosts>>

\* Mutant: a request that the user's emergency silences is kept.
Take_KeepsIgnored(k, r, m) ==
    LET s == kind[k] IN
    /\ recvd' = [recvd EXCEPT ![s] = FALSE]
    /\ resp' = [resp EXCEPT ![s] = r] /\ meant' = [meant EXCEPT ![s] = None]
    /\ pc' = [pc EXCEPT ![k] = "taken"]
    /\ IF raw[s] # None /\ r # "ignore"
         THEN /\ raw' = [raw EXCEPT ![s] = None]
              /\ consumed' = [consumed EXCEPT ![raw[s]] = @ + 1]
              /\ msg' = [msg EXCEPT ![k] = [of |-> raw[s], resp |-> r, meant |-> m]]
         ELSE UNCHANGED <<raw, consumed, msg>>

\* Mutant: the payload is put in the message and stays in the session.
Take_KeepsRaw(k, r, m) ==
    LET s == kind[k] IN
    /\ recvd' = [recvd EXCEPT ![s] = FALSE]
    /\ resp' = [resp EXCEPT ![s] = r] /\ meant' = [meant EXCEPT ![s] = None]
    /\ pc' = [pc EXCEPT ![k] = "taken"]
    /\ IF raw[s] # None
         THEN /\ consumed' = [consumed EXCEPT ![raw[s]] = @ + 1]
              /\ msg' = IF r = "ignore" THEN msg ELSE
                        [msg EXCEPT ![k] = [of |-> raw[s], resp |-> r, meant |-> m]]
         ELSE UNCHANGED <<consumed, msg>>
    /\ UNCHANGED raw

\* The end of the critical section: the thread takes the payload with the
\* answer r, or frees it if the request is to be ignored.  The user gave r as
\* the answer to request m (None: r is no user's answer).
Take(k, r, m) ==
    LET s == kind[k] IN
    /\ recvd' = [recvd EXCEPT ![s] = FALSE]
    /\ resp' = [resp EXCEPT ![s] = r] /\ meant' = [meant EXCEPT ![s] = None]
    /\ pc' = [pc EXCEPT ![k] = "taken"]
    /\ IF raw[s] # None
         THEN /\ raw' = [raw EXCEPT ![s] = None]
              /\ consumed' = [consumed EXCEPT ![raw[s]] = @ + 1]
              /\ msg' = IF r = "ignore" THEN msg ELSE
                        [msg EXCEPT ![k] = [of |-> raw[s], resp |-> r, meant |-> m]]
         ELSE UNCHANGED <<raw, consumed, msg>>

takeUnchanged == UNCHANGED <<reqID, counter, kind, deferred, responding, restarts>>

ThreadAnswered(k) ==
    /\ pc[k] \in {"start", "wait"} /\ recvd[kind[k]]
    /\ Take(k, resp[kind[k]], meant[kind[k]])
    /\ takeUnchanged

\* ETIMEDOUT, whether or not the flag has been set meanwhile.
ThreadTimesOut(k) ==
    /\ pc[k] = "wait"
    /\ Take(k, "noresp", None)
    /\ takeUnchanged

\* After the unlock.
ThreadClears(k) ==
    /\ pc[k] = "taken"
    /\ reqID' = [reqID EXCEPT ![kind[k]] = 0]
    /\ pc' = [pc EXCEPT ![k] = "cleared"]
    /\ UNCHANGED <<raw, recvd, resp, counter, kind, msg, deferred, responding, ghosts>>

\* sendMsg, if there is a message: the answer goes to the modem.
ThreadSends(k) ==
    /\ pc[k] = "cleared"
    /\ pc' = [pc EXCEPT ![k] = "done"]
    /\ msg' = [msg EXCEPT ![k] = NoMsg]
    /\ UNCHANGED <<raw, reqID, recvd, resp, counter, kind, deferred,
                   responding, ghosts>>

Thread(k) ==
    \/ ThreadWaits(k) \/ ThreadAnswered(k) \/ ThreadTimesOut(k)
    \/ ThreadClears(k) \/ ThreadSends(k)

-----------------------------------------------------------------------------
(* loc_eng_ni_respond, in the framework's thread.                           *)

respondUnchanged == UNCHANGED <<raw, reqID, counter, threads, deferred,
                                consumed, restarts>>

Has(s, k) == reqID[s] = k /\ raw[s] # None

\* The user answers request k; the sessions are looked at without a lock, the
\* emergency session first.
Respond(k, r) ==
    /\ responding = Idle
    /\ responding' = IF Has("es", k) THEN [at |-> "found", s |-> "es", resp |-> r, id |-> k]
                                     ELSE [at |-> "plain", s |-> "plain", resp |-> r, id |-> k]
    /\ UNCHANGED <<recvd, resp, meant>> /\ respondUnchanged

\* An emergency that is accepted silences the plain session, if that has a
\* request by then; an answer that fits neither session is dropped.
RespondLooks ==
    /\ responding # Idle
    /\ \/ /\ responding.at = "found"
          /\ responding' = [responding EXCEPT
                              !.at = IF responding.resp = "accept" /\ raw["plain"] # None
                                       THEN "silence" ELSE "set"]
       \/ /\ responding.at = "plain"
          /\ responding' = IF Has("plain", responding.id)
                              THEN [responding EXCEPT !.at = "set"] ELSE Idle
    /\ UNCHANGED <<recvd, resp, meant>> /\ respondUnchanged

\* Under tLock of the plain session.
RespondSilences ==
    /\ responding # Idle /\ responding.at = "silence"
    /\ resp' = [resp EXCEPT !["plain"] = "ignore"]
    /\ meant' = [meant EXCEPT !["plain"] = None]
    /\ recvd' = [recvd EXCEPT !["plain"] = TRUE]
    /\ responding' = [responding EXCEPT !.at = "set"]
    /\ respondUnchanged

\* Under tLock of the session that was found.
RespondSets ==
    /\ responding # Idle /\ responding.at = "set"
    /\ resp' = [resp EXCEPT ![responding.s] = responding.resp]
    /\ meant' = [meant EXCEPT ![responding.s] = responding.id]
    /\ recvd' = [recvd EXCEPT ![responding.s] = TRUE]
    /\ responding' = Idle
    /\ respondUnchanged

-----------------------------------------------------------------------------
(* loc_eng_ni_reset_on_engine_restart, in the deferred thread: "es", then   *)
(* "plain".                                                                 *)

resetUnchanged == UNCHANGED <<reqID, resp, counter, threads, responding, meant>>

Restart ==
    /\ deferred = Idle /\ restarts < MaxRestarts
    /\ restarts' = restarts + 1
    /\ deferred' = [at |-> "check", s |-> "es", p |-> None]
    /\ UNCHANGED <<raw, recvd, consumed>> /\ resetUnchanged

NextSession ==
    IF deferred.s = "es" THEN [at |-> "check", s |-> "plain", p |-> None] ELSE Idle

\* rawRequest is read without the lock.
ResetChecks ==
    /\ deferred # Idle /\ deferred.at = "check"
    /\ deferred' = IF raw[deferred.s] = None THEN NextSession
                   ELSE [deferred EXCEPT !.at = "free", !.p = raw[deferred.s]]
    /\ UNCHANGED <<raw, recvd, consumed, restarts>> /\ resetUnchanged

\* rawRequest is freed (what the test read, or what is there now: the read is a
\* data race) and cleared.  free(NULL) does nothing.
ResetFrees ==
    /\ deferred # Idle /\ deferred.at = "free"
    /\ \E p \in {deferred.p, raw[deferred.s]} :
         consumed' = IF p = None THEN consumed
                     ELSE [consumed EXCEPT ![p] = @ + 1]
    /\ raw' = [raw EXCEPT ![deferred.s] = None]
    /\ deferred' = [deferred EXCEPT !.at = "wake"]
    /\ UNCHANGED <<recvd, restarts>> /\ resetUnchanged

\* Under tLock.
ResetWakes ==
    /\ deferred # Idle /\ deferred.at = "wake"
    /\ recvd' = [recvd EXCEPT ![deferred.s] = TRUE]
    /\ deferred' = NextSession
    /\ UNCHANGED <<raw, consumed, restarts>> /\ resetUnchanged

-----------------------------------------------------------------------------
Init ==
    /\ raw = [s \in Session |-> None] /\ reqID = [s \in Session |-> 0]
    /\ recvd = [s \in Session |-> FALSE] /\ resp = [s \in Session |-> "noresp"]
    /\ counter = 0
    /\ kind = [k \in Id |-> "plain"] /\ pc = [k \in Id |-> "none"]
    /\ msg = [k \in Id |-> NoMsg]
    /\ deferred = Idle /\ responding = Idle
    /\ meant = [s \in Session |-> None] /\ consumed = [k \in Id |-> 0] /\ restarts = 0

Reset == ResetChecks \/ ResetFrees \/ ResetWakes

Next ==
    \/ \E s \in Session : Request(s)
    \/ RequestStarts
    \/ \E k \in Id : Thread(k)
    \/ \E k \in Id, r \in UserResponse : Respond(k, r)
    \/ RespondLooks \/ RespondSilences \/ RespondSets
    \/ Restart \/ Reset

Spec == Init /\ [][Next]_vars

\* The handlers of the deferred thread run to their end, NI threads are
\* scheduled, and their waits expire.  The modem and the user owe nothing.
FairSpec ==
    /\ Spec
    /\ WF_vars(RequestStarts) /\ WF_vars(Reset)
    /\ \A k \in Id : WF_vars(Thread(k))

-----------------------------------------------------------------------------
(* Properties.                                                             *)

\* The variables have their types.
TypeOK ==
    /\ raw \in [Session -> Id \cup {None}] /\ reqID \in [Session -> Id \cup {0}]
    /\ recvd \in [Session -> BOOLEAN] /\ resp \in [Session -> Response]
    /\ counter \in 0..MaxRequests
    /\ kind \in [Id -> Session] /\ pc \in [Id -> Locations] /\ msg \in [Id -> Msg]
    /\ deferred \in Handling \cup {Idle}
    /\ responding \in Responding \cup {Idle}
    /\ meant \in [Session -> Id \cup {None}]
    /\ consumed \in [Id -> Nat]
    /\ restarts \in 0..MaxRestarts

\* A session that holds a payload has a thread that will still take it (or is
\* the one the deferred thread is starting a thread for): also
\* when an older thread of the session takes the newer payload first, no
\* session stays occupied, which would turn every later request away.
Attended ==
    \A s \in Session : raw[s] # None =>
        \/ deferred # Idle /\ deferred.at = "number" /\ deferred.s = s
        \/ \E k \in Id : kind[k] = s /\ pc[k] \in {"start", "wait"}

\* Until a modem restart a payload has one owner: it is in its session, or
\* was freed or put in a message, once; so it is neither freed twice nor
\* answered twice, whichever of answer, timeout and silencing comes first.
OneOwner ==
    restarts = 0 =>
        \A k \in 1..counter :
            consumed[k] + Cardinality({s \in Session : raw[s] = k}) = 1

\* Until a modem restart the two sessions do not mix: the answer sent for a
\* request is sent by the thread of that request.
OwnThreadSends ==
    restarts = 0 => \A k \in Id : msg[k] # NoMsg => msg[k].of = k

\* Every request is taken from its session, by an answer or by the timeout.
Released ==
    \A s \in Session, k \in Id : raw[s] = k ~> raw[s] # k

\* "Displays the NI request and awaits user input" (loc_eng_ni.cpp 105): an
\* answer other than `no response' that a thread is about to send is the one
\* the user gave to that request.
AnswerIsUsers ==
    \A k \in Id :
        pc[k] = "cleared" /\ msg[k].resp \in UserResponse => msg[k].meant = msg[k].of

\* What does hold of it: until a modem restart, an acceptance or a denial that a
\* thread is about to send was given by the user, in the same session, to that
\* request or to an earlier one; nothing is answered in the user's place, or
\* before it was asked.
AnswerWasGiven ==
    restarts = 0 =>
        \A k \in Id : msg[k].resp \in UserResponse =>
            msg[k].meant \in 1..msg[k].of /\ kind[msg[k].meant] = kind[k]
=============================================================================
