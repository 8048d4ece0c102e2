--------------------------- MODULE NiSession_proofs ---------------------------
(* Safety of NiSession, for any number of requests and of modem restarts.      *)
EXTENDS NiSession, FiniteSetTheorems, TLAPS

\* The types of the variables that Attended depends on.
Types ==
    /\ raw \in [Session -> Id \cup {None}]
    /\ kind \in [Id -> Session]
    /\ pc \in [Id -> Locations]
    /\ counter \in 0..MaxRequests
    /\ deferred \in Handling \cup {Idle}

\* A request that waits for its ID gets one that no thread has.
FreshId ==
    /\ \A k \in Id : k > counter => pc[k] = "none"
    /\ deferred # Idle /\ deferred.at = "number" => counter + 1 \in Id

IInv == Types /\ FreshId /\ Attended

\* The thread of some request of session s will still look at its payload.
HasTaker(s) == \E k \in Id : kind[k] = s /\ pc[k] \in {"start", "wait"}

\* The deferred thread is about to start a thread for session s.
Numbering(s) == deferred # Idle /\ deferred.at = "number" /\ deferred.s = s

-----------------------------------------------------------------------------
\* The invariant holds initially.
LEMMA InitInv == Init => IInv
BY BoundsAssumption
   DEF Init, IInv, Types, FreshId, Attended, Locations, Idle, Session, None, Id

\* Taking a request in keeps the invariant: the payload is the deferred
\* thread's to attend to until a thread is started for it.
LEMMA RequestInv ==
    ASSUME IInv, NEW s \in Session, Request(s)
    PROVE  IInv'
<1>1. /\ deferred = Idle /\ counter < MaxRequests
      /\ raw' = [raw EXCEPT ![s] = counter + 1]
      /\ deferred' = [at |-> "number", s |-> s, p |-> counter + 1]
      /\ UNCHANGED <<counter, kind, pc>>
  BY DEF Request
<1>2. counter + 1 \in Id /\ counter + 1 # None
  BY <1>1, BoundsAssumption DEF IInv, Types, Id, None
<1>3. deferred' \in Handling /\ deferred' # Idle
      /\ deferred'.at = "number" /\ deferred'.s = s
  BY <1>1, <1>2 DEF Handling, Idle
<1>4. Types'
  BY <1>1, <1>2, <1>3 DEF IInv, Types
<1>5. FreshId'
  BY <1>1, <1>2 DEF IInv, FreshId
<1>6. ASSUME NEW t \in Session, raw'[t] # None
      PROVE  Numbering(t)' \/ HasTaker(t)'
  <2>1. CASE t = s
    BY <1>3, <2>1 DEF Numbering
  <2>2. CASE t # s
    <3>1. raw[t] # None
      BY <1>1, <1>6, <2>2 DEF IInv, Types
    <3> QED
      BY <1>1, <3>1 DEF IInv, Attended, HasTaker
  <2> QED
    BY <2>1, <2>2
<1> QED
  BY <1>4, <1>5, <1>6 DEF IInv, Attended, Numbering, HasTaker

\* Starting the thread keeps the invariant: the new thread attends to the
\* session, and no older thread loses its own.
LEMMA RequestStartsInv ==
    ASSUME IInv, RequestStarts
    PROVE  IInv'
<1>1. /\ deferred # Idle /\ deferred.at = "number"
      /\ counter' = counter + 1
      /\ kind' = [kind EXCEPT ![counter'] = deferred.s]
      /\ pc' = [pc EXCEPT ![counter'] = "start"]
      /\ deferred' = Idle
      /\ UNCHANGED raw
  BY DEF RequestStarts
<1>2. counter + 1 \in Id /\ counter \in Nat /\ pc[counter + 1] = "none"
  BY <1>1 DEF IInv, Types, FreshId, Id
<1>3. deferred.s \in Session
  BY <1>1 DEF IInv, Types, Handling
<1>4. Types'
  BY <1>1, <1>2, <1>3, BoundsAssumption DEF IInv, Types, Locations, Id
<1>5. FreshId'
  BY <1>1, <1>2 DEF IInv, Types, FreshId, Id
<1>6. ASSUME NEW t \in Session, raw'[t] # None
      PROVE  HasTaker(t)'
  <2>1. CASE t = deferred.s
    <3>1. kind'[counter + 1] = t /\ pc'[counter + 1] = "start"
      BY <1>1, <1>2, <2>1 DEF IInv, Types
    <3> QED
      BY <1>2, <3>1 DEF HasTaker
  <2>2. CASE t # deferred.s
    <3>1. PICK k \in Id : kind[k] = t /\ pc[k] \in {"start", "wait"}
      BY <1>1, <1>6, <2>2 DEF IInv, Attended
    <3>2. k # counter + 1
      BY <1>2, <3>1
    <3>3. kind'[k] = t /\ pc'[k] \in {"start", "wait"}
      BY <1>1, <1>2, <3>1, <3>2 DEF IInv, Types
    <3> QED
      BY <3>3 DEF HasTaker
  <2> QED
    BY <2>1, <2>2
<1> QED
  BY <1>4, <1>5, <1>6 DEF IInv, Attended, HasTaker

\* A thread keeps the invariant: it leaves only a session it has emptied.
LEMMA ThreadInv ==
    ASSUME IInv, NEW k \in Id, Thread(k)
    PROVE  IInv'
<1>0. pc[k] # "none" /\ kind[k] \in Session
  BY DEF Thread, ThreadWaits, ThreadAnswered, ThreadTimesOut, ThreadClears,
         ThreadSends, IInv, Types
<1>1. UNCHANGED <<counter, kind, deferred>>
  BY DEF Thread, ThreadWaits, ThreadAnswered, ThreadTimesOut, ThreadClears,
         ThreadSends, takeUnchanged, ghosts
<1>2. PICK l \in Locations \ {"none"} : pc' = [pc EXCEPT ![k] = l]
  BY DEF Thread, ThreadWaits, ThreadAnswered, ThreadTimesOut, ThreadClears,
         ThreadSends, Take, Locations
<1>3. \/ UNCHANGED raw
      \/ raw' = [raw EXCEPT ![kind[k]] = None]
  BY DEF Thread, ThreadWaits, ThreadAnswered, ThreadTimesOut, ThreadClears,
         ThreadSends, Take
<1>4. \/ pc[k] = "start" /\ pc'[k] = "wait"
      \/ pc[k] \in {"start", "wait"} /\ raw'[kind[k]] = None
      \/ pc[k] \notin {"start", "wait"}
  BY DEF Thread, ThreadWaits, ThreadAnswered, ThreadTimesOut, ThreadClears,
         ThreadSends, Take, IInv, Types
<1>5. Types'
  BY <1>0, <1>1, <1>2, <1>3 DEF IInv, Types
<1>6. FreshId'
  BY <1>0, <1>1, <1>2 DEF IInv, Types, FreshId
<1>7. ASSUME NEW t \in Session, raw'[t] # None
      PROVE  Numbering(t)' \/ HasTaker(t)'
  <2>1. raw[t] # None
    BY <1>0, <1>3, <1>7 DEF IInv, Types
  <2>2. CASE Numbering(t)
    BY <1>1, <2>2 DEF Numbering
  <2>3. ASSUME NEW j \in Id, kind[j] = t, pc[j] \in {"start", "wait"}
        PROVE  HasTaker(t)'
    <3>1. pc'[j] \in {"start", "wait"}
      BY <1>2, <1>4, <1>7, <2>3 DEF IInv, Types
    <3> QED
      BY <1>1, <2>3, <3>1 DEF HasTaker
  <2> QED
    BY <2>1, <2>2, <2>3 DEF IInv, Attended, Numbering
<1> QED
  BY <1>5, <1>6, <1>7 DEF IInv, Attended, Numbering, HasTaker

\* The handler of a modem restart keeps the invariant: it takes payloads away
\* and ends no thread.
LEMMA ResetInv ==
    ASSUME IInv, Restart \/ Reset
    PROVE  IInv'
<1>1. UNCHANGED <<counter, kind, pc>>
  BY DEF Restart, Reset, ResetChecks, ResetFrees, ResetWakes, resetUnchanged, threads
<1>2. deferred = Idle \/ deferred.at # "number"
  BY DEF Restart, Reset, ResetChecks, ResetFrees, ResetWakes
<1>3. \/ UNCHANGED raw
      \/ deferred # Idle /\ raw' = [raw EXCEPT ![deferred.s] = None]
  BY DEF Restart, Reset, ResetChecks, ResetFrees, ResetWakes
<1>4. deferred # Idle => deferred.s \in Session
  BY DEF IInv, Types, Handling
<1>5. NextSession \in Handling \cup {Idle} /\ (NextSession = Idle \/ NextSession.at # "number")
  BY DEF NextSession, Handling, Session
<1>6. deferred' \in Handling \cup {Idle} /\ (deferred' = Idle \/ deferred'.at # "number")
  <2>1. CASE Restart
    BY <2>1 DEF Restart, Handling, Session
  <2>2. CASE ResetChecks
    <3>1. deferred \in Handling /\ raw[deferred.s] \in Id \cup {None}
      BY <1>4, <2>2 DEF ResetChecks, IInv, Types
    <3>2. [deferred EXCEPT !.at = "free", !.p = raw[deferred.s]] \in Handling
          /\ [deferred EXCEPT !.at = "free", !.p = raw[deferred.s]].at = "free"
      BY <3>1 DEF Handling
    <3> QED
      BY <1>5, <2>2, <3>2 DEF ResetChecks
  <2>3. CASE ResetFrees
    <3>1. deferred \in Handling
      BY <2>3 DEF ResetFrees, IInv, Types
    <3> QED
      BY <2>3, <3>1 DEF ResetFrees, Handling
  <2>4. CASE ResetWakes
    BY <1>5, <2>4 DEF ResetWakes
  <2> QED
    BY <2>1, <2>2, <2>3, <2>4 DEF Reset
<1>7. Types'
  BY <1>1, <1>3, <1>4, <1>6 DEF IInv, Types
<1>8. FreshId'
  BY <1>1, <1>6 DEF IInv, FreshId
<1>9. ASSUME NEW t \in Session, raw'[t] # None
      PROVE  HasTaker(t)'
  <2>1. raw[t] # None
    BY <1>3, <1>4, <1>9 DEF IInv, Types
  <2> QED
    BY <1>1, <1>2, <2>1 DEF IInv, Attended, HasTaker
<1> QED
  BY <1>7, <1>8, <1>9 DEF IInv, Attended, HasTaker

\* Every step keeps the invariant.
LEMMA NextInv == IInv /\ [Next]_vars => IInv'
<1> SUFFICES ASSUME IInv, [Next]_vars PROVE IInv'
  OBVIOUS
<1>1. ASSUME UNCHANGED <<raw, kind, pc, counter, deferred>> PROVE IInv'
  BY <1>1 DEF IInv, Types, FreshId, Attended
<1>2. CASE UNCHANGED vars
  BY <1>1, <1>2 DEF vars
<1>3. ASSUME NEW k \in Id, NEW r \in UserResponse, Respond(k, r) PROVE IInv'
  BY <1>1, <1>3 DEF Respond, respondUnchanged, threads
<1>4. CASE RespondLooks \/ RespondSilences
  BY <1>1, <1>4 DEF RespondLooks, RespondSilences, respondUnchanged, threads
<1>5. CASE RespondSets
  BY <1>1, <1>5 DEF RespondSets, respondUnchanged, threads
<1> QED
  BY <1>2, <1>3, <1>4, <1>5, RequestInv, RequestStartsInv, ThreadInv, ResetInv DEF Next

-----------------------------------------------------------------------------
\* The invariant holds in every reachable state.
THEOREM InvHolds == Spec => []IInv
BY InitInv, NextInv, PTL DEF Spec

\* What the invariant does not say of the types is kept by every step.
LEMMA RestKept ==
    ASSUME IInv, IInv', TypeOK, [Next]_vars PROVE TypeOK'
<1> USE BoundsAssumption DEF IInv, Types
<1> DEFINE Rest ==
      /\ reqID \in [Session -> Id \cup {0}]
      /\ recvd \in [Session -> BOOLEAN] /\ resp \in [Session -> Response]
      /\ msg \in [Id -> Msg]
      /\ responding \in Responding \cup {Idle}
      /\ meant \in [Session -> Id \cup {None}]
      /\ consumed \in [Id -> Nat]
      /\ restarts \in 0..MaxRestarts
<1> SUFFICES Rest'
  BY DEF TypeOK
<1>1. Rest
  BY DEF TypeOK
<1>2. ASSUME NEW s \in Session, Request(s) PROVE Rest'
  BY <1>1, <1>2 DEF Request, requestUnchanged, ghosts
<1>3. CASE RequestStarts
  <2>1. deferred.s \in Session /\ counter' \in Id
    BY <1>3 DEF RequestStarts, FreshId, Handling
  <2>2. reqID' \in [Session -> Id \cup {0}]
    BY <1>1, <1>3, <2>1 DEF RequestStarts
  <2> QED
    BY <1>1, <1>3, <2>2 DEF RequestStarts, requestUnchanged, ghosts
<1>4. ASSUME NEW k \in Id, NEW r \in Response, NEW m \in Id \cup {None}, Take(k, r, m), takeUnchanged
      PROVE  Rest'
  <2>1. kind[k] \in Session
    OBVIOUS
  <2>2. /\ recvd' \in [Session -> BOOLEAN] /\ resp' \in [Session -> Response]
        /\ meant' \in [Session -> Id \cup {None}]
    BY <1>1, <1>4, <2>1 DEF Take
  <2>3. msg' \in [Id -> Msg] /\ consumed' \in [Id -> Nat]
    <3>1. CASE raw[kind[k]] = None
      BY <1>1, <1>4, <3>1 DEF Take
    <3>2. CASE raw[kind[k]] # None
      <4>1. raw[kind[k]] \in Id
        BY <2>1, <3>2
      <4>2. consumed' = [consumed EXCEPT ![raw[kind[k]]] = @ + 1]
        BY <1>4, <3>2 DEF Take
      <4>3. CASE r = "ignore"
        BY <1>1, <1>4, <3>2, <4>1, <4>2, <4>3 DEF Take
      <4>4. CASE r # "ignore"
        <5>1. [of |-> raw[kind[k]], resp |-> r, meant |-> m] \in Msg
          BY <4>1, <4>4 DEF Msg, Response
        <5>2. msg' = [msg EXCEPT ![k] = [of |-> raw[kind[k]], resp |-> r, meant |-> m]]
          BY <1>4, <3>2, <4>4 DEF Take
        <5> QED
          BY <1>1, <4>1, <4>2, <5>1, <5>2
      <4> QED
        BY <4>3, <4>4
    <3> QED
      BY <3>1, <3>2
  <2> QED
    BY <1>1, <1>4, <2>2, <2>3 DEF takeUnchanged
<1>5. ASSUME NEW k \in Id, Thread(k) PROVE Rest'
  <2>1. kind[k] \in Session
    OBVIOUS
  <2>2. CASE ThreadWaits(k)
    BY <1>1, <2>2 DEF ThreadWaits, ghosts
  <2>3. CASE ThreadAnswered(k)
    <3>1. resp[kind[k]] \in Response /\ meant[kind[k]] \in Id \cup {None}
      BY <1>1, <2>1
    <3> QED
      BY <1>4, <2>3, <3>1 DEF ThreadAnswered
  <2>4. CASE ThreadTimesOut(k)
    BY <1>4, <2>4 DEF ThreadTimesOut, Response
  <2>5. CASE ThreadClears(k)
    BY <1>1, <2>1, <2>5 DEF ThreadClears, ghosts
  <2>6. CASE ThreadSends(k)
    BY <1>1, <2>6 DEF ThreadSends, Msg, ghosts
  <2> QED
    BY <1>5, <2>2, <2>3, <2>4, <2>5, <2>6 DEF Thread
<1>6. ASSUME NEW k \in Id, NEW r \in UserResponse, Respond(k, r) PROVE Rest'
  <2>1. responding' \in Responding \cup {Idle}
    BY <1>6 DEF Respond, Responding, Session
  <2> QED
    BY <1>1, <1>6, <2>1 DEF Respond, respondUnchanged, threads
<1>14. CASE RespondLooks
  <2>1. responding' \in Responding \cup {Idle}
    BY <1>1, <1>14 DEF RespondLooks, Responding
  <2> QED
    BY <1>1, <1>14, <2>1 DEF RespondLooks, respondUnchanged, threads
<1>7. CASE RespondSilences
  <2>1. responding' \in Responding \cup {Idle}
    BY <1>1, <1>7 DEF RespondSilences, Responding
  <2> QED
    BY <1>1, <1>7, <2>1 DEF RespondSilences, respondUnchanged, threads, Response
<1>8. CASE RespondSets
  <2>1. responding.s \in Session /\ responding.resp \in Response /\ responding.id \in Id
    <3>1. responding \in Responding
      BY <1>1, <1>8 DEF RespondSets
    <3>2. responding.s \in Session /\ responding.id \in Id
      BY <3>1 DEF Responding
    <3>3. responding.resp \in Response
      BY <3>1 DEF Responding, Response
    <3> QED
      BY <3>2, <3>3
  <2> QED
    BY <1>1, <1>8, <2>1 DEF RespondSets, respondUnchanged, threads
<1>9. CASE Restart
  BY <1>1, <1>9 DEF Restart, resetUnchanged, threads
<1>10. CASE ResetChecks
  BY <1>1, <1>10 DEF ResetChecks, resetUnchanged, threads
<1>11. CASE ResetFrees
  <2>1. deferred.s \in Session /\ deferred.p \in Id \cup {None}
    BY <1>11 DEF ResetFrees, Handling
  <2>2. PICK p \in Id \cup {None} : consumed' = IF p = None THEN consumed
                                                ELSE [consumed EXCEPT ![p] = @ + 1]
    BY <1>11, <2>1 DEF ResetFrees
  <2>3. consumed' \in [Id -> Nat]
    BY <1>1, <2>2
  <2> QED
    BY <1>1, <1>11, <2>3 DEF ResetFrees, resetUnchanged, threads
<1>12. CASE ResetWakes
  BY <1>1, <1>12 DEF ResetWakes, resetUnchanged, threads
<1>13. CASE UNCHANGED vars
  BY <1>1, <1>13 DEF vars
<1> QED
  BY <1>2, <1>3, <1>5, <1>6, <1>7, <1>8, <1>9, <1>10, <1>11, <1>12, <1>13, <1>14
     DEF Next, Reset

\* The variables keep their types.
THEOREM TypeCorrect == Spec => []TypeOK
<1>1. Init => TypeOK
  BY BoundsAssumption
     DEF Init, TypeOK, Locations, Idle, Session, None, Id, Response, Msg
<1> QED
  BY <1>1, RestKept, InvHolds, PTL DEF Spec

\* No session stays occupied by a payload that no thread will take.
THEOREM AttendedHolds == Spec => []Attended
<1>1. IInv => Attended
  BY DEF IInv
<1> QED
  BY <1>1, InvHolds, PTL

-----------------------------------------------------------------------------
(* Who owns a payload, until the modem restarts.                               *)

\* The types of the variables that speak of the payloads' owners.
OwnerTypes ==
    /\ consumed \in [Id -> Nat]
    /\ msg = [k \in Id |-> msg[k]]
    /\ restarts \in Nat

\* A payload is in its session exactly as long as its own thread waits, and was
\* taken out once after that.
PayloadOwned(k) ==
    IF pc[k] \in {"start", "wait"}
      THEN raw[kind[k]] = k /\ consumed[k] = 0
      ELSE (\A s \in Session : raw[s] # k) /\ consumed[k] = 1

\* What a session holds has a thread, or is about to get one.
SessionOwned(s) ==
    IF Numbering(s) THEN raw[s] = counter + 1
    ELSE raw[s] # None =>
           raw[s] <= counter /\ kind[raw[s]] = s /\ pc[raw[s]] \in {"start", "wait"}

\* Neither session is being reset.
Owned ==
    /\ deferred = Idle \/ deferred.at = "number"
    /\ \A k \in Id : k <= counter => PayloadOwned(k)
    /\ \A k \in Id : k > counter => consumed[k] = 0
    /\ \A s \in Session : SessionOwned(s)
    /\ \A k \in Id : msg[k] # NoMsg => msg[k].of = k

OInv == Types /\ FreshId /\ OwnerTypes /\ (restarts = 0 => Owned)

\* Types and FreshId are part of the invariant that has been proved.
LEMMA TypesKept ==
    /\ Init => Types /\ FreshId
    /\ IInv => Types /\ FreshId
BY InitInv DEF IInv

\* Nothing is owned initially.
LEMMA OwnedInit == Init => OwnerTypes /\ Owned
BY BoundsAssumption
   DEF Init, OwnerTypes, Owned, PayloadOwned, SessionOwned, Numbering, Id, None, NoMsg

\* A payload that comes in is the deferred thread's.
LEMMA RequestOwned ==
    ASSUME IInv, OwnerTypes, Owned, NEW s \in Session, Request(s)
    PROVE  OwnerTypes' /\ Owned'
<1>1. /\ deferred = Idle /\ counter < MaxRequests
      /\ Free(s)
      /\ raw' = [raw EXCEPT ![s] = counter + 1]
      /\ deferred' = [at |-> "number", s |-> s, p |-> counter + 1]
      /\ UNCHANGED <<counter, kind, pc, msg, consumed, restarts>>
  BY DEF Request, requestUnchanged, ghosts
<1>2. counter \in Nat /\ counter + 1 \in Id /\ raw[s] = None
  BY <1>1, BoundsAssumption DEF IInv, Types, Id, None, Free, Session
<1>3. deferred' # Idle /\ deferred'.at = "number" /\ deferred'.s = s
  BY <1>1 DEF Idle
<1>4. OwnerTypes'
  BY <1>1 DEF OwnerTypes
<1>5. ASSUME NEW k \in Id, k <= counter PROVE PayloadOwned(k)'
  <2>1. PayloadOwned(k) /\ k # counter + 1 /\ k # None
    BY <1>2, <1>5 DEF Owned, Id, None
  <2> QED
    BY <1>1, <1>2, <2>1 DEF PayloadOwned, IInv, Types
<1>6. ASSUME NEW t \in Session PROVE SessionOwned(t)'
  <2>1. CASE t = s
    BY <1>1, <1>3, <2>1 DEF SessionOwned, Numbering, IInv, Types
  <2>2. CASE t # s
    <3>1. SessionOwned(t) /\ ~Numbering(t) /\ ~Numbering(t)'
      BY <1>1, <1>3, <2>2 DEF Owned, Numbering
    <3> QED
      BY <1>1, <2>2, <3>1 DEF SessionOwned, IInv, Types
  <2> QED
    BY <2>1, <2>2
<1> QED
  BY <1>1, <1>3, <1>4, <1>5, <1>6 DEF Owned

\* The payload becomes the new thread's.
LEMMA RequestStartsOwned ==
    ASSUME IInv, OwnerTypes, Owned, RequestStarts
    PROVE  OwnerTypes' /\ Owned'
<1>1. /\ deferred # Idle /\ deferred.at = "number"
      /\ counter' = counter + 1
      /\ kind' = [kind EXCEPT ![counter'] = deferred.s]
      /\ pc' = [pc EXCEPT ![counter'] = "start"]
      /\ deferred' = Idle
      /\ UNCHANGED <<raw, msg, consumed, restarts>>
  BY DEF RequestStarts, requestUnchanged, ghosts
<1>2. counter + 1 \in Id /\ counter \in Nat /\ deferred.s \in Session
  BY <1>1 DEF IInv, Types, FreshId, Handling
<1>3. raw[deferred.s] = counter + 1
  BY <1>1, <1>2 DEF Owned, SessionOwned, Numbering
<1>4. OwnerTypes'
  BY <1>1 DEF OwnerTypes
<1>5. ASSUME NEW k \in Id, k <= counter' PROVE PayloadOwned(k)'
  <2>1. CASE k = counter + 1
    <3>1. consumed[k] = 0
      BY <1>2, <2>1 DEF Owned, Id
    <3> QED
      BY <1>1, <1>2, <1>3, <2>1, <3>1 DEF PayloadOwned, IInv, Types
  <2>2. CASE k # counter + 1
    <3>1. PayloadOwned(k)
      BY <1>1, <1>2, <1>5, <2>2 DEF Owned, Id
    <3> QED
      BY <1>1, <1>2, <2>2, <3>1 DEF PayloadOwned, IInv, Types
  <2> QED
    BY <2>1, <2>2
<1>6. ASSUME NEW k \in Id, k > counter' PROVE consumed'[k] = 0
  BY <1>1, <1>2, <1>6 DEF Owned, Id
<1>7. ASSUME NEW t \in Session PROVE SessionOwned(t)'
  <2>1. ~Numbering(t)'
    BY <1>1 DEF Numbering
  <2>2. CASE t = deferred.s
    BY <1>1, <1>2, <1>3, <2>1, <2>2 DEF SessionOwned, IInv, Types
  <2>3. CASE t # deferred.s
    <3>1. SessionOwned(t) /\ ~Numbering(t)
      BY <1>1, <2>3 DEF Owned, Numbering
    <3>2. raw[t] # None => raw[t] \in Id /\ raw[t] # counter + 1 /\ raw[t] <= counter + 1
      BY <1>2, <3>1 DEF SessionOwned, IInv, Types, Id, None
    <3> QED
      BY <1>1, <1>2, <2>1, <3>1, <3>2 DEF SessionOwned, IInv, Types
  <2> QED
    BY <2>2, <2>3
<1> QED
  BY <1>1, <1>4, <1>5, <1>6, <1>7 DEF Owned

\* Taking the payload out, a thread takes its own.
LEMMA TakeOwned ==
    ASSUME IInv, OwnerTypes, Owned, NEW k \in Id, NEW r, NEW m,
           pc[k] \in {"start", "wait"}, Take(k, r, m), takeUnchanged
    PROVE  OwnerTypes' /\ Owned'
<1>1. k <= counter /\ kind[k] \in Session
  BY DEF IInv, Types, FreshId, Id
<1>2. raw[kind[k]] = k /\ consumed[k] = 0 /\ k # None
  BY <1>1 DEF Owned, PayloadOwned, Id, None
<1>3. /\ raw' = [raw EXCEPT ![kind[k]] = None]
      /\ consumed' = [consumed EXCEPT ![k] = @ + 1]
      /\ \/ UNCHANGED msg
         \/ msg' = [msg EXCEPT ![k] = [of |-> k, resp |-> r, meant |-> m]]
      /\ pc' = [pc EXCEPT ![k] = "taken"]
      /\ UNCHANGED <<counter, kind, deferred, restarts>>
  BY <1>2 DEF Take, takeUnchanged
<1>4. OwnerTypes'
  BY <1>2, <1>3 DEF OwnerTypes
<1>5. ASSUME NEW j \in Id, msg'[j] # NoMsg PROVE msg'[j].of = j
  BY <1>3, <1>5 DEF OwnerTypes, Owned
<1>6. ASSUME NEW j \in Id, j <= counter PROVE PayloadOwned(j)'
  <2>1. PayloadOwned(j) /\ j # None
    BY <1>6 DEF Owned, Id, None
  <2>2. CASE j = k
    <3>1. pc'[j] = "taken" /\ consumed'[j] = 1
      BY <1>2, <1>3, <2>2 DEF IInv, Types, OwnerTypes
    <3>2. ASSUME NEW s \in Session PROVE raw'[s] # j
      <4>1. CASE s = kind[k]
        BY <1>3, <2>1, <4>1 DEF IInv, Types
      <4>2. CASE s # kind[k]
        <5>1. raw[s] # k
          BY <1>1, <1>2, <4>2 DEF Owned, SessionOwned, IInv, Types
        <5> QED
          BY <1>3, <2>2, <4>2, <5>1 DEF IInv, Types
      <4> QED
        BY <4>1, <4>2
    <3> QED
      BY <3>1, <3>2 DEF PayloadOwned
  <2>3. CASE j # k
    <3>1. pc'[j] = pc[j] /\ consumed'[j] = consumed[j] /\ kind'[j] = kind[j]
      BY <1>3, <2>3 DEF IInv, Types, OwnerTypes
    <3>2. ASSUME raw[kind[j]] = j PROVE raw'[kind[j]] = j
      BY <1>2, <1>3, <2>3, <3>2 DEF IInv, Types
    <3>3. ASSUME NEW s \in Session, raw[s] # j PROVE raw'[s] # j
      BY <1>3, <2>1, <3>3 DEF IInv, Types
    <3> QED
      BY <2>1, <3>1, <3>2, <3>3 DEF PayloadOwned
  <2> QED
    BY <2>2, <2>3
<1>7. ASSUME NEW j \in Id, j > counter PROVE consumed'[j] = 0
  BY <1>1, <1>3, <1>7 DEF Owned, OwnerTypes, Id, IInv, Types
<1>8. ASSUME NEW t \in Session PROVE SessionOwned(t)'
  <2>1. SessionOwned(t) /\ (Numbering(t)' <=> Numbering(t))
    BY <1>3 DEF Owned, Numbering
  <2>2. CASE t = kind[k]
    <3>1. ~Numbering(t)
      BY <1>1, <1>2, <2>1, <2>2 DEF SessionOwned, IInv, Types, Id
    <3> QED
      BY <1>3, <2>1, <2>2, <3>1 DEF SessionOwned, IInv, Types
  <2>3. CASE t # kind[k]
    <3>1. raw'[t] = raw[t]
      BY <1>3, <2>3 DEF IInv, Types
    <3>2. ~Numbering(t) /\ raw[t] # None => raw[t] \in Id /\ raw[t] # k
      BY <2>1, <2>3 DEF SessionOwned, IInv, Types
    <3> QED
      BY <1>3, <2>1, <3>1, <3>2 DEF SessionOwned, IInv, Types
  <2> QED
    BY <2>2, <2>3
<1> QED
  BY <1>3, <1>4, <1>5, <1>6, <1>7, <1>8 DEF Owned

\* The other steps of a thread move no payload.
LEMMA ThreadOwned ==
    ASSUME IInv, OwnerTypes, Owned, NEW k \in Id, Thread(k)
    PROVE  OwnerTypes' /\ Owned'
<1>1. CASE ThreadAnswered(k)
  BY <1>1, TakeOwned DEF ThreadAnswered
<1>2. CASE ThreadTimesOut(k)
  BY <1>2, TakeOwned DEF ThreadTimesOut
<1>3. CASE ThreadWaits(k) \/ ThreadClears(k) \/ ThreadSends(k)
  <2>1. UNCHANGED <<raw, counter, kind, deferred, consumed, restarts>>
    BY <1>3 DEF ThreadWaits, ThreadClears, ThreadSends, ghosts
  <2>2. PICK l \in Locations : /\ pc' = [pc EXCEPT ![k] = l]
                               /\ l \in {"start", "wait"} <=> pc[k] \in {"start", "wait"}
    BY <1>3 DEF ThreadWaits, ThreadClears, ThreadSends, Locations
  <2>3. UNCHANGED msg \/ msg' = [msg EXCEPT ![k] = NoMsg]
    BY <1>3 DEF ThreadWaits, ThreadClears, ThreadSends
  <2>4. OwnerTypes'
    BY <2>1, <2>3 DEF OwnerTypes
  <2>5. \A j \in Id : pc'[j] \in {"start", "wait"} <=> pc[j] \in {"start", "wait"}
    BY <2>2 DEF IInv, Types
  <2>6. ASSUME NEW j \in Id, j <= counter PROVE PayloadOwned(j)'
    BY <2>1, <2>5, <2>6 DEF Owned, PayloadOwned
  <2>7. ASSUME NEW t \in Session PROVE SessionOwned(t)'
    <3>1. SessionOwned(t) /\ (Numbering(t)' <=> Numbering(t))
      BY <2>1 DEF Owned, Numbering
    <3>2. raw[t] # None => raw[t] \in Id
      BY DEF IInv, Types
    <3> QED
      BY <2>1, <2>5, <3>1, <3>2 DEF SessionOwned
  <2>8. ASSUME NEW j \in Id, msg'[j] # NoMsg PROVE msg'[j].of = j
    BY <2>3, <2>8 DEF OwnerTypes, Owned
  <2> QED
    BY <2>1, <2>4, <2>6, <2>7, <2>8 DEF Owned
<1> QED
  BY <1>1, <1>2, <1>3 DEF Thread

\* Every step keeps the owners, until a modem restart.
LEMMA NextOwned == IInv /\ OInv /\ [Next]_vars => OInv'
<1> SUFFICES ASSUME IInv, OInv, [Next]_vars PROVE OInv'
  OBVIOUS
<1>1. Types' /\ FreshId'
  BY NextInv DEF IInv
<1>2. ASSUME OwnerTypes', restarts' = 0 => Owned' PROVE OInv'
  BY <1>1, <1>2 DEF OInv
<1>3. ASSUME UNCHANGED <<raw, kind, pc, counter, deferred, consumed, msg, restarts>>
      PROVE  OInv'
  BY <1>2, <1>3 DEF OInv, OwnerTypes, Owned, PayloadOwned, SessionOwned, Numbering
<1>4. CASE UNCHANGED vars
  BY <1>3, <1>4 DEF vars
<1>5. ASSUME NEW k \in Id, NEW r \in UserResponse, Respond(k, r) PROVE OInv'
  BY <1>3, <1>5 DEF Respond, respondUnchanged, threads
<1>6. CASE RespondLooks \/ RespondSilences
  BY <1>3, <1>6 DEF RespondLooks, RespondSilences, respondUnchanged, threads
<1>7. CASE RespondSets
  BY <1>3, <1>7 DEF RespondSets, respondUnchanged, threads
<1>8. CASE Restart
  BY <1>2, <1>8 DEF Restart, resetUnchanged, threads, OInv, OwnerTypes
<1>9. CASE Reset
  <2>1. restarts # 0
    BY <1>9 DEF Reset, ResetChecks, ResetFrees, ResetWakes, OInv, Owned
  <2>2. UNCHANGED <<restarts, msg>>
    BY <1>9 DEF Reset, ResetChecks, ResetFrees, ResetWakes, resetUnchanged, threads
  <2>3. consumed' \in [Id -> Nat]
    BY <1>9 DEF Reset, ResetChecks, ResetFrees, ResetWakes, OInv, OwnerTypes
  <2> QED
    BY <1>2, <2>1, <2>2, <2>3 DEF OInv, OwnerTypes
<1>10. ASSUME restarts = 0 => OwnerTypes' /\ Owned',
              UNCHANGED restarts, OwnerTypes'
       PROVE  OInv'
  BY <1>2, <1>10
<1>11. ASSUME NEW s \in Session, Request(s) PROVE OInv'
  <2>1. UNCHANGED <<restarts, consumed, msg>>
    BY <1>11 DEF Request, requestUnchanged, ghosts
  <2> QED
    BY <1>10, <1>11, <2>1, RequestOwned DEF OInv, OwnerTypes
<1>12. CASE RequestStarts
  <2>1. UNCHANGED <<restarts, consumed, msg>>
    BY <1>12 DEF RequestStarts, requestUnchanged, ghosts
  <2> QED
    BY <1>10, <1>12, <2>1, RequestStartsOwned DEF OInv, OwnerTypes
<1>13. ASSUME NEW k \in Id, Thread(k) PROVE OInv'
  <2>1. UNCHANGED restarts
    BY <1>13 DEF Thread, ThreadWaits, ThreadAnswered, ThreadTimesOut, ThreadClears,
                 ThreadSends, takeUnchanged, ghosts
  <2>2. consumed' \in [Id -> Nat]
    BY <1>13 DEF Thread, ThreadWaits, ThreadAnswered, ThreadTimesOut, ThreadClears,
                 ThreadSends, Take, ghosts, OInv, OwnerTypes, IInv, Types
  <2>3. msg' = [j \in Id |-> msg'[j]]
    BY <1>13 DEF Thread, ThreadWaits, ThreadAnswered, ThreadTimesOut, ThreadClears,
                 ThreadSends, Take, OInv, OwnerTypes
  <2> QED
    BY <1>10, <1>13, <2>1, <2>2, <2>3, ThreadOwned DEF OInv, OwnerTypes
<1> QED
  BY <1>4, <1>5, <1>6, <1>7, <1>8, <1>9, <1>11, <1>12, <1>13 DEF Next

-----------------------------------------------------------------------------
\* The owners are kept in every reachable state.
THEOREM OwnersHold == Spec => []OInv
<1>1. Init => OInv
  BY TypesKept, OwnedInit DEF OInv
<1>2. Spec => []IInv
  BY InvHolds
<1> QED
  BY <1>1, <1>2, NextOwned, PTL DEF Spec

\* Until a modem restart a payload has exactly one owner.
THEOREM OneOwnerHolds == Spec => []OneOwner
<1>1. OInv => OneOwner
  <2> SUFFICES ASSUME OInv, restarts = 0, NEW k \in 1..counter
               PROVE  consumed[k] + Cardinality({s \in Session : raw[s] = k}) = 1
    BY DEF OneOwner
  <2> DEFINE holders == {s \in Session : raw[s] = k}
  <2>1. Owned /\ Types
    BY DEF OInv
  <2>2. k \in Id /\ k <= counter /\ k # None
    BY <2>1, BoundsAssumption DEF Types, Id, None
  <2>3. PayloadOwned(k) /\ kind[k] \in Session
    BY <2>1, <2>2 DEF Owned, Types
  <2>4. CASE pc[k] \in {"start", "wait"}
    <3>1. raw[kind[k]] = k /\ consumed[k] = 0
      BY <2>3, <2>4 DEF PayloadOwned
    <3>2. ASSUME NEW s \in Session, raw[s] = k PROVE s = kind[k]
      <4>1. SessionOwned(s) /\ SessionOwned(kind[k])
        BY <2>1, <2>3 DEF Owned
      <4>2. ~Numbering(s)
        BY <2>1, <2>2, <3>2, <4>1 DEF SessionOwned, Types
      <4> QED
        BY <2>2, <3>2, <4>1, <4>2 DEF SessionOwned
    <3>3. holders = {kind[k]}
      BY <2>3, <3>1, <3>2
    <3>4. Cardinality({kind[k]}) = 1
      BY FS_Singleton
    <3> QED
      BY <3>1, <3>3, <3>4, SMTT(30)
  <2>5. CASE pc[k] \notin {"start", "wait"}
    <3>1. holders = {} /\ consumed[k] = 1
      BY <2>3, <2>5 DEF PayloadOwned
    <3>2. Cardinality({}) = 0
      BY FS_EmptySet
    <3> QED
      BY <3>1, <3>2
  <2> QED
    BY <2>4, <2>5
<1> QED
  BY <1>1, OwnersHold, PTL

\* Until a modem restart a request is answered by its own thread.
THEOREM OwnThreadHolds == Spec => []OwnThreadSends
<1>1. OInv => OwnThreadSends
  BY DEF OInv, Owned, OwnThreadSends
<1> QED
  BY <1>1, OwnersHold, PTL

-----------------------------------------------------------------------------
(* What a user's answer may be sent for, until the modem restarts.             *)

\* Request k was numbered in session s, and what s holds is not older.
Asked(s, k) ==
    k # None => k <= counter /\ kind[k] = s /\ (raw[s] # None => k <= raw[s])

\* The request that session s names, the one its answer was given to and the one
\* that is being answered were asked in s; and a user's answer was given to one.
SessionAnswers(s) ==
    /\ Asked(s, reqID[s]) /\ Asked(s, meant[s])
    /\ recvd[s] /\ resp[s] \in UserResponse => meant[s] # None
    /\ responding # Idle /\ responding.at # "plain" /\ responding.s = s =>
          Asked(s, responding.id)
    /\ responding # Idle /\ responding.at = "plain" => responding.s = "plain"

\* So it was for the message of thread k.
ThreadAnswers(k) ==
    msg[k].resp \in UserResponse =>
        /\ msg[k].meant \in 1..msg[k].of /\ msg[k].meant <= counter
        /\ k <= counter /\ kind[msg[k].meant] = kind[k]

Answers == (\A s \in Session : SessionAnswers(s)) /\ (\A k \in Id : ThreadAnswers(k))

\* Nobody has answered initially.
LEMMA AnswersInit == Init => Answers
BY DEF Init, Answers, SessionAnswers, ThreadAnswers, Asked, NoMsg, UserResponse,
       Idle, None

\* The types, with the facts about the order of requests that the steps need.
LEMMA AnswerTypes ==
    ASSUME TypeOK
    PROVE  /\ counter \in Nat /\ \A k \in Id : k \in Nat \ {0}
           /\ \A s \in Session : raw[s] \in Nat /\ reqID[s] \in Nat /\ meant[s] \in Nat
<1>1. counter \in Nat /\ \A k \in Id : k \in Nat \ {0}
  BY BoundsAssumption DEF TypeOK, Id
<1>2. Id \cup {0} \subseteq Nat
  BY <1>1
<1> QED
  BY <1>1, <1>2 DEF TypeOK, None

\* A payload that comes in is newer than whatever was answered.
LEMMA RequestAnswers ==
    ASSUME TypeOK, Answers, NEW s \in Session, Request(s)
    PROVE  Answers'
<1>1. /\ raw' = [raw EXCEPT ![s] = counter + 1] /\ Free(s)
      /\ UNCHANGED <<reqID, counter, kind, recvd, resp, msg, responding, meant>>
  BY DEF Request, requestUnchanged, ghosts
<1>2. ASSUME NEW t \in Session, NEW k \in Nat, Asked(t, k) PROVE Asked(t, k)'
  BY <1>1, <1>2, AnswerTypes DEF Asked, TypeOK
<1>3. ASSUME NEW t \in Session PROVE SessionAnswers(t)'
  <2>1. SessionAnswers(t)
    BY DEF Answers
  <2>2. responding # Idle => responding.id \in Nat
    BY AnswerTypes DEF TypeOK, Responding
  <2> QED
    BY <1>1, <1>2, <2>1, <2>2, AnswerTypes DEF SessionAnswers
<1>4. ASSUME NEW k \in Id PROVE ThreadAnswers(k)'
  BY <1>1 DEF Answers, ThreadAnswers
<1> QED
  BY <1>3, <1>4 DEF Answers

\* The request that gets its ID is the one its session holds.
LEMMA RequestStartsAnswers ==
    ASSUME TypeOK, OInv, restarts = 0, Answers, RequestStarts
    PROVE  Answers'
<1>0. deferred # Idle /\ deferred.at = "number"
  BY DEF RequestStarts
<1>1. PICK new \in Id, s \in Session : new = counter + 1 /\ s = deferred.s
  BY <1>0 DEF OInv, FreshId, TypeOK, Handling
<1>2. /\ counter' = new /\ counter \in Nat
      /\ reqID' = [reqID EXCEPT ![s] = new] /\ kind' = [kind EXCEPT ![new] = s]
      /\ UNCHANGED <<raw, recvd, resp, msg, responding, meant>>
  BY <1>1, AnswerTypes DEF RequestStarts, requestUnchanged, ghosts
<1>3. raw[s] = new
  BY <1>0, <1>1 DEF OInv, Owned, SessionOwned, Numbering
<1>4. ASSUME NEW t \in Session, NEW k \in Id \cup {0}, Asked(t, k) PROVE Asked(t, k)'
  BY <1>1, <1>2, <1>4, AnswerTypes DEF Asked, TypeOK, None
<1>5. Asked(s, new)'
  BY <1>1, <1>2, <1>3 DEF Asked, TypeOK
<1>6. ASSUME NEW t \in Session PROVE SessionAnswers(t)'
  <2>1. SessionAnswers(t)
    BY DEF Answers
  <2>2. responding # Idle => responding.id \in Id
    BY DEF TypeOK, Responding
  <2>3. Asked(t, reqID[t])' /\ Asked(t, meant[t])'
    <3>1. reqID[t] \in Id \cup {0} /\ meant[t] \in Id \cup {0}
      BY DEF TypeOK, None
    <3>2. reqID'[t] = IF t = s THEN new ELSE reqID[t]
      BY <1>2 DEF TypeOK
    <3>3. meant' = meant
      BY <1>2
    <3> QED
      BY <1>4, <1>5, <2>1, <3>1, <3>2, <3>3 DEF SessionAnswers
  <2> QED
    BY <1>2, <1>4, <2>1, <2>2, <2>3 DEF SessionAnswers
<1>7. ASSUME NEW k \in Id PROVE ThreadAnswers(k)'
  <2>1. ThreadAnswers(k) /\ msg' = msg /\ msg[k] \in Msg
    BY <1>2 DEF Answers, TypeOK
  <2> SUFFICES ASSUME msg[k].resp \in UserResponse
               PROVE  /\ msg[k].meant \in 1..msg[k].of /\ msg[k].meant <= counter'
                      /\ k <= counter' /\ kind'[msg[k].meant] = kind'[k]
    BY <2>1 DEF ThreadAnswers
  <2>2. msg[k].meant \in Id /\ msg[k].meant <= counter /\ k <= counter
        /\ msg[k].meant \in 1..msg[k].of /\ kind[msg[k].meant] = kind[k]
    BY <2>1 DEF ThreadAnswers, Msg, NoMsg, UserResponse, Id, None
  <2> QED
    BY <1>1, <1>2, <2>2, AnswerTypes DEF TypeOK
<1> QED
  BY <1>6, <1>7 DEF Answers

\* A thread takes the answer of its session, for a payload that is not older
\* than the request the answer was given to.
LEMMA TakeAnswers ==
    ASSUME TypeOK, OInv, Answers, NEW k \in Id, pc[k] \in {"start", "wait"},
           NEW r \in Response, NEW m \in Id \cup {None}, Take(k, r, m), takeUnchanged,
           Asked(kind[k], m), r \in UserResponse => m # None
    PROVE  Answers'
<1> DEFINE s == kind[k]
<1>1. /\ recvd' = [recvd EXCEPT ![s] = FALSE] /\ meant' = [meant EXCEPT ![s] = None]
      /\ UNCHANGED <<reqID, counter, kind, responding>> /\ s \in Session
      /\ resp' = [resp EXCEPT ![s] = r]
  BY DEF Take, takeUnchanged, TypeOK
<1>2. \/ UNCHANGED <<raw, msg>>
      \/ raw[s] # None /\ raw' = [raw EXCEPT ![s] = None] /\ UNCHANGED msg
      \/ /\ raw[s] # None /\ raw' = [raw EXCEPT ![s] = None]
         /\ msg' = [msg EXCEPT ![k] = [of |-> raw[s], resp |-> r, meant |-> m]]
  BY DEF Take
<1>3. k <= counter
  BY DEF OInv, FreshId, Id, TypeOK
<1>4. ASSUME NEW t \in Session, NEW j, Asked(t, j) PROVE Asked(t, j)'
  BY <1>1, <1>2, <1>4 DEF Asked, TypeOK
<1>5. ASSUME NEW t \in Session PROVE SessionAnswers(t)'
  <2>1. SessionAnswers(t)
    BY DEF Answers
  <2>2. Asked(t, meant[t])'
    <3>1. CASE t = s
      BY <1>1, <3>1 DEF Asked, TypeOK
    <3>2. CASE t # s
      <4>1. meant'[t] = meant[t]
        BY <1>1, <3>2 DEF TypeOK
      <4> QED
        BY <1>4, <2>1, <4>1 DEF SessionAnswers
    <3> QED
      BY <3>1, <3>2
  <2>3. recvd'[t] /\ resp'[t] \in UserResponse => meant'[t] # None
    BY <1>1, <2>1 DEF SessionAnswers, TypeOK
  <2> QED
    BY <1>1, <1>4, <2>1, <2>2, <2>3 DEF SessionAnswers
<1>6. ASSUME NEW j \in Id PROVE ThreadAnswers(j)'
  <2>1. ThreadAnswers(j)
    BY DEF Answers
  <2>2. CASE msg'[j] = msg[j]
    BY <1>1, <2>1, <2>2 DEF ThreadAnswers
  <2>3. CASE msg'[j] # msg[j]
    <3>1. /\ j = k /\ raw[s] # None
          /\ msg'[j] = [of |-> raw[s], resp |-> r, meant |-> m]
      BY <1>2, <2>3 DEF TypeOK
    <3> SUFFICES ASSUME r \in UserResponse
                 PROVE  /\ m \in 1..raw[s] /\ m <= counter /\ k <= counter
                        /\ kind[m] = kind[k]
      BY <1>1, <3>1 DEF ThreadAnswers
    <3>2. m # None /\ m \in Id
      OBVIOUS
    <3> QED
      BY <1>1, <1>3, <3>1, <3>2, AnswerTypes DEF Asked, Id
  <2> QED
    BY <2>2, <2>3
<1> QED
  BY <1>5, <1>6 DEF Answers

\* The steps of an NI thread.
LEMMA ThreadStepAnswers ==
    ASSUME TypeOK, OInv, Answers, NEW k \in Id, Thread(k)
    PROVE  Answers'
<1>0. kind[k] \in Session /\ SessionAnswers(kind[k])
  BY DEF Answers, TypeOK
<1>1. CASE ThreadAnswered(k)
  <2>1. /\ pc[k] \in {"start", "wait"} /\ recvd[kind[k]] /\ takeUnchanged
        /\ Take(k, resp[kind[k]], meant[kind[k]])
        /\ resp[kind[k]] \in Response /\ meant[kind[k]] \in Id \cup {None}
    BY <1>0, <1>1 DEF ThreadAnswered, TypeOK
  <2> QED
    BY <1>0, <2>1, TakeAnswers DEF SessionAnswers
<1>2. CASE ThreadTimesOut(k)
  <2>1. /\ pc[k] \in {"start", "wait"} /\ takeUnchanged /\ Take(k, "noresp", None)
        /\ "noresp" \in Response /\ "noresp" \notin UserResponse /\ Asked(kind[k], None)
    BY <1>2 DEF ThreadTimesOut, Response, UserResponse, Asked
  <2> QED
    BY <2>1, TakeAnswers
<1>3. CASE ThreadWaits(k)
  BY <1>3 DEF ThreadWaits, ghosts, Answers, SessionAnswers, ThreadAnswers, Asked
<1>4. CASE ThreadClears(k)
  <2>1. /\ reqID' = [reqID EXCEPT ![kind[k]] = 0]
        /\ UNCHANGED <<raw, recvd, resp, counter, kind, msg, responding, meant>>
    BY <1>4 DEF ThreadClears, ghosts
  <2>2. ASSUME NEW s \in Session PROVE Asked(s, reqID[s])'
    BY <1>0, <2>1 DEF Answers, SessionAnswers, Asked, TypeOK, None
  <2> QED
    BY <2>1, <2>2 DEF Answers, SessionAnswers, ThreadAnswers, Asked
<1>5. CASE ThreadSends(k)
  <2>1. /\ msg' = [msg EXCEPT ![k] = NoMsg]
        /\ UNCHANGED <<raw, reqID, recvd, resp, counter, kind, responding, meant>>
    BY <1>5 DEF ThreadSends, ghosts
  <2>2. ASSUME NEW j \in Id PROVE ThreadAnswers(j)'
    BY <2>1 DEF Answers, ThreadAnswers, NoMsg, UserResponse, TypeOK
  <2> QED
    BY <2>1, <2>2 DEF Answers, SessionAnswers, Asked
<1> QED
  BY <1>1, <1>2, <1>3, <1>4, <1>5 DEF Thread

\* The framework's thread answers a request that it found in its session.
LEMMA RespondAnswers ==
    ASSUME TypeOK, Answers,
           \/ \E k \in Id, r \in UserResponse : Respond(k, r)
           \/ RespondLooks \/ RespondSilences \/ RespondSets
    PROVE  Answers'
<1>1. /\ UNCHANGED <<raw, reqID, counter, kind, msg>>
      /\ \A k \in Id : ThreadAnswers(k)'
  BY DEF Respond, RespondLooks, RespondSilences, RespondSets, respondUnchanged, threads, Answers,
         ThreadAnswers
<1>2. ASSUME NEW s, NEW k, Asked(s, k) PROVE Asked(s, k)'
  BY <1>1, <1>2 DEF Asked
<1>3. ASSUME NEW k \in Id, NEW r \in UserResponse, Respond(k, r), NEW s \in Session
      PROVE  SessionAnswers(s)'
  <2>1. UNCHANGED <<recvd, resp, meant>>
    BY <1>3 DEF Respond
  <2>2. \/ Asked("es", k) /\ responding' = [at |-> "found", s |-> "es", resp |-> r, id |-> k]
        \/ responding' = [at |-> "plain", s |-> "plain", resp |-> r, id |-> k]
    <3>1. Has("es", k) => Asked("es", k)
      BY DEF Has, Answers, SessionAnswers, Session
    <3> QED
      BY <1>3, <3>1 DEF Respond
  <2>3. responding' # Idle /\ responding'.at # "plain" /\ responding'.s = s =>
          Asked(s, responding.id)'
    BY <1>2, <2>2
  <2>4. SessionAnswers(s)
    BY DEF Answers
  <2>5. responding' # Idle /\ responding'.at = "plain" => responding'.s = "plain"
    BY <2>2
  <2> QED
    BY <1>1, <1>2, <2>1, <2>3, <2>4, <2>5 DEF SessionAnswers
<1>6. ASSUME RespondLooks, NEW s \in Session PROVE SessionAnswers(s)'
  <2>1. UNCHANGED <<recvd, resp, meant>> /\ responding # Idle /\ SessionAnswers(s)
    BY <1>6 DEF RespondLooks, Answers
  <2>2. responding' # Idle =>
           /\ responding'.s = responding.s /\ responding'.id = responding.id
           /\ responding'.at # "plain"
           /\ responding.at = "plain" => Has("plain", responding.id)
    BY <1>6, <2>1 DEF RespondLooks, TypeOK, Responding
  <2>3. Has("plain", responding.id) => Asked("plain", responding.id)
    BY DEF Has, Answers, SessionAnswers, Session
  <2>4. responding' # Idle /\ responding'.s = s => Asked(s, responding.id)'
    BY <1>2, <2>1, <2>2, <2>3 DEF SessionAnswers
  <2> QED
    BY <1>1, <1>2, <2>1, <2>2, <2>4 DEF SessionAnswers
<1>4. ASSUME RespondSilences, NEW s \in Session PROVE SessionAnswers(s)'
  <2>1. /\ resp' = [resp EXCEPT !["plain"] = "ignore"]
        /\ meant' = [meant EXCEPT !["plain"] = None]
        /\ recvd' = [recvd EXCEPT !["plain"] = TRUE]
        /\ responding # Idle /\ responding' = [responding EXCEPT !.at = "set"]
        /\ responding.at = "silence"
    BY <1>4 DEF RespondSilences
  <2>2. /\ responding'.s = responding.s /\ responding'.id = responding.id
        /\ responding'.at = "set"
    BY <2>1 DEF TypeOK, Responding
  <2>3. SessionAnswers(s)
    BY DEF Answers
  <2>4. responding' # Idle /\ responding'.s = s => Asked(s, responding.id)'
    BY <1>2, <1>4, <2>1, <2>2, <2>3 DEF SessionAnswers, RespondSilences
  <2>5. CASE s = "plain"
    <3>1. meant'[s] = None /\ resp'[s] = "ignore" /\ "ignore" \notin UserResponse
      BY <2>1, <2>5 DEF TypeOK, UserResponse
    <3> QED
      BY <1>1, <1>2, <2>2, <2>3, <2>4, <3>1 DEF SessionAnswers, Asked
  <2>6. CASE s # "plain"
    <3>1. meant'[s] = meant[s] /\ resp'[s] = resp[s] /\ recvd'[s] = recvd[s]
      BY <2>1, <2>6 DEF TypeOK
    <3> QED
      BY <1>1, <1>2, <2>2, <2>3, <2>4, <3>1 DEF SessionAnswers
  <2> QED
    BY <2>5, <2>6
<1>5. ASSUME RespondSets, NEW s \in Session PROVE SessionAnswers(s)'
  <2>1. /\ resp' = [resp EXCEPT ![responding.s] = responding.resp]
        /\ meant' = [meant EXCEPT ![responding.s] = responding.id]
        /\ recvd' = [recvd EXCEPT ![responding.s] = TRUE]
        /\ responding # Idle /\ responding' = Idle
    BY <1>5 DEF RespondSets
  <2>2. responding.s \in Session /\ responding.id \in Id /\ responding.id # None
    BY <2>1, AnswerTypes DEF TypeOK, Responding, None
  <2>3. SessionAnswers(s)
    BY DEF Answers
  <2>4. CASE s = responding.s
    <3>1. meant'[s] = responding.id /\ Asked(s, responding.id)
      BY <1>5, <2>1, <2>2, <2>3, <2>4 DEF RespondSets, SessionAnswers, TypeOK
    <3>2. Asked(s, meant[s])'
      BY <1>2, <3>1
    <3> QED
      BY <1>1, <1>2, <2>1, <2>2, <2>3, <3>1, <3>2 DEF SessionAnswers
  <2>5. CASE s # responding.s
    <3>1. meant'[s] = meant[s] /\ resp'[s] = resp[s] /\ recvd'[s] = recvd[s]
      BY <2>1, <2>5 DEF TypeOK
    <3> QED
      BY <1>1, <1>2, <2>1, <2>3, <3>1 DEF SessionAnswers
  <2> QED
    BY <2>4, <2>5
<1> QED
  BY <1>1, <1>3, <1>4, <1>5, <1>6 DEF Answers

\* Every step keeps the answers in their place, as long as no modem restarts.
LEMMA NextAnswers ==
    TypeOK /\ OInv /\ (restarts = 0 => Answers) /\ [Next]_vars => (restarts = 0 => Answers)'
<1> SUFFICES ASSUME TypeOK, OInv, restarts = 0 => Answers, [Next]_vars, restarts' = 0
             PROVE  Answers'
  OBVIOUS
<1>1. ~Restart
  BY DEF Restart, TypeOK
<1>2. restarts = 0
  BY <1>1 DEF Next, Request, RequestStarts, Thread, ThreadWaits, ThreadAnswered,
              ThreadTimesOut, ThreadClears, ThreadSends, takeUnchanged, Respond,
              RespondLooks, RespondSilences, RespondSets, respondUnchanged, requestUnchanged, Reset,
              ResetChecks, ResetFrees, ResetWakes, resetUnchanged, ghosts, vars
<1>3. ~Reset
  BY <1>2 DEF Reset, ResetChecks, ResetFrees, ResetWakes, OInv, Owned
<1>4. CASE UNCHANGED vars
  BY <1>2, <1>4 DEF vars, Answers, SessionAnswers, ThreadAnswers, Asked
<1> QED
  BY <1>1, <1>2, <1>3, <1>4, RequestAnswers, RequestStartsAnswers, ThreadStepAnswers,
     RespondAnswers DEF Next

\* Until a modem restart nobody answers in the user's place: what a thread sends as
\* the user's answer was given to that request or to an earlier one of its session.
THEOREM AnswerWasGivenHolds == Spec => []AnswerWasGiven
<1>1. Init => (restarts = 0 => Answers)
  BY AnswersInit
<1>2. (restarts = 0 => Answers) => AnswerWasGiven
  BY DEF Answers, ThreadAnswers, AnswerWasGiven
<1> QED
  BY <1>1, <1>2, NextAnswers, OwnersHold, TypeCorrect, PTL DEF Spec
=============================================================================
