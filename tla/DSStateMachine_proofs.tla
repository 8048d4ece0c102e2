------------------------ MODULE DSStateMachine_proofs ------------------------
(* Safety of DSStateMachine, for any clients and any number of retries.       *)
EXTENDS DSStateMachine, SequenceTheorems, TLAPS

\* A machine that has, or waits for, the connection has an active subscriber.
LeasedHasUser == state \in {"Pending", "Acquired"} => active # <<>>

\* CallCanEnd is not inductive: it must also be known that a leased machine
\* has a user when no call runs, and that only active clients are listed when
\* the next request finds the machine Released.
IInv ==
    /\ TypeOK
    /\ CallCanEnd
    /\ LeasedHasUser
    /\ InactiveAwaitsClose
    /\ RetriesBounded

\* The part of the invariant that speaks of the machine, not of the senders.
MachineInv ==
    /\ state \in States /\ active \in Seq(Client)
    /\ inactive \in SUBSET Client /\ retries \in Nat /\ timers \in Nat
    /\ call \in BOOLEAN /\ told \in [Client -> Answers]
    /\ CallCanEnd /\ LeasedHasUser /\ InactiveAwaitsClose /\ RetriesBounded

-----------------------------------------------------------------------------
(* The list.                                                                *)

\* Taking a client off a list of clients leaves a list of clients.
LEMMA WithoutType ==
    ASSUME NEW s \in Seq(Client), NEW c \in Client
    PROVE  Without(s, c) \in Seq(Client)
<1>1. CASE \E i \in DOMAIN s : s[i] = c
  <2> DEFINE k == CHOOSE i \in DOMAIN s : s[i] = c
  <2>1. k \in 1..Len(s)
    BY <1>1
  <2>2. Without(s, c) = SubSeq(s, 1, k - 1) \o SubSeq(s, k + 1, Len(s))
    BY <1>1 DEF Without
  <2> HIDE DEF k
  <2>3. SubSeq(s, 1, k - 1) \in Seq(Client)
    BY <2>1
  <2>4. SubSeq(s, k + 1, Len(s)) \in Seq(Client)
    BY <2>1
  <2> QED
    BY <2>2, <2>3, <2>4
<1>2. CASE ~ \E i \in DOMAIN s : s[i] = c
  BY <1>2 DEF Without
<1> QED
  BY <1>1, <1>2

\* Adding a client to the list gives a list of clients, which is not empty if
\* there was an active client or no inactive one.
LEMMA AddedType ==
    ASSUME TypeOK, NEW c \in Client
    PROVE  /\ Added(c) \in Seq(Client)
           /\ active # <<>> \/ inactive = {} => Added(c) # <<>>
<1>1. active \in Seq(Client)
  BY DEF TypeOK
<1>2. CASE c \in Listed
  <2>1. Added(c) = active
    BY <1>2 DEF Added
  <2>2. ASSUME inactive = {} PROVE active # <<>>
    BY <1>2, <2>2, <1>1 DEF Listed, ActiveSet
  <2> QED
    BY <1>1, <2>1, <2>2
<1>3. CASE c \notin Listed
  <2>1. Added(c) = <<c>> \o active
    BY <1>3 DEF Added
  <2>2. <<c>> \in Seq(Client) /\ Len(<<c>> \o active) = Len(active) + 1
    BY <1>1
  <2> QED
    BY <1>1, <2>1, <2>2
<1> QED
  BY <1>2, <1>3

\* The answers stay answers, whatever is told to whom.
LEMMA TellType ==
    ASSUME TypeOK, NEW S, NEW what \in Answers, Tell(S, what)
    PROVE  told' \in [Client -> Answers]
BY DEF TypeOK, Tell

\* A request for the data call keeps the types, and the counter its bound.
LEMMA StartDataCallType ==
    ASSUME TypeOK, RetriesBounded,
           NEW res \in Results, NEW users \in Seq(Client),
           NEW before \in [Client -> Answers],
           StartDataCall(res, users, before)
    PROVE  /\ retries' \in Nat /\ RetriesBounded'
           /\ timers' \in Nat /\ call' \in BOOLEAN
           /\ told' \in [Client -> Answers]
<1>1. retries' \in Nat /\ retries' <= MaxRetries
  BY BoundsAssumption
     DEF TypeOK, RetriesBounded, StartDataCall, Counted, GivesUp
<1>2. timers' \in Nat
  BY DEF TypeOK, StartDataCall
<1>3. call' \in BOOLEAN
  BY DEF StartDataCall
<1>4. told' \in [Client -> Answers]
  <2>1. CASE GivesUp(res) /\ users # <<>>
    <3>1. told' = [before EXCEPT ![Head(users)] = "fallback"]
      BY <2>1 DEF StartDataCall
    <3> QED
      BY <3>1 DEF Answers
  <2>2. CASE ~(GivesUp(res) /\ users # <<>>)
    BY <2>2 DEF StartDataCall
  <2> QED
    BY <2>1, <2>2
<1> QED
  BY <1>1, <1>2, <1>3, <1>4 DEF RetriesBounded

-----------------------------------------------------------------------------
\* The invariant holds initially.
LEMMA InitInv == Init => IInv
<1> SUFFICES ASSUME Init PROVE IInv
  OBVIOUS
<1>1. active \in Seq(Client) /\ inactive \in SUBSET Client
  BY DEF Init
<1>2. queued \in [Client -> Nat] /\ told \in [Client -> Answers]
  BY DEF Init, Answers
<1>3. TypeOK
  BY <1>1, <1>2 DEF Init, TypeOK, States
<1> QED
  BY <1>3, BoundsAssumption
     DEF Init, IInv, CallCanEnd, LeasedHasUser, InactiveAwaitsClose,
         RetriesBounded

\* A subscription, by a client or by a timer, keeps the machine's invariant.
LEMMA SubscribeInv ==
    ASSUME IInv, NEW c \in Client, NEW asked \in [Client -> Answers],
           Subscribe(c, asked)
    PROVE  MachineInv'
<1> USE DEF IInv, MachineInv
<1>1. active' = Added(c) /\ active' \in Seq(Client)
  BY AddedType
     DEF Subscribe, SubscribeReleased, SubscribeQueued, SubscribeAcquired
<1>2. CASE SubscribeReleased(c, asked)
  <2>1. PICK res \in Results :
          /\ StartDataCall(res, active', asked)
          /\ state' = IF res = "success" THEN "Pending" ELSE state
    BY <1>2 DEF SubscribeReleased
  <2>2. state = "Released" /\ inactive' = inactive /\ inactive = {}
    BY <1>2 DEF SubscribeReleased, InactiveAwaitsClose
  <2>3. active' # <<>>
    BY <1>1, <2>2, AddedType
  <2>4. /\ retries' \in Nat /\ RetriesBounded' /\ timers' \in Nat
        /\ call' \in BOOLEAN /\ told' \in [Client -> Answers]
    BY <1>1, <2>1, StartDataCallType
  <2>5. call' => res = "success"
    BY <2>1, <2>2 DEF StartDataCall, CallCanEnd
  <2> QED
    BY <1>1, <2>1, <2>2, <2>3, <2>4, <2>5
       DEF CallCanEnd, LeasedHasUser, InactiveAwaitsClose, States
<1>3. CASE SubscribeQueued(c, asked)
  <2>1. active # <<>> => active' # <<>>
    BY <1>1, AddedType
  <2> QED
    BY <1>1, <1>3, <2>1
       DEF SubscribeQueued, TypeOK, CallCanEnd, LeasedHasUser,
           InactiveAwaitsClose, RetriesBounded
<1>4. CASE SubscribeAcquired(c, asked)
  <2>1. told' \in [Client -> Answers]
    BY <1>4 DEF SubscribeAcquired, Answers
  <2> QED
    BY <1>1, <1>4, <2>1, AddedType
       DEF SubscribeAcquired, TypeOK, CallCanEnd, LeasedHasUser,
           InactiveAwaitsClose, RetriesBounded
<1> QED
  BY <1>2, <1>3, <1>4 DEF Subscribe

-----------------------------------------------------------------------------
\* Every step keeps the invariant.
LEMMA NextInv == IInv /\ [Next]_vars => IInv'
<1> SUFFICES ASSUME IInv, [Next]_vars PROVE IInv'
  OBVIOUS
<1> USE DEF IInv
<1>1. ASSUME NEW c \in Client, RequestSuplES(c) PROVE IInv'
  <2> DEFINE asked == [told EXCEPT ![c] = "asked"]
  <2>1. asked \in [Client -> Answers]
    BY DEF TypeOK, Answers
  <2>2. Subscribe(c, asked) /\ requests' \in Nat /\ queued' \in [Client -> Nat]
    BY <1>1 DEF RequestSuplES, TypeOK
  <2> HIDE DEF asked
  <2>3. MachineInv'
    BY <2>1, <2>2, SubscribeInv
  <2> QED
    BY <2>2, <2>3 DEF MachineInv, TypeOK
<1>2. ASSUME NEW c \in Client, RetrySuplES(c) PROVE IInv'
  <2>1. told \in [Client -> Answers] /\ queued' \in [Client -> Nat]
    BY <1>2 DEF RetrySuplES, TypeOK
  <2>2. Subscribe(c, told) /\ requests' \in Nat
    BY <1>2 DEF RetrySuplES, TypeOK
  <2>3. MachineInv'
    BY <2>1, <2>2, SubscribeInv
  <2> QED
    BY <2>1, <2>2, <2>3 DEF MachineInv, TypeOK
<1>3. CASE TimerFires
  <2>1. queued' \in [Client -> Nat]
    BY <1>3 DEF TimerFires, TypeOK
  <2> QED
    BY <1>3, <2>1
       DEF TimerFires, TypeOK, CallCanEnd, LeasedHasUser, InactiveAwaitsClose,
           RetriesBounded
<1>4. ASSUME NEW c \in Client, ReleaseATL(c) PROVE IInv'
  <2>1. told' \in [Client -> Answers]
    BY <1>4, TellType
       DEF ReleaseATL, UnsubscribeReleased, UnsubscribeLeased, Answers
  <2>2. CASE UnsubscribeReleased(c)
    BY <1>4, <2>1, <2>2
       DEF ReleaseATL, UnsubscribeReleased, TypeOK, CallCanEnd, LeasedHasUser,
           InactiveAwaitsClose, RetriesBounded
  <2>3. CASE UnsubscribeLeased(c)
    <3>1. active' \in Seq(Client) /\ inactive' \in SUBSET Client
      BY <2>3, WithoutType DEF UnsubscribeLeased, TypeOK
    <3> QED
      BY <1>4, <2>1, <2>3, <3>1
         DEF ReleaseATL, UnsubscribeLeased, StopDataCall, TypeOK, States,
             CallCanEnd, LeasedHasUser, InactiveAwaitsClose, RetriesBounded
  <2> QED
    BY <1>4, <2>2, <2>3 DEF ReleaseATL
<1>5. CASE SuplEsOpened
  <2>1. told' \in [Client -> Answers]
    BY <1>5, TellType DEF SuplEsOpened, Answers
  <2> QED
    BY <1>5, <2>1
       DEF SuplEsOpened, TypeOK, States, CallCanEnd, LeasedHasUser,
           InactiveAwaitsClose, RetriesBounded
<1>6. CASE ClosedPending
  <2>1. told' \in [Client -> Answers]
    BY <1>6, TellType DEF ClosedPending, Answers
  <2>2. active' \in Seq(Client) /\ inactive' \in SUBSET Client
    BY <1>6 DEF ClosedPending
  <2>3. retries' \in Nat /\ RetriesBounded'
    BY <1>6, BoundsAssumption DEF ClosedPending, TypeOK, RetriesBounded
  <2>4. /\ state' = "Released" /\ call' = FALSE /\ inactive' = {}
        /\ UNCHANGED <<timers, queued, requests>>
    BY <1>6 DEF ClosedPending
  <2> QED
    BY <2>1, <2>2, <2>3, <2>4
       DEF TypeOK, States, CallCanEnd, LeasedHasUser, InactiveAwaitsClose
<1>7. CASE ClosedAcquired
  <2>1. told' \in [Client -> Answers]
    BY <1>7, TellType DEF ClosedAcquired, Answers
  <2>2. active' \in Seq(Client) /\ inactive' \in SUBSET Client
    BY <1>7 DEF ClosedAcquired
  <2> QED
    BY <1>7, <2>1, <2>2
       DEF ClosedAcquired, TypeOK, States, CallCanEnd, LeasedHasUser,
           InactiveAwaitsClose, RetriesBounded
<1>8. CASE ClosedReleasing
  <2> DEFINE ended ==
        [c \in Client |-> IF c \in inactive THEN "ended" ELSE told[c]]
  <2>1. ended \in [Client -> Answers]
    BY DEF TypeOK, Answers
  <2> HIDE DEF ended
  <2>2. CASE active = <<>>
    <3>1. state' = "Released" /\ told' = ended
      BY <1>8, <2>2 DEF ClosedReleasing, ended
    <3> QED
      BY <1>8, <2>1, <2>2, <3>1
         DEF ClosedReleasing, TypeOK, States, CallCanEnd, LeasedHasUser,
             InactiveAwaitsClose, RetriesBounded
  <2>3. CASE active # <<>>
    <3>1. /\ state' = "Pending"
          /\ \E res \in Results : StartDataCall(res, active, ended)
      BY <1>8, <2>3 DEF ClosedReleasing, ended
    <3>2. /\ retries' \in Nat /\ RetriesBounded' /\ timers' \in Nat
          /\ call' \in BOOLEAN /\ told' \in [Client -> Answers]
      BY <2>1, <3>1, StartDataCallType DEF TypeOK
    <3> QED
      BY <1>8, <2>3, <3>1, <3>2
         DEF ClosedReleasing, TypeOK, States, CallCanEnd, LeasedHasUser,
             InactiveAwaitsClose
  <2> QED
    BY <2>2, <2>3
<1>9. CASE UNCHANGED vars
  BY <1>9
     DEF vars, TypeOK, CallCanEnd, LeasedHasUser, InactiveAwaitsClose,
         RetriesBounded, ActiveSet
<1> QED
  BY <1>1, <1>2, <1>3, <1>4, <1>5, <1>6, <1>7, <1>8, <1>9 DEF Next, Retry

-----------------------------------------------------------------------------
\* The invariant holds in every reachable state.
THEOREM InvHolds == Spec => []IInv
BY InitInv, NextInv, PTL DEF Spec

\* The variables keep their types.
THEOREM TypeCorrect == Spec => []TypeOK
<1>1. IInv => TypeOK
  BY DEF IInv
<1> QED
  BY <1>1, InvHolds, PTL

\* A data call runs only in a Pending or Acquired machine with an active
\* subscriber on its list, wanted or not, whose release stops it: for any
\* clients, retries and busy engines.
THEOREM CallHolds == Spec => []CallCanEnd
<1>1. IInv => CallCanEnd
  BY DEF IInv
<1> QED
  BY <1>1, InvHolds, PTL

\* No client waits for a close in a Released machine.
THEOREM InactiveHolds == Spec => []InactiveAwaitsClose
<1>1. IInv => InactiveAwaitsClose
  BY DEF IInv
<1> QED
  BY <1>1, InvHolds, PTL

\* The counter of retries never passes MaxRetries.
THEOREM RetriesHolds == Spec => []RetriesBounded
<1>1. IInv => RetriesBounded
  BY DEF IInv
<1> QED
  BY <1>1, InvHolds, PTL

-----------------------------------------------------------------------------
(* The list has each client once.                                           *)

Distinct(s) == \A i, j \in DOMAIN s : s[i] = s[j] => i = j
Members(s) == {s[i] : i \in DOMAIN s}

\* A client that is not listed can be put in front.
LEMMA AddedOnce ==
    ASSUME TypeOK, ListedOnce, NEW c \in Client
    PROVE  /\ Distinct(Added(c))
           /\ Members(Added(c)) \cap inactive = {}
<1>1. active \in Seq(Client) /\ Distinct(active) /\ Members(active) \cap inactive = {}
  BY DEF TypeOK, ListedOnce, Distinct, Members, ActiveSet
<1>2. CASE c \in Listed
  BY <1>1, <1>2 DEF Added
<1>3. CASE c \notin Listed
  <2>1. Added(c) = <<c>> \o active
    BY <1>3 DEF Added
  <2>2. /\ Len(Added(c)) = Len(active) + 1
        /\ Added(c)[1] = c
        /\ \A i \in 2..(Len(active) + 1) : Added(c)[i] = active[i - 1]
        /\ DOMAIN Added(c) = 1..(Len(active) + 1)
    BY <1>1, <2>1
  <2>3. \A i \in DOMAIN active : active[i] # c
    BY <1>3 DEF Listed, ActiveSet
  <2>4. \A i \in 2..(Len(active) + 1) : i - 1 \in DOMAIN active
    BY <1>1
  <2>5. Distinct(Added(c))
    BY <1>1, <2>2, <2>3, <2>4 DEF Distinct
  <2>6. c \notin inactive
    BY <1>3 DEF Listed
  <2>7. Members(Added(c)) \cap inactive = {}
    BY <1>1, <2>2, <2>4, <2>6 DEF Members
  <2> QED
    BY <2>5, <2>7
<1> QED
  BY <1>2, <1>3

\* Taking a client off the list leaves the others once, and not that client.
LEMMA WithoutOnce ==
    ASSUME NEW s \in Seq(Client), NEW c \in Client, Distinct(s)
    PROVE  /\ Distinct(Without(s, c))
           /\ Members(Without(s, c)) \subseteq Members(s) \ {c}
<1>1. CASE \E i \in DOMAIN s : s[i] = c
  <2> DEFINE k == CHOOSE i \in DOMAIN s : s[i] = c
             before == SubSeq(s, 1, k - 1)
             after == SubSeq(s, k + 1, Len(s))
             t == before \o after
  <2>1. k \in 1..Len(s) /\ s[k] = c
    BY <1>1
  <2>2. Without(s, c) = t
    BY <1>1 DEF Without
  <2> HIDE DEF k
  <2>3. /\ before \in Seq(Client) /\ Len(before) = k - 1
        /\ \A i \in 1..(k - 1) : before[i] = s[i]
    <3>1. 1 \in Int /\ k - 1 \in Int /\ \A i \in 1..(k - 1) : s[i] \in Client
      BY <2>1
    <3>2. /\ before \in Seq(Client)
          /\ Len(before) = IF 1 <= k - 1 THEN (k - 1) - 1 + 1 ELSE 0
          /\ \A i \in 1..((k - 1) - 1 + 1) : before[i] = s[1 + i - 1]
      BY ONLY <3>1, SubSeqProperties
    <3> HIDE DEF before
    <3> QED
      BY <2>1, <3>2
  <2>4. /\ after \in Seq(Client) /\ Len(after) = Len(s) - k
        /\ \A i \in 1..(Len(s) - k) : after[i] = s[k + i]
    <3>1. k + 1 \in Int /\ Len(s) \in Int /\ \A i \in (k + 1)..Len(s) : s[i] \in Client
      BY <2>1
    <3>2. /\ after \in Seq(Client)
          /\ Len(after) = IF k + 1 <= Len(s) THEN Len(s) - (k + 1) + 1 ELSE 0
          /\ \A i \in 1..(Len(s) - (k + 1) + 1) : after[i] = s[(k + 1) + i - 1]
      BY ONLY <3>1, SubSeqProperties
    <3> HIDE DEF after
    <3> QED
      BY <2>1, <3>2
  <2> HIDE DEF before, after
  <2>5. /\ t \in Seq(Client) /\ Len(t) = Len(s) - 1 /\ DOMAIN t = 1..(Len(s) - 1)
        /\ \A i \in 1..(Len(s) - 1) : t[i] = IF i <= k - 1 THEN before[i]
                                                           ELSE after[i - (k - 1)]
    <3>1. /\ t \in Seq(Client) /\ Len(t) = Len(before) + Len(after)
          /\ \A i \in 1..(Len(before) + Len(after)) :
               t[i] = IF i <= Len(before) THEN before[i] ELSE after[i - Len(before)]
      BY <2>3, <2>4, ConcatProperties
    <3> HIDE DEF t
    <3>2. Len(before) + Len(after) = Len(s) - 1 /\ Len(before) = k - 1
      BY <2>1, <2>3, <2>4
    <3>3. DOMAIN t = 1..Len(t)
      BY <3>1
    <3> QED
      BY <3>1, <3>2, <3>3
  <2> HIDE DEF t
  <2>6. \A i \in 1..(k - 1) : t[i] = s[i]
    BY <2>1, <2>3, <2>5
  <2>7. \A i \in k..(Len(s) - 1) : t[i] = s[i + 1]
    <3> SUFFICES ASSUME NEW i \in k..(Len(s) - 1) PROVE t[i] = s[i + 1]
      OBVIOUS
    <3>1. t[i] = after[i - (k - 1)]
      BY <2>1, <2>5
    <3>2. i - (k - 1) \in 1..(Len(s) - k) /\ k + (i - (k - 1)) = i + 1
      BY <2>1
    <3> QED
      BY <2>4, <3>1, <3>2
  <2>8. Distinct(t)
    <3> DEFINE place(i) == IF i < k THEN i ELSE i + 1
    <3>1. ASSUME NEW i \in 1..(Len(s) - 1)
          PROVE  place(i) \in DOMAIN s /\ t[i] = s[place(i)]
      BY <2>1, <2>6, <2>7
    <3>2. ASSUME NEW i \in 1..(Len(s) - 1), NEW j \in 1..(Len(s) - 1),
                 place(i) = place(j)
          PROVE  i = j
      BY <2>1, <3>2
    <3> HIDE DEF place
    <3> QED
      BY <2>5, <3>1, <3>2 DEF Distinct
  <2>9. Members(t) \subseteq Members(s) \ {c}
    <3> SUFFICES ASSUME NEW i \in 1..(Len(s) - 1)
                 PROVE  t[i] \in Members(s) /\ t[i] # c
      BY <2>5 DEF Members
    <3>1. CASE i \in 1..(k - 1)
      BY <2>1, <2>6, <3>1 DEF Distinct, Members
    <3>2. CASE i \in k..(Len(s) - 1)
      <4>1. i + 1 \in DOMAIN s /\ i + 1 # k /\ k \in DOMAIN s
        BY <2>1, <3>2
      <4> QED
        BY <2>1, <2>7, <3>2, <4>1 DEF Distinct, Members
    <3> QED
      BY <2>1, <3>1, <3>2
  <2> QED
    BY <2>2, <2>8, <2>9
<1>2. CASE ~ \E i \in DOMAIN s : s[i] = c
  BY <1>2 DEF Without, Members
<1> QED
  BY <1>1, <1>2

\* A subscription lists its client at most once.
LEMMA SubscribeOnce ==
    ASSUME TypeOK, ListedOnce, NEW c \in Client, NEW asked, Subscribe(c, asked)
    PROVE  ListedOnce'
<1>1. active' = Added(c) /\ UNCHANGED inactive
  BY DEF Subscribe, SubscribeReleased, SubscribeQueued, SubscribeAcquired
<1> QED
  BY <1>1, AddedOnce DEF ListedOnce, ActiveSet, Distinct, Members

\* Every step keeps the list free of repetitions.
LEMMA NextOnce == TypeOK /\ ListedOnce /\ [Next]_vars => ListedOnce'
<1> SUFFICES ASSUME TypeOK, ListedOnce, [Next]_vars PROVE ListedOnce'
  OBVIOUS
<1>1. ASSUME UNCHANGED <<active, inactive>> PROVE ListedOnce'
  BY <1>1 DEF ListedOnce, ActiveSet
<1>2. ASSUME NEW c \in Client, RequestSuplES(c) \/ RetrySuplES(c) PROVE ListedOnce'
  BY <1>2, SubscribeOnce DEF RequestSuplES, RetrySuplES
<1>3. ASSUME NEW c \in Client, ReleaseATL(c) PROVE ListedOnce'
  <2>1. CASE UnsubscribeReleased(c)
    BY <1>1, <2>1 DEF UnsubscribeReleased
  <2>2. CASE UnsubscribeLeased(c)
    <3>1. active' = Without(active, c) /\ inactive' = inactive \cup {c}
      BY <2>2 DEF UnsubscribeLeased
    <3>2. active \in Seq(Client) /\ Distinct(active) /\ Members(active) \cap inactive = {}
      BY DEF TypeOK, ListedOnce, ActiveSet, Distinct, Members
    <3>3. Distinct(active') /\ Members(active') \cap inactive' = {}
      BY <3>1, <3>2, WithoutOnce
    <3> QED
      BY <3>3 DEF ListedOnce, ActiveSet, Distinct, Members
  <2> QED
    BY <1>3, <2>1, <2>2 DEF ReleaseATL
<1>4. CASE TimerFires \/ SuplEsOpened \/ UNCHANGED vars
  BY <1>1, <1>4 DEF TimerFires, SuplEsOpened, vars
<1>5. ASSUME active' = <<>> PROVE ListedOnce'
  BY <1>5 DEF ListedOnce, ActiveSet
<1>6. CASE ClosedPending \/ ClosedAcquired
  BY <1>5, <1>6 DEF ClosedPending, ClosedAcquired
<1>7. CASE ClosedReleasing
  BY <1>7 DEF ClosedReleasing, ListedOnce, ActiveSet
<1> QED
  BY <1>2, <1>3, <1>4, <1>6, <1>7 DEF Next, Retry

\* A client is never listed twice, nor active and inactive at once.
THEOREM ListedOnceHolds == Spec => []ListedOnce
<1>1. Init => ListedOnce
  BY DEF Init, ListedOnce, ActiveSet
<1>2. IInv => TypeOK
  BY DEF IInv
<1> QED
  BY <1>1, <1>2, InvHolds, NextOnce, PTL DEF Spec
=============================================================================
