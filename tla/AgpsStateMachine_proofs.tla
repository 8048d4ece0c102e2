----------------------- MODULE AgpsStateMachine_proofs -----------------------
(* Theorems of AgpsStateMachine, for every set of NIFs and clients, and for  *)
(* every value a freed subscriber ID may read as; and of DaemonConnection,   *)
(* the server in front of the BIT and Wi-Fi NIFs, for any processes, pipes   *)
(* of any size, and any number of messages.                                  *)
EXTENDS AgpsStateMachine, DaemonConnection, TLAPS

-----------------------------------------------------------------------------
(* The inductive invariant, NIF by NIF: what the list, the lease and the     *)
(* clients' knowledge have in common with the state.  The properties follow  *)
(* from it; none of them is inductive alone.                                 *)

ListInv(n) ==
    /\ Listed(n) \subseteq Users[n]
    /\ active[n] \cap inactive[n] = {}
    /\ n \in SingleNif => \A c, d \in Listed(n) : c = d
    /\ inactive[n] # {} => n \in SingleNif /\ state[n] = "Releasing"
    /\ state[n] = "Released" => Listed(n) = {}

LeaseInv(n) == lease[n] <=> state[n] \in {"Pending", "Acquired"}

ToldInv(n) ==
    \A c \in Client \ lost[n] :
        /\ told[n][c] = "granted" => c \in active[n] /\ state[n] = "Acquired"
        /\ told[n][c] = "asked" => c \in active[n] /\ state[n] \in {"Pending", "Releasing"}
        /\ told[n][c] = "leaving" => c \in inactive[n] /\ state[n] = "Releasing"

NifInv(n) == ListInv(n) /\ LeaseInv(n) /\ ToldInv(n)

Inv == TypeOK /\ \A n \in Nif : NifInv(n)

\* What a step that concerns NIF n leaves alone.
Untouched(n) ==
    \A m \in Nif \ {n} :
        /\ state'[m] = state[m]
        /\ active'[m] = active[m]
        /\ inactive'[m] = inactive[m]
        /\ lease'[m] = lease[m]
        /\ told'[m] = told[m]
        /\ lost'[m] = lost[m]

-----------------------------------------------------------------------------
\* Notify changes what the clients of S heard from n, and nothing else.
LEMMA NotifyLemma ==
    ASSUME TypeOK, NEW n \in Nif, NEW S, NEW what \in Answers, Notify(n, S, what)
    PROVE  /\ told' \in [Nif -> [Client -> Answers]]
           /\ \A m \in Nif \ {n} : told'[m] = told[m]
           /\ \A c \in Client : told'[n][c] = IF c \in S THEN what ELSE told[n][c]
           /\ lost' \in [Nif -> SUBSET Client] /\ lost'[n] = lost[n] \ S
           /\ \A m \in Nif \ {n} : lost'[m] = lost[m]
  BY DEF Notify, TypeOK

\* A step that leaves the other NIFs alone preserves the invariant if it
\* preserves it at its own NIF.
LEMMA FrameLemma ==
    ASSUME Inv, NEW n \in Nif, TypeOK', Untouched(n), NifInv(n)'
    PROVE  Inv'
  <1>1. ASSUME NEW m \in Nif, m # n PROVE NifInv(m)'
    <2>1. NifInv(m)
      BY DEF Inv
    <2>2. /\ state'[m] = state[m] /\ active'[m] = active[m] /\ inactive'[m] = inactive[m]
          /\ lease'[m] = lease[m] /\ told'[m] = told[m] /\ lost'[m] = lost[m]
      BY <1>1 DEF Untouched
    <2> QED
      BY <2>1, <2>2 DEF NifInv, ListInv, LeaseInv, ToldInv, Listed
  <1> QED
    BY <1>1 DEF Inv

-----------------------------------------------------------------------------
\* The invariant holds initially.
LEMMA InitInv == Init => Inv
  BY DEF Init, Inv, TypeOK, NifInv, ListInv, LeaseInv, ToldInv, Listed, States, Answers

\* A request keeps the invariant, whether its NIF refuses it, asks the framework
\* for it, queues it or grants it at once.
LEMMA SubscribeInv ==
    ASSUME Inv, NEW n \in Nif, NEW c \in Client, Subscribe(n, c)
    PROVE  Inv'
  <1> USE DEF Answers, States
  <1>0. TypeOK /\ NifInv(n) /\ c \in Users[n] /\ "asked" \in Answers
        /\ "granted" \in Answers /\ "denied" \in Answers
    BY DEF Inv, Subscribe
  <1>1. CASE SubscribeRefused(n, c)
    <2>1. Notify(n, {c}, "denied") /\ UNCHANGED <<state, active, inactive, lease>>
      BY <1>1 DEF SubscribeRefused
    <2>2. /\ told' \in [Nif -> [Client -> Answers]]
          /\ \A m \in Nif \ {n} : told'[m] = told[m]
          /\ \A d \in Client : told'[n][d] = IF d \in {c} THEN "denied" ELSE told[n][d]
          /\ lost' \in [Nif -> SUBSET Client] /\ lost'[n] = lost[n] \ {c}
          /\ \A m \in Nif \ {n} : lost'[m] = lost[m]
      BY <1>0, <2>1, NotifyLemma
    <2>3. TypeOK' /\ Untouched(n)
      BY <1>0, <2>1, <2>2 DEF TypeOK, Untouched
    <2>4. NifInv(n)'
      BY <1>0, <2>1, <2>2 DEF NifInv, ListInv, LeaseInv, ToldInv, Listed
    <2> QED
      BY <2>3, <2>4, FrameLemma
  <1>2. CASE SubscribeReleased(n, c)
    <2>1. /\ state[n] = "Released" /\ Notify(n, {c}, "asked")
          /\ state' = [state EXCEPT ![n] = "Pending"]
          /\ active' = [active EXCEPT ![n] = Added(n, c)]
          /\ lease' = [lease EXCEPT ![n] = Leased(n, "REQUEST", Added(n, c))]
          /\ UNCHANGED inactive
      BY <1>2 DEF SubscribeReleased, AddSubscriber, SendRsrcRequest
    <2>2. /\ told' \in [Nif -> [Client -> Answers]]
          /\ \A m \in Nif \ {n} : told'[m] = told[m]
          /\ \A d \in Client : told'[n][d] = IF d \in {c} THEN "asked" ELSE told[n][d]
          /\ lost' \in [Nif -> SUBSET Client] /\ lost'[n] = lost[n] \ {c}
          /\ \A m \in Nif \ {n} : lost'[m] = lost[m]
      BY <1>0, <2>1, NotifyLemma
    <2>3. Added(n, c) = {c} /\ Leased(n, "REQUEST", Added(n, c)) = TRUE
      BY <1>0, <2>1 DEF NifInv, ListInv, Listed, Added, Leased
    <2>4. TypeOK' /\ Untouched(n)
      BY <1>0, <2>1, <2>2, <2>3 DEF TypeOK, Untouched
    <2>5. /\ active'[n] = {c} /\ inactive'[n] = inactive[n] /\ inactive[n] = {}
          /\ state'[n] = "Pending" /\ lease'[n] = TRUE
      BY <1>0, <2>1, <2>3 DEF TypeOK, NifInv, ListInv, Listed
    <2>6. NifInv(n)'
      BY <1>0, <2>1, <2>2, <2>5 DEF NifInv, ListInv, LeaseInv, ToldInv, Listed
    <2> QED
      BY <2>4, <2>6, FrameLemma
  <1>3. CASE SubscribeQueued(n, c)
    <2>1. /\ Accepts(n) /\ state[n] \in {"Pending", "Releasing"} /\ Notify(n, {c}, "asked")
          /\ active' = [active EXCEPT ![n] = Added(n, c)]
          /\ UNCHANGED <<state, inactive, lease>>
      BY <1>3 DEF SubscribeQueued, AddSubscriber
    <2>2. /\ told' \in [Nif -> [Client -> Answers]]
          /\ \A m \in Nif \ {n} : told'[m] = told[m]
          /\ \A d \in Client : told'[n][d] = IF d \in {c} THEN "asked" ELSE told[n][d]
          /\ lost' \in [Nif -> SUBSET Client] /\ lost'[n] = lost[n] \ {c}
          /\ \A m \in Nif \ {n} : lost'[m] = lost[m]
      BY <1>0, <2>1, NotifyLemma
    <2>3. inactive[n] = {} /\ Added(n, c) = active[n] \cup {c}
      BY <1>0, <2>1 DEF NifInv, ListInv, Listed, Added, Accepts
    <2>4. TypeOK' /\ Untouched(n)
      BY <1>0, <2>1, <2>2, <2>3 DEF TypeOK, Untouched
    <2>5. /\ active'[n] = active[n] \cup {c} /\ inactive'[n] = {}
          /\ state'[n] = state[n] /\ lease'[n] = lease[n]
          /\ n \in SingleNif => active[n] = {}
      BY <1>0, <2>1, <2>3 DEF TypeOK, Accepts, Listed
    <2>6. NifInv(n)'
      BY <1>0, <2>1, <2>2, <2>3, <2>5 DEF NifInv, ListInv, LeaseInv, ToldInv, Listed
    <2> QED
      BY <2>4, <2>6, FrameLemma
  <1>4. CASE SubscribeAcquired(n, c)
    <2>1. /\ Accepts(n) /\ state[n] = "Acquired" /\ Notify(n, {c}, "granted")
          /\ active' = [active EXCEPT ![n] = Added(n, c)]
          /\ UNCHANGED <<state, inactive, lease>>
      BY <1>4 DEF SubscribeAcquired, AddSubscriber
    <2>2. /\ told' \in [Nif -> [Client -> Answers]]
          /\ \A m \in Nif \ {n} : told'[m] = told[m]
          /\ \A d \in Client : told'[n][d] = IF d \in {c} THEN "granted" ELSE told[n][d]
          /\ lost' \in [Nif -> SUBSET Client] /\ lost'[n] = lost[n] \ {c}
          /\ \A m \in Nif \ {n} : lost'[m] = lost[m]
      BY <1>0, <2>1, NotifyLemma
    <2>3. inactive[n] = {} /\ Added(n, c) = active[n] \cup {c}
      BY <1>0, <2>1 DEF NifInv, ListInv, Listed, Added
    <2>4. TypeOK' /\ Untouched(n)
      BY <1>0, <2>1, <2>2, <2>3 DEF TypeOK, Untouched
    <2>5. /\ active'[n] = active[n] \cup {c} /\ inactive'[n] = {}
          /\ state'[n] = "Acquired" /\ lease'[n] = lease[n]
          /\ n \in SingleNif => active[n] = {}
      BY <1>0, <2>1, <2>3 DEF TypeOK, Accepts, Listed
    <2>6. NifInv(n)'
      BY <1>0, <2>1, <2>2, <2>3, <2>5 DEF NifInv, ListInv, LeaseInv, ToldInv, Listed
    <2> QED
      BY <2>4, <2>6, FrameLemma
  <1> QED
    BY <1>1, <1>2, <1>3, <1>4 DEF Subscribe

\* A release keeps the invariant, also when the second search of the list takes
\* another client off it.
LEMMA UnsubscribeInv ==
    ASSUME Inv, NEW n \in Nif, NEW c \in Client, Unsubscribe(n, c)
    PROVE  Inv'
  <1> USE DEF Answers, States
  <1>0. TypeOK /\ NifInv(n) /\ c \in Listed(n) /\ c \in Users[n] /\ state[n] # "Released"
        /\ "leaving" \in Answers /\ "closed" \in Answers
    BY DEF Inv, Unsubscribe, NifInv, ListInv, Listed
  <1>1. CASE UnsubscribeWait(n, c)
    <2> DEFINE A == active[n] \ {c}
               I == inactive[n] \cup {c}
    <2>1. /\ c \in WaitClient /\ Leave(n, A, I) /\ Notify(n, {c}, "leaving")
      BY <1>1 DEF UnsubscribeWait
    <2>2. n \in SingleNif /\ A = {} /\ I = {c}
      BY <1>0, <2>1, UsersAssumption DEF NifInv, ListInv, Listed
    <2>3. /\ told' \in [Nif -> [Client -> Answers]]
          /\ \A m \in Nif \ {n} : told'[m] = told[m]
          /\ \A d \in Client : told'[n][d] = IF d \in {c} THEN "leaving" ELSE told[n][d]
          /\ lost' \in [Nif -> SUBSET Client] /\ lost'[n] = lost[n] \ {c}
          /\ \A m \in Nif \ {n} : lost'[m] = lost[m]
      BY <1>0, <2>1, NotifyLemma
    <2>4. StateAfterLeave(n, A, I) = "Releasing"
      BY <2>2 DEF StateAfterLeave
    <2>5. /\ active' = [active EXCEPT ![n] = {}]
          /\ inactive' = [inactive EXCEPT ![n] = {c}]
          /\ state' = [state EXCEPT ![n] = "Releasing"]
      BY <2>1, <2>2, <2>4 DEF Leave
    <2>6. lease' = [lease EXCEPT ![n] = FALSE]
      <3>1. CASE state[n] # "Releasing"
        BY <2>1, <2>2, <3>1 DEF Leave, SendRsrcRequest, Leased
      <3>2. CASE state[n] = "Releasing"
        <4>1. lease' = lease
          BY <2>1, <3>2 DEF Leave
        <4>2. lease[n] = FALSE
          BY <1>0, <3>2 DEF NifInv, LeaseInv, TypeOK
        <4> QED
          BY <1>0, <4>1, <4>2 DEF TypeOK
      <3> QED
        BY <3>1, <3>2
    <2>7. TypeOK' /\ Untouched(n)
      BY <1>0, <2>3, <2>5, <2>6 DEF TypeOK, Untouched
    <2>8. /\ active'[n] = {} /\ inactive'[n] = {c}
          /\ state'[n] = "Releasing" /\ lease'[n] = FALSE
      BY <1>0, <2>5, <2>6 DEF TypeOK
    <2>9. \A d \in Client \ lost'[n] : told'[n][d] \in {"granted", "asked", "leaving"} => d = c /\ told'[n][d] = "leaving"
      BY <1>0, <2>2, <2>3 DEF NifInv, ListInv, ToldInv, Listed
    <2>10. NifInv(n)'
      BY <1>0, <2>2, <2>8, <2>9 DEF NifInv, ListInv, LeaseInv, ToldInv, Listed
    <2> QED
      BY <2>7, <2>10, FrameLemma
  <1>2. CASE UnsubscribeNow(n, c)
    <2>1. PICK gone \in Leavers(n, c) :
             Leave(n, active[n] \ gone, inactive[n] \ gone) /\ Notify(n, gone, "closed")
      BY <1>2 DEF UnsubscribeNow
    <2> DEFINE A == active[n] \ gone
               I == inactive[n] \ gone
    <2>2. c \in gone
      BY DEF Leavers
    <2>3. /\ told' \in [Nif -> [Client -> Answers]]
          /\ \A m \in Nif \ {n} : told'[m] = told[m]
          /\ \A d \in Client : told'[n][d] = IF d \in gone THEN "closed" ELSE told[n][d]
          /\ lost' \in [Nif -> SUBSET Client] /\ lost'[n] = lost[n] \ gone
          /\ \A m \in Nif \ {n} : lost'[m] = lost[m]
      BY <1>0, <2>1, NotifyLemma
    <2>4. I # {} => A = {} /\ state[n] = "Releasing"
      BY <1>0, <2>2 DEF NifInv, ListInv, Listed
    <2>5. /\ active' = [active EXCEPT ![n] = A]
          /\ inactive' = [inactive EXCEPT ![n] = I]
          /\ state' = [state EXCEPT ![n] = StateAfterLeave(n, A, I)]
      BY <2>1 DEF Leave
    <2>6. StateAfterLeave(n, A, I) = IF A \cup I = {} THEN "Released" ELSE state[n]
      BY <2>4 DEF StateAfterLeave
    <2>7. /\ lease'[n] = (lease[n] /\ A # {})
          /\ lease' \in [Nif -> BOOLEAN]
          /\ \A m \in Nif \ {n} : lease'[m] = lease[m]
      <3>1. CASE A = {} /\ state[n] # "Releasing"
        <4>1. lease' = [lease EXCEPT ![n] = FALSE]
          BY <2>1, <3>1 DEF Leave, SendRsrcRequest, Leased
        <4> QED
          BY <1>0, <3>1, <4>1 DEF TypeOK
      <3>2. CASE ~(A = {} /\ state[n] # "Releasing")
        <4>1. lease' = lease
          BY <2>1, <3>2 DEF Leave
        <4>2. state[n] = "Releasing" => lease[n] = FALSE
          BY <1>0 DEF NifInv, LeaseInv, TypeOK
        <4> QED
          BY <1>0, <3>2, <4>1, <4>2 DEF TypeOK
      <3> QED
        BY <3>1, <3>2
    <2>8. TypeOK' /\ Untouched(n)
      BY <1>0, <2>3, <2>5, <2>6, <2>7 DEF TypeOK, Untouched
    <2>9. /\ active'[n] = A /\ inactive'[n] = I
          /\ state'[n] = IF A \cup I = {} THEN "Released" ELSE state[n]
      BY <1>0, <2>5, <2>6 DEF TypeOK
    <2>10. ListInv(n)'
      BY <1>0, <2>9 DEF NifInv, ListInv, Listed
    <2>11. LeaseInv(n)'
      BY <1>0, <2>4, <2>7, <2>9 DEF NifInv, LeaseInv
    <2>12. ToldInv(n)'
      BY <1>0, <2>3, <2>9 DEF NifInv, ToldInv, ListInv, Listed
    <2> QED
      BY <2>8, <2>10, <2>11, <2>12, FrameLemma DEF NifInv
  <1> QED
    BY <1>1, <1>2 DEF Unsubscribe

\* Ending a lease keeps the invariant: everybody is told and nobody stays listed.
LEMMA EndLeaseInv ==
    ASSUME Inv, NEW n \in Nif, NEW what \in {"denied", "closed"}, EndLease(n, what)
    PROVE  Inv'
  <1> USE DEF Answers, States
  <1>0. TypeOK /\ NifInv(n) /\ what \in Answers
    BY DEF Inv
  <1>1. /\ state' = [state EXCEPT ![n] = "Released"] /\ Notify(n, Listed(n), what)
        /\ active' = [active EXCEPT ![n] = {}] /\ inactive' = [inactive EXCEPT ![n] = {}]
        /\ lease' = [lease EXCEPT ![n] = FALSE]
    BY DEF EndLease
  <1>2. /\ told' \in [Nif -> [Client -> Answers]]
        /\ \A m \in Nif \ {n} : told'[m] = told[m]
        /\ \A d \in Client : told'[n][d] = IF d \in Listed(n) THEN what ELSE told[n][d]
        /\ lost' \in [Nif -> SUBSET Client] /\ lost'[n] = lost[n] \ Listed(n)
        /\ \A m \in Nif \ {n} : lost'[m] = lost[m]
    BY <1>0, <1>1, NotifyLemma
  <1>3. TypeOK' /\ Untouched(n)
    BY <1>0, <1>1, <1>2 DEF TypeOK, Untouched
  <1>4. state'[n] = "Released" /\ active'[n] = {} /\ inactive'[n] = {} /\ lease'[n] = FALSE
    BY <1>0, <1>1 DEF TypeOK
  <1>5. NifInv(n)'
    BY <1>0, <1>2, <1>4 DEF NifInv, ListInv, LeaseInv, ToldInv, Listed
  <1> QED
    BY <1>3, <1>5, FrameLemma

\* A grant keeps the invariant: it answers exactly the active clients.
LEMMA GrantedInv ==
    ASSUME Inv, NEW n \in Nif, RsrcGranted(n)
    PROVE  Inv'
  <1> USE DEF Answers, States
  <1>0. TypeOK /\ NifInv(n) /\ "granted" \in Answers
    BY DEF Inv
  <1>1. /\ state[n] = "Pending" /\ state' = [state EXCEPT ![n] = "Acquired"]
        /\ Notify(n, active[n], "granted") /\ UNCHANGED <<active, inactive, lease>>
    BY DEF RsrcGranted
  <1>2. /\ told' \in [Nif -> [Client -> Answers]]
        /\ \A m \in Nif \ {n} : told'[m] = told[m]
        /\ \A d \in Client : told'[n][d] = IF d \in active[n] THEN "granted" ELSE told[n][d]
        /\ lost' \in [Nif -> SUBSET Client] /\ lost'[n] = lost[n] \ active[n]
        /\ \A m \in Nif \ {n} : lost'[m] = lost[m]
    BY <1>0, <1>1, NotifyLemma
  <1>3. TypeOK' /\ Untouched(n)
    BY <1>0, <1>1, <1>2 DEF TypeOK, Untouched
  <1>4. state'[n] = "Acquired"
    BY <1>0, <1>1 DEF TypeOK
  <1>5. NifInv(n)'
    BY <1>0, <1>1, <1>2, <1>4 DEF NifInv, ListInv, LeaseInv, ToldInv, Listed
  <1> QED
    BY <1>3, <1>5, FrameLemma

\* The end of a release keeps the invariant: the waiting clients are told, and the
\* clients that joined meanwhile have a request of their own.
LEMMA DrainedInv ==
    ASSUME Inv, NEW n \in Nif, NEW what \in {"closed", "denied"}, RsrcDrained(n, what)
    PROVE  Inv'
  <1> USE DEF Answers, States
  <1>0. TypeOK /\ NifInv(n)
    BY DEF Inv
  <1>1. Notify(n, inactive[n], what)
    BY DEF RsrcDrained
  <1>2. /\ told' \in [Nif -> [Client -> Answers]]
        /\ \A m \in Nif \ {n} : told'[m] = told[m]
        /\ \A d \in Client : told'[n][d] = IF d \in inactive[n] THEN what ELSE told[n][d]
        /\ lost' \in [Nif -> SUBSET Client] /\ lost'[n] = lost[n] \ inactive[n]
        /\ \A m \in Nif \ {n} : lost'[m] = lost[m]
    BY <1>0, <1>1, NotifyLemma
  <1>3. /\ state[n] = "Releasing" /\ inactive' = [inactive EXCEPT ![n] = {}]
        /\ UNCHANGED active
        /\ state' = [state EXCEPT ![n] = IF active[n] # {} THEN "Pending" ELSE "Released"]
    BY DEF RsrcDrained
  <1>4. lease' = [lease EXCEPT ![n] = (active[n] # {})]
    <2>1. CASE active[n] # {}
      BY <2>1 DEF RsrcDrained, SendRsrcRequest, Leased
    <2>2. CASE active[n] = {}
      <3>1. lease' = lease /\ lease[n] = FALSE
        BY <1>0, <1>3, <2>2 DEF RsrcDrained, NifInv, LeaseInv, TypeOK
      <3> QED
        BY <1>0, <2>2, <3>1 DEF TypeOK
    <2> QED
      BY <2>1, <2>2
  <1>5. TypeOK' /\ Untouched(n)
    BY <1>0, <1>2, <1>3, <1>4 DEF TypeOK, Untouched
  <1>6. /\ state'[n] = IF active[n] # {} THEN "Pending" ELSE "Released"
        /\ active'[n] = active[n] /\ inactive'[n] = {} /\ lease'[n] = (active[n] # {})
    BY <1>0, <1>3, <1>4 DEF TypeOK
  <1>7. ListInv(n)'
    BY <1>0, <1>6 DEF NifInv, ListInv, Listed
  <1>8. LeaseInv(n)'
    BY <1>6 DEF LeaseInv
  <1>9. ToldInv(n)'
    BY <1>0, <1>2, <1>3, <1>6 DEF NifInv, ToldInv
  <1> QED
    BY <1>5, <1>7, <1>8, <1>9, FrameLemma DEF NifInv

\* A modem restart keeps the invariant: the clients it drops wait for nothing.
LEMMA EngineUpInv ==
    ASSUME Inv, EngineUp
    PROVE  Inv'
  <1> USE DEF Answers, States
  <1>0. TypeOK /\ "none" \in Answers
    BY DEF Inv
  <1>1. TypeOK'
    <2>1. told' \in [Nif -> [Client -> Answers]]
      BY <1>0 DEF TypeOK, EngineUp
    <2>2. lost' \in [Nif -> SUBSET Client]
      BY <1>0 DEF TypeOK, EngineUp, Listed
    <2> QED
      BY <1>0, <2>1, <2>2 DEF TypeOK, EngineUp
  <1>2. ASSUME NEW n \in Nif PROVE NifInv(n)'
    <2>1. NifInv(n)
      BY DEF Inv
    <2>2. /\ state'[n] = state[n] /\ lease'[n] = lease[n]
          /\ active'[n] = IF n \in ModemNif THEN {} ELSE active[n]
          /\ inactive'[n] = IF n \in ModemNif THEN {} ELSE inactive[n]
          /\ \A c \in Client : told'[n][c] = IF c \in AtlClient THEN "none" ELSE told[n][c]
          /\ lost'[n] = IF n \in ModemNif THEN lost[n] \cup (Listed(n) \ AtlClient) ELSE lost[n]
      BY DEF EngineUp
    <2> QED
      BY <2>1, <2>2 DEF NifInv, ListInv, LeaseInv, ToldInv, Listed
  <1> QED
    BY <1>1, <1>2 DEF Inv

\* Every step keeps the invariant.
LEMMA NextInv == Inv /\ [Next]_vars => Inv'
  <1> SUFFICES ASSUME Inv, [Next]_vars PROVE Inv'
    OBVIOUS
  <1>1. ASSUME NEW n \in Nif, NEW c \in Client, Subscribe(n, c) PROVE Inv'
    BY <1>1, SubscribeInv
  <1>2. ASSUME NEW n \in Nif, NEW c \in Client, ReleaseDaemon(n, c) PROVE Inv'
    BY <1>2, UnsubscribeInv DEF ReleaseDaemon
  <1>3. ASSUME NEW c \in AtlClient, ReleaseAtl(c) PROVE Inv'
    <2>1. PICK k \in DOMAIN AtlOrder : Unsubscribe(AtlOrder[k], c)
      BY <1>3 DEF ReleaseAtl
    <2>2. AtlOrder[k] \in Nif /\ c \in Client
      BY AtlOrderAssumption, UsersAssumption
    <2> QED
      BY <2>1, <2>2, UnsubscribeInv
  <1>4. ASSUME NEW n \in Nif, RsrcGranted(n) PROVE Inv'
    BY <1>4, GrantedInv
  <1>5. ASSUME NEW n \in Nif, RsrcDenied(n) PROVE Inv'
    BY <1>5, EndLeaseInv DEF RsrcDenied
  <1>6. ASSUME NEW n \in Nif, RsrcReleased(n) PROVE Inv'
    BY <1>6, EndLeaseInv DEF RsrcReleased
  <1>7. ASSUME NEW n \in Nif, NEW what \in {"closed", "denied"}, RsrcDrained(n, what) PROVE Inv'
    BY <1>7, DrainedInv
  <1>8. CASE EngineUp
    BY <1>8, EngineUpInv
  <1>9. CASE UNCHANGED vars
    BY <1>9 DEF vars, Inv, TypeOK, NifInv, ListInv, LeaseInv, ToldInv, Listed
  <1>10. ASSUME NEW n \in Nif, FrameworkAnswers(n) PROVE Inv'
    BY <1>4, <1>5, <1>6, <1>7, <1>10 DEF FrameworkAnswers, AtlOpenSuccess, AtlClosed, AtlOpenFailed
  <1> QED
    BY <1>1, <1>2, <1>3, <1>8, <1>9, <1>10 DEF Next

\* The inductive invariant holds in every reachable state of the NIFs.
THEOREM InvHolds == Spec => []Inv
  BY InitInv, NextInv, PTL DEF Spec

-----------------------------------------------------------------------------
\* The variables keep their types.
THEOREM TypeCorrect == Spec => []TypeOK
  <1>1. Inv => TypeOK
    BY DEF Inv
  <1> QED
    BY <1>1, InvHolds, PTL

\* AgpsReleasedState never finds a subscriber on its list.
THEOREM ReleasedIsEmptyHolds == Spec => []ReleasedIsEmpty
  <1>1. Inv => ReleasedIsEmpty
    BY DEF Inv, NifInv, ListInv, ReleasedIsEmpty
  <1> QED
    BY <1>1, InvHolds, PTL

\* The calls to the framework pair up with the states of the NIFs.
THEOREM LeaseHolds == Spec => []LeaseMatchesState
  <1>1. Inv => LeaseMatchesState
    BY DEF Inv, NifInv, LeaseInv, LeaseMatchesState
  <1> QED
    BY <1>1, InvHolds, PTL

\* No client believes it has a connection that its NIF does not hold.
THEOREM GrantBackedHolds == Spec => []GrantBacked
  <1>1. Inv => GrantBacked
    BY DEF Inv, NifInv, ToldInv, GrantBacked
  <1> QED
    BY <1>1, InvHolds, PTL

\* No request that waits for its answer is forgotten.
THEOREM RequestsKept == Spec => []NoForgottenRequest
  <1>1. Inv => NoForgottenRequest
    BY DEF Inv, NifInv, ToldInv, NoForgottenRequest
  <1> QED
    BY <1>1, InvHolds, PTL

\* No client that gave its connection back waits for a close that nobody awaits.
THEOREM ReleasesKept == Spec => []NoForgottenRelease
  <1>1. Inv => NoForgottenRelease
    BY DEF Inv, NifInv, ToldInv, NoForgottenRelease
  <1> QED
    BY <1>1, InvHolds, PTL

\* A connection that loses its last user is given back in the same step; only a
\* modem restart leaves it held for nobody.
LEMMA OrphanStep == Inv /\ [Next]_vars => \A n \in Nif : Orphaned(n)' => Orphaned(n) \/ EngineUp
  <1> SUFFICES ASSUME Inv, [Next]_vars, NEW n \in Nif, Orphaned(n)'
               PROVE  Orphaned(n) \/ EngineUp
    OBVIOUS
  <1>0. /\ TypeOK /\ NifInv(n)
        /\ lease'[n] /\ active'[n] = {}
    BY DEF Inv, Orphaned
  <1>1. ASSUME lease'[n] = lease[n], active'[n] = active[n] PROVE Orphaned(n)
    BY <1>0, <1>1 DEF Orphaned
  <1>2. ASSUME NEW m \in Nif, NEW c \in Client, Subscribe(m, c) PROVE Orphaned(n)
    <2>1. \/ UNCHANGED <<active, lease>>
          \/ active' = [active EXCEPT ![m] = Added(m, c)] /\ UNCHANGED lease
          \/ /\ active' = [active EXCEPT ![m] = Added(m, c)]
             /\ SendRsrcRequest(m, "REQUEST", Added(m, c))
      BY <1>2 DEF Subscribe, SubscribeRefused, SubscribeReleased, SubscribeQueued,
                  SubscribeAcquired, AddSubscriber
    <2>2. CASE m # n
      <3>1. lease'[n] = lease[n] /\ active'[n] = active[n]
        BY <2>1, <2>2 DEF SendRsrcRequest, Inv, TypeOK
      <3> QED
        BY <1>1, <3>1
    <2>3. CASE m = n
      <3>1. active[n] \subseteq Added(n, c)
        BY DEF Added
      <3>2. active'[n] = active[n] \/ active'[n] = Added(n, c)
        BY <2>1, <2>3, <1>0 DEF TypeOK
      <3>3. active[n] = {}
        BY <1>0, <3>1, <3>2
      <3>4. CASE UNCHANGED lease
        BY <1>0, <3>3, <3>4 DEF Orphaned
      <3>5. CASE /\ active' = [active EXCEPT ![m] = Added(m, c)]
                 /\ SendRsrcRequest(m, "REQUEST", Added(m, c))
        <4>1. Added(n, c) = {}
          BY <1>0, <2>3, <3>5 DEF TypeOK
        <4>2. lease' = [lease EXCEPT ![n] = Leased(n, "REQUEST", {})]
          BY <2>3, <3>5, <4>1 DEF SendRsrcRequest
        <4>3. Leased(n, "REQUEST", {}) = lease[n]
          BY DEF Leased
        <4>4. lease'[n] = lease[n]
          BY <1>0, <4>2, <4>3 DEF TypeOK
        <4> QED
          BY <1>0, <3>3, <4>4 DEF Orphaned
      <3> QED
        BY <2>1, <3>4, <3>5
    <2> QED
      BY <2>2, <2>3
  <1>3. ASSUME NEW m \in Nif, NEW c \in Client, Unsubscribe(m, c) PROVE Orphaned(n)
    <2>1. PICK users, waiting : Leave(m, users, waiting)
      BY <1>3 DEF Unsubscribe, UnsubscribeWait, UnsubscribeNow
    <2>2. CASE m # n
      <3>1. lease'[n] = lease[n] /\ active'[n] = active[n]
        BY <2>1, <2>2 DEF Leave, SendRsrcRequest, Inv, TypeOK
      <3> QED
        BY <1>1, <3>1
    <2>3. CASE m = n
      <3>1. users = {}
        <4>1. active' = [active EXCEPT ![n] = users]
          BY <2>1, <2>3 DEF Leave
        <4> QED
          BY <1>0, <4>1 DEF TypeOK
      <3>2. CASE state[n] = "Releasing"
        <4>1. lease' = lease
          BY <2>1, <2>3, <3>2 DEF Leave
        <4>2. ~lease[n]
          BY <1>0, <3>2 DEF NifInv, LeaseInv
        <4> QED
          BY <1>0, <4>1, <4>2
      <3>3. CASE state[n] # "Releasing"
        <4>1. lease'[n] = Leased(n, "RELEASE", {})
          BY <1>0, <2>1, <2>3, <3>1, <3>3 DEF Leave, SendRsrcRequest, TypeOK
        <4>2. Leased(n, "RELEASE", {}) = FALSE
          BY DEF Leased
        <4> QED
          BY <1>0, <4>1, <4>2
      <3> QED
        BY <3>2, <3>3
    <2> QED
      BY <2>2, <2>3
  <1>4. ASSUME NEW m \in Nif, RsrcGranted(m) PROVE Orphaned(n)
    BY <1>1, <1>4 DEF RsrcGranted
  <1>5. ASSUME NEW m \in Nif, RsrcDenied(m) \/ RsrcReleased(m) PROVE Orphaned(n)
    <2>1. PICK what : EndLease(m, what)
      BY <1>5 DEF RsrcDenied, RsrcReleased
    <2>2. m # n
      BY <1>0, <2>1 DEF EndLease, TypeOK
    <2>3. lease'[n] = lease[n] /\ active'[n] = active[n]
      BY <1>0, <2>1, <2>2 DEF EndLease, TypeOK
    <2> QED
      BY <1>1, <2>3
  <1>6. ASSUME NEW m \in Nif, NEW what, RsrcDrained(m, what) PROVE Orphaned(n)
    <2>1. UNCHANGED active
          /\ (active[m] = {} => UNCHANGED lease)
          /\ (active[m] # {} => SendRsrcRequest(m, "REQUEST", active[m]))
      BY <1>6 DEF RsrcDrained
    <2>2. lease'[n] = lease[n]
      BY <1>0, <2>1 DEF SendRsrcRequest, TypeOK
    <2> QED
      BY <1>1, <2>1, <2>2
  <1>7. CASE UNCHANGED vars
    BY <1>1, <1>7 DEF vars
  <1>8. ASSUME NEW c \in AtlClient, ReleaseAtl(c) PROVE Orphaned(n)
    <2>1. PICK k \in DOMAIN AtlOrder : Unsubscribe(AtlOrder[k], c)
      BY <1>8 DEF ReleaseAtl
    <2>2. AtlOrder[k] \in Nif /\ c \in Client
      BY AtlOrderAssumption, UsersAssumption
    <2> QED
      BY <1>3, <2>1, <2>2
  <1>9. ASSUME NEW m \in Nif, FrameworkAnswers(m) PROVE Orphaned(n)
    BY <1>4, <1>5, <1>6, <1>9 DEF FrameworkAnswers, AtlOpenSuccess, AtlClosed, AtlOpenFailed
  <1> QED
    BY <1>2, <1>3, <1>7, <1>8, <1>9 DEF Next, ReleaseDaemon

\* Only a modem restart leaves a connection that is held for nobody.
THEOREM OrphansHold == Spec => OnlyRestartOrphans
  <1>1. Inv /\ [Next]_vars => [\A n \in Nif : Orphaned(n)' => Orphaned(n) \/ EngineUp]_vars
    BY OrphanStep
  <1>2. Spec => []Inv
    BY InvHolds
  <1> QED
    BY <1>1, <1>2, PTL DEF Spec, OnlyRestartOrphans

-----------------------------------------------------------------------------
(* Every NIF implements SharedConnection.  Each step of the abstract machine *)
(* is stated by its effect on the three mapped variables; a step of the NIF  *)
(* then has to be shown to have one of these effects.                        *)

\* The effects that a step may have on the connection and on who waits for it
\* and who holds it.
LEMMA SharedSteps ==
    ASSUME NEW n \in Nif,
           \/ UNCHANGED <<Conn(n), Waiting(n), Holders(n)>>
           \/ \E c \in Client :
                 /\ Conn(n) # "up" /\ Conn(n)' \in {Conn(n), "asked"}
                 /\ Waiting(n)' = Waiting(n) \cup {c} /\ Holders(n)' = Holders(n)
           \/ \E c \in Client :
                 /\ Conn(n) = "up" /\ Holders(n)' = Holders(n) \cup {c}
                 /\ UNCHANGED <<Conn(n), Waiting(n)>>
           \/ \E S \in SUBSET Client :
                 /\ Waiting(n)' = Waiting(n) \ S /\ Holders(n)' = Holders(n) \ S
                 /\ UNCHANGED Conn(n)
           \/ Conn(n) = "none" /\ Conn(n)' = "asked" /\ UNCHANGED <<Waiting(n), Holders(n)>>
           \/ /\ Conn(n) = "asked" /\ Conn(n)' = "up" /\ Waiting(n)' = {}
              /\ Waiting(n) \subseteq Holders(n)'
           \/ Conn(n)' = "none" /\ Waiting(n)' = {} /\ Holders(n)' = {}
    PROVE  Shared(n)!Step
<1>1. Holders(n)' \in SUBSET Client
  BY DEF Holders
<1> QED
  BY <1>1 DEF Shared!Step, Shared!Next, Shared!Ask, Shared!Join, Shared!Leave,
              Shared!AskAgain, Shared!Open, Shared!Drop

\* A step that leaves a NIF alone leaves its connection alone.
LEMMA SharedKept ==
    ASSUME NEW n \in Nif, state'[n] = state[n], lease'[n] = lease[n], told'[n] = told[n],
           lost'[n] = lost[n]
    PROVE  Shared(n)!Step
<1>1. UNCHANGED <<Conn(n), Waiting(n), Holders(n)>>
  BY DEF Conn, Waiting, Holders
<1> QED
  BY <1>1, SharedSteps

\* A step after which the framework has no open request for a NIF, and whose NIF
\* has no subscriber of the connection left, drops it.
LEMMA SharedDrops ==
    ASSUME NEW n \in Nif, NifInv(n)', ~lease'[n], active'[n] = {}
    PROVE  Shared(n)!Step
<1>1. Conn(n)' = "none" /\ Waiting(n)' = {} /\ Holders(n)' = {}
  BY DEF NifInv, ToldInv, Conn, Waiting, Holders
<1> QED
  BY <1>1, SharedSteps

\* Clients that are made to wait hold nothing.
LEMMA SharedAsked ==
    ASSUME TypeOK, NEW n \in Nif, NEW S \in SUBSET Client,
           Notify(n, S, "asked")
    PROVE  /\ Waiting(n)' = Waiting(n) \cup S
           /\ Holders(n)' = Holders(n) \ S
           /\ \A m \in Nif \ {n} : told'[m] = told[m] /\ lost'[m] = lost[m]
<1>1. "asked" \in Answers
  BY DEF Answers
<1>2. /\ \A m \in Nif \ {n} : told'[m] = told[m]
      /\ \A c \in Client : told'[n][c] = IF c \in S THEN "asked" ELSE told[n][c]
      /\ lost' \in [Nif -> SUBSET Client] /\ lost'[n] = lost[n] \ S
      /\ \A m \in Nif \ {n} : lost'[m] = lost[m]
  BY <1>1, NotifyLemma
<1> QED
  BY <1>2 DEF Waiting, Holders

\* Clients that are granted the connection hold it, and wait no more.
LEMMA SharedGranted ==
    ASSUME TypeOK, NEW n \in Nif, NEW S \in SUBSET Client,
           Notify(n, S, "granted")
    PROVE  /\ Waiting(n)' = Waiting(n) \ S
           /\ Holders(n)' = Holders(n) \cup S
           /\ \A m \in Nif \ {n} : told'[m] = told[m] /\ lost'[m] = lost[m]
<1>1. "granted" \in Answers
  BY DEF Answers
<1>2. /\ \A m \in Nif \ {n} : told'[m] = told[m]
      /\ \A c \in Client : told'[n][c] = IF c \in S THEN "granted" ELSE told[n][c]
      /\ lost' \in [Nif -> SUBSET Client] /\ lost'[n] = lost[n] \ S
      /\ \A m \in Nif \ {n} : lost'[m] = lost[m]
  BY <1>1, NotifyLemma
<1> QED
  BY <1>2 DEF Waiting, Holders

\* Clients that hear anything else neither wait for the connection nor hold it.
LEMMA SharedLeft ==
    ASSUME TypeOK, NEW n \in Nif, NEW S \in SUBSET Client,
           NEW what \in {"denied", "leaving", "closed"},
           Notify(n, S, what)
    PROVE  /\ Waiting(n)' = Waiting(n) \ S
           /\ Holders(n)' = Holders(n) \ S
           /\ \A m \in Nif \ {n} : told'[m] = told[m] /\ lost'[m] = lost[m]
<1>1. what \in Answers
  BY DEF Answers
<1>2. /\ \A m \in Nif \ {n} : told'[m] = told[m]
      /\ \A c \in Client : told'[n][c] = IF c \in S THEN what ELSE told[n][c]
      /\ lost' \in [Nif -> SUBSET Client] /\ lost'[n] = lost[n] \ S
      /\ \A m \in Nif \ {n} : lost'[m] = lost[m]
  BY <1>1, NotifyLemma
<1> QED
  BY <1>2 DEF Waiting, Holders

\* A request asks for the connection, waits for it or joins it; a refused one
\* leaves.
LEMMA SubscribeShared ==
    ASSUME Inv, NEW n \in Nif, NEW c \in Client, Subscribe(n, c)
    PROVE  Shared(n)!Step /\ Untouched(n)
<1>0. /\ TypeOK /\ NifInv(n) /\ {c} \in SUBSET Client
      /\ "asked" \in Answers /\ "granted" \in Answers /\ "denied" \in Answers
  BY DEF Inv, Answers
<1>1. CASE SubscribeRefused(n, c)
  <2>1. Notify(n, {c}, "denied") /\ UNCHANGED <<state, active, inactive, lease>>
    BY <1>1 DEF SubscribeRefused
  <2>2. /\ Waiting(n)' = Waiting(n) \ {c} /\ Holders(n)' = Holders(n) \ {c}
        /\ UNCHANGED Conn(n)
    <3>1. Waiting(n)' = Waiting(n) \ {c} /\ Holders(n)' = Holders(n) \ {c}
      BY <1>0, <2>1, SharedLeft
    <3> QED
      BY <2>1, <3>1 DEF Conn
  <2>3. Untouched(n)
    BY <1>0, <2>1, SharedLeft DEF Untouched
  <2> QED
    BY <1>0, <2>2, <2>3, SharedSteps
<1>2. CASE SubscribeReleased(n, c)
  <2>1. /\ state[n] = "Released" /\ Notify(n, {c}, "asked")
        /\ state' = [state EXCEPT ![n] = "Pending"]
        /\ active' = [active EXCEPT ![n] = Added(n, c)]
        /\ lease' = [lease EXCEPT ![n] = Leased(n, "REQUEST", Added(n, c))]
        /\ UNCHANGED inactive
    BY <1>2 DEF SubscribeReleased, AddSubscriber, SendRsrcRequest
  <2>2. Leased(n, "REQUEST", Added(n, c)) = TRUE /\ lease[n] = FALSE
    BY <1>0, <2>1 DEF NifInv, ListInv, LeaseInv, Listed, Added, Leased, TypeOK
  <2>3. Conn(n) = "none" /\ Conn(n)' = "asked"
    BY <1>0, <2>1, <2>2 DEF Conn, TypeOK
  <2>4. Holders(n) = {}
    BY <1>0, <2>1 DEF NifInv, ToldInv, Holders
  <2>5. Waiting(n)' = Waiting(n) \cup {c} /\ Holders(n)' = Holders(n)
    <3>1. Waiting(n)' = Waiting(n) \cup {c} /\ Holders(n)' = Holders(n) \ {c}
      BY <1>0, <2>1, SharedAsked
    <3> QED
      BY <2>4, <3>1
  <2>6. Untouched(n)
    BY <1>0, <2>1, SharedAsked DEF Untouched, TypeOK
  <2> QED
    BY <2>3, <2>5, <2>6, SharedSteps
<1>3. CASE SubscribeQueued(n, c)
  <2>1. /\ state[n] \in {"Pending", "Releasing"} /\ Notify(n, {c}, "asked")
        /\ active' = [active EXCEPT ![n] = Added(n, c)]
        /\ UNCHANGED <<state, inactive, lease>>
    BY <1>3 DEF SubscribeQueued, AddSubscriber
  <2>2. Conn(n) # "up" /\ UNCHANGED Conn(n)
    BY <2>1 DEF Conn
  <2>3. Holders(n) = {}
    BY <1>0, <2>1 DEF NifInv, ToldInv, Holders
  <2>4. Waiting(n)' = Waiting(n) \cup {c} /\ Holders(n)' = Holders(n)
    <3>1. Waiting(n)' = Waiting(n) \cup {c} /\ Holders(n)' = Holders(n) \ {c}
      BY <1>0, <2>1, SharedAsked
    <3> QED
      BY <2>3, <3>1
  <2>5. Untouched(n)
    BY <1>0, <2>1, SharedAsked DEF Untouched, TypeOK
  <2> QED
    BY <2>2, <2>4, <2>5, SharedSteps
<1>4. CASE SubscribeAcquired(n, c)
  <2>1. /\ state[n] = "Acquired" /\ Notify(n, {c}, "granted")
        /\ active' = [active EXCEPT ![n] = Added(n, c)]
        /\ UNCHANGED <<state, inactive, lease>>
    BY <1>4 DEF SubscribeAcquired, AddSubscriber
  <2>2. Conn(n) = "up" /\ UNCHANGED Conn(n)
    BY <1>0, <2>1 DEF Conn, NifInv, LeaseInv
  <2>3. Waiting(n) = {}
    BY <1>0, <2>1 DEF NifInv, ToldInv, Waiting
  <2>4. Waiting(n)' = Waiting(n) /\ Holders(n)' = Holders(n) \cup {c}
    <3>1. Waiting(n)' = Waiting(n) \ {c} /\ Holders(n)' = Holders(n) \cup {c}
      BY <1>0, <2>1, SharedGranted
    <3> QED
      BY <2>3, <3>1
  <2>5. Untouched(n)
    BY <1>0, <2>1, SharedGranted DEF Untouched, TypeOK
  <2> QED
    BY <2>2, <2>4, <2>5, SharedSteps
<1> QED
  BY <1>1, <1>2, <1>3, <1>4 DEF Subscribe

\* A release leaves the connection, and the last one drops it.
LEMMA LeaveShared ==
    ASSUME Inv, Inv', NEW n \in Nif, NEW users, NEW waiting, Leave(n, users, waiting),
           NEW gone \in SUBSET Client, NEW what \in {"leaving", "closed"},
           Notify(n, gone, what)
    PROVE  Shared(n)!Step /\ Untouched(n)
<1>0. TypeOK /\ NifInv(n) /\ NifInv(n)'
  BY DEF Inv
<1>2. /\ Waiting(n)' = Waiting(n) \ gone /\ Holders(n)' = Holders(n) \ gone
      /\ \A m \in Nif \ {n} : told'[m] = told[m] /\ lost'[m] = lost[m]
  BY <1>0, SharedLeft
<1>3. Untouched(n)
  BY <1>0, <1>2 DEF Leave, SendRsrcRequest, TypeOK, Untouched
<1>4. /\ state'[n] = StateAfterLeave(n, users, waiting) /\ active'[n] = users
      /\ lease'[n] = IF users = {} /\ state[n] # "Releasing" THEN FALSE ELSE lease[n]
  BY <1>0 DEF Leave, SendRsrcRequest, Leased, TypeOK
<1>5. CASE users = {} /\ state[n] # "Releasing"
  BY <1>0, <1>3, <1>4, <1>5, SharedDrops
<1>6. CASE users # {} \/ state[n] = "Releasing"
  <2>1. lease'[n] = lease[n]
    BY <1>4, <1>6
  <2>2. lease[n] => state'[n] = state[n]
    BY <1>0, <1>4, <1>6 DEF StateAfterLeave, NifInv, LeaseInv
  <2>3. UNCHANGED Conn(n)
    BY <2>1, <2>2 DEF Conn
  <2> QED
    BY <1>2, <1>3, <2>3, SharedSteps
<1> QED
  BY <1>5, <1>6

\* So does a release that takes another client off the list with it.
LEMMA UnsubscribeShared ==
    ASSUME Inv, Inv', NEW n \in Nif, NEW c \in Client, Unsubscribe(n, c)
    PROVE  Shared(n)!Step /\ Untouched(n)
<1>1. CASE UnsubscribeWait(n, c)
  BY <1>1, LeaveShared DEF UnsubscribeWait
<1>2. CASE UnsubscribeNow(n, c)
  <2>1. PICK gone \in Leavers(n, c) :
          Leave(n, active[n] \ gone, inactive[n] \ gone) /\ Notify(n, gone, "closed")
    BY <1>2 DEF UnsubscribeNow
  <2>2. gone \in SUBSET Client
    BY DEF Inv, Leavers, Listed, TypeOK
  <2> QED
    BY <2>1, <2>2, LeaveShared
<1> QED
  BY <1>1, <1>2 DEF Unsubscribe

\* An answer of the framework opens the connection, drops it, or finds that it is
\* wanted again.
LEMMA AnswerShared ==
    ASSUME Inv, Inv', NEW n \in Nif, FrameworkAnswers(n)
    PROVE  Shared(n)!Step /\ Untouched(n)
<1>0. /\ TypeOK /\ NifInv(n) /\ NifInv(n)' /\ active[n] \in SUBSET Client
      /\ inactive[n] \in SUBSET Client /\ Listed(n) \in SUBSET Client
      /\ "granted" \in Answers /\ "closed" \in Answers /\ "denied" \in Answers
  BY DEF Inv, Answers, TypeOK, Listed
<1>1. CASE RsrcGranted(n)
  <2>1. /\ state[n] = "Pending" /\ state' = [state EXCEPT ![n] = "Acquired"]
        /\ Notify(n, active[n], "granted") /\ UNCHANGED <<active, inactive, lease>>
    BY <1>1 DEF RsrcGranted
  <2>2. Conn(n) = "asked" /\ Conn(n)' = "up"
    BY <1>0, <2>1 DEF Conn, NifInv, LeaseInv, TypeOK
  <2>3. Waiting(n) \subseteq active[n]
    BY <1>0 DEF NifInv, ToldInv, Waiting
  <2>4. Waiting(n)' = {} /\ Waiting(n) \subseteq Holders(n)'
    <3>1. /\ Waiting(n)' = Waiting(n) \ active[n]
          /\ Holders(n)' = Holders(n) \cup active[n]
      BY <1>0, <2>1, SharedGranted
    <3> QED
      BY <2>3, <3>1
  <2>5. Untouched(n)
    BY <1>0, <2>1, SharedGranted DEF Untouched, TypeOK
  <2> QED
    BY <2>2, <2>4, <2>5, SharedSteps
<1>2. ASSUME NEW what \in {"denied", "closed"}, EndLease(n, what)
      PROVE  Shared(n)!Step /\ Untouched(n)
  <2>1. /\ active'[n] = {} /\ ~lease'[n] /\ what \in Answers
    BY <1>0, <1>2 DEF EndLease, TypeOK
  <2>2. Untouched(n)
    BY <1>0, <1>2, <2>1, SharedLeft DEF EndLease, Untouched, TypeOK
  <2> QED
    BY <1>0, <2>1, <2>2, SharedDrops
<1>3. ASSUME NEW what \in {"denied", "closed"}, RsrcDrained(n, what)
      PROVE  Shared(n)!Step /\ Untouched(n)
  <2>1. /\ state[n] = "Releasing" /\ Notify(n, inactive[n], what) /\ what \in Answers
        /\ inactive' = [inactive EXCEPT ![n] = {}] /\ UNCHANGED active
        /\ state' = [state EXCEPT ![n] = IF active[n] # {} THEN "Pending" ELSE "Released"]
        /\ \/ lease' = [lease EXCEPT ![n] = TRUE]
           \/ UNCHANGED lease
    BY <1>0, <1>3 DEF RsrcDrained, SendRsrcRequest, Leased
  <2>2. Conn(n) = "none" /\ Conn(n)' \in {"none", "asked"}
    BY <1>0, <2>1 DEF Conn, NifInv, LeaseInv, TypeOK
  <2>3. Waiting(n) \cap inactive[n] = {} /\ Holders(n) = {}
    BY <1>0, <2>1 DEF NifInv, ListInv, ToldInv, Waiting, Holders
  <2>4. UNCHANGED <<Waiting(n), Holders(n)>>
    <3>1. /\ Waiting(n)' = Waiting(n) \ inactive[n]
          /\ Holders(n)' = Holders(n) \ inactive[n]
      BY <1>0, <2>1, SharedLeft
    <3> QED
      BY <2>3, <3>1
  <2>5. Untouched(n)
    BY <1>0, <2>1, SharedLeft DEF Untouched, TypeOK
  <2> QED
    BY <2>2, <2>4, <2>5, SharedSteps
<1> QED
  BY <1>1, <1>2, <1>3 DEF FrameworkAnswers, AtlOpenSuccess, AtlClosed, AtlOpenFailed,
                          RsrcDenied, RsrcReleased

\* A restarted modem drops clients and leaves the connection as it is.
LEMMA EngineUpShared ==
    ASSUME Inv, NEW n \in Nif, EngineUp
    PROVE  Shared(n)!Step
<1>1. TypeOK /\ NifInv(n)
  BY DEF Inv
<1>2. /\ state'[n] = state[n] /\ lease'[n] = lease[n]
      /\ \A c \in Client : told'[n][c] = IF c \in AtlClient THEN "none" ELSE told[n][c]
      /\ lost'[n] = IF n \in ModemNif THEN lost[n] \cup (Listed(n) \ AtlClient) ELSE lost[n]
  BY DEF EngineUp
<1>3. UNCHANGED Conn(n)
  BY <1>2 DEF Conn
<1> DEFINE S == AtlClient \cup (IF n \in ModemNif THEN Listed(n) ELSE {})
<1>4. Waiting(n)' = Waiting(n) \ S /\ Holders(n)' = Holders(n) \ S
  BY <1>2 DEF Waiting, Holders
<1>5. S \in SUBSET Client
  BY <1>1, UsersAssumption DEF TypeOK, Listed
<1> HIDE DEF S
<1> QED
  BY <1>3, <1>4, <1>5, SharedSteps

\* A step of the NIFs is, for each NIF, a step of the connection its clients share.
LEMMA StepIsSharedStep ==
    Inv /\ Inv' /\ [Next]_vars => \A n \in Nif : Shared(n)!Step
<1> SUFFICES ASSUME Inv, Inv', [Next]_vars, NEW n \in Nif PROVE Shared(n)!Step
  OBVIOUS
<1>1. ASSUME NEW m \in Nif, Untouched(m), Shared(m)!Step PROVE Shared(n)!Step
  <2>1. CASE m = n
    BY <1>1, <2>1
  <2>2. CASE m # n
    BY <1>1, <2>2, SharedKept DEF Untouched
  <2> QED
    BY <2>1, <2>2
<1>2. ASSUME NEW m \in Nif, NEW c \in Client, Subscribe(m, c) PROVE Shared(n)!Step
  BY <1>1, <1>2, SubscribeShared
<1>3. ASSUME NEW m \in Nif, NEW c \in Client, Unsubscribe(m, c) PROVE Shared(n)!Step
  BY <1>1, <1>3, UnsubscribeShared
<1>4. ASSUME NEW c \in AtlClient, ReleaseAtl(c) PROVE Shared(n)!Step
  <2>1. PICK k \in DOMAIN AtlOrder : Unsubscribe(AtlOrder[k], c)
    BY <1>4 DEF ReleaseAtl
  <2>2. AtlOrder[k] \in Nif /\ c \in Client
    BY AtlOrderAssumption, UsersAssumption
  <2> QED
    BY <1>3, <2>1, <2>2
<1>5. ASSUME NEW m \in Nif, FrameworkAnswers(m) PROVE Shared(n)!Step
  BY <1>1, <1>5, AnswerShared
<1>6. CASE EngineUp
  BY <1>6, EngineUpShared
<1>7. CASE UNCHANGED vars
  BY <1>7, SharedKept DEF vars
<1> QED
  BY <1>2, <1>3, <1>4, <1>5, <1>6, <1>7 DEF Next, ReleaseDaemon

\* To its clients every NIF is one shared connection.
THEOREM ImplementsShared == Spec => IsShared
<1>1. Init => \A n \in Nif : Shared(n)!Init
  BY DEF Init, Shared!Init, Conn, Waiting, Holders
<1>2. Inv /\ Inv' /\ [Next]_vars => [\A n \in Nif : Shared(n)!Step]_vars
  BY StepIsSharedStep
<1>3. Spec => []Inv
  BY InvHolds
<1> QED
  BY <1>1, <1>2, <1>3, PTL DEF Spec, IsShared

-----------------------------------------------------------------------------
(* DaemonConnection: the handshake of the launcher and the server's thread,  *)
(* the pipes, and what is answered, each as far as the server has got.       *)

\* Where the server's thread is once it has said that it is ready.
Running == {"receive", "check", "post", "ended"}

\* The handshake of the launcher and the server: a launcher that waits is still
\* to be signalled, unless it has no thread.
HandshakeInv ==
    /\ launcher = "idle" => server = "none"
    /\ ready <=> server \in Running
    /\ launcher = "waiting" => server \in {"none", "init", "signal"}

\* The pipes are made before the server is ready.
PipesInv == server \in {"signal"} \cup Running => \A p \in Pipe : pipes[p] # "absent"

\* Nobody is answered, and nobody has asked, before the server is ready.
AskedInv == (queue # <<>> \/ asked # {} \/ answer # None) => server \in Running

\* thread_exit has a reason, and the server ends because of it.
ExitInv ==
    /\ exit => fault
    /\ server \in {"post", "ended"} => exit

\* The inductive invariant of DaemonConnection.
DaemonInv == DaemonTypeOK /\ HandshakeInv /\ PipesInv /\ AskedInv /\ ExitInv

\* What is put behind and taken from the front of a pipe or a queue.
LEMMA PipeTypes ==
    ASSUME NEW S, NEW pipe \in Seq(S)
    PROVE  /\ <<>> \in Seq(S)
           /\ \A m \in S : Append(pipe, m) \in Seq(S)
           /\ pipe # <<>> => Head(pipe) \in S /\ Tail(pipe) \in Seq(S)
OBVIOUS

\* At first there is no thread and no pipe.
LEMMA DaemonInitInv == DaemonInit => DaemonInv
<1> SUFFICES ASSUME DaemonInit PROVE DaemonInv
  OBVIOUS
<1>1. /\ inbox \in Seq(Message) /\ outbox \in [Sender -> Seq(Status)]
      /\ queue \in Seq([from : Sender, kind : {"request", "release"}])
      /\ pipes \in [Pipe -> {"absent", "open", "failed", "gone"}]
  BY DEF DaemonInit
<1>2. DaemonTypeOK
  BY <1>1 DEF DaemonInit, DaemonTypeOK
<1>3. HandshakeInv /\ PipesInv /\ AskedInv /\ ExitInv
  BY DEF DaemonInit, HandshakeInv, PipesInv, AskedInv, ExitInv, Running
<1> QED
  BY <1>2, <1>3 DEF DaemonInv

\* Every step keeps the types of the variables.
LEMMA DaemonTypes == DaemonTypeOK /\ [DaemonNext]_daemonVars => DaemonTypeOK'
<1> SUFFICES ASSUME DaemonTypeOK, [DaemonNext]_daemonVars PROVE DaemonTypeOK'
  OBVIOUS
<1> USE DaemonAssumption DEF DaemonTypeOK, launchVars, dataVars
<1>1. CASE Launch \/ SpuriousWakeup
  BY <1>1 DEF Launch, SpuriousWakeup
<1>2. CASE SignalWait
  BY <1>2 DEF SignalWait, Returned
<1>3. CASE SignalWoken
  BY <1>3 DEF SignalWoken, Returned
<1>4. ASSUME NEW p \in Pipe, OpenPipe(p) PROVE DaemonTypeOK'
  BY <1>4 DEF OpenPipe, Made
<1>5. ASSUME NEW p \in Pipe, RemovePipe(p) PROVE DaemonTypeOK'
  BY <1>5, PipeTypes DEF RemovePipe, Removed
<1>6. CASE SignalReady \/ CheckExit
  BY <1>6 DEF SignalReady, CheckExit
<1>7. CASE ReceiveFails
  <2>1. inbox # <<>> => Tail(inbox) \in Seq(Message)
    BY PipeTypes
  <2>2. inbox' \in Seq(Message)
    BY <1>7, <2>1 DEF ReceiveFails
  <2> QED
    BY <1>7, <2>2 DEF ReceiveFails, Stops
<1>8. CASE ReceiveInterrupted
  BY <1>8 DEF ReceiveInterrupted, Stops
<1>9. CASE Ignore
  BY <1>9 DEF Ignore
<1>10. CASE Handle
  <2>1. Head(inbox) \in Message /\ inbox' \in Seq(Message)
    BY <1>10 DEF Handle
  <2>2. Head(inbox) \in [from : Sender, kind : {"request", "release"}]
    BY <1>10, <2>1 DEF Handle, Message
  <2>3. queue' \in Seq([from : Sender, kind : {"request", "release"}])
    BY <1>10, <2>2, PipeTypes DEF Handle
  <2> QED
    BY <1>10, <2>1, <2>3 DEF Handle
<1>11. CASE Take
  <2>1. /\ Head(queue) \in [from : Sender, kind : {"request", "release"}]
        /\ queue' \in Seq([from : Sender, kind : {"request", "release"}])
    BY <1>11, PipeTypes DEF Take
  <2> QED
    BY <1>11, <2>1 DEF Take
<1>12. CASE DataConn
  <2>1. answer \in [to : Sender, status : Status, blocked : BOOLEAN]
    BY <1>12 DEF DataConn
  <2>2. Append(outbox[answer.to], answer.status) \in Seq(Status)
    BY <2>1, PipeTypes
  <2>3. outbox' \in [Sender -> Seq(Status)]
    BY <1>12, <2>1, <2>2 DEF DataConn
  <2>4. answer' \in [to : Sender, status : Status, blocked : BOOLEAN] \cup {None}
    BY <1>12, <2>1 DEF DataConn
  <2> QED
    BY <1>12, <2>3, <2>4 DEF DataConn
<1>13. ASSUME NEW s \in Sender, NotifyRsrcStatus(s) PROVE DaemonTypeOK'
  BY <1>13 DEF NotifyRsrcStatus
<1>14. ASSUME NEW s \in Sender, NEW kind \in Kind, Send(s, kind) PROVE DaemonTypeOK'
  BY <1>14 DEF Send, MsgSnd, Message
<1>15. ASSUME NEW s \in Sender, Read(s) PROVE DaemonTypeOK'
  BY <1>15 DEF Read
<1>16. CASE UNCHANGED daemonVars
  BY <1>16 DEF daemonVars
<1> QED
  BY <1>1, <1>2, <1>3, <1>4, <1>5, <1>6, <1>7, <1>8, <1>9, <1>10, <1>11, <1>12,
     <1>13, <1>14, <1>15, <1>16
     DEF DaemonNext, LaunchStep, ServerStep, DeferredStep

\* Every step keeps the invariant.
LEMMA DaemonNextInv == DaemonInv /\ [DaemonNext]_daemonVars => DaemonInv'
<1> SUFFICES ASSUME DaemonInv, [DaemonNext]_daemonVars PROVE DaemonInv'
  OBVIOUS
<1>1. DaemonTypeOK /\ DaemonTypeOK'
  BY DaemonTypes DEF DaemonInv
<1> USE DEF DaemonInv, HandshakeInv, PipesInv, AskedInv, ExitInv, Running, launchVars, dataVars
<1>2. CASE Launch
  BY <1>1, <1>2 DEF Launch
<1>3. CASE SpuriousWakeup
  BY <1>1, <1>3 DEF SpuriousWakeup
<1>4. CASE SignalWait
  BY <1>1, <1>4 DEF SignalWait, Returned, DaemonTypeOK
<1>5. CASE SignalWoken
  BY <1>1, <1>5 DEF SignalWoken, Returned, DaemonTypeOK
<1>6. ASSUME NEW p \in Pipe, OpenPipe(p) PROVE DaemonInv'
  <2>1. pipes'[p] # "absent" /\ \A q \in Pipe \ {p} : pipes'[q] = pipes[q]
    BY <1>1, <1>6 DEF OpenPipe, Made, DaemonTypeOK
  <2>2. PipesInv'
    BY <1>6, <2>1 DEF OpenPipe
  <2> QED
    BY <1>1, <1>6, <2>2 DEF OpenPipe
<1>7. CASE SignalReady
  BY <1>1, <1>7 DEF SignalReady
<1>8. CASE ReceiveFails \/ ReceiveInterrupted
  BY <1>1, <1>8 DEF ReceiveFails, ReceiveInterrupted, Stops
<1>9. CASE Ignore \/ Handle
  BY <1>1, <1>9 DEF Ignore, Handle
<1>10. CASE CheckExit
  BY <1>1, <1>10 DEF CheckExit
<1>11. ASSUME NEW p \in Pipe, RemovePipe(p) PROVE DaemonInv'
  <2>1. \A q \in Pipe : pipes'[q] \in {"gone", pipes[q]}
    BY <1>1, <1>11 DEF RemovePipe, Removed, DaemonTypeOK
  <2>2. PipesInv'
    BY <1>11, <2>1 DEF RemovePipe
  <2> QED
    BY <1>1, <1>11, <2>2 DEF RemovePipe
<1>12. CASE Take
  BY <1>1, <1>12 DEF Take
<1>13. CASE DataConn
  BY <1>1, <1>13 DEF DataConn
<1>14. ASSUME NEW s \in Sender, NotifyRsrcStatus(s) \/ Read(s) \/ \E kind \in Kind : Send(s, kind)
       PROVE  DaemonInv'
  <2>1. CASE NotifyRsrcStatus(s)
    BY <1>1, <2>1 DEF NotifyRsrcStatus
  <2>2. CASE Read(s) \/ \E kind \in Kind : Send(s, kind)
    <3>1. UNCHANGED <<launchVars, server, exit, pipes, fault, queue, answer, asked>>
      BY <2>2 DEF Read, Send
    <3> QED
      BY <1>1, <3>1
  <2> QED
    BY <1>14, <2>1, <2>2
<1>15. CASE UNCHANGED daemonVars
  BY <1>1, <1>15 DEF daemonVars
<1> QED
  BY <1>2, <1>3, <1>4, <1>5, <1>6, <1>7, <1>8, <1>9, <1>10, <1>11, <1>12, <1>13, <1>14, <1>15
     DEF DaemonNext, LaunchStep, ServerStep, DeferredStep

\* The invariant holds in every reachable state.
THEOREM DaemonInvHolds == DaemonSpec => []DaemonInv
BY DaemonInitInv, DaemonNextInv, PTL DEF DaemonSpec

\* An answer is for somebody who asked, the server was running by then, and its pipes
\* were made: no wait of the launcher is needed.
THEOREM AnswersHavePipeHolds == DaemonSpec => []AnswersHavePipe
<1>1. DaemonInv => AnswersHavePipe
  <2> SUFFICES ASSUME DaemonInv, answer # None PROVE pipes[answer.to] # "absent"
    BY DEF AnswersHavePipe
  <2>1. answer.to \in Pipe
    BY DEF DaemonInv, DaemonTypeOK, Pipe
  <2> QED
    BY <2>1 DEF DaemonInv, AskedInv, PipesInv
<1> QED
  BY <1>1, DaemonInvHolds, PTL

\* A launcher that waits for a thread is still to be signalled.
THEOREM WaitIsSignalledHolds == DaemonSpec => []WaitIsSignalled
<1>1. DaemonInv => WaitIsSignalled
  BY DEF DaemonInv, HandshakeInv, WaitIsSignalled
<1> QED
  BY <1>1, DaemonInvHolds, PTL

\* The server ends only because it could not receive.
THEOREM EndsForAReasonHolds == DaemonSpec => []EndsForAReason
<1>1. DaemonInv => EndsForAReason
  BY DEF DaemonInv, ExitInv, EndsForAReason
<1> QED
  BY <1>1, DaemonInvHolds, PTL

\* What the server's thread and the deferred thread ask of the queue between them
\* is what the message task is proved to give (MsgTask.cpp).
THEOREM UsesFifoHolds == DaemonSpec => UsesFifo
<1>1. DaemonInit => Task!Init
  BY DEF DaemonInit, Task!Init
<1>2. DaemonInv /\ [DaemonNext]_daemonVars => [Task!Next]_<<queue, FALSE>>
  <2> SUFFICES ASSUME DaemonInv, [DaemonNext]_daemonVars
               PROVE  \/ \E m \in [from : Sender, kind : {"request", "release"}] :
                            queue' = Append(queue, m)
                      \/ queue # <<>> /\ queue' = Tail(queue)
                      \/ UNCHANGED queue
    BY DEF Task!Next, Task!Put, Task!Take
  <2>1. CASE Handle
    <3>1. /\ queue' = Append(queue, Head(inbox)) /\ inbox # <<>>
          /\ Head(inbox).kind \in {"request", "release"}
      BY <2>1 DEF Handle
    <3>2. Head(inbox) \in [from : Sender, kind : {"request", "release"}]
      <4>1. Head(inbox) \in Message
        BY <3>1 DEF DaemonInv, DaemonTypeOK
      <4> QED
        BY <3>1, <4>1, DaemonAssumption DEF Message
    <3> QED
      BY <3>1, <3>2
  <2>2. CASE Take
    BY <2>2 DEF Take
  <2>3. CASE LaunchStep \/ Launch \/ SpuriousWakeup \/ ReceiveInterrupted
    BY <2>3 DEF LaunchStep, SignalWait, SignalWoken, Launch, SpuriousWakeup,
                ReceiveInterrupted, Stops, dataVars
  <2>4. CASE \/ \E p \in Pipe : OpenPipe(p) \/ RemovePipe(p)
             \/ SignalReady \/ ReceiveFails \/ Ignore \/ CheckExit
    BY <2>4 DEF OpenPipe, RemovePipe, SignalReady, ReceiveFails, Stops, Ignore, CheckExit,
                dataVars
  <2>5. CASE \/ DataConn \/ UNCHANGED daemonVars
             \/ \E s \in Sender : \/ NotifyRsrcStatus(s)
                                  \/ \E kind \in Kind : Send(s, kind)
                                  \/ Read(s)
    BY <2>5 DEF DataConn, NotifyRsrcStatus, Send, MsgSnd, Read, daemonVars, dataVars
  <2> QED
    BY <2>1, <2>2, <2>3, <2>4, <2>5 DEF DaemonNext, ServerStep, DeferredStep
<1> QED
  BY <1>1, <1>2, DaemonInvHolds, PTL DEF DaemonSpec, UsesFifo, Task!Spec
=============================================================================
