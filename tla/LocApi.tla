------------------------------- MODULE LocApi -------------------------------
(***************************************************************************)
(* LocApiBase (gps/core/LocApiBase.cpp): the array of adapters that share  *)
(* one connection to the modem, the events the connection is opened for,   *)
(* and how the modem's indications reach the adapters.                     *)
(*                                                                         *)
(* Three threads meet on the array mLocAdapters, which no lock protects.   *)
(* A client's thread adds adapters and removes them (the constructor and   *)
(* the destructor of LocAdapterBase) and changes the events an adapter     *)
(* wants; the modem's thread walks the array for each indication; and the  *)
(* deferred thread walks it for the events when it reopens the connection. *)
(* A walk reads one slot at a time, so it can meet the array in the middle *)
(* of a removal.                                                           *)
(*                                                                         *)
(* Registrations come one after the other: two threads that add or remove  *)
(* at once are left out (see README).  What open() and close() do with the *)
(* modem is not in this tree; the model takes open() to add events, which  *)
(* is what addAdapter relies on when it opens for the new adapter only.    *)
(***************************************************************************)
EXTENDS Naturals, Sequences

CONSTANTS
    Adapter,      \* adapters, each constructed and destroyed at most once
    None,         \* NULL
    Event,        \* bits of LOC_API_ADAPTER_EVENT_MASK_T
    Wanted,       \* Wanted[a]: the events a is constructed with
    Excluded,     \* mExcludedMask
    Handler,      \* adapters with mSupportsAgpsRequests
    MaxAdapters,  \* MAX_ADAPTERS, 10 in the code
    MaxUpdates,   \* bound: changes of an adapter's events
    MaxReports    \* bound: indications of the modem, its restarts included

ASSUME AdaptersAssumption ==
    /\ None \notin Adapter /\ Handler \subseteq Adapter
    /\ Wanted \in [Adapter -> SUBSET Event]
    /\ MaxAdapters \in Nat \ {0}
    /\ MaxUpdates \in Nat /\ MaxReports \in Nat

Slot == 0 .. MaxAdapters - 1

VARIABLES
    slots,     \* mLocAdapters
    evtMask,   \* mEvtMask of each adapter
    fresh,     \* adapters that are not constructed yet
    client,    \* the client's thread: what it is doing
    queue,     \* messages to the deferred thread
    deferred,  \* the deferred thread: what it is doing
    api,       \* the connection: open or not, the events the modem reports
    down,      \* the modem has restarted and has not announced itself
    report,    \* the modem's thread: the indication it delivers
    updates, reports

clientVars == <<slots, evtMask, fresh, client, updates>>
modemVars == <<down, report, reports>>
vars == <<clientVars, queue, deferred, api, modemVars>>

\* client.of is the adapter, hole the slot it left, last the one moved to it.
Free == [pc |-> "free", of |-> None, hole |-> 0, last |-> 0]
\* deferred.mask is what getEvtMask has collected up to slot at.
Idle == [pc |-> "idle", at |-> 0, mask |-> {}]
\* got counts calls of each adapter; due are the adapters that were listed at
\* the start and still are; torn tells that a removal met the walk.
Quiet == [pc |-> "quiet", all |-> TRUE, at |-> 0, due |-> {},
          got |-> [a \in Adapter |-> 0], handled |-> FALSE, torn |-> FALSE]

Msg == [type : {"open"}, mask : SUBSET Event] \cup [type : {"ssr"}]
OpenMsg(m) == [type |-> "open", mask |-> m]

Listed == {slots[i] : i \in Slot} \ {None}
Ends(at) == ~(at \in Slot /\ slots[at] # None)
Removing == client.pc \in {"hole", "filled"}

\* getEvtMask, read by the thread that changes the array.
EvtMask == (UNION {evtMask[a] : a \in Listed}) \ Excluded

-----------------------------------------------------------------------------
(* A client's thread.                                                       *)

\* Mutant: the search stops at the first slot.
AddAdapter_First(a) ==
    /\ client = Free /\ a \in fresh
    /\ fresh' = fresh \ {a}
    /\ slots' = [slots EXCEPT ![0] = a]
    /\ client' = [Free EXCEPT !.pc = "added", !.of = a]
    /\ UNCHANGED <<evtMask, updates, queue, deferred, api, modemVars>>

\* addAdapter takes the first empty slot; without one it does nothing.
AddAdapter(a) ==
    /\ client = Free /\ a \in fresh
    /\ fresh' = fresh \ {a}
    /\ \/ \E i \in Slot :
            /\ slots[i] = None /\ \A j \in 0 .. i - 1 : slots[j] # None
            /\ slots' = [slots EXCEPT ![i] = a]
            /\ client' = [Free EXCEPT !.pc = "added", !.of = a]
       \/ (\A i \in Slot : slots[i] # None) /\ UNCHANGED <<slots, client>>
    /\ UNCHANGED <<evtMask, updates, queue, deferred, api, modemVars>>

\* LocAdapterBase::updateEvtMask
UpdateEvtMask(a, e) ==
    /\ client = Free /\ a \notin fresh /\ a \in Listed
    /\ updates < MaxUpdates /\ updates' = updates + 1
    /\ evtMask' = [evtMask EXCEPT ![a] = IF e \in @ THEN @ \ {e} ELSE @ \cup {e}]
    /\ client' = [Free EXCEPT !.pc = "changed"]
    /\ UNCHANGED <<slots, fresh, queue, deferred, api, modemVars>>

\* removeAdapter: first the adapter's slot becomes empty.
RemoveAdapter(a) ==
    /\ client = Free
    /\ \E i \in Slot : /\ slots[i] = a
                       /\ slots' = [slots EXCEPT ![i] = None]
                       /\ client' = [Free EXCEPT !.pc = "hole", !.hole = i]
    /\ report' = IF report.pc = "walk" THEN [report EXCEPT !.due = @ \ {a}, !.torn = TRUE]
                                      ELSE report
    /\ UNCHANGED <<evtMask, fresh, updates, queue, deferred, api, down, reports>>

\* i is the last slot of the run of adapters behind the hole, or the hole itself
\* if there is none.
IsLast(i, hole) ==
    /\ i >= hole
    /\ \A j \in hole + 1 .. i : slots[j] # None
    /\ i + 1 \in Slot => slots[i + 1] = None

\* Then the last adapter is copied to it,
FillHole ==
    /\ client.pc = "hole"
    /\ \E i \in Slot :
          /\ IsLast(i, client.hole)
          /\ slots' = [slots EXCEPT ![client.hole] = slots[i]]
          /\ client' = [client EXCEPT !.pc = "filled", !.last = i]
    /\ UNCHANGED <<evtMask, fresh, updates, queue, deferred, api, modemVars>>

\* and its old slot is cleared.
ClearLast ==
    /\ client.pc = "filled"
    /\ slots' = [slots EXCEPT ![client.last] = None]
    /\ client' = [Free EXCEPT !.pc = IF client.last = 0 THEN "empty" ELSE "changed"]
    /\ UNCHANGED <<evtMask, fresh, updates, queue, deferred, api, modemVars>>

\* With no adapter left the connection is closed, in this thread;
CloseWhenEmpty ==
    /\ client.pc = "empty"
    /\ client' = Free
    /\ api' = [open |-> FALSE, mask |-> {}]
    /\ UNCHANGED <<slots, evtMask, fresh, updates, queue, deferred, modemVars>>

\* Mutant: after a removal nothing is sent.
SendOpen_OnlyAdded ==
    /\ client.pc \in {"added", "changed"}
    /\ client' = Free
    /\ queue' = IF client.pc = "added" THEN Append(queue, OpenMsg(evtMask[client.of]))
                                       ELSE queue
    /\ UNCHANGED <<slots, evtMask, fresh, updates, deferred, api, modemVars>>

\* otherwise, and after an addition or a change, it is to be opened anew.
SendOpen ==
    /\ client.pc \in {"added", "changed"}
    /\ client' = Free
    /\ queue' = Append(queue, OpenMsg(IF client.pc = "added" THEN evtMask[client.of]
                                                             ELSE EvtMask))
    /\ UNCHANGED <<slots, evtMask, fresh, updates, deferred, api, modemVars>>

-----------------------------------------------------------------------------
(* The deferred thread.                                                     *)

\* open(mask) of the connection: a modem that is down may not hear it.
Opened(mask) ==
    \E heard \in IF down THEN BOOLEAN ELSE {TRUE} :
       api' = [open |-> TRUE,
               mask |-> api.mask \cup IF heard THEN mask \ Excluded ELSE {}]

\* LocOpenMsg
Open ==
    /\ deferred = Idle /\ queue # <<>> /\ Head(queue).type = "open"
    /\ queue' = Tail(queue)
    /\ Opened(Head(queue).mask)
    /\ UNCHANGED <<clientVars, deferred, modemVars>>

\* LocSsrMsg closes the connection,
Ssr ==
    /\ deferred = Idle /\ queue # <<>> /\ Head(queue).type = "ssr"
    /\ queue' = Tail(queue)
    /\ api' = [open |-> FALSE, mask |-> {}]
    /\ deferred' = [Idle EXCEPT !.pc = "collect"]
    /\ UNCHANGED <<clientVars, modemVars>>

\* collects the events of the adapters, slot by slot (getEvtMask),
Collect ==
    /\ deferred.pc = "collect"
    /\ deferred' = IF Ends(deferred.at)
                     THEN [deferred EXCEPT !.pc = "open"]
                     ELSE [deferred EXCEPT !.at = @ + 1,
                             !.mask = @ \cup evtMask[slots[deferred.at]]]
    /\ UNCHANGED <<clientVars, queue, api, modemVars>>

\* and opens it for them.
Reopen ==
    /\ deferred.pc = "open"
    /\ deferred' = Idle
    /\ Opened(deferred.mask)
    /\ UNCHANGED <<clientVars, queue, modemVars>>

-----------------------------------------------------------------------------
(* The modem's thread.                                                      *)

\* An indication for all adapters, or for the first that handles it.
Begin(all) ==
    report' = [Quiet EXCEPT !.pc = "walk", !.all = all, !.due = Listed,
                            !.torn = Removing]

\* reportPosition, reportSv, ...: all; requestATL, requestTime, ...: one.
Indicate(all) ==
    /\ report = Quiet /\ ~down /\ reports < MaxReports
    /\ reports' = reports + 1
    /\ Begin(all)
    /\ UNCHANGED <<clientVars, queue, deferred, api, down>>

\* handleEngineDownEvent: the modem has forgotten the events.
EngineDown ==
    /\ report = Quiet /\ ~down /\ reports < MaxReports
    /\ reports' = reports + 1
    /\ down' = TRUE
    /\ api' = [api EXCEPT !.mask = {}]
    /\ Begin(TRUE)
    /\ UNCHANGED <<clientVars, queue, deferred>>

\* Mutant: the connection is not renegotiated.
EngineUp_NoSsr ==
    /\ report = Quiet /\ down
    /\ down' = FALSE
    /\ Begin(TRUE)
    /\ UNCHANGED <<clientVars, queue, deferred, api, reports>>

\* handleEngineUpEvent
EngineUp ==
    /\ report = Quiet /\ down
    /\ down' = FALSE
    /\ queue' = Append(queue, [type |-> "ssr"])
    /\ Begin(TRUE)
    /\ UNCHANGED <<clientVars, deferred, api, reports>>

\* Mutant: a request goes on to the next adapter after it was handled.
Finished_Never == Ends(report.at)

Finished == Ends(report.at) \/ report.handled

\* The handlers of LocEngAdapter for requests send a message to the deferred
\* thread and return true; those of LocAdapterBase do nothing and return false.
Handles(a) == a \in Handler

\* TO_ALL_ADAPTERS and TO_1ST_HANDLING_ADAPTER: the next adapter is called.
Deliver ==
    /\ report.pc = "walk" /\ ~Finished
    /\ LET a == slots[report.at]
       IN  report' = [report EXCEPT !.at = @ + 1, !.got[a] = @ + 1,
                                    !.handled = ~report.all /\ Handles(a)]
    /\ UNCHANGED <<clientVars, queue, deferred, api, down, reports>>

Return ==
    /\ report.pc = "walk" /\ Finished
    /\ report' = Quiet
    /\ UNCHANGED <<clientVars, queue, deferred, api, down, reports>>

-----------------------------------------------------------------------------
Init ==
    /\ slots = [i \in Slot |-> None] /\ evtMask = Wanted /\ fresh = Adapter
    /\ client = Free /\ queue = <<>> /\ deferred = Idle
    /\ api = [open |-> FALSE, mask |-> {}] /\ down = FALSE
    /\ report = Quiet
    /\ updates = 0 /\ reports = 0

ClientStep == FillHole \/ ClearLast \/ CloseWhenEmpty \/ SendOpen
DeferredStep == Open \/ Ssr \/ Collect \/ Reopen
ModemStep == EngineUp \/ Deliver \/ Return

Next ==
    \/ \E a \in Adapter : \/ AddAdapter(a)
                          \/ RemoveAdapter(a)
                          \/ \E e \in Event : UpdateEvtMask(a, e)
    \/ ClientStep
    \/ DeferredStep
    \/ ModemStep
    \/ \E all \in BOOLEAN : Indicate(all)
    \/ EngineDown

Spec == Init /\ [][Next]_vars

\* A thread that runs goes on, the deferred thread handles its messages, and a
\* modem that restarts comes up again.
FairSpec == /\ Spec
            /\ WF_vars(ClientStep) /\ WF_vars(DeferredStep) /\ WF_vars(ModemStep)

-----------------------------------------------------------------------------
(* What holds.                                                              *)

Returning == report.pc = "walk" /\ Finished

TypeOK ==
    /\ slots \in [Slot -> Adapter \cup {None}]
    /\ evtMask \in [Adapter -> SUBSET Event] /\ fresh \subseteq Adapter
    /\ client \in [pc : {"free", "added", "changed", "hole", "filled", "empty"},
                   of : Adapter \cup {None}, hole : Slot, last : Slot]
    /\ queue \in Seq(Msg)
    /\ deferred \in [pc : {"idle", "collect", "open"}, at : 0 .. MaxAdapters,
                     mask : SUBSET Event]
    /\ api \in [open : BOOLEAN, mask : SUBSET Event]
    /\ down \in BOOLEAN
    /\ report \in [pc : {"quiet", "walk"}, all : BOOLEAN,
                   at : 0 .. MaxAdapters, due : SUBSET Adapter,
                   got : [Adapter -> Nat], handled : BOOLEAN, torn : BOOLEAN]
    /\ updates \in Nat /\ reports \in Nat

\* Between registrations the adapters fill the array from its start, without
\* holes and each in one slot only: the walks, which end at the first empty
\* slot, rely on it (LocApiBase.cpp, removeAdapter).
Compact ==
    ~Removing => /\ \A i, j \in Slot : i < j /\ slots[j] # None => slots[i] # None
                 /\ \A i, j \in Slot : slots[i] = slots[j] /\ slots[i] # None => i = j

\* A report that no removal met was given to each adapter that was there when
\* it began, and to none twice, whatever was added meanwhile
\* (TO_ALL_LOCADAPTERS).
ReportedOnce ==
    Returning /\ report.all /\ ~report.torn =>
       /\ \A a \in report.due : report.got[a] = 1
       /\ \A a \in Adapter : report.got[a] <= 1

\* A request that no removal met was handled by one adapter if there was one
\* that handles requests, and by no second one (TO_1ST_HANDLING_LOCADAPTERS).
HandledByOne ==
    Returning /\ ~report.all /\ ~report.torn =>
       /\ report.due \cap Handler # {} => report.handled
       /\ \A a, b \in Handler : report.got[a] > 0 /\ report.got[b] > 0 => a = b

\* The modem reports what the adapters in the array want.
Covers == Listed # {} => /\ api.open
                         /\ \A a \in Listed : evtMask[a] \ Excluded \subseteq api.mask

\* When nobody has anything left to do, the connection is open for the events
\* of all adapters: also when a restart (LocSsrMsg) collected the events in
\* the middle of a removal, or the connection was closed before a message that
\* opens it was handled.
SettledCovers ==
    client = Free /\ queue = <<>> /\ deferred = Idle /\ ~down => Covers

\* Whatever the modem and the clients do, the events of the adapters are
\* reported again after a while (handleEngineUpEvent, removeAdapter).
CoversAgain == []<>Covers

\* Each step uses the queue of the deferred thread as one that promises what
\* Fifo says: it puts one message in, takes the oldest out, or leaves it alone.
Task == INSTANCE Fifo WITH stopped <- FALSE
UsesFifo == Task!Spec

-----------------------------------------------------------------------------
(* What does not hold.                                                      *)

\* "loop through adapters, and deliver to all adapters": a report reaches each
\* adapter that was in the array all the time.
DeliversToAll ==
    Returning /\ report.all => \A a \in report.due : report.got[a] >= 1
=============================================================================
