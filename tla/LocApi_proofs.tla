----------------------------- MODULE LocApi_proofs -----------------------------
(* Safety of LocApi, for any adapters, events and size of the array: the array *)
(* is tidy between registrations, and a walk that no removal meets reaches     *)
(* every adapter that is there, once; and an event that an adapter wants is    *)
(* reported or on its way to be.                                               *)
EXTENDS LocApi, TLAPS

\* An adapter that is not constructed is in no slot.
FreshUnlisted == \A i \in Slot : slots[i] \notin fresh

\* Of a removal, the hole and the slot whose adapter fills it.
Moving(i, j) == client.pc = "filled" /\ {i, j} = {client.hole, client.last}

\* Each adapter is in one slot, but for the one that is being moved.
OneSlot ==
    \A i, j \in Slot : slots[i] = slots[j] /\ slots[i] # None => i = j \/ Moving(i, j)

\* Only a removal makes a hole.
NoHole ==
    \A i, j \in Slot : i < j /\ slots[j] # None =>
        slots[i] # None \/ (client.pc = "hole" /\ i = client.hole)

\* What a removal has done so far.
Removal ==
    /\ client.pc = "hole" => slots[client.hole] = None
    /\ client.pc = "filled" =>
         /\ slots[client.last] = slots[client.hole]
         /\ \A j \in Slot : j > client.last => slots[j] = None

\* The slots a walk has passed, and what it did there.
Passed(a) == \E i \in Slot : i < report.at /\ slots[i] = a

\* A walk that no removal has met.
Whole == report.pc = "walk" /\ ~report.torn

WalkInv ==
    Whole =>
      /\ ~Removing
      /\ report.due \subseteq Listed
      /\ \A i \in Slot : i < report.at => slots[i] # None
      /\ \A a \in Adapter : report.got[a] = IF Passed(a) THEN 1 ELSE 0
      /\ report.handled => ~report.all
      /\ ~report.all => \A i \in Slot : i < report.at /\ slots[i] \in Handler =>
                           report.handled /\ i + 1 = report.at

AddedAdapter == client.pc = "added" => client.of \in Adapter

ArrayInv == FreshUnlisted /\ OneSlot /\ NoHole /\ Removal

IInv == TypeOK /\ AddedAdapter /\ ArrayInv /\ WalkInv

-----------------------------------------------------------------------------
(* Types.                                                                      *)

\* The messages that open the connection are messages.
LEMMA OpenMsgIsMsg ==
    ASSUME NEW mask \in SUBSET Event PROVE OpenMsg(mask) \in Msg
BY DEF OpenMsg, Msg

\* The adapters in the array, and what they want.
LEMMA ListedAdapters == TypeOK => Listed \subseteq Adapter /\ EvtMask \subseteq Event
BY DEF TypeOK, Listed, EvtMask

\* A step of the client's thread keeps the types.
LEMMA ClientTypes ==
    ASSUME TypeOK, AddedAdapter,
           \/ \E a \in Adapter : \/ AddAdapter(a) \/ RemoveAdapter(a)
                                 \/ \E e \in Event : UpdateEvtMask(a, e)
           \/ ClientStep
    PROVE  TypeOK' /\ AddedAdapter'
<1> USE AdaptersAssumption DEF clientVars, modemVars, AddedAdapter
<1>0. 0 \in Slot
  BY DEF Slot
<1>1. ASSUME NEW a \in Adapter, AddAdapter(a) PROVE TypeOK' /\ AddedAdapter'
  <2>1. /\ slots' \in [Slot -> Adapter \cup {None}]
        /\ client' \in [pc : {"free", "added", "changed", "hole", "filled", "empty"},
                        of : Adapter \cup {None}, hole : Slot, last : Slot]
        /\ AddedAdapter'
    <3>1. ASSUME NEW i \in Slot, slots' = [slots EXCEPT ![i] = a],
                 client' = [Free EXCEPT !.pc = "added", !.of = a]
          PROVE  <2>1
      BY <1>0, <3>1 DEF TypeOK, Free
    <3>2. CASE UNCHANGED <<slots, client>>
      BY <3>2 DEF TypeOK
    <3> QED
      BY <1>1, <3>1, <3>2 DEF AddAdapter
  <2> QED
    BY <1>1, <2>1 DEF AddAdapter, TypeOK
<1>2. ASSUME NEW a \in Adapter, RemoveAdapter(a) PROVE TypeOK' /\ AddedAdapter'
  BY <1>0, <1>2 DEF RemoveAdapter, TypeOK, Free
<1>3. ASSUME NEW a \in Adapter, NEW e \in Event, UpdateEvtMask(a, e)
      PROVE  TypeOK' /\ AddedAdapter'
  BY <1>0, <1>3 DEF UpdateEvtMask, TypeOK, Free
<1>4. CASE FillHole
  <2>1. PICK i \in Slot : /\ slots' = [slots EXCEPT ![client.hole] = slots[i]]
                          /\ client' = [client EXCEPT !.pc = "filled", !.last = i]
    BY <1>4 DEF FillHole
  <2>2. slots' \in [Slot -> Adapter \cup {None}]
    BY <2>1 DEF TypeOK
  <2>3. /\ client' \in [pc : {"free", "added", "changed", "hole", "filled", "empty"},
                        of : Adapter \cup {None}, hole : Slot, last : Slot]
        /\ client'.pc = "filled"
    BY <2>1 DEF TypeOK
  <2> QED
    BY <1>4, <2>2, <2>3 DEF FillHole, TypeOK
<1>5. CASE ClearLast
  BY <1>0, <1>5 DEF ClearLast, TypeOK, Free
<1>6. CASE CloseWhenEmpty
  BY <1>0, <1>6 DEF CloseWhenEmpty, TypeOK, Free
<1>7. CASE SendOpen
  <2>1. PICK mask \in SUBSET Event : queue' = Append(queue, OpenMsg(mask))
    BY <1>7, ListedAdapters DEF SendOpen, TypeOK
  <2>2. queue' \in Seq(Msg)
    BY <2>1, OpenMsgIsMsg DEF TypeOK
  <2> QED
    BY <1>0, <1>7, <2>2 DEF SendOpen, TypeOK, Free
<1> QED
  BY <1>1, <1>2, <1>3, <1>4, <1>5, <1>6, <1>7 DEF ClientStep

\* A step of the deferred thread keeps the types.
LEMMA DeferredTypes ==
    ASSUME TypeOK, AddedAdapter, DeferredStep PROVE TypeOK' /\ AddedAdapter'
<1> USE AdaptersAssumption DEF clientVars, modemVars, AddedAdapter
<1>0. ASSUME NEW mask \in SUBSET Event, Opened(mask)
      PROVE  api' \in [open : BOOLEAN, mask : SUBSET Event]
  BY <1>0 DEF Opened, TypeOK
<1>1. CASE Open
  <2>1. queue' \in Seq(Msg) /\ Head(queue) \in Msg
    BY <1>1 DEF Open, TypeOK
  <2>2. Head(queue).mask \in SUBSET Event
    BY <1>1, <2>1 DEF Open, Msg
  <2>3. api' \in [open : BOOLEAN, mask : SUBSET Event]
    BY <1>0, <1>1, <2>2 DEF Open
  <2> QED
    BY <1>1, <2>1, <2>3 DEF Open, TypeOK
<1>2. CASE Ssr
  <2>1. queue' \in Seq(Msg)
    BY <1>2 DEF Ssr, TypeOK
  <2> QED
    BY <1>2, <2>1 DEF Ssr, TypeOK, Idle
<1>3. CASE Collect
  <2>1. CASE Ends(deferred.at)
    BY <1>3, <2>1 DEF Collect, TypeOK
  <2>2. CASE ~Ends(deferred.at)
    <3>1. slots[deferred.at] \in Adapter /\ deferred.at + 1 \in 0 .. MaxAdapters
      BY <2>2 DEF Ends, Slot, TypeOK
    <3>2. evtMask[slots[deferred.at]] \subseteq Event
      BY <3>1 DEF TypeOK
    <3>3. deferred' \in [pc : {"idle", "collect", "open"}, at : 0 .. MaxAdapters,
                         mask : SUBSET Event]
      BY <1>3, <2>2, <3>1, <3>2 DEF Collect, TypeOK
    <3> QED
      BY <1>3, <3>3 DEF Collect, TypeOK
  <2> QED
    BY <2>1, <2>2
<1>4. CASE Reopen
  <2>1. api' \in [open : BOOLEAN, mask : SUBSET Event]
    BY <1>0, <1>4 DEF Reopen, TypeOK
  <2> QED
    BY <1>4, <2>1 DEF Reopen, TypeOK, Idle
<1> QED
  BY <1>1, <1>2, <1>3, <1>4 DEF DeferredStep

\* A step of the modem's thread keeps the types.
LEMMA ModemTypes ==
    ASSUME TypeOK, AddedAdapter, ModemStep \/ (\E all \in BOOLEAN : Indicate(all)) \/ EngineDown
    PROVE  TypeOK' /\ AddedAdapter'
<1> USE AdaptersAssumption DEF clientVars, modemVars, AddedAdapter
<1>0. ASSUME NEW all \in BOOLEAN, Begin(all)
      PROVE  report' \in [pc : {"quiet", "walk"}, all : BOOLEAN,
                   at : 0 .. MaxAdapters, due : SUBSET Adapter,
                   got : [Adapter -> Nat], handled : BOOLEAN, torn : BOOLEAN]
  <2>1. Listed \subseteq Adapter /\ Removing \in BOOLEAN
    BY ListedAdapters DEF Removing
  <2>2. 0 \in 0 .. MaxAdapters /\ [a \in Adapter |-> 0] \in [Adapter -> Nat]
    OBVIOUS
  <2> QED
    BY <1>0, <2>1, <2>2 DEF Begin, Quiet
<1>1. ASSUME NEW all \in BOOLEAN, Indicate(all) PROVE TypeOK' /\ AddedAdapter'
  BY <1>0, <1>1 DEF Indicate, TypeOK
<1>2. CASE EngineDown
  <2>1. api' \in [open : BOOLEAN, mask : SUBSET Event]
    BY <1>2 DEF EngineDown, TypeOK
  <2>2. Begin(TRUE)
    BY <1>2 DEF EngineDown
  <2>3. report' \in [pc : {"quiet", "walk"}, all : BOOLEAN,
                     at : 0 .. MaxAdapters, due : SUBSET Adapter,
                     got : [Adapter -> Nat], handled : BOOLEAN, torn : BOOLEAN]
    BY <1>0, <2>2
  <2> QED
    BY <1>2, <2>1, <2>3 DEF EngineDown, TypeOK
<1>3. CASE EngineUp
  <2>1. queue' \in Seq(Msg)
    BY <1>3 DEF EngineUp, TypeOK, Msg
  <2> QED
    BY <1>0, <1>3, <2>1 DEF EngineUp, TypeOK
<1>4. CASE Deliver
  <2> DEFINE a == slots[report.at]
  <2>1. a \in Adapter /\ report.at + 1 \in 0 .. MaxAdapters
    BY <1>4 DEF Deliver, Finished, Ends, Slot, TypeOK
  <2>2. report' = [report EXCEPT !.at = report.at + 1,
                                 !.got = [report.got EXCEPT ![a] = @ + 1],
                                 !.handled = ~report.all /\ Handles(a)]
    BY <1>4 DEF Deliver, TypeOK
  <2>3. (~report.all /\ Handles(a)) \in BOOLEAN
    OBVIOUS
  <2>4. [report.got EXCEPT ![a] = @ + 1] \in [Adapter -> Nat]
    BY <2>1 DEF TypeOK
  <2> HIDE DEF a
  <2> QED
    BY <1>4, <2>1, <2>2, <2>3, <2>4 DEF Deliver, TypeOK
<1>5. CASE Return
  BY <1>5 DEF Return, Quiet, TypeOK
<1> QED
  BY <1>1, <1>2, <1>3, <1>4, <1>5 DEF ModemStep

-----------------------------------------------------------------------------
(* The array.                                                                  *)

\* A step that leaves the array and its thread alone keeps the array tidy.
LEMMA ArrayUnchanged ==
    ASSUME ArrayInv, UNCHANGED <<slots, fresh, client>> PROVE ArrayInv'
BY DEF ArrayInv, FreshUnlisted, OneSlot, NoHole, Removal, Moving

\* An adapter is added behind the others.
LEMMA AddKeepsArray ==
    ASSUME TypeOK, ArrayInv, NEW a \in Adapter, AddAdapter(a) PROVE ArrayInv'
<1> USE AdaptersAssumption
<1>1. CASE UNCHANGED <<slots, client>>
  BY <1>1
     DEF AddAdapter, ArrayInv, FreshUnlisted, OneSlot, NoHole, Removal, Moving
<1>2. ASSUME NEW i \in Slot, slots[i] = None, \A j \in 0 .. i - 1 : slots[j] # None,
             slots' = [slots EXCEPT ![i] = a],
             client' = [Free EXCEPT !.pc = "added", !.of = a]
      PROVE  ArrayInv'
  <2>1. client.pc = "free" /\ client'.pc = "added" /\ a \in fresh /\ fresh' = fresh \ {a}
    BY <1>2 DEF AddAdapter, Free
  <2>2. \A k \in Slot : slots'[k] = IF k = i THEN a ELSE slots[k]
    BY <1>2 DEF TypeOK
  <2>3. \A k \in Slot : slots[k] # a
    BY <2>1 DEF ArrayInv, FreshUnlisted
  <2>4. FreshUnlisted'
    BY <2>1, <2>2 DEF ArrayInv, FreshUnlisted
  <2>5. OneSlot'
    BY <2>1, <2>2, <2>3 DEF ArrayInv, OneSlot, Moving
  <2>6. \A j, k \in Slot : j < k /\ slots[k] # None => slots[j] # None
    BY <2>1 DEF ArrayInv, NoHole
  <2>7. \A j \in Slot : j < i => slots[j] # None
    BY <1>2 DEF Slot
  <2>8. NoHole'
    BY <2>2, <2>6, <2>7 DEF NoHole
  <2>9. Removal'
    BY <2>1 DEF Removal
  <2> QED
    BY <2>4, <2>5, <2>8, <2>9 DEF ArrayInv
<1> QED
  BY <1>1, <1>2 DEF AddAdapter

\* A removal begins with a hole.
LEMMA RemoveKeepsArray ==
    ASSUME TypeOK, ArrayInv, NEW a \in Adapter, RemoveAdapter(a) PROVE ArrayInv'
<1>1. PICK i \in Slot : /\ slots[i] = a
                        /\ slots' = [slots EXCEPT ![i] = None]
                        /\ client' = [Free EXCEPT !.pc = "hole", !.hole = i]
  BY DEF RemoveAdapter
<1>2. /\ client.pc = "free" /\ client'.pc = "hole" /\ client'.hole = i
      /\ UNCHANGED fresh
  BY <1>1 DEF RemoveAdapter, Free
<1>3. \A k \in Slot : slots'[k] = IF k = i THEN None ELSE slots[k]
  BY <1>1 DEF TypeOK
<1>4. FreshUnlisted'
  BY <1>2, <1>3, AdaptersAssumption DEF ArrayInv, FreshUnlisted, TypeOK
<1>5. OneSlot'
  BY <1>2, <1>3 DEF ArrayInv, OneSlot, Moving
<1>6. NoHole'
  BY <1>2, <1>3 DEF ArrayInv, NoHole
<1>7. Removal'
  BY <1>2, <1>3 DEF Removal
<1> QED
  BY <1>4, <1>5, <1>6, <1>7 DEF ArrayInv

\* The adapter of the last slot is in two slots then, the hole is none, and
\* nothing is behind the last slot.
LEMMA FillKeepsArray ==
    ASSUME TypeOK, ArrayInv, FillHole PROVE ArrayInv'
<1> USE AdaptersAssumption
<1>1. PICK i \in Slot : /\ IsLast(i, client.hole)
                        /\ slots' = [slots EXCEPT ![client.hole] = slots[i]]
                        /\ client' = [client EXCEPT !.pc = "filled", !.last = i]
  BY DEF FillHole
<1> DEFINE h == client.hole
<1>2. /\ client.pc = "hole" /\ client'.pc = "filled" /\ client'.hole = h /\ client'.last = i
      /\ h \in Slot /\ UNCHANGED fresh
  BY <1>1 DEF FillHole, TypeOK
<1>3. \A k \in Slot : slots'[k] = IF k = h THEN slots[i] ELSE slots[k]
  BY <1>1 DEF TypeOK
<1>4. slots[h] = None /\ i >= h
  BY <1>1, <1>2 DEF ArrayInv, Removal, IsLast
<1>5. i # h => slots[i] # None
  BY <1>1, <1>2 DEF IsLast, Slot
<1>6. \A k \in Slot : k > i => slots[k] = None
  <2> SUFFICES ASSUME NEW k \in Slot, k > i, slots[k] # None PROVE FALSE
    OBVIOUS
  <2>1. i + 1 \in Slot
    BY DEF Slot
  <2>2. slots[i + 1] = None
    BY <1>1, <2>1 DEF IsLast
  <2>3. i + 1 = k \/ i + 1 < k
    BY DEF Slot
  <2>4. i + 1 # h
    BY <1>2, <1>4 DEF Slot
  <2> QED
    BY <1>2, <2>1, <2>2, <2>3, <2>4 DEF ArrayInv, NoHole
<1> HIDE DEF h
<1>7. FreshUnlisted'
  BY <1>2, <1>3 DEF ArrayInv, FreshUnlisted
<1>8. OneSlot'
  <2>1. \A j, k \in Slot : slots[j] = slots[k] /\ slots[j] # None => j = k
    BY <1>2 DEF ArrayInv, OneSlot, Moving
  <2>2. \A j \in Slot : slots'[j] = slots'[h] /\ slots'[h] # None => j = h \/ j = i
    BY <1>2, <1>3, <2>1
  <2> QED
    BY <1>2, <1>3, <2>1, <2>2 DEF OneSlot, Moving
<1>9. NoHole'
  <2> SUFFICES ASSUME NEW j \in Slot, NEW k \in Slot, j < k, slots'[k] # None
               PROVE  slots'[j] # None
    BY DEF NoHole
  <2>1. k <= i
    BY <1>2, <1>3, <1>4, <1>6 DEF Slot
  <2>2. CASE j = h
    BY <1>2, <1>3, <1>5, <2>1, <2>2 DEF Slot
  <2>3. CASE j # h /\ k # h
    BY <1>2, <1>3, <2>3 DEF ArrayInv, NoHole, h
  <2>4. CASE k = h
    <3>1. i # h => slots[j] # None
      BY <1>2, <1>4, <1>5, <2>4 DEF ArrayInv, NoHole, Slot
    <3>2. i # h
      BY <1>3, <1>4, <2>4
    <3> QED
      BY <1>3, <2>4, <3>1, <3>2 DEF Slot
  <2> QED
    BY <2>2, <2>3, <2>4
<1>10. Removal'
  BY <1>2, <1>3, <1>4, <1>6 DEF Removal, Slot
<1> QED
  BY <1>7, <1>8, <1>9, <1>10 DEF ArrayInv

\* The last slot is cleared, and the array is tidy again.
LEMMA ClearKeepsArray ==
    ASSUME TypeOK, ArrayInv, ClearLast PROVE ArrayInv'
<1> DEFINE l == client.last
<1>1. /\ client.pc = "filled" /\ client'.pc \notin {"hole", "filled"}
      /\ l \in Slot /\ UNCHANGED fresh
  BY DEF ClearLast, Free, TypeOK
<1>2. \A k \in Slot : slots'[k] = IF k = l THEN None ELSE slots[k]
  BY DEF ClearLast, TypeOK
<1>3. slots[l] = slots[client.hole] /\ \A j \in Slot : j > l => slots[j] = None
  BY <1>1 DEF ArrayInv, Removal
<1> HIDE DEF l
<1>4. FreshUnlisted'
  BY <1>1, <1>2, AdaptersAssumption DEF ArrayInv, FreshUnlisted, TypeOK
<1>5. OneSlot'
  <2> SUFFICES ASSUME NEW i \in Slot, NEW j \in Slot,
                      slots'[i] = slots'[j], slots'[i] # None
               PROVE  i = j
    BY DEF OneSlot
  <2>1. i # l /\ j # l /\ slots[i] = slots[j] /\ slots[i] # None
    BY <1>2
  <2>2. ~Moving(i, j) \/ i = j
    BY <2>1 DEF Moving, l
  <2> QED
    BY <2>1, <2>2 DEF ArrayInv, OneSlot
<1>6. NoHole'
  BY <1>1, <1>2, <1>3 DEF ArrayInv, NoHole, Slot
<1>7. Removal'
  BY <1>1 DEF Removal
<1> QED
  BY <1>4, <1>5, <1>6, <1>7 DEF ArrayInv

-----------------------------------------------------------------------------
(* The walks.                                                                  *)

\* A step that changes neither the array nor the walk.
LEMMA WalkUnchanged ==
    ASSUME WalkInv, UNCHANGED <<slots, report>>, Removing' => Removing PROVE WalkInv'
BY DEF WalkInv, Whole, Listed, Passed

\* A removal under way has met the walk already.
LEMMA RemovingWalk ==
    ASSUME WalkInv, Removing, UNCHANGED report PROVE WalkInv'
BY DEF WalkInv, Whole

\* An adapter that is added has not been passed, and is not due.
LEMMA AddKeepsWalk ==
    ASSUME IInv, NEW a \in Adapter, AddAdapter(a) PROVE WalkInv'
<1> USE AdaptersAssumption
<1>0. client.pc = "free" /\ client'.pc \in {"free", "added"}
  <2>1. client.pc = "free"
    BY DEF AddAdapter, Free
  <2>2. client' = client \/ \E b \in Adapter : client' = [Free EXCEPT !.pc = "added", !.of = b]
    BY DEF AddAdapter
  <2> QED
    BY <2>1, <2>2 DEF Free
<1>1. UNCHANGED report /\ a \in fresh /\ ~Removing /\ ~Removing'
  BY <1>0 DEF AddAdapter, Removing, modemVars
<1>2. CASE UNCHANGED <<slots, client>>
  BY <1>1, <1>2, WalkUnchanged DEF IInv
<1>3. ASSUME NEW i \in Slot, slots[i] = None, slots' = [slots EXCEPT ![i] = a]
      PROVE  WalkInv'
  <2> SUFFICES ASSUME Whole
               PROVE  /\ report.due \subseteq Listed'
                      /\ \A j \in Slot : j < report.at => slots'[j] # None
                      /\ \A b \in Adapter : Passed(b)' <=> Passed(b)
                      /\ \A j \in Slot : j < report.at => slots'[j] = slots[j]
    BY <1>1 DEF WalkInv, Whole, IInv
  <2>1. \A k \in Slot : slots'[k] = IF k = i THEN a ELSE slots[k]
    BY <1>3 DEF IInv, TypeOK
  <2>2. ~(i < report.at)
    BY <1>3 DEF IInv, WalkInv
  <2>3. report.due \subseteq Listed'
    BY <1>3, <2>1 DEF IInv, WalkInv, Listed
  <2> QED
    BY <1>1, <2>1, <2>2, <2>3 DEF IInv, WalkInv, Passed
<1> QED
  BY <1>2, <1>3 DEF AddAdapter

\* A walk that begins has passed nothing.
LEMMA BeginWalk ==
    ASSUME IInv, NEW all \in BOOLEAN, Begin(all), UNCHANGED <<slots, client>>
    PROVE  WalkInv'
<1>1. /\ report'.at = 0 /\ report'.due = Listed /\ report'.got = [a \in Adapter |-> 0]
      /\ report'.handled = FALSE /\ report'.torn = Removing
  BY DEF Begin, Quiet
<1>2. \A i \in Slot : ~(i < 0)
  BY DEF Slot
<1> QED
  BY <1>1, <1>2 DEF WalkInv, Whole, Listed, Removing, Passed

\* The adapter in the next slot was not called before.
LEMMA DeliverKeepsWalk == ASSUME IInv, Deliver PROVE WalkInv'
<1> USE AdaptersAssumption
<1> DEFINE a == slots[report.at]
<1>1. /\ report.at \in Slot /\ a \in Adapter /\ a # None /\ ~report.handled
      /\ UNCHANGED <<slots, client>>
  BY DEF Deliver, Finished, Ends, IInv, TypeOK, clientVars
<1>2. /\ report'.pc = "walk" /\ report'.at = report.at + 1 /\ report'.due = report.due
      /\ report'.torn = report.torn /\ report'.all = report.all
      /\ report'.handled = (~report.all /\ Handles(a))
  BY DEF Deliver, IInv, TypeOK
<1>3. \A b \in Adapter : report'.got[b] = IF b = a THEN report.got[b] + 1 ELSE report.got[b]
  BY <1>1 DEF Deliver, IInv, TypeOK
<1>10. /\ Whole' => Whole
       /\ (Removing' <=> Removing) /\ Listed' = Listed /\ slots' = slots
  BY <1>1, <1>2 DEF Deliver, Whole, Removing, Listed
<1> SUFFICES ASSUME Whole
             PROVE  /\ ~Removing
                    /\ report.due \subseteq Listed
                    /\ \A i \in Slot : i < report.at + 1 => slots[i] # None
                    /\ \A b \in Adapter : report'.got[b] = IF Passed(b)' THEN 1 ELSE 0
                    /\ ~report.all => \A i \in Slot : i < report.at + 1 /\ slots[i] \in Handler =>
                           Handles(a) /\ i + 1 = report.at + 1
  <2>1. CASE Whole
    BY <1>2, <1>10, <2>1 DEF WalkInv
  <2>2. CASE ~Whole
    BY <1>10, <2>2 DEF WalkInv
  <2> QED
    BY <2>1, <2>2
<1>4. /\ ~Removing /\ report.due \subseteq Listed
      /\ (\A i \in Slot : i < report.at => slots[i] # None)
      /\ \A b \in Adapter : report.got[b] = IF Passed(b) THEN 1 ELSE 0
      /\ ~report.all => \A i \in Slot : i < report.at => slots[i] \notin Handler
  BY <1>1 DEF IInv, WalkInv
<1>5. \A i \in Slot : i < report.at + 1 <=> i < report.at \/ i = report.at
  BY <1>1 DEF Slot
<1>6. ~Passed(a)
  BY <1>1, <1>4, <1>5 DEF Passed, IInv, ArrayInv, OneSlot, Moving, Removing, Slot
<1>7. \A b \in Adapter : Passed(b)' <=> Passed(b) \/ b = a
  BY <1>1, <1>2, <1>5 DEF Passed
<1> HIDE DEF a
<1>8. \A b \in Adapter : report'.got[b] = IF Passed(b)' THEN 1 ELSE 0
  BY <1>1, <1>3, <1>4, <1>6, <1>7
<1>9. ~report.all => \A i \in Slot : i < report.at + 1 /\ slots[i] \in Handler =>
                        Handles(a) /\ i + 1 = report.at + 1
  BY <1>4, <1>5 DEF Handles, a
<1> QED
  BY <1>1, <1>4, <1>5, <1>8, <1>9 DEF a

-----------------------------------------------------------------------------
\* The invariant holds initially.
LEMMA InitInv == Init => IInv
<1> SUFFICES ASSUME Init PROVE IInv
  OBVIOUS
<1> USE AdaptersAssumption DEF Init
<1>1. 0 \in Slot /\ 0 \in 0 .. MaxAdapters
  BY DEF Slot
<1>2. TypeOK
  <2>1. queue \in Seq(Msg)
    OBVIOUS
  <2>2. report \in [pc : {"quiet", "walk"}, all : BOOLEAN,
                    at : 0 .. MaxAdapters, due : SUBSET Adapter,
                    got : [Adapter -> Nat], handled : BOOLEAN, torn : BOOLEAN]
    BY <1>1 DEF Quiet
  <2> QED
    BY <1>1, <2>1, <2>2 DEF TypeOK, Free, Idle
<1>3. AddedAdapter /\ WalkInv
  BY DEF AddedAdapter, WalkInv, Whole, Free, Quiet
<1>4. ArrayInv
  BY DEF ArrayInv, FreshUnlisted, OneSlot, NoHole, Removal, Free
<1> QED
  BY <1>2, <1>3, <1>4 DEF IInv

\* A step of the client's thread keeps the invariant.
LEMMA ClientInv ==
    ASSUME IInv,
           \/ \E a \in Adapter : \/ AddAdapter(a) \/ RemoveAdapter(a)
                                 \/ \E e \in Event : UpdateEvtMask(a, e)
           \/ ClientStep
    PROVE  IInv'
<1>0. TypeOK' /\ AddedAdapter'
  BY ClientTypes DEF IInv
<1>1. ASSUME NEW a \in Adapter, AddAdapter(a) PROVE IInv'
  BY <1>0, <1>1, AddKeepsArray, AddKeepsWalk DEF IInv
<1>2. ASSUME NEW a \in Adapter, RemoveAdapter(a) PROVE IInv'
  <2>1. WalkInv'
    <3>1. CASE report.pc = "walk"
      BY <1>2, <3>1 DEF RemoveAdapter, WalkInv, Whole, IInv, TypeOK
    <3>2. CASE report.pc # "walk"
      BY <1>2, <3>2 DEF RemoveAdapter, WalkInv, Whole
    <3> QED
      BY <3>1, <3>2
  <2> QED
    BY <1>0, <1>2, <2>1, RemoveKeepsArray DEF IInv
<1>3. ASSUME NEW a \in Adapter, NEW e \in Event, UpdateEvtMask(a, e) PROVE IInv'
  <2>1. /\ client.pc = "free" /\ client'.pc = "changed"
        /\ UNCHANGED <<slots, fresh, report>>
    BY <1>3 DEF UpdateEvtMask, Free, modemVars
  <2>2. ArrayInv'
    BY <2>1 DEF IInv, ArrayInv, FreshUnlisted, OneSlot, NoHole, Removal, Moving
  <2>3. WalkInv'
    BY <2>1, WalkUnchanged DEF IInv, Removing
  <2> QED
    BY <1>0, <2>2, <2>3 DEF IInv
<1>4. CASE FillHole
  BY <1>0, <1>4, FillKeepsArray, RemovingWalk DEF IInv, FillHole, Removing, modemVars
<1>5. CASE ClearLast
  BY <1>0, <1>5, ClearKeepsArray, RemovingWalk DEF IInv, ClearLast, Removing, modemVars
<1>6. CASE CloseWhenEmpty \/ SendOpen
  <2>1. /\ client.pc \notin {"hole", "filled"} /\ client'.pc = "free"
        /\ UNCHANGED <<slots, fresh, report>>
    BY <1>6 DEF CloseWhenEmpty, SendOpen, Free, modemVars
  <2>2. ArrayInv'
    BY <2>1 DEF IInv, ArrayInv, FreshUnlisted, OneSlot, NoHole, Removal, Moving
  <2>3. WalkInv'
    BY <2>1, WalkUnchanged DEF IInv, Removing
  <2> QED
    BY <1>0, <2>2, <2>3 DEF IInv
<1> QED
  BY <1>1, <1>2, <1>3, <1>4, <1>5, <1>6 DEF ClientStep

\* A step of another thread keeps the invariant.
LEMMA OtherInv ==
    ASSUME IInv,
           \/ DeferredStep \/ ModemStep \/ EngineDown
           \/ \E all \in BOOLEAN : Indicate(all)
    PROVE  IInv'
<1>0. TypeOK' /\ AddedAdapter'
  BY DeferredTypes, ModemTypes DEF IInv
<1>1. UNCHANGED <<slots, fresh, client>>
  BY DEF DeferredStep, Open, Ssr, Collect, Reopen, ModemStep, EngineUp, Deliver, Return,
         EngineDown, Indicate, clientVars
<1>2. ArrayInv'
  BY <1>1, ArrayUnchanged DEF IInv
<1>3. CASE DeferredStep
  <2>1. UNCHANGED report
    BY <1>3 DEF DeferredStep, Open, Ssr, Collect, Reopen, modemVars
  <2> QED
    BY <1>0, <1>1, <1>2, <2>1, WalkUnchanged DEF IInv, Removing
<1>4. ASSUME NEW all \in BOOLEAN, Begin(all) PROVE IInv'
  BY <1>0, <1>1, <1>2, <1>4, BeginWalk DEF IInv
<1>5. CASE EngineDown \/ EngineUp \/ \E all \in BOOLEAN : Indicate(all)
  BY <1>4, <1>5 DEF EngineDown, EngineUp, Indicate
<1>6. CASE Deliver
  BY <1>0, <1>2, <1>6, DeliverKeepsWalk DEF IInv
<1>7. CASE Return
  <2>1. WalkInv'
    BY <1>7 DEF Return, Quiet, WalkInv, Whole
  <2> QED
    BY <1>0, <1>2, <2>1 DEF IInv
<1> QED
  BY <1>3, <1>5, <1>6, <1>7 DEF ModemStep

\* So every step keeps it.
LEMMA NextInv == IInv /\ [Next]_vars => IInv'
<1> SUFFICES ASSUME IInv, [Next]_vars PROVE IInv'
  OBVIOUS
<1>1. CASE UNCHANGED vars
  <2>1. TypeOK' /\ AddedAdapter' /\ UNCHANGED <<slots, fresh, client, report>>
    BY <1>1 DEF vars, clientVars, modemVars, IInv, TypeOK, AddedAdapter
  <2> QED
    BY <2>1, ArrayUnchanged, WalkUnchanged DEF IInv, Removing
<1>2. CASE Next
  BY <1>2, ClientInv, OtherInv DEF Next
<1> QED
  BY <1>1, <1>2

-----------------------------------------------------------------------------
\* The invariant holds in every reachable state.
THEOREM InvHolds == Spec => []IInv
BY InitInv, NextInv, PTL DEF Spec

\* The variables keep their types: no walk leaves the array, and no adapter
\* that was not constructed is asked for its events.
THEOREM TypeCorrect == Spec => []TypeOK
<1>1. IInv => TypeOK
  BY DEF IInv
<1> QED
  BY <1>1, InvHolds, PTL

\* Between registrations the adapters are at the start of the array, without
\* holes and each in one slot (removeAdapter).
THEOREM CompactHolds == Spec => []Compact
<1>1. IInv => Compact
  BY DEF IInv, ArrayInv, OneSlot, NoHole, Moving, Compact, Removing
<1> QED
  BY <1>1, InvHolds, PTL

\* A walk that ends at an empty slot has passed every adapter.
LEMMA EndsAfterAll ==
    ASSUME IInv, Whole, Ends(report.at), NEW a \in report.due
    PROVE  a \in Adapter /\ report.got[a] = 1
<1>1. PICK i \in Slot : slots[i] = a /\ a # None
  BY DEF IInv, WalkInv, Listed
<1>2. ~Removing /\ a \in Adapter
  BY DEF IInv, WalkInv, TypeOK
<1>3. i < report.at
  <2> SUFFICES ASSUME ~(i < report.at) PROVE FALSE
    OBVIOUS
  <2>1. report.at \in Nat /\ report.at <= i
    BY DEF IInv, TypeOK, Slot
  <2>2. report.at \in Slot
    BY <2>1, AdaptersAssumption DEF Slot
  <2> QED
    BY <1>1, <1>2, <2>1, <2>2 DEF Ends, IInv, ArrayInv, NoHole, Removing, Slot
<1> QED
  BY <1>1, <1>2, <1>3 DEF IInv, WalkInv, Passed

\* A report that no removal met was given to each adapter that was there, and
\* to none twice (TO_ALL_LOCADAPTERS).
THEOREM ReportedOnceHolds == Spec => []ReportedOnce
<1>1. ASSUME IInv PROVE ReportedOnce
  <2> SUFFICES ASSUME Returning, report.all, ~report.torn
               PROVE  /\ \A a \in report.due : report.got[a] = 1
                      /\ \A a \in Adapter : report.got[a] <= 1
    BY DEF ReportedOnce
  <2>1. Whole /\ ~report.handled
    BY <1>1 DEF Returning, Whole, IInv, WalkInv
  <2>2. Ends(report.at)
    BY <2>1 DEF Returning, Finished
  <2>3. \A a \in Adapter : report.got[a] <= 1
    <3> SUFFICES ASSUME NEW a \in Adapter PROVE report.got[a] <= 1
      OBVIOUS
    <3>1. report.got[a] = IF Passed(a) THEN 1 ELSE 0
      BY <1>1, <2>1 DEF IInv, WalkInv
    <3>2. report.got[a] = 1 \/ report.got[a] = 0
      BY <3>1
    <3> QED
      BY <3>2
  <2> QED
    BY <1>1, <2>1, <2>2, <2>3, EndsAfterAll
<1> QED
  BY <1>1, InvHolds, PTL

\* A request that no removal met was handled by one adapter if one was there
\* that handles requests, and by no second one (TO_1ST_HANDLING_LOCADAPTERS).
THEOREM HandledByOneHolds == Spec => []HandledByOne
<1>1. ASSUME IInv PROVE HandledByOne
  <2> SUFFICES ASSUME Returning, ~report.all, ~report.torn
               PROVE  /\ report.due \cap Handler # {} => report.handled
                      /\ \A a, b \in Handler : report.got[a] > 0 /\ report.got[b] > 0 => a = b
    BY DEF HandledByOne
  <2>1. Whole
    BY DEF Returning, Whole
  <2>2. \A a \in Handler : report.got[a] > 0 =>
           report.handled /\ \E i \in Slot : i + 1 = report.at /\ slots[i] = a
    <3> SUFFICES ASSUME NEW a \in Handler, report.got[a] > 0
                 PROVE  report.handled /\ \E i \in Slot : i + 1 = report.at /\ slots[i] = a
      OBVIOUS
    <3>1. a \in Adapter
      BY AdaptersAssumption
    <3>2. Passed(a)
      BY <1>1, <2>1, <3>1 DEF IInv, WalkInv
    <3>3. PICK i \in Slot : i < report.at /\ slots[i] = a
      BY <3>2 DEF Passed
    <3> QED
      BY <1>1, <2>1, <3>3 DEF IInv, WalkInv
  <2>3. \A a, b \in Handler : report.got[a] > 0 /\ report.got[b] > 0 => a = b
    BY <2>2 DEF Slot
  <2>4. ASSUME NEW a \in report.due, a \in Handler PROVE report.handled
    <3>1. CASE Ends(report.at)
      BY <1>1, <2>1, <2>2, <2>4, <3>1, EndsAfterAll
    <3>2. CASE ~Ends(report.at)
      BY <3>2 DEF Returning, Finished
    <3> QED
      BY <3>1, <3>2
  <2> QED
    BY <2>3, <2>4
<1> QED
  BY <1>1, InvHolds, PTL
-----------------------------------------------------------------------------
(* What the connection is opened for.  An event that an adapter wants and the  *)
(* modem does not report is on its way: the client has yet to send for it, a   *)
(* message waits that asks for it, or the deferred thread collects it.         *)

Queued(e) == \E k \in DOMAIN queue : queue[k].type = "ssr" \/ e \in queue[k].mask

\* A reopening that has collected e, or that has not reached a's slot yet.
Collected(a, e) ==
    \/ deferred.pc \in {"collect", "open"} /\ e \in deferred.mask
    \/ deferred.pc = "collect" /\ \E i \in Slot : i >= deferred.at /\ slots[i] = a

ToSend(a) ==
    client.pc \in {"changed", "hole", "filled"} \/ (client.pc = "added" /\ client.of = a)

Expected(a, e) == ToSend(a) \/ down \/ Queued(e) \/ Collected(a, e) \/ e \in api.mask

EventInv == \A a \in Listed : \A e \in evtMask[a] \ Excluded : Expected(a, e)

OpenInv ==
    Listed # {} => api.open \/ client.pc # "free" \/ queue # <<>> \/ deferred.pc # "idle"

EmptyInv == client.pc = "empty" => Listed = {}

CoverInv == EventInv /\ OpenInv /\ EmptyInv

\* A message that is appended asks for its events, and the others still do.
LEMMA QueuedAppend ==
    ASSUME NEW m \in Msg, TypeOK, queue' = Append(queue, m)
    PROVE  /\ queue' # <<>>
           /\ \A e : Queued(e) => Queued(e)'
           /\ \A e : m.type = "ssr" \/ e \in m.mask => Queued(e)'
<1>1. /\ DOMAIN queue = 1 .. Len(queue) /\ DOMAIN queue' = 1 .. Len(queue) + 1
      /\ Len(queue) \in Nat /\ Len(queue') = Len(queue) + 1
      /\ queue'[Len(queue) + 1] = m
      /\ \A k \in 1 .. Len(queue) : queue'[k] = queue[k]
  BY DEF TypeOK
<1>2. ASSUME NEW e, Queued(e) PROVE Queued(e)'
  <2>1. PICK k \in DOMAIN queue : queue[k].type = "ssr" \/ e \in queue[k].mask
    BY <1>2 DEF Queued
  <2>2. k \in DOMAIN queue' /\ queue'[k] = queue[k]
    BY <1>1, <2>1
  <2> QED
    BY <2>1, <2>2 DEF Queued
<1>3. ASSUME NEW e, m.type = "ssr" \/ e \in m.mask PROVE Queued(e)'
  <2>1. Len(queue) + 1 \in DOMAIN queue'
    BY <1>1
  <2> QED
    BY <1>1, <1>3, <2>1 DEF Queued
<1> QED
  BY <1>1, <1>2, <1>3

\* The message that is taken asked for an event, or one that waits does.
LEMMA QueuedTail ==
    ASSUME TypeOK, queue # <<>>, queue' = Tail(queue), NEW e, Queued(e)
    PROVE  Queued(e)' \/ Head(queue).type = "ssr" \/ e \in Head(queue).mask
<1>1. PICK k \in DOMAIN queue : queue[k].type = "ssr" \/ e \in queue[k].mask
  BY DEF Queued
<1>2. /\ Len(queue) \in Nat \ {0} /\ DOMAIN queue = 1 .. Len(queue)
      /\ DOMAIN queue' = 1 .. Len(queue) - 1 /\ Head(queue) = queue[1]
      /\ \A i \in 1 .. Len(queue) - 1 : queue'[i] = queue[i + 1]
  BY DEF TypeOK
<1>3. CASE k = 1
  BY <1>1, <1>2, <1>3
<1>4. CASE k # 1
  <2>1. k - 1 \in DOMAIN queue' /\ queue'[k - 1] = queue[k]
    BY <1>2, <1>4
  <2> QED
    BY <1>1, <2>1 DEF Queued
<1> QED
  BY <1>3, <1>4

\* The client's thread: what it takes from the modem it will send for.
LEMMA ClientCovers ==
    ASSUME IInv, CoverInv,
           \/ \E a \in Adapter : \/ AddAdapter(a) \/ RemoveAdapter(a)
                                 \/ \E e \in Event : UpdateEvtMask(a, e)
           \/ ClientStep
    PROVE  CoverInv'
<1> USE DEF clientVars, modemVars
<1>0. TypeOK /\ EventInv /\ OpenInv /\ EmptyInv /\ Listed \subseteq Adapter
  BY ListedAdapters DEF IInv, CoverInv
<1>1. ASSUME NEW b \in Adapter, AddAdapter(b) PROVE CoverInv'
  <2>1. CASE UNCHANGED <<slots, client>>
    <3>1. UNCHANGED <<slots, evtMask, client, queue, deferred, api, down>>
      BY <1>1, <2>1 DEF AddAdapter
    <3> QED
      BY <1>0, <3>1 DEF CoverInv, EventInv, OpenInv, EmptyInv, Listed, Expected, ToSend,
                        Queued, Collected
  <2>2. ASSUME NEW i \in Slot, slots[i] = None, slots' = [slots EXCEPT ![i] = b],
               client' = [Free EXCEPT !.pc = "added", !.of = b]
        PROVE  CoverInv'
    <3>1. client'.pc = "added" /\ client'.of = b /\ client.pc = "free"
      BY <1>1, <2>2 DEF Free, AddAdapter
    <3>2. \A j \in Slot : slots[j] # None => slots'[j] = slots[j]
      BY <1>0, <2>2 DEF TypeOK
    <3>3. Listed' \subseteq Listed \cup {b} /\ None \notin Listed
      BY <1>0, <2>2 DEF Listed, TypeOK
    <3>4. ASSUME NEW a \in Listed', NEW e \in evtMask'[a] \ Excluded PROVE Expected(a, e)'
      <4>1. CASE a = b
        BY <3>1, <4>1 DEF Expected, ToSend
      <4>2. CASE a # b
        <5>1. a \in Listed /\ e \in evtMask[a] \ Excluded /\ a # None
          BY <1>1, <3>3, <3>4, <4>2 DEF AddAdapter
        <5>2. ~ToSend(a) /\ Expected(a, e)
          BY <1>0, <3>1, <5>1 DEF EventInv, ToSend
        <5>3. Collected(a, e) => Collected(a, e)'
          BY <1>1, <3>2, <5>1 DEF Collected, AddAdapter
        <5> QED
          BY <1>1, <5>2, <5>3 DEF Expected, AddAdapter, Queued
      <4> QED
        BY <4>1, <4>2
    <3> QED
      BY <3>1, <3>4 DEF CoverInv, EventInv, OpenInv, EmptyInv
  <2> QED
    BY <1>1, <2>1, <2>2 DEF AddAdapter
<1>2. ASSUME client'.pc \in {"changed", "hole", "filled"} PROVE CoverInv'
  BY <1>2 DEF CoverInv, EventInv, OpenInv, EmptyInv, Expected, ToSend
<1>3. ASSUME NEW b \in Adapter, RemoveAdapter(b) PROVE CoverInv'
  BY <1>2, <1>3 DEF RemoveAdapter, Free
<1>4. ASSUME NEW b \in Adapter, NEW f \in Event, UpdateEvtMask(b, f) PROVE CoverInv'
  BY <1>2, <1>4 DEF UpdateEvtMask, Free
<1>5. CASE FillHole
  <2>1. client'.pc = "filled"
    BY <1>0, <1>5 DEF FillHole, TypeOK
  <2> QED
    BY <1>2, <2>1
<1>6. CASE ClearLast
  <2>1. CASE client.last # 0
    BY <1>2, <1>6, <2>1 DEF ClearLast, Free
  <2>2. CASE client.last = 0
    <3>1. \A j \in Slot : slots'[j] = None
      BY <1>0, <1>6, <2>2 DEF ClearLast, TypeOK, IInv, ArrayInv, Removal, Slot
    <3>2. Listed' = {}
      BY <3>1 DEF Listed
    <3> QED
      BY <3>2 DEF CoverInv, EventInv, OpenInv, EmptyInv
  <2> QED
    BY <2>1, <2>2
<1>7. CASE CloseWhenEmpty
  <2>1. Listed' = {}
    BY <1>0, <1>7 DEF CloseWhenEmpty, EmptyInv, Listed
  <2> QED
    BY <2>1 DEF CoverInv, EventInv, OpenInv, EmptyInv
<1>8. CASE SendOpen
  <2> DEFINE mask == IF client.pc = "added" THEN evtMask[client.of] ELSE EvtMask
  <2>1. /\ queue' = Append(queue, OpenMsg(mask)) /\ client'.pc = "free"
        /\ client.pc \in {"added", "changed"}
        /\ UNCHANGED <<slots, evtMask, deferred, api, down>>
    BY <1>8 DEF SendOpen, Free
  <2>2. mask \in SUBSET Event
    <3>1. client.pc = "added" => client.of \in Adapter
      BY DEF IInv, AddedAdapter
    <3> QED
      BY <1>0, <3>1, ListedAdapters DEF TypeOK
  <2>3. /\ OpenMsg(mask) \in Msg /\ OpenMsg(mask).mask = mask
    BY <2>2, OpenMsgIsMsg DEF OpenMsg
  <2>4. /\ queue' # <<>> /\ \A e : Queued(e) => Queued(e)'
        /\ \A e : e \in mask => Queued(e)'
    <3> HIDE DEF mask
    <3> QED
      BY <1>0, <2>1, <2>3, QueuedAppend
  <2>5. ASSUME NEW a \in Listed', NEW e \in evtMask'[a] \ Excluded PROVE Expected(a, e)'
    <3>1. a \in Listed /\ e \in evtMask[a] \ Excluded
      BY <2>1, <2>5 DEF Listed
    <3>2. CASE ToSend(a)
      <4>1. e \in mask
        <5>1. CASE client.pc = "added"
          BY <3>1, <3>2, <5>1 DEF ToSend
        <5>2. CASE client.pc = "changed"
          <6>1. e \in UNION {evtMask[b] : b \in Listed}
            BY <3>1
          <6>2. e \notin Excluded
            BY <3>1
          <6>3. e \in EvtMask
            BY <6>1, <6>2 DEF EvtMask
          <6> QED
            BY <5>2, <6>3
        <5> QED
          BY <2>1, <5>1, <5>2
      <4> QED
        BY <2>4, <4>1 DEF Expected
    <3>3. CASE ~ToSend(a)
      <4>1. Expected(a, e)
        BY <1>0, <3>1 DEF EventInv
      <4> QED
        BY <2>1, <2>4, <3>3, <4>1 DEF Expected, Collected
    <3> QED
      BY <3>2, <3>3
  <2> QED
    BY <2>1, <2>4, <2>5 DEF CoverInv, EventInv, OpenInv, EmptyInv
<1> QED
  BY <1>1, <1>3, <1>4, <1>5, <1>6, <1>7, <1>8 DEF ClientStep
\* The deferred thread: what it takes from the queue it collects, or opens.
LEMMA DeferredCovers ==
    ASSUME IInv, CoverInv, DeferredStep PROVE CoverInv'
<1> USE DEF clientVars, modemVars
<1>0. /\ TypeOK /\ EventInv /\ OpenInv /\ EmptyInv /\ Listed \subseteq Adapter
      /\ Listed' = Listed /\ evtMask' = evtMask /\ down' = down /\ client' = client
      /\ slots' = slots
  BY ListedAdapters DEF IInv, CoverInv, DeferredStep, Open, Ssr, Collect, Reopen, Listed
<1>1. EmptyInv'
  BY <1>0 DEF EmptyInv
<1>2. ASSUME NEW mask, Opened(mask)
      PROVE  api'.open /\ (~down => api'.mask = api.mask \cup (mask \ Excluded))
  <2>1. PICK heard \in BOOLEAN :
          /\ ~down => heard
          /\ api' = [open |-> TRUE,
                     mask |-> api.mask \cup IF heard THEN mask \ Excluded ELSE {}]
    BY <1>2 DEF Opened
  <2> QED
    BY <2>1
<1>3. OpenInv'
  <2>1. CASE Open
    BY <1>2, <2>1 DEF Open, OpenInv
  <2>2. CASE Ssr
    BY <2>2 DEF Ssr, Idle, OpenInv
  <2>3. CASE Collect
    <3>1. deferred'.pc # "idle"
      BY <1>0, <2>3 DEF Collect, TypeOK
    <3> QED
      BY <3>1 DEF OpenInv
  <2>4. CASE Reopen
    BY <1>2, <2>4 DEF Reopen, OpenInv
  <2> QED
    BY <2>1, <2>2, <2>3, <2>4 DEF DeferredStep
<1>4. ASSUME NEW a \in Listed, NEW e \in evtMask[a] \ Excluded, ~ToSend(a), ~down
      PROVE  Queued(e)' \/ Collected(a, e)' \/ e \in api'.mask
  <2>0. Queued(e) \/ Collected(a, e) \/ e \in api.mask
    BY <1>0, <1>4 DEF EventInv, Expected
  <2>1. CASE Open
    <3>1. queue # <<>> /\ queue' = Tail(queue) /\ deferred.pc = "idle" /\ Opened(Head(queue).mask)
          /\ Head(queue).type = "open"
      BY <2>1 DEF Open, Idle
    <3>2. api'.mask = api.mask \cup (Head(queue).mask \ Excluded)
      BY <1>2, <1>4, <3>1
    <3>3. ~Collected(a, e)
      BY <3>1 DEF Collected
    <3>4. Queued(e) => Queued(e)' \/ e \in Head(queue).mask
      BY <1>0, <3>1, QueuedTail
    <3> QED
      BY <1>4, <2>0, <3>2, <3>3, <3>4
  <2>2. CASE Ssr
    <3>1. PICK i \in Slot : slots[i] = a
      BY DEF Listed
    <3>2. deferred'.pc = "collect" /\ deferred'.at = 0 /\ i >= 0
      BY <2>2 DEF Ssr, Idle, Slot
    <3> QED
      BY <1>0, <3>1, <3>2 DEF Collected
  <2>3. CASE Collect
    <3>1. Queued(e)' = Queued(e) /\ api' = api /\ deferred.pc = "collect"
          /\ deferred.at \in 0 .. MaxAdapters
      BY <1>0, <2>3 DEF Collect, Queued, TypeOK
    <3>2. CASE e \in deferred.mask
      <4>1. deferred'.pc \in {"collect", "open"} /\ e \in deferred'.mask
        BY <1>0, <2>3, <3>1, <3>2 DEF Collect, TypeOK
      <4> QED
        BY <4>1 DEF Collected
    <3>3. ASSUME NEW i \in Slot, i >= deferred.at, slots[i] = a PROVE Collected(a, e)'
      <4>0. a # None /\ a \in Adapter
        BY <1>0 DEF Listed
      <4>1. deferred.at \in Slot /\ slots[deferred.at] # None
        <5>1. deferred.at \in Slot
          BY <3>1, <3>3, AdaptersAssumption DEF Slot
        <5>2. ~Removing
          BY <1>4 DEF ToSend, Removing
        <5> QED
          BY <3>1, <3>3, <4>0, <5>1, <5>2 DEF IInv, ArrayInv, NoHole, Removing, Slot
      <4>2. /\ deferred'.pc = "collect" /\ deferred'.at = deferred.at + 1
            /\ deferred'.mask = deferred.mask \cup evtMask[slots[deferred.at]]
        BY <1>0, <2>3, <3>1, <4>1 DEF Collect, Ends, TypeOK
      <4>3. CASE i = deferred.at
        BY <1>4, <3>3, <4>2, <4>3 DEF Collected
      <4>4. CASE i # deferred.at
        <5>1. i >= deferred'.at
          BY <3>1, <3>3, <4>2, <4>4 DEF Slot
        <5> QED
          BY <1>0, <3>3, <4>2, <5>1 DEF Collected
      <4> QED
        BY <4>3, <4>4
    <3> QED
      BY <2>0, <3>1, <3>2, <3>3 DEF Collected
  <2>4. CASE Reopen
    <3>1. Queued(e)' = Queued(e) /\ deferred.pc = "open" /\ Opened(deferred.mask)
      BY <2>4 DEF Reopen, Queued
    <3>2. api'.mask = api.mask \cup (deferred.mask \ Excluded)
      BY <1>2, <1>4, <3>1
    <3> QED
      BY <1>4, <2>0, <3>1, <3>2 DEF Collected
  <2> QED
    BY <2>1, <2>2, <2>3, <2>4 DEF DeferredStep
<1>5. EventInv'
  <2> SUFFICES ASSUME NEW a \in Listed, NEW e \in evtMask[a] \ Excluded
               PROVE  Expected(a, e)'
    BY <1>0 DEF EventInv
  <2>1. CASE ToSend(a) \/ down
    BY <1>0, <2>1 DEF Expected, ToSend
  <2>2. CASE ~ToSend(a) /\ ~down
    BY <1>4, <2>2 DEF Expected
  <2> QED
    BY <2>1, <2>2
<1> QED
  BY <1>1, <1>3, <1>5 DEF CoverInv

\* The modem: when it forgets the events it is down, and when it comes up again
\* a message asks for them.
LEMMA ModemCovers ==
    ASSUME IInv, CoverInv, ModemStep \/ (\E all \in BOOLEAN : Indicate(all)) \/ EngineDown
    PROVE  CoverInv'
<1> USE DEF clientVars, modemVars
<1>0. /\ TypeOK /\ EventInv /\ OpenInv /\ EmptyInv
      /\ Listed' = Listed /\ evtMask' = evtMask /\ client' = client
      /\ slots' = slots /\ deferred' = deferred
  BY DEF IInv, CoverInv, ModemStep, EngineDown, EngineUp, Indicate, Deliver, Return, Listed
<1>1. EmptyInv'
  BY <1>0 DEF EmptyInv
<1>2. CASE EngineDown
  <2>1. down' /\ api'.open = api.open /\ queue' = queue
    BY <1>0, <1>2 DEF EngineDown, TypeOK
  <2> QED
    BY <1>0, <1>1, <2>1 DEF CoverInv, EventInv, OpenInv, Expected
<1>3. CASE EngineUp
  <2> DEFINE m == [type |-> "ssr"]
  <2>1. queue' = Append(queue, m) /\ m \in Msg /\ m.type = "ssr"
    BY <1>3 DEF EngineUp, Msg
  <2>2. queue' # <<>> /\ \A e : Queued(e)'
    <3> HIDE DEF m
    <3> QED
      BY <1>0, <2>1, QueuedAppend
  <2> QED
    BY <1>1, <2>2 DEF CoverInv, EventInv, OpenInv, Expected
<1>4. CASE Deliver \/ Return \/ \E all \in BOOLEAN : Indicate(all)
  <2>1. UNCHANGED <<queue, api, down>>
    BY <1>4 DEF Deliver, Return, Indicate
  <2> QED
    BY <1>0, <1>1, <2>1 DEF CoverInv, EventInv, OpenInv, Expected, ToSend, Queued, Collected
<1> QED
  BY <1>2, <1>3, <1>4 DEF ModemStep

\* An event that an adapter in the array wants and the modem does not report is
\* on its way, in every reachable state.
THEOREM CoverHolds == Spec => []CoverInv
<1>1. Init => CoverInv
  <2> SUFFICES ASSUME Init PROVE CoverInv
    OBVIOUS
  <2>1. Listed = {}
    BY DEF Init, Listed
  <2> QED
    BY <2>1 DEF CoverInv, EventInv, OpenInv, EmptyInv
<1>2. IInv /\ CoverInv /\ [Next]_vars => CoverInv'
  <2> SUFFICES ASSUME IInv, CoverInv, [Next]_vars PROVE CoverInv'
    OBVIOUS
  <2>1. CASE UNCHANGED vars
    <3>1. UNCHANGED <<slots, evtMask, client, queue, deferred, api, down>>
      BY <2>1 DEF vars, clientVars, modemVars
    <3> QED
      BY <3>1 DEF CoverInv, EventInv, OpenInv, EmptyInv, Listed, Expected, ToSend,
                  Queued, Collected
  <2>2. CASE Next
    BY <2>2, ClientCovers, DeferredCovers, ModemCovers DEF Next
  <2> QED
    BY <2>1, <2>2
<1> QED
  BY <1>1, <1>2, InvHolds, PTL DEF Spec

\* When nobody has anything left to do, the connection is open for the events
\* of all adapters (LocOpenMsg, LocSsrMsg, removeAdapter).
THEOREM SettledCoversHolds == Spec => []SettledCovers
<1>1. ASSUME CoverInv PROVE SettledCovers
  <2> SUFFICES ASSUME client = Free, queue = <<>>, deferred = Idle, ~down PROVE Covers
    BY DEF SettledCovers
  <2>1. client.pc = "free" /\ deferred.pc = "idle"
    BY DEF Free, Idle
  <2>2. ~(\E k \in DOMAIN queue : TRUE)
    OBVIOUS
  <2>3. \A a, e : ~ToSend(a) /\ ~Collected(a, e) /\ ~Queued(e)
    BY <2>1, <2>2 DEF ToSend, Collected, Queued
  <2> QED
    BY <1>1, <2>1, <2>3 DEF CoverInv, EventInv, OpenInv, Expected, Covers
<1> QED
  BY <1>1, CoverHolds, PTL

\* What the clients and the modem ask of the queue of the deferred thread is what
\* the message task is proved to give (MsgTask.cpp).
THEOREM UsesFifoHolds == Spec => UsesFifo
<1>1. Init => Task!Init
  BY DEF Init, Task!Init
<1>2. IInv /\ [Next]_vars => [Task!Next]_<<queue, FALSE>>
  <2> SUFFICES ASSUME IInv, [Next]_vars
               PROVE  \/ \E m \in Msg : queue' = Append(queue, m)
                      \/ queue # <<>> /\ queue' = Tail(queue)
                      \/ UNCHANGED queue
    BY DEF Task!Next, Task!Put, Task!Take
  <2> USE DEF clientVars, modemVars
  <2>1. CASE SendOpen
    <3>1. PICK mask \in SUBSET Event : queue' = Append(queue, OpenMsg(mask))
      BY <2>1, ListedAdapters DEF SendOpen, IInv, AddedAdapter, TypeOK
    <3> QED
      BY <3>1 DEF OpenMsg, Msg
  <2>2. CASE EngineUp
    BY <2>2 DEF EngineUp, Msg
  <2>3. CASE Open \/ Ssr
    BY <2>3 DEF Open, Ssr
  <2>4. CASE \/ FillHole \/ ClearLast \/ CloseWhenEmpty \/ Collect \/ Reopen
             \/ Deliver \/ Return \/ EngineDown \/ UNCHANGED vars
    BY <2>4 DEF FillHole, ClearLast, CloseWhenEmpty, Collect, Reopen, Deliver, Return,
                EngineDown, vars
  <2>5. ASSUME \/ \E all \in BOOLEAN : Indicate(all)
               \/ \E a \in Adapter : \/ AddAdapter(a)
                                     \/ RemoveAdapter(a)
                                     \/ \E e \in Event : UpdateEvtMask(a, e)
        PROVE  UNCHANGED queue
    BY <2>5 DEF Indicate, AddAdapter, RemoveAdapter, UpdateEvtMask
  <2> QED
    BY <2>1, <2>2, <2>3, <2>4, <2>5 DEF Next, ClientStep, DeferredStep, ModemStep
<1> QED
  BY <1>1, <1>2, InvHolds, PTL DEF Spec, UsesFifo, Task!Spec
=============================================================================
