---------------------------- MODULE MsgTask_proofs ----------------------------
(* Safety of MsgTask, for any senders and any number of messages, and that its *)
(* queue implements the FIFO queue of Fifo.                                    *)
EXTENDS MsgTask, SequenceTheorems, TLAPS

\* A message is in hand exactly while it is handled.
InHand == pc # "proc" => msg = <<>>

\* What was freed was freed by the last step.
FreedAtExit ==
    /\ ~freed => discarded = <<>>
    /\ pc = "exit" <=> freed

\* After the one late message the thread only finishes.
LateOnce ==
    late # 0 => late = 1 /\ unblocked /\ pc \in {"proc", "rcv", "destroy", "exit"}

IInv ==
    /\ TypeOK /\ InHand /\ FreedAtExit /\ LateOnce
    /\ DeliveredInOrder /\ NoLostWakeup /\ EndsOnlyUnblocked

-----------------------------------------------------------------------------
(* Sequences.                                                               *)

\* Listing a message at the end lists it at the end of the delivery order.
LEMMA AppendAtEnd ==
    ASSUME NEW S, NEW h \in Seq(S), NEW m \in Seq(S), NEW l \in Seq(S), NEW e \in S
    PROVE  h \o m \o Append(l, e) \o <<>> = Append(h \o m \o l \o <<>>, e)
<1>1. h \o m \in Seq(S) /\ h \o m \o l \in Seq(S) /\ <<e>> \in Seq(S)
  BY ConcatProperties
<1>2. Append(l, e) = l \o <<e>> /\ Append(h \o m \o l, e) = h \o m \o l \o <<e>>
  BY <1>1, AppendIsConcat
<1>3. h \o m \o (l \o <<e>>) = h \o m \o l \o <<e>>
  BY <1>1, ConcatAssociative
<1>4. h \o m \o l \o <<>> = h \o m \o l
  BY <1>1, ConcatEmptySeq
<1>5. h \o m \o Append(l, e) \in Seq(S)
  BY <1>1, AppendProperties, ConcatProperties
<1>6. h \o m \o Append(l, e) \o <<>> = h \o m \o Append(l, e)
  BY <1>5, ConcatEmptySeq
<1> QED
  BY <1>2, <1>3, <1>4, <1>6

\* Taking the oldest message out keeps the delivery order.
LEMMA HeadInHand ==
    ASSUME NEW S, NEW h \in Seq(S), NEW l \in Seq(S), l # <<>>
    PROVE  h \o <<Head(l)>> \o Tail(l) = h \o <<>> \o l
<1>1. /\ Head(l) \in S /\ Tail(l) \in Seq(S)
      /\ Len(Tail(l)) = Len(l) - 1
      /\ \A i \in 1..Len(Tail(l)) : Tail(l)[i] = l[i + 1]
  BY HeadTailProperties
<1>2. <<Head(l)>> \o Tail(l) = l
  <2>1. <<Head(l)>> \in Seq(S) /\ <<Head(l)>> \o Tail(l) \in Seq(S)
    BY <1>1, ConcatProperties
  <2>2. Len(<<Head(l)>> \o Tail(l)) = Len(l)
    BY <1>1, EmptySeq
  <2>3. \A i \in 1..Len(l) : (<<Head(l)>> \o Tail(l))[i] = l[i]
    BY <1>1, EmptySeq
  <2> QED
    BY <2>1, <2>2, <2>3, SeqEqual
<1>3. h \o <<Head(l)>> \o Tail(l) = h \o (<<Head(l)>> \o Tail(l))
  BY <1>1, ConcatAssociative
<1>4. h \o <<>> = h
  BY ConcatEmptySeq
<1> QED
  BY <1>2, <1>3, <1>4

\* What the thread has in hand is a sequence of messages.
LEMMA HandIsSeq == TypeOK => msg \in Seq(Msg)
<1> SUFFICES ASSUME TypeOK PROVE msg \in Seq(Msg)
  OBVIOUS
<1>1. CASE msg = <<>>
  BY <1>1
<1>2. ASSUME NEW m \in Msg, msg = <<m>> PROVE msg \in Seq(Msg)
  BY <1>2
<1> QED
  BY <1>1, <1>2 DEF TypeOK

-----------------------------------------------------------------------------
\* The invariant holds initially.
LEMMA InitInv == Init => IInv
<1> SUFFICES ASSUME Init PROVE IInv
  OBVIOUS
<1>1. <<>> \in Seq(Msg) /\ <<>> \o <<>> \o <<>> \o <<>> = <<>>
  BY EmptySeq, ConcatEmptySeq
<1>2. sends \in [Sender -> 0..MaxSends]
  BY SendsAssumption DEF Init
<1>3. TypeOK
  BY <1>1, <1>2 DEF Init, TypeOK, Locations
<1> QED
  BY <1>1, <1>3
     DEF Init, IInv, InHand, FreedAtExit, LateOnce, DeliveredInOrder,
         NoLostWakeup, EndsOnlyUnblocked

\* A message taken out of a list that is not empty is in hand.
LEMMA RemoveInv ==
    ASSUME IInv, pc \in {"rcv", "woken"}, queueUnchanged, UNCHANGED handled,
           Remove, list = <<>> => unblocked, unblocked => late = 0
    PROVE  IInv'
<1> USE DEF IInv, queueUnchanged
<1>1. CASE list = <<>>
  BY <1>1
     DEF Remove, TypeOK, Locations, InHand, FreedAtExit, LateOnce,
         DeliveredInOrder, NoLostWakeup, EndsOnlyUnblocked
<1>2. CASE list # <<>>
  <2>1. /\ pc' = "proc" /\ msg' = <<Head(list)>> /\ list' = Tail(list)
        /\ late' = IF unblocked THEN late + 1 ELSE late
    BY <1>2 DEF Remove
  <2>2. list \in Seq(Msg) /\ handled \in Seq(Msg) /\ msg = <<>>
    BY DEF TypeOK, InHand
  <2>3. Head(list) \in Msg /\ Tail(list) \in Seq(Msg)
    BY <1>2, <2>2, HeadTailProperties
  <2>4. handled \o <<Head(list)>> \o Tail(list) = handled \o msg \o list
    BY <1>2, <2>2, HeadInHand
  <2>5. DeliveredInOrder'
    BY <2>1, <2>4 DEF DeliveredInOrder
  <2>6. late' \in Nat /\ LateOnce'
    BY <2>1 DEF TypeOK, LateOnce
  <2>7. TypeOK'
    BY <2>1, <2>3, <2>6 DEF TypeOK, Locations
  <2> QED
    BY <2>1, <2>5, <2>6, <2>7
       DEF InHand, FreedAtExit, NoLostWakeup, EndsOnlyUnblocked
<1> QED
  BY <1>1, <1>2

\* So it is when the thread first looks whether it has to wait.
LEMMA WaitOrRemoveInv ==
    ASSUME IInv, pc \in {"rcv", "woken"}, queueUnchanged, UNCHANGED handled,
           WaitOrRemove, unblocked => late = 0
    PROVE  IInv'
<1>1. CASE list = <<>> /\ ~unblocked
  BY <1>1
     DEF WaitOrRemove, IInv, queueUnchanged, TypeOK, Locations, InHand,
         FreedAtExit, LateOnce, DeliveredInOrder, NoLostWakeup,
         EndsOnlyUnblocked
<1>2. CASE ~(list = <<>> /\ ~unblocked)
  <2>1. Remove
    BY <1>2 DEF WaitOrRemove
  <2> QED
    BY <1>2, <2>1, RemoveInv
<1> QED
  BY <1>1, <1>2

\* A send keeps the invariant.
LEMMA SndInv ==
    ASSUME IInv, NEW s \in Sender, Snd(s)
    PROVE  IInv'
<1> DEFINE m == <<s, sends[s] + 1>>
<1> USE DEF IInv
<1>1. m \in Msg /\ sends' \in [Sender -> 0..MaxSends]
  BY SendsAssumption DEF Snd, TypeOK, Msg
<1>2. /\ UNCHANGED <<unblocked, freed, msg, handled, discarded, late>>
      /\ ~freed /\ discarded = <<>>
  BY DEF Snd, FreedAtExit
<1> HIDE DEF m
<1>3. CASE /\ ~unblocked /\ list' = Append(list, m)
           /\ accepted' = Append(accepted, m)
           /\ pc' = Signalled /\ UNCHANGED leaked
  <2>1. list' \in Seq(Msg) /\ accepted' \in Seq(Msg)
    BY <1>1, <1>3, AppendProperties DEF TypeOK
  <2>2. handled \in Seq(Msg) /\ msg \in Seq(Msg) /\ list \in Seq(Msg)
    BY HandIsSeq DEF TypeOK
  <2>3. accepted = handled \o msg \o list \o <<>>
    BY <1>2 DEF DeliveredInOrder
  <2>4. handled \o msg \o Append(list, m) \o <<>> = Append(accepted, m)
    BY <1>1, <2>2, <2>3, AppendAtEnd
  <2>5. DeliveredInOrder'
    BY <1>2, <1>3, <2>4 DEF DeliveredInOrder
  <2>6. pc' = IF pc = "wait" THEN "woken" ELSE pc
    BY <1>3 DEF Signalled
  <2>7. TypeOK'
    BY <1>1, <1>2, <1>3, <2>1, <2>6 DEF TypeOK, Locations
  <2> QED
    BY <1>2, <1>3, <2>5, <2>6, <2>7
       DEF InHand, FreedAtExit, LateOnce, NoLostWakeup, EndsOnlyUnblocked
<1>4. CASE /\ leaked' = leaked \cup {m} /\ UNCHANGED <<list, accepted>>
           /\ pc' = pc \/ pc' = Signalled
  <2>1. TypeOK'
    BY <1>1, <1>2, <1>4 DEF TypeOK, Signalled, Locations
  <2> QED
    BY <1>2, <1>4, <2>1
       DEF Signalled, InHand, FreedAtExit, LateOnce, DeliveredInOrder,
           NoLostWakeup, EndsOnlyUnblocked
<1> QED
  BY <1>3, <1>4 DEF Snd, Listing, m

-----------------------------------------------------------------------------
\* Every step keeps the invariant.
LEMMA NextInv == IInv /\ [Next]_vars => IInv'
<1> SUFFICES ASSUME IInv, [Next]_vars PROVE IInv'
  OBVIOUS
<1> USE DEF IInv
<1>1. ASSUME NEW s \in Sender, Snd(s) PROVE IInv'
  BY <1>1, SndInv
<1>2. CASE Unblock
  BY <1>2
     DEF Unblock, Signalled, TypeOK, Locations, InHand, FreedAtExit, LateOnce,
         DeliveredInOrder, NoLostWakeup, EndsOnlyUnblocked
<1>3. CASE Start
  BY <1>3
     DEF Start, queueUnchanged, TypeOK, Locations, InHand, FreedAtExit,
         LateOnce, DeliveredInOrder, NoLostWakeup, EndsOnlyUnblocked
<1>4. CASE RcvEnter
  <2>1. CASE unblocked
    BY <1>4, <2>1
       DEF RcvEnter, queueUnchanged, TypeOK, Locations, InHand, FreedAtExit,
           LateOnce, DeliveredInOrder, NoLostWakeup, EndsOnlyUnblocked
  <2>2. CASE ~unblocked
    BY <1>4, <2>2, WaitOrRemoveInv DEF RcvEnter
  <2> QED
    BY <2>1, <2>2
<1>5. CASE RcvWoken
  <2>1. late = 0
    BY <1>5 DEF RcvWoken, LateOnce
  <2> QED
    BY <1>5, <2>1, WaitOrRemoveInv DEF RcvWoken
<1>6. CASE SpuriousWakeup
  BY <1>6
     DEF SpuriousWakeup, queueUnchanged, TypeOK, Locations, InHand,
         FreedAtExit, LateOnce, DeliveredInOrder, NoLostWakeup,
         EndsOnlyUnblocked
<1>7. CASE Proc
  <2>1. handled \in Seq(Msg) /\ msg \in Seq(Msg)
    BY HandIsSeq DEF TypeOK
  <2>2. handled' \in Seq(Msg) /\ handled' \o <<>> = handled \o msg
    BY <1>7, <2>1, ConcatProperties, ConcatEmptySeq DEF Proc
  <2>3. DeliveredInOrder'
    BY <1>7, <2>2 DEF Proc, queueUnchanged, DeliveredInOrder
  <2> QED
    BY <1>7, <2>2, <2>3
       DEF Proc, queueUnchanged, TypeOK, Locations, InHand, FreedAtExit,
           LateOnce, NoLostWakeup, EndsOnlyUnblocked
<1>8. CASE Destroy
  <2>1. discarded = <<>> /\ list \in Seq(Msg) /\ msg = <<>>
        /\ handled \in Seq(Msg)
    BY <1>8 DEF Destroy, FreedAtExit, TypeOK, InHand
  <2>2. handled \o msg \in Seq(Msg) /\ handled \o msg \o list \in Seq(Msg)
    BY <2>1, EmptySeq, ConcatProperties
  <2>3. handled \o msg \o list \o <<>> = handled \o msg \o <<>> \o list
    BY <2>1, <2>2, ConcatEmptySeq
  <2>4. DeliveredInOrder'
    BY <1>8, <2>1, <2>3 DEF Destroy, DeliveredInOrder
  <2>5. TypeOK'
    BY <1>8, <2>1, EmptySeq DEF Destroy, TypeOK, Locations
  <2> QED
    BY <1>8, <2>1, <2>4, <2>5
       DEF Destroy, InHand, FreedAtExit, LateOnce, NoLostWakeup,
           EndsOnlyUnblocked
<1>9. CASE UNCHANGED vars
  BY <1>9
     DEF vars, TypeOK, InHand, FreedAtExit, LateOnce, DeliveredInOrder,
         NoLostWakeup, EndsOnlyUnblocked
<1> QED
  BY <1>1, <1>2, <1>3, <1>4, <1>5, <1>6, <1>7, <1>8, <1>9 DEF Next, Loop

-----------------------------------------------------------------------------
\* The invariant holds in every reachable state.
THEOREM InvHolds == Spec => []IInv
BY InitInv, NextInv, PTL DEF Spec

\* The variables keep their types.
THEOREM TypeCorrect == Spec => []TypeOK
<1>1. IInv => TypeOK
  BY DEF IInv
<1> QED
  BY <1>1, InvHolds, PTL

\* Messages are handled once each, in the order the queue accepted them, and
\* none is lost before the queue is freed.
THEOREM DeliveryHolds == Spec => []DeliveredInOrder
<1>1. IInv => DeliveredInOrder
  BY DEF IInv
<1> QED
  BY <1>1, InvHolds, PTL

\* The thread does not sleep while there is work or an unblock.
THEOREM WakeupHolds == Spec => []NoLostWakeup
<1>1. IInv => NoLostWakeup
  BY DEF IInv
<1> QED
  BY <1>1, InvHolds, PTL

\* The thread ends only after an unblock.
THEOREM EndHolds == Spec => []EndsOnlyUnblocked
<1>1. IInv => EndsOnlyUnblocked
  BY DEF IInv
<1> QED
  BY <1>1, InvHolds, PTL

\* It handles at most one message after it.
THEOREM LateHolds == Spec => []AtMostOneLate
<1>1. IInv => AtMostOneLate
  BY DEF IInv, TypeOK, LateOnce, AtMostOneLate
<1> QED
  BY <1>1, InvHolds, PTL

-----------------------------------------------------------------------------
\* A step of the task is a step of the FIFO queue, or changes nothing there.
LEMMA StepIsFifoStep ==
    IInv /\ [Next]_vars => [Queue!Next]_<<list, unblocked>>
<1> SUFFICES ASSUME IInv, [Next]_vars PROVE [Queue!Next]_<<list, unblocked>>
  OBVIOUS
<1> USE DEF Queue!Next
<1>1. ASSUME NEW s \in Sender, Snd(s) PROVE [Queue!Next]_<<list, unblocked>>
  <2>1. <<s, sends[s] + 1>> \in Msg
    BY <1>1, SendsAssumption DEF Snd, IInv, TypeOK, Msg
  <2> QED
    BY <1>1, <2>1 DEF Snd, Listing, Queue!Put
<1>2. CASE Unblock
  BY <1>2 DEF Unblock, Queue!Stop
<1>3. CASE Start \/ SpuriousWakeup \/ Proc
  BY <1>3 DEF Start, SpuriousWakeup, Proc, queueUnchanged
<1>4. CASE RcvEnter \/ RcvWoken
  BY <1>4 DEF RcvEnter, RcvWoken, WaitOrRemove, Remove, queueUnchanged, Queue!Take
<1>5. CASE Destroy
  BY <1>5 DEF Destroy, IInv, EndsOnlyUnblocked, Queue!Discard
<1>6. CASE UNCHANGED vars
  BY <1>6 DEF vars
<1> QED
  BY <1>1, <1>2, <1>3, <1>4, <1>5, <1>6 DEF Next, Loop

\* The queue of a task is a FIFO queue that only an unblock closes.
THEOREM ImplementsFifo == Spec => IsFifo
<1>1. Init => Queue!Init
  BY DEF Init, Queue!Init
<1> QED
  BY <1>1, StepIsFifoStep, InvHolds, PTL DEF Spec, IsFifo, Queue!Spec
=============================================================================
