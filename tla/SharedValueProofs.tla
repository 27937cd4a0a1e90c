-------------------------- MODULE SharedValueProofs --------------------------
(***************************************************************************)
(* Proofs about SharedValue for any producers, consumers and values.  Two   *)
(* arguments.  The order of the deliveries: the slot holds nothing but the  *)
(* newest publication (SlotIsNewest), so that what wait() appends to the    *)
(* deliveries is newer than all of them.  The wakeups: whoever decided to   *)
(* sleep keeps the mutex until it sleeps (BlockedIsEmpty), so that set()    *)
(* and setException() cannot store between the decision and the sleep.      *)
(***************************************************************************)
EXTENDS SharedValue, TLAPS

\* Every value is published once, and only published values are delivered.
Histories ==
  /\ \A i, k \in 1..Len(published) : published[i] = published[k] => i = k
  /\ \A i \in 1..Len(delivered) : \E k \in 1..Len(published) : delivered[i] = published[k]

\* A value in the slot is the one of the last set().
SlotIsNewest ==
  m_value # None => Len(published) > 0 /\ m_value = published[Len(published)]

\* A wait() that found nothing still finds nothing when it starts to sleep.
BlockedIsEmpty ==
  \A t \in Threads : pc[t] = "block" => m_value = None /\ m_exception = None

IInv == NoSleepOnResult /\ BlockedIsEmpty /\ Histories /\ SlotIsNewest /\ DeliveredInOrder

-----------------------------------------------------------------------------
\* An index of an appended sequence is an old one or the new one.
LEMMA LastOfInterval ==
  \A i, n \in Nat : \A j \in (i+1)..(n+1) : j \in (i+1)..n \/ j = n + 1
OBVIOUS

\* A new slot satisfies the inductive invariant.
LEMMA InitIInv == Init => IInv
<1> SUFFICES ASSUME Init PROVE IInv
  OBVIOUS
<1>1. TypeOK
  <2>1. m_closed \in BOOLEAN
    BY DEF Init
  <2>2. pc \in [Threads -> {"idle", "wait", "block", "asleep", "notify"}]
    BY DEF Init
  <2> QED
    BY <2>1, <2>2, SharedValueAssumption DEF Init, TypeOK
<1>2. NoSleepOnResult /\ BlockedIsEmpty
  BY <1>1 DEF Init, NoSleepOnResult, BlockedIsEmpty
<1>3. Histories /\ SlotIsNewest /\ DeliveredInOrder
  BY DEF Init, Histories, SlotIsNewest, DeliveredInOrder
<1> QED
  BY <1>2, <1>3 DEF IInv

\* No wakeup is lost in a step, whatever the step does to the histories.
LEMMA SleepStep ==
  NoSleepOnResult /\ BlockedIsEmpty /\ [Next]_vars => NoSleepOnResult' /\ BlockedIsEmpty'
<1> DEFINE Goal == NoSleepOnResult' /\ BlockedIsEmpty'
<1> SUFFICES ASSUME NoSleepOnResult, BlockedIsEmpty, [Next]_vars PROVE Goal
  OBVIOUS
<1> USE SharedValueAssumption DEF NoSleepOnResult, BlockedIsEmpty, TypeOK, Goto, Call,
        slotVars, historyVars, Evaluate, SomethingToReturn
<1>0. CASE UNCHANGED vars
  BY <1>0 DEF vars
<1>1. ASSUME NEW t \in Threads, NEW v \in Values, set(t, v) PROVE Goal
  BY <1>1 DEF set
<1>2. ASSUME NEW t \in Threads, NEW e \in Exceptions, setException(t, e) PROVE Goal
  BY <1>2 DEF setException
<1>3. ASSUME NEW t \in Threads, NEW id \in Ids, setId(t, id) PROVE Goal
  BY <1>3 DEF setId
<1>4. ASSUME NEW t \in Threads, close(t) PROVE Goal
  BY <1>4 DEF close
<1>5. ASSUME NEW t \in Threads, BeginWait(t) PROVE Goal
  BY <1>5 DEF BeginWait
<1>6. ASSUME NEW t \in Threads, WaitClosed(t) PROVE Goal
  BY <1>6 DEF WaitClosed
<1>7. ASSUME NEW t \in Threads, WaitThrows(t) PROVE Goal
  BY <1>7 DEF WaitThrows
<1>8. ASSUME NEW t \in Threads, WaitValue(t) PROVE Goal
  BY <1>8 DEF WaitValue, TakeValue
<1>9. ASSUME NEW t \in Threads, WaitBlocks(t) PROVE Goal
  BY <1>9 DEF WaitBlocks
<1>10. ASSUME NEW t \in Threads, Sleep(t) PROVE Goal
  BY <1>10 DEF Sleep
<1>11. ASSUME NEW t \in Threads, NotifyAll(t) PROVE Goal
  BY <1>11 DEF NotifyAll
<1>12. ASSUME NEW t \in Threads, SpuriousWakeup(t) PROVE Goal
  BY <1>12 DEF SpuriousWakeup
<1> QED
  BY <1>0, <1>1, <1>2, <1>3, <1>4, <1>5, <1>6, <1>7, <1>8, <1>9, <1>10, <1>11, <1>12
  DEF Next, Begin, Evaluation, Continue

\* The order of the deliveries is kept by a step that touches a history.
LEMMA SetOrder ==
  ASSUME IInv, NEW t \in Threads, NEW v \in Values, set(t, v)
  PROVE  Histories' /\ SlotIsNewest' /\ DeliveredInOrder'
<1> USE DEF IInv, NoSleepOnResult, TypeOK, Histories, SlotIsNewest
<1>1. /\ published' = Append(published, v) /\ m_value' = v /\ delivered' = delivered
      /\ \A k \in 1..Len(published) : published[k] # v
  BY DEF set, Elements
<1>2. /\ Len(published') = Len(published) + 1
      /\ published'[Len(published) + 1] = v
      /\ \A k \in 1..Len(published) : published'[k] = published[k]
  BY <1>1
<1>3. Histories' /\ SlotIsNewest'
  BY <1>1, <1>2, SharedValueAssumption
<1>4. ASSUME NEW i \in 1..Len(delivered), NEW k \in 1..Len(published'),
             delivered[i] = published'[k]
      PROVE  /\ \A j \in (i+1)..Len(delivered) :
                   delivered[j] \in {published'[n] : n \in (k+1)..Len(published')}
             /\ m_value' \notin {published'[n] : n \in 1..k}
  <2>1. k \in 1..Len(published) /\ delivered[i] = published[k]
    BY <1>1, <1>2, <1>4
  <2>2. \A j \in (i+1)..Len(delivered) : delivered[j] \in {published[n] : n \in (k+1)..Len(published)}
    BY <2>1 DEF DeliveredInOrder
  <2>3. \A n \in (k+1)..Len(published) : n \in (k+1)..Len(published') /\ published'[n] = published[n]
    BY <1>2, <2>1
  <2> QED
    BY <1>1, <1>2, <2>1, <2>2, <2>3
<1>5. DeliveredInOrder'
  BY <1>1, <1>4 DEF DeliveredInOrder
<1> QED
  BY <1>3, <1>5

\* wait() delivers the newest publication, and empties the slot.
LEMMA WaitOrder ==
  ASSUME IInv, NEW t \in Threads, WaitValue(t)
  PROVE  Histories' /\ SlotIsNewest' /\ DeliveredInOrder'
<1> USE DEF IInv, NoSleepOnResult, TypeOK, Histories, SlotIsNewest
<1>1. /\ m_value # None /\ m_value' = None
      /\ delivered' = Append(delivered, m_value) /\ published' = published
  BY DEF WaitValue, TakeValue, Evaluate, SomethingToReturn
<1>2. /\ Len(published) > 0 /\ m_value = published[Len(published)] /\ m_value \in Values
  BY <1>1
<1>3. /\ Len(delivered') = Len(delivered) + 1
      /\ delivered'[Len(delivered) + 1] = m_value
      /\ \A i \in 1..Len(delivered) : delivered'[i] = delivered[i]
  BY <1>1, <1>2
<1>4. Histories' /\ SlotIsNewest'
  BY <1>1, <1>2, <1>3
<1>5. ASSUME NEW i \in 1..Len(delivered'), NEW k \in 1..Len(published),
             delivered'[i] = published[k],
             NEW j \in (i+1)..Len(delivered')
      PROVE  delivered'[j] \in {published[n] : n \in (k+1)..Len(published)}
  <2>1. i \in 1..Len(delivered) /\ delivered[i] = published[k]
    BY <1>3, <1>5
  <2>2. CASE j \in (i+1)..Len(delivered)
    <3>1. delivered[j] \in {published[n] : n \in (k+1)..Len(published)}
      BY <2>1, <2>2 DEF DeliveredInOrder
    <3>2. delivered'[j] = delivered[j]
      BY <2>1, <2>2, <1>3
    <3> QED
      BY <3>1, <3>2, LastOfInterval
  <2>3. CASE j = Len(delivered) + 1
    <3>1. m_value \notin {published[n] : n \in 1..k}
      BY <2>1 DEF DeliveredInOrder
    <3>2. Len(published) \in (k+1)..Len(published)
      BY <3>1, <1>2
    <3> QED
      BY <3>2, <2>3, <1>2, <1>3
  <2>4. j \in (i+1)..Len(delivered) \/ j = Len(delivered) + 1
    <3>1. i \in Nat /\ Len(delivered) \in Nat
      OBVIOUS
    <3>2. j \in (i+1)..(Len(delivered) + 1)
      BY <1>3
    <3> QED
      BY <3>1, <3>2, LastOfInterval
  <2> QED
    BY <2>2, <2>3, <2>4
<1>6. \A n \in 1..Len(published) : published[n] # None
  BY SharedValueAssumption
<1> HIDE DEF IInv, NoSleepOnResult, TypeOK, Histories, SlotIsNewest
<1>7. ASSUME NEW k \in 1..Len(published)
      PROVE  m_value' \notin {published[n] : n \in 1..k}
  <2>1. 1..k \subseteq 1..Len(published)
    OBVIOUS
  <2> QED
    BY <1>1, <1>6, <2>1
<1>8. DeliveredInOrder'
  BY <1>1, <1>5, <1>7 DEF DeliveredInOrder
<1> QED
  BY <1>4, <1>8

\* Every step preserves the inductive invariant.
LEMMA IInvStep == IInv /\ [Next]_vars => IInv'
<1> SUFFICES ASSUME IInv, [Next]_vars PROVE IInv'
  OBVIOUS
<1> DEFINE Goal == Histories' /\ SlotIsNewest' /\ DeliveredInOrder'
<1>1. ASSUME UNCHANGED <<m_value, historyVars>> PROVE Goal
  BY <1>1 DEF IInv, historyVars, Histories, SlotIsNewest, DeliveredInOrder
<1>2. ASSUME NEW t \in Threads, NEW v \in Values, set(t, v) PROVE Goal
  BY <1>2, SetOrder
<1>3. ASSUME NEW t \in Threads, WaitValue(t) PROVE Goal
  BY <1>3, WaitOrder
<1>4. UNCHANGED <<m_value, historyVars>> \/ (\E t \in Threads, v \in Values : set(t, v))
        \/ \E t \in Threads : WaitValue(t)
  BY DEF Next, Begin, Evaluation, Continue, vars, slotVars, historyVars, setException, setId, close,
         BeginWait, WaitClosed, WaitThrows, WaitBlocks, Sleep, NotifyAll, SpuriousWakeup
<1>5. NoSleepOnResult' /\ BlockedIsEmpty'
  BY SleepStep DEF IInv
<1> QED
  BY <1>1, <1>2, <1>3, <1>4, <1>5 DEF IInv

\* The inductive invariant holds in every reachable state.
LEMMA IInvAlways == Spec => []IInv
BY InitIInv, IInvStep, PTL DEF Spec

-----------------------------------------------------------------------------
\* Types are kept, and no wakeup of set() and setException() is lost, for any
\* number of producers and consumers.
THEOREM NoLostResult == Spec => []NoSleepOnResult
<1>1. IInv => NoSleepOnResult
  BY DEF IInv
<1> QED
  BY <1>1, IInvAlways, PTL

\* wait() hands every value to one consumer at most, the values in the order of
\* their publication, and what is in the slot is newer than what was taken.
THEOREM DeliveriesOrdered == Spec => []DeliveredInOrder
<1>1. IInv => DeliveredInOrder
  BY DEF IInv
<1> QED
  BY <1>1, IInvAlways, PTL
=============================================================================
