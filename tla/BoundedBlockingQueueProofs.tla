-------------------- MODULE BoundedBlockingQueueProofs --------------------
(***************************************************************************)
(* Proofs about BoundedBlockingQueue for any number of threads, any set of  *)
(* elements and any capacity, zero included.                                *)
(*                                                                          *)
(* The wakeup invariants count threads, so the lemmas of the first section  *)
(* say how a count changes when threads move between locations.  Only lower *)
(* bounds are needed: each invariant bounds the deque by a sum of counts.   *)
(***************************************************************************)
EXTENDS BoundedBlockingQueue, FiniteSetTheorems, SequenceTheorems, TLAPS

\* The set of threads at given locations is finite and has a cardinality.
LEMMA AtFinite ==
  ASSUME NEW S
  PROVE  IsFiniteSet(At(S)) /\ Cardinality(At(S)) \in Nat
<1>1. At(S) \subseteq Threads
  BY DEF At
<1>2. IsFiniteSet(At(S))
  BY <1>1, ThreadsAssumption, FS_Subset
<1> QED
  BY <1>2, FS_CardinalityType

\* A set that keeps its elements does not lose in cardinality.
LEMMA CountKept ==
  ASSUME NEW A, NEW B, IsFiniteSet(A), IsFiniteSet(B), A \subseteq B
  PROVE  Cardinality(A) <= Cardinality(B)
BY FS_Subset

\* A set that loses at most one element loses at most one in cardinality.
LEMMA CountLeft ==
  ASSUME NEW A, NEW B, NEW t, IsFiniteSet(A), IsFiniteSet(B), A \ {t} \subseteq B
  PROVE  Cardinality(A) <= Cardinality(B) + 1
<1>1. /\ IsFiniteSet(A \ {t})
      /\ Cardinality(A \ {t}) = IF t \in A THEN Cardinality(A) - 1 ELSE Cardinality(A)
  BY FS_RemoveElement
<1>2. Cardinality(A \ {t}) <= Cardinality(B)
  BY <1>1, CountKept
<1>3. Cardinality(A) \in Nat /\ Cardinality(B) \in Nat
  BY FS_CardinalityType
<1> QED
  BY <1>1, <1>2, <1>3

\* A set that keeps its elements and gains one grows in cardinality.
LEMMA CountEntered ==
  ASSUME NEW A, NEW B, NEW t, IsFiniteSet(A), IsFiniteSet(B),
         A \subseteq B, t \in B, t \notin A
  PROVE  Cardinality(A) + 1 <= Cardinality(B)
<1>1. /\ IsFiniteSet(A \cup {t})
      /\ Cardinality(A \cup {t}) = Cardinality(A) + 1
  BY FS_AddElement
<1>2. A \cup {t} \subseteq B
  OBVIOUS
<1> QED
  BY <1>1, <1>2, CountKept

-----------------------------------------------------------------------------
\* A notified thread resumes where it evaluates its predicate again.
LEMMA WokenType ==
  ASSUME NEW w \in m_notEmptyCv \cup m_notFullCv
  PROVE  /\ Woken(w) \in WantPop \cup WantPush
         /\ w \in m_notEmptyCv => Woken(w) \in {"pop", "tpopWake"}
         /\ w \in m_notFullCv => Woken(w) = "emplace"
BY DEF m_notEmptyCv, m_notFullCv, At, Woken, WantPop, WantPush

\* Every step keeps the types, and the bound of the deque.
LEMMA TypeStep == TypeOK /\ [Next]_vars => TypeOK'
<1> SUFFICES ASSUME TypeOK, [Next]_vars PROVE TypeOK'
  OBVIOUS
<1> USE DEF TypeOK, PCs, Pushing
<1>0. CASE UNCHANGED vars
  BY <1>0 DEF vars
<1>1. CASE Next
  <2>0. PICK t \in Threads : Begin(t) \/ Continue(t) \/ SpuriousWakeup(t)
    BY <1>1 DEF Next
  <2>1. ASSUME NEW v \in Values, BeginEmplace(t, v) PROVE TypeOK'
    BY <2>1 DEF BeginEmplace, Call
  <2>2. CASE BeginPop(t)
    BY <2>2 DEF BeginPop, Call
  <2>3. CASE BeginTimeoutPop(t)
    BY <2>3 DEF BeginTimeoutPop, Call
  <2>4. CASE Close(t)
    BY <2>4 DEF Close
  <2>5. CASE EmplaceInsert(t)
    <3>1. arg[t] \in Values /\ Len(m_deque) < Capacity
      BY <2>5 DEF EmplaceInsert
    <3>2. m_deque' \in Seq(Values) /\ Len(m_deque') = Len(m_deque) + 1
      BY <2>5, <3>1, AppendProperties DEF EmplaceInsert
    <3>3. Len(m_deque') <= Capacity
      BY <3>1, <3>2, CapacityAssumption, LenProperties
    <3> QED
      BY <2>5, <3>2, <3>3 DEF EmplaceInsert, Return
  <2>6. CASE EmplaceRejected(t)
    BY <2>6 DEF EmplaceRejected, Return
  <2>7. CASE EmplaceFull(t)
    BY <2>7 DEF EmplaceFull
  <2>8. CASE EmplaceNotify(t)
    BY <2>8 DEF EmplaceNotify, GotoNotifyOne, m_notEmptyCv, At, Woken
  <2>9. CASE PopFront(t)
    <3>1. /\ pc' \in [Threads -> PCs]
          /\ \A u \in Threads : pc'[u] \in Pushing => pc[u] \in Pushing /\ u # t
      BY <2>9 DEF PopFront, GotoNotifyOne, m_notFullCv, At, Woken, WantPop
    <3>2. /\ Head(m_deque) \in Values
          /\ m_deque' \in Seq(Values)
          /\ Len(m_deque') = Len(m_deque) - 1
      BY <2>9, HeadTailProperties DEF PopFront
    <3>3. Len(m_deque') <= Capacity
      BY <3>2, CapacityAssumption, LenProperties
    <3> QED
      BY <2>9, <3>1, <3>2, <3>3 DEF PopFront, Return
  <2>10. CASE PopEmpty(t)
    BY <2>10 DEF PopEmpty
  <2>11. CASE PopNullopt(t)
    BY <2>11 DEF PopNullopt, Return
  <2>12. CASE DeadlinePasses(t)
    BY <2>12 DEF DeadlinePasses
  <2>13. CASE Wait(t)
    BY <2>13 DEF Wait, Blocking
  <2>14. CASE CloseNotifyEmpty(t)
    BY <2>14 DEF CloseNotifyEmpty, GotoNotifyAll, m_notEmptyCv, m_notFullCv, At, Woken
  <2>15. CASE CloseNotifyFull(t)
    BY <2>15 DEF CloseNotifyFull, GotoNotifyAll, m_notEmptyCv, m_notFullCv, At, Woken
  <2>16. CASE SpuriousWakeup(t)
    BY <2>16 DEF SpuriousWakeup, m_notEmptyCv, m_notFullCv, At, Woken
  <2> QED
    BY <2>0, <2>1, <2>2, <2>3, <2>4, <2>5, <2>6, <2>7, <2>8, <2>9, <2>10, <2>11,
       <2>12, <2>13, <2>14, <2>15, <2>16 DEF Begin, Continue
<1> QED
  BY <1>0, <1>1

-----------------------------------------------------------------------------
\* Only a thread that holds the mutex is at a blocking location, and nobody
\* changes the deque meanwhile.
LEMMA WaitDecisionStep ==
  TypeOK /\ WaitDecisionStands /\ [Next]_vars => WaitDecisionStands'
<1> SUFFICES ASSUME TypeOK, WaitDecisionStands, [Next]_vars
             PROVE  WaitDecisionStands'
  OBVIOUS
<1> USE ThreadsAssumption DEF WaitDecisionStands, Blocking
<1>type. pc \in [Threads -> PCs]
  BY DEF TypeOK
<1>0. CASE UNCHANGED vars
  BY <1>0 DEF vars
<1>1. CASE Next
  <2>0. PICK t \in Threads : Begin(t) \/ Continue(t) \/ SpuriousWakeup(t)
    BY <1>1 DEF Next
  <2>1. CASE Begin(t)
    BY <1>type, <2>1 DEF Begin, BeginEmplace, BeginPop, BeginTimeoutPop, Call, Close
  <2>2. CASE EmplaceInsert(t)
    BY <1>type, <2>2 DEF EmplaceInsert
  <2>3. CASE EmplaceRejected(t)
    BY <1>type, <2>3 DEF EmplaceRejected
  <2>4. CASE EmplaceFull(t)
    BY <1>type, <2>4 DEF EmplaceFull
  <2>5. CASE EmplaceNotify(t)
    BY <1>type, <2>5 DEF EmplaceNotify, GotoNotifyOne, m_notEmptyCv, At, Woken
  <2>6. CASE PopFront(t)
    BY <1>type, <2>6 DEF PopFront, GotoNotifyOne, m_notFullCv, At, Woken, WantPop
  <2>7. CASE PopEmpty(t)
    BY <1>type, <2>7 DEF PopEmpty
  <2>8. CASE PopNullopt(t)
    BY <1>type, <2>8 DEF PopNullopt, WantPop
  <2>9. CASE DeadlinePasses(t)
    BY <1>type, <2>9 DEF DeadlinePasses
  <2>10. CASE Wait(t)
    BY <1>type, <2>10 DEF Wait
  <2>11. CASE CloseNotifyEmpty(t)
    BY <1>type, <2>11 DEF CloseNotifyEmpty, GotoNotifyAll, m_notEmptyCv, At, Woken
  <2>12. CASE CloseNotifyFull(t)
    BY <1>type, <2>12 DEF CloseNotifyFull, GotoNotifyAll, m_notFullCv, At, Woken
  <2>13. CASE SpuriousWakeup(t)
    BY <1>type, <2>13 DEF SpuriousWakeup, m_notEmptyCv, m_notFullCv, At, Woken
  <2> QED
    BY <2>0, <2>1, <2>2, <2>3, <2>4, <2>5, <2>6, <2>7, <2>8, <2>9, <2>10, <2>11,
       <2>12, <2>13 DEF Continue
<1> QED
  BY <1>0, <1>1

-----------------------------------------------------------------------------
\* The wakeup invariants survive every step.  A step that only moves threads
\* to or within the locations counted keeps the bound; an insertion is paid
\* by its thread entering emplaceNotify, a notification by the thread it
\* wakes, and a thread starts to wait only with the deque empty (or full).
LEMMA NotEmptyStep ==
  TypeOK /\ WaitDecisionStands /\ NotEmptyWakeups /\ [Next]_vars => NotEmptyWakeups'
<1> SUFFICES ASSUME TypeOK, WaitDecisionStands, NotEmptyWakeups, [Next]_vars,
                    m_notEmptyCv' # {}
             PROVE  Len(m_deque') <= Cardinality(At(WantPop)')
                                       + Cardinality(At({"emplaceNotify"})')
  BY DEF NotEmptyWakeups
<1> DEFINE W == At(WantPop)
           N == At({"emplaceNotify"})
<1>type. pc \in [Threads -> PCs] /\ m_deque \in Seq(Values)
  BY DEF TypeOK
<1>fin. /\ IsFiniteSet(W) /\ Cardinality(W) \in Nat
        /\ IsFiniteSet(N) /\ Cardinality(N) \in Nat
        /\ IsFiniteSet(W') /\ Cardinality(W') \in Nat
        /\ IsFiniteSet(N') /\ Cardinality(N') \in Nat
  <2>1. W' \subseteq Threads /\ N' \subseteq Threads
    BY DEF At
  <2>2. IsFiniteSet(W') /\ IsFiniteSet(N')
    BY <2>1, ThreadsAssumption, FS_Subset
  <2> QED
    BY <2>2, AtFinite, FS_CardinalityType
<1>len. Len(m_deque) \in Nat
  BY <1>type, LenProperties
<1> HIDE DEF W, N
\* Steps that leave the deque alone and lose no thread from the counts.
<1>keep. ASSUME m_deque' = m_deque, W \subseteq W', N \subseteq N',
                m_notEmptyCv # {}
         PROVE  Len(m_deque') <= Cardinality(W') + Cardinality(N')
  <2>1. Cardinality(W) <= Cardinality(W') /\ Cardinality(N) <= Cardinality(N')
    BY <1>keep, <1>fin, CountKept
  <2> QED
    BY <2>1, <1>keep, <1>fin, <1>len DEF NotEmptyWakeups, W, N
\* Steps taken, or ending, with an empty deque.
<1>empty. ASSUME m_deque' = <<>>
          PROVE  Len(m_deque') <= Cardinality(W') + Cardinality(N')
  BY <1>empty, <1>fin
<1>0. CASE UNCHANGED vars
  BY <1>0, <1>keep DEF vars, W, N, At, m_notEmptyCv
<1>1. CASE Next
  <2>0. PICK t \in Threads : Begin(t) \/ Continue(t) \/ SpuriousWakeup(t)
    BY <1>1 DEF Next
  <2>1. CASE Begin(t)
    <3>1. m_deque' = m_deque /\ W \subseteq W' /\ N \subseteq N' /\ m_notEmptyCv # {}
      BY <1>type, <2>1 DEF Begin, BeginEmplace, BeginPop, BeginTimeoutPop, Call, Close,
         W, N, At, WantPop, m_notEmptyCv
    <3> QED
      BY <3>1, <1>keep DEF W, N
  <2>2. CASE EmplaceInsert(t)
    <3>1. W \subseteq W' /\ N \subseteq N' /\ t \in N' /\ t \notin N /\ m_notEmptyCv # {}
      BY <1>type, <2>2 DEF EmplaceInsert, W, N, At, WantPop, m_notEmptyCv
    <3>2. Cardinality(W) <= Cardinality(W') /\ Cardinality(N) + 1 <= Cardinality(N')
      BY <3>1, <1>fin, CountKept, CountEntered
    <3>3. Len(m_deque') = Len(m_deque) + 1
      <4>1. arg[t] \in Values
        BY <2>2 DEF EmplaceInsert, TypeOK, Pushing
      <4> QED
        BY <4>1, <2>2, <1>type, AppendProperties DEF EmplaceInsert
    <3> QED
      BY <3>1, <3>2, <3>3, <1>fin, <1>len DEF NotEmptyWakeups, W, N
  <2>3. CASE EmplaceRejected(t)
    <3>1. m_deque' = m_deque /\ W \subseteq W' /\ N \subseteq N' /\ m_notEmptyCv # {}
      BY <1>type, <2>3 DEF EmplaceRejected, W, N, At, WantPop, m_notEmptyCv
    <3> QED
      BY <3>1, <1>keep DEF W, N
  <2>4. CASE EmplaceFull(t)
    <3>1. m_deque' = m_deque /\ W \subseteq W' /\ N \subseteq N' /\ m_notEmptyCv # {}
      BY <1>type, <2>4 DEF EmplaceFull, W, N, At, WantPop, m_notEmptyCv
    <3> QED
      BY <3>1, <1>keep DEF W, N
  <2>5. CASE EmplaceNotify(t)
    <3>1. m_notEmptyCv # {}
      BY <1>type, <2>5 DEF EmplaceNotify, GotoNotifyOne, m_notEmptyCv, At
    <3>2. PICK w \in m_notEmptyCv : pc' = [pc EXCEPT ![t] = "idle", ![w] = Woken(w)]
      BY <2>5, <3>1 DEF EmplaceNotify, GotoNotifyOne
    <3>3. W \subseteq W' /\ w \in W' /\ w \notin W /\ N \ {t} \subseteq N'
      BY <1>type, <2>5, <3>2 DEF EmplaceNotify, W, N, At, WantPop, m_notEmptyCv, Woken
    <3>4. Cardinality(W) + 1 <= Cardinality(W') /\ Cardinality(N) <= Cardinality(N') + 1
      BY <3>3, <1>fin, CountEntered, CountLeft
    <3>5. m_deque' = m_deque
      BY <2>5 DEF EmplaceNotify
    <3> QED
      BY <3>1, <3>4, <3>5, <1>fin, <1>len DEF NotEmptyWakeups, W, N
  <2>6. CASE PopFront(t)
    <3>1. W \ {t} \subseteq W' /\ N \subseteq N' /\ m_notEmptyCv # {}
      BY <1>type, <2>6 DEF PopFront, GotoNotifyOne, m_notFullCv, Woken, W, N, At, WantPop,
         m_notEmptyCv
    <3>2. Cardinality(W) <= Cardinality(W') + 1 /\ Cardinality(N) <= Cardinality(N')
      BY <3>1, <1>fin, CountKept, CountLeft
    <3>3. Len(m_deque') = Len(m_deque) - 1
      BY <2>6, <1>type, HeadTailProperties DEF PopFront
    <3> QED
      BY <3>1, <3>2, <3>3, <1>fin, <1>len DEF NotEmptyWakeups, W, N
  <2>7. CASE PopEmpty(t)
    BY <2>7, <1>empty DEF PopEmpty, W, N
  <2>8. CASE PopNullopt(t)
    BY <2>8, <1>empty DEF PopNullopt, W, N
  <2>9. CASE DeadlinePasses(t)
    <3>1. m_deque' = m_deque /\ W \subseteq W' /\ N \subseteq N' /\ m_notEmptyCv # {}
      BY <1>type, <2>9 DEF DeadlinePasses, W, N, At, WantPop, m_notEmptyCv
    <3> QED
      BY <3>1, <1>keep DEF W, N
  <2>10. CASE Wait(t)
    <3>1. CASE pc[t] \in {"popBlock", "tpopBlock"}
      BY <3>1, <2>10, <1>empty DEF Wait, WaitDecisionStands, W, N
    <3>2. CASE pc[t] = "emplaceBlock"
      <4>1. m_deque' = m_deque /\ W \subseteq W' /\ N \subseteq N' /\ m_notEmptyCv # {}
        BY <1>type, <2>10, <3>2 DEF Wait, W, N, At, WantPop, m_notEmptyCv
      <4> QED
        BY <4>1, <1>keep DEF W, N
    <3> QED
      BY <3>1, <3>2, <2>10 DEF Wait, Blocking
  <2>11. CASE CloseNotifyEmpty(t)
    <3>1. m_notEmptyCv' = {}
      BY <1>type, <2>11 DEF CloseNotifyEmpty, GotoNotifyAll, Woken, At, m_notEmptyCv
    <3> QED
      BY <3>1
  <2>12. CASE CloseNotifyFull(t)
    <3>1. m_deque' = m_deque /\ W \subseteq W' /\ N \subseteq N' /\ m_notEmptyCv # {}
      BY <1>type, <2>12 DEF CloseNotifyFull, GotoNotifyAll, Woken, W, N, At, WantPop,
         m_notFullCv, m_notEmptyCv
    <3> QED
      BY <3>1, <1>keep DEF W, N
  <2>13. CASE SpuriousWakeup(t)
    <3>1. m_deque' = m_deque /\ W \subseteq W' /\ N \subseteq N' /\ m_notEmptyCv # {}
      BY <1>type, <2>13 DEF SpuriousWakeup, Woken, W, N, At, WantPop, m_notFullCv,
         m_notEmptyCv
    <3> QED
      BY <3>1, <1>keep DEF W, N
  <2> QED
    BY <2>0, <2>1, <2>2, <2>3, <2>4, <2>5, <2>6, <2>7, <2>8, <2>9, <2>10, <2>11,
       <2>12, <2>13 DEF Continue, W, N
<1> QED
  BY <1>0, <1>1 DEF W, N

\* The same for m_notFull: every step keeps the free slots matched by threads that
\* come for them.
LEMMA NotFullStep ==
  TypeOK /\ WaitDecisionStands /\ NotFullWakeups /\ [Next]_vars => NotFullWakeups'
<1> SUFFICES ASSUME TypeOK, WaitDecisionStands, NotFullWakeups, [Next]_vars,
                    m_notFullCv' # {}, ~m_closed'
             PROVE  Capacity <= Len(m_deque') + Cardinality(At(WantPush)')
  BY DEF NotFullWakeups
<1> DEFINE P == At(WantPush)
<1>type. pc \in [Threads -> PCs] /\ m_deque \in Seq(Values)
  BY DEF TypeOK
<1>fin. /\ IsFiniteSet(P) /\ Cardinality(P) \in Nat
        /\ IsFiniteSet(P') /\ Cardinality(P') \in Nat
  <2>1. P' \subseteq Threads
    BY DEF At
  <2>2. IsFiniteSet(P')
    BY <2>1, ThreadsAssumption, FS_Subset
  <2> QED
    BY <2>2, AtFinite, FS_CardinalityType
<1>len. Len(m_deque) \in Nat
  BY <1>type, LenProperties
<1> HIDE DEF P
<1> USE CapacityAssumption
<1>keep. ASSUME m_deque' = m_deque, P \subseteq P', m_notFullCv # {}, ~m_closed
         PROVE  Capacity <= Len(m_deque') + Cardinality(P')
  <2>1. Cardinality(P) <= Cardinality(P')
    BY <1>keep, <1>fin, CountKept
  <2> QED
    BY <2>1, <1>keep, <1>fin, <1>len DEF NotFullWakeups, P
<1>full. ASSUME m_deque' = m_deque, Len(m_deque) >= Capacity
         PROVE  Capacity <= Len(m_deque') + Cardinality(P')
  BY <1>full, <1>fin, <1>len
<1>0. CASE UNCHANGED vars
  BY <1>0, <1>keep DEF vars, P, At, m_notFullCv
<1>1. CASE Next
  <2>0. PICK t \in Threads : Begin(t) \/ Continue(t) \/ SpuriousWakeup(t)
    BY <1>1 DEF Next
  <2>1. CASE Begin(t)
    <3>1. m_deque' = m_deque /\ P \subseteq P' /\ m_notFullCv # {} /\ ~m_closed
      BY <1>type, <2>1 DEF Begin, BeginEmplace, BeginPop, BeginTimeoutPop, Call, Close,
         P, At, WantPush, m_notFullCv
    <3> QED
      BY <3>1, <1>keep DEF P
  <2>2. CASE EmplaceInsert(t)
    <3>1. P \ {t} \subseteq P' /\ m_notFullCv # {} /\ ~m_closed
      BY <1>type, <2>2 DEF EmplaceInsert, P, At, WantPush, m_notFullCv
    <3>2. Cardinality(P) <= Cardinality(P') + 1
      BY <3>1, <1>fin, CountLeft
    <3>3. Len(m_deque') = Len(m_deque) + 1
      <4>1. arg[t] \in Values
        BY <2>2 DEF EmplaceInsert, TypeOK, Pushing
      <4> QED
        BY <4>1, <2>2, <1>type, AppendProperties DEF EmplaceInsert
    <3> QED
      BY <3>1, <3>2, <3>3, <1>fin, <1>len DEF NotFullWakeups, P
  <2>3. CASE EmplaceRejected(t)
    BY <2>3 DEF EmplaceRejected
  <2>4. CASE EmplaceFull(t)
    BY <2>4, <1>full DEF EmplaceFull, P
  <2>5. CASE EmplaceNotify(t)
    <3>1. m_deque' = m_deque /\ P \subseteq P' /\ m_notFullCv # {} /\ ~m_closed
      BY <1>type, <2>5 DEF EmplaceNotify, GotoNotifyOne, m_notEmptyCv, Woken, P, At,
         WantPush, m_notFullCv
    <3> QED
      BY <3>1, <1>keep DEF P
  <2>6. CASE PopFront(t)
    <3>1. m_notFullCv # {} /\ ~m_closed
      BY <1>type, <2>6 DEF PopFront, GotoNotifyOne, m_notFullCv, At
    <3>2. PICK w \in m_notFullCv : pc' = [pc EXCEPT ![t] = "idle", ![w] = Woken(w)]
      BY <2>6, <3>1 DEF PopFront, GotoNotifyOne
    <3>3. P \subseteq P' /\ w \in P' /\ w \notin P
      BY <1>type, <2>6, <3>2 DEF PopFront, P, At, WantPush, WantPop, m_notFullCv, Woken
    <3>4. Cardinality(P) + 1 <= Cardinality(P')
      BY <3>3, <1>fin, CountEntered
    <3>5. Len(m_deque') = Len(m_deque) - 1
      BY <2>6, <1>type, HeadTailProperties DEF PopFront
    <3> QED
      BY <3>1, <3>4, <3>5, <1>fin, <1>len DEF NotFullWakeups, P
  <2>7. CASE PopEmpty(t)
    <3>1. m_deque' = m_deque /\ P \subseteq P' /\ m_notFullCv # {} /\ ~m_closed
      BY <1>type, <2>7 DEF PopEmpty, P, At, WantPush, m_notFullCv
    <3> QED
      BY <3>1, <1>keep DEF P
  <2>8. CASE PopNullopt(t)
    <3>1. m_deque' = m_deque /\ P \subseteq P' /\ m_notFullCv # {} /\ ~m_closed
      BY <1>type, <2>8 DEF PopNullopt, P, At, WantPush, WantPop, m_notFullCv
    <3> QED
      BY <3>1, <1>keep DEF P
  <2>9. CASE DeadlinePasses(t)
    <3>1. m_deque' = m_deque /\ P \subseteq P' /\ m_notFullCv # {} /\ ~m_closed
      BY <1>type, <2>9 DEF DeadlinePasses, P, At, WantPush, m_notFullCv
    <3> QED
      BY <3>1, <1>keep DEF P
  <2>10. CASE Wait(t)
    <3>1. CASE pc[t] = "emplaceBlock"
      BY <3>1, <2>10, <1>full DEF Wait, WaitDecisionStands, P
    <3>2. CASE pc[t] \in {"popBlock", "tpopBlock"}
      <4>1. m_deque' = m_deque /\ P \subseteq P' /\ m_notFullCv # {} /\ ~m_closed
        BY <1>type, <2>10, <3>2 DEF Wait, P, At, WantPush, m_notFullCv
      <4> QED
        BY <4>1, <1>keep DEF P
    <3> QED
      BY <3>1, <3>2, <2>10 DEF Wait, Blocking
  <2>11. CASE CloseNotifyEmpty(t)
    <3>1. m_deque' = m_deque /\ P \subseteq P' /\ m_notFullCv # {} /\ ~m_closed
      BY <1>type, <2>11 DEF CloseNotifyEmpty, GotoNotifyAll, Woken, P, At, WantPush,
         m_notFullCv, m_notEmptyCv
    <3> QED
      BY <3>1, <1>keep DEF P
  <2>12. CASE CloseNotifyFull(t)
    <3>1. m_notFullCv' = {}
      BY <1>type, <2>12 DEF CloseNotifyFull, GotoNotifyAll, Woken, At, m_notFullCv
    <3> QED
      BY <3>1
  <2>13. CASE SpuriousWakeup(t)
    <3>1. m_deque' = m_deque /\ P \subseteq P' /\ m_notFullCv # {} /\ ~m_closed
      BY <1>type, <2>13 DEF SpuriousWakeup, Woken, P, At, WantPush, m_notFullCv,
         m_notEmptyCv
    <3> QED
      BY <3>1, <1>keep DEF P
  <2> QED
    BY <2>0, <2>1, <2>2, <2>3, <2>4, <2>5, <2>6, <2>7, <2>8, <2>9, <2>10, <2>11,
       <2>12, <2>13 DEF Continue, P
<1> QED
  BY <1>0, <1>1 DEF P

-----------------------------------------------------------------------------
\* The inductive invariant of the queue.
IInv == TypeOK /\ WaitDecisionStands /\ NotEmptyWakeups /\ NotFullWakeups

\* The constructor establishes the inductive invariant.
LEMMA InitIInv == Init => IInv
<1> SUFFICES ASSUME Init PROVE IInv
  OBVIOUS
<1> USE DEF Init
<1>1. m_deque \in Seq(Values) /\ Len(m_deque) = 0
  BY EmptySeq
<1>2. TypeOK
  <2>1. m_closed \in BOOLEAN /\ m_mutex \in Threads \cup {NoThread}
    OBVIOUS
  <2>2. /\ pc \in [Threads -> PCs]
        /\ \A t \in Threads : pc[t] \in Pushing => arg[t] \in Values
    BY DEF PCs, Pushing
  <2>3. /\ arg \in [Threads -> Values \cup {NoArg}]
        /\ ret \in [Threads -> Values \cup {"none", "nullopt", "pushed", "rejected"}]
    OBVIOUS
  <2> QED
    BY <1>1, <2>1, <2>2, <2>3, CapacityAssumption DEF TypeOK
<1>3. WaitDecisionStands
  BY ThreadsAssumption DEF WaitDecisionStands, Blocking
<1>4. m_notEmptyCv = {} /\ m_notFullCv = {}
  BY DEF m_notEmptyCv, m_notFullCv, At
<1> QED
  BY <1>2, <1>3, <1>4 DEF IInv, NotEmptyWakeups, NotFullWakeups

\* Every step of every thread preserves the inductive invariant.
LEMMA IInvStep == IInv /\ [Next]_vars => IInv'
BY TypeStep, WaitDecisionStep, NotEmptyStep, NotFullStep DEF IInv

\* The inductive invariant holds in every reachable state.
LEMMA IInvAlways == Spec => []IInv
BY InitIInv, IInvStep, PTL DEF Spec

\* Types are kept and the deque never exceeds m_dequeMaxSize, for every number
\* of threads and every capacity.
THEOREM TypeCorrect == Spec => []TypeOK
<1>1. IInv => TypeOK
  BY DEF IInv
<1> QED
  BY <1>1, IInvAlways, PTL

\* Between evaluating its predicate and waiting, a thread of pop(),
\* timeoutPop() or emplace() owns the mutex and its view of the deque stands.
THEOREM DecisionStands == Spec => []WaitDecisionStands
<1>1. IInv => WaitDecisionStands
  BY DEF IInv
<1> QED
  BY <1>1, IInvAlways, PTL

\* notify_one after the unlock in emplace() and under the lock in pop() loses
\* no wakeup, whatever the number of producers and consumers.
THEOREM NoLostWakeup == Spec => []NoLostWakeups
<1>1. IInv => NoLostWakeups
  BY DEF IInv, NoLostWakeups
<1> QED
  BY <1>1, IInvAlways, PTL

-----------------------------------------------------------------------------
(* Refinement: the queue implements ClosableQueue *)

\* Every step of the queue is a step of the abstract queue or leaves it alone.
LEMMA RefinementStep ==
  TypeOK /\ [Next]_vars => [Abstract!Next]_(Abstract!vars)
<1> SUFFICES ASSUME TypeOK, [Next]_vars
             PROVE  Abstract!Next \/ UNCHANGED Abstract!vars
  BY DEF Abstract!vars
<1>type. /\ pc \in [Threads -> PCs] /\ arg \in [Threads -> Values \cup {NoArg}]
         /\ m_deque \in Seq(Values)
  BY DEF TypeOK
<1>0. CASE UNCHANGED vars
  BY <1>0 DEF vars, Abstract!vars, AbstractOp
<1>1. CASE Next
  <2>0. PICK t \in Threads : Begin(t) \/ Continue(t) \/ SpuriousWakeup(t)
    BY <1>1 DEF Next
  <2> SUFFICES Abstract!Step(t) \/ UNCHANGED Abstract!vars
    BY DEF Abstract!Next
  <2> USE DEF AbstractOp, Pushing, NoArg, Abstract!NoArg
  <2>1. ASSUME NEW v \in Values, BeginEmplace(t, v) PROVE Abstract!Call(t, "push", v)
    BY <1>type, <2>1 DEF BeginEmplace, Call, Abstract!Call
  <2>2. CASE BeginPop(t)
    BY <1>type, <2>2 DEF BeginPop, Call, Abstract!Call, Abstract!Step
  <2>3. CASE BeginTimeoutPop(t)
    BY <1>type, <2>3 DEF BeginTimeoutPop, Call, Abstract!Call, Abstract!Step
  <2>4. CASE Close(t)
    BY <1>type, <2>4 DEF Close, Abstract!Close, Abstract!Step
  <2>5. CASE EmplaceInsert(t)
    BY <1>type, <2>5 DEF EmplaceInsert, Return, Abstract!Push, Abstract!Respond, Abstract!Step
  <2>6. CASE EmplaceRejected(t)
    BY <1>type, <2>6 DEF EmplaceRejected, Return, Abstract!PushRejected, Abstract!Respond,
       Abstract!Step
  <2>7. CASE EmplaceFull(t)
    BY <1>type, <2>7 DEF EmplaceFull, Abstract!vars
  <2>8. CASE EmplaceNotify(t)
    BY <1>type, <2>8 DEF EmplaceNotify, GotoNotifyOne, Woken, m_notEmptyCv, At, Abstract!vars
  <2>9. CASE PopFront(t)
    BY <1>type, <2>9 DEF PopFront, GotoNotifyOne, Woken, m_notFullCv, At, WantPop, Return,
       Abstract!Pop, Abstract!Respond, Abstract!Step
  <2>10. CASE PopEmpty(t)
    BY <1>type, <2>10 DEF PopEmpty, Abstract!vars
  <2>11. CASE PopNullopt(t)
    BY <1>type, <2>11 DEF PopNullopt, WantPop, Return, Abstract!PopNothing, Abstract!Respond,
       Abstract!Step
  <2>12. CASE DeadlinePasses(t)
    BY <1>type, <2>12 DEF DeadlinePasses, Abstract!vars
  <2>13. CASE Wait(t)
    BY <1>type, <2>13 DEF Wait, Blocking, Abstract!vars
  <2>14. CASE CloseNotifyEmpty(t)
    BY <1>type, <2>14 DEF CloseNotifyEmpty, GotoNotifyAll, Woken, m_notEmptyCv, At, Abstract!vars
  <2>15. CASE CloseNotifyFull(t)
    BY <1>type, <2>15 DEF CloseNotifyFull, GotoNotifyAll, Woken, m_notFullCv, At, Abstract!vars
  <2>16. CASE SpuriousWakeup(t)
    BY <1>type, <2>16 DEF SpuriousWakeup, Woken, m_notFullCv, m_notEmptyCv, At, Abstract!vars
  <2> QED
    BY <2>0, <2>1, <2>2, <2>3, <2>4, <2>5, <2>6, <2>7, <2>8, <2>9, <2>10, <2>11,
       <2>12, <2>13, <2>14, <2>15, <2>16 DEF Begin, Continue, Abstract!Step
<1> QED
  BY <1>0, <1>1

\* The queue implements ClosableQueue: every operation takes effect at one
\* point between its call and its return, in FIFO order, with the results the
\* comments of push(), pop() and timeoutPop() promise.
THEOREM Refinement == Spec => ImplementsClosableQueue
<1>1. Init => Abstract!Init
  BY DEF Init, Abstract!Init, AbstractOp, Pushing, NoArg, Abstract!NoArg
<1> QED
  BY <1>1, RefinementStep, TypeCorrect, PTL DEF Spec, ImplementsClosableQueue, Abstract!Spec
=============================================================================
