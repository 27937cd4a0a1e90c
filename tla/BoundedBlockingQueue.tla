------------------------ MODULE BoundedBlockingQueue ------------------------
(***************************************************************************)
(* include/miniruntime/task/boundedblockingqueue.h under its most general   *)
(* client: any thread may call any operation at any time, concurrently.     *)
(*                                                                          *)
(* A step is what happens between two points where other threads can        *)
(* interfere.  The mutex is acquired, the predicate evaluated and, when it  *)
(* holds, the rest of the critical section run in one step (only close()    *)
(* writes without the mutex, and no critical section can tell whether it    *)
(* did so before or during it).  When the predicate is false the            *)
(* thread holds the mutex at a *Block location until the condition variable *)
(* releases the mutex and puts the thread in its wait set, in one step.     *)
(* push() is emplace(), size() is Len(m_deque) under the mutex.             *)
(*                                                                          *)
(*   idle            not in an operation                                    *)
(*   emplace, pop, tpop   wants the mutex, to evaluate the predicate        *)
(*   *Block          holds the mutex, predicate false, about to wait        *)
(*   *Wait           in the wait set of the condition variable              *)
(*   tpopWake        timeoutPop woken before its deadline was seen          *)
(*   tpopLast        timeoutPop past its deadline: one last evaluation      *)
(*   emplaceNotify   element inserted, mutex released, notify_one to come   *)
(*   closeNotifyEmpty, closeNotifyFull   the two notify_all of close()      *)
(***************************************************************************)
EXTENDS Naturals, Sequences, FiniteSets

CONSTANTS Threads,    \* the threads that use the queue
          Values,     \* the elements
          Capacity,   \* m_dequeMaxSize
          NoThread    \* the owner of an unlocked mutex

ASSUME ThreadsAssumption == IsFiniteSet(Threads) /\ NoThread \notin Threads
ASSUME CapacityAssumption == Capacity \in Nat

VARIABLES m_deque, m_closed, m_mutex, pc, arg, ret
vars == <<m_deque, m_closed, m_mutex, pc, arg, ret>>

NoArg == "noarg"

PCs == {"idle", "emplace", "emplaceBlock", "emplaceWait", "emplaceNotify",
        "pop", "popBlock", "popWait",
        "tpop", "tpopBlock", "tpopWait", "tpopWake", "tpopLast",
        "closeNotifyEmpty", "closeNotifyFull"}

\* The threads at one of the locations in S.
At(S) == {t \in Threads : pc[t] \in S}

\* The wait sets of the condition variables, and the threads that will
\* evaluate their predicate without any further wakeup.
m_notEmptyCv == At({"popWait", "tpopWait"})
m_notFullCv == At({"emplaceWait"})
WantPop == {"pop", "tpop", "tpopWake", "tpopLast"}
WantPush == {"emplace"}
Pushing == {"emplace", "emplaceBlock", "emplaceWait"}
Blocking == {"emplaceBlock", "popBlock", "tpopBlock"}

Init ==
  /\ m_deque = <<>>
  /\ m_closed = FALSE
  /\ m_mutex = NoThread
  /\ pc = [t \in Threads |-> "idle"]
  /\ arg = [t \in Threads |-> NoArg]
  /\ ret = [t \in Threads |-> "none"]

-----------------------------------------------------------------------------
\* Where a notified thread resumes.
Woken(w) == IF pc[w] = "emplaceWait" THEN "emplace"
            ELSE IF pc[w] = "popWait" THEN "pop" ELSE "tpopWake"

\* Thread t goes to location l, and notify_one wakes one thread of cv, if any.
GotoNotifyOne(t, l, cv) ==
  IF cv = {}
    THEN pc' = [pc EXCEPT ![t] = l]
    ELSE \E w \in cv : pc' = [pc EXCEPT ![t] = l, ![w] = Woken(w)]

\* Thread t goes to location l, and notify_all wakes every thread of cv.
GotoNotifyAll(t, l, cv) ==
  pc' = [u \in Threads |-> IF u = t THEN l
                           ELSE IF u \in cv THEN Woken(u) ELSE pc[u]]

Return(t, r) ==
  /\ arg' = [arg EXCEPT ![t] = NoArg]
  /\ ret' = [ret EXCEPT ![t] = r]

Call(t, l, v) ==
  /\ pc[t] = "idle"
  /\ pc' = [pc EXCEPT ![t] = l]
  /\ arg' = [arg EXCEPT ![t] = v]
  /\ ret' = [ret EXCEPT ![t] = "none"]
  /\ UNCHANGED <<m_deque, m_closed, m_mutex>>

-----------------------------------------------------------------------------
(* emplace() and push() *)

BeginEmplace(t, v) == Call(t, "emplace", v)

EmplaceInsert(t) ==
  /\ pc[t] = "emplace"
  /\ m_mutex = NoThread
  /\ Len(m_deque) < Capacity
  /\ ~m_closed
  /\ m_deque' = Append(m_deque, arg[t])
  /\ pc' = [pc EXCEPT ![t] = "emplaceNotify"]
  /\ Return(t, "pushed")
  /\ UNCHANGED <<m_closed, m_mutex>>

EmplaceRejected(t) ==
  /\ pc[t] = "emplace"
  /\ m_mutex = NoThread
  /\ m_closed
  /\ pc' = [pc EXCEPT ![t] = "idle"]
  /\ Return(t, "rejected")
  /\ UNCHANGED <<m_deque, m_closed, m_mutex>>

EmplaceFull(t) ==
  /\ pc[t] = "emplace"
  /\ m_mutex = NoThread
  /\ Len(m_deque) >= Capacity
  /\ ~m_closed
  /\ m_mutex' = t
  /\ pc' = [pc EXCEPT ![t] = "emplaceBlock"]
  /\ UNCHANGED <<m_deque, m_closed, arg, ret>>

\* Mutant of EmplaceNotify: emplace() notifies m_notFullCv.
EmplaceNotifyWrongCv(t) ==
  /\ pc[t] = "emplaceNotify"
  /\ GotoNotifyOne(t, "idle", m_notFullCv)
  /\ UNCHANGED <<m_deque, m_closed, m_mutex, arg, ret>>

EmplaceNotify(t) ==
  /\ pc[t] = "emplaceNotify"
  /\ GotoNotifyOne(t, "idle", m_notEmptyCv)
  /\ UNCHANGED <<m_deque, m_closed, m_mutex, arg, ret>>

-----------------------------------------------------------------------------
(* pop() and timeoutPop() *)

BeginPop(t) == Call(t, "pop", NoArg)

BeginTimeoutPop(t) == Call(t, "tpop", NoArg)

\* Mutant of PopFront: pop() notifies only when it took the last element.
PopFrontNotifyIfEmptied(t) ==
  /\ pc[t] \in WantPop
  /\ m_mutex = NoThread
  /\ m_deque # <<>>
  /\ m_deque' = Tail(m_deque)
  /\ GotoNotifyOne(t, "idle", IF Len(m_deque) = 1 THEN m_notFullCv ELSE {})
  /\ Return(t, Head(m_deque))
  /\ UNCHANGED <<m_closed, m_mutex>>

\* Mutant of PopFront: the element is taken from the wrong end.
PopBack(t) ==
  /\ pc[t] \in WantPop
  /\ m_mutex = NoThread
  /\ m_deque # <<>>
  /\ m_deque' = SubSeq(m_deque, 1, Len(m_deque) - 1)
  /\ GotoNotifyOne(t, "idle", m_notFullCv)
  /\ Return(t, m_deque[Len(m_deque)])
  /\ UNCHANGED <<m_closed, m_mutex>>

PopFront(t) ==
  /\ pc[t] \in WantPop
  /\ m_mutex = NoThread
  /\ m_deque # <<>>
  /\ m_deque' = Tail(m_deque)
  /\ GotoNotifyOne(t, "idle", m_notFullCv)
  /\ Return(t, Head(m_deque))
  /\ UNCHANGED <<m_closed, m_mutex>>

PopEmpty(t) ==
  /\ pc[t] \in {"pop", "tpop", "tpopWake"}
  /\ m_mutex = NoThread
  /\ m_deque = <<>>
  /\ ~m_closed
  /\ m_mutex' = t
  /\ pc' = [pc EXCEPT ![t] = IF pc[t] = "pop" THEN "popBlock" ELSE "tpopBlock"]
  /\ UNCHANGED <<m_deque, m_closed, arg, ret>>

\* Mutant of PopNullopt: pop() gives up on a closed queue that is not drained.
PopNulloptUndrained(t) ==
  /\ pc[t] \in WantPop
  /\ m_mutex = NoThread
  /\ m_closed \/ (pc[t] = "tpopLast" /\ m_deque = <<>>)
  /\ pc' = [pc EXCEPT ![t] = "idle"]
  /\ Return(t, "nullopt")
  /\ UNCHANGED <<m_deque, m_closed, m_mutex>>

\* Nothing to return: closed and drained, or the timeout is over.
PopNullopt(t) ==
  /\ pc[t] \in WantPop
  /\ m_mutex = NoThread
  /\ m_deque = <<>>
  /\ m_closed \/ pc[t] = "tpopLast"
  /\ pc' = [pc EXCEPT ![t] = "idle"]
  /\ Return(t, "nullopt")
  /\ UNCHANGED <<m_deque, m_closed, m_mutex>>

\* The time given to timeoutPop runs out while it waits, or is found to be
\* over once it was woken.
DeadlinePasses(t) ==
  /\ pc[t] \in {"tpopWait", "tpopWake"}
  /\ pc' = [pc EXCEPT ![t] = "tpopLast"]
  /\ UNCHANGED <<m_deque, m_closed, m_mutex, arg, ret>>

-----------------------------------------------------------------------------
(* The condition variables: release the mutex and wait, in one step; a wait
   may also end for no reason. *)

Wait(t) ==
  /\ pc[t] \in Blocking
  /\ pc' = [pc EXCEPT ![t] = IF pc[t] = "emplaceBlock" THEN "emplaceWait"
                             ELSE IF pc[t] = "popBlock" THEN "popWait"
                             ELSE "tpopWait"]
  /\ m_mutex' = NoThread
  /\ UNCHANGED <<m_deque, m_closed, arg, ret>>

SpuriousWakeup(t) ==
  /\ t \in m_notEmptyCv \cup m_notFullCv
  /\ pc' = [pc EXCEPT ![t] = Woken(t)]
  /\ UNCHANGED <<m_deque, m_closed, m_mutex, arg, ret>>

-----------------------------------------------------------------------------
(* close(): the store and the two notify_all, without the mutex *)

Close(t) ==
  /\ pc[t] = "idle"
  /\ m_closed' = TRUE
  /\ pc' = [pc EXCEPT ![t] = "closeNotifyEmpty"]
  /\ ret' = [ret EXCEPT ![t] = "none"]
  /\ UNCHANGED <<m_deque, m_mutex, arg>>

CloseNotifyEmpty(t) ==
  /\ pc[t] = "closeNotifyEmpty"
  /\ GotoNotifyAll(t, "closeNotifyFull", m_notEmptyCv)
  /\ UNCHANGED <<m_deque, m_closed, m_mutex, arg, ret>>

CloseNotifyFull(t) ==
  /\ pc[t] = "closeNotifyFull"
  /\ GotoNotifyAll(t, "idle", m_notFullCv)
  /\ UNCHANGED <<m_deque, m_closed, m_mutex, arg, ret>>

-----------------------------------------------------------------------------
\* A thread calls an operation.
Begin(t) ==
  \/ \E v \in Values : BeginEmplace(t, v)
  \/ BeginPop(t)
  \/ BeginTimeoutPop(t)
  \/ Close(t)

\* The steps of an operation once called, up to its return.
Continue(t) ==
  \/ EmplaceInsert(t)
  \/ EmplaceRejected(t)
  \/ EmplaceFull(t)
  \/ EmplaceNotify(t)
  \/ PopFront(t)
  \/ PopEmpty(t)
  \/ PopNullopt(t)
  \/ DeadlinePasses(t)
  \/ Wait(t)
  \/ CloseNotifyEmpty(t)
  \/ CloseNotifyFull(t)

Next == \E t \in Threads : Begin(t) \/ Continue(t) \/ SpuriousWakeup(t)

Spec == Init /\ [][Next]_vars

-----------------------------------------------------------------------------
(* Properties *)

\* Every variable keeps its type, and the queue never holds more than
\* m_dequeMaxSize elements.
TypeOK ==
  /\ m_deque \in Seq(Values)
  /\ Len(m_deque) <= Capacity
  /\ m_closed \in BOOLEAN
  /\ m_mutex \in Threads \cup {NoThread}
  /\ pc \in [Threads -> PCs]
  /\ arg \in [Threads -> Values \cup {NoArg}]
  /\ ret \in [Threads -> Values \cup {"none", "nullopt", "pushed", "rejected"}]
  /\ \A t \in Threads : pc[t] \in Pushing => arg[t] \in Values

\* A thread that found its predicate false and is about to wait holds the
\* mutex, nobody else does, and the deque is still as the thread saw it: an
\* insertion or a removal cannot slip in between the evaluation and the wait
\* of pop(), timeoutPop() and emplace().
WaitDecisionStands ==
  \A t \in Threads :
    /\ m_mutex = t <=> pc[t] \in Blocking
    /\ pc[t] \in {"popBlock", "tpopBlock"} => m_deque = <<>>
    /\ pc[t] = "emplaceBlock" => Len(m_deque) >= Capacity

\* No wakeup of m_notEmptyCv is lost: while a consumer waits, every element of
\* the deque is matched by a consumer on its way to the mutex or by a producer
\* that has yet to notify, although emplace() notifies after it unlocked.
NotEmptyWakeups ==
  m_notEmptyCv # {} =>
    Len(m_deque) <= Cardinality(At(WantPop)) + Cardinality(At({"emplaceNotify"}))

\* No wakeup of m_notFullCv is lost: while a producer waits on an open queue,
\* every free slot is matched by a producer on its way to the mutex.
NotFullWakeups ==
  (m_notFullCv # {} /\ ~m_closed) =>
    Capacity <= Len(m_deque) + Cardinality(At(WantPush))

\* No notification of emplace(), pop() or timeoutPop() is lost.
NoLostWakeups == NotEmptyWakeups /\ NotFullWakeups

\* Each operation has the effect and the result the abstract queue gives it,
\* at one point between its call and its return: FIFO order, no loss, no
\* duplicate, false from push() and nothing from pop() only when closed.
AbstractOp(t) ==
  IF pc[t] \in Pushing THEN "push"
  ELSE IF pc[t] \in {"pop", "popBlock", "popWait"} THEN "pop"
  ELSE IF pc[t] \in {"tpop", "tpopBlock", "tpopWait", "tpopWake", "tpopLast"}
    THEN "timeoutPop" ELSE "idle"

Abstract == INSTANCE ClosableQueue
              WITH queue <- m_deque, closed <- m_closed,
                   op <- [t \in Threads |-> AbstractOp(t)]

ImplementsClosableQueue == Abstract!Spec
=============================================================================
