----------------------------- MODULE SharedValue -----------------------------
(***************************************************************************)
(* include/miniruntime/asyncresult/sharedvalue.h: the slot in which an      *)
(* interval task leaves its latest value, under any number of producers and *)
(* consumers.  SharedValue<void> is the case of a single value.             *)
(*                                                                          *)
(* A critical section is one step, taken when m_mutex is free.  A wait()    *)
(* whose predicate is false keeps the mutex at "block" and begins to wait   *)
(* in a second step, because close() stores without the mutex.  The         *)
(* producers notify after they have unlocked, in a step of their own.       *)
(* Every publication is a value of its own, which bounds the runs.  getId() *)
(* reads m_id under the mutex and changes nothing.                          *)
(*                                                                          *)
(*   pc[t]   idle; wait (wants the mutex), block, asleep;                   *)
(*           notify (the notify_all of set, setException and close)         *)
(***************************************************************************)
EXTENDS Naturals, Sequences, FiniteSets

CONSTANTS Threads, Values, Exceptions, Ids,
          None,       \* an empty optional, a null exception_ptr
          NoThread    \* the owner of an unlocked mutex

ASSUME SharedValueAssumption ==
  /\ NoThread \notin Threads
  /\ None \notin Values \cup Exceptions \cup Ids

VARIABLES
  m_value, m_exception, m_closed, m_id, m_mutex, pc,
  published,   \* the values in the order of their set() (history)
  delivered    \* the values in the order of the wait()s they ended (history)
slotVars == <<m_value, m_exception, m_closed, m_id>>
historyVars == <<published, delivered>>
vars == <<slotVars, m_mutex, pc, historyVars>>

Init ==
  /\ m_value = None /\ m_exception = None /\ m_closed = FALSE /\ m_id = None
  /\ m_mutex = NoThread
  /\ pc = [t \in Threads |-> "idle"]
  /\ published = <<>> /\ delivered = <<>>

Elements(s) == {s[i] : i \in 1..Len(s)}
Goto(t, l) == pc' = [pc EXCEPT ![t] = l]

\* t calls an operation of one critical section, and goes to l after it.
Call(t, l) ==
  /\ pc[t] = "idle"
  /\ m_mutex = NoThread
  /\ Goto(t, l)
  /\ UNCHANGED m_mutex

-----------------------------------------------------------------------------
(* The producers *)

set(t, v) ==
  /\ Call(t, "notify")
  /\ v \notin Elements(published)
  /\ m_value' = v
  /\ published' = Append(published, v)
  /\ UNCHANGED <<m_exception, m_closed, m_id, delivered>>

setException(t, e) ==
  /\ Call(t, "notify")
  /\ m_exception' = e
  /\ UNCHANGED <<m_value, m_closed, m_id, historyVars>>

\* close() takes no mutex.
close(t) ==
  /\ pc[t] = "idle"
  /\ m_closed' = TRUE
  /\ Goto(t, "notify")
  /\ UNCHANGED <<m_value, m_exception, m_id, m_mutex, historyVars>>

\* Mutant of NotifyAll: one waiter is woken.
NotifyOne(t) ==
  /\ pc[t] = "notify"
  /\ \/ ("asleep" \notin {pc[u] : u \in Threads}) /\ Goto(t, "idle")
     \/ \E u \in Threads : pc[u] = "asleep" /\ pc' = [pc EXCEPT ![t] = "idle", ![u] = "wait"]
  /\ UNCHANGED <<slotVars, m_mutex, historyVars>>

NotifyAll(t) ==
  /\ pc[t] = "notify"
  /\ pc' = [u \in Threads |-> IF u = t THEN "idle"
                              ELSE IF pc[u] = "asleep" THEN "wait" ELSE pc[u]]
  /\ UNCHANGED <<slotVars, m_mutex, historyVars>>

setId(t, id) ==
  /\ Call(t, "idle")
  /\ m_id' = id
  /\ UNCHANGED <<m_value, m_exception, m_closed, historyVars>>

-----------------------------------------------------------------------------
(* wait() *)

BeginWait(t) ==
  /\ pc[t] = "idle"
  /\ Goto(t, "wait")
  /\ UNCHANGED <<slotVars, m_mutex, historyVars>>

SomethingToReturn == m_value # None \/ m_exception # None \/ m_closed

\* The predicate is evaluated under the mutex.
Evaluate(t, goal) == pc[t] = "wait" /\ m_mutex = NoThread /\ SomethingToReturn = goal

WaitClosed(t) ==
  /\ Evaluate(t, TRUE)
  /\ m_closed
  /\ Goto(t, "idle")
  /\ UNCHANGED <<slotVars, m_mutex, historyVars>>

\* Mutant of WaitThrows: the exception is reset like a value.
WaitThrowsOnce(t) ==
  /\ Evaluate(t, TRUE)
  /\ ~m_closed /\ m_exception # None
  /\ m_exception' = None
  /\ Goto(t, "idle")
  /\ UNCHANGED <<m_value, m_closed, m_id, m_mutex, historyVars>>

WaitThrows(t) ==
  /\ Evaluate(t, TRUE)
  /\ ~m_closed /\ m_exception # None
  /\ Goto(t, "idle")
  /\ UNCHANGED <<slotVars, m_mutex, historyVars>>

\* wait() returns the value and leaves the slot as rest says.
TakeValue(t, rest) ==
  /\ Evaluate(t, TRUE)
  /\ ~m_closed /\ m_exception = None
  /\ delivered' = Append(delivered, m_value)
  /\ m_value' = rest
  /\ Goto(t, "idle")
  /\ UNCHANGED <<m_exception, m_closed, m_id, m_mutex, published>>

\* Mutant of WaitValue: the value is not reset.
WaitValueKept(t) == TakeValue(t, m_value)

WaitValue(t) == TakeValue(t, None)

WaitBlocks(t) ==
  /\ Evaluate(t, FALSE)
  /\ m_mutex' = t
  /\ Goto(t, "block")
  /\ UNCHANGED <<slotVars, historyVars>>

Sleep(t) ==
  /\ pc[t] = "block"
  /\ m_mutex' = NoThread
  /\ Goto(t, "asleep")
  /\ UNCHANGED <<slotVars, historyVars>>

SpuriousWakeup(t) ==
  /\ pc[t] = "asleep"
  /\ Goto(t, "wait")
  /\ UNCHANGED <<slotVars, m_mutex, historyVars>>

-----------------------------------------------------------------------------
Begin(t) ==
  \/ \E v \in Values : set(t, v)
  \/ \E e \in Exceptions : setException(t, e)
  \/ \E id \in Ids : setId(t, id)
  \/ close(t) \/ BeginWait(t)

\* The steps of wait() that need the mutex, and the others of a call under way.
Evaluation(t) == WaitClosed(t) \/ WaitThrows(t) \/ WaitValue(t) \/ WaitBlocks(t)
Continue(t) == Sleep(t) \/ NotifyAll(t)

Next == \E t \in Threads : Begin(t) \/ Evaluation(t) \/ Continue(t) \/ SpuriousWakeup(t)

Spec == Init /\ [][Next]_vars

\* Every thread that can run is run, and m_mutex is granted to a thread that
\* finds it free again and again.  Nobody is obliged to call.
Fairness == \A t \in Threads : WF_vars(Continue(t)) /\ SF_vars(Evaluation(t))

FairSpec == Spec /\ Fairness

-----------------------------------------------------------------------------
(* Properties *)

Waiting(t) == pc[t] \in {"wait", "block", "asleep"}

\* Every variable keeps its type, and the mutex is held across a step exactly by
\* a wait() that is about to sleep.
TypeOK ==
  /\ m_value \in Values \cup {None} /\ m_exception \in Exceptions \cup {None}
  /\ m_closed \in BOOLEAN /\ m_id \in Ids \cup {None}
  /\ m_mutex \in Threads \cup {NoThread}
  /\ pc \in [Threads -> {"idle", "wait", "block", "asleep", "notify"}]
  /\ published \in Seq(Values) /\ delivered \in Seq(Values)
  /\ \A t \in Threads : m_mutex = t <=> pc[t] = "block"

\* "wait() blocks until a new value appears, returns it and clears the slot":
\* of several consumers one gets a value, and the values come out in the order
\* in which they were published, some of them overwritten, none repeated; the
\* value in the slot is newer than all of them.
DeliveredInOrder ==
  \A i \in 1..Len(delivered), k \in 1..Len(published) :
    delivered[i] = published[k] =>
      /\ \A j \in (i+1)..Len(delivered) : delivered[j] \in {published[n] : n \in (k+1)..Len(published)}
      /\ m_value \notin {published[n] : n \in 1..k}

\* Types are kept, and no wakeup of set() and setException() is lost, although they notify after
\* they unlocked: a consumer sleeps beside a value or an exception only while
\* the producer has yet to notify it.
NoSleepOnResult ==
  /\ TypeOK
  /\ (m_value # None \/ m_exception # None) =>
       \/ \A t \in Threads : pc[t] # "asleep"
       \/ \E t \in Threads : pc[t] = "notify"

\* An exception ends every wait(), of all consumers, because it is never taken
\* back; and close() ends those that sleep when it notifies.  The other ones
\* sleep on if they found the holder open just before the store.
EveryWaitEnds ==
  \A t \in Threads :
    /\ m_exception # None /\ Waiting(t) ~> ~Waiting(t)
    /\ (m_closed /\ pc[t] = "asleep" /\ \E u \in Threads : pc[u] = "notify") ~> ~Waiting(t)
=============================================================================
