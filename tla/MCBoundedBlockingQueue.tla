-------------------- MODULE MCBoundedBlockingQueue ----------------------
(***************************************************************************)
(* BoundedBlockingQueue with clients that make finitely many calls, for     *)
(* liveness.  budget[t] is the number of calls and of spurious wakeups left *)
(* to thread t: with both bounded every thread that stays at the mutex gets *)
(* it, so weak fairness of the threads' own steps (the operating system     *)
(* runs every runnable thread, and time passes) is enough; std::mutex       *)
(* promises no more than that.  Nothing obliges a client to make a call or  *)
(* a condition variable to wake without cause.                              *)
(***************************************************************************)
EXTENDS BoundedBlockingQueue, TLC

CONSTANT MaxCalls   \* bound on the calls and spurious wakeups of a thread

VARIABLE budget
liveVars == <<vars, budget>>

LiveInit == Init /\ budget = [t \in Threads |-> MaxCalls]

Spend(t) == budget[t] > 0 /\ budget' = [budget EXCEPT ![t] = @ - 1]

LiveNext ==
  \E t \in Threads :
    \/ Begin(t) /\ Spend(t)
    \/ SpuriousWakeup(t) /\ Spend(t)
    \/ Continue(t) /\ UNCHANGED budget

Fairness == \A t \in Threads : WF_liveVars(Continue(t) /\ UNCHANGED budget)

LiveSpec == LiveInit /\ [][LiveNext]_liveVars /\ Fairness

-----------------------------------------------------------------------------
\* No element stays in the deque for ever while a pop() sleeps, and no slot of
\* an open queue stays free for ever while an emplace() sleeps.  timeoutPop()
\* always returns, whatever the other threads do.
NoStrandedWaiter ==
  /\ []<>~(m_deque # <<>> /\ \E t \in Threads : pc[t] = "popWait")
  /\ []<>~(~m_closed /\ Len(m_deque) < Capacity /\ m_notFullCv # {})
  /\ \A t \in Threads : AbstractOp(t) = "timeoutPop" ~> AbstractOp(t) # "timeoutPop"

\* "Both wake up immediately on close()": a pop() or an emplace() in progress
\* when the queue is closed returns.
CloseUnblocks ==
  \A t \in Threads :
    (m_closed /\ AbstractOp(t) \in {"pop", "push"})
      ~> AbstractOp(t) \notin {"pop", "push"}
=============================================================================
