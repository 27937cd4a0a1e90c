--------------------------- MODULE ClosableQueue ---------------------------
(***************************************************************************)
(* What a task queue of miniruntime promises its callers: the Queue         *)
(* concept of dynamicthreadpool.h (push, pop, timeoutPop, close), as the    *)
(* comments of boundedblockingqueue.h word it, with every operation taking  *)
(* effect in one atomic step between its call and its return.               *)
(*                                                                          *)
(*   op[t]   the operation thread t has called and that has not yet taken   *)
(*           effect, "idle" when there is none                              *)
(*   arg[t]  the element a pending push carries                             *)
(*   ret[t]  the result of the last operation of t that took effect         *)
(***************************************************************************)
EXTENDS Naturals, Sequences

CONSTANTS Threads, Values, Capacity

VARIABLES queue, closed, op, arg, ret
vars == <<queue, closed, op, arg, ret>>

NoArg == "noarg"
Results == Values \cup {"none", "nullopt", "pushed", "rejected"}

Init ==
  /\ queue = <<>>
  /\ closed = FALSE
  /\ op = [t \in Threads |-> "idle"]
  /\ arg = [t \in Threads |-> NoArg]
  /\ ret = [t \in Threads |-> "none"]

\* A call: the thread now waits for its operation to take effect.
Call(t, o, v) ==
  /\ op[t] = "idle"
  /\ op' = [op EXCEPT ![t] = o]
  /\ arg' = [arg EXCEPT ![t] = v]
  /\ ret' = [ret EXCEPT ![t] = "none"]
  /\ UNCHANGED <<queue, closed>>

\* The effect of a pending operation, with its result r.
Respond(t, r) ==
  /\ op' = [op EXCEPT ![t] = "idle"]
  /\ arg' = [arg EXCEPT ![t] = NoArg]
  /\ ret' = [ret EXCEPT ![t] = r]

Push(t) ==
  /\ op[t] = "push"
  /\ ~closed
  /\ Len(queue) < Capacity
  /\ queue' = Append(queue, arg[t])
  /\ Respond(t, "pushed")
  /\ UNCHANGED closed

\* push() gives up only because the queue is closed.
PushRejected(t) ==
  /\ op[t] = "push"
  /\ closed
  /\ Respond(t, "rejected")
  /\ UNCHANGED <<queue, closed>>

Pop(t) ==
  /\ op[t] \in {"pop", "timeoutPop"}
  /\ queue # <<>>
  /\ queue' = Tail(queue)
  /\ Respond(t, Head(queue))
  /\ UNCHANGED closed

\* pop() gives up only when closed and drained; timeoutPop() also when the
\* queue is empty as its time runs out.
PopNothing(t) ==
  /\ \/ op[t] = "pop" /\ closed
     \/ op[t] = "timeoutPop"
  /\ queue = <<>>
  /\ Respond(t, "nullopt")
  /\ UNCHANGED <<queue, closed>>

Close(t) ==
  /\ op[t] = "idle"
  /\ closed' = TRUE
  /\ ret' = [ret EXCEPT ![t] = "none"]
  /\ UNCHANGED <<queue, op, arg>>

Step(t) ==
  \/ \E v \in Values : Call(t, "push", v)
  \/ Call(t, "pop", NoArg)
  \/ Call(t, "timeoutPop", NoArg)
  \/ Push(t)
  \/ PushRejected(t)
  \/ Pop(t)
  \/ PopNothing(t)
  \/ Close(t)

Next == \E t \in Threads : Step(t)

Spec == Init /\ [][Next]_vars
=============================================================================
