---------------------------- MODULE LoggerProofs ----------------------------
(***************************************************************************)
(* Proofs about Logger for any number of clients, messages and streams and  *)
(* any capacity of the queue, zero included.                                *)
(*                                                                          *)
(* The logger and its queue are two programs over two sets of program       *)
(* counters.  ClientPlaces and WorkerPlaces tie them together: where the    *)
(* caller of the queue is in log(), shutdown() or worker(), and which result *)
(* the queue has for it.  With them every step inside the queue is one of   *)
(* five to the logger (QueueEffect), and the properties are proved against  *)
(* these five.                                                              *)
(***************************************************************************)
EXTENDS Logger, FiniteSetTheorems, SequenceTheorems, TLAPS

\* A client is inside the queue only as part of log() or shutdown(), and while
\* it logs, the result of push() tells whether its message is in the queue.
ClientPlaces ==
  \A c \in Clients :
    \/ pc[c] = "idle" /\ lpc[c] # "logging"
    \/ pc[c] \in {"closeNotifyEmpty", "closeNotifyFull"} /\ lpc[c] = "closing"
    \/ lpc[c] = "logging" /\ pc[c] \in Q!Pushing /\ ret[c] = "none" /\ arg[c] = msg[c]
    \/ lpc[c] = "logging" /\ pc[c] \in {"emplaceNotify", "idle"} /\ ret[c] = "pushed"
    \/ lpc[c] = "logging" /\ pc[c] = "idle" /\ ret[c] = "rejected"

\* The worker is inside the queue only to pop.
WorkerPlaces ==
  \/ wpc # "popping" /\ pc[Worker] = "idle"
  \/ wpc = "popping" /\ pc[Worker] \in {"pop", "popBlock", "popWait"} /\ ret[Worker] = "none"
  \/ wpc = "popping" /\ pc[Worker] = "idle" /\ ret[Worker] \in Messages \cup {"nullopt"}

\* What the threads hold: a client that logs has a message that was logged, and
\* the worker has a message to write.
Holdings ==
  /\ \A c \in Clients : lpc[c] \in {"logging", "counting"} => msg[c] \in logged
  /\ wpc \in {"write", "put"} => cur \in Messages

Places == TypeOK /\ ClientPlaces /\ WorkerPlaces /\ Holdings

-----------------------------------------------------------------------------
(* What a step inside the queue is to the logger *)

\* The message of client c enters the queue.
Inserted(c) ==
  /\ c \in Clients /\ lpc[c] = "logging" /\ ret[c] = "none" /\ ~m_closed
  /\ m_deque' = Append(m_deque, msg[c])
  /\ pushed' = Append(pushed, msg[c])
  /\ ret' = [ret EXCEPT ![c] = "pushed"]

\* The queue is closed and does not take the message of client c.
Refused(c) ==
  /\ c \in Clients /\ lpc[c] = "logging" /\ ret[c] = "none"
  /\ ret' = [ret EXCEPT ![c] = "rejected"]
  /\ UNCHANGED <<m_deque, pushed>>

\* The worker takes the oldest message.
Taken ==
  /\ wpc = "popping" /\ ret[Worker] = "none" /\ m_deque # <<>>
  /\ m_deque' = Tail(m_deque)
  /\ ret' = [ret EXCEPT ![Worker] = Head(m_deque)]
  /\ UNCHANGED pushed

\* The queue is closed and empty, and the worker is told.
Ended ==
  /\ wpc = "popping" /\ ret[Worker] = "none" /\ m_closed /\ m_deque = <<>>
  /\ ret' = [ret EXCEPT ![Worker] = "nullopt"]
  /\ UNCHANGED <<m_deque, pushed>>

Silent == UNCHANGED <<m_deque, pushed, ret>>

\* What a queue step changes for the logger, and the parts of the invariant
\* that speak of the queue's own variables.
QueueEffect(t) ==
  /\ Q!TypeOK' /\ ClientPlaces' /\ WorkerPlaces' /\ UNCHANGED m_closed
  /\ Inserted(t) \/ Refused(t) \/ Taken \/ Ended \/ Silent

\* Every step of a thread inside the queue is one of the five.
LEMMA QueueStepEffect ==
  ASSUME Places, NEW t \in Clients \cup {Worker}, QueueStep(t) \/ QueueSpuriousWakeup(t)
  PROVE  QueueEffect(t)
<1> DEFINE T == Clients \cup {Worker}
<1>u. UNCHANGED <<lpc, logVars, workVars, flushVars, streamVars>>
  BY DEF QueueStep, QueueSpuriousWakeup
<1>v. UNCHANGED <<lpc, wpc, msg>>
  BY <1>u DEF logVars, workVars
<1>m. Worker \notin Clients /\ NoThread \notin T /\ QueueCapacity \in Nat
  BY LoggerAssumption
<1>t. /\ m_deque \in Seq(Messages) /\ Len(m_deque) \in Nat /\ Len(m_deque) <= QueueCapacity
      /\ pc \in [T -> Q!PCs] /\ arg \in [T -> Messages \cup {Q!NoArg}]
      /\ ret \in [T -> Messages \cup {"none", "nullopt", "pushed", "rejected"}]
  BY LenProperties DEF Places, TypeOK, Q!TypeOK
<1>c. ClientPlaces /\ WorkerPlaces /\ Q!TypeOK
  BY DEF Places, TypeOK
<1> USE DEF QueueEffect, Q!PCs, Q!Pushing
<1>p. QueueStep(t) => pushed' = IF Len(m_deque') > Len(m_deque) THEN Append(pushed, arg[t]) ELSE pushed
  BY DEF QueueStep
<1>s. ASSUME QueueStep(t), m_deque' = m_deque
      PROVE  pushed' = pushed
  BY <1>s, <1>p, <1>t
<1>q. m_closed' = m_closed
  BY DEF QueueStep, QueueSpuriousWakeup, Q!SpuriousWakeup, Q!Continue, Q!EmplaceInsert,
         Q!EmplaceRejected, Q!EmplaceFull, Q!EmplaceNotify, Q!PopFront, Q!PopEmpty,
         Q!PopNullopt, Q!DeadlinePasses, Q!Wait, Q!CloseNotifyEmpty, Q!CloseNotifyFull
<1>1. CASE Q!EmplaceInsert(t) /\ QueueStep(t)
  <2>1. t \in Clients /\ lpc[t] = "logging" /\ ret[t] = "none" /\ arg[t] = msg[t]
    BY <1>1, <1>c DEF ClientPlaces, WorkerPlaces, Q!EmplaceInsert
  <2>2. arg[t] \in Messages
    BY <1>1, <1>c DEF Q!TypeOK, Q!EmplaceInsert
  <2>3. m_deque' \in Seq(Messages) /\ Len(m_deque') = Len(m_deque) + 1
    BY <1>1, <1>t, <2>2, AppendProperties DEF Q!EmplaceInsert
  <2>4. pushed' = Append(pushed, arg[t])
    BY <1>1, <1>p, <1>t, <2>3
  <2>5. Inserted(t)
    BY <1>1, <2>1, <2>4 DEF Inserted, Q!EmplaceInsert, Q!Return
  <2>6. Len(m_deque') <= QueueCapacity
    BY <1>1, <1>t, <1>m, <2>3 DEF Q!EmplaceInsert
  <2>7. Q!TypeOK'
    BY <1>1, <1>t, <1>c, <2>3, <2>6 DEF Q!EmplaceInsert, Q!Return, Q!TypeOK
  <2>8. ClientPlaces'
    BY <1>1, <1>c, <1>t, <1>v, <2>1 DEF Q!EmplaceInsert, Q!Return, ClientPlaces
  <2>9. WorkerPlaces'
    BY <1>1, <1>c, <1>t, <1>v, <1>m, <2>1 DEF Q!EmplaceInsert, Q!Return, WorkerPlaces
  <2> QED
    BY <1>q, <2>5, <2>7, <2>8, <2>9
<1>2. CASE Q!EmplaceRejected(t) /\ QueueStep(t)
  <2>1. t \in Clients /\ lpc[t] = "logging" /\ ret[t] = "none"
    BY <1>2, <1>c DEF ClientPlaces, WorkerPlaces, Q!EmplaceRejected
  <2>2. Refused(t)
    BY <1>2, <1>s, <2>1 DEF Refused, Q!EmplaceRejected, Q!Return
  <2>3. Q!TypeOK'
    BY <1>2, <1>t, <1>c DEF Q!EmplaceRejected, Q!Return, Q!TypeOK
  <2>4. ClientPlaces'
    BY <1>2, <1>c, <1>t, <1>v, <2>1 DEF Q!EmplaceRejected, Q!Return, ClientPlaces
  <2>5. WorkerPlaces'
    BY <1>2, <1>c, <1>t, <1>v, <1>m, <2>1 DEF Q!EmplaceRejected, Q!Return, WorkerPlaces
  <2> QED
    BY <1>q, <2>2, <2>3, <2>4, <2>5
<1>3. CASE Q!PopFront(t) /\ QueueStep(t)
  <2>1. t = Worker /\ wpc = "popping" /\ ret[Worker] = "none"
    BY <1>3, <1>c DEF ClientPlaces, WorkerPlaces, Q!PopFront, Q!WantPop
  <2>2. m_deque # <<>> /\ m_deque' = Tail(m_deque) /\ ret' = [ret EXCEPT ![t] = Head(m_deque)]
    BY <1>3 DEF Q!PopFront, Q!Return
  <2>3. /\ Head(m_deque) \in Messages /\ m_deque' \in Seq(Messages)
        /\ Len(m_deque') = Len(m_deque) - 1
    BY <1>t, <2>2, HeadTailProperties
  <2>4. pushed' = pushed
    BY <1>3, <1>p, <1>t, <2>3
  <2>5. Taken
    BY <2>1, <2>2, <2>4 DEF Taken
  <2>6. Len(m_deque') <= QueueCapacity
    BY <1>t, <1>m, <2>3
  <2>7. \A u \in T : u # t => \/ pc'[u] = pc[u]
                              \/ pc[u] = "emplaceWait" /\ pc'[u] = "emplace"
    BY <1>3, <1>t DEF Q!PopFront, Q!GotoNotifyOne, Q!m_notFullCv, Q!At, Q!Woken
  <2>8. pc' \in [T -> Q!PCs] /\ pc'[t] = "idle"
    BY <1>3, <1>t, <1>m, <2>1
       DEF Q!PopFront, Q!GotoNotifyOne, Q!m_notFullCv, Q!At, Q!Woken, Q!WantPop
  <2>9. Q!TypeOK'
    BY <1>3, <1>t, <1>c, <2>3, <2>6, <2>7, <2>8 DEF Q!PopFront, Q!Return, Q!TypeOK
  <2>10. ClientPlaces'
    BY <1>3, <1>c, <1>t, <1>v, <1>m, <2>1, <2>7 DEF Q!PopFront, Q!Return, ClientPlaces
  <2>11. WorkerPlaces'
    BY <1>t, <1>v, <2>1, <2>2, <2>3, <2>8 DEF WorkerPlaces
  <2> QED
    BY <1>q, <2>5, <2>9, <2>10, <2>11
<1>4. CASE Q!PopNullopt(t) /\ QueueStep(t)
  <2>1. t = Worker /\ wpc = "popping" /\ ret[Worker] = "none" /\ pc[t] # "tpopLast"
    BY <1>4, <1>c DEF ClientPlaces, WorkerPlaces, Q!PopNullopt, Q!WantPop
  <2>2. Ended
    BY <1>4, <1>s, <2>1 DEF Ended, Q!PopNullopt, Q!Return
  <2>3. Q!TypeOK'
    BY <1>4, <1>t, <1>c DEF Q!PopNullopt, Q!Return, Q!TypeOK
  <2>4. ClientPlaces'
    BY <1>4, <1>c, <1>t, <1>v, <1>m, <2>1 DEF Q!PopNullopt, Q!Return, ClientPlaces
  <2>5. WorkerPlaces'
    BY <1>4, <1>c, <1>t, <1>v, <1>m, <2>1 DEF Q!PopNullopt, Q!Return, WorkerPlaces
  <2> QED
    BY <1>q, <2>2, <2>3, <2>4, <2>5
<1>5. ASSUME UNCHANGED <<m_deque, m_closed, arg, ret>>,
             m_mutex' \in T \cup {NoThread},
             pc' \in [T -> Q!PCs],
             \A u \in T : \/ pc'[u] = pc[u]
                          \/ pc[u] = "emplaceNotify" /\ pc'[u] = "idle"
                          \/ pc[u] \in Q!Pushing /\ pc'[u] \in Q!Pushing
                          \/ pc[u] = "closeNotifyEmpty" /\ pc'[u] = "closeNotifyFull"
                          \/ pc[u] = "closeNotifyFull" /\ pc'[u] = "idle"
                          \/ /\ pc[u] \in {"pop", "popBlock", "popWait"}
                             /\ pc'[u] \in {"pop", "popBlock", "popWait"}
      PROVE QueueEffect(t)
  <2>1. Silent
    BY <1>5, <1>s DEF Silent, QueueSpuriousWakeup
  <2>2. Q!TypeOK'
    BY <1>5, <1>c DEF Q!TypeOK
  <2>3. ClientPlaces'
    BY <1>5, <1>c, <1>v DEF ClientPlaces
  <2>4. WorkerPlaces'
    BY <1>5, <1>c, <1>v DEF WorkerPlaces
  <2> QED
    BY <1>q, <2>1, <2>2, <2>3, <2>4
<1>nt. \A u \in T : pc[u] \notin {"tpop", "tpopBlock", "tpopWait", "tpopWake", "tpopLast"}
  BY <1>c DEF ClientPlaces, WorkerPlaces
<1>mx. m_mutex \in T \cup {NoThread}
  BY <1>c DEF Q!TypeOK
<1>6. CASE Q!EmplaceFull(t) /\ QueueStep(t)
  BY <1>6, <1>5, <1>t DEF Q!EmplaceFull
<1>7. CASE Q!EmplaceNotify(t) /\ QueueStep(t)
  BY <1>7, <1>5, <1>t, <1>nt, <1>mx
     DEF Q!EmplaceNotify, Q!GotoNotifyOne, Q!m_notEmptyCv, Q!At, Q!Woken
<1>8. CASE Q!PopEmpty(t) /\ QueueStep(t)
  BY <1>8, <1>5, <1>t, <1>nt DEF Q!PopEmpty
<1>9. CASE Q!DeadlinePasses(t) /\ QueueStep(t)
  BY <1>9, <1>nt DEF Q!DeadlinePasses
<1>10. CASE Q!Wait(t) /\ QueueStep(t)
  BY <1>10, <1>5, <1>t, <1>nt DEF Q!Wait, Q!Blocking
<1>11. CASE Q!CloseNotifyEmpty(t) /\ QueueStep(t)
  BY <1>11, <1>5, <1>t, <1>nt, <1>mx
     DEF Q!CloseNotifyEmpty, Q!GotoNotifyAll, Q!m_notEmptyCv, Q!At, Q!Woken
<1>12. CASE Q!CloseNotifyFull(t) /\ QueueStep(t)
  BY <1>12, <1>5, <1>t, <1>nt, <1>mx
     DEF Q!CloseNotifyFull, Q!GotoNotifyAll, Q!m_notFullCv, Q!At, Q!Woken
<1>13. CASE Q!SpuriousWakeup(t) /\ QueueSpuriousWakeup(t)
  BY <1>13, <1>5, <1>t, <1>nt, <1>mx
     DEF Q!SpuriousWakeup, Q!m_notEmptyCv, Q!m_notFullCv, Q!At, Q!Woken
<1> QED
  BY <1>1, <1>2, <1>3, <1>4, <1>6, <1>7, <1>8, <1>9, <1>10, <1>11, <1>12, <1>13
     DEF QueueStep, QueueSpuriousWakeup, Q!Continue

-----------------------------------------------------------------------------
(* Types and places *)

\* A step of the logger itself that leaves the queue alone.
LEMMA OutsideQueue ==
  ASSUME Places, UNCHANGED queueVars
  PROVE  Q!TypeOK'
BY DEF Places, TypeOK, Q!TypeOK, queueVars, Q!PCs, Q!Pushing

\* Every step keeps the types and keeps the threads at their places.
LEMMA PlacesStep == Places /\ [Next]_vars => Places'
<1> SUFFICES ASSUME Places, [Next]_vars PROVE Places'
  OBVIOUS
<1> DEFINE T == Clients \cup {Worker}
<1>m. /\ Worker \notin Clients /\ Main \in Clients
      /\ Messages \cap {"none", "nullopt"} = {}
      /\ Streams \in Nat \ {0}
  BY LoggerAssumption
<1>p. TypeOK /\ ClientPlaces /\ WorkerPlaces /\ Holdings /\ Q!TypeOK
  BY DEF Places, TypeOK
<1>t. /\ pc \in [T -> Q!PCs] /\ arg \in [T -> Messages \cup {Q!NoArg}]
      /\ ret \in [T -> Messages \cup {"none", "nullopt", "pushed", "rejected"}]
      /\ m_closed \in BOOLEAN
      /\ lpc \in [Clients -> LPCs] /\ msg \in [Clients -> Messages \cup {None}]
  BY <1>p DEF TypeOK, Q!TypeOK
<1>0. CASE UNCHANGED vars
  <2>1. UNCHANGED queueVars
    BY <1>0 DEF vars
  <2> QED
    BY <1>0, <1>p, <2>1, OutsideQueue
       DEF Places, TypeOK, ClientPlaces, WorkerPlaces, Holdings, vars, queueVars, logVars,
           workVars, flushVars, streamVars
<1> USE DEF queueVars, logVars, workVars, flushVars, streamVars, LGoto
<1>1. CASE CallPop
  <2>1. Q!TypeOK'
    BY <1>1, <1>p DEF CallPop, Q!BeginPop, Q!Call, Q!TypeOK, Q!PCs, Q!Pushing
  <2>2. TypeOK'
    BY <1>1, <1>p, <2>1 DEF CallPop, TypeOK
  <2>3. ClientPlaces' /\ WorkerPlaces'
    BY <1>1, <1>p, <1>m, <1>t
       DEF CallPop, Q!BeginPop, Q!Call, ClientPlaces, WorkerPlaces, Q!Pushing
  <2>4. Holdings'
    BY <1>1, <1>p DEF CallPop, Holdings
  <2> QED
    BY <2>2, <2>3, <2>4 DEF Places
<1>2. CASE PopReturned
  <2>1. Q!TypeOK'
    BY <1>2, OutsideQueue DEF PopReturned
  <2>2. ret[Worker] # "nullopt" => ret[Worker] \in Messages
    BY <1>2, <1>p DEF PopReturned, WorkerPlaces
  <2>3. TypeOK'
    BY <1>2, <1>p, <2>1, <2>2 DEF PopReturned, TypeOK
  <2>4. ClientPlaces' /\ WorkerPlaces'
    BY <1>2, <1>p DEF PopReturned, ClientPlaces, WorkerPlaces, Q!Pushing
  <2>5. Holdings'
    BY <1>2, <1>p, <2>2 DEF PopReturned, Holdings
  <2> QED
    BY <2>3, <2>4, <2>5 DEF Places
<1>3. CASE LoadOutput
  <2>1. Q!TypeOK'
    BY <1>3, OutsideQueue DEF LoadOutput
  <2>2. TypeOK'
    BY <1>3, <1>p, <2>1 DEF LoadOutput, TypeOK
  <2> QED
    BY <1>3, <1>p, <2>2
       DEF LoadOutput, Places, ClientPlaces, WorkerPlaces, Holdings, Q!Pushing
<1>4. CASE WriteMessage
  <2>1. Q!TypeOK'
    BY <1>4, OutsideQueue DEF WriteMessage
  <2>2. cur \in Messages /\ written \in Seq(Messages)
    BY <1>4, <1>p DEF WriteMessage, Holdings, TypeOK
  <2>3. written' \in Seq(Messages)
    BY <1>4, <2>2, AppendProperties DEF WriteMessage
  <2>4. TypeOK'
    BY <1>4, <1>p, <1>m, <2>1, <2>3 DEF WriteMessage, TypeOK
  <2> QED
    BY <1>4, <1>p, <2>4
       DEF WriteMessage, Places, ClientPlaces, WorkerPlaces, Holdings, Q!Pushing
<1>5. CASE CountProcessed
  <2>1. Q!TypeOK'
    BY <1>5, OutsideQueue DEF CountProcessed
  <2>2. TypeOK'
    BY <1>5, <1>p, <2>1 DEF CountProcessed, TypeOK
  <2> QED
    BY <1>5, <1>p, <2>2
       DEF CountProcessed, Places, ClientPlaces, WorkerPlaces, Holdings, Q!Pushing
<1>6. CASE NotifyFlushers
  <2>1. Q!TypeOK'
    BY <1>6, OutsideQueue DEF NotifyFlushers
  <2>2. TypeOK'
    BY <1>6, <1>p, <2>1 DEF NotifyFlushers, TypeOK, LPCs
  <2> QED
    BY <1>6, <1>p, <2>2
       DEF NotifyFlushers, Places, ClientPlaces, WorkerPlaces, Holdings, Q!Pushing
<1>7. ASSUME NEW c \in Clients, NEW m \in Messages, Log(c, m) PROVE Places'
  <2>1. Q!TypeOK'
    BY <1>7, <1>p DEF Log, Q!BeginEmplace, Q!Call, Q!TypeOK, Q!PCs, Q!Pushing
  <2>2. TypeOK'
    BY <1>7, <1>p, <2>1 DEF Log, TypeOK, LPCs
  <2>3. ClientPlaces'
    BY <1>7, <1>p, <1>t
       DEF Log, Q!BeginEmplace, Q!Call, ClientPlaces, Q!Pushing, TypeOK
  <2>4. WorkerPlaces'
    BY <1>7, <1>p, <1>m, <1>t DEF Log, Q!BeginEmplace, Q!Call, WorkerPlaces
  <2>5. Holdings'
    BY <1>7, <1>p DEF Log, Holdings, TypeOK
  <2> QED
    BY <2>2, <2>3, <2>4, <2>5 DEF Places
<1>8. CASE setOutput
  <2>1. Q!TypeOK'
    BY <1>8, OutsideQueue DEF setOutput
  <2>2. TypeOK'
    BY <1>8, <1>p, <1>m, <2>1 DEF setOutput, TypeOK
  <2> QED
    BY <1>8, <1>p, <2>2
       DEF setOutput, Places, ClientPlaces, WorkerPlaces, Holdings, Q!Pushing
<1>9. CASE BeginShutdown
  <2>1. Q!TypeOK'
    BY <1>9, <1>p, <1>m DEF BeginShutdown, Q!Close, Q!TypeOK, Q!PCs, Q!Pushing
  <2>2. TypeOK'
    BY <1>9, <1>p, <1>m, <2>1 DEF BeginShutdown, TypeOK, LPCs
  <2>3. ClientPlaces' /\ WorkerPlaces' /\ Holdings'
    BY <1>9, <1>p, <1>m, <1>t
       DEF BeginShutdown, Q!Close, ClientPlaces, WorkerPlaces, Holdings, Q!Pushing
  <2> QED
    BY <2>2, <2>3 DEF Places
<1>10. ASSUME NEW c \in Clients,
              PushReturned(c) \/ CountEnqueued(c) \/ BeginFlush(c) \/ FlushCheck(c)
                \/ FlushReload(c) \/ FlushWait(c) \/ FlushReturn(c)
       PROVE  Places'
  <2>0. Q!TypeOK'
    BY <1>10, OutsideQueue
       DEF PushReturned, CountEnqueued, BeginFlush, FlushCheck, FlushReload, FlushWait, FlushReturn
  <2> USE DEF LPCs
  <2>1. CASE PushReturned(c)
    <3>1. TypeOK'
      BY <1>p, <2>0, <2>1 DEF PushReturned, TypeOK
    <3> QED
      BY <1>p, <1>t, <2>1, <3>1
         DEF PushReturned, Places, ClientPlaces, WorkerPlaces, Holdings, Q!Pushing
  <2>2. CASE CountEnqueued(c)
    <3>1. TypeOK'
      BY <1>p, <2>0, <2>2 DEF CountEnqueued, TypeOK, Holdings
    <3> QED
      BY <1>p, <1>t, <2>2, <3>1
         DEF CountEnqueued, Places, ClientPlaces, WorkerPlaces, Holdings, Q!Pushing
  <2>3. CASE BeginFlush(c)
    <3>1. TypeOK'
      BY <1>p, <1>m, <2>0, <2>3 DEF BeginFlush, TypeOK
    <3> QED
      BY <1>p, <1>t, <2>3, <3>1
         DEF BeginFlush, Places, ClientPlaces, WorkerPlaces, Holdings, Q!Pushing
  <2>4. CASE FlushCheck(c)
    <3>1. TypeOK'
      BY <1>p, <2>0, <2>4 DEF FlushCheck, TypeOK
    <3> QED
      BY <1>p, <1>t, <2>4, <3>1
         DEF FlushCheck, Places, ClientPlaces, WorkerPlaces, Holdings, Q!Pushing
  <2>5. CASE FlushReload(c)
    <3>1. TypeOK'
      BY <1>p, <2>0, <2>5 DEF FlushReload, TypeOK
    <3> QED
      BY <1>p, <1>t, <2>5, <3>1
         DEF FlushReload, Places, ClientPlaces, WorkerPlaces, Holdings, Q!Pushing
  <2>6. CASE FlushWait(c)
    <3>1. TypeOK'
      BY <1>p, <2>0, <2>6 DEF FlushWait, TypeOK
    <3> QED
      BY <1>p, <1>t, <2>6, <3>1
         DEF FlushWait, Places, ClientPlaces, WorkerPlaces, Holdings, Q!Pushing
  <2>7. CASE FlushReturn(c)
    <3>1. TypeOK'
      BY <1>p, <1>m, <2>0, <2>7 DEF FlushReturn, TypeOK
    <3> QED
      BY <1>p, <1>t, <2>7, <3>1
         DEF FlushReturn, Places, ClientPlaces, WorkerPlaces, Holdings, Q!Pushing
  <2> QED
    BY <1>10, <2>1, <2>2, <2>3, <2>4, <2>5, <2>6, <2>7
<1>11. CASE CloseReturned \/ Join
  <2>0. Q!TypeOK'
    BY <1>11, OutsideQueue DEF CloseReturned, Join
  <2>1. TypeOK'
    BY <1>11, <1>p, <1>m, <2>0 DEF CloseReturned, Join, TypeOK, LPCs
  <2> QED
    BY <1>11, <1>p, <1>m, <1>t, <2>1
       DEF CloseReturned, Join, Places, ClientPlaces, WorkerPlaces, Holdings, Q!Pushing
<1>12. ASSUME NEW t \in T, QueueStep(t) \/ QueueSpuriousWakeup(t) PROVE Places'
  <2>1. QueueEffect(t)
    BY <1>12, QueueStepEffect
  <2>2. UNCHANGED <<lpc, logVars, workVars, flushVars, streamVars>>
    BY <1>12 DEF QueueStep, QueueSpuriousWakeup
  <2>3. pushed' \in Seq(Messages)
    <3>1. pushed \in Seq(Messages) /\ (Inserted(t) => msg[t] \in Messages)
      BY <1>p DEF TypeOK, Inserted, Holdings
    <3> QED
      BY <2>1, <3>1, AppendProperties DEF QueueEffect, Inserted, Refused, Taken, Ended, Silent
  <2>4. TypeOK'
    BY <1>p, <2>1, <2>2, <2>3 DEF TypeOK, QueueEffect
  <2> QED
    BY <1>p, <2>1, <2>2, <2>4 DEF Places, QueueEffect, Holdings
<1> QED
  BY <1>0, <1>1, <1>2, <1>3, <1>4, <1>5, <1>6, <1>7, <1>8, <1>9, <1>10, <1>11, <1>12
     DEF Next, WorkerStep, Call, ClientStep

-----------------------------------------------------------------------------
(* The order of the messages *)

\* What the worker has in its hand is a sequence of messages.
LEMMA InHandType == Places => InHand \in Seq(Messages)
<1> SUFFICES ASSUME Places PROVE InHand \in Seq(Messages)
  OBVIOUS
<1>1. \A m \in Messages : <<m>> \in Seq(Messages)
  OBVIOUS
<1>2. << >> \in Seq(Messages)
  BY EmptySeq
<1> QED
  BY <1>1, <1>2 DEF InHand, Places, Holdings

\* Where a message goes: into the queue, out of it into the worker's hand, and
\* from there to the output; any other step moves none.
Moves ==
  \/ UNCHANGED <<written, InHand, m_deque, pushed>>
  \/ (\E c \in Clients : Inserted(c)) /\ UNCHANGED <<written, InHand>>
  \/ Taken /\ InHand = <<>> /\ InHand' = <<Head(m_deque)>> /\ UNCHANGED written
  \/ /\ InHand = <<cur>> /\ InHand' = <<>> /\ cur \in Messages
     /\ wpc = "put" /\ wpc' = "count"
     /\ written' = Append(written, cur)
     /\ UNCHANGED <<m_deque, pushed>>

\* Every step moves messages from the queue to the hand and from there to the output,
\* or moves none.
LEMMA MovesStep ==
  ASSUME Places, [Next]_vars
  PROVE  Moves
<1> DEFINE T == Clients \cup {Worker}
<1>m. Worker \notin Clients /\ Messages \cap {"none", "nullopt"} = {}
  BY LoggerAssumption
<1>t. ret \in [T -> Messages \cup {"none", "nullopt", "pushed", "rejected"}]
  BY DEF Places, TypeOK, Q!TypeOK
<1> USE DEF queueVars, logVars, workVars, flushVars, streamVars
<1>0. CASE UNCHANGED vars
  BY <1>0 DEF vars, Moves, InHand
<1>1. CASE CallPop
  BY <1>1, <1>m, <1>t DEF CallPop, Q!BeginPop, Q!Call, Moves, InHand
<1>2. CASE PopReturned
  <2>1. ret[Worker] \in Messages \cup {"nullopt"}
    BY <1>2 DEF PopReturned, Places, WorkerPlaces
  <2> QED
    BY <1>2, <1>m, <2>1 DEF PopReturned, Moves, InHand
<1>3. CASE LoadOutput
  BY <1>3 DEF LoadOutput, Moves, InHand
<1>4. CASE WriteMessage
  BY <1>4 DEF WriteMessage, Moves, InHand, Places, Holdings
<1>5. CASE CountProcessed
  BY <1>5 DEF CountProcessed, Moves, InHand
<1>6. CASE NotifyFlushers
  BY <1>6 DEF NotifyFlushers, Moves, InHand
<1>7. ASSUME NEW c \in Clients, Call(c) \/ ClientStep(c) PROVE Moves
  <2>1. UNCHANGED <<written, m_deque, pushed, wpc, cur>>
    BY <1>7 DEF Call, ClientStep, Log, Q!BeginEmplace, Q!Call, BeginFlush, BeginShutdown, Q!Close,
                setOutput, PushReturned, CountEnqueued, FlushCheck, FlushReload, FlushWait,
                FlushReturn, CloseReturned, Join
  <2>2. ret'[Worker] = ret[Worker]
    BY <1>7, <1>m, <1>t, LoggerAssumption
            DEF Call, ClientStep, Log, Q!BeginEmplace, Q!Call, BeginFlush, BeginShutdown, Q!Close,
                setOutput, PushReturned, CountEnqueued, FlushCheck, FlushReload, FlushWait,
                FlushReturn, CloseReturned, Join
  <2> QED
    BY <2>1, <2>2 DEF Moves, InHand
<1>8. ASSUME NEW t \in T, QueueStep(t) \/ QueueSpuriousWakeup(t) PROVE Moves
  <2>1. QueueEffect(t)
    BY <1>8, QueueStepEffect
  <2>2. UNCHANGED <<written, wpc, cur>>
    BY <1>8 DEF QueueStep, QueueSpuriousWakeup
  <2>3. CASE Inserted(t)
    BY <1>m, <1>t, <2>2, <2>3 DEF Moves, InHand, Inserted
  <2>4. CASE Refused(t)
    BY <1>m, <1>t, <2>2, <2>4 DEF Moves, InHand, Refused
  <2>5. CASE Taken
    <3>1. Head(m_deque) \in Messages
      BY <2>5, HeadTailProperties DEF Taken, Places, TypeOK, Q!TypeOK
    <3> QED
      BY <1>m, <1>t, <2>2, <2>5, <3>1 DEF Moves, InHand, Taken
  <2>6. CASE Ended
    BY <1>m, <1>t, <2>2, <2>6 DEF Moves, InHand, Ended
  <2>7. CASE Silent
    BY <2>2, <2>7 DEF Moves, InHand, Silent
  <2> QED
    BY <2>1, <2>3, <2>4, <2>5, <2>6, <2>7 DEF QueueEffect
<1> QED
  BY <1>0, <1>1, <1>2, <1>3, <1>4, <1>5, <1>6, <1>7, <1>8 DEF Next, WorkerStep

\* A message moves within written \o InHand \o m_deque from right to left, and
\* enters both it and pushed at their ends.
LEMMA OrderStep ==
  ASSUME Places, WrittenInOrder, [Next]_vars
  PROVE  WrittenInOrder'
<1>1. Moves
  BY MovesStep
<1>t. /\ written \in Seq(Messages) /\ InHand \in Seq(Messages)
      /\ m_deque \in Seq(Messages) /\ pushed \in Seq(Messages)
  BY InHandType DEF Places, TypeOK, Q!TypeOK
<1>i. pushed = (written \o InHand) \o m_deque
  BY DEF WrittenInOrder
<1>2. CASE UNCHANGED <<written, InHand, m_deque, pushed>>
  BY <1>2, <1>i DEF WrittenInOrder
<1>3. ASSUME NEW c \in Clients, Inserted(c), UNCHANGED <<written, InHand>>
      PROVE  WrittenInOrder'
  <2>1. msg[c] \in Messages
    BY <1>3 DEF Inserted, Places, Holdings, TypeOK
  <2>2. written \o InHand \in Seq(Messages) /\ <<msg[c]>> \in Seq(Messages)
    BY <1>t, <2>1, ConcatProperties
  <2>3. pushed' = pushed \o <<msg[c]>> /\ m_deque' = m_deque \o <<msg[c]>>
    BY <1>3, <1>t, <2>1, AppendIsConcat DEF Inserted
  <2>4. ((written \o InHand) \o m_deque) \o <<msg[c]>>
          = (written \o InHand) \o (m_deque \o <<msg[c]>>)
    <3>1. \A s \in Seq(Messages) : (s \o m_deque) \o <<msg[c]>> = s \o (m_deque \o <<msg[c]>>)
      BY <1>t, <2>2, ConcatAssociative
    <3> QED
      BY <2>2, <3>1, Zenon
  <2> QED
    BY <1>3, <1>i, <2>3, <2>4 DEF WrittenInOrder
<1>4. CASE Taken /\ InHand = <<>> /\ InHand' = <<Head(m_deque)>> /\ UNCHANGED written
  <2>1. m_deque # <<>> /\ m_deque' = Tail(m_deque) /\ pushed' = pushed
    BY <1>4 DEF Taken
  <2>2. Head(m_deque) \in Messages /\ Tail(m_deque) \in Seq(Messages)
    BY <1>t, <2>1, HeadTailProperties
  <2>3. m_deque = <<Head(m_deque)>> \o Tail(m_deque)
    <3>1. 1 \in 1..Len(m_deque) /\ Len(m_deque) \in 1..Len(m_deque)
      BY <1>t, <2>1, EmptySeq
    <3>2. SubSeq(m_deque, 1, Len(m_deque))
            = <<m_deque[1]>> \o SubSeq(m_deque, 2, Len(m_deque))
      BY <1>t, <3>1, SubSeqRecursiveFirst
    <3>3. SubSeq(m_deque, 1, Len(m_deque)) = m_deque
      BY <1>t, SubSeqFull
    <3>4. Tail(m_deque) = SubSeq(m_deque, 2, Len(m_deque))
      BY <1>t, <2>1, TailIsSubSeq
    <3>5. Head(m_deque) = m_deque[1]
      BY <1>t, <2>1
    <3> QED
      BY <3>2, <3>3, <3>4, <3>5
  <2>4. <<Head(m_deque)>> \in Seq(Messages)
    BY <2>2
  <2>5. (written \o <<Head(m_deque)>>) \o Tail(m_deque)
          = written \o (<<Head(m_deque)>> \o Tail(m_deque))
    BY <1>t, <2>2, <2>4, ConcatAssociative
  <2>6. written \o InHand = written
    BY <1>t, <1>4, ConcatEmptySeq
  <2> QED
    BY <1>4, <1>i, <2>1, <2>3, <2>5, <2>6 DEF WrittenInOrder
<1>5. CASE /\ InHand = <<cur>> /\ InHand' = <<>> /\ cur \in Messages
           /\ written' = Append(written, cur)
           /\ UNCHANGED <<m_deque, pushed>>
  <2>1. written' = written \o InHand
    BY <1>5, <1>t, AppendIsConcat
  <2>2. written' \in Seq(Messages)
    BY <1>t, <2>1, ConcatProperties
  <2>3. written' \o InHand' = written'
    BY <1>5, <2>2, ConcatEmptySeq
  <2> QED
    BY <1>5, <1>i, <2>1, <2>3 DEF WrittenInOrder
<1> QED
  BY <1>1, <1>2, <1>3, <1>4, <1>5 DEF Moves

-----------------------------------------------------------------------------
(* The counters *)

\* enqueued lags behind the queue by the callers between push and count, and
\* processed behind the output by at most the message the worker is counting.
Counted ==
  /\ enqueued + Cardinality(Uncounted) = Len(pushed)
  /\ processed + (IF wpc = "count" THEN 1 ELSE 0) = Len(written)

\* The callers between push and count can be counted.
LEMMA UncountedFinite ==
  /\ IsFiniteSet(Uncounted) /\ Cardinality(Uncounted) \in Nat
  /\ IsFiniteSet(Uncounted') /\ Cardinality(Uncounted') \in Nat
<1>1. Uncounted \subseteq Clients /\ Uncounted' \subseteq Clients
  BY DEF Uncounted
<1>2. IsFiniteSet(Uncounted) /\ IsFiniteSet(Uncounted')
  BY <1>1, LoggerAssumption, FS_Subset
<1> QED
  BY <1>2, FS_CardinalityType

\* What a step does to the callers not counted: an insertion adds its caller,
\* CountEnqueued removes it, and no other step changes them.
LEMMA UncountedStep ==
  ASSUME Places, [Next]_vars
  PROVE  \/ UNCHANGED <<Uncounted, enqueued, pushed>>
         \/ \E c \in Clients : /\ Inserted(c) /\ c \notin Uncounted
                               /\ Uncounted' = Uncounted \cup {c}
                               /\ UNCHANGED <<enqueued, msg>>
         \/ \E c \in Clients : /\ c \in Uncounted /\ Uncounted' = Uncounted \ {c}
                               /\ enqueued' = enqueued + 1 /\ UNCHANGED pushed
                               /\ CountEnqueued(c)
<1> DEFINE T == Clients \cup {Worker}
<1>m. Worker \notin Clients /\ Main \in Clients
  BY LoggerAssumption
<1>t. /\ ret \in [T -> Messages \cup {"none", "nullopt", "pushed", "rejected"}]
      /\ lpc \in [Clients -> LPCs]
  BY DEF Places, TypeOK, Q!TypeOK
<1>c. ClientPlaces
  BY DEF Places
<1> USE DEF queueVars, logVars, workVars, flushVars, streamVars, LGoto
<1>0. CASE UNCHANGED vars
  BY <1>0 DEF vars, Uncounted
<1>1. CASE CallPop
  BY <1>1, <1>m, <1>t DEF CallPop, Q!BeginPop, Q!Call, Uncounted
<1>2. CASE PopReturned \/ LoadOutput \/ WriteMessage \/ CountProcessed
  BY <1>2 DEF PopReturned, LoadOutput, WriteMessage, CountProcessed, Uncounted
<1>3. CASE NotifyFlushers
  BY <1>3, <1>t DEF NotifyFlushers, Uncounted
<1>4. ASSUME NEW c \in Clients, NEW m \in Messages, Log(c, m)
      PROVE  UNCHANGED <<Uncounted, enqueued, pushed>>
  BY <1>4, <1>t DEF Log, Q!BeginEmplace, Q!Call, Uncounted
<1>5. ASSUME NEW c \in Clients,
             BeginFlush(c) \/ FlushCheck(c) \/ FlushReload(c) \/ FlushWait(c) \/ FlushReturn(c)
      PROVE  UNCHANGED <<Uncounted, enqueued, pushed>>
  BY <1>5, <1>t DEF BeginFlush, FlushCheck, FlushReload, FlushWait, FlushReturn, Uncounted
<1>6. CASE BeginShutdown \/ setOutput \/ CloseReturned \/ Join
  BY <1>6, <1>m, <1>t DEF BeginShutdown, Q!Close, setOutput, CloseReturned, Join, Uncounted
<1>7. ASSUME NEW c \in Clients, PushReturned(c)
      PROVE  UNCHANGED <<Uncounted, enqueued, pushed>>
  BY <1>7, <1>t DEF PushReturned, Uncounted
<1>8. ASSUME NEW c \in Clients, CountEnqueued(c)
      PROVE  /\ c \in Uncounted /\ Uncounted' = Uncounted \ {c}
             /\ enqueued' = enqueued + 1 /\ UNCHANGED pushed
  BY <1>8, <1>t DEF CountEnqueued, Uncounted
<1>9. ASSUME NEW t \in T, QueueStep(t) \/ QueueSpuriousWakeup(t)
      PROVE  \/ UNCHANGED <<Uncounted, enqueued, pushed>>
             \/ \E c \in Clients : /\ Inserted(c) /\ c \notin Uncounted
                                   /\ Uncounted' = Uncounted \cup {c}
                                   /\ UNCHANGED <<enqueued, msg>>
  <2>1. QueueEffect(t)
    BY <1>9, QueueStepEffect
  <2>2. UNCHANGED <<lpc, enqueued, msg>>
    BY <1>9 DEF QueueStep, QueueSpuriousWakeup
  <2>3. CASE Inserted(t)
    BY <1>t, <2>2, <2>3 DEF Inserted, Uncounted
  <2>4. CASE Refused(t)
    BY <1>t, <2>2, <2>4 DEF Refused, Uncounted
  <2>5. CASE Taken \/ Ended
    BY <1>m, <1>t, <2>2, <2>5 DEF Taken, Ended, Uncounted
  <2>6. CASE Silent
    BY <2>2, <2>6 DEF Silent, Uncounted
  <2> QED
    BY <2>1, <2>3, <2>4, <2>5, <2>6 DEF QueueEffect
<1> QED
  BY <1>0, <1>1, <1>2, <1>3, <1>4, <1>5, <1>6, <1>7, <1>8, <1>9
     DEF Next, WorkerStep, Call, ClientStep

\* The counters keep up with the histories they count.
LEMMA CountedStep ==
  ASSUME Places, Counted, [Next]_vars
  PROVE  Counted'
<1>t. /\ enqueued \in Nat /\ processed \in Nat
      /\ pushed \in Seq(Messages) /\ Len(pushed) \in Nat
      /\ written \in Seq(Messages) /\ Len(written) \in Nat
  BY LenProperties DEF Places, TypeOK
<1>f. /\ IsFiniteSet(Uncounted) /\ Cardinality(Uncounted) \in Nat
      /\ IsFiniteSet(Uncounted') /\ Cardinality(Uncounted') \in Nat
  BY UncountedFinite
<1>1. enqueued' + Cardinality(Uncounted') = Len(pushed')
  <2>1. CASE UNCHANGED <<Uncounted, enqueued, pushed>>
    BY <2>1 DEF Counted
  <2>2. ASSUME NEW c \in Clients, Inserted(c), c \notin Uncounted,
               Uncounted' = Uncounted \cup {c}, UNCHANGED enqueued
        PROVE  enqueued' + Cardinality(Uncounted') = Len(pushed')
    <3>1. Cardinality(Uncounted') = Cardinality(Uncounted) + 1
      BY <2>2, <1>f, FS_AddElement
    <3>2. msg[c] \in Messages
      BY <2>2 DEF Inserted, Places, Holdings, TypeOK
    <3>3. Len(pushed') = Len(pushed) + 1
      BY <2>2, <1>t, <3>2, AppendProperties DEF Inserted
    <3>4. enqueued' = enqueued /\ enqueued + Cardinality(Uncounted) = Len(pushed)
      BY <2>2 DEF Counted
    <3> QED
      BY <1>t, <1>f, <3>1, <3>3, <3>4
  <2>3. ASSUME NEW c \in Clients, c \in Uncounted, Uncounted' = Uncounted \ {c},
               enqueued' = enqueued + 1, UNCHANGED pushed
        PROVE  enqueued' + Cardinality(Uncounted') = Len(pushed')
    <3>1. Cardinality(Uncounted') = Cardinality(Uncounted) - 1
      BY <2>3, <1>f, FS_RemoveElement
    <3> QED
      BY <2>3, <1>t, <1>f, <3>1 DEF Counted
  <2> QED
    BY <2>1, <2>2, <2>3, UncountedStep
<1>2. processed' + (IF wpc' = "count" THEN 1 ELSE 0) = Len(written')
  <2> USE DEF queueVars, logVars, workVars, flushVars, streamVars
  <2>0. CASE UNCHANGED <<processed, wpc, written>>
    BY <2>0 DEF Counted
  <2>1. CASE CallPop \/ PopReturned \/ LoadOutput \/ NotifyFlushers
    BY <2>1, <1>t DEF CallPop, PopReturned, LoadOutput, NotifyFlushers, Counted
  <2>2. CASE WriteMessage
    <3>1. cur \in Messages
      BY <2>2 DEF WriteMessage, Places, Holdings
    <3>2. Len(written') = Len(written) + 1
      BY <2>2, <1>t, <3>1, AppendProperties DEF WriteMessage
    <3> QED
      BY <2>2, <1>t, <3>2 DEF WriteMessage, Counted
  <2>3. CASE CountProcessed
    BY <2>3, <1>t DEF CountProcessed, Counted
  <2>4. ASSUME NEW c \in Clients, Call(c) \/ ClientStep(c)
        PROVE  UNCHANGED <<processed, wpc, written>>
    BY <2>4 DEF Call, ClientStep, Log, BeginFlush, BeginShutdown, setOutput, PushReturned,
                CountEnqueued, FlushCheck, FlushReload, FlushWait, FlushReturn, CloseReturned, Join
  <2>5. ASSUME NEW t \in Clients \cup {Worker}, QueueStep(t) \/ QueueSpuriousWakeup(t)
        PROVE  UNCHANGED <<processed, wpc, written>>
    BY <2>5 DEF QueueStep, QueueSpuriousWakeup
  <2>6. CASE UNCHANGED vars
    BY <2>0, <2>6 DEF vars
  <2> QED
    BY <2>0, <2>1, <2>2, <2>3, <2>4, <2>5, <2>6 DEF Next, WorkerStep
<1> QED
  BY <1>1, <1>2 DEF Counted

\* The lengths of the three parts of pushed add up.
LEMMA Lengths ==
  ASSUME Places, WrittenInOrder
  PROVE  /\ Len(written) \in Nat /\ Len(InHand) \in Nat /\ Len(m_deque) \in Nat
         /\ Len(pushed) = Len(written) + Len(InHand) + Len(m_deque)
<1>t. /\ written \in Seq(Messages) /\ InHand \in Seq(Messages) /\ m_deque \in Seq(Messages)
  BY InHandType DEF Places, TypeOK, Q!TypeOK
<1>1. written \o InHand \in Seq(Messages) /\ Len(written \o InHand) = Len(written) + Len(InHand)
  BY <1>t, ConcatProperties
<1>2. \A s \in Seq(Messages) : Len(s \o m_deque) = Len(s) + Len(m_deque)
  BY <1>t, ConcatProperties
<1>3. Len((written \o InHand) \o m_deque) = Len(written \o InHand) + Len(m_deque)
  BY <1>1, <1>2, Zenon
<1> QED
  BY <1>t, <1>1, <1>3, LenProperties DEF WrittenInOrder

-----------------------------------------------------------------------------
(* shutdown() *)

\* The worker leaves only when the queue is closed and empty, which it stays,
\* and shutdown() returns only when the worker has left.
Drained ==
  /\ (wpc = "exited" \/ (wpc = "popping" /\ ret[Worker] = "nullopt"))
       => m_closed /\ m_deque = <<>>
  /\ lpc[Main] = "joined" => wpc = "exited"

\* A closed and empty queue stays so, and Main joins a worker that has left.
LEMMA DrainedStep ==
  ASSUME Places, Drained, [Next]_vars
  PROVE  Drained'
<1> DEFINE T == Clients \cup {Worker}
<1>m. Worker \notin Clients /\ Main \in Clients /\ Messages \cap {"none", "nullopt"} = {}
  BY LoggerAssumption
<1>t. /\ ret \in [T -> Messages \cup {"none", "nullopt", "pushed", "rejected"}]
      /\ lpc \in [Clients -> LPCs]
  BY DEF Places, TypeOK, Q!TypeOK
<1> USE DEF queueVars, logVars, workVars, flushVars, streamVars, LGoto
<1>0. CASE UNCHANGED vars
  BY <1>0 DEF vars, Drained
<1>1. CASE WorkerStep
  <2>1. wpc # "exited"
    BY <1>1 DEF WorkerStep, CallPop, PopReturned, LoadOutput, WriteMessage, CountProcessed,
                NotifyFlushers
  <2>2. lpc'[Main] # "joined"
    BY <1>1, <1>m, <1>t, <2>1
       DEF WorkerStep, CallPop, PopReturned, LoadOutput, WriteMessage, CountProcessed,
           NotifyFlushers, Drained
  <2>3. CASE CallPop
    BY <1>t, <2>2, <2>3 DEF CallPop, Q!BeginPop, Q!Call, Drained
  <2>4. CASE PopReturned
    BY <2>2, <2>4 DEF PopReturned, Drained
  <2>5. CASE LoadOutput \/ WriteMessage \/ CountProcessed \/ NotifyFlushers
    BY <2>2, <2>5 DEF LoadOutput, WriteMessage, CountProcessed, NotifyFlushers, Drained
  <2> QED
    BY <1>1, <2>3, <2>4, <2>5 DEF WorkerStep
<1>2. ASSUME NEW c \in Clients, Call(c) \/ ClientStep(c) PROVE Drained'
  <2>1. UNCHANGED <<wpc, m_deque>> /\ ret'[Worker] = ret[Worker] /\ (m_closed => m_closed')
    BY <1>2, <1>m, <1>t
            DEF Call, ClientStep, Log, Q!BeginEmplace, Q!Call, BeginFlush, BeginShutdown, Q!Close,
                setOutput, PushReturned, CountEnqueued, FlushCheck, FlushReload, FlushWait,
                FlushReturn, CloseReturned, Join
  <2>2. lpc'[Main] = "joined" => lpc[Main] = "joined" \/ wpc = "exited"
    BY <1>2, <1>m, <1>t
            DEF Call, ClientStep, Log, BeginFlush, BeginShutdown, setOutput, PushReturned,
                CountEnqueued, FlushCheck, FlushReload, FlushWait, FlushReturn, CloseReturned, Join
  <2> QED
    BY <2>1, <2>2 DEF Drained
<1>3. ASSUME NEW t \in T, QueueStep(t) \/ QueueSpuriousWakeup(t) PROVE Drained'
  <2>1. QueueEffect(t)
    BY <1>3, QueueStepEffect
  <2>2. UNCHANGED <<lpc, wpc>>
    BY <1>3 DEF QueueStep, QueueSpuriousWakeup
  <2>3. CASE Inserted(t)
    BY <1>m, <1>t, <2>1, <2>2, <2>3 DEF Inserted, Drained, QueueEffect
  <2>4. CASE Refused(t)
    BY <1>m, <1>t, <2>1, <2>2, <2>4 DEF Refused, Drained, QueueEffect
  <2>5. CASE Taken
    <3>1. Head(m_deque) \in Messages
      BY <2>5, HeadTailProperties DEF Taken, Places, TypeOK, Q!TypeOK
    <3> QED
      BY <1>m, <1>t, <2>1, <2>2, <2>5, <3>1 DEF Taken, Drained, QueueEffect
  <2>6. CASE Ended
    BY <1>m, <1>t, <2>1, <2>2, <2>6 DEF Ended, Drained, QueueEffect
  <2>7. CASE Silent
    BY <2>1, <2>2, <2>7 DEF Silent, Drained, QueueEffect
  <2> QED
    BY <2>1, <2>3, <2>4, <2>5, <2>6, <2>7 DEF QueueEffect
<1> QED
  BY <1>0, <1>1, <1>2, <1>3 DEF Next

-----------------------------------------------------------------------------
(* flush() *)

Entered == {pushed[i] : i \in 1..Len(pushed)}

\* A message that a log() has pushed, or that a log() which returned has pushed,
\* entered the queue.
Settled ==
  /\ \A c \in Uncounted : msg[c] \in Entered
  /\ finished \subseteq Entered

\* The messages a flush() is to cover are among the first target[c] to enter
\* the queue, and it returns only when that many are processed.
Covered ==
  \A c \in Clients :
    /\ target[c] <= Len(pushed)
    /\ owed[c] \subseteq {pushed[i] : i \in 1..target[c]}
    /\ lpc[c] = "flushed" => target[c] <= processed

\* The stream in use is later than the streams freed, and later than those Main's
\* flush() is to free unless that flush() waits for the message being written.
StreamsApart ==
  /\ freed \in Nat /\ freed < output /\ stale < output
  /\ wpc = "put" => /\ via \in 1..output /\ via > freed
                    /\ via > stale \/ Len(written) < target[Main]

\* The queue's history only grows, and processed too.
LEMMA HistoryGrows ==
  ASSUME Places, [Next]_vars
  PROVE  /\ pushed \in Seq(Messages) /\ Len(pushed) \in Nat
         /\ Len(pushed') \in Nat /\ Len(pushed) <= Len(pushed')
         /\ \A i \in 1..Len(pushed) : pushed'[i] = pushed[i]
         /\ Entered \subseteq Entered'
<1>t. pushed \in Seq(Messages) /\ Len(pushed) \in Nat
  BY LenProperties DEF Places, TypeOK
<1>1. CASE pushed' = pushed
  BY <1>1, <1>t DEF Entered
<1>2. ASSUME NEW c \in Clients, Inserted(c)
      PROVE  /\ Len(pushed') = Len(pushed) + 1
             /\ \A i \in 1..Len(pushed) : pushed'[i] = pushed[i]
  <2>1. msg[c] \in Messages
    BY <1>2 DEF Inserted, Places, Holdings, TypeOK
  <2> QED
    BY <1>2, <1>t, <2>1, AppendProperties DEF Inserted
<1>3. /\ Len(pushed') \in Nat /\ Len(pushed) <= Len(pushed')
      /\ \A i \in 1..Len(pushed) : pushed'[i] = pushed[i]
  BY <1>1, <1>2, <1>t, MovesStep DEF Moves, Taken
<1> QED
  BY <1>t, <1>3 DEF Entered

\* processed never decreases.
LEMMA ProcessedGrows ==
  ASSUME Places, [Next]_vars
  PROVE  processed \in Nat /\ processed' \in Nat /\ processed <= processed'
<1> USE DEF queueVars, logVars, workVars, flushVars, streamVars
<1>t. processed \in Nat
  BY DEF Places, TypeOK
<1>1. CASE WorkerStep
  BY <1>1, <1>t DEF WorkerStep, CallPop, PopReturned, LoadOutput, WriteMessage,
                    CountProcessed, NotifyFlushers
<1>2. ASSUME NEW c \in Clients, Call(c) \/ ClientStep(c) PROVE processed' = processed
  BY <1>2 DEF Call, ClientStep, Log, BeginFlush, BeginShutdown, setOutput, PushReturned,
              CountEnqueued, FlushCheck, FlushReload, FlushWait, FlushReturn, CloseReturned, Join
<1>3. ASSUME NEW t \in Clients \cup {Worker}, QueueStep(t) \/ QueueSpuriousWakeup(t)
      PROVE  processed' = processed
  BY <1>3 DEF QueueStep, QueueSpuriousWakeup
<1>4. CASE UNCHANGED vars
  BY <1>4, <1>t DEF vars
<1> QED
  BY <1>t, <1>1, <1>2, <1>3, <1>4 DEF Next

\* A caller that is not counted keeps its message, and finished grows by the
\* message of a caller that counts.
LEMMA MessageKept ==
  ASSUME Places, [Next]_vars
  PROVE  /\ \A c \in Uncounted' : msg'[c] = msg[c]
         /\ finished' # finished =>
              \E c \in Clients : c \in Uncounted /\ finished' = finished \cup {msg[c]}
<1>m. Worker \notin Clients /\ Main \in Clients
  BY LoggerAssumption
<1>t. /\ ret \in [Clients \cup {Worker} -> Messages \cup {"none", "nullopt", "pushed", "rejected"}]
      /\ lpc \in [Clients -> LPCs] /\ msg \in [Clients -> Messages \cup {None}]
  BY DEF Places, TypeOK, Q!TypeOK
<1> USE DEF queueVars, logVars, workVars, flushVars, streamVars, LGoto
<1>1. CASE UNCHANGED <<msg, finished>>
  BY <1>1
<1>2. ASSUME NEW c \in Clients, NEW m \in Messages, Log(c, m)
      PROVE  UNCHANGED finished /\ \A d \in Uncounted' : msg'[d] = msg[d]
  BY <1>2, <1>t DEF Log, Q!BeginEmplace, Q!Call, Uncounted
<1>3. ASSUME NEW c \in Clients, PushReturned(c)
      PROVE  UNCHANGED finished /\ \A d \in Uncounted' : msg'[d] = msg[d]
  BY <1>3, <1>t DEF PushReturned, Uncounted
<1>4. ASSUME NEW c \in Clients, CountEnqueued(c)
      PROVE  /\ c \in Uncounted /\ finished' = finished \cup {msg[c]}
             /\ \A d \in Uncounted' : msg'[d] = msg[d]
  BY <1>4, <1>t DEF CountEnqueued, Uncounted
<1>5. ASSUME NEW c \in Clients,
             BeginFlush(c) \/ BeginShutdown \/ setOutput \/ FlushCheck(c) \/ FlushReload(c)
               \/ FlushWait(c) \/ FlushReturn(c) \/ CloseReturned \/ Join
      PROVE  UNCHANGED <<msg, finished>>
  BY <1>5 DEF BeginFlush, BeginShutdown, setOutput, FlushCheck, FlushReload, FlushWait,
              FlushReturn, CloseReturned, Join
<1>6. CASE WorkerStep
  BY <1>1, <1>6 DEF WorkerStep, CallPop, PopReturned, LoadOutput, WriteMessage,
                    CountProcessed, NotifyFlushers
<1>7. ASSUME NEW t \in Clients \cup {Worker}, QueueStep(t) \/ QueueSpuriousWakeup(t)
      PROVE  UNCHANGED <<msg, finished>>
  BY <1>7 DEF QueueStep, QueueSpuriousWakeup
<1>8. CASE UNCHANGED vars
  BY <1>1, <1>8 DEF vars
<1> QED
  BY <1>1, <1>2, <1>3, <1>4, <1>5, <1>6, <1>7, <1>8 DEF Next, Call, ClientStep

\* Every step keeps what is counted, or about to be, among what entered.
LEMMA SettledStep ==
  ASSUME Places, Settled, [Next]_vars
  PROVE  Settled'
<1>1. Entered \subseteq Entered'
  BY HistoryGrows
<1>2. finished' \subseteq Entered'
  BY <1>1, MessageKept DEF Settled
<1>3. ASSUME NEW c \in Uncounted' PROVE msg'[c] \in Entered'
  <2>1. msg'[c] = msg[c]
    BY <1>3, MessageKept
  <2>2. CASE c \in Uncounted
    BY <1>1, <2>1, <2>2 DEF Settled
  <2>3. CASE c \notin Uncounted
    <3>1. c \in Clients /\ Inserted(c)
      BY <1>3, <2>3, UncountedStep
    <3>2. msg[c] \in Messages /\ pushed \in Seq(Messages)
      BY <3>1 DEF Inserted, Places, Holdings, TypeOK
    <3>3. Len(pushed') = Len(pushed) + 1 /\ pushed'[Len(pushed) + 1] = msg[c]
      BY <3>1, <3>2, AppendProperties DEF Inserted
    <3>4. Len(pushed) + 1 \in 1..Len(pushed')
      BY <3>2, <3>3, LenProperties
    <3> QED
      BY <2>1, <3>3, <3>4 DEF Entered
  <2> QED
    BY <2>2, <2>3
<1> QED
  BY <1>2, <1>3 DEF Settled

\* The counters as a flush() sees them when it takes its snapshot: all that has
\* entered the queue is counted, if no caller is between push and count.
LEMMA Snapshot ==
  ASSUME Places, Counted
  PROVE  enqueued <= Len(pushed) /\ (Uncounted = {} => enqueued = Len(pushed))
<1>1. Cardinality(Uncounted) \in Nat /\ (Uncounted = {} => Cardinality(Uncounted) = 0)
  BY UncountedFinite, FS_EmptySet
<1>2. enqueued \in Nat /\ enqueued + Cardinality(Uncounted) = Len(pushed)
  BY DEF Counted, Places, TypeOK
<1> QED
  BY <1>1, <1>2

\* Every step keeps the promise of each flush() within its target.
LEMMA CoveredStep ==
  ASSUME Places, Counted, Settled, Covered, [Next]_vars
  PROVE  Covered'
<1>h. /\ pushed \in Seq(Messages) /\ Len(pushed) \in Nat
      /\ Len(pushed') \in Nat /\ Len(pushed) <= Len(pushed')
      /\ \A i \in 1..Len(pushed) : pushed'[i] = pushed[i]
  BY HistoryGrows
<1>g. processed \in Nat /\ processed' \in Nat /\ processed <= processed'
  BY ProcessedGrows
<1>t. /\ target \in [Clients -> Nat] /\ lpc \in [Clients -> LPCs] /\ enqueued \in Nat
      /\ owed \in [Clients -> SUBSET Messages]
  BY DEF Places, TypeOK
<1> SUFFICES ASSUME NEW d \in Clients
             PROVE  /\ target'[d] <= Len(pushed')
                    /\ owed'[d] \subseteq {pushed'[i] : i \in 1..target'[d]}
                    /\ lpc'[d] = "flushed" => target'[d] <= processed'
  BY DEF Covered
<1>d. /\ target[d] \in Nat /\ target[d] <= Len(pushed)
      /\ owed[d] \subseteq {pushed[i] : i \in 1..target[d]}
      /\ lpc[d] = "flushed" => target[d] <= processed
  BY <1>t DEF Covered
<1>e. {pushed[i] : i \in 1..target[d]} \subseteq {pushed'[i] : i \in 1..target[d]}
  BY <1>h, <1>d
<1>u. ASSUME target'[d] = target[d], owed'[d] = owed[d],
             lpc'[d] = "flushed" => (lpc[d] = "flushed" \/ target[d] <= processed)
      PROVE  /\ target'[d] <= Len(pushed')
             /\ owed'[d] \subseteq {pushed'[i] : i \in 1..target'[d]}
             /\ lpc'[d] = "flushed" => target'[d] <= processed'
  <2>1. target'[d] <= Len(pushed')
    BY <1>u, <1>h, <1>d
  <2>2. owed'[d] \subseteq {pushed'[i] : i \in 1..target'[d]}
    BY <1>u, <1>d, <1>e
  <2>3. lpc'[d] = "flushed" => target'[d] <= processed'
    BY <1>u, <1>g, <1>d
  <2> QED
    BY <2>1, <2>2, <2>3
<1> USE DEF queueVars, logVars, workVars, flushVars, streamVars, LGoto
<1>1. CASE UNCHANGED vars
  BY <1>1, <1>u DEF vars
<1>2. CASE WorkerStep
  BY <1>2, <1>t, <1>u DEF WorkerStep, CallPop, PopReturned, LoadOutput, WriteMessage,
                    CountProcessed, NotifyFlushers
<1>3. ASSUME NEW t \in Clients \cup {Worker}, QueueStep(t) \/ QueueSpuriousWakeup(t)
      PROVE  UNCHANGED <<target, owed, lpc>>
  BY <1>3 DEF QueueStep, QueueSpuriousWakeup
<1>4. ASSUME NEW c \in Clients,
             \/ \E m \in Messages : Log(c, m)
             \/ BeginShutdown \/ setOutput \/ PushReturned(c) \/ CountEnqueued(c)
             \/ FlushReload(c) \/ FlushWait(c) \/ CloseReturned \/ Join
      PROVE  UNCHANGED <<target, owed>> /\ (lpc'[d] = "flushed" => lpc[d] = "flushed")
  BY <1>4, <1>t, LoggerAssumption
     DEF Log, BeginShutdown, setOutput, PushReturned, CountEnqueued,
         FlushReload, FlushWait, CloseReturned, Join
<1>5. ASSUME NEW c \in Clients, BeginFlush(c)
      PROVE  /\ target'[d] <= Len(pushed')
             /\ owed'[d] \subseteq {pushed'[i] : i \in 1..target'[d]}
             /\ lpc'[d] = "flushed" => target'[d] <= processed'
  <2>1. CASE c # d
    BY <1>5, <1>t, <1>u, <2>1 DEF BeginFlush
  <2>2. CASE c = d
    <3>1. target'[d] = enqueued /\ lpc'[d] = "flushCheck" /\ pushed' = pushed
      BY <1>5, <1>t, <2>2 DEF BeginFlush
    <3>2. owed'[d] = IF Uncounted = {} THEN finished ELSE {}
      BY <1>5, <1>t, <2>2 DEF BeginFlush
    <3>3. enqueued <= Len(pushed) /\ (Uncounted = {} => enqueued = Len(pushed))
      BY Snapshot
    <3>4. finished \subseteq {pushed[i] : i \in 1..Len(pushed)}
      BY DEF Settled, Entered
    <3> QED
      BY <3>1, <3>2, <3>3, <3>4
  <2> QED
    BY <2>1, <2>2
<1>6. ASSUME NEW c \in Clients, FlushCheck(c)
      PROVE  /\ UNCHANGED <<target, owed>>
             /\ lpc'[d] = "flushed" => (lpc[d] = "flushed" \/ target[d] <= processed)
  BY <1>6, <1>t, <1>g DEF FlushCheck
<1>7. ASSUME NEW c \in Clients, FlushReturn(c)
      PROVE  /\ target'[d] <= Len(pushed')
             /\ owed'[d] \subseteq {pushed'[i] : i \in 1..target'[d]}
             /\ lpc'[d] = "flushed" => target'[d] <= processed'
  <2>1. CASE c # d
    BY <1>7, <1>t, <1>u, <2>1 DEF FlushReturn
  <2>2. CASE c = d
    BY <1>7, <1>t, <1>h, <2>2 DEF FlushReturn
  <2> QED
    BY <2>1, <2>2
<1> QED
  BY <1>1, <1>2, <1>3, <1>4, <1>5, <1>6, <1>7, <1>u DEF Next, Call, ClientStep

\* While the worker writes, a message is in its hand.
LEMMA WritingShort ==
  ASSUME Places, WrittenInOrder, wpc = "put"
  PROVE  Len(written) < Len(pushed)
<1>1. Len(InHand) = 1
  BY DEF InHand
<1> QED
  BY <1>1, Lengths

\* Every step keeps the worker off the streams that are freed.
LEMMA StreamsStep ==
  ASSUME Places, WrittenInOrder, Counted, Covered, StreamsApart, [Next]_vars
  PROVE  StreamsApart'
<1>t. /\ output \in 1..Streams /\ Streams \in Nat /\ output \in Nat /\ output >= 1
      /\ stale \in Nat /\ via \in Nat
      /\ target \in [Clients -> Nat] /\ Main \in Clients /\ processed \in Nat
      /\ written \in Seq(Messages) /\ Len(written) \in Nat
  BY LoggerAssumption, LenProperties DEF Places, TypeOK
<1>s. /\ freed \in Nat /\ freed < output /\ stale < output
      /\ wpc = "put" => /\ via \in 1..output /\ via > freed
                        /\ via > stale \/ Len(written) < target[Main]
  BY DEF StreamsApart
<1> USE DEF queueVars, logVars, workVars, flushVars, streamVars
<1>1. CASE UNCHANGED <<freed, output, stale, via, wpc, written, target>>
  BY <1>1, <1>s DEF StreamsApart
<1>2. CASE LoadOutput
  BY <1>2, <1>t, <1>s DEF LoadOutput, StreamsApart
<1>3. CASE CallPop \/ PopReturned \/ WriteMessage \/ CountProcessed \/ NotifyFlushers
  BY <1>3, <1>s DEF CallPop, PopReturned, WriteMessage, CountProcessed, NotifyFlushers,
                    StreamsApart
<1>4. CASE setOutput
  BY <1>4, <1>t, <1>s DEF setOutput, StreamsApart
<1>5. ASSUME NEW c \in Clients, BeginFlush(c) PROVE StreamsApart'
  <2>u. UNCHANGED <<freed, output, via, wpc, written>>
    BY <1>5 DEF BeginFlush
  <2>1. CASE c # Main
    BY <1>5, <1>t, <1>s, <2>1, <2>u DEF BeginFlush, StreamsApart
  <2>2. CASE c = Main
    <3>1. target'[Main] = enqueued /\ stale' = IF Uncounted = {} THEN output - 1 ELSE 0
      BY <1>5, <1>t, <2>2 DEF BeginFlush
    <3>2. wpc = "put" /\ Uncounted = {} => Len(written) < enqueued
      BY Snapshot, WritingShort
    <3> QED
      BY <1>t, <1>s, <2>u, <3>1, <3>2 DEF StreamsApart
  <2> QED
    BY <2>1, <2>2
<1>6. ASSUME NEW c \in Clients, FlushReturn(c) PROVE StreamsApart'
  <2>u. UNCHANGED <<output, via, wpc, written>>
    BY <1>6 DEF FlushReturn
  <2>1. CASE c # Main
    BY <1>6, <1>t, <1>s, <2>1, <2>u DEF FlushReturn, StreamsApart
  <2>2. CASE c = Main
    <3>1. stale' = 0 /\ freed' = IF stale > freed THEN stale ELSE freed
      BY <1>6, <2>2 DEF FlushReturn
    <3>2. target[Main] <= processed
      BY <1>6, <2>2 DEF FlushReturn, Covered
    <3>3. wpc = "put" => processed = Len(written)
      BY <1>t DEF Counted
    <3>4. wpc = "put" => via > stale
      BY <1>t, <1>s, <3>2, <3>3
    <3> QED
      BY <1>t, <1>s, <2>u, <3>1, <3>4 DEF StreamsApart
  <2> QED
    BY <2>1, <2>2
<1>7. ASSUME NEW c \in Clients,
             \/ \E m \in Messages : Log(c, m)
             \/ BeginShutdown \/ PushReturned(c) \/ CountEnqueued(c)
             \/ FlushCheck(c) \/ FlushReload(c) \/ FlushWait(c) \/ CloseReturned \/ Join
      PROVE  StreamsApart'
  BY <1>7, <1>1 DEF Log, BeginShutdown, PushReturned, CountEnqueued, FlushCheck,
         FlushReload, FlushWait, CloseReturned, Join
<1>8. ASSUME NEW t \in Clients \cup {Worker}, QueueStep(t) \/ QueueSpuriousWakeup(t)
      PROVE  StreamsApart'
  BY <1>8, <1>1 DEF QueueStep, QueueSpuriousWakeup
<1>9. CASE UNCHANGED vars
  BY <1>1, <1>9 DEF vars
<1> QED
  BY <1>2, <1>3, <1>4, <1>5, <1>6, <1>7, <1>8, <1>9 DEF Next, WorkerStep, Call, ClientStep

-----------------------------------------------------------------------------
(* The theorems *)

\* The inductive invariant of the logger.
IInv ==
  Places /\ WrittenInOrder /\ Counted /\ Drained /\ Settled /\ Covered /\ StreamsApart

\* The inductive invariant holds in every reachable state.
LEMMA Invariance == Spec => []IInv
<1>1. Init => IInv
  <2> SUFFICES ASSUME Init PROVE IInv
    OBVIOUS
  <2>m. Main \in Clients /\ QueueCapacity \in Nat /\ Streams \in Nat \ {0}
    BY LoggerAssumption
  <2>q. Q!TypeOK
    <3>1. m_deque \in Seq(Messages) /\ Len(m_deque) = 0
      BY EmptySeq DEF Init, Q!Init
    <3>2. Len(m_deque) <= QueueCapacity
      BY <2>m, <3>1
    <3>3. m_closed \in BOOLEAN /\ m_mutex = NoThread
      BY DEF Init, Q!Init
    <3>4. /\ pc = [t \in Clients \cup {Worker} |-> "idle"]
          /\ arg = [t \in Clients \cup {Worker} |-> Q!NoArg]
          /\ ret = [t \in Clients \cup {Worker} |-> "none"]
      BY DEF Init, Q!Init
    <3> QED
      BY <3>1, <3>2, <3>3, <3>4 DEF Q!TypeOK, Q!PCs, Q!Pushing
  <2>1. Places
    <3>1. TypeOK
      BY <2>m, <2>q, EmptySeq DEF Init, TypeOK, LPCs
    <3> QED
      BY <2>m, <3>1 DEF Init, Q!Init, Places, ClientPlaces, WorkerPlaces, Holdings
  <2>2. WrittenInOrder
    BY DEF WrittenInOrder, InHand, Init, Q!Init
  <2>3. Counted
    <3>1. Uncounted = {}
      BY DEF Init, Uncounted
    <3> QED
      BY <3>1, FS_EmptySet DEF Counted, Init
  <2>4. Drained
    BY <2>m DEF Drained, Init
  <2>5. Settled
    BY DEF Settled, Uncounted, Init
  <2>6. Covered
    BY DEF Covered, Init
  <2>7. StreamsApart
    BY DEF StreamsApart, Init
  <2> QED
    BY <2>1, <2>2, <2>3, <2>4, <2>5, <2>6, <2>7 DEF IInv
<1>2. IInv /\ [Next]_vars => IInv'
  BY PlacesStep, OrderStep, CountedStep, DrainedStep, SettledStep, CoveredStep, StreamsStep
     DEF IInv
<1> QED
  BY <1>1, <1>2, PTL DEF Spec

\* worker() writes the messages in the order in which they entered the queue,
\* each once and none lost, for every interleaving of log(), flush(),
\* setOutput() and shutdown().
THEOREM WritesInOrder == Spec => []WrittenInOrder
<1>1. IInv => WrittenInOrder
  BY DEF IInv
<1> QED
  BY <1>1, Invariance, PTL

\* The counters enqueued and processed never lose a message: they differ by the
\* messages in the queue, in the worker's hand or being counted, less the
\* callers of log() between push and count.
THEOREM CountersAgree == Spec => []CountersBalance
<1>1. IInv => CountersBalance
  <2> SUFFICES ASSUME IInv PROVE CountersBalance
    OBVIOUS
  <2>1. /\ enqueued \in Nat /\ processed \in Nat /\ TypeOK
        /\ enqueued + Cardinality(Uncounted) = Len(pushed)
        /\ processed + (IF wpc = "count" THEN 1 ELSE 0) = Len(written)
    BY DEF IInv, Counted, Places, TypeOK
  <2>2. /\ Len(written) \in Nat /\ Len(InHand) \in Nat /\ Len(m_deque) \in Nat
        /\ Len(pushed) = Len(written) + Len(InHand) + Len(m_deque)
    BY Lengths DEF IInv
  <2>3. Cardinality(Uncounted) \in Nat
    BY UncountedFinite
  <2> QED
    BY <2>1, <2>2, <2>3 DEF CountersBalance
<1> QED
  BY <1>1, Invariance, PTL

\* When shutdown() has joined the worker, every message that entered the queue
\* is written, and none enters any more.
THEOREM ShutdownWritesAll == Spec => []ShutdownDrains
<1>1. IInv => ShutdownDrains
  <2> SUFFICES ASSUME IInv, lpc[Main] = "joined"
               PROVE  m_deque = <<>> /\ written = pushed
    BY DEF ShutdownDrains
  <2>1. wpc = "exited" /\ m_deque = <<>>
    BY DEF IInv, Drained
  <2>2. InHand = <<>>
    BY <2>1 DEF InHand
  <2>3. (written \o InHand) \o m_deque = pushed /\ written \in Seq(Messages)
    BY DEF IInv, WrittenInOrder, Places, TypeOK
  <2>4. written \o <<>> = written
    BY <2>3, ConcatEmptySeq
  <2> QED
    BY <2>1, <2>2, <2>3, <2>4
<1> QED
  BY <1>1, Invariance, PTL

\* A flush() that began with no caller between push and count returns only when
\* all the messages logged before it are written, and no stream that setOutput()
\* replaced before it is written to afterwards.
THEOREM FlushKeepsPromise == Spec => []FlushCovers
<1>1. IInv => FlushCovers
  <2> SUFFICES ASSUME IInv PROVE FlushCovers
    OBVIOUS
  <2>1. ASSUME NEW c \in Clients, lpc[c] = "flushed"
        PROVE  owed[c] \subseteq {written[i] : i \in 1..Len(written)}
    <3>1. /\ target[c] \in Nat /\ target[c] <= Len(pushed) /\ target[c] <= processed
          /\ owed[c] \subseteq {pushed[i] : i \in 1..target[c]}
      BY <2>1 DEF IInv, Covered, Places, TypeOK
    <3>2. /\ Len(written) \in Nat /\ Len(InHand) \in Nat /\ Len(m_deque) \in Nat
          /\ Len(pushed) = Len(written) + Len(InHand) + Len(m_deque)
      BY Lengths DEF IInv
    <3>3. target[c] <= Len(written)
      BY <3>1, <3>2 DEF IInv, Counted, Places, TypeOK
    <3>4. \A i \in 1..Len(written) : pushed[i] = written[i]
      <4>t. written \in Seq(Messages) /\ InHand \in Seq(Messages) /\ m_deque \in Seq(Messages)
        BY InHandType DEF IInv, Places, TypeOK, Q!TypeOK
      <4>1. /\ written \o InHand \in Seq(Messages)
            /\ Len(written \o InHand) = Len(written) + Len(InHand)
            /\ \A i \in 1..Len(written) : (written \o InHand)[i] = written[i]
        BY <3>2, <4>t, ConcatProperties
      <4>2. \A s \in Seq(Messages) : \A i \in 1..Len(s) : (s \o m_deque)[i] = s[i]
        BY <3>2, <4>t, ConcatProperties, LenProperties
      <4>3. \A i \in 1..Len(written) : i \in 1..Len(written \o InHand)
        BY <3>2, <4>1
      <4>4. pushed = (written \o InHand) \o m_deque
        BY DEF IInv, WrittenInOrder
      <4> DEFINE s == written \o InHand
      <4>5. s \in Seq(Messages) /\ pushed = s \o m_deque
            /\ \A i \in 1..Len(written) : s[i] = written[i] /\ i \in 1..Len(s)
        BY <4>1, <4>3, <4>4
      <4> HIDE DEF s
      <4> QED
        BY <4>2, <4>5
    <3> QED
      BY <3>1, <3>2, <3>3, <3>4
  <2>2. wpc = "put" => via > freed
    BY DEF IInv, StreamsApart
  <2> QED
    BY <2>1, <2>2 DEF FlushCovers
<1> QED
  BY <1>1, Invariance, PTL

\* The logger is a client of the queue: what it does to the queue, in whatever
\* order its threads run, are steps of BoundedBlockingQueue, so that all that
\* holds of the queue under its most general client holds inside the logger.
THEOREM LoggerUsesQueue == Spec => Q!Spec
<1>1. Init => Q!Init
  BY DEF Init
<1>2. [Next]_vars => [Q!Next]_(Q!vars)
  <2> SUFFICES ASSUME [Next]_vars PROVE Q!Next \/ UNCHANGED Q!vars
    OBVIOUS
  <2>m. Main \in Clients
    BY LoggerAssumption
  <2>1. ASSUME NEW t \in Clients \cup {Worker}, Q!Begin(t) \/ Q!Continue(t) \/ Q!SpuriousWakeup(t)
        PROVE  Q!Next
    BY <2>1 DEF Q!Next
  <2>2. CASE UNCHANGED vars
    BY <2>2 DEF vars, queueVars, Q!vars
  <2>3. CASE WorkerStep
    <3>1. CASE CallPop
      <4>1. Q!Begin(Worker)
        BY <3>1 DEF CallPop, Q!Begin
      <4> QED
        BY <2>1, <4>1
    <3>2. CASE PopReturned \/ LoadOutput \/ WriteMessage \/ CountProcessed \/ NotifyFlushers
      BY <3>2 DEF PopReturned, LoadOutput, WriteMessage, CountProcessed, NotifyFlushers,
                  queueVars, Q!vars
    <3> QED
      BY <2>3, <3>1, <3>2 DEF WorkerStep
  <2>4. ASSUME NEW c \in Clients, Call(c) \/ ClientStep(c)
        PROVE  Q!Next \/ UNCHANGED Q!vars
    BY <2>1, <2>4, <2>m DEF Call, ClientStep, Log, BeginFlush, BeginShutdown, setOutput, PushReturned,
           CountEnqueued, FlushCheck, FlushReload, FlushWait, FlushReturn, CloseReturned, Join,
           queueVars, Q!vars, Q!Begin
  <2>5. ASSUME NEW t \in Clients \cup {Worker}, QueueStep(t) \/ QueueSpuriousWakeup(t)
        PROVE  Q!Next
    BY <2>1, <2>5 DEF QueueStep, QueueSpuriousWakeup
  <2> QED
    BY <2>2, <2>3, <2>4, <2>5 DEF Next
<1> QED
  BY <1>1, <1>2, PTL DEF Spec, Q!Spec
=============================================================================
