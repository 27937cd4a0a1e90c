------------------------ MODULE TaskSchedulerProofs ------------------------
(***************************************************************************)
(* Proofs about TaskScheduler for any jobs, workers, descriptor numbers and *)
(* queue capacity, with numbers given out again while the loop holds them.  *)
(*                                                                          *)
(* The argument counts, for each job, the runs it has had, the tasks of it  *)
(* that are queued or with a worker, and the runs still to come: one while  *)
(* its timer is armed, one while it is due or the loop holds its number or  *)
(* its copied callback, one while the loop is enqueueing it (Counted).  No  *)
(* step increases the sum but registration, which gives a timer what        *)
(* MayRun allows: one run if it is armed, and one if its number is in the   *)
(* batch.  A job whose entry is gone, or which never had a handle, does not *)
(* get one (Dead, Covered).                                                 *)
(***************************************************************************)
EXTENDS TaskScheduler, FiniteSetTheorems, TLAPS

\* What TypeOK says, and the parts of the state it leaves out.
Types ==
  /\ TypeOK
  /\ queue \in Seq(Jobs) /\ runs \in [Once -> Nat]
  /\ wpc \in [Workers -> {"pop", "run", "exited"}]
  /\ \A w \in Workers : wpc[w] = "run" <=> running[w] # None
  /\ mpc = "idle" => lpc = "off"
  /\ lpc = "clean" => cur = Cleaner
  /\ lpc = "enqueue" => cur \in Scheduled
  /\ lpc = "fired" => cur \in OneShots
  /\ \A j \in Jobs : /\ call[j] = "pushing" => j \in Immediate
                     /\ call[j] = "registered" => j \in Scheduled

\* A timer that is not registered has left no trace.  The number of a copied
\* callback is out of the batch, and is that of its timer if it still has one.
Stages ==
  /\ \A j \in OneShots : call[j] = "new" =>
       /\ fd[j] = None /\ ~Dispatched(j)
       /\ j \notin fired \cup entries \cup cancelling \cup zero
  /\ lpc = "call" => curfd \notin batch
  /\ lpc = "call" /\ cur \in OneShots => fd[cur] \in {curfd, None}

\* The tasks of j that are queued, with a worker, or have run.
InQueue(s, j) == Cardinality({i \in 1..Len(s) : s[i] = j})
InWork(j) == Cardinality({w \in Workers : running[w] = j})
Pool(j) == InQueue(queue, j) + InWork(j) + runs[j]

\* The runs of a timer that are still to come.
ToCome(j) ==
  (IF j \in armed THEN 1 ELSE 0)
  + (IF j \in due \/ fd[j] \in batch \/ (lpc = "call" /\ cur = j) THEN 1 ELSE 0)
  + (IF lpc = "enqueue" /\ cur = j THEN 1 ELSE 0)

Counted ==
  /\ \A j \in Immediate : Pool(j) + (IF call[j] \in {"new", "pushing"} THEN 1 ELSE 0) <= 1
  /\ \A j \in OneShots : Pool(j) + ToCome(j) <= MayRun(j)

\* An entry belongs to a call that has returned; a handle to an entry, or to a
\* call under way.
Entered == \A j \in entries : call[j] = "returned"
Covered == \A j \in Scheduled : fd[j] # None => j \in entries \/ call[j] = "registered"

\* A job whose future is closed, or about to be, has no handle and gets none, and
\* was dispatched only if it was cancelled late.
Dead ==
  \A j \in Once :
    status[j] = "closed" \/ j \in cancelling =>
      j \in OneShots /\ call[j] = "returned" /\ fd[j] = None /\ (Dispatched(j) => j \in late)

IInv == Types /\ Stages /\ Counted /\ Entered /\ Covered /\ Dead /\ PendingCancellable

-----------------------------------------------------------------------------
(* The queue *)

\* Appending adds the job.
LEMMA AppendMembers ==
  ASSUME NEW s \in Seq(Jobs), NEW x \in Jobs
  PROVE  /\ Append(s, x) \in Seq(Jobs) /\ Len(Append(s, x)) = Len(s) + 1
         /\ Append(s, x)[Len(s) + 1] = x
         /\ Members(Append(s, x)) = Members(s) \cup {x}
<1>1. /\ Append(s, x) \in Seq(Jobs) /\ Len(Append(s, x)) = Len(s) + 1 /\ Len(s) \in Nat
      /\ \A i \in 1..Len(s) : Append(s, x)[i] = s[i]
      /\ Append(s, x)[Len(s) + 1] = x
  OBVIOUS
<1> HIDE DEF Jobs
<1>2. \A i \in 1..Len(Append(s, x)) : i \in 1..Len(s) \/ i = Len(s) + 1
  BY <1>1
<1>3. \A i \in 1..Len(s) : i \in 1..Len(Append(s, x))
  BY <1>1
<1>4. Len(s) + 1 \in 1..Len(Append(s, x))
  BY <1>1
<1>5. Members(Append(s, x)) = Members(s) \cup {x}
  BY <1>1, <1>2, <1>3, <1>4 DEF Members
<1> QED
  BY <1>1, <1>5

\* Popping removes the head.
LEMMA TailMembers ==
  ASSUME NEW s \in Seq(Jobs), s # <<>>
  PROVE  /\ Head(s) \in Jobs /\ Tail(s) \in Seq(Jobs) /\ Len(Tail(s)) < Len(s)
         /\ Members(s) = Members(Tail(s)) \cup {Head(s)}
<1>1. /\ Tail(s) \in Seq(Jobs) /\ Len(s) \in Nat \ {0} /\ Len(Tail(s)) = Len(s) - 1
      /\ \A i \in 1..Len(Tail(s)) : Tail(s)[i] = s[i + 1]
      /\ Head(s) = s[1] /\ s[1] \in Jobs
  OBVIOUS
<1>2. \A i \in 1..Len(s) : i = 1 \/ (i - 1 \in 1..Len(Tail(s)) /\ s[i] = Tail(s)[i - 1])
  BY <1>1
<1>3. \A i \in 1..Len(Tail(s)) : i + 1 \in 1..Len(s) /\ i + 1 # 1
  BY <1>1
<1>4. 1 \in 1..Len(s)
  BY <1>1
<1>5. Members(s) = Members(Tail(s)) \cup {Head(s)}
  BY <1>1, <1>2, <1>3, <1>4 DEF Members
<1> QED
  BY <1>1, <1>5

\* The empty queue has no members.
LEMMA EmptyMembers == Members(<<>>) = {} /\ \A j \in Jobs : InQueue(<<>>, j) = 0
<1>1. ASSUME NEW j \in Jobs PROVE {i \in 1..Len(<<>>) : (<<>>)[i] = j} = {}
  OBVIOUS
<1> QED
  BY <1>1, FS_EmptySet DEF Members, InQueue

\* The places of a job in a queue are finitely many, and none if it is not there.
LEMMA QueueCount ==
  ASSUME NEW s \in Seq(Jobs), NEW j \in Jobs
  PROVE  /\ IsFiniteSet({i \in 1..Len(s) : s[i] = j}) /\ InQueue(s, j) \in Nat
         /\ j \notin Members(s) => InQueue(s, j) = 0
<1>1. IsFiniteSet({i \in 1..Len(s) : s[i] = j})
  <2>1. Len(s) \in Int /\ IsFiniteSet(1..Len(s))
    BY FS_Interval
  <2> QED
    BY <2>1, FS_Subset
<1>2. ASSUME j \notin Members(s) PROVE {i \in 1..Len(s) : s[i] = j} = {}
  BY <1>2 DEF Members
<1> QED
  BY <1>1, <1>2, FS_CardinalityType, FS_EmptySet DEF InQueue

\* Appending a job counts it once more, and no other job.
LEMMA AppendCount ==
  ASSUME NEW s \in Seq(Jobs), NEW x \in Jobs, NEW j \in Jobs
  PROVE  InQueue(Append(s, x), j) = InQueue(s, j) + (IF x = j THEN 1 ELSE 0)
<1> DEFINE P == {i \in 1..Len(s) : s[i] = j}
           R == {i \in 1..Len(Append(s, x)) : Append(s, x)[i] = j}
<1>1. /\ Append(s, x) \in Seq(Jobs) /\ Len(Append(s, x)) = Len(s) + 1 /\ Len(s) \in Nat
      /\ \A i \in 1..Len(s) : Append(s, x)[i] = s[i]
      /\ Append(s, x)[Len(s) + 1] = x
  OBVIOUS
<1>2. \A i : i \in 1..Len(Append(s, x)) <=> i \in 1..Len(s) \/ i = Len(s) + 1
  BY <1>1
<1>3. R = IF x = j THEN P \cup {Len(s) + 1} ELSE P
  BY <1>1, <1>2
<1>4. Len(s) + 1 \notin P
  BY <1>1
<1>5. IsFiniteSet(P) /\ Cardinality(P) \in Nat
  BY QueueCount DEF InQueue
<1>6. Cardinality(P \cup {Len(s) + 1}) = Cardinality(P) + 1
  BY <1>4, <1>5, FS_AddElement
<1>7. InQueue(s, j) = Cardinality(P) /\ InQueue(Append(s, x), j) = Cardinality(R)
  BY DEF InQueue
<1> HIDE DEF P, R
<1> QED
  BY <1>3, <1>5, <1>6, <1>7

\* Popping a job counts it once less, and no other job.
LEMMA TailCount ==
  ASSUME NEW s \in Seq(Jobs), s # <<>>, NEW j \in Jobs
  PROVE  InQueue(s, j) = InQueue(Tail(s), j) + (IF Head(s) = j THEN 1 ELSE 0)
<1> DEFINE P == {i \in 1..Len(s) : s[i] = j}
           R == {i \in 1..Len(Tail(s)) : Tail(s)[i] = j}
           f == [i \in R |-> i + 1]
<1>1. /\ Tail(s) \in Seq(Jobs) /\ Len(s) \in Nat \ {0} /\ Len(Tail(s)) = Len(s) - 1
      /\ \A i \in 1..Len(Tail(s)) : Tail(s)[i] = s[i + 1]
      /\ Head(s) = s[1]
  OBVIOUS
<1>2. IsFiniteSet(P) /\ IsFiniteSet(R) /\ Cardinality(P) \in Nat /\ Cardinality(R) \in Nat
  BY <1>1, QueueCount DEF InQueue
<1>3. ExistsBijection(R, P \ {1})
  <2>1. \A i \in R : i \in Nat /\ i + 1 \in P \ {1}
    BY <1>1
  <2>2. \A k \in P \ {1} : k - 1 \in R /\ k = (k - 1) + 1
    BY <1>1
  <2> HIDE DEF P, R
  <2>3. f \in [R -> P \ {1}]
    BY <2>1
  <2>4. \A x, y \in R : f[x] = f[y] => x = y
    BY <2>1
  <2>5. \A k \in P \ {1} : \E x \in R : f[x] = k
    BY <2>2
  <2> QED
    BY <2>3, <2>4, <2>5 DEF ExistsBijection, Bijection, Injection, IsInjective, Surjection
<1>4. Cardinality(P \ {1}) = Cardinality(R)
  BY <1>2, <1>3, FS_Bijection
<1>5. 1 \in P <=> Head(s) = j
  BY <1>1
<1>6. InQueue(s, j) = Cardinality(P) /\ InQueue(Tail(s), j) = Cardinality(R)
  BY DEF InQueue
<1> HIDE DEF P, R
<1>7. Cardinality(P \ {1}) = IF 1 \in P THEN Cardinality(P) - 1 ELSE Cardinality(P)
  BY <1>2, FS_RemoveElement
<1> QED
  BY <1>2, <1>4, <1>5, <1>6, <1>7

\* A worker that takes j, or ends it, counts; other workers do not.
LEMMA WorkCount ==
  ASSUME Types, NEW j \in Jobs
  PROVE  /\ IsFiniteSet({w \in Workers : running[w] = j}) /\ InWork(j) \in Nat
         /\ (\A w \in Workers : running[w] # j) => InWork(j) = 0
<1>1. IsFiniteSet({w \in Workers : running[w] = j})
  BY SchedulerAssumption, FS_Subset
<1> QED
  BY <1>1, FS_CardinalityType, FS_EmptySet DEF InWork

\* What is counted of a job in the pool is a number, and zero before its dispatch.
LEMMA PoolCount ==
  ASSUME Types, NEW j \in Once
  PROVE  Pool(j) \in Nat /\ (~Dispatched(j) => Pool(j) = 0)
<1>1. j \in Jobs /\ queue \in Seq(Jobs) /\ runs[j] \in Nat
  BY DEF Types, Once, Jobs, Scheduled
<1>2. /\ InQueue(queue, j) \in Nat /\ (j \notin Members(queue) => InQueue(queue, j) = 0)
      /\ InWork(j) \in Nat /\ ((\A w \in Workers : running[w] # j) => InWork(j) = 0)
  BY <1>1, QueueCount, WorkCount
<1> QED
  BY <1>1, <1>2 DEF Pool, Dispatched

-----------------------------------------------------------------------------
\* Types are kept.
LEMMA TypesStep == Types /\ [Next]_vars => Types'
<1> SUFFICES ASSUME Types, [Next]_vars PROVE Types'
  OBVIOUS
<1> USE SchedulerAssumption DEF Types, TypeOK, timerVars, loopVars, workVars, cancelVars,
        madeVars, Handles, Once, Jobs, Scheduled, Timed
<1>0. CASE UNCHANGED vars
  BY <1>0 DEF vars
<1>1. ASSUME NEW j \in Jobs, Execute(j) PROVE Types'
  BY <1>1 DEF Execute, CallGoto
<1>2. ASSUME NEW j \in Jobs, ExecutePush(j) PROVE Types'
  <2>1. queue' \in Seq(Jobs) /\ Members(queue') = Members(queue) \cup {j} /\ Len(queue') = Len(queue) + 1
    BY <1>2, AppendMembers DEF ExecutePush
  <2>2. Len(queue') <= QueueCapacity
    BY <1>2, <2>1 DEF ExecutePush
  <2> QED
    BY <1>2, <2>1, <2>2 DEF ExecutePush, CallGoto
<1>3. ASSUME NEW j \in Jobs, NEW n \in Fds, NEW delay \in Delays, Register(j, n, delay) PROVE Types'
  BY <1>3 DEF Register, NewFd, HeldAs, CallGoto
<1>4. ASSUME NEW j \in Jobs, RegisterFails(j) PROVE Types'
  BY <1>4 DEF RegisterFails, CallGoto
<1>5. ASSUME NEW j \in Jobs, AddEntry(j) PROVE Types'
  BY <1>5 DEF AddEntry, CallGoto
<1>6. ASSUME NEW j \in Jobs, Cancel(j) PROVE Types'
  BY <1>6 DEF Cancel, EraseEntry, Release
<1>7. ASSUME NEW j \in Jobs, OnCancel(j) PROVE Types'
  BY <1>7 DEF OnCancel
<1>8. ASSUME NEW j \in Timed, Expire(j) PROVE Types'
  BY <1>8 DEF Expire, Expiration
<1>9. ASSUME CheckStop PROVE Types'
  BY <1>9 DEF CheckStop, loopOnly
<1>10. ASSUME EpollWait PROVE Types'
  BY <1>10 DEF EpollWait, loopOnly
<1>11. ASSUME NEW n \in Fds, Dispatch(n) PROVE Types'
  BY <1>11 DEF Dispatch, loopOnly
<1>12. ASSUME ReadFd PROVE Types'
  BY <1>12 DEF ReadFd, loopOnly
<1>13. ASSUME BatchDone PROVE Types'
  BY <1>13 DEF BatchDone, loopOnly
<1>14. ASSUME LoopEnqueue PROVE Types'
  <2>1. cur \in Jobs /\ queue' = Append(queue, cur)
    BY <1>14 DEF LoopEnqueue
  <2>2. queue' \in Seq(Jobs) /\ Members(queue') = Members(queue) \cup {cur} /\ Len(queue') = Len(queue) + 1
    BY <2>1, AppendMembers
  <2>3. Len(queue') <= QueueCapacity
    BY <1>14, <2>2 DEF LoopEnqueue
  <2> QED
    BY <1>14, <2>1, <2>2, <2>3 DEF LoopEnqueue, Queued
<1>15. ASSUME MarkFired PROVE Types'
  BY <1>15 DEF MarkFired, loopOnly
<1>16. ASSUME Clean PROVE Types'
  BY <1>16 DEF Clean, Drop, Release
<1>17. ASSUME NEW w \in Workers, PopTask(w) PROVE Types'
  <2>1. queue # <<>> /\ queue' = Tail(queue) /\ running'[w] = Head(queue)
    BY <1>17 DEF PopTask
  <2>2. /\ Head(queue) \in Jobs /\ Tail(queue) \in Seq(Jobs) /\ Len(Tail(queue)) < Len(queue)
        /\ Members(queue) = Members(Tail(queue)) \cup {Head(queue)}
    BY <2>1, TailMembers
  <2>3. Len(queue') <= QueueCapacity
    BY <2>1, <2>2
  <2> QED
    BY <1>17, <2>1, <2>2, <2>3 DEF PopTask, workOnly
<1>18. ASSUME NEW w \in Workers, PopNothing(w) PROVE Types'
  BY <1>18 DEF PopNothing, workOnly, NextRound
<1>19. ASSUME NEW w \in Workers, TaskEnds(w) PROVE Types'
  BY <1>19 DEF TaskEnds, workOnly, NextRound
<1>20. ASSUME StartLoop PROVE Types'
  BY <1>20 DEF StartLoop, ownerOnly
<1>21. ASSUME NEW n \in Fds, InstallCleaner(n) PROVE Types'
  BY <1>21 DEF InstallCleaner, NewFd, ownerOnly
<1>22. ASSUME InstallFails PROVE Types'
  BY <1>22 DEF InstallFails, ownerOnly
<1>23. ASSUME Stop PROVE Types'
  BY <1>23 DEF Stop, ownerOnly
<1>24. ASSUME Destroy PROVE Types'
  BY <1>24 DEF Destroy, BeginDestroy, ownerOnly
<1>25. ASSUME JoinLoop PROVE Types'
  BY <1>25 DEF JoinLoop, ownerOnly
<1>26. ASSUME DestroyMembers PROVE Types'
  BY <1>26 DEF DestroyMembers, Release
<1>27. ASSUME JoinPool PROVE Types'
  BY <1>27, EmptyMembers DEF JoinPool
<1> QED
  BY <1>0, <1>1, <1>2, <1>3, <1>4, <1>5, <1>6, <1>7, <1>8, <1>9, <1>10, <1>11, <1>12, <1>13,
     <1>14, <1>15, <1>16, <1>17, <1>18, <1>19, <1>20, <1>21, <1>22, <1>23, <1>24, <1>25, <1>26,
     <1>27
  DEF Next, LoopStep, OwnerStep, WorkerStep, Call, CallStep

\* A job is dispatched by its push or by the loop that found its handle.
LEMMA DispatchedStep ==
  ASSUME Types, [Next]_vars, NEW j \in Once, Dispatched(j)'
  PROVE  Dispatched(j) \/ (call[j] = "pushing" /\ call'[j] = "returned")
           \/ (j \in OneShots /\ fd[j] # None /\ cur' # cur)
<1> USE SchedulerAssumption DEF Types, TypeOK, timerVars, loopVars, workVars, cancelVars,
        madeVars, Handles, Once, Jobs, Scheduled, Timed
<1> DEFINE Goal == \/ Dispatched(j) \/ (call[j] = "pushing" /\ call'[j] = "returned")
                   \/ (j \in OneShots /\ fd[j] # None /\ cur' # cur)
<1>1. ASSUME UNCHANGED <<queue, running, runs>>, cur' \in {cur, None} PROVE Goal
  BY <1>1 DEF Dispatched
<1>2. ASSUME NEW k \in Jobs, ExecutePush(k) PROVE Goal
  <2>1. queue' = Append(queue, k) /\ UNCHANGED <<running, runs, cur>>
    BY <1>2 DEF ExecutePush
  <2>2. Members(queue') = Members(queue) \cup {k}
    BY <2>1, AppendMembers
  <2> QED
    BY <1>2, <2>1, <2>2 DEF Dispatched, ExecutePush, CallGoto
<1>3. ASSUME NEW n \in Fds, Dispatch(n) PROVE Goal
  BY <1>3 DEF Dispatch, loopOnly, Dispatched
<1>4. ASSUME LoopEnqueue PROVE Goal
  <2>1. queue' = Append(queue, cur) /\ UNCHANGED <<running, runs>> /\ cur \in Scheduled /\ cur' \in {cur, None}
    BY <1>4 DEF LoopEnqueue, Queued
  <2>2. Members(queue') = Members(queue) \cup {cur}
    BY <2>1, AppendMembers
  <2> QED
    BY <2>1, <2>2 DEF Dispatched
<1>5. ASSUME NEW w \in Workers, PopTask(w) PROVE Goal
  <2>1. /\ queue # <<>> /\ queue' = Tail(queue) /\ running' = [running EXCEPT ![w] = Head(queue)]
        /\ UNCHANGED <<runs, cur>>
    BY <1>5 DEF PopTask, workOnly
  <2>2. Members(queue) = Members(queue') \cup {Head(queue)}
    BY <2>1, TailMembers
  <2> QED
    BY <2>1, <2>2 DEF Dispatched
<1>6. ASSUME NEW w \in Workers, TaskEnds(w) PROVE Goal
  <2>1. /\ UNCHANGED <<queue, cur>> /\ running' = [running EXCEPT ![w] = None]
        /\ runs' = IF running[w] \in Once THEN [runs EXCEPT ![running[w]] = @ + 1] ELSE runs
    BY <1>6 DEF TaskEnds, workOnly
  <2> QED
    BY <2>1 DEF Dispatched
<1>7. CASE JoinPool
  BY <1>7, EmptyMembers DEF JoinPool, Dispatched
<1>8. \/ UNCHANGED <<queue, running, runs>> /\ cur' \in {cur, None}
      \/ \E k \in Jobs : ExecutePush(k)
      \/ \E n \in Fds : Dispatch(n)
      \/ LoopEnqueue \/ JoinPool
      \/ \E w \in Workers : PopTask(w) \/ TaskEnds(w)
  BY DEF Next, LoopStep, OwnerStep, WorkerStep, Call, CallStep, vars, loopOnly, workOnly, ownerOnly,
         Execute, Register, RegisterFails, AddEntry, Cancel, EraseEntry, OnCancel, Expire,
         Expiration, CheckStop, EpollWait, BatchDone, ReadFd, MarkFired, Clean, Drop, PopNothing,
         StartLoop, InstallCleaner, InstallFails, Stop, Destroy, BeginDestroy, JoinLoop,
         DestroyMembers
<1> QED
  BY <1>1, <1>2, <1>3, <1>4, <1>5, <1>6, <1>7, <1>8

\* A timer leaves no trace before it is registered, and a copied callback keeps
\* its number.
LEMMA StagesStep == Types /\ Stages /\ Entered /\ [Next]_vars => Stages'
<1> SUFFICES ASSUME Types, Stages, Entered, [Next]_vars PROVE Stages'
  OBVIOUS
<1> USE SchedulerAssumption DEF Types, TypeOK, timerVars, loopVars, workVars, cancelVars,
        madeVars, Handles, Once, Jobs, Scheduled, Timed
<1>a. \A j \in Once : Dispatched(j)' =>
        \/ Dispatched(j) \/ (call[j] = "pushing" /\ call'[j] = "returned")
        \/ (j \in OneShots /\ fd[j] # None /\ cur' # cur)
  BY DispatchedStep
<1>0. CASE UNCHANGED vars
  BY <1>0 DEF vars, Stages, Dispatched
<1>1. ASSUME NEW j \in Jobs, Execute(j) PROVE Stages'
  BY <1>a, <1>1 DEF Execute, CallGoto, Stages
<1>2. ASSUME NEW j \in Jobs, ExecutePush(j) PROVE Stages'
  BY <1>a, <1>2 DEF ExecutePush, CallGoto, Stages
<1>3. ASSUME NEW j \in Jobs, NEW n \in Fds, NEW delay \in Delays, Register(j, n, delay) PROVE Stages'
  <2>1. j \in OneShots => cur # j
    BY <1>3 DEF Register, Stages, Dispatched
  <2> QED
    BY <1>a, <1>3, <2>1 DEF Register, NewFd, CallGoto, Stages
<1>4. ASSUME NEW j \in Jobs, RegisterFails(j) PROVE Stages'
  BY <1>a, <1>4 DEF RegisterFails, CallGoto, Stages
<1>5. ASSUME NEW j \in Jobs, AddEntry(j) PROVE Stages'
  BY <1>a, <1>5 DEF AddEntry, CallGoto, Stages
<1>6. ASSUME NEW j \in Jobs, Cancel(j) PROVE Stages'
  BY <1>a, <1>6 DEF Cancel, EraseEntry, Release, Stages
<1>7. ASSUME NEW j \in Jobs, OnCancel(j) PROVE Stages'
  BY <1>a, <1>7 DEF OnCancel, Stages
<1>8. ASSUME NEW j \in Timed, Expire(j) PROVE Stages'
  BY <1>a, <1>8 DEF Expire, Expiration, Stages
<1>9. ASSUME CheckStop PROVE Stages'
  BY <1>a, <1>9 DEF CheckStop, loopOnly, Stages
<1>10. ASSUME EpollWait PROVE Stages'
  BY <1>a, <1>10 DEF EpollWait, loopOnly, Stages
<1>11. ASSUME NEW n \in Fds, Dispatch(n) PROVE Stages'
  BY <1>a, <1>11 DEF Dispatch, loopOnly, Stages
<1>12. ASSUME ReadFd PROVE Stages'
  BY <1>a, <1>12 DEF ReadFd, loopOnly, Stages
<1>13. ASSUME BatchDone PROVE Stages'
  BY <1>a, <1>13 DEF BatchDone, loopOnly, Stages
<1>14. ASSUME LoopEnqueue PROVE Stages'
  BY <1>a, <1>14 DEF LoopEnqueue, Queued, Stages
<1>15. ASSUME MarkFired PROVE Stages'
  <2>1. Dispatched(cur) /\ cur \in OneShots
    BY <1>15 DEF MarkFired, Dispatched
  <2> QED
    BY <1>a, <1>15, <2>1 DEF MarkFired, loopOnly, Stages
<1>16. ASSUME Clean PROVE Stages'
  BY <1>a, <1>16 DEF Clean, Drop, Release, Stages
<1>17. ASSUME NEW w \in Workers, PopTask(w) PROVE Stages'
  BY <1>a, <1>17 DEF PopTask, workOnly, Stages
<1>18. ASSUME NEW w \in Workers, PopNothing(w) PROVE Stages'
  BY <1>a, <1>18 DEF PopNothing, workOnly, NextRound, Stages
<1>19. ASSUME NEW w \in Workers, TaskEnds(w) PROVE Stages'
  BY <1>a, <1>19 DEF TaskEnds, workOnly, NextRound, Stages
<1>20. ASSUME StartLoop PROVE Stages'
  BY <1>a, <1>20 DEF StartLoop, ownerOnly, Stages
<1>21. ASSUME NEW n \in Fds, InstallCleaner(n) PROVE Stages'
  BY <1>a, <1>21 DEF InstallCleaner, NewFd, ownerOnly, Stages
<1>22. ASSUME InstallFails PROVE Stages'
  BY <1>a, <1>22 DEF InstallFails, ownerOnly, Stages
<1>23. ASSUME Stop PROVE Stages'
  BY <1>a, <1>23 DEF Stop, ownerOnly, Stages
<1>24. ASSUME Destroy PROVE Stages'
  BY <1>a, <1>24 DEF Destroy, BeginDestroy, ownerOnly, Stages
<1>25. ASSUME JoinLoop PROVE Stages'
  BY <1>a, <1>25 DEF JoinLoop, ownerOnly, Stages
<1>26. ASSUME DestroyMembers PROVE Stages'
  BY <1>a, <1>26 DEF DestroyMembers, Release, Stages
<1>27. ASSUME JoinPool PROVE Stages'
  BY <1>a, <1>27 DEF JoinPool, Stages
<1> QED
  BY <1>0, <1>1, <1>2, <1>3, <1>4, <1>5, <1>6, <1>7, <1>8, <1>9, <1>10, <1>11, <1>12, <1>13,
     <1>14, <1>15, <1>16, <1>17, <1>18, <1>19, <1>20, <1>21, <1>22, <1>23, <1>24, <1>25, <1>26,
     <1>27
  DEF Next, LoopStep, OwnerStep, WorkerStep, Call, CallStep

\* What a step does to the count of a job in the pool.
LEMMA PoolStep ==
  ASSUME Types, [Next]_vars, NEW j \in Once
  PROVE  /\ Pool(j)' \in Nat
         /\ \/ Pool(j)' <= Pool(j) /\ UNCHANGED queue
            \/ Pool(j)' <= Pool(j) /\ ((\E w \in Workers : PopTask(w)) \/ JoinPool)
            \/ Pool(j)' = Pool(j) + (IF cur = j THEN 1 ELSE 0) /\ LoopEnqueue
            \/ \E k \in Jobs : Pool(j)' = Pool(j) + (IF k = j THEN 1 ELSE 0) /\ ExecutePush(k)
<1> DEFINE Goal ==
         /\ Pool(j)' \in Nat
         /\ \/ Pool(j)' <= Pool(j) /\ UNCHANGED queue
            \/ Pool(j)' <= Pool(j) /\ ((\E w \in Workers : PopTask(w)) \/ JoinPool)
            \/ Pool(j)' = Pool(j) + (IF cur = j THEN 1 ELSE 0) /\ LoopEnqueue
            \/ \E k \in Jobs : Pool(j)' = Pool(j) + (IF k = j THEN 1 ELSE 0) /\ ExecutePush(k)
           W == {v \in Workers : running[v] = j}
           V == {v \in Workers : running'[v] = j}
<1> USE SchedulerAssumption
<1>a. j \in Jobs /\ None \notin Jobs /\ queue \in Seq(Jobs) /\ runs \in [Once -> Nat] /\ runs[j] \in Nat
  BY DEF Types, Once, Jobs, Scheduled
<1>b. running \in [Workers -> Jobs \cup {None}]
  BY DEF Types, TypeOK
<1>c. InQueue(queue, j) \in Nat /\ InWork(j) \in Nat /\ IsFiniteSet(W)
  BY <1>a, QueueCount, WorkCount
<1>d. /\ Pool(j) = InQueue(queue, j) + InWork(j) + runs[j]
      /\ Pool(j)' = InQueue(queue', j) + InWork(j)' + runs'[j]
      /\ InWork(j) = Cardinality(W)
      /\ InWork(j)' = Cardinality(V)
  BY DEF Pool, InQueue, InWork
<1>2. ASSUME UNCHANGED <<queue, running, runs>> PROVE Goal
  <2>1. InWork(j)' = InWork(j)
    BY <1>2 DEF InWork
  <2> QED
    BY <1>2, <1>a, <1>c, <1>d, <2>1
<1>3. ASSUME NEW k \in Jobs, ExecutePush(k) PROVE Goal
  <2>1. queue' = Append(queue, k) /\ UNCHANGED <<running, runs>>
    BY <1>3 DEF ExecutePush, workVars
  <2>2. InQueue(queue', j) = InQueue(queue, j) + (IF k = j THEN 1 ELSE 0)
    BY <1>a, <2>1, AppendCount
  <2>3. InWork(j)' = InWork(j)
    BY <2>1 DEF InWork
  <2>4. Pool(j)' = Pool(j) + (IF k = j THEN 1 ELSE 0) /\ Pool(j)' \in Nat
    BY <1>a, <1>c, <1>d, <2>1, <2>2, <2>3
  <2> QED
    BY <1>3, <2>4
<1>4. ASSUME LoopEnqueue PROVE Goal
  <2>1. queue' = Append(queue, cur) /\ cur \in Jobs /\ UNCHANGED <<running, runs>>
    BY <1>4 DEF LoopEnqueue, workVars, Types, Jobs
  <2>2. InQueue(queue', j) = InQueue(queue, j) + (IF cur = j THEN 1 ELSE 0)
    BY <1>a, <2>1, AppendCount
  <2>3. InWork(j)' = InWork(j)
    BY <2>1 DEF InWork
  <2>4. Pool(j)' = Pool(j) + (IF cur = j THEN 1 ELSE 0) /\ Pool(j)' \in Nat
    BY <1>a, <1>c, <1>d, <2>1, <2>2, <2>3
  <2> QED
    BY <1>4, <2>4
<1>5. ASSUME NEW w \in Workers, PopTask(w) PROVE Goal
  <2>1. /\ queue # <<>> /\ queue' = Tail(queue) /\ running' = [running EXCEPT ![w] = Head(queue)]
        /\ runs' = runs /\ running[w] = None
    BY <1>5 DEF PopTask, Types
  <2>2. InQueue(queue, j) = InQueue(queue', j) + (IF Head(queue) = j THEN 1 ELSE 0)
    BY <1>a, <2>1, TailCount
  <2>3. V = IF Head(queue) = j THEN W \cup {w} ELSE W
    BY <1>a, <1>b, <2>1
  <2>4. w \notin W
    BY <1>a, <2>1
  <2>5. Cardinality(W \cup {w}) = Cardinality(W) + 1
    BY <1>c, <2>4, FS_AddElement
  <2> HIDE DEF V, W
  <2>6. InWork(j)' = InWork(j) + (IF Head(queue) = j THEN 1 ELSE 0)
    BY <1>c, <1>d, <2>3, <2>5
  <2>7. InQueue(queue', j) \in Nat
    BY <1>a, <2>1, TailMembers, QueueCount
  <2>8. Pool(j)' = Pool(j) /\ Pool(j)' \in Nat
    BY <1>a, <1>c, <1>d, <2>1, <2>2, <2>6, <2>7
  <2> QED
    BY <1>5, <2>8
<1>6. ASSUME NEW w \in Workers, TaskEnds(w) PROVE Goal
  <2>1. /\ UNCHANGED queue /\ running' = [running EXCEPT ![w] = None]
        /\ runs' = IF running[w] \in Once THEN [runs EXCEPT ![running[w]] = @ + 1] ELSE runs
    BY <1>6 DEF TaskEnds
  <2>2. V = W \ {w} /\ (w \in W <=> running[w] = j)
    BY <1>a, <1>b, <2>1
  <2>3. Cardinality(W \ {w}) = IF w \in W THEN Cardinality(W) - 1 ELSE Cardinality(W)
    BY <1>c, FS_RemoveElement
  <2> HIDE DEF V, W
  <2>4. InWork(j)' = InWork(j) - (IF running[w] = j THEN 1 ELSE 0)
    BY <1>c, <1>d, <2>2, <2>3
  <2>5. runs'[j] = runs[j] + (IF running[w] = j THEN 1 ELSE 0)
    BY <1>a, <2>1
  <2>6. Pool(j)' = Pool(j) /\ Pool(j)' \in Nat
    BY <1>a, <1>c, <1>d, <2>1, <2>4, <2>5
  <2> QED
    BY <2>1, <2>6
<1>7. ASSUME JoinPool PROVE Goal
  <2>1. queue' = <<>> /\ UNCHANGED <<running, runs>>
    BY <1>7 DEF JoinPool, workVars
  <2>2. InQueue(queue', j) = 0
    BY <1>a, <2>1, EmptyMembers
  <2>3. InWork(j)' = InWork(j)
    BY <2>1 DEF InWork
  <2>4. Pool(j)' <= Pool(j) /\ Pool(j)' \in Nat
    BY <1>a, <1>c, <1>d, <2>1, <2>2, <2>3
  <2> QED
    BY <1>7, <2>4
<1>8. \/ UNCHANGED <<queue, running, runs>>
      \/ \E k \in Jobs : ExecutePush(k)
      \/ LoopEnqueue \/ JoinPool
      \/ \E w \in Workers : PopTask(w) \/ TaskEnds(w)
  BY DEF Next, LoopStep, OwnerStep, WorkerStep, Call, CallStep, vars, loopOnly, workOnly, ownerOnly,
         workVars, Execute, Register, RegisterFails, AddEntry, Cancel, EraseEntry, OnCancel, Expire,
         Expiration, CheckStop, EpollWait, Dispatch, BatchDone, ReadFd, MarkFired, Clean, Drop,
         PopNothing, StartLoop, InstallCleaner, InstallFails, Stop, Destroy, BeginDestroy, JoinLoop,
         DestroyMembers
<1> QED
  BY <1>2, <1>3, <1>4, <1>5, <1>6, <1>7, <1>8

\* The steps of a call are all that moves it.
LEMMA CallChanges ==
  ASSUME [Next]_vars
  PROVE  \/ UNCHANGED call
         \/ \E k \in Jobs : \/ Execute(k) \/ ExecutePush(k) \/ RegisterFails(k) \/ AddEntry(k)
                            \/ \E n \in Fds, delay \in Delays : Register(k, n, delay)
BY DEF Next, LoopStep, OwnerStep, WorkerStep, Call, CallStep, vars, loopOnly, workOnly, ownerOnly,
   Cancel, EraseEntry, OnCancel, Expire, Expiration, CheckStop, EpollWait, Dispatch, BatchDone,
   ReadFd, LoopEnqueue, MarkFired, Clean, Drop, PopTask, PopNothing, TaskEnds, StartLoop,
   InstallCleaner, InstallFails, Stop, Destroy, BeginDestroy, JoinLoop, DestroyMembers, JoinPool

\* No step but its registration gives a timer more runs to come; enqueueing takes
\* away the one it adds to the pool.
LEMMA ToComeStep ==
  ASSUME Types, Stages, [Next]_vars, NEW j \in OneShots,
         ~(call[j] = "new" /\ call'[j] = "registered")
  PROVE  /\ ToCome(j)' <= ToCome(j)
         /\ LoopEnqueue /\ cur = j => ToCome(j)' = ToCome(j) - 1
         /\ MayRun(j)' = MayRun(j)
<1> DEFINE Goal == /\ ToCome(j)' <= ToCome(j)
                   /\ LoopEnqueue /\ cur = j => ToCome(j)' = ToCome(j) - 1
                   /\ MayRun(j)' = MayRun(j)
<1> USE SchedulerAssumption DEF Types, TypeOK, timerVars, loopVars, workVars, cancelVars,
        madeVars, Handles, Once, Jobs, Scheduled, Timed, ToCome, MayRun, LoopEnqueue
<1>1. ASSUME UNCHANGED <<armed, due, fd, batch, lpc, cur, zero, held>> PROVE Goal
  BY <1>1 DEF Queued
<1>2. ASSUME NEW k \in Jobs, Execute(k) \/ ExecutePush(k) \/ RegisterFails(k) \/ AddEntry(k)
                              \/ OnCancel(k)
      PROVE  Goal
  BY <1>1, <1>2 DEF Execute, ExecutePush, RegisterFails, AddEntry, OnCancel, CallGoto
<1>3. ASSUME NEW k \in Jobs, NEW n \in Fds, NEW delay \in Delays, Register(k, n, delay) PROVE Goal
  <2>1. k # j
    BY <1>3 DEF Register, CallGoto
  <2>2. fd'[j] = fd[j] /\ (j \in armed' <=> j \in armed) /\ (j \in zero' <=> j \in zero)
        /\ held'[j] = held[j]
    BY <1>3, <2>1 DEF Register, NewFd
  <2> QED
    BY <1>3, <2>1, <2>2 DEF Register, CallGoto, Queued
<1>4. ASSUME NEW k \in Jobs, Cancel(k) PROVE Goal
  BY <1>4 DEF Cancel, EraseEntry, Release, Queued
<1>5. ASSUME NEW k \in Timed, Expire(k) PROVE Goal
  BY <1>5 DEF Expire, Expiration, Queued
<1>6. ASSUME CheckStop \/ BatchDone \/ MarkFired PROVE Goal
  BY <1>6 DEF CheckStop, BatchDone, MarkFired, loopOnly
<1>7. ASSUME EpollWait PROVE Goal
  <2>1. fd[j] \in batch' => j \in due
    BY <1>7 DEF EpollWait
  <2> QED
    BY <1>7, <2>1 DEF EpollWait, loopOnly
<1>8. ASSUME NEW n \in Fds, Dispatch(n) PROVE Goal
  BY <1>8 DEF Dispatch, loopOnly
<1>9. ASSUME ReadFd PROVE Goal
  BY <1>9 DEF ReadFd, loopOnly, Stages
<1>10. ASSUME LoopEnqueue PROVE Goal
  BY <1>10 DEF Queued
<1>11. ASSUME Clean PROVE Goal
  BY <1>11 DEF Clean, Drop, Release
<1>12. ASSUME NEW w \in Workers, WorkerStep(w) PROVE Goal
  BY <1>1, <1>12 DEF WorkerStep, PopTask, PopNothing, TaskEnds, workOnly
<1>13. ASSUME NEW n \in Fds, InstallCleaner(n) PROVE Goal
  <2>1. fd'[j] = fd[j] /\ (j \in armed' <=> j \in armed)
    BY <1>13 DEF InstallCleaner, NewFd
  <2> QED
    BY <1>13, <2>1 DEF InstallCleaner, ownerOnly, Queued
<1>14. ASSUME StartLoop PROVE Goal
  BY <1>14 DEF StartLoop, ownerOnly
<1>15. ASSUME InstallFails \/ Stop \/ Destroy \/ JoinLoop \/ JoinPool PROVE Goal
  BY <1>1, <1>15 DEF InstallFails, Stop, Destroy, BeginDestroy, JoinLoop, JoinPool, ownerOnly
<1>16. ASSUME DestroyMembers PROVE Goal
  BY <1>16 DEF DestroyMembers, Release, Queued
<1>17. CASE UNCHANGED vars
  BY <1>1, <1>17 DEF vars
<1> QED
  BY <1>2, <1>3, <1>4, <1>5, <1>6, <1>7, <1>8, <1>9, <1>10, <1>11, <1>12, <1>13, <1>14, <1>15,
     <1>16, <1>17
  DEF Next, LoopStep, OwnerStep, Call, CallStep

\* The runs of a job, had and to come, stay within what MayRun allows.
LEMMA CountedStep == Types /\ Stages /\ Counted /\ [Next]_vars => Counted'
<1> SUFFICES ASSUME Types, Stages, Counted, [Next]_vars PROVE Counted'
  OBVIOUS
<1>1. ASSUME NEW j \in Immediate
      PROVE  Pool(j)' + (IF call'[j] \in {"new", "pushing"} THEN 1 ELSE 0) <= 1
  <2>1. j \in Once /\ j \in Jobs /\ cur # j
    BY SchedulerAssumption DEF Types, TypeOK, Once, Jobs, Scheduled, Timed
  <2>2. Pool(j) \in Nat /\ Pool(j)' \in Nat
    BY <2>1, PoolCount, PoolStep
  <2>3. Pool(j) + (IF call[j] \in {"new", "pushing"} THEN 1 ELSE 0) <= 1
    BY DEF Counted
  <2>4. call'[j] \in {"new", "pushing"} => call[j] \in {"new", "pushing"}
    <3>1. ASSUME NEW k \in Jobs, Execute(k) \/ ExecutePush(k) \/ RegisterFails(k) \/ AddEntry(k)
                                 \/ \E n \in Fds, delay \in Delays : Register(k, n, delay)
          PROVE  call'[j] \in {"new", "pushing"} => call[j] \in {"new", "pushing"}
      BY <2>1, <3>1 DEF Execute, ExecutePush, Register, RegisterFails, AddEntry, CallGoto, Types,
         TypeOK
    <3> QED
      BY <3>1, CallChanges
  <2>5. ASSUME NEW k \in Jobs, ExecutePush(k), Pool(j)' = Pool(j) + (IF k = j THEN 1 ELSE 0)
        PROVE  Pool(j)' + (IF call'[j] \in {"new", "pushing"} THEN 1 ELSE 0) <= 1
    BY <2>1, <2>2, <2>3, <2>4, <2>5 DEF ExecutePush, CallGoto, Types, TypeOK
  <2> QED
    BY <2>1, <2>2, <2>3, <2>4, <2>5, PoolStep
<1>2. ASSUME NEW j \in OneShots PROVE Pool(j)' + ToCome(j)' <= MayRun(j)'
  <2>1. j \in Once /\ j \in Jobs
    BY DEF Once, Jobs, Scheduled
  <2>2. Pool(j) \in Nat /\ Pool(j)' \in Nat /\ (~Dispatched(j) => Pool(j) = 0)
    BY <2>1, PoolCount, PoolStep
  <2>3. ToCome(j) \in Nat /\ ToCome(j)' \in Nat /\ MayRun(j) \in Nat /\ MayRun(j)' \in Nat
    BY DEF ToCome, MayRun
  <2>4. Pool(j) + ToCome(j) <= MayRun(j)
    BY DEF Counted
  <2>5. CASE ~(call[j] = "new" /\ call'[j] = "registered")
    <3>1. /\ ToCome(j)' <= ToCome(j) /\ MayRun(j)' = MayRun(j)
          /\ LoopEnqueue /\ cur = j => ToCome(j)' = ToCome(j) - 1
      BY <2>5, ToComeStep
    <3>2. ASSUME NEW k \in Jobs, ExecutePush(k) PROVE k # j
      BY <3>2, SchedulerAssumption DEF ExecutePush, Types, Scheduled
    <3> HIDE DEF Pool, ToCome, MayRun
    <3> QED
      BY <2>1, <2>2, <2>3, <2>4, <3>1, <3>2, PoolStep
  <2>6. CASE call[j] = "new" /\ call'[j] = "registered"
    <3>a. ASSUME NEW k \in Jobs, Execute(k) \/ ExecutePush(k) \/ RegisterFails(k) \/ AddEntry(k)
          PROVE  FALSE
      BY <2>1, <2>6, <3>a DEF Execute, ExecutePush, RegisterFails, AddEntry, CallGoto, Types, TypeOK
    <3>1. PICK k \in Jobs, n \in Fds, delay \in Delays : Register(k, n, delay)
      BY <2>6, <3>a, CallChanges
    <3>2. k = j
      BY <2>1, <2>6, <3>1 DEF Register, CallGoto, Types, TypeOK
    <3>3. /\ Pool(j) = 0 /\ fd[j] = None /\ cur # j /\ j \notin zero
          /\ j \notin armed \cup due
      BY <2>2, <2>6, SchedulerAssumption
         DEF Stages, Dispatched, Types, TypeOK, Handles, Timed, Scheduled
    <3>4. UNCHANGED <<queue, running, runs>>
      BY <3>1 DEF Register, workVars
    <3>5. Pool(j)' = 0
      BY <3>3, <3>4 DEF Pool, InQueue, InWork
    <3>6. /\ fd'[j] = n /\ held'[j] = HeldAs(n) /\ j \notin Immediate /\ UNCHANGED loopVars
          /\ due' = due /\ (j \in armed' <=> delay # 0) /\ (j \in zero' <=> delay = 0)
      BY <3>1, <3>2, <3>3, SchedulerAssumption DEF Register, NewFd, Types, TypeOK, Timed, Scheduled
    <3>7. ToCome(j)' <= MayRun(j)'
      BY <3>3, <3>6 DEF ToCome, MayRun, HeldAs, loopVars
    <3> QED
      BY <2>3, <3>5, <3>7
  <2> QED
    BY <2>5, <2>6
<1> QED
  BY <1>1, <1>2 DEF Counted

\* While the scheduler lives, entries, handles and calls under way agree.
LEMMA EntriesStep ==
  Types /\ Stages /\ Entered /\ Covered /\ PendingCancellable /\ [Next]_vars
    => Entered' /\ Covered' /\ PendingCancellable'
<1> DEFINE Goal == Entered' /\ Covered' /\ PendingCancellable'
<1> SUFFICES ASSUME Types, Stages, Entered, Covered, PendingCancellable, [Next]_vars PROVE Goal
  OBVIOUS
<1> USE SchedulerAssumption DEF Types, TypeOK, timerVars, loopVars, workVars, cancelVars,
        madeVars, Handles, Once, Jobs, Scheduled, Timed,
        Alive, Entered, Covered, PendingCancellable
<1>0. CASE UNCHANGED vars
  BY <1>0 DEF vars
<1>1. ASSUME NEW j \in Jobs, Execute(j) PROVE Goal
  BY <1>1 DEF Execute, CallGoto
<1>2. ASSUME NEW j \in Jobs, ExecutePush(j) PROVE Goal
  BY <1>2 DEF ExecutePush, CallGoto
<1>3. ASSUME NEW j \in Jobs, NEW n \in Fds, NEW delay \in Delays, Register(j, n, delay) PROVE Goal
  BY <1>3 DEF Register, NewFd, HeldAs, CallGoto
<1>4. ASSUME NEW j \in Jobs, RegisterFails(j) PROVE Goal
  BY <1>4 DEF RegisterFails, CallGoto
<1>5. ASSUME NEW j \in Jobs, AddEntry(j) PROVE Goal
  BY <1>5 DEF AddEntry, CallGoto
<1>6. ASSUME NEW j \in Jobs, Cancel(j) PROVE Goal
  BY <1>6 DEF Cancel, EraseEntry, Release, Stages
<1>7. ASSUME NEW j \in Jobs, OnCancel(j) PROVE Goal
  BY <1>7 DEF OnCancel
<1>8. ASSUME NEW j \in Timed, Expire(j) PROVE Goal
  BY <1>8 DEF Expire, Expiration
<1>9. ASSUME CheckStop PROVE Goal
  BY <1>9 DEF CheckStop, loopOnly
<1>10. ASSUME EpollWait PROVE Goal
  BY <1>10 DEF EpollWait, loopOnly
<1>11. ASSUME NEW n \in Fds, Dispatch(n) PROVE Goal
  BY <1>11 DEF Dispatch, loopOnly
<1>12. ASSUME ReadFd PROVE Goal
  BY <1>12 DEF ReadFd, loopOnly
<1>13. ASSUME BatchDone PROVE Goal
  BY <1>13 DEF BatchDone, loopOnly
<1>14. ASSUME LoopEnqueue PROVE Goal
  BY <1>14 DEF LoopEnqueue, Queued
<1>15. ASSUME MarkFired PROVE Goal
  BY <1>15 DEF MarkFired, loopOnly
<1>16. ASSUME Clean PROVE Goal
  BY <1>16 DEF Clean, Drop, Release, Stages
<1>17. ASSUME NEW w \in Workers, PopTask(w) PROVE Goal
  BY <1>17 DEF PopTask, workOnly
<1>18. ASSUME NEW w \in Workers, PopNothing(w) PROVE Goal
  BY <1>18 DEF PopNothing, workOnly, NextRound
<1>19. ASSUME NEW w \in Workers, TaskEnds(w) PROVE Goal
  BY <1>19 DEF TaskEnds, workOnly, NextRound
<1>20. ASSUME StartLoop PROVE Goal
  BY <1>20 DEF StartLoop, ownerOnly
<1>21. ASSUME NEW n \in Fds, InstallCleaner(n) PROVE Goal
  BY <1>21 DEF InstallCleaner, NewFd, ownerOnly
<1>22. ASSUME InstallFails PROVE Goal
  BY <1>22 DEF InstallFails, ownerOnly
<1>23. ASSUME Stop PROVE Goal
  BY <1>23 DEF Stop, ownerOnly
<1>24. ASSUME Destroy PROVE Goal
  BY <1>24 DEF Destroy, BeginDestroy, ownerOnly
<1>25. ASSUME JoinLoop PROVE Goal
  BY <1>25 DEF JoinLoop, ownerOnly
<1>26. ASSUME DestroyMembers PROVE Goal
  BY <1>26 DEF DestroyMembers, Release
<1>27. ASSUME JoinPool PROVE Goal
  BY <1>27 DEF JoinPool
<1> QED
  BY <1>0, <1>1, <1>2, <1>3, <1>4, <1>5, <1>6, <1>7, <1>8, <1>9, <1>10, <1>11, <1>12, <1>13,
     <1>14, <1>15, <1>16, <1>17, <1>18, <1>19, <1>20, <1>21, <1>22, <1>23, <1>24, <1>25, <1>26,
     <1>27
  DEF Next, LoopStep, OwnerStep, WorkerStep, Call, CallStep

\* A closed future stays without a handle.
LEMMA DeadStep == Types /\ Stages /\ Entered /\ Covered /\ Dead /\ [Next]_vars => Dead'
<1> SUFFICES ASSUME Types, Stages, Entered, Covered, Dead, [Next]_vars PROVE Dead'
  OBVIOUS
<1> USE SchedulerAssumption DEF Types, TypeOK, timerVars, loopVars, workVars, cancelVars,
        madeVars, Handles, Once, Jobs, Scheduled, Timed
<1>a. \A j \in Once : Dispatched(j)' =>
        \/ Dispatched(j) \/ (call[j] = "pushing" /\ call'[j] = "returned")
        \/ (j \in OneShots /\ fd[j] # None /\ cur' # cur)
  BY DispatchedStep
<1>0. CASE UNCHANGED vars
  BY <1>0 DEF vars, Dead, Dispatched
<1>1. ASSUME NEW j \in Jobs, Execute(j) PROVE Dead'
  BY <1>a, <1>1 DEF Execute, CallGoto, Dead
<1>2. ASSUME NEW j \in Jobs, ExecutePush(j) PROVE Dead'
  BY <1>a, <1>2 DEF ExecutePush, CallGoto, Dead
<1>3. ASSUME NEW j \in Jobs, NEW n \in Fds, NEW delay \in Delays, Register(j, n, delay) PROVE Dead'
  BY <1>a, <1>3 DEF Register, NewFd, HeldAs, CallGoto, Dead
<1>4. ASSUME NEW j \in Jobs, RegisterFails(j) PROVE Dead'
  BY <1>a, <1>4 DEF RegisterFails, CallGoto, Dead, Stages
<1>5. ASSUME NEW j \in Jobs, AddEntry(j) PROVE Dead'
  BY <1>a, <1>5 DEF AddEntry, CallGoto, Dead
<1>6. ASSUME NEW j \in Jobs, Cancel(j) PROVE Dead'
  BY <1>a, <1>6 DEF Cancel, EraseEntry, Release, Dead
<1>7. ASSUME NEW j \in Jobs, OnCancel(j) PROVE Dead'
  BY <1>a, <1>7 DEF OnCancel, Dead
<1>8. ASSUME NEW j \in Timed, Expire(j) PROVE Dead'
  BY <1>a, <1>8 DEF Expire, Expiration, Dead
<1>9. ASSUME CheckStop PROVE Dead'
  BY <1>a, <1>9 DEF CheckStop, loopOnly, Dead
<1>10. ASSUME EpollWait PROVE Dead'
  BY <1>a, <1>10 DEF EpollWait, loopOnly, Dead
<1>11. ASSUME NEW n \in Fds, Dispatch(n) PROVE Dead'
  BY <1>a, <1>11 DEF Dispatch, loopOnly, Dead
<1>12. ASSUME ReadFd PROVE Dead'
  BY <1>a, <1>12 DEF ReadFd, loopOnly, Dead
<1>13. ASSUME BatchDone PROVE Dead'
  BY <1>a, <1>13 DEF BatchDone, loopOnly, Dead
<1>14. ASSUME LoopEnqueue PROVE Dead'
  BY <1>a, <1>14 DEF LoopEnqueue, Queued, Dead
<1>15. ASSUME MarkFired PROVE Dead'
  BY <1>a, <1>15 DEF MarkFired, loopOnly, Dead
<1>16. ASSUME Clean PROVE Dead'
  BY <1>a, <1>16 DEF Clean, Drop, Release, Dead
<1>17. ASSUME NEW w \in Workers, PopTask(w) PROVE Dead'
  BY <1>a, <1>17 DEF PopTask, workOnly, Dead
<1>18. ASSUME NEW w \in Workers, PopNothing(w) PROVE Dead'
  BY <1>a, <1>18 DEF PopNothing, workOnly, NextRound, Dead
<1>19. ASSUME NEW w \in Workers, TaskEnds(w) PROVE Dead'
  BY <1>a, <1>19 DEF TaskEnds, workOnly, NextRound, Dead
<1>20. ASSUME StartLoop PROVE Dead'
  BY <1>a, <1>20 DEF StartLoop, ownerOnly, Dead
<1>21. ASSUME NEW n \in Fds, InstallCleaner(n) PROVE Dead'
  BY <1>a, <1>21 DEF InstallCleaner, NewFd, ownerOnly, Dead
<1>22. ASSUME InstallFails PROVE Dead'
  BY <1>a, <1>22 DEF InstallFails, ownerOnly, Dead
<1>23. ASSUME Stop PROVE Dead'
  BY <1>a, <1>23 DEF Stop, ownerOnly, Dead
<1>24. ASSUME Destroy PROVE Dead'
  BY <1>a, <1>24 DEF Destroy, BeginDestroy, ownerOnly, Dead
<1>25. ASSUME JoinLoop PROVE Dead'
  BY <1>a, <1>25 DEF JoinLoop, ownerOnly, Dead
<1>26. ASSUME DestroyMembers PROVE Dead'
  BY <1>a, <1>26 DEF DestroyMembers, Release, Dead
<1>27. ASSUME JoinPool PROVE Dead'
  BY <1>a, <1>27 DEF JoinPool, Dead
<1> QED
  BY <1>0, <1>1, <1>2, <1>3, <1>4, <1>5, <1>6, <1>7, <1>8, <1>9, <1>10, <1>11, <1>12, <1>13,
     <1>14, <1>15, <1>16, <1>17, <1>18, <1>19, <1>20, <1>21, <1>22, <1>23, <1>24, <1>25, <1>26,
     <1>27
  DEF Next, LoopStep, OwnerStep, WorkerStep, Call, CallStep

-----------------------------------------------------------------------------
\* A new scheduler satisfies the inductive invariant.
LEMMA InitIInv == Init => IInv
<1> SUFFICES ASSUME Init PROVE IInv
  OBVIOUS
<1> USE SchedulerAssumption, EmptyMembers DEF Init, Once, Jobs, Scheduled, Timed
<1>1. \A j \in Once : ~Dispatched(j)
  BY DEF Dispatched
<1>2. Types
  <2>1. stop \in BOOLEAN
    OBVIOUS
  <2>2. fd \in [Timed -> Fds \cup {None}] /\ Handles = {}
    BY DEF Handles
  <2> QED
    BY <2>1, <2>2 DEF Types, TypeOK
<1>3. Counted
  <2>1. \A j \in Once : Pool(j) = 0
    BY <1>1, <1>2, PoolCount
  <2> QED
    BY <2>1 DEF Counted, ToCome, MayRun
<1>4. Stages /\ Entered /\ Covered /\ Dead
  BY <1>1 DEF Stages, Entered, Covered, Dead
<1>5. PendingCancellable
  BY DEF PendingCancellable, Handles
<1> QED
  BY <1>2, <1>3, <1>4, <1>5 DEF IInv

\* The inductive invariant holds in every reachable state.
LEMMA IInvAlways == Spec => []IInv
<1>1. IInv /\ [Next]_vars => IInv'
  BY TypesStep, StagesStep, CountedStep, EntriesStep, DeadStep DEF IInv
<1> QED
  BY <1>1, InitIInv, PTL DEF Spec

\* No job of execute() or schedule() runs twice, whatever the interleaving of the
\* loop, the workers, cancel() and the cleaner, except a timer that was given a
\* number of the batch the loop was working on, which may run early and once more,
\* but not a third time.
THEOREM JobsRunOnce == Spec => []RunsOnce
<1>1. ASSUME IInv PROVE RunsOnce
  <2>1. ASSUME NEW j \in Once
        PROVE  Cardinality({i \in 1..Len(queue) : queue[i] = j})
                 + Cardinality({w \in Workers : running[w] = j})
                 + (IF lpc \in {"call", "enqueue"} /\ cur = j THEN 1 ELSE 0) + runs[j] <= MayRun(j)
    <3>1. j \in Jobs /\ queue \in Seq(Jobs) /\ runs[j] \in Nat
      BY <1>1 DEF IInv, Types, Once, Jobs, Scheduled
    <3>2. InQueue(queue, j) \in Nat /\ InWork(j) \in Nat
      BY <1>1, <3>1, QueueCount, WorkCount DEF IInv
    <3>3. CASE j \in Immediate
      <4>1. cur # j /\ MayRun(j) = 1
        BY <1>1, <3>3, SchedulerAssumption DEF IInv, Types, TypeOK, MayRun, Jobs, Scheduled, Timed
      <4>2. Pool(j) <= 1
        BY <1>1, <3>1, <3>2, <3>3 DEF IInv, Counted, Pool
      <4> QED
        BY <3>1, <3>2, <4>1, <4>2 DEF Pool, InQueue, InWork
    <3>4. CASE j \in OneShots
      <4>1. Pool(j) + ToCome(j) <= MayRun(j)
        BY <1>1, <3>4 DEF IInv, Counted
      <4>2. (IF lpc \in {"call", "enqueue"} /\ cur = j THEN 1 ELSE 0) <= ToCome(j)
            /\ ToCome(j) \in Nat /\ MayRun(j) \in Nat
        BY DEF ToCome, MayRun
      <4> QED
        BY <3>1, <3>2, <4>1, <4>2 DEF Pool, InQueue, InWork
    <3> QED
      BY <3>3, <3>4 DEF Once
  <2> QED
    BY <1>1, <2>1 DEF RunsOnce, IInv, Types
<1> QED
  BY <1>1, IInvAlways, PTL

\* While the scheduler lives, a timer that has not fired has its entry.
THEOREM PendingStaysCancellable == Spec => []PendingCancellable
<1>1. IInv => PendingCancellable
  BY DEF IInv
<1> QED
  BY <1>1, IInvAlways, PTL

\* A future is closed under a job that runs only by a late cancel().
THEOREM ClosedOnlyLate == Spec => []ClosedNotRun
<1>1. IInv => ClosedNotRun
  BY DEF IInv, Dead, ClosedNotRun
<1> QED
  BY <1>1, IInvAlways, PTL

\* After cancel() the loop calls nothing of the job that it had not begun to call,
\* whoever is given its number.
THEOREM CancelIsFinal == Spec => CancelStopsDispatch
<1> DEFINE A == \A j \in Scheduled :
       j \notin entries /\ call[j] # "registered" /\ cur # j =>
         cur' # j /\ \A i \in (Len(queue) + 1)..Len(queue') : queue'[i] # j
<1>1. ASSUME Types, Covered, [Next]_vars PROVE A \/ UNCHANGED vars
  <2> SUFFICES ASSUME NEW j \in Scheduled, fd[j] = None, cur # j, ~UNCHANGED vars
               PROVE  cur' # j /\ \A i \in (Len(queue) + 1)..Len(queue') : queue'[i] # j
    BY <1>1 DEF Covered
  <2> USE <1>1, SchedulerAssumption DEF Types, TypeOK, timerVars, loopVars, workVars, cancelVars,
          madeVars, Once, Jobs, Scheduled, Timed
  <2>1. ASSUME UNCHANGED queue PROVE \A i \in (Len(queue) + 1)..Len(queue') : queue'[i] # j
    BY <2>1
  <2>2. ASSUME NEW k \in Jobs, k # j, queue' = Append(queue, k)
        PROVE  \A i \in (Len(queue) + 1)..Len(queue') : queue'[i] # j
    BY <2>2, AppendMembers
  <2>3. ASSUME NEW k \in Jobs, ExecutePush(k) PROVE queue' = Append(queue, k) /\ k # j /\ cur' = cur
    BY <2>3 DEF ExecutePush
  <2>4. ASSUME NEW n \in Fds, Dispatch(n) PROVE cur' # j /\ UNCHANGED queue
    BY <2>4 DEF Dispatch, loopOnly
  <2>5. ASSUME LoopEnqueue PROVE cur \in Jobs /\ queue' = Append(queue, cur) /\ cur' \in {cur, None}
    BY <2>5 DEF LoopEnqueue, Queued
  <2>6. ASSUME NEW w \in Workers, PopTask(w)
        PROVE  cur' = cur /\ \A i \in (Len(queue) + 1)..Len(queue') : queue'[i] # j
    <3>1. queue # <<>> /\ queue' = Tail(queue) /\ cur' = cur
      BY <2>6 DEF PopTask, workOnly
    <3>2. Len(queue') < Len(queue) /\ queue' \in Seq(Jobs)
      BY <3>1, TailMembers
    <3> QED
      BY <3>1, <3>2
  <2>7. ASSUME JoinPool PROVE cur' = cur /\ queue' = <<>>
    BY <2>7 DEF JoinPool
  <2>8. \/ UNCHANGED queue /\ cur' \in {cur, None}
        \/ \E k \in Jobs : ExecutePush(k)
        \/ \E n \in Fds : Dispatch(n)
        \/ LoopEnqueue \/ JoinPool
        \/ \E w \in Workers : PopTask(w)
    BY DEF Next, LoopStep, OwnerStep, WorkerStep, Call, CallStep, vars, loopOnly, workOnly, ownerOnly,
           Execute, Register, RegisterFails, AddEntry, Cancel, EraseEntry, OnCancel, Expire,
           Expiration, CheckStop, EpollWait, BatchDone, ReadFd, MarkFired, Clean, Drop, PopNothing,
           TaskEnds, StartLoop, InstallCleaner, InstallFails, Stop, Destroy, BeginDestroy, JoinLoop,
           DestroyMembers
  <2> QED
    BY <2>1, <2>2, <2>3, <2>4, <2>5, <2>6, <2>7, <2>8
<1>2. IInv /\ [Next]_vars => [A]_vars
  BY <1>1 DEF IInv
<1> QED
  BY <1>2, IInvAlways, PTL DEF Spec, CancelStopsDispatch
=============================================================================
