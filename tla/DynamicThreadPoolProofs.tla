--------------------- MODULE DynamicThreadPoolProofs ---------------------
(***************************************************************************)
(* Proofs about DynamicThreadPool for any limits, any number of clients and *)
(* any tasks, tasks that call enqueue() included.                           *)
(***************************************************************************)
EXTENDS DynamicThreadPool, FiniteSetTheorems, SequenceTheorems, TLAPS

\* Every step keeps the types.
LEMMA TypeStep == TypeOK /\ [Next]_vars => TypeOK'
<1> SUFFICES ASSUME TypeOK, [Next]_vars PROVE TypeOK'
  OBVIOUS
<1> USE IdsAssumption DEF TypeOK, WorkerPCs, ClientPCs, Phases
<1>0. CASE UNCHANGED vars
  BY <1>0 DEF vars
<1>1. CASE Construct
  BY <1>1 DEF Construct, CreateThread
<1>2. CASE Constructed
  BY <1>2 DEF Constructed
<1>3. ASSUME NEW c \in Clients, NEW t \in Tasks, BeginEnqueue(c, t) PROVE TypeOK'
  BY <1>3 DEF BeginEnqueue
<1>4. ASSUME NEW w \in Workers, NEW t \in Tasks, NestedEnqueue(w, t) PROVE TypeOK'
  BY <1>4 DEF NestedEnqueue
<1>5. ASSUME NEW x \in Workers \cup Clients, EnqueueStep(x) PROVE TypeOK'
  <2>1. CASE AdjustGrow(x)
    BY <2>1 DEF AdjustGrow, CreateThread
  <2>2. CASE AdjustKeep(x)
    BY <2>2 DEF AdjustKeep
  <2>3. CASE Push(x)
    <3>1. held[x] \in Tasks
      BY <2>3 DEF Push
    <3>2. queue' \in Seq(Tasks)
      BY <2>3, <3>1, AppendProperties DEF Push
    <3> QED
      BY <2>3, <3>1, <3>2 DEF Push, AfterEnqueue
  <2>4. CASE PushRejected(x)
    BY <2>4 DEF PushRejected, AfterEnqueue
  <2> QED
    BY <1>5, <2>1, <2>2, <2>3, <2>4 DEF EnqueueStep
<1>6. ASSUME NEW w \in Workers, WorkerStep(w) PROVE TypeOK'
  <2>1. CASE CheckStop(w)
    BY <2>1 DEF CheckStop
  <2>2. CASE PopTask(w)
    <3>1. Head(queue) \in Tasks /\ queue' \in Seq(Tasks)
      BY <2>2, HeadTailProperties DEF PopTask
    <3> QED
      BY <2>2, <3>1 DEF PopTask
  <2>3. CASE PopTimeout(w)
    BY <2>3 DEF PopTimeout
  <2>4. CASE TaskEnds(w)
    BY <2>4 DEF TaskEnds
  <2>5. CASE TryLockFails(w)
    BY <2>5 DEF TryLockFails
  <2>6. CASE StayAlive(w)
    BY <2>6 DEF StayAlive
  <2>7. CASE BeginRetire(w)
    BY <2>7 DEF BeginRetire
  <2>8. CASE Retire(w)
    <3>1. /\ pc' \in [Workers \cup Clients -> WorkerPCs \cup ClientPCs]
          /\ \A x \in Workers : pc'[x] \in WorkerPCs
          /\ \A x \in Clients : pc'[x] = pc[x]
      BY <2>8 DEF Retire
    <3>2. \A x \in Workers \cup Clients :
            pc'[x] \in {"run", "adjust", "push"} => pc'[x] = pc[x]
      BY <2>8 DEF Retire
    <3>3. /\ threads' \subseteq Workers
          /\ zombie' \in Workers \cup {None}
          /\ mutex' \in Workers \cup {Owner, None}
      BY <2>8 DEF Retire
    <3> QED
      BY <2>8, <3>1, <3>2, <3>3 DEF Retire
  <2>9. CASE Exit(w)
    BY <2>9 DEF Exit
  <2> QED
    BY <1>6, <2>1, <2>2, <2>3, <2>4, <2>5, <2>6, <2>7, <2>8, <2>9 DEF WorkerStep
<1>7. CASE BeginDestroy
  BY <1>7 DEF BeginDestroy
<1>8. CASE DestroyStep
  <2>1. CASE RequestStop
    <3>1. stop' \in [Workers -> BOOLEAN]
      BY <2>1, Zenon DEF RequestStop
    <3> QED
      BY <2>1, <3>1 DEF RequestStop
  <2>2. CASE CloseQueue
    BY <2>2 DEF CloseQueue
  <2>3. CASE LockToJoin
    BY <2>3 DEF LockToJoin
  <2>4. CASE JoinAll
    BY <2>4 DEF JoinAll
  <2>5. CASE DestroyMembers
    BY <2>5, EmptySeq DEF DestroyMembers
  <2> QED
    BY <1>8, <2>1, <2>2, <2>3, <2>4, <2>5 DEF DestroyStep
<1> QED
  BY <1>0, <1>1, <1>2, <1>3, <1>4, <1>5, <1>6, <1>7, <1>8 DEF Next

-----------------------------------------------------------------------------
(* Ownership of the threads *)

\* The facts about threads, the zombie and the mutex that hold together.
Owned == MutexProtocol /\ ThreadOwnership /\ ClientsGone

\* Every step keeps every thread owned.
LEMMA OwnedStep ==
  TypeOK /\ Owned /\ RetireDecisionStands /\ [Next]_vars => Owned'
<1> SUFFICES ASSUME TypeOK, Owned, RetireDecisionStands, [Next]_vars PROVE Owned'
  OBVIOUS
<1> USE IdsAssumption DEF Owned, MutexProtocol, ThreadOwnership, ClientsGone
<1>type. /\ threads \subseteq Workers
         /\ zombie \in Workers \cup {None}
         /\ pc \in [Workers \cup Clients -> WorkerPCs \cup ClientPCs]
  BY DEF TypeOK
<1> USE <1>type
<1>0. CASE UNCHANGED vars
  BY <1>0 DEF vars
<1>1. CASE Construct
  BY <1>1 DEF Construct, CreateThread
<1>2. CASE Constructed
  BY <1>2 DEF Constructed
<1>3. ASSUME NEW c \in Clients, NEW t \in Tasks, BeginEnqueue(c, t) PROVE Owned'
  BY <1>3 DEF BeginEnqueue
<1>4. ASSUME NEW w \in Workers, NEW t \in Tasks, NestedEnqueue(w, t) PROVE Owned'
  BY <1>4 DEF NestedEnqueue
<1>5. ASSUME NEW x \in Workers \cup Clients, EnqueueStep(x) PROVE Owned'
  <2>1. CASE AdjustGrow(x)
    BY <2>1 DEF AdjustGrow, CreateThread
  <2>2. CASE AdjustKeep(x)
    BY <2>2 DEF AdjustKeep
  <2>3. CASE Push(x)
    BY <2>3 DEF Push, AfterEnqueue
  <2>4. CASE PushRejected(x)
    BY <2>4 DEF PushRejected, AfterEnqueue
  <2> QED
    BY <1>5, <2>1, <2>2, <2>3, <2>4 DEF EnqueueStep
<1>6. ASSUME NEW w \in Workers, WorkerStep(w) PROVE Owned'
  <2>1. CASE CheckStop(w)
    BY <2>1 DEF CheckStop
  <2>2. CASE PopTask(w)
    BY <2>2 DEF PopTask
  <2>3. CASE PopTimeout(w)
    BY <2>3 DEF PopTimeout
  <2>4. CASE TaskEnds(w)
    BY <2>4 DEF TaskEnds
  <2>5. CASE TryLockFails(w)
    BY <2>5 DEF TryLockFails
  <2>6. CASE StayAlive(w)
    BY <2>6 DEF StayAlive
  <2>7. CASE BeginRetire(w)
    BY <2>7 DEF BeginRetire
  <2>8. CASE Retire(w)
    BY <2>8 DEF Retire
  <2>9. CASE Exit(w)
    BY <2>9 DEF Exit
  <2> QED
    BY <1>6, <2>1, <2>2, <2>3, <2>4, <2>5, <2>6, <2>7, <2>8, <2>9 DEF WorkerStep
<1>7. CASE BeginDestroy
  BY <1>7 DEF BeginDestroy
<1>8. CASE DestroyStep
  <2>1. CASE RequestStop
    BY <2>1 DEF RequestStop
  <2>2. CASE CloseQueue
    BY <2>2 DEF CloseQueue
  <2>3. CASE LockToJoin
    BY <2>3 DEF LockToJoin
  <2>4. CASE JoinAll
    BY <2>4 DEF JoinAll
  <2>5. CASE DestroyMembers
    BY <2>5 DEF DestroyMembers
  <2> QED
    BY <1>8, <2>1, <2>2, <2>3, <2>4, <2>5 DEF DestroyStep
<1> QED
  BY <1>0, <1>1, <1>2, <1>3, <1>4, <1>5, <1>6, <1>7, <1>8 DEF Next

-----------------------------------------------------------------------------
(* Size of the pool *)

\* The vector is finite and adding or removing a thread changes its size by
\* at most one.
LEMMA ThreadsCount ==
  ASSUME TypeOK
  PROVE  /\ IsFiniteSet(threads) /\ Cardinality(threads) \in Nat
         /\ \A w \in Workers :
              /\ Cardinality(threads \cup {w}) \in Nat
              /\ Cardinality(threads \cup {w}) >= Cardinality(threads)
              /\ Cardinality(threads \cup {w}) <= Cardinality(threads) + 1
         /\ \A w \in threads : Cardinality(threads \ {w}) = Cardinality(threads) - 1
<1>1. IsFiniteSet(threads)
  BY IdsAssumption, FS_Subset DEF TypeOK
<1>2. Cardinality(threads) \in Nat
  BY <1>1, FS_CardinalityType
<1>3. ASSUME NEW w \in Workers
      PROVE  Cardinality(threads \cup {w}) \in
               {Cardinality(threads), Cardinality(threads) + 1}
  BY <1>1, FS_AddElement
<1>4. ASSUME NEW w \in threads
      PROVE  Cardinality(threads \ {w}) = Cardinality(threads) - 1
  BY <1>1, FS_RemoveElement
<1> QED
  BY <1>1, <1>2, <1>3, <1>4

\* Every step keeps the pool within its limits: growing is decided and done in
\* one critical section, and a decision to retire stands until it is carried out.
LEMMA BoundsStep ==
  TypeOK /\ Owned /\ RetireDecisionStands /\ PoolBounds /\ [Next]_vars
    => RetireDecisionStands' /\ PoolBounds'
<1> DEFINE Goal == RetireDecisionStands' /\ PoolBounds'
<1> SUFFICES ASSUME TypeOK, Owned, RetireDecisionStands, PoolBounds, [Next]_vars
             PROVE  Goal
  OBVIOUS
<1> USE IdsAssumption, SizesAssumption DEF RetireDecisionStands, PoolBounds
<1>type. /\ threads \subseteq Workers
         /\ zombie \in Workers \cup {None}
         /\ pc \in [Workers \cup Clients -> WorkerPCs \cup ClientPCs]
  BY DEF TypeOK
<1>n. Cardinality(threads) \in Nat
  BY ThreadsCount
<1> USE <1>type, <1>n
<1>0. CASE UNCHANGED vars
  BY <1>0 DEF vars
<1>1. CASE Construct
  BY <1>1, ThreadsCount DEF Construct, CreateThread
<1>2. CASE Constructed
  BY <1>2 DEF Constructed
<1>3. ASSUME NEW c \in Clients, NEW t \in Tasks, BeginEnqueue(c, t) PROVE Goal
  BY <1>3 DEF BeginEnqueue
<1>4. ASSUME NEW w \in Workers, NEW t \in Tasks, NestedEnqueue(w, t) PROVE Goal
  BY <1>4 DEF NestedEnqueue
<1>5. ASSUME NEW x \in Workers \cup Clients, EnqueueStep(x) PROVE Goal
  <2>1. CASE AdjustGrow(x)
    <3>1. PICK w \in Workers :
            /\ pc[w] = "none"
            /\ threads' = threads \cup {w}
            /\ pc' = [pc EXCEPT ![x] = "push", ![w] = "check"]
      BY <2>1 DEF AdjustGrow, CreateThread
    <3>2. /\ Cardinality(threads') \in Nat
          /\ Cardinality(threads') >= Cardinality(threads)
          /\ Cardinality(threads') <= maxPoolSize
      BY <2>1, <3>1, ThreadsCount DEF AdjustGrow, Overloaded
    <3>3. phase' = phase
      BY <2>1 DEF AdjustGrow
    <3> QED
      BY <3>1, <3>2, <3>3
  <2>2. CASE AdjustKeep(x)
    BY <2>2 DEF AdjustKeep
  <2>3. CASE Push(x)
    BY <2>3 DEF Push, AfterEnqueue
  <2>4. CASE PushRejected(x)
    BY <2>4 DEF PushRejected, AfterEnqueue
  <2> QED
    BY <1>5, <2>1, <2>2, <2>3, <2>4 DEF EnqueueStep
<1>6. ASSUME NEW w \in Workers, WorkerStep(w) PROVE Goal
  <2>1. CASE CheckStop(w)
    BY <2>1 DEF CheckStop
  <2>2. CASE PopTask(w)
    BY <2>2 DEF PopTask
  <2>3. CASE PopTimeout(w)
    BY <2>3 DEF PopTimeout
  <2>4. CASE TaskEnds(w)
    BY <2>4 DEF TaskEnds
  <2>5. CASE TryLockFails(w)
    BY <2>5 DEF TryLockFails
  <2>6. CASE StayAlive(w)
    BY <2>6 DEF StayAlive
  <2>7. CASE BeginRetire(w)
    BY <2>7 DEF BeginRetire, MayRetire
  <2>8. CASE Retire(w)
    <3>1. mutex = w
      BY <2>8 DEF Retire, Owned, MutexProtocol
    <3>2. \A x \in Workers : pc'[x] # "retire"
      BY <2>8, <3>1 DEF Retire, Owned, MutexProtocol
    <3>3. Cardinality(threads') = Cardinality(threads) - 1
      BY <2>8, ThreadsCount DEF Retire
    <3> QED
      BY <2>8, <3>2, <3>3 DEF Retire
  <2>9. CASE Exit(w)
    BY <2>9 DEF Exit
  <2> QED
    BY <1>6, <2>1, <2>2, <2>3, <2>4, <2>5, <2>6, <2>7, <2>8, <2>9 DEF WorkerStep
<1>7. CASE BeginDestroy
  BY <1>7 DEF BeginDestroy
<1>8. CASE DestroyStep
  <2>1. CASE RequestStop
    BY <2>1 DEF RequestStop
  <2>2. CASE CloseQueue
    BY <2>2 DEF CloseQueue
  <2>3. CASE LockToJoin
    BY <2>3 DEF LockToJoin
  <2>4. CASE JoinAll
    BY <2>4 DEF JoinAll
  <2>5. CASE DestroyMembers
    <3>1. \A x \in Workers : pc'[x] # "retire"
      BY <2>5 DEF DestroyMembers, Owned, ThreadOwnership
    <3>2. threads' = {} /\ phase' = "destroyed" /\ Cardinality({}) = 0
      BY <2>5, FS_EmptySet DEF DestroyMembers
    <3> QED
      BY <3>1, <3>2
  <2> QED
    BY <1>8, <2>1, <2>2, <2>3, <2>4, <2>5 DEF DestroyStep
<1> QED
  BY <1>0, <1>1, <1>2, <1>3, <1>4, <1>5, <1>6, <1>7, <1>8 DEF Next

-----------------------------------------------------------------------------
(* The tasks *)

\* A worker has a task exactly while it runs one, and what a thread carries into
\* enqueue() is nowhere else.
TasksApart ==
  /\ \A w \in Workers : pc[w] \notin {"run", "adjust", "push"} => cur[w] = None
  /\ \A x \in Workers \cup Clients : held[x] # None =>
       /\ held[x] \notin Queued \cup Running
       /\ \A y \in Workers \cup Clients : held[x] = held[y] => x = y

\* No task is twice in the queue.
QueueOnce == \A i, j \in 1..Len(queue) : queue[i] = queue[j] => i = j

\* A push of a task that is not in the queue adds it once.
LEMMA PushTask ==
  ASSUME queue \in Seq(Tasks), NEW t \in Tasks, queue' = Append(queue, t)
  PROVE  Queued' = Queued \cup {t} /\ (QueueOnce /\ t \notin Queued => QueueOnce')
<1>1. /\ Len(queue') = Len(queue) + 1 /\ Len(queue) \in Nat
      /\ \A i \in 1..Len(queue) : queue'[i] = queue[i]
      /\ queue'[Len(queue) + 1] = t
  OBVIOUS
<1>2. \A i \in 1..Len(queue') : i \in 1..Len(queue) \/ i = Len(queue) + 1
  BY <1>1
<1>3. \A i \in 1..Len(queue) : i \in 1..Len(queue')
  BY <1>1
<1>4. Len(queue) + 1 \in 1..Len(queue')
  BY <1>1
<1>5. Queued' = Queued \cup {t}
  BY <1>1, <1>2, <1>3, <1>4 DEF Queued
<1>6. QueueOnce /\ t \notin Queued => QueueOnce'
  BY <1>1, <1>2 DEF QueueOnce, Queued
<1> QED
  BY <1>5, <1>6

\* A pop removes the task at the head, which is then not in the queue.
LEMMA PopHead ==
  ASSUME queue \in Seq(Tasks), queue # <<>>, queue' = Tail(queue), QueueOnce
  PROVE  /\ Head(queue) \in Tasks /\ Queued = Queued' \cup {Head(queue)}
         /\ Head(queue) \notin Queued' /\ QueueOnce'
<1>1. /\ Len(queue) \in Nat \ {0} /\ Len(queue') = Len(queue) - 1
      /\ \A i \in 1..Len(queue') : queue'[i] = queue[i + 1]
      /\ Head(queue) = queue[1] /\ queue[1] \in Tasks
  OBVIOUS
<1>2. \A i \in 1..Len(queue) : i = 1 \/ (i - 1 \in 1..Len(queue') /\ queue[i] = queue'[i - 1])
  BY <1>1
<1>3. \A i \in 1..Len(queue') : i + 1 \in 1..Len(queue) /\ i + 1 # 1
  BY <1>1
<1>4. 1 \in 1..Len(queue)
  BY <1>1
<1>5. Queued = Queued' \cup {Head(queue)}
  <2>1. ASSUME NEW t \in Queued PROVE t \in Queued' \cup {Head(queue)}
    <3>1. PICK i \in 1..Len(queue) : t = queue[i]
      BY DEF Queued
    <3>2. CASE i = 1
      BY <1>1, <3>1, <3>2
    <3>3. CASE i - 1 \in 1..Len(queue') /\ queue[i] = queue'[i - 1]
      BY <3>1, <3>3 DEF Queued
    <3> QED
      BY <1>2, <3>2, <3>3
  <2>2. ASSUME NEW t \in Queued' PROVE t \in Queued
    BY <1>1, <1>3, <2>2 DEF Queued
  <2>3. Head(queue) \in Queued
    BY <1>1, <1>4 DEF Queued
  <2> QED
    BY <2>1, <2>2, <2>3
<1>6. Head(queue) \notin Queued' /\ QueueOnce'
  BY <1>1, <1>3, <1>4 DEF Queued, QueueOnce
<1> QED
  BY <1>1, <1>5, <1>6

\* Every step keeps every accepted task in one place.
LEMMA TasksStep ==
  TypeOK /\ TaskInOnePlace /\ TasksApart /\ [Next]_vars => TaskInOnePlace' /\ TasksApart'
<1> DEFINE Goal == TaskInOnePlace' /\ TasksApart'
<1> SUFFICES ASSUME TypeOK, TaskInOnePlace, TasksApart, [Next]_vars PROVE Goal
  OBVIOUS
<1> USE IdsAssumption
<1>type. /\ pc \in [Workers \cup Clients -> WorkerPCs \cup ClientPCs]
         /\ queue \in Seq(Tasks)
         /\ held \in [Workers \cup Clients -> Tasks \cup {None}]
         /\ cur \in [Workers -> Tasks \cup {None}]
  BY DEF TypeOK
<1> USE <1>type
<1>frame. ASSUME UNCHANGED <<queue, held, cur, accepted>>,
                 \A w \in Workers : pc'[w] \in {"run", "adjust", "push"}
                                      \/ pc[w] \notin {"run", "adjust", "push"}
          PROVE  Goal
  <2>1. Queued' = Queued /\ Running' = Running
    BY <1>frame DEF Queued, Running
  <2> QED
    BY <1>frame, <2>1 DEF TaskInOnePlace, TasksApart
<1>0. CASE UNCHANGED vars
  BY <1>0, <1>frame DEF vars
<1>1. CASE Construct \/ Constructed
  BY <1>1, <1>frame DEF Construct, CreateThread, Constructed
<1>2. ASSUME NEW x \in Workers \cup Clients, NEW t \in Tasks, Free(t),
             held' = [held EXCEPT ![x] = t], UNCHANGED <<queue, cur, accepted>>,
             \A w \in Workers : pc'[w] \in {"run", "adjust", "push"}
                                  \/ pc[w] \notin {"run", "adjust", "push"}
      PROVE  Goal
  <2>1. t \notin Queued \cup Running /\ \A y \in Workers \cup Clients : held[y] # t
    BY <1>2 DEF Free, Queued, Running
  <2>2. Queued' = Queued /\ Running' = Running
    BY <1>2 DEF Queued, Running
  <2> QED
    BY <1>2, <2>1, <2>2 DEF TaskInOnePlace, TasksApart
<1>3. ASSUME NEW c \in Clients, NEW t \in Tasks, BeginEnqueue(c, t) PROVE Goal
  BY <1>2, <1>3 DEF BeginEnqueue
<1>4. ASSUME NEW w \in Workers, NEW t \in Tasks, NestedEnqueue(w, t) PROVE Goal
  BY <1>2, <1>4 DEF NestedEnqueue
<1>5. ASSUME NEW x \in Workers \cup Clients, EnqueueStep(x) PROVE Goal
  <2>1. CASE AdjustGrow(x)
    BY <2>1, <1>frame DEF AdjustGrow, CreateThread
  <2>2. CASE AdjustKeep(x)
    BY <2>2, <1>frame DEF AdjustKeep
  <2>3. CASE Push(x)
    <3>1. /\ held[x] \in Tasks /\ queue' = Append(queue, held[x]) /\ cur' = cur
          /\ accepted' = accepted \cup {held[x]} /\ held' = [held EXCEPT ![x] = None]
      BY <2>3 DEF Push, TypeOK
    <3>2. held[x] \notin Queued \cup Running
      BY <3>1 DEF TasksApart
    <3>3. Queued' = Queued \cup {held[x]} /\ QueueOnce' /\ Running' = Running
      <4>1. Running' = Running
        BY <3>1 DEF Running
      <4>2. QueueOnce
        BY DEF TaskInOnePlace, QueueOnce
      <4> QED
        BY <3>1, <3>2, <4>1, <4>2, PushTask
    <3>4. \A w \in Workers : pc'[w] \notin {"run", "adjust", "push"} => cur'[w] = None
      BY <2>3, <3>1 DEF Push, AfterEnqueue, TasksApart
    <3> QED
      BY <3>1, <3>2, <3>3, <3>4 DEF TaskInOnePlace, TasksApart, QueueOnce
  <2>4. CASE PushRejected(x)
    <3>1. Queued' = Queued /\ Running' = Running
      BY <2>4 DEF PushRejected, Queued, Running
    <3> QED
      BY <2>4, <3>1 DEF PushRejected, AfterEnqueue, TaskInOnePlace, TasksApart
  <2> QED
    BY <1>5, <2>1, <2>2, <2>3, <2>4 DEF EnqueueStep
<1>6. ASSUME NEW w \in Workers, WorkerStep(w) PROVE Goal
  <2>1. CASE PopTask(w)
    <3>1. /\ queue # <<>> /\ queue' = Tail(queue) /\ cur' = [cur EXCEPT ![w] = Head(queue)]
          /\ cur[w] = None /\ UNCHANGED <<accepted, held>>
          /\ pc' = [pc EXCEPT ![w] = "run"]
      BY <2>1 DEF PopTask, TasksApart
    <3>2. /\ Head(queue) \in Tasks /\ Queued = Queued' \cup {Head(queue)}
          /\ Head(queue) \notin Queued' /\ QueueOnce'
      BY <3>1, PopHead DEF TaskInOnePlace, QueueOnce
    <3>3. Running' = Running \cup {Head(queue)}
      BY <3>1, <3>2 DEF Running
    <3>4. \A v \in Workers : cur[v] # Head(queue)
      BY <3>2 DEF TaskInOnePlace, Running
    <3> QED
      BY <3>1, <3>2, <3>3, <3>4 DEF TaskInOnePlace, TasksApart, QueueOnce
  <2>2. CASE TaskEnds(w)
    <3>1. /\ cur[w] \in Tasks /\ cur' = [cur EXCEPT ![w] = None]
          /\ accepted' = accepted \ {cur[w]} /\ UNCHANGED <<queue, held>>
          /\ pc' = [pc EXCEPT ![w] = "check"]
      BY <2>2 DEF TaskEnds, TypeOK
    <3>2. \A v \in Workers : v # w => cur[v] # cur[w]
      BY <3>1 DEF TaskInOnePlace
    <3>3. Running' = Running \ {cur[w]} /\ Queued' = Queued /\ cur[w] \in Running
      BY <3>1, <3>2 DEF Running, Queued
    <3> QED
      BY <3>1, <3>3 DEF TaskInOnePlace, TasksApart
  <2>3. CASE CheckStop(w) \/ PopTimeout(w) \/ TryLockFails(w) \/ StayAlive(w)
               \/ BeginRetire(w) \/ Exit(w)
    BY <2>3, <1>frame DEF CheckStop, PopTimeout, TryLockFails, StayAlive, BeginRetire, Exit
  <2>4. CASE Retire(w)
    BY <2>4, <1>frame DEF Retire
  <2> QED
    BY <1>6, <2>1, <2>2, <2>3, <2>4 DEF WorkerStep
<1>7. CASE BeginDestroy \/ RequestStop \/ CloseQueue \/ LockToJoin
  BY <1>7, <1>frame DEF BeginDestroy, RequestStop, CloseQueue, LockToJoin
<1>8. CASE JoinAll
  BY <1>8, <1>frame DEF JoinAll
<1>9. CASE DestroyMembers
  <2>1. /\ queue' = <<>> /\ UNCHANGED <<cur, held>>
        /\ accepted' = {t \in accepted : t \notin Queued}
        /\ \A v \in Workers : pc'[v] \in {"run", "adjust", "push"}
                              \/ pc[v] \notin {"run", "adjust", "push"}
    BY <1>9 DEF DestroyMembers, Queued
  <2>2. Queued' = {} /\ Running' = Running
    BY <2>1 DEF Queued, Running
  <2>3. accepted' = Running
    BY <2>1 DEF TaskInOnePlace
  <2> QED
    BY <2>1, <2>2, <2>3 DEF TaskInOnePlace, TasksApart
<1> QED
  BY <1>0, <1>1, <1>3, <1>4, <1>5, <1>6, <1>7, <1>8, <1>9 DEF Next, DestroyStep

-----------------------------------------------------------------------------
\* The inductive invariant of the pool.
IInv == TypeOK /\ Owned /\ RetireDecisionStands /\ PoolBounds /\ TaskInOnePlace /\ TasksApart

\* It holds before the constructor runs.
LEMMA InitIInv == Init => IInv
<1> SUFFICES ASSUME Init PROVE IInv
  OBVIOUS
<1> USE IdsAssumption, SizesAssumption DEF Init
<1>1. TypeOK
  <2>1. queue \in Seq(Tasks)
    BY EmptySeq
  <2>3. closed \in BOOLEAN /\ stop \in [Workers -> BOOLEAN]
    BY Zenon
  <2>2. /\ pc \in [Workers \cup Clients -> WorkerPCs \cup ClientPCs]
        /\ \A w \in Workers : pc[w] = "none"
        /\ \A c \in Clients : pc[c] = "idle"
    BY DEF WorkerPCs, ClientPCs
  <2> QED
    BY <2>1, <2>3, <2>2 DEF TypeOK, WorkerPCs, ClientPCs, Phases
<1>2. Owned
  BY DEF Owned, MutexProtocol, ThreadOwnership, ClientsGone
<1>3. RetireDecisionStands
  BY DEF RetireDecisionStands
<1>4. PoolBounds
  BY FS_EmptySet DEF PoolBounds
<1>5. TaskInOnePlace /\ TasksApart
  BY DEF TaskInOnePlace, TasksApart, Queued, Running
<1> QED
  BY <1>1, <1>2, <1>3, <1>4, <1>5 DEF IInv

\* The inductive invariant holds in every reachable state.
LEMMA IInvAlways == Spec => []IInv
<1>1. IInv /\ [Next]_vars => IInv'
  BY TypeStep, OwnedStep, BoundsStep, TasksStep DEF IInv
<1> QED
  BY <1>1, InitIInv, PTL DEF Spec

\* Types are kept.
THEOREM TypeCorrect == Spec => []TypeOK
<1>1. IInv => TypeOK
  BY DEF IInv
<1> QED
  BY <1>1, IInvAlways, PTL

\* Every worker thread is owned by the vector or the zombie slot, the mutex is
\* held only where the code blocks with it, and none outlives the pool.
THEOREM ThreadsOwned == Spec => [](MutexProtocol /\ ThreadOwnership)
<1>1. IInv => MutexProtocol /\ ThreadOwnership
  BY DEF IInv, Owned
<1> QED
  BY <1>1, IInvAlways, PTL

\* No accepted task is lost and none is run twice, for any number of clients,
\* workers and tasks that enqueue.
THEOREM TasksKept == Spec => []TaskInOnePlace
<1>1. IInv => TaskInOnePlace
  BY DEF IInv
<1> QED
  BY <1>1, IInvAlways, PTL

\* Concurrent scaling up and down stays between minPoolSize and maxPoolSize.
THEOREM SizeBounded == Spec => []PoolBounds
<1>1. IInv => PoolBounds
  BY DEF IInv
<1> QED
  BY <1>1, IInvAlways, PTL

\* Never more than one retired thread waits to be joined.
THEOREM ThreadsBounded == Spec => []LiveThreadsBounded
<1>1. ASSUME IInv PROVE LiveThreadsBounded
  <2> DEFINE live == {w \in Workers : pc[w] # "none"}
  <2>1. /\ IsFiniteSet(threads) /\ Cardinality(threads) \in Nat
    BY <1>1, ThreadsCount DEF IInv
  <2>2. live \subseteq threads \cup {zombie}
    BY <1>1 DEF IInv, Owned, ThreadOwnership
  <2>3. /\ IsFiniteSet(threads \cup {zombie})
        /\ Cardinality(threads \cup {zombie}) \in
             {Cardinality(threads), Cardinality(threads) + 1}
    BY <2>1, FS_AddElement
  <2>4. Cardinality(live) \in Nat /\ Cardinality(live) <= Cardinality(threads \cup {zombie})
    BY <2>2, <2>3, FS_Subset, FS_CardinalityType
  <2> HIDE DEF live
  <2>5. Cardinality(live) <= Cardinality(threads) + 1
    BY <2>1, <2>3, <2>4
  <2>6. Cardinality(live) <= maxPoolSize + 1 \/ Cardinality(live) <= minPoolSize + 1
    BY <1>1, <2>1, <2>4, <2>5, SizesAssumption DEF IInv, PoolBounds
  <2> QED
    BY <2>6 DEF live, LiveThreadsBounded
<1> QED
  BY <1>1, IInvAlways, PTL
=============================================================================
