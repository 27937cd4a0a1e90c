------------------------- MODULE DynamicThreadPool -------------------------
(***************************************************************************)
(* src/task/dynamicthreadpool.cpp: the worker loop, scaling up in enqueue() *)
(* and down in idle workers, and the destructor.                            *)
(*                                                                          *)
(* The task queue is the atomic queue of module ClosableQueue, which        *)
(* BoundedBlockingQueue is proved to implement (the instantiation with      *)
(* MichaelScottQueue is not covered).  The vector threads is the            *)
(* set of its thread ids (its order decides nothing: the destructor joins   *)
(* all of them), and a joined thread's id may be used again.  A region      *)
(* under the mutex is one step unless it blocks inside, which happens in    *)
(* two places: a retiring worker that joins the previous zombie, and the    *)
(* destructor that joins the workers.                                       *)
(*                                                                          *)
(* A task may call enqueue() itself (Spawners).  The callers respect the    *)
(* object's lifetime: no client is inside enqueue() once the destructor     *)
(* starts; a task of the pool may be.                                       *)
(*                                                                          *)
(*   pc[c], c a client   idle, adjust (wants the mutex), push               *)
(*   pc[w], w a worker   none (no such thread), check (loop head), pop,     *)
(*                       run, adjust and push (enqueue from a task), lock   *)
(*                       (try_lock_for), retire (mutex held, zombie slot    *)
(*                       being taken), leaving, exited (joinable)           *)
(***************************************************************************)
EXTENDS Naturals, Sequences, FiniteSets

CONSTANTS Workers,      \* thread ids
          Clients,      \* threads outside the pool that call enqueue()
          Tasks,
          Spawners,     \* the tasks that may call enqueue()
          Capacity,     \* taskQueueSize
          minPoolSize, maxPoolSize,
          Owner,        \* the thread that constructs and destroys the pool
          None          \* no thread, no task

ASSUME IdsAssumption ==
  /\ IsFiniteSet(Workers)
  /\ Workers \cap Clients = {}
  /\ Owner \notin Workers
  /\ None \notin Workers \cup Clients \cup Tasks \cup {Owner}
  /\ Spawners \subseteq Tasks
ASSUME SizesAssumption ==
  Capacity \in Nat /\ minPoolSize \in Nat /\ maxPoolSize \in Nat

VARIABLES threads,    \* Impl::threads
          zombie,     \* Impl::zombie
          mutex,      \* the holder of Impl::mutex
          queue,      \* Impl::taskQueue
          closed,
          stop,       \* the stop request of each worker's jthread
          pc,
          held,       \* the task a thread inside enqueue() carries
          cur,        \* the task a worker runs
          accepted,   \* the tasks pushed and not yet run to their end (history)
          phase       \* where Owner is
vars == <<threads, zombie, mutex, queue, closed, stop, pc, held, cur, accepted, phase>>

Phases == {"constructing", "running", "stopping", "closing", "locking",
           "joining", "members", "destroyed"}
WorkerPCs == {"none", "check", "pop", "run", "adjust", "push", "lock",
              "retire", "leaving", "exited"}
ClientPCs == {"idle", "adjust", "push"}

Init ==
  /\ threads = {}
  /\ zombie = None
  /\ mutex = None
  /\ queue = <<>>
  /\ closed = FALSE
  /\ stop = [w \in Workers |-> FALSE]
  /\ pc = [x \in Workers \cup Clients |-> IF x \in Workers THEN "none" ELSE "idle"]
  /\ held = [x \in Workers \cup Clients |-> None]
  /\ cur = [w \in Workers |-> None]
  /\ accepted = {}
  /\ phase = "constructing"

\* A task that is nowhere in the pool; the same task may be enqueued again.
Free(t) ==
  /\ \A i \in 1..Len(queue) : queue[i] # t
  /\ \A x \in Workers \cup Clients : held[x] # t
  /\ \A w \in Workers : cur[w] # t

\* createNThreads(1): a new thread starts at the head of the worker loop, the
\* other threads are where pcs says.
CreateThread(pcs) ==
  \E w \in Workers :
    /\ pc[w] = "none"
    /\ threads' = threads \cup {w}
    /\ stop' = [stop EXCEPT ![w] = FALSE]
    /\ pc' = [pcs EXCEPT ![w] = "check"]

-----------------------------------------------------------------------------
(* The constructor: minPoolSize threads, created without the mutex. *)

Construct ==
  /\ phase = "constructing"
  /\ Cardinality(threads) < minPoolSize
  /\ CreateThread(pc)
  /\ UNCHANGED <<zombie, mutex, queue, closed, held, cur, accepted, phase>>

Constructed ==
  /\ phase = "constructing"
  /\ Cardinality(threads) >= minPoolSize
  /\ phase' = "running"
  /\ UNCHANGED <<threads, zombie, mutex, queue, closed, stop, pc, held, cur, accepted>>

-----------------------------------------------------------------------------
(* enqueue(), by a client or by the task a worker runs *)

BeginEnqueue(c, t) ==
  /\ pc[c] = "idle"
  /\ phase = "running"
  /\ Free(t)
  /\ pc' = [pc EXCEPT ![c] = "adjust"]
  /\ held' = [held EXCEPT ![c] = t]
  /\ UNCHANGED <<threads, zombie, mutex, queue, closed, stop, cur, accepted, phase>>

NestedEnqueue(w, t) ==
  /\ pc[w] = "run"
  /\ cur[w] \in Spawners
  /\ Free(t)
  /\ pc' = [pc EXCEPT ![w] = "adjust"]
  /\ held' = [held EXCEPT ![w] = t]
  /\ UNCHANGED <<threads, zombie, mutex, queue, closed, stop, cur, accepted, phase>>

\* Mutant of Overloaded: <= where adjustSize() compares with <.
OverloadedOffByOne == /\ Len(queue) > 2 * Cardinality(threads)
                      /\ Cardinality(threads) <= maxPoolSize

Overloaded == /\ Len(queue) > 2 * Cardinality(threads)
              /\ Cardinality(threads) < maxPoolSize

AdjustGrow(x) ==
  /\ pc[x] = "adjust"
  /\ mutex = None
  /\ Overloaded
  /\ CreateThread([pc EXCEPT ![x] = "push"])
  /\ UNCHANGED <<zombie, mutex, queue, closed, held, cur, accepted, phase>>

AdjustKeep(x) ==
  /\ pc[x] = "adjust"
  /\ mutex = None
  /\ ~Overloaded
  /\ pc' = [pc EXCEPT ![x] = "push"]
  /\ UNCHANGED <<threads, zombie, mutex, queue, closed, stop, held, cur, accepted, phase>>

\* Where enqueue() returns to: the client's code, or the rest of the task.
AfterEnqueue(x) == IF x \in Workers THEN "run" ELSE "idle"

Push(x) ==
  /\ pc[x] = "push"
  /\ ~closed
  /\ Len(queue) < Capacity
  /\ queue' = Append(queue, held[x])
  /\ accepted' = accepted \cup {held[x]}
  /\ held' = [held EXCEPT ![x] = None]
  /\ pc' = [pc EXCEPT ![x] = AfterEnqueue(x)]
  /\ UNCHANGED <<threads, zombie, mutex, closed, stop, cur, phase>>

\* push() returns false, which enqueue() ignores: the task is gone.
PushRejected(x) ==
  /\ pc[x] = "push"
  /\ closed
  /\ held' = [held EXCEPT ![x] = None]
  /\ pc' = [pc EXCEPT ![x] = AfterEnqueue(x)]
  /\ UNCHANGED <<threads, zombie, mutex, queue, closed, stop, cur, accepted, phase>>

-----------------------------------------------------------------------------
(* worker() *)

CheckStop(w) ==
  /\ pc[w] = "check"
  /\ pc' = [pc EXCEPT ![w] = IF stop[w] THEN "leaving" ELSE "pop"]
  /\ UNCHANGED <<threads, zombie, mutex, queue, closed, stop, held, cur, accepted, phase>>

\* Mutant of PopTask: the front is copied and not popped.
PopTaskCopies(w) ==
  /\ pc[w] = "pop"
  /\ queue # <<>>
  /\ cur' = [cur EXCEPT ![w] = Head(queue)]
  /\ pc' = [pc EXCEPT ![w] = "run"]
  /\ UNCHANGED <<threads, zombie, mutex, queue, closed, stop, held, accepted, phase>>

PopTask(w) ==
  /\ pc[w] = "pop"
  /\ queue # <<>>
  /\ queue' = Tail(queue)
  /\ cur' = [cur EXCEPT ![w] = Head(queue)]
  /\ pc' = [pc EXCEPT ![w] = "run"]
  /\ UNCHANGED <<threads, zombie, mutex, closed, stop, held, accepted, phase>>

\* timeoutPop() returns nothing: idleTimeout is over, or the queue is closed.
PopTimeout(w) ==
  /\ pc[w] = "pop"
  /\ queue = <<>>
  /\ pc' = [pc EXCEPT ![w] = "lock"]
  /\ UNCHANGED <<threads, zombie, mutex, queue, closed, stop, held, cur, accepted, phase>>

\* The task returns, or throws, which the worker catches.
TaskEnds(w) ==
  /\ pc[w] = "run"
  /\ accepted' = accepted \ {cur[w]}
  /\ cur' = [cur EXCEPT ![w] = None]
  /\ pc' = [pc EXCEPT ![w] = "check"]
  /\ UNCHANGED <<threads, zombie, mutex, queue, closed, stop, held, phase>>

\* try_lock_for gives up while somebody else holds the mutex.
TryLockFails(w) ==
  /\ pc[w] = "lock"
  /\ mutex # None
  /\ pc' = [pc EXCEPT ![w] = "check"]
  /\ UNCHANGED <<threads, zombie, mutex, queue, closed, stop, held, cur, accepted, phase>>

\* Mutant of MayRetire: the floor check lets the pool fall below minPoolSize.
MayRetireBelowFloor(w) == Cardinality(threads) >= minPoolSize /\ w \in threads

MayRetire(w) == Cardinality(threads) > minPoolSize /\ w \in threads

StayAlive(w) ==
  /\ pc[w] = "lock"
  /\ mutex = None
  /\ ~MayRetire(w)
  /\ pc' = [pc EXCEPT ![w] = "check"]
  /\ UNCHANGED <<threads, zombie, mutex, queue, closed, stop, held, cur, accepted, phase>>

BeginRetire(w) ==
  /\ pc[w] = "lock"
  /\ mutex = None
  /\ MayRetire(w)
  /\ mutex' = w
  /\ pc' = [pc EXCEPT ![w] = "retire"]
  /\ UNCHANGED <<threads, zombie, queue, closed, stop, held, cur, accepted, phase>>

\* Mutant of Retire: the previous zombie is overwritten without being joined.
RetireDetaches(w) ==
  /\ pc[w] = "retire"
  /\ pc' = [pc EXCEPT ![w] = "leaving"]
  /\ zombie' = w
  /\ threads' = threads \ {w}
  /\ mutex' = None
  /\ UNCHANGED <<queue, closed, stop, held, cur, accepted, phase>>

\* zombie = std::move(*it): joins the previous zombie, with the mutex held.
Retire(w) ==
  /\ pc[w] = "retire"
  /\ zombie # None => pc[zombie] = "exited"
  /\ pc' = [x \in Workers \cup Clients |->
              IF x = w THEN "leaving" ELSE IF x = zombie THEN "none" ELSE pc[x]]
  /\ zombie' = w
  /\ threads' = threads \ {w}
  /\ mutex' = None
  /\ UNCHANGED <<queue, closed, stop, held, cur, accepted, phase>>

Exit(w) ==
  /\ pc[w] = "leaving"
  /\ pc' = [pc EXCEPT ![w] = "exited"]
  /\ UNCHANGED <<threads, zombie, mutex, queue, closed, stop, held, cur, accepted, phase>>

-----------------------------------------------------------------------------
(* ~DynamicThreadPool() *)

BeginDestroy ==
  /\ phase = "running"
  /\ \A c \in Clients : pc[c] = "idle"
  /\ phase' = "stopping"
  /\ UNCHANGED <<threads, zombie, mutex, queue, closed, stop, pc, held, cur, accepted>>


RequestStop ==
  /\ phase = "stopping"
  /\ mutex = None
  /\ stop' = [w \in Workers |-> stop[w] \/ w \in threads]
  /\ phase' = "closing"
  /\ UNCHANGED <<threads, zombie, mutex, queue, closed, pc, held, cur, accepted>>

CloseQueue ==
  /\ phase = "closing"
  /\ closed' = TRUE
  /\ phase' = "locking"
  /\ UNCHANGED <<threads, zombie, mutex, queue, stop, pc, held, cur, accepted>>

LockToJoin ==
  /\ phase = "locking"
  /\ mutex = None
  /\ mutex' = Owner
  /\ phase' = "joining"
  /\ UNCHANGED <<threads, zombie, queue, closed, stop, pc, held, cur, accepted>>

JoinAll ==
  /\ phase = "joining"
  /\ \A w \in threads : pc[w] = "exited"
  /\ pc' = [x \in Workers \cup Clients |-> IF x \in threads THEN "none" ELSE pc[x]]
  /\ mutex' = None
  /\ phase' = "members"
  /\ UNCHANGED <<threads, zombie, queue, closed, stop, held, cur, accepted>>

\* The members of Impl go: zombie is joined, then the queue with its tasks.
DestroyMembers ==
  /\ phase = "members"
  /\ zombie # None => pc[zombie] = "exited"
  /\ pc' = [x \in Workers \cup Clients |-> IF x = zombie THEN "none" ELSE pc[x]]
  /\ zombie' = None
  /\ queue' = <<>>
  /\ accepted' = {t \in accepted : \A i \in 1..Len(queue) : queue[i] # t}
  /\ threads' = {}
  /\ phase' = "destroyed"
  /\ UNCHANGED <<mutex, closed, stop, held, cur>>

-----------------------------------------------------------------------------
WorkerStep(w) ==
  \/ CheckStop(w)
  \/ PopTask(w)
  \/ PopTimeout(w)
  \/ TaskEnds(w)
  \/ TryLockFails(w)
  \/ StayAlive(w)
  \/ BeginRetire(w)
  \/ Retire(w)
  \/ Exit(w)

EnqueueStep(x) ==
  \/ AdjustGrow(x)
  \/ AdjustKeep(x)
  \/ Push(x)
  \/ PushRejected(x)

DestroyStep ==
  \/ RequestStop
  \/ CloseQueue
  \/ LockToJoin
  \/ JoinAll
  \/ DestroyMembers

Next ==
  \/ Construct
  \/ Constructed
  \/ \E c \in Clients, t \in Tasks : BeginEnqueue(c, t)
  \/ \E w \in Workers, t \in Tasks : NestedEnqueue(w, t)
  \/ \E x \in Workers \cup Clients : EnqueueStep(x)
  \/ \E w \in Workers : WorkerStep(w)
  \/ BeginDestroy
  \/ DestroyStep

Spec == Init /\ [][Next]_vars

\* The operating system runs every thread that can run, the time limits of
\* timeoutPop() and try_lock_for() end, every task ends although it may call
\* enqueue() again and again, and the destructor goes on once it has started.
Fairness ==
  /\ WF_vars(Construct \/ Constructed \/ DestroyStep)
  /\ \A c \in Clients : WF_vars(EnqueueStep(c))
  /\ \A w \in Workers : WF_vars(WorkerStep(w) \/ EnqueueStep(w)) /\ SF_vars(TaskEnds(w))

FairSpec == Spec /\ Fairness

-----------------------------------------------------------------------------
(* Properties *)

\* Every variable keeps its type.
TypeOK ==
  /\ threads \subseteq Workers
  /\ zombie \in Workers \cup {None}
  /\ mutex \in Workers \cup {Owner, None}
  /\ queue \in Seq(Tasks)
  /\ closed \in BOOLEAN
  /\ stop \in [Workers -> BOOLEAN]
  /\ pc \in [Workers \cup Clients -> WorkerPCs \cup ClientPCs]
  /\ \A w \in Workers : pc[w] \in WorkerPCs
  /\ \A c \in Clients : pc[c] \in ClientPCs
  /\ held \in [Workers \cup Clients -> Tasks \cup {None}]
  /\ cur \in [Workers -> Tasks \cup {None}]
  /\ accepted \subseteq Tasks
  /\ phase \in Phases
  /\ \A x \in Workers \cup Clients : pc[x] \in {"adjust", "push"} => held[x] \in Tasks
  /\ \A w \in Workers : pc[w] \in {"run", "adjust", "push"} => cur[w] \in Tasks

\* The mutex is held across a blocking step only by the worker that takes the
\* zombie slot and by the destructor that joins.
MutexProtocol ==
  /\ \A w \in Workers : mutex = w <=> pc[w] = "retire"
  /\ mutex = Owner <=> phase = "joining"

\* Every thread that exists is owned by exactly one jthread, in the vector or
\* in the zombie slot, so that somebody will join it; the zombie is past its
\* last access to the pool, so joining it with the mutex held cannot block on
\* the mutex; and no thread outlives the pool.
ThreadOwnership ==
  /\ \A w \in Workers : pc[w] # "none" => w \in threads \/ w = zombie
  /\ zombie \notin threads
  /\ zombie # None => pc[zombie] \in {"leaving", "exited"}
  /\ phase \notin {"members", "destroyed"} => \A w \in threads : pc[w] # "none"
  /\ phase = "members" => \A w \in threads : pc[w] = "none"
  /\ phase = "destroyed" => \A w \in Workers : pc[w] = "none"

\* Scaling respects its limits under concurrent enqueue() and retirement: once
\* constructed the pool never falls below minPoolSize and never exceeds
\* maxPoolSize (nor the size it was constructed with, should that be larger).
PoolBounds ==
  /\ phase \notin {"constructing", "destroyed"} => Cardinality(threads) >= minPoolSize
  /\ Cardinality(threads) <= maxPoolSize \/ Cardinality(threads) <= minPoolSize

\* What a worker decided under the mutex still stands when it leaves the
\* vector: it is in the vector, and the vector is above the floor.
RetireDecisionStands ==
  \A w \in Workers :
    pc[w] = "retire" => w \in threads /\ Cardinality(threads) > minPoolSize

\* The callers' obligation, kept by BeginEnqueue and BeginDestroy: no client is
\* inside enqueue() once the destructor runs.
ClientsGone ==
  phase \notin {"constructing", "running"} => \A c \in Clients : pc[c] = "idle"

\* At most one thread more than the larger limit exists at any time: a retired
\* worker is joined before the next one retires.
LiveThreadsBounded ==
  LET live == Cardinality({w \in Workers : pc[w] # "none"})
  IN  live <= maxPoolSize + 1 \/ live <= minPoolSize + 1

\* The tasks in the queue, and those being run.
Queued == {queue[i] : i \in 1..Len(queue)}
Running == {cur[w] : w \in Workers} \ {None}

\* A task that enqueue() handed to the queue is at all times either in the
\* queue, once, or run by one worker, until it ends or the pool is destroyed
\* with the task still queued: none is lost and none is run twice.
TaskInOnePlace ==
  /\ accepted = Queued \cup Running
  /\ Queued \cap Running = {}
  /\ \A i, j \in 1..Len(queue) : queue[i] = queue[j] => i = j
  /\ \A v, w \in Workers : cur[v] = cur[w] /\ cur[v] # None => v = w

\* Every worker is inside a task that waits in enqueue() for a free slot, and
\* only a worker could make one: line 167 blocks without a time limit.
WorkersWaitForSlot ==
  /\ Len(queue) = Capacity
  /\ \A w \in threads : pc[w] = "push"

\* A pool with at least one worker runs every task of its queue, unless it is
\* destroyed first: idle workers that retire never strand a queued task, and a
\* task that enqueues others holds up the queue only when all workers do so on
\* a full queue, which is the one exception.
QueuedTaskRuns ==
  \A t \in Tasks :
    t \in Queued ~> (t \in Running \/ phase # "running" \/ WorkersWaitForSlot)

\* The destructor holds the mutex and joins a worker that will never end: its
\* task waits for this mutex in enqueue() ("Lock with timeout to avoid deadlock
\* with destructor", line 66, is done for idle workers only), or it was created
\* after the stop requests of lines 145-147, by the enqueue() of a task of a
\* worker that did get one.
JoinsForEver ==
  /\ phase = "joining"
  /\ \/ \E w \in threads : pc[w] = "adjust"
     \/ \E v, w \in threads : stop[v] /\ ~stop[w]

\* The destructor returns, whatever the workers do when it starts, with the two
\* exceptions of JoinsForEver.
DestructorReturns == phase = "stopping" ~> phase = "destroyed" \/ JoinsForEver
=============================================================================
