# A TLA+ verification of miniruntime

miniruntime is a C++20 library for asynchronous tasks on Linux: a bounded
blocking queue and a lock-free one, a thread pool that scales itself, futures,
an asynchronous logger, an epoll event loop with RAII handles, and a scheduler
that joins them. This directory holds TLA+ models of its components, TLC
configurations that check them on small instances, and TLAPS proofs for every
instance. `PROJECT.json` is the index: components, runs, the map from
definitions to source lines, findings, hazards and theorems.

Run a configuration with `tlc -config <run>.cfg <module>` and a proof with
`tlapm <module>.tla`.

## 1. Inventory

| Component | State | Operations | Interacts with |
|---|---|---|---|
| BoundedBlockingQueue | deque, closed flag, mutex, two condition variables | push/emplace, pop, timeoutPop, close, size | used by the pool and the logger |
| MichaelScottQueue | head, tail, size, closed flag (atomics) | the same | alternative queue of the pool; nodes from HazardPointers |
| HazardPointers | per-thread slots and retired lists, orphaned list, node pool | protect, unprotect, retire, scan, drain, allocate | MichaelScottQueue |
| DynamicThreadPool | vector of jthreads, zombie slot, timed mutex, task queue | constructor, enqueue (adjustSize), worker loop, destructor | calls the queue; tasks may call enqueue |
| Future / Promise | status, result, one-shot flag, id and its flag | setValue, setException, close, setId; get, isReady, isClosed, getId | set by pool tasks, closed by cancel |
| SharedValue | value, exception, closed flag, id, mutex, condition variable | set, setException, wait, close, setId, getId | set by interval tasks |
| Logger | queue, two counters, worker thread, level, stream | log, flush, shutdown, setMinLevel, setOutput | every component logs |
| EventLoop | epoll fd, registry fd -> callback, stop flag, mutex | create*, run, stop, unregister, reset | callbacks run on the loop thread |
| Handle | loop, fd, ownership, fired flag | release (destructor, cancel, move), trigger, resetInterval, valid, fired | registry of the loop |
| TaskScheduler | timers, intervals, ids, loop thread, cleaner | execute, schedule, scheduleInterval, init, cancel, stop | EventLoop, pool, Future, SharedValue |

What is hard here: threads that decide under a lock and act after it, condition
variables and `atomic::wait` whose notifications can be lost, close and
destruction racing with everything else, one thread joining another while it
holds what the other needs, a counter updated after the event it counts,
descriptors named by a number that is given out again, a callback that runs
after its handle is gone, and results that arrive after a cancellation.
`PROJECT.json` lists these under `hazards`, each at its line.

What makes each component correct:

* the queue: FIFO, no loss, no duplicate, capacity; a waiter sleeps only while
  it has to; close drains and unblocks;
* the pool: its size stays between its limits, each thread is joined once by
  somebody, each task is run once, queued tasks get a worker, the destructor
  returns;
* a future: one result, published before it is read, never changed; get
  returns;
* the logger: messages written in order, none lost; flush covers what was
  logged; shutdown drains and returns;
* the loop: registry, epoll and handles agree; a descriptor has one owner; a
  callback runs when it is due and only then; run returns after stop;
* a shared value: each value delivered at most once, in order; no wait sleeps
  beside a result; an exception or a close ends the waits;
* the lock-free queue: FIFO, no loss, no duplicate; no node is used after it
  was reclaimed, none leaks; the size balances;
* the scheduler: a task runs at most once; a pending timer can be cancelled and
  a cancelled one is not dispatched; futures settle; fired timers are cleaned
  up; the destructor returns.

## 2. Modules

| Module | Models |
|---|---|
| `ClosableQueue` | abstract: what a task queue promises, each operation atomic |
| `BoundedBlockingQueue` | `boundedblockingqueue.h`, every lock, wait and notification |
| `MCBoundedBlockingQueue` | TLC instance: each thread has a budget of calls, and fairness is stated |
| `BoundedBlockingQueueProofs` | theorems |
| `DynamicThreadPool`, `MCDynamicThreadPool`, `DynamicThreadPoolProofs` | `dynamicthreadpool.cpp` over the atomic queue |
| `Future`, `FutureProofs` | `asyncresult/detail/future.h`, `asyncresult/future.h` |
| `Logger`, `LoggerProofs` | `logger.cpp`, composed with `BoundedBlockingQueue` through INSTANCE: every step of a logging thread inside the queue is a step of the queue module |
| `EventLoop`, `MCEventLoop`, `EventLoopProofs` | `eventloop.cpp` and `handle.cpp`, with the kernel's side of epoll, eventfd and timerfd |
| `SharedValue`, `SharedValueProofs` | `asyncresult/sharedvalue.h` |
| `HazardPointers` | `task/hazardpointers.h`: the operations, which a client composes, and the steps of a scan |
| `MichaelScottQueue`, `MCMichaelScottQueue`, `MichaelScottQueueProofs` | `task/michaelscottqueue.h`, extends `HazardPointers` |
| `TaskScheduler`, `MCTaskScheduler`, `TaskSchedulerProofs` | `taskscheduler.cpp` and its header, composed with the loop, the pool and the futures by what their own modules establish |

Operators whose name says what they do wrong (`EmplaceNotifyWrongCv`,
`RetireDetaches`, ...) stand next to the action they are a mutant of. They are
part of no specification; each shows, when it replaces the action, that some
property notices.

### How code becomes actions

*BoundedBlockingQueue.* A critical section is one step, taken when the mutex is
free. When a predicate is false the thread keeps the mutex at a `*Block`
location and then waits, in a second step: `close()` takes no mutex and can fall
between the two. `emplace()` notifies after it has unlocked, in a step of its
own. `timeoutPop()` sees its deadline pass at any moment and evaluates its
predicate once more. Condition variables wake without cause. `ret[t]` is what
the last call returned, which the refinement compares.

*DynamicThreadPool.* The queue is used through its atomic specification, which
the detailed queue is proved to implement. Regions under the pool's mutex are
one step except the two that block inside: a worker that moves itself into the
zombie slot joins the previous zombie (`BeginRetire`, `Retire`), and the
destructor joins all workers (`LockToJoin`, `JoinAll`). A stop request reaches
the threads that are in the vector at that moment. Thread ids are used again
once joined.

*Future.* One step per access to the shared state: claim, write, publish,
notify; wait, second load, read. A value and an exception are both results.

*Logger.* `log()` is the push (queue steps), the test of its result and the
increment; the worker is pop, write, increment, notify; `flush()` is snapshot,
comparison, reload and wait, each a step. The worker loads the stream and
writes to it in two steps, and `setOutput()` may come between them. `owed` and
`stale` record what a `flush()` promises when it begins.

*EventLoop.* Regions under the registry's mutex are one step. `release()` is
two: unregister, close. The loop takes a batch, looks each number up under the
lock, then calls the copied callback, whose `readFd` and user part are two
steps. A number that was closed may be given out again at any moment, also while
the loop still has it in its batch or is about to call a copied callback with
it; `held` records which of the two it was when a handle was made. A timer set
to zero is disarmed, and `zero` records the timers that asked for it. `Failures`
lets `epoll_ctl`, `epoll_wait` and callbacks fail; a `create*` that failed leaves
its handle "failed". `due`, `calls` and `early` record what callbacks were owed
and made.

*SharedValue.* As in the queue: a critical section is one step, a `wait()` whose
predicate is false keeps the mutex for one more step, `close()` needs none, and
producers notify after they have unlocked.

*HazardPointers and MichaelScottQueue.* Every load, store and exchange of a
shared atomic is a step. `compare_exchange_weak` may fail for no reason, in
`protect()` too, which then takes a later free slot. A scan reads one slot
of one record per step, while other threads protect, retire and end. Nodes come
from the pool before they come from `operator new`, as in `emplace()`, so that
addresses are used again as early as the code allows. `linked` and `taken`
record the order of the two linearising exchanges, `misled` that an exchange of
the tail succeeded on a recycled address.

*TaskScheduler.* A call is the registration with the loop and, in a second step,
the entry under the mutex; the timer may fire in between. A registration gets
any free descriptor number, and arms the timer unless the delay is zero. The
loop thread takes a batch of numbers, looks each one up, copies the callback of
the handle that has the number then, reads the descriptor, waits for room in the
pool's queue and only then marks the timer as fired. `cancel()` erases the entry
and releases the handle, whose number may be given out again at once, and closes
the future in a second step. `held` and `zero` are those of the loop's module.
The destructor is stop, join of the loop thread, destruction of the members in
reverse order of declaration, join of the pool.

## 3. Runs

Passing runs, with their bounds:

| Run | Instance | Shows |
|---|---|---|
| Queue | 3 threads, 2 calls each, 2 values, capacity 2 | no lost wakeup of either condition variable, refinement of `ClosableQueue` (order, capacity, results); `timeoutPop` returns and nobody sleeps beside an element or a slot |
| Pool_safety | 4 ids, 2 clients, 6 tasks, capacity 5, sizes 1..2 | limits, ownership, retirement, each task in one place |
| Pool_live | 3 ids, 1 client, 5 tasks, one of which enqueues, capacity 3, sizes 1..2, names by rule | queued tasks run and the destructor returns, up to the three deadlocks below, all of which happen in this instance |
| Future | 3 threads, 2 results, 1 id | one result, published before it is read, never changed; `get` returns |
| Logger | 2 clients, 2 messages, 2 streams, capacity 2 | order, counters, drain at shutdown; every message written; `flush` covers, frees the old stream and returns, up to the races below |
| Loop_registry | timer, interval, trigger, 2 handles on one user fd, 2 numbers, delays 0 and 1, failures | registry, epoll and handles agree; descriptors exclusive; what leaks, to the descriptor; callbacks when due and timers once, but for a number of the batch |
| Loop_live | 2 timers, trigger, 2 numbers, delays 0 and 1, failures | triggers delivered, timers fire, up to the races below; `run` returns |
| SharedValue | 3 threads, 3 values, 1 exception, 1 id | values delivered once and in order; no sleep beside a result; an exception ends every wait, `close` those that sleep |
| MSQueue | 3 threads (2 push, 2 pop, one of them with a deadline), 3 nodes, 2 values, 2 slots, threshold 0; `protect()` of one producer may pass over a free slot | FIFO and values that arrive until a stale exchange of the tail; no use after reclamation; every node in one place; size balances |
| Scheduler | 1 immediate task, 1 timer, 1 interval (1 tick), the cleaner, 3 numbers, delays 0 and 1, 1 worker, queue of 1, failures | at most one run but for a number of the batch, pending timers cancellable, nothing dispatched after `cancel`, futures settle, fired entries cleaned, destructor returns |

The types of the queue, the pool, the future and the loop (and the parts of the
inductive invariants, as `WaitDecisionStands`, `MutexProtocol` and
`RetireDecisionStands`) are left to the proofs; in the other modules `TypeOK` is
a conjunct of an invariant of the run (`CountersBalance`, `NoSleepOnResult`,
`NodesAccounted`, `RunsOnce`).

Why these bounds: two threads on one side of a condition variable and one on the
other, with a slot to fight for, make every race between predicate, wait and
notification; the pool needs one worker above its cap in ids (the zombie) and
five queued tasks to exceed two per thread at its cap, and in Pool_live three
places and five tasks let a task find the queue full, and let one grow the pool
between the destructor's stop requests and its join; two places let the logger's
queue have an order; three threads let two deliveries race while one reads; two
descriptors and more handles than descriptors force numbers to be given out
again, also while the loop holds them; three nodes (one dummy, two elements) and
a threshold of zero make every removed node a candidate for reuse at once, which
the 1024 of the code only delays; a queue of one place makes the loop thread
wait in its callback; an interval that ticks once puts a second number into the
batch of the timer and of the cleaner, and its cancellation frees a number the
timer can get. TLC checks no liveness under symmetry: `LiveSpec` of the pool and
of the scheduler name interchangeable things by rule instead (thread ids and
descriptor numbers nobody uses), and in the pool a task has one nested task in
the pool at a time, and the client's tasks come in order. The pool's safety run
and the future have no bound on the number of calls; the logger's messages and
streams, the loop's handles, the values of the lock-free queue and of the shared
value and the scheduler's jobs are used once each, and the queue's threads have
budgets, which liveness needs: `std::mutex` promises no turn to a thread that
waits while others keep coming. The queue's safety and refinement are proved
without the budget (section 4), and so is every invariant of the other runs: the
theorems need none of these bounds. `SizeModulus` is 8 for 2^64: more than the
values there are, so that a wrap is seen as a wrap.

Runs that end in a counterexample, each for a sentence of the documentation
that the code does not keep:

| Run | The code | The sentence |
|---|---|---|
| Queue_close | `close()` without the mutex loses the wakeup of a `pop()` that is about to wait | "Both wake up immediately on close()" |
| MSQueue_aba | `emplace()` gives up its hazard slot before it exchanges the tail, which may succeed on a recycled node; an element is lost | "Unbounded lock-free FIFO queue" |

Disagreements that passing runs state as the exception of a property; without
the exception the property fails:

* `QueuedTaskRuns`: a task that calls `enqueue()` on a full queue waits there
  without a time limit (`dynamicthreadpool.cpp:167`); when every worker does, no
  slot ever becomes free (`WorkersWaitForSlot`).
* `DestructorReturns` of the pool (`JoinsForEver`): the destructor joins with the
  mutex held, and a task that calls `enqueue()` wants it, without a timeout
  (`dynamicthreadpool.cpp:154`; the comment at 66 speaks of avoiding this
  deadlock). And a worker that the `enqueue()` of a task creates after the stop
  requests (145-147) and before the join is never asked to stop: once the tasks
  are done it polls the closed queue for ever.
* `FlushCovers`: messages are counted after they are
  pushed (`logger.cpp:116`). A caller between the two lets `flush()` return
  before an earlier message is written, and the worker write to a stream
  replaced before (`logger.h:87-90` promises neither happens).
* `FlushReturns`: `flush()` waits on a second load of the counter
  (`logger.cpp:94`), and can sleep after its target is reached.
* `EveryWaitEnds`: `SharedValue::close()` takes no mutex (`sharedvalue.h:74`). A
  `wait()` that has just found the holder open sleeps on.
* `NoLeak`: createTrigger and createInterval do not close their descriptor when
  `epoll_ctl` fails (`eventloop.cpp:150`, `208`). The property counts: one
  descriptor is lost for each such call, and no other.
* `CallbackWhenDue` and `RunsOnce`: a number in the batch is looked up after it
  was given out again (`eventloop.cpp:240`), and the new timer or trigger is
  called back before it is due ("Called from run() once the timer expires",
  `eventloop.h:72`); a timer is called a second time when it expires, and a
  scheduled job runs twice.
* `TriggerDelivered`, `TimerFires` and `FutureSettles`: a callback copied before
  its handle was released reads the descriptor of the handle that has the number
  now (`eventloop.cpp:244`), and its event, for a timer the only one, is gone.
* `TimerFires` and `FutureSettles`: a delay of zero leaves the timerfd disarmed
  (`eventloop.cpp:165`); `schedule()` passes it on (`taskscheduler.cpp:127`).
* `ClosedNotRun`: `cancel()` of a timer that was dispatched and is not cleaned
  up answers true and closes the future of a task that runs
  (`taskscheduler.cpp:105`).
* `FutureSettles`: timers dropped by `stop()` or by the destructor, and tasks
  dropped with the pool's queue, leave their futures pending for ever.

Other disagreements met while modelling. The models contain the behaviour, the
first one with another value of a constant:

* Pool_live with `minPoolSize = 0`: `QueuedTaskRuns` fails. The first task finds
  no worker and creates none (`dynamicthreadpool.cpp:111`).
* `MichaelScottQueue::pop()` tests for emptiness before it loads `m_closed`
  (`michaelscottqueue.h:74-77`), so that it returns nothing although a push
  completed before the `close()` it saw; the bounded queue does not.
* `size()` of the lock-free queue wraps below zero when a pop overtakes the
  count of its push (`michaelscottqueue.h:153`); `adjustSize()` would then see a
  huge queue.
* `drain()` gives back the retired nodes of every queue of the same element
  type (`hazardpointers.h:116`, the reclaimer is static), protected or not.
* An exception of an interval is never cleared (`sharedvalue.h:61`): no later
  value is ever delivered.
* `Logger::shutdown()` joins a worker that `close()` may have failed to wake.
* `Promise::close()` overwrites Ready (`detail/future.h:120`), and a result that
  comes after a `close()` makes the future ready again.
* `setId()` takes its flag before it stores the id (`detail/future.h:114`).
* `EventLoop::stop()` makes no descriptor readable; the 100 ms timeout of
  `epoll_wait` ends `run()`, where the comment says that stop wakes it.
* Two handles on one user descriptor share a registry entry; releasing one
  unregisters the other, which stays `valid()`.
* A tick of the old period that is in the batch is delivered after
  `resetInterval()`.

### Fairness

Weak fairness of the steps a thread takes once inside a call: the operating
system runs every runnable thread, and time limits end. Nobody is obliged to
call anything. The queue alone needs no more, because its live clients make
finitely many calls. The logger has strong fairness of the steps inside its
queue: the worker loops for ever and would otherwise take the mutex each time a
client could have it, which a real mutex does not do for ever. In the pool each
thread is run (weak fairness per thread), and a task that enqueues again and
again still ends (strong fairness of `TaskEnds`). In the loop, the loop thread
runs, callbacks return and armed timers expire. The shared value grants its
mutex to a `wait()` that finds it free again and again (strong fairness of its
evaluation). In the scheduler the loop thread, the workers and a call under way
go on, tasks end, one-shot timers and the cleaner expire; nothing is assumed of
the other intervals. The lock-free queue states no fairness: its calls may lose
every exchange to others. The counterexample of Queue_close is found under the
fairness of its queue.

## 4. Proofs

Every invariant and every action property that a passing run checks is also a
theorem, for every value of the constants that satisfies the assumptions named
in the modules. They are: finite sets of threads, workers, clients, handles and
descriptor numbers where they are counted, and of nodes, of which there is at
least one; ids and "none" values that differ from the elements they stand beside
(in the logger, that no message is the string by which the queue's model says
that there is none); sizes in Nat, and a capacity of at least one for the
scheduler's queue. The three theorems about the list of the lock-free queue (all
but its size) speak of behaviours up to a stale exchange of `m_tail`, which
MSQueue_aba shows the code to admit: after it the list may be anything.

`BoundedBlockingQueueProofs`: `TypeCorrect`, `DecisionStands`, `NoLostWakeup` and
`Refinement`. The two wakeup invariants are inductive only together with the
types and `WaitDecisionStands`: a thread may join a wait set only when the deque
is as it saw it, so the count of elements against threads under way starts
right; each insertion adds a notifier, each removal takes its own remover off
the count, and notify_one moves one waiter to the other side.

`DynamicThreadPoolProofs`: `TypeCorrect`, `ThreadsOwned`, `SizeBounded`,
`ThreadsBounded`, `TasksKept`. The invariant adds `RetireDecisionStands` (the
worker holds the mutex from its decision to its leaving the vector) and
`ClientsGone`; the bound on live threads follows from ownership: vector plus
zombie. `TaskInOnePlace` needs `TasksApart`: a task in the hands of an
`enqueue()` under way is nowhere else, and a worker has a task exactly where its
loop runs one.

`FutureProofs`: `TypeCorrect`, `ResultRaceFree`, `ResultPublishedSafely`,
`ResultOneShot`, from `OneWriter`: the flag admits one thread for ever, and the
result is there before the status says so.

`EventLoopProofs`: `TypeCorrect`, `RegistryIsConsistent`, `DescriptorsExclusive`,
from `HandleFds`: a handle has an fd exactly while it is live or closing.
`NothingLeaked` counts on top of them: a step that makes a descriptor also makes
its owner or a failed call, and a step that closes one ends its owner.
`CallbacksWhenDue` needs `Owed` (a descriptor that is readable, in the batch or
copied belongs to a handle whose callback is due, but for a handle that was given
a number of the batch) and `OneShot`: the calls a timer had and those to come
(`ToCome`: armed; due, in the batch or copied; in its callback) never grow after
`createTimer`, which starts with one, or with two when the number is in the
batch. All five hold with numbers given out again at any moment, with zero delays
and with failures.

`SharedValueProofs`: `NoLostResult`, from `BlockedIsEmpty`: a `wait()` that has
decided to sleep keeps the mutex until it sleeps, so `set()` cannot come between;
`DeliveriesOrdered`, from `SlotIsNewest`: what `wait()` takes is the newest
publication, newer than all that were delivered.

`LoggerProofs`: `WritesInOrder`, `CountersAgree`, `ShutdownWritesAll`,
`FlushKeepsPromise`, and `LoggerUsesQueue`, the refinement of the queue's
specification by the logger. The logger and its queue have program counters of
their own; `ClientPlaces` and `WorkerPlaces` say which pairs occur and what the
queue's result means there. With them every one of the queue's steps is one of
five to the logger: a message inserted, refused or taken, the end found, or
nothing (`QueueEffect`). `FlushCovers` needs most: messages a `flush()` owes are
among the first `target` to enter the queue (`Covered`), as many are written as
`processed` says, and the stream in use is one that is not to be freed, or the
`flush()` that frees it waits for the message being written (`StreamsApart`).

`TaskSchedulerProofs`: `JobsRunOnce`, `PendingStaysCancellable`,
`ClosedOnlyLate`, and the action property `CancelIsFinal`. The invariant counts
for each job the runs it had, its tasks in the pool and the runs still to come,
as the loop's proofs count calls: no step but a registration increases the sum
(`Counted`), and a registration finds no trace of its job (`Stages`) and gives it
what `MayRun` allows: one run if it is armed, one more if its number is in the
batch. Every handle has its entry but for the calls under way (`Entered`,
`Covered`), and a job that was cancelled has no handle and gets none (`Dead`), so
that the lookup by number finds others only.

`MichaelScottQueueProofs`: `SizeIsBalanced`, `ReclamationIsSafe`,
`NodesStayAccounted`, `QueueIsFifo`. `SizeIsBalanced` is arithmetic modulo the
width of `size_t`, and needs no more than the types. The other three rest on
an assignment of the nodes to places, which exists in every state (`Reclaimed`):
each node has one kind (list, retired, orphaned, pool, new, old, fresh), the
kinds agree with the lists and locals they name (`Agrees`, `NoneTwice`), and

- following `next` inside the list stays there, never returns to `m_head` and
  never meets; a node that left the list has a successor, a new one has none
  (`Shape`): so an exchange that finds Null appends to the last node;
- what a thread relies on, that is, what it announced and then found again in
  `m_tail` or `m_head`, is announced in a slot and is in the list or not
  reclaimed yet (`Pointers`): `protect()` and the second load;
- a scan about to give such a node to the pool has still to come to the slot
  that announces it (`ScansSee`): the order of the walk, and that records are
  never removed.

Every step is then one of three to the list (`ListStep`): nothing, a push behind
the last node, a pop of the first. `Listed` adds that the list is a sequence of
nodes without repetition, whose values are those linked and not taken; that
`ChainFrom`, a recursive function, computes this sequence is shown by the
smallest index at which the two would differ. `NodesStayAccounted` counts places
from there. `QueueIsFifo` also needs that no value is linked twice (`NewValues`)
and that each value taken is moved out or is the one some consumer is about to
move out (`TakenValues`). All parts of these invariants were checked with TLC on
the instance of MSQueue before they were proved.

Only model-checked, and out of the prover's reach: liveness (`NoStrandedWaiter`,
`QueuedTaskRuns`, `DestructorReturns` of the pool and of the scheduler,
`GetReturns`, `MessagesWritten`, `FlushReturns`, `TriggerDelivered`,
`TimerFires`, `RunReturns`, `EveryWaitEnds`, `FutureSettles`, `FiredCleaned`),
whose proofs need fairness and ENABLED, and the two counterexamples.

## 5. Not modelled

* A second `init()` of a scheduler whose first one threw: the assignment to
  `loopThread` joins a running loop while a second thread runs the same loop.
* The pool over MichaelScottQueue: the pool's results hold for its bounded
  queue. Destruction of one lock-free queue while others of its type are used.
* Memory orders: atomics are sequentially consistent in the models. The code
  uses release/acquire pairs on single atomics for its hand-overs. One place
  needs more than that: `protect()` announces with release and the pointer is
  then loaded again with acquire (`hazardpointers.h:60`,
  `michaelscottqueue.h:129`); only sequential consistency keeps the two in
  order, which `NoUseAfterReclaim` therefore assumes.
* The exception of `protect()`, which is thrown when its exchange fails for no
  reason on every free slot of the record in one call (`hazardpointers.h:63`);
  the queue never has all slots in use when it protects.
* Exceptions of element types, failure to create a thread or to allocate, and
  the deletion of pooled nodes when the program ends.
* Log levels (a message below the level returns from `log()` before anything
  happens) and the text of messages.
* Misuse of objects: a handle used by two threads at once, or released after
  its loop is gone; calls from outside during the destruction of a pool, a
  scheduler or a queue.
* The examples, tests and build files, which hold no logic of the library.

## 6. Plan

Done: every component of the library has a module; the bounded queue (abstract,
detailed, refinement), the pool, the future, the logger over the detailed queue,
the event loop with its handles, the shared value, the lock-free queue over its
hazard pointers, and the scheduler composed of them. All eight of these models
have theorems, and no safety property of a run is left without one. Next, in
this order:

1. An abstract FIFO that `MichaelScottQueue` implements as long as no exchange of
   `m_tail` was stale, from `ListStep` and `Listed`; its `pop()` does not implement
   that of `ClosableQueue` (see "Other disagreements").
2. An abstract one-shot specification that `Future` implements.
3. The logger's counters and the queue's waits in one invariant: that the
   queue's `NoLostWakeups` holds inside the logger.
