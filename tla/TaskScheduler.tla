--------------------------- MODULE TaskScheduler ---------------------------
(***************************************************************************)
(* src/scheduler/taskscheduler.cpp and its header: the facade, composed     *)
(* with what it drives.  The event loop, the pool and the futures appear by *)
(* what their own modules establish: registry, epoll and handles agree and  *)
(* a descriptor number has one owner (EventLoop), the queue is atomic and   *)
(* bounded (ClosableQueue), a worker leaves its loop only between tasks     *)
(* (DynamicThreadPool), a status is stored in one step (Future) and a       *)
(* closed SharedValue stays closed (SharedValue).  The loop works on        *)
(* descriptor numbers, as the code does: a number that cancel() or the      *)
(* cleaner frees may be given to the next timer while the loop still holds  *)
(* it in its batch, or for a callback about to read it.                     *)
(*                                                                          *)
(* Each job is handed to execute(), schedule() or scheduleInterval() once,  *)
(* by a thread of its own; any thread, also a task, may cancel it later.    *)
(* The id of a job is the job itself.  The regions under Impl::mutex are    *)
(* one step each, the release of a handle in them included.  Callers        *)
(* respect the lifetime: no call is under way when the destructor starts    *)
(* and none follows.                                                        *)
(*                                                                          *)
(*   call[j]   new, pushing (execute), registered (the handle is made, the  *)
(*             entry not), returned                                         *)
(*   lpc       the loop thread: off, check, wait, batch, call (a callback   *)
(*             is copied), enqueue (inside pool.enqueue), fired (about to   *)
(*             set the flag), clean, done                                   *)
(*   wpc[w]    pop, run, exited (the stop request is looked at on the way   *)
(*             back to pop)                                                 *)
(*   mpc       the owner: idle, starting (inside init), ready or failed;    *)
(*             joinLoop, members, joinPool, gone (the destructor)           *)
(***************************************************************************)
EXTENDS Naturals, Sequences, FiniteSets

CONSTANTS Immediate, OneShots, Recurring,   \* the jobs, by the call that takes them
          Cleaner,         \* the interval of init(), Impl::timerCleaner
          Fds,             \* the numbers timerfd_create may return
          Delays,          \* the delays asked for, in milliseconds
          Workers,
          QueueCapacity,   \* 1000 in the code
          MaxTicks,        \* bound: expirations of an interval
          Failures,        \* whether registrations with the loop may fail
          None

Scheduled == OneShots \cup Recurring
Jobs == Immediate \cup Scheduled
Once == Immediate \cup OneShots
Timed == Scheduled \cup {Cleaner}   \* what has a descriptor

ASSUME SchedulerAssumption ==
  /\ Immediate \cap Scheduled = {} /\ OneShots \cap Recurring = {}
  /\ Cleaner \notin Jobs /\ None \notin Jobs \cup {Cleaner} \cup Fds
  /\ Delays \subseteq Nat
  /\ IsFiniteSet(Workers)
  /\ QueueCapacity \in Nat \ {0} /\ MaxTicks \in Nat /\ Failures \in BOOLEAN

VARIABLES
  call,
  fd,          \* the descriptor of a handle; None if there is no live handle
  armed,       \* the handles whose timer is still to expire
  due,         \* those whose descriptor is readable
  fired,       \* the timers whose flag is set
  entries,     \* the keys of Impl::timers and Impl::intervals
  cancelling,  \* the jobs whose entry is gone and whose onCancel is to be run
  late,        \* the timers cancelled when the loop had dispatched them (history)
  ticks,
  stop,        \* EventLoop::Impl::stop
  lpc,
  batch,       \* the numbers epoll_wait returned that are still to be handled
  cur, curfd,  \* whose callback was copied, and the number it is to read
  queue,       \* the task queue of Impl::pool
  wpc, running,
  status,      \* of the future or SharedValue: pending, ready, closed
  runs,        \* how often the function of a job of Once has run (history)
  held,        \* how the loop held the number of a timer when it was made (history)
  zero,        \* the timers made with a delay of zero (history)
  mpc
timerVars == <<fd, armed, due, fired, ticks>>
loopVars == <<lpc, batch, cur, curfd>>
madeVars == <<held, zero>>
workVars == <<wpc, running>>
cancelVars == <<cancelling, late>>
vars == <<call, timerVars, entries, cancelVars, stop, loopVars, queue, workVars,
          status, runs, madeVars, mpc>>

Init ==
  /\ call = [j \in Jobs |-> "new"]
  /\ fd = [j \in Timed |-> None] /\ armed = {} /\ due = {} /\ fired = {}
  /\ ticks = [j \in Recurring |-> 0]
  /\ entries = {} /\ cancelling = {} /\ late = {}
  /\ stop = FALSE
  /\ lpc = "off" /\ batch = {} /\ cur = None /\ curfd = None
  /\ queue = <<>>
  /\ wpc = [w \in Workers |-> "pop"] /\ running = [w \in Workers |-> None]
  /\ status = [j \in Jobs |-> "pending"] /\ runs = [j \in Once |-> 0]
  /\ held = [j \in OneShots |-> "no"] /\ zero = {}
  /\ mpc = "idle"

Alive == mpc \in {"idle", "starting", "ready", "failed"}

CallGoto(j, l) == call' = [call EXCEPT ![j] = l]

-----------------------------------------------------------------------------
(* execute(), schedule(), scheduleInterval() *)

Execute(j) ==
  /\ Alive /\ j \in Immediate /\ call[j] = "new"
  /\ CallGoto(j, "pushing")
  /\ UNCHANGED <<timerVars, entries, cancelVars, stop, loopVars, queue, workVars,
                 status, runs, madeVars, mpc>>

\* pool.enqueue() waits for room.
ExecutePush(j) ==
  /\ call[j] = "pushing"
  /\ Len(queue) < QueueCapacity
  /\ queue' = Append(queue, j)
  /\ CallGoto(j, "returned")
  /\ UNCHANGED <<timerVars, entries, cancelVars, stop, loopVars, workVars, status, runs,
                 madeVars, mpc>>

\* timerfd_create: any number that is not in use.
NewFd(j, n) ==
  /\ \A k \in Timed : fd[k] # n
  /\ fd' = [fd EXCEPT ![j] = n]

\* Whether the loop thread still holds a number: in its batch, or for a copied
\* callback that is about to read it.
HeldAs(n) == IF n \in batch THEN "batch" ELSE IF curfd = n THEN "call" ELSE "no"

\* createTimer(), createInterval(): the handle first; it may expire at once.  A
\* delay of zero disarms it (timerfd_settime).
Register(j, n, delay) ==
  /\ Alive /\ j \in Scheduled /\ call[j] = "new"
  /\ NewFd(j, n)
  /\ armed' = IF delay = 0 THEN armed ELSE armed \cup {j}
  /\ held' = IF j \in OneShots THEN [held EXCEPT ![j] = HeldAs(n)] ELSE held
  /\ zero' = IF j \in OneShots /\ delay = 0 THEN zero \cup {j} ELSE zero
  /\ CallGoto(j, "registered")
  /\ UNCHANGED <<due, fired, ticks, entries, cancelVars, stop, loopVars, queue,
                 workVars, status, runs, mpc>>

\* The loop throws: the future comes back closed.
RegisterFails(j) ==
  /\ Failures /\ Alive /\ j \in Scheduled /\ call[j] = "new"
  /\ status' = [status EXCEPT ![j] = "closed"]
  /\ CallGoto(j, "returned")
  /\ UNCHANGED <<timerVars, entries, cancelVars, stop, loopVars, queue, workVars, runs,
                 madeVars, mpc>>

\* Then, under the mutex, the entry; the id goes into the future on the way out.
AddEntry(j) ==
  /\ call[j] = "registered"
  /\ entries' = entries \cup {j}
  /\ CallGoto(j, "returned")
  /\ UNCHANGED <<timerVars, cancelVars, stop, loopVars, queue, workVars, status, runs,
                 madeVars, mpc>>

-----------------------------------------------------------------------------
(* cancel() *)

Members(s) == {s[i] : i \in 1..Len(s)}

\* The loop has taken the callback of j, or the pool its task.
Dispatched(j) ==
  \/ cur = j \/ runs[j] > 0 \/ j \in Members(queue)
  \/ \E w \in Workers : running[w] = j

\* The handles of gone are released: their registrations and descriptors go.
Release(gone) ==
  /\ fd' = [j \in Timed |-> IF j \in gone THEN None ELSE fd[j]]
  /\ armed' = armed \ gone /\ due' = due \ gone

EraseEntry(j) ==
  /\ Alive /\ call[j] = "returned"
  /\ j \in entries
  /\ entries' = entries \ {j}
  /\ cancelling' = cancelling \cup {j}
  /\ late' = IF j \in OneShots /\ Dispatched(j) THEN late \cup {j} ELSE late
  /\ UNCHANGED <<call, fired, ticks, stop, loopVars, queue, workVars, status, runs,
                 madeVars, mpc>>

\* Mutant of Cancel: the entry is erased, the handle stays with the loop.
CancelKeepsHandle(j) == EraseEntry(j) /\ UNCHANGED <<fd, armed, due>>

\* The entry is erased under the mutex, and with it the handle.
Cancel(j) == EraseEntry(j) /\ Release({j})

\* onCancel() closes the future or the SharedValue, whatever it holds by then.
OnCancel(j) ==
  /\ j \in cancelling
  /\ cancelling' = cancelling \ {j}
  /\ status' = [status EXCEPT ![j] = "closed"]
  /\ UNCHANGED <<call, timerVars, entries, late, stop, loopVars, queue, workVars, runs,
                 madeVars, mpc>>

-----------------------------------------------------------------------------
(* The loop thread, and time *)

Expiration(j, still) ==
  /\ j \in armed /\ j \notin due
  /\ due' = due \cup {j}
  /\ IF j \in Recurring
       THEN ticks[j] < MaxTicks /\ ticks' = [ticks EXCEPT ![j] = @ + 1]
       ELSE UNCHANGED ticks
  /\ armed' = still
  /\ UNCHANGED <<call, fd, fired, entries, cancelVars, stop, loopVars, queue,
                 workVars, status, runs, madeVars, mpc>>

\* Mutant of Expire: a one-shot timer is armed with a period.
ExpireRepeats(j) == Expiration(j, armed)

\* createTimer() arms its descriptor for one expiration, createInterval() for all.
Expire(j) == Expiration(j, armed \ ({j} \cap OneShots))

loopOnly == <<call, entries, cancelVars, stop, queue, workVars, status, runs, madeVars, mpc>>

CheckStop ==
  /\ lpc = "check"
  /\ lpc' = IF stop THEN "done" ELSE "wait"
  /\ UNCHANGED <<loopOnly, timerVars, batch, cur, curfd>>

EpollWait ==
  /\ lpc = "wait"
  /\ batch' = {fd[j] : j \in due}
  /\ lpc' = IF due = {} THEN "check" ELSE "batch"
  /\ UNCHANGED <<loopOnly, timerVars, cur, curfd>>

\* The callback that is registered for the number now, if any, is copied.
Dispatch(n) ==
  /\ lpc = "batch" /\ n \in batch
  /\ batch' = batch \ {n}
  /\ \/ \E j \in Timed : fd[j] = n /\ lpc' = "call" /\ cur' = j /\ curfd' = n
     \/ (\A j \in Timed : fd[j] # n) /\ UNCHANGED <<lpc, cur, curfd>>
  /\ UNCHANGED <<loopOnly, timerVars>>

BatchDone ==
  /\ lpc = "batch" /\ batch = {}
  /\ lpc' = "check"
  /\ UNCHANGED <<loopOnly, timerVars, batch, cur, curfd>>

\* readFd, whoever owns the number by now; then the scheduler's part of the callback.
ReadFd ==
  /\ lpc = "call"
  /\ due' = {j \in due : fd[j] # curfd}
  /\ lpc' = IF cur = Cleaner THEN "clean" ELSE "enqueue"
  /\ curfd' = None
  /\ UNCHANGED <<loopOnly, fd, armed, fired, ticks, batch, cur>>

\* Where the loop goes on, the task being queued.
Queued ==
  /\ lpc' = IF cur \in OneShots THEN "fired" ELSE "batch"
  /\ cur' = IF cur \in OneShots THEN cur ELSE None

\* The callback of the handle: pool.enqueue(), on the loop thread, waits for room.
LoopEnqueue ==
  /\ lpc = "enqueue"
  /\ Len(queue) < QueueCapacity
  /\ queue' = Append(queue, cur)
  /\ Queued
  /\ UNCHANGED <<call, timerVars, entries, cancelVars, stop, batch, curfd, workVars,
                 status, runs, madeVars, mpc>>

MarkFired ==
  /\ lpc = "fired"
  /\ fired' = fired \cup {cur}
  /\ lpc' = "batch" /\ cur' = None
  /\ UNCHANGED <<loopOnly, fd, armed, due, ticks, batch, curfd>>

\* The callback of timerCleaner drops the entries of gone, and with them their
\* handles, under the mutex.
Drop(gone) ==
  /\ lpc = "clean"
  /\ entries' = entries \ gone
  /\ Release(entries \cap gone)
  /\ lpc' = "batch" /\ cur' = None
  /\ UNCHANGED <<call, fired, ticks, cancelVars, stop, batch, curfd, queue, workVars, runs,
                 madeVars, mpc>>

\* Mutants of Clean: it drops what has expired; it runs the onCancel of what it
\* drops.
CleanExpired == Drop(OneShots \ armed) /\ UNCHANGED status
CleanCancels ==
  /\ Drop(fired)
  /\ status' = [j \in Jobs |-> IF j \in entries \cap fired THEN "closed" ELSE status[j]]

Clean == Drop(fired) /\ UNCHANGED status

-----------------------------------------------------------------------------
(* The workers of the pool *)

workOnly == <<call, timerVars, entries, cancelVars, stop, loopVars, madeVars, mpc>>

NextRound == IF mpc = "joinPool" THEN "exited" ELSE "pop"

PopTask(w) ==
  /\ wpc[w] = "pop" /\ queue # <<>>
  /\ running' = [running EXCEPT ![w] = Head(queue)]
  /\ queue' = Tail(queue)
  /\ wpc' = [wpc EXCEPT ![w] = "run"]
  /\ UNCHANGED <<workOnly, status, runs>>

\* The queue is closed and empty, or the time to wait is over.
PopNothing(w) ==
  /\ wpc[w] = "pop" /\ queue = <<>>
  /\ wpc' = [wpc EXCEPT ![w] = NextRound]
  /\ UNCHANGED <<workOnly, running, queue, status, runs>>

\* Mutant of TaskEnds: an exception of the job's function is not set.
TaskEndsSwallows(w) ==
  LET j == running[w] IN
  /\ wpc[w] = "run"
  /\ runs' = IF j \in Once THEN [runs EXCEPT ![j] = @ + 1] ELSE runs
  /\ status' \in {status, [status EXCEPT ![j] = "ready"]}
  /\ running' = [running EXCEPT ![w] = None]
  /\ wpc' = [wpc EXCEPT ![w] = NextRound]
  /\ UNCHANGED <<workOnly, queue>>

\* The job's function returns or throws, and the result or the exception is set:
\* a future becomes ready even if it was closed, a closed SharedValue does not.
TaskEnds(w) ==
  LET j == running[w] IN
  /\ wpc[w] = "run"
  /\ runs' = IF j \in Once THEN [runs EXCEPT ![j] = @ + 1] ELSE runs
  /\ status' = [status EXCEPT ![j] = IF j \in Recurring /\ @ = "closed" THEN @ ELSE "ready"]
  /\ running' = [running EXCEPT ![w] = None]
  /\ wpc' = [wpc EXCEPT ![w] = NextRound]
  /\ UNCHANGED <<workOnly, queue>>

-----------------------------------------------------------------------------
(* init(), stop() and the destructor *)

ownerOnly == <<call, entries, cancelVars, queue, workVars, status, runs, madeVars>>

StartLoop ==
  /\ mpc = "idle"
  /\ mpc' = "starting" /\ lpc' = "check"
  /\ UNCHANGED <<ownerOnly, timerVars, stop, batch, cur, curfd>>

\* Mutant of InstallCleaner: the period is zero, which disarms the timerfd.
InstallCleanerUnarmed(n) ==
  /\ mpc = "starting"
  /\ mpc' = "ready"
  /\ NewFd(Cleaner, n)
  /\ UNCHANGED <<ownerOnly, armed, due, fired, ticks, stop, loopVars>>

InstallCleaner(n) ==
  /\ mpc = "starting"
  /\ mpc' = "ready"
  /\ NewFd(Cleaner, n) /\ armed' = armed \cup {Cleaner}
  /\ UNCHANGED <<ownerOnly, due, fired, ticks, stop, loopVars>>

\* createInterval throws: init() throws, with the loop running and no cleaner.
InstallFails ==
  /\ Failures /\ mpc = "starting"
  /\ mpc' = "failed"
  /\ UNCHANGED <<ownerOnly, timerVars, stop, loopVars>>

Stop ==
  /\ Alive /\ ~stop
  /\ stop' = TRUE
  /\ UNCHANGED <<ownerOnly, timerVars, loopVars, mpc>>

BeginDestroy(s) ==
  /\ mpc \in {"idle", "ready", "failed"}
  /\ \A j \in Jobs : call[j] \in {"new", "returned"}
  /\ cancelling = {}
  /\ stop' = s
  /\ mpc' = "joinLoop"
  /\ UNCHANGED <<ownerOnly, timerVars, loopVars>>

\* Mutant of Destroy: the loop is not told to stop.
DestroyUnstopped == BeginDestroy(stop)

Destroy == BeginDestroy(TRUE)

JoinLoop ==
  /\ mpc = "joinLoop"
  /\ lpc \in {"off", "done"}
  /\ mpc' = "members"
  /\ UNCHANGED <<ownerOnly, timerVars, stop, loopVars>>

\* The entries, the cleaner and the loop go; no onCancel is run.  Then the pool
\* asks its workers to stop.
DestroyMembers ==
  /\ mpc = "members"
  /\ entries' = {} /\ Release(Timed)
  /\ mpc' = "joinPool"
  /\ UNCHANGED <<call, fired, ticks, cancelVars, stop, loopVars, queue, workVars, status, runs,
                 madeVars>>

JoinPool ==
  /\ mpc = "joinPool"
  /\ \A w \in Workers : wpc[w] = "exited"
  /\ queue' = <<>>
  /\ mpc' = "gone"
  /\ UNCHANGED <<call, timerVars, entries, cancelVars, stop, loopVars, workVars, status, runs,
                 madeVars>>

-----------------------------------------------------------------------------
LoopStep ==
  \/ CheckStop \/ EpollWait \/ BatchDone \/ ReadFd \/ LoopEnqueue \/ MarkFired \/ Clean
  \/ \E n \in Fds : Dispatch(n)

WorkerStep(w) == PopTask(w) \/ PopNothing(w) \/ TaskEnds(w)

CallStep(j) == ExecutePush(j) \/ AddEntry(j) \/ OnCancel(j)
Call(j) ==
  \/ Execute(j) \/ RegisterFails(j) \/ Cancel(j)
  \/ \E n \in Fds, delay \in Delays : Register(j, n, delay)

OwnerStep ==
  \/ \E n \in Fds : InstallCleaner(n)
  \/ JoinLoop \/ DestroyMembers \/ JoinPool

Next ==
  \/ LoopStep \/ OwnerStep
  \/ \E w \in Workers : WorkerStep(w)
  \/ \E j \in Jobs : Call(j) \/ CallStep(j)
  \/ \E j \in Timed : Expire(j)
  \/ StartLoop \/ InstallFails \/ Stop \/ Destroy

Spec == Init /\ [][Next]_vars

\* Threads that can run are run, tasks end, time passes; nobody is obliged to
\* call.  Each job has finitely many steps of a call and one expiration, so
\* fairness for all of them together is fairness for each.
Fairness ==
  /\ WF_vars(LoopStep) /\ WF_vars(OwnerStep)
  /\ \A w \in Workers : WF_vars(WorkerStep(w))
  /\ WF_vars(\E j \in Jobs : CallStep(j))
  /\ WF_vars(\E j \in OneShots : Expire(j)) /\ WF_vars(Expire(Cleaner))

FairSpec == Spec /\ Fairness

-----------------------------------------------------------------------------
(* Properties *)

Handles == {j \in Timed : fd[j] # None}

\* Every variable keeps its type, no number has two owners, and the loop thread
\* has a job in hand exactly while it is inside a callback.
TypeOK ==
  /\ call \in [Jobs -> {"new", "pushing", "registered", "returned"}]
  /\ fd \in [Timed -> Fds \cup {None}] /\ armed \cup due \subseteq Handles
  /\ \A j, k \in Handles : fd[j] = fd[k] => j = k
  /\ batch \subseteq Fds
  /\ fired \subseteq OneShots /\ entries \subseteq Scheduled
  /\ cancelling \subseteq Scheduled /\ late \subseteq OneShots
  /\ ticks \in [Recurring -> 0..MaxTicks] /\ stop \in BOOLEAN
  /\ cur \in Timed \cup {None} /\ curfd \in Fds \cup {None}
  /\ cur # None <=> lpc \in {"call", "enqueue", "fired", "clean"}
  /\ curfd # None <=> lpc = "call"
  /\ Members(queue) \subseteq Jobs /\ Len(queue) <= QueueCapacity
  /\ running \in [Workers -> Jobs \cup {None}]
  /\ status \in [Jobs -> {"pending", "ready", "closed"}]
  /\ held \in [OneShots -> {"no", "batch", "call"}] /\ zero \subseteq OneShots

\* How often a job may run: once, and a timer of delay zero not at all; once more
\* if the timer was given a number of the batch the loop was working on.
MayRun(j) ==
  IF j \in Immediate THEN 1
  ELSE (IF j \in zero THEN 0 ELSE 1) + (IF held[j] = "batch" THEN 1 ELSE 0)

\* A job of execute() or schedule() runs at most once: it is in one place, in the
\* hands of the loop, in the queue or with one worker, or it has run.  The
\* exception is a timer that was given a number of the batch the loop was working
\* on, which may be called for the handle that had the number before: early, and
\* once more when it expires.  (With the types.)
RunsOnce ==
  /\ TypeOK
  /\ \A j \in Once :
       Cardinality({i \in 1..Len(queue) : queue[i] = j})
         + Cardinality({w \in Workers : running[w] = j})
         + (IF lpc \in {"call", "enqueue"} /\ cur = j THEN 1 ELSE 0) + runs[j] <= MayRun(j)

\* While the scheduler lives a timer that has not fired can be cancelled: it has
\* its entry as soon as its future is handed out, and the cleaner leaves it
\* alone.  Every entry has a registered handle, and every handle an entry, but
\* for the calls under way.
PendingCancellable ==
  Alive =>
    /\ \A j \in OneShots :
         call[j] = "returned" /\ status[j] = "pending" /\ j \notin fired \cup cancelling
           => j \in entries
    /\ entries \cup {j \in Jobs : call[j] = "registered"} = Handles \ {Cleaner}

\* A future is closed although its job runs only by a cancel() that came when the
\* loop had dispatched it: up to the next cleaning the entry of a fired timer is
\* there, and cancel() answers true for it ("Cancels a pending timer", header
\* line 194).
ClosedNotRun ==
  \A j \in Once :
    status[j] = "closed" /\ Dispatched(j) => j \in late

\* Once its entry is gone, a job reaches the pool only if its callback was
\* already being called: no tick is dispatched after cancel() returned, although
\* the loop may hold its number in a batch.
CancelStopsDispatch ==
  [][\A j \in Scheduled :
       j \notin entries /\ call[j] # "registered" /\ cur # j =>
         cur' # j /\ \A i \in (Len(queue) + 1)..Len(queue') : queue'[i] # j]_vars

\* Every future is settled: of execute() unless the scheduler is destroyed with
\* the task in the queue, of schedule() unless the loop is stopped before.  The
\* exceptions are a timer of delay zero, which never expires, and one that was
\* given the number a released handle's callback was about to read: that callback
\* may swallow its expiration.
FutureSettles ==
  /\ \A j \in Immediate : call[j] = "returned" ~> status[j] # "pending" \/ ~Alive
  /\ \A j \in OneShots :
       call[j] = "returned" /\ mpc = "ready" /\ j \notin zero /\ held[j] # "call"
         ~> status[j] # "pending" \/ stop

\* The entries of fired timers do not stay: the map does not grow for ever.
FiredCleaned ==
  \A j \in OneShots : j \in fired /\ mpc = "ready" ~> j \notin entries \/ stop

\* The destructor returns, also while the loop thread waits for room in the queue.
DestructorReturns == mpc = "joinLoop" ~> mpc = "gone"
=============================================================================
