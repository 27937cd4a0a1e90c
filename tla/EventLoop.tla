----------------------------- MODULE EventLoop -----------------------------
(***************************************************************************)
(* src/event/eventloop.cpp and src/event/handle.cpp: one epoll loop thread, *)
(* and other threads (or the callbacks themselves) that create, trigger,    *)
(* re-arm and release handles.                                              *)
(*                                                                          *)
(* The kernel is external and modelled from how the code uses it: a set of  *)
(* open descriptors, those epoll watches, those that are readable, and the  *)
(* timers that are armed.  Closing a descriptor also removes it from epoll, *)
(* and its number may be given out again at once, also while the loop still *)
(* has it in its hands.  A callback that reads its descriptor clears what   *)
(* is readable there, whoever owns the number by then.                      *)
(*                                                                          *)
(* Every region under Impl::mutex is one step.  release() is two: the       *)
(* registration goes, then the descriptor is closed.  The loop copies a     *)
(* callback in one step, reads the descriptor in a second and runs the      *)
(* user's part in a third.  Each handle object is created once, is used by  *)
(* one thread at a time, and is released before the loop is destroyed or    *)
(* not at all.                                                              *)
(***************************************************************************)
EXTENDS Naturals, FiniteSets

CONSTANTS Timers, Intervals, Triggers, Events,   \* handles, by kind
          OwnFds,     \* the numbers eventfd and timerfd_create may return
          UserFds,    \* descriptors of the program, open for the whole time
          Delays,     \* the delays asked for, in milliseconds
          Failures,   \* whether epoll_ctl, epoll_wait and callbacks may fail
          None

Owning == Timers \cup Intervals \cup Triggers
Handles == Owning \cup Events
Fds == OwnFds \cup UserFds

ASSUME EventLoopAssumption ==
  /\ Owning \cap Events = {} /\ Timers \cap (Intervals \cup Triggers) = {}
  /\ Intervals \cap Triggers = {} /\ OwnFds \cap UserFds = {}
  /\ None \notin Handles \cup Fds
  /\ IsFiniteSet(Handles) /\ IsFiniteSet(OwnFds)
  /\ Delays \subseteq Nat /\ Failures \in BOOLEAN

VARIABLES
  hstate,   \* of a handle: new, live, closing (unregistered, not closed), dead,
            \* and failed when create* threw
  hfd,      \* HandleBase::Impl::fd, None for -1
  fired,    \* the timers whose fired flag is set
  events,   \* Impl::events: the handle whose callback is registered for an fd
  stop,     \* Impl::stop
  lpc,      \* the loop thread: off, check, wait, batch, call, user, done,
            \* and destroyed once the EventLoop object is gone
  batch,    \* the fds epoll_wait returned that are still to be handled
  cb, cbfd, \* the callback copied, and the fd it is called with
  open, epoll, ready, armed,   \* the kernel: see above
  due,      \* handles whose callback is owed: expired or triggered (history)
  calls,    \* how often a timer's callback was called, up to three (history)
  early,    \* timers and triggers whose callback was called without being due (history)
  held,     \* how the loop held the number of a handle when it was made (history)
  zero      \* timers made with a delay of zero (history)
handleVars == <<hstate, hfd>>
loopVars == <<lpc, batch, cb, cbfd>>
kernelVars == <<open, epoll, ready, armed>>
historyVars == <<due, calls, early, held, zero>>
vars == <<handleVars, fired, events, stop, loopVars, kernelVars, historyVars>>

Init ==
  /\ hstate = [h \in Handles |-> "new"]
  /\ hfd = [h \in Handles |-> None]
  /\ fired = {}
  /\ events = [fd \in Fds |-> None]
  /\ stop = FALSE
  /\ lpc = "off" /\ batch = {} /\ cb = None /\ cbfd = None
  /\ open = UserFds /\ epoll = {} /\ ready = {} /\ armed = {}
  /\ due = {} /\ calls = [h \in Timers |-> 0] /\ early = {}
  /\ held = [h \in Owning |-> "no"] /\ zero = {}

-----------------------------------------------------------------------------
(* create* *)

\* registerEvent: EPOLL_CTL_ADD, or MOD when the fd is there already; the
\* handle that is returned takes the place of any earlier one in the registry.
RegisterEvent(h, fd) ==
  /\ epoll' = epoll \cup {fd}
  /\ events' = [events EXCEPT ![fd] = h]
  /\ hstate' = [hstate EXCEPT ![h] = "live"]
  /\ hfd' = [hfd EXCEPT ![h] = fd]

\* eventfd, timerfd_create: any number that is not in use.
NewFd(fd) ==
  /\ fd \in OwnFds \ open
  /\ open' = open \cup {fd}

\* Whether the loop thread still holds a number: in its batch, or for a copied
\* callback that is about to read it.
HeldAs(fd) == IF fd \in batch THEN "batch"
              ELSE IF lpc = "call" /\ cbfd = fd THEN "call" ELSE "no"

\* The handle of a descriptor of its own (and the history of both).
RegisterOwn(h, fd) ==
  /\ NewFd(fd)
  /\ RegisterEvent(h, fd)
  /\ held' = [held EXCEPT ![h] = HeldAs(fd)]

CreateEvent(h, fd) ==
  /\ h \in Events /\ hstate[h] = "new"
  /\ fd \in UserFds
  /\ RegisterEvent(h, fd)
  /\ UNCHANGED <<fired, stop, loopVars, open, ready, armed, historyVars>>

CreateTrigger(h, fd) ==
  /\ h \in Triggers /\ hstate[h] = "new"
  /\ RegisterOwn(h, fd)
  /\ UNCHANGED <<fired, stop, loopVars, ready, armed, due, calls, early, zero>>

\* timerfd_settime: a timer set to zero is disarmed; expirations not yet read
\* are forgotten.
SetTime(fd, delay) ==
  /\ armed' = IF delay = 0 THEN armed \ {fd} ELSE armed \cup {fd}
  /\ ready' = ready \ {fd}

\* Mutant: timerfd_settime is forgotten.
CreateTimerUnarmed(h, fd, delay) ==
  /\ h \in Timers \cup Intervals /\ hstate[h] = "new"
  /\ RegisterOwn(h, fd)
  /\ zero' = IF h \in Timers /\ delay = 0 THEN zero \cup {h} ELSE zero
  /\ UNCHANGED <<fired, stop, loopVars, ready, armed, due, calls, early>>

\* createTimer and createInterval
CreateTimer(h, fd, delay) ==
  /\ h \in Timers \cup Intervals /\ hstate[h] = "new"
  /\ RegisterOwn(h, fd)
  /\ SetTime(fd, delay)
  /\ zero' = IF h \in Timers /\ delay = 0 THEN zero \cup {h} ELSE zero
  /\ UNCHANGED <<fired, stop, loopVars, due, calls, early>>

\* epoll_ctl fails and create* throws.  The TimerHandle, made before, closes its
\* descriptor on the way out; a trigger or an interval has no handle yet.
CreateFails(h, fd) ==
  /\ Failures
  /\ h \in Owning /\ hstate[h] = "new"
  /\ IF h \in Timers
       THEN fd \in OwnFds \ open /\ UNCHANGED open
       ELSE NewFd(fd)
  /\ hstate' = [hstate EXCEPT ![h] = "failed"]
  /\ UNCHANGED <<hfd, fired, events, stop, loopVars, epoll, ready, armed, historyVars>>

-----------------------------------------------------------------------------
(* Handles *)

\* Mutant: the registry keeps its entry.
UnregisterKeepsEvent(h) ==
  /\ hstate[h] = "live"
  /\ epoll' = epoll \ {hfd[h]}
  /\ hstate' = [hstate EXCEPT ![h] = IF h \in Owning THEN "closing" ELSE "dead"]
  /\ hfd' = IF h \in Owning THEN hfd ELSE [hfd EXCEPT ![h] = None]
  /\ UNCHANGED <<fired, events, stop, loopVars, open, ready, armed, historyVars>>

\* Mutant: no handle owns its fd.
UnregisterNeverOwns(h) ==
  /\ hstate[h] = "live"
  /\ epoll' = epoll \ {hfd[h]}
  /\ events' = [events EXCEPT ![hfd[h]] = None]
  /\ hstate' = [hstate EXCEPT ![h] = "dead"]
  /\ hfd' = [hfd EXCEPT ![h] = None]
  /\ UNCHANGED <<fired, stop, loopVars, open, ready, armed, historyVars>>

\* unregisterEvent, from release(): cancel(), a destructor or a move assignment.
\* It removes whatever is registered for the fd.
Unregister(h) ==
  /\ hstate[h] = "live"
  /\ epoll' = epoll \ {hfd[h]}
  /\ events' = [events EXCEPT ![hfd[h]] = None]
  /\ hstate' = [hstate EXCEPT ![h] = IF h \in Owning THEN "closing" ELSE "dead"]
  /\ hfd' = IF h \in Owning THEN hfd ELSE [hfd EXCEPT ![h] = None]
  /\ UNCHANGED <<fired, stop, loopVars, open, ready, armed, historyVars>>

\* Mutant: fd is not set to -1, so that the handle may close it again.
CloseFdKeepsNumber(h) ==
  /\ hstate[h] = "closing"
  /\ open' = open \ {hfd[h]}
  /\ epoll' = epoll \ {hfd[h]}
  /\ ready' = ready \ {hfd[h]}
  /\ armed' = armed \ {hfd[h]}
  /\ UNCHANGED <<handleVars, fired, events, stop, loopVars, historyVars>>

CloseFd(h) ==
  /\ hstate[h] = "closing"
  /\ open' = open \ {hfd[h]}
  /\ epoll' = epoll \ {hfd[h]}
  /\ ready' = ready \ {hfd[h]}
  /\ armed' = armed \ {hfd[h]}
  /\ hstate' = [hstate EXCEPT ![h] = "dead"]
  /\ hfd' = [hfd EXCEPT ![h] = None]
  /\ UNCHANGED <<fired, events, stop, loopVars, historyVars>>

Trigger(h) ==
  /\ h \in Triggers /\ hstate[h] = "live"
  /\ ready' = ready \cup {hfd[h]}
  /\ due' = due \cup {h}
  /\ UNCHANGED <<handleVars, fired, events, stop, loopVars, open, epoll, armed,
                 calls, early, held, zero>>

ResetInterval(h, delay) ==
  /\ h \in Intervals /\ hstate[h] = "live"
  /\ SetTime(hfd[h], delay)
  /\ UNCHANGED <<handleVars, fired, events, stop, loopVars, open, epoll, historyVars>>

-----------------------------------------------------------------------------
(* The kernel and the program's own descriptors: external *)

\* A timer expires; a one-shot timer is then disarmed.
Expire(h) ==
  /\ h \in Timers \cup Intervals /\ hfd[h] \in armed
  /\ ready' = ready \cup {hfd[h]}
  /\ armed' = IF h \in Timers THEN armed \ {hfd[h]} ELSE armed
  /\ due' = due \cup {h}
  /\ UNCHANGED <<handleVars, fired, events, stop, loopVars, open, epoll,
                 calls, early, held, zero>>

Arrives(fd) ==
  /\ fd \in UserFds
  /\ ready' = ready \cup {fd}
  /\ UNCHANGED <<handleVars, fired, events, stop, loopVars, open, epoll, armed,
                 historyVars>>

-----------------------------------------------------------------------------
(* run() and stop() *)

Run ==
  /\ lpc \in {"off", "done"}
  /\ lpc' = "check"
  /\ UNCHANGED <<handleVars, fired, events, stop, batch, cb, cbfd, kernelVars, historyVars>>

CheckStop ==
  /\ lpc = "check"
  /\ lpc' = IF stop THEN "done" ELSE "wait"
  /\ UNCHANGED <<handleVars, fired, events, stop, batch, cb, cbfd, kernelVars, historyVars>>

\* epoll_wait returns the ready descriptors (there are fewer than 64).
EpollWait ==
  /\ lpc = "wait"
  /\ epoll \cap ready # {}
  /\ batch' = epoll \cap ready
  /\ lpc' = "batch"
  /\ UNCHANGED <<handleVars, fired, events, stop, cb, cbfd, kernelVars, historyVars>>

\* Mutant: epoll_wait without a timeout.
EpollTimeoutNever ==
  /\ lpc = "wait"
  /\ FALSE
  /\ UNCHANGED vars

\* EPOLL_TIMEOUT is over, or a signal interrupts the wait.
EpollTimeout ==
  /\ lpc = "wait"
  /\ epoll \cap ready = {}
  /\ lpc' = "check"
  /\ UNCHANGED <<handleVars, fired, events, stop, batch, cb, cbfd, kernelVars, historyVars>>

\* Mutant: the fd is not consumed from the batch.
CopyCallbackRepeats(fd) ==
  /\ lpc = "batch" /\ fd \in batch
  /\ IF events[fd] = None
       THEN UNCHANGED <<lpc, cb, cbfd>>
       ELSE lpc' = "call" /\ cb' = events[fd] /\ cbfd' = fd
  /\ UNCHANGED <<handleVars, fired, events, stop, batch, kernelVars, historyVars>>

\* The registry is consulted again, under the mutex, for each fd of the batch.
CopyCallback(fd) ==
  /\ lpc = "batch" /\ fd \in batch
  /\ batch' = batch \ {fd}
  /\ IF events[fd] = None
       THEN UNCHANGED <<lpc, cb, cbfd>>
       ELSE lpc' = "call" /\ cb' = events[fd] /\ cbfd' = fd
  /\ UNCHANGED <<handleVars, fired, events, stop, kernelVars, historyVars>>

BatchDone ==
  /\ lpc = "batch" /\ batch = {}
  /\ lpc' = "check"
  /\ UNCHANGED <<handleVars, fired, events, stop, batch, cb, cbfd, kernelVars, historyVars>>

\* readFd, or the program's callback that reads its own descriptor.
ReadFd ==
  /\ lpc = "call"
  /\ lpc' = "user"
  /\ ready' = ready \ {cbfd}
  /\ early' = IF cb \in Timers \cup Triggers /\ cb \notin due THEN early \cup {cb} ELSE early
  /\ due' = due \ {cb}
  /\ UNCHANGED <<handleVars, fired, events, stop, batch, cb, cbfd, open, epoll, armed,
                 calls, held, zero>>

\* One more call of the user's part of the callback of h (history).
Called(h) ==
  calls' = IF h \in Timers /\ calls[h] < 3 THEN [calls EXCEPT ![h] = @ + 1] ELSE calls

\* The callback of a timer sets the flag after the user's part.
SetFired(h) == fired' = IF h \in Timers THEN fired \cup {h} ELSE fired

\* Mutant: the descriptor is read after the user's part instead of before it.
UserCallbackReadsLast ==
  /\ lpc = "user"
  /\ lpc' = "batch"
  /\ ready' = ready \ {cbfd}
  /\ Called(cb) /\ SetFired(cb)
  /\ cb' = None /\ cbfd' = None
  /\ UNCHANGED <<handleVars, events, stop, batch, open, epoll, armed, due, early, held, zero>>

UserCallback ==
  /\ lpc = "user"
  /\ lpc' = "batch"
  /\ Called(cb) /\ SetFired(cb)
  /\ cb' = None /\ cbfd' = None
  /\ UNCHANGED <<handleVars, events, stop, batch, kernelVars, due, early, held, zero>>

\* epoll_wait fails, or the user's callback throws: run() throws.
RunThrows ==
  /\ Failures
  /\ \/ lpc = "wait" /\ UNCHANGED calls
     \/ lpc = "user" /\ Called(cb)
  /\ lpc' = "done"
  /\ batch' = {} /\ cb' = None /\ cbfd' = None
  /\ UNCHANGED <<handleVars, fired, events, stop, kernelVars, due, early, held, zero>>

Stop ==
  /\ stop' = TRUE
  /\ UNCHANGED <<handleVars, fired, events, loopVars, kernelVars, historyVars>>

\* ~EventLoop: the fds still registered leave epoll.  No create* or release()
\* may run then, and none may follow.
Destroy ==
  /\ lpc \in {"off", "done"}
  /\ \A h \in Handles : hstate[h] # "closing"
  /\ stop' = TRUE
  /\ epoll' = {}
  /\ lpc' = "destroyed"
  /\ UNCHANGED <<handleVars, fired, events, batch, cb, cbfd, open, ready, armed, historyVars>>

-----------------------------------------------------------------------------
LoopStep ==
  \/ CheckStop \/ EpollWait \/ EpollTimeout \/ BatchDone \/ ReadFd \/ UserCallback
  \/ \E fd \in Fds : CopyCallback(fd)

HandleStep(h) ==
  \/ \E fd \in Fds : CreateEvent(h, fd) \/ CreateTrigger(h, fd) \/ CreateFails(h, fd)
  \/ \E fd \in Fds, delay \in Delays : CreateTimer(h, fd, delay)
  \/ \E delay \in Delays : ResetInterval(h, delay)
  \/ Unregister(h) \/ CloseFd(h) \/ Trigger(h) \/ Expire(h)

Next ==
  /\ lpc # "destroyed"
  /\ \/ Run \/ LoopStep \/ RunThrows \/ Stop \/ Destroy
     \/ \E h \in Handles : HandleStep(h)
     \/ \E fd \in Fds : Arrives(fd)

Spec == Init /\ [][Next]_vars

\* The loop thread is run, its callbacks return, epoll_wait times out, time
\* passes for the armed timers.
Fairness == WF_vars(LoopStep) /\ \A h \in Timers : WF_vars(lpc # "destroyed" /\ Expire(h))

FairSpec == Spec /\ Fairness

-----------------------------------------------------------------------------
(* Properties *)

\* Every variable keeps its type.
TypeOK ==
  /\ hstate \in [Handles -> {"new", "live", "closing", "dead", "failed"}]
  /\ hfd \in [Handles -> Fds \cup {None}]
  /\ fired \subseteq Timers
  /\ events \in [Fds -> Handles \cup {None}]
  /\ stop \in BOOLEAN
  /\ lpc \in {"off", "check", "wait", "batch", "call", "user", "done", "destroyed"}
  /\ batch \subseteq Fds
  /\ cb \in Handles \cup {None} /\ cbfd \in Fds \cup {None}
  /\ lpc \in {"call", "user"} <=> cb # None
  /\ cb # None <=> cbfd # None
  /\ open \subseteq Fds /\ epoll \subseteq Fds /\ ready \subseteq Fds /\ armed \subseteq Fds
  /\ due \subseteq Handles /\ early \subseteq Timers \cup Triggers
  /\ calls \in [Timers -> 0..3]
  /\ held \in [Owning -> {"no", "batch", "call"}] /\ zero \subseteq Timers

\* The registry, epoll and the handles agree, whatever threads create and
\* release while descriptor numbers are given out again: epoll watches exactly
\* the registered fds, an fd is registered for a live handle that has this fd,
\* and a live handle that owns its fd is the one registered for it.
RegistryConsistent ==
  /\ lpc # "destroyed" => epoll = {fd \in Fds : events[fd] # None}
  /\ \A fd \in Fds :
       events[fd] # None => hstate[events[fd]] = "live" /\ hfd[events[fd]] = fd
  /\ \A h \in Owning : hstate[h] = "live" => events[hfd[h]] = h

\* release() never closes a descriptor that another handle has got meanwhile:
\* the fd of an owning handle is open until this handle closes it, and belongs
\* to no other handle.
FdsExclusive ==
  \A h \in Owning :
    hstate[h] \in {"live", "closing"} =>
      /\ hfd[h] \in open \cap OwnFds
      /\ \A g \in Handles \ {h} : hfd[g] # hfd[h]

\* Every descriptor the loop has made and not closed belongs to a handle that
\* will close it, except one for each call of createTrigger or createInterval
\* that threw: when epoll_ctl fails nobody owns their descriptor yet.
NoLeak ==
  Cardinality(open \cap OwnFds)
    = Cardinality({h \in Owning : hstate[h] \in {"live", "closing"}})
      + Cardinality({h \in Triggers \cup Intervals : hstate[h] = "failed"})

\* The callback of a timer or a trigger runs only after the timer expired or the
\* trigger was fired, once for it, and that of a one-shot timer at most once
\* (createTimer: "Called from run() once the timer expires").  The exception is a
\* handle that was given a number of the batch the loop was working on: its
\* callback may be called for the handle that had the number before, early, and
\* that of a timer then once more, but not a third time.
CallbackWhenDue ==
  /\ \A h \in early : held[h] = "batch"
  /\ \A h \in Timers : calls[h] <= IF held[h] = "batch" THEN 2 ELSE 1

Dispatching == lpc \in {"check", "wait", "batch", "call", "user"}

\* A trigger fired, even while its own callback runs, is delivered by a running
\* loop, unless the handle is released or run() ends before.  The exception is a
\* handle that was given the number a released handle's callback was about to
\* read: that callback may swallow the event.
TriggerDelivered ==
  \A h \in Triggers :
    h \in due /\ hstate[h] = "live" /\ Dispatching /\ held[h] # "call"
      ~> h \notin due \/ hstate[h] # "live" \/ ~Dispatching

\* The callback of a timer of a running loop is called, unless the handle is
\* released or run() ends before (and run() may be called again).  The exceptions
\* are a timer that asked for a delay of zero, which disarms it, and one that was
\* given the number a released handle's callback was about to read.
TimerFires ==
  \A h \in Timers :
    hstate[h] = "live" /\ Dispatching /\ held[h] # "call" /\ h \notin zero
      ~> calls[h] > 0 \/ hstate[h] # "live" \/ ~Dispatching

\* run() returns after stop().
RunReturns == stop /\ Dispatching ~> ~Dispatching
=============================================================================
