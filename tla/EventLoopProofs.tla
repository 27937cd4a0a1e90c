-------------------------- MODULE EventLoopProofs --------------------------
(***************************************************************************)
(* The registry of the event loop is consistent, and every descriptor has   *)
(* one owner, for any number of handles and descriptors, with numbers given *)
(* out again at any moment and with every failure EventLoop describes.      *)
(*                                                                          *)
(* The argument: a handle has an fd exactly while it is live or closing, of *)
(* the kind it may have (HandleFds).  A new descriptor is one that is not   *)
(* open, so no owning handle has it; and release() takes the entry of its   *)
(* own fd out of the registry before it closes the fd, when nobody else can *)
(* have been given the number.                                              *)
(*                                                                          *)
(* Descriptors that are open are counted against their owners: each step    *)
(* that makes one also makes an owner or a failed call (Made, Owners, Lost).*)
(* Calls of callbacks are counted too: the calls a timer had and those to   *)
(* come (ToCome) never grow after createTimer, which gives it one, and one  *)
(* more when its number is in the batch (OneShot); and a callback the loop  *)
(* is about to call is due, but for such a number (Owed).                   *)
(***************************************************************************)
EXTENDS EventLoop, FiniteSetTheorems, TLAPS

\* A handle has an fd while it is live or closing, of the kind it may have.
HandleFds ==
  /\ \A h \in Handles : hstate[h] \in {"new", "dead", "failed"} <=> hfd[h] = None
  /\ \A h \in Owning : hfd[h] \in OwnFds \cup {None}
  /\ \A h \in Events : hstate[h] # "closing" /\ hfd[h] \in UserFds \cup {None}

IInv == TypeOK /\ HandleFds /\ RegistryConsistent /\ FdsExclusive

\* A new loop has no handles, an empty registry and an empty epoll set.
LEMMA InitIInv == Init => IInv
<1> SUFFICES ASSUME Init PROVE IInv
  OBVIOUS
<1> USE EventLoopAssumption DEF Init, Handles, Owning, Fds
<1>1. TypeOK
  <2>1. stop \in BOOLEAN
    OBVIOUS
  <2>2. hstate \in [Handles -> {"new"}] /\ hfd \in [Handles -> {None}]
    BY Zenon
  <2>3. events \in [Fds -> {None}] /\ calls \in [Timers -> {0}] /\ held \in [Owning -> {"no"}]
    BY Zenon
  <2> QED
    BY <2>1, <2>2, <2>3 DEF TypeOK
<1>2. HandleFds
  BY DEF HandleFds
<1>3. RegistryConsistent /\ FdsExclusive
  BY DEF RegistryConsistent, FdsExclusive
<1> QED
  BY <1>1, <1>2, <1>3 DEF IInv

\* Every step keeps the types; a handle that is live has an fd.
LEMMA TypeStep == TypeOK /\ HandleFds /\ [Next]_vars => TypeOK'
<1> SUFFICES ASSUME TypeOK, HandleFds, [Next]_vars PROVE TypeOK'
  OBVIOUS
<1> USE EventLoopAssumption
    DEF TypeOK, Handles, Owning, Fds, handleVars, loopVars, kernelVars, historyVars
<1>1. CASE Run \/ CheckStop \/ EpollWait \/ EpollTimeout \/ BatchDone
  BY <1>1 DEF Run, CheckStop, EpollWait, EpollTimeout, BatchDone
<1>2. CASE Stop \/ Destroy
  BY <1>2 DEF Stop, Destroy
<1>6. ASSUME NEW h, Called(h) PROVE calls' \in [Timers -> 0..3]
  BY <1>6 DEF Called
<1>7. CASE RunThrows
  <2>1. calls' \in [Timers -> 0..3]
    BY <1>6, <1>7 DEF RunThrows
  <2> QED
    BY <1>7, <2>1 DEF RunThrows
<1>8. CASE UserCallback
  <2>1. calls' \in [Timers -> 0..3]
    BY <1>6, <1>8 DEF UserCallback
  <2> QED
    BY <1>8, <2>1 DEF UserCallback, SetFired
<1>3. CASE ReadFd \/ \E fd \in Fds : CopyCallback(fd) \/ Arrives(fd)
  BY <1>3 DEF ReadFd, CopyCallback, Arrives
<1>4. ASSUME NEW h \in Handles, HandleStep(h) PROVE TypeOK'
  <2>1. CASE \E fd \in Fds : CreateEvent(h, fd) \/ CreateTrigger(h, fd) \/ CreateFails(h, fd)
    BY <2>1 DEF CreateEvent, CreateTrigger, CreateFails, RegisterOwn, RegisterEvent, NewFd, HeldAs
  <2>2. CASE \E fd \in Fds, delay \in Delays : CreateTimer(h, fd, delay)
    BY <2>2 DEF CreateTimer, RegisterOwn, RegisterEvent, NewFd, HeldAs, SetTime
  <2>3. CASE \E delay \in Delays : ResetInterval(h, delay)
    <3>1. hfd[h] \in Fds
      BY <2>3 DEF ResetInterval, HandleFds
    <3> QED
      BY <2>3, <3>1 DEF ResetInterval, SetTime
  <2>4. CASE Unregister(h)
    BY <2>4 DEF Unregister
  <2>5. CASE CloseFd(h)
    BY <2>5 DEF CloseFd
  <2>6. CASE Trigger(h)
    <3>1. hfd[h] \in Fds
      BY <2>6 DEF Trigger, HandleFds
    <3> QED
      BY <2>6, <3>1 DEF Trigger
  <2>7. CASE Expire(h)
    BY <2>7 DEF Expire
  <2> QED
    BY <1>4, <2>1, <2>2, <2>3, <2>4, <2>5, <2>6, <2>7 DEF HandleStep
<1>5. CASE UNCHANGED vars
  BY <1>5 DEF vars
<1> QED
  BY <1>1, <1>2, <1>3, <1>4, <1>5, <1>7, <1>8 DEF Next, LoopStep

\* What registerEvent does to the invariant, for an fd of the handle's kind that
\* no owning handle has.
LEMMA RegisterStep ==
  ASSUME IInv, lpc # "destroyed", lpc' = lpc,
         NEW h \in Handles, hstate[h] = "new",
         NEW fd \in Fds, RegisterEvent(h, fd),
         open \subseteq open',
         h \in Owning => fd \in (OwnFds \cap open') \ open,
         h \in Events => fd \in UserFds
  PROVE  HandleFds' /\ RegistryConsistent' /\ FdsExclusive'
<1> USE EventLoopAssumption DEF IInv, TypeOK, Handles, Owning, Fds, RegisterEvent
<1>1. HandleFds'
  BY DEF HandleFds
<1>2. RegistryConsistent'
  <2>1. epoll' = {f \in Fds : events'[f] # None}
    BY DEF RegistryConsistent
  <2>2. \A f \in Fds :
          events'[f] # None => hstate'[events'[f]] = "live" /\ hfd'[events'[f]] = f
    BY DEF RegistryConsistent
  <2>3. \A g \in Owning : hstate'[g] = "live" => events'[hfd'[g]] = g
    BY DEF RegistryConsistent, HandleFds, FdsExclusive
  <2> QED
    BY <2>1, <2>2, <2>3 DEF RegistryConsistent
<1>3. FdsExclusive'
  BY DEF HandleFds, FdsExclusive
<1> QED
  BY <1>1, <1>2, <1>3

\* Every step of the loop, of a handle and of the kernel preserves the rest.
LEMMA IInvStep == IInv /\ [Next]_vars => IInv'
<1> DEFINE Goal == HandleFds' /\ RegistryConsistent' /\ FdsExclusive'
<1> SUFFICES ASSUME IInv, [Next]_vars PROVE Goal
  BY TypeStep DEF IInv
<1>1. ASSUME UNCHANGED <<handleVars, events, epoll, open>>,
             lpc = "destroyed" => lpc' = "destroyed"
      PROVE  Goal
  BY <1>1 DEF IInv, HandleFds, RegistryConsistent, FdsExclusive, handleVars
<1>2. CASE lpc # "destroyed" /\ (Run \/ LoopStep \/ RunThrows \/ Stop)
  BY <1>1, <1>2 DEF Run, LoopStep, RunThrows, Stop, CheckStop, EpollWait, EpollTimeout,
     BatchDone, ReadFd, UserCallback, CopyCallback, kernelVars
<1>3. CASE Destroy
  BY <1>3 DEF Destroy, IInv, HandleFds, RegistryConsistent, FdsExclusive, handleVars
<1>4. CASE lpc # "destroyed" /\ \E fd \in Fds : Arrives(fd)
  BY <1>1, <1>4 DEF Arrives, kernelVars
<1>5. ASSUME lpc # "destroyed", NEW h \in Handles, HandleStep(h) PROVE Goal
  <2>1. ASSUME NEW fd \in Fds, CreateEvent(h, fd) PROVE Goal
    BY <1>5, <2>1, EventLoopAssumption, RegisterStep
       DEF CreateEvent, loopVars, Owning, Handles
  <2>2. ASSUME NEW fd \in Fds, CreateTrigger(h, fd) PROVE Goal
    BY <1>5, <2>2, EventLoopAssumption, RegisterStep
       DEF CreateTrigger, RegisterOwn, NewFd, loopVars, Owning, Handles
  <2>3. ASSUME NEW fd \in Fds, NEW delay \in Delays, CreateTimer(h, fd, delay) PROVE Goal
    BY <1>5, <2>3, EventLoopAssumption, RegisterStep
       DEF CreateTimer, RegisterOwn, NewFd, loopVars, Owning, Handles
  <2>4. ASSUME NEW fd \in Fds, CreateFails(h, fd) PROVE Goal
    BY <1>5, <2>4, EventLoopAssumption
       DEF CreateFails, NewFd, loopVars, IInv, TypeOK, HandleFds, RegistryConsistent,
           FdsExclusive, Owning, Handles, Fds
  <2>5. CASE \E delay \in Delays : ResetInterval(h, delay)
    BY <1>1, <1>5, <2>5 DEF ResetInterval
  <2>6. CASE Unregister(h)
    <3> USE <1>5, <2>6, EventLoopAssumption
        DEF Unregister, loopVars, IInv, TypeOK, Owning, Handles, Fds
    <3>1. hfd[h] \in Fds
      BY DEF HandleFds
    <3>2. HandleFds'
      BY <3>1 DEF HandleFds
    <3>3. RegistryConsistent'
      <4>1. epoll' = {f \in Fds : events'[f] # None}
        BY <3>1 DEF RegistryConsistent
      <4>2. \A f \in Fds :
              events'[f] # None => hstate'[events'[f]] = "live" /\ hfd'[events'[f]] = f
        BY <3>1 DEF RegistryConsistent
      <4>3. \A g \in Owning : hstate'[g] = "live" => events'[hfd'[g]] = g
        BY <3>1 DEF RegistryConsistent, HandleFds, FdsExclusive
      <4> QED
        BY <4>1, <4>2, <4>3 DEF RegistryConsistent
    <3>4. FdsExclusive'
      BY <3>1 DEF HandleFds, FdsExclusive
    <3> QED
      BY <3>2, <3>3, <3>4
  <2>7. CASE CloseFd(h)
    <3> USE <1>5, <2>7, EventLoopAssumption
        DEF CloseFd, loopVars, IInv, TypeOK, Owning, Handles, Fds
    <3>1. h \in Owning /\ hfd[h] \in OwnFds
      BY DEF HandleFds
    <3>2. events[hfd[h]] = None
      BY <3>1 DEF RegistryConsistent, FdsExclusive
    <3>3. HandleFds'
      BY <3>1 DEF HandleFds
    <3>4. RegistryConsistent'
      <4>1. epoll' = {f \in Fds : events'[f] # None}
        BY <3>1, <3>2 DEF RegistryConsistent
      <4>2. \A f \in Fds :
              events'[f] # None => hstate'[events'[f]] = "live" /\ hfd'[events'[f]] = f
        BY <3>1, <3>2 DEF RegistryConsistent
      <4>3. \A g \in Owning : hstate'[g] = "live" => events'[hfd'[g]] = g
        BY <3>1, <3>2 DEF RegistryConsistent
      <4> QED
        BY <4>1, <4>2, <4>3 DEF RegistryConsistent
    <3>5. FdsExclusive'
      BY <3>1 DEF HandleFds, FdsExclusive
    <3> QED
      BY <3>3, <3>4, <3>5
  <2>8. CASE Trigger(h) \/ Expire(h)
    BY <1>1, <1>5, <2>8 DEF Trigger, Expire
  <2> QED
    BY <1>5, <2>1, <2>2, <2>3, <2>4, <2>5, <2>6, <2>7, <2>8 DEF HandleStep
<1>6. CASE UNCHANGED vars
  BY <1>1, <1>6 DEF vars, kernelVars, loopVars
<1> QED
  BY <1>2, <1>3, <1>4, <1>5, <1>6 DEF Next

\* The inductive invariant holds in every reachable state.
LEMMA Invariance == Spec => []IInv
  BY InitIInv, IInvStep, PTL DEF Spec

\* Type correctness of EventLoop and its handles.
THEOREM TypeCorrect == Spec => []TypeOK
  BY Invariance, PTL DEF IInv

\* The registry, epoll and the handles agree in every reachable state, although
\* handles are created and released by other threads while the loop dispatches.
THEOREM RegistryIsConsistent == Spec => []RegistryConsistent
  BY Invariance, PTL DEF IInv

\* No handle ever closes, or shares, a descriptor of another one: HandleBase's
\* release() closes only what it owns, however numbers are given out again.
THEOREM DescriptorsExclusive == Spec => []FdsExclusive
  BY Invariance, PTL DEF IInv

-----------------------------------------------------------------------------
(* Leaks *)

\* The descriptors the loop has made, the handles that will close theirs, and the
\* calls that lost theirs: what NoLeak counts.
Made == open \cap OwnFds
Owners == {h \in Owning : hstate[h] \in {"live", "closing"}}
Lost == {h \in Triggers \cup Intervals : hstate[h] = "failed"}

\* What NoLeak counts is finite, so that one more or one less is one more or one less.
LEMMA FiniteCounts ==
  /\ IsFiniteSet(Made) /\ IsFiniteSet(Owners) /\ IsFiniteSet(Lost)
  /\ Cardinality(Made) \in Nat /\ Cardinality(Owners) \in Nat /\ Cardinality(Lost) \in Nat
<1>1. Made \subseteq OwnFds /\ Owners \subseteq Handles /\ Lost \subseteq Handles
  BY DEF Made, Owners, Lost, Handles, Owning
<1> QED
  BY <1>1, EventLoopAssumption, FS_Subset, FS_CardinalityType

\* A descriptor that is made gets its owner, or is lost, in the same step, and one
\* that is closed loses its owner with it.
LEMMA NoLeakStep == IInv /\ NoLeak /\ [Next]_vars => NoLeak'
<1> SUFFICES ASSUME IInv, NoLeak, [Next]_vars PROVE NoLeak'
  OBVIOUS
<1> USE EventLoopAssumption DEF IInv, TypeOK, HandleFds, Handles, Owning, Fds
<1>1. /\ NoLeak <=> Cardinality(Made) = Cardinality(Owners) + Cardinality(Lost)
      /\ NoLeak' <=> Cardinality(Made') = Cardinality(Owners') + Cardinality(Lost')
  BY DEF NoLeak, Made, Owners, Lost
<1>2. ASSUME Made' = Made, Owners' = Owners, Lost' = Lost PROVE NoLeak'
  BY <1>1, <1>2
<1>3. ASSUME UNCHANGED <<hstate, open>> PROVE NoLeak'
  BY <1>2, <1>3 DEF Made, Owners, Lost
<1>4. CASE Run \/ LoopStep \/ RunThrows \/ Stop \/ Destroy \/ \E fd \in Fds : Arrives(fd)
  BY <1>3, <1>4 DEF Run, LoopStep, RunThrows, Stop, Destroy, Arrives, CheckStop, EpollWait,
     EpollTimeout, BatchDone, ReadFd, UserCallback, CopyCallback, handleVars, kernelVars
<1>5. ASSUME NEW h \in Handles, HandleStep(h) PROVE NoLeak'
  <2>1. ASSUME NEW fd \in Fds, CreateEvent(h, fd) PROVE NoLeak'
    <3>1. Made' = Made /\ Owners' = Owners /\ Lost' = Lost
      BY <2>1 DEF CreateEvent, RegisterEvent, Made, Owners, Lost
    <3> QED
      BY <3>1, <1>2
  <2>2. ASSUME NEW fd \in Fds, RegisterOwn(h, fd), h \in Owning, hstate[h] = "new"
        PROVE  NoLeak'
    <3>1. fd \notin Made /\ Made' = Made \cup {fd}
      BY <2>2 DEF RegisterOwn, NewFd, Made
    <3>2. h \notin Owners /\ Owners' = Owners \cup {h} /\ Lost' = Lost
      BY <2>2 DEF RegisterOwn, RegisterEvent, Owners, Lost
    <3>3. /\ Cardinality(Made') = Cardinality(Made) + 1
          /\ Cardinality(Owners') = Cardinality(Owners) + 1
      BY <3>1, <3>2, FiniteCounts, FS_AddElement
    <3> QED
      BY <1>1, <3>2, <3>3, FiniteCounts
  <2>3. ASSUME NEW fd \in Fds, CreateTrigger(h, fd) PROVE NoLeak'
    BY <2>2, <2>3 DEF CreateTrigger
  <2>4. ASSUME NEW fd \in Fds, NEW delay \in Delays, CreateTimer(h, fd, delay) PROVE NoLeak'
    BY <2>2, <2>4 DEF CreateTimer
  <2>5. ASSUME NEW fd \in Fds, CreateFails(h, fd) PROVE NoLeak'
    <3>1. Owners' = Owners
      BY <2>5 DEF CreateFails, Owners
    <3>2. CASE h \in Timers
      <4>1. Made' = Made /\ Lost' = Lost
        BY <2>5, <3>2 DEF CreateFails, Made, Lost
      <4> QED
        BY <3>1, <4>1, <1>2
    <3>3. CASE h \notin Timers
      <4>1. fd \notin Made /\ Made' = Made \cup {fd}
        BY <2>5, <3>3 DEF CreateFails, NewFd, Made
      <4>2. h \notin Lost /\ Lost' = Lost \cup {h}
        BY <2>5, <3>3 DEF CreateFails, Lost
      <4>3. /\ Cardinality(Made') = Cardinality(Made) + 1
            /\ Cardinality(Lost') = Cardinality(Lost) + 1
        BY <4>1, <4>2, FiniteCounts, FS_AddElement
      <4> QED
        BY <1>1, <3>1, <4>3, FiniteCounts
    <3> QED
      BY <3>2, <3>3
  <2>6. CASE Unregister(h)
    <3>1. Made' = Made /\ Owners' = Owners /\ Lost' = Lost
      BY <2>6 DEF Unregister, Made, Owners, Lost
    <3> QED
      BY <3>1, <1>2
  <2>7. CASE CloseFd(h)
    <3>1. h \in Owners /\ Owners' = Owners \ {h} /\ Lost' = Lost
      BY <2>7 DEF CloseFd, Owners, Lost
    <3>2. hfd[h] \in Made /\ Made' = Made \ {hfd[h]}
      BY <2>7, <3>1 DEF CloseFd, FdsExclusive, Made, Owners
    <3>3. /\ Cardinality(Made') = Cardinality(Made) - 1
          /\ Cardinality(Owners') = Cardinality(Owners) - 1
      BY <3>1, <3>2, FiniteCounts, FS_RemoveElement
    <3> QED
      BY <1>1, <3>1, <3>3, FiniteCounts
  <2>8. CASE Trigger(h) \/ Expire(h) \/ \E delay \in Delays : ResetInterval(h, delay)
    BY <1>3, <2>8 DEF Trigger, Expire, ResetInterval, handleVars
  <2> QED
    BY <1>5, <2>1, <2>3, <2>4, <2>5, <2>6, <2>7, <2>8 DEF HandleStep
<1>6. CASE UNCHANGED vars
  BY <1>3, <1>6 DEF vars, handleVars, kernelVars
<1> QED
  BY <1>4, <1>5, <1>6 DEF Next

\* Whatever fails, the descriptors of the loop that are open are those of the
\* handles that will close them, and one for each createTrigger() or
\* createInterval() that threw because of epoll_ctl.
THEOREM NothingLeaked == Spec => []NoLeak
<1>1. Init => NoLeak
  <2> SUFFICES ASSUME Init PROVE NoLeak
    OBVIOUS
  <2>1. Made = {} /\ Owners = {} /\ Lost = {}
    BY EventLoopAssumption DEF Init, Made, Owners, Lost, Handles, Owning
  <2> QED
    BY <2>1, FS_EmptySet DEF NoLeak, Made, Owners, Lost
<1>2. IInv /\ NoLeak /\ [Next]_vars => NoLeak'
  BY NoLeakStep
<1> QED
  BY <1>1, <1>2, Invariance, PTL DEF Spec

-----------------------------------------------------------------------------
(* Callbacks *)

\* A readable descriptor of a timer or a trigger means that its callback is owed.
\* So does one in the batch, and a callback that is about to read, except for a
\* handle that was given a number of the batch.
Owed ==
  /\ ready \cap OwnFds \subseteq open
  /\ cb # None =>
       hstate[cb] \notin {"new", "failed"} /\ hfd[cb] \in {cbfd, None} /\ cbfd \notin batch
  /\ \A h \in early : held[h] = "batch"
  /\ \A h \in Timers \cup Triggers :
       /\ hstate[h] = "new" => h \notin due \cup early
       /\ hfd[h] \in ready => h \in due
       /\ held[h] # "batch" =>
            /\ hfd[h] \in batch => h \in due
            /\ lpc = "call" /\ cb = h => h \in due

\* The calls of a timer that are still to come: one while it is armed, one while
\* it is due or the loop has its number or its callback, and the one under way.
ToCome(h) ==
  (IF hfd[h] \in armed THEN 1 ELSE 0)
  + (IF h \in due \/ hfd[h] \in batch \/ (lpc = "call" /\ cb = h) THEN 1 ELSE 0)
  + (IF lpc = "user" /\ cb = h THEN 1 ELSE 0)

\* A timer that was given a number of the batch has two calls in all, any other one.
OneShot ==
  \A h \in Timers :
    /\ hstate[h] = "new" => calls[h] = 0
    /\ calls[h] + ToCome(h) <= IF held[h] = "batch" THEN 2 ELSE 1

\* Every step keeps callbacks owed when they are called, and timers one-shot, but
\* for the one call a handle inherits with its number.
LEMMA OwedStep == IInv /\ Owed /\ OneShot /\ [Next]_vars => Owed' /\ OneShot'
<1> DEFINE Goal == Owed' /\ OneShot'
<1> SUFFICES ASSUME IInv, Owed, OneShot, [Next]_vars PROVE Goal
  OBVIOUS
<1> USE EventLoopAssumption
    DEF IInv, TypeOK, HandleFds, Owed, OneShot, ToCome, Handles, Owning, Fds,
        handleVars, loopVars, kernelVars, historyVars
<1>1. CASE Run \/ CheckStop \/ EpollTimeout \/ BatchDone \/ Stop \/ Destroy
  BY <1>1 DEF Run, CheckStop, EpollTimeout, BatchDone, Stop, Destroy
<1>2. CASE EpollWait
  BY <1>2 DEF EpollWait
<1>3. ASSUME NEW fd \in Fds, CopyCallback(fd) PROVE Goal
  BY <1>3 DEF CopyCallback, RegistryConsistent
<1>4. CASE ReadFd
  BY <1>4 DEF ReadFd
<1>5. CASE UserCallback \/ RunThrows
  BY <1>5 DEF UserCallback, RunThrows, Called, SetFired
<1>6. ASSUME NEW fd \in Fds, Arrives(fd) PROVE Goal
  BY <1>6 DEF Arrives
<1>7. ASSUME NEW h \in Handles, HandleStep(h) PROVE Goal
  <2>1. ASSUME NEW fd \in Fds, CreateEvent(h, fd) PROVE Goal
    BY <2>1 DEF CreateEvent, RegisterEvent
  <2>10. ASSUME NEW fd \in Fds, RegisterOwn(h, fd), h \in Owning, hstate[h] = "new",
                ready' = ready \/ ready' = ready \ {fd},
                UNCHANGED <<due, calls, early, loopVars>>,
                armed' \subseteq armed \cup {fd}
         PROVE  Goal
    <3>1. fd \in OwnFds \ ready /\ hfd'[h] = fd /\ hstate'[h] = "live" /\ cb # h
      BY <2>10 DEF RegisterOwn, RegisterEvent, NewFd
    <3>2. open' = open \cup {fd} /\ (held'[h] # "batch" => fd \notin batch)
      BY <2>10 DEF RegisterOwn, RegisterEvent, NewFd, HeldAs
    <3>3. \A g \in Handles \ {h} :
            hfd[g] # fd /\ hfd'[g] = hfd[g] /\ hstate'[g] = hstate[g]
      BY <2>10 DEF RegisterOwn, RegisterEvent, NewFd, FdsExclusive
    <3>4. \A g \in Owning \ {h} : held'[g] = held[g]
      BY <2>10 DEF RegisterOwn
    <3>5. h \notin early \/ held'[h] = held[h]
      BY <2>10
    <3>6. Owed'
      BY <2>10, <3>1, <3>2, <3>3, <3>4, <3>5
    <3>7. OneShot'
      BY <2>10, <3>1, <3>2, <3>3, <3>4
    <3> QED
      BY <3>6, <3>7
  <2>2. ASSUME NEW fd \in Fds, CreateTrigger(h, fd) PROVE Goal
    BY <2>2, <2>10 DEF CreateTrigger
  <2>3. ASSUME NEW fd \in Fds, NEW delay \in Delays, CreateTimer(h, fd, delay) PROVE Goal
    BY <2>3, <2>10 DEF CreateTimer, SetTime
  <2>4. ASSUME NEW fd \in Fds, CreateFails(h, fd) PROVE Goal
    BY <2>4 DEF CreateFails, NewFd
  <2>5. ASSUME NEW delay \in Delays, ResetInterval(h, delay) PROVE Goal
    BY <2>5 DEF ResetInterval, SetTime, FdsExclusive
  <2>6. CASE Unregister(h)
    BY <2>6 DEF Unregister
  <2>7. CASE CloseFd(h)
    BY <2>7 DEF CloseFd
  <2>8. CASE Trigger(h)
    BY <2>8 DEF Trigger, FdsExclusive
  <2>9. CASE Expire(h)
    BY <2>9 DEF Expire, FdsExclusive
  <2> QED
    BY <1>7, <2>1, <2>2, <2>3, <2>4, <2>5, <2>6, <2>7, <2>8, <2>9 DEF HandleStep
<1>8. CASE UNCHANGED vars
  BY <1>8 DEF vars
<1> QED
  BY <1>1, <1>2, <1>3, <1>4, <1>5, <1>6, <1>7, <1>8 DEF Next, LoopStep

\* No callback of a timer or a trigger is called that is not due, and that of a
\* one-shot timer is called once at most, however handles are released and made
\* by other threads while the loop dispatches, but for a handle that was given a
\* number of the batch: it has one call too many at most.
THEOREM CallbacksWhenDue == Spec => []CallbackWhenDue
<1>1. Init => Owed /\ OneShot
  BY EventLoopAssumption DEF Init, Owed, OneShot, ToCome, Handles, Owning, Fds
<1>2. IInv /\ Owed /\ OneShot /\ [Next]_vars => Owed' /\ OneShot'
  BY OwedStep
<1>3. IInv /\ Owed /\ OneShot => CallbackWhenDue
  BY DEF IInv, TypeOK, Owed, OneShot, ToCome, CallbackWhenDue
<1> QED
  BY <1>1, <1>2, <1>3, Invariance, PTL DEF Spec
=============================================================================
