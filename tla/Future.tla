------------------------------- MODULE Future -------------------------------
(***************************************************************************)
(* The shared state of a Promise/Future pair (asyncresult/detail/future.h,  *)
(* asyncresult/future.h) under any mix of concurrent setValue or            *)
(* setException, close, setId, get and getId.                               *)
(*                                                                          *)
(* A value and an exception are both a result: setException is setValue     *)
(* with an exception for a value, and get() hands either over.  One step is *)
(* one access to the shared state.  The status is an int-sized atomic, so   *)
(* wait() re-checks it as it goes to sleep, in one step; a wait may also    *)
(* end without a notification and is then repeated.  Atomics behave         *)
(* sequentially consistently: every hand-over in this code is a             *)
(* release/acquire pair on one atomic.                                      *)
(*                                                                          *)
(*   pc[t]   idle; claim, write, publish, notify (setValue and              *)
(*           setException; close() joins at notify); wait, asleep, load,    *)
(*           read (get); claimId, storeId (setId); checkId, loadId (getId)  *)
(***************************************************************************)

CONSTANTS Threads, Results, Ids,
          NoResult,   \* std::monostate
          NoId        \* the zero a std::atomic<uint64_t> starts with

ASSUME ResultsAssumption == NoResult \notin Results
ASSUME IdsAssumption == NoId \notin Ids

VARIABLES status,     \* FutureStateBase::status
          result,     \* FutureState::result
          blocked,    \* the one-shot flag of the result
          id,         \* FutureStateBase::id
          idSetted,
          pc,
          arg,        \* the result or the id a call carries
          ret         \* what the last call of a thread returned
vars == <<status, result, blocked, id, idSetted, pc, arg, ret>>

PCs == {"idle", "claim", "write", "publish", "notify", "wait", "asleep", "load",
        "read", "claimId", "storeId", "checkId", "loadId"}

Init ==
  /\ status = "Pending"
  /\ result = NoResult
  /\ blocked = FALSE
  /\ id = NoId
  /\ idSetted = FALSE
  /\ pc = [t \in Threads |-> "idle"]
  /\ arg = [t \in Threads |-> NoResult]
  /\ ret = [t \in Threads |-> "none"]

Call(t, l, a) ==
  /\ pc[t] = "idle"
  /\ pc' = [pc EXCEPT ![t] = l]
  /\ arg' = [arg EXCEPT ![t] = a]
  /\ ret' = [ret EXCEPT ![t] = "none"]
  /\ UNCHANGED <<status, result, blocked, id, idSetted>>

Return(t, r) ==
  /\ pc' = [pc EXCEPT ![t] = "idle"]
  /\ arg' = [arg EXCEPT ![t] = NoResult]
  /\ ret' = [ret EXCEPT ![t] = r]

Goto(t, l) == pc' = [pc EXCEPT ![t] = l] /\ UNCHANGED <<arg, ret>>

-----------------------------------------------------------------------------
(* setValue(), setException() and close() *)

BeginSet(t, r) == Call(t, "claim", r)

\* Mutant of ClaimWon: a load and a branch instead of compare_exchange, with
\* the flag set only once the result is written.
ClaimWonUnflagged(t) ==
  /\ pc[t] = "claim"
  /\ ~blocked
  /\ Goto(t, "write")
  /\ UNCHANGED <<status, result, blocked, id, idSetted>>

ClaimWon(t) ==
  /\ pc[t] = "claim"
  /\ ~blocked
  /\ blocked' = TRUE
  /\ Goto(t, "write")
  /\ UNCHANGED <<status, result, id, idSetted>>

\* Mutant of ClaimLost: a late delivery goes on to write its result.
ClaimLostWrites(t) ==
  /\ pc[t] = "claim"
  /\ blocked
  /\ Goto(t, "write")
  /\ UNCHANGED <<status, result, blocked, id, idSetted>>

ClaimLost(t) ==
  /\ pc[t] = "claim"
  /\ blocked
  /\ Return(t, "ignored")
  /\ UNCHANGED <<status, result, blocked, id, idSetted>>

\* Mutant of WriteResult: the value is moved into an empty result.
WriteResultEmpty(t) ==
  /\ pc[t] = "write"
  /\ Goto(t, "publish")
  /\ UNCHANGED <<status, result, blocked, id, idSetted>>

WriteResult(t) ==
  /\ pc[t] = "write"
  /\ result' = arg[t]
  /\ Goto(t, "publish")
  /\ UNCHANGED <<status, blocked, id, idSetted>>

Publish(t) ==
  /\ pc[t] = "publish"
  /\ status' = "Ready"
  /\ Goto(t, "notify")
  /\ UNCHANGED <<result, blocked, id, idSetted>>

\* The store of close(), whatever the status was.
Close(t) ==
  /\ pc[t] = "idle"
  /\ status' = "Closed"
  /\ pc' = [pc EXCEPT ![t] = "notify"]
  /\ ret' = [ret EXCEPT ![t] = "none"]
  /\ UNCHANGED <<result, blocked, id, idSetted, arg>>

\* Mutant of NotifyAll: notify_one.
NotifyOne(t) ==
  /\ pc[t] = "notify"
  /\ \/ /\ \A u \in Threads : pc[u] # "asleep"
        /\ pc' = [pc EXCEPT ![t] = "idle"]
     \/ \E u \in Threads :
          pc[u] = "asleep" /\ pc' = [pc EXCEPT ![t] = "idle", ![u] = "wait"]
  /\ arg' = [arg EXCEPT ![t] = NoResult]
  /\ UNCHANGED <<status, result, blocked, id, idSetted, ret>>

NotifyAll(t) ==
  /\ pc[t] = "notify"
  /\ pc' = [u \in Threads |-> IF u = t THEN "idle"
                              ELSE IF pc[u] = "asleep" THEN "wait" ELSE pc[u]]
  /\ arg' = [arg EXCEPT ![t] = NoResult]
  /\ UNCHANGED <<status, result, blocked, id, idSetted, ret>>

-----------------------------------------------------------------------------
(* get(), isReady() and isClosed() *)

BeginGet(t) == Call(t, "wait", NoResult)

Sleep(t) ==
  /\ pc[t] = "wait"
  /\ status = "Pending"
  /\ Goto(t, "asleep")
  /\ UNCHANGED <<status, result, blocked, id, idSetted>>

WaitOver(t) ==
  /\ pc[t] = "wait"
  /\ status # "Pending"
  /\ Goto(t, "load")
  /\ UNCHANGED <<status, result, blocked, id, idSetted>>

SpuriousWakeup(t) ==
  /\ pc[t] = "asleep"
  /\ Goto(t, "wait")
  /\ UNCHANGED <<status, result, blocked, id, idSetted>>

\* The second load of the status: nullopt when closed, else the result is read.
LoadClosed(t) ==
  /\ pc[t] = "load"
  /\ status = "Closed"
  /\ Return(t, "nullopt")
  /\ UNCHANGED <<status, result, blocked, id, idSetted>>

LoadOpen(t) ==
  /\ pc[t] = "load"
  /\ status # "Closed"
  /\ Goto(t, "read")
  /\ UNCHANGED <<status, result, blocked, id, idSetted>>

ReadResult(t) ==
  /\ pc[t] = "read"
  /\ Return(t, result)
  /\ UNCHANGED <<status, result, blocked, id, idSetted>>

isReady == status = "Ready"

isClosed == status = "Closed"

-----------------------------------------------------------------------------
(* setId() and getId() *)

BeginSetId(t, i) == Call(t, "claimId", i)

\* The flag is taken first; losing it does not keep the id from being stored.
ClaimId(t) ==
  /\ pc[t] = "claimId"
  /\ idSetted' = TRUE
  /\ Goto(t, "storeId")
  /\ UNCHANGED <<status, result, blocked, id>>

StoreId(t) ==
  /\ pc[t] = "storeId"
  /\ id' = arg[t]
  /\ Return(t, "none")
  /\ UNCHANGED <<status, result, blocked, idSetted>>

BeginGetId(t) == Call(t, "checkId", NoResult)

CheckId(t) ==
  /\ pc[t] = "checkId"
  /\ IF idSetted THEN Goto(t, "loadId") ELSE Return(t, "nullopt")
  /\ UNCHANGED <<status, result, blocked, id, idSetted>>

LoadId(t) ==
  /\ pc[t] = "loadId"
  /\ Return(t, id)
  /\ UNCHANGED <<status, result, blocked, id, idSetted>>

-----------------------------------------------------------------------------
Begin(t) ==
  \/ \E r \in Results : BeginSet(t, r)
  \/ Close(t)
  \/ BeginGet(t)
  \/ \E i \in Ids : BeginSetId(t, i)
  \/ BeginGetId(t)

Continue(t) ==
  \/ ClaimWon(t) \/ ClaimLost(t) \/ WriteResult(t) \/ Publish(t) \/ NotifyAll(t)
  \/ Sleep(t) \/ WaitOver(t) \/ LoadClosed(t) \/ LoadOpen(t) \/ ReadResult(t)
  \/ ClaimId(t) \/ StoreId(t) \/ CheckId(t) \/ LoadId(t)

Next == \E t \in Threads : Begin(t) \/ Continue(t) \/ SpuriousWakeup(t)

Spec == Init /\ [][Next]_vars

\* Every thread inside a call is run; nobody is obliged to call.
FairSpec == Spec /\ \A t \in Threads : WF_vars(Continue(t))

-----------------------------------------------------------------------------
(* Properties *)

\* Every variable keeps its type.
TypeOK ==
  /\ status \in {"Pending", "Ready", "Closed"}
  /\ result \in Results \cup {NoResult}
  /\ blocked \in BOOLEAN
  /\ id \in Ids \cup {NoId}
  /\ idSetted \in BOOLEAN
  /\ pc \in [Threads -> PCs]
  /\ arg \in [Threads -> Results \cup Ids \cup {NoResult}]
  /\ ret \in [Threads -> Results \cup Ids \cup
                {NoId, NoResult, "none", "nullopt", "ignored"}]
  /\ \A t \in Threads : pc[t] \in {"claim", "write"} => arg[t] \in Results
  /\ \A t \in Threads : pc[t] \in {"claimId", "storeId"} => arg[t] \in Ids

\* The variant is not atomic: no two threads write it, and none reads it
\* before the single write is over, close() or no close().
NoResultRace ==
  /\ \A t, u \in Threads : pc[t] = "write" /\ pc[u] \in {"write", "read"} => t = u
  /\ \A t \in Threads : pc[t] = "write" => result = NoResult

\* A status of Ready, and a get() about to read, mean that the result is there:
\* get() never returns an empty variant, also when close() and setValue()
\* overtake each other between its wait and its second load.
ReadyHasResult ==
  /\ isReady => result # NoResult
  /\ \A t \in Threads : pc[t] = "read" => result # NoResult

\* The promise is one-shot: once there, the result never changes, whatever the
\* later deliveries, so that all the calls of get() that return one agree.
ResultIsFinal == [][result # NoResult => result' = result]_vars

\* A get() that is in progress when the future is no longer pending returns:
\* no notification is lost between its check and its sleep.
GetReturns ==
  \A t \in Threads :
    ((isReady \/ isClosed) /\ pc[t] \in {"wait", "asleep", "load", "read"}) ~> pc[t] = "idle"
=============================================================================
