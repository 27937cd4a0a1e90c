---------------------------- MODULE FutureProofs ----------------------------
(***************************************************************************)
(* Proofs about Future for any threads, results and ids.  The argument: the *)
(* one-shot flag admits one writer for ever (OneWriter), the writer is the  *)
(* only one to touch the result before it publishes, and a reader gets to   *)
(* the result only past a status that is stored after the write.            *)
(***************************************************************************)
EXTENDS Future, TLAPS

\* At most one thread is past the one-shot flag and not yet notified as the
\* writer; the flag stays taken as long as it, or a result, is there.
OneWriter ==
  /\ \A t, u \in Threads :
       pc[t] \in {"write", "publish"} /\ pc[u] \in {"write", "publish"} => t = u
  /\ \A t \in Threads : pc[t] \in {"write", "publish"} => blocked
  /\ \A t \in Threads : pc[t] = "publish" => result # NoResult
  /\ result # NoResult => blocked

\* The state after which get() stops waiting and does not find Closed.
LoadSafe == \A t \in Threads : pc[t] = "load" => status # "Pending"

IInv == TypeOK /\ OneWriter /\ NoResultRace /\ ReadyHasResult /\ LoadSafe

\* A new promise satisfies the inductive invariant.
LEMMA InitIInv == Init => IInv
<1> SUFFICES ASSUME Init PROVE IInv
  OBVIOUS
<1> USE DEF Init
<1>1. TypeOK
  <2>1. blocked \in BOOLEAN /\ idSetted \in BOOLEAN
    OBVIOUS
  <2>2. pc \in [Threads -> PCs] /\ \A t \in Threads : pc[t] = "idle"
    BY DEF PCs
  <2> QED
    BY <2>1, <2>2 DEF TypeOK
<1>2. OneWriter /\ NoResultRace /\ ReadyHasResult /\ LoadSafe
  BY DEF OneWriter, NoResultRace, ReadyHasResult, isReady, LoadSafe
<1> QED
  BY <1>1, <1>2 DEF IInv

\* Every step of a thread preserves the inductive invariant, and no step
\* changes a result that is there.
LEMMA IInvStep ==
  IInv /\ [Next]_vars => IInv' /\ (result # NoResult => result' = result)
<1> DEFINE Goal == IInv' /\ (result # NoResult => result' = result)
<1> SUFFICES ASSUME IInv, [Next]_vars PROVE Goal
  OBVIOUS
<1> USE ResultsAssumption DEF IInv, TypeOK, PCs, OneWriter, NoResultRace, ReadyHasResult,
        isReady, LoadSafe, Goto, Return, Call
<1>0. CASE UNCHANGED vars
  BY <1>0 DEF vars
<1>1. ASSUME NEW t \in Threads, Begin(t) PROVE Goal
  <2>1. ASSUME NEW r \in Results, BeginSet(t, r) PROVE Goal
    BY <2>1 DEF BeginSet
  <2>2. CASE Close(t)
    BY <2>2 DEF Close
  <2>3. CASE BeginGet(t)
    BY <2>3 DEF BeginGet
  <2>4. ASSUME NEW i \in Ids, BeginSetId(t, i) PROVE Goal
    BY <2>4 DEF BeginSetId
  <2>5. CASE BeginGetId(t)
    BY <2>5 DEF BeginGetId
  <2> QED
    BY <1>1, <2>1, <2>2, <2>3, <2>4, <2>5 DEF Begin
<1>2. ASSUME NEW t \in Threads, Continue(t) PROVE Goal
  <2>1. CASE ClaimWon(t)
    BY <2>1 DEF ClaimWon
  <2>2. CASE ClaimLost(t)
    BY <2>2 DEF ClaimLost
  <2>3. CASE WriteResult(t)
    BY <2>3 DEF WriteResult
  <2>4. CASE Publish(t)
    BY <2>4 DEF Publish
  <2>5. CASE NotifyAll(t)
    BY <2>5 DEF NotifyAll
  <2>6. CASE Sleep(t)
    BY <2>6 DEF Sleep
  <2>7. CASE WaitOver(t)
    BY <2>7 DEF WaitOver
  <2>8. CASE LoadClosed(t)
    BY <2>8 DEF LoadClosed
  <2>9. CASE LoadOpen(t)
    BY <2>9 DEF LoadOpen
  <2>10. CASE ReadResult(t)
    BY <2>10 DEF ReadResult
  <2>11. CASE ClaimId(t)
    BY <2>11 DEF ClaimId
  <2>12. CASE StoreId(t)
    BY <2>12 DEF StoreId
  <2>13. CASE CheckId(t)
    BY <2>13 DEF CheckId
  <2>14. CASE LoadId(t)
    BY <2>14 DEF LoadId
  <2> QED
    BY <1>2, <2>1, <2>2, <2>3, <2>4, <2>5, <2>6, <2>7, <2>8, <2>9, <2>10, <2>11, <2>12,
       <2>13, <2>14 DEF Continue
<1>3. ASSUME NEW t \in Threads, SpuriousWakeup(t) PROVE Goal
  BY <1>3 DEF SpuriousWakeup
<1> QED
  BY <1>0, <1>1, <1>2, <1>3 DEF Next

\* The inductive invariant holds in every reachable state.
LEMMA IInvAlways == Spec => []IInv
BY InitIInv, IInvStep, PTL DEF Spec

\* Types are kept.
THEOREM TypeCorrect == Spec => []TypeOK
<1>1. IInv => TypeOK
  BY DEF IInv
<1> QED
  BY <1>1, IInvAlways, PTL

\* Whatever the interleaving of deliveries, closes and reads, the result is
\* written by one thread, and nobody reads it while it is written.
THEOREM ResultRaceFree == Spec => []NoResultRace
<1>1. IInv => NoResultRace
  BY DEF IInv
<1> QED
  BY <1>1, IInvAlways, PTL

\* Who finds the status ready finds the result.
THEOREM ResultPublishedSafely == Spec => []ReadyHasResult
<1>1. IInv => ReadyHasResult
  BY DEF IInv
<1> QED
  BY <1>1, IInvAlways, PTL

\* The result of a promise is one-shot.
THEOREM ResultOneShot == Spec => ResultIsFinal
<1>1. IInv /\ [Next]_vars => [result # NoResult => result' = result]_vars
  BY IInvStep
<1> QED
  BY <1>1, IInvAlways, PTL DEF Spec, ResultIsFinal
=============================================================================
