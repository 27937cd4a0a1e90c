-------------------------- MODULE MichaelScottQueue --------------------------
(***************************************************************************)
(* include/miniruntime/task/michaelscottqueue.h over HazardPointers: every  *)
(* access to a shared atomic is a step, except that a thread gives up its   *)
(* slots in the step before (only a scan reads them, and it cannot tell),   *)
(* and that m_size, which the queue never reads, goes with its neighbour.   *)
(* compare_exchange_weak may fail for no reason.  Every value is pushed     *)
(* once, which bounds the runs; pops are not bounded.                       *)
(*                                                                          *)
(*   pc[t]   idle, gone (the thread has ended)                              *)
(*     emplace   loadTail, protectTail, validateTail, readNext, helpTail,   *)
(*               casNext, swingTail                                         *)
(*     pop       loop, loadHead, protectHead, validateHead, readHeadNext,   *)
(*               protectNext, validateNext, compareTail, popHelpTail,       *)
(*               casHead, take, retire, checkClosed                         *)
(***************************************************************************)
EXTENDS HazardPointers, Integers, FiniteSets

CONSTANTS Producers, Consumers,
          Hurried,        \* the consumers that call timeoutPop(); the others call pop()
          Values,
          SizeModulus     \* 2^64 in the code: size_t wraps

ASSUME QueueAssumption ==
  /\ Producers \cup Consumers = Threads /\ Hurried \subseteq Consumers
  /\ IsFiniteSet(Threads) /\ IsFiniteSet(Nodes) /\ Nodes # {}
  /\ Null \notin Values
  /\ SizeModulus \in Nat \ {0}

VARIABLES
  m_head, m_tail, m_size, m_closed,
  next, value,     \* the fields of a node; Null is nullptr and nullopt
  fresh,           \* the nodes operator new has not returned yet
  pc,
  new,             \* emplace(): newNode
  ptr,             \* t of emplace(), h of tryPop()
  nxt,             \* next of emplace(), headNext of tryPop()
  linked,          \* the values in the order in which they were linked (history)
  taken,           \* the values in the order in which m_head passed them (history)
  got,             \* the values consumers moved out (history)
  misled           \* a stale exchange of m_tail succeeded (history)
queueVars == <<m_head, m_tail, m_size, m_closed, next, value, fresh>>
localVars == <<new, ptr, nxt>>
historyVars == <<linked, taken, got, misled>>
vars == <<hazardVars, queueVars, pc, localVars, historyVars>>

Dummy == CHOOSE n \in Nodes : TRUE

Init ==
  /\ HazardInit
  /\ m_head = Dummy /\ m_tail = Dummy /\ m_size = 0 /\ m_closed = FALSE
  /\ next = [n \in Nodes |-> Null] /\ value = [n \in Nodes |-> Null]
  /\ fresh = Nodes \ {Dummy}
  /\ pc = [t \in Threads |-> "idle"]
  /\ new = [t \in Threads |-> Null] /\ ptr = [t \in Threads |-> Null]
  /\ nxt = [t \in Threads |-> Null]
  /\ linked = <<>> /\ taken = <<>> /\ got = {} /\ misled = FALSE

Goto(t, l) == pc' = [pc EXCEPT ![t] = l]

\* A step of t from location a to location b.
Step(t, a, b) == pc[t] = a /\ hpc[t] = "off" /\ Goto(t, b)

\* The call ends: its locals are gone.
Forget(t) ==
  /\ new' = [new EXCEPT ![t] = Null]
  /\ ptr' = [ptr EXCEPT ![t] = Null] /\ nxt' = [nxt EXCEPT ![t] = Null]

\* t loads p and announces it in the next step.
Load(t, p) == ptr' = [ptr EXCEPT ![t] = p] /\ UNCHANGED <<new, nxt>>

\* protect(p), in front of it, once per thread, initRecord().
Protect(t, a, b, p) ==
  /\ pc[t] = a
  /\ IF HasRecord(t) THEN protect(t, p) /\ Goto(t, b) /\ UNCHANGED records
                     ELSE initRecord(t) /\ UNCHANGED <<slots, pc>>
  /\ UNCHANGED <<retired, orphaned, orphanedLock, pool, scanVars,
                 queueVars, localVars, historyVars>>

slotsOnly == <<records, retired, orphaned, orphanedLock, pool, scanVars>>

\* The loop starts over at b: slots and pointers are given up.
Retry(t, b) ==
  /\ unprotect(t)
  /\ Goto(t, b)
  /\ ptr' = [ptr EXCEPT ![t] = Null] /\ nxt' = [nxt EXCEPT ![t] = Null]
  /\ UNCHANGED <<slotsOnly, new, historyVars>>

-----------------------------------------------------------------------------
(* emplace() and push() *)

\* The values no push was called with yet.
Unused == Values \ ({value[n] : n \in Nodes} \cup Members(linked))

\* m_closed is found false and a node is made: one of the pool, or a new one.
BeginEmplace(t) ==
  /\ Step(t, "idle", "loadTail") /\ t \in Producers /\ m_head # Null
  /\ ~m_closed
  /\ Unused # {}
  /\ \E n \in Nodes :
       /\ IF pool # <<>> THEN allocate(n) /\ UNCHANGED fresh
          ELSE /\ fresh # {} /\ n = CHOOSE f \in fresh : TRUE
               /\ fresh' = fresh \ {n} /\ UNCHANGED pool
       /\ next' = [next EXCEPT ![n] = Null]
       /\ value' = [value EXCEPT ![n] = CHOOSE v \in Unused : TRUE]
       /\ new' = [new EXCEPT ![t] = n]
  /\ UNCHANGED <<slots, records, retired, orphaned, orphanedLock, scanVars,
                 m_head, m_tail, m_size, m_closed, ptr, nxt, historyVars>>

LoadTail(t) ==
  /\ Step(t, "loadTail", "protectTail")
  /\ Load(t, m_tail)
  /\ UNCHANGED <<hazardVars, queueVars, historyVars>>

ProtectTail(t) == Protect(t, "protectTail", "validateTail", ptr[t])

ValidateTail(t) ==
  /\ Step(t, "validateTail", "readNext")
  /\ m_tail = ptr[t]
  /\ UNCHANGED <<hazardVars, queueVars, localVars, historyVars>>

TailMoved(t) ==
  /\ pc[t] = "validateTail"
  /\ m_tail # ptr[t]
  /\ Retry(t, "loadTail")
  /\ UNCHANGED queueVars

ReadNext(t) ==
  /\ Step(t, "readNext", IF next[ptr[t]] = Null THEN "casNext" ELSE "helpTail")
  /\ nxt' = [nxt EXCEPT ![t] = next[ptr[t]]]
  /\ UNCHANGED <<hazardVars, queueVars, new, ptr, historyVars>>

\* compare_exchange_weak of m_tail from ptr[t] to n.
AfterCasTail(t, n) == {m_tail} \cup (IF m_tail = ptr[t] THEN {n} ELSE {})
CasTail(t, n) ==
  /\ m_tail' \in AfterCasTail(t, n)
  /\ UNCHANGED <<m_head, m_size, m_closed, next, value, fresh>>

HelpTail(t) ==
  /\ pc[t] = "helpTail"
  /\ CasTail(t, nxt[t])
  /\ Retry(t, "loadTail")

\* Mutant of CasNext: a plain store of next.
CasNextUnchecked(t) ==
  /\ Step(t, "casNext", "swingTail")
  /\ next' = [next EXCEPT ![ptr[t]] = new[t]]
  /\ linked' = Append(linked, value[new[t]])
  /\ unprotect(t)
  /\ UNCHANGED <<slotsOnly, m_head, m_tail, m_size, m_closed, value, fresh,
                 localVars, taken, got, misled>>

\* The node is linked; the slot is given up before the tail is moved.
CasNext(t) ==
  /\ Step(t, "casNext", "swingTail")
  /\ next[ptr[t]] = Null
  /\ next' = [next EXCEPT ![ptr[t]] = new[t]]
  /\ linked' = Append(linked, value[new[t]])
  /\ unprotect(t)
  /\ UNCHANGED <<slotsOnly, m_head, m_tail, m_size, m_closed, value, fresh,
                 localVars, taken, got, misled>>

\* Another node was linked first, or the exchange failed for no reason.
CasNextFails(t) ==
  /\ pc[t] = "casNext"
  /\ Retry(t, "loadTail")
  /\ UNCHANGED queueVars

\* The best-effort exchange of m_tail, and the count.  The exchange is stale when
\* the node it expects has become the tail a second time: then its next is not
\* the new node.
FinishPush(t, size) ==
  /\ Step(t, "swingTail", "idle")
  /\ m_tail' \in AfterCasTail(t, new[t])
  /\ misled' = (misled \/ (m_tail' # m_tail /\ next[ptr[t]] # new[t]))
  /\ m_size' = size
  /\ Forget(t)
  /\ UNCHANGED <<hazardVars, m_head, m_closed, next, value, fresh, linked, taken, got>>

\* Mutant of SwingTail: the push is not counted.
SwingTailUncounted(t) == FinishPush(t, m_size)

SwingTail(t) == FinishPush(t, (m_size + 1) % SizeModulus)

-----------------------------------------------------------------------------
(* pop() and timeoutPop() *)

BeginPop(t) ==
  /\ Step(t, "idle", "loop")
  /\ t \in Consumers /\ m_head # Null
  /\ UNCHANGED <<hazardVars, queueVars, localVars, historyVars>>

ReturnNothing(t) ==
  /\ Goto(t, "idle")
  /\ Forget(t)
  /\ UNCHANGED <<hazardVars, queueVars, historyVars>>

\* timeoutPop() looks at the clock before each attempt, the first one included.
DeadlineOver(t) ==
  /\ pc[t] = "loop" /\ t \in Hurried
  /\ ReturnNothing(t)

LoadHead(t) ==
  /\ Step(t, "loop", "protectHead")
  /\ Load(t, m_head)
  /\ UNCHANGED <<hazardVars, queueVars, historyVars>>

ProtectHead(t) == Protect(t, "protectHead", "validateHead", ptr[t])

ValidateHead(t) ==
  /\ Step(t, "validateHead", "readHeadNext")
  /\ m_head = ptr[t]
  /\ UNCHANGED <<hazardVars, queueVars, localVars, historyVars>>

HeadMoved(t) ==
  /\ pc[t] \in {"validateHead", "validateNext"}
  /\ m_head # ptr[t]
  /\ Retry(t, "loop")
  /\ UNCHANGED queueVars

ReadHeadNext(t) ==
  /\ Step(t, "readHeadNext", "protectNext")
  /\ next[ptr[t]] # Null
  /\ nxt' = [nxt EXCEPT ![t] = next[ptr[t]]]
  /\ UNCHANGED <<hazardVars, queueVars, new, ptr, historyVars>>

FoundEmpty(t) ==
  /\ pc[t] = "readHeadNext"
  /\ next[ptr[t]] = Null
  /\ Retry(t, "checkClosed")
  /\ UNCHANGED queueVars

EmptyClosed(t) ==
  /\ pc[t] = "checkClosed" /\ m_closed
  /\ ReturnNothing(t)

EmptyOpen(t) ==
  /\ Step(t, "checkClosed", "loop") /\ ~m_closed
  /\ UNCHANGED <<hazardVars, queueVars, localVars, historyVars>>

ProtectNext(t) == Protect(t, "protectNext", "validateNext", nxt[t])

ValidateNext(t) ==
  /\ Step(t, "validateNext", "compareTail")
  /\ m_head = ptr[t]
  /\ UNCHANGED <<hazardVars, queueVars, localVars, historyVars>>

CompareTail(t) ==
  /\ Step(t, "compareTail", IF m_tail = ptr[t] THEN "popHelpTail" ELSE "casHead")
  /\ UNCHANGED <<hazardVars, queueVars, localVars, historyVars>>

PopHelpTail(t) ==
  /\ pc[t] = "popHelpTail"
  /\ CasTail(t, nxt[t])
  /\ Retry(t, "loop")

CasHead(t) ==
  /\ Step(t, "casHead", "take")
  /\ m_head = ptr[t]
  /\ m_head' = nxt[t]
  /\ taken' = Append(taken, value[nxt[t]])
  /\ UNCHANGED <<hazardVars, m_tail, m_size, m_closed, next, value, fresh,
                 localVars, linked, got, misled>>

CasHeadFails(t) ==
  /\ pc[t] = "casHead"
  /\ Retry(t, "loop")
  /\ UNCHANGED queueVars

\* The value is moved out of the new dummy, and counted; size_t wraps.
TakeValue(t) ==
  /\ Step(t, "take", "retire")
  /\ got' = got \cup {value[nxt[t]]}
  /\ m_size' = (m_size + SizeModulus - 1) % SizeModulus
  /\ UNCHANGED <<hazardVars, m_head, m_tail, m_closed, next, value, fresh,
                 localVars, linked, taken, misled>>

\* The slots are given up and the old dummy retired; a scan may follow.
RetireHead(t) ==
  /\ Step(t, "retire", "idle")
  /\ unprotect(t)
  /\ retire(t, ptr[t])
  /\ Forget(t)
  /\ UNCHANGED <<records, orphaned, orphanedLock, pool, queueVars, historyVars>>

-----------------------------------------------------------------------------
close(t) ==
  /\ Step(t, "idle", "idle") /\ ~m_closed
  /\ m_closed' = TRUE
  /\ UNCHANGED <<hazardVars, m_head, m_tail, m_size, next, value, fresh,
                 localVars, historyVars>>

\* A thread ends; one that retired nothing leaves nothing behind.
EndThread(t) ==
  /\ Step(t, "idle", "gone") /\ retired[t] # <<>>
  /\ ThreadExit(t)
  /\ UNCHANGED <<queueVars, localVars, historyVars>>

\* The nodes from n on, in order.
ChainFrom(n) ==
  LET at[i \in 1..Cardinality(Nodes)] ==
        IF i = 1 THEN n ELSE IF at[i-1] = Null THEN Null ELSE next[at[i-1]]
  IN  [i \in 1..Cardinality({j \in DOMAIN at : at[j] # Null}) |-> at[i]]

\* ~MichaelScottQueue(), when nobody else is inside: drain(), then the list is
\* deleted.
Destroy(t) ==
  /\ m_head # Null
  /\ \A u \in Threads : pc[u] \in {"idle", "gone"} /\ hpc[u] = "off"
  /\ pc[t] = "idle"
  /\ drain(t)
  /\ m_head' = Null
  /\ UNCHANGED <<m_tail, m_size, m_closed, next, value, fresh, pc, localVars, historyVars>>

-----------------------------------------------------------------------------
Emplace(t) ==
  \/ LoadTail(t) \/ ProtectTail(t) \/ ValidateTail(t) \/ TailMoved(t) \/ ReadNext(t)
  \/ HelpTail(t) \/ CasNext(t) \/ CasNextFails(t) \/ SwingTail(t)

TryPop(t) ==
  \/ LoadHead(t) \/ ProtectHead(t) \/ ValidateHead(t) \/ HeadMoved(t)
  \/ ReadHeadNext(t) \/ FoundEmpty(t) \/ ProtectNext(t) \/ ValidateNext(t)
  \/ CompareTail(t) \/ PopHelpTail(t) \/ CasHead(t) \/ CasHeadFails(t)
  \/ TakeValue(t) \/ RetireHead(t)

ScanStep(t) == Scan(t) /\ UNCHANGED <<queueVars, pc, localVars, historyVars>>

Begin(t) ==
  \/ BeginEmplace(t)
  \/ BeginPop(t)
  \/ close(t) \/ EndThread(t) \/ Destroy(t)

Next ==
  \E t \in Threads :
    \/ Begin(t) \/ Emplace(t) \/ TryPop(t)
    \/ DeadlineOver(t) \/ EmptyClosed(t) \/ EmptyOpen(t) \/ ScanStep(t)

Spec == Init /\ [][Next]_vars

-----------------------------------------------------------------------------
At(t, locations) == pc[t] \in locations

\* Every variable keeps its type; a thread that scans is in no other call, and
\* the lock of the orphaned list is held exactly by the one that walks it.
TypeOK ==
  /\ m_head \in Nodes \cup {Null} /\ m_tail \in Nodes
  /\ m_size \in 0..SizeModulus - 1 /\ m_closed \in BOOLEAN
  /\ fresh \subseteq Nodes
  /\ slots \in [Threads -> [1..slotsCount -> Nodes \cup {Null}]]
  /\ new \in [Threads -> Nodes \cup {Null}]
  /\ \A t \in Threads : /\ hpc[t] # "off" => pc[t] = "idle"
                        /\ hpc[t] = "orphaned" <=> orphanedLock = t

\* The values are taken in the order in which they were linked, and the list
\* from m_head holds the rest: none is lost, repeated or overtaken, whatever is
\* helped, retried and recycled.  ("Unbounded lock-free FIFO queue", line 14.)
Fifo ==
  m_head = Null \/
    LET chain == ChainFrom(m_head)
    IN  taken \o [i \in 1..Len(chain) - 1 |-> value[chain[i + 1]]] = linked

\* A consumer moves out the value of the node it moved m_head to, although that
\* node may be passed, retired and scanned for before it does.
ValuesArrive ==
  LET takers == {t \in Threads : At(t, {"take"})}
  IN  /\ got \cup {value[nxt[t]] : t \in takers} = Members(taken)
      /\ Cardinality(got) + Cardinality(takers) = Len(taken)

\* Order and values hold as long as no stale exchange of m_tail has succeeded.
FifoUnlessMisled == misled \/ (Fifo /\ ValuesArrive)

\* The nodes t dereferences in its next step.
Dereferenced(t) ==
  IF At(t, {"readNext", "casNext", "readHeadNext"}) THEN {ptr[t]}
  ELSE IF At(t, {"take"}) THEN {nxt[t]} ELSE {}

\* The node newNode of emplace() is not in the list yet.
Unlinked(t) ==
  At(t, {"loadTail", "protectTail", "validateTail", "readNext", "helpTail", "casNext"})

\* A node that is dereferenced is neither in the pool nor being prepared by
\* another thread: what protect() and the second load of the pointer are for.
NoUseAfterReclaim ==
  misled \/ \A t \in Threads, n \in Nodes : n \in Dereferenced(t) =>
             /\ n \notin Members(pool) \cup fresh
             /\ \A u \in Threads : Unlinked(u) => new[u] # n

\* The retired nodes of t, and the orphaned ones, a scan in progress included.
Retired(t) == IF hpc[t] = "local" THEN todo[t] \o survivors[t] ELSE retired[t]
Orphaned ==
  IF orphanedLock = Null THEN orphaned ELSE todo[orphanedLock] \o survivors[orphanedLock]

\* The occurrences of n in s, and where n is.
Occurrences(n, place, s) == {<<place, i>> : i \in {j \in 1..Len(s) : s[j] = n}}
Places(n) ==
  (UNION {Occurrences(n, t, Retired(t)) : t \in Threads})
  \cup Occurrences(n, "orphaned", Orphaned) \cup Occurrences(n, "pool", pool)
  \cup Occurrences(n, "list", ChainFrom(m_head))
  \cup {<<"new", t>> : t \in {u \in Threads : Unlinked(u) /\ new[u] = n}}
  \cup {<<"old", t>> : t \in {u \in Threads : At(u, {"take", "retire"}) /\ ptr[u] = n}}
  \cup {<<"fresh", f>> : f \in fresh \cap {n}}

\* Types are kept, and every node is in exactly one place: none leaks, none is
\* retired or pooled twice.
NodesAccounted ==
  TypeOK /\ (misled \/ m_head = Null \/ \A n \in Nodes : Cardinality(Places(n)) = 1)

\* size() differs from the number of values in the list by the pushes and pops
\* that are between their exchange and their count, modulo the width of size_t.
SizeBalance ==
  LET late(locations) == Cardinality({t \in Threads : At(t, locations)})
  IN  (m_size + late({"swingTail"}) + Len(taken)) % SizeModulus
        = (Len(linked) + late({"take"})) % SizeModulus
=============================================================================
