---------------------- MODULE MichaelScottQueueProofs ----------------------
(***************************************************************************)
(* Proofs about MichaelScottQueue over HazardPointers, for any number of    *)
(* threads, nodes, values, slots and retired nodes, and any width of size_t. *)
(*                                                                          *)
(* Each node is given a kind: where the algorithm has put it.  The kinds    *)
(* are not in the code; the invariant says that there is a way to assign    *)
(* them (kind, and owner for the kinds a thread has) that agrees with the   *)
(* retired lists, the orphaned list, the pool, the locals of the threads    *)
(* and the nodes not allocated yet, and by which the nodes of no such place *)
(* are those of the list.  A node has one kind, so the places are disjoint. *)
(* On top of it, the list is a chain from m_head whose values are the ones   *)
(* linked and not taken, and each value taken has one consumer.             *)
(***************************************************************************)
EXTENDS MichaelScottQueue, FiniteSetTheorems, SequenceTheorems, WellFoundedInduction, TLAPS

PCs == {"idle", "gone", "loadTail", "protectTail", "validateTail", "readNext", "helpTail",
        "casNext", "swingTail", "loop", "loadHead", "protectHead", "validateHead",
        "readHeadNext", "protectNext", "validateNext", "compareTail", "popHelpTail",
        "casHead", "take", "retire", "checkClosed"}

\* The locations with a pointer in ptr, in nxt, and in new.
WithPtr == {"protectTail", "validateTail", "readNext", "helpTail", "casNext", "swingTail",
            "protectHead", "validateHead", "readHeadNext", "protectNext", "validateNext",
            "compareTail", "popHelpTail", "casHead", "take", "retire"}
WithNxt == {"helpTail", "protectNext", "validateNext", "compareTail", "popHelpTail", "casHead",
            "take", "retire"}
WithNew == {"loadTail", "protectTail", "validateTail", "readNext", "helpTail", "casNext",
            "swingTail"}

\* The types of the variables TypeOK does not mention, and of the locals where
\* they are used.
Types ==
  /\ TypeOK
  /\ next \in [Nodes -> Nodes \cup {Null}] /\ value \in [Nodes -> Values \cup {Null}]
  /\ pc \in [Threads -> PCs]
  /\ ptr \in [Threads -> Nodes \cup {Null}] /\ nxt \in [Threads -> Nodes \cup {Null}]
  /\ records \in Seq(Threads) /\ orphaned \in Seq(Nodes) /\ pool \in Seq(Nodes)
  /\ retired \in [Threads -> Seq(Nodes)] /\ todo \in [Threads -> Seq(Nodes)]
  /\ survivors \in [Threads -> Seq(Nodes)]
  /\ hpc \in [Threads -> {"off", "local", "lock", "orphaned"}]
  /\ orphanedLock \in Threads \cup {Null}
  /\ record \in [Threads -> Nat] /\ slot \in [Threads -> Nat]
  /\ linked \in Seq(Values \cup {Null}) /\ taken \in Seq(Values \cup {Null})
  /\ misled \in BOOLEAN

Locals ==
  \A t \in Threads :
    /\ pc[t] \in WithPtr => ptr[t] \in Nodes
    /\ pc[t] \in WithNxt => nxt[t] \in Nodes
    /\ pc[t] \in WithNew => new[t] \in Nodes
    /\ hpc[t] \in {"off", "lock"} => survivors[t] = <<>>
    /\ record[t] <= Len(records)
    /\ pc[t] \notin {"idle", "gone"} \/ hpc[t] # "off" => m_head # Null

-----------------------------------------------------------------------------
(* Where the nodes are *)

Kinds == {"list", "retired", "orphaned", "pool", "new", "old", "fresh"}

\* kind and owner agree with the places.
Agrees(kind, owner) ==
  \A n \in Nodes :
    /\ \A t \in Threads :
         /\ n \in Members(Retired(t)) <=> kind[n] = "retired" /\ owner[n] = t
         /\ Unlinked(t) /\ new[t] = n <=> kind[n] = "new" /\ owner[n] = t
         /\ At(t, {"take", "retire"}) /\ ptr[t] = n <=> kind[n] = "old" /\ owner[n] = t
    /\ n \in Members(Orphaned) <=> kind[n] = "orphaned"
    /\ n \in Members(pool) <=> kind[n] = "pool"
    /\ n \in fresh <=> kind[n] = "fresh"

Distinct(s) == \A i, j \in 1..Len(s) : s[i] = s[j] => i = j

\* No place holds a node twice.
NoneTwice ==
  /\ \A t \in Threads : Distinct(Retired(t))
  /\ Distinct(Orphaned) /\ Distinct(pool)

\* The nodes that are in the list, or were and are not reclaimed.
Dead == {"retired", "orphaned", "old"}
Kept == Dead \cup {"list"}

\* m_head and m_tail are in the list, and following next from a node of the
\* list stays in it, never returns to m_head and never meets.
Shape(kind) ==
  /\ kind[m_head] = "list" /\ kind[m_tail] = "list"
  /\ \A n \in Nodes : kind[n] = "list" /\ next[n] # Null =>
       kind[next[n]] = "list" /\ next[n] # m_head
  /\ \A n, m \in Nodes : kind[n] = "list" /\ kind[m] = "list" /\ next[n] # Null =>
       (next[n] = next[m] => n = m)
  /\ \A n \in Nodes : kind[n] \in Dead => next[n] # Null
  /\ \A t \in Threads : Unlinked(t) => next[new[t]] = Null

-----------------------------------------------------------------------------
(* What the threads hold *)

\* A slot of t announces n, and the record of t is in the list of records.
Held(t, n) ==
  \E r \in 1..Len(records), i \in 1..slotsCount : records[r] = t /\ slots[t][i] = n

TailUse == {"readNext", "helpTail", "casNext"}
HeadUse == {"readHeadNext", "protectNext", "validateNext", "compareTail", "popHelpTail", "casHead"}
NextUse == {"compareTail", "popHelpTail", "casHead", "take"}

\* t has announced n and then found it in its place: t relies on n.
Guards(t, n) ==
  \/ pc[t] \in TailUse \cup HeadUse /\ n = ptr[t]
  \/ pc[t] \in NextUse /\ n = nxt[t]

PointersOf(t, kind) ==
  /\ pc[t] \in {"validateTail", "validateHead"} => Held(t, ptr[t])
  /\ pc[t] = "validateNext" => Held(t, nxt[t])
  /\ \A n \in Nodes : Guards(t, n) => Held(t, n) /\ kind[n] \in Kept
  /\ pc[t] \in HeadUse /\ kind[ptr[t]] = "list" => ptr[t] = m_head
  /\ pc[t] \in {"helpTail"} \cup (HeadUse \ {"readHeadNext"}) => nxt[t] = next[ptr[t]]
  /\ pc[t] = "casHead" /\ ptr[t] = m_head => m_tail # ptr[t]

Pointers(kind) == \A t \in Threads : PointersOf(t, kind)

\* The walk of t's scan has yet to come to a slot where u announces n.
Ahead(t, u, n) ==
  \E r \in 1..record[t], i \in 1..slotsCount :
    records[r] = u /\ slots[u][i] = n /\ (r = record[t] => slot[t] <= i)

\* A scan that is about to give a node to the pool will find it announced, if a
\* thread relies on it.
ScansSee ==
  \A t, u \in Threads :
    Scanning(t) /\ Guards(u, Head(todo[t])) => Ahead(t, u, Head(todo[t]))

Sound(kind, owner) ==
  Agrees(kind, owner) /\ NoneTwice /\ Shape(kind) /\ Pointers(kind) /\ ScansSee

-----------------------------------------------------------------------------
(* Types *)

\* A remainder is a value of size_t.
LEMMA SizeType ==
  ASSUME NEW x \in Int
  PROVE  x % SizeModulus \in 0..SizeModulus - 1
<1>1. SizeModulus \in Nat \ {0}
  BY QueueAssumption
<1> QED
  BY <1>1

\* Giving up the slots keeps their type.
LEMMA UnprotectType ==
  ASSUME Types, NEW t \in Threads, unprotect(t)
  PROVE  slots' \in [Threads -> [1..slotsCount -> Nodes \cup {Null}]]
BY DEF unprotect, Types, TypeOK

\* A step of protect() or initRecord() keeps the types.
LEMMA ProtectTypes ==
  ASSUME Types, NEW t \in Threads, NEW a, NEW b \in PCs, NEW p \in Nodes,
         Protect(t, a, b, p), pc[t] # "idle"
  PROVE  Types'
<1>1. slots' \in [Threads -> [1..slotsCount -> Nodes \cup {Null}]]
  <2>1. CASE HasRecord(t)
    <3>1. PICK i \in 1..slotsCount : slots' = [slots EXCEPT ![t][i] = p]
      BY <2>1 DEF Protect, protect
    <3> QED
      BY <3>1 DEF Types, TypeOK
  <2>2. CASE ~HasRecord(t)
    BY <2>2 DEF Protect, Types, TypeOK
  <2> QED
    BY <2>1, <2>2
<1>2. records' \in Seq(Threads)
  <2>1. records \in Seq(Threads) /\ Append(records, t) \in Seq(Threads)
    BY AppendProperties DEF Types
  <2> QED
    BY <2>1 DEF Protect, initRecord
<1>3. pc' \in [Threads -> PCs] /\ (pc' = pc \/ pc' = [pc EXCEPT ![t] = b])
  BY DEF Protect, Goto, Types
<1>4. hpc[t] = "off"
  BY DEF Types, TypeOK
<1> QED
  BY <1>1, <1>2, <1>3, <1>4
     DEF Protect, Types, TypeOK, scanVars, queueVars, localVars, historyVars

\* Every step keeps the types.
LEMMA TypesStep ==
  ASSUME Types, Locals, [Next]_vars
  PROVE  Types'
<1>h. Null \notin Nodes /\ Null \notin Threads /\ slotsCount \in Nat /\ SizeModulus \in Nat \ {0}
  BY HazardPointersAssumption, QueueAssumption
<1> USE DEF hazardVars, scanVars, queueVars, localVars, historyVars
<1>0. CASE UNCHANGED vars
  BY <1>0 DEF vars, Types, TypeOK
<1> SUFFICES ASSUME NEW t \in Threads,
                    \/ Begin(t) \/ Emplace(t) \/ TryPop(t)
                    \/ DeadlineOver(t) \/ EmptyClosed(t) \/ EmptyOpen(t) \/ ScanStep(t)
             PROVE  Types'
  BY <1>0 DEF Next
<1>1. CASE BeginEmplace(t)
  <2>1. PICK n \in Nodes :
          /\ IF pool # <<>> THEN allocate(n) /\ UNCHANGED fresh
             ELSE fresh' = fresh \ {n} /\ UNCHANGED pool
          /\ next' = [next EXCEPT ![n] = Null]
          /\ value' = [value EXCEPT ![n] = CHOOSE v \in Unused : TRUE]
          /\ new' = [new EXCEPT ![t] = n]
    BY <1>1 DEF BeginEmplace
  <2>2. pool' \in Seq(Nodes)
    <3>1. pool \in Seq(Nodes)
      BY DEF Types
    <3>2. CASE pool # <<>>
      <4>1. pool' = SubSeq(pool, 1, Len(pool) - 1)
        BY <2>1, <3>2 DEF allocate
      <4>2. Len(pool) \in Nat /\ \A i \in 1..Len(pool) - 1 : pool[i] \in Nodes
        BY <3>1, LenProperties, ElementOfSeq
      <4> QED
        BY <4>1, <4>2, SubSeqProperties
    <3> QED
      BY <2>1, <3>1, <3>2
  <2>3. (CHOOSE v \in Unused : TRUE) \in Values
    BY <1>1 DEF BeginEmplace, Unused
  <2>4. fresh' \subseteq Nodes /\ pc' \in [Threads -> PCs] /\ hpc' = hpc /\ pc[t] = "idle" /\ hpc[t] = "off"
    BY <1>1, <2>1 DEF BeginEmplace, Step, Goto, Types, TypeOK, PCs
  <2>5. /\ next' \in [Nodes -> Nodes \cup {Null}] /\ value' \in [Nodes -> Values \cup {Null}]
        /\ new' \in [Threads -> Nodes \cup {Null}]
    BY <2>1, <2>3 DEF Types, TypeOK
  <2> QED
    BY <1>1, <2>2, <2>4, <2>5 DEF BeginEmplace, Step, Goto, Types, TypeOK
<1>2. CASE LoadTail(t)
  BY <1>2, <1>h DEF LoadTail, Step, Goto, Load, Types, TypeOK, PCs
<1>3. CASE ProtectTail(t)
  <2>1. ptr[t] \in Nodes /\ pc[t] # "idle"
    BY <1>3 DEF ProtectTail, Protect, Locals, WithPtr, WithNxt
  <2> QED
    BY <1>3, <2>1, ProtectTypes DEF ProtectTail, PCs
<1>4. CASE ValidateTail(t)
  BY <1>4, <1>h DEF ValidateTail, Step, Goto, Types, TypeOK, PCs
<1>5. CASE TailMoved(t)
  BY <1>5, <1>h DEF TailMoved, Retry, unprotect, slotsOnly, Goto, Types, TypeOK, PCs
<1>6. CASE ReadNext(t)
  <2>1. next[ptr[t]] \in Nodes \cup {Null}
    BY <1>6 DEF ReadNext, Step, Types, Locals, WithPtr
  <2>2. pc' \in [Threads -> PCs] /\ pc[t] # "idle"
    BY <1>6 DEF ReadNext, Step, Goto, Types, PCs
  <2>3. nxt' \in [Threads -> Nodes \cup {Null}]
    BY <1>6, <2>1 DEF ReadNext, Types
  <2> QED
    BY <1>6, <2>2, <2>3 DEF ReadNext, Step, Goto, Types, TypeOK
<1>7. CASE HelpTail(t)
  <2>1. m_tail' \in Nodes
    BY <1>7 DEF HelpTail, CasTail, AfterCasTail, Types, TypeOK, Locals, WithNxt
  <2>2. slots' \in [Threads -> [1..slotsCount -> Nodes \cup {Null}]]
    BY <1>7, UnprotectType DEF HelpTail, Retry
  <2> QED
    BY <1>7, <1>h, <2>1, <2>2 DEF HelpTail, CasTail, Retry, slotsOnly, Goto, Types, TypeOK, PCs
<1>8. CASE CasNext(t)
  <2>1. slots' \in [Threads -> [1..slotsCount -> Nodes \cup {Null}]]
    BY <1>8, UnprotectType DEF CasNext
  <2>2. ptr[t] \in Nodes /\ new[t] \in Nodes /\ value[new[t]] \in Values \cup {Null}
    BY <1>8 DEF CasNext, Step, Types, Locals, WithPtr, WithNew
  <2>3. linked' \in Seq(Values \cup {Null})
    BY <1>8, <2>2, AppendProperties DEF CasNext, Types
  <2> QED
    <3>1. /\ pc' = [pc EXCEPT ![t] = "swingTail"] /\ pc' \in [Threads -> PCs]
          /\ next' \in [Nodes -> Nodes \cup {Null}] /\ hpc[t] = "off"
      BY <1>8, <1>h, <2>2 DEF CasNext, Step, Goto, Types, TypeOK, PCs
    <3>2. UNCHANGED <<m_head, m_tail, m_size, m_closed, fresh, value, new, ptr, nxt, records,
                      retired, orphaned, orphanedLock, pool, hpc, todo, survivors, record, slot,
                      taken, misled>>
      BY <1>8 DEF CasNext, slotsOnly, scanVars, localVars
    <3>3. \A u \in Threads : hpc[u] # "off" => pc'[u] = "idle"
      BY <3>1 DEF Types, TypeOK
    <3> QED
      BY <2>1, <2>3, <3>1, <3>2, <3>3 DEF Types, TypeOK
<1>9. CASE CasNextFails(t)
  BY <1>9, <1>h DEF CasNextFails, Retry, unprotect, slotsOnly, Goto, Types, TypeOK, PCs
<1>10. CASE SwingTail(t)
  <2>1. m_tail' \in Nodes
    BY <1>10 DEF SwingTail, FinishPush, Step, AfterCasTail, Types, TypeOK, Locals, WithNew
  <2>2. m_size' \in 0..SizeModulus - 1
    <3>1. m_size + 1 \in Int
      BY <1>h DEF Types, TypeOK
    <3> QED
      BY <1>10, <3>1, SizeType DEF SwingTail, FinishPush
  <2>3. misled' \in BOOLEAN
    BY <1>10 DEF SwingTail, FinishPush, Types
  <2> QED
    BY <1>10, <1>h, <2>1, <2>2, <2>3 DEF SwingTail, FinishPush, Step, Goto, Forget, Types, TypeOK, PCs
<1>11. CASE BeginPop(t)
  BY <1>11, <1>h DEF BeginPop, Step, Goto, Types, TypeOK, PCs
<1>12. CASE DeadlineOver(t)
  BY <1>12, <1>h DEF DeadlineOver, ReturnNothing, Goto, Forget, Types, TypeOK, PCs
<1>13. CASE LoadHead(t)
  BY <1>13, <1>h DEF LoadHead, Step, Goto, Load, Types, TypeOK, PCs
<1>14. CASE ProtectHead(t)
  <2>1. ptr[t] \in Nodes /\ pc[t] # "idle"
    BY <1>14 DEF ProtectHead, Protect, Locals, WithPtr, WithNxt
  <2> QED
    BY <1>14, <2>1, ProtectTypes DEF ProtectHead, PCs
<1>15. CASE ValidateHead(t)
  BY <1>15, <1>h DEF ValidateHead, Step, Goto, Types, TypeOK, PCs
<1>16. CASE HeadMoved(t)
  BY <1>16, <1>h DEF HeadMoved, Retry, unprotect, slotsOnly, Goto, Types, TypeOK, PCs
<1>17. CASE ReadHeadNext(t)
  <2>1. next[ptr[t]] \in Nodes \cup {Null}
    BY <1>17 DEF ReadHeadNext, Step, Types, Locals, WithPtr
  <2>2. pc' \in [Threads -> PCs] /\ pc[t] # "idle"
    BY <1>17 DEF ReadHeadNext, Step, Goto, Types, PCs
  <2>3. nxt' \in [Threads -> Nodes \cup {Null}]
    BY <1>17, <2>1 DEF ReadHeadNext, Types
  <2> QED
    BY <1>17, <2>2, <2>3 DEF ReadHeadNext, Step, Goto, Types, TypeOK
<1>18. CASE FoundEmpty(t)
  <2>1. slots' \in [Threads -> [1..slotsCount -> Nodes \cup {Null}]]
    BY <1>18, UnprotectType DEF FoundEmpty, Retry
  <2>2. pc[t] # "idle" /\ Retry(t, "checkClosed") /\ UNCHANGED queueVars
    BY <1>18 DEF FoundEmpty
  <2> QED
    BY <2>1, <2>2 DEF Retry, slotsOnly, Goto, Types, TypeOK, PCs
<1>19. CASE EmptyClosed(t)
  BY <1>19, <1>h DEF EmptyClosed, ReturnNothing, Goto, Forget, Types, TypeOK, PCs
<1>20. CASE EmptyOpen(t)
  BY <1>20, <1>h DEF EmptyOpen, Step, Goto, Types, TypeOK, PCs
<1>21. CASE ProtectNext(t)
  <2>1. nxt[t] \in Nodes /\ pc[t] # "idle"
    BY <1>21 DEF ProtectNext, Protect, Locals, WithPtr, WithNxt
  <2> QED
    BY <1>21, <2>1, ProtectTypes DEF ProtectNext, PCs
<1>22. CASE ValidateNext(t)
  BY <1>22, <1>h DEF ValidateNext, Step, Goto, Types, TypeOK, PCs
<1>23. CASE CompareTail(t)
  BY <1>23, <1>h DEF CompareTail, Step, Goto, Types, TypeOK, PCs
<1>24. CASE PopHelpTail(t)
  <2>1. m_tail' \in Nodes
    BY <1>24 DEF PopHelpTail, CasTail, AfterCasTail, Types, TypeOK, Locals, WithNxt
  <2>2. slots' \in [Threads -> [1..slotsCount -> Nodes \cup {Null}]]
    BY <1>24, UnprotectType DEF PopHelpTail, Retry
  <2> QED
    BY <1>24, <1>h, <2>1, <2>2 DEF PopHelpTail, CasTail, Retry, slotsOnly, Goto, Types, TypeOK, PCs
<1>25. CASE CasHead(t)
  <2>1. nxt[t] \in Nodes /\ value[nxt[t]] \in Values \cup {Null}
    BY <1>25 DEF CasHead, Step, Types, Locals, WithNxt
  <2>2. taken' \in Seq(Values \cup {Null})
    BY <1>25, <2>1, AppendProperties DEF CasHead, Types
  <2> QED
    BY <1>25, <1>h, <2>1, <2>2 DEF CasHead, Step, Goto, Types, TypeOK, PCs
<1>26. CASE CasHeadFails(t)
  BY <1>26, <1>h DEF CasHeadFails, Retry, unprotect, slotsOnly, Goto, Types, TypeOK, PCs
<1>27. CASE TakeValue(t)
  <2>1. m_size' \in 0..SizeModulus - 1
    <3>1. m_size + SizeModulus - 1 \in Int
      BY <1>h DEF Types, TypeOK
    <3> QED
      BY <1>27, <3>1, SizeType DEF TakeValue
  <2> QED
    BY <1>27, <1>h, <2>1 DEF TakeValue, Step, Goto, Types, TypeOK, PCs
<1>28. CASE RetireHead(t)
  <2>1. slots' \in [Threads -> [1..slotsCount -> Nodes \cup {Null}]]
    BY <1>28, UnprotectType DEF RetireHead
  <2>2. ptr[t] \in Nodes /\ retired[t] \in Seq(Nodes)
    BY <1>28 DEF RetireHead, Step, Types, Locals, WithPtr
  <2>3. Append(retired[t], ptr[t]) \in Seq(Nodes) /\ Len(records) \in Nat
    BY <2>2, AppendProperties, LenProperties DEF Types
  <2>4. /\ retired' \in [Threads -> Seq(Nodes)] /\ todo' \in [Threads -> Seq(Nodes)]
        /\ record' \in [Threads -> Nat] /\ slot' \in [Threads -> Nat]
        /\ survivors' = survivors
    <3>1. retire(t, ptr[t])
      BY <1>28 DEF RetireHead
    <3>2. CASE Len(retired[t]) + 1 > retireThreshold
      <4>1. /\ retired' = [retired EXCEPT ![t] = Append(retired[t], ptr[t])]
            /\ todo' = [todo EXCEPT ![t] = Append(retired[t], ptr[t])]
            /\ record' = [record EXCEPT ![t] = Len(records)]
            /\ slot' = [slot EXCEPT ![t] = 1] /\ survivors' = survivors
        BY <3>1, <3>2 DEF retire, Rewind
      <4> QED
        BY <2>3, <4>1 DEF Types
    <3>3. CASE ~(Len(retired[t]) + 1 > retireThreshold)
      BY <2>3, <3>1, <3>3 DEF retire, Types
    <3> QED
      BY <3>2, <3>3
  <2>5. /\ pc' = [pc EXCEPT ![t] = "idle"] /\ hpc[t] = "off"
        /\ hpc' = hpc \/ hpc' = [hpc EXCEPT ![t] = "local"]
        /\ new' \in [Threads -> Nodes \cup {Null}] /\ ptr' \in [Threads -> Nodes \cup {Null}]
        /\ nxt' \in [Threads -> Nodes \cup {Null}]
    BY <1>28 DEF RetireHead, retire, Step, Goto, Forget, Types, TypeOK
  <2>6. /\ hpc' \in [Threads -> {"off", "local", "lock", "orphaned"}] /\ pc' \in [Threads -> PCs]
        /\ \A u \in Threads : /\ hpc'[u] # "off" => pc'[u] = "idle"
                              /\ hpc'[u] = "orphaned" <=> orphanedLock = u
    <3>1. CASE hpc' = hpc
      BY <2>5, <3>1 DEF Types, TypeOK, PCs
    <3>2. CASE hpc' = [hpc EXCEPT ![t] = "local"]
      BY <2>5, <3>2 DEF Types, TypeOK, PCs
    <3> QED
      BY <2>5, <3>1, <3>2
  <2> QED
    BY <1>28, <2>1, <2>4, <2>5, <2>6 DEF RetireHead, Types, TypeOK
<1>29. CASE close(t)
  BY <1>29, <1>h DEF close, Step, Goto, Types, TypeOK, PCs
<1>30. CASE EndThread(t)
  <2>1. orphaned' \in Seq(Nodes)
    <3>1. orphaned \in Seq(Nodes) /\ retired[t] \in Seq(Nodes)
      BY DEF Types
    <3> QED
      BY <1>30, <3>1, ConcatProperties DEF EndThread, ThreadExit
  <2>2. retired' \in [Threads -> Seq(Nodes)]
    BY <1>30 DEF EndThread, ThreadExit, Types
  <2> QED
    BY <1>30, <1>h, <2>1, <2>2 DEF EndThread, ThreadExit, Step, Goto, Types, TypeOK, PCs
<1>31. CASE Destroy(t)
  <2>1. /\ orphaned \in Seq(Nodes) /\ retired[t] \in Seq(Nodes) /\ pool \in Seq(Nodes)
        /\ pool' = pool \o retired[t] \o orphaned
    BY <1>31 DEF Destroy, drain, Types
  <2>2. pool \o retired[t] \in Seq(Nodes)
    BY <2>1, ConcatProperties
  <2>3. \A s \in Seq(Nodes) : s \o orphaned \in Seq(Nodes)
    BY <2>1, ConcatProperties
  <2>4. pool' \in Seq(Nodes)
    BY <2>1, <2>2, <2>3, Zenon
  <2>5. retired' \in [Threads -> Seq(Nodes)] /\ orphaned' \in Seq(Nodes)
    BY <1>31, EmptySeq DEF Destroy, drain, Types
  <2> QED
    BY <1>31, <1>h, <2>4, <2>5 DEF Destroy, drain, Types, TypeOK
<1>32. CASE ScanStep(t) /\ ScanFinds(t)
  <2>1. Head(todo[t]) \in Nodes /\ Tail(todo[t]) \in Seq(Nodes) /\ Len(records) \in Nat
    <3>1. todo[t] # <<>> /\ todo[t] \in Seq(Nodes) /\ records \in Seq(Threads)
      BY <1>32 DEF ScanFinds, Scanning, Types
    <3> QED
      BY <3>1, HeadTailProperties, LenProperties
  <2>2. todo' \in [Threads -> Seq(Nodes)] /\ record' \in [Threads -> Nat] /\ slot' \in [Threads -> Nat]
    BY <1>32, <2>1 DEF ScanFinds, Rewind, Types
  <2>3. survivors[t] \in Seq(Nodes)
    BY DEF Types
  <2>4. Append(survivors[t], Head(todo[t])) \in Seq(Nodes)
    BY <2>1, <2>3, AppendProperties
  <2>5. survivors' \in [Threads -> Seq(Nodes)]
    BY <1>32, <2>4 DEF ScanFinds, Types
  <2> QED
    BY <1>32, <2>2, <2>5 DEF ScanStep, ScanFinds, Types, TypeOK
<1>33. CASE ScanStep(t) /\ ScanAdvances(t)
  <2>1. record[t] \in Nat /\ slot[t] \in Nat /\ record[t] # 0
    BY <1>33 DEF ScanAdvances, LastSlot, Types
  <2>2. record' \in [Threads -> Nat] /\ slot' \in [Threads -> Nat]
    <3>1. record \in [Threads -> Nat] /\ slot \in [Threads -> Nat]
      BY DEF Types
    <3>2. CASE slot[t] < slotsCount
      BY <1>33, <2>1, <3>1, <3>2 DEF ScanAdvances
    <3>3. CASE ~(slot[t] < slotsCount)
      BY <1>33, <2>1, <3>1, <3>3 DEF ScanAdvances
    <3> QED
      BY <3>2, <3>3
  <2> QED
    BY <1>33, <2>2 DEF ScanStep, ScanAdvances, Types, TypeOK
<1>34. CASE ScanStep(t) /\ ScanDeallocates(t)
  <2>1. Head(todo[t]) \in Nodes /\ Tail(todo[t]) \in Seq(Nodes) /\ Len(records) \in Nat
    <3>1. todo[t] # <<>> /\ todo[t] \in Seq(Nodes) /\ records \in Seq(Threads)
      BY <1>34 DEF ScanDeallocates, Scanning, Types
    <3> QED
      BY <3>1, HeadTailProperties, LenProperties
  <2>2. todo' \in [Threads -> Seq(Nodes)] /\ record' \in [Threads -> Nat] /\ slot' \in [Threads -> Nat]
    BY <1>34, <2>1 DEF ScanDeallocates, Deallocate, Rewind, Types
  <2>3. pool' \in Seq(Nodes)
    <3>1. pool \in Seq(Nodes)
      BY DEF Types
    <3> QED
      BY <1>34, <2>1, <3>1, AppendProperties DEF ScanDeallocates, Deallocate
  <2> QED
    BY <1>34, <2>2, <2>3 DEF ScanStep, ScanDeallocates, Deallocate, Types, TypeOK
<1>35. CASE ScanStep(t) /\ LocalDone(t)
  BY <1>35, <1>h DEF ScanStep, LocalDone, Types, TypeOK, PCs
<1>36. CASE ScanStep(t) /\ LockOrphaned(t)
  BY <1>36, <1>h DEF ScanStep, LockOrphaned, Rewind, Types, TypeOK, PCs
<1>37. CASE ScanStep(t) /\ OrphanedDone(t)
  <2>1. orphaned' \in Seq(Nodes) /\ survivors' \in [Threads -> Seq(Nodes)]
    BY <1>37, EmptySeq DEF OrphanedDone, Types
  <2>2. /\ hpc' = [hpc EXCEPT ![t] = "off"] /\ orphanedLock' = Null /\ hpc[t] = "orphaned"
        /\ UNCHANGED pc
    BY <1>37 DEF ScanStep, OrphanedDone
  <2>3. /\ hpc' \in [Threads -> {"off", "local", "lock", "orphaned"}]
        /\ \A u \in Threads : /\ hpc'[u] # "off" => pc'[u] = "idle"
                              /\ hpc'[u] = "orphaned" <=> orphanedLock' = u
    BY <1>h, <2>2 DEF Types, TypeOK
  <2> QED
    BY <1>37, <2>1, <2>2, <2>3 DEF ScanStep, OrphanedDone, Types, TypeOK
<1> QED
  BY <1>1, <1>2, <1>3, <1>4, <1>5, <1>6, <1>7, <1>8, <1>9, <1>10, <1>11, <1>12, <1>13, <1>14,
     <1>15, <1>16, <1>17, <1>18, <1>19, <1>20, <1>21, <1>22, <1>23, <1>24, <1>25, <1>26, <1>27,
     <1>28, <1>29, <1>30, <1>31, <1>32, <1>33, <1>34, <1>35, <1>36, <1>37 DEF Begin, Emplace,
     TryPop, ScanStep, Scan

\* Every step leaves the locals as their locations need them.
LEMMA LocalsStep ==
  ASSUME Types, Locals, [Next]_vars
  PROVE  Locals'
<1>t. /\ pc \in [Threads -> PCs] /\ hpc \in [Threads -> {"off", "local", "lock", "orphaned"}]
      /\ ptr \in [Threads -> Nodes \cup {Null}] /\ nxt \in [Threads -> Nodes \cup {Null}]
      /\ new \in [Threads -> Nodes \cup {Null}] /\ next \in [Nodes -> Nodes \cup {Null}]
      /\ m_head \in Nodes \cup {Null} /\ m_tail \in Nodes /\ Null \notin Nodes
      /\ survivors \in [Threads -> Seq(Nodes)] /\ records \in Seq(Threads) /\ Len(records) \in Nat
      /\ record \in [Threads -> Nat]
      /\ \A u \in Threads : hpc[u] # "off" => pc[u] = "idle"
  BY HazardPointersAssumption, LenProperties DEF Types, TypeOK
<1> USE DEF hazardVars, scanVars, queueVars, localVars, historyVars
<1>0. CASE UNCHANGED vars
  BY <1>0 DEF vars, Locals
<1> SUFFICES ASSUME NEW t \in Threads,
                    \/ Begin(t) \/ Emplace(t) \/ TryPop(t)
                    \/ DeadlineOver(t) \/ EmptyClosed(t) \/ EmptyOpen(t) \/ ScanStep(t)
             PROVE  Locals'
  BY <1>0 DEF Next
<1>1. CASE BeginEmplace(t)
  BY <1>1, <1>t DEF BeginEmplace, Step, Goto, Locals, WithPtr, WithNxt, WithNew
<1>2. CASE LoadTail(t)
  BY <1>2, <1>t DEF LoadTail, Step, Goto, Load, Locals, WithPtr, WithNxt, WithNew
<1>3. CASE ProtectTail(t)
  <2>1. /\ pc' = pc \/ pc' = [pc EXCEPT ![t] = "validateTail"]
        /\ pc[t] = "protectTail" /\ UNCHANGED <<m_head, ptr, nxt, new, hpc, survivors, record>>
    BY <1>3 DEF ProtectTail, Protect, Goto
  <2>2. Len(records) <= Len(records')
    BY <1>3, <1>t, AppendProperties, LenProperties DEF ProtectTail, Protect, initRecord
  <2> QED
    BY <1>t, <2>1, <2>2, LenProperties DEF Locals, WithPtr, WithNxt, WithNew
<1>4. CASE ValidateTail(t)
  BY <1>4, <1>t DEF ValidateTail, Step, Goto, Locals, WithPtr, WithNxt, WithNew
<1>5. CASE TailMoved(t)
  BY <1>5, <1>t DEF TailMoved, Retry, unprotect, slotsOnly, Goto, Locals, WithPtr, WithNxt,
     WithNew
<1>6. CASE ReadNext(t)
  BY <1>6, <1>t DEF ReadNext, Step, Goto, Locals, WithPtr, WithNxt, WithNew
<1>7. CASE HelpTail(t)
  BY <1>7, <1>t DEF HelpTail, CasTail, AfterCasTail, Retry, unprotect, slotsOnly, Goto, Locals,
     WithPtr, WithNxt, WithNew
<1>8. CASE CasNext(t)
  BY <1>8, <1>t DEF CasNext, Step, Goto, unprotect, slotsOnly, Locals, WithPtr, WithNxt,
     WithNew
<1>9. CASE CasNextFails(t)
  BY <1>9, <1>t DEF CasNextFails, Retry, unprotect, slotsOnly, Goto, Locals, WithPtr, WithNxt,
     WithNew
<1>10. CASE SwingTail(t)
  BY <1>10, <1>t DEF SwingTail, FinishPush, AfterCasTail, Step, Goto, Forget, Locals, WithPtr,
     WithNxt, WithNew
<1>11. CASE BeginPop(t)
  BY <1>11, <1>t DEF BeginPop, Step, Goto, Locals, WithPtr, WithNxt, WithNew
<1>12. CASE DeadlineOver(t)
  BY <1>12, <1>t DEF DeadlineOver, ReturnNothing, Goto, Forget, Locals, WithPtr, WithNxt,
     WithNew
<1>13. CASE LoadHead(t)
  BY <1>13, <1>t DEF LoadHead, Step, Goto, Load, Locals, WithPtr, WithNxt, WithNew
<1>14. CASE ProtectHead(t)
  <2>1. /\ pc' = pc \/ pc' = [pc EXCEPT ![t] = "validateHead"]
        /\ pc[t] = "protectHead" /\ UNCHANGED <<m_head, ptr, nxt, new, hpc, survivors, record>>
    BY <1>14 DEF ProtectHead, Protect, Goto
  <2>2. Len(records) <= Len(records')
    BY <1>14, <1>t, AppendProperties, LenProperties DEF ProtectHead, Protect, initRecord
  <2> QED
    BY <1>t, <2>1, <2>2, LenProperties DEF Locals, WithPtr, WithNxt, WithNew
<1>15. CASE ValidateHead(t)
  BY <1>15, <1>t DEF ValidateHead, Step, Goto, Locals, WithPtr, WithNxt, WithNew
<1>16. CASE HeadMoved(t)
  BY <1>16, <1>t DEF HeadMoved, Retry, unprotect, slotsOnly, Goto, Locals, WithPtr, WithNxt,
     WithNew
<1>17. CASE ReadHeadNext(t)
  BY <1>17, <1>t DEF ReadHeadNext, Step, Goto, Locals, WithPtr, WithNxt, WithNew
<1>18. CASE FoundEmpty(t)
  BY <1>18, <1>t DEF FoundEmpty, Retry, unprotect, slotsOnly, Goto, Locals, WithPtr, WithNxt,
     WithNew
<1>19. CASE EmptyClosed(t)
  BY <1>19, <1>t DEF EmptyClosed, ReturnNothing, Goto, Forget, Locals, WithPtr, WithNxt,
     WithNew
<1>20. CASE EmptyOpen(t)
  BY <1>20, <1>t DEF EmptyOpen, Step, Goto, Locals, WithPtr, WithNxt, WithNew
<1>21. CASE ProtectNext(t)
  <2>1. /\ pc' = pc \/ pc' = [pc EXCEPT ![t] = "validateNext"]
        /\ pc[t] = "protectNext" /\ UNCHANGED <<m_head, ptr, nxt, new, hpc, survivors, record>>
    BY <1>21 DEF ProtectNext, Protect, Goto
  <2>2. Len(records) <= Len(records')
    BY <1>21, <1>t, AppendProperties, LenProperties DEF ProtectNext, Protect, initRecord
  <2> QED
    BY <1>t, <2>1, <2>2, LenProperties DEF Locals, WithPtr, WithNxt, WithNew
<1>22. CASE ValidateNext(t)
  BY <1>22, <1>t DEF ValidateNext, Step, Goto, Locals, WithPtr, WithNxt, WithNew
<1>23. CASE CompareTail(t)
  BY <1>23, <1>t DEF CompareTail, Step, Goto, Locals, WithPtr, WithNxt, WithNew
<1>24. CASE PopHelpTail(t)
  BY <1>24, <1>t DEF PopHelpTail, CasTail, AfterCasTail, Retry, unprotect, slotsOnly, Goto,
     Locals, WithPtr, WithNxt, WithNew
<1>25. CASE CasHead(t)
  BY <1>25, <1>t DEF CasHead, Step, Goto, Locals, WithPtr, WithNxt, WithNew
<1>26. CASE CasHeadFails(t)
  BY <1>26, <1>t DEF CasHeadFails, Retry, unprotect, slotsOnly, Goto, Locals, WithPtr, WithNxt,
     WithNew
<1>27. CASE TakeValue(t)
  BY <1>27, <1>t DEF TakeValue, Step, Goto, Locals, WithPtr, WithNxt, WithNew
<1>28. CASE RetireHead(t)
  BY <1>28, <1>t DEF RetireHead, Step, Goto, Forget, unprotect, retire, Rewind, Locals,
     WithPtr, WithNxt, WithNew
<1>29. CASE close(t)
  BY <1>29, <1>t DEF close, Step, Goto, Locals, WithPtr, WithNxt, WithNew
<1>30. CASE EndThread(t)
  BY <1>30, <1>t DEF EndThread, ThreadExit, Step, Goto, Locals, WithPtr, WithNxt, WithNew
<1>31. CASE Destroy(t)
  BY <1>31, <1>t DEF Destroy, drain, Locals, WithPtr, WithNxt, WithNew
<1>32. CASE ScanStep(t) /\ ScanFinds(t)
  BY <1>32, <1>t DEF ScanStep, ScanFinds, Scanning, Rewind, Locals, WithPtr, WithNxt, WithNew
<1>33. CASE ScanStep(t) /\ ScanAdvances(t)
  <2>1. record[t] \in Nat /\ record[t] # 0 /\ UNCHANGED <<m_head, pc, ptr, nxt, new, hpc, survivors, records>>
    BY <1>33, <1>t DEF ScanStep, ScanAdvances, LastSlot
  <2>2. record' = record \/ record' = [record EXCEPT ![t] = record[t] - 1]
    BY <1>33 DEF ScanAdvances
  <2>3. \A u \in Threads : record'[u] <= record[u] /\ record'[u] \in Nat
    <3>1. record \in [Threads -> Nat]
      BY <1>t
    <3>2. CASE record' = record
      BY <3>1, <3>2
    <3>3. CASE record' = [record EXCEPT ![t] = record[t] - 1]
      BY <2>1, <3>1, <3>3
    <3> QED
      BY <2>2, <3>2, <3>3
  <2>4. \A u \in Threads : record'[u] <= Len(records')
    <3>1. \A u \in Threads : record[u] \in Nat /\ record[u] <= Len(records) /\ Len(records') = Len(records)
      BY <1>t, <2>1 DEF Locals
    <3> QED
      BY <1>t, <2>3, <3>1
  <2> QED
    BY <2>1, <2>4 DEF Locals, WithPtr, WithNxt, WithNew
<1>34. CASE ScanStep(t) /\ ScanDeallocates(t)
  BY <1>34, <1>t DEF ScanStep, ScanDeallocates, Deallocate, Scanning, Rewind, Locals, WithPtr,
     WithNxt, WithNew
<1>35. CASE ScanStep(t) /\ LocalDone(t)
  BY <1>35, <1>t DEF ScanStep, LocalDone, Locals, WithPtr, WithNxt, WithNew
<1>36. CASE ScanStep(t) /\ LockOrphaned(t)
  BY <1>36, <1>t DEF ScanStep, LockOrphaned, Rewind, Locals, WithPtr, WithNxt, WithNew
<1>37. CASE ScanStep(t) /\ OrphanedDone(t)
  BY <1>37, <1>t DEF ScanStep, OrphanedDone, Locals, WithPtr, WithNxt, WithNew
<1> QED
  BY <1>1, <1>2, <1>3, <1>4, <1>5, <1>6, <1>7, <1>8, <1>9, <1>10, <1>11, <1>12, <1>13, <1>14,
     <1>15, <1>16, <1>17, <1>18, <1>19, <1>20, <1>21, <1>22, <1>23, <1>24, <1>25, <1>26, <1>27,
     <1>28, <1>29, <1>30, <1>31, <1>32, <1>33, <1>34, <1>35, <1>36, <1>37 DEF Begin, Emplace,
     TryPop, ScanStep, Scan

-----------------------------------------------------------------------------
(* m_size *)

\* A number is its quotient and its remainder.
LEMMA DivMod ==
  ASSUME NEW M \in Nat \ {0}, NEW x \in Int
  PROVE  /\ x \div M \in Int /\ x % M \in Int /\ 0 <= x % M /\ x % M < M
         /\ x = M * (x \div M) + (x % M)
<1>1. x \div M \in Int /\ x % M \in 0..M - 1
  OBVIOUS
<1>2. x = M * (x \div M) + (x % M)
  BY Z3
<1> QED
  BY <1>1, <1>2

\* A multiple of M that is smaller than M in absolute value is 0.
LEMMA SmallMultiple ==
  ASSUME NEW M \in Nat \ {0}, NEW k \in Int, NEW d \in Int, d = M * k, d < M, d > -M
  PROVE  d = 0
<1>1. CASE k >= 1
  <2>1. M * k >= M
    BY <1>1
  <2> QED
    BY <2>1
<1>2. CASE k <= -1
  <2>1. M * k <= -M
    BY <1>2
  <2> QED
    BY <2>1
<1>3. CASE k = 0
  BY <1>3
<1> QED
  BY <1>1, <1>2, <1>3

\* Quotient and remainder are unique: two remainders below the modulus of one number are equal.
LEMMA RemainderUnique ==
  ASSUME NEW M \in Nat \ {0}, NEW q \in Int, NEW r \in Int, NEW s \in Int, NEW u \in Int,
         M * q + r = M * s + u, 0 <= r, r < M, 0 <= u, u < M
  PROVE  r = u
<1>1. r - u = M * (s - q)
  OBVIOUS
<1>2. r - u = 0
  BY <1>1, SmallMultiple
<1> QED
  BY <1>2

\* Numbers that differ by a multiple of M are equal modulo M, and conversely.
LEMMA ModShift ==
  ASSUME NEW M \in Nat \ {0}, NEW x \in Int, NEW y \in Int, \E k \in Int : x = y + M * k
  PROVE  x % M = y % M
<1> PICK k \in Int : x = y + M * k
  OBVIOUS
<1> DEFINE a == x \div M
           b == (y \div M) + k
           r == x % M
           u == y % M
<1>1. /\ a \in Int /\ r \in Int /\ 0 <= r /\ r < M /\ x = M * a + r
      /\ y \div M \in Int /\ u \in Int /\ 0 <= u /\ u < M /\ y = M * (y \div M) + u
  BY DivMod
<1>2. b \in Int /\ M * a + r = M * b + u
  BY <1>1
<1> HIDE DEF a, b, r, u
<1>3. r = u
  BY <1>1, <1>2, RemainderUnique
<1> QED
  BY <1>3 DEF r, u

\* Numbers with equal remainders differ by a multiple of the modulus.
LEMMA ModEqual ==
  ASSUME NEW M \in Nat \ {0}, NEW x \in Int, NEW y \in Int, x % M = y % M
  PROVE  \E k \in Int : x = y + M * k
<1>1. /\ x \div M \in Int /\ x % M \in Int /\ x = M * (x \div M) + (x % M)
      /\ y \div M \in Int /\ y % M \in Int /\ y = M * (y \div M) + (y % M)
  BY DivMod
<1>2. (x \div M) - (y \div M) \in Int /\ x = y + M * ((x \div M) - (y \div M))
  BY <1>1
<1> QED
  BY <1>2

\* Equality modulo M is kept by adding the same number.
LEMMA ModAdd ==
  ASSUME NEW M \in Nat \ {0}, NEW x \in Int, NEW y \in Int, NEW d \in Int, x % M = y % M
  PROVE  (x + d) % M = (y + d) % M
<1>1. PICK k \in Int : x = y + M * k
  BY ModEqual
<1> DEFINE X == x + d
           Y == y + d
<1>2. X \in Int /\ Y \in Int /\ X = Y + M * k
  BY <1>1
<1> HIDE DEF X, Y
<1>3. X % M = Y % M
  BY <1>2, ModShift
<1> QED
  BY <1>3 DEF X, Y

\* The remainder can be taken early.
LEMMA ModInner ==
  ASSUME NEW M \in Nat \ {0}, NEW x \in Int, NEW d \in Int
  PROVE  x % M \in Int /\ ((x % M) + d) % M = (x + d) % M
<1>1. x % M \in Int /\ x \div M \in Int /\ x = M * (x \div M) + (x % M)
  BY DivMod
<1> DEFINE X == x + d
           Y == (x % M) + d
<1>2. X \in Int /\ Y \in Int /\ X = Y + M * (x \div M)
  BY <1>1
<1>4. \E k \in Int : X = Y + M * k
  BY <1>1, <1>2
<1> HIDE DEF X, Y
<1>3. X % M = Y % M
  BY <1>2, <1>4, ModShift
<1> QED
  BY <1>1, <1>3 DEF X, Y

-----------------------------------------------------------------------------
\* The threads between their exchange and their count.
Late(location) == {t \in Threads : At(t, {location})}

\* The threads between exchange and count can be counted.
LEMMA LateFinite ==
  ASSUME NEW l
  PROVE  /\ IsFiniteSet(Late(l)) /\ Cardinality(Late(l)) \in Nat
         /\ IsFiniteSet(Late(l)') /\ Cardinality(Late(l)') \in Nat
<1>1. Late(l) \subseteq Threads /\ Late(l)' \subseteq Threads
  BY DEF Late
<1>2. IsFiniteSet(Late(l)) /\ IsFiniteSet(Late(l)')
  BY <1>1, QueueAssumption, FS_Subset
<1> QED
  BY <1>2, FS_CardinalityType

\* The five things a step is to the count.
LEMMA LateStep ==
  ASSUME Types, Locals, [Next]_vars
  PROVE  \/ UNCHANGED <<m_size, linked, taken, Late("swingTail"), Late("take")>>
         \/ \E t \in Threads :
              \/ /\ CasNext(t) /\ UNCHANGED <<m_size, taken, Late("take")>>
                 /\ Len(linked') = Len(linked) + 1
                 /\ t \notin Late("swingTail") /\ Late("swingTail")' = Late("swingTail") \cup {t}
              \/ /\ UNCHANGED <<linked, taken, Late("take")>>
                 /\ m_size' = (m_size + 1) % SizeModulus
                 /\ t \in Late("swingTail") /\ Late("swingTail")' = Late("swingTail") \ {t}
              \/ /\ UNCHANGED <<m_size, linked, Late("swingTail")>>
                 /\ Len(taken') = Len(taken) + 1
                 /\ t \notin Late("take") /\ Late("take")' = Late("take") \cup {t}
              \/ /\ UNCHANGED <<linked, taken, Late("swingTail")>>
                 /\ m_size' = (m_size + SizeModulus - 1) % SizeModulus
                 /\ t \in Late("take") /\ Late("take")' = Late("take") \ {t}
<1>t. pc \in [Threads -> PCs]
  BY DEF Types
<1> DEFINE Same == UNCHANGED <<m_size, linked, taken, Late("swingTail"), Late("take")>>
<1> USE DEF hazardVars, scanVars, queueVars, localVars, historyVars, Late, At
<1>0. CASE UNCHANGED vars
  BY <1>0 DEF vars
<1> SUFFICES ASSUME NEW t \in Threads,
                    \/ Begin(t) \/ Emplace(t) \/ TryPop(t)
                    \/ DeadlineOver(t) \/ EmptyClosed(t) \/ EmptyOpen(t) \/ ScanStep(t)
             PROVE  \/ Same
                    \/ /\ CasNext(t) /\ UNCHANGED <<m_size, taken, Late("take")>>
                       /\ Len(linked') = Len(linked) + 1
                       /\ t \notin Late("swingTail") /\ Late("swingTail")' = Late("swingTail") \cup {t}
                    \/ /\ UNCHANGED <<linked, taken, Late("take")>>
                       /\ m_size' = (m_size + 1) % SizeModulus
                       /\ t \in Late("swingTail") /\ Late("swingTail")' = Late("swingTail") \ {t}
                    \/ /\ UNCHANGED <<m_size, linked, Late("swingTail")>>
                       /\ Len(taken') = Len(taken) + 1
                       /\ t \notin Late("take") /\ Late("take")' = Late("take") \cup {t}
                    \/ /\ UNCHANGED <<linked, taken, Late("swingTail")>>
                       /\ m_size' = (m_size + SizeModulus - 1) % SizeModulus
                       /\ t \in Late("take") /\ Late("take")' = Late("take") \ {t}
  BY <1>0 DEF Next
<1>1. CASE CasNext(t)
  <2>1. value[new[t]] \in Values \cup {Null} /\ linked \in Seq(Values \cup {Null})
    BY <1>1 DEF CasNext, Step, Types, Locals, WithNew
  <2>2. Len(linked') = Len(linked) + 1
    BY <1>1, <2>1, AppendProperties DEF CasNext
  <2>3. pc[t] = "casNext" /\ pc' = [pc EXCEPT ![t] = "swingTail"] /\ UNCHANGED <<m_size, taken>>
    BY <1>1 DEF CasNext, Step, Goto
  <2> QED
    BY <1>1, <1>t, <2>2, <2>3
<1>2. CASE SwingTail(t)
  <2>1. /\ pc[t] = "swingTail" /\ pc' = [pc EXCEPT ![t] = "idle"] /\ UNCHANGED <<linked, taken>>
        /\ m_size' = (m_size + 1) % SizeModulus
    BY <1>2 DEF SwingTail, FinishPush, Step, Goto
  <2> QED
    BY <1>t, <2>1
<1>3. CASE CasHead(t)
  <2>1. value[nxt[t]] \in Values \cup {Null} /\ taken \in Seq(Values \cup {Null})
    BY <1>3 DEF CasHead, Step, Types, Locals, WithNxt
  <2>2. Len(taken') = Len(taken) + 1
    BY <1>3, <2>1, AppendProperties DEF CasHead
  <2>3. pc[t] = "casHead" /\ pc' = [pc EXCEPT ![t] = "take"] /\ UNCHANGED <<m_size, linked>>
    BY <1>3 DEF CasHead, Step, Goto
  <2> QED
    BY <1>t, <2>2, <2>3
<1>4. CASE TakeValue(t)
  <2>1. /\ pc[t] = "take" /\ pc' = [pc EXCEPT ![t] = "retire"] /\ UNCHANGED <<linked, taken>>
        /\ m_size' = (m_size + SizeModulus - 1) % SizeModulus
    BY <1>4 DEF TakeValue, Step, Goto
  <2> QED
    BY <1>t, <2>1
<1>5. CASE BeginEmplace(t)
  BY <1>5, <1>t DEF BeginEmplace, Step, Goto
<1>6. CASE LoadTail(t)
  BY <1>6, <1>t DEF LoadTail, Step, Goto, Load
<1>7. CASE ProtectTail(t)
  BY <1>7, <1>t DEF ProtectTail, Protect, protect, initRecord, Goto
<1>8. CASE ValidateTail(t)
  BY <1>8, <1>t DEF ValidateTail, Step, Goto
<1>9. CASE TailMoved(t)
  BY <1>9, <1>t DEF TailMoved, Retry, unprotect, slotsOnly, Goto
<1>10. CASE ReadNext(t)
  BY <1>10, <1>t DEF ReadNext, Step, Goto
<1>11. CASE HelpTail(t)
  BY <1>11, <1>t DEF HelpTail, CasTail, AfterCasTail, Retry, unprotect, slotsOnly, Goto
<1>12. CASE CasNextFails(t)
  BY <1>12, <1>t DEF CasNextFails, Retry, unprotect, slotsOnly, Goto
<1>13. CASE BeginPop(t)
  BY <1>13, <1>t DEF BeginPop, Step, Goto
<1>14. CASE DeadlineOver(t)
  BY <1>14, <1>t DEF DeadlineOver, ReturnNothing, Goto, Forget
<1>15. CASE LoadHead(t)
  BY <1>15, <1>t DEF LoadHead, Step, Goto, Load
<1>16. CASE ProtectHead(t)
  BY <1>16, <1>t DEF ProtectHead, Protect, protect, initRecord, Goto
<1>17. CASE ValidateHead(t)
  BY <1>17, <1>t DEF ValidateHead, Step, Goto
<1>18. CASE HeadMoved(t)
  BY <1>18, <1>t DEF HeadMoved, Retry, unprotect, slotsOnly, Goto
<1>19. CASE ReadHeadNext(t)
  BY <1>19, <1>t DEF ReadHeadNext, Step, Goto
<1>20. CASE FoundEmpty(t)
  BY <1>20, <1>t DEF FoundEmpty, Retry, unprotect, slotsOnly, Goto
<1>21. CASE EmptyClosed(t)
  BY <1>21, <1>t DEF EmptyClosed, ReturnNothing, Goto, Forget
<1>22. CASE EmptyOpen(t)
  BY <1>22, <1>t DEF EmptyOpen, Step, Goto
<1>23. CASE ProtectNext(t)
  BY <1>23, <1>t DEF ProtectNext, Protect, protect, initRecord, Goto
<1>24. CASE ValidateNext(t)
  BY <1>24, <1>t DEF ValidateNext, Step, Goto
<1>25. CASE CompareTail(t)
  BY <1>25, <1>t DEF CompareTail, Step, Goto
<1>26. CASE PopHelpTail(t)
  BY <1>26, <1>t DEF PopHelpTail, CasTail, AfterCasTail, Retry, unprotect, slotsOnly, Goto
<1>27. CASE CasHeadFails(t)
  BY <1>27, <1>t DEF CasHeadFails, Retry, unprotect, slotsOnly, Goto
<1>28. CASE RetireHead(t)
  BY <1>28, <1>t DEF RetireHead, Step, Goto, Forget, unprotect, retire, Rewind
<1>29. CASE close(t)
  BY <1>29, <1>t DEF close, Step, Goto
<1>30. CASE EndThread(t)
  BY <1>30, <1>t DEF EndThread, ThreadExit, Step, Goto
<1>31. CASE Destroy(t)
  BY <1>31, <1>t DEF Destroy, drain
<1>32. CASE ScanStep(t)
  BY <1>32 DEF ScanStep
<1> QED
  BY <1>1, <1>2, <1>3, <1>4, <1>5, <1>6, <1>7, <1>8, <1>9, <1>10, <1>11, <1>12, <1>13, <1>14,
     <1>15, <1>16, <1>17, <1>18, <1>19, <1>20, <1>21, <1>22, <1>23, <1>24, <1>25, <1>26, <1>27,
     <1>28, <1>29, <1>30, <1>31, <1>32 DEF Begin, Emplace, TryPop

\* size() is right up to the threads between their exchange and their count.
LEMMA SizeStep ==
  ASSUME Types, Locals, SizeBalance, [Next]_vars
  PROVE  SizeBalance'
<1> DEFINE W == Cardinality(Late("swingTail"))
           T == Cardinality(Late("take"))
           a == m_size
           l == Len(linked)
           k == Len(taken)
           M == SizeModulus
<1>b. SizeBalance <=> (a + W + k) % M = (l + T) % M
  BY DEF SizeBalance, Late
<1>c. SizeBalance' <=> (a' + W' + k') % M = (l' + T') % M
  BY DEF SizeBalance, Late
<1>m. M \in Nat \ {0}
  BY QueueAssumption
<1>t. /\ a \in Int /\ l \in Nat /\ k \in Nat /\ W \in Nat /\ T \in Nat
      /\ W' \in Nat /\ T' \in Nat
  BY LateFinite, LenProperties, <1>m DEF Types, TypeOK
<1> HIDE DEF W, T, a, l, k, M
<1>0. CASE UNCHANGED <<m_size, linked, taken, Late("swingTail"), Late("take")>>
  BY <1>0, <1>b, <1>c DEF W, T, a, l, k, M
<1>1. ASSUME NEW t, UNCHANGED <<m_size, taken, Late("take")>>, Len(linked') = Len(linked) + 1,
             t \notin Late("swingTail"), Late("swingTail")' = Late("swingTail") \cup {t}
      PROVE  SizeBalance'
  <2>1. W' = W + 1
    BY <1>1, LateFinite, FS_AddElement DEF W, T
  <2>2. a' = a /\ k' = k /\ T' = T /\ l' = l + 1
    BY <1>1 DEF W, T, a, l, k, M
  <2>3. a + W + k \in Int /\ l + T \in Int
    BY <1>t
  <2>4. (a + W + k + 1) % M = (l + T + 1) % M
    BY <1>m, <1>b, <2>3, ModAdd
  <2>5. a' + W' + k' = a + W + k + 1 /\ l' + T' = l + T + 1
    BY <1>t, <2>1, <2>2
  <2> QED
    BY <1>c, <2>4, <2>5
<1>2. ASSUME NEW t, UNCHANGED <<linked, taken, Late("take")>>,
             m_size' = (m_size + 1) % SizeModulus,
             t \in Late("swingTail"), Late("swingTail")' = Late("swingTail") \ {t}
      PROVE  SizeBalance'
  <2>1. W' = W - 1
    BY <1>2, LateFinite, FS_RemoveElement DEF W, T
  <2>2. a' = (a + 1) % M /\ k' = k /\ T' = T /\ l' = l
    BY <1>2 DEF W, T, a, l, k, M
  <2>3. W' + k \in Int /\ a + 1 \in Int
    BY <1>t
  <2>4. ((a + 1) % M) \in Int /\ (((a + 1) % M) + (W' + k)) % M = ((a + 1) + (W' + k)) % M
    BY <1>m, <2>3, ModInner
  <2>5. (a + 1) + (W' + k) = a + W + k
    BY <1>t, <2>1
  <2>6. a' + W' + k' = a' + (W' + k)
    BY <1>t, <2>2, <2>4
  <2> QED
    BY <1>b, <1>c, <2>2, <2>4, <2>5, <2>6
<1>3. ASSUME NEW t, UNCHANGED <<m_size, linked, Late("swingTail")>>, Len(taken') = Len(taken) + 1,
             t \notin Late("take"), Late("take")' = Late("take") \cup {t}
      PROVE  SizeBalance'
  <2>1. T' = T + 1
    BY <1>3, LateFinite, FS_AddElement DEF W, T
  <2>2. a' = a /\ k' = k + 1 /\ W' = W /\ l' = l
    BY <1>3 DEF W, T, a, l, k, M
  <2>3. a + W + k \in Int /\ l + T \in Int
    BY <1>t
  <2>4. (a + W + k + 1) % M = (l + T + 1) % M
    BY <1>m, <1>b, <2>3, ModAdd
  <2>5. a' + W' + k' = a + W + k + 1 /\ l' + T' = l + T + 1
    BY <1>t, <2>1, <2>2
  <2> QED
    BY <1>c, <2>4, <2>5
<1>4. ASSUME NEW t, UNCHANGED <<linked, taken, Late("swingTail")>>,
             m_size' = (m_size + SizeModulus - 1) % SizeModulus,
             t \in Late("take"), Late("take")' = Late("take") \ {t}
      PROVE  SizeBalance'
  <2>1. T' = T - 1
    BY <1>4, LateFinite, FS_RemoveElement DEF W, T
  <2>2. a' = (a + M - 1) % M /\ k' = k /\ W' = W /\ l' = l
    BY <1>4 DEF W, T, a, l, k, M
  <2>3. W + k \in Int /\ a + M - 1 \in Int /\ a + W + k \in Int /\ l + T \in Int
    BY <1>m, <1>t
  <2>4. (a + M - 1) % M \in Int
        /\ (((a + M - 1) % M) + (W + k)) % M = ((a + M - 1) + (W + k)) % M
    BY <1>m, <2>3, ModInner
  <2>5. (a + M - 1) + (W + k) = (a + W + k - 1) + M * 1
    BY <1>m, <1>t
  <2>6. a + W + k - 1 \in Int /\ (a + M - 1) + (W + k) \in Int
    BY <1>m, <1>t
  <2>7. ((a + M - 1) + (W + k)) % M = (a + W + k - 1) % M
    <3> DEFINE X == (a + M - 1) + (W + k)
               Y == a + W + k - 1
    <3>1. X \in Int /\ Y \in Int /\ \E j \in Int : X = Y + M * j
      BY <2>5, <2>6
    <3> HIDE DEF X, Y
    <3>2. X % M = Y % M
      BY <1>m, <3>1, ModShift
    <3> QED
      BY <3>2 DEF X, Y
  <2>8. (a + W + k + (-1)) % M = (l + T + (-1)) % M
    BY <1>m, <1>b, <2>3, ModAdd
  <2>9. a + W + k + (-1) = a + W + k - 1 /\ l + T + (-1) = l' + T'
    BY <1>t, <2>1, <2>2
  <2>10. a' + W' + k' = ((a + M - 1) % M) + (W + k)
    BY <1>t, <2>2, <2>4
  <2> QED
    BY <1>c, <2>4, <2>7, <2>8, <2>9, <2>10
<1> QED
  BY <1>0, <1>1, <1>2, <1>3, <1>4, LateStep

\* The initial state has the types.
LEMMA InitTypes ==
  ASSUME Init
  PROVE  Types /\ Locals
<1>1. Dummy \in Nodes
  BY QueueAssumption DEF Dummy
<1>2. 0 \in 0..SizeModulus - 1 /\ Null \notin Threads /\ Null \notin Nodes
  BY QueueAssumption, HazardPointersAssumption
<1>3. \A S : <<>> \in Seq(S)
  BY EmptySeq
<1>4. TypeOK
  BY <1>1, <1>2 DEF Init, HazardInit, TypeOK
<1>5. Types
  BY <1>3, <1>4 DEF Init, HazardInit, Types, PCs
<1>6. Locals
  <2>1. Len(records) = 0
    BY EmptySeq DEF Init, HazardInit
  <2>2. \A t \in Threads : /\ pc[t] = "idle" /\ survivors[t] = <<>> /\ record[t] = 0
                           /\ m_head # Null
    BY <1>1, <1>2 DEF Init, HazardInit
  <2>3. \A t \in Threads : record[t] <= Len(records)
    <3>1. \A x, y : x = 0 /\ y = 0 => x <= y
      OBVIOUS
    <3> QED
      BY <2>1, <2>2, <3>1, Zenon
  <2>4. \A t \in Threads : pc[t] \notin WithPtr \cup WithNxt \cup WithNew
    BY <2>2 DEF WithPtr, WithNxt, WithNew
  <2> QED
    BY <2>2, <2>3, <2>4, Zenon DEF Locals
<1> QED
  BY <1>5, <1>6

\* size() differs from the number of values in the list only by the threads that
\* are between their exchange of a pointer and their fetch_add or fetch_sub of
\* m_size, whatever the number of threads and the width of size_t.
THEOREM SizeIsBalanced == Spec => []SizeBalance
<1>1. Init => Types /\ Locals
  BY InitTypes
<1>2. Init => SizeBalance
  <2> SUFFICES ASSUME Init PROVE SizeBalance
    OBVIOUS
  <2>1. \A l \in {"swingTail", "take"} : {t \in Threads : At(t, {l})} = {}
    BY DEF Init, At
  <2>2. m_size = 0 /\ Len(taken) = 0 /\ Len(linked) = 0
    BY EmptySeq DEF Init
  <2>3. /\ Cardinality({t \in Threads : At(t, {"swingTail"})}) = 0
        /\ Cardinality({t \in Threads : At(t, {"take"})}) = 0
    BY <2>1, FS_EmptySet
  <2> QED
    BY <2>2, <2>3 DEF SizeBalance
<1>3. Types /\ Locals /\ SizeBalance /\ [Next]_vars => (Types /\ Locals /\ SizeBalance)'
  BY TypesStep, LocalsStep, SizeStep
<1> QED
  BY <1>1, <1>2, <1>3, PTL DEF Spec

-----------------------------------------------------------------------------
(* Sequences without repetition *)

\* An appended node is a member, and the only new one.
LEMMA AppendedNode ==
  ASSUME NEW S, NEW s \in Seq(S), NEW x \in S
  PROVE  /\ Append(s, x) \in Seq(S) /\ Members(Append(s, x)) = Members(s) \cup {x}
         /\ Distinct(s) /\ x \notin Members(s) => Distinct(Append(s, x))
<1>1. /\ Append(s, x) \in Seq(S) /\ Len(s) \in Nat /\ Len(Append(s, x)) = Len(s) + 1
      /\ \A i \in 1..Len(s) : Append(s, x)[i] = s[i]
      /\ Append(s, x)[Len(s) + 1] = x
  BY AppendProperties, LenProperties
<1>2. Members(Append(s, x)) \subseteq Members(s) \cup {x}
  BY <1>1 DEF Members
<1>3. Members(s) \cup {x} \subseteq Members(Append(s, x))
  BY <1>1 DEF Members
<1>4. ASSUME Distinct(s), x \notin Members(s) PROVE Distinct(Append(s, x))
  BY <1>1, <1>4 DEF Distinct, Members
<1> QED
  BY <1>1, <1>2, <1>3, <1>4

\* The members of two lists joined, which are distinct if the lists have none in common.
LEMMA JoinedNodes ==
  ASSUME NEW S, NEW s \in Seq(S), NEW u \in Seq(S)
  PROVE  /\ s \o u \in Seq(S) /\ Members(s \o u) = Members(s) \cup Members(u)
         /\ Distinct(s) /\ Distinct(u) /\ Members(s) \cap Members(u) = {} => Distinct(s \o u)
<1>1. /\ s \o u \in Seq(S) /\ Len(s) \in Nat /\ Len(u) \in Nat
      /\ Len(s \o u) = Len(s) + Len(u)
      /\ \A i \in 1..Len(s) + Len(u) :
           (s \o u)[i] = IF i <= Len(s) THEN s[i] ELSE u[i - Len(s)]
  BY ConcatProperties, LenProperties
<1>2. Members(s \o u) \subseteq Members(s) \cup Members(u)
  BY <1>1 DEF Members
<1>3. Members(s) \subseteq Members(s \o u)
  BY <1>1 DEF Members
<1>4. ASSUME NEW i \in 1..Len(u) PROVE u[i] \in Members(s \o u)
  <2>1. i + Len(s) \in 1..Len(s) + Len(u) /\ ~(i + Len(s) <= Len(s)) /\ i + Len(s) - Len(s) = i
    BY <1>1
  <2> QED
    BY <1>1, <2>1 DEF Members
<1>5. ASSUME Distinct(s), Distinct(u), Members(s) \cap Members(u) = {} PROVE Distinct(s \o u)
  <2> SUFFICES ASSUME NEW i \in 1..Len(s \o u), NEW j \in 1..Len(s \o u), (s \o u)[i] = (s \o u)[j]
               PROVE  i = j
    BY DEF Distinct
  <2>1. CASE i <= Len(s) /\ j <= Len(s)
    BY <1>1, <1>5, <2>1 DEF Distinct
  <2>2. CASE ~(i <= Len(s)) /\ ~(j <= Len(s))
    <3>1. i - Len(s) \in 1..Len(u) /\ j - Len(s) \in 1..Len(u) /\ u[i - Len(s)] = u[j - Len(s)]
      BY <1>1, <2>2
    <3>2. i - Len(s) = j - Len(s)
      BY <1>5, <3>1 DEF Distinct
    <3> QED
      BY <1>1, <3>2
  <2>3. CASE i <= Len(s) /\ ~(j <= Len(s))
    <3>1. i \in 1..Len(s) /\ j - Len(s) \in 1..Len(u) /\ s[i] = u[j - Len(s)]
      BY <1>1, <2>3
    <3>2. s[i] \in Members(s) /\ u[j - Len(s)] \in Members(u)
      BY <3>1 DEF Members
    <3> QED
      BY <1>5, <3>1, <3>2
  <2>4. CASE ~(i <= Len(s)) /\ j <= Len(s)
    <3>1. j \in 1..Len(s) /\ i - Len(s) \in 1..Len(u) /\ s[j] = u[i - Len(s)]
      BY <1>1, <2>4
    <3>2. s[j] \in Members(s) /\ u[i - Len(s)] \in Members(u)
      BY <3>1 DEF Members
    <3> QED
      BY <1>5, <3>1, <3>2
  <2> QED
    BY <2>1, <2>2, <2>3, <2>4
<1> QED
  BY <1>1, <1>2, <1>3, <1>4, <1>5 DEF Members

\* The tail has all members but the head.
LEMMA BeheadedNodes ==
  ASSUME NEW S, NEW s \in Seq(S), s # <<>>
  PROVE  /\ Head(s) \in S /\ Head(s) \in Members(s) /\ Tail(s) \in Seq(S)
         /\ Distinct(s) => /\ Members(Tail(s)) = Members(s) \ {Head(s)}
                           /\ Distinct(Tail(s))
<1>1. /\ Head(s) = s[1] /\ Head(s) \in S /\ Tail(s) \in Seq(S) /\ Len(s) \in Nat /\ Len(s) # 0
      /\ Len(Tail(s)) = Len(s) - 1 /\ \A i \in 1..Len(Tail(s)) : Tail(s)[i] = s[i + 1]
  BY HeadTailProperties, LenProperties, EmptySeq
<1>2. Head(s) \in Members(s)
  BY <1>1 DEF Members
<1>3. ASSUME Distinct(s) PROVE Distinct(Tail(s))
  <2> SUFFICES ASSUME NEW i \in 1..Len(Tail(s)), NEW j \in 1..Len(Tail(s)), Tail(s)[i] = Tail(s)[j]
               PROVE  i = j
    BY DEF Distinct
  <2>1. i + 1 \in 1..Len(s) /\ j + 1 \in 1..Len(s) /\ s[i + 1] = s[j + 1]
    BY <1>1
  <2>2. i + 1 = j + 1
    BY <1>3, <2>1 DEF Distinct
  <2> QED
    BY <1>1, <2>2
<1>4. ASSUME Distinct(s), NEW x PROVE x \in Members(Tail(s)) <=> x \in Members(s) /\ x # Head(s)
  <2>1. ASSUME x \in Members(Tail(s)) PROVE x \in Members(s) /\ x # Head(s)
    <3>1. PICK i \in 1..Len(Tail(s)) : x = Tail(s)[i]
      BY <2>1 DEF Members
    <3>2. i + 1 \in 1..Len(s) /\ x = s[i + 1] /\ i + 1 # 1 /\ 1 \in 1..Len(s)
      BY <1>1, <3>1
    <3> QED
      BY <1>1, <1>4, <3>2 DEF Members, Distinct
  <2>2. ASSUME x \in Members(s), x # Head(s) PROVE x \in Members(Tail(s))
    <3>1. PICK i \in 1..Len(s) : x = s[i]
      BY <2>2 DEF Members
    <3>2. i # 1
      BY <1>1, <2>2, <3>1
    <3>3. i - 1 \in 1..Len(Tail(s)) /\ Tail(s)[i - 1] = s[(i - 1) + 1] /\ (i - 1) + 1 = i
      BY <1>1, <3>2
    <3> QED
      BY <3>1, <3>3 DEF Members
  <2> QED
    BY <2>1, <2>2
<1> QED
  BY <1>1, <1>2, <1>3, <1>4

\* What allocate() leaves of the pool.
LEMMA CurtailedNodes ==
  ASSUME NEW S, NEW s \in Seq(S), s # <<>>
  PROVE  /\ s[Len(s)] \in Members(s) /\ SubSeq(s, 1, Len(s) - 1) \in Seq(S)
         /\ Distinct(s) => /\ Members(SubSeq(s, 1, Len(s) - 1)) = Members(s) \ {s[Len(s)]}
                           /\ Distinct(SubSeq(s, 1, Len(s) - 1))
<1> DEFINE h == SubSeq(s, 1, Len(s) - 1)
<1>1. Len(s) \in Nat /\ Len(s) # 0 /\ \A i \in 1..Len(s) : s[i] \in S
  BY LenProperties, EmptySeq, ElementOfSeq
<1>2. h \in Seq(S) /\ Len(h) = Len(s) - 1 /\ \A i \in 1..Len(s) - 1 : h[i] = s[i]
  <2>1. 1 \in Int /\ Len(s) - 1 \in Int /\ \A i \in 1..Len(s) - 1 : s[i] \in S
    BY <1>1
  <2>2. /\ h \in Seq(S) /\ Len(h) = IF 1 <= Len(s) - 1 THEN Len(s) - 1 - 1 + 1 ELSE 0
        /\ \A i \in 1..Len(s) - 1 - 1 + 1 : h[i] = s[1 + i - 1]
    BY <2>1, SubSeqProperties
  <2>3. Len(s) - 1 - 1 + 1 = Len(s) - 1 /\ \A i \in 1..Len(s) - 1 : 1 + i - 1 = i
    BY <1>1
  <2> QED
    BY <1>1, <2>2, <2>3
<1> HIDE DEF h
<1>3. s[Len(s)] \in Members(s)
  BY <1>1 DEF Members
<1>4. ASSUME Distinct(s) PROVE Distinct(h)
  BY <1>1, <1>2, <1>4 DEF Distinct
<1>5. ASSUME Distinct(s), NEW x PROVE x \in Members(h) <=> x \in Members(s) /\ x # s[Len(s)]
  <2>1. ASSUME x \in Members(h) PROVE x \in Members(s) /\ x # s[Len(s)]
    <3>1. PICK i \in 1..Len(s) - 1 : x = s[i]
      BY <1>2, <2>1 DEF Members
    <3>2. i \in 1..Len(s) /\ Len(s) \in 1..Len(s) /\ i # Len(s)
      BY <1>1
    <3> QED
      BY <1>5, <3>1, <3>2 DEF Members, Distinct
  <2>2. ASSUME x \in Members(s), x # s[Len(s)] PROVE x \in Members(h)
    <3>1. PICK i \in 1..Len(s) : x = s[i]
      BY <2>2 DEF Members
    <3>2. i \in 1..Len(s) - 1
      BY <1>1, <2>2, <3>1
    <3> QED
      BY <1>2, <3>1, <3>2 DEF Members
  <2> QED
    BY <2>1, <2>2
<1> QED
  BY <1>2, <1>3, <1>4, <1>5 DEF h

\* What a step of a scan makes of the nodes it has to look at and has kept.
LEMMA ScannedNodes ==
  ASSUME NEW S, NEW s \in Seq(S), NEW u \in Seq(S), s # <<>>, Distinct(s \o u)
  PROVE  /\ Head(s) \in Members(s \o u)
         /\ Members(Tail(s) \o u) = Members(s \o u) \ {Head(s)} /\ Distinct(Tail(s) \o u)
         /\ Members(Tail(s) \o Append(u, Head(s))) = Members(s \o u)
         /\ Distinct(Tail(s) \o Append(u, Head(s)))
<1> DEFINE h == Head(s)
           w == s \o u
<1>1. /\ w \in Seq(S) /\ Len(s) \in Nat /\ Len(s) # 0 /\ Len(u) \in Nat /\ Len(w) = Len(s) + Len(u)
      /\ \A i \in 1..Len(s) + Len(u) : w[i] = IF i <= Len(s) THEN s[i] ELSE u[i - Len(s)]
      /\ h = s[1] /\ h \in S /\ Tail(s) \in Seq(S) /\ Len(Tail(s)) = Len(s) - 1
      /\ \A i \in 1..Len(s) - 1 : Tail(s)[i] = s[i + 1]
  BY ConcatProperties, LenProperties, EmptySeq, HeadTailProperties
<1>2. w # <<>>
  BY <1>1, EmptySeq
<1>3. Head(w) = h
  <2>1. Head(w) = w[1]
    BY <1>1, <1>2, HeadTailProperties
  <2> QED
    BY <1>1, <2>1
<1>4. Tail(w) \in Seq(S) /\ Len(Tail(w)) = Len(w) - 1 /\ \A i \in 1..Len(w) - 1 : Tail(w)[i] = w[i + 1]
  BY <1>1, <1>2, HeadTailProperties
<1>5. /\ Tail(s) \o u \in Seq(S) /\ Len(Tail(s) \o u) = Len(s) - 1 + Len(u)
      /\ \A i \in 1..Len(s) - 1 + Len(u) :
           (Tail(s) \o u)[i] = IF i <= Len(s) - 1 THEN Tail(s)[i] ELSE u[i - (Len(s) - 1)]
  <2>1. Len(Tail(s)) = Len(s) - 1
    BY <1>1
  <2> QED
    BY <1>1, <2>1, ConcatProperties
<1> HIDE DEF w, h
<1>6. Tail(s) \o u = Tail(w)
  <2>1. Len(Tail(s) \o u) = Len(Tail(w)) /\ Len(Tail(w)) = Len(s) - 1 + Len(u)
    BY <1>1, <1>4, <1>5
  <2>2. ASSUME NEW i \in 1..Len(Tail(s) \o u) PROVE (Tail(s) \o u)[i] = Tail(w)[i]
    <3>1. i \in Nat /\ i \in 1..Len(s) - 1 + Len(u) /\ i \in 1..Len(w) - 1 /\ i + 1 \in 1..Len(s) + Len(u)
      BY <1>1, <1>5, <2>1
    <3>2. Tail(w)[i] = IF i + 1 <= Len(s) THEN s[i + 1] ELSE u[i + 1 - Len(s)]
      BY <1>1, <1>4, <3>1
    <3>3. CASE i <= Len(s) - 1
      BY <1>1, <1>5, <3>1, <3>2, <3>3
    <3>4. CASE ~(i <= Len(s) - 1)
      <4>1. i - (Len(s) - 1) = i + 1 - Len(s) /\ ~(i + 1 <= Len(s))
        BY <1>1, <3>1, <3>4
      <4> QED
        BY <1>5, <3>1, <3>2, <3>4, <4>1
    <3> QED
      BY <3>3, <3>4
  <2> QED
    BY <1>4, <1>5, <2>1, <2>2, SeqEqual
<1>7. Tail(s) \o Append(u, h) = Append(Tail(w), h)
  <2>1. Append(u, h) = u \o <<h>> /\ Append(Tail(w), h) = Tail(w) \o <<h>> /\ <<h>> \in Seq(S)
    BY <1>1, <1>4, AppendIsConcat
  <2>2. \A a, b, c \in Seq(S) : (a \o b) \o c = a \o (b \o c)
    BY ConcatAssociative
  <2>3. Tail(s) \in Seq(S) /\ u \in Seq(S)
    BY <1>1
  <2>4. (Tail(s) \o u) \o <<h>> = Tail(s) \o (u \o <<h>>)
    BY <2>1, <2>2, <2>3, Zenon
  <2> QED
    BY <1>6, <2>1, <2>4, Zenon
<1>8. Distinct(w)
  BY DEF w
<1>9. h \in Members(w) /\ Members(Tail(w)) = Members(w) \ {h} /\ Distinct(Tail(w))
  BY <1>1, <1>2, <1>3, <1>8, BeheadedNodes
<1>10. Members(Append(Tail(w), h)) = Members(Tail(w)) \cup {h} /\ Distinct(Append(Tail(w), h))
  <2>1. h \in S /\ Tail(w) \in Seq(S) /\ h \notin Members(Tail(w))
    BY <1>1, <1>4, <1>9
  <2>2. \A x \in S, q \in Seq(S) :
          /\ Members(Append(q, x)) = Members(q) \cup {x}
          /\ Distinct(q) /\ x \notin Members(q) => Distinct(Append(q, x))
    BY AppendedNode
  <2> QED
    BY <1>9, <2>1, <2>2, Zenon
<1> QED
  <2>1. /\ h \in Members(w) /\ Members(Tail(s) \o u) = Members(w) \ {h} /\ Distinct(Tail(s) \o u)
        /\ Distinct(Tail(s) \o Append(u, h))
    BY <1>6, <1>7, <1>9, <1>10, Zenon
  <2>2. Members(Append(Tail(w), h)) = Members(w)
    BY <1>9, <1>10
  <2>3. Members(Tail(s) \o Append(u, h)) = Members(w)
    BY <1>7, <2>2, Zenon
  <2> QED
    BY <2>1, <2>3, Zenon DEF w, h

-----------------------------------------------------------------------------
(* Steps that leave every node where it is *)

\* kind and owner are assignments of places to the nodes; the places a thread has
\* have an owner.
Assigned(kind, owner) ==
  /\ kind \in [Nodes -> Kinds] /\ owner \in [Nodes -> Threads \cup {Null}]
  /\ \A n \in Nodes : kind[n] \in {"retired", "new", "old"} => owner[n] \in Threads

SamePlaces ==
  /\ UNCHANGED <<retired, orphaned, orphanedLock, pool, hpc, todo, survivors, fresh>>
  /\ \A u \in Threads :
       /\ Unlinked(u)' <=> Unlinked(u)
       /\ Unlinked(u) => new'[u] = new[u]
       /\ At(u, {"take", "retire"})' <=> At(u, {"take", "retire"})
       /\ At(u, {"take", "retire"}) => ptr'[u] = ptr[u]

\* m_tail stays, or moves to the next node.
TailFollows == m_tail' = m_tail \/ (next[m_tail] # Null /\ m_tail' = next[m_tail])

\* Only t moves, and neither the list nor a scan does.
OnlyMoves(t) ==
  /\ UNCHANGED <<m_head, next, hpc, todo, record, slot>>
  /\ TailFollows
  /\ records' = records \/ records' = Append(records, t)
  /\ \A u \in Threads \ {t} :
       pc'[u] = pc[u] /\ ptr'[u] = ptr[u] /\ nxt'[u] = nxt[u] /\ slots'[u] = slots[u]

\* t announces what it relies on as long as it does, or what it comes to rely on
\* is in the list.
KeepsAnnounced(t, kind) ==
  \A n \in Nodes : Guards(t, n)' =>
    \/ kind[n] = "list"
    \/ Guards(t, n) /\ \A i \in 1..slotsCount : slots[t][i] = n => slots'[t][i] = n

\* Records are only added, at the end.
LEMMA RecordsGrow ==
  ASSUME Types, NEW t \in Threads, records' = records \/ records' = Append(records, t)
  PROVE  /\ Len(records) \in Nat /\ Len(records') \in Nat /\ Len(records) <= Len(records')
         /\ \A r \in 1..Len(records) : records'[r] = records[r]
<1>1. records \in Seq(Threads) /\ Len(records) \in Nat
  BY LenProperties DEF Types
<1>2. CASE records' = Append(records, t)
  BY <1>1, <1>2, AppendProperties
<1> QED
  BY <1>1, <1>2

\* What a scan looks at is retired or orphaned.
LEMMA ScannedKind ==
  ASSUME Types, NEW kind, NEW owner, Agrees(kind, owner), NEW t \in Threads, Scanning(t)
  PROVE  Head(todo[t]) \in Nodes /\ kind[Head(todo[t])] \in {"retired", "orphaned"}
<1>1. todo[t] \in Seq(Nodes) /\ survivors[t] \in Seq(Nodes) /\ todo[t] # <<>>
  BY DEF Types, Scanning
<1>2. Head(todo[t]) \in Nodes /\ Head(todo[t]) \in Members(todo[t])
  BY <1>1, BeheadedNodes
<1>3. Head(todo[t]) \in Members(todo[t] \o survivors[t])
  BY <1>1, <1>2, JoinedNodes
<1>4. CASE hpc[t] = "local"
  BY <1>2, <1>3, <1>4 DEF Agrees, Retired
<1>5. CASE hpc[t] = "orphaned"
  <2>1. orphanedLock = t /\ orphanedLock # Null
    BY <1>5, HazardPointersAssumption DEF Types, TypeOK
  <2> QED
    BY <1>2, <1>3, <2>1 DEF Agrees, Orphaned
<1> QED
  BY <1>4, <1>5 DEF Scanning

\* A scan that goes on as before still has the slots before it that matter, and
\* one that starts over has every slot before it.
LEMMA ScansStep ==
  ASSUME Types, Types', Locals, NEW kind, NEW owner, Agrees(kind, owner), ScansSee,
         NEW after, Pointers(after)', NEW t \in Threads,
         records' = records \/ records' = Append(records, t),
         \A u \in Threads : KeepsAnnounced(u, kind),
         \A a \in Threads : Scanning(a)' =>
           \/ record'[a] = Len(records') /\ slot'[a] = 1
           \/ /\ Scanning(a) /\ Head(todo'[a]) = Head(todo[a])
              /\ record'[a] = record[a] /\ slot'[a] = slot[a]
  PROVE  ScansSee'
<1>r. /\ Len(records) \in Nat /\ Len(records') \in Nat /\ Len(records) <= Len(records')
      /\ \A r \in 1..Len(records) : records'[r] = records[r]
  BY RecordsGrow
<1> SUFFICES ASSUME NEW a \in Threads, NEW u \in Threads, NEW n, n = Head(todo'[a]),
                    Scanning(a)', Guards(u, n)'
             PROVE  Ahead(a, u, n)'
  BY DEF ScansSee, Guards, Ahead
<1>1. CASE record'[a] = Len(records') /\ slot'[a] = 1
  <2>1. n \in Nodes
    BY BeheadedNodes DEF Types, Scanning
  <2>2. PICK r \in 1..Len(records'), i \in 1..slotsCount : records'[r] = u /\ slots'[u][i] = n
    BY <2>1 DEF Pointers, PointersOf, Held
  <2>3. r \in 1..record'[a] /\ slot'[a] <= i
    BY <1>1, <2>2
  <2> QED
    BY <2>2, <2>3 DEF Ahead
<1>2. CASE /\ Scanning(a) /\ Head(todo'[a]) = Head(todo[a])
           /\ record'[a] = record[a] /\ slot'[a] = slot[a]
  <2>1. Head(todo[a]) = n
    BY <1>2
  <2>2. n \in Nodes /\ kind[n] # "list"
    BY <1>2, <2>1, ScannedKind
  <2>3. Guards(u, n) /\ \A i \in 1..slotsCount : slots[u][i] = n => slots'[u][i] = n
    BY <2>2 DEF KeepsAnnounced
  <2>4. Ahead(a, u, n)
    BY <1>2, <2>1, <2>3 DEF ScansSee
  <2>5. PICK r \in 1..record[a], i \in 1..slotsCount :
          records[r] = u /\ slots[u][i] = n /\ (r = record[a] => slot[a] <= i)
    BY <2>4 DEF Ahead
  <2>6. record[a] \in Nat /\ record[a] <= Len(records)
    BY DEF Types, Locals
  <2>7. r \in 1..Len(records)
    BY <1>r, <2>6
  <2>8. r \in 1..record'[a] /\ records'[r] = u /\ slots'[u][i] = n /\ (r = record'[a] => slot'[a] <= i)
    BY <1>r, <1>2, <2>3, <2>5, <2>7
  <2> QED
    BY <2>8 DEF Ahead
<1> QED
  BY <1>1, <1>2

\* A step by which only one thread moves, and no node does, keeps an assignment sound.
LEMMA QuietStep ==
  ASSUME Types, Locals, Types', m_head # Null, NEW kind, NEW owner, Assigned(kind, owner),
         Sound(kind, owner), NEW t \in Threads, SamePlaces, OnlyMoves(t),
         PointersOf(t, kind)', KeepsAnnounced(t, kind)
  PROVE  Sound(kind, owner)'
<1>r. /\ Len(records) \in Nat /\ Len(records') \in Nat /\ Len(records) <= Len(records')
      /\ \A r \in 1..Len(records) : records'[r] = records[r]
  BY RecordsGrow DEF OnlyMoves
<1>s. Agrees(kind, owner) /\ NoneTwice /\ Shape(kind) /\ Pointers(kind) /\ ScansSee
  BY DEF Sound
<1>1. \A u \in Threads : Retired(u)' = Retired(u)
  BY DEF SamePlaces, Retired
<1>2. Orphaned' = Orphaned /\ pool' = pool /\ fresh' = fresh
  BY DEF SamePlaces, Orphaned
<1>3. Agrees(kind, owner)'
  BY <1>s, <1>1, <1>2 DEF Agrees, SamePlaces
<1>4. NoneTwice'
  BY <1>s, <1>1, <1>2 DEF NoneTwice
<1>5. Shape(kind)'
  <2>1. m_tail' \in Nodes /\ kind[m_tail'] = "list"
    <3>1. m_tail \in Nodes /\ next \in [Nodes -> Nodes \cup {Null}]
      BY DEF Types, TypeOK
    <3> QED
      BY <1>s, <3>1 DEF Shape, OnlyMoves, TailFollows
  <2>2. \A u \in Threads : Unlinked(u)' => next'[new'[u]] = Null
    BY <1>s DEF Shape, SamePlaces, OnlyMoves
  <2> QED
    BY <1>s, <2>1, <2>2 DEF Shape, OnlyMoves
<1>6. Pointers(kind)'
  <2> SUFFICES ASSUME NEW u \in Threads, u # t PROVE PointersOf(u, kind)'
    BY DEF Pointers
  <2>1. pc'[u] = pc[u] /\ ptr'[u] = ptr[u] /\ nxt'[u] = nxt[u] /\ slots'[u] = slots[u]
        /\ UNCHANGED <<m_head, next>>
    BY DEF OnlyMoves
  <2>2. \A n : Held(u, n) => Held(u, n)'
    BY <1>r, <2>1 DEF Held
  <2>3. \A n : Guards(u, n)' <=> Guards(u, n)
    BY <2>1 DEF Guards
  <2>4. pc[u] = "casHead" /\ ptr[u] = m_head => m_tail' # ptr[u]
    <3>1. m_tail \in Nodes
      BY DEF Types, TypeOK
    <3> QED
      BY <1>s, <3>1 DEF OnlyMoves, TailFollows, Shape, Pointers, PointersOf
  <2> QED
    BY <1>s, <2>1, <2>2, <2>3, <2>4 DEF Pointers, PointersOf
<1>7. ScansSee'
  <2>1. \A u \in Threads : KeepsAnnounced(u, kind)
    BY DEF OnlyMoves, KeepsAnnounced, Guards
  <2> QED
    BY <1>s, <1>6, <2>1, ScansStep DEF OnlyMoves, Scanning
<1> QED
  BY <1>3, <1>4, <1>5, <1>6, <1>7 DEF Sound

\* Where t relies on nothing it owes nothing.
Careless == {"idle", "gone", "loop", "loadTail", "protectTail", "swingTail", "protectHead",
             "retire", "checkClosed"}

\* At a careless location a thread relies on nothing.
LEMMA CarelessStep ==
  ASSUME NEW kind, NEW t \in Threads, pc'[t] \in Careless
  PROVE  PointersOf(t, kind)' /\ KeepsAnnounced(t, kind)
BY DEF Careless, PointersOf, KeepsAnnounced, Guards, TailUse, HeadUse, NextUse

\* protect() announces one more node and keeps what is announced.
LEMMA ProtectStep ==
  ASSUME Types, Types', NEW kind, NEW t \in Threads, NEW a, NEW b, NEW q \in Nodes,
         Protect(t, a, b, q), PointersOf(t, kind),
         \/ a = "protectTail" /\ b = "validateTail" /\ q = ptr[t]
         \/ a = "protectHead" /\ b = "validateHead" /\ q = ptr[t]
         \/ a = "protectNext" /\ b = "validateNext" /\ q = nxt[t]
  PROVE  SamePlaces /\ OnlyMoves(t) /\ PointersOf(t, kind)' /\ KeepsAnnounced(t, kind)
<1>t. /\ pc \in [Threads -> PCs] /\ slots \in [Threads -> [1..slotsCount -> Nodes \cup {Null}]]
      /\ Null \notin Nodes
  BY HazardPointersAssumption DEF Types, TypeOK
<1>1. /\ pc[t] = a /\ UNCHANGED <<retired, orphaned, orphanedLock, pool, hpc, todo, survivors,
                                  record, slot, m_head, m_tail, next, fresh, new, ptr, nxt>>
  BY DEF Protect, scanVars, queueVars, localVars
<1>2. CASE HasRecord(t)
  <2>1. /\ pc' = [pc EXCEPT ![t] = b] /\ records' = records
        /\ \E i \in 1..slotsCount : slots[t][i] = Null /\ slots' = [slots EXCEPT ![t][i] = q]
    BY <1>2 DEF Protect, protect, Goto
  <2>2. PICK i \in 1..slotsCount : slots[t][i] = Null /\ slots' = [slots EXCEPT ![t][i] = q]
    BY <2>1
  <2>3. slots'[t][i] = q /\ \A j \in 1..slotsCount : j # i => slots'[t][j] = slots[t][j]
    BY <1>t, <2>2
  <2>4. SamePlaces
    BY <1>1, <1>t, <2>1 DEF SamePlaces, Unlinked, At
  <2>5. OnlyMoves(t)
    BY <1>1, <1>t, <2>1, <2>2 DEF OnlyMoves, TailFollows
  <2>6. \A n \in Nodes : Held(t, n) => Held(t, n)'
    BY <1>t, <2>1, <2>2, <2>3 DEF Held
  <2>7. Held(t, q)'
    <3>1. PICK r \in 1..Len(records) : records[r] = t
      BY <1>2 DEF HasRecord, Members
    <3> QED
      BY <2>1, <2>3, <3>1 DEF Held
  <2>8. \A n \in Nodes : Guards(t, n)' =>
          Guards(t, n) /\ \A j \in 1..slotsCount : slots[t][j] = n => slots'[t][j] = n
    BY <1>1, <1>t, <2>1, <2>2, <2>3 DEF Guards, TailUse, HeadUse, NextUse
  <2>9. PointersOf(t, kind)'
    BY <1>1, <1>t, <2>1, <2>6, <2>7, <2>8 DEF PointersOf, HeadUse
  <2> QED
    BY <2>4, <2>5, <2>8, <2>9 DEF KeepsAnnounced
<1>3. CASE ~HasRecord(t)
  <2>1. records' = Append(records, t) /\ UNCHANGED <<slots, pc>>
    BY <1>3 DEF Protect, initRecord
  <2>2. SamePlaces /\ OnlyMoves(t) /\ KeepsAnnounced(t, kind)
    BY <1>1, <2>1 DEF SamePlaces, OnlyMoves, TailFollows, KeepsAnnounced, Unlinked, At, Guards
  <2>3. /\ Len(records) \in Nat /\ Len(records') \in Nat /\ Len(records) <= Len(records')
        /\ \A r \in 1..Len(records) : records'[r] = records[r]
    BY <2>1, RecordsGrow
  <2>4. \A n : Held(t, n) => Held(t, n)'
    BY <2>1, <2>3 DEF Held
  <2>5. \A n : Guards(t, n)' <=> Guards(t, n)
    BY <1>1, <2>1 DEF Guards
  <2>6. PointersOf(t, kind)'
    BY <1>1, <2>1, <2>4, <2>5 DEF PointersOf
  <2> QED
    BY <2>2, <2>6
<1> QED
  BY <1>2, <1>3

Quiet(t) ==
  \/ LoadTail(t) \/ ProtectTail(t) \/ ValidateTail(t) \/ TailMoved(t) \/ ReadNext(t)
  \/ HelpTail(t) \/ CasNextFails(t) \/ SwingTail(t) \/ BeginPop(t) \/ DeadlineOver(t)
  \/ LoadHead(t) \/ ProtectHead(t) \/ ValidateHead(t) \/ HeadMoved(t) \/ ReadHeadNext(t)
  \/ FoundEmpty(t) \/ EmptyClosed(t) \/ EmptyOpen(t) \/ ProtectNext(t) \/ ValidateNext(t)
  \/ CompareTail(t) \/ PopHelpTail(t) \/ CasHeadFails(t) \/ TakeValue(t) \/ close(t)

\* Every quiet action keeps the assignment sound.
LEMMA QuietActions ==
  ASSUME Types, Locals, Types', m_head # Null, ~misled', NEW kind, NEW owner,
         Assigned(kind, owner), Sound(kind, owner), NEW t \in Threads, Quiet(t)
  PROVE  Sound(kind, owner)'
<1>t. /\ pc \in [Threads -> PCs] /\ hpc \in [Threads -> {"off", "local", "lock", "orphaned"}]
      /\ ptr \in [Threads -> Nodes \cup {Null}] /\ nxt \in [Threads -> Nodes \cup {Null}]
      /\ new \in [Threads -> Nodes \cup {Null}] /\ next \in [Nodes -> Nodes \cup {Null}]
      /\ slots \in [Threads -> [1..slotsCount -> Nodes \cup {Null}]]
      /\ m_head \in Nodes /\ m_tail \in Nodes /\ Null \notin Nodes
  BY HazardPointersAssumption DEF Types, TypeOK
<1>l. /\ pc[t] \in WithPtr => ptr[t] \in Nodes
      /\ pc[t] \in WithNxt => nxt[t] \in Nodes
      /\ pc[t] \in WithNew => new[t] \in Nodes
  BY DEF Locals
<1>p. PointersOf(t, kind) /\ Shape(kind)
  BY DEF Sound, Pointers
<1> USE DEF hazardVars, scanVars, queueVars, localVars, historyVars
<1>q. SUFFICES SamePlaces /\ OnlyMoves(t) /\ PointersOf(t, kind)' /\ KeepsAnnounced(t, kind)
  BY QuietStep
<1>1. CASE LoadTail(t)
  <2>1. SamePlaces
    BY <1>1, <1>t DEF LoadTail, Step, Goto, Load, SamePlaces, Unlinked, At
  <2>2. OnlyMoves(t)
    BY <1>1, <1>t DEF LoadTail, Step, Goto, Load, OnlyMoves, TailFollows
  <2>3. pc'[t] \in Careless
    BY <1>1, <1>t DEF LoadTail, Step, Goto, Load, Careless
  <2> QED
    BY <2>1, <2>2, <2>3, CarelessStep
<1>2. CASE ProtectTail(t)
  <2>1. ptr[t] \in Nodes
    BY <1>2, <1>l DEF ProtectTail, Protect, WithPtr, WithNxt
  <2> QED
    BY <1>2, <1>p, <2>1, ProtectStep DEF ProtectTail
<1>3. CASE ValidateTail(t)
  <2>1. SamePlaces
    BY <1>3, <1>t DEF ValidateTail, Step, Goto, SamePlaces, Unlinked, At
  <2>2. OnlyMoves(t)
    BY <1>3, <1>t DEF ValidateTail, Step, Goto, OnlyMoves, TailFollows
  <2>3. pc[t] = "validateTail" /\ pc'[t] = "readNext" /\ m_tail = ptr[t]
        /\ UNCHANGED <<records, slots, ptr, nxt, m_head, m_tail, next>>
    BY <1>3, <1>t DEF ValidateTail, Step, Goto
  <2>4. Held(t, ptr[t])' /\ kind[ptr[t]] = "list"
    BY <1>p, <2>3 DEF PointersOf, Held, Shape
  <2>5. \A n : Guards(t, n)' => n = ptr[t]
    BY <2>3 DEF Guards, TailUse, HeadUse, NextUse
  <2>6. PointersOf(t, kind)' /\ KeepsAnnounced(t, kind)
    BY <2>3, <2>4, <2>5 DEF PointersOf, KeepsAnnounced, Kept, HeadUse
  <2> QED
    BY <2>1, <2>2, <2>6
<1>4. CASE TailMoved(t)
  <2>1. SamePlaces
    BY <1>4, <1>t DEF TailMoved, Retry, unprotect, slotsOnly, Goto, SamePlaces, Unlinked, At
  <2>2. OnlyMoves(t)
    BY <1>4, <1>t DEF TailMoved, Retry, unprotect, slotsOnly, Goto, OnlyMoves, TailFollows
  <2>3. pc'[t] \in Careless
    BY <1>4, <1>t DEF TailMoved, Retry, unprotect, slotsOnly, Goto, Careless
  <2> QED
    BY <2>1, <2>2, <2>3, CarelessStep
<1>5. CASE ReadNext(t)
  <2>1. SamePlaces
    BY <1>5, <1>t DEF ReadNext, Step, Goto, SamePlaces, Unlinked, At
  <2>2. OnlyMoves(t)
    BY <1>5, <1>t DEF ReadNext, Step, Goto, OnlyMoves, TailFollows
  <2>3. /\ pc[t] = "readNext" /\ pc'[t] = IF next[ptr[t]] = Null THEN "casNext" ELSE "helpTail"
        /\ nxt'[t] = next[ptr[t]] /\ UNCHANGED <<records, slots, ptr, m_head, m_tail, next>>
    BY <1>5, <1>t DEF ReadNext, Step, Goto
  <2>4. \A n : Held(t, n)' <=> Held(t, n)
    BY <2>3 DEF Held
  <2>5. \A n : Guards(t, n)' => Guards(t, n)
    BY <2>3 DEF Guards, TailUse, HeadUse, NextUse
  <2>6. PointersOf(t, kind)' /\ KeepsAnnounced(t, kind)
    BY <1>p, <2>3, <2>4, <2>5 DEF PointersOf, KeepsAnnounced, HeadUse
  <2> QED
    BY <2>1, <2>2, <2>6
<1>6. CASE HelpTail(t)
  <2>1. SamePlaces
    BY <1>6, <1>t DEF HelpTail, CasTail, AfterCasTail, Retry, unprotect, slotsOnly, Goto,
       SamePlaces, Unlinked, At
  <2>2. OnlyMoves(t)
    <3>1. nxt[t] = next[ptr[t]] /\ nxt[t] \in Nodes
      BY <1>6, <1>l, <1>p DEF HelpTail, PointersOf, WithNxt
    <3>2. TailFollows
      BY <1>6, <1>t, <3>1 DEF HelpTail, CasTail, AfterCasTail, TailFollows
    <3> QED
      BY <1>6, <1>t, <3>2 DEF HelpTail, CasTail, Retry, unprotect, slotsOnly, Goto, OnlyMoves
  <2>3. pc'[t] \in Careless
    BY <1>6, <1>t DEF HelpTail, CasTail, AfterCasTail, Retry, unprotect, slotsOnly, Goto,
       Careless
  <2> QED
    BY <2>1, <2>2, <2>3, CarelessStep
<1>7. CASE CasNextFails(t)
  <2>1. SamePlaces
    BY <1>7, <1>t DEF CasNextFails, Retry, unprotect, slotsOnly, Goto, SamePlaces, Unlinked, At
  <2>2. OnlyMoves(t)
    BY <1>7, <1>t DEF CasNextFails, Retry, unprotect, slotsOnly, Goto, OnlyMoves, TailFollows
  <2>3. pc'[t] \in Careless
    BY <1>7, <1>t DEF CasNextFails, Retry, unprotect, slotsOnly, Goto, Careless
  <2> QED
    BY <2>1, <2>2, <2>3, CarelessStep
<1>8. CASE SwingTail(t)
  <2>1. SamePlaces
    BY <1>8, <1>t DEF SwingTail, FinishPush, AfterCasTail, Step, Goto, Forget, SamePlaces,
       Unlinked, At
  <2>2. OnlyMoves(t)
    <3>1. m_tail' = m_tail \/ (m_tail = ptr[t] /\ m_tail' = new[t] /\ next[ptr[t]] = new[t])
      BY <1>8 DEF SwingTail, FinishPush, AfterCasTail
    <3>2. TailFollows
      BY <1>8, <1>t, <1>l, <3>1 DEF SwingTail, FinishPush, Step, TailFollows, WithNew
    <3> QED
      BY <1>8, <1>t, <3>2 DEF SwingTail, FinishPush, Step, Goto, Forget, OnlyMoves
  <2>3. pc'[t] \in Careless
    BY <1>8, <1>t DEF SwingTail, FinishPush, AfterCasTail, Step, Goto, Forget, Careless
  <2> QED
    BY <2>1, <2>2, <2>3, CarelessStep
<1>9. CASE BeginPop(t)
  <2>1. SamePlaces
    BY <1>9, <1>t DEF BeginPop, Step, Goto, SamePlaces, Unlinked, At
  <2>2. OnlyMoves(t)
    BY <1>9, <1>t DEF BeginPop, Step, Goto, OnlyMoves, TailFollows
  <2>3. pc'[t] \in Careless
    BY <1>9, <1>t DEF BeginPop, Step, Goto, Careless
  <2> QED
    BY <2>1, <2>2, <2>3, CarelessStep
<1>10. CASE DeadlineOver(t)
  <2>1. SamePlaces
    BY <1>10, <1>t DEF DeadlineOver, ReturnNothing, Goto, Forget, SamePlaces, Unlinked, At
  <2>2. OnlyMoves(t)
    BY <1>10, <1>t DEF DeadlineOver, ReturnNothing, Goto, Forget, OnlyMoves, TailFollows
  <2>3. pc'[t] \in Careless
    BY <1>10, <1>t DEF DeadlineOver, ReturnNothing, Goto, Forget, Careless
  <2> QED
    BY <2>1, <2>2, <2>3, CarelessStep
<1>11. CASE LoadHead(t)
  <2>1. SamePlaces
    BY <1>11, <1>t DEF LoadHead, Step, Goto, Load, SamePlaces, Unlinked, At
  <2>2. OnlyMoves(t)
    BY <1>11, <1>t DEF LoadHead, Step, Goto, Load, OnlyMoves, TailFollows
  <2>3. pc'[t] \in Careless
    BY <1>11, <1>t DEF LoadHead, Step, Goto, Load, Careless
  <2> QED
    BY <2>1, <2>2, <2>3, CarelessStep
<1>12. CASE ProtectHead(t)
  <2>1. ptr[t] \in Nodes
    BY <1>12, <1>l DEF ProtectHead, Protect, WithPtr, WithNxt
  <2> QED
    BY <1>12, <1>p, <2>1, ProtectStep DEF ProtectHead
<1>13. CASE ValidateHead(t)
  <2>1. SamePlaces
    BY <1>13, <1>t DEF ValidateHead, Step, Goto, SamePlaces, Unlinked, At
  <2>2. OnlyMoves(t)
    BY <1>13, <1>t DEF ValidateHead, Step, Goto, OnlyMoves, TailFollows
  <2>3. pc[t] = "validateHead" /\ pc'[t] = "readHeadNext" /\ m_head = ptr[t]
        /\ UNCHANGED <<records, slots, ptr, nxt, m_head, m_tail, next>>
    BY <1>13, <1>t DEF ValidateHead, Step, Goto
  <2>4. Held(t, ptr[t])' /\ kind[ptr[t]] = "list"
    BY <1>p, <2>3 DEF PointersOf, Held, Shape
  <2>5. \A n : Guards(t, n)' => n = ptr[t]
    BY <2>3 DEF Guards, TailUse, HeadUse, NextUse
  <2>6. PointersOf(t, kind)' /\ KeepsAnnounced(t, kind)
    BY <2>3, <2>4, <2>5 DEF PointersOf, KeepsAnnounced, Kept, HeadUse
  <2> QED
    BY <2>1, <2>2, <2>6
<1>14. CASE HeadMoved(t)
  <2>1. SamePlaces
    BY <1>14, <1>t DEF HeadMoved, Retry, unprotect, slotsOnly, Goto, SamePlaces, Unlinked, At
  <2>2. OnlyMoves(t)
    BY <1>14, <1>t DEF HeadMoved, Retry, unprotect, slotsOnly, Goto, OnlyMoves, TailFollows
  <2>3. pc'[t] \in Careless
    BY <1>14, <1>t DEF HeadMoved, Retry, unprotect, slotsOnly, Goto, Careless
  <2> QED
    BY <2>1, <2>2, <2>3, CarelessStep
<1>15. CASE ReadHeadNext(t)
  <2>1. SamePlaces
    BY <1>15, <1>t DEF ReadHeadNext, Step, Goto, SamePlaces, Unlinked, At
  <2>2. OnlyMoves(t)
    BY <1>15, <1>t DEF ReadHeadNext, Step, Goto, OnlyMoves, TailFollows
  <2>3. /\ pc[t] = "readHeadNext" /\ pc'[t] = "protectNext"
        /\ nxt'[t] = next[ptr[t]] /\ UNCHANGED <<records, slots, ptr, m_head, m_tail, next>>
    BY <1>15, <1>t DEF ReadHeadNext, Step, Goto
  <2>4. \A n : Held(t, n)' <=> Held(t, n)
    BY <2>3 DEF Held
  <2>5. \A n : Guards(t, n)' => Guards(t, n)
    BY <2>3 DEF Guards, TailUse, HeadUse, NextUse
  <2>6. PointersOf(t, kind)' /\ KeepsAnnounced(t, kind)
    BY <1>p, <2>3, <2>4, <2>5 DEF PointersOf, KeepsAnnounced, HeadUse
  <2> QED
    BY <2>1, <2>2, <2>6
<1>16. CASE FoundEmpty(t)
  <2>1. SamePlaces
    BY <1>16, <1>t DEF FoundEmpty, Retry, unprotect, slotsOnly, Goto, SamePlaces, Unlinked, At
  <2>2. OnlyMoves(t)
    BY <1>16, <1>t DEF FoundEmpty, Retry, unprotect, slotsOnly, Goto, OnlyMoves, TailFollows
  <2>3. pc'[t] \in Careless
    BY <1>16, <1>t DEF FoundEmpty, Retry, unprotect, slotsOnly, Goto, Careless
  <2> QED
    BY <2>1, <2>2, <2>3, CarelessStep
<1>17. CASE EmptyClosed(t)
  <2>1. SamePlaces
    BY <1>17, <1>t DEF EmptyClosed, ReturnNothing, Goto, Forget, SamePlaces, Unlinked, At
  <2>2. OnlyMoves(t)
    BY <1>17, <1>t DEF EmptyClosed, ReturnNothing, Goto, Forget, OnlyMoves, TailFollows
  <2>3. pc'[t] \in Careless
    BY <1>17, <1>t DEF EmptyClosed, ReturnNothing, Goto, Forget, Careless
  <2> QED
    BY <2>1, <2>2, <2>3, CarelessStep
<1>18. CASE EmptyOpen(t)
  <2>1. SamePlaces
    BY <1>18, <1>t DEF EmptyOpen, Step, Goto, SamePlaces, Unlinked, At
  <2>2. OnlyMoves(t)
    BY <1>18, <1>t DEF EmptyOpen, Step, Goto, OnlyMoves, TailFollows
  <2>3. pc'[t] \in Careless
    BY <1>18, <1>t DEF EmptyOpen, Step, Goto, Careless
  <2> QED
    BY <2>1, <2>2, <2>3, CarelessStep
<1>19. CASE ProtectNext(t)
  <2>1. nxt[t] \in Nodes
    BY <1>19, <1>l DEF ProtectNext, Protect, WithPtr, WithNxt
  <2> QED
    BY <1>19, <1>p, <2>1, ProtectStep DEF ProtectNext
<1>20. CASE ValidateNext(t)
  <2>1. SamePlaces
    BY <1>20, <1>t DEF ValidateNext, Step, Goto, SamePlaces, Unlinked, At
  <2>2. OnlyMoves(t)
    BY <1>20, <1>t DEF ValidateNext, Step, Goto, OnlyMoves, TailFollows
  <2>3. pc[t] = "validateNext" /\ pc'[t] = "compareTail" /\ m_head = ptr[t]
        /\ UNCHANGED <<records, slots, ptr, nxt, m_head, m_tail, next>>
    BY <1>20, <1>t DEF ValidateNext, Step, Goto
  <2>4. nxt[t] = next[ptr[t]] /\ nxt[t] \in Nodes
    BY <1>l, <1>p, <2>3 DEF PointersOf, HeadUse, WithNxt
  <2>5. Held(t, ptr[t])' /\ kind[ptr[t]] = "list" /\ Held(t, nxt[t])' /\ kind[nxt[t]] = "list"
    BY <1>t, <1>p, <2>3, <2>4 DEF PointersOf, Held, Shape, Guards, HeadUse
  <2>7. \A n : Guards(t, n)' => n = ptr[t] \/ n = nxt[t]
    BY <2>3 DEF Guards, TailUse, HeadUse, NextUse
  <2>6. PointersOf(t, kind)' /\ KeepsAnnounced(t, kind)
    BY <2>3, <2>4, <2>5, <2>7 DEF PointersOf, KeepsAnnounced, Kept, HeadUse
  <2> QED
    BY <2>1, <2>2, <2>6
<1>21. CASE CompareTail(t)
  <2>1. SamePlaces
    BY <1>21, <1>t DEF CompareTail, Step, Goto, SamePlaces, Unlinked, At
  <2>2. OnlyMoves(t)
    BY <1>21, <1>t DEF CompareTail, Step, Goto, OnlyMoves, TailFollows
  <2>3. /\ pc[t] = "compareTail" /\ pc'[t] = IF m_tail = ptr[t] THEN "popHelpTail" ELSE "casHead"
        /\ UNCHANGED <<records, slots, ptr, nxt, m_head, m_tail, next>>
    BY <1>21, <1>t DEF CompareTail, Step, Goto
  <2>4. \A n : Held(t, n)' <=> Held(t, n)
    BY <2>3 DEF Held
  <2>5. \A n : Guards(t, n)' => Guards(t, n)
    BY <2>3 DEF Guards, TailUse, HeadUse, NextUse
  <2>6. PointersOf(t, kind)' /\ KeepsAnnounced(t, kind)
    BY <1>p, <2>3, <2>4, <2>5 DEF PointersOf, KeepsAnnounced, HeadUse
  <2> QED
    BY <2>1, <2>2, <2>6
<1>22. CASE PopHelpTail(t)
  <2>1. SamePlaces
    BY <1>22, <1>t DEF PopHelpTail, CasTail, AfterCasTail, Retry, unprotect, slotsOnly, Goto,
       SamePlaces, Unlinked, At
  <2>2. OnlyMoves(t)
    <3>1. nxt[t] = next[ptr[t]] /\ nxt[t] \in Nodes
      BY <1>22, <1>l, <1>p DEF PopHelpTail, PointersOf, HeadUse, WithNxt
    <3>2. TailFollows
      BY <1>22, <1>t, <3>1 DEF PopHelpTail, CasTail, AfterCasTail, TailFollows
    <3> QED
      BY <1>22, <1>t, <3>2 DEF PopHelpTail, CasTail, Retry, unprotect, slotsOnly, Goto,
         OnlyMoves
  <2>3. pc'[t] \in Careless
    BY <1>22, <1>t DEF PopHelpTail, CasTail, AfterCasTail, Retry, unprotect, slotsOnly, Goto,
       Careless
  <2> QED
    BY <2>1, <2>2, <2>3, CarelessStep
<1>23. CASE CasHeadFails(t)
  <2>1. SamePlaces
    BY <1>23, <1>t DEF CasHeadFails, Retry, unprotect, slotsOnly, Goto, SamePlaces, Unlinked,
       At
  <2>2. OnlyMoves(t)
    BY <1>23, <1>t DEF CasHeadFails, Retry, unprotect, slotsOnly, Goto, OnlyMoves, TailFollows
  <2>3. pc'[t] \in Careless
    BY <1>23, <1>t DEF CasHeadFails, Retry, unprotect, slotsOnly, Goto, Careless
  <2> QED
    BY <2>1, <2>2, <2>3, CarelessStep
<1>24. CASE TakeValue(t)
  <2>1. SamePlaces
    BY <1>24, <1>t DEF TakeValue, Step, Goto, SamePlaces, Unlinked, At
  <2>2. OnlyMoves(t)
    BY <1>24, <1>t DEF TakeValue, Step, Goto, OnlyMoves, TailFollows
  <2>3. pc'[t] \in Careless
    BY <1>24, <1>t DEF TakeValue, Step, Goto, Careless
  <2> QED
    BY <2>1, <2>2, <2>3, CarelessStep
<1>25. CASE close(t)
  <2>1. SamePlaces
    BY <1>25, <1>t DEF close, Step, Goto, SamePlaces, Unlinked, At
  <2>2. OnlyMoves(t)
    BY <1>25, <1>t DEF close, Step, Goto, OnlyMoves, TailFollows
  <2>3. pc'[t] \in Careless
    BY <1>25, <1>t DEF close, Step, Goto, Careless
  <2> QED
    BY <2>1, <2>2, <2>3, CarelessStep
<1> QED
  BY <1>1, <1>2, <1>3, <1>4, <1>5, <1>6, <1>7, <1>8, <1>9, <1>10, <1>11, <1>12, <1>13, <1>14,
     <1>15, <1>16, <1>17, <1>18, <1>19, <1>20, <1>21, <1>22, <1>23, <1>24, <1>25 DEF Quiet

-----------------------------------------------------------------------------
(* Steps that move nodes *)

\* What a step does to the list: nothing,
ListSame(kind, after) ==
  /\ UNCHANGED <<m_head, linked, taken>>
  /\ \A n \in Nodes : /\ after[n] = "list" <=> kind[n] = "list"
                      /\ kind[n] = "list" => next'[n] = next[n] /\ value'[n] = value[n]

\* link a new node behind the last one,
Pushed(kind, after) ==
  \E n, q \in Nodes :
    /\ kind[n] = "new" /\ next[n] = Null /\ kind[q] = "list" /\ next[q] = Null
    /\ \A m \in Nodes : after[m] = "list" <=> kind[m] = "list" \/ m = n
    /\ next' = [next EXCEPT ![q] = n]
    /\ linked' = Append(linked, value[n])
    /\ UNCHANGED <<m_head, value, taken>>

\* or pass the first one.
Popped(kind, after) ==
  /\ next[m_head] # Null /\ m_head' = next[m_head]
  /\ \A m \in Nodes : after[m] = "list" <=> kind[m] = "list" /\ m # m_head
  /\ taken' = Append(taken, value[next[m_head]])
  /\ UNCHANGED <<next, value, linked>>

ListStep(kind, after) == ListSame(kind, after) \/ Pushed(kind, after) \/ Popped(kind, after)

\* u does not move, and what it relies on stays in the list or out of the pool.
LEMMA PointersFrame ==
  ASSUME NEW kind, NEW after, NEW u \in Threads, PointersOf(u, kind),
         pc'[u] = pc[u], ptr'[u] = ptr[u], nxt'[u] = nxt[u], slots'[u] = slots[u],
         records' = records,
         \A n \in Nodes : Guards(u, n) => after[n] = kind[n] \/ after[n] \in Dead,
         pc[u] \in HeadUse /\ after[ptr[u]] = "list" => ptr[u] = m_head',
         pc[u] \in {"helpTail"} \cup (HeadUse \ {"readHeadNext"}) => next'[ptr[u]] = next[ptr[u]],
         pc[u] = "casHead" /\ ptr[u] = m_head' => m_tail' # ptr[u]
  PROVE  PointersOf(u, after)'
<1>1. \A n : Held(u, n)' <=> Held(u, n)
  BY DEF Held
<1>2. \A n : Guards(u, n)' <=> Guards(u, n)
  BY DEF Guards
<1> QED
  BY <1>1, <1>2 DEF PointersOf, Kept

\* The same when the list stays.
LEMMA PointersSame ==
  ASSUME Types, Locals, NEW kind, NEW after, NEW u \in Threads, PointersOf(u, kind),
         pc'[u] = pc[u], ptr'[u] = ptr[u], nxt'[u] = nxt[u], slots'[u] = slots[u],
         records' = records, UNCHANGED <<m_head, m_tail>>,
         \A n \in Nodes : Guards(u, n) =>
           /\ after[n] = kind[n] \/ after[n] \in Dead
           /\ next'[n] = next[n]
  PROVE  PointersOf(u, after)'
<1>1. pc[u] \in HeadUse \cup {"helpTail"} => ptr[u] \in Nodes /\ Guards(u, ptr[u])
  BY DEF Guards, HeadUse, TailUse, Locals, WithPtr
<1>2. pc[u] \in HeadUse /\ after[ptr[u]] = "list" => ptr[u] = m_head'
  BY <1>1 DEF PointersOf, Dead
<1>3. pc[u] \in {"helpTail"} \cup (HeadUse \ {"readHeadNext"}) => next'[ptr[u]] = next[ptr[u]]
  BY <1>1
<1>4. pc[u] = "casHead" /\ ptr[u] = m_head' => m_tail' # ptr[u]
  BY DEF PointersOf
<1> QED
  BY <1>2, <1>3, <1>4, PointersFrame

\* The exchange of next puts the new node behind the last one of the list.
LEMMA CasNextStep ==
  ASSUME Types, Locals, Types', m_head # Null, NEW kind, NEW owner, Assigned(kind, owner),
         Sound(kind, owner), NEW t \in Threads, CasNext(t)
  PROVE  \E k, o : Assigned(k, o) /\ Sound(k, o)' /\ Pushed(kind, k)
<1>s. Agrees(kind, owner) /\ NoneTwice /\ Shape(kind) /\ Pointers(kind) /\ ScansSee
  BY DEF Sound
<1>a. kind \in [Nodes -> Kinds]
  BY DEF Assigned
<1>t. /\ pc \in [Threads -> PCs] /\ next \in [Nodes -> Nodes \cup {Null}] /\ Null \notin Nodes
      /\ m_head \in Nodes /\ m_tail \in Nodes
      /\ slots \in [Threads -> [1..slotsCount -> Nodes \cup {Null}]]
  BY HazardPointersAssumption DEF Types, TypeOK
<1>l. pc[t] = "casNext" /\ ptr[t] \in Nodes /\ new[t] \in Nodes
  BY DEF CasNext, Step, Locals, WithPtr, WithNew
<1> PICK n \in Nodes, q \in Nodes : n = new[t] /\ q = ptr[t]
  BY <1>l
<1>e. /\ pc' = [pc EXCEPT ![t] = "swingTail"] /\ next' = [next EXCEPT ![q] = n] /\ next[q] = Null
      /\ \A u \in Threads \ {t} : slots'[u] = slots[u]
      /\ UNCHANGED <<records, retired, orphaned, orphanedLock, pool, hpc, todo, survivors,
                     record, slot, m_head, m_tail, fresh, new, ptr, nxt>>
  BY <1>t DEF CasNext, Step, Goto, unprotect, slotsOnly, localVars, scanVars
<1> DEFINE k == [kind EXCEPT ![n] = "list"]
<1>1. Unlinked(t) /\ kind[n] = "new" /\ owner[n] = t
  BY <1>s, <1>l DEF Unlinked, At, Agrees
<1>2. kind[q] = "list"
  BY <1>s, <1>l, <1>e DEF Pointers, PointersOf, Guards, TailUse, Kept, Shape
<1>3. \A m \in Nodes : k[m] = IF m = n THEN "list" ELSE kind[m]
  BY <1>a
<1>4. Assigned(k, owner)
  BY <1>a DEF Assigned, Kinds
<1> HIDE DEF k
<1>5. /\ \A u \in Threads : Retired(u)' = Retired(u)
      /\ Orphaned' = Orphaned /\ pool' = pool /\ fresh' = fresh
  BY <1>e DEF Retired, Orphaned
<1>6. \A u \in Threads : /\ Unlinked(u)' <=> Unlinked(u) /\ u # t
                         /\ At(u, {"take", "retire"})' <=> At(u, {"take", "retire"})
  BY <1>e, <1>l, <1>t DEF Unlinked, At
<1>7. Agrees(k, owner)'
  <2> SUFFICES ASSUME NEW m \in Nodes
               PROVE  /\ \A u \in Threads :
                           /\ m \in Members(Retired(u)) <=> k[m] = "retired" /\ owner[m] = u
                           /\ Unlinked(u)' /\ new[u] = m <=> k[m] = "new" /\ owner[m] = u
                           /\ At(u, {"take", "retire"}) /\ ptr[u] = m <=> k[m] = "old" /\ owner[m] = u
                      /\ m \in Members(Orphaned) <=> k[m] = "orphaned"
                      /\ m \in Members(pool) <=> k[m] = "pool"
                      /\ m \in fresh <=> k[m] = "fresh"
    BY <1>5, <1>6, <1>e DEF Agrees
  <2>1. CASE m = n
    BY <1>s, <1>1, <1>3, <1>6, <2>1 DEF Agrees
  <2>2. CASE m # n
    BY <1>s, <1>1, <1>3, <1>6, <2>2 DEF Agrees
  <2> QED
    BY <2>1, <2>2
<1>8. NoneTwice'
  BY <1>s, <1>5 DEF NoneTwice
<1>9. Shape(k)'
  <2>1. n # q /\ n # m_head /\ n # m_tail /\ next[n] = Null
    BY <1>s, <1>1, <1>2 DEF Shape
  <2>2. \A m \in Nodes : next'[m] = IF m = q THEN n ELSE next[m]
    BY <1>e, <1>t
  <2>3. \A m \in Nodes : kind[m] = "list" => next[m] # n
    BY <1>s, <1>1, <1>t DEF Shape
  <2>4. k[m_head] = "list" /\ k[m_tail] = "list"
    BY <1>s, <1>3, <1>t, <2>1 DEF Shape
  <2>5. \A m \in Nodes : k[m] = "list" /\ next'[m] # Null => k[next'[m]] = "list" /\ next'[m] # m_head
    BY <1>s, <1>3, <1>t, <2>1, <2>2 DEF Shape
  <2>6. \A m, j \in Nodes : k[m] = "list" /\ k[j] = "list" /\ next'[m] # Null =>
          (next'[m] = next'[j] => m = j)
    BY <1>s, <1>3, <1>t, <2>1, <2>2, <2>3 DEF Shape
  <2>7. \A m \in Nodes : k[m] \in Dead => next'[m] # Null
    BY <1>s, <1>3, <1>t, <2>2 DEF Shape, Dead
  <2>8. \A u \in Threads : Unlinked(u)' => next'[new[u]] = Null
    <3>1. \A u \in Threads : Unlinked(u) => new[u] \in Nodes /\ kind[new[u]] = "new"
      BY <1>s DEF Agrees, Locals, Unlinked, At, WithNew
    <3> QED
      BY <1>s, <1>2, <1>6, <2>2, <3>1 DEF Shape
  <2> QED
    BY <1>e, <2>4, <2>5, <2>6, <2>7, <2>8 DEF Shape
<1>10. Pointers(k)'
  <2>1. PointersOf(t, k)'
    BY <1>e, <1>t, CarelessStep DEF Careless
  <2>2. ASSUME NEW u \in Threads, u # t PROVE PointersOf(u, k)'
    <3>1. pc'[u] = pc[u] /\ slots'[u] = slots[u]
      BY <1>e, <1>t, <2>2
    <3>2. \A m \in Nodes : Guards(u, m) => m # n /\ k[m] = kind[m]
      BY <1>s, <1>1, <1>3 DEF Pointers, PointersOf, Kept, Dead
    <3>3. pc[u] \in HeadUse \cup {"helpTail"} => ptr[u] \in Nodes /\ Guards(u, ptr[u])
      BY DEF Guards, HeadUse, TailUse, Locals, WithPtr
    <3>4. pc[u] \in {"helpTail"} \cup (HeadUse \ {"readHeadNext"}) => next'[ptr[u]] = next[ptr[u]]
      BY <1>s, <1>e, <1>t, <3>3 DEF Pointers, PointersOf, Locals, WithNxt, HeadUse
    <3>5. pc[u] \in HeadUse /\ k[ptr[u]] = "list" => ptr[u] = m_head
      BY <1>s, <3>2, <3>3 DEF Pointers, PointersOf
    <3> QED
      BY <1>s, <1>e, <3>1, <3>2, <3>4, <3>5, PointersFrame DEF Pointers, PointersOf
  <2> QED
    BY <2>1, <2>2 DEF Pointers
<1>11. ScansSee'
  <2>1. KeepsAnnounced(t, kind)
    BY <1>e, <1>t, CarelessStep DEF Careless
  <2>2. \A u \in Threads : KeepsAnnounced(u, kind)
    BY <1>e, <1>t, <2>1 DEF KeepsAnnounced, Guards
  <2> QED
    BY <1>s, <1>e, <1>10, <2>2, ScansStep DEF Scanning
<1>12. Pushed(kind, k)
  <2>1. linked' = Append(linked, value[n]) /\ UNCHANGED <<value, taken>>
    BY DEF CasNext
  <2>2. next[n] = Null
    BY <1>s, <1>1 DEF Shape
  <2>3. \A m \in Nodes : k[m] = "list" <=> kind[m] = "list" \/ m = n
    BY <1>3
  <2> QED
    BY <1>1, <1>2, <1>e, <2>1, <2>2, <2>3 DEF Pushed
<1> QED
  BY <1>4, <1>7, <1>8, <1>9, <1>10, <1>11, <1>12 DEF Sound

\* The exchange of m_head takes the dummy out of the list; the popper owns it.
LEMMA CasHeadStep ==
  ASSUME Types, Locals, Types', m_head # Null, NEW kind, NEW owner, Assigned(kind, owner),
         Sound(kind, owner), NEW t \in Threads, CasHead(t)
  PROVE  \E k, o : Assigned(k, o) /\ Sound(k, o)' /\ Popped(kind, k)
<1>s. Agrees(kind, owner) /\ NoneTwice /\ Shape(kind) /\ Pointers(kind) /\ ScansSee
  BY DEF Sound
<1>a. kind \in [Nodes -> Kinds] /\ owner \in [Nodes -> Threads \cup {Null}]
  BY DEF Assigned
<1>t. /\ pc \in [Threads -> PCs] /\ next \in [Nodes -> Nodes \cup {Null}] /\ Null \notin Nodes
      /\ m_head \in Nodes /\ m_tail \in Nodes
  BY HazardPointersAssumption DEF Types, TypeOK
<1>l. pc[t] = "casHead" /\ ptr[t] \in Nodes /\ nxt[t] \in Nodes
  BY DEF CasHead, Step, Locals, WithPtr, WithNxt
<1> PICK n \in Nodes, q \in Nodes : n = ptr[t] /\ q = nxt[t]
  BY <1>l
<1>e. /\ pc' = [pc EXCEPT ![t] = "take"] /\ m_head = n /\ m_head' = q
      /\ UNCHANGED <<slots, records, retired, orphaned, orphanedLock, pool, hpc, todo, survivors,
                     record, slot, m_tail, next, fresh, new, ptr, nxt>>
  BY <1>t DEF CasHead, Step, Goto, hazardVars, localVars, scanVars
<1> DEFINE k == [kind EXCEPT ![n] = "old"]
           o == [owner EXCEPT ![n] = t]
<1>1. q = next[n] /\ kind[n] = "list" /\ kind[q] = "list" /\ q # n /\ m_tail # n
  BY <1>s, <1>l, <1>e, <1>t DEF Shape, Pointers, PointersOf, HeadUse
<1>3. \A m \in Nodes : /\ k[m] = IF m = n THEN "old" ELSE kind[m]
                       /\ o[m] = IF m = n THEN t ELSE owner[m]
  BY <1>a
<1>4. Assigned(k, o)
  BY <1>a DEF Assigned, Kinds
<1> HIDE DEF k, o
<1>5. /\ \A u \in Threads : Retired(u)' = Retired(u)
      /\ Orphaned' = Orphaned /\ pool' = pool /\ fresh' = fresh
  BY <1>e DEF Retired, Orphaned
<1>6. \A u \in Threads : /\ Unlinked(u)' <=> Unlinked(u)
                         /\ At(u, {"take", "retire"})' <=> At(u, {"take", "retire"}) \/ u = t
                         /\ ~At(t, {"take", "retire"})
  BY <1>e, <1>l, <1>t DEF Unlinked, At
<1>7. Agrees(k, o)'
  <2> SUFFICES ASSUME NEW m \in Nodes
               PROVE  /\ \A u \in Threads :
                           /\ m \in Members(Retired(u)) <=> k[m] = "retired" /\ o[m] = u
                           /\ Unlinked(u) /\ new[u] = m <=> k[m] = "new" /\ o[m] = u
                           /\ At(u, {"take", "retire"})' /\ ptr[u] = m <=> k[m] = "old" /\ o[m] = u
                      /\ m \in Members(Orphaned) <=> k[m] = "orphaned"
                      /\ m \in Members(pool) <=> k[m] = "pool"
                      /\ m \in fresh <=> k[m] = "fresh"
    BY <1>5, <1>6, <1>e DEF Agrees
  <2>1. CASE m = n
    BY <1>s, <1>1, <1>3, <1>6, <2>1 DEF Agrees
  <2>2. CASE m # n
    BY <1>s, <1>1, <1>3, <1>6, <2>2 DEF Agrees
  <2> QED
    BY <2>1, <2>2
<1>8. NoneTwice'
  BY <1>s, <1>5 DEF NoneTwice
<1>9. Shape(k)'
  <2>1. k[q] = "list" /\ k[m_tail] = "list"
    BY <1>s, <1>1, <1>3, <1>t DEF Shape
  <2>2. \A m \in Nodes : k[m] = "list" /\ next[m] # Null => k[next[m]] = "list" /\ next[m] # q
    BY <1>s, <1>1, <1>3, <1>t, <1>e DEF Shape
  <2>3. \A m, j \in Nodes : k[m] = "list" /\ k[j] = "list" /\ next[m] # Null =>
          (next[m] = next[j] => m = j)
    BY <1>s, <1>3 DEF Shape
  <2>4. \A m \in Nodes : k[m] \in Dead => next[m] # Null
    BY <1>s, <1>1, <1>3, <1>t DEF Shape
  <2>5. \A u \in Threads : Unlinked(u)' => next[new[u]] = Null
    BY <1>s, <1>6 DEF Shape
  <2> QED
    BY <1>e, <2>1, <2>2, <2>3, <2>4, <2>5 DEF Shape
<1>10. Pointers(k)'
  <2>1. PointersOf(t, k)'
    <3>1. pc'[t] = "take"
      BY <1>e, <1>t
    <3>2. \A m : Guards(t, m)' => m = q
      BY <1>e, <3>1 DEF Guards, TailUse, HeadUse, NextUse
    <3>3. Held(t, q)' /\ k[q] \in Kept
      <4>1. Guards(t, q)
        BY <1>l DEF Guards, NextUse
      <4>2. Held(t, q)
        BY <1>s, <4>1 DEF Pointers, PointersOf
      <4> QED
        BY <1>1, <1>3, <1>e, <4>2 DEF Held, Kept
    <3> QED
      BY <3>1, <3>2, <3>3 DEF PointersOf, HeadUse
  <2>2. ASSUME NEW u \in Threads, u # t PROVE PointersOf(u, k)'
    <3>1. pc'[u] = pc[u]
      BY <1>e, <1>t, <2>2
    <3>2. \A m \in Nodes : Guards(u, m) => k[m] = kind[m] \/ k[m] \in Dead
      BY <1>3 DEF Dead
    <3>3. pc[u] \in HeadUse => ptr[u] \in Nodes
      BY DEF HeadUse, Locals, WithPtr
    <3>4. pc[u] \in HeadUse => k[ptr[u]] # "list" /\ ptr[u] # q
      BY <1>s, <1>1, <1>3, <1>e, <3>3 DEF Pointers, PointersOf
    <3>5. pc[u] = "casHead" => pc[u] \in HeadUse
      BY DEF HeadUse
    <3> QED
      BY <1>s, <1>e, <3>1, <3>2, <3>4, <3>5, PointersFrame DEF Pointers
  <2> QED
    BY <2>1, <2>2 DEF Pointers
<1>11. ScansSee'
  <2>1. \A u \in Threads, m \in Nodes : Guards(u, m)' => Guards(u, m)
    BY <1>e, <1>l, <1>t DEF Guards, TailUse, HeadUse, NextUse
  <2>2. \A u \in Threads : KeepsAnnounced(u, kind)
    BY <1>e, <2>1 DEF KeepsAnnounced
  <2> QED
    BY <1>s, <1>e, <1>10, <2>2, ScansStep DEF Scanning
<1>12. Popped(kind, k)
  <2>1. taken' = Append(taken, value[q]) /\ UNCHANGED <<value, linked>>
    BY DEF CasHead
  <2>2. \A m \in Nodes : k[m] = "list" <=> kind[m] = "list" /\ m # m_head
    BY <1>3, <1>e
  <2>3. next[m_head] = q /\ q # Null
    BY <1>1, <1>e, <1>t
  <2> QED
    BY <1>e, <2>1, <2>2, <2>3 DEF Popped
<1> QED
  BY <1>4, <1>7, <1>8, <1>9, <1>10, <1>11, <1>12 DEF Sound

\* The list stays.
LEMMA ShapeSame ==
  ASSUME Types, m_head # Null, NEW kind, NEW after, Shape(kind), UNCHANGED <<m_head, m_tail>>,
         \A n \in Nodes : /\ after[n] = "list" <=> kind[n] = "list"
                          /\ after[n] \in Dead => kind[n] \in Dead
                          /\ kind[n] \in Kept => next'[n] = next[n],
         \A u \in Threads : Unlinked(u)' => next'[new'[u]] = Null
  PROVE  Shape(after)'
<1>1. m_head \in Nodes /\ m_tail \in Nodes /\ next \in [Nodes -> Nodes \cup {Null}]
  BY DEF Types, TypeOK
<1>2. \A n \in Nodes : after[n] = "list" => kind[n] = "list" /\ next'[n] = next[n]
  BY DEF Kept
<1>3. \A n \in Nodes : after[n] \in Dead => kind[n] \in Dead /\ next'[n] = next[n]
  BY DEF Kept
<1> QED
  BY <1>1, <1>2, <1>3 DEF Shape

\* The old dummy goes from the popper to its retired list.
LEMMA RetireHeadStep ==
  ASSUME Types, Locals, Types', m_head # Null, NEW kind, NEW owner, Assigned(kind, owner),
         Sound(kind, owner), NEW t \in Threads, RetireHead(t)
  PROVE  \E k, o : Assigned(k, o) /\ Sound(k, o)' /\ ListSame(kind, k)
<1>s. Agrees(kind, owner) /\ NoneTwice /\ Shape(kind) /\ Pointers(kind) /\ ScansSee
  BY DEF Sound
<1>a. kind \in [Nodes -> Kinds] /\ owner \in [Nodes -> Threads \cup {Null}]
  BY DEF Assigned
<1>t. /\ pc \in [Threads -> PCs] /\ hpc \in [Threads -> {"off", "local", "lock", "orphaned"}]
      /\ slots \in [Threads -> [1..slotsCount -> Nodes \cup {Null}]]
      /\ todo \in [Threads -> Seq(Nodes)] /\ retired \in [Threads -> Seq(Nodes)]
      /\ ptr \in [Threads -> Nodes \cup {Null}] /\ nxt \in [Threads -> Nodes \cup {Null}]
      /\ new \in [Threads -> Nodes \cup {Null}]
      /\ record \in [Threads -> Nat] /\ slot \in [Threads -> Nat]
  BY DEF Types, TypeOK
<1>l. pc[t] = "retire" /\ ptr[t] \in Nodes /\ hpc[t] = "off" /\ survivors[t] = <<>> /\ orphanedLock # t
  BY HazardPointersAssumption DEF RetireHead, Step, Locals, WithPtr, Types, TypeOK
<1> PICK n \in Nodes : n = ptr[t]
  BY <1>l
<1>e. /\ pc' = [pc EXCEPT ![t] = "idle"]
      /\ \A u \in Threads \ {t} : /\ slots'[u] = slots[u] /\ ptr'[u] = ptr[u] /\ nxt'[u] = nxt[u]
                                  /\ new'[u] = new[u]
      /\ retired' = [retired EXCEPT ![t] = Append(retired[t], n)]
      /\ UNCHANGED <<survivors, records, orphaned, orphanedLock, pool, m_head, m_tail, next, fresh>>
  BY <1>t DEF RetireHead, Step, Goto, Forget, unprotect, retire, queueVars
<1>f. \/ /\ hpc' = [hpc EXCEPT ![t] = "local"] /\ todo' = [todo EXCEPT ![t] = Append(retired[t], n)]
         /\ record' = [record EXCEPT ![t] = Len(records)] /\ slot' = [slot EXCEPT ![t] = 1]
      \/ UNCHANGED <<hpc, todo, record, slot>>
  BY DEF RetireHead, retire, Rewind
<1> DEFINE k == [kind EXCEPT ![n] = "retired"]
<1>1. kind[n] = "old" /\ owner[n] = t /\ Retired(t) = retired[t] /\ n \notin Members(retired[t])
  BY <1>s, <1>l DEF Agrees, At, Retired
<1>3. \A m \in Nodes : k[m] = IF m = n THEN "retired" ELSE kind[m]
  BY <1>a
<1>4. Assigned(k, owner)
  BY <1>a, <1>1 DEF Assigned, Kinds
<1> HIDE DEF k
<1>5. /\ Append(retired[t], n) \in Seq(Nodes)
      /\ Members(Append(retired[t], n)) = Members(retired[t]) \cup {n}
      /\ Distinct(Append(retired[t], n))
  <2>1. retired[t] \in Seq(Nodes) /\ Distinct(retired[t])
    BY <1>s, <1>1, <1>t DEF NoneTwice
  <2> QED
    BY <1>1, <2>1, AppendedNode
<1>6. /\ Retired(t)' = Append(retired[t], n)
      /\ \A u \in Threads \ {t} : Retired(u)' = Retired(u)
  <2>1. CASE UNCHANGED <<hpc, todo, record, slot>>
    BY <1>e, <1>l, <1>t, <2>1 DEF Retired
  <2>2. CASE /\ hpc' = [hpc EXCEPT ![t] = "local"]
             /\ todo' = [todo EXCEPT ![t] = Append(retired[t], n)]
    <3>1. hpc'[t] = "local" /\ todo'[t] = Append(retired[t], n) /\ survivors'[t] = <<>>
      BY <1>e, <1>l, <1>t, <2>2
    <3>2. Append(retired[t], n) \o <<>> = Append(retired[t], n)
      BY <1>5, ConcatEmptySeq
    <3>3. Retired(t)' = todo'[t] \o survivors'[t]
      BY <3>1 DEF Retired
    <3>4. Retired(t)' = Append(retired[t], n)
      BY <3>1, <3>2, <3>3, Zenon
    <3>5. \A u \in Threads \ {t} : Retired(u)' = Retired(u)
      BY <1>e, <1>t, <2>2 DEF Retired
    <3> QED
      BY <3>4, <3>5
  <2> QED
    BY <1>f, <2>1, <2>2
<1>7. Orphaned' = Orphaned
  <2>1. orphanedLock \in Threads \cup {Null}
    BY DEF Types
  <2> QED
    BY <1>e, <1>f, <1>l, <1>t, <2>1 DEF Orphaned
<1>8. /\ \A u \in Threads : /\ Unlinked(u)' <=> Unlinked(u)
                            /\ At(u, {"take", "retire"})' <=> At(u, {"take", "retire"}) /\ u # t
      /\ ~Unlinked(t) /\ At(t, {"take", "retire"})
  BY <1>e, <1>l, <1>t DEF Unlinked, At
<1>9. Agrees(k, owner)'
  <2> SUFFICES ASSUME NEW m \in Nodes
               PROVE  /\ \A u \in Threads :
                           /\ m \in Members(Retired(u)') <=> k[m] = "retired" /\ owner[m] = u
                           /\ Unlinked(u)' /\ new'[u] = m <=> k[m] = "new" /\ owner[m] = u
                           /\ At(u, {"take", "retire"})' /\ ptr'[u] = m <=> k[m] = "old" /\ owner[m] = u
                      /\ m \in Members(Orphaned) <=> k[m] = "orphaned"
                      /\ m \in Members(pool) <=> k[m] = "pool"
                      /\ m \in fresh <=> k[m] = "fresh"
    BY <1>7, <1>e DEF Agrees
  <2>1. ASSUME NEW u \in Threads
        PROVE  /\ m \in Members(Retired(u)') <=> m \in Members(Retired(u)) \/ (u = t /\ m = n)
               /\ Unlinked(u)' /\ new'[u] = m <=> Unlinked(u) /\ new[u] = m
               /\ At(u, {"take", "retire"})' /\ ptr'[u] = m <=>
                    At(u, {"take", "retire"}) /\ ptr[u] = m /\ u # t
    <3>1. CASE u = t
      BY <1>1, <1>5, <1>6, <1>8, <3>1
    <3>2. CASE u # t
      BY <1>6, <1>8, <1>e, <3>2
    <3> QED
      BY <3>1, <3>2
  <2>2. CASE m = n
    BY <1>s, <1>1, <1>3, <2>1, <2>2 DEF Agrees
  <2>3. CASE m # n
    BY <1>s, <1>1, <1>3, <2>1, <2>3, <1>l, <1>8 DEF Agrees
  <2> QED
    BY <2>2, <2>3
<1>10. NoneTwice'
  BY <1>s, <1>5, <1>6, <1>7, <1>e DEF NoneTwice
<1>11. Shape(k)'
  <2>1. \A u \in Threads : Unlinked(u)' => next'[new'[u]] = Null
    BY <1>s, <1>8, <1>e DEF Shape
  <2>2. \A m \in Nodes : /\ k[m] = "list" <=> kind[m] = "list"
                         /\ k[m] \in Dead => kind[m] \in Dead
                         /\ kind[m] \in Kept => next'[m] = next[m]
    BY <1>1, <1>3, <1>e DEF Dead
  <2> QED
    BY <1>s, <1>e, <2>1, <2>2, ShapeSame
<1>12. Pointers(k)'
  <2>1. PointersOf(t, k)'
    BY <1>e, <1>t, CarelessStep DEF Careless
  <2>2. ASSUME NEW u \in Threads, u # t PROVE PointersOf(u, k)'
    <3>1. pc'[u] = pc[u]
      BY <1>e, <1>t, <2>2
    <3>2. \A m \in Nodes : Guards(u, m) => /\ k[m] = kind[m] \/ k[m] \in Dead
                                           /\ next'[m] = next[m]
      BY <1>3, <1>e DEF Dead
    <3>3. PointersOf(u, kind)
      BY <1>s DEF Pointers
    <3> QED
      BY <1>e, <2>2, <3>1, <3>2, <3>3, PointersSame
  <2> QED
    BY <2>1, <2>2 DEF Pointers
<1>13. ScansSee'
  <2>1. KeepsAnnounced(t, kind)
    BY <1>e, <1>t, CarelessStep DEF Careless
  <2>2. \A u \in Threads : KeepsAnnounced(u, kind)
    BY <1>e, <1>t, <2>1 DEF KeepsAnnounced, Guards
  <2>3. \A a \in Threads : Scanning(a)' =>
          \/ record'[a] = Len(records') /\ slot'[a] = 1
          \/ /\ Scanning(a) /\ Head(todo'[a]) = Head(todo[a])
             /\ record'[a] = record[a] /\ slot'[a] = slot[a]
    BY <1>e, <1>f, <1>t DEF Scanning
  <2> QED
    BY <1>s, <1>e, <1>12, <2>2, <2>3, ScansStep
<1>14. ListSame(kind, k)
  BY <1>1, <1>3, <1>e DEF ListSame, RetireHead, queueVars, historyVars
<1> QED
  BY <1>4, <1>9, <1>10, <1>11, <1>12, <1>13, <1>14 DEF Sound

\* A thread that ends leaves its retired nodes to the others.
LEMMA EndThreadStep ==
  ASSUME Types, Locals, Types', m_head # Null, NEW kind, NEW owner, Assigned(kind, owner),
         Sound(kind, owner), NEW t \in Threads, EndThread(t)
  PROVE  \E k, o : Assigned(k, o) /\ Sound(k, o)' /\ ListSame(kind, k)
<1>s. Agrees(kind, owner) /\ NoneTwice /\ Shape(kind) /\ Pointers(kind) /\ ScansSee
  BY DEF Sound
<1>a. kind \in [Nodes -> Kinds] /\ owner \in [Nodes -> Threads \cup {Null}]
  BY DEF Assigned
<1>t. /\ pc \in [Threads -> PCs] /\ retired \in [Threads -> Seq(Nodes)] /\ orphaned \in Seq(Nodes)
  BY DEF Types
<1>e. /\ pc[t] = "idle" /\ hpc[t] = "off" /\ orphanedLock = Null
      /\ pc' = [pc EXCEPT ![t] = "gone"]
      /\ orphaned' = orphaned \o retired[t] /\ retired' = [retired EXCEPT ![t] = <<>>]
      /\ UNCHANGED <<slots, records, orphanedLock, pool, hpc, todo, survivors, record, slot,
                     m_head, m_tail, next, fresh, new, ptr, nxt>>
  BY DEF EndThread, ThreadExit, Step, Goto, scanVars, queueVars, localVars
<1> DEFINE moved == {m \in Nodes : kind[m] = "retired" /\ owner[m] = t}
           k == [m \in Nodes |-> IF m \in moved THEN "orphaned" ELSE kind[m]]
<1>1. Retired(t) = retired[t] /\ Orphaned = orphaned
  BY <1>e DEF Retired, Orphaned
<1>2. \A m \in Nodes : m \in Members(retired[t]) <=> m \in moved
  BY <1>s, <1>1 DEF Agrees
<1>3. \A m \in Nodes : k[m] = IF m \in moved THEN "orphaned" ELSE kind[m]
  OBVIOUS
<1>4. Assigned(k, owner)
  BY <1>a DEF Assigned, Kinds
<1>m. \A m \in moved : kind[m] = "retired" /\ owner[m] = t
  OBVIOUS
<1>n. \A m \in Nodes : kind[m] = "retired" /\ owner[m] = t => m \in moved
  OBVIOUS
<1> HIDE DEF k, moved
<1>5. /\ orphaned \o retired[t] \in Seq(Nodes)
      /\ Members(orphaned \o retired[t]) = Members(orphaned) \cup Members(retired[t])
      /\ Distinct(orphaned \o retired[t])
  <2>1. retired[t] \in Seq(Nodes) /\ Distinct(retired[t]) /\ orphaned \in Seq(Nodes) /\ Distinct(orphaned)
    BY <1>s, <1>1, <1>t DEF NoneTwice
  <2>2. Members(orphaned) \subseteq Nodes
    BY <1>t, LenProperties, ElementOfSeq DEF Members
  <2>3. Members(orphaned) \cap Members(retired[t]) = {}
    BY <1>s, <1>1, <2>2 DEF Agrees
  <2> QED
    BY <2>1, <2>3, JoinedNodes
<1>6. /\ Retired(t)' = <<>>
      /\ \A u \in Threads \ {t} : Retired(u)' = Retired(u)
      /\ Orphaned' = orphaned \o retired[t]
  BY <1>e, <1>t DEF Retired, Orphaned
<1>7. Members(<<>>) = {} /\ Distinct(<<>>)
  BY EmptySeq DEF Members, Distinct
<1>8. \A u \in Threads : /\ Unlinked(u)' <=> Unlinked(u)
                         /\ At(u, {"take", "retire"})' <=> At(u, {"take", "retire"})
  BY <1>e, <1>t DEF Unlinked, At
<1>9. Agrees(k, owner)'
  <2> SUFFICES ASSUME NEW m \in Nodes
               PROVE  /\ \A u \in Threads :
                           /\ m \in Members(Retired(u)') <=> k[m] = "retired" /\ owner[m] = u
                           /\ Unlinked(u) /\ new[u] = m <=> k[m] = "new" /\ owner[m] = u
                           /\ At(u, {"take", "retire"}) /\ ptr[u] = m <=> k[m] = "old" /\ owner[m] = u
                      /\ m \in Members(Orphaned') <=> k[m] = "orphaned"
                      /\ m \in Members(pool) <=> k[m] = "pool"
                      /\ m \in fresh <=> k[m] = "fresh"
    BY <1>8, <1>e DEF Agrees
  <2>1. \A u \in Threads : m \in Members(Retired(u)') <=> m \in Members(Retired(u)) /\ u # t
    BY <1>6, <1>7
  <2>2. m \in Members(Orphaned') <=> m \in Members(Orphaned) \/ m \in moved
    BY <1>1, <1>2, <1>5, <1>6
  <2>3. CASE m \in moved
    BY <1>s, <1>3, <1>m, <2>1, <2>2, <2>3 DEF Agrees
  <2>4. CASE m \notin moved
    BY <1>s, <1>3, <1>n, <2>1, <2>2, <2>4 DEF Agrees
  <2> QED
    BY <2>3, <2>4
<1>10. NoneTwice'
  BY <1>s, <1>5, <1>6, <1>7, <1>e DEF NoneTwice
<1>11. Shape(k)'
  <2>1. \A u \in Threads : Unlinked(u)' => next'[new'[u]] = Null
    BY <1>s, <1>8, <1>e DEF Shape
  <2>2. \A m \in Nodes : /\ k[m] = "list" <=> kind[m] = "list"
                         /\ k[m] \in Dead => kind[m] \in Dead
                         /\ kind[m] \in Kept => next'[m] = next[m]
    BY <1>m, <1>3, <1>e DEF Dead
  <2> QED
    BY <1>s, <1>e, <2>1, <2>2, ShapeSame
<1>12. Pointers(k)'
  <2>1. PointersOf(t, k)'
    BY <1>e, <1>t, CarelessStep DEF Careless
  <2>2. ASSUME NEW u \in Threads, u # t PROVE PointersOf(u, k)'
    <3>1. pc'[u] = pc[u]
      BY <1>e, <1>t, <2>2
    <3>2. \A m \in Nodes : Guards(u, m) => /\ k[m] = kind[m] \/ k[m] \in Dead
                                           /\ next'[m] = next[m]
      BY <1>3, <1>e DEF Dead
    <3>3. PointersOf(u, kind)
      BY <1>s DEF Pointers
    <3> QED
      BY <1>e, <2>2, <3>1, <3>2, <3>3, PointersSame
  <2> QED
    BY <2>1, <2>2 DEF Pointers
<1>13. ScansSee'
  <2>1. KeepsAnnounced(t, kind)
    BY <1>e, <1>t, CarelessStep DEF Careless
  <2>2. \A u \in Threads : KeepsAnnounced(u, kind)
    BY <1>e, <1>t, <2>1 DEF KeepsAnnounced, Guards
  <2> QED
    BY <1>s, <1>e, <1>12, <2>2, ScansStep DEF Scanning
<1>14. ListSame(kind, k)
  BY <1>m, <1>3, <1>e DEF ListSame, EndThread, queueVars, historyVars
<1> QED
  BY <1>4, <1>9, <1>10, <1>11, <1>12, <1>13, <1>14 DEF Sound

\* A node of the pool, or a fresh one, becomes the new node of a push.
LEMMA BeginEmplaceStep ==
  ASSUME Types, Locals, Types', m_head # Null, NEW kind, NEW owner, Assigned(kind, owner),
         Sound(kind, owner), NEW t \in Threads, BeginEmplace(t)
  PROVE  \E k, o : Assigned(k, o) /\ Sound(k, o)' /\ ListSame(kind, k)
<1>s. Agrees(kind, owner) /\ NoneTwice /\ Shape(kind) /\ Pointers(kind) /\ ScansSee
  BY DEF Sound
<1>a. kind \in [Nodes -> Kinds] /\ owner \in [Nodes -> Threads \cup {Null}]
  BY DEF Assigned
<1>t. /\ pc \in [Threads -> PCs] /\ pool \in Seq(Nodes) /\ fresh \subseteq Nodes
      /\ next \in [Nodes -> Nodes \cup {Null}] /\ new \in [Threads -> Nodes \cup {Null}]
  BY DEF Types, TypeOK
<1>1. PICK n \in Nodes :
        /\ IF pool # <<>> THEN allocate(n) /\ UNCHANGED fresh
           ELSE /\ fresh # {} /\ n = CHOOSE f \in fresh : TRUE
                /\ fresh' = fresh \ {n} /\ UNCHANGED pool
        /\ next' = [next EXCEPT ![n] = Null] /\ new' = [new EXCEPT ![t] = n]
        /\ value' = [value EXCEPT ![n] = CHOOSE v \in Unused : TRUE]
  BY DEF BeginEmplace
<1>e. /\ pc[t] = "idle" /\ pc' = [pc EXCEPT ![t] = "loadTail"]
      /\ UNCHANGED <<slots, records, retired, orphaned, orphanedLock, hpc, todo, survivors,
                     record, slot, m_head, m_tail, ptr, nxt>>
  BY DEF BeginEmplace, Step, Goto, scanVars
<1>2. /\ kind[n] \in {"pool", "fresh"}
      /\ \A m \in Nodes : /\ m \in Members(pool') <=> m \in Members(pool) /\ m # n
                          /\ m \in fresh' <=> m \in fresh /\ m # n
      /\ Distinct(pool')
  <2>1. CASE pool # <<>>
    <3>1. n = pool[Len(pool)] /\ pool' = SubSeq(pool, 1, Len(pool) - 1) /\ fresh' = fresh
      BY <1>1, <2>1 DEF allocate
    <3>2. Distinct(pool)
      BY <1>s DEF NoneTwice
    <3>3. n \in Members(pool) /\ Members(pool') = Members(pool) \ {n} /\ Distinct(pool')
      BY <1>t, <2>1, <3>1, <3>2, CurtailedNodes
    <3>4. kind[n] = "pool" /\ n \notin fresh
      BY <1>s, <3>3 DEF Agrees
    <3> QED
      BY <3>1, <3>3, <3>4
  <2>2. CASE pool = <<>>
    <3>1. n \in fresh /\ fresh' = fresh \ {n} /\ pool' = pool
      BY <1>1, <2>2
    <3>2. kind[n] = "fresh" /\ n \notin Members(pool) /\ Distinct(pool)
      BY <1>s, <3>1 DEF Agrees, NoneTwice
    <3> QED
      BY <3>1, <3>2
  <2> QED
    BY <2>1, <2>2
<1> DEFINE k == [kind EXCEPT ![n] = "new"]
           o == [owner EXCEPT ![n] = t]
<1>3. \A m \in Nodes : /\ k[m] = IF m = n THEN "new" ELSE kind[m]
                       /\ o[m] = IF m = n THEN t ELSE owner[m]
  BY <1>a
<1>4. Assigned(k, o)
  BY <1>a DEF Assigned, Kinds
<1> HIDE DEF k, o
<1>6. (\A u \in Threads : Retired(u)' = Retired(u)) /\ Orphaned' = Orphaned
  BY <1>e DEF Retired, Orphaned
<1>8. /\ \A u \in Threads : /\ Unlinked(u)' <=> Unlinked(u) \/ u = t
                            /\ At(u, {"take", "retire"})' <=> At(u, {"take", "retire"})
                            /\ u # t => new'[u] = new[u]
      /\ ~Unlinked(t) /\ new'[t] = n
  BY <1>1, <1>e, <1>t DEF Unlinked, At
<1>9. Agrees(k, o)'
  <2> SUFFICES ASSUME NEW m \in Nodes
               PROVE  /\ \A u \in Threads :
                           /\ m \in Members(Retired(u)) <=> k[m] = "retired" /\ o[m] = u
                           /\ Unlinked(u)' /\ new'[u] = m <=> k[m] = "new" /\ o[m] = u
                           /\ At(u, {"take", "retire"}) /\ ptr[u] = m <=> k[m] = "old" /\ o[m] = u
                      /\ m \in Members(Orphaned) <=> k[m] = "orphaned"
                      /\ m \in Members(pool') <=> k[m] = "pool"
                      /\ m \in fresh' <=> k[m] = "fresh"
    BY <1>6, <1>8, <1>e DEF Agrees
  <2>1. CASE m = n
    BY <1>s, <1>2, <1>3, <1>8, <2>1 DEF Agrees
  <2>2. CASE m # n
    BY <1>s, <1>2, <1>3, <1>8, <2>2 DEF Agrees
  <2> QED
    BY <2>1, <2>2
<1>10. NoneTwice'
  BY <1>s, <1>2, <1>6 DEF NoneTwice
<1>5. \A m \in Nodes : next'[m] = IF m = n THEN Null ELSE next[m]
  BY <1>1, <1>t
<1>11. Shape(k)'
  <2>1. \A u \in Threads : Unlinked(u)' => next'[new'[u]] = Null
    <3>1. \A u \in Threads : Unlinked(u) => new[u] \in Nodes
      BY DEF Locals, Unlinked, At, WithNew
    <3> QED
      BY <1>s, <1>5, <1>8, <3>1 DEF Shape
  <2>2. \A m \in Nodes : /\ k[m] = "list" <=> kind[m] = "list"
                         /\ k[m] \in Dead => kind[m] \in Dead
                         /\ kind[m] \in Kept => next'[m] = next[m]
    BY <1>2, <1>3, <1>5 DEF Dead, Kept
  <2> QED
    BY <1>s, <1>e, <2>1, <2>2, ShapeSame
<1>12. Pointers(k)'
  <2>1. PointersOf(t, k)'
    BY <1>e, <1>t, CarelessStep DEF Careless
  <2>2. ASSUME NEW u \in Threads, u # t PROVE PointersOf(u, k)'
    <3>1. pc'[u] = pc[u]
      BY <1>e, <1>t, <2>2
    <3>2. \A m \in Nodes : Guards(u, m) => k[m] = kind[m] /\ next'[m] = next[m]
      BY <1>s, <1>2, <1>3, <1>5 DEF Pointers, PointersOf, Kept, Dead
    <3>3. PointersOf(u, kind)
      BY <1>s DEF Pointers
    <3> QED
      BY <1>e, <2>2, <3>1, <3>2, <3>3, PointersSame
  <2> QED
    BY <2>1, <2>2 DEF Pointers
<1>13. ScansSee'
  <2>1. KeepsAnnounced(t, kind)
    BY <1>e, <1>t, CarelessStep DEF Careless
  <2>2. \A u \in Threads : KeepsAnnounced(u, kind)
    BY <1>e, <1>t, <2>1 DEF KeepsAnnounced, Guards
  <2> QED
    BY <1>s, <1>e, <1>12, <2>2, ScansStep DEF Scanning
<1>14. ListSame(kind, k)
  <2>1. UNCHANGED <<linked, taken>> /\ value' = [value EXCEPT ![n] = CHOOSE v \in Unused : TRUE]
        /\ value \in [Nodes -> Values \cup {Null}]
    BY <1>1 DEF BeginEmplace, historyVars, Types
  <2>2. \A m \in Nodes : m # n => value'[m] = value[m]
    BY <2>1
  <2> QED
    BY <1>2, <1>3, <1>5, <1>e, <2>1, <2>2 DEF ListSame
<1> QED
  BY <1>4, <1>9, <1>10, <1>11, <1>12, <1>13, <1>14 DEF Sound

-----------------------------------------------------------------------------
(* The steps of a scan *)

\* A step that only puts the retired nodes in another order.
LEMMA ReorderStep ==
  ASSUME Types, Locals, Types', m_head # Null, NEW kind, NEW owner, Sound(kind, owner),
         UNCHANGED <<slots, records, pool, m_head, m_tail, next, fresh, pc, new, ptr, nxt>>,
         \A u \in Threads : Members(Retired(u)') = Members(Retired(u)) /\ Distinct(Retired(u)'),
         Members(Orphaned') = Members(Orphaned), Distinct(Orphaned'),
         \A a \in Threads : Scanning(a)' =>
           \/ record'[a] = Len(records') /\ slot'[a] = 1
           \/ /\ Scanning(a) /\ Head(todo'[a]) = Head(todo[a])
              /\ record'[a] = record[a] /\ slot'[a] = slot[a]
  PROVE  Sound(kind, owner)'
<1>s. Agrees(kind, owner) /\ NoneTwice /\ Shape(kind) /\ Pointers(kind) /\ ScansSee
  BY DEF Sound
<1>1. Agrees(kind, owner)'
  BY <1>s DEF Agrees, Unlinked, At
<1>2. NoneTwice'
  BY <1>s DEF NoneTwice
<1>3. Shape(kind)'
  BY <1>s DEF Shape, Unlinked, At
<1>4. Pointers(kind)'
  <2>1. \A u \in Threads, n \in Nodes : (Held(u, n)' <=> Held(u, n)) /\ (Guards(u, n)' <=> Guards(u, n))
    BY DEF Held, Guards
  <2>2. ASSUME NEW u \in Threads PROVE PointersOf(u, kind)'
    <3>1. PointersOf(u, kind)
      BY <1>s DEF Pointers
    <3>2. \A n : Held(u, n)' <=> Held(u, n)
      BY DEF Held
    <3> QED
      BY <2>1, <3>1, <3>2 DEF PointersOf
  <2> QED
    BY <2>2 DEF Pointers
<1>5. ScansSee'
  <2>1. \A u \in Threads : KeepsAnnounced(u, kind)
    BY DEF KeepsAnnounced, Guards
  <2>2. CASE Threads = {}
    BY <2>2 DEF ScansSee
  <2>3. CASE Threads # {}
    BY <1>s, <1>4, <2>1, <2>3, ScansStep
  <2> QED
    BY <2>2, <2>3
<1> QED
  BY <1>1, <1>2, <1>3, <1>4, <1>5 DEF Sound

\* What t scans, and what it leaves to the others.
LEMMA ScanPlaces ==
  ASSUME Types, NoneTwice, NEW t \in Threads, hpc[t] \in {"local", "orphaned"}
  PROVE  /\ todo[t] \in Seq(Nodes) /\ survivors[t] \in Seq(Nodes)
         /\ Distinct(todo[t] \o survivors[t])
         /\ hpc[t] = "local" => Retired(t) = todo[t] \o survivors[t] /\ orphanedLock # t
         /\ hpc[t] = "orphaned" => Orphaned = todo[t] \o survivors[t] /\ orphanedLock = t
<1>1. todo[t] \in Seq(Nodes) /\ survivors[t] \in Seq(Nodes) /\ t # Null
      /\ (hpc[t] = "orphaned" <=> orphanedLock = t)
  BY HazardPointersAssumption DEF Types, TypeOK
<1>2. CASE hpc[t] = "local"
  BY <1>1, <1>2 DEF Retired, NoneTwice
<1>3. CASE hpc[t] = "orphaned"
  BY <1>1, <1>3 DEF Orphaned, NoneTwice
<1> QED
  BY <1>1, <1>2, <1>3

\* A node found announced stays retired or orphaned.
LEMMA ScanFindsStep ==
  ASSUME Types, Locals, Types', m_head # Null, NEW kind, NEW owner, Assigned(kind, owner),
         Sound(kind, owner), NEW t \in Threads, ScanStep(t), ScanFinds(t)
  PROVE  Sound(kind, owner)'
<1>s. Agrees(kind, owner) /\ NoneTwice
  BY DEF Sound
<1>t. /\ todo \in [Threads -> Seq(Nodes)] /\ survivors \in [Threads -> Seq(Nodes)]
      /\ record \in [Threads -> Nat] /\ slot \in [Threads -> Nat]
      /\ orphanedLock \in Threads \cup {Null}
  BY DEF Types
<1>e. /\ hpc[t] \in {"local", "orphaned"} /\ todo[t] # <<>>
      /\ survivors' = [survivors EXCEPT ![t] = Append(survivors[t], Head(todo[t]))]
      /\ todo' = [todo EXCEPT ![t] = Tail(todo[t])]
      /\ record' = [record EXCEPT ![t] = Len(records)] /\ slot' = [slot EXCEPT ![t] = 1]
      /\ UNCHANGED <<slots, records, pool, m_head, m_tail, next, fresh, pc, new, ptr, nxt,
                     retired, orphaned, orphanedLock, hpc>>
  BY DEF ScanStep, ScanFinds, Scanning, Rewind, queueVars, localVars
<1>1. /\ todo[t] \in Seq(Nodes) /\ survivors[t] \in Seq(Nodes)
      /\ Distinct(todo[t] \o survivors[t])
      /\ hpc[t] = "local" => Retired(t) = todo[t] \o survivors[t] /\ orphanedLock # t
      /\ hpc[t] = "orphaned" => Orphaned = todo[t] \o survivors[t] /\ orphanedLock = t
  BY <1>s, <1>e, ScanPlaces
<1>2. /\ Members(Tail(todo[t]) \o Append(survivors[t], Head(todo[t]))) = Members(todo[t] \o survivors[t])
      /\ Distinct(Tail(todo[t]) \o Append(survivors[t], Head(todo[t])))
  BY <1>1, <1>e, ScannedNodes
<1>3. todo'[t] = Tail(todo[t]) /\ survivors'[t] = Append(survivors[t], Head(todo[t]))
      /\ \A u \in Threads \ {t} : todo'[u] = todo[u] /\ survivors'[u] = survivors[u]
  BY <1>e, <1>t
<1>4. \A u \in Threads : Members(Retired(u)') = Members(Retired(u)) /\ Distinct(Retired(u)')
  <2> TAKE u \in Threads
  <2>1. CASE u = t /\ hpc[t] = "local"
    <3>1. Retired(u)' = Tail(todo[t]) \o Append(survivors[t], Head(todo[t]))
      BY <1>e, <1>3, <2>1 DEF Retired
    <3> QED
      BY <1>1, <1>2, <2>1, <3>1, Zenon
  <2>2. CASE ~(u = t /\ hpc[t] = "local")
    BY <1>e, <1>s, <1>3, <2>2 DEF Retired, NoneTwice
  <2> QED
    BY <2>1, <2>2
<1>5. Members(Orphaned') = Members(Orphaned) /\ Distinct(Orphaned')
  <2>1. CASE hpc[t] = "orphaned"
    <3>1. orphanedLock' = t /\ t # Null
      BY <1>e, <1>1, <2>1, HazardPointersAssumption
    <3>2. Orphaned' = Tail(todo[t]) \o Append(survivors[t], Head(todo[t]))
      BY <1>3, <3>1 DEF Orphaned
    <3> QED
      BY <1>1, <1>2, <2>1, <3>2, Zenon
  <2>2. CASE hpc[t] = "local"
    BY <1>e, <1>s, <1>t, <1>1, <1>3, <2>2 DEF Orphaned, NoneTwice
  <2> QED
    BY <1>e, <2>1, <2>2
<1>6. \A a \in Threads : Scanning(a)' =>
        \/ record'[a] = Len(records') /\ slot'[a] = 1
        \/ /\ Scanning(a) /\ Head(todo'[a]) = Head(todo[a])
           /\ record'[a] = record[a] /\ slot'[a] = slot[a]
  BY <1>e, <1>t, <1>3 DEF Scanning
<1> QED
  BY <1>e, <1>4, <1>5, <1>6, ReorderStep

\* The survivors become the retired list.
LEMMA LocalDoneStep ==
  ASSUME Types, Locals, Types', m_head # Null, NEW kind, NEW owner, Assigned(kind, owner),
         Sound(kind, owner), NEW t \in Threads, ScanStep(t), LocalDone(t)
  PROVE  Sound(kind, owner)'
<1>s. NoneTwice
  BY DEF Sound
<1>t. /\ hpc \in [Threads -> {"off", "local", "lock", "orphaned"}] /\ retired \in [Threads -> Seq(Nodes)]
      /\ survivors \in [Threads -> Seq(Nodes)] /\ orphanedLock \in Threads \cup {Null}
  BY DEF Types
<1>e. /\ hpc[t] = "local" /\ todo[t] = <<>>
      /\ retired' = [retired EXCEPT ![t] = survivors[t]]
      /\ survivors' = [survivors EXCEPT ![t] = <<>>]
      /\ hpc' = [hpc EXCEPT ![t] = "lock"]
      /\ UNCHANGED <<slots, records, pool, m_head, m_tail, next, fresh, pc, new, ptr, nxt,
                     orphaned, orphanedLock, todo, record, slot>>
  BY DEF ScanStep, LocalDone, queueVars, localVars
<1>1. survivors[t] \in Seq(Nodes) /\ Retired(t) = <<>> \o survivors[t] /\ orphanedLock # t
  BY <1>s, <1>e, ScanPlaces
<1>2. <<>> \o survivors[t] = survivors[t]
  BY <1>1, ConcatEmptySeq
<1>3. Retired(t)' = survivors[t] /\ \A u \in Threads \ {t} : Retired(u)' = Retired(u)
  BY <1>e, <1>t DEF Retired
<1>4. \A u \in Threads : Retired(u)' = Retired(u)
  BY <1>1, <1>2, <1>3, Zenon
<1>5. Orphaned' = Orphaned
  BY <1>e, <1>t, <1>1 DEF Orphaned
<1>6. \A a \in Threads : Scanning(a)' => Scanning(a)
  BY <1>e, <1>t DEF Scanning
<1> QED
  BY <1>s, <1>e, <1>4, <1>5, <1>6, ReorderStep DEF NoneTwice

\* The scan takes the orphaned list.
LEMMA LockOrphanedStep ==
  ASSUME Types, Locals, Types', m_head # Null, NEW kind, NEW owner, Assigned(kind, owner),
         Sound(kind, owner), NEW t \in Threads, ScanStep(t), LockOrphaned(t)
  PROVE  Sound(kind, owner)'
<1>s. NoneTwice
  BY DEF Sound
<1>t. /\ hpc \in [Threads -> {"off", "local", "lock", "orphaned"}]
      /\ todo \in [Threads -> Seq(Nodes)] /\ orphaned \in Seq(Nodes)
      /\ record \in [Threads -> Nat] /\ slot \in [Threads -> Nat] /\ t # Null
  BY HazardPointersAssumption DEF Types
<1>e. /\ hpc[t] = "lock" /\ orphanedLock = Null /\ orphanedLock' = t /\ survivors[t] = <<>>
      /\ todo' = [todo EXCEPT ![t] = orphaned] /\ hpc' = [hpc EXCEPT ![t] = "orphaned"]
      /\ record' = [record EXCEPT ![t] = Len(records)] /\ slot' = [slot EXCEPT ![t] = 1]
      /\ UNCHANGED <<slots, records, pool, m_head, m_tail, next, fresh, pc, new, ptr, nxt,
                     retired, orphaned, survivors>>
  BY DEF ScanStep, LockOrphaned, Rewind, queueVars, localVars, Locals
<1>1. Orphaned' = orphaned \o <<>> /\ Orphaned = orphaned
  BY <1>e, <1>t DEF Orphaned
<1>2. orphaned \o <<>> = orphaned
  BY <1>t, ConcatEmptySeq
<1>3. Orphaned' = Orphaned
  BY <1>1, <1>2, Zenon
<1>4. \A u \in Threads : Retired(u)' = Retired(u)
  BY <1>e, <1>t DEF Retired
<1>6. \A a \in Threads : Scanning(a)' =>
        \/ record'[a] = Len(records') /\ slot'[a] = 1
        \/ /\ Scanning(a) /\ Head(todo'[a]) = Head(todo[a])
           /\ record'[a] = record[a] /\ slot'[a] = slot[a]
  BY <1>e, <1>t DEF Scanning
<1> QED
  BY <1>s, <1>e, <1>3, <1>4, <1>6, ReorderStep DEF NoneTwice

\* The survivors become the orphaned list.
LEMMA OrphanedDoneStep ==
  ASSUME Types, Locals, Types', m_head # Null, NEW kind, NEW owner, Assigned(kind, owner),
         Sound(kind, owner), NEW t \in Threads, ScanStep(t), OrphanedDone(t)
  PROVE  Sound(kind, owner)'
<1>s. NoneTwice
  BY DEF Sound
<1>t. /\ hpc \in [Threads -> {"off", "local", "lock", "orphaned"}]
      /\ survivors \in [Threads -> Seq(Nodes)]
  BY DEF Types
<1>e. /\ hpc[t] = "orphaned" /\ todo[t] = <<>>
      /\ orphaned' = survivors[t] /\ survivors' = [survivors EXCEPT ![t] = <<>>]
      /\ orphanedLock' = Null /\ hpc' = [hpc EXCEPT ![t] = "off"]
      /\ UNCHANGED <<slots, records, pool, m_head, m_tail, next, fresh, pc, new, ptr, nxt,
                     retired, todo, record, slot>>
  BY DEF ScanStep, OrphanedDone, queueVars, localVars
<1>1. survivors[t] \in Seq(Nodes) /\ Orphaned = <<>> \o survivors[t]
  BY <1>s, <1>e, ScanPlaces
<1>2. <<>> \o survivors[t] = survivors[t]
  BY <1>1, ConcatEmptySeq
<1>3. Orphaned' = survivors[t]
  BY <1>e DEF Orphaned
<1>4. Orphaned' = Orphaned
  BY <1>1, <1>2, <1>3, Zenon
<1>5. \A u \in Threads : Retired(u)' = Retired(u)
  BY <1>e, <1>t DEF Retired
<1>6. \A a \in Threads : Scanning(a)' => Scanning(a)
  BY <1>e, <1>t DEF Scanning
<1> QED
  BY <1>s, <1>e, <1>4, <1>5, <1>6, ReorderStep DEF NoneTwice

\* A slot that was passed did not announce the node.
LEMMA ScanAdvancesStep ==
  ASSUME Types, Locals, Types', m_head # Null, NEW kind, NEW owner, Assigned(kind, owner),
         Sound(kind, owner), NEW t \in Threads, ScanStep(t), ScanAdvances(t)
  PROVE  Sound(kind, owner)'
<1>s. Agrees(kind, owner) /\ NoneTwice /\ Shape(kind) /\ Pointers(kind) /\ ScansSee
  BY DEF Sound
<1>t. record \in [Threads -> Nat] /\ slot \in [Threads -> Nat] /\ slotsCount \in Nat
  BY HazardPointersAssumption DEF Types
<1>e. /\ ~Seen(t) /\ ~LastSlot(t)
      /\ IF slot[t] < slotsCount
           THEN slot' = [slot EXCEPT ![t] = slot[t] + 1] /\ record' = record
           ELSE slot' = [slot EXCEPT ![t] = 1] /\ record' = [record EXCEPT ![t] = record[t] - 1]
      /\ UNCHANGED <<slots, records, pool, m_head, m_tail, next, fresh, pc, new, ptr, nxt,
                     retired, orphaned, orphanedLock, hpc, todo, survivors>>
  BY DEF ScanStep, ScanAdvances, queueVars, localVars
<1>1. (\A u \in Threads : Retired(u)' = Retired(u)) /\ Orphaned' = Orphaned
  BY <1>e DEF Retired, Orphaned
<1>2. Agrees(kind, owner)' /\ NoneTwice' /\ Shape(kind)'
  <2>1. Agrees(kind, owner)'
    BY <1>s, <1>1, <1>e DEF Agrees, Unlinked, At
  <2>2. NoneTwice' /\ Shape(kind)'
    BY <1>s, <1>1, <1>e DEF NoneTwice, Shape, Unlinked, At
  <2> QED
    BY <2>1, <2>2
<1>3. Pointers(kind)'
  <2> SUFFICES ASSUME NEW u \in Threads PROVE PointersOf(u, kind)'
    BY DEF Pointers
  <2>1. \A n : (Held(u, n)' <=> Held(u, n)) /\ (Guards(u, n)' <=> Guards(u, n))
    BY <1>e DEF Held, Guards
  <2>2. PointersOf(u, kind)
    BY <1>s DEF Pointers
  <2> QED
    BY <1>e, <2>1, <2>2 DEF PointersOf
<1>4. ScansSee'
  <2> SUFFICES ASSUME NEW a \in Threads, NEW u \in Threads, NEW n, n = Head(todo'[a]),
                      Scanning(a)', Guards(u, n)'
               PROVE  Ahead(a, u, n)'
    BY DEF ScansSee, Guards, Ahead
  <2>1. Scanning(a) /\ n = Head(todo[a]) /\ Guards(u, n)
    BY <1>e DEF Scanning, Guards
  <2>2. Ahead(a, u, n)
    BY <1>s, <2>1 DEF ScansSee
  <2>3. PICK r \in 1..record[a], i \in 1..slotsCount :
          records[r] = u /\ slots[u][i] = n /\ (r = record[a] => slot[a] <= i)
    BY <2>2 DEF Ahead
  <2>4. r \in 1..record'[a] /\ (r = record'[a] => slot'[a] <= i)
    <3>1. CASE a # t
      BY <1>e, <1>t, <2>3, <3>1
    <3>2. CASE a = t
      <4>1. record[t] \in Nat /\ slot[t] \in Nat /\ r \in Nat /\ i \in Nat /\ 1 <= r /\ r <= record[t]
            /\ 1 <= i /\ i <= slotsCount
        BY <1>t, <3>2
      <4>2. r = record[t] => i # slot[t] /\ slot[t] <= i
        BY <1>e, <2>1, <2>3, <3>2, <4>1 DEF Seen
      <4>3. CASE slot[t] < slotsCount
        <5>1. slot'[t] = slot[t] + 1 /\ record'[t] = record[t]
          BY <1>e, <1>t, <4>3
        <5> QED
          BY <3>2, <4>1, <4>2, <5>1
      <4>4. CASE ~(slot[t] < slotsCount)
        <5>1. slot'[t] = 1 /\ record'[t] = record[t] - 1
          BY <1>e, <1>t, <4>4
        <5>2. r # record[t]
          BY <1>t, <4>1, <4>2, <4>4
        <5> QED
          BY <3>2, <4>1, <5>1, <5>2
      <4> QED
        BY <4>3, <4>4
    <3> QED
      BY <3>1, <3>2
  <2> QED
    BY <1>e, <2>3, <2>4 DEF Ahead
<1> QED
  BY <1>2, <1>3, <1>4 DEF Sound

\* At the last slot nobody relies on a node that was not found.
LEMMA ScanDeallocatesStep ==
  ASSUME Types, Locals, Types', m_head # Null, NEW kind, NEW owner, Assigned(kind, owner),
         Sound(kind, owner), NEW t \in Threads, ScanStep(t), ScanDeallocates(t)
  PROVE  \E k, o : Assigned(k, o) /\ Sound(k, o)' /\ ListSame(kind, k)
<1>s. Agrees(kind, owner) /\ NoneTwice /\ Shape(kind) /\ Pointers(kind) /\ ScansSee
  BY DEF Sound
<1>a. kind \in [Nodes -> Kinds] /\ owner \in [Nodes -> Threads \cup {Null}]
  BY DEF Assigned
<1>t. /\ todo \in [Threads -> Seq(Nodes)] /\ survivors \in [Threads -> Seq(Nodes)]
      /\ record \in [Threads -> Nat] /\ slot \in [Threads -> Nat] /\ slotsCount \in Nat
      /\ orphanedLock \in Threads \cup {Null} /\ pool \in Seq(Nodes)
  BY HazardPointersAssumption DEF Types
<1>g. Scanning(t)
  BY DEF ScanDeallocates
<1>n. Head(todo[t]) \in Nodes /\ kind[Head(todo[t])] \in {"retired", "orphaned"}
  BY <1>s, <1>g, ScannedKind
<1> PICK n \in Nodes : n = Head(todo[t])
  BY <1>n
<1>e. /\ hpc[t] \in {"local", "orphaned"} /\ todo[t] # <<>> /\ ~Seen(t) /\ LastSlot(t)
      /\ pool' = Append(pool, n) /\ todo' = [todo EXCEPT ![t] = Tail(todo[t])]
      /\ record' = [record EXCEPT ![t] = Len(records)] /\ slot' = [slot EXCEPT ![t] = 1]
      /\ UNCHANGED <<slots, records, m_head, m_tail, next, fresh, pc, new, ptr, nxt,
                     retired, orphaned, orphanedLock, hpc, survivors>>
  BY DEF ScanStep, ScanDeallocates, Deallocate, Scanning, Rewind, queueVars, localVars
<1>1. /\ todo[t] \in Seq(Nodes) /\ survivors[t] \in Seq(Nodes)
      /\ Distinct(todo[t] \o survivors[t])
      /\ hpc[t] = "local" => Retired(t) = todo[t] \o survivors[t] /\ orphanedLock # t
      /\ hpc[t] = "orphaned" => Orphaned = todo[t] \o survivors[t] /\ orphanedLock = t
  BY <1>s, <1>e, ScanPlaces
<1>2. /\ n \in Members(todo[t] \o survivors[t])
      /\ Members(Tail(todo[t]) \o survivors[t]) = Members(todo[t] \o survivors[t]) \ {n}
      /\ Distinct(Tail(todo[t]) \o survivors[t])
  BY <1>1, <1>e, ScannedNodes
<1>3. todo'[t] = Tail(todo[t]) /\ \A u \in Threads \ {t} : todo'[u] = todo[u]
  BY <1>e, <1>t
<1>4. \A u \in Threads : Members(Retired(u)') = Members(Retired(u)) \ {n} /\ Distinct(Retired(u)')
  <2> TAKE u \in Threads
  <2>1. CASE u = t /\ hpc[t] = "local"
    <3>1. Retired(u)' = Tail(todo[t]) \o survivors[t]
      BY <1>e, <1>3, <2>1 DEF Retired
    <3> QED
      BY <1>1, <1>2, <2>1, <3>1, Zenon
  <2>2. CASE ~(u = t /\ hpc[t] = "local")
    <3>1. Retired(u)' = Retired(u)
      BY <1>e, <1>3, <2>2 DEF Retired
    <3>2. n \notin Members(Retired(u))
      <4>1. CASE hpc[t] = "local"
        <5>1. n \in Members(Retired(t)) /\ u # t
          BY <1>1, <1>2, <2>2, <4>1, Zenon
        <5> QED
          BY <1>s, <5>1 DEF Agrees
      <4>2. CASE hpc[t] = "orphaned"
        BY <1>s, <1>1, <1>2, <4>2 DEF Agrees
      <4> QED
        BY <1>e, <4>1, <4>2
    <3> QED
      BY <1>s, <3>1, <3>2 DEF NoneTwice
  <2> QED
    BY <2>1, <2>2
<1>5. Members(Orphaned') = Members(Orphaned) \ {n} /\ Distinct(Orphaned')
  <2>1. CASE hpc[t] = "orphaned"
    <3>1. orphanedLock' = t /\ t # Null
      BY <1>e, <1>1, <2>1, HazardPointersAssumption
    <3>2. Orphaned' = Tail(todo[t]) \o survivors[t]
      BY <1>3, <1>e, <3>1 DEF Orphaned
    <3> QED
      BY <1>1, <1>2, <2>1, <3>2, Zenon
  <2>2. CASE hpc[t] = "local"
    <3>1. Orphaned' = Orphaned
      BY <1>e, <1>t, <1>1, <1>3, <2>2 DEF Orphaned
    <3>2. n \notin Members(Orphaned)
      BY <1>s, <1>1, <1>2, <2>2 DEF Agrees
    <3> QED
      BY <1>s, <3>1, <3>2 DEF NoneTwice
  <2> QED
    BY <1>e, <2>1, <2>2
<1>6. Members(pool') = Members(pool) \cup {n} /\ Distinct(pool')
  <2>1. n \notin Members(pool) /\ Distinct(pool)
    BY <1>s, <1>n DEF Agrees, NoneTwice
  <2> QED
    BY <1>e, <1>t, <2>1, AppendedNode
<1> DEFINE k == [kind EXCEPT ![n] = "pool"]
<1>7. \A m \in Nodes : k[m] = IF m = n THEN "pool" ELSE kind[m]
  BY <1>a
<1>8. Assigned(k, owner)
  BY <1>a DEF Assigned, Kinds
<1> HIDE DEF k
<1>9. Agrees(k, owner)'
  <2> SUFFICES ASSUME NEW m \in Nodes
               PROVE  /\ \A u \in Threads :
                           /\ m \in Members(Retired(u)') <=> k[m] = "retired" /\ owner[m] = u
                           /\ Unlinked(u) /\ new[u] = m <=> k[m] = "new" /\ owner[m] = u
                           /\ At(u, {"take", "retire"}) /\ ptr[u] = m <=> k[m] = "old" /\ owner[m] = u
                      /\ m \in Members(Orphaned') <=> k[m] = "orphaned"
                      /\ m \in Members(pool') <=> k[m] = "pool"
                      /\ m \in fresh <=> k[m] = "fresh"
    BY <1>e DEF Agrees, Unlinked, At
  <2>1. CASE m = n
    BY <1>s, <1>n, <1>4, <1>5, <1>6, <1>7, <2>1 DEF Agrees
  <2>2. CASE m # n
    BY <1>s, <1>4, <1>5, <1>6, <1>7, <2>2 DEF Agrees
  <2> QED
    BY <2>1, <2>2
<1>10. NoneTwice'
  BY <1>4, <1>5, <1>6 DEF NoneTwice
<1>11. Shape(k)'
  <2>1. \A u \in Threads : Unlinked(u)' => next'[new'[u]] = Null
    BY <1>s, <1>e DEF Shape, Unlinked, At
  <2>2. \A m \in Nodes : /\ k[m] = "list" <=> kind[m] = "list"
                         /\ k[m] \in Dead => kind[m] \in Dead
                         /\ kind[m] \in Kept => next'[m] = next[m]
    BY <1>n, <1>7, <1>e DEF Dead
  <2> QED
    BY <1>s, <1>e, <2>1, <2>2, ShapeSame
<1>12. \A u \in Threads : ~Guards(u, n)
  <2> SUFFICES ASSUME NEW u \in Threads, Guards(u, n) PROVE FALSE
    OBVIOUS
  <2>1. Ahead(t, u, n)
    BY <1>s, <1>g DEF ScansSee
  <2>2. PICK r \in 1..record[t], i \in 1..slotsCount :
          records[r] = u /\ slots[u][i] = n /\ (r = record[t] => slot[t] <= i)
    BY <2>1 DEF Ahead
  <2>3. r = record[t] /\ record[t] = 1 /\ slot[t] = slotsCount
    BY <1>e, <1>t DEF LastSlot
  <2>4. i = slot[t]
    BY <1>t, <2>2, <2>3
  <2> QED
    BY <1>e, <1>t, <2>2, <2>3, <2>4 DEF Seen
<1>13. Pointers(k)'
  <2> SUFFICES ASSUME NEW u \in Threads PROVE PointersOf(u, k)'
    BY DEF Pointers
  <2>1. \A m \in Nodes : Guards(u, m) => k[m] = kind[m] /\ next'[m] = next[m]
    BY <1>7, <1>12, <1>e
  <2>2. PointersOf(u, kind)
    BY <1>s DEF Pointers
  <2> QED
    BY <1>e, <2>1, <2>2, PointersSame
<1>14. ScansSee'
  <2>1. \A u \in Threads : KeepsAnnounced(u, kind)
    BY <1>e DEF KeepsAnnounced, Guards
  <2>2. \A a \in Threads : Scanning(a)' =>
          \/ record'[a] = Len(records') /\ slot'[a] = 1
          \/ /\ Scanning(a) /\ Head(todo'[a]) = Head(todo[a])
             /\ record'[a] = record[a] /\ slot'[a] = slot[a]
    BY <1>e, <1>t, <1>3 DEF Scanning
  <2> QED
    BY <1>s, <1>e, <1>13, <2>1, <2>2, ScansStep
<1>15. ListSame(kind, k)
  BY <1>n, <1>7, <1>e DEF ListSame, ScanStep, queueVars, historyVars
<1> QED
  BY <1>8, <1>9, <1>10, <1>11, <1>13, <1>14, <1>15 DEF Sound

-----------------------------------------------------------------------------
(* Memory safety *)

\* Until an exchange of m_tail was stale, and while the queue exists, the nodes
\* can be assigned to places.
Reclaimed == misled \/ m_head = Null \/ \E kind, owner : Assigned(kind, owner) /\ Sound(kind, owner)

\* At first the dummy is the list and all other nodes are fresh.
LEMMA InitReclaimed ==
  ASSUME Init
  PROVE  Reclaimed
<1>1. Types /\ Locals
  BY InitTypes
<1>2. Dummy \in Nodes /\ Null \notin Nodes /\ Null \notin Threads
  BY QueueAssumption, HazardPointersAssumption DEF Dummy
<1> PICK d \in Nodes : d = Dummy
  BY <1>2
<1> DEFINE k == [n \in Nodes |-> IF n = d THEN "list" ELSE "fresh"]
           o == [n \in Nodes |-> Null]
<1>3. Assigned(k, o)
  BY DEF Assigned, Kinds
<1>4. \A n \in Nodes : k[n] = (IF n = d THEN "list" ELSE "fresh") /\ o[n] = Null
  OBVIOUS
<1> HIDE DEF k, o
<1>5. /\ \A t \in Threads : Retired(t) = <<>> /\ pc[t] = "idle" /\ hpc[t] = "off"
      /\ Orphaned = <<>> /\ pool = <<>> /\ fresh = Nodes \ {d} /\ m_head = d /\ m_tail = d
      /\ next = [n \in Nodes |-> Null]
  BY <1>2 DEF Init, HazardInit, Retired, Orphaned
<1>6. Members(<<>>) = {} /\ Distinct(<<>>)
  BY EmptySeq DEF Members, Distinct
<1>7. \A t \in Threads : ~Unlinked(t) /\ ~At(t, {"take", "retire"})
  BY <1>5 DEF Unlinked, At
<1>8. Agrees(k, o)
  BY <1>4, <1>5, <1>6, <1>7 DEF Agrees
<1>9. NoneTwice
  BY <1>5, <1>6 DEF NoneTwice
<1>10. Shape(k)
  BY <1>4, <1>5, <1>7 DEF Shape, Dead
<1>11. Pointers(k)
  BY <1>5 DEF Pointers, PointersOf, Guards, TailUse, HeadUse, NextUse
<1>12. ScansSee
  BY <1>5 DEF ScansSee, Scanning
<1> QED
  BY <1>3, <1>8, <1>9, <1>10, <1>11, <1>12 DEF Reclaimed, Sound

\* A stale exchange is never undone, and a destroyed queue stays destroyed, but for an
\* exchange of m_head, which nobody can be about to do.
LEMMA MisledStays ==
  ASSUME Types, [Next]_vars
  PROVE  (misled => misled') /\ (m_head = Null => m_head' = Null \/ \E t \in Threads : CasHead(t))
<1> USE DEF hazardVars, scanVars, queueVars, localVars, historyVars
<1>0. CASE UNCHANGED vars
  BY <1>0 DEF vars
<1> SUFFICES ASSUME NEW t \in Threads,
                    \/ Begin(t) \/ Emplace(t) \/ TryPop(t)
                    \/ DeadlineOver(t) \/ EmptyClosed(t) \/ EmptyOpen(t) \/ ScanStep(t)
             PROVE  (misled => misled') /\ (m_head' = m_head \/ m_head' = Null \/ CasHead(t))
  BY <1>0 DEF Next
<1>1. CASE Begin(t)
  BY <1>1 DEF Begin, BeginEmplace, BeginPop, close, EndThread, Destroy
<1>2. CASE Emplace(t)
  <2>1. CASE SwingTail(t)
    <3>1. misled => misled'
      BY <2>1, Zenon DEF SwingTail, FinishPush
    <3>2. m_head' = m_head
      BY <2>1 DEF SwingTail, FinishPush
    <3> QED
      BY <3>1, <3>2
  <2>2. CASE ~SwingTail(t)
    BY <1>2, <2>2 DEF Emplace, LoadTail, ProtectTail, Protect, ValidateTail, TailMoved, Retry,
       ReadNext, HelpTail, CasTail, CasNext, CasNextFails
  <2> QED
    BY <2>1, <2>2
<1>3. CASE TryPop(t)
  BY <1>3 DEF TryPop, LoadHead, ProtectHead, Protect, ValidateHead, HeadMoved, Retry,
     ReadHeadNext, FoundEmpty, ProtectNext, ValidateNext, CompareTail, PopHelpTail, CasTail,
     CasHead, CasHeadFails, TakeValue, RetireHead
<1>4. CASE DeadlineOver(t) \/ EmptyClosed(t) \/ EmptyOpen(t) \/ ScanStep(t)
  BY <1>4 DEF DeadlineOver, EmptyClosed, ReturnNothing, EmptyOpen, ScanStep
<1> QED
  BY <1>1, <1>2, <1>3, <1>4

\* Quiet steps and scans leave the list alone.
LEMMA QuietList ==
  ASSUME NEW kind, NEW t \in Threads, Quiet(t) \/ ScanStep(t) \/ UNCHANGED vars
  PROVE  ListSame(kind, kind)
<1> USE DEF hazardVars, scanVars, queueVars, localVars, historyVars
<1>1. CASE UNCHANGED vars
  BY <1>1 DEF vars, ListSame
<1>2. CASE ScanStep(t)
  BY <1>2 DEF ScanStep, ListSame
<1>3. CASE Quiet(t)
  <2>1. UNCHANGED <<m_head, linked, taken, next, value>>
    BY <1>3 DEF Quiet, LoadTail, ProtectTail, Protect, ValidateTail, TailMoved, Retry, ReadNext,
       HelpTail, CasTail, CasNextFails, SwingTail, FinishPush, BeginPop, DeadlineOver,
       ReturnNothing, LoadHead, ProtectHead, ValidateHead, HeadMoved, ReadHeadNext, FoundEmpty,
       EmptyClosed, EmptyOpen, ProtectNext, ValidateNext, CompareTail, PopHelpTail,
       CasHeadFails, TakeValue, close
  <2> QED
    BY <2>1 DEF ListSame
<1> QED
  BY <1>1, <1>2, <1>3

\* Every step keeps an assignment sound, and does one of three things to the list.
LEMMA SoundStep ==
  ASSUME Types, Locals, Types', m_head # Null, m_head' # Null, ~misled', NEW kind, NEW owner,
         Assigned(kind, owner), Sound(kind, owner), [Next]_vars
  PROVE  \E k, o : Assigned(k, o) /\ Sound(k, o)' /\ ListStep(kind, k)
<1>1. CASE UNCHANGED vars
  <2>1. Sound(kind, owner)'
    BY <1>1 DEF vars, hazardVars, scanVars, queueVars, localVars, Sound, Agrees, NoneTwice,
       Shape, Pointers, PointersOf, ScansSee, Ahead, Guards, Held, Scanning, Retired, Orphaned,
       Unlinked, At
  <2>2. ListSame(kind, kind)
    BY <1>1 DEF vars, queueVars, historyVars, ListSame
  <2> QED
    BY <2>1, <2>2 DEF ListStep
<1> SUFFICES ASSUME NEW t \in Threads,
                    \/ Begin(t) \/ Emplace(t) \/ TryPop(t)
                    \/ DeadlineOver(t) \/ EmptyClosed(t) \/ EmptyOpen(t) \/ ScanStep(t)
             PROVE  \E k, o : Assigned(k, o) /\ Sound(k, o)' /\ ListStep(kind, k)
  BY <1>1 DEF Next
<1>2. CASE Quiet(t)
  BY <1>2, QuietActions, QuietList DEF ListStep
<1>3. CASE CasNext(t)
  BY <1>3, CasNextStep DEF ListStep
<1>4. CASE CasHead(t)
  BY <1>4, CasHeadStep DEF ListStep
<1>5. CASE RetireHead(t)
  BY <1>5, RetireHeadStep DEF ListStep
<1>6. CASE BeginEmplace(t)
  BY <1>6, BeginEmplaceStep DEF ListStep
<1>7. CASE EndThread(t)
  BY <1>7, EndThreadStep DEF ListStep
<1>8. CASE ScanStep(t)
  <2>1. ListSame(kind, kind)
    BY <1>8, QuietList
  <2>2. CASE ScanFinds(t)
    BY <1>8, <2>1, <2>2, ScanFindsStep DEF ListStep
  <2>3. CASE ScanAdvances(t)
    BY <1>8, <2>1, <2>3, ScanAdvancesStep DEF ListStep
  <2>4. CASE ScanDeallocates(t)
    BY <1>8, <2>4, ScanDeallocatesStep DEF ListStep
  <2>5. CASE LocalDone(t)
    BY <1>8, <2>1, <2>5, LocalDoneStep DEF ListStep
  <2>6. CASE LockOrphaned(t)
    BY <1>8, <2>1, <2>6, LockOrphanedStep DEF ListStep
  <2>7. CASE OrphanedDone(t)
    BY <1>8, <2>1, <2>7, OrphanedDoneStep DEF ListStep
  <2> QED
    BY <1>8, <2>2, <2>3, <2>4, <2>5, <2>6, <2>7 DEF ScanStep, Scan
<1>9. ~Destroy(t)
  BY DEF Destroy
<1> QED
  BY <1>2, <1>3, <1>4, <1>5, <1>6, <1>7, <1>8, <1>9 DEF Begin, Emplace, TryPop, Quiet

\* Every step keeps that there is a sound assignment.
LEMMA ReclaimedStep ==
  ASSUME Types, Locals, Types', Reclaimed, [Next]_vars
  PROVE  Reclaimed'
<1>1. CASE misled
  BY <1>1, MisledStays DEF Reclaimed
<1>2. CASE m_head = Null
  <2>1. \A t \in Threads : ~CasHead(t)
    BY <1>2 DEF CasHead, Step, Locals
  <2> QED
    BY <1>2, <2>1, MisledStays DEF Reclaimed
<1>3. CASE ~misled' /\ m_head # Null /\ m_head' # Null
           /\ \E kind, owner : Assigned(kind, owner) /\ Sound(kind, owner)
  <2>1. PICK kind, owner : Assigned(kind, owner) /\ Sound(kind, owner)
    BY <1>3
  <2>2. \E k, o : Assigned(k, o) /\ Sound(k, o)' /\ ListStep(kind, k)
    BY <1>3, <2>1, SoundStep
  <2> QED
    BY <2>2 DEF Reclaimed, Assigned
<1> QED
  BY <1>1, <1>2, <1>3 DEF Reclaimed

\* What a thread relies on is in the list or not reclaimed yet.
LEMMA GuardedIsKept ==
  ASSUME Types, Locals, Reclaimed
  PROVE  NoUseAfterReclaim
<1> SUFFICES ASSUME ~misled, NEW t \in Threads, NEW n \in Nodes, n \in Dereferenced(t)
             PROVE  /\ n \notin Members(pool) \cup fresh
                    /\ \A u \in Threads : Unlinked(u) => new[u] # n
  BY DEF NoUseAfterReclaim
<1>1. Guards(t, n)
  BY DEF Dereferenced, At, Guards, TailUse, HeadUse, NextUse
<1>2. m_head # Null
  BY <1>1 DEF Guards, TailUse, HeadUse, NextUse, Locals
<1>3. PICK kind, owner : Assigned(kind, owner) /\ Sound(kind, owner)
  BY <1>2 DEF Reclaimed
<1>4. kind[n] \in Kept
  BY <1>1, <1>3 DEF Sound, Pointers, PointersOf
<1> QED
  BY <1>3, <1>4 DEF Sound, Agrees, Kept, Dead

\* Nothing is dereferenced after it was given to the pool or to another push:
\* protect() and the second load of the pointer keep every scan() off the nodes
\* that readNext, casNext, readHeadNext and take go through, for any number of
\* threads, nodes, slots and any threshold, as long as no stale exchange of m_tail
\* has succeeded.
THEOREM ReclamationIsSafe == Spec => []NoUseAfterReclaim
<1>1. Init => Types /\ Locals /\ Reclaimed
  BY InitTypes, InitReclaimed
<1>2. Types /\ Locals /\ Reclaimed /\ [Next]_vars => (Types /\ Locals /\ Reclaimed)'
  BY TypesStep, LocalsStep, ReclaimedStep
<1>3. Types /\ Locals /\ Reclaimed => NoUseAfterReclaim
  BY GuardedIsKept
<1> QED
  BY <1>1, <1>2, <1>3, PTL DEF Spec

-----------------------------------------------------------------------------
(* The list as a sequence of nodes *)

\* c is the list: it starts at m_head and follows next to the end.
Chain(c) ==
  /\ c \in Seq(Nodes) /\ c # <<>> /\ Distinct(c) /\ c[1] = m_head
  /\ \A i \in 1..Len(c) - 1 : next[c[i]] = c[i + 1]
  /\ next[c[Len(c)]] = Null

\* The values behind its first node are those linked and not taken, in order.
Contents(c) ==
  /\ Len(linked) = Len(taken) + Len(c) - 1
  /\ \A i \in 1..Len(taken) : linked[i] = taken[i]
  /\ \A i \in 1..Len(c) - 1 : linked[Len(taken) + i] = value[c[i + 1]]

\* c holds the nodes of the list.
Chained(kind, c) ==
  Chain(c) /\ Contents(c) /\ \A n \in Nodes : kind[n] = "list" <=> n \in Members(c)

\* A set of numbers that is not empty has a smallest element.
LEMMA LeastNumber ==
  ASSUME NEW T \in SUBSET Nat, T # {}
  PROVE  \E x \in T : \A y \in T : x <= y
<1>1. \E x \in T : \A y \in T : ~(<<y, x>> \in OpToRel(<, Nat))
  BY NatLessThanWellFounded, WFMin, Zenon
<1>2. \A x, y \in Nat : <<y, x>> \in OpToRel(<, Nat) <=> y < x
  BY DEF OpToRel
<1>3. \E x \in T : \A y \in T : ~(y < x)
  BY <1>1, <1>2, Zenon
<1> QED
  BY <1>3

\* There are n numbers from 1 to n.
LEMMA IntervalSize ==
  ASSUME NEW n \in Nat
  PROVE  Cardinality(1..n) = n
<1>1. 1 \in Int /\ n \in Int
  OBVIOUS
<1>2. Cardinality(1..n) = IF 1 > n THEN 0 ELSE n - 1 + 1
  BY <1>1, FS_Interval, Zenon
<1> QED
  BY <1>2

\* A list without repetition is no longer than there are nodes.
LEMMA ChainFits ==
  ASSUME NEW c, Chain(c)
  PROVE  Len(c) \in 1..Cardinality(Nodes) /\ Cardinality(Nodes) \in Nat
<1>1. c \in [1..Len(c) -> Nodes] /\ Len(c) \in Nat
  BY LenProperties DEF Chain
<1>2. Len(c) # 0
  BY EmptySeq DEF Chain
<1>3. c \in Injection(1..Len(c), Nodes)
  BY <1>1 DEF Chain, Distinct, Injection, IsInjective
<1>4. IsFiniteSet(Nodes) /\ Cardinality(Nodes) \in Nat
  BY QueueAssumption, FS_CardinalityType
<1>5. Cardinality(1..Len(c)) = Len(c)
  BY <1>1, IntervalSize
<1>6. Cardinality(1..Len(c)) <= Cardinality(Nodes)
  BY <1>3, <1>4, FS_Injection
<1> QED
  BY <1>1, <1>2, <1>4, <1>5, <1>6

\* The nodes ChainFrom collects by following next are those of the chain: by the
\* smallest index at which they would differ.
LEMMA ChainFromIs ==
  ASSUME NEW c, Chain(c), Null \notin Nodes
  PROVE  ChainFrom(m_head) = c
<1> DEFINE N == Cardinality(Nodes)
           Follows(f) == [i \in 1..N |-> IF i = 1 THEN m_head ELSE IF f[i-1] = Null THEN Null ELSE next[f[i-1]]]
           at == CHOOSE f : f = Follows(f)
           padded == [i \in 1..N |-> IF i <= Len(c) THEN c[i] ELSE Null]
<1>1. Len(c) \in 1..N /\ N \in Nat /\ \A i \in 1..Len(c) : c[i] \in Nodes
  BY ChainFits, LenProperties DEF Chain
<1>2. ChainFrom(m_head) = [i \in 1..Cardinality({j \in DOMAIN at : at[j] # Null}) |-> at[i]]
  BY DEF ChainFrom
<1>3. padded = Follows(padded)
  <2>1. ASSUME NEW i \in 1..N
        PROVE  padded[i] = IF i = 1 THEN m_head
                           ELSE IF padded[i-1] = Null THEN Null ELSE next[padded[i-1]]
    <3>1. CASE i = 1
      BY <1>1, <3>1 DEF Chain
    <3>2. CASE i # 1 /\ i <= Len(c)
      <4>1. i - 1 \in 1..Len(c) - 1 /\ i - 1 \in 1..N /\ i - 1 <= Len(c)
        BY <1>1, <3>2
      <4>2. next[c[i - 1]] = c[i]
        BY <1>1, <3>2, <4>1 DEF Chain
      <4> QED
        BY <1>1, <3>2, <4>1, <4>2
    <3>3. CASE i = Len(c) + 1
      <4>1. i - 1 = Len(c) /\ i - 1 \in 1..N
        BY <1>1, <3>3
      <4> QED
        BY <1>1, <3>3, <4>1 DEF Chain
    <3>4. CASE i > Len(c) + 1
      <4>1. i - 1 \in 1..N /\ ~(i - 1 <= Len(c))
        BY <1>1, <3>4
      <4> QED
        BY <1>1, <3>4, <4>1
    <3> QED
      BY <1>1, <3>1, <3>2, <3>3, <3>4
  <2> QED
    BY <2>1
<1>4. at = Follows(at)
  BY <1>3
<1>5. DOMAIN at = 1..N /\ \A i \in 1..N : at[i] = IF i = 1 THEN m_head ELSE IF at[i-1] = Null THEN Null ELSE next[at[i-1]]
  BY <1>4
<1>6. \A i \in 1..N : padded[i] = IF i = 1 THEN m_head ELSE IF padded[i-1] = Null THEN Null ELSE next[padded[i-1]]
  BY <1>3
<1>7. \A i \in 1..N : padded[i] = IF i <= Len(c) THEN c[i] ELSE Null
  OBVIOUS
<1> HIDE DEF at, padded
<1>8. \A i \in 1..N : at[i] = padded[i]
  <2> DEFINE Wrong == {i \in 1..N : at[i] # padded[i]}
  <2> SUFFICES ASSUME Wrong # {} PROVE FALSE
    OBVIOUS
  <2>0. Wrong \in SUBSET Nat
    BY <1>1
  <2>1. PICK i \in Wrong : \A j \in Wrong : i <= j
    BY <2>0, LeastNumber
  <2>2. i \in 1..N /\ (i # 1 => i - 1 \in 1..N /\ at[i - 1] = padded[i - 1])
    BY <1>1, <2>1
  <2> QED
    BY <1>5, <1>6, <2>1, <2>2
<1>9. {j \in DOMAIN at : at[j] # Null} = 1..Len(c)
  <2>1. \A i \in 1..N : at[i] # Null <=> i <= Len(c)
    BY <1>1, <1>7, <1>8
  <2>2. 1..Len(c) \subseteq 1..N
    BY <1>1
  <2> QED
    BY <1>1, <1>5, <2>1, <2>2
<1>10. Cardinality(1..Len(c)) = Len(c)
  BY <1>1, IntervalSize
<1>11. ChainFrom(m_head) = [i \in 1..Len(c) |-> at[i]]
  BY <1>2, <1>9, <1>10, Zenon
<1>12. \A i \in 1..Len(c) : at[i] = c[i]
  BY <1>1, <1>8, <1>7
<1> QED
  BY <1>11, <1>12, LenProperties DEF Chain
\* What is known of a chain: it has nodes, the first of which is m_head.
LEMMA ChainFacts ==
  ASSUME NEW c, Chain(c)
  PROVE  /\ c \in Seq(Nodes) /\ Len(c) \in Nat /\ Len(c) >= 1
         /\ \A i \in 1..Len(c) : c[i] \in Nodes /\ c[i] \in Members(c)
         /\ m_head \in Nodes /\ m_head = Head(c)
<1>1. c \in Seq(Nodes) /\ c # <<>> /\ c[1] = m_head
  BY DEF Chain
<1>2. Len(c) \in Nat /\ \A i \in 1..Len(c) : c[i] \in Nodes
  BY <1>1, LenProperties
<1>3. Len(c) # 0
  BY <1>1, EmptySeq
<1>4. Head(c) = c[1]
  BY <1>1, HeadTailProperties
<1> QED
  BY <1>1, <1>2, <1>3, <1>4 DEF Members

\* A step that leaves the list alone leaves the chain.
LEMMA ChainSame ==
  ASSUME NEW kind, NEW k, NEW c, Chained(kind, c), ListSame(kind, k)
  PROVE  Chained(k, c)'
<1>1. /\ Len(c) \in Nat /\ Len(c) >= 1 /\ \A i \in 1..Len(c) : c[i] \in Nodes /\ kind[c[i]] = "list"
  BY ChainFacts DEF Chained
<1>2. \A i \in 1..Len(c) : next'[c[i]] = next[c[i]] /\ value'[c[i]] = value[c[i]]
  BY <1>1 DEF ListSame
<1>3. Chain(c)'
  BY <1>1, <1>2 DEF Chained, Chain, ListSame
<1>4. Contents(c)'
  BY <1>1, <1>2 DEF Chained, Contents, ListSame
<1>5. \A n \in Nodes : k[n] = "list" <=> n \in Members(c)
  BY DEF Chained, ListSame
<1> QED
  BY <1>3, <1>4, <1>5 DEF Chained

\* The node whose next is Null is the last one, so a push extends the chain.
LEMMA ChainPushed ==
  ASSUME Types, NEW kind, NEW k, NEW c, Chained(kind, c), Pushed(kind, k)
  PROVE  \E d : Chained(k, d)'
<1>1. PICK n \in Nodes, q \in Nodes :
        /\ kind[n] = "new" /\ next[n] = Null /\ kind[q] = "list" /\ next[q] = Null
        /\ \A m \in Nodes : k[m] = "list" <=> kind[m] = "list" \/ m = n
        /\ next' = [next EXCEPT ![q] = n]
        /\ linked' = Append(linked, value[n])
        /\ UNCHANGED <<m_head, value, taken>>
  BY DEF Pushed
<1>2. /\ c \in Seq(Nodes) /\ Len(c) \in Nat /\ Len(c) >= 1 /\ Distinct(c) /\ Null \notin Nodes
      /\ \A i \in 1..Len(c) : c[i] \in Nodes /\ c[i] \in Members(c)
      /\ \A m \in Nodes : kind[m] = "list" <=> m \in Members(c)
  BY ChainFacts, HazardPointersAssumption DEF Chained, Chain
<1>3. q = c[Len(c)] /\ n \notin Members(c) /\ n # q
  <2>1. PICK i \in 1..Len(c) : q = c[i]
    BY <1>1, <1>2 DEF Members
  <2>2. CASE i # Len(c)
    <3>1. i \in 1..Len(c) - 1 /\ i + 1 \in 1..Len(c)
      BY <1>2, <2>2
    <3>2. next[q] = c[i + 1] /\ c[i + 1] \in Nodes
      BY <1>2, <2>1, <3>1 DEF Chained, Chain
    <3> QED
      BY <1>1, <1>2, <3>2
  <2> QED
    BY <1>1, <1>2, <2>1, <2>2
<1> DEFINE d == Append(c, n)
<1>4. /\ d \in Seq(Nodes) /\ Len(d) = Len(c) + 1 /\ d # <<>>
      /\ \A i \in 1..Len(c) : d[i] = c[i]
      /\ d[Len(c) + 1] = n
  BY <1>2, AppendProperties
<1>5. Members(d) = Members(c) \cup {n} /\ Distinct(d)
  BY <1>2, <1>3, AppendedNode
<1> HIDE DEF d
<1>6. next \in [Nodes -> Nodes \cup {Null}] /\ Len(linked) \in Nat /\ Len(taken) \in Nat
      /\ linked \in Seq(Values \cup {Null}) /\ value \in [Nodes -> Values \cup {Null}]
  BY LenProperties DEF Types
<1>7. Chain(d)'
  <2>1. d[1] = m_head'
    BY <1>1, <1>2, <1>4 DEF Chained, Chain
  <2>2. ASSUME NEW i \in 1..Len(c) - 1 PROVE next'[d[i]] = d[i + 1]
    <3>1. i \in 1..Len(c) /\ i + 1 \in 1..Len(c) /\ Len(c) \in 1..Len(c) /\ i # Len(c)
      BY <1>2
    <3>2. c[i] # q
      BY <1>2, <1>3, <3>1 DEF Distinct
    <3>3. next[c[i]] = c[i + 1]
      BY DEF Chained, Chain
    <3> QED
      BY <1>1, <1>2, <1>4, <1>6, <3>1, <3>2, <3>3
  <2>3. next'[d[Len(c)]] = d[Len(c) + 1]
    BY <1>1, <1>2, <1>3, <1>4, <1>6
  <2>4. next'[d[Len(d)]] = Null
    BY <1>1, <1>2, <1>3, <1>4, <1>6
  <2>5. \A i \in 1..Len(d) - 1 : i \in 1..Len(c) - 1 \/ i = Len(c)
    BY <1>2, <1>4
  <2>6. \A i \in 1..Len(d) - 1 : next'[d[i]] = d[i + 1]
    BY <2>2, <2>3, <2>5
  <2> QED
    BY <1>4, <1>5, <2>1, <2>4, <2>6 DEF Chain
<1>8. Contents(d)'
  <2>1. /\ Len(linked') = Len(linked) + 1 /\ \A i \in 1..Len(linked) : linked'[i] = linked[i]
        /\ linked'[Len(linked) + 1] = value[n]
    BY <1>1, <1>6, AppendProperties
  <2>2. Len(linked) = Len(taken) + Len(c) - 1
    BY DEF Chained, Contents
  <2>3. \A i \in 1..Len(taken) : linked'[i] = taken[i]
    <3>1. \A i \in 1..Len(taken) : i \in 1..Len(linked)
      BY <1>2, <1>6, <2>2
    <3> QED
      BY <2>1, <3>1 DEF Chained, Contents
  <2>4. ASSUME NEW i \in 1..Len(d) - 1 PROVE linked'[Len(taken) + i] = value[d[i + 1]]
    <3>1. CASE i = Len(c)
      BY <1>2, <1>4, <1>6, <2>1, <2>2, <3>1
    <3>2. CASE i # Len(c)
      <4>1. i \in 1..Len(c) - 1 /\ i + 1 \in 1..Len(c) /\ Len(taken) + i \in 1..Len(linked)
        BY <1>2, <1>4, <1>6, <2>2, <3>2
      <4>2. linked[Len(taken) + i] = value[c[i + 1]]
        BY <4>1 DEF Chained, Contents
      <4> QED
        BY <1>4, <2>1, <4>1, <4>2
    <3> QED
      BY <3>1, <3>2
  <2> QED
    BY <1>1, <1>2, <1>4, <1>6, <2>1, <2>2, <2>3, <2>4 DEF Contents
<1>9. \A m \in Nodes : k[m] = "list" <=> m \in Members(d)
  BY <1>1, <1>2, <1>5
<1> QED
  BY <1>7, <1>8, <1>9 DEF Chained

\* A pop drops the first node of the chain and takes the value of the second.
LEMMA ChainPopped ==
  ASSUME Types, NEW kind, NEW k, NEW c, Chained(kind, c), Popped(kind, k)
  PROVE  \E d : Chained(k, d)'
<1>1. /\ next[m_head] # Null /\ m_head' = next[m_head]
      /\ \A m \in Nodes : k[m] = "list" <=> kind[m] = "list" /\ m # m_head
      /\ taken' = Append(taken, value[next[m_head]])
      /\ UNCHANGED <<next, value, linked>>
  BY DEF Popped
<1>2. /\ c \in Seq(Nodes) /\ c # <<>> /\ Len(c) \in Nat /\ Len(c) >= 1 /\ Distinct(c)
      /\ m_head = c[1] /\ m_head = Head(c)
      /\ \A m \in Nodes : kind[m] = "list" <=> m \in Members(c)
  BY ChainFacts DEF Chained, Chain
<1>3. Len(c) > 1
  <2>1. Len(c) # 1
    BY <1>1, <1>2 DEF Chained, Chain
  <2>2. Len(c) \in Nat /\ Len(c) >= 1
    BY <1>2
  <2> QED
    BY <2>1, <2>2
<1>4. m_head' = c[2]
  <2>1. 1 \in 1..Len(c) - 1
    BY <1>2, <1>3
  <2> QED
    BY <1>1, <1>2, <2>1 DEF Chained, Chain
<1> DEFINE d == Tail(c)
<1>5. /\ d \in Seq(Nodes) /\ Len(d) = Len(c) - 1
      /\ \A i \in 1..Len(d) : d[i] = c[i + 1]
  BY <1>2, HeadTailProperties
<1>6. Members(d) = Members(c) \ {m_head} /\ Distinct(d)
  BY <1>2, BeheadedNodes
<1>7. d # <<>>
  BY <1>2, <1>3, <1>5
<1> HIDE DEF d
<1>8. /\ Len(linked) \in Nat /\ Len(taken) \in Nat /\ taken \in Seq(Values \cup {Null})
      /\ value \in [Nodes -> Values \cup {Null}] /\ c[2] \in Nodes
  BY <1>2, <1>3, LenProperties DEF Types
<1>9. Chain(d)'
  <2>1. d[1] = m_head'
    BY <1>2, <1>3, <1>4, <1>5
  <2>2. ASSUME NEW i \in 1..Len(d) - 1 PROVE next'[d[i]] = d[i + 1]
    <3>1. i \in 1..Len(d) /\ i + 1 \in 1..Len(d) /\ i + 1 \in 1..Len(c) - 1 
      BY <1>2, <1>5
    <3>2. next[c[i + 1]] = c[i + 1 + 1]
      BY <3>1 DEF Chained, Chain
    <3> QED
      BY <1>1, <1>5, <3>1, <3>2
  <2>3. next'[d[Len(d)]] = Null
    <3>1. d[Len(d)] = c[Len(c)]
      BY <1>2, <1>3, <1>5
    <3> QED
      BY <1>1, <3>1 DEF Chained, Chain
  <2> QED
    BY <1>5, <1>6, <1>7, <2>1, <2>2, <2>3 DEF Chain
<1>10. Contents(d)'
  <2>1. /\ Len(taken') = Len(taken) + 1 /\ \A i \in 1..Len(taken) : taken'[i] = taken[i]
        /\ taken'[Len(taken) + 1] = value[c[2]]
    BY <1>1, <1>4, <1>8, AppendProperties
  <2>2. Len(linked) = Len(taken) + Len(c) - 1
    BY DEF Chained, Contents
  <2>3. linked[Len(taken) + 1] = value[c[2]]
    <3>1. 1 \in 1..Len(c) - 1
      BY <1>2, <1>3
    <3> QED
      BY <3>1 DEF Chained, Contents
  <2>4. \A i \in 1..Len(taken') : linked[i] = taken'[i]
    <3>1. \A i \in 1..Len(taken') : i \in 1..Len(taken) \/ i = Len(taken) + 1
      BY <1>8, <2>1
    <3> QED
      BY <2>1, <2>3, <3>1 DEF Chained, Contents
  <2>5. ASSUME NEW i \in 1..Len(d) - 1 PROVE linked[Len(taken') + i] = value[d[i + 1]]
    <3>1. i + 1 \in 1..Len(c) - 1 /\ i + 1 \in 1..Len(d)
      BY <1>2, <1>5
    <3>2. linked[Len(taken) + (i + 1)] = value[c[i + 1 + 1]]
      BY <3>1 DEF Chained, Contents
    <3>3. Len(taken') + i = Len(taken) + (i + 1)
      BY <1>8, <2>1
    <3> QED
      BY <1>5, <3>1, <3>2, <3>3
  <2> QED
    BY <1>1, <1>2, <1>5, <1>8, <2>1, <2>2, <2>4, <2>5 DEF Contents
<1>11. \A m \in Nodes : k[m] = "list" <=> m \in Members(d)
  BY <1>1, <1>2, <1>6
<1> QED
  BY <1>9, <1>10, <1>11 DEF Chained

\* After every step there is a chain.
LEMMA ChainStep ==
  ASSUME Types, NEW kind, NEW k, NEW c, Chained(kind, c), ListStep(kind, k)
  PROVE  \E d : Chained(k, d)'
<1> QED
  BY ChainSame, ChainPushed, ChainPopped DEF ListStep

-----------------------------------------------------------------------------
(* Every node is in one place *)

\* Until an exchange of m_tail was stale, and while the queue exists, the nodes
\* can be assigned to places so that those of the list are a chain from m_head.
Listed ==
  \/ misled \/ m_head = Null
  \/ \E kind, owner, c : Assigned(kind, owner) /\ Sound(kind, owner) /\ Chained(kind, c)

\* At first the chain is the dummy.
LEMMA InitListed ==
  ASSUME Init
  PROVE  Listed
<1>1. Dummy \in Nodes /\ Null \notin Nodes
  BY QueueAssumption, HazardPointersAssumption DEF Dummy
<1> PICK d \in Nodes : d = Dummy
  BY <1>1
<1>2. /\ m_head = d /\ next = [n \in Nodes |-> Null] /\ fresh = Nodes \ {d} /\ ~misled
      /\ linked = <<>> /\ taken = <<>>
  BY DEF Init
<1>3. PICK kind, owner : Assigned(kind, owner) /\ Sound(kind, owner)
  BY <1>1, <1>2, InitReclaimed DEF Reclaimed
<1>4. \A n \in Nodes : kind[n] = "list" <=> n = d
  BY <1>2, <1>3 DEF Sound, Agrees, Shape
<1>5. <<d>> \in Seq(Nodes) /\ Len(<<d>>) = 1 /\ <<d>>[1] = d /\ <<d>> # <<>>
  OBVIOUS
<1>6. Members(<<d>>) = {d} /\ Distinct(<<d>>)
  BY <1>5 DEF Members, Distinct
<1>7. Chain(<<d>>)
  BY <1>2, <1>5, <1>6 DEF Chain
<1>8. Contents(<<d>>)
  BY <1>2, <1>5 DEF Contents
<1> QED
  BY <1>3, <1>4, <1>6, <1>7, <1>8 DEF Listed, Chained

\* Every step keeps that the list is a chain.
LEMMA ListedStep ==
  ASSUME Types, Locals, Types', Listed, [Next]_vars
  PROVE  Listed'
<1>1. CASE misled
  BY <1>1, MisledStays DEF Listed
<1>2. CASE m_head = Null
  <2>1. \A t \in Threads : ~CasHead(t)
    BY <1>2 DEF CasHead, Step, Locals
  <2> QED
    BY <1>2, <2>1, MisledStays DEF Listed
<1>3. CASE ~misled' /\ m_head # Null /\ m_head' # Null /\ ~misled
  <2>1. PICK kind, owner, c : Assigned(kind, owner) /\ Sound(kind, owner) /\ Chained(kind, c)
    BY <1>3 DEF Listed
  <2>2. PICK k, o : Assigned(k, o) /\ Sound(k, o)' /\ ListStep(kind, k)
    BY <1>3, <2>1, SoundStep
  <2>3. \E d : Chained(k, d)'
    BY <2>1, <2>2, ChainStep
  <2> QED
    BY <2>2, <2>3 DEF Listed, Assigned
<1> QED
  BY <1>1, <1>2, <1>3 DEF Listed

\* A node occurs in a list without repetition once or never.
LEMMA OccursOnce ==
  ASSUME NEW S, NEW s \in Seq(S), NEW n, NEW place, Distinct(s)
  PROVE  /\ n \notin Members(s) => Occurrences(n, place, s) = {}
         /\ n \in Members(s) => \E x : Occurrences(n, place, s) = {x}
<1>1. n \notin Members(s) => Occurrences(n, place, s) = {}
  BY DEF Members, Occurrences
<1>2. ASSUME n \in Members(s) PROVE \E x : Occurrences(n, place, s) = {x}
  <2>1. PICK i \in 1..Len(s) : s[i] = n
    BY <1>2 DEF Members
  <2>2. {j \in 1..Len(s) : s[j] = n} = {i}
    BY <2>1 DEF Distinct
  <2>3. Occurrences(n, place, s) = {<<place, i>>}
    BY <2>2 DEF Occurrences
  <2> QED
    BY <2>3
<1> QED
  BY <1>1, <1>2

\* A node with a kind is in the place of that kind, once, and in no other.
LEMMA InOnePlace ==
  ASSUME Types, NEW kind, NEW owner, NEW c, Assigned(kind, owner), Sound(kind, owner),
         Chained(kind, c), NEW n \in Nodes
  PROVE  Cardinality(Places(n)) = 1
<1> DEFINE R == UNION {Occurrences(n, t, Retired(t)) : t \in Threads}
           O == Occurrences(n, "orphaned", Orphaned)
           P == Occurrences(n, "pool", pool)
           L == Occurrences(n, "list", c)
           A == {<<"new", t>> : t \in {u \in Threads : Unlinked(u) /\ new[u] = n}}
           B == {<<"old", t>> : t \in {u \in Threads : At(u, {"take", "retire"}) /\ ptr[u] = n}}
           F == {<<"fresh", f>> : f \in fresh \cap {n}}
<1>1. ChainFrom(m_head) = c
  BY ChainFromIs, HazardPointersAssumption DEF Chained
<1>2. Places(n) = R \cup O \cup P \cup L \cup A \cup B \cup F
  <2>1. Places(n) = R \cup O \cup P \cup Occurrences(n, "list", ChainFrom(m_head)) \cup A \cup B \cup F
    BY DEF Places
  <2> QED
    BY <1>1, <2>1
<1>t. /\ \A t \in Threads : Retired(t) \in Seq(Nodes)
      /\ Orphaned \in Seq(Nodes) /\ pool \in Seq(Nodes) /\ c \in Seq(Nodes) /\ Null \notin Threads
  <2>1. \A t \in Threads : todo[t] \in Seq(Nodes) /\ survivors[t] \in Seq(Nodes) /\ retired[t] \in Seq(Nodes)
    BY DEF Types
  <2>2. \A t \in Threads : todo[t] \o survivors[t] \in Seq(Nodes)
    BY <2>1, JoinedNodes
  <2> QED
    BY <2>1, <2>2, HazardPointersAssumption DEF Types, Retired, Orphaned, Chained, Chain
<1>s. /\ \A t \in Threads : Distinct(Retired(t))
      /\ Distinct(Orphaned) /\ Distinct(pool) /\ Distinct(c)
  BY DEF Sound, NoneTwice, Chained, Chain
<1>g. /\ \A t \in Threads :
           /\ n \in Members(Retired(t)) <=> kind[n] = "retired" /\ owner[n] = t
           /\ Unlinked(t) /\ new[t] = n <=> kind[n] = "new" /\ owner[n] = t
           /\ At(t, {"take", "retire"}) /\ ptr[t] = n <=> kind[n] = "old" /\ owner[n] = t
      /\ n \in Members(Orphaned) <=> kind[n] = "orphaned"
      /\ n \in Members(pool) <=> kind[n] = "pool"
      /\ n \in fresh <=> kind[n] = "fresh"
      /\ n \in Members(c) <=> kind[n] = "list"
  BY DEF Sound, Agrees, Chained
<1>r. IF kind[n] = "retired" THEN \E x : R = {x} ELSE R = {}
  <2>1. \A t \in Threads : owner[n] # t \/ kind[n] # "retired" => Occurrences(n, t, Retired(t)) = {}
    BY <1>t, <1>s, <1>g, OccursOnce
  <2>2. CASE kind[n] # "retired"
    BY <2>1, <2>2
  <2>3. CASE kind[n] = "retired"
    <3>1. PICK t \in Threads : t = owner[n]
      BY <2>3 DEF Assigned
    <3>2. PICK x : Occurrences(n, t, Retired(t)) = {x}
      BY <1>t, <1>s, <1>g, <2>3, <3>1, OccursOnce
    <3>3. R = {x}
      BY <2>1, <3>1, <3>2
    <3> QED
      BY <2>3, <3>3
  <2> QED
    BY <2>2, <2>3
<1>o. IF kind[n] = "orphaned" THEN \E x : O = {x} ELSE O = {}
  BY <1>t, <1>s, <1>g, OccursOnce
<1>p. IF kind[n] = "pool" THEN \E x : P = {x} ELSE P = {}
  BY <1>t, <1>s, <1>g, OccursOnce
<1>l. IF kind[n] = "list" THEN \E x : L = {x} ELSE L = {}
  BY <1>t, <1>s, <1>g, OccursOnce
<1>a. IF kind[n] = "new" THEN \E x : A = {x} ELSE A = {}
  <2>1. CASE kind[n] = "new"
    <3>1. PICK t \in Threads : t = owner[n]
      BY <2>1 DEF Assigned
    <3>2. {u \in Threads : Unlinked(u) /\ new[u] = n} = {t}
      BY <1>g, <2>1, <3>1
    <3>3. A = {<<"new", t>>}
      BY <3>2
    <3> QED
      BY <2>1, <3>3
  <2>2. CASE kind[n] # "new"
    BY <1>g, <2>2
  <2> QED
    BY <2>1, <2>2
<1>b. IF kind[n] = "old" THEN \E x : B = {x} ELSE B = {}
  <2>1. CASE kind[n] = "old"
    <3>1. PICK t \in Threads : t = owner[n]
      BY <2>1 DEF Assigned
    <3>2. {u \in Threads : At(u, {"take", "retire"}) /\ ptr[u] = n} = {t}
      BY <1>g, <2>1, <3>1
    <3>3. B = {<<"old", t>>}
      BY <3>2
    <3> QED
      BY <2>1, <3>3
  <2>2. CASE kind[n] # "old"
    BY <1>g, <2>2
  <2> QED
    BY <2>1, <2>2
<1>f. IF kind[n] = "fresh" THEN \E x : F = {x} ELSE F = {}
  <2>1. CASE kind[n] = "fresh"
    <3>1. F = {<<"fresh", n>>}
      BY <1>g, <2>1
    <3> QED
      BY <2>1, <3>1
  <2>2. CASE kind[n] # "fresh"
    BY <1>g, <2>2
  <2> QED
    BY <2>1, <2>2
<1>k. kind[n] \in Kinds
  BY DEF Assigned
<1> HIDE DEF R, O, P, L, A, B, F
<1>3. \E x : Places(n) = {x}
  <2>1. CASE kind[n] = "retired"
    BY <1>2, <1>r, <1>o, <1>p, <1>l, <1>a, <1>b, <1>f, <2>1
  <2>2. CASE kind[n] = "orphaned"
    BY <1>2, <1>r, <1>o, <1>p, <1>l, <1>a, <1>b, <1>f, <2>2
  <2>3. CASE kind[n] = "pool"
    BY <1>2, <1>r, <1>o, <1>p, <1>l, <1>a, <1>b, <1>f, <2>3
  <2>4. CASE kind[n] = "list"
    BY <1>2, <1>r, <1>o, <1>p, <1>l, <1>a, <1>b, <1>f, <2>4
  <2>5. CASE kind[n] = "new"
    BY <1>2, <1>r, <1>o, <1>p, <1>l, <1>a, <1>b, <1>f, <2>5
  <2>6. CASE kind[n] = "old"
    BY <1>2, <1>r, <1>o, <1>p, <1>l, <1>a, <1>b, <1>f, <2>6
  <2>7. CASE kind[n] = "fresh"
    BY <1>2, <1>r, <1>o, <1>p, <1>l, <1>a, <1>b, <1>f, <2>7
  <2> QED
    BY <1>k, <2>1, <2>2, <2>3, <2>4, <2>5, <2>6, <2>7 DEF Kinds
<1> QED
  BY <1>3, FS_Singleton

\* Types are kept, and every node is in exactly one of: the list, a thread's new
\* node, the dummy a pop has passed, a retired list, the orphaned list, the pool,
\* the nodes not allocated yet.  No push, pop, scan(), thread exit or recycling
\* loses a node or lists it twice, for any number of threads and nodes, as long as
\* no stale exchange of m_tail has succeeded.
THEOREM NodesStayAccounted == Spec => []NodesAccounted
<1>1. Init => Types /\ Locals /\ Listed
  BY InitTypes, InitListed
<1>2. Types /\ Locals /\ Listed /\ [Next]_vars => (Types /\ Locals /\ Listed)'
  BY TypesStep, LocalsStep, ListedStep
<1>3. Types /\ Listed => NodesAccounted
  BY InOnePlace DEF Listed, NodesAccounted, Types
<1> QED
  BY <1>1, <1>2, <1>3, PTL DEF Spec

-----------------------------------------------------------------------------
(* First in, first out *)

Taking(t) == At(t, {"take"})

\* No value is linked twice, nor is one in two new nodes.
NewValues ==
  /\ Distinct(linked)
  /\ \A t \in Threads : Unlinked(t) =>
       /\ value[new[t]] \notin Members(linked)
       /\ \A u \in Threads : Unlinked(u) /\ value[new[u]] = value[new[t]] => u = t

\* Each value taken is moved out, or is the one that one consumer is about to
\* move out.
TakenValues ==
  /\ \A t \in Threads : Taking(t) =>
       /\ value[nxt[t]] \in Members(taken) \ got
       /\ \A u \in Threads : Taking(u) /\ value[nxt[u]] = value[nxt[t]] => u = t
  /\ \A v \in Members(taken) \ got : \E t \in Threads : Taking(t) /\ value[nxt[t]] = v
  /\ got \subseteq Members(taken) /\ IsFiniteSet(got)
  /\ Cardinality(got) + Cardinality(Late("take")) = Len(taken)

\* A step that neither links, takes nor moves out, and keeps the values that
\* threads are about to link and to move out.
ValuesKept ==
  /\ UNCHANGED <<linked, taken, got>>
  /\ \A u \in Threads :
       /\ Unlinked(u)' <=> Unlinked(u)
       /\ Unlinked(u) => value'[new'[u]] = value[new[u]]
       /\ Taking(u)' <=> Taking(u)
       /\ Taking(u) => value'[nxt'[u]] = value[nxt[u]]

\* A step that keeps the values keeps what is said of them.
LEMMA KeptValues ==
  ASSUME NewValues, TakenValues, ValuesKept
  PROVE  NewValues' /\ TakenValues'
<1>1. NewValues'
  BY DEF NewValues, ValuesKept
<1>2. Late("take")' = Late("take")
  BY DEF ValuesKept, Late, Taking
<1>3. TakenValues'
  BY <1>2 DEF TakenValues, ValuesKept
<1> QED
  BY <1>1, <1>3

\* The steps that keep the values.
Bystander(t) ==
  \/ Quiet(t) /\ ~TakeValue(t)
  \/ RetireHead(t) \/ EndThread(t) \/ Destroy(t) \/ ScanStep(t)

\* All but four actions keep the values.
LEMMA BystanderKeeps ==
  ASSUME Types, NEW t \in Threads, Bystander(t)
  PROVE  ValuesKept
<1>t. /\ pc \in [Threads -> PCs] /\ new \in [Threads -> Nodes \cup {Null}]
      /\ nxt \in [Threads -> Nodes \cup {Null}]
  BY DEF Types, TypeOK
<1> USE <1>t DEF hazardVars, scanVars, queueVars, localVars, historyVars, ValuesKept, Unlinked, Taking, At
<1>1. CASE RetireHead(t)
  BY <1>1 DEF RetireHead, Step, Goto, Forget, unprotect, retire
<1>2. CASE EndThread(t)
  BY <1>2 DEF EndThread, Step, Goto
<1>3. CASE Destroy(t)
  BY <1>3 DEF Destroy
<1>4. CASE ScanStep(t)
  BY <1>4 DEF ScanStep
<1>6. CASE LoadTail(t)
  BY <1>6 DEF LoadTail, Step, Goto, Load
<1>7. CASE ProtectTail(t)
  BY <1>7 DEF ProtectTail, Protect, Goto
<1>8. CASE ValidateTail(t)
  BY <1>8 DEF ValidateTail, Step, Goto
<1>9. CASE TailMoved(t)
  BY <1>9 DEF TailMoved, Retry, Goto
<1>10. CASE ReadNext(t)
  BY <1>10 DEF ReadNext, Step, Goto
<1>11. CASE HelpTail(t)
  BY <1>11 DEF HelpTail, CasTail, Retry, Goto
<1>12. CASE CasNextFails(t)
  BY <1>12 DEF CasNextFails, Retry, Goto
<1>13. CASE BeginPop(t)
  BY <1>13 DEF BeginPop, Step, Goto
<1>14. CASE DeadlineOver(t)
  BY <1>14 DEF DeadlineOver, ReturnNothing, Goto, Forget
<1>15. CASE LoadHead(t)
  BY <1>15 DEF LoadHead, Step, Goto, Load
<1>16. CASE ProtectHead(t)
  BY <1>16 DEF ProtectHead, Protect, Goto
<1>17. CASE ValidateHead(t)
  BY <1>17 DEF ValidateHead, Step, Goto
<1>18. CASE HeadMoved(t)
  BY <1>18 DEF HeadMoved, Retry, Goto
<1>19. CASE ReadHeadNext(t)
  BY <1>19 DEF ReadHeadNext, Step, Goto
<1>20. CASE FoundEmpty(t)
  BY <1>20 DEF FoundEmpty, Retry, Goto
<1>21. CASE EmptyClosed(t)
  BY <1>21 DEF EmptyClosed, ReturnNothing, Goto, Forget
<1>22. CASE EmptyOpen(t)
  BY <1>22 DEF EmptyOpen, Step, Goto
<1>23. CASE ProtectNext(t)
  BY <1>23 DEF ProtectNext, Protect, Goto
<1>24. CASE ValidateNext(t)
  BY <1>24 DEF ValidateNext, Step, Goto
<1>25. CASE CompareTail(t)
  BY <1>25 DEF CompareTail, Step, Goto
<1>26. CASE PopHelpTail(t)
  BY <1>26 DEF PopHelpTail, CasTail, Retry, Goto
<1>27. CASE CasHeadFails(t)
  BY <1>27 DEF CasHeadFails, Retry, Goto
<1>28. CASE SwingTail(t)
  BY <1>28 DEF SwingTail, FinishPush, Step, Goto, Forget
<1>29. CASE close(t)
  BY <1>29 DEF close, Step, Goto
<1> QED
  BY <1>1, <1>2, <1>3, <1>4, <1>6, <1>7, <1>8, <1>9, <1>10, <1>11, <1>12, <1>13, <1>14,
     <1>15, <1>16, <1>17, <1>18, <1>19, <1>20, <1>21, <1>22, <1>23, <1>24, <1>25, <1>26, <1>27,
     <1>28, <1>29 DEF Bystander, Quiet

\* A push starts with a value that is in no node and was never linked, and overwrites
\* the value of a node nobody is about to link or to move out of.
LEMMA BeginEmplaceValues ==
  ASSUME Types, Locals, NEW kind, NEW owner, Sound(kind, owner), NewValues, TakenValues,
         NEW t \in Threads, BeginEmplace(t)
  PROVE  NewValues' /\ TakenValues'
<1>t. /\ pc \in [Threads -> PCs] /\ new \in [Threads -> Nodes \cup {Null}]
      /\ value \in [Nodes -> Values \cup {Null}] /\ pool \in Seq(Nodes)
  BY DEF Types, TypeOK
<1>1. PICK n \in Nodes :
        /\ IF pool # <<>> THEN allocate(n) /\ UNCHANGED fresh
           ELSE /\ fresh # {} /\ n = CHOOSE f \in fresh : TRUE
                /\ fresh' = fresh \ {n} /\ UNCHANGED pool
        /\ new' = [new EXCEPT ![t] = n]
        /\ value' = [value EXCEPT ![n] = CHOOSE v \in Unused : TRUE]
  BY DEF BeginEmplace
<1>e. /\ pc[t] = "idle" /\ pc' = [pc EXCEPT ![t] = "loadTail"]
      /\ UNCHANGED <<nxt, linked, taken, got>>
  BY DEF BeginEmplace, Step, Goto, historyVars
<1>2. kind[n] \in {"pool", "fresh"}
  <2>1. CASE pool # <<>>
    <3>1. n = pool[Len(pool)]
      BY <1>1, <2>1 DEF allocate
    <3>2. n \in Members(pool)
      BY <1>t, <2>1, <3>1, CurtailedNodes
    <3> QED
      BY <3>2 DEF Sound, Agrees
  <2>2. CASE pool = <<>>
    <3>1. n \in fresh
      BY <1>1, <2>2
    <3> QED
      BY <3>1 DEF Sound, Agrees
  <2> QED
    BY <2>1, <2>2
<1>3. PICK v : v = CHOOSE w \in Unused : TRUE
  OBVIOUS
<1>4. v \notin Members(linked) /\ \A m \in Nodes : value[m] # v
  <2>1. Unused # {}
    BY DEF BeginEmplace
  <2>2. v \in Unused
    BY <1>3, <2>1
  <2> QED
    BY <2>2 DEF Unused
<1>5. ASSUME NEW u \in Threads
      PROVE  /\ Unlinked(u)' <=> Unlinked(u) \/ u = t
             /\ Unlinked(u) => /\ u # t /\ new[u] \in Nodes
                               /\ new'[u] = new[u] /\ value'[new'[u]] = value[new[u]]
             /\ Taking(u)' <=> Taking(u)
             /\ Taking(u) => value'[nxt'[u]] = value[nxt[u]]
  <2>1. /\ Unlinked(u)' <=> Unlinked(u) \/ u = t
        /\ Taking(u)' <=> Taking(u)
        /\ Unlinked(u) => u # t
    BY <1>e, <1>t DEF Unlinked, Taking, At
  <2>2. Unlinked(u) => new[u] \in Nodes /\ new[u] # n
    BY <1>2 DEF Unlinked, At, Locals, WithNew, Sound, Agrees
  <2>3. Taking(u) => nxt[u] \in Nodes /\ nxt[u] # n
    <3>1. Taking(u) => nxt[u] \in Nodes /\ Guards(u, nxt[u])
      BY DEF Taking, At, Locals, WithNxt, Guards, NextUse
    <3>2. Taking(u) => kind[nxt[u]] \in Kept
      BY <3>1 DEF Sound, Pointers, PointersOf
    <3> QED
      BY <1>2, <3>1, <3>2 DEF Kept, Dead
  <2> QED
    BY <1>t, <1>1, <1>e, <2>1, <2>2, <2>3
<1>6. value'[new'[t]] = v
  BY <1>1, <1>3, <1>t
<1>7. NewValues'
  <2>1. Distinct(linked)'
    BY <1>e DEF NewValues
  <2>2. ASSUME NEW u \in Threads, Unlinked(u)'
        PROVE  /\ value'[new'[u]] \notin Members(linked')
               /\ \A w \in Threads : Unlinked(w)' /\ value'[new'[w]] = value'[new'[u]] => w = u
    BY <1>e, <1>4, <1>5, <1>6, <2>2 DEF NewValues
  <2> QED
    BY <2>1, <2>2 DEF NewValues
<1>8. Late("take")' = Late("take")
  BY <1>5 DEF Late, Taking
<1>9. TakenValues'
  BY <1>e, <1>5, <1>8 DEF TakenValues
<1> QED
  BY <1>7, <1>9

\* The value linked is new to the history.
LEMMA CasNextValues ==
  ASSUME Types, Locals, NewValues, TakenValues, NEW t \in Threads, CasNext(t)
  PROVE  NewValues' /\ TakenValues'
<1>t. /\ pc \in [Threads -> PCs] /\ value \in [Nodes -> Values \cup {Null}]
      /\ linked \in Seq(Values \cup {Null})
  BY DEF Types, TypeOK
<1>e. /\ pc[t] = "casNext" /\ pc' = [pc EXCEPT ![t] = "swingTail"]
      /\ linked' = Append(linked, value[new[t]])
      /\ UNCHANGED <<value, new, nxt, taken, got>>
  BY DEF CasNext, Step, Goto, localVars
<1>1. value[new[t]] \in Values \cup {Null}
  BY <1>t, <1>e DEF Locals, WithNew
<1>2. ASSUME NEW u \in Threads
      PROVE  /\ Unlinked(u)' <=> Unlinked(u) /\ u # t
             /\ Taking(u)' <=> Taking(u)
  BY <1>e, <1>t DEF Unlinked, Taking, At
<1>3. Unlinked(t)
  BY <1>e DEF Unlinked, At
<1>4. Members(linked') = Members(linked) \cup {value[new[t]]} /\ Distinct(linked')
  BY <1>t, <1>e, <1>1, <1>3, AppendedNode DEF NewValues
<1>5. NewValues'
  BY <1>e, <1>2, <1>3, <1>4 DEF NewValues
<1>6. Late("take")' = Late("take")
  BY <1>2 DEF Late, Taking
<1>7. TakenValues'
  BY <1>e, <1>2, <1>6 DEF TakenValues
<1> QED
  BY <1>5, <1>7

\* The value taken is the next one linked, which was not taken before.
LEMMA CasHeadValues ==
  ASSUME Types, Locals, NEW kind, NEW owner, NEW c, Sound(kind, owner), Chained(kind, c),
         NewValues, TakenValues, NEW t \in Threads, CasHead(t)
  PROVE  NewValues' /\ TakenValues'
<1>t. /\ pc \in [Threads -> PCs] /\ value \in [Nodes -> Values \cup {Null}]
      /\ taken \in Seq(Values \cup {Null}) /\ Len(taken) \in Nat /\ Len(linked) \in Nat
      /\ Null \notin Nodes
  BY LenProperties, HazardPointersAssumption DEF Types, TypeOK
<1>e. /\ pc[t] = "casHead" /\ pc' = [pc EXCEPT ![t] = "take"] /\ m_head = ptr[t]
      /\ taken' = Append(taken, value[nxt[t]])
      /\ UNCHANGED <<value, new, nxt, linked, got>>
  BY DEF CasHead, Step, Goto, localVars
<1>1. nxt[t] \in Nodes /\ nxt[t] = next[m_head]
  BY <1>e DEF Locals, WithNxt, Sound, Pointers, PointersOf, HeadUse
<1>2. PICK v \in Values \cup {Null} : v = value[nxt[t]]
  BY <1>1, <1>t
<1>3. /\ Len(taken) + 1 \in 1..Len(linked) /\ v = linked[Len(taken) + 1]
      /\ \A i \in 1..Len(taken) : linked[i] = taken[i] /\ i \in 1..Len(linked)
  <2>1. Len(c) \in Nat /\ Len(c) >= 1 /\ c[1] = m_head
    BY ChainFacts DEF Chained, Chain
  <2>2. Len(c) # 1
    BY <1>1, <1>t, <2>1 DEF Chained, Chain
  <2>3. 1 \in 1..Len(c) - 1
    BY <2>1, <2>2
  <2>4. c[2] = nxt[t]
    BY <1>1, <2>1, <2>3 DEF Chained, Chain
  <2>5. linked[Len(taken) + 1] = value[c[2]] /\ Len(linked) = Len(taken) + Len(c) - 1
        /\ \A i \in 1..Len(taken) : linked[i] = taken[i]
    BY <2>3 DEF Chained, Contents
  <2> QED
    BY <1>t, <1>2, <2>1, <2>3, <2>4, <2>5
<1>4. v \notin Members(taken)
  <2> SUFFICES ASSUME NEW i \in 1..Len(taken), v = taken[i] PROVE FALSE
    BY DEF Members
  <2>1. linked[i] = linked[Len(taken) + 1] /\ i \in 1..Len(linked)
    BY <1>3
  <2>2. i = Len(taken) + 1
    BY <1>3, <2>1 DEF NewValues, Distinct
  <2> QED
    BY <1>t, <2>2
<1>5. Members(taken') = Members(taken) \cup {v} /\ Len(taken') = Len(taken) + 1
  BY <1>t, <1>e, <1>2, AppendedNode, AppendProperties
<1>6. ASSUME NEW u \in Threads
      PROVE  /\ Unlinked(u)' <=> Unlinked(u)
             /\ Taking(u)' <=> Taking(u) \/ u = t
             /\ Taking(u) => u # t
  BY <1>e, <1>t DEF Unlinked, Taking, At
<1>7. NewValues'
  BY <1>e, <1>6 DEF NewValues
<1>8. Late("take")' = Late("take") \cup {t} /\ t \notin Late("take")
  BY <1>6 DEF Late, Taking
<1>9. Cardinality(Late("take")') = Cardinality(Late("take")) + 1
  BY <1>8, LateFinite, FS_AddElement
<1>10. /\ got \subseteq Members(taken) /\ IsFiniteSet(got)
       /\ Cardinality(got) + Cardinality(Late("take")) = Len(taken)
  BY DEF TakenValues
<1>11. Cardinality(got) \in Nat /\ Cardinality(Late("take")) \in Nat
  BY <1>10, LateFinite, FS_CardinalityType
<1>12. Cardinality(got) + Cardinality(Late("take")') = Len(taken')
  BY <1>5, <1>9, <1>10, <1>11
<1>13. ASSUME NEW u \in Threads, Taking(u)'
       PROVE  /\ value'[nxt'[u]] \in Members(taken') \ got'
              /\ \A w \in Threads : Taking(w)' /\ value'[nxt'[w]] = value'[nxt'[u]] => w = u
  <2>1. \A w \in Threads : Taking(w) => value[nxt[w]] \in Members(taken) \ got
    BY DEF TakenValues
  <2>2. v \notin got
    BY <1>4, <1>10
  <2> QED
    BY <1>e, <1>2, <1>4, <1>5, <1>6, <1>13, <2>1, <2>2 DEF TakenValues
<1>14. \A x \in Members(taken') \ got' : \E u \in Threads : Taking(u)' /\ value'[nxt'[u]] = x
  BY <1>e, <1>2, <1>5, <1>6 DEF TakenValues
<1>15. TakenValues'
  BY <1>e, <1>5, <1>10, <1>12, <1>13, <1>14 DEF TakenValues
<1> QED
  BY <1>7, <1>15

\* The consumer that took a value moves it out.
LEMMA TakeValueValues ==
  ASSUME Types, Locals, NewValues, TakenValues, NEW t \in Threads, TakeValue(t)
  PROVE  NewValues' /\ TakenValues'
<1>t. pc \in [Threads -> PCs]
  BY DEF Types
<1>e. /\ pc[t] = "take" /\ pc' = [pc EXCEPT ![t] = "retire"]
      /\ got' = got \cup {value[nxt[t]]}
      /\ UNCHANGED <<value, new, nxt, linked, taken>>
  BY DEF TakeValue, Step, Goto, localVars
<1>1. ASSUME NEW u \in Threads
      PROVE  /\ Unlinked(u)' <=> Unlinked(u)
             /\ Taking(u)' <=> Taking(u) /\ u # t
  BY <1>e, <1>t DEF Unlinked, Taking, At
<1>2. Taking(t)
  BY <1>e DEF Taking, At
<1>3. NewValues'
  BY <1>e, <1>1 DEF NewValues
<1>4. Late("take")' = Late("take") \ {t} /\ t \in Late("take")
  BY <1>1, <1>2 DEF Late, Taking
<1>5. Cardinality(Late("take")') = Cardinality(Late("take")) - 1
  BY <1>4, LateFinite, FS_RemoveElement
<1>6. /\ got \subseteq Members(taken) /\ IsFiniteSet(got)
      /\ Cardinality(got) + Cardinality(Late("take")) = Len(taken)
      /\ value[nxt[t]] \in Members(taken) \ got
  BY <1>2 DEF TakenValues
<1>7. IsFiniteSet(got') /\ Cardinality(got') = Cardinality(got) + 1
  BY <1>e, <1>6, FS_AddElement
<1>8. Cardinality(got) \in Nat /\ Cardinality(Late("take")) \in Nat
  BY <1>6, LateFinite, FS_CardinalityType
<1>9. Cardinality(got') + Cardinality(Late("take")') = Len(taken')
  BY <1>e, <1>5, <1>6, <1>7, <1>8
<1>10. ASSUME NEW u \in Threads, Taking(u)'
       PROVE  /\ value'[nxt'[u]] \in Members(taken') \ got'
              /\ \A w \in Threads : Taking(w)' /\ value'[nxt'[w]] = value'[nxt'[u]] => w = u
  BY <1>e, <1>1, <1>2, <1>10 DEF TakenValues
<1>11. \A x \in Members(taken') \ got' : \E u \in Threads : Taking(u)' /\ value'[nxt'[u]] = x
  BY <1>e, <1>1 DEF TakenValues
<1>12. TakenValues'
  BY <1>e, <1>6, <1>7, <1>9, <1>10, <1>11 DEF TakenValues
<1> QED
  BY <1>3, <1>12

\* What is taken was linked, in order, and the list holds the rest.
LEMMA ChainIsFifo ==
  ASSUME Types, NEW kind, NEW c, Chained(kind, c)
  PROVE  Fifo
<1> DEFINE S == Values \cup {Null}
           rest == [i \in 1..Len(c) - 1 |-> value[c[i + 1]]]
<1>1. ChainFrom(m_head) = c
  BY ChainFromIs, HazardPointersAssumption DEF Chained
<1>2. /\ Len(c) \in Nat /\ Len(c) >= 1 /\ \A i \in 1..Len(c) : c[i] \in Nodes
      /\ taken \in Seq(S) /\ linked \in Seq(S) /\ Len(taken) \in Nat /\ Len(linked) \in Nat
      /\ value \in [Nodes -> S]
  BY ChainFacts, LenProperties DEF Chained, Types
<1>3. \A i \in 1..Len(c) - 1 : value[c[i + 1]] \in S
  BY <1>2
<1>4. rest \in Seq(S) /\ Len(rest) = Len(c) - 1 /\ \A i \in 1..Len(c) - 1 : rest[i] = value[c[i + 1]]
  BY <1>2, <1>3, IsASeq
<1> HIDE DEF rest, S
<1>j. PICK joined : joined = taken \o rest
  OBVIOUS
<1>5. /\ joined \in Seq(S) /\ Len(joined) = Len(taken) + Len(rest)
      /\ \A i \in 1..Len(taken) + Len(rest) :
           joined[i] = IF i <= Len(taken) THEN taken[i] ELSE rest[i - Len(taken)]
  BY <1>2, <1>4, <1>j, ConcatProperties
<1>6. Len(linked) = Len(taken) + Len(rest)
  BY <1>2, <1>4 DEF Chained, Contents
<1>7. ASSUME NEW i \in 1..Len(linked) PROVE joined[i] = linked[i]
  <2>1. CASE i <= Len(taken)
    BY <1>2, <1>5, <1>6, <2>1 DEF Chained, Contents
  <2>2. CASE i > Len(taken)
    <3>0. /\ Len(rest) = Len(c) - 1 /\ Len(c) \in Nat /\ Len(taken) \in Nat
          /\ i \in Nat /\ i <= Len(taken) + Len(rest)
      BY <1>2, <1>4, <1>6
    <3>a. \A x, y, z \in Nat : x > y /\ x <= y + (z - 1) =>
             x - y \in 1..z - 1 /\ y + (x - y) = x
      OBVIOUS
    <3>b. i - Len(taken) \in 1..Len(c) - 1 /\ Len(taken) + (i - Len(taken)) = i
      BY <2>2, <3>0, <3>a
    <3>1. PICK j \in 1..Len(c) - 1 : j = i - Len(taken) /\ Len(taken) + j = i
      BY <3>b, Zenon
    <3>2. linked[i] = value[c[j + 1]]
      BY <3>1 DEF Chained, Contents
    <3>3. joined[i] = rest[j]
      BY <1>2, <1>5, <1>6, <2>2, <3>1
    <3> QED
      BY <1>4, <3>2, <3>3
  <2>3. i \in Nat /\ Len(taken) \in Nat
    BY <1>2
  <2> QED
    BY <2>1, <2>2, <2>3
<1>8. taken \o rest = linked
  BY <1>2, <1>5, <1>6, <1>7, <1>j, SeqEqual
<1> QED
  BY <1>1, <1>8 DEF Fifo, rest

\* Each value taken has arrived or has its consumer.
LEMMA TakenArrive ==
  ASSUME TakenValues
  PROVE  ValuesArrive
<1>1. Late("take") = {t \in Threads : At(t, {"take"})}
  BY DEF Late
<1>2. got \cup {value[nxt[t]] : t \in Late("take")} = Members(taken)
  BY <1>1 DEF TakenValues, Taking
<1>3. Cardinality(got) + Cardinality(Late("take")) = Len(taken)
  BY DEF TakenValues
<1> QED
  BY <1>1, <1>2, <1>3 DEF ValuesArrive

\* The invariant for the values.  The list tells what a pop takes; the values
\* themselves are accounted for until an exchange of m_tail was stale.
Valued == misled \/ (NewValues /\ TakenValues)

\* At first there are no values.
LEMMA InitValued ==
  ASSUME Init
  PROVE  NewValues /\ TakenValues
<1>1. /\ \A t \in Threads : ~Unlinked(t) /\ ~Taking(t)
      /\ linked = <<>> /\ taken = <<>> /\ got = {}
  BY DEF Init, Unlinked, Taking, At
<1>2. Members(<<>>) = {} /\ Distinct(<<>>)
  BY EmptySeq DEF Members, Distinct
<1>3. Late("take") = {}
  BY <1>1 DEF Late, Taking
<1>4. NewValues
  BY <1>1, <1>2 DEF NewValues
<1>5. IsFiniteSet(got) /\ Cardinality(got) + Cardinality(Late("take")) = Len(taken)
  BY <1>1, <1>3, FS_EmptySet
<1>6. TakenValues
  BY <1>1, <1>2, <1>5 DEF TakenValues
<1> QED
  BY <1>4, <1>6

\* Every step keeps the values accounted for.
LEMMA ValuedStep ==
  ASSUME Types, Locals, Listed, Valued, [Next]_vars
  PROVE  Valued'
<1>1. CASE misled'
  BY <1>1 DEF Valued
<1> SUFFICES ASSUME ~misled' PROVE NewValues' /\ TakenValues'
  BY <1>1 DEF Valued
<1>2. ~misled /\ NewValues /\ TakenValues
  BY MisledStays DEF Valued
<1>3. CASE UNCHANGED vars
  <2>1. ValuesKept
    BY <1>3 DEF vars, queueVars, localVars, historyVars, ValuesKept, Unlinked, Taking, At
  <2> QED
    BY <1>2, <2>1, KeptValues
<1> SUFFICES ASSUME NEW t \in Threads,
                    \/ Begin(t) \/ Emplace(t) \/ TryPop(t)
                    \/ DeadlineOver(t) \/ EmptyClosed(t) \/ EmptyOpen(t) \/ ScanStep(t)
             PROVE  NewValues' /\ TakenValues'
  BY <1>3 DEF Next
<1>4. CASE Bystander(t)
  BY <1>2, <1>4, BystanderKeeps, KeptValues
<1>5. CASE BeginEmplace(t)
  <2>1. m_head # Null
    BY <1>5 DEF BeginEmplace
  <2> QED
    BY <1>2, <1>5, <2>1, BeginEmplaceValues DEF Listed
<1>6. CASE CasNext(t)
  BY <1>2, <1>6, CasNextValues
<1>7. CASE CasHead(t)
  <2>1. m_head # Null
    BY <1>7 DEF CasHead, Step, Locals
  <2> QED
    BY <1>2, <1>7, <2>1, CasHeadValues DEF Listed
<1>8. CASE TakeValue(t)
  BY <1>2, <1>8, TakeValueValues
<1> QED
  BY <1>4, <1>5, <1>6, <1>7, <1>8 DEF Begin, Emplace, TryPop, Quiet, Bystander

\* The queue is a FIFO: the values are taken in the order in which they were
\* linked, the list holds the rest, and every value m_head passed is moved out by
\* the consumer that passed it, once, whatever is helped, retried, retired and
\* recycled, for any number of producers, consumers, nodes and values, as long as
\* no stale exchange of m_tail has succeeded.
THEOREM QueueIsFifo == Spec => []FifoUnlessMisled
<1>1. Init => Types /\ Locals /\ Listed /\ Valued
  BY InitTypes, InitListed, InitValued DEF Valued
<1>2. Types /\ Locals /\ Listed /\ Valued /\ [Next]_vars => (Types /\ Locals /\ Listed /\ Valued)'
  BY TypesStep, LocalsStep, ListedStep, ValuedStep
<1>3. Types /\ Listed /\ Valued => FifoUnlessMisled
  <2> SUFFICES ASSUME Types, Listed, Valued, ~misled PROVE Fifo /\ ValuesArrive
    BY DEF FifoUnlessMisled
  <2>1. ValuesArrive
    BY TakenArrive DEF Valued
  <2>2. CASE m_head = Null
    BY <2>1, <2>2 DEF Fifo
  <2>3. CASE m_head # Null
    BY <2>1, <2>3, ChainIsFifo DEF Listed
  <2> QED
    BY <2>2, <2>3
<1> QED
  BY <1>1, <1>2, <1>3, PTL DEF Spec
=============================================================================
