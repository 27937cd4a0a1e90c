--------------------------- MODULE HazardPointers ---------------------------
(***************************************************************************)
(* include/miniruntime/task/hazardpointers.h: deferred reclamation of the   *)
(* nodes of a lock-free structure.  A thread announces in a slot the node   *)
(* it is going to dereference; a removed node is retired, and goes to the   *)
(* pool for another allocation once a scan of all slots did not find it.    *)
(*                                                                          *)
(* The steps of a scan interleave with everything: one step reads one slot  *)
(* of one record.  The regions under m_poolLock do not block and are one    *)
(* step; m_orphanedLock is held for the whole of scanOrphaned().  Records   *)
(* are never removed, so a scan walks down from the newest record it found. *)
(*                                                                          *)
(*   hpc[t]   off, or where t is in scan(): local, lock, orphaned           *)
(***************************************************************************)
EXTENDS Naturals, Sequences

CONSTANTS Threads, Nodes, Null,
          slotsCount,        \* 4 in the code, of which the queue uses two
          retireThreshold    \* 1024 in the code

ASSUME HazardPointersAssumption ==
  /\ Null \notin Nodes \cup Threads
  /\ slotsCount \in Nat /\ retireThreshold \in Nat

VARIABLES
  slots,          \* AnouncementRecord::slots of each thread
  records,        \* the threads whose record is in the list of s_head
  retired,        \* s_threadRetired of each thread
  orphaned,       \* s_orphanedRetired
  orphanedLock,   \* the holder of m_orphanedLock
  pool,           \* pool()
  hpc,
  todo,           \* scan(): the retired nodes still to be looked at
  survivors,
  record, slot    \* isProtected(): where the walk is
scanVars == <<hpc, todo, survivors, record, slot>>
hazardVars == <<slots, records, retired, orphaned, orphanedLock, pool, scanVars>>

HazardInit ==
  /\ slots = [t \in Threads |-> [i \in 1..slotsCount |-> Null]]
  /\ records = <<>> /\ orphaned = <<>> /\ orphanedLock = Null /\ pool = <<>>
  /\ retired = [t \in Threads |-> <<>>]
  /\ hpc = [t \in Threads |-> "off"]
  /\ todo = [t \in Threads |-> <<>>] /\ survivors = [t \in Threads |-> <<>>]
  /\ record = [t \in Threads |-> 0] /\ slot = [t \in Threads |-> 0]

Members(s) == {s[i] : i \in 1..Len(s)}

-----------------------------------------------------------------------------
(* The operations of a thread.  Each says what becomes of slots, records,
   retired and pool; the caller keeps the rest. *)

HasRecord(t) == t \in Members(records)

initRecord(t) == records' = Append(records, t)

\* A free slot announces ptr: the first one, or a later one when the weak
\* exchange on the slots before it fails for no reason.
protect(t, ptr) ==
  \E i \in 1..slotsCount :
    /\ slots[t][i] = Null
    /\ slots' = [slots EXCEPT ![t][i] = ptr]

\* unprotect() of every slot t has in use: the queue gives them up together.
unprotect(t) == slots' = [slots EXCEPT ![t] = [i \in 1..slotsCount |-> Null]]

\* allocate() gives back the node pooled last; the pool has one.
allocate(n) ==
  /\ n = pool[Len(pool)]
  /\ pool' = SubSeq(pool, 1, Len(pool) - 1)

\* isProtected() starts over, for another node, at the newest record.
Rewind(t) ==
  /\ record' = [record EXCEPT ![t] = Len(records)]
  /\ slot' = [slot EXCEPT ![t] = 1]

\* retire(): the list grows, and beyond the threshold scan() starts.
retire(t, n) ==
  /\ retired' = [retired EXCEPT ![t] = Append(@, n)]
  /\ IF Len(retired[t]) + 1 > retireThreshold
       THEN /\ hpc' = [hpc EXCEPT ![t] = "local"]
            /\ todo' = [todo EXCEPT ![t] = Append(retired[t], n)]
            /\ Rewind(t)
       ELSE UNCHANGED <<hpc, todo, record, slot>>
  /\ UNCHANGED survivors

-----------------------------------------------------------------------------
(* scan(), one slot at a time *)

Scanning(t) == hpc[t] \in {"local", "orphaned"} /\ todo[t] # <<>>
Seen(t) == record[t] > 0 /\ slots[records[record[t]]][slot[t]] = Head(todo[t])
LastSlot(t) == record[t] = 0 \/ (record[t] = 1 /\ slot[t] = slotsCount)

\* The node is announced: it survives.
ScanFinds(t) ==
  /\ Scanning(t) /\ Seen(t)
  /\ survivors' = [survivors EXCEPT ![t] = Append(@, Head(todo[t]))]
  /\ todo' = [todo EXCEPT ![t] = Tail(@)]
  /\ Rewind(t)
  /\ UNCHANGED <<slots, records, retired, orphaned, orphanedLock, pool, hpc>>

ScanAdvances(t) ==
  /\ Scanning(t) /\ ~Seen(t) /\ ~LastSlot(t)
  /\ IF slot[t] < slotsCount
       THEN slot' = [slot EXCEPT ![t] = @ + 1] /\ UNCHANGED record
       ELSE slot' = [slot EXCEPT ![t] = 1] /\ record' = [record EXCEPT ![t] = @ - 1]
  /\ UNCHANGED <<slots, records, retired, orphaned, orphanedLock, pool, hpc, todo, survivors>>

\* The node goes to the pool, and the walk starts over for the next one.
Deallocate(t) ==
  /\ pool' = Append(pool, Head(todo[t]))
  /\ todo' = [todo EXCEPT ![t] = Tail(@)]
  /\ Rewind(t)
  /\ UNCHANGED <<slots, records, retired, orphaned, orphanedLock, hpc, survivors>>

\* Mutant of ScanDeallocates: isProtected() leaves out the last slot of a walk.
ScanDeallocatesEarly(t) == Scanning(t) /\ LastSlot(t) /\ Deallocate(t)

\* No slot announces the node: deallocate() takes it.
ScanDeallocates(t) == Scanning(t) /\ ~Seen(t) /\ LastSlot(t) /\ Deallocate(t)

\* Mutant of LocalDone: the list is not replaced by the survivors.
LocalDoneKeepsList(t) ==
  /\ hpc[t] = "local" /\ todo[t] = <<>>
  /\ survivors' = [survivors EXCEPT ![t] = <<>>]
  /\ hpc' = [hpc EXCEPT ![t] = "lock"]
  /\ UNCHANGED <<slots, records, retired, orphaned, orphanedLock, pool, todo, record, slot>>

LocalDone(t) ==
  /\ hpc[t] = "local" /\ todo[t] = <<>>
  /\ retired' = [retired EXCEPT ![t] = survivors[t]]
  /\ survivors' = [survivors EXCEPT ![t] = <<>>]
  /\ hpc' = [hpc EXCEPT ![t] = "lock"]
  /\ UNCHANGED <<slots, records, orphaned, orphanedLock, pool, todo, record, slot>>

LockOrphaned(t) ==
  /\ hpc[t] = "lock" /\ orphanedLock = Null
  /\ orphanedLock' = t
  /\ todo' = [todo EXCEPT ![t] = orphaned]
  /\ hpc' = [hpc EXCEPT ![t] = "orphaned"]
  /\ Rewind(t)
  /\ UNCHANGED <<slots, records, retired, orphaned, pool, survivors>>

OrphanedDone(t) ==
  /\ hpc[t] = "orphaned" /\ todo[t] = <<>>
  /\ orphaned' = survivors[t]
  /\ survivors' = [survivors EXCEPT ![t] = <<>>]
  /\ orphanedLock' = Null
  /\ hpc' = [hpc EXCEPT ![t] = "off"]
  /\ UNCHANGED <<slots, records, retired, pool, todo, record, slot>>

Scan(t) ==
  \/ ScanFinds(t) \/ ScanAdvances(t) \/ ScanDeallocates(t)
  \/ LocalDone(t) \/ LockOrphaned(t) \/ OrphanedDone(t)

\* ~ThreadRetiredList(): what a thread leaves behind when it ends.
ThreadExit(t) ==
  /\ retired[t] # <<>> => orphanedLock = Null
  /\ orphaned' = orphaned \o retired[t]
  /\ retired' = [retired EXCEPT ![t] = <<>>]
  /\ UNCHANGED <<slots, records, orphanedLock, pool, scanVars>>

\* drain(), with no other user of the nodes: nothing is announced any more.
drain(t) ==
  /\ orphanedLock = Null
  /\ pool' = pool \o retired[t] \o orphaned
  /\ retired' = [retired EXCEPT ![t] = <<>>]
  /\ orphaned' = <<>>
  /\ UNCHANGED <<slots, records, orphanedLock, scanVars>>
=============================================================================
