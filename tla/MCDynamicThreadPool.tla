------------------------ MODULE MCDynamicThreadPool ------------------------
(***************************************************************************)
(* DynamicThreadPool for TLC.  Threads, clients and tasks of one kind are   *)
(* interchangeable, so permuting them is a sound symmetry for safety runs.  *)
(*                                                                          *)
(* TLC checks no liveness under symmetry.  LiveSpec names things by rule    *)
(* instead: one unused thread id stands for all; what a task enqueues is    *)
(* NestedTask, which bounds a task to one such call in the pool at a time;  *)
(* and the other plain tasks come in the order of their numbers, from the   *)
(* first again when the pool has none, which bounds how many follow each    *)
(* other without a moment at which the last of them is over.                *)
(***************************************************************************)
EXTENDS DynamicThreadPool, TLC

Plain == Tasks \ Spawners
NestedTask == CHOOSE t \in Plain : TRUE
ClientTasks == Plain \ {NestedTask}

Symmetry ==
  Permutations(Workers) \cup Permutations(Clients)
    \cup Permutations(Spawners) \cup Permutations(Plain)

Number == CHOOSE f \in [ClientTasks -> 1..Cardinality(ClientTasks)] :
            \A s, t \in ClientTasks : f[s] = f[t] => s = t

InOrder(t) ==
  /\ \A u \in ClientTasks : ~Free(u) => Number[u] < Number[t]
  /\ \A u \in ClientTasks : Number[u] + 1 = Number[t] => ~Free(u)

Begins(x) == held[x] = None /\ held'[x] # None

NamesByRule ==
  /\ \A w \in Workers :
       pc[w] = "none" /\ pc'[w] # "none" => w = CHOOSE v \in Workers : pc[v] = "none"
  /\ \A w \in Workers : Begins(w) => held'[w] = NestedTask
  /\ \A c \in Clients :
       Begins(c) => \/ held'[c] \in Spawners
                    \/ held'[c] \in ClientTasks /\ InOrder(held'[c])

LiveSpec == Init /\ [][Next /\ NamesByRule]_vars /\ Fairness
=============================================================================
