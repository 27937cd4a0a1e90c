---------------------------- MODULE MCEventLoop ----------------------------
(* EventLoop for TLC.  Handles of one kind are interchangeable, and so are   *)
(* the descriptor numbers.                                                   *)
EXTENDS EventLoop, TLC

Symmetry ==
  Permutations(Timers) \cup Permutations(Intervals) \cup Permutations(Triggers)
    \cup Permutations(Events) \cup Permutations(OwnFds) \cup Permutations(UserFds)
=============================================================================
