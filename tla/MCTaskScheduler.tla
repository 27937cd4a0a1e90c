-------------------------- MODULE MCTaskScheduler --------------------------
(***************************************************************************)
(* TaskScheduler for TLC, up to the names of descriptor numbers.  Numbers   *)
(* that are neither in use nor in the loop's hands are interchangeable, so  *)
(* that one of them stands for all: the one a handle is at home at, if it   *)
(* can be.  Nothing obliges an interval to expire, so that one of delay     *)
(* zero does nothing a silent interval does not do, and is left out; timers *)
(* of delay zero are not.                                                   *)
(***************************************************************************)
EXTENDS TaskScheduler

InHand == batch \cup {curfd}
Fresh == {n \in Fds \ InHand : \A j \in Timed : fd[j] # n}

Home == CHOOSE home \in [Timed -> Fds] :
          \A j, k \in Timed : home[j] = home[k] => j = k

CanonicalNames ==
  /\ \A j \in Timed :
       fd[j] = None /\ fd'[j] # None =>
         \/ fd'[j] \in InHand
         \/ fd'[j] = IF Home[j] \in Fresh THEN Home[j] ELSE CHOOSE n \in Fresh : TRUE
  /\ \A j \in Recurring : fd[j] = None /\ fd'[j] # None => j \in armed'

LiveSpec == Init /\ [][Next /\ CanonicalNames]_vars /\ Fairness
=============================================================================
