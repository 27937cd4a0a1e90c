------------------------ MODULE MCMichaelScottQueue ------------------------
(***************************************************************************)
(* MichaelScottQueue for TLC.  The weak exchange of protect() fails for no  *)
(* reason only for the threads of Unlucky; the others take their first free *)
(* slot.                                                                    *)
(***************************************************************************)
EXTENDS MichaelScottQueue

CONSTANT Unlucky

FirstFreeSlot ==
  \A t \in Threads \ Unlucky : \A i, j \in 1..slotsCount :
    slots[t][i] = Null /\ slots'[t][i] # Null /\ j < i => slots[t][j] # Null

MCSpec == Init /\ [][Next /\ FirstFreeSlot]_vars
=============================================================================
