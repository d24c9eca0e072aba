---------------------------- MODULE MCBlockQueue ----------------------------
(***************************************************************************)
(* The instance of BlockQueue that TLC checks: the four threads of         *)
(* ConProd.cc and the smallest capacity at which push() leaves an item     *)
(* unannounced.                                                            *)
(***************************************************************************)
EXTENDS BlockQueue

MCCapacity == 4

\* Two threads of a kind, so that one can overtake another between its wake-up
\* and its return from the wait, and a threshold above one.
ASSUME MCInteresting ==
    /\ Cardinality(Producers) > 1 /\ Cardinality(Consumers) > 1
    /\ Unannounced > 0
=============================================================================
