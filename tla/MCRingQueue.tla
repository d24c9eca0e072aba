---------------------------- MODULE MCRingQueue -----------------------------
(***************************************************************************)
(* The instance of RingQueue that TLC checks.  Two slots let every thread  *)
(* of a kind be past its semaphore at the same time, and let the ring fill,*)
(* empty and wrap.                                                         *)
(***************************************************************************)
EXTENDS RingQueue

MCSize == 2

\* Both producers, and both consumers, can hold a token at once, so that their
\* stores and their posts can come in different orders.
ASSUME MCInteresting == /\ Cardinality(Producers) >= MCSize
                        /\ Cardinality(Consumers) >= MCSize
                        /\ MCSize > 1
=============================================================================
