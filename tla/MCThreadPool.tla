---------------------------- MODULE MCThreadPool ----------------------------
(***************************************************************************)
(* The instance of ThreadPool that TLC checks: the three workers of        *)
(* g_thread_num and two submitters, with room for more tasks than sleeping *)
(* workers.                                                                *)
(***************************************************************************)
EXTENDS ThreadPool

MCNumWorkers == 3
MCMaxQueue == 4

\* The queue can hold a task for every worker and one more, and two pushes can
\* overlap.
ASSUME MCInteresting == /\ MCMaxQueue > MCNumWorkers
                        /\ Cardinality(Submitters) > 1
=============================================================================
