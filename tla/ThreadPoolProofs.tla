-------------------------- MODULE ThreadPoolProofs --------------------------
(***************************************************************************)
(* Theorems about ThreadPool, for every number of workers, every set of    *)
(* submitters and tasks, and every length the queue is allowed to reach.   *)
(***************************************************************************)
EXTENDS ThreadPool, FiniteSetTheorems, TLAPS

\* Groups of threads are finite and can be counted.
LEMMA Counted == \A S \in SUBSET Threads : IsFiniteSet(S) /\ Cardinality(S) \in Nat
<1>1. IsFiniteSet(Workers)
  BY ThreadPoolAssumption, FS_Interval DEF Workers
<1>2. IsFiniteSet(Threads)
  BY <1>1, ThreadPoolAssumption, FS_Union DEF Threads
<1> QED
  BY <1>2, FS_Subset, FS_CardinalityType

\* Adding a thread to a group of threads, or removing one, counts as one.
LEMMA OneMore == \A S \in SUBSET Threads : \A t \in Threads \ S :
                    Cardinality(S \cup {t}) = Cardinality(S) + 1
BY Counted, FS_AddElement

\* ... and so does removing one.
LEMMA OneLess == \A S \in SUBSET Threads : \A t \in S :
                    /\ Cardinality(S \ {t}) = Cardinality(S) - 1
                    /\ Cardinality(S \ {t}) \in Nat
BY Counted, FS_RemoveElement

\* A pool that has been constructed and not yet run satisfies the inductive
\* invariant.
LEMMA InitInv == Init => IInv
<1> SUFFICES ASSUME Init PROVE IInv
  OBVIOUS
<1>1. Submitting = {}
  BY ThreadPoolAssumption DEF Init, Submitting, At, Threads
<1>2. Backlog
  BY <1>1, FS_EmptySet, ThreadPoolAssumption DEF Init, Backlog
<1>3. TypeOK
  BY DEF Init, TypeOK
<1>4. LockDiscipline /\ Carrying
  BY ThreadPoolAssumption DEF Init, LockDiscipline, Carrying, Threads
<1>5. TaskReady
  BY ThreadPoolAssumption DEF Init, TaskReady, At, Threads
<1> QED
  BY <1>2, <1>3, <1>4, <1>5 DEF IInv

\* The control part of the invariant: the lock guard carries the tested while
\* condition (threadPool.hpp:126) to getTask().
LEMMA ControlNext ==
    IInv /\ [Next]_vars => (TypeOK /\ LockDiscipline /\ Carrying /\ TaskReady)'
<1> SUFFICES ASSUME IInv, [Next]_vars
             PROVE  (TypeOK /\ LockDiscipline /\ Carrying /\ TaskReady)'
  OBVIOUS
<1> DEFINE Control == TypeOK /\ LockDiscipline /\ Carrying /\ TaskReady
<1> USE ThreadPoolAssumption
        DEF IInv, TypeOK, LockDiscipline, Carrying, TaskReady, At, Threads, goto, isEmpty
<1>1. ASSUME NEW w \in Workers, Start(w) PROVE Control'
  BY <1>1 DEF Start
<1>2. ASSUME NEW s \in Submitters, Submit(s) PROVE Control'
  BY <1>2 DEF Submit
<1>3. ASSUME NEW t \in Threads, Acquire(t) PROVE Control'
  BY <1>3 DEF Acquire
<1>4. ASSUME NEW w \in Workers, WaitCond(w) PROVE Control'
  BY <1>4 DEF WaitCond
<1>5. ASSUME NEW w \in Workers, Proceed(w) PROVE Control'
  BY <1>5 DEF Proceed
<1>6. ASSUME NEW w \in Workers, SpuriousWake(w) PROVE Control'
  BY <1>6 DEF SpuriousWake
<1>7. ASSUME NEW s \in Submitters, PushTask(s) PROVE Control'
  BY <1>7 DEF PushTask
<1>8. ASSUME NEW s \in Submitters, Signal(s) PROVE Control'
  BY <1>8 DEF Signal, Sleepers
<1>9. ASSUME NEW w \in Workers, GetTask(w) PROVE Control'
  BY <1>9 DEF GetTask
<1>10. ASSUME NEW t \in Threads, Release(t) PROVE Control'
  BY <1>10 DEF Release
<1>11. ASSUME NEW w \in Workers, Finish(w) PROVE Control'
  BY <1>11 DEF Finish
<1>12. CASE UNCHANGED vars
  BY <1>12 DEF vars
<1> QED
  BY <1>1, <1>2, <1>3, <1>4, <1>5, <1>6, <1>7, <1>8, <1>9, <1>10, <1>11, <1>12
     DEF Next, Step

\* The count behind the model's bound: a task that is about to be queued has its
\* place.
LEMMA BacklogNext == IInv /\ [Next]_vars => Backlog'
<1> SUFFICES ASSUME IInv, [Next]_vars PROVE Backlog'
  OBVIOUS
<1> USE ThreadPoolAssumption DEF Backlog
<1>0. /\ Len(queue) \in Nat
      /\ Submitting \in SUBSET Threads /\ Cardinality(Submitting) \in Nat
  BY Counted DEF IInv, TypeOK, Submitting, At, Threads
<1>1. ASSUME NEW s \in Submitters, Submit(s) PROVE Backlog'
  <2>1. Submitting' = Submitting \cup {s} /\ s \in Threads \ Submitting
    BY <1>1 DEF Submit, IInv, TypeOK, goto, Submitting, At, Threads
  <2>2. queue' = queue /\ Len(queue) + Cardinality(Submitting) < MaxQueue
    BY <1>1 DEF Submit, Submitting
  <2> QED
    BY <2>1, <2>2, <1>0, OneMore
<1>2. ASSUME NEW s \in Submitters, PushTask(s) PROVE Backlog'
  <2>1. Submitting' = Submitting \ {s} /\ s \in Submitting
    BY <1>2 DEF PushTask, IInv, TypeOK, goto, Submitting, At, Threads
  <2>2. Len(queue') = Len(queue) + 1
    BY <1>2 DEF PushTask, IInv, TypeOK, Carrying
  <2> QED
    BY <2>1, <2>2, <1>0, OneLess DEF IInv
<1>3. ASSUME NEW w \in Workers, GetTask(w) PROVE Backlog'
  <2>1. Submitting' = Submitting
    BY <1>3 DEF GetTask, IInv, TypeOK, goto, Submitting, At, Threads
  <2>2. Len(queue') = Len(queue) - 1
    BY <1>3 DEF GetTask, goto, IInv, TypeOK, TaskReady, At
  <2> QED
    BY <2>1, <2>2, <1>0 DEF IInv
<1>4. ASSUME \/ UNCHANGED vars
             \/ \E t \in Threads : Acquire(t) \/ Release(t)
             \/ \E s \in Submitters : Signal(s)
             \/ \E w \in Workers : \/ Start(w) \/ SpuriousWake(w)
                                   \/ WaitCond(w) \/ Proceed(w) \/ Finish(w)
      PROVE  Backlog'
  <2>1. Submitting' = Submitting /\ queue' = queue
    BY <1>4 DEF vars, Acquire, Release, Signal, Sleepers, Start, SpuriousWake,
                WaitCond, Proceed, Finish, IInv, TypeOK, LockDiscipline,
                goto, Submitting, At, Threads
  <2> QED
    BY <2>1 DEF IInv
<1> QED
  BY <1>1, <1>2, <1>3, <1>4 DEF Next, Step

\* Every step of pushTask(), routine() and run() keeps the inductive invariant.
LEMMA NextInv == IInv /\ [Next]_vars => IInv'
BY ControlNext, BacklogNext DEF IInv

\* Tasks come out as they were pushed, never a default-constructed one
\* (threadPool.hpp:153), and every thread stays in its control flow.
THEOREM TypeCorrect == Spec => []TypeOK
<1>1. IInv => TypeOK
  BY DEF IInv
<1> QED
  BY InitInv, NextInv, <1>1, PTL DEF Spec

\* threadPool.hpp:126: the while loop keeps getTask() off an empty queue.
THEOREM TaskIsReady == Spec => []TaskReady
<1>1. IInv => TaskReady
  BY DEF IInv
<1> QED
  BY InitInv, NextInv, <1>1, PTL DEF Spec

-----------------------------------------------------------------------------
\* No step uncovers a task: the worker that takes one was counted as coming, and
\* the submitter that queues one is counted until it has signalled
\* (threadPool.hpp:104).
LEMMA WorkersCoveredNext == IInv /\ WorkersCovered /\ [Next]_vars => WorkersCovered'
<1> SUFFICES ASSUME IInv, WorkersCovered, [Next]_vars PROVE WorkersCovered'
  OBVIOUS
<1> USE ThreadPoolAssumption DEF WorkersCovered
<1>0. /\ Len(queue) \in Nat
      /\ Coming \in SUBSET Threads /\ Cardinality(Coming) \in Nat
      /\ Queued \in SUBSET Threads /\ Cardinality(Queued) \in Nat
  BY Counted DEF IInv, TypeOK, Coming, Queued, At, Threads
<1>1. ASSUME NEW w \in Workers, Start(w) \/ Finish(w) \/ SpuriousWake(w)
      PROVE  WorkersCovered'
  <2>1. /\ Coming' = Coming \cup {w} /\ w \in Threads \ Coming
        /\ Queued' = Queued /\ queue' = queue
        /\ Sleepers' \subseteq Sleepers
    BY <1>1 DEF Start, Finish, SpuriousWake, IInv, TypeOK,
                goto, Coming, Queued, Sleepers, At, Threads
  <2>2. Cardinality(Coming') = Cardinality(Coming) + 1
    BY <2>1, OneMore, <1>0
  <2> QED
    BY <2>1, <2>2, <1>0
<1>2. ASSUME NEW w \in Workers, WaitCond(w) PROVE WorkersCovered'
  <2>1. Len(queue') = 0
    BY <1>2 DEF WaitCond, isEmpty
  <2>2. Cardinality(Coming') \in Nat /\ Cardinality(Queued') \in Nat
    BY Counted DEF Coming, Queued, At, Threads
  <2> QED
    BY <2>1, <2>2
<1>3. ASSUME NEW s \in Submitters, PushTask(s) PROVE WorkersCovered'
  <2>1. /\ Queued' = Queued \cup {s} /\ s \in Threads \ Queued
        /\ Coming' = Coming /\ Sleepers' = Sleepers
    BY <1>3 DEF PushTask, IInv, TypeOK, goto, Coming, Queued, Sleepers, At, Threads
  <2>2. Len(queue') = Len(queue) + 1
    BY <1>3 DEF PushTask, IInv, TypeOK, Carrying
  <2>3. Cardinality(Queued') = Cardinality(Queued) + 1
    BY <2>1, OneMore, <1>0
  <2> QED
    BY <2>1, <2>2, <2>3, <1>0
<1>4. ASSUME NEW s \in Submitters, Signal(s) PROVE WorkersCovered'
  <2>1. Queued' = Queued \ {s} /\ s \in Queued /\ queue' = queue
    BY <1>4 DEF Signal, IInv, TypeOK, goto, Queued, Sleepers, At, Threads
  <2>2. Cardinality(Queued') = Cardinality(Queued) - 1 /\ Cardinality(Queued') \in Nat
    BY <2>1, OneLess, <1>0
  <2>3. CASE Sleepers = {}
    <3>1. Sleepers' = {}
      BY <1>4, <2>3 DEF Signal, IInv, TypeOK, goto, Sleepers, At, Threads
    <3> QED
      BY <3>1
  <2>4. CASE Sleepers # {}
    <3>1. PICK w \in Sleepers : pc' = [pc EXCEPT ![s] = "unlock", ![w] = "woken"]
      BY <1>4, <2>4 DEF Signal
    <3>2. Coming' = Coming \cup {w} /\ w \in Threads \ Coming
      BY <3>1, <2>1 DEF IInv, TypeOK, Coming, Queued, Sleepers, At, Threads
    <3>3. Cardinality(Coming') = Cardinality(Coming) + 1
      BY <3>2, OneMore, <1>0
    <3> QED
      BY <3>3, <2>1, <2>2, <2>4, <1>0
  <2> QED
    BY <2>3, <2>4
<1>5. ASSUME NEW w \in Workers, GetTask(w) PROVE WorkersCovered'
  <2>1. /\ Coming' = Coming \ {w} /\ w \in Coming
        /\ Queued' = Queued /\ Sleepers' = Sleepers
    BY <1>5 DEF GetTask, IInv, TypeOK, goto, Coming, Queued, Sleepers, At, Threads
  <2>2. Len(queue') = Len(queue) - 1
    BY <1>5 DEF GetTask, goto, IInv, TypeOK, TaskReady, At
  <2>3. Cardinality(Coming') = Cardinality(Coming) - 1
    BY <2>1, OneLess, <1>0
  <2> QED
    BY <2>1, <2>2, <2>3, <1>0
<1>6. ASSUME \/ UNCHANGED vars
             \/ \E t \in Threads : Acquire(t) \/ Release(t)
             \/ \E s \in Submitters : Submit(s)
             \/ \E w \in Workers : Proceed(w)
      PROVE  WorkersCovered'
  <2>1. /\ Coming' = Coming /\ Queued' = Queued /\ Sleepers' = Sleepers
        /\ queue' = queue
    BY <1>6 DEF vars, Acquire, Release, Submit, Proceed, IInv, TypeOK,
                LockDiscipline, goto, Coming, Queued, Sleepers, At, Threads
  <2> QED
    BY <2>1
<1> QED
  BY <1>1, <1>2, <1>3, <1>4, <1>5, <1>6 DEF Next, Step

\* threadPool.hpp:104: one signal per task is enough for an idle worker never to
\* sleep while a task waits for a busy one.
THEOREM WorkersAreCovered == Spec => []WorkersCovered
<1>1. Init => WorkersCovered
  BY DEF Init, WorkersCovered, Sleepers, At, Threads
<1> QED
  BY <1>1, InitInv, NextInv, WorkersCoveredNext, PTL DEF Spec

-----------------------------------------------------------------------------
\* A constructed pool is an empty queue.
LEMMA FifoInit == Init => Fifo!Init
BY DEF Init, Fifo!Init, AbsHand, Threads

\* The step simulation: pushTask()'s push puts, getTask() gets, the return of the
\* task is its use, and the rest is invisible to BoundedFifo.
LEMMA FifoStep == IInv /\ [Next]_vars => [Fifo!Next]_<<queue, AbsHand>>
<1> SUFFICES ASSUME IInv, [Next]_vars PROVE [Fifo!Next]_<<queue, AbsHand>>
  OBVIOUS
<1> USE ThreadPoolAssumption DEF IInv, TypeOK, Threads, goto
<1>1. ASSUME NEW s \in Submitters, Submit(s) PROVE Fifo!Offer(s)
  <2>1. PICK v \in Items : task' = [task EXCEPT ![s] = v]
    BY <1>1 DEF Submit
  <2>2. AbsHand[s] = NoItem /\ AbsHand' = [AbsHand EXCEPT ![s] = v]
    BY <1>1, <2>1 DEF Submit, AbsHand
  <2>3. queue' = queue
    BY <1>1 DEF Submit
  <2> QED
    BY <2>2, <2>3 DEF Fifo!Offer
<1>2. ASSUME NEW s \in Submitters, PushTask(s) PROVE Fifo!Put(s)
  <2>1. s \in Submitting /\ Submitting \in SUBSET Threads
    BY <1>2 DEF PushTask, Submitting, At
  <2>2. Cardinality(Submitting) \in Nat \ {0}
    <3>1. Cardinality(Submitting) \in Nat
      BY <2>1, Counted
    <3>2. Cardinality(Submitting) - 1 \in Nat
      BY <2>1, OneLess
    <3> QED
      BY <3>1, <3>2
  <2>3. Len(queue) < MaxQueue
    BY <2>2 DEF Backlog
  <2>4. AbsHand[s] = task[s] /\ task[s] # NoItem
    BY <1>2 DEF PushTask, AbsHand, Carrying
  <2>5. queue' = Append(queue, task[s]) /\ AbsHand' = [AbsHand EXCEPT ![s] = NoItem]
    BY <1>2 DEF PushTask, AbsHand
  <2> QED
    BY <2>3, <2>4, <2>5 DEF Fifo!Put
<1>3. ASSUME NEW w \in Workers, GetTask(w) PROVE Fifo!Get(w)
  <2>1. AbsHand[w] = NoItem /\ queue # <<>>
    BY <1>3 DEF GetTask, AbsHand, Carrying, TaskReady, At
  <2>2. queue' = Tail(queue) /\ AbsHand' = [AbsHand EXCEPT ![w] = Head(queue)]
    BY <1>3 DEF GetTask, AbsHand
  <2> QED
    BY <2>1, <2>2 DEF Fifo!Get
<1>4. ASSUME NEW w \in Workers, Finish(w)
      PROVE  Fifo!Use(w) \/ UNCHANGED <<queue, AbsHand>>
  <2>1. AbsHand' = [AbsHand EXCEPT ![w] = NoItem] /\ queue' = queue
    BY <1>4 DEF Finish, AbsHand
  <2>2. CASE AbsHand[w] = NoItem
    BY <2>1, <2>2 DEF AbsHand
  <2>3. CASE AbsHand[w] # NoItem
    BY <2>1, <2>3 DEF Fifo!Use
  <2> QED
    BY <2>2, <2>3
<1>5. ASSUME NEW s \in Submitters, Signal(s) PROVE UNCHANGED <<queue, AbsHand>>
  BY <1>5 DEF Signal, Sleepers, At, AbsHand
<1>6. ASSUME \/ UNCHANGED vars
             \/ \E t \in Threads : Acquire(t) \/ Release(t)
             \/ \E w \in Workers : \/ Start(w) \/ SpuriousWake(w)
                                   \/ WaitCond(w) \/ Proceed(w)
      PROVE  UNCHANGED <<queue, AbsHand>>
  BY <1>6 DEF vars, Acquire, Release, Start, SpuriousWake, WaitCond, Proceed,
              LockDiscipline, AbsHand
<1> QED
  BY <1>1, <1>2, <1>3, <1>4, <1>5, <1>6 DEF Next, Step, Fifo!Next

\* threadPool.hpp:99-105 and 151-156: every task is run by one worker, in the
\* order of the pushes, whatever the number of workers.
THEOREM Implementation == Spec => ImplementsFifo
<1>1. Spec => []IInv
  BY InitInv, NextInv, PTL DEF Spec
<1> QED
  BY <1>1, FifoInit, FifoStep, PTL DEF Spec, ImplementsFifo, Fifo!Spec

=============================================================================
