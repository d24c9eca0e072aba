----------------------------- MODULE ThreadPool -----------------------------
(***************************************************************************)
(* The thread pool of 0208/ThreadPool, 0211 and 0215/tcp/threadPool: run() *)
(* starts the workers one by one, pushTask() queues a task and signals,    *)
(* and every worker takes tasks and runs them outside the lock, forever.   *)
(*                                                                         *)
(* pc[t] is where thread t stands in routine() or pushTask():              *)
(*   "unborn"  a worker run() has not started yet                          *)
(*   "idle"    a submitter outside the pool                                *)
(*   "lock"    in the lockGuard constructor                                *)
(*   "test"    a worker at while (tp->isEmpty()), holding the lock         *)
(*   "asleep"  a worker in waitCond(), the lock released                   *)
(*   "woken"   a worker in waitCond(), getting the lock back               *)
(*   "body"    at __task_queue.push() or at getTask()                      *)
(*   "signal"  a submitter at pthread_cond_signal                          *)
(*   "unlock"  in the lockGuard destructor                                 *)
(*   "run"     a worker running its task                                   *)
(***************************************************************************)
EXTENDS Naturals, Sequences, FiniteSets

CONSTANTS Submitters,  \* the threads that call pushTask()
          NumWorkers,  \* __num
          Items,       \* the tasks
          MaxQueue,    \* bound of the model: the code's queue has none
          Nobody,      \* the owner of a free mutex
          NoItem       \* a default-constructed task

Workers == 1 .. NumWorkers
Threads == Submitters \cup Workers

ASSUME ThreadPoolAssumption ==
    /\ NumWorkers \in Nat \ {0}
    /\ Submitters \cap Workers = {}
    /\ IsFiniteSet(Submitters)
    /\ MaxQueue \in Nat
    /\ Nobody \notin Threads
    /\ NoItem \notin Items

VARIABLES queue,  \* __task_queue, oldest task first
          mtx,    \* the thread that owns __lock, or Nobody
          pc,
          task    \* a submitter's argument, a worker's local variable

vars == <<queue, mtx, pc, task>>

TypeOK ==
    /\ queue \in Seq(Items)
    /\ mtx \in Threads \cup {Nobody}
    /\ pc \in [Threads -> {"unborn", "idle", "lock", "test", "asleep", "woken",
                           "body", "signal", "unlock", "run"}]
    /\ task \in [Threads -> Items \cup {NoItem}]

Init == /\ queue = <<>>
        /\ mtx = Nobody
        /\ pc = [t \in Threads |-> IF t \in Workers THEN "unborn" ELSE "idle"]
        /\ task = [t \in Threads |-> NoItem]

-----------------------------------------------------------------------------
isEmpty == queue = <<>>

goto(t, from, to) == pc[t] = from /\ pc' = [pc EXCEPT ![t] = to]

At(S, L) == {t \in S : pc[t] \in L}

Sleepers == At(Workers, {"asleep"})

\* run() starts the workers in the order of __threads.
Start(w) == /\ goto(w, "unborn", "lock")
            /\ \A v \in Workers : v < w => pc[v] # "unborn"
            /\ UNCHANGED <<queue, mtx, task>>

\* A task is made and pushTask() called once run() has returned.
Submit(s) == /\ goto(s, "idle", "lock")
             /\ At(Workers, {"unborn"}) = {}
             /\ Len(queue) + Cardinality(At(Submitters, {"lock", "body"})) < MaxQueue
             /\ \E v \in Items : task' = [task EXCEPT ![s] = v]
             /\ UNCHANGED <<queue, mtx>>

\* Wrong variants, here and below, are what the properties must rule out: a
\* worker that tests with if instead of while, ...
AcquireIf(t) == /\ pc[t] \in {"lock", "woken"}
                /\ mtx = Nobody
                /\ mtx' = t
                /\ pc' = [pc EXCEPT ![t] =
                            IF t \in Workers /\ pc[t] = "lock" THEN "test" ELSE "body"]
                /\ UNCHANGED <<queue, task>>

\* The lock is taken, by lockGuard or at the end of pthread_cond_wait, which
\* goes back to the while condition.
Acquire(t) == /\ pc[t] \in {"lock", "woken"}
              /\ mtx = Nobody
              /\ mtx' = t
              /\ pc' = [pc EXCEPT ![t] = IF t \in Workers THEN "test" ELSE "body"]
              /\ UNCHANGED <<queue, task>>

\* pthread_cond_wait sleeps and releases in one step.
WaitCond(w) == /\ isEmpty
               /\ goto(w, "test", "asleep")
               /\ mtx' = Nobody
               /\ UNCHANGED <<queue, task>>

Proceed(w) == /\ ~isEmpty
              /\ goto(w, "test", "body")
              /\ UNCHANGED <<queue, mtx, task>>

\* POSIX lets pthread_cond_wait return without a signal.
SpuriousWake(w) == /\ goto(w, "asleep", "woken")
                   /\ UNCHANGED <<queue, mtx, task>>

\* ... a pushTask() that queues a default-constructed task, ...
PushNothing(s) == /\ goto(s, "body", "signal")
                  /\ queue' = Append(queue, NoItem)
                  /\ UNCHANGED <<mtx, task>>

PushTask(s) == /\ goto(s, "body", "signal")
               /\ queue' = Append(queue, task[s])
               /\ UNCHANGED <<mtx, task>>

\* ... one that signals only when the queue stops being empty, ...
SignalOnce(s) == /\ pc[s] = "signal"
                 /\ \/ /\ Sleepers = {} \/ Len(queue) # 1
                       /\ goto(s, "signal", "unlock")
                    \/ /\ Len(queue) = 1
                       /\ \E w \in Sleepers :
                             pc' = [pc EXCEPT ![s] = "unlock", ![w] = "woken"]
                 /\ UNCHANGED <<queue, mtx, task>>

\* ... one that does not signal, ...
SignalNever(s) == /\ goto(s, "signal", "unlock")
                  /\ UNCHANGED <<queue, mtx, task>>

\* pthread_cond_signal: one sleeping worker, if there is one, leaves the wait.
Signal(s) == /\ pc[s] = "signal"
             /\ \/ /\ Sleepers = {}
                   /\ goto(s, "signal", "unlock")
                \/ \E w \in Sleepers :
                      pc' = [pc EXCEPT ![s] = "unlock", ![w] = "woken"]
             /\ UNCHANGED <<queue, mtx, task>>

\* ... and a getTask() that leaves the task in the queue.
PeekTask(w) == /\ goto(w, "body", "unlock")
               /\ task' = [task EXCEPT ![w] = Head(queue)]
               /\ UNCHANGED <<queue, mtx>>

\* getTask(): front() and pop().
GetTask(w) == /\ goto(w, "body", "unlock")
              /\ task' = [task EXCEPT ![w] = Head(queue)]
              /\ queue' = Tail(queue)
              /\ UNCHANGED mtx

Release(t) == /\ goto(t, "unlock", IF t \in Workers THEN "run" ELSE "idle")
              /\ mtx' = Nobody
              /\ UNCHANGED <<queue, task>>

\* The task returns, and the next turn of the loop declares a fresh one.
Finish(w) == /\ goto(w, "run", "lock")
             /\ task' = [task EXCEPT ![w] = NoItem]
             /\ UNCHANGED <<queue, mtx>>

\* What thread t does once it has begun, of its own accord.
Step(t) == \/ Acquire(t) \/ Release(t)
           \/ t \in Submitters /\ (PushTask(t) \/ Signal(t))
           \/ t \in Workers /\ (WaitCond(t) \/ Proceed(t) \/ GetTask(t) \/ Finish(t))

Next == \/ \E t \in Threads : Step(t)
        \/ \E w \in Workers : Start(w) \/ SpuriousWake(w)
        \/ \E s \in Submitters : Submit(s)

Spec == Init /\ [][Next]_vars

\* run() starts every worker, tasks return, and the scheduler runs every thread
\* that can run.  Nobody is obliged to submit another task; spurious wake-ups
\* are not relied upon and eventually stop.
FairSpec == /\ Spec
            /\ \A t \in Threads : WF_vars(Step(t))
            /\ \A w \in Workers : WF_vars(Start(w))
            /\ <>[][\A w \in Workers : ~SpuriousWake(w)]_vars

-----------------------------------------------------------------------------
(***************************************************************************)
(* Properties.                                                             *)
(***************************************************************************)

\* getTask() never reads the front of an empty std::queue, although a worker
\* that was signalled may be overtaken by one that comes straight from its
\* last task.
TaskReady == At(Workers, {"body"}) # {} => queue # <<>>

\* Workers on their way to a task, and submitters that have just queued one and
\* are about to signal.
Coming == At(Workers, {"lock", "woken", "test", "body"})
Queued == At(Submitters, {"signal"})

\* While a worker sleeps, every queued task has an awake worker on its way to
\* it, or a submitter about to wake one: a task never waits behind a busy
\* worker when there is an idle one.
WorkersCovered ==
    Sleepers # {} => Len(queue) <= Cardinality(Coming) + Cardinality(Queued)

\* __lock is held exactly between lock and unlock, and each kind of thread
\* stays in its own function.
LockDiscipline ==
    /\ \A t \in Threads : pc[t] \in {"test", "body", "signal", "unlock"} <=> mtx = t
    /\ \A s \in Submitters : pc[s] \in {"idle", "lock", "body", "signal", "unlock"}
    /\ \A w \in Workers : pc[w] \notin {"idle", "signal"}

\* A submitter inside pushTask() carries a task; a worker carries none before
\* getTask().
Carrying ==
    /\ \A s \in Submitters : pc[s] \in {"lock", "body"} => task[s] \in Items
    /\ \A w \in Workers :
          pc[w] \in {"unborn", "lock", "test", "asleep", "woken", "body"} =>
              task[w] = NoItem

\* The bound of the model also counts the tasks about to be queued.
Submitting == At(Submitters, {"lock", "body"})
Backlog == Len(queue) + Cardinality(Submitting) <= MaxQueue

\* The inductive invariant.
IInv == TypeOK /\ LockDiscipline /\ Carrying /\ Backlog /\ TaskReady

\* The pool is a FIFO between submitters and workers.
AbsHand == [t \in Threads |->
              IF t \in Workers \/ pc[t] \in {"lock", "body"}
              THEN task[t] ELSE NoItem]

Fifo == INSTANCE BoundedFifo WITH
    Producers <- Submitters, Consumers <- Workers, Bound <- MaxQueue,
    fifo <- queue, hand <- AbsHand

\* Every task pushed is run by exactly one worker, and tasks are taken in the
\* order in which they were pushed.
ImplementsFifo == Fifo!Spec

\* A queued task is taken sooner or later, even if no further task is ever
\* pushed: pushTask() signals every time.
TasksRun == (queue # <<>>) ~> (At(Workers, {"unlock"}) # {})
=============================================================================
