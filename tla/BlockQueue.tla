----------------------------- MODULE BlockQueue -----------------------------
(***************************************************************************)
(* 0114/BlockQueue.hpp driven by the threads of 0114/ConProd.cc: a bounded *)
(* queue behind one mutex and two condition variables.                     *)
(*                                                                         *)
(* pc[t] is where thread t stands in push() or pop():                      *)
(*   "idle"    outside the queue, making or using an item                  *)
(*   "lock"    in the lockGuard constructor                                *)
(*   "test"    at the while condition, holding the mutex                   *)
(*   "asleep"  inside pthread_cond_wait, the mutex released                *)
(*   "woken"   inside pthread_cond_wait, getting the mutex back            *)
(*   "body"    past the while loop, at __bq.push() or __bq.front()         *)
(*   "drop"    a consumer between front() and __bq.pop()                   *)
(*   "signal"  at the notification that ends the function                  *)
(*   "unlock"  in the lockGuard destructor                                 *)
(***************************************************************************)
EXTENDS Naturals, Sequences, FiniteSets

CONSTANTS Producers,  \* the threads running productor()
          Consumers,  \* the threads running consumer()
          Items,      \* the tasks that are pushed
          Capacity,   \* the constructor's argument
          Nobody,     \* the owner of a free mutex
          NoItem      \* a default-constructed Task

Threads == Producers \cup Consumers

ASSUME BlockQueueAssumption ==
    /\ Producers \cap Consumers = {}
    /\ Producers # {} /\ Consumers # {}
    /\ IsFiniteSet(Threads)
    /\ Capacity \in Nat \ {0}
    /\ Nobody \notin Threads
    /\ NoItem \notin Items

VARIABLES bq,   \* __bq, oldest item first
          mtx,  \* the thread that owns __mtx, or Nobody
          pc,
          arg   \* push's "in" of a producer, pop's "*out" of a consumer

vars == <<bq, mtx, pc, arg>>

TypeOK ==
    /\ bq \in Seq(Items)
    /\ mtx \in Threads \cup {Nobody}
    /\ pc \in [Threads -> {"idle", "lock", "test", "asleep", "woken",
                           "body", "drop", "signal", "unlock"}]
    /\ arg \in [Threads -> Items \cup {NoItem}]

Init == /\ bq = <<>>
        /\ mtx = Nobody
        /\ pc = [t \in Threads |-> "idle"]
        /\ arg = [t \in Threads |-> NoItem]

-----------------------------------------------------------------------------
isQueueEmpty == Len(bq) = 0
isQueueFull  == Len(bq) = Capacity

goto(t, l) == pc' = [pc EXCEPT ![t] = l]

\* The sleepers of the two condition variables: a producer only ever waits on
\* __Full, a consumer on __Empty.
At(S, L) == {t \in S : pc[t] \in L}
Full  == At(Producers, {"asleep"})
Empty == At(Consumers, {"asleep"})

\* pthread_cond_signal by t: one sleeper, if there is one, leaves the wait.
Signal(cv, t) ==
    \/ /\ cv = {}
       /\ goto(t, "unlock")
    \/ \E s \in cv : pc' = [pc EXCEPT ![t] = "unlock", ![s] = "woken"]

\* POSIX lets pthread_cond_wait return without a signal.
SpuriousWake(t) == /\ pc[t] = "asleep"
                   /\ goto(t, "woken")
                   /\ UNCHANGED <<bq, mtx, arg>>

\* productor() makes a task and calls push(); consumer() calls pop() with a
\* fresh Task.
Call(t) == /\ pc[t] = "idle"
           /\ goto(t, "lock")
           /\ \E v \in IF t \in Producers THEN Items ELSE {NoItem} :
                 arg' = [arg EXCEPT ![t] = v]
           /\ UNCHANGED <<bq, mtx>>

\* Wrong variants, here and below, are what the properties must rule out: push()
\* and pop() testing with if instead of while, ...
AcquireMtxIf(t) == /\ pc[t] \in {"lock", "woken"}
                   /\ mtx = Nobody
                   /\ mtx' = t
                   /\ goto(t, IF pc[t] = "woken" THEN "body" ELSE "test")
                   /\ UNCHANGED <<bq, arg>>

\* ... and a wait that does not get the mutex back.
AcquireMtxBarge(t) == /\ pc[t] \in {"lock", "woken"}
                      /\ mtx = Nobody \/ pc[t] = "woken"
                      /\ mtx' = t
                      /\ goto(t, "test")
                      /\ UNCHANGED <<bq, arg>>

\* The mutex is taken, by lockGuard or at the end of pthread_cond_wait, which
\* goes back to the while condition.
AcquireMtx(t) == /\ pc[t] \in {"lock", "woken"}
                 /\ mtx = Nobody
                 /\ mtx' = t
                 /\ goto(t, "test")
                 /\ UNCHANGED <<bq, arg>>

\* The while condition: pthread_cond_wait sleeps and releases in one step.
Wait(t) == /\ pc[t] = "test"
           /\ IF t \in Producers THEN isQueueFull ELSE isQueueEmpty
           /\ mtx' = Nobody
           /\ goto(t, "asleep")
           /\ UNCHANGED <<bq, arg>>

Proceed(t) == /\ pc[t] = "test"
              /\ ~ IF t \in Producers THEN isQueueFull ELSE isQueueEmpty
              /\ goto(t, "body")
              /\ UNCHANGED <<bq, mtx, arg>>

\* Wrong: pushes a default-constructed task.
PushNothing(p) == /\ pc[p] = "body"
                  /\ bq' = Append(bq, NoItem)
                  /\ goto(p, "signal")
                  /\ UNCHANGED <<mtx, arg>>


PushItem(p) == /\ pc[p] = "body"
               /\ bq' = Append(bq, arg[p])
               /\ goto(p, "signal")
               /\ UNCHANGED <<mtx, arg>>

\* Wrong: > for >= in the threshold.
SignalEmptyLate(p) == /\ pc[p] = "signal"
                      /\ IF Len(bq) > Capacity \div 2
                         THEN Signal(Empty, p)
                         ELSE goto(p, "unlock")
                      /\ UNCHANGED <<bq, mtx, arg>>

\* Consumers are only notified from half the capacity on.
SignalEmpty(p) == /\ pc[p] = "signal"
                  /\ IF Len(bq) >= Capacity \div 2
                     THEN Signal(Empty, p)
                     ELSE goto(p, "unlock")
                  /\ UNCHANGED <<bq, mtx, arg>>

ReadFront(c) == /\ pc[c] = "body"
                /\ arg' = [arg EXCEPT ![c] = Head(bq)]
                /\ goto(c, "drop")
                /\ UNCHANGED <<bq, mtx>>

PopItem(c) == /\ pc[c] = "drop"
              /\ bq' = Tail(bq)
              /\ goto(c, "signal")
              /\ UNCHANGED <<mtx, arg>>

\* Wrong: notifies only when the queue stops being full, ...
SignalFullOnce(c) == /\ pc[c] = "signal"
                     /\ IF Len(bq) = Capacity - 1
                        THEN Signal(Full, c)
                        ELSE goto(c, "unlock")
                     /\ UNCHANGED <<bq, mtx, arg>>

\* ... notifies the other condition variable, ...
SignalFullSwapped(c) == /\ pc[c] = "signal"
                        /\ Signal(Empty, c)
                        /\ UNCHANGED <<bq, mtx, arg>>

\* ... or forgets to notify.
SignalFullNever(c) == /\ pc[c] = "signal"
                      /\ goto(c, "unlock")
                      /\ UNCHANGED <<bq, mtx, arg>>


SignalFull(c) == /\ pc[c] = "signal"
                 /\ Signal(Full, c)
                 /\ UNCHANGED <<bq, mtx, arg>>

ReleaseMtx(t) == /\ pc[t] = "unlock"
                 /\ mtx' = Nobody
                 /\ goto(t, "idle")
                 /\ UNCHANGED <<bq, arg>>

\* What thread t does of its own accord.
Step(t) == \/ Call(t) \/ AcquireMtx(t) \/ Wait(t) \/ Proceed(t) \/ ReleaseMtx(t)
           \/ t \in Producers /\ (PushItem(t) \/ SignalEmpty(t))
           \/ t \in Consumers /\ (ReadFront(t) \/ PopItem(t) \/ SignalFull(t))

Next == \E t \in Threads : Step(t) \/ SpuriousWake(t)

Spec == Init /\ [][Next]_vars

\* Both thread functions loop forever and the scheduler runs every thread that
\* can run; spurious wake-ups are not relied upon and eventually stop.
FairSpec == /\ Spec
            /\ \A t \in Threads : WF_vars(Step(t))
            /\ <>[][\A t \in Threads : ~SpuriousWake(t)]_vars
-----------------------------------------------------------------------------
(***************************************************************************)
(* Properties.                                                             *)
(***************************************************************************)

\* push() never grows the queue beyond __capacity, and pop() never reads or
\* removes the front of an empty std::queue, however often a thread is woken
\* without cause or overtaken between its wake-up and its return from
\* pthread_cond_wait: this is what the while loops are for.
NoOverrun == /\ Len(bq) <= Capacity
             /\ \A p \in Producers : pc[p] = "body" => Len(bq) < Capacity
             /\ \A c \in Consumers : pc[c] \in {"body", "drop"} => bq # <<>>

\* The mutex is held exactly between lock and unlock.
LockDiscipline ==
    \A t \in Threads :
        pc[t] \in {"test", "body", "drop", "signal", "unlock"} <=> mtx = t

\* A producer inside push() carries an item; a consumer carries none until it
\* has read the front.
Carrying ==
    /\ \A p \in Producers : /\ pc[p] # "drop"
                            /\ pc[p] # "idle" => arg[p] \in Items
    /\ \A c \in Consumers : pc[c] \in {"lock", "test", "asleep", "woken", "body"} =>
                              arg[c] = NoItem

\* The inductive invariant: what is true of every state, and why the next state
\* has it too.
IInv == TypeOK /\ LockDiscipline /\ Carrying /\ NoOverrun

\* The items that may lie in the queue without any consumer being told:
\* notification only starts at half the capacity.
Unannounced == IF Capacity \div 2 = 0 THEN 0 ELSE Capacity \div 2 - 1

\* Threads on their way to an item or to a free place, and threads that have
\* just made one and are about to notify.
Popping  == At(Consumers, {"lock", "woken", "test", "body", "drop"})
Pushing  == At(Producers, {"lock", "woken", "test", "body"})
Pushed   == At(Producers, {"signal"})
Popped   == At(Consumers, {"signal"})

\* While a consumer sleeps, every item beyond the unannounced ones has a
\* consumer on its way to it, or a producer about to wake one: the wake-ups
\* of push() are neither lost nor swallowed by a consumer that arrives first.
ConsumersCovered ==
    Empty # {} => Len(bq) <= Unannounced + Cardinality(Popping) + Cardinality(Pushed)

\* While a producer sleeps, every free place has a producer on its way to it,
\* or a consumer about to wake one: pop() notifies every time.
ProducersCovered ==
    Full # {} => Capacity <= Len(bq) + Cardinality(Pushing) + Cardinality(Popped)

\* The two groups never sleep at the same time with nobody left to wake them:
\* the threshold at which push() notifies can always be reached.
NotAllAsleep == \E t \in Threads : pc[t] # "asleep"

\* BlockQueue is a bounded FIFO.  An item has left the queue once front() has
\* copied it, and has entered it once __bq.push() is done.
AbsFifo == IF \E c \in Consumers : pc[c] = "drop" THEN Tail(bq) ELSE bq
AbsHand == [t \in Threads |->
              IF t \in Consumers \/ pc[t] \in {"lock", "test", "asleep", "woken", "body"}
              THEN arg[t] ELSE NoItem]

Fifo == INSTANCE BoundedFifo WITH Bound <- Capacity, fifo <- AbsFifo, hand <- AbsHand

\* Every step of push() and pop() is a step of the bounded FIFO or invisible
\* to it: nothing is lost, duplicated or reordered.
ImplementsFifo == Fifo!Spec

\* Items keep flowing: the producers never stop pushing for good and the
\* consumers never stop popping for good, whoever the signals pick.
ItemsFlow == []<>(Pushed # {}) /\ []<>(Popped # {})
=============================================================================
