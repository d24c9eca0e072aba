----------------------------- MODULE RingQueue ------------------------------
(***************************************************************************)
(* 0208/RingQueue: a ring of Size slots shared by several producers and    *)
(* consumers.  A counting semaphore books a free slot or an item, and only *)
(* then one of two mutexes, the producers' or the consumers', orders the   *)
(* threads of one kind.  A producer and a consumer may be at their slots   *)
(* at the same time, and a thread posts after it has let its mutex go.     *)
(*                                                                         *)
(* pc[t] is where thread t stands in push() or pop():                      *)
(*   "idle"    outside the queue, making or using an item                  *)
(*   "wait"    in Sem::p()                                                 *)
(*   "lock"    in pthread_mutex_lock                                       *)
(*   "slot"    at the access to the ring, whose index moves on with it     *)
(*   "wrap"    at the %= that wraps the index                              *)
(*   "unlock"  in pthread_mutex_unlock                                     *)
(*   "post"    in Sem::v()                                                 *)
(***************************************************************************)
EXTENDS Integers, Sequences, FiniteSets

CONSTANTS Producers,  \* the threads running productor()
          Consumers,  \* the threads running consumer()
          Items,      \* the numbers that are pushed
          Size,       \* the constructor's argument
          Nobody,     \* the owner of a free mutex
          NoItem      \* a value-initialised element

Threads == Producers \cup Consumers

ASSUME RingQueueAssumption ==
    /\ Producers \cap Consumers = {}
    /\ IsFiniteSet(Threads)
    /\ Size \in Nat \ {0}
    /\ Nobody \notin Threads
    /\ NoItem \notin Items

VARIABLES
    ring,  \* __ring_queue
    step,  \* step.push is __p_step, step.pop is __c_step
    sem,   \* what each side waits for: sem.push is __space_sem, sem.pop __data_sem
    lock,  \* lock.push is __p_lock, lock.pop is __c_lock: their owners
    pc,
    arg    \* push's "in" of a producer, pop's "*out" of a consumer

vars == <<ring, step, sem, lock, pc, arg>>

Sides == {"push", "pop"}
side(t) == IF t \in Producers THEN "push" ELSE "pop"
other(t) == IF t \in Producers THEN "pop" ELSE "push"

TypeOK ==
    /\ ring \in [0 .. Size - 1 -> Items \cup {NoItem}]
    /\ step \in [Sides -> 0 .. Size]
    /\ sem \in [Sides -> 0 .. Size]
    /\ lock \in [Sides -> Threads \cup {Nobody}]
    /\ pc \in [Threads -> {"idle", "wait", "lock", "slot", "wrap", "unlock", "post"}]
    /\ arg \in [Threads -> Items \cup {NoItem}]

Init == /\ ring = [i \in 0 .. Size - 1 |-> NoItem]
        /\ step = [s \in Sides |-> 0]
        /\ sem = [s \in Sides |-> IF s = "push" THEN Size ELSE 0]
        /\ lock = [s \in Sides |-> Nobody]
        /\ pc = [t \in Threads |-> "idle"]
        /\ arg = [t \in Threads |-> NoItem]

-----------------------------------------------------------------------------
goto(t, from, to) == pc[t] = from /\ pc' = [pc EXCEPT ![t] = to]

\* productor() makes a number and calls push(); consumer() clears its variable
\* and calls pop().
Call(t) == /\ goto(t, "idle", "wait")
           /\ \E v \in IF t \in Producers THEN Items ELSE {NoItem} :
                 arg' = [arg EXCEPT ![t] = v]
           /\ UNCHANGED <<ring, step, sem, lock>>

\* Wrong variants, here and below, are what the properties must rule out:
\* sem_trywait with its result ignored, ...
SemWaitTry(t) == /\ goto(t, "wait", "lock")
                 /\ sem' = [sem EXCEPT ![side(t)] = IF @ > 0 THEN @ - 1 ELSE 0]
                 /\ UNCHANGED <<ring, step, lock, arg>>

\* sem_wait on the thread's own semaphore.
SemWait(t) == /\ goto(t, "wait", "lock")
              /\ sem[side(t)] > 0
              /\ sem' = [sem EXCEPT ![side(t)] = @ - 1]
              /\ UNCHANGED <<ring, step, lock, arg>>

\* ... threads of one kind that do not exclude each other, ...
AcquireFree(t) == /\ goto(t, "lock", "slot")
                  /\ lock' = [lock EXCEPT ![side(t)] = t]
                  /\ UNCHANGED <<ring, step, sem, arg>>


Acquire(t) == /\ goto(t, "lock", "slot")
              /\ lock[side(t)] = Nobody
              /\ lock' = [lock EXCEPT ![side(t)] = t]
              /\ UNCHANGED <<ring, step, sem, arg>>

\* __ring_queue[__p_step++] = in
Store(p) == /\ goto(p, "slot", "wrap")
            /\ ring' = [ring EXCEPT ![step["push"]] = arg[p]]
            /\ step' = [step EXCEPT !["push"] = @ + 1]
            /\ UNCHANGED <<sem, lock, arg>>

\* *out = __ring_queue[__c_step++]
Load(c) == /\ goto(c, "slot", "wrap")
           /\ arg' = [arg EXCEPT ![c] = ring[step["pop"]]]
           /\ step' = [step EXCEPT !["pop"] = @ + 1]
           /\ UNCHANGED <<ring, sem, lock>>

\* ... an index that is never wrapped, ...
WrapNot(t) == /\ goto(t, "wrap", "unlock")
              /\ UNCHANGED <<ring, step, sem, lock, arg>>


Wrap(t) == /\ goto(t, "wrap", "unlock")
           /\ step' = [step EXCEPT ![side(t)] = @ % Size]
           /\ UNCHANGED <<ring, sem, lock, arg>>

Release(t) == /\ goto(t, "unlock", "post")
              /\ lock' = [lock EXCEPT ![side(t)] = Nobody]
              /\ UNCHANGED <<ring, step, sem, arg>>

\* ... and a post on the thread's own semaphore.
SemPostOwn(t) == /\ goto(t, "post", "idle")
                 /\ sem' = [sem EXCEPT ![side(t)] = @ + 1]
                 /\ UNCHANGED <<ring, step, lock, arg>>

\* sem_post on the other side's semaphore.
SemPost(t) == /\ goto(t, "post", "idle")
              /\ sem' = [sem EXCEPT ![other(t)] = @ + 1]
              /\ UNCHANGED <<ring, step, lock, arg>>

Step(t) == \/ Call(t) \/ SemWait(t) \/ Acquire(t)
           \/ t \in Producers /\ Store(t)
           \/ t \in Consumers /\ Load(t)
           \/ Wrap(t) \/ Release(t) \/ SemPost(t)

Next == \E t \in Threads : Step(t)

Spec == Init /\ [][Next]_vars

\* Both thread functions loop forever and the scheduler runs every thread that
\* can run.
FairSpec == Spec /\ \A t \in Threads : WF_vars(Step(t))

-----------------------------------------------------------------------------
(***************************************************************************)
(* Properties.                                                             *)
(***************************************************************************)
At(S, L) == {t \in S : pc[t] \in L}

\* The threads that hold a token: between their p() and their v().
Booked == At(Threads, {"lock", "slot", "wrap", "unlock", "post"})

\* Every slot is free and bookable, full and bookable, or booked by one thread
\* between its p() and its v(): the two semaphores never count a slot twice.
TokensConserved == sem["push"] + sem["pop"] + Cardinality(Booked) = Size

\* A producer writes a slot and a consumer reads one without a common lock, so
\* they must never be at the same one; nor may an index be out of the vector
\* when it is used.
NoSlotRace ==
    /\ \A t \in At(Threads, {"slot"}) : step[side(t)] < Size
    /\ \A p \in At(Producers, {"slot"}), c \in At(Consumers, {"slot"}) :
          step["push"] # step["pop"]

\* The stored items nobody has loaded: those announced, those whose producer
\* has still to announce them, and those whose consumer has still to load them.
Announcing == At(Producers, {"wrap", "unlock", "post"})
Loading    == At(Consumers, {"lock", "slot"})
Stored     == sem["pop"] + Cardinality(Announcing) + Cardinality(Loading)

\* Each mutex is held between its lock and its unlock, by a thread of its side.
LockDiscipline ==
    /\ \A t \in Threads : pc[t] \in {"slot", "wrap", "unlock"} <=> lock[side(t)] = t
    /\ \A s \in Sides : lock[s] # Nobody => side(lock[s]) = s

\* A producer inside push() carries an item; a consumer carries none until it
\* has loaded one.
Carrying == /\ \A p \in Producers : pc[p] # "idle" => arg[p] \in Items
            /\ \A c \in Consumers : pc[c] \in {"wait", "lock", "slot"} =>
                                        arg[c] = NoItem

\* An index equals Size only between its increment and its wrap.
Wrapping == \A s \in Sides : step[s] = Size =>
                lock[s] # Nobody /\ pc[lock[s]] = "wrap"

\* The stored items lie between the two indices.
index(s) == IF step[s] = Size THEN 0 ELSE step[s]
Aligned == index("push") \in {index("pop") + Stored, index("pop") + Stored - Size}

\* The inductive invariant.
IInv == TypeOK /\ LockDiscipline /\ Carrying /\ Wrapping /\ TokensConserved /\ Aligned

\* RingQueue is a bounded FIFO: the items run from __c_step to __p_step.
AbsFifo == [i \in 1 .. Stored |-> ring[(step["pop"] + i - 1) % Size]]
AbsHand == [t \in Threads |->
              IF t \in Consumers \/ pc[t] \in {"wait", "lock", "slot"}
              THEN arg[t] ELSE NoItem]

Fifo == INSTANCE BoundedFifo WITH Bound <- Size, fifo <- AbsFifo, hand <- AbsHand

\* A token posted by one producer may be used before an earlier producer has
\* posted its own; still every consumer gets the oldest item, once, and no item
\* is overwritten before it was read.
ImplementsFifo == Fifo!Spec

\* Items keep flowing, whichever of the waiting threads a post lets through.
ItemsFlow == /\ []<>(At(Producers, {"wrap"}) # {})
             /\ []<>(At(Consumers, {"wrap"}) # {})
=============================================================================
