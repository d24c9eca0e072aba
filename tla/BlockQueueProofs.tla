-------------------------- MODULE BlockQueueProofs --------------------------
(***************************************************************************)
(* Theorems about BlockQueue, for every number of threads, every capacity  *)
(* and every set of items.                                                 *)
(***************************************************************************)
EXTENDS BlockQueue, SequenceTheorems, FiniteSetTheorems, TLAPS

\* The constructor and the threads before their first call satisfy the inductive
\* invariant: an empty queue, a free mutex, nobody inside push() or pop().
LEMMA InitInv == Init => IInv
BY BlockQueueAssumption
   DEF Init, IInv, TypeOK, LockDiscipline, Carrying, NoOverrun, Threads

\* Every step of push() and pop() keeps it.  The mutex discipline is what carries
\* a tested while condition (BlockQueue.hpp:78, 92) to the access it guards.
LEMMA NextInv == IInv /\ [Next]_vars => IInv'
<1> SUFFICES ASSUME IInv, [Next]_vars PROVE IInv'
  OBVIOUS
<1> USE BlockQueueAssumption
        DEF IInv, TypeOK, LockDiscipline, Carrying, NoOverrun, Threads, goto,
            isQueueFull, isQueueEmpty
<1>1. ASSUME NEW t \in Threads, Call(t) PROVE IInv'
  BY <1>1 DEF Call
<1>2. ASSUME NEW t \in Threads, AcquireMtx(t) PROVE IInv'
  BY <1>2 DEF AcquireMtx
<1>3. ASSUME NEW t \in Threads, Wait(t) PROVE IInv'
  BY <1>3 DEF Wait
<1>4. ASSUME NEW t \in Threads, Proceed(t) PROVE IInv'
  BY <1>4 DEF Proceed
<1>5. ASSUME NEW t \in Threads, ReleaseMtx(t) PROVE IInv'
  BY <1>5 DEF ReleaseMtx
<1>6. ASSUME NEW p \in Producers, PushItem(p) PROVE IInv'
  BY <1>6 DEF PushItem
<1>7. ASSUME NEW p \in Producers, SignalEmpty(p) PROVE IInv'
  BY <1>7 DEF SignalEmpty, Signal, Empty, At
<1>8. ASSUME NEW c \in Consumers, ReadFront(c) PROVE IInv'
  BY <1>8 DEF ReadFront
<1>9. ASSUME NEW c \in Consumers, PopItem(c) PROVE IInv'
  BY <1>9 DEF PopItem
<1>10. ASSUME NEW c \in Consumers, SignalFull(c) PROVE IInv'
  BY <1>10 DEF SignalFull, Signal, Full, At
<1>11. ASSUME NEW t \in Threads, SpuriousWake(t) PROVE IInv'
  BY <1>11 DEF SpuriousWake
<1>12. CASE UNCHANGED vars
  BY <1>12 DEF vars
<1> QED
  BY <1>1, <1>2, <1>3, <1>4, <1>5, <1>6, <1>7, <1>8, <1>9, <1>10, <1>11, <1>12
     DEF Next, Step

\* The queue only ever holds items that were pushed: pop() never copies something
\* that was not (BlockQueue.hpp:96), and no thread leaves its control flow.
THEOREM TypeCorrect == Spec => []TypeOK
<1>1. IInv => TypeOK
  BY DEF IInv
<1> QED
  BY InitInv, NextInv, <1>1, PTL DEF Spec

\* BlockQueue.hpp:78 and 92: the while loops keep push() within the capacity and
\* pop() off an empty queue.
THEOREM NeverOverrun == Spec => []NoOverrun
<1>1. IInv => NoOverrun
  BY DEF IInv
<1> QED
  BY InitInv, NextInv, <1>1, PTL DEF Spec

-----------------------------------------------------------------------------
\* Groups of threads are finite, so that covered items can be counted.
LEMMA Counted == \A S \in SUBSET Threads : IsFiniteSet(S) /\ Cardinality(S) \in Nat
BY BlockQueueAssumption, FS_Subset, FS_CardinalityType

\* Adding a thread to a group of threads, or removing one, counts as one.
LEMMA OneMore == \A S \in SUBSET Threads : \A t \in Threads \ S :
                    Cardinality(S \cup {t}) = Cardinality(S) + 1
BY Counted, FS_AddElement

\* ... and so does removing one.
LEMMA OneLess == \A S \in SUBSET Threads : \A t \in S :
                    /\ Cardinality(S \ {t}) = Cardinality(S) - 1
                    /\ Cardinality(S \ {t}) \in Nat
BY Counted, FS_RemoveElement

\* No step of push() or pop() uncovers an item: the thread that takes one was
\* counted on its way to it, and the thread that adds one stays counted until it
\* has notified (BlockQueue.hpp:83-86).
LEMMA ConsumersCoveredNext ==
    IInv /\ ConsumersCovered /\ [Next]_vars => ConsumersCovered'
<1> SUFFICES ASSUME IInv, ConsumersCovered, [Next]_vars PROVE ConsumersCovered'
  OBVIOUS
<1> USE BlockQueueAssumption DEF ConsumersCovered
<1>0. /\ Len(bq) \in Nat /\ Unannounced \in Nat
      /\ Popping \in SUBSET Threads /\ Cardinality(Popping) \in Nat
      /\ Pushed \in SUBSET Threads /\ Cardinality(Pushed) \in Nat
  BY Counted, BlockQueueAssumption
     DEF IInv, TypeOK, Unannounced, Popping, Pushed, At, Threads
<1>1. ASSUME NEW t \in Threads, Call(t) \/ SpuriousWake(t) PROVE ConsumersCovered'
  <2>1. CASE t \in Producers
    <3>1. Popping' = Popping /\ Pushed' = Pushed /\ Empty' = Empty /\ bq' = bq
      BY <1>1, <2>1 DEF Call, SpuriousWake, IInv, TypeOK,
                        goto, At, Empty, Popping, Pushed, Threads
    <3> QED
      BY <3>1
  <2>2. CASE t \in Consumers
    <3>1. /\ Popping' = Popping \cup {t} /\ t \notin Popping
          /\ Pushed' = Pushed /\ bq' = bq
          /\ Empty' \subseteq Empty
      BY <1>1, <2>2 DEF Call, SpuriousWake, IInv, TypeOK,
                        goto, At, Empty, Popping, Pushed, Threads
    <3>2. Cardinality(Popping') = Cardinality(Popping) + 1
      BY <3>1, <1>0, OneMore
    <3> QED
      BY <3>1, <3>2, <1>0
  <2> QED
    BY <2>1, <2>2 DEF Threads
<1>2. ASSUME NEW t \in Threads, AcquireMtx(t) \/ Proceed(t) \/ ReleaseMtx(t)
      PROVE  ConsumersCovered'
  <2>1. Popping' = Popping /\ Pushed' = Pushed /\ Empty' = Empty /\ bq' = bq
    BY <1>2 DEF AcquireMtx, Proceed, ReleaseMtx, IInv, TypeOK,
                goto, At, Empty, Popping, Pushed, Threads
  <2> QED
    BY <2>1
<1>3. ASSUME NEW t \in Threads, Wait(t) PROVE ConsumersCovered'
  <2>1. CASE t \in Producers
    <3>1. Popping' = Popping /\ Pushed' = Pushed /\ Empty' = Empty /\ bq' = bq
      BY <1>3, <2>1 DEF Wait, IInv, TypeOK,
                        goto, At, Empty, Popping, Pushed, Threads
    <3> QED
      BY <3>1
  <2>2. CASE t \in Consumers
    <3>1. bq' = bq /\ Len(bq) = 0
      BY <1>3, <2>2 DEF Wait, isQueueEmpty
    <3>2. Cardinality(Popping') \in Nat /\ Cardinality(Pushed') \in Nat
      BY Counted DEF Popping, Pushed, At, Threads
    <3> QED
      BY <3>1, <3>2, <1>0
  <2> QED
    BY <2>1, <2>2 DEF Threads
<1>4. ASSUME NEW p \in Producers, PushItem(p) PROVE ConsumersCovered'
  <2>1. /\ Pushed' = Pushed \cup {p} /\ p \notin Pushed
        /\ Popping' = Popping /\ Empty' = Empty
    BY <1>4 DEF PushItem, IInv, TypeOK,
                goto, At, Empty, Popping, Pushed, Threads
  <2>2. Len(bq') = Len(bq) + 1
    BY <1>4 DEF PushItem, IInv, TypeOK, Carrying
  <2>3. Cardinality(Pushed') = Cardinality(Pushed) + 1
    BY <2>1, <1>0, OneMore DEF Threads
  <2> QED
    BY <2>1, <2>2, <2>3, <1>0
<1>5. ASSUME NEW p \in Producers, SignalEmpty(p) PROVE ConsumersCovered'
  <2>1. /\ Pushed' = Pushed \ {p} /\ p \in Pushed /\ bq' = bq
    BY <1>5 DEF SignalEmpty, Signal, IInv, TypeOK,
                goto, At, Empty, Popping, Pushed, Threads
  <2>2. Cardinality(Pushed') = Cardinality(Pushed) - 1 /\ Cardinality(Pushed') \in Nat
    BY <2>1, <1>0, OneLess
  <2>3. CASE Len(bq) < Capacity \div 2
    <3>1. Popping' = Popping
      BY <1>5, <2>3, <1>0 DEF SignalEmpty, IInv, TypeOK,
                              goto, At, Empty, Popping, Pushed, Threads
    <3>2. Len(bq) <= Unannounced
      BY <2>3, <1>0, BlockQueueAssumption DEF Unannounced
    <3> QED
      BY <3>1, <3>2, <2>1, <2>2, <1>0
  <2>4. CASE Empty = {}
    <3>1. Empty' = {}
      BY <1>5, <2>4 DEF SignalEmpty, Signal, IInv, TypeOK,
                        goto, At, Empty, Popping, Pushed, Threads
    <3> QED
      BY <3>1
  <2>5. CASE ~(Len(bq) < Capacity \div 2) /\ Empty # {}
    <3>1. PICK s \in Empty : pc' = [pc EXCEPT ![p] = "unlock", ![s] = "woken"]
      BY <1>5, <2>5, <1>0 DEF SignalEmpty, Signal, goto
    <3>2. Popping' = Popping \cup {s} /\ s \in Threads \ Popping
      BY <3>1, <2>1 DEF IInv, TypeOK,
                        goto, At, Empty, Popping, Pushed, Threads
    <3>3. Cardinality(Popping') = Cardinality(Popping) + 1
      BY <3>2, <1>0, OneMore
    <3> QED
      BY <3>3, <2>1, <2>2, <2>5, <1>0
  <2> QED
    BY <2>3, <2>4, <2>5
<1>6. ASSUME NEW c \in Consumers, ReadFront(c) \/ SignalFull(c) PROVE ConsumersCovered'
  <2>1. Popping' = Popping /\ Pushed' = Pushed /\ Empty' = Empty /\ bq' = bq
    BY <1>6 DEF ReadFront, SignalFull, Signal, Full, IInv, TypeOK,
                goto, At, Empty, Popping, Pushed, Threads
  <2> QED
    BY <2>1
<1>7. ASSUME NEW c \in Consumers, PopItem(c) PROVE ConsumersCovered'
  <2>1. /\ Popping' = Popping \ {c} /\ c \in Popping
        /\ Pushed' = Pushed /\ Empty' = Empty
    BY <1>7 DEF PopItem, IInv, TypeOK,
                goto, At, Empty, Popping, Pushed, Threads
  <2>2. Len(bq') = Len(bq) - 1
    BY <1>7 DEF PopItem, IInv, TypeOK, NoOverrun
  <2>3. Cardinality(Popping') = Cardinality(Popping) - 1
    BY <2>1, <1>0, OneLess
  <2> QED
    BY <2>1, <2>2, <2>3, <1>0
<1>8. CASE UNCHANGED vars
  BY <1>8 DEF vars, At, Empty, Popping, Pushed
<1> QED
  BY <1>1, <1>2, <1>3, <1>4, <1>5, <1>6, <1>7, <1>8 DEF Next, Step

\* BlockQueue.hpp:83: a signal from half the capacity on is enough for every item
\* above the threshold to have a consumer coming.
THEOREM ConsumersAreCovered == Spec => []ConsumersCovered
<1>1. Init => ConsumersCovered
  BY DEF Init, ConsumersCovered, Empty, At, Threads
<1> QED
  BY <1>1, InitInv, NextInv, ConsumersCoveredNext, PTL DEF Spec

\* The same for free places: the notification of pop() (BlockQueue.hpp:98).
LEMMA ProducersCoveredNext ==
    IInv /\ ProducersCovered /\ [Next]_vars => ProducersCovered'
<1> SUFFICES ASSUME IInv, ProducersCovered, [Next]_vars PROVE ProducersCovered'
  OBVIOUS
<1> USE BlockQueueAssumption DEF ProducersCovered
<1>0. /\ Len(bq) \in Nat
      /\ Pushing \in SUBSET Threads /\ Cardinality(Pushing) \in Nat
      /\ Popped \in SUBSET Threads /\ Cardinality(Popped) \in Nat
  BY Counted DEF IInv, TypeOK, Pushing, Popped, At, Threads
<1>1. ASSUME NEW t \in Threads, Call(t) \/ SpuriousWake(t) PROVE ProducersCovered'
  <2>1. CASE t \in Consumers
    <3>1. Pushing' = Pushing /\ Popped' = Popped /\ Full' = Full /\ bq' = bq
      BY <1>1, <2>1 DEF Call, SpuriousWake, IInv, TypeOK,
                        goto, At, Full, Pushing, Popped, Threads
    <3> QED
      BY <3>1
  <2>2. CASE t \in Producers
    <3>1. /\ Pushing' = Pushing \cup {t} /\ t \notin Pushing
          /\ Popped' = Popped /\ bq' = bq
          /\ Full' \subseteq Full
      BY <1>1, <2>2 DEF Call, SpuriousWake, IInv, TypeOK,
                        goto, At, Full, Pushing, Popped, Threads
    <3>2. Cardinality(Pushing') = Cardinality(Pushing) + 1
      BY <3>1, <1>0, OneMore
    <3> QED
      BY <3>1, <3>2, <1>0
  <2> QED
    BY <2>1, <2>2 DEF Threads
<1>2. ASSUME NEW t \in Threads, AcquireMtx(t) \/ Proceed(t) \/ ReleaseMtx(t)
      PROVE  ProducersCovered'
  <2>1. Pushing' = Pushing /\ Popped' = Popped /\ Full' = Full /\ bq' = bq
    BY <1>2 DEF AcquireMtx, Proceed, ReleaseMtx, IInv, TypeOK,
                goto, At, Full, Pushing, Popped, Threads
  <2> QED
    BY <2>1
<1>3. ASSUME NEW t \in Threads, Wait(t) PROVE ProducersCovered'
  <2>1. CASE t \in Consumers
    <3>1. Pushing' = Pushing /\ Popped' = Popped /\ Full' = Full /\ bq' = bq
      BY <1>3, <2>1 DEF Wait, IInv, TypeOK,
                        goto, At, Full, Pushing, Popped, Threads
    <3> QED
      BY <3>1
  <2>2. CASE t \in Producers
    <3>1. bq' = bq /\ Len(bq) = Capacity
      BY <1>3, <2>2 DEF Wait, isQueueFull
    <3>2. Cardinality(Pushing') \in Nat /\ Cardinality(Popped') \in Nat
      BY Counted DEF Pushing, Popped, At, Threads
    <3> QED
      BY <3>1, <3>2, <1>0
  <2> QED
    BY <2>1, <2>2 DEF Threads
<1>4. ASSUME NEW p \in Producers, PushItem(p) PROVE ProducersCovered'
  <2>1. /\ Pushing' = Pushing \ {p} /\ p \in Pushing
        /\ Popped' = Popped /\ Full' = Full
    BY <1>4 DEF PushItem, IInv, TypeOK, goto, At, Full, Pushing, Popped, Threads
  <2>2. Len(bq') = Len(bq) + 1
    BY <1>4 DEF PushItem, IInv, TypeOK, Carrying
  <2>3. Cardinality(Pushing') = Cardinality(Pushing) - 1
    BY <2>1, <1>0, OneLess
  <2> QED
    BY <2>1, <2>2, <2>3, <1>0
<1>5. ASSUME NEW p \in Producers, SignalEmpty(p) PROVE ProducersCovered'
  <2>1. Pushing' = Pushing /\ Popped' = Popped /\ Full' = Full /\ bq' = bq
    BY <1>5 DEF SignalEmpty, Signal, Empty, IInv, TypeOK,
                goto, At, Full, Pushing, Popped, Threads
  <2> QED
    BY <2>1
<1>6. ASSUME NEW c \in Consumers, ReadFront(c) PROVE ProducersCovered'
  <2>1. Pushing' = Pushing /\ Popped' = Popped /\ Full' = Full /\ bq' = bq
    BY <1>6 DEF ReadFront, IInv, TypeOK, goto, At, Full, Pushing, Popped, Threads
  <2> QED
    BY <2>1
<1>7. ASSUME NEW c \in Consumers, PopItem(c) PROVE ProducersCovered'
  <2>1. /\ Popped' = Popped \cup {c} /\ c \in Threads \ Popped
        /\ Pushing' = Pushing /\ Full' = Full
    BY <1>7 DEF PopItem, IInv, TypeOK, goto, At, Full, Pushing, Popped, Threads
  <2>2. Len(bq') = Len(bq) - 1
    BY <1>7 DEF PopItem, IInv, TypeOK, NoOverrun
  <2>3. Cardinality(Popped') = Cardinality(Popped) + 1
    BY <2>1, <1>0, OneMore
  <2> QED
    BY <2>1, <2>2, <2>3, <1>0
<1>8. ASSUME NEW c \in Consumers, SignalFull(c) PROVE ProducersCovered'
  <2>1. /\ Popped' = Popped \ {c} /\ c \in Popped /\ bq' = bq
    BY <1>8 DEF SignalFull, Signal, IInv, TypeOK,
                goto, At, Full, Pushing, Popped, Threads
  <2>2. Cardinality(Popped') = Cardinality(Popped) - 1 /\ Cardinality(Popped') \in Nat
    BY <2>1, <1>0, OneLess
  <2>3. CASE Full = {}
    <3>1. Full' = {}
      BY <1>8, <2>3 DEF SignalFull, Signal, IInv, TypeOK,
                        goto, At, Full, Pushing, Popped, Threads
    <3> QED
      BY <3>1
  <2>4. CASE Full # {}
    <3>1. PICK s \in Full : pc' = [pc EXCEPT ![c] = "unlock", ![s] = "woken"]
      BY <1>8, <2>4 DEF SignalFull, Signal
    <3>2. Pushing' = Pushing \cup {s} /\ s \in Threads \ Pushing
      BY <3>1, <2>1 DEF IInv, TypeOK, goto, At, Full, Pushing, Popped, Threads
    <3>3. Cardinality(Pushing') = Cardinality(Pushing) + 1
      BY <3>2, <1>0, OneMore
    <3> QED
      BY <3>3, <2>1, <2>2, <2>4, <1>0
  <2> QED
    BY <2>3, <2>4
<1>9. CASE UNCHANGED vars
  BY <1>9 DEF vars, At, Full, Pushing, Popped
<1> QED
  BY <1>1, <1>2, <1>3, <1>4, <1>5, <1>6, <1>7, <1>8, <1>9 DEF Next, Step

\* BlockQueue.hpp:98: the notification of every pop() covers every free place.
THEOREM ProducersAreCovered == Spec => []ProducersCovered
<1>1. Init => ProducersCovered
  BY DEF Init, ProducersCovered, Full, At, Threads
<1> QED
  BY <1>1, InitInv, NextInv, ProducersCoveredNext, PTL DEF Spec

\* BlockQueue.hpp:83: the threshold never exceeds the capacity, so the producers
\* fall asleep on a full queue only after a consumer has been told of it.
THEOREM SomebodyAwake == Spec => []NotAllAsleep
<1>1. IInv /\ ConsumersCovered /\ ProducersCovered => NotAllAsleep
  <2> SUFFICES ASSUME IInv, ConsumersCovered, ProducersCovered,
                      \A t \in Threads : pc[t] = "asleep"
               PROVE  FALSE
    BY DEF NotAllAsleep
  <2>1. Empty # {} /\ Full # {}
    BY BlockQueueAssumption DEF Empty, Full, At, Threads
  <2>2. Popping = {} /\ Pushing = {} /\ Pushed = {} /\ Popped = {}
    BY DEF Popping, Pushing, Pushed, Popped, At, Threads
  <2>3. Len(bq) <= Unannounced /\ Capacity <= Len(bq)
    BY <2>1, <2>2, FS_EmptySet, BlockQueueAssumption
       DEF ConsumersCovered, ProducersCovered, IInv, TypeOK, Unannounced
  <2> QED
    BY <2>3, BlockQueueAssumption DEF Unannounced, IInv, TypeOK
<1>2. Spec => []IInv
  BY InitInv, NextInv, PTL DEF Spec
<1> QED
  BY <1>1, <1>2, ConsumersAreCovered, ProducersAreCovered, PTL

-----------------------------------------------------------------------------
\* The implementation of the bounded FIFO: every step of push() and pop() is a
\* step of BoundedFifo or leaves its variables alone.
LEMMA FifoInit == Init => Fifo!Init
BY DEF Init, Fifo!Init, AbsFifo, AbsHand, Threads

\* Only the owner of the mutex can be between front() and pop().
LEMMA OneInside ==
    ASSUME IInv, NEW t \in Threads, pc[t] \in {"body", "drop"}
    PROVE  /\ pc[t] = "body" => AbsFifo = bq
           /\ pc[t] = "drop" => AbsFifo = Tail(bq)
           /\ \A u \in Threads \ {t} : pc[u] # "drop"
BY DEF IInv, LockDiscipline, Carrying, AbsFifo, Threads

\* The step simulation: __bq.push() puts, front() gets, and the rest of push() and
\* pop() is invisible to BoundedFifo.
LEMMA FifoStep == IInv /\ [Next]_vars => [Fifo!Next]_<<AbsFifo, AbsHand>>
<1> SUFFICES ASSUME IInv, [Next]_vars PROVE [Fifo!Next]_<<AbsFifo, AbsHand>>
  OBVIOUS
<1> USE BlockQueueAssumption DEF IInv, TypeOK, Threads, goto
<1>1. ASSUME NEW p \in Producers, Call(p) PROVE Fifo!Offer(p)
  <2>1. PICK v \in Items : arg' = [arg EXCEPT ![p] = v]
    BY <1>1 DEF Call
  <2>2. AbsHand[p] = NoItem /\ AbsHand' = [AbsHand EXCEPT ![p] = v]
    BY <1>1, <2>1 DEF Call, AbsHand
  <2>3. AbsFifo' = AbsFifo
    BY <1>1 DEF Call, AbsFifo
  <2> QED
    BY <2>2, <2>3 DEF Fifo!Offer
<1>2. ASSUME NEW c \in Consumers, Call(c)
      PROVE  Fifo!Use(c) \/ UNCHANGED <<AbsFifo, AbsHand>>
  <2>1. AbsHand' = [AbsHand EXCEPT ![c] = NoItem] /\ AbsHand[c] = arg[c]
    BY <1>2 DEF Call, AbsHand
  <2>2. AbsFifo' = AbsFifo
    BY <1>2 DEF Call, AbsFifo
  <2>3. CASE arg[c] = NoItem
    BY <2>1, <2>2, <2>3 DEF AbsHand
  <2>4. CASE arg[c] # NoItem
    BY <2>1, <2>2, <2>4 DEF Fifo!Use
  <2> QED
    BY <2>3, <2>4
<1>3. ASSUME NEW t \in Threads,
             AcquireMtx(t) \/ Wait(t) \/ Proceed(t) \/ ReleaseMtx(t) \/ SpuriousWake(t)
      PROVE  UNCHANGED <<AbsFifo, AbsHand>>
  BY <1>3 DEF AcquireMtx, Wait, Proceed, ReleaseMtx, SpuriousWake, AbsFifo, AbsHand
<1>4. ASSUME NEW t \in Threads,
             \/ t \in Producers /\ SignalEmpty(t)
             \/ t \in Consumers /\ SignalFull(t)
      PROVE  UNCHANGED <<AbsFifo, AbsHand>>
  <2>1. pc[t] = "signal" /\ bq' = bq /\ arg' = arg
    BY <1>4 DEF SignalEmpty, SignalFull
  <2>2. \/ pc' = [pc EXCEPT ![t] = "unlock"]
        \/ \E s \in Threads : /\ pc[s] = "asleep"
                              /\ pc' = [pc EXCEPT ![t] = "unlock", ![s] = "woken"]
    BY <1>4 DEF SignalEmpty, SignalFull, Signal, Empty, Full, At
  <2> QED
    BY <2>1, <2>2 DEF AbsFifo, AbsHand
<1>5. ASSUME NEW p \in Producers, PushItem(p) PROVE Fifo!Put(p)
  <2>1. AbsFifo = bq /\ AbsFifo' = Append(bq, arg[p]) /\ Len(bq) < Capacity
    BY <1>5, OneInside DEF PushItem, AbsFifo, NoOverrun
  <2>2. AbsHand[p] = arg[p] /\ arg[p] # NoItem
    BY <1>5 DEF PushItem, AbsHand, Carrying
  <2>3. AbsHand' = [AbsHand EXCEPT ![p] = NoItem]
    BY <1>5 DEF PushItem, AbsHand
  <2> QED
    BY <2>1, <2>2, <2>3 DEF Fifo!Put
<1>6. ASSUME NEW c \in Consumers, ReadFront(c) PROVE Fifo!Get(c)
  <2>1. AbsFifo = bq /\ AbsFifo' = Tail(bq) /\ bq # <<>>
    BY <1>6, OneInside DEF ReadFront, AbsFifo, NoOverrun
  <2>2. AbsHand[c] = NoItem
    BY <1>6 DEF ReadFront, AbsHand, Carrying
  <2>3. AbsHand' = [AbsHand EXCEPT ![c] = Head(bq)]
    BY <1>6 DEF ReadFront, AbsHand
  <2> QED
    BY <2>1, <2>2, <2>3 DEF Fifo!Get
<1>7. ASSUME NEW c \in Consumers, PopItem(c) PROVE UNCHANGED <<AbsFifo, AbsHand>>
  <2>1. AbsFifo = Tail(bq) /\ AbsFifo' = Tail(bq)
    BY <1>7, OneInside DEF PopItem, AbsFifo
  <2>2. AbsHand' = AbsHand
    BY <1>7 DEF PopItem, AbsHand
  <2> QED
    BY <2>1, <2>2
<1>8. CASE UNCHANGED vars
  BY <1>8 DEF vars, AbsFifo, AbsHand
<1> QED
  BY <1>1, <1>2, <1>3, <1>4, <1>5, <1>6, <1>7, <1>8 DEF Next, Step, Fifo!Next

\* BlockQueue.hpp:50-100: nothing is lost, duplicated or reordered.
THEOREM Implementation == Spec => ImplementsFifo
<1>1. Spec => []IInv
  BY InitInv, NextInv, PTL DEF Spec
<1> QED
  BY <1>1, FifoInit, FifoStep, PTL DEF Spec, ImplementsFifo, Fifo!Spec

=============================================================================
