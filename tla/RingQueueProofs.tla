--------------------------- MODULE RingQueueProofs --------------------------
(***************************************************************************)
(* Theorems about RingQueue, for every number of threads, every size of    *)
(* the ring and every set of items.                                        *)
(***************************************************************************)
EXTENDS RingQueue, FiniteSetTheorems, SequenceTheorems, TLAPS

\* What the %= of ringQueue.hpp:46 and 57 computes for the indices that occur.
LEMMA Remainder == \A a \in 0 .. 2 * Size - 1 :
                      a % Size = IF a < Size THEN a ELSE a - Size
<1>1. \A n \in Nat \ {0} : \A a \in 0 .. n - 1 : a % n = a
  OBVIOUS
<1>2. \A n \in Nat \ {0} : \A a \in n .. 2 * n - 1 : a % n = a - n
  OBVIOUS
<1>3. ASSUME NEW a \in 0 .. 2 * Size - 1
      PROVE  a % Size = IF a < Size THEN a ELSE a - Size
  <2>1. Size \in Nat \ {0}
    BY RingQueueAssumption
  <2>2. CASE a < Size
    <3>1. a \in 0 .. Size - 1
      BY <2>1, <2>2
    <3> QED
      BY <3>1, <2>1, <2>2, <1>1
  <2>3. CASE ~(a < Size)
    <3>1. a \in Size .. 2 * Size - 1
      BY <2>1, <2>3
    <3> QED
      BY <3>1, <2>1, <2>3, <1>2
  <2> QED
    BY <2>2, <2>3
<1> QED
  BY <1>3

\* Groups of threads are finite and can be counted.
LEMMA Counted == \A S \in SUBSET Threads : IsFiniteSet(S) /\ Cardinality(S) \in Nat
BY RingQueueAssumption, FS_Subset, FS_CardinalityType

\* Adding a thread to a group of threads, or removing one, counts as one.
LEMMA OneMore == \A S \in SUBSET Threads : \A t \in Threads \ S :
                    Cardinality(S \cup {t}) = Cardinality(S) + 1
BY Counted, FS_AddElement

\* ... and so does removing one.
LEMMA OneLess == \A S \in SUBSET Threads : \A t \in S :
                    /\ Cardinality(S \ {t}) = Cardinality(S) - 1
                    /\ Cardinality(S \ {t}) \in Nat
BY Counted, FS_RemoveElement

\* Threads that announce an item and threads that load one hold a token each.
LEMMA TokenHolders ==
    /\ Booked \in SUBSET Threads
    /\ Announcing \in SUBSET Booked /\ Loading \in SUBSET Booked
    /\ Announcing \cap Loading = {}
    /\ Cardinality(Booked) \in Nat
    /\ Cardinality(Announcing) \in Nat /\ Cardinality(Loading) \in Nat
    /\ Cardinality(Announcing \cup Loading) = Cardinality(Announcing) + Cardinality(Loading)
    /\ Cardinality(Announcing \cup Loading) <= Cardinality(Booked)
<1>1. /\ Booked \in SUBSET Threads
      /\ Announcing \in SUBSET Booked /\ Loading \in SUBSET Booked
      /\ Announcing \cap Loading = {}
  BY RingQueueAssumption DEF Booked, Announcing, Loading, At, Threads
<1>2. IsFiniteSet(Announcing) /\ IsFiniteSet(Loading) /\ IsFiniteSet(Booked)
  BY <1>1, Counted
<1>3. Cardinality(Announcing \cup Loading) =
        Cardinality(Announcing) + Cardinality(Loading) - Cardinality({})
  BY <1>1, <1>2, FS_Union
<1>4. Cardinality(Announcing \cup Loading) <= Cardinality(Booked)
  BY <1>1, <1>2, FS_Subset
<1> QED
  BY <1>1, <1>3, <1>4, Counted, FS_EmptySet

\* So the items stored fill at most the slots that are not bookable, and a
\* producer at its slot has one more to itself.
LEMMA StoredBound ==
    ASSUME IInv
    PROVE  /\ Stored \in 0 .. Size
           /\ Loading # {} => Stored >= 1
           /\ At(Producers, {"lock", "slot"}) # {} => Stored < Size
<1>1. sem["push"] \in Nat /\ sem["pop"] \in Nat /\ Size \in Nat
  BY RingQueueAssumption DEF IInv, TypeOK, Sides
<1>2. Stored \in 0 .. Size
  BY <1>1, TokenHolders DEF IInv, TokensConserved, Stored
<1>3. ASSUME NEW c \in Loading PROVE Stored >= 1
  <2>1. Cardinality(Loading) - 1 \in Nat
    BY <1>3, TokenHolders, OneLess
  <2> QED
    BY <2>1, <1>1, TokenHolders DEF Stored
<1>4. ASSUME NEW p \in At(Producers, {"lock", "slot"}) PROVE Stored < Size
  <2>1. /\ p \in Booked /\ p \in Threads
        /\ p \notin Announcing \cup Loading
        /\ Announcing \cup Loading \in SUBSET (Booked \ {p})
    BY <1>4, RingQueueAssumption DEF Booked, Announcing, Loading, At, Threads
  <2>2. Cardinality(Booked \ {p}) = Cardinality(Booked) - 1
    BY <2>1, TokenHolders, OneLess
  <2>3. Cardinality(Announcing \cup Loading) <= Cardinality(Booked \ {p})
    BY <2>1, TokenHolders, Counted, FS_Subset
  <2> QED
    BY <2>2, <2>3, <1>1, TokenHolders DEF IInv, TokensConserved, Stored
<1> QED
  BY <1>2, <1>3, <1>4

-----------------------------------------------------------------------------
\* The constructor's state: all slots free and bookable, both indices at zero.
LEMMA InitInv == Init => IInv
<1> SUFFICES ASSUME Init PROVE IInv
  OBVIOUS
<1>1. Booked = {} /\ Announcing = {} /\ Loading = {}
  BY DEF Init, Booked, Announcing, Loading, At, Threads
<1>2. TokensConserved /\ Aligned
  BY <1>1, FS_EmptySet, RingQueueAssumption
     DEF Init, TokensConserved, Aligned, index, Stored, Sides
<1>3. TypeOK
  BY RingQueueAssumption DEF Init, TypeOK, Sides
<1>4. LockDiscipline /\ Carrying /\ Wrapping
  BY RingQueueAssumption
     DEF Init, LockDiscipline, Carrying, Wrapping, Threads, side, Sides
<1> QED
  BY <1>2, <1>3, <1>4 DEF IInv

\* The control part of the invariant, the semaphores' range left to the tokens:
\* each mutex orders the threads of its side, and an index is wrapped before the
\* mutex is let go.
Control ==
    /\ ring \in [0 .. Size - 1 -> Items \cup {NoItem}]
    /\ step \in [Sides -> 0 .. Size]
    /\ lock \in [Sides -> Threads \cup {Nobody}]
    /\ pc \in [Threads -> {"idle", "wait", "lock", "slot", "wrap", "unlock", "post"}]
    /\ arg \in [Threads -> Items \cup {NoItem}]
    /\ sem \in [Sides -> Nat]
    /\ LockDiscipline /\ Carrying /\ Wrapping

\* Every step of push() and pop() keeps it.
LEMMA ControlNext == IInv /\ [Next]_vars => Control'
<1> SUFFICES ASSUME IInv, [Next]_vars PROVE Control'
  OBVIOUS
<1> USE RingQueueAssumption
        DEF IInv, TypeOK, Control, LockDiscipline, Carrying, Wrapping, Threads,
            goto, Sides, side, other
<1>1. ASSUME NEW t \in Threads, Call(t) PROVE Control'
  BY <1>1 DEF Call
<1>2. ASSUME NEW t \in Threads, SemWait(t) PROVE Control'
  BY <1>2 DEF SemWait
<1>3. ASSUME NEW t \in Threads, Acquire(t) PROVE Control'
  BY <1>3 DEF Acquire
<1>4. ASSUME NEW p \in Producers, Store(p) PROVE Control'
  BY <1>4 DEF Store
<1>5. ASSUME NEW c \in Consumers, Load(c) PROVE Control'
  BY <1>5 DEF Load
<1>6. ASSUME NEW t \in Threads, Wrap(t) PROVE Control'
  <2>1. step[side(t)] % Size \in 0 .. Size - 1
    BY Remainder
  <2> QED
    BY <1>6, <2>1 DEF Wrap
<1>7. ASSUME NEW t \in Threads, Release(t) PROVE Control'
  BY <1>7 DEF Release
<1>8. ASSUME NEW t \in Threads, SemPost(t) PROVE Control'
  BY <1>8 DEF SemPost
<1>9. CASE UNCHANGED vars
  BY <1>9 DEF vars
<1> QED
  BY <1>1, <1>2, <1>3, <1>4, <1>5, <1>6, <1>7, <1>8, <1>9 DEF Next, Step

\* How the counts and the indices move.  Every step but the two accesses to the
\* ring passes a token on and leaves what is stored where it is.
Quiet == \/ UNCHANGED vars
         \/ \E t \in Threads : \/ Call(t) \/ SemWait(t) \/ Acquire(t)
                               \/ Wrap(t) \/ Release(t) \/ SemPost(t)

\* The ranges the arithmetic below relies on.
LEMMA Ranges ==
    ASSUME IInv
    PROVE  /\ sem["push"] \in Nat /\ sem["pop"] \in Nat
           /\ index("push") \in 0 .. Size - 1 /\ index("pop") \in 0 .. Size - 1
           /\ Booked \in SUBSET Threads
           /\ Announcing \in SUBSET Threads /\ Loading \in SUBSET Threads
           /\ Cardinality(Booked) \in Nat
           /\ Cardinality(Announcing) \in Nat /\ Cardinality(Loading) \in Nat
<1>1. sem["push"] \in Nat /\ sem["pop"] \in Nat
  BY RingQueueAssumption DEF IInv, TypeOK, Sides
<1>2. index("push") \in 0 .. Size - 1 /\ index("pop") \in 0 .. Size - 1
  BY RingQueueAssumption DEF IInv, TypeOK, Sides, index
<1> QED
  BY <1>1, <1>2, TokenHolders

\* A quiet step: a booking, an announcement, a mutex or the %=.
LEMMA QuietStep ==
    ASSUME IInv, Quiet
    PROVE  /\ TokensConserved'
           /\ Stored' = Stored
           /\ index("push")' = index("push") /\ index("pop")' = index("pop")
<1> USE RingQueueAssumption DEF TokensConserved, Stored
<1> DEFINE Sets == <<Booked, Announcing, Loading>>
           Turns == index("push")' = index("push") /\ index("pop")' = index("pop")
           Goal == TokensConserved' /\ Stored' = Stored /\ Turns
<1>1. ASSUME \/ UNCHANGED vars
             \/ \E t \in Threads : Call(t) \/ Acquire(t) \/ Release(t)
      PROVE  Goal
  <2>1. Sets' = Sets /\ Turns /\ sem' = sem
    BY <1>1 DEF vars, Call, Acquire, Release, goto, IInv, TypeOK,
                Booked, Announcing, Loading, At, Threads, index
  <2> QED
    BY <2>1 DEF IInv
<1>2. ASSUME NEW t \in Threads, SemWait(t) PROVE Goal
  <2>1. /\ Booked' = Booked \cup {t} /\ t \in Threads \ Booked
        /\ Announcing' = Announcing /\ Turns
    BY <1>2 DEF SemWait, goto, IInv, TypeOK,
                Booked, Announcing, At, Threads, index
  <2>2. Cardinality(Booked') = Cardinality(Booked) + 1
    BY <2>1, Ranges, OneMore
  <2>3. CASE t \in Producers
    <3>1. /\ Loading' = Loading
          /\ sem'["push"] = sem["push"] - 1 /\ sem'["pop"] = sem["pop"]
      BY <1>2, <2>3 DEF SemWait, side, Sides, goto, IInv, TypeOK, Loading, At, Threads
    <3> QED
      BY <3>1, <2>1, <2>2, Ranges DEF IInv
  <2>4. CASE t \in Consumers
    <3>1. /\ Loading' = Loading \cup {t} /\ t \in Threads \ Loading
          /\ sem'["pop"] = sem["pop"] - 1 /\ sem'["push"] = sem["push"]
      BY <1>2, <2>4 DEF SemWait, side, Sides, goto, IInv, TypeOK, Loading, At, Threads
    <3>2. Cardinality(Loading') = Cardinality(Loading) + 1
      BY <3>1, Ranges, OneMore
    <3> QED
      BY <3>1, <3>2, <2>1, <2>2, Ranges DEF IInv
  <2> QED
    BY <2>3, <2>4 DEF Threads
<1>3. ASSUME NEW t \in Threads, SemPost(t) PROVE Goal
  <2>1. /\ Booked' = Booked \ {t} /\ t \in Booked
        /\ Loading' = Loading /\ Turns
    BY <1>3 DEF SemPost, goto, IInv, TypeOK, Booked, Loading, At, Threads, index
  <2>2. Cardinality(Booked') = Cardinality(Booked) - 1
    BY <2>1, Ranges, OneLess
  <2>3. CASE t \in Consumers
    <3>1. /\ Announcing' = Announcing
          /\ sem'["push"] = sem["push"] + 1 /\ sem'["pop"] = sem["pop"]
      BY <1>3, <2>3 DEF SemPost, other, Sides, goto, IInv, TypeOK, Announcing, At, Threads
    <3> QED
      BY <3>1, <2>1, <2>2, Ranges DEF IInv
  <2>4. CASE t \in Producers
    <3>1. /\ Announcing' = Announcing \ {t} /\ t \in Announcing
          /\ sem'["pop"] = sem["pop"] + 1 /\ sem'["push"] = sem["push"]
      BY <1>3, <2>4 DEF SemPost, other, Sides, goto, IInv, TypeOK, Announcing, At, Threads
    <3>2. Cardinality(Announcing') = Cardinality(Announcing) - 1
      BY <3>1, Ranges, OneLess
    <3> QED
      BY <3>1, <3>2, <2>1, <2>2, Ranges DEF IInv
  <2> QED
    BY <2>3, <2>4 DEF Threads
<1>4. ASSUME NEW t \in Threads, Wrap(t) PROVE Goal
  <2>1. Sets' = Sets /\ sem' = sem
    BY <1>4 DEF Wrap, goto, IInv, TypeOK, Booked, Announcing, Loading, At, Threads
  <2>2. step[side(t)] % Size = index(side(t)) /\ side(t) \in Sides
    <3>1. side(t) \in Sides
      BY DEF side, Sides
    <3>2. step[side(t)] \in 0 .. Size
      BY <3>1 DEF IInv, TypeOK
    <3>3. step[side(t)] \in 0 .. 2 * Size - 1
      BY <3>2
    <3> QED
      BY <3>1, <3>2, <3>3, Remainder DEF index
  <2>3. Turns
    BY <1>4, <2>2, Ranges DEF Wrap, IInv, TypeOK, index, Sides
  <2> QED
    BY <2>1, <2>3 DEF IInv
<1> QED
  BY <1>1, <1>2, <1>3, <1>4 DEF Quiet

\* ringQueue.hpp:45: one more item is stored, one place further on.
LEMMA StoreStep ==
    ASSUME IInv, NEW p \in Producers, Store(p)
    PROVE  /\ TokensConserved' /\ Stored' = Stored + 1
           /\ Stored < Size
           /\ step["push"] < Size
           /\ index("push")' = IF index("push") + 1 = Size THEN 0 ELSE index("push") + 1
           /\ index("pop")' = index("pop")
<1> USE RingQueueAssumption
<1>1. /\ Announcing' = Announcing \cup {p} /\ p \in Threads \ Announcing
      /\ Booked' = Booked /\ Loading' = Loading /\ sem' = sem
  BY DEF Store, goto, IInv, TypeOK, Booked, Announcing, Loading, At, Threads
<1>2. Cardinality(Announcing') = Cardinality(Announcing) + 1
  BY <1>1, Ranges, OneMore
<1>3. Stored < Size
  BY StoredBound DEF Store, goto, At
<1>4. step["push"] < Size
  BY DEF Store, goto, IInv, TypeOK, LockDiscipline, Wrapping, Sides, side, Threads
<1>5. /\ index("push")' = IF index("push") + 1 = Size THEN 0 ELSE index("push") + 1
      /\ index("pop")' = index("pop")
  BY <1>4 DEF Store, IInv, TypeOK, index, Sides
<1>6. TokensConserved' /\ Stored' = Stored + 1
  BY <1>1, <1>2, Ranges DEF IInv, TokensConserved, Stored
<1> QED
  BY <1>3, <1>4, <1>5, <1>6

\* ringQueue.hpp:56: one item fewer, the consumers' index one place further on.
LEMMA LoadStep ==
    ASSUME IInv, NEW c \in Consumers, Load(c)
    PROVE  /\ TokensConserved' /\ Stored' = Stored - 1
           /\ Stored >= 1
           /\ step["pop"] < Size
           /\ index("pop")' = IF index("pop") + 1 = Size THEN 0 ELSE index("pop") + 1
           /\ index("push")' = index("push")
<1> USE RingQueueAssumption
<1>1. /\ Loading' = Loading \ {c} /\ c \in Loading
      /\ Booked' = Booked /\ Announcing' = Announcing /\ sem' = sem
  BY DEF Load, goto, IInv, TypeOK, Booked, Announcing, Loading, At, Threads
<1>2. Cardinality(Loading') = Cardinality(Loading) - 1
  BY <1>1, Ranges, OneLess
<1>3. Stored >= 1
  BY <1>1, StoredBound
<1>4. step["pop"] < Size
  BY DEF Load, goto, IInv, TypeOK, LockDiscipline, Wrapping, Sides, side, Threads
<1>5. /\ index("pop")' = IF index("pop") + 1 = Size THEN 0 ELSE index("pop") + 1
      /\ index("push")' = index("push")
  BY <1>4 DEF Load, IInv, TypeOK, index, Sides
<1>6. TokensConserved' /\ Stored' = Stored - 1
  BY <1>1, <1>2, Ranges DEF IInv, TokensConserved, Stored
<1> QED
  BY <1>3, <1>4, <1>5, <1>6

\* The tokens and the alignment of the two indices with what is stored.
LEMMA CountsNext == IInv /\ [Next]_vars => (TokensConserved /\ Aligned)'
<1> SUFFICES ASSUME IInv, [Next]_vars PROVE (TokensConserved /\ Aligned)'
  OBVIOUS
<1>1. CASE Quiet
  BY <1>1, QuietStep DEF IInv, Aligned
<1>2. ASSUME NEW p \in Producers, Store(p) PROVE (TokensConserved /\ Aligned)'
  BY <1>2, StoreStep, StoredBound, Ranges, RingQueueAssumption DEF IInv, Aligned
<1>3. ASSUME NEW c \in Consumers, Load(c) PROVE (TokensConserved /\ Aligned)'
  BY <1>3, LoadStep, StoredBound, Ranges, RingQueueAssumption DEF IInv, Aligned
<1> QED
  BY <1>1, <1>2, <1>3 DEF Next, Step, Quiet

\* Control, tokens and alignment together; the tokens bound the semaphores.
LEMMA NextInv == IInv /\ [Next]_vars => IInv'
<1> SUFFICES ASSUME IInv, [Next]_vars PROVE IInv'
  OBVIOUS
<1>1. Control' /\ (TokensConserved /\ Aligned)'
  BY ControlNext, CountsNext
<1>2. sem' \in [Sides -> Nat] /\ Cardinality(Booked)' \in Nat
  <2>1. Booked' \in SUBSET Threads
    BY DEF Booked, At
  <2> QED
    BY <1>1, <2>1, Counted DEF Control
<1>3. sem' \in [Sides -> 0 .. Size]
  BY <1>1, <1>2, RingQueueAssumption DEF TokensConserved, Sides
<1> QED
  BY <1>1, <1>3 DEF Control, IInv, TypeOK

\* Indices, tokens and items keep their ranges: no index is ever beyond the
\* size, nor a semaphore (ringQueue.hpp:45-46, 56-57).
THEOREM TypeCorrect == Spec => []TypeOK
<1>1. IInv => TypeOK
  BY DEF IInv
<1> QED
  BY InitInv, NextInv, <1>1, PTL DEF Spec

\* Every slot is counted once by the two semaphores and the threads between them.
THEOREM TokensAreConserved == Spec => []TokensConserved
<1>1. IInv => TokensConserved
  BY DEF IInv
<1> QED
  BY InitInv, NextInv, <1>1, PTL DEF Spec

\* ringQueue.hpp:45 and 56: with no lock in common, a store and a load never meet
\* at a slot.  A consumer at its slot has an item stored, a producer at its slot
\* has a place free, so the indices, which are Stored apart, differ.
THEOREM SlotsAreApart == Spec => []NoSlotRace
<1>1. IInv => NoSlotRace
  <2> SUFFICES ASSUME IInv PROVE NoSlotRace
    OBVIOUS
  <2>1. ASSUME NEW t \in At(Threads, {"slot"})
        PROVE  step[side(t)] < Size /\ index(side(t)) = step[side(t)]
    BY <2>1, RingQueueAssumption
       DEF At, IInv, TypeOK, LockDiscipline, Wrapping, Sides, side, index
  <2>2. ASSUME NEW p \in At(Producers, {"slot"}), NEW c \in At(Consumers, {"slot"})
        PROVE  step["push"] # step["pop"]
    <3>1. index("push") = step["push"] /\ index("pop") = step["pop"]
      BY <2>1, RingQueueAssumption DEF At, side, Threads
    <3>2. Stored \in 0 .. Size /\ Stored >= 1 /\ Stored < Size
      BY <2>2, StoredBound DEF At, Loading
    <3> QED
      BY <3>1, <3>2, RingQueueAssumption DEF IInv, TypeOK, Aligned, Sides
  <2> QED
    BY <2>1, <2>2 DEF NoSlotRace
<1> QED
  BY InitInv, NextInv, <1>1, PTL DEF Spec

-----------------------------------------------------------------------------
\* The slot of the i-th stored item, when the consumers' index is at a.
Place(a, i) == IF a + i - 1 < Size THEN a + i - 1 ELSE a + i - 1 - Size

\* The index expression of the refinement mapping, without the remainder.
LEMMA PlaceOf ==
    \A a \in 0 .. Size : \A i \in 1 .. Size :
        (a + i - 1) % Size = Place(IF a = Size THEN 0 ELSE a, i)
<1> SUFFICES ASSUME NEW a \in 0 .. Size, NEW i \in 1 .. Size
             PROVE  (a + i - 1) % Size = Place(IF a = Size THEN 0 ELSE a, i)
  OBVIOUS
<1>1. PICK b \in 0 .. 2 * Size - 1 : b = a + i - 1
  BY RingQueueAssumption
<1>2. b % Size = IF b < Size THEN b ELSE b - Size
  BY Remainder
<1>3. Place(a, i) = IF b < Size THEN b ELSE b - Size
  BY <1>1, RingQueueAssumption DEF Place
<1>4. a = Size => Place(0, i) = IF b < Size THEN b ELSE b - Size
  BY <1>1, RingQueueAssumption DEF Place
<1> QED
  BY <1>1, <1>2, <1>3, <1>4

\* What is stored, seen as a sequence.
Contents(r, a, n) == [i \in 1 .. n |-> r[Place(a, i)]]

StoredFits == Stored \in 0 .. Size

\* In an inductive state, and in its successor, at most Size items are stored.
LEMMA StoredRange == IInv => StoredFits
BY StoredBound DEF StoredFits

\* The same for the next state.
LEMMA StoredRangeNext == IInv' => StoredFits'
BY StoredRange, PTL

\* The mapped queue, before and after a step, in these terms.
LEMMA AbsFifoIs ==
    ASSUME IInv, IInv'
    PROVE  /\ AbsFifo = Contents(ring, index("pop"), Stored)
           /\ AbsFifo' = Contents(ring', index("pop")', Stored')
<1> DEFINE pop == step["pop"]
<1>1. pop \in 0 .. Size /\ pop' \in 0 .. Size
  BY DEF IInv, TypeOK, Sides
<1>2. Stored \in 0 .. Size /\ Stored' \in 0 .. Size /\ Size \in Nat
  BY StoredRange, StoredRangeNext, RingQueueAssumption DEF StoredFits
<1>3. ASSUME NEW i \in 1 .. Stored PROVE (pop + i - 1) % Size = Place(index("pop"), i)
  <2>1. i \in 1 .. Size
    BY <1>2
  <2> QED
    BY <2>1, <1>1, PlaceOf DEF index
<1>4. ASSUME NEW i \in 1 .. Stored' PROVE (pop' + i - 1) % Size = Place(index("pop")', i)
  <2>1. i \in 1 .. Size
    BY <1>2
  <2> QED
    BY <2>1, <1>1, PlaceOf DEF index
<1> QED
  BY <1>3, <1>4 DEF AbsFifo, Contents

\* A store lands behind the last stored item and on none of them.
LEMMA StoreAppends ==
    ASSUME IInv, IInv', NEW p \in Producers, Store(p)
    PROVE  AbsFifo' = Append(AbsFifo, arg[p]) /\ Len(AbsFifo) < Size
<1> DEFINE a == index("pop")
           n == Stored
<1>1. a \in 0 .. Size - 1 /\ n \in 0 .. Size - 1 /\ n + 1 \in 1 .. Size /\ Size \in Nat
  BY StoreStep, StoredBound, Ranges, RingQueueAssumption
<1>2. /\ step["push"] = index("push") /\ index("push") = Place(a, n + 1)
      /\ index("pop")' = a /\ Stored' = n + 1
      /\ ring' = [ring EXCEPT ![step["push"]] = arg[p]]
  <2>1. step["push"] = index("push")
    BY <1>1, StoreStep DEF IInv, TypeOK, Sides, index
  <2>2. index("push") = Place(a, n + 1)
    BY <1>1, Ranges DEF IInv, Aligned, Place
  <2> QED
    BY <2>1, <2>2, StoreStep DEF Store
<1>3. \A i \in 1 .. n : Place(a, i) \in 0 .. Size - 1 /\ Place(a, i) # Place(a, n + 1)
  BY <1>1 DEF Place
<1>4. AbsFifo = Contents(ring, a, n) /\ AbsFifo' = Contents(ring', a, n + 1)
  BY <1>2, AbsFifoIs
<1>5. Place(a, n + 1) \in 0 .. Size - 1
  BY <1>1 DEF Place
<1>6. \A i \in 1 .. n : ring'[Place(a, i)] = ring[Place(a, i)]
  BY <1>2, <1>3 DEF IInv, TypeOK
<1>7. ring'[Place(a, n + 1)] = arg[p]
  BY <1>2, <1>5 DEF IInv, TypeOK
<1> HIDE DEF a, n
<1>8. Len(Contents(ring, a, n)) = n
  BY <1>1 DEF Contents
<1>9. Contents(ring', a, n + 1) = Append(Contents(ring, a, n), arg[p])
  BY <1>1, <1>6, <1>7, <1>8 DEF Contents
<1> QED
  BY <1>1, <1>4, <1>8, <1>9

\* A load takes the first stored item.
LEMMA LoadTakesHead ==
    ASSUME IInv, IInv', NEW c \in Consumers, Load(c)
    PROVE  /\ AbsFifo # <<>>
           /\ arg' = [arg EXCEPT ![c] = Head(AbsFifo)]
           /\ AbsFifo' = Tail(AbsFifo)
<1> DEFINE a == index("pop")
           b == index("pop")'
           n == Stored
<1>1. a \in 0 .. Size - 1 /\ n \in 1 .. Size /\ Size \in Nat
  BY LoadStep, StoredBound, Ranges, RingQueueAssumption
<1>2. /\ step["pop"] = a /\ b = IF a + 1 = Size THEN 0 ELSE a + 1
      /\ Stored' = n - 1 /\ ring' = ring
      /\ arg' = [arg EXCEPT ![c] = ring[a]]
  <2>1. step["pop"] = a
    BY <1>1, LoadStep DEF IInv, TypeOK, Sides, index
  <2> QED
    BY <2>1, LoadStep DEF Load
<1>3. Place(a, 1) = a /\ \A i \in 1 .. n - 1 : Place(b, i) = Place(a, i + 1)
  BY <1>1, <1>2 DEF Place
<1>4. AbsFifo = Contents(ring, a, n) /\ AbsFifo' = Contents(ring, b, n - 1)
  BY <1>2, AbsFifoIs
<1> HIDE DEF a, b, n
<1>5. /\ Len(Contents(ring, a, n)) = n /\ Contents(ring, a, n) # <<>>
      /\ Head(Contents(ring, a, n)) = ring[a]
  BY <1>1, <1>3 DEF Contents
<1>6. Contents(ring, b, n - 1) = Tail(Contents(ring, a, n))
  BY <1>1, <1>3, <1>5 DEF Contents
<1> QED
  BY <1>2, <1>4, <1>5, <1>6

\* An empty ring is an empty queue.
LEMMA FifoInit == Init => Fifo!Init
<1> SUFFICES ASSUME Init PROVE Fifo!Init
  OBVIOUS
<1>1. Announcing = {} /\ Loading = {}
  BY DEF Init, Announcing, Loading, At, Threads
<1>2. Stored = 0
  BY <1>1, FS_EmptySet, RingQueueAssumption DEF Init, Stored, Sides
<1>3. AbsFifo = <<>>
  BY <1>2 DEF AbsFifo
<1>4. AbsHand = [t \in Threads |-> NoItem]
  BY DEF Init, AbsHand, Threads
<1> QED
  BY <1>3, <1>4 DEF Fifo!Init, Threads

\* The step simulation: the store puts, the load gets, and the semaphores, the
\* mutexes and the wrap are invisible to BoundedFifo.
LEMMA FifoStep == IInv /\ IInv' /\ [Next]_vars => [Fifo!Next]_<<AbsFifo, AbsHand>>
<1> SUFFICES ASSUME IInv, IInv', [Next]_vars PROVE [Fifo!Next]_<<AbsFifo, AbsHand>>
  OBVIOUS
<1>1. ASSUME Quiet, ring' = ring PROVE AbsFifo' = AbsFifo
  BY <1>1, QuietStep, AbsFifoIs
<1>2. ASSUME NEW p \in Producers, Call(p) PROVE Fifo!Offer(p)
  <2>1. PICK v \in Items : arg' = [arg EXCEPT ![p] = v]
    BY <1>2 DEF Call
  <2>2. AbsHand[p] = NoItem /\ AbsHand' = [AbsHand EXCEPT ![p] = v]
    BY <1>2, <2>1, RingQueueAssumption DEF Call, AbsHand, goto, IInv, TypeOK, Threads
  <2>3. AbsFifo' = AbsFifo
    BY <1>1, <1>2 DEF Call, Quiet, Threads
  <2> QED
    BY <2>2, <2>3 DEF Fifo!Offer
<1>3. ASSUME NEW c \in Consumers, Call(c)
      PROVE  Fifo!Use(c) \/ UNCHANGED <<AbsFifo, AbsHand>>
  <2>1. AbsHand' = [AbsHand EXCEPT ![c] = NoItem] /\ AbsHand[c] = arg[c]
    BY <1>3, RingQueueAssumption DEF Call, AbsHand, goto, IInv, TypeOK, Threads
  <2>2. AbsFifo' = AbsFifo
    BY <1>1, <1>3 DEF Call, Quiet, Threads
  <2>3. CASE AbsHand[c] = NoItem
    BY <2>1, <2>2, <2>3 DEF AbsHand
  <2>4. CASE AbsHand[c] # NoItem
    BY <2>1, <2>2, <2>4 DEF Fifo!Use
  <2> QED
    BY <2>3, <2>4
<1>4. ASSUME \/ UNCHANGED vars
             \/ \E t \in Threads : \/ SemWait(t) \/ Acquire(t) \/ Wrap(t)
                                   \/ Release(t) \/ SemPost(t)
      PROVE  UNCHANGED <<AbsFifo, AbsHand>>
  <2>1. AbsHand' = AbsHand
    BY <1>4 DEF vars, SemWait, Acquire, Wrap, Release, SemPost, AbsHand, goto, IInv, TypeOK
  <2>2. ring' = ring /\ Quiet
    BY <1>4 DEF vars, SemWait, Acquire, Wrap, Release, SemPost, Quiet
  <2> QED
    BY <2>1, <2>2, <1>1
<1>5. ASSUME NEW p \in Producers, Store(p) PROVE Fifo!Put(p)
  <2>1. AbsHand[p] = arg[p] /\ arg[p] # NoItem
    BY <1>5, RingQueueAssumption DEF Store, goto, AbsHand, IInv, Carrying, Threads
  <2>2. AbsHand' = [AbsHand EXCEPT ![p] = NoItem]
    BY <1>5, RingQueueAssumption DEF Store, goto, AbsHand, IInv, TypeOK, Threads
  <2> QED
    BY <1>5, <2>1, <2>2, StoreAppends DEF Fifo!Put
<1>6. ASSUME NEW c \in Consumers, Load(c) PROVE Fifo!Get(c)
  <2>1. AbsHand[c] = NoItem
    BY <1>6 DEF Load, goto, AbsHand, IInv, Carrying, Threads
  <2>2. arg' = [arg EXCEPT ![c] = Head(AbsFifo)]
    BY <1>6, LoadTakesHead
  <2>3. AbsHand' = [AbsHand EXCEPT ![c] = Head(AbsFifo)]
    BY <1>6, <2>2, RingQueueAssumption, ZenonT(60) DEF Load, goto, AbsHand, IInv, TypeOK, Threads
  <2> QED
    BY <1>6, <2>1, <2>3, LoadTakesHead DEF Fifo!Get
<1> QED
  BY <1>2, <1>3, <1>4, <1>5, <1>6 DEF Next, Step, Threads, Fifo!Next

\* ringQueue.hpp:37-60: although a token posted by one producer may be spent on
\* the slot of another, and two mutexes leave a store and a load concurrent, the
\* ring is a first-in first-out queue of Size places.
THEOREM Implementation == Spec => ImplementsFifo
<1>1. Spec => []IInv
  BY InitInv, NextInv, PTL DEF Spec
<1> QED
  BY <1>1, FifoInit, FifoStep, PTL DEF Spec, ImplementsFifo, Fifo!Spec
=============================================================================
