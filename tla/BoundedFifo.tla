----------------------------- MODULE BoundedFifo -----------------------------
(***************************************************************************)
(* What every producer/consumer component of the repository promises to    *)
(* its callers: a first-in first-out queue of bounded length.  It says     *)
(* nothing of locks, condition variables or semaphores.                    *)
(*                                                                         *)
(* hand[t] is the item thread t carries: a producer's item between         *)
(* offering it and its entering the queue, a consumer's between its        *)
(* leaving the queue and the consumer being done with it.  An item is      *)
(* therefore always in exactly one place, and no step can lose one, make   *)
(* a second copy of one, or let one overtake another.                      *)
(***************************************************************************)
EXTENDS Naturals, Sequences

CONSTANTS Producers, Consumers, Items, NoItem, Bound

VARIABLES fifo, hand

Init == /\ fifo = <<>>
        /\ hand = [t \in Producers \cup Consumers |-> NoItem]

\* A producer makes an item it wants to hand over.
Offer(p) == /\ hand[p] = NoItem
            /\ \E v \in Items : hand' = [hand EXCEPT ![p] = v]
            /\ UNCHANGED fifo

\* The item enters the queue, at the end, when there is room.
Put(p) == /\ hand[p] # NoItem
          /\ Len(fifo) < Bound
          /\ fifo' = Append(fifo, hand[p])
          /\ hand' = [hand EXCEPT ![p] = NoItem]

\* A consumer with empty hands takes the oldest item.
Get(c) == /\ hand[c] = NoItem
          /\ fifo # <<>>
          /\ hand' = [hand EXCEPT ![c] = Head(fifo)]
          /\ fifo' = Tail(fifo)

\* The consumer is done with its item.
Use(c) == /\ hand[c] # NoItem
          /\ hand' = [hand EXCEPT ![c] = NoItem]
          /\ UNCHANGED fifo

Next == \/ \E p \in Producers : Offer(p) \/ Put(p)
        \/ \E c \in Consumers : Get(c) \/ Use(c)

Spec == Init /\ [][Next]_<<fifo, hand>>
=============================================================================
