------------------------------ MODULE Tickets ------------------------------
(***************************************************************************)
(* Threads that sell tickets from one counter: 0110/mythread.cc without a  *)
(* lock, 0112/mythread1.cc under one.  tickets-- is a load and a store.    *)
(*                                                                         *)
(* pc[t]: "none" (not created), "lock", "test", "print", "load", "store",  *)
(* "unlock", "last" (the unlock in front of the break) or "left".  Thread  *)
(* 0 is main: "create", "join" or "left".                                  *)
(***************************************************************************)
EXTENDS Integers, FiniteSets

CONSTANTS NumThreads, Total \* THREAD_NUM, or three threads without the lock; tickets at first

VARIABLES pc, locked, \* locked: the version with the lock
          tickets, mtx, \* mtx: the thread that has the lock, or 0
          reg,          \* reg[t]: what thread t has loaded
          sold          \* sold[n]: how often ticket n has been printed, 2 for more than once

vars == <<pc, locked, tickets, mtx, reg, sold>>

Threads == 1 .. NumThreads
\* What three threads can print and store: without the lock the counter may go as far
\* below zero as it was above.
Numbers == -Total - 1 .. Total

TypeOK == /\ DOMAIN pc = 0 .. NumThreads
          /\ locked \in BOOLEAN /\ mtx \in 0 .. NumThreads
          /\ tickets \in Numbers
          /\ reg \in [Threads -> Numbers]
          /\ sold \in [Numbers -> 0 .. 2]
          /\ locked => \A t \in Threads :
                pc[t] \in {"test", "print", "load", "store", "unlock", "last"} <=> mtx = t

Init == /\ pc = [t \in 0 .. NumThreads |-> IF t = 0 THEN "create" ELSE "none"]
        /\ locked \in BOOLEAN /\ (~locked => NumThreads = 3)
        /\ tickets = Total /\ mtx = 0
        /\ reg = [t \in Threads |-> 0]
        /\ sold = [n \in Numbers |-> 0]

Goto(t, from, to) == pc[t] = from /\ pc' = [pc EXCEPT ![t] = to]

\* The head of the loop.
top == IF locked THEN "lock" ELSE "test"

-----------------------------------------------------------------------------
\* main() creates the threads in their order.
Create(t) == /\ pc[0] = "create" /\ pc[t] = "none"
             /\ \A s \in 1 .. t - 1 : pc[s] # "none"
             /\ pc' = [pc EXCEPT ![t] = top, ![0] = IF t = NumThreads THEN "join" ELSE @]
             /\ UNCHANGED <<locked, tickets, mtx, reg, sold>>

Join == /\ \A t \in Threads : pc[t] = "left"
        /\ Goto(0, "join", "left")
        /\ UNCHANGED <<locked, tickets, mtx, reg, sold>>

Lock(t) == /\ Goto(t, "lock", "test")
           /\ mtx = 0 /\ mtx' = t
           /\ UNCHANGED <<locked, tickets, reg, sold>>

Test(t) == /\ Goto(t, "test", CASE tickets > 0 -> "print"
                                [] tickets <= 0 /\ locked -> "last"
                                [] tickets <= 0 /\ ~locked -> "left")
           /\ UNCHANGED <<locked, tickets, mtx, reg, sold>>

\* usleep() and printf(), which reads the counter again.
Sell(t) == /\ Goto(t, "print", "load")
           /\ sold' = [sold EXCEPT ![tickets] = IF @ = 0 THEN 1 ELSE 2]
           /\ UNCHANGED <<locked, tickets, mtx, reg>>

\* Wrong: unlocks in front of the decrement.
LoadUnlocked(t) == /\ Goto(t, "load", "store")
                   /\ reg' = [reg EXCEPT ![t] = tickets]
                   /\ mtx' = 0
                   /\ UNCHANGED <<locked, tickets, sold>>

Load(t) == /\ Goto(t, "load", "store")
           /\ reg' = [reg EXCEPT ![t] = tickets]
           /\ UNCHANGED <<locked, tickets, mtx, sold>>

Store(t) == /\ Goto(t, "store", IF locked THEN "unlock" ELSE top)
            /\ tickets' = reg[t] - 1
            /\ UNCHANGED <<locked, mtx, reg, sold>>

\* The end of the turn, and that of a thread that finds no ticket left.
Unlock(t) == /\ Goto(t, "unlock", top) \/ Goto(t, "last", "left")
             /\ mtx' = 0
             /\ UNCHANGED <<locked, tickets, reg, sold>>

Thread(t) == Lock(t) \/ Test(t) \/ Sell(t) \/ Load(t) \/ Store(t) \/ Unlock(t)

Next == Join \/ \E t \in Threads : Create(t) \/ Thread(t)
-----------------------------------------------------------------------------
\* Under the lock every ticket is sold once, in order, and there is no number below 1.
\* Without it a late store brings sold tickets back, again and again, while another
\* late store takes the counter further down, but what three threads sell stays
\* within 2 * Total + 1 numbers.
SoldOnce == /\ locked /\ mtx = 0 => /\ \A n \in Numbers : sold[n] = (IF n > tickets THEN 1 ELSE 0)
                                    /\ tickets >= 0
            /\ locked /\ pc[0] = "left" => tickets = 0
            /\ sold[-Total - 1] = 0

\* Whatever updates are lost, the tickets come to an end, and so does the program.
AllJoined == (pc[0] = "create") ~> (pc[0] = "left")

(***************************************************************************)
(* The inductive invariant of the proofs in DemosProofs.                   *)
(***************************************************************************)

Places == /\ pc \in [0 .. NumThreads -> {"create", "join", "none", "lock", "test", "print", "load",
                                         "store", "unlock", "last", "left"}]
          /\ pc[0] \in {"create", "join", "left"}
          /\ \A t \in Threads : /\ pc[t] \notin {"create", "join"}
                                /\ ~locked => pc[t] \notin {"lock", "unlock", "last"}
                                /\ pc[0] = "left" => pc[t] = "left"

selling(t) == pc[t] \in {"print", "load"} \* has found a ticket, and not taken it yet
storing(t) == pc[t] = "store"
late(t) == reg[t] - 1                     \* what t stores then

\* Under the lock the tickets are sold from Total down to the next but one that the
\* counter shows, or to the next, while it has not been stored.
InOrder == locked =>
    LET left == IF \E t \in Threads : pc[t] \in {"load", "store"} THEN tickets - 1 ELSE tickets
    IN  /\ \A m \in Numbers : sold[m] = (IF m > left THEN 1 ELSE 0)
        /\ left >= 0
        /\ \A t \in Threads : /\ selling(t) \/ storing(t) => tickets > 0
                              /\ storing(t) => reg[t] = tickets
                              /\ pc[t] \in {"last", "left"} => tickets = 0

\* Without the lock: a bound from below of the counter and of all late stores.
above(b) == tickets >= b /\ \A t \in Threads : storing(t) => late(t) >= b

\* While there are tickets no two late stores lie further apart than Total - 1, and
\* none further below the counter than Total.
Near == tickets > 0 => /\ above(tickets - Total)
                       /\ \A t \in Threads : storing(t) => above(late(t) + 1 - Total)

\* When there are none, whoever stored last does not sell on.  Those who do, two at most,
\* may each take the counter one further down, and a late store that brings tickets
\* back is the lower the further down the counter is.
Far == tickets <= 0 =>
    /\ \E t \in Threads : ~selling(t) /\ ~storing(t)
    /\ above(-Total - 1)
    /\ \A t \in Threads : selling(t) =>
          above(-Total) /\ \A u \in Threads \ {t} : selling(u) => above(1 - Total)
    /\ \A u \in Threads : storing(u) /\ late(u) > 0 =>
          above(late(u) - Total) /\ \A t \in Threads : selling(t) => above(late(u) + 1 - Total)

Bounded == ~locked => /\ NumThreads = 3
                      /\ tickets <= Total /\ \A t \in Threads : storing(t) => late(t) < Total
                      /\ Near /\ Far
                      /\ sold[-Total - 1] = 0

IInv == TypeOK /\ Places /\ InOrder /\ Bounded
=============================================================================
