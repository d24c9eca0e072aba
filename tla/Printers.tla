------------------------------ MODULE Printers ------------------------------
(***************************************************************************)
(* Two threads print the numbers below n in turn, thread 1 the odd and     *)
(* thread 2 the even ones: the last two programs of xjh_multi_thread/      *)
(* test1.cc, where all programs stand between #if 0 and #endif.  The first *)
(* of them spins on i, the second waits on a condition variable.  Both     *)
(* test i < n without a lock.                                              *)
(*                                                                         *)
(* pc[t]: "none", "test", then "spin" or "lock", "waiting", "woken"; then  *)
(* "print", "add", "pass" and "unlock"; "left".  pc[0]: "create", "join"   *)
(* or "left".                                                              *)
(***************************************************************************)
EXTENDS Naturals

CONSTANT MaxN \* n is 100 in the code: here any number up to MaxN

VARIABLES pc, spinning, \* spinning: the first program
          n, i, mtx, ready,
          shown         \* how many numbers have been printed

vars == <<pc, spinning, n, i, mtx, ready, shown>>

Both == {1, 2}

TypeOK == /\ DOMAIN pc = {0} \cup Both
          /\ spinning \in BOOLEAN /\ ready \in BOOLEAN
          /\ n \in 0 .. MaxN /\ i \in 0 .. n + 1 /\ shown \in {i, i + 1}
          /\ mtx \in {0} \cup Both
          /\ \A t \in Both : pc[t] \in {"unlock", "pass"} => mtx = t

Init == /\ pc = [t \in {0} \cup Both |-> IF t = 0 THEN "create" ELSE "none"]
        /\ spinning \in BOOLEAN /\ n \in 0 .. MaxN
        /\ i = 0 /\ mtx = 0 /\ ready = TRUE /\ shown = 0

Goto(t, from, to) == pc[t] = from /\ pc' = [pc EXCEPT ![t] = to]

\* Whose turn it is, by the number and by the flag.
odd(t) == t = 1
turn(t) == IF spinning THEN odd(t) <=> i % 2 = 1 ELSE odd(t) <=> ~ready

-----------------------------------------------------------------------------
Create(t) == /\ pc[0] = "create" /\ pc[t] = "none" /\ (t = 2 => pc[1] # "none")
             /\ pc' = [pc EXCEPT ![t] = "test", ![0] = IF t = 2 THEN "join" ELSE @]
             /\ UNCHANGED <<spinning, n, i, mtx, ready, shown>>

Join == /\ \A t \in Both : pc[t] = "left"
        /\ Goto(0, "join", "left")
        /\ UNCHANGED <<spinning, n, i, mtx, ready, shown>>

Test(t) == /\ Goto(t, "test", CASE i >= n -> "left"
                                [] i < n /\ spinning -> "spin"
                                [] i < n /\ ~spinning -> "lock")
           /\ UNCHANGED <<spinning, n, i, mtx, ready, shown>>

\* Out of the while loop.
Spin(t) == /\ turn(t) /\ Goto(t, "spin", "print")
           /\ UNCHANGED <<spinning, n, i, mtx, ready, shown>>

\* Wrong: a single wait, without the predicate.
LockIf(t) == /\ mtx = 0
             /\ \/ /\ pc[t] = "lock"
                   /\ pc' = [pc EXCEPT ![t] = IF turn(t) THEN "print" ELSE "waiting"]
                   /\ mtx' = IF turn(t) THEN t ELSE 0
                \/ Goto(t, "woken", "print") /\ mtx' = t
             /\ UNCHANGED <<spinning, n, i, ready, shown>>

\* unique_lock, and the predicate of wait(), again after every wake-up.
Lock(t) == /\ mtx = 0
           /\ pc[t] \in {"lock", "woken"}
           /\ pc' = [pc EXCEPT ![t] = IF turn(t) THEN "print" ELSE "waiting"]
           /\ mtx' = IF turn(t) THEN t ELSE 0
           /\ UNCHANGED <<spinning, n, i, ready, shown>>

\* For no reason.
Wake(t) == /\ Goto(t, "waiting", "woken")
           /\ UNCHANGED <<spinning, n, i, mtx, ready, shown>>

PrintNumber(t) == /\ Goto(t, "print", "add")
            /\ shown' = shown + 1
            /\ UNCHANGED <<spinning, n, i, mtx, ready>>

Add(t) == /\ Goto(t, "add", IF spinning THEN "test" ELSE "pass")
          /\ i' = i + 1
          /\ UNCHANGED <<spinning, n, mtx, ready, shown>>

\* Wrong: does not notify.
PassSilently(t) == /\ Goto(t, "pass", "unlock")
                   /\ ready' = odd(t)
                   /\ UNCHANGED <<spinning, n, i, mtx, shown>>

\* ready is set and notify_one() called, both under the lock.
Pass(t) == /\ pc[t] = "pass"
           /\ pc' = [s \in {0} \cup Both |-> IF s = t THEN "unlock"
                                             ELSE IF pc[s] = "waiting" THEN "woken" ELSE pc[s]]
           /\ ready' = odd(t)
           /\ UNCHANGED <<spinning, n, i, mtx, shown>>

Unlock(t) == /\ Goto(t, "unlock", "test")
             /\ mtx' = 0
             /\ UNCHANGED <<spinning, n, i, ready, shown>>

Thread(t) == Test(t) \/ Spin(t) \/ Lock(t) \/ PrintNumber(t) \/ Add(t) \/ Pass(t) \/ Unlock(t)

Next == Join \/ \E t \in Both : Create(t) \/ Thread(t) \/ Wake(t)
-----------------------------------------------------------------------------
\* Each number is printed once, in order, by the thread it belongs to.  The test
\* without the lock lets one number through that is not below n, n itself, when the
\* thread it belongs to has tested before the last number was added to.
InTurn == /\ \A t \in Both : pc[t] = "print" => i = shown /\ (odd(t) <=> i % 2 = 1)
          /\ shown <= n + 1
          /\ pc[0] = "left" => shown \in {n, n + 1}

\* Neither waits for ever for the other, who has left.
BothLeave == (pc[0] = "create") ~> (pc[0] = "left")

(***************************************************************************)
(* The inductive invariant of the proofs in DemosProofs.                   *)
(***************************************************************************)

Places == /\ pc \in [{0} \cup Both -> {"create", "join", "none", "test", "spin", "lock", "waiting", "woken",
                                       "print", "add", "pass", "unlock", "left"}]
          /\ pc[0] \in {"create", "join", "left"}
          /\ \A t \in Both : /\ pc[t] \notin {"create", "join"}
                             /\ spinning => pc[t] \notin {"lock", "waiting", "woken", "pass", "unlock"}
                             /\ ~spinning => pc[t] # "spin"
                             /\ pc[t] \in {"print", "add", "pass", "unlock"} /\ ~spinning => mtx = t
                             /\ pc[0] = "left" => pc[t] = "left"

belongs(t) == odd(t) <=> i % 2 = 1 \* the number i to t

\* Who prints is whose turn it is, by the number; the flag says the same, but for the
\* moment between the addition and its change.
Turns == /\ \A t \in Both : pc[t] \in {"print", "add"} => belongs(t)
         /\ ~spinning => IF \E t \in Both : pc[t] = "pass"
                         THEN \A t \in Both : pc[t] = "pass" => ~belongs(t) /\ turn(t)
                         ELSE \A t \in Both : turn(t) <=> belongs(t)

\* Who has tested finds i below n until the other has added to it, once.
Tested == \A t \in Both : /\ pc[t] \in {"spin", "lock", "waiting", "woken", "print", "add"} =>
                                i <= n /\ (~belongs(t) => i < n)
                          /\ pc[t] = "left" => i >= n

Counted == shown = IF \E t \in Both : pc[t] = "add" THEN i + 1 ELSE i

IInv == TypeOK /\ Places /\ Turns /\ Tested /\ Counted
=============================================================================
