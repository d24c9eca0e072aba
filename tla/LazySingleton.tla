--------------------------- MODULE LazySingleton ----------------------------
(***************************************************************************)
(* Double-checked locking: ThreadPool::getThreadPool() of 0211 and         *)
(* 0215/tcp/threadPool, and Singleton::GetInstance() of                    *)
(* xjh_multi_thread/test.cc, called by several threads.                    *)
(*                                                                         *)
(* The build has no optimisation and runs on x86-64, so the constructor's  *)
(* stores reach other threads before the store to the static pointer does. *)
(*                                                                         *)
(* pc[t] is where thread t stands:                                         *)
(*   "idle"    before the call, or between two calls                       *)
(*   "check"   at the test outside the lock                                *)
(*   "lock"    in the lockGuard constructor                                *)
(*   "again"   at the test inside the lock                                 *)
(*   "new"     in the constructor, between two of its stores               *)
(*   "store"   at the assignment to the static pointer                     *)
(*   "unlock"  in the lockGuard destructor                                 *)
(*   "return"  at the return, which reads the pointer once more            *)
(***************************************************************************)
EXTENDS Naturals, Sequences

CONSTANTS Callers,  \* the threads that ask for the instance
          NumParts, \* the stores the constructor makes: the elements of __threads
          Nobody,   \* the owner of a free mutex
          Null      \* nullptr

VARIABLES ptr,    \* thread_ptr: an object, or Null
          mtx,    \* the owner of __mutexForPool, or Nobody
          parts,  \* parts[o]: how much of object o the constructor has built
          pc,
          got     \* got[t]: the object thread t is building or was given

vars == <<ptr, mtx, parts, pc, got>>

\* The objects ever allocated.
Objects == 1 .. Len(parts)

TypeOK ==
    /\ parts \in Seq(0 .. NumParts)
    /\ ptr \in Objects \cup {Null}
    /\ mtx \in Callers \cup {Nobody}
    /\ pc \in [Callers -> {"idle", "check", "lock", "again", "new", "store",
                           "unlock", "return"}]
    /\ got \in [Callers -> Objects \cup {Null}]

Init == /\ ptr = Null
        /\ mtx = Nobody
        /\ parts = <<>>
        /\ pc = [t \in Callers |-> "idle"]
        /\ got = [t \in Callers |-> Null]

-----------------------------------------------------------------------------
goto(t, from, to) == pc[t] = from /\ pc' = [pc EXCEPT ![t] = to]

Call(t) == /\ goto(t, "idle", "check")
           /\ got' = [got EXCEPT ![t] = Null]
           /\ UNCHANGED <<ptr, mtx, parts>>

\* if(nullptr == thread_ptr), without the lock.
Check(t) == /\ goto(t, "check", IF ptr = Null THEN "lock" ELSE "return")
            /\ UNCHANGED <<ptr, mtx, parts, got>>

Lock(t) == /\ goto(t, "lock", "again")
           /\ mtx = Nobody
           /\ mtx' = t
           /\ UNCHANGED <<ptr, parts, got>>

\* new ThreadPool<T>(num) allocates an object, of which nothing is built yet.
\* Without the second test every thread that gets the lock would do so.
New(t) == /\ goto(t, "again", "new")
          /\ parts' = Append(parts, 0)
          /\ got' = [got EXCEPT ![t] = Len(parts) + 1]
          /\ UNCHANGED <<ptr, mtx>>

\* if(nullptr == thread_ptr), under the lock.
CheckAgain(t) == \/ /\ ptr = Null
                    /\ New(t)
                 \/ /\ ptr # Null
                    /\ goto(t, "again", "unlock")
                    /\ UNCHANGED <<ptr, mtx, parts, got>>

\* Wrong: the pointer is published before the object is built.
ConstructPublished(t) ==
    /\ pc[t] = "new"
    /\ ptr' = got[t]
    /\ IF parts[got[t]] < NumParts
       THEN /\ parts' = [parts EXCEPT ![got[t]] = @ + 1]
            /\ UNCHANGED pc
       ELSE /\ goto(t, "new", "store")
            /\ UNCHANGED parts
    /\ UNCHANGED <<mtx, got>>

\* Wrong: <= for < in the constructor's loop.
ConstructOneMore(t) == /\ pc[t] = "new"
                       /\ IF parts[got[t]] <= NumParts
                          THEN /\ parts' = [parts EXCEPT ![got[t]] = @ + 1]
                               /\ UNCHANGED pc
                          ELSE /\ goto(t, "new", "store")
                               /\ UNCHANGED parts
                       /\ UNCHANGED <<ptr, mtx, got>>

\* The constructor: one __threads.push_back() after the other.
Construct(t) == /\ pc[t] = "new"
                /\ IF parts[got[t]] < NumParts
                   THEN /\ parts' = [parts EXCEPT ![got[t]] = @ + 1]
                        /\ UNCHANGED pc
                   ELSE /\ goto(t, "new", "store")
                        /\ UNCHANGED parts
                /\ UNCHANGED <<ptr, mtx, got>>

Store(t) == /\ goto(t, "store", "unlock")
            /\ ptr' = got[t]
            /\ UNCHANGED <<mtx, parts, got>>

\* Wrong: the lock is kept.
UnlockNever(t) == /\ goto(t, "unlock", "return")
                  /\ UNCHANGED <<ptr, mtx, parts, got>>

Unlock(t) == /\ goto(t, "unlock", "return")
             /\ mtx' = Nobody
             /\ UNCHANGED <<ptr, parts, got>>

Return(t) == /\ goto(t, "return", "idle")
             /\ got' = [got EXCEPT ![t] = ptr]
             /\ UNCHANGED <<ptr, mtx, parts>>

\* What thread t does inside the call.
Step(t) == \/ Check(t) \/ Lock(t) \/ CheckAgain(t) \/ Construct(t)
           \/ Store(t) \/ Unlock(t) \/ Return(t)

Next == \E t \in Callers : Call(t) \/ Step(t)

-----------------------------------------------------------------------------
(***************************************************************************)
(* Properties.                                                             *)
(***************************************************************************)

\* However many threads make the first call together, one object is built: the
\* second test, under the lock, stops all but the first.
OneInstance == Len(parts) <= 1

\* A thread that finds the pointer set, with or without the lock, gets an
\* object whose constructor has finished.
NeverHalfBuilt == ptr # Null => parts[ptr] = NumParts

\* The lock is held exactly between lock and unlock.
LockDiscipline ==
    \A t \in Callers : pc[t] \in {"again", "new", "store", "unlock"} <=> mtx = t

\* Where the one object is: not allocated, with the thread that builds it, or
\* behind the pointer.
Building == \E t \in Callers : pc[t] \in {"new", "store"}
OneObject ==
    /\ Len(parts) = IF ptr = Null /\ ~Building THEN 0 ELSE 1
    /\ \A t \in Callers :
          /\ pc[t] \in {"new", "store"} => ptr = Null /\ got[t] = 1
          /\ pc[t] = "store" => parts[1] = NumParts
          /\ pc[t] \in {"unlock", "return"} => ptr # Null

\* The inductive invariant of the proofs in DemosProofs.
IInv == TypeOK /\ LockDiscipline /\ OneObject /\ OneInstance /\ NeverHalfBuilt

\* Every call returns, with an object.
CallsReturn == \A t \in Callers : pc[t] = "check" ~> (pc[t] = "idle" /\ got[t] # Null)
=============================================================================
