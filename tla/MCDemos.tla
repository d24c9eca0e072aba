------------------------------ MODULE MCDemos ------------------------------
(***************************************************************************)
(* The small programs, one of them at a time, chosen in the initial state  *)
(* from those of the run.  What belongs to the others stands still.        *)
(***************************************************************************)
EXTENDS Integers, Sequences

CONSTANTS Chosen,    \* the programs of a run
          NumThreads, Total, MaxN, NumMessages, Sigs, Looks, Last, Ticks,
          Callers, NumParts, Nobody, Null

ASSUME MCDemosAssumption == /\ NumThreads \in Nat \ {0} /\ Total \in Nat \ {0} /\ MaxN \in Nat /\ NumMessages \in Nat
                            /\ Sigs \subseteq Nat \ {0} /\ Looks \in Nat \ {0} /\ Last \in Nat \ {0}
                            /\ Ticks \in Nat
                            /\ NumParts \in Nat /\ Nobody \notin Callers /\ Null \notin Nat

VARIABLES prog, pc,
          locked, tickets, mtx, reg, sold,
          spinning, n, i, ready, shown,
          fp, buffer, end, out, said, twice,
          tty, stdout,
          code, pending, blocked, caught, next, count, by, handled, sent,
          cnt, status, told, handlers, ran,
          ptr, parts, got

forTickets == <<locked, tickets, reg, sold>>
forPrinters == <<spinning, n, i, ready, shown>>
forBuffer == <<fp, buffer, end, said, twice>>
forForked == <<tty, stdout>>
forSignals == <<pending, blocked, caught, next, count, by, handled, sent>>
forWaiting == <<cnt, status, told, handlers, ran>>
forSingleton == <<ptr, parts, got>>
vars == <<prog, pc, mtx, out, code, forTickets, forPrinters, forBuffer, forForked, forSignals, forWaiting,
          forSingleton>>

T == INSTANCE Tickets
P == INSTANCE Printers
B == INSTANCE FileBuffer
F == INSTANCE ForkedBuffer
S == INSTANCE Signals
W == INSTANCE Waiting
L == INSTANCE LazySingleton

noTickets == locked = FALSE /\ tickets = 0 /\ reg = <<>> /\ sold = <<>>
noPrinters == spinning = FALSE /\ n = 0 /\ i = 0 /\ ready = FALSE /\ shown = 0
noBuffer == fp = 99 /\ buffer = <<>> /\ end = 0 /\ said = 0 /\ twice = FALSE
noForked == tty = FALSE /\ stdout = <<>>
noSignals == /\ pending = {} /\ blocked = {} /\ caught = FALSE /\ next = 0 /\ count = 0
             /\ by = 0 /\ handled = 0 /\ sent = 0
noWaiting == cnt = 0 /\ status = "none" /\ told = "none" /\ handlers = <<>> /\ ran = <<>>
noSingleton == ptr = Null /\ parts = <<>> /\ got = <<>>
noMutex == mtx = 0
noOut == out = <<>>
noCode == code = "none"

Init ==
  /\ prog \in Chosen
  /\ \/ /\ prog = "tickets" /\ T!Init
        /\ noPrinters /\ noBuffer /\ noForked /\ noSignals /\ noWaiting /\ noSingleton /\ noOut /\ noCode
     \/ /\ prog = "printers" /\ P!Init
        /\ noTickets /\ noBuffer /\ noForked /\ noSignals /\ noWaiting /\ noSingleton /\ noOut /\ noCode
     \/ /\ prog = "buffer" /\ B!Init
        /\ noTickets /\ noPrinters /\ noForked /\ noSignals /\ noWaiting /\ noSingleton /\ noMutex /\ noCode
     \/ /\ prog = "forked" /\ F!Init
        /\ noTickets /\ noPrinters /\ noBuffer /\ noSignals /\ noWaiting /\ noSingleton /\ noMutex /\ noCode
     \/ /\ prog = "signals" /\ S!Init
        /\ noTickets /\ noPrinters /\ noBuffer /\ noForked /\ noWaiting /\ noSingleton /\ noMutex /\ noOut
     \/ /\ prog = "waiting" /\ W!Init
        /\ noTickets /\ noPrinters /\ noBuffer /\ noForked /\ noSignals /\ noSingleton /\ noMutex /\ noOut
     \/ /\ prog = "singleton" /\ L!Init
        /\ noTickets /\ noPrinters /\ noBuffer /\ noForked /\ noSignals /\ noWaiting /\ noOut /\ noCode

Next ==
  /\ UNCHANGED prog
  /\ \/ /\ prog = "tickets" /\ T!Next
        /\ UNCHANGED <<out, code, forPrinters, forBuffer, forForked, forSignals, forWaiting, forSingleton>>
     \/ /\ prog = "printers" /\ P!Next
        /\ UNCHANGED <<out, code, forTickets, forBuffer, forForked, forSignals, forWaiting, forSingleton>>
     \/ /\ prog = "buffer" /\ B!Next
        /\ UNCHANGED <<mtx, code, forTickets, forPrinters, forForked, forSignals, forWaiting, forSingleton>>
     \/ /\ prog = "forked" /\ F!Next
        /\ UNCHANGED <<mtx, code, forTickets, forPrinters, forBuffer, forSignals, forWaiting, forSingleton>>
     \/ /\ prog = "signals" /\ S!Next
        /\ UNCHANGED <<mtx, out, forTickets, forPrinters, forBuffer, forForked, forWaiting, forSingleton>>
     \/ /\ prog = "waiting" /\ W!Next
        /\ UNCHANGED <<mtx, out, forTickets, forPrinters, forBuffer, forForked, forSignals, forSingleton>>
     \/ /\ prog = "singleton" /\ L!Next
        /\ UNCHANGED <<out, code, forTickets, forPrinters, forBuffer, forForked, forSignals, forWaiting>>

\* Threads and processes are scheduled, a free mutex is not withheld from a thread for
\* ever, and the kernel delivers.  Nobody has to send a signal, to kill a child or to
\* ask for the instance.
Fairness ==
    LET ofT == <<pc, mtx, forTickets>>  ofP == <<pc, mtx, forPrinters>>
        ofS == <<pc, code, forSignals>> ofW == <<pc, code, forWaiting>>
        ofL == <<pc, mtx, forSingleton>>
    IN  /\ WF_ofT(prog = "tickets" /\ (T!Join \/ \E t \in T!Threads : T!Create(t)))
        /\ \A t \in T!Threads : WF_ofT(prog = "tickets" /\ T!Thread(t))
        /\ WF_ofP(prog = "printers" /\ (P!Join \/ \E t \in P!Both : P!Create(t)))
        /\ \A t \in P!Both : WF_ofP(prog = "printers" /\ P!Thread(t))
        /\ WF_ofS(prog = "signals" /\ S!Kernel) /\ WF_ofS(prog = "signals" /\ S!Program)
        /\ WF_ofW(prog = "waiting" /\ W!Parent) /\ WF_ofW(prog = "waiting" /\ W!Child)
        /\ \A t \in Callers : WF_ofL(prog = "singleton" /\ L!Step(t))

Spec == Init /\ [][Next]_vars /\ Fairness
-----------------------------------------------------------------------------
\* Each program keeps its types, the owner of its mutex or buffer included.
TypeOK == /\ prog = "tickets" => T!TypeOK
          /\ prog = "printers" => P!TypeOK
          /\ prog = "buffer" => B!TypeOK
          /\ prog = "forked" => F!TypeOK
          /\ prog = "signals" => S!TypeOK
          /\ prog = "waiting" => W!TypeOK
          /\ prog = "singleton" => L!TypeOK

\* Every ticket is sold, number printed, message written, signal delivered and child
\* reaped once and at its time; where the code does not see to that, its race stays
\* within a bound, for unlocked tickets a bound on the numbers that are sold.
EachOnce == /\ prog = "tickets" => T!SoldOnce
            /\ prog = "printers" => P!InTurn
            /\ prog = "buffer" => B!WrittenOnce
            /\ prog = "forked" => F!OncePerProcess
            /\ prog = "signals" => S!HeldBack
            /\ prog = "waiting" => W!Reaped

\* The threads come to their end, whatever updates and wake-ups are lost, a signal that
\* is held back is delivered, and a parent leaves after its child.
AllComeToAnEnd == /\ prog = "tickets" => T!AllJoined
                  /\ prog = "printers" => P!BothLeave
                  /\ prog = "signals" => S!Delivered
                  /\ prog = "waiting" => W!ParentLeaves

\* However many threads make the first call together, one object is built.
OneInstance == prog = "singleton" => L!OneInstance

\* A thread that finds the pointer set gets an object whose constructor has finished.
NeverHalfBuilt == prog = "singleton" => L!NeverHalfBuilt

\* Once set, the pointer keeps its value: all calls return the same object.
PointerStable == [][ptr # Null => ptr' = ptr]_ptr

\* Every call returns, with an object.
CallsReturn == prog = "singleton" => L!CallsReturn

(***************************************************************************)
(* The inductive invariant of the proofs in DemosProofs.                   *)
(***************************************************************************)

IInv == /\ prog = "tickets" => T!IInv
        /\ prog = "printers" => P!IInv
        /\ prog = "buffer" => B!IInv
        /\ prog = "forked" => F!IInv
        /\ prog = "signals" => S!IInv
        /\ prog = "waiting" => W!IInv
        /\ prog = "singleton" => L!IInv
=============================================================================
