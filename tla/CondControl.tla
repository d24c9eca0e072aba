---------------------------- MODULE CondControl -----------------------------
(***************************************************************************)
(* 0113/demo/mycond.cc: main hands out turns to its threads by signalling  *)
(* a condition variable on which they all wait, then sets quit, broadcasts *)
(* once and joins them.  Neither quit nor the notifications are under the  *)
(* mutex.                                                                  *)
(*                                                                         *)
(* pc[t] is where thread t stands in func1() .. func4():                   *)
(*   "check"   at while (!quit)                                            *)
(*   "lock"    in pthread_mutex_lock                                       *)
(*   "wait"    at pthread_cond_wait, holding the mutex                     *)
(*   "asleep"  in pthread_cond_wait, the mutex released                    *)
(*   "woken"   in pthread_cond_wait, getting the mutex back                *)
(*   "turn"    running, holding the mutex                                  *)
(*   "exited"  after the return                                            *)
(***************************************************************************)
EXTENDS Naturals

CONSTANTS Thrds,   \* the TNUM threads, created before main goes on
          Turns,   \* main's cnt
          Nobody   \* the owner of a free mutex

VARIABLES quit,  \* the flag
          mtx,   \* the owner of the mutex, or Nobody
          pc,
          main,  \* "signal", "quit", "broadcast", "join" or "done"
          cnt    \* the signals main has still to send

vars == <<quit, mtx, pc, main, cnt>>

TypeOK == /\ quit \in BOOLEAN
          /\ mtx \in Thrds \cup {Nobody}
          /\ pc \in [Thrds -> {"check", "lock", "wait", "asleep", "woken",
                               "turn", "exited"}]
          /\ main \in {"signal", "quit", "broadcast", "join", "done"}
          /\ cnt \in 0 .. Turns

Init == /\ quit = FALSE
        /\ mtx = Nobody
        /\ pc = [t \in Thrds |-> "check"]
        /\ main = "signal"
        /\ cnt = Turns

-----------------------------------------------------------------------------
goto(t, from, to) == pc[t] = from /\ pc' = [pc EXCEPT ![t] = to]

Sleepers == {t \in Thrds : pc[t] = "asleep"}

Check(t) == /\ goto(t, "check", IF quit THEN "exited" ELSE "lock")
            /\ UNCHANGED <<quit, mtx, main, cnt>>

Lock(t) == /\ \/ goto(t, "lock", "wait")
              \/ goto(t, "woken", "turn")
           /\ mtx = Nobody
           /\ mtx' = t
           /\ UNCHANGED <<quit, main, cnt>>

\* pthread_cond_wait, called whatever the state of quit.
Wait(t) == /\ goto(t, "wait", "asleep")
           /\ mtx' = Nobody
           /\ UNCHANGED <<quit, main, cnt>>

Unlock(t) == /\ goto(t, "turn", "check")
             /\ mtx' = Nobody
             /\ UNCHANGED <<quit, main, cnt>>

\* POSIX lets pthread_cond_wait return without a signal.
SpuriousWake(t) == /\ goto(t, "asleep", "woken")
                   /\ UNCHANGED <<quit, mtx, main, cnt>>

\* while(cnt--) pthread_cond_signal
MainSignal == /\ main = "signal"
              /\ cnt > 0
              /\ cnt' = cnt - 1
              /\ \/ Sleepers = {} /\ UNCHANGED pc
                 \/ \E t \in Sleepers : pc' = [pc EXCEPT ![t] = "woken"]
              /\ UNCHANGED <<quit, mtx, main>>

MainSignalled == /\ main = "signal"
                 /\ cnt = 0
                 /\ main' = "quit"
                 /\ UNCHANGED <<quit, mtx, pc, cnt>>

MainQuit == /\ main = "quit"
            /\ quit' = TRUE
            /\ main' = "broadcast"
            /\ UNCHANGED <<mtx, pc, cnt>>

MainBroadcast == /\ main = "broadcast"
                 /\ pc' = [t \in Thrds |-> IF t \in Sleepers THEN "woken" ELSE pc[t]]
                 /\ main' = "join"
                 /\ UNCHANGED <<quit, mtx, cnt>>

\* The pthread_joins return once every thread has.
MainJoin == /\ main = "join"
            /\ \A t \in Thrds : pc[t] = "exited"
            /\ main' = "done"
            /\ UNCHANGED <<quit, mtx, pc, cnt>>

Step(t) == Check(t) \/ Lock(t) \/ Wait(t) \/ Unlock(t)
Main == MainSignal \/ MainSignalled \/ MainQuit \/ MainBroadcast \/ MainJoin

Next == Main \/ \E t \in Thrds : Step(t) \/ SpuriousWake(t)

Spec == Init /\ [][Next]_vars

\* The scheduler runs every thread that can run.  Nothing makes a wait return
\* without a notification.
FairSpec == Spec /\ WF_vars(Main) /\ \A t \in Thrds : WF_vars(Step(t))

-----------------------------------------------------------------------------
\* mycond.cc:125-129: the last broadcast makes the threads leave, and once cnt
\* has run down the join messages should appear.  They need not: a thread that
\* has read quit before main sets it may start its wait after the broadcast,
\* and nothing wakes it again.
AllJoined == <>(main = "done")
=============================================================================
