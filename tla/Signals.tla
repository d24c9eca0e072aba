------------------------------ MODULE Signals ------------------------------
(***************************************************************************)
(* Blocked and pending signals.  Three programs:                           *)
(*   "unblock"  0105/mysignal.cc, its second program (in #if 0): catches 2,*)
(*              blocks it, and unblocks it after ten looks at what pends   *)
(*   "all"      0105/mysignal.cc, the program that is built: blocks 1 to   *)
(*              32, one after the other, and looks for ever                *)
(*   "mask"     0108/mysignal1.cc: catches 2 with a handler that blocks 3  *)
(*              to 7 while it runs, and looks ten times                    *)
(*                                                                         *)
(* pc[0]: "start", "block", "look" ("mask": "handler" for the handler's    *)
(* loop, and "sleep") or "killed".  A signal that is pending twice is      *)
(* pending once.  Signals that stop a process are left out.                *)
(***************************************************************************)
EXTENDS Naturals, FiniteSets

CONSTANTS Sigs,  \* the signals that are sent
          Looks, \* ten, in the code
          Last   \* the last that "all" blocks, 32 in the code

KILL == 9 \* can be neither blocked nor caught

VARIABLES pc, code,
          pending, blocked,
          caught,  \* 2 has its handler
          next,    \* "all": the next signal to block
          count,   \* looks, up to Looks
          by,      \* the signal that has ended the process, or 0
          handled, \* handlers run to their end, counted up to 2
          sent     \* 2s sent, counted up to 2

vars == <<pc, code, pending, blocked, caught, next, count, by, handled, sent>>

upTo2(k) == IF k < 2 THEN k + 1 ELSE 2
Mask == 2 .. 7

TypeOK == /\ pc[0] \in {"start", "block", "look", "handler", "sleep", "killed"}
          /\ code \in {"unblock", "all", "mask"}
          /\ pending \subseteq Sigs /\ blocked \subseteq Sigs \ {KILL}
          /\ caught \in BOOLEAN /\ next \in 1 .. Last + 1 /\ count \in 0 .. Looks
          /\ by \in Sigs \cup {0} /\ handled \in 0 .. 2 /\ sent \in 0 .. 2
          /\ pc[0] = "handler" => code = "mask" /\ Sigs \cap Mask \subseteq blocked

Init == /\ pc = [p \in {0} |-> "start"]
        /\ code \in {"unblock", "all", "mask"}
        /\ pending = {} /\ blocked = {} /\ caught = FALSE
        /\ next = 1 /\ count = 0 /\ by = 0 /\ handled = 0 /\ sent = 0

Goto(where) == pc' = [pc EXCEPT ![0] = where]

\* The program goes on when nothing is to be delivered.
runs == pending \subseteq blocked

-----------------------------------------------------------------------------
(***************************************************************************)
(* The kernel.                                                             *)
(***************************************************************************)
Send(s) == /\ pc[0] # "killed"
           /\ pending' = pending \cup {s}
           /\ sent' = IF s = 2 THEN upTo2(sent) ELSE sent
           /\ UNCHANGED <<pc, code, blocked, caught, next, count, by, handled>>

\* The handler of "unblock" prints and returns; that of "mask" starts.
Handle == /\ pc[0] # "killed" /\ 2 \in pending \ blocked /\ caught
          /\ pending' = pending \ {2}
          /\ \/ /\ code = "mask"
                /\ Goto("handler")
                /\ blocked' = Sigs \cap Mask
                /\ count' = 0
                /\ UNCHANGED handled
             \/ code = "unblock" /\ handled' = upTo2(handled) /\ UNCHANGED <<pc, blocked, count>>
          /\ UNCHANGED <<code, caught, next, by, sent>>

Terminate(s) == /\ pc[0] # "killed" /\ s \in pending \ blocked
                /\ s = 2 => ~caught
                /\ Goto("killed")
                /\ by' = s
                /\ UNCHANGED <<code, pending, blocked, caught, next, count, handled, sent>>

-----------------------------------------------------------------------------
(***************************************************************************)
(* The programs.                                                           *)
(***************************************************************************)
\* signal() or sigaction(); "all" has neither.
Catch == /\ runs /\ pc[0] = "start" /\ code # "all"
         /\ caught' = TRUE
         /\ Goto(IF code = "mask" THEN "sleep" ELSE "block")
         /\ UNCHANGED <<code, pending, blocked, next, count, by, handled, sent>>

\* sigprocmask(SIG_BLOCK).
Block == /\ runs /\ pc[0] = "block"
         /\ blocked' = blocked \cup (Sigs \cap {2})
         /\ Goto("look")
         /\ UNCHANGED <<code, pending, caught, next, count, by, handled, sent>>

\* blockSig(next).
blockSig == /\ runs /\ code = "all" /\ pc[0] = "start"
            /\ blocked' = blocked \cup ((Sigs \cap {next}) \ {KILL})
            /\ next' = next + 1
            /\ Goto(IF next = Last THEN "look" ELSE "start")
            /\ UNCHANGED <<code, pending, caught, count, by, handled, sent>>

\* sigpending(), showPending() and the count; the old mask is empty.
Look == /\ runs /\ pc[0] = "look" /\ code = "unblock" /\ count < Looks
        /\ count' = count + 1
        /\ blocked' = IF count' = Looks THEN {} ELSE blocked
        /\ UNCHANGED <<pc, code, pending, caught, next, by, handled, sent>>

\* The same in the handler, and its return.
LookInHandler == /\ runs /\ pc[0] = "handler"
                 /\ count' = count + 1
                 /\ \/ count' < Looks /\ UNCHANGED <<pc, blocked, handled>>
                    \/ count' = Looks /\ Goto("sleep") /\ blocked' = {} /\ handled' = upTo2(handled)
                 /\ UNCHANGED <<code, pending, caught, next, by, sent>>

Kernel == Handle \/ \E s \in Sigs : Terminate(s)
Program == Catch \/ Block \/ blockSig \/ Look \/ LookInHandler

Next == Kernel \/ Program \/ \E s \in Sigs : Send(s)
-----------------------------------------------------------------------------
\* What is blocked does not end the process: "all" dies of 9 alone once its loop is
\* over, the handler of "mask" is not cut short by what its mask holds, and 2 never
\* kills a process that has caught it.  The handler runs no oftener than 2 was sent.
HeldBack == /\ pc[0] = "killed" /\ code = "all" => by = KILL \/ by >= next
            /\ pc[0] = "killed" /\ caught => by # 2
            /\ pc[0] = "killed" /\ code = "mask" /\ blocked # {} => by \notin Mask
            /\ handled <= sent
            /\ code = "unblock" /\ blocked # {} /\ sent = 0 => handled = 0

\* A 2 that was sent is not forgotten, though it may have to wait for the tenth look or
\* for the handler's end; only "all" keeps it for ever.
Delivered == (2 \in pending /\ code # "all") ~> (2 \notin pending \/ pc[0] = "killed")

(***************************************************************************)
(* The inductive invariant of the proofs in DemosProofs.                   *)
(***************************************************************************)

Places == /\ pc \in [{0} -> {"start", "block", "look", "handler", "sleep", "killed"}]
          /\ pc[0] = "block" => code = "unblock"
          /\ code = "all" /\ pc[0] = "start" => next <= Last

\* Which signals are held back, by which program.
Masked == /\ code = "all" => /\ \A s \in Sigs : s < next /\ s # KILL => s \in blocked
                             /\ ~caught
          /\ code = "mask" /\ blocked # {} => Sigs \cap Mask \subseteq blocked

\* Every handler that has run, runs or will run has its own 2, as far as they are counted.
Paid == sent < 2 => handled + (IF 2 \in pending THEN 1 ELSE 0) + (IF pc[0] = "handler" THEN 1 ELSE 0) <= sent

IInv == TypeOK /\ Places /\ Masked /\ Paid /\ HeldBack
=============================================================================
