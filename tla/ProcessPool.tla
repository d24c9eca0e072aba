----------------------------- MODULE ProcessPool -----------------------------
(***************************************************************************)
(* The process pool of 1119/processPool: a parent, process 0, with a pipe  *)
(* to each child.  It forks child i after making pipe i, so the child gets *)
(* the write ends of all earlier pipes as well and never closes them; and  *)
(* the menu loop has no way out, so what follows it is never reached.      *)
(*                                                                         *)
(* pc[0]: "fork" (pipe() and fork()), "close" (its read end), "menu" or    *)
(* "send".  pc[i]: "born" (before it closes its write end) or "wait".      *)
(*                                                                         *)
(* A command is its number in callbacks; which one it is, and what it      *)
(* prints, concerns nobody else: 0 stands for all of them.  Four bytes are *)
(* read and written whole.                                                 *)
(***************************************************************************)
EXTENDS PipeEnds

CONSTANT NumProcesses \* PROCESS_NUM

vars == <<pc, ends, data>>
Children == 1 .. NumProcesses

TypeOK == EndsTyped({"fork", "close", "menu", "send", "born", "wait"})

Init == /\ pc = [p \in Procs |-> IF p = 0 THEN "fork" ELSE "none"]
        /\ ends = [p \in Procs |-> {}]
        /\ data = [k \in Pipes |-> <<>>]

\* The children forked so far.
created == {i \in Children : pc[i] # "none"}

-----------------------------------------------------------------------------
Fork == LET i == Cardinality(created) + 1
            all == ends[0] \cup {<<i, "r">>, <<i, "w">>}
        IN  /\ pc[0] = "fork"
            /\ pc' = [pc EXCEPT ![0] = "close", ![i] = "born"]
            /\ ends' = [ends EXCEPT ![0] = all, ![i] = all]
            /\ UNCHANGED data

\* Wrong: the parent keeps its read ends.
CloseReadNot == /\ pc[0] = "close"
                /\ Goto(0, IF created = Children THEN "menu" ELSE "fork")
                /\ UNCHANGED <<ends, data>>

\* The parent closes its read end and remembers the child in slots.
CloseRead == /\ pc[0] = "close"
             /\ Close(0, Cardinality(created), "r")
             /\ Goto(0, IF created = Children THEN "menu" ELSE "fork")
             /\ UNCHANGED data

\* The user has the parent send; showing the functions changes nothing.
Menu == pc[0] = "menu" /\ Goto(0, "send") /\ UNCHANGED <<ends, data>>

\* __sendAndWakeUp(), to a child picked at random.
Send(i) == pc[0] = "send" /\ Write(0, i, 0, "send")

-----------------------------------------------------------------------------
CloseWrite(i) == pc[i] = "born" /\ Close(i, i, "w") /\ Goto(i, "wait") /\ UNCHANGED data

\* __waitCommand() and the callback, or exit().
Wait(i) == /\ pc[i] = "wait"
           /\ \/ /\ data[i] # <<>>
                 /\ data' = [data EXCEPT ![i] = Tail(@)]
                 /\ UNCHANGED <<pc, ends>>
              \/ Eof(i) /\ Exit(i, "left") /\ UNCHANGED data

Child(i) == CloseWrite(i) \/ Wait(i)
Parent == Fork \/ CloseRead \/ Menu \/ \E i \in Children : Send(i)

Next == Parent \/ \E i \in Children : Child(i) \/ Kill(i)
        \/ Kill(0)

-----------------------------------------------------------------------------
\* An end of file reaches a child only when nobody can send to it any more: the
\* parent is gone, and so is every later child, which would not send but holds the
\* write end.
LastFirst == \A i \in Children : pc[i] = "left" =>
    pc[0] \in Gone /\ \A j \in created : j > i => pc[j] \in Gone

\* Once a process of a pool at work is gone all the others go: the children after
\* the parent, from the last to the first; the parent by a SIGPIPE when it next
\* picks a child that has been killed.
AllLeave == (pc[0] \in Gone \/ (pc[0] = "send" /\ \E i \in Children : pc[i] \in Gone))
                ~> (pc[0] \in Gone /\ \A i \in created : pc[i] \in Gone)

(***************************************************************************)
(* The inductive invariant of the proofs in ChannelProofs.                 *)
(***************************************************************************)
Places == /\ pc[0] \in {"fork", "close", "menu", "send"} \cup Gone
          /\ \A i \in Children : pc[i] \in {"none", "born", "wait"} \cup Gone

\* The children are forked in their order, and the parent stays in its loop as long as
\* one is missing.
Forked == \E n \in 0 .. NumProcesses : /\ created = 1 .. n
                                       /\ pc[0] = "fork" => n < NumProcesses
                                       /\ pc[0] = "close" => n > 0

\* The parent has the write end of every pipe, and a child those of all pipes that
\* were made before its own.
Inherited == /\ pc[0] \notin Gone => \A i \in created : <<i, "w">> \in ends[0]
             /\ \A i, j \in created : i < j /\ pc[j] \notin Gone => <<i, "w">> \in ends[j]

IInv == /\ TypeOK /\ data \in [Pipes -> Seq({0})]
        /\ Places /\ Forked /\ Inherited /\ LastFirst
=============================================================================
