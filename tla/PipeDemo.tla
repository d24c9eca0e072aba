------------------------------ MODULE PipeDemo ------------------------------
(***************************************************************************)
(* 1119/pipe/mypipe.cc: the parent, process 0, writes numbered messages to *)
(* a pipe, closes it and waits for the child, process 1, which shows what  *)
(* it reads until the end of the file.                                     *)
(*                                                                         *)
(* pc[0]: "fork", "close", "write", "shut" (close(pipefd[1])) or           *)
(* "waitpid".  pc[1]: "born" or "read".                                    *)
(***************************************************************************)
EXTENDS PipeEnds

CONSTANT NumMessages \* the parent stops at count == 10

VARIABLES count, \* messages written
          seen  \* what the child has shown

vars == <<pc, ends, data, count, seen>>

TypeOK == /\ EndsTyped({"fork", "close", "write", "shut", "waitpid", "born", "read"})
          /\ count \in 0 .. NumMessages
          /\ seen \in Seq(1 .. NumMessages)

Init == /\ pc = [p \in Procs |-> IF p = 0 THEN "fork" ELSE "none"]
        /\ ends = [p \in Procs |-> {}]
        /\ data = [k \in Pipes |-> <<>>]
        /\ count = 0
        /\ seen = <<>>

both == {<<1, "r">>, <<1, "w">>}

Fork == /\ pc[0] = "fork"
        /\ pc' = [pc EXCEPT ![0] = "close", ![1] = "born"]
        /\ ends' = [ends EXCEPT ![0] = both, ![1] = both]
        /\ UNCHANGED <<data, count, seen>>

CloseRead == /\ pc[0] = "close"
             /\ Close(0, 1, "r") /\ Goto(0, "write")
             /\ UNCHANGED <<data, count, seen>>

\* Wrong: writes one message too many.
WriteNextOver == /\ pc[0] = "write"
                 /\ count' = count + 1
                 /\ Write(0, 1, count', IF count' > NumMessages THEN "shut" ELSE "write")
                 /\ UNCHANGED seen

WriteNext == /\ pc[0] = "write"
             /\ count' = count + 1
             /\ Write(0, 1, count', IF count' = NumMessages THEN "shut" ELSE "write")
             /\ UNCHANGED seen

Shut == /\ pc[0] = "shut"
        /\ Close(0, 1, "w") /\ Goto(0, "waitpid")
        /\ UNCHANGED <<data, count, seen>>

Reap == /\ pc[0] = "waitpid" /\ pc[1] \in Gone
        /\ Exit(0, "left")
        /\ UNCHANGED <<data, count, seen>>

CloseWrite == /\ pc[1] = "born"
              /\ Close(1, 1, "w") /\ Goto(1, "read")
              /\ UNCHANGED <<data, count, seen>>

\* A read returns all messages that are there as one; a short read is no error.
Read == /\ pc[1] = "read"
        /\ \/ /\ data[1] # <<>>
              /\ seen' = seen \o data[1]
              /\ data' = [data EXCEPT ![1] = <<>>]
              /\ UNCHANGED <<pc, ends>>
           \/ Eof(1) /\ Exit(1, "left") /\ UNCHANGED <<data, seen>>
        /\ UNCHANGED count

Parent == Fork \/ CloseRead \/ WriteNext \/ Shut \/ Reap
Child == CloseWrite \/ Read

Next == \/ Parent
        \/ Child
        \/ \E p \in {0, 1} : Kill(p) /\ UNCHANGED <<count, seen>>

-----------------------------------------------------------------------------
\* When both have come to their ends nothing that was written is unseen or out of
\* order: the parent waits until the child has read the end of the file.
AllShown == pc[0] = "left" /\ pc[1] = "left" => seen = [i \in 1 .. NumMessages |-> i]

\* When either is gone the other goes.
BothLeave == (\E p \in {0, 1} : pc[p] \in Gone) ~> (\A p \in {0, 1} : pc[p] \in Gone \cup {"none"})

(***************************************************************************)
(* The inductive invariant of the proofs in ChannelProofs.                 *)
(***************************************************************************)
Places == /\ pc[0] \in {"fork", "close", "write", "shut", "waitpid"} \cup Gone
          /\ pc[1] \in {"none", "born", "read"} \cup Gone
          /\ pc[0] = "fork" => pc[1] = "none"

\* As long as the parent is to write it has its end, so the child sees no end of file
\* before it has shut the pipe.
WriterHolds == /\ pc[0] \in {"close", "write", "shut"} => <<1, "w">> \in ends[0]
               /\ pc[1] = "left" => data[1] = <<>> /\ pc[0] \in {"waitpid"} \cup Gone

\* What has been shown, and what is in the pipe, is what has been written.
NothingLost == /\ data \in [Pipes -> Seq(1 .. NumMessages)]
               /\ pc[0] # "killed" => seen \o data[1] = [m \in 1 .. count |-> m]

\* The parent writes until it has written everything.
Counts == /\ pc[0] \in {"fork", "close", "write"} => count < NumMessages
          /\ pc[0] \in {"shut", "waitpid", "left"} => count = NumMessages

IInv == TypeOK /\ Places /\ WriterHolds /\ NothingLost /\ Counts
=============================================================================
