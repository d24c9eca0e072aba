----------------------------- MODULE FifoServer -----------------------------
(***************************************************************************)
(* 1126/fifo: a server, process 0, makes a fifo, opens it and forks        *)
(* children that all read it; clients write the lines their users type.    *)
(* The fifo is "pipe" 1.  Removing it is compiled out.                     *)
(*                                                                         *)
(* pc[0]: "open" (made the fifo), "opening" (blocked in open()), "fork",   *)
(* "waitpid" or "failed" (mkfifo() found the fifo of an earlier start).    *)
(* A child is at "read"; a client is at "open" or "line".                  *)
(*                                                                         *)
(* Both ends of open() on a fifo wait for each other.  A client's loop has *)
(* no way out but a signal, SIGPIPE included.                              *)
(***************************************************************************)
EXTENDS PipeEnds

CONSTANTS NumReaders, \* nums
          NumClients,
          MaxLines    \* bound of the model: lines written

VARIABLES file,  \* ./fifo.ipc exists
          count, \* lines written
          shown  \* lines that have been shown

vars == <<pc, ends, data, file, count, shown>>

Children == 1 .. NumReaders
Clients == NumReaders + 1 .. NumReaders + NumClients

TypeOK == /\ EndsTyped({"open", "opening", "fork", "waitpid", "failed", "read", "line"})
          /\ file \in BOOLEAN
          /\ count \in 0 .. MaxLines
          /\ shown \subseteq 1 .. count

Init == /\ pc = [p \in Procs |-> "none"]
        /\ ends = [p \in Procs |-> {}]
        /\ data = [k \in Pipes |-> <<>>]
        /\ file = FALSE
        /\ count = 0
        /\ shown = {}

-----------------------------------------------------------------------------
(***************************************************************************)
(* The server.                                                             *)
(***************************************************************************)
\* mkfifo() fails when the file is there, as it is from the first start on.
Start == /\ pc[0] \in Gone \cup {"none"}
         /\ Goto(0, IF file THEN "failed" ELSE "open")
         /\ file' = TRUE
         /\ UNCHANGED <<ends, data, count, shown>>

OpenRead == /\ pc[0] = "open"
            /\ Goto(0, "opening")
            /\ ends' = [ends EXCEPT ![0] = {<<1, "r">>}]
            /\ UNCHANGED <<data, file, count, shown>>

created == {i \in Children : pc[i] # "none"}

Fork == LET i == Cardinality(created) + 1
        IN  /\ pc[0] = "fork"
            /\ pc' = [pc EXCEPT ![i] = "read", ![0] = IF i = NumReaders THEN "waitpid" ELSE "fork"]
            /\ ends' = [ends EXCEPT ![i] = ends[0]]
            /\ UNCHANGED <<data, file, count, shown>>

\* getMessage(): as many lines as the buffer has room for come as one, to whichever
\* child reads first.
GetMessage(i) == /\ pc[i] = "read"
                 /\ \/ /\ \E n \in 1 .. Len(data[1]) :
                             /\ shown' = shown \cup {data[1][m] : m \in 1 .. n}
                             /\ data' = [data EXCEPT ![1] = SubSeq(@, n + 1, Len(@))]
                       /\ UNCHANGED <<pc, ends>>
                    \/ Eof(1) /\ Exit(i, "left") /\ UNCHANGED <<data, shown>>
                 /\ UNCHANGED <<file, count>>

\* The parent, which has its own copy of the read end, has waited for all children.
Reap == /\ pc[0] = "waitpid" /\ \A i \in Children : pc[i] \in Gone
        /\ Exit(0, "left")
        /\ UNCHANGED <<data, file, count, shown>>

-----------------------------------------------------------------------------
(***************************************************************************)
(* The clients.                                                            *)
(***************************************************************************)
StartClient(c) == /\ pc[c] = "none"
                  /\ Goto(c, IF file THEN "open" ELSE "left")
                  /\ UNCHANGED <<ends, data, file, count, shown>>

\* The first client to open the fifo lets the server's open() return as well.
OpenWrite(c) == /\ pc[c] = "open" /\ held(1, "r")
                /\ pc' = [pc EXCEPT ![c] = "line", ![0] = IF @ = "opening" THEN "fork" ELSE @]
                /\ ends' = [ends EXCEPT ![c] = {<<1, "w">>}]
                /\ UNCHANGED <<data, file, count, shown>>

WriteLine(c) == /\ pc[c] = "line" /\ count < MaxLines
                /\ count' = count + 1
                /\ Write(c, 1, count', "line")
                /\ UNCHANGED <<file, shown>>

Server == Start \/ OpenRead \/ Fork \/ Reap \/ \E i \in Children : GetMessage(i)
Client(c) == StartClient(c) \/ OpenWrite(c) \/ WriteLine(c)

Next == \/ Server
        \/ \E c \in Clients : Client(c)
        \/ \E p \in {0} \cup Children \cup Clients : Kill(p) /\ UNCHANGED <<file, count, shown>>

-----------------------------------------------------------------------------
noReader == /\ \A i \in Children : pc[i] \in Gone \cup {"none"}
            /\ pc[0] \in Gone \cup {"failed"} \/ created = Children

\* A line is shown by one of the children, unless there are none left: a client that
\* opens the fifo while they leave, and the parent still holds it open, is not heard.
Taken == \A m \in 1 .. MaxLines : (\E n \in 1 .. Len(data[1]) : data[1][n] = m) ~> (m \in shown \/ noReader)

\* Once all clients are gone every process of the server goes.
ServerLeaves == (pc[0] = "waitpid" /\ \A c \in Clients : pc[c] \in Gone)
                    ~> (\A p \in {0} \cup Children : pc[p] \in Gone \cup {"failed"})

(***************************************************************************)
(* The inductive invariant of the proofs in ChannelProofs.                 *)
(***************************************************************************)
Places == /\ pc[0] \in {"none", "open", "opening", "fork", "waitpid", "failed"} \cup Gone
          /\ \A i \in Children : pc[i] \in {"none", "read"} \cup Gone
          /\ pc[0] # "none" => file

\* The children are forked in their order, by the first server only.
Forked == \E n \in 0 .. NumReaders : /\ created = 1 .. n
                                     /\ pc[0] \in {"none", "open", "opening"} => n = 0
                                     /\ pc[0] = "fork" => n < NumReaders

IInv == /\ TypeOK /\ data \in [Pipes -> Seq(1 .. count)]
        /\ Places /\ Forked
=============================================================================
