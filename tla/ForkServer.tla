----------------------------- MODULE ForkServer -----------------------------
(***************************************************************************)
(* The echo server of 0215/tcp/tcp_backup_1: for every connection that     *)
(* process 0 accepts it forks a child, which echoes until the client is    *)
(* gone, and closes its own copy of the socket.  A connection is a pair of *)
(* "pipes", up(c) and down(c), and a socket one end of each.               *)
(* What has not been accepted yet belongs to the listening socket, which   *)
(* stands here as one more process.                                        *)
(*                                                                         *)
(* pc[0]: "accept", "fork" or "close"; a child is at "read" or "write"; a  *)
(* client, which connects once, is at "line" or "recv".                    *)
(*                                                                         *)
(* Whether a write to a socket whose other side is gone fails at once, by  *)
(* a SIGPIPE, or is lost, depends on what has come back.  Lines are not    *)
(* split here and all alike, 0: TcpServer has what they say.               *)
(***************************************************************************)
EXTENDS PipeEnds

CONSTANT NumClients

vars == <<pc, ends, data>>

Clients == 1 .. NumClients
child(c) == NumClients + c
Listen == 2 * NumClients + 1
up(c) == c
down(c) == NumClients + c

atServer(c) == {<<up(c), "r">>, <<down(c), "w">>}
atClient(c) == {<<up(c), "w">>, <<down(c), "r">>}

TypeOK == EndsTyped({"accept", "fork", "close", "read", "write", "line", "recv", "listen"})

\* initServer() has bound the port and listens.
Init == /\ pc = [p \in Procs |-> CASE p = 0 -> "accept" [] p = Listen -> "listen" [] OTHER -> "none"]
        /\ ends = [p \in Procs |-> {}]
        /\ data = [k \in Pipes |-> <<>>]

-----------------------------------------------------------------------------
(***************************************************************************)
(* The server.                                                             *)
(***************************************************************************)
Accept(c) == /\ pc[0] = "accept" /\ atServer(c) \subseteq ends[Listen]
             /\ ends' = [ends EXCEPT ![Listen] = @ \ atServer(c), ![0] = atServer(c)]
             /\ Goto(0, "fork")
             /\ UNCHANGED data

\* The child has no use for the listening socket and closes it at once.  fork() may
\* fail, which nobody looks at.
Fork(c) == /\ pc[0] = "fork" /\ atServer(c) \subseteq ends[0]
           /\ \/ /\ pc' = [pc EXCEPT ![0] = "close", ![child(c)] = "read"]
                 /\ ends' = [ends EXCEPT ![child(c)] = ends[0]]
              \/ Goto(0, "close") /\ UNCHANGED ends
           /\ UNCHANGED data

\* Wrong: the parent keeps the socket of a connection it has handed over.
CloseSocketNot == pc[0] = "close" /\ Goto(0, "accept") /\ UNCHANGED <<ends, data>>

CloseSocket == /\ pc[0] = "close"
               /\ ends' = [ends EXCEPT ![0] = {}]
               /\ Goto(0, "accept")
               /\ UNCHANGED data

\* service(): read() gives a line, the end of the stream, or an error when the client
\* was killed with an answer unread.
Read(c) == /\ pc[child(c)] = "read"
           /\ LET k == up(c) IN
              \/ /\ data[k] # <<>>
                 /\ data' = [data EXCEPT ![k] = Tail(@)]
                 /\ Goto(child(c), "write")
                 /\ UNCHANGED ends
              \/ Eof(k) /\ Exit(child(c), "left") /\ UNCHANGED data
              \/ pc[c] \in Gone /\ data[down(c)] # <<>> /\ Exit(child(c), "left") /\ UNCHANGED data

WriteBack(c) == /\ pc[child(c)] = "write"
                /\ \/ Write(child(c), down(c), 0, "read")
                   \/ ~held(down(c), "r") /\ Goto(child(c), "read") /\ UNCHANGED <<ends, data>>

-----------------------------------------------------------------------------
(***************************************************************************)
(* The clients.                                                            *)
(***************************************************************************)
Connect(c) == /\ pc[c] = "none"
              /\ Goto(c, "line")
              /\ ends' = [ends EXCEPT ![c] = atClient(c), ![Listen] = @ \cup atServer(c)]
              /\ UNCHANGED data

\* Of an empty line nothing is sent, and the client waits all the same.
SendLine(c) == /\ pc[c] = "line"
               /\ \/ Write(c, up(c), 0, "recv")
                  \/ Goto(c, "recv") /\ UNCHANGED <<ends, data>>

Recv(c) == /\ pc[c] = "recv"
           /\ LET k == down(c) IN
              \/ /\ data[k] # <<>>
                 /\ data' = [data EXCEPT ![k] = <<>>]
                 /\ Goto(c, "line")
                 /\ UNCHANGED ends
              \/ Eof(k) /\ Exit(c, "left") /\ UNCHANGED data

Main == CloseSocket \/ \E c \in Clients : Accept(c) \/ Fork(c)

Next == \/ Main
        \/ \E c \in Clients : \/ Read(c) \/ WriteBack(c)
                              \/ Connect(c) \/ SendLine(c) \/ Recv(c)
                              \/ Kill(c) \/ Kill(child(c))

-----------------------------------------------------------------------------
\* No process but its own child, and the parent until it has closed its copy, holds
\* a connection that has been accepted.
OwnConnection == \A c \in Clients :
    LET holders == {p \in Procs \ {Listen} : ends[p] \cap atServer(c) # {}}
    IN  /\ holders \subseteq {0, child(c)}
        /\ pc[0] = "accept" => 0 \notin holders

\* When its child is gone a client does not wait for an answer any longer, and when a
\* client is gone so is its child, while the server goes on.
HangUp == \A c \in Clients :
    /\ (pc[c] = "recv" /\ pc[child(c)] \in Gone) ~> (pc[c] # "recv")
    /\ (pc[c] \in Gone) ~> (pc[child(c)] \in Gone \cup {"none"})

(***************************************************************************)
(* The inductive invariant of the proofs in ChannelProofs.                 *)
(***************************************************************************)
Places == pc[0] \in {"accept", "fork", "close"} /\ pc[Listen] = "listen"

\* Who may hold what: a client its own socket, a child that of its client, the parent
\* one at a time and none while it waits for the next.
Sockets == /\ \A c \in Clients : ends[c] \subseteq atClient(c) /\ ends[child(c)] \subseteq atServer(c)
           /\ ends[0] = {} \/ \E c \in Clients : ends[0] = atServer(c)
           /\ pc[0] = "accept" => ends[0] = {}
           /\ \A p \in Procs \ (0 .. Listen) : ends[p] = {}

IInv == /\ TypeOK /\ data \in [Pipes -> Seq({0})]
        /\ Places /\ Sockets
=============================================================================
