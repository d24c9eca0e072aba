------------------------------ MODULE TcpServer ------------------------------
(***************************************************************************)
(* The echo server of 0215/tcp: main accepts connections and pushes one    *)
(* task for each to the thread pool, a worker stays in service() until its *)
(* connection ends, and clients send a line and wait for the answer.       *)
(*                                                                         *)
(* The pool is BoundedFifo, which ThreadPool is shown to implement: main   *)
(* offers and puts tasks, workers get and use them.                        *)
(*                                                                         *)
(* TCP is a pair of reliable streams.  The kernel completes a connection   *)
(* before accept() returns it, so a client may send before it is served.   *)
(* A client only ends when it is killed: at the end of its input getline() *)
(* leaves an empty line, of which send() sends nothing.  The server's end  *)
(* is reset when a killed client has left something unread, or after a     *)
(* write to a client that is gone.  After that a write fails, which nobody *)
(* looks at, or is a SIGPIPE, which nothing handles.                       *)
(*                                                                         *)
(* cpc[c]:  "off", "prompt" (at getline) or "recv".                        *)
(* wpc[w]:  "idle" (in the pool), "read", "write" or "close".              *)
(***************************************************************************)
EXTENDS Integers, Sequences, FiniteSets, FiniteSetsExt

CONSTANTS Clients,   \* client programs, one connection each at a time
          Workers,   \* the pool's threads
          Main,      \* the thread in start()
          Fds,       \* the numbers accept() can return
          Lines,     \* what a user may type: sequences of pieces
          MaxFlight, \* bound of the model: pieces sent and not yet answered
          NoTask, Nobody

Pieces == UNION {{l[i] : i \in DOMAIN l} : l \in Lines}

\* Task: the descriptor, and the client it was accepted for (__ip and __port).
Tasks == [sock : Fds, client : Clients]

ASSUME TcpServerAssumption ==
    /\ IsFiniteSet(Fds) /\ Fds \subseteq Nat
    /\ Main \notin Workers
    /\ Nobody \notin Clients
    /\ NoTask \notin Tasks
    /\ Lines \subseteq Seq(Pieces)

VARIABLES
    alive,    \* the server process runs
    backlog,  \* connections accept() has still to return, in order
    fdtab,    \* fdtab[f]: the client at the other end of descriptor f, or Nobody
    queue,    \* the pool's task queue
    hand,     \* main's and the workers' task
    wpc,
    buffer,   \* service()'s buffer
    cpc,
    up, down, \* the two directions of each client's connection
    fin, rst, \* the client's end is closed; a reset has reached the server's
    split     \* a read() or a recv() of c's connection has left some of what was under way

server == <<backlog, fdtab, queue, hand, wpc, buffer>>
stream == <<up, down, fin, rst>>
vars == <<alive, server, cpc, stream, split>>

Pool == INSTANCE BoundedFifo WITH
    Producers <- {Main}, Consumers <- Workers, Items <- Tasks, NoItem <- NoTask,
    Bound <- Cardinality(Fds), fifo <- queue

TypeOK ==
    /\ alive \in BOOLEAN
    /\ backlog \in Seq(Clients)
    /\ fdtab \in [Fds -> Clients \cup {Nobody}]
    /\ queue \in Seq(Tasks)
    /\ hand \in [Workers \cup {Main} -> Tasks \cup {NoTask}]
    /\ wpc \in [Workers -> {"idle", "read", "write", "close"}]
    /\ buffer \in [Workers -> Seq(Pieces)]
    /\ cpc \in [Clients -> {"off", "prompt", "recv"}]
    /\ up \in [Clients -> Seq(Pieces)] /\ down \in [Clients -> Seq(Pieces)]
    /\ fin \in [Clients -> BOOLEAN] /\ rst \in [Clients -> BOOLEAN]
    /\ split \in [Clients -> BOOLEAN]

Init == /\ alive = TRUE
        /\ backlog = <<>>
        /\ fdtab = [f \in Fds |-> Nobody]
        /\ Pool!Init
        /\ wpc = [w \in Workers |-> "idle"]
        /\ buffer = [w \in Workers |-> <<>>]
        /\ cpc = [c \in Clients |-> "off"]
        /\ up = [c \in Clients |-> <<>>] /\ down = [c \in Clients |-> <<>>]
        /\ fin = [c \in Clients |-> FALSE] /\ rst = [c \in Clients |-> FALSE]
        /\ split = [c \in Clients |-> FALSE]

-----------------------------------------------------------------------------
(***************************************************************************)
(* The client.                                                             *)
(***************************************************************************)
\* The server still has an end of the connection.
held(c) == \/ \E i \in DOMAIN backlog : backlog[i] = c
           \/ \E f \in Fds : fdtab[f] = c

\* Pieces on their way from c back to c.
carriers(c) == {w \in Workers : wpc[w] = "write" /\ fdtab[hand[w].sock] = c}
carried(c) == IF carriers(c) = {} THEN <<>>
              ELSE buffer[CHOOSE w \in carriers(c) : TRUE]
inFlight(c) == down[c] \o carried(c) \o up[c]
flight == MapThenSumSet(LAMBDA c : Len(inFlight(c)), Clients)

\* connect(); a client name is used again once its last connection is gone.
Connect(c) == /\ alive /\ cpc[c] = "off" /\ ~held(c)
              /\ cpc' = [cpc EXCEPT ![c] = "prompt"]
              /\ backlog' = Append(backlog, c)
              /\ UNCHANGED <<alive, fdtab, queue, hand, wpc, buffer, stream, split>>

\* getline() and send(); an empty line sends nothing.
SendLine(c) == /\ alive /\ cpc[c] = "prompt"
               /\ \E l \in Lines :
                     /\ flight + Len(l) <= MaxFlight
                     /\ up' = [up EXCEPT ![c] = @ \o l]
               /\ cpc' = [cpc EXCEPT ![c] = "recv"]
               /\ UNCHANGED <<alive, server, down, fin, rst, split>>

\* One recv() takes what is there, or some of it, for the answer.
RecvEcho(c) == /\ alive /\ cpc[c] = "recv"
               /\ \E n \in 1 .. Len(down[c]) :
                     /\ down' = [down EXCEPT ![c] = SubSeq(@, n + 1, Len(@))]
                     /\ split' = [split EXCEPT ![c] = @ \/ n < Len(down[c])]
               /\ cpc' = [cpc EXCEPT ![c] = "prompt"]
               /\ UNCHANGED <<alive, server, up, fin, rst>>

\* The user ends the client, which has no other way out.
Kill(c) == /\ alive /\ cpc[c] # "off"
           /\ cpc' = [cpc EXCEPT ![c] = "off"]
           /\ fin' = [fin EXCEPT ![c] = TRUE]
           /\ rst' = [rst EXCEPT ![c] = down[c] # <<>>]
           /\ down' = [down EXCEPT ![c] = <<>>]
           /\ UNCHANGED <<alive, server, up, split>>

\* The server's end is gone: recv() returns, and the client leaves its loop.
ServerGone(c) == /\ ~alive /\ cpc[c] # "off"
                 /\ cpc' = [cpc EXCEPT ![c] = "off"]
                 /\ UNCHANGED <<alive, server, stream, split>>

-----------------------------------------------------------------------------
(***************************************************************************)
(* start(): main.                                                          *)
(***************************************************************************)
free == {f \in Fds : fdtab[f] = Nobody}

\* Wrong: the result of accept() is not looked at, and -1 makes a task too.
AcceptUnchecked ==
    /\ alive /\ backlog # <<>>
    /\ hand[Main] = NoTask
    /\ \E f \in IF free = {} THEN {-1} ELSE free :
          /\ fdtab' = [g \in Fds |-> IF g = f THEN Head(backlog) ELSE fdtab[g]]
          /\ hand' = [hand EXCEPT ![Main] = [sock |-> f, client |-> Head(backlog)]]
    /\ backlog' = IF free = {} THEN backlog ELSE Tail(backlog)
    /\ UNCHANGED <<alive, queue, wpc, buffer, cpc, stream, split>>

\* accept() returns the lowest free descriptor.  Without one it fails, and main
\* tries again.
Accept == /\ alive /\ backlog # <<>> /\ free # {}
          /\ \E f \in free :
                /\ \A g \in free : f <= g
                /\ fdtab' = [fdtab EXCEPT ![f] = Head(backlog)]
                /\ Pool!Offer(Main)
                /\ hand'[Main] = [sock |-> f, client |-> Head(backlog)]
          /\ backlog' = Tail(backlog)
          /\ UNCHANGED <<alive, wpc, buffer, cpc, stream, split>>

\* Wrong: closes the descriptor after handing it over, as the version with
\* processes does.
PushAndClose == /\ alive
                /\ Pool!Put(Main)
                /\ fdtab' = [fdtab EXCEPT ![hand[Main].sock] = Nobody]
                /\ UNCHANGED <<alive, backlog, wpc, buffer, cpc, stream, split>>

PushTask == /\ alive
            /\ Pool!Put(Main)
            /\ UNCHANGED <<alive, backlog, fdtab, wpc, buffer, cpc, stream, split>>

-----------------------------------------------------------------------------
(***************************************************************************)
(* service(): a worker.                                                    *)
(***************************************************************************)
peer(w) == fdtab[hand[w].sock]

GetTask(w) == /\ alive /\ wpc[w] = "idle"
              /\ Pool!Get(w)
              /\ wpc' = [wpc EXCEPT ![w] = "read"]
              /\ UNCHANGED <<alive, backlog, fdtab, buffer, cpc, stream, split>>

\* Wrong: waits until the buffer is full.
ReadFull(w) == /\ alive /\ wpc[w] = "read"
               /\ Len(up[peer(w)]) >= 2
               /\ buffer' = [buffer EXCEPT ![w] = SubSeq(up[peer(w)], 1, 2)]
               /\ up' = [up EXCEPT ![peer(w)] = SubSeq(@, 3, Len(@))]
               /\ wpc' = [wpc EXCEPT ![w] = "write"]
               /\ UNCHANGED <<alive, backlog, fdtab, queue, hand, cpc, down, fin, rst, split>>

\* read() returns some of the data; at the end of it zero, or an error after a
\* reset, and both leave the loop.
ReadData(w) == /\ alive /\ wpc[w] = "read"
               /\ \E n \in 1 .. Len(up[peer(w)]) :
                     /\ buffer' = [buffer EXCEPT ![w] = SubSeq(up[peer(w)], 1, n)]
                     /\ up' = [up EXCEPT ![peer(w)] = SubSeq(@, n + 1, Len(@))]
                     /\ split' = [split EXCEPT ![peer(w)] = @ \/ n < Len(up[peer(w)])]
               /\ wpc' = [wpc EXCEPT ![w] = "write"]
               /\ UNCHANGED <<alive, backlog, fdtab, queue, hand, cpc, down, fin, rst>>

\* Wrong: no break at the end of the data, so that the buffer is written again.
ReadEndWrites(w) ==
    /\ alive /\ wpc[w] = "read"
    /\ fin[peer(w)]
    /\ up[peer(w)] = <<>> \/ rst[peer(w)]
    /\ wpc' = [wpc EXCEPT ![w] = "write"]
    /\ UNCHANGED <<alive, backlog, fdtab, queue, hand, buffer, cpc, stream, split>>

ReadEnd(w) == /\ alive /\ wpc[w] = "read"
              /\ fin[peer(w)]
              /\ up[peer(w)] = <<>> \/ rst[peer(w)]
              /\ wpc' = [wpc EXCEPT ![w] = "close"]
              /\ UNCHANGED <<alive, backlog, fdtab, queue, hand, buffer, cpc, stream, split>>

\* Wrong: sends one piece and takes that for all of it.
WriteShort(w) == /\ alive /\ wpc[w] = "write"
                 /\ ~fin[peer(w)]
                 /\ down' = [down EXCEPT ![peer(w)] = Append(@, Head(buffer[w]))]
                 /\ buffer' = [buffer EXCEPT ![w] = <<>>]
                 /\ wpc' = [wpc EXCEPT ![w] = "read"]
                 /\ UNCHANGED <<alive, backlog, fdtab, queue, hand, cpc, up, fin, rst, split>>

\* What write() returns is not looked at.  To a client that is gone it has no
\* effect, but the answer may be a reset.
WriteBack(w) == /\ alive /\ wpc[w] = "write"
                /\ IF fin[peer(w)]
                   THEN /\ \E r \in {rst[peer(w)], TRUE} :
                              rst' = [rst EXCEPT ![peer(w)] = r]
                        /\ UNCHANGED down
                   ELSE /\ down' = [down EXCEPT ![peer(w)] = @ \o buffer[w]]
                        /\ UNCHANGED rst
                /\ buffer' = [buffer EXCEPT ![w] = <<>>]
                /\ wpc' = [wpc EXCEPT ![w] = "read"]
                /\ UNCHANGED <<alive, backlog, fdtab, queue, hand, cpc, up, fin, split>>

\* SIGPIPE ends the process, and with it every connection.
WriteBroken(w) == /\ alive /\ wpc[w] = "write"
                  /\ rst[peer(w)]
                  /\ alive' = FALSE
                  /\ UNCHANGED <<server, cpc, stream, split>>

\* close() frees the number; the task returns.
Close(w) == /\ alive /\ wpc[w] = "close"
            /\ LET c == peer(w)
               IN  /\ up' = [up EXCEPT ![c] = <<>>]
                   /\ fin' = [fin EXCEPT ![c] = FALSE]
                   /\ rst' = [rst EXCEPT ![c] = FALSE]
                   /\ split' = [split EXCEPT ![c] = FALSE]
            /\ fdtab' = [fdtab EXCEPT ![hand[w].sock] = Nobody]
            /\ Pool!Use(w)
            /\ wpc' = [wpc EXCEPT ![w] = "idle"]
            /\ UNCHANGED <<alive, backlog, buffer, cpc, down>>

Serve(w) == \/ GetTask(w) \/ ReadData(w) \/ ReadEnd(w)
            \/ WriteBack(w) \/ WriteBroken(w) \/ Close(w)

Next == \/ Accept \/ PushTask
        \/ \E w \in Workers : Serve(w)
        \/ \E c \in Clients : \/ Connect(c) \/ SendLine(c) \/ RecvEcho(c)
                              \/ Kill(c) \/ ServerGone(c)

Spec == Init /\ [][Next]_vars

\* main and the workers loop forever, and a client reads what has come.  Nobody
\* has to connect, to type or to leave.
FairSpec == /\ Spec
            /\ WF_vars(Accept) /\ WF_vars(PushTask)
            /\ \A w \in Workers : WF_vars(Serve(w))
            /\ \A c \in Clients : WF_vars(RecvEcho(c) \/ ServerGone(c))
-----------------------------------------------------------------------------
(***************************************************************************)
(* Properties.                                                             *)
(***************************************************************************)
tasksOf(f) == {t \in Workers \cup {Main} : hand[t] # NoTask /\ hand[t].sock = f}
queuedOf(f) == {i \in DOMAIN queue : queue[i].sock = f}

\* A descriptor is open as long as exactly one task owns it, and it still leads
\* to the client that task was made for: no number is leaked, used by two, or
\* used after the next accept() has given it to somebody else.
DescriptorsOwned ==
    \A f \in Fds :
        /\ Cardinality(tasksOf(f)) + Cardinality(queuedOf(f)) =
              IF fdtab[f] = Nobody THEN 0 ELSE 1
        /\ \A t \in tasksOf(f) : hand[t].client = fdtab[f]
        /\ \A i \in queuedOf(f) : queue[i].client = fdtab[f]

\* A worker at a write() that raises SIGPIPE, or has raised it.
broken(w) == wpc[w] = "write" /\ rst[peer(w)]

\* A SIGPIPE comes of a client that has gone away, on whose own connection a line or
\* its answer came in parts: client and server step in turn otherwise, and no write
\* follows a reset.  Nothing else ends the server.
SurvivesWholeLines ==
    /\ \A w \in Workers : broken(w) => fin[peer(w)] /\ split[peer(w)]
    /\ alive \/ \E w \in Workers : broken(w)

\* The server is an echo channel for every client.
AbsOpen == [c \in Clients |-> alive /\ cpc[c] # "off"]
AbsPipe == [c \in Clients |-> IF alive /\ cpc[c] # "off" THEN inFlight(c) ELSE <<>>]
Echo == INSTANCE EchoChannel WITH open <- AbsOpen, pipe <- AbsPipe

\* However connections and workers come and go, every client gets back what it
\* sent, in order, and nothing of anybody else's.
ImplementsEcho == Echo!Spec

\* A client is answered any line that is not empty: one that a worker serves whatever
\* the others do, any other if workers become free time and again.
Served(c) == \E w \in Workers : wpc[w] # "idle" /\ peer(w) = c
Waits(c) == cpc[c] = "recv" /\ inFlight(c) # <<>>
SomeFree == \E w \in Workers : wpc[w] = "idle"
Answered == \A c \in Clients :
    /\ (Waits(c) /\ Served(c)) ~> (cpc[c] # "recv")
    /\ []<>SomeFree => (Waits(c) ~> (cpc[c] # "recv"))

(***************************************************************************)
(* The inductive invariant of the proofs in TcpServerProofs.               *)
(***************************************************************************)
Threads == Workers \cup {Main}

\* A worker has a task, and data to write, where service() takes it to.
Carrying == \A w \in Workers : /\ wpc[w] = "idle" <=> hand[w] = NoTask
                               /\ wpc[w] = "write" <=> buffer[w] # <<>>

\* Every task is for the client its descriptor leads to, no two tasks are for the
\* same descriptor, and there is one for each that is open.
OneTask ==
    /\ \A t \in Threads : hand[t] # NoTask =>
          /\ fdtab[hand[t].sock] = hand[t].client
          /\ \A u \in Threads : hand[u] # NoTask /\ hand[u].sock = hand[t].sock => u = t
          /\ \A i \in DOMAIN queue : queue[i].sock # hand[t].sock
    /\ \A i \in DOMAIN queue :
          /\ fdtab[queue[i].sock] = queue[i].client
          /\ \A j \in DOMAIN queue : queue[j].sock = queue[i].sock => j = i
    /\ \A f \in Fds : fdtab[f] # Nobody => tasksOf(f) # {} \/ queuedOf(f) # {}

\* A client has one connection.
OneConnection ==
    /\ \A f, g \in Fds : fdtab[f] = fdtab[g] /\ fdtab[f] # Nobody => f = g
    /\ \A i, j \in DOMAIN backlog : backlog[i] = backlog[j] => i = j
    /\ \A f \in Fds : \A i \in DOMAIN backlog : fdtab[f] # backlog[i]

\* What the connection of a client that is gone still holds.
Lifecycle == alive =>
    /\ \A c \in Clients :
          /\ ~held(c) => cpc[c] = "off" /\ up[c] = <<>> /\ ~split[c]
          /\ fin[c] <=> held(c) /\ cpc[c] = "off"
          /\ rst[c] => fin[c]
          /\ cpc[c] = "off" => down[c] = <<>>
    /\ \A w \in Workers : wpc[w] = "close" => fin[peer(w)]

\* As long as nothing was taken in parts, a line is at one place on its way, and
\* nothing comes after a reset.
LockStep == alive => \A c \in Clients : split[c] \/
    /\ up[c] # <<>> => down[c] = <<>>
    /\ up[c] # <<>> \/ down[c] # <<>> \/ rst[c] \/ cpc[c] = "prompt" => carriers(c) = {}
    /\ rst[c] => up[c] = <<>>
    /\ cpc[c] = "prompt" => up[c] = <<>> /\ down[c] = <<>>

IInv == /\ TypeOK /\ Carrying /\ OneTask /\ OneConnection
        /\ Lifecycle /\ LockStep /\ SurvivesWholeLines
=============================================================================
