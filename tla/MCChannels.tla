----------------------------- MODULE MCChannels -----------------------------
(***************************************************************************)
(* The programs whose processes talk through pipes or shared memory, one   *)
(* of them at a time, chosen in the initial state.  What belongs to the    *)
(* others stands still.                                                    *)
(***************************************************************************)
EXTENDS PipeEnds

CONSTANTS Chosen,    \* the programs of a run
          NumProcesses, NumMessages, NumReaders, NumClients,
          Segments, MaxStarts,
          MaxLines   \* bound of the model: lines written to the fifo, or into a segment

\* There is a process and a pipe for all that a program uses.
ASSUME MCChannelsAssumption ==
    /\ NumProcesses \in Nat \ {0} /\ 0 .. NumProcesses \subseteq Procs /\ 1 .. NumProcesses \subseteq Pipes
    /\ NumMessages \in Nat \ {0} /\ {0, 1} \subseteq Procs /\ 1 \in Pipes
    /\ NumReaders \in Nat \ {0} /\ NumClients \in Nat
    /\ 0 .. NumReaders + NumClients \subseteq Procs
    /\ 0 .. 2 * NumClients + 1 \subseteq Procs /\ 1 .. 2 * NumClients \subseteq Pipes
    /\ Segments \subseteq Nat \ {0} /\ MaxStarts \in Nat /\ MaxLines \in Nat

VARIABLES prog,
          file, count, shown, seen,
          starts, key, mode, mem, at, fifo, bell, deaf, woken

pipes == <<pc, ends, data>>
rest == <<file, count, shown, seen>>
segments == <<starts, key, mode, mem, at>>
doorbell == <<fifo, bell, deaf, woken>>
channel == <<pc, segments>>
vars == <<prog, pipes, rest, segments, doorbell>>

Pool == INSTANCE ProcessPool
Demo == INSTANCE PipeDemo
Fifo == INSTANCE FifoServer
Server == INSTANCE ForkServer
Pipe == INSTANCE ShmPipe
Poll == INSTANCE ShmPoll

noPipes == ends = <<>> /\ data = <<>>
noFile == file = FALSE /\ shown = {}
noCount == count = 0
noSeen == seen = <<>>
noShm == /\ starts = <<>> /\ key = 0 /\ mode = <<>> /\ mem = <<>> /\ at = <<>>
         /\ fifo = FALSE /\ bell = <<>> /\ deaf = FALSE /\ woken = 0

Init == /\ prog \in Chosen
        /\ \/ prog = "pool" /\ Pool!Init /\ noFile /\ noCount /\ noSeen /\ noShm
           \/ prog = "demo" /\ Demo!Init /\ noFile /\ noShm
           \/ prog = "fifo" /\ Fifo!Init /\ noSeen /\ noShm
           \/ prog = "server" /\ Server!Init /\ noFile /\ noCount /\ noSeen /\ noShm
           \/ prog \in {"shm_pipe", "shm"} /\ Pipe!Init /\ noPipes /\ noFile /\ noCount /\ noSeen

Next == /\ UNCHANGED prog
        /\ \/ prog = "pool" /\ Pool!Next /\ UNCHANGED <<rest, segments, doorbell>>
           \/ prog = "demo" /\ Demo!Next /\ UNCHANGED <<file, shown, segments, doorbell>>
           \/ prog = "fifo" /\ Fifo!Next /\ UNCHANGED <<seen, segments, doorbell>>
           \/ prog = "server" /\ Server!Next /\ UNCHANGED <<rest, segments, doorbell>>
           \/ prog = "shm_pipe" /\ Pipe!Next /\ UNCHANGED <<ends, data, rest>>
           \/ prog = "shm" /\ Poll!Next /\ UNCHANGED <<ends, data, rest, doorbell>>

\* Processes are scheduled, and the pool's parent picks every child again and again.
\* Nobody has to start or to end a program, to choose from the menu, to connect or to
\* type.
Fairness ==
    /\ WF_pipes(prog = "pool" /\ (Pool!Fork \/ Pool!CloseRead))
    /\ \A i \in Pool!Children :
          SF_pipes(prog = "pool" /\ Pool!Send(i)) /\ WF_pipes(prog = "pool" /\ Pool!Child(i))
    /\ WF_pipes(prog = "demo" /\ Demo!Parent) /\ WF_pipes(prog = "demo" /\ Demo!Child)
    /\ WF_pipes(prog = "fifo" /\ (Fifo!OpenRead \/ Fifo!Fork \/ Fifo!Reap))
    /\ \A i \in Fifo!Children : WF_pipes(prog = "fifo" /\ Fifo!GetMessage(i))
    /\ WF_pipes(prog = "server" /\ Server!Main)
    /\ \A c \in Server!Clients : /\ WF_pipes(prog = "server" /\ (Server!Read(c) \/ Server!WriteBack(c)))
                                 /\ WF_pipes(prog = "server" /\ Server!Recv(c))
    /\ WF_channel(prog = "shm_pipe" /\ Pipe!ServerStep)
    /\ WF_channel(prog = "shm_pipe" /\ Pipe!ClientStep)
    /\ WF_channel(prog = "shm" /\ Poll!ServerStep)
    /\ WF_channel(prog = "shm" /\ Poll!ClientStep)

Spec == Init /\ [][Next]_vars /\ Fairness
-----------------------------------------------------------------------------
\* Each program keeps its types.  Nothing rings in a fifo that nobody reads, and the
\* server of shm_pipe works in a segment it has made.
TypeOK == /\ prog = "pool" => Pool!TypeOK
          /\ prog = "demo" => Demo!TypeOK
          /\ prog = "fifo" => Fifo!TypeOK
          /\ prog = "server" => Server!TypeOK
          /\ prog = "shm_pipe" => Pipe!TypeOK
          /\ prog = "shm" => Poll!TypeOK

\* Who holds which end, and so what an end of file means: a child of the pool leaves
\* only after the parent and all later children, the demo's child only after it has
\* shown everything, and a connection is held by nobody but the child that serves it.
EndsOwned == /\ prog = "pool" => Pool!LastFirst
             /\ prog = "demo" => Demo!AllShown
             /\ prog = "server" => Server!OwnConnection

\* The n-th ring for a segment is answered with line n of it or a later one; rings of a
\* client that still has an earlier segment do not count.
NeverStale == prog = "shm_pipe" => Pipe!NeverStale

\* An end of file or a SIGPIPE reaches everybody it should reach, so that no process
\* waits for one that is gone; and the fifo's lines are shown while a child reads.
NobodyLeftBehind == /\ prog = "pool" => Pool!AllLeave
                    /\ prog = "demo" => Demo!BothLeave
                    /\ prog = "fifo" => Fifo!ServerLeaves /\ Fifo!Taken
                    /\ prog = "server" => Server!HangUp

\* A "quit" that nobody overwrites ends the server, with a bell and without.
QuitEnds == /\ prog = "shm_pipe" => Pipe!QuitEnds
            /\ prog = "shm" => Poll!QuitEnds

\* The comment beside init in shmServer.cc: at the program's end the destructor is
\* called and the fifo is removed.  Nobody kills the server here.
FifoRemoved == prog = "shm_pipe" => Pipe!FifoRemoved

(***************************************************************************)
(* The inductive invariant of the proofs in ChannelProofs.                 *)
(***************************************************************************)
IInv == /\ prog = "pool" => Pool!IInv
        /\ prog = "demo" => Demo!IInv
        /\ prog = "fifo" => Fifo!IInv
        /\ prog = "server" => Server!IInv
        /\ prog = "shm_pipe" => Pipe!IInv
        /\ prog = "shm" => Poll!TypeOK
=============================================================================
