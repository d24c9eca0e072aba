------------------------------ MODULE PipeEnds ------------------------------
(***************************************************************************)
(* What the kernel does for the programs that talk through pipes: a        *)
(* process holds ends of pipes, a fork copies them, an exit closes them.   *)
(* A pipe is at its end when it is empty and nobody holds its write end; a *)
(* write to a pipe that nobody holds the read end of is a SIGPIPE, which   *)
(* none of the programs handles.  A direction of a connection, or a fifo,  *)
(* is a pipe too.                                                          *)
(***************************************************************************)
EXTENDS Naturals, Sequences, FiniteSets

CONSTANTS Procs, Pipes, \* numbers, of which a program uses as many as it needs
          Capacity      \* of a pipe, in messages: a full pipe blocks its writers

ASSUME PipeEndsAssumption == Procs \subseteq Nat /\ Pipes \subseteq Nat /\ Capacity \in Nat \ {0}

VARIABLES
    pc,   \* pc[p]: where process p stands; "none" before it is created
    ends, \* ends[p]: the ends it holds, <<k, "r">> or <<k, "w">>
    data  \* data[k]: what has been written to pipe k and not read

Gone == {"left", "killed"} \* by exit(), by a signal

\* Somebody holds that end of pipe k.
held(k, end) == \E p \in Procs : <<k, end>> \in ends[p]

Eof(k) == data[k] = <<>> /\ ~held(k, "w")

Goto(p, where) == pc' = [pc EXCEPT ![p] = where]

Close(p, k, end) == ends' = [ends EXCEPT ![p] = @ \ {<<k, end>>}]

\* The end of a process.
Exit(p, how) == /\ Goto(p, how)
                /\ ends' = [ends EXCEPT ![p] = {}]

\* write() of one message, after which p is at "then".
Write(p, k, m, then) ==
    \/ /\ held(k, "r") /\ Len(data[k]) < Capacity
       /\ data' = [data EXCEPT ![k] = Append(@, m)]
       /\ Goto(p, then)
       /\ UNCHANGED ends
    \/ ~held(k, "r") /\ Exit(p, "killed") /\ UNCHANGED data

\* A signal from outside.
Kill(p) == /\ pc[p] \notin Gone \cup {"none"}
           /\ Exit(p, "killed")
           /\ UNCHANGED data

\* The state of a process is that of its program, and it holds nothing before it
\* is created or after it is gone.
EndsTyped(Places) ==
    /\ pc \in [Procs -> Places \cup Gone \cup {"none"}]
    /\ ends \in [Procs -> SUBSET (Pipes \X {"r", "w"})]
    /\ DOMAIN data = Pipes
    /\ \A k \in Pipes : Len(data[k]) <= Capacity
    /\ \A p \in Procs : pc[p] \in Gone \cup {"none"} => ends[p] = {}
=============================================================================
