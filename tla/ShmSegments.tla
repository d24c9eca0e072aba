----------------------------- MODULE ShmSegments -----------------------------
(***************************************************************************)
(* System V shared memory as the programs of 1201 use it, by one key.  A   *)
(* segment that shmctl() has removed is no longer found by its key, but    *)
(* lives on for those who have it attached.  What the server makes is      *)
(* readable for all (0666); a client's shmget() gives no permissions, so   *)
(* of a segment that it made itself an ordinary user's shmat() fails.      *)
(* shmat() then returns -1, and both programs would notice a null pointer  *)
(* only: the address is bad, and every read() into it fails.               *)
(*                                                                         *)
(* The memory holds a line: its number since the segment is new, whether   *)
(* it is "quit", and whether it is raw, that is, still has its newline and *)
(* behind it the rest of a longer line before it.                          *)
(***************************************************************************)
EXTENDS Naturals, Sequences

CONSTANTS Segments, \* bound of the model: 1 .. n, the segments that can be made
          MaxLines, \* bound of the model: lines typed into a segment
          MaxStarts \* bound of the model: starts of each program

VARIABLES
    pc,     \* where each program stands
    starts, \* how often each has been started
    key,    \* the segment that the key leads to, or 0
    mode,   \* mode[s]: "none" (not made yet), "all" or "nobody"
    mem,    \* mem[s]: the line in segment s
    at      \* at[p]: the segment that p has got or attached, 0 for a bad address

Programs == {"server", "client"}

\* No program: not started, returned from main or called exit(), stopped by a failed
\* assertion, ended by a signal.
Ended == {"none", "left", "aborted", "killed"}

blank == [line |-> 0, quit |-> FALSE, raw |-> FALSE]

SegmentsTyped(Places) ==
    /\ pc \in [Programs -> Places \cup Ended]
    /\ starts \in [Programs -> 0 .. MaxStarts]
    /\ key \in Segments \cup {0}
    /\ mode \in [Segments -> {"none", "all", "nobody"}]
    /\ mem \in [Segments -> [line : 0 .. MaxLines, quit : BOOLEAN, raw : BOOLEAN]]
    /\ at \in [Programs -> Segments \cup {0}]
    /\ key # 0 => mode[key] # "none"

SegmentsInit == /\ pc = [p \in Programs |-> "none"]
                /\ starts = [p \in Programs |-> 0]
                /\ key = 0
                /\ mode = [s \in Segments |-> "none"]
                /\ mem = [s \in Segments |-> blank]
                /\ at = [p \in Programs |-> 0]

Goto(p, where) == pc' = [pc EXCEPT ![p] = where]

Start(p, where) == /\ pc[p] \in Ended /\ starts[p] < MaxStarts
                   /\ starts' = [starts EXCEPT ![p] = @ + 1]
                   /\ at' = [at EXCEPT ![p] = 0]
                   /\ Goto(p, where)

\* shmget() makes a segment, zeroed, which is then p's.
Make(p, permission) == \E s \in Segments :
    /\ key = 0 /\ mode[s] = "none" /\ \A t \in Segments : t < s => mode[t] # "none"
    /\ key' = s /\ mode' = [mode EXCEPT ![s] = permission] /\ at' = [at EXCEPT ![p] = s]

\* shmget() finds the segment of the key.
Find(p) == /\ key # 0
           /\ at' = [at EXCEPT ![p] = key]
           /\ UNCHANGED <<key, mode>>

\* shmat(), which fails when the segment is gone or permits nothing.
Attach(p) == /\ at' = [at EXCEPT ![p] = IF @ = key /\ mode[@] = "all" THEN @ ELSE 0]
             /\ UNCHANGED <<key, mode, mem>>

\* shmctl(IPC_RMID) of p's segment.
Remove(p) == /\ key' = IF key = at[p] THEN 0 ELSE key
             /\ at' = [at EXCEPT ![p] = 0]
             /\ UNCHANGED <<mode, mem>>

\* read() stores the line that the user has typed, newline and all.
Store(p) == \E quit \in BOOLEAN :
    /\ at[p] # 0 /\ mem[at[p]].line < MaxLines
    /\ mem' = [mem EXCEPT ![at[p]] = [line |-> @.line + 1, quit |-> quit, raw |-> TRUE]]

\* shmaddr[s - 1] = 0
Terminate(p) == mem' = [mem EXCEPT ![at[p]].raw = FALSE]

\* strcmp(shmaddr, "quit") == 0
saysQuit(s) == mem[s].quit /\ ~mem[s].raw
=============================================================================
