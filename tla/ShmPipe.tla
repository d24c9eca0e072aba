------------------------------ MODULE ShmPipe ------------------------------
(***************************************************************************)
(* 1201/shm_pipe: the client stores what is typed in the segment and rings *)
(* a doorbell, four bytes through a fifo; the server waits for the bell,   *)
(* prints what it finds and ends when that is "quit".  The server's static *)
(* object makes the fifo before main and removes it after main or exit(),  *)
(* but not when an assertion fails or a signal ends the program.           *)
(*                                                                         *)
(* pc["server"]: "shmget", "open", "wait", "print", "test", "remove" or    *)
(* "exit".  pc["client"]: "shmget", "shmat", "open", "opening" (blocked in *)
(* open()), "line", "terminate" or "signal".                               *)
(***************************************************************************)
EXTENDS ShmSegments, FiniteSets

VARIABLES fifo, \* ./fifo exists
          bell, \* what the fifo holds: for each ring the segment its client stored in
          deaf, \* the fifo that the client has opened, or opens, has been removed
    woken \* rings the running server has answered that came from its segment

kernel == <<key, mode, at>>
doorbell == <<fifo, bell, deaf, woken>>
vars == <<pc, starts, mem, kernel, doorbell>>

\* Who has opened the fifo.
reading == pc["server"] \in {"wait", "print", "test", "remove", "exit"}
writing == pc["client"] \in {"line", "terminate", "signal"} /\ ~deaf

\* The rings for segment s that nobody has answered.
rings(s) == {n \in DOMAIN bell : bell[n] = s}

TypeOK == /\ SegmentsTyped({"shmget", "shmat", "open", "opening", "wait", "print", "test",
                            "remove", "exit", "line", "terminate", "signal"})
          /\ fifo \in BOOLEAN /\ deaf \in BOOLEAN
          /\ bell \in Seq(Segments) /\ \A s \in Segments : Cardinality(rings(s)) <= mem[s].line
          /\ woken \in 0 .. MaxLines
          /\ ~reading => bell = <<>>
          /\ pc["server"] \in {"wait", "print", "test"} => at["server"] # 0 /\ mode[at["server"]] = "all"

Init == /\ SegmentsInit
        /\ fifo = FALSE /\ bell = <<>> /\ deaf = FALSE /\ woken = 0

-----------------------------------------------------------------------------
(***************************************************************************)
(* The server.                                                             *)
(***************************************************************************)
\* The constructor of init asserts that mkfifo() succeeds.
StartServer == /\ Start("server", IF fifo THEN "aborted" ELSE "shmget")
               /\ fifo' = TRUE
               /\ woken' = 0
               /\ UNCHANGED <<mem, key, mode, bell, deaf>>

\* The destructor of init.  A client that waits in open() waits for ever, and one
\* that has the fifo open rings in vain.
unlink == /\ fifo' = FALSE
          /\ deaf' = (deaf \/ writing \/ pc["client"] = "opening")
          /\ Goto("server", "left")

\* Wrong: takes the segment that is there.
CreateAnySegment == /\ pc["server"] = "shmget"
                    /\ Make("server", "all") \/ Find("server")
                    /\ Goto("server", "open")
                    /\ UNCHANGED <<starts, mem, doorbell>>

\* shmget() insists on a new segment; shmat() of it succeeds.
CreateSegment == /\ pc["server"] = "shmget"
                 /\ \/ Make("server", "all") /\ Goto("server", "open") /\ UNCHANGED <<fifo, deaf>>
                    \/ key # 0 /\ unlink /\ UNCHANGED kernel
                 /\ UNCHANGED <<starts, mem, bell, woken>>

\* open() returns when a client has the fifo open, or opens it.
OpenRead == /\ pc["server"] = "open"
            /\ writing \/ (pc["client"] = "opening" /\ ~deaf)
            /\ pc' = [pc EXCEPT !["server"] = "wait",
                                !["client"] = IF @ = "opening" /\ ~deaf THEN "line" ELSE @]
            /\ UNCHANGED <<starts, mem, kernel, doorbell>>

\* Wrong: an end of file passes for a ring, as it does when assertions are off.
WaitAnything == /\ pc["server"] = "wait"
                /\ bell # <<>> \/ ~writing
                /\ Goto("server", "print")
                /\ bell' = IF bell = <<>> THEN bell ELSE Tail(bell)
                /\ woken' = IF bell = <<>> \/ bell[1] = at["server"] THEN woken + 1 ELSE woken
                /\ UNCHANGED <<starts, mem, kernel, fifo, deaf>>

\* Wait(): the assertion fails at the end of the file.
Wait == /\ pc["server"] = "wait"
        /\ \/ /\ bell # <<>>
              /\ Goto("server", "print")
              /\ bell' = Tail(bell)
              /\ woken' = IF bell[1] = at["server"] THEN woken + 1 ELSE woken
           \/ /\ bell = <<>> /\ ~writing
              /\ Goto("server", "aborted")
              /\ UNCHANGED <<bell, woken>>
        /\ UNCHANGED <<starts, mem, kernel, fifo, deaf>>

\* printf(), then the comparison, which reads the memory again.
PrintLine == /\ pc["server"] = "print"
             /\ Goto("server", "test")
             /\ UNCHANGED <<starts, mem, kernel, doorbell>>

\* Wrong: compares with a "quit" that still has its newline.
TestRawQuit == /\ pc["server"] = "test"
               /\ Goto("server", IF mem[at["server"]].quit /\ mem[at["server"]].raw THEN "remove" ELSE "wait")
               /\ UNCHANGED <<starts, mem, kernel, doorbell>>

TestQuit == /\ pc["server"] = "test"
            /\ Goto("server", IF saysQuit(at["server"]) THEN "remove" ELSE "wait")
            /\ UNCHANGED <<starts, mem, kernel, doorbell>>

RemoveSegment == /\ pc["server"] = "remove"
                 /\ Remove("server")
                 /\ Goto("server", "exit")
                 /\ UNCHANGED <<starts, doorbell>>

ExitServer == /\ pc["server"] = "exit"
              /\ unlink
              /\ bell' = <<>>
              /\ UNCHANGED <<starts, mem, kernel, woken>>

-----------------------------------------------------------------------------
(***************************************************************************)
(* The client.                                                             *)
(***************************************************************************)
StartClient == /\ Start("client", "shmget")
               /\ deaf' = FALSE
               /\ UNCHANGED <<mem, key, mode, fifo, bell, woken>>

GetSegment == /\ pc["client"] = "shmget"
              /\ Make("client", "nobody") \/ Find("client")
              /\ Goto("client", "shmat")
              /\ UNCHANGED <<starts, mem, doorbell>>

AttachSegment == /\ pc["client"] = "shmat"
                 /\ Attach("client")
                 /\ Goto("client", "open")
                 /\ UNCHANGED <<starts, doorbell>>

\* OpenFIFO() asserts that there is a fifo, and waits for a reader.
OpenWrite == /\ pc["client"] = "open"
             /\ Goto("client", CASE ~fifo -> "aborted" [] fifo /\ reading -> "line" [] OTHER -> "opening")
             /\ UNCHANGED <<starts, mem, kernel, doorbell>>

\* With a bad address read() fails, and the loop goes on.
TypeLine == /\ pc["client"] = "line"
            /\ Store("client")
            /\ Goto("client", "terminate")
            /\ UNCHANGED <<starts, kernel, doorbell>>

EndLine == /\ pc["client"] = "terminate"
           /\ Terminate("client")
           /\ Goto("client", "signal")
           /\ UNCHANGED <<starts, kernel, doorbell>>

\* Signal() and the comparison; a ring that nobody can hear is a SIGPIPE.
Signal == /\ pc["client"] = "signal"
          /\ \/ /\ reading /\ ~deaf
                /\ bell' = Append(bell, at["client"])
                /\ Goto("client", IF saysQuit(at["client"]) THEN "left" ELSE "line")
             \/ ~(reading /\ ~deaf) /\ Goto("client", "killed") /\ UNCHANGED bell
          /\ UNCHANGED <<starts, mem, kernel, fifo, deaf, woken>>

-----------------------------------------------------------------------------
Kill(p) == /\ pc[p] \notin Ended
           /\ Goto(p, "killed")
           /\ bell' = IF p = "server" \/ ~reading THEN <<>> ELSE bell
           /\ UNCHANGED <<starts, mem, kernel, fifo, deaf, woken>>

ServerStep == CreateSegment \/ OpenRead \/ Wait \/ PrintLine \/ TestQuit \/ RemoveSegment \/ ExitServer
ClientStep == GetSegment \/ AttachSegment \/ OpenWrite \/ EndLine \/ Signal

Next == ServerStep \/ ClientStep \/ StartServer \/ StartClient \/ TypeLine \/ \E p \in Programs : Kill(p)
-----------------------------------------------------------------------------
\* A print never shows an older line than the one whose bell it answers, however far
\* the client has gone on: the n-th answer shows line n or a later one.  Bells of a
\* client that still has the segment of an earlier server do not count.
NeverStale == pc["server"] = "print" => mem[at["server"]].line >= woken

\* The end of the server that has made the fifo, by exit or by a failed assertion in
\* main, leaves no fifo behind.
FifoRemoved == starts["server"] = 1 /\ pc["server"] \in {"left", "aborted"} => ~fifo

\* A "quit" that is complete, rung for, and stays in its segment ends the server.  (A
\* client killed before it rings may leave its quit to the first ring of the next.)
QuitEnds == \A s \in Segments :
    (at["server"] = s /\ saysQuit(s) /\ (bell # <<>> \/ pc["server"] \in {"print", "test"}))
        ~> (pc["server"] \in Ended \/ at["server"] # s \/ ~saysQuit(s))

(***************************************************************************)
(* The inductive invariant of the proofs in ChannelProofs.                 *)
(***************************************************************************)
\* The line that the client has stored, or is about to complete, and not rung for.
unrung(s) == IF pc["client"] \in {"terminate", "signal"} /\ at["client"] = s THEN 1 ELSE 0

Places == /\ pc["server"] \in {"shmget", "open", "wait", "print", "test", "remove", "exit"} \cup Ended
          /\ pc["client"] \in {"shmget", "shmat", "open", "opening", "line", "terminate", "signal"} \cup Ended
          /\ pc["client"] \in {"terminate", "signal"} => at["client"] # 0

\* The server's segment is its own making, and in a segment that is still to be made
\* there is no line, and nobody.
Made == /\ pc["server"] \in {"open", "wait", "print", "test", "remove"} =>
              at["server"] # 0 /\ mode[at["server"]] = "all"
        /\ \A p \in Programs : at[p] # 0 => mode[at[p]] # "none"
        /\ \A s \in Segments : mode[s] = "none" => mem[s] = blank

\* Every ring stands for a line of its segment ...
RungFor == \A s \in Segments : Cardinality(rings(s)) + unrung(s) <= mem[s].line

\* ... and those that are answered, for others than those that still ring.
Answered == /\ pc["server"] \in {"open", "wait", "print", "test", "remove"} =>
                  LET s == at["server"]
                  IN  woken + Cardinality(rings(s)) + unrung(s) <= mem[s].line
            /\ pc["server"] = "shmget" => woken = 0

IInv == TypeOK /\ Places /\ Made /\ RungFor /\ Answered
=============================================================================
