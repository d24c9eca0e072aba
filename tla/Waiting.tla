------------------------------ MODULE Waiting ------------------------------
(***************************************************************************)
(* A parent and what becomes of its child:                                 *)
(*   "poll"    0919/myproc.cc: the child counts and exits with 11; the     *)
(*             parent asks with WNOHANG, and runs its tasks in between     *)
(*   "block"   0914/myproc.c: the child never ends by itself; the parent   *)
(*             blocks in waitpid()                                         *)
(*   "ignore"  0108/mysignal.cc: the child exits with 0; the parent ignores*)
(*             SIGCHLD and never waits                                     *)
(*                                                                         *)
(* pc[0]: "start", "run", "wait", "tasks" or "left".                       *)
(* pc[1], the child: "none", "run", "zombie" or "reaped".                  *)
(***************************************************************************)
EXTENDS Naturals, Sequences

CONSTANT Ticks \* what the child counts, five in the code

VARIABLES pc, code,
          cnt,      \* what the child has still to count
          status,   \* of the child: an exit code, a signal, or "none"
          told,     \* the status waitpid() gave to the parent, or "none", or "error"
          handlers, \* the parent's tasks
          ran       \* how often each has been run, counted up to 2

vars == <<pc, code, cnt, status, told, handlers, ran>>

Tasks == <<"fun_one", "fun_two">>
ExitCode == CASE code = "poll" -> "exit_11" [] code = "ignore" -> "exit_0" [] code = "block" -> "exit_105"
Codes == {"poll", "block", "ignore"}
Statuses == {"none", "exit_11", "exit_0", "exit_105", "signal"}

TypeOK == /\ pc[0] \in {"start", "run", "wait", "tasks", "left"}
          /\ pc[1] \in {"none", "run", "zombie", "reaped"}
          /\ code \in Codes /\ cnt \in 0 .. Ticks
          /\ status \in Statuses /\ told \in Statuses \cup {"error"}
          /\ handlers \in {<<>>, Tasks}
          /\ DOMAIN ran = {1, 2} /\ ran[1] \in {0, 1, 2} /\ ran[2] \in {ran[1]}
          /\ pc[1] \in {"zombie", "reaped"} <=> status # "none"

Init == /\ pc = [p \in {0, 1} |-> IF p = 0 THEN "start" ELSE "none"]
        /\ code \in Codes
        /\ cnt = Ticks /\ status = "none" /\ told = "none"
        /\ handlers = <<>> /\ ran = <<0, 0>>

\* Where the parent goes from fork().
after == IF code = "ignore" THEN "run" ELSE "wait"

-----------------------------------------------------------------------------
\* When fork() fails 0914 leaves; the others go on, and waitpid() has no child.
Fork == /\ pc[0] = "start"
        /\ \/ pc' = [pc EXCEPT ![0] = after, ![1] = "run"]
           \/ pc' = [pc EXCEPT ![0] = IF code = "block" THEN "left" ELSE after]
        /\ UNCHANGED <<code, cnt, status, told, handlers, ran>>

\* The end of the child, of which nothing stays when SIGCHLD is ignored.
Die(how) == /\ status' = how
            /\ pc' = [pc EXCEPT ![1] = IF code = "ignore" THEN "reaped" ELSE "zombie"]

\* One turn of the child's loop; in 0914 the loop does not count.
Count == /\ pc[1] = "run" /\ code # "block" /\ cnt > 0
         /\ cnt' = cnt - 1
         /\ UNCHANGED <<pc, code, status, told, handlers, ran>>

ChildExit == /\ pc[1] = "run" /\ cnt = 0
             /\ Die(ExitCode)
             /\ UNCHANGED <<code, cnt, told, handlers, ran>>

\* From outside.
Kill == /\ pc[1] = "run"
        /\ Die("signal")
        /\ UNCHANGED <<code, cnt, told, handlers, ran>>

\* waitpid(-1, WNOHANG): the child, nothing yet, or an error.
Poll == /\ code = "poll" /\ pc[0] = "wait"
        /\ \/ pc[1] = "zombie" /\ told' = status /\ pc' = [pc EXCEPT ![0] = "left", ![1] = "reaped"]
           \/ pc[1] = "run" /\ pc' = [pc EXCEPT ![0] = "tasks"] /\ UNCHANGED told
           \/ pc[1] = "none" /\ told' = "error" /\ pc' = [pc EXCEPT ![0] = "left"]
        /\ UNCHANGED <<code, cnt, status, handlers, ran>>

\* The tasks are loaded the first time.
RunTasks == /\ pc[0] = "tasks"
            /\ handlers' = IF handlers = <<>> THEN handlers \o Tasks ELSE handlers
            /\ ran' = [k \in 1 .. Len(handlers') |-> IF ran[k] < 2 THEN ran[k] + 1 ELSE 2]
            /\ pc' = [pc EXCEPT ![0] = "wait"]
            /\ UNCHANGED <<code, cnt, status, told>>

BlockingWait == /\ code = "block" /\ pc[0] = "wait" /\ pc[1] = "zombie"
                /\ told' = status
                /\ pc' = [pc EXCEPT ![0] = "left", ![1] = "reaped"]
                /\ UNCHANGED <<code, cnt, status, handlers, ran>>

Parent == Fork \/ Poll \/ RunTasks \/ BlockingWait
Child == Count \/ ChildExit

Next == Parent \/ Child \/ Kill
-----------------------------------------------------------------------------
\* A parent that waits leaves only with its child's own status, or when it has none,
\* and no child stays a zombie behind it; one that ignores SIGCHLD has no zombie
\* either.
Reaped == /\ pc[0] = "left" => /\ pc[1] \in {"none", "reaped"}
                               /\ told = (IF pc[1] = "reaped" THEN status ELSE IF code = "poll" THEN "error" ELSE "none")
          /\ code = "ignore" => pc[1] # "zombie"
          /\ handlers # <<>> => code = "poll"

\* The parent leaves when its child has ended.
ParentLeaves == (pc[0] = "wait" /\ (code = "poll" \/ status # "none")) ~> (pc[0] = "left")

(***************************************************************************)
(* The inductive invariant of the proofs in DemosProofs.                   *)
(***************************************************************************)

Places == /\ pc \in [{0, 1} -> {"start", "run", "wait", "tasks", "left", "none", "zombie", "reaped"}]
          /\ pc[0] = "start" => pc[1] = "none"
          /\ code = "ignore" => pc[0] \in {"start", "run"}
          /\ pc[0] = "tasks" => code = "poll"
          /\ pc[1] = "reaped" /\ code # "ignore" => pc[0] = "left"
          /\ pc[0] # "left" => told = "none"
          /\ ran \in [{1, 2} -> {0, 1, 2}]

IInv == TypeOK /\ Places /\ Reaped
=============================================================================
