---------------------------- MODULE ForkedBuffer ----------------------------
(***************************************************************************)
(* 1017/myfile1.c: three messages through stdio, the fourth by write(),    *)
(* then a fork() and two exits, each of which flushes the process's copy   *)
(* of the buffer.  At a terminal stdio writes line by line, so the buffer  *)
(* is empty at the fork.                                                   *)
(*                                                                         *)
(* pc[0]: "print", "write", "fork", "exit" or "left"; the child is 1.      *)
(***************************************************************************)
EXTENDS Naturals, Sequences, FiniteSets

VARIABLES pc, tty, \* tty: standard output is a terminal
          stdout,  \* stdout[p]: the buffer of process p
          out

vars == <<pc, tty, stdout, out>>

Printed == 3

TypeOK == /\ DOMAIN pc = {0, 1} /\ tty \in BOOLEAN
          /\ \A p \in {0, 1} : stdout[p] \in Seq(1 .. Printed) /\ (pc[p] \in {"none", "left"} => stdout[p] = <<>>)
          /\ out \in Seq(1 .. Printed + 1)

Init == /\ pc = [p \in {0, 1} |-> IF p = 0 THEN "print" ELSE "none"]
        /\ tty \in BOOLEAN
        /\ stdout = [p \in {0, 1} |-> <<>>]
        /\ out = <<>>

\* printf(), fprintf() and fputs(), each with a newline.
Puts == /\ pc[0] = "print"
        /\ LET m == Len(out \o stdout[0]) + 1
           IN  /\ \/ tty /\ out' = Append(out, m) /\ UNCHANGED stdout
                  \/ ~tty /\ stdout' = [stdout EXCEPT ![0] = Append(@, m)] /\ UNCHANGED out
               /\ pc' = [pc EXCEPT ![0] = IF m = Printed THEN "write" ELSE @]
        /\ UNCHANGED tty

Write == /\ pc[0] = "write"
         /\ pc' = [pc EXCEPT ![0] = "fork"]
         /\ out' = Append(out, Printed + 1)
         /\ UNCHANGED <<tty, stdout>>

\* When fork() fails there is only the parent.
Fork == /\ pc[0] = "fork"
        /\ \/ pc' = [pc EXCEPT ![0] = "exit", ![1] = "exit"] /\ stdout' = [stdout EXCEPT ![1] = stdout[0]]
           \/ pc' = [pc EXCEPT ![0] = "exit"] /\ UNCHANGED stdout
        /\ UNCHANGED <<tty, out>>

Exit(p) == /\ pc[p] = "exit"
           /\ pc' = [pc EXCEPT ![p] = "left"]
           /\ out' = out \o stdout[p]
           /\ stdout' = [stdout EXCEPT ![p] = <<>>]
           /\ UNCHANGED tty

Next == Puts \/ Write \/ Fork \/ \E p \in {0, 1} : Exit(p)
-----------------------------------------------------------------------------
leavers == {p \in {0, 1} : pc[p] = "left"}

\* A terminal gets each message once, in order.  A file gets what write() wrote first,
\* and the others once from each process that has left.
OncePerProcess ==
    /\ tty => out = [m \in 1 .. Len(out) |-> m]
    /\ ~tty /\ out # <<>> => Head(out) = Printed + 1
    /\ \A m \in 1 .. Printed : ~tty => Cardinality({k \in DOMAIN out : out[k] = m}) = Cardinality(leavers)

(***************************************************************************)
(* The inductive invariant of the proofs in DemosProofs.                   *)
(***************************************************************************)

Places == /\ pc \in [{0, 1} -> {"print", "write", "fork", "exit", "left", "none"}]
          /\ stdout \in [{0, 1} -> Seq(1 .. Printed)]
          /\ pc[0] # "none" /\ pc[1] \in {"none", "exit", "left"}
          /\ pc[0] \in {"print", "write", "fork"} => pc[1] = "none"

upTo(k) == [m \in 1 .. k |-> m]
flushed(p) == upTo(IF pc[p] = "left" THEN Printed ELSE 0)

\* What has been written, and what each process still holds.
AtTerminal == tty => /\ stdout = [p \in {0, 1} |-> <<>>]
                     /\ pc[0] = "print" => \E k \in 0 .. Printed - 1 : out = upTo(k)
                     /\ pc[0] = "write" => out = upTo(Printed)
                     /\ pc[0] \notin {"print", "write"} => out = upTo(Printed + 1)

ToFile == ~tty => /\ pc[0] = "print" => out = <<>> /\ \E k \in 0 .. Printed - 1 : stdout[0] = upTo(k)
                  /\ pc[0] \in {"write", "fork"} => stdout[0] = upTo(Printed)
                  /\ \A p \in {0, 1} : pc[p] = "exit" => stdout[p] = upTo(Printed)
                  /\ pc[0] = "write" => out = <<>>
                  /\ pc[0] \notin {"print", "write"} => out = <<Printed + 1>> \o flushed(0) \o flushed(1)

IInv == TypeOK /\ Places /\ AtTerminal /\ ToFile
=============================================================================
