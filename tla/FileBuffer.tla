----------------------------- MODULE FileBuffer -----------------------------
(***************************************************************************)
(* The user level buffer of 1017/myfile.c: fopen_(), fputs_(), fflush_()   *)
(* and fclose_() under a program that may call them in any order a FILE    *)
(* allows, and may be killed.  main() is one such program: four messages   *)
(* without a newline and fclose_().  A message is the number of its call,  *)
(* the buffer holds messages, and `end' is how many it holds.              *)
(*                                                                         *)
(* pc[0]: "start", "open", "left" or "killed".                             *)
(***************************************************************************)
EXTENDS Naturals, Sequences, SequencesExt

CONSTANT NumMessages \* so few that they fit in the buffer, which nobody checks

VARIABLES pc, fp,  \* fp: the descriptor, or 99 for NULL
          buffer, end,
          out,     \* what the file has
          said,    \* messages given to fputs_()
          twice    \* fd 1 has flushed at a newline and kept what it flushed

vars == <<pc, fp, buffer, end, out, said, twice>>

TypeOK == /\ pc[0] \in {"start", "open", "left", "killed"}
          /\ fp \in {0, 1, 2, 3, 99} /\ (fp # 99 => pc[0] = "open")
          /\ buffer \in Seq(1 .. said) /\ end \in 0 .. Len(buffer)
          /\ out \in Seq(1 .. said) /\ said \in 0 .. NumMessages
          /\ twice \in BOOLEAN

Init == /\ pc = [p \in {0} |-> "start"]
        /\ fp = 99 /\ buffer = <<>> /\ end = 0
        /\ out = <<>> /\ said = 0 /\ twice = FALSE

Kept == SubSeq(buffer, 1, end)

-----------------------------------------------------------------------------
\* The lowest free descriptor: 3, unless the program was started with a standard one
\* closed.  open() may fail; in the other modes fopen_() does nothing.
fopen_ == /\ pc[0] = "start"
          /\ \/ pc' = [pc EXCEPT ![0] = "open"] /\ fp' \in 0 .. 3
             \/ pc' = [pc EXCEPT ![0] = "left"] /\ UNCHANGED fp
          /\ UNCHANGED <<buffer, end, out, said, twice>>

\* strcpy() behind what is there.  With a newline at the end descriptor 1 is written
\* to at once, and end stays where it is.
fputs_(newline) == /\ pc[0] = "open" /\ said < NumMessages
                   /\ said' = said + 1
                   /\ buffer' = Append(Kept, said + 1)
                   /\ end' = end + 1
                   /\ LET flush == fp = 1 /\ newline
                      IN  /\ out' = IF flush THEN out \o buffer' ELSE out
                          /\ twice' = (twice \/ flush)
                   /\ UNCHANGED <<pc, fp>>

fflush_ == /\ pc[0] = "open"
           /\ out' = IF end # 0 THEN out \o Kept ELSE out
           /\ end' = 0
           /\ UNCHANGED <<pc, fp, buffer, said, twice>>

\* fflush_(), close() and free().
fclose_ == /\ pc[0] = "open"
           /\ out' = IF end # 0 THEN out \o Kept ELSE out
           /\ end' = 0 /\ buffer' = <<>> /\ fp' = 99
           /\ pc' = [pc EXCEPT ![0] = "left"]
           /\ UNCHANGED <<said, twice>>

Kill == /\ pc[0] = "open"
        /\ pc' = [pc EXCEPT ![0] = "killed"]
        /\ buffer' = <<>> /\ end' = 0 /\ fp' = 99
        /\ UNCHANGED <<out, said, twice>>

Next == fopen_ \/ fflush_ \/ fclose_ \/ Kill \/ \E newline \in BOOLEAN : fputs_(newline)
-----------------------------------------------------------------------------
\* Every message is in the file or in the buffer, once and in order, and all of them in
\* the file after fclose_().  After a flush at a newline none is lost, but those
\* flushed are in the file and in the buffer.
WrittenOnce ==
    LET all == [m \in 1 .. said |-> m]
    IN  /\ ~twice /\ pc[0] # "killed" => out \o Kept = all
        /\ ~twice => IsPrefix(out, all)
        /\ twice /\ pc[0] # "killed" => Range(out \o Kept) = 1 .. said

(***************************************************************************)
(* The inductive invariant of the proofs in DemosProofs.                   *)
(***************************************************************************)

IInv == /\ TypeOK /\ pc \in [{0} -> {"start", "open", "left", "killed"}]
        /\ pc[0] # "open" => Kept = <<>>
        /\ WrittenOnce
=============================================================================
