------------------------------ MODULE MCShell ------------------------------
(***************************************************************************)
(* Every line of three pieces or less; with one file and one program, every*)
(* line up to five pieces that begins with a word, "x x>>x" too; and lines *)
(* of six pieces and more, which are too long for cmd_line.                *)
(***************************************************************************)
EXTENDS Shell

few == {"x", blank, "<", ">"}

MCLines == UNION {[1 .. n -> Pieces] : n \in 0 .. 3}
           \cup {<<"x">> \o rest : rest \in UNION {[1 .. n -> few] : n \in 3 .. 4}}
           \cup {<<"x", blank, "x">> \o rest : rest \in [1 .. 3 -> few]}
           \cup {<<"x", ">", ">", "x", blank, "x", blank, "x">>}
=============================================================================
