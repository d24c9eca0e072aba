----------------------------- MODULE MCTcpServer -----------------------------
(***************************************************************************)
(* The instance of TcpServer that TLC checks.  A line is empty, or TCP     *)
(* delivers it whole, or it may split it.                                  *)
(***************************************************************************)
EXTENDS TcpServer

CONSTANTS a, b

MCFds == {4, 5}
MCLines == {<<>>, <<a>>, <<a, b>>}

\* A number is used again, two connections are open at once, and somebody may
\* have to wait.
ASSUME MCInteresting == /\ Cardinality(MCFds) > 1
                        /\ Cardinality(Clients) > Cardinality(Workers)
=============================================================================
