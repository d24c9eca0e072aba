----------------------------- MODULE EchoChannel -----------------------------
(***************************************************************************)
(* What an echo server promises to each of its clients: what the client    *)
(* has sent comes back, once, in order, and mixed with nobody else's.      *)
(*                                                                         *)
(* pipe[c] is what client c has sent and not yet got back.  A line is a    *)
(* sequence of pieces, the units in which TCP may deliver it.              *)
(***************************************************************************)
EXTENDS Naturals, Sequences

CONSTANTS Clients, Lines

VARIABLES open, \* open[c]: client c is connected to a running server
          pipe

Init == /\ open = [c \in Clients |-> FALSE]
        /\ pipe = [c \in Clients |-> <<>>]

Connect(c) == /\ ~open[c]
              /\ open' = [open EXCEPT ![c] = TRUE]
              /\ UNCHANGED pipe

Send(c) == /\ open[c]
           /\ \E l \in Lines : pipe' = [pipe EXCEPT ![c] = @ \o l]
           /\ UNCHANGED open

\* One recv returns some of what is due, never nothing.
Receive(c) == /\ open[c]
              /\ \E n \in 1 .. Len(pipe[c]) :
                    pipe' = [pipe EXCEPT ![c] = SubSeq(@, n + 1, Len(@))]
              /\ UNCHANGED open

\* Only the end of a connection may lose anything.
Hangup(c) == /\ open[c]
             /\ open' = [open EXCEPT ![c] = FALSE]
             /\ pipe' = [pipe EXCEPT ![c] = <<>>]

Shutdown == /\ open' = [c \in Clients |-> FALSE]
            /\ pipe' = [c \in Clients |-> <<>>]

Next == Shutdown \/ \E c \in Clients : Connect(c) \/ Send(c) \/ Receive(c) \/ Hangup(c)

Spec == Init /\ [][Next]_<<open, pipe>>
=============================================================================
