------------------------------- MODULE UdpChat -------------------------------
(***************************************************************************)
(* The chat of 0215/udp.  The server registers every sender of a datagram  *)
(* and passes each datagram on to everybody it has registered.  A client   *)
(* has a thread that sends what the user types and one that shows what     *)
(* arrives; quit ends the first only, and main then waits for the second.  *)
(*                                                                         *)
(* A client stands for its address, ip and port: "key" on the server.  The *)
(* system picks a port for every start, so a program started again is      *)
(* another client.  It is "on", "quit" once its sending thread has ended,  *)
(* or "off" when it has been killed.                                       *)
(*                                                                         *)
(* UDP loses, duplicates and reorders: the datagrams under way, those that *)
(* a socket has buffered included, are sets, and a delivery may leave its  *)
(* datagram in place.                                                      *)
(***************************************************************************)
EXTENDS Naturals, FiniteSets

CONSTANTS Clients,
          Texts,     \* what a user may type
          Empty,     \* the empty line, which is an empty datagram
          Nobody, Blank,
          MaxSaid,   \* bound of the model: datagrams sent, no text twice by one client
          MaxFlight, \* bound of the model: datagrams under way when a client sends
          MaxFaults  \* bound of the model: datagrams lost or duplicated, programs killed

ASSUME UdpChatAssumption ==
    /\ Empty \in Texts
    /\ Nobody \notin Clients
    /\ Blank \notin Clients \X Clients \X Texts
    /\ IsFiniteSet(Clients) /\ IsFiniteSet(Texts)
    /\ MaxSaid \in Nat /\ MaxFlight \in Nat /\ MaxFaults \in Nat

VARIABLES
    users,    \* the server's table
    key,      \* the name it has last formatted
    buffer,   \* the datagram it has last received
    todo,     \* users that the for loop has still to reach
    prog,     \* prog[c]: "off", "on" or "quit"
    up,       \* datagrams to the server: who sent it, and the text
    down,     \* datagrams to a client: to whom, the name and the text
    faults,
    said,     \* what has been said, and by whom
    shown     \* the last line that appeared: on whose screen, the name and the text

server == <<users, key, buffer, todo>>
vars == <<server, prog, up, down, faults, said, shown>>

UpMsg == [from : Clients, text : Texts]
DownMsg == [to : Clients, name : Clients, text : Texts]

TypeOK ==
    /\ users \subseteq Clients
    /\ key \in Clients \cup {Nobody}
    /\ buffer \in Texts
    /\ todo \subseteq users
    /\ prog \in [Clients -> {"off", "on", "quit"}]
    /\ up \subseteq UpMsg /\ down \subseteq DownMsg
    /\ faults \in 0 .. MaxFaults
    /\ said \subseteq Clients \X Texts
    /\ shown \in (Clients \X Clients \X Texts) \cup {Blank}

\* initServer() has bound the port; key is not initialised, and nobody reads it
\* before somebody is registered.
Init == /\ users = {} /\ todo = {}
        /\ key = Nobody
        /\ buffer = Empty
        /\ prog = [c \in Clients |-> "on"]
        /\ up = {} /\ down = {}
        /\ faults = 0
        /\ said = {}
        /\ shown = Blank

-----------------------------------------------------------------------------
(***************************************************************************)
(* The client.                                                             *)
(***************************************************************************)
\* udpSend: a line is sent as it is, an empty one too.
Send(c) == /\ prog[c] = "on"
           /\ Cardinality(up) + Cardinality(down) + Cardinality(todo) < MaxFlight
           /\ \E t \in Texts :
                 /\ <<c, t>> \notin said /\ Cardinality(said) < MaxSaid
                 /\ up' = up \cup {[from |-> c, text |-> t]}
                 /\ said' = said \cup {<<c, t>>}
           /\ UNCHANGED <<server, prog, down, faults, shown>>

\* The sending thread leaves its loop; recver->join() waits.
Quit(c) == /\ prog[c] = "on"
           /\ prog' = [prog EXCEPT ![c] = "quit"]
           /\ UNCHANGED <<server, up, down, faults, said, shown>>

\* udpRecv: shows every datagram that is not empty, and no broadcast is.
display(m) == /\ m \in down /\ prog[m.to] # "off"
              /\ shown' = <<m.to, m.name, m.text>>

Show(m) == /\ display(m)
           /\ down' = down \ {m}
           /\ UNCHANGED <<server, prog, up, faults, said>>

\* Nothing else ends the program.
Kill(c) == /\ prog[c] # "off"
           /\ faults < MaxFaults /\ faults' = faults + 1
           /\ prog' = [prog EXCEPT ![c] = "off"]
           /\ UNCHANGED <<server, up, down, said, shown>>

-----------------------------------------------------------------------------
(***************************************************************************)
(* The server.                                                             *)
(***************************************************************************)
\* Wrong: formats the name of a new user only.
hearOldKey(m) == /\ todo = {} /\ m \in up
                 /\ buffer' = m.text
                 /\ users' = users \cup (IF m.text # Empty THEN {m.from} ELSE {})
                 /\ key' = IF users' # users THEN m.from ELSE key
                 /\ todo' = users'

\* Wrong: registers the sender after the broadcast.
hearLateUser(m) == /\ todo = {} /\ m \in up
                   /\ buffer' = m.text
                   /\ users' = users \cup (IF m.text # Empty THEN {m.from} ELSE {})
                   /\ key' = IF m.text # Empty THEN m.from ELSE key
                   /\ todo' = users

\* Wrong: registers the sender without formatting its name.
hearNoKey(m) == /\ todo = {} /\ m \in up
                /\ buffer' = m.text
                /\ users' = users \cup (IF m.text # Empty THEN {m.from} ELSE {})
                /\ key' = key
                /\ todo' = users'

\* recvfrom() and what follows it up to the broadcast.  An empty datagram
\* registers nobody and leaves the name of the one before it.
hear(m) == /\ todo = {} /\ m \in up
           /\ buffer' = m.text
           /\ users' = users \cup (IF m.text # Empty THEN {m.from} ELSE {})
           /\ key' = IF m.text # Empty THEN m.from ELSE key
           /\ todo' = users'

Receive(m) == /\ hear(m)
              /\ up' = up \ {m}
              /\ UNCHANGED <<prog, down, faults, said, shown>>

\* One turn of the broadcast.
Push(c) == /\ c \in todo
           /\ down' = down \cup {[to |-> c, name |-> key, text |-> buffer]}
           /\ todo' = todo \ {c}
           /\ buffer' = IF todo' = {} THEN Empty ELSE buffer \* cleared for the next recvfrom()
           /\ UNCHANGED <<users, key, prog, up, faults, said, shown>>

-----------------------------------------------------------------------------
(***************************************************************************)
(* The network.                                                            *)
(***************************************************************************)
Lose == /\ faults < MaxFaults
        /\ \/ \E m \in up : up' = up \ {m} /\ UNCHANGED down
           \/ \E m \in down : down' = down \ {m} /\ UNCHANGED up
        /\ faults' = faults + 1
        /\ UNCHANGED <<server, prog, said, shown>>

\* A datagram arrives while a copy of it stays under way.
Duplicate == /\ faults < MaxFaults
             /\ \/ \E m \in up : hear(m) /\ UNCHANGED shown
                \/ \E m \in down : display(m) /\ UNCHANGED <<users, key, buffer, todo>>
             /\ faults' = faults + 1
             /\ UNCHANGED <<prog, up, down, said>>

\* No program has the address.
Drop(m) == /\ m \in down /\ prog[m.to] = "off"
           /\ down' = down \ {m}
           /\ UNCHANGED <<server, prog, up, faults, said, shown>>

Network == Lose \/ Duplicate \/ \E m \in down : Drop(m)

Next == \/ \E c \in Clients : Send(c) \/ Quit(c) \/ Kill(c) \/ Push(c)
        \/ \E m \in up : Receive(m)
        \/ \E m \in down : Show(m)
        \/ Network

Spec == Init /\ [][Next]_vars

\* The server loops, the clients' receiving threads loop, and the network does
\* not stand still.  Nobody has to type or to quit.
FairSpec == /\ Spec
            /\ WF_vars(\E m \in up : Receive(m))
            /\ WF_vars(\E c \in Clients : Push(c))
            /\ WF_vars(\E m \in down : Show(m) \/ Drop(m))
-----------------------------------------------------------------------------
(***************************************************************************)
(* Properties.                                                             *)
(***************************************************************************)
Room == INSTANCE ChatRoom

\* A screen only ever shows what the client it names has said, and only to one
\* who has spoken, whatever the network does.  An empty message is the exception:
\* it comes under the name that key still holds.
ImplementsRoom == Room!Spec

\* What a client says, and the network does not lose, comes back to its own
\* screen, the first time too: the server registers it before the broadcast.
Heard == \A c \in Clients : \A t \in Texts \ {Empty} :
    ([from |-> c, text |-> t] \in up /\ faults = MaxFaults)
        ~> (shown = <<c, c, t>> \/ prog[c] = "off")

(***************************************************************************)
(* The inductive invariant of the proofs in UdpChatProofs.                 *)
(***************************************************************************)
\* What may be shown: a message of the one it names, or an empty one under the name
\* of somebody who has spoken.
Lines == said \cup (Room!spoken \X {Empty})

\* What has been said, on its way to the server ...
UpIsSaid == \A m \in up : <<m.from, m.text>> \in said

\* ... in the server, where a name goes with the message ...
InServer == /\ users \subseteq Room!spoken
            /\ users # {} => key \in Room!spoken
            /\ todo # {} => <<key, buffer>> \in Lines

\* ... and on its way to the members.
DownIsSaid == \A m \in down : m.to \in Room!spoken /\ <<m.name, m.text>> \in Lines

IInv == TypeOK /\ UpIsSaid /\ InServer /\ DownIsSaid
=============================================================================
