---------------------------- MODULE UdpChatProofs ----------------------------
(***************************************************************************)
(* Theorems about UdpChat, for every set of clients and of texts, every    *)
(* number of messages, and every number of datagrams that are lost or      *)
(* duplicated.                                                             *)
(***************************************************************************)
EXTENDS UdpChat, TLAPS

\* Nobody has said anything, and nothing is under way.
LEMMA InitInv == Init => IInv
BY UdpChatAssumption DEF Init, IInv, TypeOK, UpIsSaid, InServer, DownIsSaid

\* Who has spoken, without the projections.
LEMMA Spoken == said \subseteq Clients \X Texts =>
                   /\ Room!spoken \subseteq Clients
                   /\ \A c \in Clients : \A t \in Texts \ {Empty} :
                         <<c, t>> \in said => c \in Room!spoken
BY DEF Room!spoken

\* What may be shown, by its two ways.
LEMMA InLines == /\ \A c, t : <<c, t>> \in said => <<c, t>> \in Lines
                 /\ \A c \in Room!spoken : <<c, Empty>> \in Lines
BY DEF Lines

\* The server registers the sender before it passes the message on, and formats the
\* name of every datagram that is not empty (udp_server.hpp:117-150).
LEMMA HearKeeps == IInv => \A m \in up : hear(m) =>
                      /\ users' \subseteq Clients /\ key' \in Clients \cup {Nobody}
                      /\ buffer' \in Texts /\ todo' \subseteq users'
                      /\ users' \subseteq Room!spoken
                      /\ users' # {} => key' \in Room!spoken
                      /\ todo' # {} => <<key', buffer'>> \in Lines
<1> SUFFICES ASSUME IInv, NEW m \in up, hear(m)
             PROVE  /\ users' \subseteq Clients /\ key' \in Clients \cup {Nobody}
                    /\ buffer' \in Texts /\ todo' \subseteq users'
                    /\ users' \subseteq Room!spoken
                    /\ users' # {} => key' \in Room!spoken
                    /\ todo' # {} => <<key', buffer'>> \in Lines
  OBVIOUS
<1>1. PICK c, t : /\ m.from = c /\ m.text = t
                  /\ c \in Clients /\ t \in Texts /\ <<c, t>> \in said
  BY DEF IInv, TypeOK, UpMsg, UpIsSaid
<1>2. said \subseteq Clients \X Texts
  BY DEF IInv, TypeOK
<1>3. users \subseteq Clients /\ key \in Clients \cup {Nobody}
  BY DEF IInv, TypeOK
<1>4. users \subseteq Room!spoken /\ (users # {} => key \in Room!spoken)
  BY DEF IInv, InServer
<1>5. CASE t # Empty
  <2>1. users' = users \cup {c} /\ key' = c /\ buffer' = t /\ todo' = users'
    BY <1>1, <1>5 DEF hear
  <2>2. c \in Room!spoken
    BY <1>1, <1>2, <1>5, Spoken
  <2>3. users' \subseteq Clients
    BY <1>1, <1>3, <2>1
  <2>4. users' \subseteq Room!spoken
    BY <1>4, <2>1, <2>2
  <2>5. <<key', buffer'>> \in Lines
    <3>1. <<c, t>> \in Lines
      BY <1>1, InLines
    <3> QED
      BY <2>1, <3>1
  <2> QED
    BY <1>1, <2>1, <2>2, <2>3, <2>4, <2>5
<1>6. CASE t = Empty
  <2>1. users' = users /\ key' = key /\ buffer' = Empty /\ todo' = users
    BY <1>1, <1>6 DEF hear
  <2>2. ASSUME users # {} PROVE <<key', buffer'>> \in Lines
    <3>1. <<key, Empty>> \in Lines
      BY <1>4, <2>2, InLines
    <3> QED
      BY <2>1, <3>1
  <2> QED
    BY <1>1, <1>3, <1>4, <1>6, <2>1, <2>2
<1> QED
  BY <1>5, <1>6

\* A message that is shown is one of those that may be.
LEMMA DisplayIsRoomStep ==
    IInv => \A m : display(m) => /\ m.to \in Clients /\ m.to \in Room!spoken
                                 /\ \E line \in Lines : shown' = <<m.to, line[1], line[2]>>
                                 /\ shown' \in Clients \X Clients \X Texts
<1> SUFFICES ASSUME IInv, NEW m, display(m)
             PROVE  /\ m.to \in Clients /\ m.to \in Room!spoken
                    /\ \E line \in Lines : shown' = <<m.to, line[1], line[2]>>
                    /\ shown' \in Clients \X Clients \X Texts
  OBVIOUS
<1>1. /\ m.to \in Clients /\ m.name \in Clients /\ m.text \in Texts
      /\ m.to \in Room!spoken /\ <<m.name, m.text>> \in Lines
      /\ shown' = <<m.to, m.name, m.text>>
  BY DEF display, IInv, TypeOK, DownMsg, DownIsSaid
<1> QED
  BY <1>1

\* Every step of the clients, the server and the network keeps the inductive
\* invariant.
LEMMA NextInv == IInv /\ [Next]_vars => IInv'
<1> SUFFICES ASSUME IInv, [Next]_vars PROVE IInv'
  OBVIOUS
<1> USE UdpChatAssumption
<1>0. UNCHANGED said => Room!spoken' = Room!spoken /\ Lines' = Lines
  BY DEF Room!spoken, Lines
<1>1. ASSUME NEW c \in Clients, Send(c) PROVE IInv'
  <2>1. PICK t \in Texts : /\ up' = up \cup {[from |-> c, text |-> t]}
                           /\ said' = said \cup {<<c, t>>}
    BY <1>1 DEF Send
  <2>2. UNCHANGED <<server, prog, down, faults, shown>>
    BY <1>1 DEF Send
  <2>3. Room!spoken \subseteq Room!spoken' /\ Lines \subseteq Lines'
    BY <2>1 DEF Room!spoken, Lines
  <2>4. TypeOK'
    BY <2>1, <2>2 DEF IInv, TypeOK, server, UpMsg
  <2>5. UpIsSaid'
    <3>1. ASSUME NEW m \in up' PROVE <<m.from, m.text>> \in said'
      <4>1. CASE m \in up
        BY <2>1, <4>1 DEF IInv, UpIsSaid
      <4>2. CASE m = [from |-> c, text |-> t]
        <5>1. m.from = c /\ m.text = t
          BY <4>2
        <5> QED
          BY <2>1, <5>1
      <4> QED
        BY <2>1, <4>1, <4>2
    <3> QED
      BY <3>1 DEF UpIsSaid
  <2>6. InServer' /\ DownIsSaid'
    BY <2>2, <2>3 DEF IInv, InServer, DownIsSaid, server
  <2> QED
    BY <2>4, <2>5, <2>6 DEF IInv
<1>2. ASSUME NEW c \in Clients, Quit(c) \/ Kill(c) PROVE IInv'
  <2>1. UNCHANGED <<server, up, down, said, shown>>
    BY <1>2 DEF Quit, Kill
  <2>2. prog' \in [Clients -> {"off", "on", "quit"}] /\ faults' \in 0 .. MaxFaults
    BY <1>2 DEF Quit, Kill, IInv, TypeOK
  <2> QED
    BY <1>0, <2>1, <2>2 DEF IInv, TypeOK, UpIsSaid, InServer, DownIsSaid, server
<1>3. ASSUME NEW m \in up, Receive(m) PROVE IInv'
  <2>1. up' \subseteq up /\ UNCHANGED <<prog, down, faults, said, shown>>
    BY <1>3 DEF Receive
  <2>2. TypeOK' /\ InServer'
    BY <1>0, <1>3, <2>1, HearKeeps DEF Receive, IInv, TypeOK, InServer
  <2> QED
    BY <1>0, <2>1, <2>2 DEF IInv, UpIsSaid, DownIsSaid
<1>4. ASSUME NEW c \in Clients, Push(c) PROVE IInv'
  <2>1. /\ c \in todo /\ down' = down \cup {[to |-> c, name |-> key, text |-> buffer]}
        /\ todo' = todo \ {c} /\ UNCHANGED <<users, key, prog, up, faults, said, shown>>
        /\ buffer' = IF todo' = {} THEN Empty ELSE buffer
    BY <1>4 DEF Push
  <2>2. c \in Room!spoken /\ <<key, buffer>> \in Lines /\ key \in Clients /\ buffer \in Texts
    BY <2>1, Spoken DEF IInv, TypeOK, InServer
  <2>3. [to |-> c, name |-> key, text |-> buffer] \in DownMsg
    BY <2>2 DEF DownMsg
  <2>4. TypeOK'
    BY <2>1, <2>3 DEF IInv, TypeOK
  <2>5. UpIsSaid' /\ InServer'
    BY <1>0, <2>1 DEF IInv, UpIsSaid, InServer
  <2>6. DownIsSaid'
    <3>1. ASSUME NEW m \in down' PROVE m.to \in Room!spoken /\ <<m.name, m.text>> \in Lines
      <4>1. CASE m \in down
        BY <4>1 DEF IInv, DownIsSaid
      <4>2. CASE m = [to |-> c, name |-> key, text |-> buffer]
        <5>1. m.to = c /\ m.name = key /\ m.text = buffer
          BY <4>2
        <5> QED
          BY <2>2, <5>1
      <4> QED
        BY <2>1, <4>1, <4>2
    <3> QED
      BY <1>0, <2>1, <3>1 DEF DownIsSaid
  <2> QED
    BY <2>4, <2>5, <2>6 DEF IInv
<1>5. ASSUME NEW m \in down, Show(m) \/ Drop(m) PROVE IInv'
  <2>1. down' \subseteq down /\ UNCHANGED <<server, prog, up, faults, said>>
    BY <1>5 DEF Show, Drop
  <2>2. shown' \in (Clients \X Clients \X Texts) \cup {Blank}
    BY <1>5, DisplayIsRoomStep DEF Show, Drop, IInv, TypeOK
  <2> QED
    BY <1>0, <2>1, <2>2 DEF IInv, TypeOK, UpIsSaid, InServer, DownIsSaid, server
<1>6. CASE Lose
  <2>1. /\ up' \subseteq up /\ down' \subseteq down /\ faults' \in 0 .. MaxFaults
        /\ UNCHANGED <<server, prog, said, shown>>
    BY <1>6 DEF Lose, IInv, TypeOK
  <2> QED
    BY <1>0, <2>1 DEF IInv, TypeOK, UpIsSaid, InServer, DownIsSaid, server
<1>7. CASE Duplicate
  <2>1. faults' \in 0 .. MaxFaults /\ UNCHANGED <<prog, up, down, said>>
    BY <1>7 DEF Duplicate, IInv, TypeOK
  <2>2. ASSUME NEW m \in up, hear(m), UNCHANGED shown PROVE IInv'
    BY <1>0, <2>1, <2>2, HearKeeps DEF IInv, TypeOK, UpIsSaid, InServer, DownIsSaid
  <2>3. ASSUME NEW m \in down, display(m), UNCHANGED <<users, key, buffer, todo>> PROVE IInv'
    BY <1>0, <2>1, <2>3, DisplayIsRoomStep DEF IInv, TypeOK, UpIsSaid, InServer, DownIsSaid
  <2> QED
    BY <1>7, <2>2, <2>3 DEF Duplicate
<1>8. CASE UNCHANGED vars
  BY <1>0, <1>8 DEF vars, server, IInv, TypeOK, UpIsSaid, InServer, DownIsSaid
<1> QED
  BY <1>1, <1>2, <1>3, <1>4, <1>5, <1>6, <1>7, <1>8 DEF Next, Network

\* Whatever the network does, the server's table, its loop and the datagrams keep
\* their types: a user that the loop has still to reach is registered.
THEOREM TypeCorrect == Spec => []TypeOK
<1>1. IInv => TypeOK
  BY DEF IInv
<1> QED
  BY InitInv, NextInv, <1>1, PTL DEF Spec

\* A line that appears is one of the room's: said by the one it names, and shown to
\* somebody who has spoken.
LEMMA RoomStep == IInv /\ [Next]_vars => [Room!Next]_<<said, shown>>
<1> SUFFICES ASSUME IInv, [Next]_vars PROVE [Room!Next]_<<said, shown>>
  OBVIOUS
<1>1. ASSUME NEW c \in Clients, Send(c) PROVE Room!Say(c)
  BY <1>1 DEF Send, Room!Say
<1>2. ASSUME NEW m, display(m), UNCHANGED said PROVE \E c \in Clients : Room!Show(c)
  BY <1>2, DisplayIsRoomStep DEF Room!Show, Lines
<1>3. ASSUME NEW m \in down, Show(m) PROVE \E c \in Clients : Room!Show(c)
  BY <1>2, <1>3 DEF Show
<1>4. CASE Duplicate
  BY <1>2, <1>4 DEF Duplicate, Room!Next
<1>5. CASE \/ UNCHANGED vars \/ Lose
           \/ \E c \in Clients : Quit(c) \/ Kill(c) \/ Push(c)
           \/ \E m \in up : Receive(m)
           \/ \E m \in down : Drop(m)
  BY <1>5 DEF vars, Lose, Quit, Kill, Push, Receive, Drop
<1> QED
  BY <1>1, <1>3, <1>4, <1>5 DEF Next, Network, Room!Next

\* The chat is a chat room: loss, duplication, reordering and killed clients can hide a
\* line or show it again, and never put words into anybody's mouth.
THEOREM Implementation == Spec => ImplementsRoom
<1>1. Init => Room!Init
  BY DEF Init, Room!Init
<1> QED
  BY InitInv, NextInv, RoomStep, <1>1, PTL DEF Spec, ImplementsRoom, Room!Spec
=============================================================================
