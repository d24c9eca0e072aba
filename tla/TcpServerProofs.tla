--------------------------- MODULE TcpServerProofs ---------------------------
(***************************************************************************)
(* Theorems about TcpServer, for every number of clients and workers,      *)
(* every set of descriptors, and every line a user may type.               *)
(***************************************************************************)
EXTENDS TcpServer, SequenceTheorems, FiniteSetTheorems, TLAPS

\* A server that has just been started satisfies the inductive invariant.
LEMMA InitInv == Init => IInv
<1> SUFFICES ASSUME Init PROVE IInv
  OBVIOUS
<1> USE TcpServerAssumption DEF Init, Pool!Init
<1>1. TypeOK
  BY DEF TypeOK
<1>2. Carrying /\ OneTask /\ OneConnection
  BY DEF Carrying, OneTask, OneConnection, Threads
<1>3. \A c \in Clients : ~held(c) /\ carriers(c) = {}
  BY DEF held, carriers
<1>4. Lifecycle /\ LockStep /\ SurvivesWholeLines
  BY <1>3 DEF Lifecycle, LockStep, SurvivesWholeLines, broken
<1> QED
  BY <1>1, <1>2, <1>4 DEF IInv

\* A worker that is not idle serves the client its task was made for.
LEMMA PeerIsClient ==
    IInv => \A w \in Workers : wpc[w] # "idle" =>
               /\ hand[w] \in Tasks /\ hand[w].sock \in Fds
               /\ peer(w) = hand[w].client /\ peer(w) \in Clients
BY TcpServerAssumption DEF IInv, TypeOK, Carrying, OneTask, Threads, Tasks, peer

\* A piece of a sequence that recv() or read() has taken out of a stream.
LEMMA Taken == \A s \in Seq(Pieces) : \A n \in 1 .. Len(s) :
                  /\ SubSeq(s, 1, n) \in Seq(Pieces) /\ SubSeq(s, n + 1, Len(s)) \in Seq(Pieces)
                  /\ Len(SubSeq(s, 1, n)) = n /\ SubSeq(s, 1, n) # <<>>
                  /\ Len(SubSeq(s, n + 1, Len(s))) = Len(s) - n
<1> SUFFICES ASSUME NEW s \in Seq(Pieces), NEW n \in 1 .. Len(s)
             PROVE  /\ SubSeq(s, 1, n) \in Seq(Pieces) /\ SubSeq(s, n + 1, Len(s)) \in Seq(Pieces)
                    /\ Len(SubSeq(s, 1, n)) = n /\ SubSeq(s, 1, n) # <<>>
                    /\ Len(SubSeq(s, n + 1, Len(s))) = Len(s) - n
  OBVIOUS
<1>1. Len(s) \in Nat /\ n \in Nat /\ n >= 1 /\ n <= Len(s)
  OBVIOUS
<1>2. \A i \in 1 .. Len(s) : s[i] \in Pieces
  BY ElementOfSeq
<1>3. SubSeq(s, 1, n) \in Seq(Pieces) /\ Len(SubSeq(s, 1, n)) = n
  BY <1>1, <1>2, SubSeqProperties
<1>4. /\ SubSeq(s, n + 1, Len(s)) \in Seq(Pieces)
      /\ Len(SubSeq(s, n + 1, Len(s))) = Len(s) - n
  BY <1>1, <1>2, SubSeqProperties
<1>5. SubSeq(s, 1, n) # <<>>
  BY <1>1, <1>3
<1> QED
  BY <1>3, <1>4, <1>5

\* Every variable keeps its type: a task has a descriptor that is open, and a
\* client that was accepted (tcp_server.hpp:125-177).
LEMMA TypeNext == IInv /\ [Next]_vars => TypeOK'
<1> SUFFICES ASSUME IInv, [Next]_vars PROVE TypeOK'
  OBVIOUS
<1> USE TcpServerAssumption DEF IInv, TypeOK, server, stream
<1>1. ASSUME Accept PROVE TypeOK'
  <2>1. Head(backlog) \in Clients /\ Tail(backlog) \in Seq(Clients)
    BY <1>1 DEF Accept
  <2> QED
    BY <1>1, <2>1 DEF Accept, free, Pool!Offer
<1>2. ASSUME PushTask PROVE TypeOK'
  BY <1>2 DEF PushTask, Pool!Put
<1>3. ASSUME NEW w \in Workers, GetTask(w) PROVE TypeOK'
  BY <1>3 DEF GetTask, Pool!Get
<1>4. ASSUME NEW w \in Workers, ReadData(w) PROVE TypeOK'
  <2> DEFINE c == peer(w)
  <2>1. c \in Clients /\ up[c] \in Seq(Pieces)
    BY <1>4, PeerIsClient DEF ReadData
  <2>2. PICK n \in 1 .. Len(up[c]) :
           /\ buffer' = [buffer EXCEPT ![w] = SubSeq(up[c], 1, n)]
           /\ up' = [up EXCEPT ![c] = SubSeq(up[c], n + 1, Len(up[c]))]
           /\ split' = [split EXCEPT ![c] = split[c] \/ n < Len(up[c])]
    BY <1>4 DEF ReadData
  <2>3. SubSeq(up[c], 1, n) \in Seq(Pieces) /\ SubSeq(up[c], n + 1, Len(up[c])) \in Seq(Pieces)
    BY <2>1, Taken
  <2>4. wpc' \in [Workers -> {"idle", "read", "write", "close"}]
    BY <1>4 DEF ReadData
  <2>6. split' \in [Clients -> BOOLEAN]
    BY <2>2
  <2> HIDE DEF c
  <2>5. buffer' \in [Workers -> Seq(Pieces)] /\ up' \in [Clients -> Seq(Pieces)]
    BY <2>1, <2>2, <2>3
  <2> QED
    BY <1>4, <2>4, <2>5, <2>6 DEF ReadData
<1>5. ASSUME NEW w \in Workers, ReadEnd(w) PROVE TypeOK'
  BY <1>5 DEF ReadEnd
<1>6. ASSUME NEW w \in Workers, WriteBack(w) PROVE TypeOK'
  <2> DEFINE c == peer(w)
  <2>1. c \in Clients
    BY <1>6, PeerIsClient DEF WriteBack
  <2>2. rst' \in [Clients -> BOOLEAN] /\ down' \in [Clients -> Seq(Pieces)]
    <3>1. CASE fin[c]
      <4>1. PICK r \in {rst[c], TRUE} : rst' = [rst EXCEPT ![c] = r]
        BY <1>6, <3>1 DEF WriteBack
      <4>2. r \in BOOLEAN
        BY <2>1
      <4> HIDE DEF c
      <4>3. rst' \in [Clients -> BOOLEAN]
        BY <4>1, <4>2
      <4> QED
        BY <1>6, <3>1, <4>3 DEF WriteBack, c
    <3>2. CASE ~fin[c]
      <4>1. down' = [down EXCEPT ![c] = down[c] \o buffer[w]] /\ rst' = rst
        BY <1>6, <3>2 DEF WriteBack
      <4>2. down[c] \o buffer[w] \in Seq(Pieces)
        BY <2>1
      <4> HIDE DEF c
      <4> QED
        BY <4>1, <4>2
    <3> QED
      BY <3>1, <3>2
  <2>3. buffer' \in [Workers -> Seq(Pieces)] /\ wpc' \in [Workers -> {"idle", "read", "write", "close"}]
    BY <1>6 DEF WriteBack
  <2> QED
    BY <1>6, <2>2, <2>3 DEF WriteBack
<1>7. ASSUME NEW w \in Workers, WriteBroken(w) PROVE TypeOK'
  BY <1>7 DEF WriteBroken
<1>8. ASSUME NEW w \in Workers, Close(w) PROVE TypeOK'
  <2> DEFINE c == peer(w)
             f == hand[w].sock
  <2>1. /\ up' = [up EXCEPT ![c] = <<>>] /\ fin' = [fin EXCEPT ![c] = FALSE]
        /\ rst' = [rst EXCEPT ![c] = FALSE] /\ split' = [split EXCEPT ![c] = FALSE]
    BY <1>8 DEF Close
  <2>2. /\ fdtab' = [fdtab EXCEPT ![f] = Nobody] /\ queue' = queue
        /\ hand' = [hand EXCEPT ![w] = NoTask] /\ wpc' = [wpc EXCEPT ![w] = "idle"]
    BY <1>8 DEF Close, Pool!Use
  <2> HIDE DEF c, f
  <2>5. fdtab' \in [Fds -> Clients \cup {Nobody}]
    BY <2>2
  <2>6. /\ hand' \in [Workers \cup {Main} -> Tasks \cup {NoTask}] /\ queue' \in Seq(Tasks)
        /\ wpc' \in [Workers -> {"idle", "read", "write", "close"}]
    BY <2>2
  <2>3. up' \in [Clients -> Seq(Pieces)]
    <3>1. <<>> \in Seq(Pieces)
      OBVIOUS
    <3> QED
      BY <2>1, <3>1
  <2>4. fin' \in [Clients -> BOOLEAN] /\ rst' \in [Clients -> BOOLEAN] /\ split' \in [Clients -> BOOLEAN]
    BY <2>1
  <2> QED
    BY <1>8, <2>3, <2>4, <2>5, <2>6 DEF Close
<1>9. ASSUME NEW c \in Clients, Connect(c) PROVE TypeOK'
  BY <1>9 DEF Connect
<1>10. ASSUME NEW c \in Clients, SendLine(c) PROVE TypeOK'
  BY <1>10 DEF SendLine
<1>11. ASSUME NEW c \in Clients, RecvEcho(c) PROVE TypeOK'
  <2>1. PICK n \in 1 .. Len(down[c]) :
           /\ down' = [down EXCEPT ![c] = SubSeq(down[c], n + 1, Len(down[c]))]
           /\ split' = [split EXCEPT ![c] = split[c] \/ n < Len(down[c])]
    BY <1>11 DEF RecvEcho
  <2>2. SubSeq(down[c], n + 1, Len(down[c])) \in Seq(Pieces)
    BY Taken
  <2>3. down' \in [Clients -> Seq(Pieces)]
    BY <2>1, <2>2
  <2>4. split' \in [Clients -> BOOLEAN]
    BY <2>1
  <2>5. cpc' \in [Clients -> {"off", "prompt", "recv"}]
    BY <1>11 DEF RecvEcho
  <2> QED
    BY <1>11, <2>3, <2>4, <2>5 DEF RecvEcho
<1>12. ASSUME NEW c \in Clients, Kill(c) PROVE TypeOK'
  BY <1>12 DEF Kill
<1>13. ASSUME NEW c \in Clients, ServerGone(c) PROVE TypeOK'
  BY <1>13 DEF ServerGone
<1>14. CASE UNCHANGED vars
  BY <1>14 DEF vars
<1> QED
  BY <1>1, <1>2, <1>3, <1>4, <1>5, <1>6, <1>7, <1>8, <1>9, <1>10, <1>11, <1>12, <1>13, <1>14
     DEF Next, Serve

\* The control flow of service(): the task is there until close(), and the
\* buffer is full from read() to write() (tcp_server.hpp:24-54).
LEMMA CarryingNext == IInv /\ [Next]_vars => Carrying'
<1> SUFFICES ASSUME IInv, [Next]_vars PROVE Carrying'
  OBVIOUS
<1> USE TcpServerAssumption DEF IInv, TypeOK, Carrying, server, stream
<1>1. ASSUME Accept PROVE Carrying'
  BY <1>1 DEF Accept, Pool!Offer
<1>2. ASSUME PushTask PROVE Carrying'
  BY <1>2 DEF PushTask, Pool!Put
<1>3. ASSUME NEW w \in Workers, GetTask(w) PROVE Carrying'
  <2>1. Head(queue) \in Tasks
    BY <1>3 DEF GetTask, Pool!Get
  <2> QED
    BY <1>3, <2>1 DEF GetTask, Pool!Get
<1>4. ASSUME NEW w \in Workers, ReadData(w) PROVE Carrying'
  <2>1. PICK n \in 1 .. Len(up[peer(w)]) :
           buffer' = [buffer EXCEPT ![w] = SubSeq(up[peer(w)], 1, n)]
    BY <1>4 DEF ReadData
  <2>2. SubSeq(up[peer(w)], 1, n) # <<>>
    BY <1>4, PeerIsClient, Taken DEF ReadData
  <2> QED
    BY <1>4, <2>1, <2>2 DEF ReadData
<1>5. ASSUME NEW w \in Workers, ReadEnd(w) PROVE Carrying'
  BY <1>5 DEF ReadEnd
<1>6. ASSUME NEW w \in Workers, WriteBack(w) PROVE Carrying'
  BY <1>6 DEF WriteBack
<1>7. ASSUME NEW w \in Workers, WriteBroken(w) PROVE Carrying'
  BY <1>7 DEF WriteBroken
<1>8. ASSUME NEW w \in Workers, Close(w) PROVE Carrying'
  BY <1>8 DEF Close, Pool!Use
<1>9. ASSUME \/ UNCHANGED vars
             \/ \E c \in Clients : \/ Connect(c) \/ SendLine(c) \/ RecvEcho(c)
                                   \/ Kill(c) \/ ServerGone(c)
      PROVE  Carrying'
  BY <1>9 DEF vars, Connect, SendLine, RecvEcho, Kill, ServerGone
<1> QED
  BY <1>1, <1>2, <1>3, <1>4, <1>5, <1>6, <1>7, <1>8, <1>9 DEF Next, Serve

\* Who owns a descriptor changes with accept(), with the queue and with close()
\* only (tcp_server.hpp:125-177, 53).
LEMMA OneTaskNext == IInv /\ [Next]_vars => OneTask'
<1> SUFFICES ASSUME TypeOK, OneTask, [Next]_vars PROVE OneTask'
  BY DEF IInv
<1> USE DEF Threads
<1>a. /\ \A t \in Threads : hand[t] # NoTask =>
            hand[t].sock \in Fds /\ hand[t].client \in Clients
      /\ hand \in [Threads -> Tasks \cup {NoTask}]
  BY DEF TypeOK, Tasks
<1>b. /\ DOMAIN queue = 1 .. Len(queue) /\ Len(queue) \in Nat
      /\ \A i \in DOMAIN queue : queue[i] \in Tasks
  BY LenProperties, ElementOfSeq DEF TypeOK
<1>c. \A i \in DOMAIN queue : queue[i].sock \in Fds /\ queue[i].client \in Clients
  BY <1>b DEF Tasks
<1>0. /\ fdtab \in [Fds -> Clients \cup {Nobody}]
      /\ Nobody \notin Clients /\ Main \notin Workers /\ NoTask \notin Tasks
  BY TcpServerAssumption DEF TypeOK
<1>1. ASSUME Accept PROVE OneTask'
  <2>1. PICK f \in free :
           /\ fdtab' = [fdtab EXCEPT ![f] = Head(backlog)]
           /\ hand'[Main] = [sock |-> f, client |-> Head(backlog)]
    BY <1>1 DEF Accept
  <2>2. /\ hand[Main] = NoTask /\ queue' = queue
        /\ hand' = [hand EXCEPT ![Main] = [sock |-> f, client |-> Head(backlog)]]
    BY <1>1, <2>1 DEF Accept, Pool!Offer
  <2>3. /\ f \in Fds /\ fdtab[f] = Nobody /\ Head(backlog) \in Clients
        /\ [sock |-> f, client |-> Head(backlog)] \in Tasks
    <3>1. backlog \in Seq(Clients) /\ backlog # <<>>
      BY <1>1 DEF Accept, TypeOK
    <3>2. Head(backlog) \in Clients
      BY <3>1, HeadTailProperties
    <3> QED
      BY <3>2 DEF free, Tasks
  <2>4. /\ \A t \in Threads : hand[t] # NoTask => hand[t].sock # f
        /\ \A i \in DOMAIN queue : queue[i].sock # f
    BY <1>a, <1>b, <1>c, <1>0, <2>3 DEF OneTask
  <2> QED
    BY <1>a, <1>b, <1>c, <1>0, <2>1, <2>2, <2>3, <2>4 DEF OneTask, tasksOf, queuedOf
<1>2. ASSUME PushTask PROVE OneTask'
  <2>1. /\ hand[Main] # NoTask /\ hand[Main] \in Tasks
        /\ queue' = Append(queue, hand[Main]) /\ fdtab' = fdtab
        /\ hand' = [hand EXCEPT ![Main] = NoTask]
    BY <1>a, <1>2 DEF PushTask, Pool!Put
  <2>2. /\ DOMAIN queue' = 1 .. Len(queue) + 1
        /\ \A i \in DOMAIN queue : queue'[i] = queue[i]
        /\ queue'[Len(queue) + 1] = hand[Main]
    BY <1>a, <1>b, <1>c, <1>0, <2>1
  <2>3. \A f \in Fds : fdtab'[f] # Nobody => tasksOf(f)' # {} \/ queuedOf(f)' # {}
    <3>1. SUFFICES ASSUME NEW f \in Fds, fdtab[f] # Nobody
                   PROVE  tasksOf(f)' # {} \/ queuedOf(f)' # {}
      BY <2>1
    <3>2. CASE hand[Main].sock = f
      BY <1>a, <1>b, <1>c, <1>0, <2>1, <2>2, <3>2 DEF queuedOf
    <3>3. CASE hand[Main].sock # f
      <4>1. CASE queuedOf(f) # {}
        BY <1>a, <1>b, <1>c, <1>0, <2>2, <4>1 DEF queuedOf
      <4>2. CASE tasksOf(f) # {}
        BY <2>1, <3>3, <4>2 DEF tasksOf
      <4> QED
        BY <3>1, <4>1, <4>2 DEF OneTask
    <3> QED
      BY <3>2, <3>3
  <2>4. \A i \in DOMAIN queue' :
          \/ i \in DOMAIN queue
          \/ i = Len(queue) + 1
    BY <1>a, <1>b, <1>c, <1>0, <2>2
  <2>5. \A t \in Threads : hand'[t] # NoTask => t # Main /\ hand'[t] = hand[t]
    BY <1>a, <2>1
  <2> QED
    BY <1>a, <1>b, <1>c, <1>0, <2>1, <2>2, <2>3, <2>4, <2>5 DEF OneTask
<1>3. ASSUME NEW w \in Workers, GetTask(w) PROVE OneTask'
  <2>1. /\ hand[w] = NoTask /\ queue # <<>> /\ fdtab' = fdtab
        /\ hand' = [hand EXCEPT ![w] = Head(queue)] /\ queue' = Tail(queue)
    BY <1>3 DEF GetTask, Pool!Get
  <2>2. /\ Len(queue) >= 1 /\ 1 \in DOMAIN queue /\ Head(queue) = queue[1]
        /\ DOMAIN queue' = 1 .. Len(queue) - 1
        /\ \A i \in DOMAIN queue' : i + 1 \in DOMAIN queue /\ queue'[i] = queue[i + 1]
    BY <1>a, <1>b, <1>c, <1>0, <2>1
  <2>3. \A f \in Fds : fdtab'[f] # Nobody => tasksOf(f)' # {} \/ queuedOf(f)' # {}
    <3>1. SUFFICES ASSUME NEW f \in Fds, fdtab[f] # Nobody
                   PROVE  tasksOf(f)' # {} \/ queuedOf(f)' # {}
      BY <2>1
    <3>2. CASE queue[1].sock = f
      BY <1>a, <1>b, <1>c, <1>0, <2>1, <2>2, <3>2 DEF tasksOf
    <3>3. CASE queue[1].sock # f
      <4>1. CASE tasksOf(f) # {}
        BY <2>1, <4>1 DEF tasksOf
      <4>2. CASE queuedOf(f) # {}
        <5>1. PICK i \in DOMAIN queue : queue[i].sock = f
          BY <4>2 DEF queuedOf
        <5>2. i - 1 \in DOMAIN queue' /\ queue'[i - 1] = queue[i]
          BY <1>a, <1>b, <1>c, <1>0, <2>2, <3>3, <5>1
        <5> QED
          BY <5>1, <5>2 DEF queuedOf
      <4> QED
        BY <3>1, <4>1, <4>2 DEF OneTask
    <3> QED
      BY <3>2, <3>3
  <2>4. \A t \in Threads : hand'[t] = IF t = w THEN queue[1] ELSE hand[t]
    BY <1>a, <2>1, <2>2
  <2>5. \A i \in DOMAIN queue' : queue'[i].sock # queue[1].sock
    BY <1>a, <1>b, <1>c, <1>0, <2>2 DEF OneTask
  <2>6. \A t \in Threads : hand'[t] # NoTask =>
          /\ fdtab'[hand'[t].sock] = hand'[t].client
          /\ \A u \in Threads : hand'[u] # NoTask /\ hand'[u].sock = hand'[t].sock => u = t
          /\ \A i \in DOMAIN queue' : queue'[i].sock # hand'[t].sock
    BY <1>a, <1>b, <1>c, <1>0, <2>1, <2>2, <2>4, <2>5 DEF OneTask
  <2>7. \A i \in DOMAIN queue' :
          /\ fdtab'[queue'[i].sock] = queue'[i].client
          /\ \A j \in DOMAIN queue' : queue'[j].sock = queue'[i].sock => j = i
    <3>1. \A i \in DOMAIN queue' : i \in Int
      BY <1>a, <1>b, <1>c, <1>0, <2>2
    <3> QED
      BY <2>1, <2>2, <3>1 DEF OneTask
  <2> QED
    BY <2>3, <2>6, <2>7 DEF OneTask
<1>4. ASSUME NEW w \in Workers, Close(w) PROVE OneTask'
  <2>1. /\ hand[w] # NoTask /\ fdtab' = [fdtab EXCEPT ![hand[w].sock] = Nobody]
        /\ hand' = [hand EXCEPT ![w] = NoTask] /\ queue' = queue
    BY <1>4 DEF Close, Pool!Use
  <2>2. \A t \in Threads : hand'[t] # NoTask => /\ t # w /\ hand'[t] = hand[t]
                                                /\ hand[t].sock # hand[w].sock
    BY <1>a, <2>1 DEF OneTask
  <2>3. \A i \in DOMAIN queue : queue[i].sock # hand[w].sock
    BY <2>1 DEF OneTask
  <2>4. \A f \in Fds : fdtab'[f] = IF f = hand[w].sock THEN Nobody ELSE fdtab[f]
    BY <1>0, <2>1
  <2>5. \A f \in Fds : fdtab'[f] # Nobody => tasksOf(f)' # {} \/ queuedOf(f)' # {}
    BY <2>1, <2>4 DEF OneTask, tasksOf, queuedOf
  <2> QED
    BY <1>a, <1>b, <1>c, <1>0, <2>1, <2>2, <2>3, <2>4, <2>5 DEF OneTask
<1>5. ASSUME \/ UNCHANGED vars
             \/ \E w \in Workers : \/ ReadData(w) \/ ReadEnd(w)
                                   \/ WriteBack(w) \/ WriteBroken(w)
             \/ \E c \in Clients : \/ Connect(c) \/ SendLine(c) \/ RecvEcho(c)
                                   \/ Kill(c) \/ ServerGone(c)
      PROVE  OneTask'
  <2>1. UNCHANGED <<fdtab, hand, queue>>
    BY <1>5 DEF vars, server, ReadData, ReadEnd, WriteBack, WriteBroken,
                Connect, SendLine, RecvEcho, Kill, ServerGone
  <2> QED
    BY <2>1 DEF OneTask, tasksOf, queuedOf
<1> QED
  BY <1>1, <1>2, <1>3, <1>4, <1>5 DEF Next, Serve

\* A client is connected once: a name is used again when its last connection is
\* gone.
LEMMA OneConnectionNext == IInv /\ [Next]_vars => OneConnection'
<1> SUFFICES ASSUME TypeOK, OneConnection, [Next]_vars PROVE OneConnection'
  BY DEF IInv
<1>0. /\ fdtab \in [Fds -> Clients \cup {Nobody}] /\ Nobody \notin Clients
      /\ backlog \in Seq(Clients)
  BY TcpServerAssumption DEF TypeOK
<1>1. ASSUME Accept PROVE OneConnection'
  <2>1. PICK f \in Fds : fdtab' = [fdtab EXCEPT ![f] = Head(backlog)]
    BY <1>1 DEF Accept, free
  <2>2. backlog # <<>> /\ backlog' = Tail(backlog)
    BY <1>1 DEF Accept
  <2>3. /\ Len(backlog) \in Nat /\ Len(backlog) >= 1 /\ DOMAIN backlog = 1 .. Len(backlog)
        /\ 1 \in DOMAIN backlog /\ Head(backlog) = backlog[1]
        /\ DOMAIN backlog' = 1 .. Len(backlog) - 1
        /\ \A i \in DOMAIN backlog' : /\ i \in Int /\ i + 1 # 1
                                      /\ i + 1 \in DOMAIN backlog /\ backlog'[i] = backlog[i + 1]
    BY <1>0, <2>2
  <2>4. \A g \in Fds : fdtab'[g] = IF g = f THEN backlog[1] ELSE fdtab[g]
    BY <1>0, <2>1, <2>3
  <2>5. \A g, h \in Fds : fdtab'[g] = fdtab'[h] /\ fdtab'[g] # Nobody => g = h
    BY <2>3, <2>4 DEF OneConnection
  <2>6. \A i, j \in DOMAIN backlog' : backlog'[i] = backlog'[j] => i = j
    <3>1. SUFFICES ASSUME NEW i \in DOMAIN backlog', NEW j \in DOMAIN backlog',
                          backlog'[i] = backlog'[j]
                   PROVE  i = j
      OBVIOUS
    <3>2. i + 1 = j + 1
      BY <2>3, <3>1 DEF OneConnection
    <3> QED
      BY <2>3, <3>2
  <2>7. \A g \in Fds : \A i \in DOMAIN backlog' : fdtab'[g] # backlog'[i]
    BY <2>3, <2>4 DEF OneConnection
  <2> QED
    BY <2>5, <2>6, <2>7 DEF OneConnection
<1>2. ASSUME NEW c \in Clients, Connect(c) PROVE OneConnection'
  <2>1. ~held(c) /\ backlog' = Append(backlog, c) /\ fdtab' = fdtab
    BY <1>2 DEF Connect
  <2>2. /\ Len(backlog) \in Nat /\ DOMAIN backlog = 1 .. Len(backlog)
        /\ DOMAIN backlog' = 1 .. Len(backlog) + 1
        /\ \A i \in DOMAIN backlog' : \/ i \in DOMAIN backlog /\ backlog'[i] = backlog[i]
                                      \/ i = Len(backlog) + 1 /\ backlog'[i] = c
    BY <1>0, <2>1
  <2> QED
    BY <2>1, <2>2 DEF OneConnection, held
<1>3. ASSUME NEW w \in Workers, Close(w) PROVE OneConnection'
  <2>1. fdtab' = [fdtab EXCEPT ![hand[w].sock] = Nobody] /\ backlog' = backlog
    BY <1>3 DEF Close
  <2>2. \A f \in Fds : fdtab'[f] \in {Nobody, fdtab[f]}
    BY <1>0, <2>1
  <2>3. \A i \in DOMAIN backlog : backlog[i] # Nobody
    BY <1>0
  <2> QED
    BY <2>1, <2>2, <2>3 DEF OneConnection
<1>4. ASSUME \/ UNCHANGED vars \/ PushTask
             \/ \E w \in Workers : \/ GetTask(w) \/ ReadData(w) \/ ReadEnd(w)
                                   \/ WriteBack(w) \/ WriteBroken(w)
             \/ \E c \in Clients : SendLine(c) \/ RecvEcho(c) \/ Kill(c) \/ ServerGone(c)
      PROVE  OneConnection'
  <2>1. UNCHANGED <<fdtab, backlog>>
    BY <1>4 DEF vars, server, PushTask, GetTask, ReadData, ReadEnd, WriteBack, WriteBroken,
                SendLine, RecvEcho, Kill, ServerGone
  <2> QED
    BY <2>1 DEF OneConnection
<1> QED
  BY <1>1, <1>2, <1>3, <1>4 DEF Next, Serve

\* A worker's client is connected, and no other worker serves it.
LEMMA PeersDiffer ==
    IInv => /\ \A w \in Workers : wpc[w] # "idle" => held(peer(w))
            /\ \A v, w \in Workers :
                  wpc[v] # "idle" /\ wpc[w] # "idle" /\ peer(v) = peer(w) => v = w
<1> SUFFICES ASSUME IInv
             PROVE  /\ \A w \in Workers : wpc[w] # "idle" => held(peer(w))
                    /\ \A v, w \in Workers :
                          wpc[v] # "idle" /\ wpc[w] # "idle" /\ peer(v) = peer(w) => v = w
  OBVIOUS
<1>1. \A w \in Workers : wpc[w] # "idle" => held(peer(w))
  BY PeerIsClient DEF held, peer
<1>2. ASSUME NEW v \in Workers, NEW w \in Workers,
             wpc[v] # "idle", wpc[w] # "idle", peer(v) = peer(w)
      PROVE  v = w
  <2>1. /\ hand[v].sock \in Fds /\ hand[w].sock \in Fds /\ peer(v) # Nobody
        /\ hand[v] # NoTask /\ hand[w] # NoTask
    BY <1>2, PeerIsClient, TcpServerAssumption
  <2>2. hand[v].sock = hand[w].sock
    BY <1>2, <2>1 DEF IInv, OneConnection, peer
  <2> QED
    BY <2>1, <2>2 DEF IInv, OneTask, Threads
<1> QED
  BY <1>1, <1>2

\* While a worker is in service() its descriptor leads to the same client.
LEMMA PeerStays ==
    IInv /\ [Next]_vars => \A w \in Workers :
        wpc[w] # "idle" /\ wpc'[w] # "idle" => peer(w)' = peer(w)
<1> SUFFICES ASSUME IInv, [Next]_vars, NEW w \in Workers, wpc[w] # "idle", wpc'[w] # "idle"
             PROVE  peer(w)' = peer(w)
  OBVIOUS
<1>0. /\ hand \in [Threads -> Tasks \cup {NoTask}] /\ w \in Threads /\ Main \in Threads
      /\ w # Main /\ hand[w] \in Tasks /\ hand[w] # NoTask /\ hand[w].sock \in Fds
      /\ peer(w) = fdtab[hand[w].sock] /\ peer(w)' = fdtab'[hand'[w].sock] /\ peer(w) # Nobody
      /\ fdtab \in [Fds -> Clients \cup {Nobody}]
      /\ wpc \in [Workers -> {"idle", "read", "write", "close"}]
  BY PeerIsClient, TcpServerAssumption DEF IInv, TypeOK, Threads, peer
<1>1. CASE Accept
  <2>1. PICK f \in Fds : fdtab[f] = Nobody /\ fdtab' = [fdtab EXCEPT ![f] = Head(backlog)]
    BY <1>1 DEF Accept, free
  <2>2. hand'[w] = hand[w]
    BY <1>0, <1>1 DEF Accept, Pool!Offer
  <2> QED
    BY <1>0, <2>1, <2>2
<1>2. CASE PushTask
  BY <1>0, <1>2 DEF PushTask, Pool!Put
<1>3. ASSUME NEW v \in Workers, GetTask(v) PROVE peer(w)' = peer(w)
  <2>1. v # w /\ v \in Threads /\ fdtab' = fdtab /\ hand' = [hand EXCEPT ![v] = Head(queue)]
    BY <1>3 DEF GetTask, Pool!Get, Threads
  <2> QED
    BY <1>0, <2>1
<1>4. ASSUME NEW v \in Workers, Close(v) PROVE peer(w)' = peer(w)
  <2>1. /\ fdtab' = [fdtab EXCEPT ![hand[v].sock] = Nobody]
        /\ hand[v] # NoTask /\ hand' = [hand EXCEPT ![v] = NoTask] /\ v \in Threads
        /\ wpc' = [wpc EXCEPT ![v] = "idle"]
    BY <1>4 DEF Close, Pool!Use, Threads
  <2>2. v # w
    BY <1>0, <2>1
  <2>3. hand[v].sock # hand[w].sock
    BY <1>0, <2>1, <2>2 DEF IInv, OneTask
  <2>4. hand'[w] = hand[w] /\ fdtab'[hand[w].sock] = fdtab[hand[w].sock]
    BY <1>0, <2>1, <2>2, <2>3
  <2> QED
    BY <1>0, <2>4
<1>5. ASSUME \/ UNCHANGED vars
             \/ \E v \in Workers : \/ ReadData(v) \/ ReadEnd(v)
                                   \/ WriteBack(v) \/ WriteBroken(v)
             \/ \E c \in Clients : \/ Connect(c) \/ SendLine(c) \/ RecvEcho(c)
                                   \/ Kill(c) \/ ServerGone(c)
      PROVE  peer(w)' = peer(w)
  <2>1. UNCHANGED <<fdtab, hand>>
    BY <1>5 DEF vars, server, ReadData, ReadEnd, WriteBack, WriteBroken,
                Connect, SendLine, RecvEcho, Kill, ServerGone
  <2> QED
    BY <1>0, <2>1
<1> QED
  BY <1>1, <1>2, <1>3, <1>4, <1>5 DEF Next, Serve

\* Which clients the server holds: connect() adds one and close() removes one, and
\* accept() only moves one from the backlog to the descriptor table.
LEMMA HeldStays ==
    IInv => \A c \in Clients :
        /\ Accept \/ UNCHANGED <<fdtab, backlog>> => (held(c)' <=> held(c))
        /\ \A d \in Clients : Connect(d) => (held(c)' <=> held(c) \/ c = d)
        /\ \A w \in Workers : Close(w) => (held(c)' <=> held(c) /\ c # peer(w))
<1> SUFFICES ASSUME IInv, NEW c \in Clients
             PROVE  /\ Accept \/ UNCHANGED <<fdtab, backlog>> => (held(c)' <=> held(c))
                    /\ \A d \in Clients : Connect(d) => (held(c)' <=> held(c) \/ c = d)
                    /\ \A w \in Workers : Close(w) => (held(c)' <=> held(c) /\ c # peer(w))
  OBVIOUS
<1>0. /\ fdtab \in [Fds -> Clients \cup {Nobody}] /\ c # Nobody
      /\ backlog \in Seq(Clients) /\ Len(backlog) \in Nat /\ DOMAIN backlog = 1 .. Len(backlog)
  BY LenProperties, TcpServerAssumption DEF IInv, TypeOK
<1>1. ASSUME Accept PROVE held(c)' <=> held(c)
  <2>1. PICK f \in Fds : fdtab[f] = Nobody /\ fdtab' = [fdtab EXCEPT ![f] = Head(backlog)]
    BY <1>1 DEF Accept, free
  <2>2. backlog # <<>> /\ backlog' = Tail(backlog)
    BY <1>1 DEF Accept
  <2>3. /\ 1 \in DOMAIN backlog /\ Head(backlog) = backlog[1]
        /\ \A i \in DOMAIN backlog' : i + 1 \in DOMAIN backlog /\ backlog'[i] = backlog[i + 1]
        /\ \A i \in DOMAIN backlog : i # 1 => i - 1 \in DOMAIN backlog' /\ backlog'[i - 1] = backlog[i]
    BY <1>0, <2>2
  <2>4. \A g \in Fds : fdtab'[g] = IF g = f THEN backlog[1] ELSE fdtab[g]
    BY <1>0, <2>1, <2>3
  <2>5. held(c)' => held(c)
    BY <2>3, <2>4 DEF held
  <2>6. held(c) => held(c)'
    BY <1>0, <2>1, <2>3, <2>4 DEF held
  <2> QED
    BY <2>5, <2>6
<1>2. ASSUME NEW d \in Clients, Connect(d)
      PROVE  held(c)' <=> held(c) \/ c = d
  <2>1. backlog' = Append(backlog, d) /\ fdtab' = fdtab
    BY <1>2 DEF Connect
  <2>2. /\ DOMAIN backlog' = 1 .. Len(backlog) + 1
        /\ \A i \in DOMAIN backlog : i \in DOMAIN backlog' /\ backlog'[i] = backlog[i]
        /\ \A i \in DOMAIN backlog' : i \in DOMAIN backlog \/ backlog'[i] = d
        /\ Len(backlog) + 1 \in DOMAIN backlog' /\ backlog'[Len(backlog) + 1] = d
    BY <1>0, <2>1
  <2>3. CASE c = d
    BY <1>2, <2>2, <2>3 DEF held
  <2>4. CASE c # d
    BY <2>1, <2>2, <2>4 DEF held
  <2> QED
    BY <2>3, <2>4
<1>3. ASSUME NEW w \in Workers, Close(w)
      PROVE  held(c)' <=> held(c) /\ c # peer(w)
  <2>1. fdtab' = [fdtab EXCEPT ![hand[w].sock] = Nobody] /\ backlog' = backlog /\ wpc[w] # "idle"
    BY <1>3 DEF Close
  <2>2. hand[w].sock \in Fds /\ peer(w) = fdtab[hand[w].sock] /\ peer(w) # Nobody
    BY <2>1, PeerIsClient, TcpServerAssumption DEF peer
  <2>3. \A f \in Fds : fdtab'[f] = IF f = hand[w].sock THEN Nobody ELSE fdtab[f]
    BY <1>0, <2>1
  <2>4. CASE peer(w) = c
    BY <1>0, <2>1, <2>2, <2>3, <2>4 DEF held, IInv, OneConnection
  <2>5. CASE peer(w) # c
    BY <1>0, <2>1, <2>2, <2>3, <2>5 DEF held
  <2> QED
    BY <2>4, <2>5
<1>4. ASSUME UNCHANGED <<fdtab, backlog>> PROVE held(c)' <=> held(c)
  BY <1>4 DEF held
<1> QED
  BY <1>1, <1>2, <1>3, <1>4

\* The end of a connection: only a client that has left leaves a worker at
\* close(), and close() removes all there is of it (tcp_server.hpp:38-54).
LEMMA LifecycleNext == IInv /\ [Next]_vars => Lifecycle'
<1> SUFFICES ASSUME IInv, [Next]_vars, alive' PROVE Lifecycle'
  BY DEF Lifecycle
<1> DEFINE Life(c) == /\ ~held(c) => cpc[c] = "off" /\ up[c] = <<>> /\ ~split[c]
                      /\ fin[c] <=> held(c) /\ cpc[c] = "off"
                      /\ rst[c] => fin[c]
                      /\ cpc[c] = "off" => down[c] = <<>>
           Living == \A c \in Clients : Life(c)
           Closing == \A w \in Workers : wpc[w] = "close" => fin[peer(w)]
           Held == \A c \in Clients : held(c)' <=> held(c)
<1>a. /\ wpc \in [Workers -> {"idle", "read", "write", "close"}]
      /\ cpc \in [Clients -> {"off", "prompt", "recv"}]
      /\ up \in [Clients -> Seq(Pieces)] /\ down \in [Clients -> Seq(Pieces)]
      /\ fin \in [Clients -> BOOLEAN] /\ rst \in [Clients -> BOOLEAN]
      /\ split \in [Clients -> BOOLEAN]
  BY DEF IInv, TypeOK
<1>b. alive => Living /\ Closing
  BY DEF IInv, Lifecycle
<1>c. \A w \in Workers : wpc[w] # "idle" => peer(w) \in Clients /\ held(peer(w))
  BY PeerIsClient, PeersDiffer
<1>d. \A w \in Workers : wpc[w] # "idle" /\ wpc'[w] # "idle" => peer(w)' = peer(w)
  BY PeerStays
<1> SUFFICES Living' /\ Closing'
  BY DEF Lifecycle
<1>1. CASE Accept \/ PushTask \/ \E w \in Workers : GetTask(w)
  <2>1. Held
    BY <1>1, HeldStays DEF PushTask, GetTask
  <2>2. UNCHANGED <<cpc, stream, split>> /\ alive
    BY <1>1 DEF Accept, PushTask, GetTask
  <2>3. \A w \in Workers : wpc'[w] = "close" => wpc[w] = "close"
    BY <1>1, <1>a DEF Accept, PushTask, GetTask
  <2> QED
    BY <2>1, <2>2, <2>3, <1>b, <1>d DEF stream
<1>2. ASSUME NEW w \in Workers, ReadData(w) PROVE Living' /\ Closing'
  <2>1. /\ Held /\ alive /\ UNCHANGED <<cpc, down, fin, rst>>
        /\ peer(w) \in Clients /\ held(peer(w))
    BY <1>2, <1>c, HeldStays DEF ReadData
  <2>2. \A c \in Clients : c # peer(w) => up'[c] = up[c] /\ split'[c] = split[c]
    BY <1>2, <1>a DEF ReadData
  <2>3. \A v \in Workers : wpc'[v] = "close" => wpc[v] = "close"
    BY <1>2, <1>a DEF ReadData
  <2> QED
    BY <2>1, <2>2, <2>3, <1>b, <1>d
<1>3. ASSUME NEW w \in Workers, ReadEnd(w) PROVE Living' /\ Closing'
  <2>1. Held /\ alive /\ UNCHANGED <<cpc, stream, split>> /\ fin[peer(w)]
    BY <1>3, HeldStays DEF ReadEnd
  <2>2. \A v \in Workers : wpc'[v] = "close" => v = w \/ wpc[v] = "close"
    BY <1>3, <1>a DEF ReadEnd
  <2>3. wpc[w] # "idle"
    BY <1>3 DEF ReadEnd
  <2> QED
    BY <2>1, <2>2, <2>3, <1>b, <1>d DEF stream
<1>4. ASSUME NEW w \in Workers, WriteBack(w) PROVE Living' /\ Closing'
  <2> DEFINE d == peer(w)
  <2>1. /\ Held /\ alive /\ UNCHANGED <<cpc, up, fin, split>>
        /\ d \in Clients /\ held(d)
    BY <1>4, <1>c, HeldStays DEF WriteBack
  <2>2. \A c \in Clients : rst'[c] => rst[c] \/ fin[c]
    BY <1>4, <1>a DEF WriteBack
  <2>3. \A c \in Clients : down'[c] = down[c] \/ (c = d /\ ~fin[c])
    BY <1>4, <1>a DEF WriteBack
  <2>4. \A v \in Workers : wpc'[v] = "close" => wpc[v] = "close"
    BY <1>4, <1>a DEF WriteBack
  <2> HIDE DEF d
  <2>5. Living'
    BY <2>1, <2>2, <2>3, <1>b
  <2> QED
    BY <2>1, <2>4, <2>5, <1>b, <1>d
<1>5. ASSUME NEW w \in Workers, Close(w) PROVE Living' /\ Closing'
  <2> DEFINE d == peer(w)
  <2>1. /\ alive /\ UNCHANGED <<cpc, down>> /\ wpc[w] = "close" /\ d \in Clients /\ fin[d]
        /\ wpc' = [wpc EXCEPT ![w] = "idle"]
    BY <1>5, <1>b, <1>c DEF Close
  <2>2. \A c \in Clients : held(c)' <=> held(c) /\ c # d
    BY <1>5, HeldStays
  <2>3. /\ up' = [up EXCEPT ![d] = <<>>] /\ fin' = [fin EXCEPT ![d] = FALSE]
        /\ rst' = [rst EXCEPT ![d] = FALSE] /\ split' = [split EXCEPT ![d] = FALSE]
    BY <1>5 DEF Close
  <2>4. \A v \in Workers : wpc'[v] = "close" => wpc[v] = "close" /\ peer(v)' = peer(v) /\ peer(v) # d
                                            /\ peer(v) \in Clients
    BY <1>a, <1>c, <1>d, <2>1, PeersDiffer
  <2> HIDE DEF d
  <2>5. Living'
    <3>1. ASSUME NEW c \in Clients PROVE Life(c)'
      <4>1. CASE c = d
        BY <4>1, <1>a, <1>b, <2>1, <2>2, <2>3
      <4>2. CASE c # d
        <5>1. /\ up'[c] = up[c] /\ fin'[c] = fin[c] /\ rst'[c] = rst[c] /\ split'[c] = split[c]
              /\ cpc'[c] = cpc[c] /\ down'[c] = down[c]
          BY <4>2, <1>a, <2>1, <2>3
        <5> QED
          BY <4>2, <5>1, <1>b, <2>1, <2>2
      <4> QED
        BY <4>1, <4>2
    <3> QED
      BY <3>1
  <2>6. Closing'
    BY <2>1, <2>3, <2>4, <1>a, <1>b
  <2> QED
    BY <2>5, <2>6
<1>6. ASSUME NEW d \in Clients, Connect(d) PROVE Living' /\ Closing'
  <2>1. alive /\ UNCHANGED <<wpc, up, down, fin, rst, split>> /\ ~held(d)
    BY <1>6 DEF Connect, stream
  <2>2. \A c \in Clients : /\ held(c)' <=> held(c) \/ c = d
                           /\ cpc'[c] = IF c = d THEN "prompt" ELSE cpc[c]
    BY <1>6, <1>a, HeldStays DEF Connect
  <2> QED
    BY <2>1, <2>2, <1>b, <1>d
<1>7. ASSUME NEW d \in Clients, SendLine(d) \/ RecvEcho(d) PROVE Living' /\ Closing'
  <2>1. /\ Held /\ alive /\ UNCHANGED <<wpc, fin, rst>>
        /\ cpc[d] # "off" /\ cpc'[d] # "off" /\ \A c \in Clients : c # d => cpc'[c] = cpc[c]
    BY <1>7, <1>a, HeldStays DEF SendLine, RecvEcho, server
  <2>2. \A c \in Clients : c # d => up'[c] = up[c] /\ down'[c] = down[c] /\ split'[c] = split[c]
    BY <1>7, <1>a DEF SendLine, RecvEcho
  <2> QED
    BY <2>1, <2>2, <1>b, <1>d
<1>8. ASSUME NEW d \in Clients, Kill(d) PROVE Living' /\ Closing'
  <2>1. Held /\ alive /\ UNCHANGED <<wpc, up, split>> /\ cpc[d] # "off"
    BY <1>8, HeldStays DEF Kill, server
  <2>2. \A c \in Clients : c # d => /\ cpc'[c] = cpc[c] /\ down'[c] = down[c]
                                    /\ fin'[c] = fin[c] /\ rst'[c] = rst[c]
    BY <1>8, <1>a DEF Kill
  <2>3. cpc'[d] = "off" /\ down'[d] = <<>> /\ fin'[d] = TRUE
    BY <1>8, <1>a DEF Kill
  <2>4. Living'
    BY <2>1, <2>2, <2>3, <1>b
  <2>5. Closing'
    BY <2>1, <2>2, <2>3, <1>b, <1>c, <1>d
  <2> QED
    BY <2>4, <2>5
<1>9. CASE UNCHANGED vars
  <2>1. Held /\ alive /\ UNCHANGED <<wpc, cpc, stream, split>>
    BY <1>9, HeldStays DEF vars, server
  <2> QED
    BY <2>1, <1>b, <1>d DEF stream
<1> QED
  BY <1>1, <1>2, <1>3, <1>4, <1>5, <1>6, <1>7, <1>8, <1>9
     DEF Next, Serve, WriteBroken, ServerGone

\* Who carries a piece between read() and write() changes with wpc only.
LEMMA CarriersStay ==
    IInv /\ [Next]_vars /\ (\A w \in Workers : wpc'[w] = "write" <=> wpc[w] = "write")
       => \A c \in Clients : carriers(c)' = carriers(c)
BY PeerStays DEF carriers, peer

\* ... and with one worker at a time.
LEMMA CarriersMove ==
    ASSUME IInv, [Next]_vars, NEW w \in Workers, wpc[w] # "idle",
           \A v \in Workers : v # w => wpc'[v] = wpc[v]
    PROVE  \A c \in Clients :
             /\ carriers(c) \subseteq Workers /\ carriers(c)' \subseteq Workers
             /\ \A v \in Workers : v # w => (v \in carriers(c)' <=> v \in carriers(c))
             /\ w \in carriers(c) <=> wpc[w] = "write" /\ c = peer(w)
             /\ w \in carriers(c)' <=> wpc'[w] = "write" /\ c = peer(w)
             /\ \A v \in carriers(c) : c = peer(w) => v = w
             /\ c # peer(w) => carriers(c)' = carriers(c)
<1>1. \A c \in Clients : /\ carriers(c) = {v \in Workers : wpc[v] = "write" /\ peer(v) = c}
                         /\ carriers(c)' = {v \in Workers : wpc'[v] = "write" /\ peer(v)' = c}
  BY DEF carriers, peer
<1>2. \A v \in Workers : v # w /\ (wpc'[v] = "write" \/ wpc[v] = "write") => peer(v)' = peer(v)
  BY PeerStays
<1>3. wpc'[w] = "write" => peer(w)' = peer(w)
  BY PeerStays
<1>4. \A v \in Workers : wpc[v] = "write" /\ peer(v) = peer(w) => v = w
  BY PeersDiffer
<1> QED
  BY <1>1, <1>2, <1>3, <1>4

\* The lines' way while none is split: client, server and back, one at a time
\* (tcp_client.cc:54-66, tcp_server.hpp:28-52).
LEMMA LockStepNext == IInv /\ [Next]_vars => LockStep'
<1> SUFFICES ASSUME IInv, [Next]_vars, alive' PROVE LockStep'
  BY DEF LockStep
<1> DEFINE Alone(c) == carriers(c) = {}
           Whole(c) == split[c] \/
             (/\ up[c] # <<>> => down[c] = <<>>
              /\ up[c] # <<>> \/ down[c] # <<>> \/ rst[c] \/ cpc[c] = "prompt" => Alone(c)
              /\ rst[c] => up[c] = <<>>
              /\ cpc[c] = "prompt" => up[c] = <<>> /\ down[c] = <<>>)
           Same(c) == /\ carriers(c)' = carriers(c)
                      /\ up'[c] = up[c] /\ down'[c] = down[c]
                      /\ rst'[c] = rst[c] /\ split'[c] = split[c]
                      /\ cpc'[c] = "prompt" => cpc[c] = "prompt"
<1>a. /\ wpc \in [Workers -> {"idle", "read", "write", "close"}]
      /\ cpc \in [Clients -> {"off", "prompt", "recv"}]
      /\ buffer \in [Workers -> Seq(Pieces)]
      /\ up \in [Clients -> Seq(Pieces)] /\ down \in [Clients -> Seq(Pieces)]
      /\ fin \in [Clients -> BOOLEAN] /\ rst \in [Clients -> BOOLEAN]
      /\ split \in [Clients -> BOOLEAN]
  BY DEF IInv, TypeOK
<1>b. alive => \A c \in Clients : Whole(c)
  BY DEF IInv, LockStep
<1>c. \A w \in Workers : wpc[w] # "idle" => peer(w) \in Clients /\ held(peer(w))
  BY PeerIsClient, PeersDiffer
<1>e. \A c \in Clients : carriers(c) = {w \in Workers : wpc[w] = "write" /\ peer(w) = c}
  BY DEF carriers, peer
<1>f. ASSUME \A w \in Workers : wpc'[w] = "write" <=> wpc[w] = "write"
      PROVE  \A c \in Clients : carriers(c)' = carriers(c)
  BY <1>f, CarriersStay
<1>g. \A c \in Clients : alive /\ Same(c) => Whole(c)'
  BY <1>b
<1>h. alive => \A c \in Clients : rst[c] => fin[c] /\ cpc[c] = "off"
  BY DEF IInv, Lifecycle
<1> SUFFICES \A c \in Clients : Whole(c)'
  BY DEF LockStep
<1>1. CASE \/ UNCHANGED vars \/ Accept \/ PushTask
           \/ \E w \in Workers : GetTask(w) \/ ReadEnd(w)
  <2>1. /\ UNCHANGED <<buffer, cpc, stream, split, alive>>
        /\ \A w \in Workers : wpc'[w] = "write" <=> wpc[w] = "write"
    BY <1>1, <1>a DEF vars, server, Accept, PushTask, GetTask, ReadEnd
  <2>2. \A c \in Clients : Same(c)
    BY <2>1, <1>f DEF stream
  <2> QED
    BY <1>g, <2>1, <2>2
<1>2. ASSUME NEW w \in Workers, ReadData(w) PROVE \A c \in Clients : Whole(c)'
  <2>0. PICK d \in Clients : d = peer(w)
    BY <1>2, <1>c DEF ReadData
  <2>1. /\ alive /\ UNCHANGED <<cpc, down, rst>> /\ wpc[w] = "read"
        /\ wpc' = [wpc EXCEPT ![w] = "write"]
    BY <1>2, <1>c, <2>0 DEF ReadData
  <2>2. PICK n \in 1 .. Len(up[d]) :
           /\ up' = [up EXCEPT ![d] = SubSeq(up[d], n + 1, Len(up[d]))]
           /\ split' = [split EXCEPT ![d] = split[d] \/ n < Len(up[d])]
    BY <1>2, <2>0 DEF ReadData
  <2>3. /\ up[d] \in Seq(Pieces) /\ Len(up[d]) \in Nat
        /\ SubSeq(up[d], n + 1, Len(up[d])) \in Seq(Pieces)
        /\ Len(SubSeq(up[d], n + 1, Len(up[d]))) = Len(up[d]) - n
    BY <1>a, <2>1, Taken
  <2>9. \A v \in Workers : v # w => wpc'[v] = wpc[v]
    BY <1>a, <2>1
  <2>10. wpc[w] # "idle" /\ wpc'[w] = "write"
    BY <1>a, <2>1
  <2>4. \A c \in Clients : carriers(c)' = IF c = d THEN carriers(c) \cup {w} ELSE carriers(c)
    <3>1. ASSUME NEW c \in Clients, c = d PROVE carriers(c)' = carriers(c) \cup {w}
      BY CarriersMove, <2>0, <2>9, <2>10, <3>1
    <3>2. ASSUME NEW c \in Clients, c # d PROVE carriers(c)' = carriers(c)
      BY CarriersMove, <2>0, <2>9, <2>10, <3>2
    <3> QED
      BY <3>1, <3>2
  <2>6. ASSUME NEW c \in Clients, c # d PROVE Whole(c)'
    <3>1. up'[c] = up[c] /\ split'[c] = split[c]
      BY <1>a, <2>2, <2>6
    <3> QED
      BY <1>g, <2>1, <2>4, <2>6, <3>1
  <2>7. ASSUME ~split'[d] PROVE Whole(d)'
    <3>1. ~split[d] /\ n = Len(up[d])
      <4>1. split'[d] = (split[d] \/ n < Len(up[d]))
        BY <1>a, <2>2, Zenon
      <4>2. ~split[d] /\ ~(n < Len(up[d]))
        BY <2>7, <4>1, Zenon
      <4> QED
        BY <2>3, <4>2
    <3>2. up[d] # <<>> /\ n >= 1
      BY <2>3
    <3>3. /\ carriers(d) = {} /\ down[d] = <<>> /\ ~rst[d] /\ cpc[d] # "prompt"
      BY <1>b, <2>1, <3>1, <3>2
    <3>4. up'[d] = <<>>
      BY <1>a, <2>2, <2>3, <3>1
    <3> QED
      BY <2>1, <3>3, <3>4
  <2> QED
    BY <2>6, <2>7
<1>3. ASSUME NEW w \in Workers, WriteBack(w) PROVE \A c \in Clients : Whole(c)'
  <2>0. PICK d \in Clients : d = peer(w)
    BY <1>3, <1>c DEF WriteBack
  <2> DEFINE x == down[d] \o buffer[w]
  <2>1. /\ alive /\ UNCHANGED <<cpc, up, split>> /\ wpc[w] = "write"
        /\ wpc' = [wpc EXCEPT ![w] = "read"]
        /\ buffer' = [buffer EXCEPT ![w] = <<>>]
    BY <1>3, <1>c, <2>0 DEF WriteBack
  <2>2. IF fin[d] THEN down' = down ELSE down' = [down EXCEPT ![d] = x]
    BY <1>3, <2>0 DEF WriteBack
  <2>3. \A c \in Clients : c # d => rst'[c] = rst[c]
    BY <1>3, <1>a, <2>0 DEF WriteBack
  <2>9. \A v \in Workers : v # w => wpc'[v] = wpc[v]
    BY <1>a, <2>1
  <2>10. wpc[w] = "write" /\ wpc[w] # "idle" /\ wpc'[w] # "write"
    BY <1>a, <2>1
  <2>4. w \in carriers(d) /\ carriers(d)' = {}
    BY CarriersMove, <2>0, <2>9, <2>10
  <2>5. \A c \in Clients : c # d => carriers(c)' = carriers(c) /\ w \notin carriers(c)
    BY CarriersMove, <2>0, <2>9, <2>10
  <2> HIDE DEF x
  <2>6. ASSUME NEW c \in Clients, c # d PROVE Whole(c)'
    <3>1. down'[c] = down[c]
      BY <1>a, <2>2, <2>6
    <3> QED
      BY <1>g, <2>1, <2>3, <2>5, <2>6, <3>1
  <2>7. ASSUME ~split[d] PROVE Whole(d)'
    <3>1. up[d] = <<>> /\ cpc[d] # "prompt"
      BY <1>b, <2>1, <2>4, <2>7
    <3> QED
      BY <2>1, <2>4, <3>1
  <2>8. split[d] => Whole(d)'
    BY <2>1
  <2> QED
    BY <2>6, <2>7, <2>8
<1>4. ASSUME NEW w \in Workers, Close(w) PROVE \A c \in Clients : Whole(c)'
  <2>0. PICK d \in Clients : d = peer(w)
    BY <1>4, <1>c DEF Close
  <2>1. /\ alive /\ UNCHANGED <<cpc, down, buffer>> /\ wpc[w] = "close"
        /\ wpc' = [wpc EXCEPT ![w] = "idle"]
    BY <1>4, <1>c, <2>0 DEF Close
  <2>2. /\ up' = [up EXCEPT ![d] = <<>>] /\ rst' = [rst EXCEPT ![d] = FALSE]
        /\ split' = [split EXCEPT ![d] = FALSE]
    BY <1>4, <2>0 DEF Close
  <2>3. cpc[d] = "off" /\ down[d] = <<>>
    BY <2>0, <2>1 DEF IInv, Lifecycle
  <2>9. \A v \in Workers : v # w => wpc'[v] = wpc[v]
    BY <1>a, <2>1
  <2>10. wpc[w] # "write" /\ wpc[w] # "idle" /\ wpc'[w] # "write"
    BY <1>a, <2>1
  <2>4. carriers(d)' = {}
    BY CarriersMove, <2>0, <2>9, <2>10
  <2>5. \A c \in Clients : carriers(c)' = carriers(c)
    BY <1>a, <1>f, <2>1
  <2>6. ASSUME NEW c \in Clients, c # d PROVE Whole(c)'
    <3>1. up'[c] = up[c] /\ rst'[c] = rst[c] /\ split'[c] = split[c]
      BY <1>a, <2>2, <2>6
    <3> QED
      BY <1>g, <2>1, <2>5, <3>1
  <2>7. Whole(d)'
    <3>1. up'[d] = <<>> /\ ~rst'[d] /\ Len(<<>>) = 0
      BY <1>a, <2>1, <2>2
    <3> QED
      BY <2>1, <2>3, <2>4, <3>1
  <2> QED
    BY <2>6, <2>7
<1>5. ASSUME NEW d \in Clients, Connect(d) PROVE \A c \in Clients : Whole(c)'
  <2>1. /\ alive /\ ~held(d) /\ UNCHANGED <<wpc, buffer, up, down, rst, split>>
        /\ \A c \in Clients : c # d => cpc'[c] = cpc[c]
    BY <1>5, <1>a DEF Connect, stream
  <2>2. \A c \in Clients : carriers(c)' = carriers(c)
    BY <1>f, <2>1
  <2>3. carriers(d) = {} /\ up[d] = <<>> /\ down[d] = <<>> /\ Len(<<>>) = 0
    BY <1>c, <1>e, <2>1 DEF IInv, Lifecycle
  <2>4. Whole(d)'
    BY <2>1, <2>2, <2>3
  <2> QED
    BY <1>g, <2>1, <2>2, <2>4
<1>6. ASSUME NEW d \in Clients, SendLine(d) PROVE \A c \in Clients : Whole(c)'
  <2>1. /\ alive /\ UNCHANGED <<wpc, down, rst, split>> /\ cpc[d] = "prompt"
        /\ cpc' = [cpc EXCEPT ![d] = "recv"]
    BY <1>6 DEF SendLine, server
  <2>2. PICK l \in Lines : up' = [up EXCEPT ![d] = up[d] \o l]
    BY <1>6 DEF SendLine
  <2>4. \A c \in Clients : carriers(c)' = carriers(c)
    BY <1>f, <2>1
  <2>5. ASSUME NEW c \in Clients, c # d PROVE Whole(c)'
    <3>1. up'[c] = up[c] /\ cpc'[c] = cpc[c]
      BY <1>a, <2>1, <2>2, <2>5
    <3> QED
      BY <1>g, <2>1, <2>4, <3>1
  <2>6. ASSUME ~split[d] PROVE Whole(d)'
    <3>1. down[d] = <<>> /\ carriers(d) = {} /\ ~rst[d]
      BY <1>b, <1>h, <2>1, <2>6
    <3>2. cpc'[d] = "recv"
      BY <1>a, <2>1
    <3> QED
      BY <2>1, <2>4, <3>1, <3>2
  <2>7. split[d] => Whole(d)'
    BY <2>1
  <2> QED
    BY <2>5, <2>6, <2>7
<1>7. ASSUME NEW d \in Clients, RecvEcho(d) PROVE \A c \in Clients : Whole(c)'
  <2>1. /\ alive /\ UNCHANGED <<wpc, up, rst>>
        /\ cpc' = [cpc EXCEPT ![d] = "prompt"]
    BY <1>7 DEF RecvEcho, server
  <2>2. PICK n \in 1 .. Len(down[d]) :
           /\ down' = [down EXCEPT ![d] = SubSeq(down[d], n + 1, Len(down[d]))]
           /\ split' = [split EXCEPT ![d] = split[d] \/ n < Len(down[d])]
    BY <1>7 DEF RecvEcho
  <2>3. /\ Len(down[d]) \in Nat /\ SubSeq(down[d], n + 1, Len(down[d])) \in Seq(Pieces)
        /\ Len(SubSeq(down[d], n + 1, Len(down[d]))) = Len(down[d]) - n
    BY <1>a, Taken
  <2>4. \A c \in Clients : carriers(c)' = carriers(c)
    BY <1>f, <2>1
  <2>5. ASSUME NEW c \in Clients, c # d PROVE Whole(c)'
    <3>1. down'[c] = down[c] /\ split'[c] = split[c] /\ cpc'[c] = cpc[c]
      BY <1>a, <2>1, <2>2, <2>5
    <3> QED
      BY <1>g, <2>1, <2>4, <3>1
  <2>6. ASSUME ~split'[d] PROVE Whole(d)'
    <3>1. ~split[d] /\ n = Len(down[d])
      <4>1. split'[d] = (split[d] \/ n < Len(down[d]))
        BY <1>a, <2>2, Zenon
      <4>2. ~split[d] /\ ~(n < Len(down[d]))
        BY <2>6, <4>1, Zenon
      <4> QED
        BY <2>3, <4>2
    <3>2. down[d] # <<>>
      BY <2>3
    <3>3. up[d] = <<>> /\ carriers(d) = {}
      BY <1>b, <2>1, <3>1, <3>2
    <3>4. down'[d] = <<>>
      BY <1>a, <2>2, <2>3, <3>1
    <3> QED
      BY <2>1, <2>4, <3>3, <3>4
  <2> QED
    BY <2>5, <2>6
<1>8. ASSUME NEW d \in Clients, Kill(d) PROVE \A c \in Clients : Whole(c)'
  <2>1. /\ alive /\ UNCHANGED <<wpc, buffer, up, split>>
        /\ cpc' = [cpc EXCEPT ![d] = "off"] /\ down' = [down EXCEPT ![d] = <<>>]
        /\ rst' = [rst EXCEPT ![d] = down[d] # <<>>]
    BY <1>8 DEF Kill, server
  <2>2. \A c \in Clients : carriers(c)' = carriers(c)
    BY <1>f, <2>1
  <2>3. ASSUME NEW c \in Clients, c # d PROVE Whole(c)'
    <3>1. down'[c] = down[c] /\ cpc'[c] = cpc[c] /\ rst'[c] = rst[c]
      BY <1>a, <2>1, <2>3
    <3> QED
      BY <1>g, <2>1, <2>2, <3>1
  <2>4. Whole(d)'
    <3>1. down'[d] = <<>> /\ cpc'[d] = "off" /\ (rst'[d] <=> down[d] # <<>>) /\ Len(<<>>) = 0
      BY <1>a, <2>1
    <3> QED
      BY <1>b, <2>1, <2>2, <3>1
  <2> QED
    BY <2>3, <2>4
<1> QED
  BY <1>1, <1>2, <1>3, <1>4, <1>5, <1>6, <1>7, <1>8 DEF Next, Serve, WriteBroken, ServerGone

\* A write after a reset (tcp_server.hpp:51) needs a line or an answer in parts.
LEMMA BrokenIsSplit ==
    TypeOK /\ Carrying /\ OneTask /\ Lifecycle /\ LockStep /\ alive
      => \A w \in Workers : broken(w) => fin[peer(w)] /\ split[peer(w)]
<1> SUFFICES ASSUME TypeOK, Carrying, OneTask, Lifecycle, LockStep, alive, NEW w \in Workers, broken(w)
             PROVE  fin[peer(w)] /\ split[peer(w)]
  OBVIOUS
<1>1. hand[w] # NoTask /\ hand[w] \in Tasks
  BY DEF broken, TypeOK, Carrying
<1>2. peer(w) \in Clients /\ w \in carriers(peer(w)) /\ rst[peer(w)]
  BY <1>1 DEF broken, peer, carriers, OneTask, Threads, Tasks
<1> QED
  BY <1>2 DEF Lifecycle, LockStep

\* When the server has ended, all of it stands still.
LEMMA SurvivesNext == IInv /\ [Next]_vars => SurvivesWholeLines'
<1> SUFFICES ASSUME IInv, [Next]_vars PROVE SurvivesWholeLines'
  OBVIOUS
<1>1. CASE alive'
  <2>1. TypeOK' /\ Carrying' /\ OneTask' /\ Lifecycle' /\ LockStep'
    BY TypeNext, CarryingNext, OneTaskNext, LifecycleNext, LockStepNext
  <2>2. (TypeOK /\ Carrying /\ OneTask /\ Lifecycle /\ LockStep /\ alive
           => \A w \in Workers : broken(w) => fin[peer(w)] /\ split[peer(w)])'
    BY BrokenIsSplit, PTL
  <2> QED
    BY <1>1, <2>1, <2>2 DEF SurvivesWholeLines
<1>2. CASE ~alive'
  <2>1. \/ alive /\ \E w \in Workers : WriteBroken(w)
        \/ ~alive /\ (UNCHANGED vars \/ \E c \in Clients : ServerGone(c))
    <3>1. ASSUME alive PROVE \E w \in Workers : WriteBroken(w)
      BY <1>2, <3>1 DEF Next, Serve, vars, Accept, PushTask, GetTask, ReadData, ReadEnd, WriteBack, Close,
                        Connect, SendLine, RecvEcho, Kill, ServerGone
    <3>2. ASSUME ~alive PROVE UNCHANGED vars \/ \E c \in Clients : ServerGone(c)
      BY <3>2 DEF Next, Serve, Accept, PushTask, GetTask, ReadData, ReadEnd, WriteBack, WriteBroken, Close,
                  Connect, SendLine, RecvEcho, Kill
    <3> QED
      BY <3>1, <3>2
  <2>2. UNCHANGED <<server, stream, split>>
    BY <2>1 DEF vars, WriteBroken, ServerGone
  <2>3. \A w \in Workers : /\ peer(w)' = peer(w) /\ (broken(w)' <=> broken(w))
                           /\ fin'[peer(w)] = fin[peer(w)] /\ split'[peer(w)] = split[peer(w)]
    BY <2>2 DEF broken, peer, server, stream
  <2>4. (\A w \in Workers : broken(w) => fin[peer(w)] /\ split[peer(w)]) /\ \E w \in Workers : broken(w)
    <3>1. CASE alive
      BY <2>1, <3>1, BrokenIsSplit DEF IInv, WriteBroken, broken
    <3>2. CASE ~alive
      BY <3>2 DEF IInv, SurvivesWholeLines
    <3> QED
      BY <3>1, <3>2
  <2> QED
    BY <2>3, <2>4 DEF SurvivesWholeLines
<1> QED
  BY <1>1, <1>2

\* Every step of the server and of its clients keeps the inductive invariant.
LEMMA NextInv == IInv /\ [Next]_vars => IInv'
BY TypeNext, CarryingNext, OneTaskNext, OneConnectionNext, LifecycleNext, LockStepNext,
   SurvivesNext DEF IInv

\* No thread leaves its control flow, and a task is always an open descriptor with
\* the client that was accepted for it.
THEOREM TypeCorrect == Spec => []TypeOK
<1>1. IInv => TypeOK
  BY DEF IInv
<1> QED
  BY InitInv, NextInv, <1>1, PTL DEF Spec

\* Descriptors between accept() and close() (tcp_server.hpp:125-177, 53): none is
\* leaked, none has two owners, and none leads to a client other than its task's.
THEOREM DescriptorsAreOwned == Spec => []DescriptorsOwned
<1>1. IInv => DescriptorsOwned
  <2> SUFFICES ASSUME IInv, NEW f \in Fds
               PROVE  /\ Cardinality(tasksOf(f)) + Cardinality(queuedOf(f)) =
                            IF fdtab[f] = Nobody THEN 0 ELSE 1
                      /\ \A t \in tasksOf(f) : hand[t].client = fdtab[f]
                      /\ \A i \in queuedOf(f) : queue[i].client = fdtab[f]
    BY DEF DescriptorsOwned
  <2>1. /\ \A t \in tasksOf(f) : hand[t].client = fdtab[f] /\ tasksOf(f) = {t}
                               /\ queuedOf(f) = {}
        /\ \A i \in queuedOf(f) : queue[i].client = fdtab[f] /\ queuedOf(f) = {i}
    BY DEF IInv, OneTask, Threads, tasksOf, queuedOf
  <2>2. \A t \in tasksOf(f) : hand[t].client # Nobody
    BY TcpServerAssumption DEF IInv, TypeOK, Tasks, tasksOf
  <2>3. \A i \in queuedOf(f) : queue[i].client # Nobody
    <3>1. ASSUME NEW i \in DOMAIN queue PROVE queue[i] \in Tasks
      BY ElementOfSeq, LenProperties DEF IInv, TypeOK
    <3> QED
      BY <3>1, TcpServerAssumption DEF Tasks, queuedOf
  <2>4. fdtab[f] # Nobody => tasksOf(f) # {} \/ queuedOf(f) # {}
    BY DEF IInv, OneTask
  <2>5. ASSUME NEW t \in tasksOf(f)
        PROVE  Cardinality(tasksOf(f)) = 1 /\ Cardinality(queuedOf(f)) = 0 /\ fdtab[f] # Nobody
    BY <2>1, <2>2, FS_EmptySet, FS_Singleton
  <2>6. ASSUME NEW i \in queuedOf(f)
        PROVE  Cardinality(tasksOf(f)) = 0 /\ Cardinality(queuedOf(f)) = 1 /\ fdtab[f] # Nobody
    <3>1. tasksOf(f) = {}
      BY <2>1
    <3> QED
      BY <2>1, <2>3, <3>1, FS_EmptySet, FS_Singleton
  <2>7. CASE tasksOf(f) = {} /\ queuedOf(f) = {}
    BY <2>1, <2>4, <2>7, FS_EmptySet
  <2> QED
    BY <2>1, <2>5, <2>6, <2>7
<1> QED
  BY InitInv, NextInv, <1>1, PTL DEF Spec

\* service() ignores what write() returns (tcp_server.hpp:51).  The SIGPIPE that ends the
\* server comes of a client that has gone away after it has sent a line, or been sent an
\* answer, that was not read in one piece.
THEOREM WholeLinesAreSafe == Spec => []SurvivesWholeLines
<1>1. IInv => SurvivesWholeLines
  BY DEF IInv
<1> QED
  BY InitInv, NextInv, <1>1, PTL DEF Spec

-----------------------------------------------------------------------------
(***************************************************************************)
(* The server is an echo channel for every client: the three stages of a   *)
(* piece's way, put together, are one stream in which nothing moves but    *)
(* by the client's own send() and recv().                                  *)
(***************************************************************************)
\* recv() from the front of two streams put together takes from the first.
LEMMA TakenFromFront ==
    ASSUME NEW s \in Seq(Pieces), NEW r \in Seq(Pieces), NEW n \in 1 .. Len(s)
    PROVE  /\ s \o r \in Seq(Pieces) /\ n \in 1 .. Len(s \o r)
           /\ SubSeq(s, n + 1, Len(s)) \o r = SubSeq(s \o r, n + 1, Len(s \o r))
<1>1. /\ Len(s) \in Nat /\ Len(r) \in Nat /\ n \in Nat /\ n >= 1 /\ n <= Len(s)
  BY LenProperties
<1>2. /\ s \o r \in Seq(Pieces) /\ Len(s \o r) = Len(s) + Len(r)
      /\ \A i \in 1 .. Len(s) + Len(r) : (s \o r)[i] = IF i <= Len(s) THEN s[i] ELSE r[i - Len(s)]
  BY ConcatProperties
<1> DEFINE t == SubSeq(s, n + 1, Len(s))
           x == t \o r
           y == SubSeq(s \o r, n + 1, Len(s \o r))
<1>3. /\ t \in Seq(Pieces) /\ Len(t) = Len(s) - n
      /\ \A i \in 1 .. Len(s) - n : t[i] = s[n + i]
  <2>1. \A i \in n + 1 .. Len(s) : s[i] \in Pieces
    BY <1>1, ElementOfSeq
  <2>2. n + 1 \in Int /\ Len(s) \in Int
    BY <1>1
  <2>3. /\ t \in Seq(Pieces)
        /\ Len(t) = IF n + 1 <= Len(s) THEN Len(s) - (n + 1) + 1 ELSE 0
        /\ \A i \in 1 .. Len(s) - (n + 1) + 1 : t[i] = s[n + 1 + i - 1]
    BY <2>1, <2>2, SubSeqProperties
  <2> QED
    BY <1>1, <2>3
<1>4. /\ y \in Seq(Pieces) /\ Len(y) = Len(s) + Len(r) - n
      /\ \A i \in 1 .. Len(s) + Len(r) - n : y[i] = (s \o r)[n + i]
  <2>1. \A i \in n + 1 .. Len(s \o r) : (s \o r)[i] \in Pieces
    BY <1>1, <1>2, ElementOfSeq
  <2>2. n + 1 \in Int /\ Len(s \o r) \in Int
    BY <1>1, <1>2
  <2>3. /\ y \in Seq(Pieces)
        /\ Len(y) = IF n + 1 <= Len(s \o r) THEN Len(s \o r) - (n + 1) + 1 ELSE 0
        /\ \A i \in 1 .. Len(s \o r) - (n + 1) + 1 : y[i] = (s \o r)[n + 1 + i - 1]
    BY <2>1, <2>2, SubSeqProperties
  <2> QED
    BY <1>1, <1>2, <2>3
<1> HIDE DEF t, y
<1>5. /\ x \in Seq(Pieces) /\ Len(x) = Len(t) + Len(r)
      /\ \A i \in 1 .. Len(t) + Len(r) : x[i] = IF i <= Len(t) THEN t[i] ELSE r[i - Len(t)]
  BY <1>3, ConcatProperties
<1> HIDE DEF x
<1>6. ASSUME NEW i \in 1 .. Len(x) PROVE x[i] = y[i]
  <2>1. i \in Nat /\ i >= 1 /\ i <= Len(s) - n + Len(r)
    BY <1>1, <1>3, <1>5
  <2>2. y[i] = IF n + i <= Len(s) THEN s[n + i] ELSE r[n + i - Len(s)]
    BY <1>1, <1>2, <1>4, <2>1
  <2>3. CASE i <= Len(s) - n
    BY <1>1, <1>3, <1>5, <2>1, <2>2, <2>3
  <2>4. CASE i > Len(s) - n
    <3>1. x[i] = r[i - (Len(s) - n)] /\ i - (Len(s) - n) = n + i - Len(s)
      BY <1>1, <1>3, <1>5, <2>1, <2>4
    <3>2. y[i] = r[n + i - Len(s)]
      BY <1>1, <2>1, <2>2, <2>4
    <3> QED
      BY <3>1, <3>2
  <2> QED
    BY <1>1, <2>1, <2>3, <2>4
<1>7. Len(x) = Len(y)
  BY <1>1, <1>3, <1>4, <1>5
<1>8. x = y
  BY <1>4, <1>5, <1>6, <1>7, SeqEqual
<1>9. n \in 1 .. Len(s \o r)
  BY <1>1, <1>2
<1> QED
  BY <1>2, <1>8, <1>9 DEF x, y, t

\* read() moves pieces from the socket to the buffer.
LEMMA ReadKeeps ==
    ASSUME NEW s \in Seq(Pieces), NEW t \in Seq(Pieces), NEW n \in 1 .. Len(t)
    PROVE  s \o SubSeq(t, 1, n) \o SubSeq(t, n + 1, Len(t)) = s \o <<>> \o t
<1>1. /\ SubSeq(t, 1, n) \in Seq(Pieces) /\ SubSeq(t, n + 1, Len(t)) \in Seq(Pieces)
  BY Taken
<1>2. SubSeq(t, 1, n) \o SubSeq(t, n + 1, Len(t)) = t
  <2>1. Len(t) \in Nat /\ n \in Nat /\ n >= 1 /\ n <= Len(t)
    BY LenProperties
  <2>2. 1 \in 1 .. Len(t) + 1 /\ n \in 1 - 1 .. Len(t) /\ Len(t) \in n .. Len(t)
    BY <2>1
  <2>3. SubSeq(t, 1, n) \o SubSeq(t, n + 1, Len(t)) = SubSeq(t, 1, Len(t))
    BY <2>2, ConcatAdjacentSubSeq
  <2> QED
    BY <2>3, SubSeqFull
<1> QED
  <2> DEFINE a == SubSeq(t, 1, n)
             b == SubSeq(t, n + 1, Len(t))
  <2>0. a \in Seq(Pieces) /\ b \in Seq(Pieces)
    BY <1>1
  <2>1. a \o b = t
    BY <1>2
  <2> HIDE DEF a, b
  <2>2. (s \o a) \o b = s \o (a \o b)
    BY <2>0, ConcatAssociative, SMTT(60)
  <2>3. s \o <<>> = s
    BY ConcatEmptySeq
  <2>4. (s \o a) \o b = (s \o <<>>) \o t
    BY <2>1, <2>2, <2>3
  <2> QED
    BY <2>4 DEF a, b

\* The stages of a client's stream, with and without a worker between them.
LEMMA InFlightIs ==
    \A c \in Clients : /\ carriers(c) = {} => inFlight(c) = down[c] \o <<>> \o up[c]
                       /\ \A w : carriers(c) = {w} => inFlight(c) = down[c] \o buffer[w] \o up[c]
BY DEF inFlight, carried

LEMMA InFlightIsNext ==
    \A c \in Clients : /\ carriers(c)' = {} => inFlight(c)' = down'[c] \o <<>> \o up'[c]
                       /\ \A w : carriers(c)' = {w} => inFlight(c)' = down'[c] \o buffer'[w] \o up'[c]
BY DEF inFlight, carried

\* One worker carries for a client at most.
LEMMA OneCarrier ==
    IInv => \A c \in Clients :
              /\ carriers(c) = {} \/ \E w \in Workers : carriers(c) = {w}
              /\ carried(c) \in Seq(Pieces)
<1> SUFFICES ASSUME IInv, NEW c \in Clients
             PROVE  /\ carriers(c) = {} \/ \E w \in Workers : carriers(c) = {w}
                    /\ carried(c) \in Seq(Pieces)
  OBVIOUS
<1>1. carriers(c) = {} \/ \E w \in Workers : carriers(c) = {w}
  <2>1. \A v, w \in carriers(c) : v = w /\ v \in Workers
    BY PeersDiffer DEF carriers, peer
  <2> QED
    BY <2>1
<1>2. carried(c) \in Seq(Pieces)
  <2>1. \A w \in Workers : buffer[w] \in Seq(Pieces)
    BY DEF IInv, TypeOK
  <2>2. <<>> \in Seq(Pieces)
    OBVIOUS
  <2>3. ASSUME NEW w \in Workers, carriers(c) = {w} PROVE carried(c) = buffer[w]
    BY <2>3 DEF carried
  <2>4. carriers(c) = {} => carried(c) = <<>>
    BY DEF carried
  <2> QED
    BY <1>1, <2>1, <2>2, <2>3, <2>4
<1> QED
  BY <1>1, <1>2

\* Putting streams together in either order.
LEMMA Together == \A s, t, u \in Seq(Pieces) : s \o (t \o u) = (s \o t) \o u
BY ConcatAssociative

\* What a step leaves alone stays in the workers' buffers ...
LEMMA CarriedStays ==
    ASSUME IInv, NEW c \in Clients, carriers(c)' = carriers(c),
           \A w \in carriers(c) : buffer'[w] = buffer[w]
    PROVE  carried(c)' = carried(c)
<1>1. CASE carriers(c) = {}
  BY <1>1 DEF carried
<1>2. ASSUME NEW w \in Workers, carriers(c) = {w} PROVE carried(c)' = carried(c)
  <2>1. carriers(c)' = {w} /\ buffer'[w] = buffer[w]
    BY <1>2
  <2>2. carried(c) = buffer[w]
    BY <1>2 DEF carried
  <2>3. carried(c)' = buffer'[w]
    BY <2>1 DEF carried
  <2> QED
    BY <2>1, <2>2, <2>3
<1> QED
  BY <1>1, <1>2, OneCarrier

\* ... and in flight.
LEMMA InFlightStays ==
    ASSUME IInv, NEW c \in Clients, carriers(c)' = carriers(c),
           \A w \in carriers(c) : buffer'[w] = buffer[w],
           up'[c] = up[c], down'[c] = down[c]
    PROVE  inFlight(c)' = inFlight(c)
BY CarriedStays DEF inFlight

\* A step that opens and closes nothing, and keeps what is in flight, stutters.
LEMMA Stutter ==
    ASSUME \A c \in Clients :
              /\ (alive' /\ cpc'[c] # "off") <=> (alive /\ cpc[c] # "off")
              /\ alive /\ cpc[c] # "off" => inFlight(c)' = inFlight(c)
    PROVE  UNCHANGED <<AbsOpen, AbsPipe>>
BY DEF AbsOpen, AbsPipe

\* The initial state is that of a channel nobody has opened.
LEMMA EchoInit == Init => Echo!Init
BY DEF Init, Echo!Init, AbsOpen, AbsPipe

\* Every step is one of the channel's, or none for the client.
LEMMA EchoStep == IInv /\ [Next]_vars => [Echo!Next]_<<AbsOpen, AbsPipe>>
<1> SUFFICES ASSUME IInv, [Next]_vars PROVE [Echo!Next]_<<AbsOpen, AbsPipe>>
  OBVIOUS
<1>a. /\ wpc \in [Workers -> {"idle", "read", "write", "close"}]
      /\ cpc \in [Clients -> {"off", "prompt", "recv"}]
      /\ buffer \in [Workers -> Seq(Pieces)]
      /\ up \in [Clients -> Seq(Pieces)] /\ down \in [Clients -> Seq(Pieces)]
      /\ fin \in [Clients -> BOOLEAN]
  BY DEF IInv, TypeOK
<1>b. alive => \A c \in Clients : fin[c] => cpc[c] = "off"
  BY DEF IInv, Lifecycle
<1>c. \A c \in Clients : carriers(c) \subseteq Workers
  BY DEF carriers
<1>1. CASE \/ UNCHANGED vars \/ Accept \/ PushTask
           \/ \E w \in Workers : GetTask(w) \/ ReadEnd(w)
  <2>1. /\ UNCHANGED <<buffer, cpc, up, down, alive>>
        /\ \A w \in Workers : wpc'[w] = "write" <=> wpc[w] = "write"
    BY <1>1, <1>a DEF vars, server, stream, Accept, PushTask, GetTask, ReadEnd
  <2>2. \A c \in Clients : inFlight(c)' = inFlight(c)
    BY <2>1, CarriersStay, InFlightStays
  <2> QED
    BY <2>1, <2>2, Stutter
<1>2. ASSUME NEW w \in Workers, ReadData(w) PROVE UNCHANGED <<AbsOpen, AbsPipe>>
  <2>0. PICK d \in Clients : d = peer(w)
    BY <1>2, PeerIsClient DEF ReadData
  <2>1. /\ UNCHANGED <<alive, cpc, down>> /\ wpc[w] = "read" /\ wpc' = [wpc EXCEPT ![w] = "write"]
    BY <1>2 DEF ReadData
  <2>2. PICK n \in 1 .. Len(up[d]) :
           /\ buffer' = [buffer EXCEPT ![w] = SubSeq(up[d], 1, n)]
           /\ up' = [up EXCEPT ![d] = SubSeq(up[d], n + 1, Len(up[d]))]
    BY <1>2, <2>0 DEF ReadData
  <2>3. wpc[w] # "idle" /\ wpc'[w] = "write" /\ \A v \in Workers : v # w => wpc'[v] = wpc[v]
    BY <1>a, <2>1
  <2>4. ASSUME NEW c \in Clients, c # d PROVE inFlight(c)' = inFlight(c)
    <3>1. carriers(c)' = carriers(c) /\ w \notin carriers(c)
      BY <2>0, <2>1, <2>3, <2>4, CarriersMove
    <3>2. up'[c] = up[c] /\ down'[c] = down[c] /\ \A v \in carriers(c) : buffer'[v] = buffer[v]
      BY <1>a, <1>c, <2>1, <2>2, <2>4, <3>1
    <3> QED
      BY <3>1, <3>2, InFlightStays
  <2>5. inFlight(d)' = inFlight(d)
    <3>1. carriers(d) = {} /\ carriers(d)' = {w}
      BY <2>0, <2>1, <2>3, CarriersMove
    <3>2. /\ inFlight(d) = down[d] \o <<>> \o up[d]
          /\ inFlight(d)' = down'[d] \o buffer'[w] \o up'[d]
      BY <3>1, InFlightIs, InFlightIsNext
    <3>3. /\ down'[d] = down[d] /\ buffer'[w] = SubSeq(up[d], 1, n)
          /\ up'[d] = SubSeq(up[d], n + 1, Len(up[d]))
      BY <1>a, <2>1, <2>2
    <3>4. down[d] \o SubSeq(up[d], 1, n) \o SubSeq(up[d], n + 1, Len(up[d])) = down[d] \o <<>> \o up[d]
      <4>1. down[d] \in Seq(Pieces) /\ up[d] \in Seq(Pieces)
        BY <1>a
      <4> QED
        BY <4>1, ReadKeeps
    <3> QED
      BY <3>2, <3>3, <3>4
  <2> QED
    BY <2>1, <2>4, <2>5, Stutter
<1>3. ASSUME NEW w \in Workers, WriteBack(w) PROVE UNCHANGED <<AbsOpen, AbsPipe>>
  <2>0. PICK d \in Clients : d = peer(w)
    BY <1>3, PeerIsClient DEF WriteBack
  <2> DEFINE x == down[d] \o buffer[w]
  <2>1. /\ alive /\ UNCHANGED <<alive, cpc, up>> /\ wpc[w] = "write"
        /\ wpc' = [wpc EXCEPT ![w] = "read"] /\ buffer' = [buffer EXCEPT ![w] = <<>>]
    BY <1>3 DEF WriteBack
  <2>2. IF fin[d] THEN down' = down ELSE down' = [down EXCEPT ![d] = x]
    BY <1>3, <2>0 DEF WriteBack
  <2>3. wpc[w] # "idle" /\ wpc'[w] # "write" /\ \A v \in Workers : v # w => wpc'[v] = wpc[v]
    BY <1>a, <2>1
  <2> HIDE DEF x
  <2>4. ASSUME NEW c \in Clients, c # d PROVE inFlight(c)' = inFlight(c)
    <3>1. carriers(c)' = carriers(c) /\ w \notin carriers(c)
      BY <2>0, <2>1, <2>3, <2>4, CarriersMove
    <3>2. up'[c] = up[c] /\ down'[c] = down[c] /\ \A v \in carriers(c) : buffer'[v] = buffer[v]
      BY <1>a, <1>c, <2>1, <2>2, <2>4, <3>1
    <3> QED
      BY <3>1, <3>2, InFlightStays
  <2>5. ASSUME cpc[d] # "off" PROVE inFlight(d)' = inFlight(d)
    <3>1. carriers(d) = {w} /\ carriers(d)' = {}
      BY <2>0, <2>1, <2>3, CarriersMove
    <3>2. /\ inFlight(d) = down[d] \o buffer[w] \o up[d]
          /\ inFlight(d)' = down'[d] \o <<>> \o up'[d]
      BY <3>1, InFlightIs, InFlightIsNext
    <3>3. down'[d] = x /\ up'[d] = up[d]
      BY <1>a, <1>b, <2>1, <2>2, <2>5
    <3>4. x \in Seq(Pieces)
      BY <1>a, ConcatProperties DEF x
    <3>5. x \o <<>> = x
      BY <3>4, ConcatEmptySeq
    <3> QED
      BY <3>2, <3>3, <3>5 DEF x
  <2> QED
    BY <2>1, <2>4, <2>5, Stutter
<1>4. ASSUME NEW w \in Workers, WriteBroken(w) PROVE Echo!Shutdown
  BY <1>4 DEF WriteBroken, Echo!Shutdown, AbsOpen, AbsPipe
<1>5. ASSUME NEW w \in Workers, Close(w) PROVE UNCHANGED <<AbsOpen, AbsPipe>>
  <2>0. PICK d \in Clients : d = peer(w)
    BY <1>5, PeerIsClient DEF Close
  <2>1. /\ alive /\ UNCHANGED <<alive, cpc, down, buffer>> /\ wpc[w] = "close"
        /\ wpc' = [wpc EXCEPT ![w] = "idle"] /\ up' = [up EXCEPT ![d] = <<>>]
    BY <1>5, <2>0 DEF Close
  <2>2. cpc[d] = "off"
    BY <2>0, <2>1 DEF IInv, Lifecycle
  <2>3. \A v \in Workers : wpc'[v] = "write" <=> wpc[v] = "write"
    BY <1>a, <2>1
  <2>4. ASSUME NEW c \in Clients, c # d PROVE inFlight(c)' = inFlight(c)
    <3>1. up'[c] = up[c]
      BY <1>a, <2>1, <2>4
    <3> QED
      BY <2>1, <2>3, <3>1, CarriersStay, InFlightStays
  <2> QED
    BY <2>1, <2>2, <2>4, Stutter
<1>6. ASSUME NEW d \in Clients, Connect(d) PROVE Echo!Connect(d)
  <2>1. /\ alive /\ UNCHANGED <<alive, wpc, buffer, up, down>> /\ ~held(d) /\ cpc[d] = "off"
        /\ cpc' = [cpc EXCEPT ![d] = "prompt"]
    BY <1>6 DEF Connect, stream
  <2>2. \A c \in Clients : carriers(c)' = carriers(c) /\ inFlight(c)' = inFlight(c)
    BY <2>1, CarriersStay, InFlightStays
  <2>3. inFlight(d) = <<>>
    <3>1. carriers(d) = {}
      BY <2>1, PeersDiffer DEF carriers, peer
    <3>2. up[d] = <<>> /\ down[d] = <<>>
      BY <2>1 DEF IInv, Lifecycle
    <3>3. <<>> \o <<>> \o <<>> = <<>>
      OBVIOUS
    <3> QED
      BY <3>1, <3>2, <3>3, InFlightIs
  <2>4. \A c \in Clients : c # d => cpc'[c] = cpc[c]
    BY <1>a, <2>1
  <2>5. cpc'[d] = "prompt"
    BY <1>a, <2>1
  <2>6. AbsOpen' = [AbsOpen EXCEPT ![d] = TRUE] /\ ~AbsOpen[d]
    BY <2>1, <2>4, <2>5 DEF AbsOpen
  <2>7. AbsPipe' = AbsPipe
    BY <2>1, <2>2, <2>3, <2>4, <2>5 DEF AbsPipe
  <2> QED
    BY <2>6, <2>7 DEF Echo!Connect
<1>7. ASSUME NEW d \in Clients, SendLine(d) PROVE Echo!Send(d)
  <2>1. /\ alive /\ UNCHANGED <<alive, wpc, buffer, down>> /\ cpc[d] = "prompt"
        /\ cpc' = [cpc EXCEPT ![d] = "recv"]
    BY <1>7 DEF SendLine, server
  <2>2. PICK l \in Lines : up' = [up EXCEPT ![d] = up[d] \o l]
    BY <1>7 DEF SendLine
  <2>3. \A c \in Clients : cpc'[c] = "off" <=> cpc[c] = "off"
    BY <1>a, <2>1
  <2>4. \A c \in Clients : carriers(c)' = carriers(c)
    BY <2>1, CarriersStay
  <2>5. ASSUME NEW c \in Clients, c # d PROVE inFlight(c)' = inFlight(c)
    <3>1. up'[c] = up[c]
      BY <1>a, <2>2, <2>5
    <3> QED
      BY <2>1, <2>4, <3>1, InFlightStays
  <2>6. inFlight(d)' = inFlight(d) \o l
    <3>1. carried(d)' = carried(d)
      BY <2>1, <2>4, CarriedStays
    <3>2. inFlight(d)' = down[d] \o carried(d) \o (up[d] \o l)
      BY <1>a, <2>1, <2>2, <3>1 DEF inFlight
    <3> DEFINE s == down[d] \o carried(d)
    <3>3. s \in Seq(Pieces)
      BY <1>a, OneCarrier, ConcatProperties
    <3>4. up[d] \in Seq(Pieces) /\ l \in Seq(Pieces)
      BY <1>a, TcpServerAssumption
    <3> HIDE DEF s
    <3>5. s \o (up[d] \o l) = (s \o up[d]) \o l
      BY <3>3, <3>4, Together, Zenon
    <3> QED
      BY <3>2, <3>5 DEF s, inFlight
  <2>7. AbsOpen' = AbsOpen /\ AbsOpen[d]
    BY <2>1, <2>3 DEF AbsOpen
  <2>8. AbsPipe' = [AbsPipe EXCEPT ![d] = AbsPipe[d] \o l]
    <3>1. AbsPipe[d] = inFlight(d)
      BY <2>1 DEF AbsPipe
    <3>2. cpc[d] # "off"
      BY <2>1
    <3> QED
      BY <2>1, <2>3, <2>5, <2>6, <3>1, <3>2 DEF AbsPipe
  <2> QED
    BY <2>7, <2>8 DEF Echo!Send
<1>8. ASSUME NEW d \in Clients, RecvEcho(d) PROVE Echo!Receive(d)
  <2>1. /\ alive /\ UNCHANGED <<alive, wpc, buffer, up>> /\ cpc[d] = "recv"
        /\ cpc' = [cpc EXCEPT ![d] = "prompt"]
    BY <1>8 DEF RecvEcho, server
  <2>2. PICK n \in 1 .. Len(down[d]) :
           down' = [down EXCEPT ![d] = SubSeq(down[d], n + 1, Len(down[d]))]
    BY <1>8 DEF RecvEcho
  <2>3. \A c \in Clients : cpc'[c] = "off" <=> cpc[c] = "off"
    BY <1>a, <2>1
  <2>4. \A c \in Clients : carriers(c)' = carriers(c)
    BY <2>1, CarriersStay
  <2>5. ASSUME NEW c \in Clients, c # d PROVE inFlight(c)' = inFlight(c)
    <3>1. down'[c] = down[c]
      BY <1>a, <2>2, <2>5
    <3> QED
      BY <2>1, <2>4, <3>1, InFlightStays
  <2>6. /\ n \in 1 .. Len(inFlight(d))
        /\ inFlight(d)' = SubSeq(inFlight(d), n + 1, Len(inFlight(d)))
    <3> DEFINE t == SubSeq(down[d], n + 1, Len(down[d]))
               b == carried(d)
               r == b \o up[d]
    <3>1. /\ down[d] \in Seq(Pieces) /\ up[d] \in Seq(Pieces)
          /\ b \in Seq(Pieces) /\ t \in Seq(Pieces)
      BY <1>a, OneCarrier, Taken
    <3>2. carried(d)' = b
      BY <2>1, <2>4, CarriedStays
    <3>3. inFlight(d)' = t \o b \o up[d]
      BY <1>a, <2>1, <2>2, <3>2 DEF inFlight
    <3>4. inFlight(d) = down[d] \o b \o up[d]
      BY DEF inFlight
    <3> HIDE DEF t, b
    <3>5. t \o b \o up[d] = t \o r /\ down[d] \o b \o up[d] = down[d] \o r
      BY <3>1, Together, Zenon
    <3>6. r \in Seq(Pieces)
      BY <3>1, ConcatProperties
    <3> HIDE DEF r
    <3>7. /\ n \in 1 .. Len(down[d] \o r)
          /\ t \o r = SubSeq(down[d] \o r, n + 1, Len(down[d] \o r))
      BY <3>1, <3>6, TakenFromFront DEF t
    <3> QED
      BY <3>3, <3>4, <3>5, <3>7
  <2>7. AbsOpen' = AbsOpen /\ AbsOpen[d]
    BY <2>1, <2>3 DEF AbsOpen
  <2>8. AbsPipe' = [AbsPipe EXCEPT ![d] = inFlight(d)'] /\ AbsPipe[d] = inFlight(d)
    <3>1. AbsPipe[d] = inFlight(d) /\ cpc[d] # "off"
      BY <2>1 DEF AbsPipe
    <3> QED
      BY <2>1, <2>3, <2>5, <3>1 DEF AbsPipe
  <2> QED
    BY <2>6, <2>7, <2>8 DEF Echo!Receive
<1>9. ASSUME NEW d \in Clients, Kill(d) PROVE Echo!Hangup(d)
  <2>1. /\ alive /\ UNCHANGED <<alive, wpc, buffer, up>> /\ cpc[d] # "off"
        /\ cpc' = [cpc EXCEPT ![d] = "off"] /\ down' = [down EXCEPT ![d] = <<>>]
    BY <1>9 DEF Kill, server
  <2>2. ASSUME NEW c \in Clients, c # d PROVE cpc'[c] = cpc[c] /\ inFlight(c)' = inFlight(c)
    <3>1. cpc'[c] = cpc[c] /\ down'[c] = down[c]
      BY <1>a, <2>1, <2>2
    <3> QED
      BY <2>1, <3>1, CarriersStay, InFlightStays
  <2>3. cpc'[d] = "off"
    BY <1>a, <2>1
  <2>4. AbsOpen' = [AbsOpen EXCEPT ![d] = FALSE] /\ AbsOpen[d]
    BY <2>1, <2>2, <2>3 DEF AbsOpen
  <2>5. AbsPipe' = [AbsPipe EXCEPT ![d] = <<>>]
    BY <2>1, <2>2, <2>3 DEF AbsPipe
  <2> QED
    BY <2>4, <2>5 DEF Echo!Hangup
<1>10. ASSUME NEW d \in Clients, ServerGone(d) PROVE UNCHANGED <<AbsOpen, AbsPipe>>
  BY <1>10, Stutter DEF ServerGone
<1> QED
  BY <1>1, <1>2, <1>3, <1>4, <1>5, <1>6, <1>7, <1>8, <1>9, <1>10 DEF Next, Serve, Echo!Next

\* Every client gets back what it sent, in order, once, and nothing of anybody
\* else's, however the server's main, its workers and the clients interleave.
THEOREM Implementation == Spec => ImplementsEcho
BY InitInv, NextInv, EchoInit, EchoStep, PTL DEF Spec, ImplementsEcho, Echo!Spec
=============================================================================
