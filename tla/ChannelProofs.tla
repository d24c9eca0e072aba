---------------------------- MODULE ChannelProofs ----------------------------
(***************************************************************************)
(* Theorems about the programs of MCChannels, for every number of          *)
(* processes, messages, clients, segments and starts, and pipes of any     *)
(* capacity.                                                               *)
(***************************************************************************)
EXTENDS MCChannels, FiniteSetTheorems, FunctionTheorems, SequenceTheorems, TLAPS

\* The first n numbers are n.
LEMMA CountTo == \A n \in Nat : Cardinality(1 .. n) = n /\ IsFiniteSet(1 .. n)
BY FS_Interval

\* What a queue of a pipe holds before and after a write and a read.
LEMMA Queue == ASSUME NEW S, NEW q \in Seq(S)
               PROVE  /\ Len(q) \in Nat
                      /\ \A m \in S : Append(q, m) \in Seq(S) /\ Len(Append(q, m)) = Len(q) + 1
                      /\ q # <<>> => Tail(q) \in Seq(S) /\ Len(Tail(q)) = Len(q) - 1
  OBVIOUS

\* The programs' own names of it.
LEMMA SameCardinality == \A S : /\ Pool!Cardinality(S) = Cardinality(S)
                                /\ Fifo!Cardinality(S) = Cardinality(S)
                                /\ Pipe!Cardinality(S) = Cardinality(S)
BY DEF Pool!Cardinality, Fifo!Cardinality, Pipe!Cardinality, Cardinality

-----------------------------------------------------------------------------
(***************************************************************************)
(* The process pool.                                                       *)
(***************************************************************************)
LEMMA PoolInit == Pool!Init => Pool!IInv
<1> SUFFICES ASSUME Pool!Init PROVE Pool!IInv
  OBVIOUS
<1>1. Pool!created = 1 .. 0
  BY MCChannelsAssumption DEF Pool!Init, Pool!created, Pool!Children
<1>2. Pool!Forked
  BY <1>1, MCChannelsAssumption DEF Pool!Init, Pool!Forked
<1>3. Pool!TypeOK /\ data \in [Pipes -> Seq({0})]
  BY PipeEndsAssumption DEF Pool!Init, Pool!TypeOK, Pool!EndsTyped, Pool!Gone
<1>4. Pool!Places /\ Pool!Inherited /\ Pool!LastFirst
  BY <1>1, MCChannelsAssumption
     DEF Pool!Init, Pool!Places, Pool!Inherited, Pool!LastFirst, Pool!Children, Pool!Gone
<1> QED
  BY <1>2, <1>3, <1>4 DEF Pool!IInv

LEMMA PoolNext == Pool!IInv /\ [Pool!Next]_pipes => Pool!IInv'
<1> SUFFICES ASSUME Pool!IInv, [Pool!Next]_pipes PROVE Pool!IInv'
  OBVIOUS
<1> USE DEF Pool!Children, Pool!Gone
<1>0. /\ 0 \in Procs /\ Pool!Children \subseteq Procs /\ 0 \notin Pool!Children
      /\ Pool!Children \subseteq Pipes /\ Capacity \in Nat \ {0}
      /\ NumProcesses \in Nat \ {0}
  BY MCChannelsAssumption, PipeEndsAssumption
<1>a. /\ pc \in [Procs -> {"fork", "close", "menu", "send", "born", "wait"} \cup Pool!Gone \cup {"none"}]
      /\ ends \in [Procs -> SUBSET (Pipes \X {"r", "w"})]
      /\ \A k \in Pipes : Len(data[k]) <= Capacity
      /\ \A p \in Procs : pc[p] \in Pool!Gone \cup {"none"} => ends[p] = {}
  BY DEF Pool!IInv, Pool!TypeOK, Pool!EndsTyped
<1>b. data \in [Pipes -> Seq({0})]
  BY DEF Pool!IInv
<1>c. Pool!created \subseteq Pool!Children
  BY DEF Pool!created
<1>1. CASE Pool!Fork
  <2>0. PICK m \in 0 .. NumProcesses : Pool!created = 1 .. m /\ (pc[0] = "fork" => m < NumProcesses)
    BY DEF Pool!IInv, Pool!Forked
  <2>1. PICK n \in 0 .. NumProcesses - 1 : Pool!created = 1 .. n
    BY <1>1, <1>0, <2>0 DEF Pool!Fork
  <2> DEFINE i == n + 1
             all == ends[0] \cup {<<i, "r">>, <<i, "w">>}
  <2>2. Cardinality(Pool!created) + 1 = i
    BY <2>1, CountTo
  <2>3. /\ pc[0] = "fork" /\ i \in Pool!Children /\ i # 0 /\ i \in Pipes /\ i \in Procs
        /\ pc' = [pc EXCEPT ![0] = "close", ![i] = "born"]
        /\ ends' = [ends EXCEPT ![0] = all, ![i] = all]
        /\ data' = data
    <3>1. i \in Pool!Children /\ i # 0 /\ i \in Pipes /\ i \in Procs
      BY <1>0
    <3> HIDE DEF i
    <3> QED
      BY <1>1, <2>2, <3>1, SameCardinality DEF Pool!Fork
  <2> HIDE DEF i
  <2>4. Pool!created' = Pool!created \cup {i}
    BY <1>0, <1>a, <2>3 DEF Pool!created
  <2>5. Pool!created' = 1 .. n + 1
    BY <2>1, <2>4 DEF i
  <2>6. Pool!Forked'
    BY <1>a, <1>0, <2>1, <2>3, <2>5 DEF Pool!Forked
  <2>7. all \in SUBSET (Pipes \X {"r", "w"})
    BY <1>0, <1>a, <2>3
  <2>8. Pool!TypeOK' /\ (data \in [Pipes -> Seq({0})])'
    BY <1>0, <1>a, <1>b, <2>3, <2>7 DEF Pool!TypeOK, Pool!EndsTyped
  <2>9. Pool!Places' /\ Pool!LastFirst'
    BY <1>0, <1>a, <2>3 DEF Pool!IInv, Pool!Places, Pool!LastFirst
  <2>10. Pool!Inherited'
    <3>1. \A j \in Pool!created' : <<j, "w">> \in ends'[0]
      BY <1>0, <1>a, <2>3, <2>4 DEF Pool!IInv, Pool!Inherited
    <3>2. ASSUME NEW h \in Pool!created', NEW j \in Pool!created', h < j, pc'[j] \notin Pool!Gone
          PROVE  <<h, "w">> \in ends'[j]
      <4>1. CASE j = i
        BY <1>0, <1>a, <2>3, <3>1, <4>1
      <4>2. CASE j # i
        <5>1. j \in Pool!created /\ h \in Pool!created
          BY <2>1, <2>5, <3>2, <4>2 DEF i
        <5> QED
          BY <1>0, <1>a, <1>c, <2>3, <3>2, <4>2, <5>1 DEF Pool!IInv, Pool!Inherited
      <4> QED
        BY <4>1, <4>2
    <3> QED
      BY <3>1, <3>2 DEF Pool!Inherited
  <2> QED
    BY <2>6, <2>8, <2>9, <2>10 DEF Pool!IInv
<1>2. CASE Pool!CloseRead
  <2>1. PICK n \in 0 .. NumProcesses :
           Pool!created = 1 .. n /\ (pc[0] = "fork" => n < NumProcesses) /\ (pc[0] = "close" => n > 0)
    BY DEF Pool!IInv, Pool!Forked
  <2>2. Cardinality(Pool!created) = n
    BY <2>1, CountTo
  <2>3. /\ pc[0] = "close"
        /\ pc' = [pc EXCEPT ![0] = IF Pool!created = Pool!Children THEN "menu" ELSE "fork"]
        /\ ends' = [ends EXCEPT ![0] = @ \ {<<n, "r">>}]
        /\ data' = data
    BY <1>2, <2>2, SameCardinality DEF Pool!CloseRead, Pool!Goto, Pool!Close
  <2>4. Pool!created' = Pool!created
    BY <1>0, <1>a, <2>3 DEF Pool!created
  <2>5. pc'[0] = "fork" => n < NumProcesses
    BY <1>0, <1>a, <2>1, <2>3
  <2>6. Pool!Forked'
    BY <1>0, <1>a, <2>1, <2>3, <2>4, <2>5 DEF Pool!Forked
  <2>7. Pool!TypeOK' /\ (data \in [Pipes -> Seq({0})])' /\ Pool!Places'
    BY <1>0, <1>a, <1>b, <2>3 DEF Pool!TypeOK, Pool!EndsTyped, Pool!IInv, Pool!Places
  <2>8. Pool!Inherited' /\ Pool!LastFirst'
    BY <1>0, <1>a, <1>c, <2>3, <2>4 DEF Pool!IInv, Pool!Inherited, Pool!LastFirst
  <2> QED
    BY <2>6, <2>7, <2>8 DEF Pool!IInv
\* What is left changes no process that is not there, and no end but those of a
\* process that goes and the write end of a new child.
<1>3. ASSUME /\ Pool!created' = Pool!created
             /\ pc'[0] \in {pc[0], "send"} \cup Pool!Gone
             /\ pc'[0] = "send" => pc[0] \in {"menu", "send"}
             /\ pc[0] \in Pool!Gone => pc'[0] \in Pool!Gone
             /\ \A j \in Pool!Children : pc[j] \in Pool!Gone => pc'[j] = pc[j]
             /\ \A j \in Pool!Children : pc'[j] = "left" =>
                   pc[j] = "left" \/ (pc[0] \in Pool!Gone /\ \A h \in Pool!created : h > j => pc[h] \in Pool!Gone)
             /\ pc'[0] \notin Pool!Gone => ends'[0] = ends[0]
             /\ \A j \in Pool!Children : pc'[j] \notin Pool!Gone =>
                   ends'[j] = ends[j] \/ ends'[j] = ends[j] \ {<<j, "w">>}
      PROVE  Pool!Forked' /\ Pool!Inherited' /\ Pool!LastFirst'
  <2>1. Pool!Forked'
    BY <1>3 DEF Pool!IInv, Pool!Forked
  <2>2. Pool!Inherited'
    <3>1. pc'[0] \notin Pool!Gone => pc[0] \notin Pool!Gone
      BY <1>3
    <3>2. \A j \in Pool!created : pc'[j] \notin Pool!Gone => pc[j] \notin Pool!Gone
      BY <1>3, <1>c
    <3>3. \A h, j \in Pool!created : h < j /\ pc'[j] \notin Pool!Gone => <<h, "w">> \in ends'[j]
      BY <1>3, <1>c, <3>2 DEF Pool!IInv, Pool!Inherited
    <3> QED
      BY <1>3, <3>1, <3>3 DEF Pool!IInv, Pool!Inherited
  <2>3. Pool!LastFirst'
    BY <1>3, <1>c DEF Pool!IInv, Pool!LastFirst
  <2> QED
    BY <2>1, <2>2, <2>3
<1>4. CASE Pool!Menu
  BY <1>0, <1>3, <1>4, <1>a, <1>b
     DEF Pool!Menu, Pool!Goto, Pool!created, Pool!IInv, Pool!TypeOK, Pool!EndsTyped, Pool!Places
<1>5. ASSUME NEW i \in Pool!Children, Pool!Send(i) PROVE Pool!IInv'
  <2>1. CASE /\ Len(data[i]) < Capacity /\ data' = [data EXCEPT ![i] = Append(@, 0)]
             /\ pc[0] = "send" /\ pc' = [pc EXCEPT ![0] = "send"] /\ UNCHANGED ends
    <3>1. \A k \in Pipes : data'[k] \in Seq({0}) /\ Len(data'[k]) <= Capacity
      BY <1>0, <1>a, <1>b, <2>1, Queue
    <3>2. Pool!TypeOK' /\ (data \in [Pipes -> Seq({0})])' /\ Pool!Places'
      BY <1>0, <1>a, <1>b, <2>1, <3>1 DEF Pool!TypeOK, Pool!EndsTyped, Pool!IInv, Pool!Places
    <3>3. Pool!created' = Pool!created
      BY <1>0, <1>a, <2>1 DEF Pool!created
    <3> QED
      BY <1>0, <1>3, <1>a, <2>1, <3>2, <3>3 DEF Pool!IInv
  <2>2. CASE pc[0] = "send" /\ Pool!Exit(0, "killed") /\ UNCHANGED data
    <3>1. Pool!TypeOK' /\ (data \in [Pipes -> Seq({0})])' /\ Pool!Places'
      BY <1>0, <1>a, <1>b, <2>2 DEF Pool!Exit, Pool!Goto, Pool!TypeOK, Pool!EndsTyped, Pool!IInv, Pool!Places
    <3>2. Pool!created' = Pool!created
      BY <1>0, <1>a, <2>2 DEF Pool!Exit, Pool!Goto, Pool!created
    <3> QED
      BY <1>0, <1>3, <1>a, <2>2, <3>1, <3>2 DEF Pool!Exit, Pool!Goto, Pool!IInv
  <2> QED
    BY <1>5, <2>1, <2>2 DEF Pool!Send, Pool!Write, Pool!Goto
<1>6. ASSUME NEW i \in Pool!Children, Pool!CloseWrite(i) PROVE Pool!IInv'
  <2>1. /\ pc[i] = "born" /\ pc' = [pc EXCEPT ![i] = "wait"]
        /\ ends' = [ends EXCEPT ![i] = @ \ {<<i, "w">>}] /\ UNCHANGED data
    BY <1>6 DEF Pool!CloseWrite, Pool!Close, Pool!Goto
  <2>2. Pool!TypeOK' /\ (data \in [Pipes -> Seq({0})])' /\ Pool!Places'
    BY <1>0, <1>a, <1>b, <2>1 DEF Pool!TypeOK, Pool!EndsTyped, Pool!IInv, Pool!Places
  <2>3. Pool!created' = Pool!created
    BY <1>0, <1>a, <2>1 DEF Pool!created
  <2> QED
    BY <1>0, <1>3, <1>a, <2>1, <2>2, <2>3 DEF Pool!IInv
<1>7. ASSUME NEW i \in Pool!Children, Pool!Wait(i) PROVE Pool!IInv'
  <2>1. CASE data[i] # <<>> /\ data' = [data EXCEPT ![i] = Tail(@)] /\ UNCHANGED <<pc, ends>>
    <3>1. \A k \in Pipes : data'[k] \in Seq({0}) /\ Len(data'[k]) <= Capacity
      BY <1>0, <1>a, <1>b, <2>1, Queue
    <3>2. Pool!TypeOK' /\ (data \in [Pipes -> Seq({0})])' /\ Pool!Places'
      BY <1>0, <1>a, <1>b, <2>1, <3>1 DEF Pool!TypeOK, Pool!EndsTyped, Pool!IInv, Pool!Places
    <3>3. Pool!created' = Pool!created
      BY <2>1 DEF Pool!created
    <3> QED
      BY <1>0, <1>3, <1>a, <2>1, <3>2, <3>3 DEF Pool!IInv
  <2>2. CASE pc[i] = "wait" /\ Pool!Eof(i) /\ Pool!Exit(i, "left") /\ UNCHANGED data
    <3>1. pc' = [pc EXCEPT ![i] = "left"] /\ ends' = [ends EXCEPT ![i] = {}]
      BY <2>2 DEF Pool!Exit, Pool!Goto
    <3>2. Pool!TypeOK' /\ (data \in [Pipes -> Seq({0})])' /\ Pool!Places'
      BY <1>0, <1>a, <1>b, <2>2, <3>1 DEF Pool!TypeOK, Pool!EndsTyped, Pool!IInv, Pool!Places
    <3>3. Pool!created' = Pool!created /\ i \in Pool!created
      BY <1>0, <1>a, <2>2, <3>1 DEF Pool!created
    \* Whoever is not gone among them holds the write end.
    <3>4. pc[0] \in Pool!Gone /\ \A h \in Pool!created : h > i => pc[h] \in Pool!Gone
      BY <1>0, <1>c, <2>2, <3>3 DEF Pool!Eof, Pool!held, Pool!IInv, Pool!Inherited
    <3> QED
      BY <1>0, <1>3, <1>a, <2>2, <3>1, <3>2, <3>3, <3>4 DEF Pool!IInv
  <2> QED
    BY <1>7, <2>1, <2>2 DEF Pool!Wait
<1>8. ASSUME NEW p \in {0} \cup Pool!Children, Pool!Kill(p) PROVE Pool!IInv'
  <2>1. /\ pc[p] \notin Pool!Gone \cup {"none"} /\ p \in Procs
        /\ pc' = [pc EXCEPT ![p] = "killed"] /\ ends' = [ends EXCEPT ![p] = {}] /\ UNCHANGED data
    BY <1>0, <1>8 DEF Pool!Kill, Pool!Exit, Pool!Goto
  <2>2. Pool!TypeOK' /\ (data \in [Pipes -> Seq({0})])' /\ Pool!Places'
    BY <1>0, <1>a, <1>b, <2>1 DEF Pool!TypeOK, Pool!EndsTyped, Pool!IInv, Pool!Places
  <2>3. Pool!created' = Pool!created
    BY <1>0, <1>a, <2>1 DEF Pool!created
  <2> QED
    BY <1>0, <1>3, <1>a, <2>1, <2>2, <2>3 DEF Pool!IInv
<1>9. CASE UNCHANGED pipes
  BY <1>9 DEF pipes, Pool!IInv, Pool!TypeOK, Pool!EndsTyped, Pool!Places, Pool!Forked,
              Pool!created, Pool!Inherited, Pool!LastFirst
<1> QED
  BY <1>1, <1>2, <1>4, <1>5, <1>6, <1>7, <1>8, <1>9
     DEF Pool!Next, Pool!Parent, Pool!Child

-----------------------------------------------------------------------------
(***************************************************************************)
(* The pipe demo.                                                          *)
(***************************************************************************)
LEMMA DemoInit == Demo!Init => Demo!IInv
<1> SUFFICES ASSUME Demo!Init PROVE Demo!IInv
  OBVIOUS
<1>0. {0, 1} \subseteq Procs /\ 1 \in Pipes /\ NumMessages \in Nat \ {0} /\ Capacity \in Nat
  BY MCChannelsAssumption, PipeEndsAssumption
<1>1. Demo!TypeOK
  BY <1>0 DEF Demo!Init, Demo!TypeOK, Demo!EndsTyped, Demo!Gone
<1>2. Demo!Places /\ Demo!WriterHolds /\ Demo!Counts
  BY <1>0 DEF Demo!Init, Demo!Places, Demo!WriterHolds, Demo!Counts, Demo!Gone
<1>3. <<>> \o <<>> = [m \in 1 .. 0 |-> m]
  OBVIOUS
<1>4. Demo!NothingLost
  BY <1>0, <1>3 DEF Demo!Init, Demo!NothingLost
<1> QED
  BY <1>1, <1>2, <1>4 DEF Demo!IInv

\* Appending the next number to what has been written, and moving all of it from the
\* pipe to the screen.
LEMMA NextNumber == \A n \in Nat : \A s, t \in Seq(Nat) :
                       s \o t = [m \in 1 .. n |-> m] =>
                          /\ s \o Append(t, n + 1) = [m \in 1 .. n + 1 |-> m]
                          /\ (s \o t) \o <<>> = [m \in 1 .. n |-> m]
<1> SUFFICES ASSUME NEW n \in Nat, NEW s \in Seq(Nat), NEW t \in Seq(Nat),
                    s \o t = [m \in 1 .. n |-> m]
             PROVE  /\ s \o Append(t, n + 1) = [m \in 1 .. n + 1 |-> m]
                    /\ (s \o t) \o <<>> = [m \in 1 .. n |-> m]
  OBVIOUS
<1> DEFINE u == Append(t, n + 1)
<1>1. /\ s \o t \in Seq(Nat) /\ Len(s \o t) = Len(s) + Len(t) /\ Len(s) \in Nat /\ Len(t) \in Nat
      /\ \A i \in 1 .. Len(s) + Len(t) : (s \o t)[i] = IF i <= Len(s) THEN s[i] ELSE t[i - Len(s)]
  <2>1. Len(s) \in Nat /\ Len(t) \in Nat
    OBVIOUS
  <2> QED
    BY <2>1, ConcatProperties
<1>2. Len(s) + Len(t) = n /\ \A i \in 1 .. n : (s \o t)[i] = i
  BY <1>1
<1>3. u \in Seq(Nat) /\ Len(u) = Len(t) + 1 /\ u[Len(t) + 1] = n + 1 /\ \A i \in 1 .. Len(t) : u[i] = t[i]
  BY <1>1
<1> HIDE DEF u
<1>4. /\ s \o u \in Seq(Nat) /\ Len(s \o u) = n + 1
      /\ \A i \in 1 .. n + 1 : (s \o u)[i] = IF i <= Len(s) THEN s[i] ELSE u[i - Len(s)]
  <2>1. Len(s) + Len(u) = n + 1
    BY <1>1, <1>2, <1>3
  <2> QED
    BY <1>3, <2>1, ConcatProperties
<1>5. ASSUME NEW i \in 1 .. n + 1 PROVE (s \o u)[i] = i
  <2>1. CASE i <= Len(s)
    BY <1>1, <1>2, <1>4, <2>1
  <2>2. CASE Len(s) < i /\ i <= n
    <3>1. i - Len(s) \in 1 .. Len(t) /\ i \in 1 .. n
      BY <1>1, <1>2, <2>2
    <3> QED
      BY <1>1, <1>2, <1>3, <1>4, <2>2, <3>1
  <2>3. CASE i = n + 1
    <3>1. i - Len(s) = Len(t) + 1 /\ ~(i <= Len(s))
      BY <1>1, <1>2, <2>3
    <3> QED
      BY <1>3, <1>4, <2>3, <3>1
  <2>4. Len(s) \in Nat /\ (i <= Len(s) \/ (Len(s) < i /\ i <= n) \/ i = n + 1)
    <3>1. Len(s) \in Nat
      OBVIOUS
    <3> QED
      BY <3>1
  <2> QED
    BY <2>1, <2>2, <2>3, <2>4
<1>6. s \o u = [m \in 1 .. n + 1 |-> m]
  <2>1. [m \in 1 .. n + 1 |-> m] \in Seq(Nat) /\ Len([m \in 1 .. n + 1 |-> m]) = n + 1
    OBVIOUS
  <2>2. \A i \in 1 .. n + 1 : (s \o u)[i] = [m \in 1 .. n + 1 |-> m][i]
    BY <1>5
  <2> QED
    BY <1>4, <2>1, <2>2, SeqEqual
<1>7. (s \o t) \o <<>> = [m \in 1 .. n |-> m]
  BY <1>1, ConcatEmptySeq
<1> QED
  BY <1>6, <1>7 DEF u

LEMMA DemoNext == Demo!IInv /\ [Demo!Next]_<<pipes, count, seen>> => Demo!IInv'
<1> SUFFICES ASSUME Demo!IInv, [Demo!Next]_<<pipes, count, seen>> PROVE Demo!IInv'
  OBVIOUS
<1> USE DEF Demo!Gone
<1>0. {0, 1} \subseteq Procs /\ 1 \in Pipes /\ NumMessages \in Nat \ {0} /\ Capacity \in Nat \ {0}
  BY MCChannelsAssumption, PipeEndsAssumption
<1>a. /\ pc \in [Procs -> {"fork", "close", "write", "shut", "waitpid", "born", "read"} \cup Demo!Gone \cup {"none"}]
      /\ ends \in [Procs -> SUBSET (Pipes \X {"r", "w"})]
      /\ \A k \in Pipes : Len(data[k]) <= Capacity
      /\ \A p \in Procs : pc[p] \in Demo!Gone \cup {"none"} => ends[p] = {}
  BY DEF Demo!IInv, Demo!TypeOK, Demo!EndsTyped
<1>b. data \in [Pipes -> Seq(1 .. NumMessages)] /\ seen \in Seq(1 .. NumMessages) /\ count \in 0 .. NumMessages
  BY DEF Demo!IInv, Demo!TypeOK, Demo!NothingLost
<1>c. pc[0] # "killed" => seen \o data[1] = [m \in 1 .. count |-> m]
  BY DEF Demo!IInv, Demo!NothingLost
\* The types of pc and of the ends, for a step that leaves the pipes and what is counted.
<1>t. ASSUME UNCHANGED <<data, count, seen>>,
             /\ pc' \in [Procs -> {"fork", "close", "write", "shut", "waitpid", "born", "read"} \cup Demo!Gone \cup {"none"}]
             /\ ends' \in [Procs -> SUBSET (Pipes \X {"r", "w"})]
             /\ \A p \in Procs : pc'[p] \in Demo!Gone \cup {"none"} => ends'[p] = {}
      PROVE  Demo!TypeOK'
  BY <1>t, <1>a, <1>b DEF Demo!TypeOK, Demo!EndsTyped
<1>1. CASE Demo!Fork
  <2>1. Demo!TypeOK'
    BY <1>0, <1>1, <1>a, <1>t DEF Demo!Fork, Demo!both
  <2>2. Demo!Places' /\ Demo!WriterHolds' /\ Demo!Counts'
    BY <1>0, <1>1, <1>a DEF Demo!Fork, Demo!both, Demo!IInv, Demo!Places, Demo!WriterHolds, Demo!Counts
  <2>3. Demo!NothingLost'
    BY <1>0, <1>1, <1>a, <1>b, <1>c DEF Demo!Fork, Demo!NothingLost
  <2> QED
    BY <2>1, <2>2, <2>3 DEF Demo!IInv
<1>2. CASE Demo!CloseRead \/ Demo!Shut
  <2>1. Demo!TypeOK'
    BY <1>0, <1>2, <1>a, <1>t DEF Demo!CloseRead, Demo!Shut, Demo!Close, Demo!Goto
  <2>2. Demo!Places' /\ Demo!WriterHolds' /\ Demo!Counts'
    BY <1>0, <1>2, <1>a
       DEF Demo!CloseRead, Demo!Shut, Demo!Close, Demo!Goto, Demo!IInv, Demo!Places, Demo!WriterHolds, Demo!Counts
  <2>3. Demo!NothingLost'
    BY <1>0, <1>2, <1>a, <1>b, <1>c DEF Demo!CloseRead, Demo!Shut, Demo!Goto, Demo!NothingLost
  <2> QED
    BY <2>1, <2>2, <2>3 DEF Demo!IInv
<1>3. CASE Demo!WriteNext
  <2>1. pc[0] = "write" /\ count' = count + 1 /\ count + 1 \in 1 .. NumMessages /\ UNCHANGED seen
    <3>1. pc[0] = "write" /\ count' = count + 1 /\ UNCHANGED seen
      BY <1>3 DEF Demo!WriteNext
    <3>2. count < NumMessages
      BY <3>1 DEF Demo!IInv, Demo!Counts
    <3> QED
      BY <1>0, <1>b, <3>1, <3>2
  <2>2. CASE /\ Len(data[1]) < Capacity /\ data' = [data EXCEPT ![1] = Append(@, count + 1)]
             /\ pc' = [pc EXCEPT ![0] = IF count + 1 = NumMessages THEN "shut" ELSE "write"]
             /\ UNCHANGED ends
    <3>1. \A k \in Pipes : data'[k] \in Seq(1 .. NumMessages) /\ Len(data'[k]) <= Capacity
      <4> DEFINE S == 1 .. NumMessages
      <4>1. data \in [Pipes -> Seq(S)] /\ count + 1 \in S
        BY <1>b, <2>1
      <4> HIDE DEF S
      <4>2. \A k \in Pipes : data'[k] \in Seq(S) /\ Len(data'[k]) <= Capacity
        BY <1>0, <1>a, <2>2, <4>1, Queue
      <4> QED
        BY <4>2 DEF S
    <3>2. Demo!TypeOK' /\ (data \in [Pipes -> Seq(1 .. NumMessages)])'
      BY <1>0, <1>a, <1>b, <2>1, <2>2, <3>1 DEF Demo!TypeOK, Demo!EndsTyped
    <3>3. Demo!Places' /\ Demo!Counts'
      BY <1>0, <1>a, <1>b, <2>1, <2>2 DEF Demo!IInv, Demo!Places, Demo!Counts
    <3>4. Demo!WriterHolds'
      BY <1>0, <1>a, <1>b, <2>1, <2>2 DEF Demo!IInv, Demo!WriterHolds
    <3>5. seen \o Append(data[1], count + 1) = [m \in 1 .. count + 1 |-> m]
      <4>1. seen \in Seq(Nat) /\ data[1] \in Seq(Nat) /\ count \in Nat
        BY <1>0, <1>b, SeqMonotonic
      <4>2. seen \o data[1] = [m \in 1 .. count |-> m]
        BY <1>c, <2>1
      <4> DEFINE upTo(n) == [m \in 1 .. n |-> m]
      <4>3. \A n \in Nat : \A s, t \in Seq(Nat) : s \o t = upTo(n) => s \o Append(t, n + 1) = upTo(n + 1)
        BY NextNumber
      <4>4. seen \o data[1] = upTo(count)
        BY <4>2
      <4>5. seen \o Append(data[1], count + 1) = upTo(count + 1)
        <5> HIDE DEF upTo
        <5> QED
          BY <4>1, <4>3, <4>4
      <4> QED
        BY <4>5
    <3>6. data'[1] = Append(data[1], count + 1)
      BY <1>0, <1>b, <2>2
    <3>7. Demo!NothingLost'
      BY <2>1, <3>2, <3>5, <3>6 DEF Demo!NothingLost
    <3> QED
      BY <3>2, <3>3, <3>4, <3>7 DEF Demo!IInv
  <2>3. CASE Demo!Exit(0, "killed") /\ UNCHANGED data
    <3>1. pc' = [pc EXCEPT ![0] = "killed"] /\ ends' = [ends EXCEPT ![0] = {}] /\ UNCHANGED data
      BY <2>3 DEF Demo!Exit, Demo!Goto
    <3>2. Demo!TypeOK' /\ (data \in [Pipes -> Seq(1 .. NumMessages)])'
      BY <1>0, <1>a, <1>b, <2>1, <3>1 DEF Demo!TypeOK, Demo!EndsTyped
    <3>3. Demo!Places' /\ Demo!WriterHolds' /\ Demo!Counts'
      BY <1>0, <1>a, <1>b, <2>1, <3>1 DEF Demo!IInv, Demo!Places, Demo!WriterHolds, Demo!Counts
    <3>4. Demo!NothingLost'
      BY <1>0, <1>a, <3>1, <3>2 DEF Demo!NothingLost
    <3> QED
      BY <3>2, <3>3, <3>4 DEF Demo!IInv
  <2> QED
    BY <1>3, <2>1, <2>2, <2>3 DEF Demo!WriteNext, Demo!Write, Demo!Goto
<1>4. CASE Demo!CloseWrite
  <2>1. Demo!TypeOK'
    BY <1>0, <1>4, <1>a, <1>b DEF Demo!CloseWrite, Demo!Close, Demo!Goto, Demo!TypeOK, Demo!EndsTyped
  <2>2. Demo!Places' /\ Demo!WriterHolds' /\ Demo!Counts'
    BY <1>0, <1>4, <1>a
       DEF Demo!CloseWrite, Demo!Close, Demo!Goto, Demo!IInv, Demo!Places, Demo!WriterHolds, Demo!Counts
  <2>3. Demo!NothingLost'
    BY <1>0, <1>4, <1>a, <1>b, <1>c DEF Demo!CloseWrite, Demo!Goto, Demo!NothingLost
  <2> QED
    BY <2>1, <2>2, <2>3 DEF Demo!IInv
<1>5. CASE Demo!Read
  <2>1. CASE /\ pc[1] = "read" /\ seen' = seen \o data[1]
             /\ data' = [data EXCEPT ![1] = <<>>] /\ UNCHANGED <<pc, ends, count>>
    <3>1. \A k \in Pipes : data'[k] \in Seq(1 .. NumMessages) /\ Len(data'[k]) <= Capacity
      <4> DEFINE S == 1 .. NumMessages
      <4>1. data \in [Pipes -> Seq(S)]
        BY <1>b
      <4> HIDE DEF S
      <4>2. \A k \in Pipes : data'[k] \in Seq(S) /\ Len(data'[k]) <= Capacity
        BY <1>0, <1>a, <2>1, <4>1
      <4> QED
        BY <4>2 DEF S
    <3>2. Demo!TypeOK' /\ (data \in [Pipes -> Seq(1 .. NumMessages)])'
      BY <1>0, <1>a, <1>b, <2>1, <3>1 DEF Demo!TypeOK, Demo!EndsTyped
    <3>3. Demo!Places' /\ Demo!WriterHolds' /\ Demo!Counts'
      BY <1>0, <1>a, <1>b, <2>1 DEF Demo!IInv, Demo!Places, Demo!WriterHolds, Demo!Counts
    <3>4. pc[0] # "killed" => (seen \o data[1]) \o <<>> = [m \in 1 .. count |-> m]
      <4>1. seen \in Seq(Nat) /\ data[1] \in Seq(Nat) /\ count \in Nat
        BY <1>0, <1>b
      <4> QED
        BY <1>c, <4>1, NextNumber, ZenonT(60)
    <3>5. data'[1] = <<>>
      BY <1>0, <1>b, <2>1
    <3>6. Demo!NothingLost'
      BY <2>1, <3>2, <3>4, <3>5 DEF Demo!NothingLost
    <3> QED
      BY <3>2, <3>3, <3>6 DEF Demo!IInv
  <2>2. CASE pc[1] = "read" /\ Demo!Eof(1) /\ Demo!Exit(1, "left") /\ UNCHANGED <<data, seen, count>>
    <3>1. pc' = [pc EXCEPT ![1] = "left"] /\ ends' = [ends EXCEPT ![1] = {}]
      BY <2>2 DEF Demo!Exit, Demo!Goto
    <3>2. Demo!TypeOK' /\ (data \in [Pipes -> Seq(1 .. NumMessages)])'
      BY <1>0, <1>a, <1>b, <2>2, <3>1 DEF Demo!TypeOK, Demo!EndsTyped
    <3>3. Demo!Places' /\ Demo!Counts'
      BY <1>0, <1>a, <1>b, <2>2, <3>1 DEF Demo!IInv, Demo!Places, Demo!Counts
    <3>4. data[1] = <<>> /\ <<1, "w">> \notin ends[0]
      BY <1>0, <2>2 DEF Demo!Eof, Demo!held
    <3>5. Demo!WriterHolds'
      BY <1>0, <1>a, <2>2, <3>1, <3>4 DEF Demo!IInv, Demo!WriterHolds, Demo!Places
    <3>6. Demo!NothingLost'
      BY <1>0, <1>a, <1>c, <2>2, <3>1, <3>2 DEF Demo!NothingLost
    <3> QED
      BY <3>2, <3>3, <3>5, <3>6 DEF Demo!IInv
  <2> QED
    BY <1>5, <2>1, <2>2 DEF Demo!Read
<1>6. ASSUME NEW p \in {0, 1}, NEW how \in Demo!Gone,
             pc[p] \notin Demo!Gone \cup {"none"}, Demo!Exit(p, how),
             UNCHANGED <<data, count, seen>>,
             how = "left" => p = 0 /\ pc[0] = "waitpid"
      PROVE  Demo!IInv'
  <2>1. pc' = [pc EXCEPT ![p] = how] /\ ends' = [ends EXCEPT ![p] = {}]
    BY <1>6 DEF Demo!Exit, Demo!Goto
  <2>2. Demo!TypeOK' /\ (data \in [Pipes -> Seq(1 .. NumMessages)])'
    BY <1>0, <1>6, <1>a, <1>b, <2>1 DEF Demo!TypeOK, Demo!EndsTyped
  <2>3. Demo!Places' /\ Demo!Counts'
    BY <1>0, <1>6, <1>a, <1>b, <2>1 DEF Demo!IInv, Demo!Places, Demo!Counts
  <2>4. Demo!WriterHolds'
    BY <1>0, <1>6, <1>a, <1>b, <2>1 DEF Demo!IInv, Demo!WriterHolds, Demo!Places
  <2>5. Demo!NothingLost'
    BY <1>0, <1>6, <1>a, <1>c, <2>1, <2>2 DEF Demo!NothingLost
  <2> QED
    BY <2>2, <2>3, <2>4, <2>5 DEF Demo!IInv
<1>7. CASE Demo!Reap
  BY <1>6, <1>7 DEF Demo!Reap
<1>8. ASSUME NEW p \in {0, 1}, Demo!Kill(p), UNCHANGED <<count, seen>> PROVE Demo!IInv'
  BY <1>6, <1>8 DEF Demo!Kill
<1>9. CASE UNCHANGED <<pipes, count, seen>>
  BY <1>9 DEF pipes, Demo!IInv, Demo!TypeOK, Demo!EndsTyped, Demo!Places, Demo!WriterHolds,
              Demo!NothingLost, Demo!Counts
<1> QED
  BY <1>1, <1>2, <1>3, <1>4, <1>5, <1>7, <1>8, <1>9 DEF Demo!Next, Demo!Parent, Demo!Child

\* The parent leaves when it has reaped the child, and has written everything by then.
LEMMA DemoShown == Demo!IInv => Demo!AllShown
<1> SUFFICES ASSUME Demo!IInv, pc[0] = "left", pc[1] = "left"
             PROVE  seen = [m \in 1 .. NumMessages |-> m]
  BY DEF Demo!AllShown
<1>1. data[1] = <<>> /\ count = NumMessages /\ seen \in Seq(1 .. NumMessages)
  BY DEF Demo!IInv, Demo!WriterHolds, Demo!Counts, Demo!TypeOK
<1>2. seen \o <<>> = [m \in 1 .. NumMessages |-> m]
  BY <1>1 DEF Demo!IInv, Demo!NothingLost
<1> QED
  BY <1>1, <1>2

-----------------------------------------------------------------------------
(***************************************************************************)
(* The fifo server and its clients.                                        *)
(***************************************************************************)
LEMMA FifoInit == Fifo!Init => Fifo!IInv
<1> SUFFICES ASSUME Fifo!Init PROVE Fifo!IInv
  OBVIOUS
<1>0. /\ 0 .. NumReaders \subseteq Procs /\ NumReaders \in Nat \ {0} /\ Capacity \in Nat
      /\ MaxLines \in Nat
  BY MCChannelsAssumption, PipeEndsAssumption
<1>1. Fifo!TypeOK /\ data \in [Pipes -> Seq(1 .. count)]
  <2>1. data \in [Pipes -> Seq(1 .. count)]
    BY DEF Fifo!Init
  <2> QED
    BY <1>0, <2>1 DEF Fifo!Init, Fifo!TypeOK, Fifo!EndsTyped, Fifo!Gone
<1>2. Fifo!created = 1 .. 0
  BY <1>0 DEF Fifo!Init, Fifo!created, Fifo!Children
<1>3. Fifo!Places
  BY <1>0 DEF Fifo!Init, Fifo!Places, Fifo!Children
<1>4. Fifo!Forked
  <2>1. pc[0] = "none" /\ 0 \in 0 .. NumReaders
    BY <1>0 DEF Fifo!Init
  <2> QED
    BY <1>2, <2>1 DEF Fifo!Forked
<1> QED
  BY <1>1, <1>3, <1>4 DEF Fifo!IInv

LEMMA FifoNext == Fifo!IInv /\ [Fifo!Next]_<<pipes, file, count, shown>> => Fifo!IInv'
<1> SUFFICES ASSUME Fifo!IInv, [Fifo!Next]_<<pipes, file, count, shown>> PROVE Fifo!IInv'
  OBVIOUS
<1> USE DEF Fifo!Children, Fifo!Clients, Fifo!Gone
<1> DEFINE Where == {"open", "opening", "fork", "waitpid", "failed", "read", "line"} \cup Fifo!Gone \cup {"none"}
<1>0. /\ 0 \in Procs /\ Fifo!Children \subseteq Procs /\ 0 \notin Fifo!Children
      /\ Fifo!Clients \subseteq Procs /\ 0 \notin Fifo!Clients /\ Fifo!Clients \cap Fifo!Children = {}
      /\ 1 \in Pipes /\ Capacity \in Nat \ {0} /\ NumReaders \in Nat \ {0} /\ MaxLines \in Nat
  BY MCChannelsAssumption, PipeEndsAssumption
<1>a. /\ pc \in [Procs -> Where]
      /\ ends \in [Procs -> SUBSET (Pipes \X {"r", "w"})]
      /\ \A k \in Pipes : Len(data[k]) <= Capacity
      /\ \A p \in Procs : pc[p] \in Fifo!Gone \cup {"none"} => ends[p] = {}
  BY DEF Fifo!IInv, Fifo!TypeOK, Fifo!EndsTyped
<1>b. /\ data \in [Pipes -> Seq(1 .. count)]
      /\ file \in BOOLEAN /\ count \in 0 .. MaxLines /\ shown \subseteq 1 .. count
  BY DEF Fifo!IInv, Fifo!TypeOK
<1>c. Fifo!created \subseteq Fifo!Children
  BY DEF Fifo!created
\* A step that changes no line, and of the processes only pc and their ends.
<1>t. ASSUME UNCHANGED <<data, count, shown>>, file' \in BOOLEAN,
             /\ pc' \in [Procs -> Where]
             /\ ends' \in [Procs -> SUBSET (Pipes \X {"r", "w"})]
             /\ \A p \in Procs : pc'[p] \in Fifo!Gone \cup {"none"} => ends'[p] = {}
      PROVE  Fifo!TypeOK' /\ (data \in [Pipes -> Seq(1 .. count)])'
  BY <1>t, <1>a, <1>b DEF Fifo!TypeOK, Fifo!EndsTyped
\* A step that forks nobody and does not bring the parent forward.
<1>f. ASSUME Fifo!created' = Fifo!created,
             \/ pc'[0] = pc[0]
             \/ pc'[0] \notin {"none", "open", "opening", "fork"}
             \/ pc[0] \in {"none", "open", "opening"}
      PROVE  Fifo!Forked'
  BY <1>f, <1>0 DEF Fifo!IInv, Fifo!Forked
<1>1. CASE Fifo!Start
  <2>1. /\ pc[0] \in Fifo!Gone \cup {"none"}
        /\ pc' = [pc EXCEPT ![0] = IF file THEN "failed" ELSE "open"]
        /\ file' = TRUE /\ UNCHANGED <<ends, data, count, shown>>
    BY <1>1 DEF Fifo!Start, Fifo!Goto
  <2>2. Fifo!TypeOK' /\ (data \in [Pipes -> Seq(1 .. count)])'
    BY <1>0, <1>a, <1>t, <2>1
  <2>3. Fifo!created' = Fifo!created
    BY <1>0, <1>a, <2>1 DEF Fifo!created
  <2>4. ~file => pc[0] = "none"
    BY DEF Fifo!IInv, Fifo!Places
  <2>5. Fifo!Places' /\ Fifo!Forked'
    BY <1>0, <1>a, <1>f, <2>1, <2>3, <2>4 DEF Fifo!IInv, Fifo!Places
  <2> QED
    BY <2>2, <2>5 DEF Fifo!IInv
<1>2. CASE Fifo!OpenRead
  <2>1. /\ pc[0] = "open" /\ pc' = [pc EXCEPT ![0] = "opening"]
        /\ ends' = [ends EXCEPT ![0] = {<<1, "r">>}] /\ UNCHANGED <<data, file, count, shown>>
    BY <1>2 DEF Fifo!OpenRead, Fifo!Goto
  <2>2. Fifo!TypeOK' /\ (data \in [Pipes -> Seq(1 .. count)])'
    BY <1>0, <1>a, <1>b, <1>t, <2>1
  <2>3. Fifo!created' = Fifo!created
    BY <1>0, <1>a, <2>1 DEF Fifo!created
  <2>4. Fifo!Places' /\ Fifo!Forked'
    BY <1>0, <1>a, <1>f, <2>1, <2>3 DEF Fifo!IInv, Fifo!Places
  <2> QED
    BY <2>2, <2>4 DEF Fifo!IInv
<1>3. CASE Fifo!Fork
  <2>0. PICK m \in 0 .. NumReaders : Fifo!created = 1 .. m /\ (pc[0] = "fork" => m < NumReaders)
    BY DEF Fifo!IInv, Fifo!Forked
  <2>1. PICK n \in 0 .. NumReaders - 1 : Fifo!created = 1 .. n
    BY <1>3, <1>0, <2>0 DEF Fifo!Fork
  <2> DEFINE i == n + 1
  <2>2. Cardinality(Fifo!created) + 1 = i
    BY <2>1, CountTo
  <2>3. i \in Fifo!Children /\ i \in Procs /\ i # 0 /\ i <= NumReaders
    BY <1>0
  <2> HIDE DEF i
  <2>4. /\ pc[0] = "fork"
        /\ pc' = [pc EXCEPT ![i] = "read", ![0] = IF i = NumReaders THEN "waitpid" ELSE "fork"]
        /\ ends' = [ends EXCEPT ![i] = ends[0]]
        /\ UNCHANGED <<data, file, count, shown>>
    BY <1>3, <2>2, SameCardinality DEF Fifo!Fork
  <2>5. Fifo!TypeOK' /\ (data \in [Pipes -> Seq(1 .. count)])'
    BY <1>0, <1>a, <1>b, <1>t, <2>3, <2>4
  <2>6. Fifo!created' = Fifo!created \cup {i}
    BY <1>0, <1>a, <2>3, <2>4 DEF Fifo!created
  <2>7. Fifo!created' = 1 .. n + 1
    BY <2>1, <2>6 DEF i
  <2>8. n + 1 \in 0 .. NumReaders /\ (pc'[0] = "fork" => n + 1 < NumReaders)
    <3>1. pc'[0] = IF i = NumReaders THEN "waitpid" ELSE "fork"
      BY <1>0, <1>a, <2>3, <2>4
    <3> QED
      BY <1>0, <3>1 DEF i
  <2>9. pc'[0] \in {"waitpid", "fork"}
    BY <1>0, <1>a, <2>3, <2>4
  <2>10. Fifo!Forked'
    BY <2>7, <2>8, <2>9 DEF Fifo!Forked
  <2>11. Fifo!Places'
    BY <1>0, <1>a, <2>3, <2>4, <2>9 DEF Fifo!IInv, Fifo!Places
  <2> QED
    BY <2>5, <2>10, <2>11 DEF Fifo!IInv
\* What is left of the processes' steps: one of them goes on, or goes.
<1>4. ASSUME NEW p \in Procs, NEW to, UNCHANGED file,
             pc' = [pc EXCEPT ![p] = to], pc[p] # "none" \/ p \in Fifo!Clients,
             \/ p = 0 /\ to \in Fifo!Gone
             \/ p \in Fifo!Children /\ to \in Fifo!Gone
             \/ p \in Fifo!Clients /\ to \in {"open", "line"} \cup Fifo!Gone
      PROVE  Fifo!Places' /\ Fifo!Forked'
  <2>1. Fifo!created' = Fifo!created
    BY <1>0, <1>a, <1>4 DEF Fifo!created
  <2> QED
    BY <1>0, <1>a, <1>4, <1>f, <2>1 DEF Fifo!IInv, Fifo!Places
<1>5. ASSUME NEW i \in Fifo!Children, Fifo!GetMessage(i) PROVE Fifo!IInv'
  <2>1. ASSUME NEW n \in 1 .. Len(data[1]), shown' = shown \cup {data[1][m] : m \in 1 .. n},
               data' = [data EXCEPT ![1] = SubSeq(@, n + 1, Len(@))],
               UNCHANGED <<pc, ends, file, count>>
        PROVE  Fifo!IInv'
    <3> DEFINE S == 1 .. count
    <3>1. data[1] \in Seq(S) /\ data \in [Pipes -> Seq(S)]
      BY <1>0, <1>b
    <3> HIDE DEF S
    <3>2. SubSeq(data[1], n + 1, Len(data[1])) \in Seq(S) /\ Len(SubSeq(data[1], n + 1, Len(data[1]))) <= Len(data[1])
      <4>1. Len(data[1]) \in Nat /\ \A m \in n + 1 .. Len(data[1]) : data[1][m] \in S
        BY <3>1
      <4> QED
        BY <4>1, SubSeqProperties
    <3>3. \A m \in 1 .. n : data[1][m] \in S
      BY <3>1
    <3>4. Len(data[1]) \in Nat
      BY <3>1
    <3>5. \A k \in Pipes : data'[k] \in Seq(S) /\ Len(data'[k]) <= Capacity
      BY <1>0, <1>a, <2>1, <3>1, <3>2, <3>4
    <3>6. shown' \subseteq S
      BY <1>b, <2>1, <3>3 DEF S
    <3>7. Fifo!TypeOK' /\ (data \in [Pipes -> Seq(1 .. count)])'
      BY <1>0, <1>a, <1>b, <2>1, <3>1, <3>5, <3>6 DEF Fifo!TypeOK, Fifo!EndsTyped, S
    <3>8. Fifo!Places' /\ Fifo!Forked'
      BY <2>1 DEF Fifo!IInv, Fifo!Places, Fifo!Forked, Fifo!created
    <3> QED
      BY <3>7, <3>8 DEF Fifo!IInv
  <2>2. CASE pc[i] = "read" /\ Fifo!Exit(i, "left") /\ UNCHANGED <<data, shown, file, count>>
    <3>1. pc' = [pc EXCEPT ![i] = "left"] /\ ends' = [ends EXCEPT ![i] = {}]
      BY <2>2 DEF Fifo!Exit, Fifo!Goto
    <3>2. Fifo!TypeOK' /\ (data \in [Pipes -> Seq(1 .. count)])'
      BY <1>0, <1>a, <1>b, <1>t, <2>2, <3>1
    <3>3. Fifo!Places' /\ Fifo!Forked'
      BY <1>0, <1>4, <2>2, <3>1
    <3> QED
      BY <3>2, <3>3 DEF Fifo!IInv
  <2> QED
    BY <1>5, <2>1, <2>2 DEF Fifo!GetMessage
<1>6. CASE Fifo!Reap
  <2>1. /\ pc[0] = "waitpid" /\ pc' = [pc EXCEPT ![0] = "left"] /\ ends' = [ends EXCEPT ![0] = {}]
        /\ UNCHANGED <<data, file, count, shown>>
    BY <1>6 DEF Fifo!Reap, Fifo!Exit, Fifo!Goto
  <2>2. Fifo!TypeOK' /\ (data \in [Pipes -> Seq(1 .. count)])'
    BY <1>0, <1>a, <1>b, <1>t, <2>1
  <2>3. Fifo!Places' /\ Fifo!Forked'
    BY <1>0, <1>4, <2>1
  <2> QED
    BY <2>2, <2>3 DEF Fifo!IInv
<1>7. ASSUME NEW c \in Fifo!Clients, Fifo!StartClient(c) PROVE Fifo!IInv'
  <2>1. PICK to \in {"open", "left"} : pc' = [pc EXCEPT ![c] = to]
    BY <1>7 DEF Fifo!StartClient, Fifo!Goto
  <2>2. pc[c] = "none" /\ UNCHANGED <<ends, data, file, count, shown>>
    BY <1>7 DEF Fifo!StartClient
  <2>3. Fifo!TypeOK' /\ (data \in [Pipes -> Seq(1 .. count)])'
    BY <1>0, <1>a, <1>b, <1>t, <2>1, <2>2
  <2>4. Fifo!Places' /\ Fifo!Forked'
    BY <1>0, <1>4, <2>1, <2>2
  <2> QED
    BY <2>3, <2>4 DEF Fifo!IInv
<1>8. ASSUME NEW c \in Fifo!Clients, Fifo!OpenWrite(c) PROVE Fifo!IInv'
  <2>1. /\ pc[c] = "open" /\ UNCHANGED <<data, file, count, shown>>
        /\ pc' = [pc EXCEPT ![c] = "line", ![0] = IF @ = "opening" THEN "fork" ELSE @]
        /\ ends' = [ends EXCEPT ![c] = {<<1, "w">>}]
    BY <1>8 DEF Fifo!OpenWrite
  <2>2. pc'[0] = (IF pc[0] = "opening" THEN "fork" ELSE pc[0]) /\ c # 0 /\ c \in Procs
    BY <1>0, <1>a, <2>1
  <2>3. Fifo!TypeOK' /\ (data \in [Pipes -> Seq(1 .. count)])'
    BY <1>0, <1>a, <1>b, <1>t, <2>1, <2>2
  <2>4. Fifo!created' = Fifo!created
    BY <1>0, <1>a, <2>1 DEF Fifo!created
  <2>5. Fifo!Places' /\ Fifo!Forked'
    BY <1>0, <1>a, <1>f, <2>1, <2>2, <2>4 DEF Fifo!IInv, Fifo!Places
  <2> QED
    BY <2>3, <2>5 DEF Fifo!IInv
<1>9. ASSUME NEW c \in Fifo!Clients, Fifo!WriteLine(c) PROVE Fifo!IInv'
  <2>0. /\ pc[c] = "line" /\ count < MaxLines /\ count' = count + 1 /\ UNCHANGED <<file, shown>>
        /\ count' \in 0 .. MaxLines /\ count + 1 \in 1 .. count' /\ 1 .. count \subseteq 1 .. count'
    BY <1>9, <1>0, <1>b DEF Fifo!WriteLine
  <2>1. \A k \in Pipes : data[k] \in Seq(1 .. count')
    BY <1>b, <2>0, SeqMonotonic
  <2>2. CASE /\ Len(data[1]) < Capacity /\ data' = [data EXCEPT ![1] = Append(@, count + 1)]
             /\ pc' = [pc EXCEPT ![c] = "line"] /\ UNCHANGED ends
    <3>1. \A k \in Pipes : data'[k] \in Seq(1 .. count') /\ Len(data'[k]) <= Capacity
      <4> DEFINE S == 1 .. count'
      <4>1. \A k \in Pipes : data[k] \in Seq(S) /\ count + 1 \in S
        BY <2>0, <2>1
      <4> HIDE DEF S
      <4>2. data \in [Pipes -> Seq(S)]
        BY <1>b, <4>1
      <4>3. \A k \in Pipes : data'[k] \in Seq(S) /\ Len(data'[k]) <= Capacity
        BY <1>0, <1>a, <2>2, <4>1, <4>2, Queue
      <4> QED
        BY <4>3 DEF S
    <3>2. Fifo!TypeOK' /\ (data \in [Pipes -> Seq(1 .. count)])'
      BY <1>0, <1>a, <1>b, <2>0, <2>2, <3>1 DEF Fifo!TypeOK, Fifo!EndsTyped
    <3>3. Fifo!Places' /\ Fifo!Forked'
      BY <1>0, <1>4, <2>0, <2>2
    <3> QED
      BY <3>2, <3>3 DEF Fifo!IInv
  <2>3. CASE Fifo!Exit(c, "killed") /\ UNCHANGED data
    <3>1. pc' = [pc EXCEPT ![c] = "killed"] /\ ends' = [ends EXCEPT ![c] = {}] /\ UNCHANGED data
      BY <2>3 DEF Fifo!Exit, Fifo!Goto
    <3>2. Fifo!TypeOK' /\ (data \in [Pipes -> Seq(1 .. count)])'
      BY <1>0, <1>a, <1>b, <2>0, <2>1, <3>1 DEF Fifo!TypeOK, Fifo!EndsTyped
    <3>3. Fifo!Places' /\ Fifo!Forked'
      BY <1>0, <1>4, <2>0, <3>1
    <3> QED
      BY <3>2, <3>3 DEF Fifo!IInv
  <2> QED
    BY <1>9, <2>0, <2>2, <2>3 DEF Fifo!WriteLine, Fifo!Write, Fifo!Goto
<1>10. ASSUME NEW p \in {0} \cup Fifo!Children \cup Fifo!Clients, Fifo!Kill(p), UNCHANGED <<file, count, shown>>
       PROVE  Fifo!IInv'
  <2>1. /\ pc[p] \notin Fifo!Gone \cup {"none"} /\ UNCHANGED data
        /\ pc' = [pc EXCEPT ![p] = "killed"] /\ ends' = [ends EXCEPT ![p] = {}]
    BY <1>10 DEF Fifo!Kill, Fifo!Exit, Fifo!Goto
  <2>2. Fifo!TypeOK' /\ (data \in [Pipes -> Seq(1 .. count)])'
    BY <1>0, <1>a, <1>b, <1>10, <1>t, <2>1
  <2>3. Fifo!Places' /\ Fifo!Forked'
    BY <1>0, <1>4, <1>10, <2>1
  <2> QED
    BY <2>2, <2>3 DEF Fifo!IInv
<1>11. CASE UNCHANGED <<pipes, file, count, shown>>
  BY <1>11 DEF pipes, Fifo!IInv, Fifo!TypeOK, Fifo!EndsTyped, Fifo!Places, Fifo!Forked, Fifo!created
<1> QED
  BY <1>1, <1>2, <1>3, <1>5, <1>6, <1>7, <1>8, <1>9, <1>10, <1>11
     DEF Fifo!Next, Fifo!Server, Fifo!Client

-----------------------------------------------------------------------------
(***************************************************************************)
(* The echo server that forks.                                             *)
(***************************************************************************)
\* Who is who: the parent, the clients, their children and the listening socket.
LEMMA Kinds == /\ 0 \in Procs /\ Server!Listen \in Procs \ {0} /\ Server!Clients \subseteq Procs
               /\ \A c \in Server!Clients : /\ Server!child(c) \in Procs /\ c # 0 /\ c # Server!Listen
                                            /\ Server!child(c) # 0 /\ Server!child(c) # Server!Listen
                                            /\ Server!up(c) \in Pipes /\ Server!down(c) \in Pipes
                                            /\ \A d \in Server!Clients :
                                                  /\ Server!child(c) # d
                                                  /\ c # d => Server!child(c) # Server!child(d)
BY MCChannelsAssumption DEF Server!Listen, Server!Clients, Server!child, Server!up, Server!down

\* No end of a connection is another connection's, or at its other side.
LEMMA Apart == \A c, d \in Server!Clients :
                  /\ Server!atServer(c) \cap Server!atClient(d) = {}
                  /\ c # d => Server!atServer(c) \cap Server!atServer(d) = {}
                  /\ Server!atServer(c) # {} /\ Server!atServer(c) \subseteq Pipes \X {"r", "w"}
                  /\ Server!atClient(c) \subseteq Pipes \X {"r", "w"}
<1>1. \A c, d \in Server!Clients : Server!up(c) # Server!down(d) /\ (c # d => Server!up(c) # Server!up(d) /\ Server!down(c) # Server!down(d))
  BY MCChannelsAssumption DEF Server!Clients, Server!up, Server!down
<1> QED
  BY <1>1, Kinds DEF Server!atServer, Server!atClient

LEMMA ServerInit == Server!Init => Server!IInv
<1> SUFFICES ASSUME Server!Init PROVE Server!IInv
  OBVIOUS
<1>1. Server!TypeOK /\ data \in [Pipes -> Seq({0})]
  BY PipeEndsAssumption DEF Server!Init, Server!TypeOK, Server!EndsTyped, Server!Gone
<1>2. Server!Places /\ Server!Sockets
  BY Kinds DEF Server!Init, Server!Places, Server!Sockets
<1> QED
  BY <1>1, <1>2 DEF Server!IInv

LEMMA ServerNext == Server!IInv /\ [Server!Next]_pipes => Server!IInv'
<1> SUFFICES ASSUME Server!IInv, [Server!Next]_pipes PROVE Server!IInv'
  OBVIOUS
<1> USE DEF Server!Gone
<1> DEFINE Where == {"accept", "fork", "close", "read", "write", "line", "recv", "listen"} \cup Server!Gone \cup {"none"}
<1>0. Capacity \in Nat \ {0}
  BY PipeEndsAssumption
<1>a. /\ pc \in [Procs -> Where]
      /\ ends \in [Procs -> SUBSET (Pipes \X {"r", "w"})]
      /\ \A k \in Pipes : Len(data[k]) <= Capacity
      /\ \A p \in Procs : pc[p] \in Server!Gone \cup {"none"} => ends[p] = {}
  BY DEF Server!IInv, Server!TypeOK, Server!EndsTyped
<1>b. data \in [Pipes -> Seq({0})]
  BY DEF Server!IInv
<1>c. Server!Places /\ Server!Sockets
  BY DEF Server!IInv
\* A client or a child goes on, or goes: its ends stay, or are closed.
<1>1. ASSUME NEW c \in Server!Clients, NEW p \in {c, Server!child(c)},
             NEW to \in Where \ {"none"},
             pc' = [pc EXCEPT ![p] = to],
             \/ pc[p] \notin Server!Gone \cup {"none"} /\ to \notin Server!Gone /\ UNCHANGED ends
             \/ ends' = [ends EXCEPT ![p] = {}]
      PROVE  /\ Server!Places' /\ Server!Sockets'
             /\ pc' \in [Procs -> Where]
             /\ ends' \in [Procs -> SUBSET (Pipes \X {"r", "w"})]
             /\ \A q \in Procs : pc'[q] \in Server!Gone \cup {"none"} => ends'[q] = {}
  <2>1. p \in Procs /\ p # 0 /\ p # Server!Listen
    BY Kinds
  <2>2. Server!Places'
    BY <1>1, <1>a, <1>c, <2>1 DEF Server!Places
  <2>3. pc' \in [Procs -> Where] /\ ends' \in [Procs -> SUBSET (Pipes \X {"r", "w"})]
    BY <1>1, <1>a, <2>1
  <2>4. \A q \in Procs : pc'[q] \in Server!Gone \cup {"none"} => ends'[q] = {}
    BY <1>1, <1>a, <2>1
  <2>5. \A q \in Procs : ends'[q] \subseteq ends[q]
    BY <1>1, <1>a, <2>1
  <2>6. ends'[0] = ends[0] /\ pc'[0] = pc[0]
    BY <1>1, <1>a, <2>1, Kinds
  <2>7. Server!Sockets'
    BY <1>c, <2>5, <2>6, Kinds DEF Server!Sockets
  <2> QED
    BY <2>2, <2>3, <2>4, <2>7
\* One message more or less in a pipe.
<1>2. ASSUME NEW k \in Pipes,
             \/ Len(data[k]) < Capacity /\ data' = [data EXCEPT ![k] = Append(@, 0)]
             \/ data[k] # <<>> /\ data' = [data EXCEPT ![k] = Tail(@)]
             \/ data' = [data EXCEPT ![k] = <<>>]
             \/ UNCHANGED data
      PROVE  data' \in [Pipes -> Seq({0})] /\ \A h \in Pipes : Len(data'[h]) <= Capacity
  <2>1. PICK q \in Seq({0}) : q = data'[k] /\ Len(q) <= Capacity
    <3>1. data[k] \in Seq({0}) /\ Len(data[k]) \in Nat /\ Len(data[k]) <= Capacity
      BY <1>a, <1>b, Queue
    <3>2. CASE Len(data[k]) < Capacity /\ data' = [data EXCEPT ![k] = Append(@, 0)]
      <4>1. data'[k] = Append(data[k], 0)
        BY <1>b, <3>2
      <4>2. data'[k] \in Seq({0}) /\ Len(data'[k]) = Len(data[k]) + 1
        BY <3>1, <3>2, <4>1, Queue
      <4> QED
        BY <1>0, <3>1, <3>2, <4>2
    <3>3. CASE data[k] # <<>> /\ data' = [data EXCEPT ![k] = Tail(@)]
      <4>1. data'[k] = Tail(data[k])
        BY <1>b, <3>3
      <4>2. data'[k] \in Seq({0}) /\ Len(data'[k]) = Len(data[k]) - 1
        BY <3>1, <3>3, <4>1, Queue
      <4> QED
        BY <1>0, <3>1, <3>3, <4>2
    <3>4. CASE data' = [data EXCEPT ![k] = <<>>]
      <4>1. data'[k] = <<>>
        BY <1>b, <3>4
      <4>2. data'[k] \in Seq({0}) /\ Len(data'[k]) = 0
        BY <3>1, <3>4, <4>1
      <4> QED
        BY <1>0, <4>2
    <3>5. CASE UNCHANGED data
      BY <3>1, <3>5
    <3> QED
      BY <1>2, <3>2, <3>3, <3>4, <3>5
  <2>2. data' = [data EXCEPT ![k] = q]
    BY <1>2, <1>b, <2>1
  <2> QED
    BY <1>a, <1>b, <2>1, <2>2
<1>3. ASSUME NEW c \in Server!Clients, NEW p \in {c, Server!child(c)}, NEW k \in Pipes,
             NEW to \in Where \ Server!Gone, to # "none",
             pc[p] \notin Server!Gone \cup {"none"}, Server!Write(p, k, 0, to)
      PROVE  Server!IInv'
  <2>1. \/ Len(data[k]) < Capacity /\ data' = [data EXCEPT ![k] = Append(@, 0)]
        \/ UNCHANGED data
    BY <1>3 DEF Server!Write
  <2>2. \/ pc' = [pc EXCEPT ![p] = to] /\ UNCHANGED ends
        \/ pc' = [pc EXCEPT ![p] = "killed"] /\ ends' = [ends EXCEPT ![p] = {}]
    BY <1>3 DEF Server!Write, Server!Exit, Server!Goto
  <2>3. PICK t \in Where \ {"none"} : /\ pc' = [pc EXCEPT ![p] = t]
                                      /\ \/ t \notin Server!Gone /\ UNCHANGED ends
                                         \/ ends' = [ends EXCEPT ![p] = {}]
    BY <1>3, <2>2
  <2> QED
    BY <1>1, <1>2, <1>3, <2>1, <2>3 DEF Server!IInv, Server!TypeOK, Server!EndsTyped
<1>4. ASSUME NEW c \in Server!Clients, NEW p \in {c, Server!child(c)}, NEW how \in Server!Gone,
             Server!Exit(p, how), UNCHANGED data
      PROVE  Server!IInv'
  <2>1. pc' = [pc EXCEPT ![p] = how] /\ ends' = [ends EXCEPT ![p] = {}]
    BY <1>4 DEF Server!Exit, Server!Goto
  <2> QED
    BY <1>1, <1>2, <1>4, <1>a, <1>b, <2>1 DEF Server!IInv, Server!TypeOK, Server!EndsTyped
<1>5. ASSUME NEW c \in Server!Clients, Server!Accept(c) PROVE Server!IInv'
  <2>1. /\ pc[0] = "accept" /\ pc' = [pc EXCEPT ![0] = "fork"] /\ UNCHANGED data
        /\ ends' = [ends EXCEPT ![Server!Listen] = @ \ Server!atServer(c), ![0] = Server!atServer(c)]
    BY <1>5 DEF Server!Accept, Server!Goto
  <2>2. Server!TypeOK' /\ (data \in [Pipes -> Seq({0})])'
    <3>1. pc' \in [Procs -> Where] /\ \A q \in Procs : pc'[q] \in Server!Gone \cup {"none"} => pc'[q] = pc[q]
      BY <1>a, <2>1, Kinds
    <3>2. /\ ends' \in [Procs -> SUBSET (Pipes \X {"r", "w"})]
          /\ \A q \in Procs \ {0} : ends'[q] \subseteq ends[q]
      BY <1>a, <2>1, Kinds, Apart
    <3>3. \A q \in Procs : pc'[q] \in Server!Gone \cup {"none"} => ends'[q] = {}
      BY <1>a, <2>1, <3>1, <3>2, Kinds
    <3> QED
      BY <1>a, <1>b, <2>1, <3>1, <3>2, <3>3 DEF Server!TypeOK, Server!EndsTyped
  <2>3. \A q \in Procs \ {0, Server!Listen} : ends'[q] = ends[q]
    BY <1>a, <2>1, Kinds
  <2>4. ends'[0] = Server!atServer(c) /\ pc'[0] = "fork" /\ pc'[Server!Listen] = pc[Server!Listen]
    BY <1>a, <2>1, Kinds
  <2>5. Server!Places'
    BY <1>c, <2>4 DEF Server!Places
  <2>6. Server!Sockets'
    <3>1. \A d \in Server!Clients : ends'[d] = ends[d] /\ ends'[Server!child(d)] = ends[Server!child(d)]
      BY <2>3, Kinds
    <3>2. \A q \in Procs \ (0 .. Server!Listen) : ends'[q] = ends[q]
      <4>1. 0 \in 0 .. Server!Listen /\ Server!Listen \in 0 .. Server!Listen
        BY MCChannelsAssumption DEF Server!Listen
      <4> QED
        BY <2>3, <4>1
    <3> QED
      BY <1>c, <2>4, <3>1, <3>2 DEF Server!Sockets
  <2> QED
    BY <2>2, <2>5, <2>6 DEF Server!IInv
<1>6. ASSUME NEW c \in Server!Clients, Server!Fork(c) PROVE Server!IInv'
  <2>1. pc[0] = "fork" /\ Server!atServer(c) \subseteq ends[0] /\ UNCHANGED data
    BY <1>6 DEF Server!Fork
  <2>2. ends[0] = Server!atServer(c)
    BY <1>c, <2>1, Apart DEF Server!Sockets
  <2>3. CASE pc' = [pc EXCEPT ![0] = "close"] /\ UNCHANGED ends
    <3>1. Server!TypeOK' /\ (data \in [Pipes -> Seq({0})])'
      BY <1>a, <1>b, <2>1, <2>3, Kinds DEF Server!TypeOK, Server!EndsTyped
    <3>2. Server!Places' /\ Server!Sockets'
      BY <1>a, <1>c, <2>1, <2>3, Kinds DEF Server!Places, Server!Sockets
    <3> QED
      BY <3>1, <3>2 DEF Server!IInv
  <2>4. CASE /\ pc' = [pc EXCEPT ![0] = "close", ![Server!child(c)] = "read"]
             /\ ends' = [ends EXCEPT ![Server!child(c)] = ends[0]]
    <3>1. Server!TypeOK' /\ (data \in [Pipes -> Seq({0})])'
      BY <1>a, <1>b, <2>1, <2>4, Kinds DEF Server!TypeOK, Server!EndsTyped
    <3>2. pc'[0] = "close" /\ ends'[0] = ends[0] /\ pc'[Server!Listen] = pc[Server!Listen]
      BY <1>a, <2>4, Kinds
    <3>3. \A q \in Procs : ends'[q] = ends[q] \/ (q = Server!child(c) /\ ends'[q] = Server!atServer(c))
      BY <1>a, <2>2, <2>4, Kinds
    <3>4. \A d \in Server!Clients : /\ ends'[d] \subseteq Server!atClient(d)
                                    /\ ends'[Server!child(d)] \subseteq Server!atServer(d)
      BY <1>c, <3>3, Kinds DEF Server!Sockets
    <3>5. \A q \in Procs \ (0 .. Server!Listen) : ends'[q] = {}
      <4>1. Server!child(c) \in 0 .. Server!Listen
        BY MCChannelsAssumption DEF Server!Listen, Server!Clients, Server!child
      <4> QED
        BY <1>c, <3>3, <4>1 DEF Server!Sockets
    <3>6. Server!Places' /\ Server!Sockets'
      BY <1>c, <2>2, <3>2, <3>4, <3>5 DEF Server!Places, Server!Sockets
    <3> QED
      BY <3>1, <3>6 DEF Server!IInv
  <2> QED
    BY <1>6, <2>3, <2>4 DEF Server!Fork, Server!Goto
<1>7. CASE Server!CloseSocket
  <2>1. pc[0] = "close" /\ pc' = [pc EXCEPT ![0] = "accept"] /\ ends' = [ends EXCEPT ![0] = {}] /\ UNCHANGED data
    BY <1>7 DEF Server!CloseSocket, Server!Goto
  <2>2. Server!TypeOK' /\ (data \in [Pipes -> Seq({0})])'
    BY <1>a, <1>b, <2>1, Kinds DEF Server!TypeOK, Server!EndsTyped
  <2>3. Server!Places' /\ Server!Sockets'
    BY <1>a, <1>c, <2>1, Kinds DEF Server!Places, Server!Sockets
  <2> QED
    BY <2>2, <2>3 DEF Server!IInv
<1>8. ASSUME NEW c \in Server!Clients, Server!Connect(c) PROVE Server!IInv'
  <2>1. /\ pc[c] = "none" /\ pc' = [pc EXCEPT ![c] = "line"] /\ UNCHANGED data
        /\ ends' = [ends EXCEPT ![c] = Server!atClient(c), ![Server!Listen] = @ \cup Server!atServer(c)]
    BY <1>8 DEF Server!Connect, Server!Goto
  <2>2. Server!TypeOK' /\ (data \in [Pipes -> Seq({0})])'
    <3>1. pc' \in [Procs -> Where] /\ pc'[c] = "line" /\ \A q \in Procs \ {c} : pc'[q] = pc[q]
      BY <1>a, <2>1, Kinds
    <3>2. /\ ends' \in [Procs -> SUBSET (Pipes \X {"r", "w"})]
          /\ \A q \in Procs \ {c, Server!Listen} : ends'[q] = ends[q]
      BY <1>a, <2>1, Kinds, Apart
    <3>3. pc[Server!Listen] = "listen"
      BY <1>c DEF Server!Places
    <3>4. \A q \in Procs : pc'[q] \in Server!Gone \cup {"none"} => ends'[q] = {}
      BY <1>a, <3>1, <3>2, <3>3
    <3> QED
      BY <1>a, <1>b, <2>1, <3>1, <3>2, <3>4 DEF Server!TypeOK, Server!EndsTyped
  <2>3. pc'[0] = pc[0] /\ pc'[Server!Listen] = pc[Server!Listen] /\ ends'[c] = Server!atClient(c)
    BY <1>a, <2>1, Kinds
  <2>4. \A q \in Procs \ {c, Server!Listen} : ends'[q] = ends[q]
    BY <1>a, <2>1, Kinds
  <2>5. c \in 0 .. Server!Listen /\ Server!Listen \in 0 .. Server!Listen
    BY MCChannelsAssumption DEF Server!Listen, Server!Clients
  <2>6. Server!Places' /\ Server!Sockets'
    BY <1>c, <2>3, <2>4, <2>5, Kinds DEF Server!Places, Server!Sockets
  <2> QED
    BY <2>2, <2>6 DEF Server!IInv
<1>9. ASSUME NEW c \in Server!Clients, Server!Read(c) PROVE Server!IInv'
  <2>1. CASE /\ data[Server!up(c)] # <<>> /\ data' = [data EXCEPT ![Server!up(c)] = Tail(@)]
             /\ pc' = [pc EXCEPT ![Server!child(c)] = "write"] /\ UNCHANGED ends
    <3>1. pc[Server!child(c)] = "read"
      BY <1>9 DEF Server!Read
    <3> QED
      BY <1>1, <1>2, <2>1, <3>1, Kinds DEF Server!IInv, Server!TypeOK, Server!EndsTyped
  <2> QED
    BY <1>4, <1>9, <2>1 DEF Server!Read, Server!Goto
<1>10. ASSUME NEW c \in Server!Clients, Server!WriteBack(c) PROVE Server!IInv'
  <2>1. pc[Server!child(c)] = "write"
    BY <1>10 DEF Server!WriteBack
  <2>2. CASE Server!Write(Server!child(c), Server!down(c), 0, "read")
    BY <1>3, <2>1, <2>2, Kinds
  <2>3. CASE pc' = [pc EXCEPT ![Server!child(c)] = "read"] /\ UNCHANGED <<ends, data>>
    BY <1>1, <1>a, <1>b, <2>1, <2>3 DEF Server!IInv, Server!TypeOK, Server!EndsTyped
  <2> QED
    BY <1>10, <2>2, <2>3 DEF Server!WriteBack, Server!Goto
<1>11. ASSUME NEW c \in Server!Clients, Server!SendLine(c) PROVE Server!IInv'
  <2>1. pc[c] = "line"
    BY <1>11 DEF Server!SendLine
  <2>2. CASE Server!Write(c, Server!up(c), 0, "recv")
    BY <1>3, <2>1, <2>2, Kinds
  <2>3. CASE pc' = [pc EXCEPT ![c] = "recv"] /\ UNCHANGED <<ends, data>>
    BY <1>1, <1>a, <1>b, <2>1, <2>3 DEF Server!IInv, Server!TypeOK, Server!EndsTyped
  <2> QED
    BY <1>11, <2>2, <2>3 DEF Server!SendLine, Server!Goto
<1>12. ASSUME NEW c \in Server!Clients, Server!Recv(c) PROVE Server!IInv'
  <2>1. CASE /\ data' = [data EXCEPT ![Server!down(c)] = <<>>]
             /\ pc' = [pc EXCEPT ![c] = "line"] /\ UNCHANGED ends
    <3>1. pc[c] = "recv"
      BY <1>12 DEF Server!Recv
    <3> QED
      BY <1>1, <1>2, <2>1, <3>1, Kinds DEF Server!IInv, Server!TypeOK, Server!EndsTyped
  <2> QED
    BY <1>4, <1>12, <2>1 DEF Server!Recv, Server!Goto
<1>13. ASSUME NEW c \in Server!Clients, Server!Kill(c) \/ Server!Kill(Server!child(c)) PROVE Server!IInv'
  BY <1>4, <1>13 DEF Server!Kill
<1>14. CASE UNCHANGED pipes
  BY <1>14 DEF pipes, Server!IInv, Server!TypeOK, Server!EndsTyped, Server!Places, Server!Sockets
<1> QED
  BY <1>5, <1>6, <1>7, <1>8, <1>9, <1>10, <1>11, <1>12, <1>13, <1>14 DEF Server!Next, Server!Main

\* Whoever holds a server's end of a connection is the parent or the child that serves
\* it.
LEMMA ServerOwns == Server!IInv => Server!OwnConnection
<1> SUFFICES ASSUME Server!IInv, NEW c \in Server!Clients,
                    NEW p \in Procs \ {Server!Listen}, ends[p] \cap Server!atServer(c) # {}
             PROVE  p \in {0, Server!child(c)} /\ (pc[0] = "accept" => p # 0)
  BY DEF Server!OwnConnection
<1>1. Server!Sockets
  BY DEF Server!IInv
<1>2. p \in 0 .. Server!Listen
  BY <1>1 DEF Server!Sockets
<1>3. p = 0 \/ p \in Server!Clients \/ \E d \in Server!Clients : p = Server!child(d)
  <2>1. p \in 1 .. NumClients \/ p = 0 \/ (p - NumClients \in 1 .. NumClients /\ p = NumClients + (p - NumClients))
    BY <1>2, MCChannelsAssumption DEF Server!Listen
  <2> QED
    BY <2>1 DEF Server!Clients, Server!child
<1>4. p \notin Server!Clients
  BY <1>1, Apart DEF Server!Sockets
<1>5. ASSUME NEW d \in Server!Clients, p = Server!child(d) PROVE p = Server!child(c)
  BY <1>1, <1>5, Apart DEF Server!Sockets
<1> QED
  BY <1>1, <1>3, <1>4, <1>5 DEF Server!Sockets

-----------------------------------------------------------------------------
(***************************************************************************)
(* Shared memory with a doorbell.                                          *)
(***************************************************************************)
\* Where in a fifo s rings: at finitely many places, and at one more or one less after
\* a ring is added at the end or taken from the front.
places(q, s) == {n \in DOMAIN q : q[n] = s}

LEMMA RingsOf == \A s : Pipe!rings(s) = places(bell, s) /\ Pipe!rings(s)' = places(bell', s)
BY DEF Pipe!rings, places

LEMMA RingsCounted == \A S : \A q \in Seq(S) : \A s :
                         IsFiniteSet(places(q, s)) /\ Cardinality(places(q, s)) \in Nat
<1> SUFFICES ASSUME NEW S, NEW q \in Seq(S), NEW s
             PROVE  IsFiniteSet(places(q, s)) /\ Cardinality(places(q, s)) \in Nat
  OBVIOUS
<1>1. Len(q) \in Nat /\ DOMAIN q = 1 .. Len(q)
  OBVIOUS
<1>2. IsFiniteSet(1 .. Len(q)) /\ places(q, s) \in SUBSET (1 .. Len(q))
  BY <1>1, CountTo DEF places
<1>3. IsFiniteSet(places(q, s))
  BY <1>2, FS_Subset
<1> QED
  BY <1>3, FS_CardinalityType

LEMMA RingAdded == \A S : \A q \in Seq(S), m \in S : \A s :
    Cardinality(places(Append(q, m), s)) =
        IF m = s THEN Cardinality(places(q, s)) + 1 ELSE Cardinality(places(q, s))
<1> SUFFICES ASSUME NEW S, NEW q \in Seq(S), NEW m \in S, NEW s
             PROVE  Cardinality(places(Append(q, m), s)) =
                       IF m = s THEN Cardinality(places(q, s)) + 1 ELSE Cardinality(places(q, s))
  OBVIOUS
<1> DEFINE old == places(q, s)
           new == places(Append(q, m), s)
<1> USE DEF places
<1>1. Len(q) \in Nat /\ DOMAIN q = 1 .. Len(q)
  OBVIOUS
<1>2. IsFiniteSet(old)
  BY RingsCounted
<1>4. /\ DOMAIN Append(q, m) = 1 .. Len(q) + 1 /\ Append(q, m)[Len(q) + 1] = m
      /\ \A n \in 1 .. Len(q) : Append(q, m)[n] = q[n]
  BY <1>1
<1>5. new = IF m = s THEN old \cup {Len(q) + 1} ELSE old
  BY <1>1, <1>4
<1>6. Len(q) + 1 \notin old
  BY <1>1
<1> HIDE DEF old, new
<1>7. Cardinality(new) = IF m = s THEN Cardinality(old) + 1 ELSE Cardinality(old)
  BY <1>2, <1>5, <1>6, FS_AddElement
<1> QED
  BY <1>7 DEF old, new

LEMMA RingTaken == \A S : \A q \in Seq(S) : \A s : q # <<>> =>
    Cardinality(places(q, s)) =
        IF q[1] = s THEN Cardinality(places(Tail(q), s)) + 1 ELSE Cardinality(places(Tail(q), s))
<1> SUFFICES ASSUME NEW S, NEW q \in Seq(S), NEW s, q # <<>>
             PROVE  Cardinality(places(q, s)) =
                       IF q[1] = s THEN Cardinality(places(Tail(q), s)) + 1
                                   ELSE Cardinality(places(Tail(q), s))
  OBVIOUS
<1> USE DEF places
<1> DEFINE old == places(q, s)
           new == places(Tail(q), s)
           shifted == {n + 1 : n \in new}
           shift == [n \in new |-> n + 1]
<1>1. /\ Len(q) \in Nat \ {0} /\ DOMAIN q = 1 .. Len(q)
      /\ DOMAIN Tail(q) = 1 .. Len(q) - 1 /\ \A n \in 1 .. Len(q) - 1 : Tail(q)[n] = q[n + 1]
  OBVIOUS
<1>2. IsFiniteSet(new) /\ Cardinality(new) \in Nat
  <2>1. Tail(q) \in Seq(S)
    OBVIOUS
  <2> QED
    BY <2>1, RingsCounted
<1>3. IsFiniteSet(shifted) /\ Cardinality(shifted) = Cardinality(new)
  <2>1. new \subseteq Nat
    BY <1>1
  <2> HIDE DEF new
  <2>2. shift \in [new -> shifted] /\ (\A a, b \in new : shift[a] = shift[b] => a = b)
    BY <2>1
  <2>3. \A t \in shifted : \E n \in new : shift[n] = t
    OBVIOUS
  <2> HIDE DEF shift, shifted
  <2>4. shift \in Bijection(new, shifted)
    BY <2>2, <2>3, Fun_IsBij
  <2>5. ExistsBijection(new, shifted)
    BY <2>4, Fun_ExistsBij
  <2> QED
    BY <1>2, <2>5, FS_Bijection
<1>4. old = IF q[1] = s THEN shifted \cup {1} ELSE shifted
  <2>1. ASSUME NEW n \in old PROVE n \in IF q[1] = s THEN shifted \cup {1} ELSE shifted
    <3>1. CASE n = 1
      BY <3>1
    <3>2. CASE n # 1
      <4>1. n - 1 \in new /\ n = (n - 1) + 1
        BY <1>1, <3>2
      <4> QED
        BY <4>1
    <3> QED
      BY <3>1, <3>2
  <2>2. shifted \subseteq old
    BY <1>1
  <2>3. q[1] = s => 1 \in old
    BY <1>1
  <2> QED
    BY <2>1, <2>2, <2>3
<1>5. 1 \notin shifted
  BY <1>1
<1> HIDE DEF old, new, shifted
<1>6. Cardinality(old) = IF q[1] = s THEN Cardinality(new) + 1 ELSE Cardinality(new)
  BY <1>2, <1>3, <1>4, <1>5, FS_AddElement
<1> QED
  BY <1>6 DEF old, new

LEMMA PipeInit == Pipe!Init => Pipe!IInv
<1> SUFFICES ASSUME Pipe!Init PROVE Pipe!IInv
  OBVIOUS
<1> USE DEF Pipe!Programs, Pipe!Ended
<1>0. Segments \subseteq Nat \ {0} /\ MaxStarts \in Nat /\ MaxLines \in Nat
  BY MCChannelsAssumption
<1>1. \A s : Pipe!Cardinality(Pipe!rings(s)) = 0
  <2>1. \A s : Pipe!rings(s) = {}
    BY DEF Pipe!Init, Pipe!rings
  <2> QED
    BY <2>1, FS_EmptySet, SameCardinality
<1>2. \A s \in Segments : Pipe!unrung(s) = 0 /\ mem[s].line = 0
  BY DEF Pipe!Init, Pipe!SegmentsInit, Pipe!unrung, Pipe!blank
<1>3. Pipe!SegmentsTyped({"shmget", "shmat", "open", "opening", "wait", "print", "test",
                          "remove", "exit", "line", "terminate", "signal"})
  BY <1>0 DEF Pipe!Init, Pipe!SegmentsInit, Pipe!SegmentsTyped, Pipe!blank
<1>4. Pipe!TypeOK
  <2>1. bell = <<>> /\ woken = 0 /\ pc["server"] = "none" /\ fifo \in BOOLEAN /\ deaf \in BOOLEAN
    BY DEF Pipe!Init, Pipe!SegmentsInit
  <2>2. \A s \in Segments : Pipe!Cardinality(Pipe!rings(s)) <= mem[s].line
    BY <1>1, <1>2
  <2>3. bell \in Seq(Segments) /\ woken \in 0 .. MaxLines
    BY <1>0, <2>1
  <2> QED
    BY <1>3, <2>1, <2>2, <2>3 DEF Pipe!TypeOK
<1>5. Pipe!Places /\ Pipe!Made
  BY DEF Pipe!Init, Pipe!SegmentsInit, Pipe!Places, Pipe!Made, Pipe!blank
<1>6. Pipe!RungFor /\ Pipe!Answered
  BY <1>1, <1>2 DEF Pipe!RungFor, Pipe!Answered, Pipe!Init, Pipe!SegmentsInit
<1> QED
  BY <1>4, <1>5, <1>6 DEF Pipe!IInv

LEMMA PipeNext == Pipe!IInv /\ [Pipe!Next]_<<channel, doorbell>> => Pipe!IInv'
<1> SUFFICES ASSUME Pipe!IInv, [Pipe!Next]_<<channel, doorbell>> PROVE Pipe!IInv'
  OBVIOUS
<1> USE DEF Pipe!Programs, Pipe!Ended
<1> DEFINE AtServer == {"shmget", "open", "wait", "print", "test", "remove", "exit"}
           AtClient == {"shmget", "shmat", "open", "opening", "line", "terminate", "signal"}
           Working == {"open", "wait", "print", "test", "remove"}
           waiting(s) == Pipe!Cardinality(Pipe!rings(s))
<1>0. Segments \subseteq Nat \ {0} /\ 0 \notin Segments /\ MaxStarts \in Nat /\ MaxLines \in Nat
  BY MCChannelsAssumption
<1>a. /\ pc \in [{"server", "client"} -> AtServer \cup AtClient \cup Pipe!Ended]
      /\ starts \in [{"server", "client"} -> 0 .. MaxStarts]
      /\ key \in Segments \cup {0}
      /\ mode \in [Segments -> {"none", "all", "nobody"}]
      /\ mem \in [Segments -> [line : 0 .. MaxLines, quit : BOOLEAN, raw : BOOLEAN]]
      /\ at \in [{"server", "client"} -> Segments \cup {0}]
      /\ key # 0 => mode[key] # "none"
  BY DEF Pipe!IInv, Pipe!TypeOK, Pipe!SegmentsTyped
<1>b. /\ fifo \in BOOLEAN /\ deaf \in BOOLEAN /\ bell \in Seq(Segments) /\ woken \in 0 .. MaxLines
      /\ ~Pipe!reading => bell = <<>>
  BY DEF Pipe!IInv, Pipe!TypeOK
<1>c. /\ pc["server"] \in AtServer \cup Pipe!Ended
      /\ pc["client"] \in AtClient \cup Pipe!Ended
      /\ pc["client"] \in {"terminate", "signal"} => at["client"] # 0
  BY DEF Pipe!IInv, Pipe!Places
<1>d. /\ pc["server"] \in Working => at["server"] # 0 /\ mode[at["server"]] = "all"
      /\ \A p \in {"server", "client"} : at[p] # 0 => mode[at[p]] # "none"
      /\ \A s \in Segments : mode[s] = "none" => mem[s] = Pipe!blank
  BY DEF Pipe!IInv, Pipe!Made
\* The numbers that are compared.
<1>n. \A s \in Segments : /\ waiting(s) \in Nat /\ Pipe!unrung(s) \in {0, 1} /\ mem[s].line \in 0 .. MaxLines
                          /\ waiting(s) + Pipe!unrung(s) <= mem[s].line
  <2>1. \A s \in Segments : waiting(s) \in Nat
    BY <1>b, RingsOf, RingsCounted, SameCardinality
  <2> QED
    BY <1>a, <2>1 DEF Pipe!IInv, Pipe!RungFor, Pipe!unrung
<1>w. /\ pc["server"] \in Working => /\ at["server"] \in Segments
                                     /\ woken + waiting(at["server"]) + Pipe!unrung(at["server"]) <= mem[at["server"]].line
      /\ pc["server"] = "shmget" => woken = 0
  BY <1>a, <1>d DEF Pipe!IInv, Pipe!Answered
\* The types follow when no more rings than there are lines.
<1>t. ASSUME Pipe!Places', Pipe!Made', Pipe!RungFor', Pipe!Answered',
             /\ pc' \in [{"server", "client"} -> AtServer \cup AtClient \cup Pipe!Ended]
             /\ starts' \in [{"server", "client"} -> 0 .. MaxStarts]
             /\ key' \in Segments \cup {0}
             /\ mode' \in [Segments -> {"none", "all", "nobody"}]
             /\ mem' \in [Segments -> [line : 0 .. MaxLines, quit : BOOLEAN, raw : BOOLEAN]]
             /\ at' \in [{"server", "client"} -> Segments \cup {0}]
             /\ key' # 0 => mode'[key'] # "none",
             /\ fifo' \in BOOLEAN /\ deaf' \in BOOLEAN /\ bell' \in Seq(Segments) /\ woken' \in 0 .. MaxLines
             /\ Pipe!reading' \/ bell' = <<>>
      PROVE  Pipe!IInv'
  <2>1. Pipe!SegmentsTyped({"shmget", "shmat", "open", "opening", "wait", "print", "test",
                            "remove", "exit", "line", "terminate", "signal"})'
    BY <1>t DEF Pipe!SegmentsTyped
  <2>2. \A s \in Segments : (waiting(s) <= mem[s].line)'
    <3>1. \A s \in Segments : waiting(s)' \in Nat
      BY <1>t, RingsOf, RingsCounted, SameCardinality
    <3>2. \A s \in Segments : Pipe!unrung(s)' \in {0, 1} /\ mem'[s].line \in 0 .. MaxLines
      BY <1>t DEF Pipe!unrung
    <3> QED
      BY <1>0, <1>t, <3>1, <3>2 DEF Pipe!RungFor
  <2>3. (pc["server"] \in {"wait", "print", "test"} => at["server"] # 0 /\ mode[at["server"]] = "all")'
    BY <1>t DEF Pipe!Made
  <2> QED
    BY <1>t, <2>1, <2>2, <2>3 DEF Pipe!IInv, Pipe!TypeOK
\* A step that rings no bell, stores no line, and answers none.
<1>q. ASSUME \A s \in Segments : mem'[s].line = mem[s].line /\ Pipe!unrung(s)' \in {0, Pipe!unrung(s)},
             bell' \in {bell, <<>>},
             pc'["server"] \in Working => pc["server"] \in Working /\ at'["server"] = at["server"] /\ woken' = woken,
             pc'["server"] = "shmget" => woken' = 0
      PROVE  Pipe!RungFor' /\ Pipe!Answered'
  <2>1. \A s \in Segments : waiting(s)' \in Nat /\ waiting(s)' <= waiting(s)
    <3>1. CASE bell' = bell
      <4>1. \A s \in Segments : Pipe!rings(s)' = Pipe!rings(s)
        BY <3>1 DEF Pipe!rings
      <4> QED
        BY <1>n, <4>1, SameCardinality
    <3>2. CASE bell' = <<>>
      <4>1. \A s \in Segments : Pipe!rings(s)' = {}
        BY <3>2 DEF Pipe!rings
      <4> QED
        BY <1>n, <4>1, FS_EmptySet, SameCardinality
    <3> QED
      BY <1>q, <3>1, <3>2
  <2>2. \A s \in Segments : waiting(s)' + Pipe!unrung(s)' <= waiting(s) + Pipe!unrung(s)
    BY <1>n, <1>q, <2>1
  <2>3. Pipe!RungFor'
    BY <1>0, <1>n, <1>q, <2>1, <2>2 DEF Pipe!RungFor
  <2>4. Pipe!Answered'
    <3> HIDE DEF waiting
    <3>1. ASSUME pc'["server"] \in Working, NEW s \in Segments, s = at["server"]
          PROVE  woken' + waiting(s)' + Pipe!unrung(s)' <= mem'[s].line
      <4>1. woken + waiting(s) + Pipe!unrung(s) <= mem[s].line /\ woken' = woken /\ woken \in Nat
        BY <1>0, <1>b, <1>w, <1>q, <3>1
      <4>2. /\ waiting(s) \in Nat /\ Pipe!unrung(s) \in {0, 1} /\ mem[s].line \in Nat
            /\ waiting(s)' \in Nat /\ Pipe!unrung(s)' \in {0, 1}
            /\ waiting(s)' + Pipe!unrung(s)' <= waiting(s) + Pipe!unrung(s)
            /\ mem'[s].line = mem[s].line
        BY <1>0, <1>n, <1>q, <2>1, <2>2, <3>1
      <4> QED
        BY <4>1, <4>2
    <3>2. pc'["server"] \in Working => at["server"] \in Segments /\ at'["server"] = at["server"]
      BY <1>w, <1>q
    <3> QED
      BY <1>q, <3>1, <3>2 DEF Pipe!Answered, waiting
  <2> QED
    BY <2>3, <2>4
<1> HIDE DEF waiting
\* A program goes on, or ends, and nothing else happens to the segments.
<1>1. CASE Pipe!StartServer
  <2>1. /\ pc["server"] \in Pipe!Ended /\ starts["server"] < MaxStarts
        /\ starts' = [starts EXCEPT !["server"] = @ + 1] /\ at' = [at EXCEPT !["server"] = 0]
        /\ pc' = [pc EXCEPT !["server"] = IF fifo THEN "aborted" ELSE "shmget"]
        /\ fifo' = TRUE /\ woken' = 0 /\ UNCHANGED <<mem, key, mode, bell, deaf>>
    BY <1>1 DEF Pipe!StartServer, Pipe!Start, Pipe!Goto
  <2>2. /\ pc'["server"] \in {"aborted", "shmget"} /\ pc'["client"] = pc["client"]
        /\ at'["server"] = 0 /\ at'["client"] = at["client"]
    BY <1>a, <2>1
  <2>3. \A s \in Segments : Pipe!unrung(s)' = Pipe!unrung(s)
    BY <2>2 DEF Pipe!unrung
  <2>4. Pipe!RungFor' /\ Pipe!Answered'
    BY <1>n, <1>q, <2>1, <2>2, <2>3
  <2>5. Pipe!Places' /\ Pipe!Made'
    BY <1>c, <1>d, <2>1, <2>2 DEF Pipe!Places, Pipe!Made
  <2>6. starts' \in [{"server", "client"} -> 0 .. MaxStarts]
    BY <1>0, <1>a, <2>1
  <2>7. Pipe!reading' \/ bell' = <<>>
    BY <1>b, <2>1, <2>2 DEF Pipe!reading
  <2> QED
    BY <1>0, <1>a, <1>b, <1>t, <2>1, <2>4, <2>5, <2>6, <2>7
<1>2. CASE Pipe!CreateSegment
  <2>1. CASE key # 0 /\ Pipe!unlink /\ UNCHANGED Pipe!kernel
    <3>1. /\ pc["server"] = "shmget" /\ pc' = [pc EXCEPT !["server"] = "left"] /\ fifo' = FALSE
          /\ deaf' = (deaf \/ Pipe!writing \/ pc["client"] = "opening")
          /\ UNCHANGED <<starts, mem, bell, woken, key, mode, at>>
      BY <1>2, <2>1 DEF Pipe!CreateSegment, Pipe!unlink, Pipe!Goto, Pipe!kernel
    <3>2. pc'["server"] = "left" /\ pc'["client"] = pc["client"]
      BY <1>a, <3>1
    <3>3. \A s \in Segments : Pipe!unrung(s)' = Pipe!unrung(s)
      BY <3>1, <3>2 DEF Pipe!unrung
    <3>4. Pipe!RungFor' /\ Pipe!Answered'
      BY <1>n, <1>q, <3>1, <3>2, <3>3
    <3>5. Pipe!Places' /\ Pipe!Made'
      BY <1>c, <1>d, <3>1, <3>2 DEF Pipe!Places, Pipe!Made
    <3>6. deaf' \in BOOLEAN
      BY <1>b, <3>1 DEF Pipe!writing
    <3>7. bell' = <<>>
      BY <1>b, <3>1 DEF Pipe!reading
    <3> QED
      BY <1>a, <1>b, <1>t, <3>1, <3>4, <3>5, <3>6, <3>7
  <2>2. CASE Pipe!Make("server", "all") /\ Pipe!Goto("server", "open") /\ UNCHANGED <<fifo, deaf>>
    <3>1. PICK s \in Segments :
             /\ key = 0 /\ mode[s] = "none"
             /\ key' = s /\ mode' = [mode EXCEPT ![s] = "all"] /\ at' = [at EXCEPT !["server"] = s]
      BY <2>2 DEF Pipe!Make
    <3>2. /\ pc["server"] = "shmget" /\ pc' = [pc EXCEPT !["server"] = "open"]
          /\ UNCHANGED <<starts, mem, bell, woken, fifo, deaf>>
      BY <1>2, <2>2 DEF Pipe!CreateSegment, Pipe!Goto
    <3>3. /\ pc'["server"] = "open" /\ pc'["client"] = pc["client"] /\ s # 0
          /\ at'["server"] = s /\ at'["client"] = at["client"] /\ mode'[s] = "all"
      BY <1>0, <1>a, <3>1, <3>2
    <3>4. \A r \in Segments : Pipe!unrung(r)' = Pipe!unrung(r) /\ Pipe!rings(r)' = Pipe!rings(r)
      BY <3>2, <3>3 DEF Pipe!unrung, Pipe!rings
    <3>5. Pipe!RungFor'
      BY <1>n, <3>2, <3>4 DEF Pipe!RungFor, waiting
    <3>6. Pipe!Answered'
      <4>1. woken = 0
        BY <1>w, <3>2
      <4>2. waiting(s) + Pipe!unrung(s) <= mem[s].line /\ waiting(s) \in Nat /\ Pipe!unrung(s) \in {0, 1}
        BY <1>n
      <4>3. woken' + Pipe!Cardinality(Pipe!rings(s)') + Pipe!unrung(s)' <= mem'[s].line
        BY <3>2, <3>4, <4>1, <4>2 DEF waiting
      <4> QED
        BY <3>3, <4>3 DEF Pipe!Answered
    <3>7. Pipe!Places' /\ Pipe!Made'
      BY <1>a, <1>c, <1>d, <3>1, <3>2, <3>3 DEF Pipe!Places, Pipe!Made
    <3>8. bell' = <<>>
      BY <1>b, <3>2 DEF Pipe!reading
    <3> QED
      BY <1>a, <1>b, <1>t, <3>1, <3>2, <3>3, <3>5, <3>6, <3>7, <3>8
  <2> QED
    BY <1>2, <2>1, <2>2 DEF Pipe!CreateSegment
\* The server goes on from where it waits or works.
<1>3. CASE Pipe!OpenRead
  <2>1. /\ pc["server"] = "open" /\ UNCHANGED <<starts, mem, key, mode, at, fifo, bell, deaf, woken>>
        /\ pc' = [pc EXCEPT !["server"] = "wait",
                            !["client"] = IF @ = "opening" /\ ~deaf THEN "line" ELSE @]
    BY <1>3 DEF Pipe!OpenRead, Pipe!kernel, Pipe!doorbell
  <2>2. /\ pc'["server"] = "wait"
        /\ pc'["client"] = pc["client"] \/ (pc["client"] = "opening" /\ pc'["client"] = "line")
    BY <1>a, <2>1
  <2>3. \A s \in Segments : Pipe!unrung(s)' = Pipe!unrung(s)
    BY <2>1, <2>2 DEF Pipe!unrung
  <2>4. Pipe!RungFor' /\ Pipe!Answered'
    BY <1>n, <1>q, <2>1, <2>2, <2>3
  <2>5. Pipe!Places' /\ Pipe!Made'
    BY <1>c, <1>d, <2>1, <2>2 DEF Pipe!Places, Pipe!Made
  <2>6. pc' \in [{"server", "client"} -> AtServer \cup AtClient \cup Pipe!Ended]
    BY <1>a, <2>1
  <2>7. Pipe!reading'
    BY <2>2 DEF Pipe!reading
  <2> QED
    BY <1>a, <1>b, <1>t, <2>1, <2>4, <2>5, <2>6, <2>7
<1>4. CASE Pipe!Wait
  <2>1. CASE bell = <<>> /\ Pipe!Goto("server", "aborted") /\ UNCHANGED <<bell, woken>>
    <3>1. /\ bell = <<>> /\ UNCHANGED <<starts, mem, key, mode, at, fifo, bell, deaf, woken>>
          /\ pc' = [pc EXCEPT !["server"] = "aborted"]
      BY <1>4, <2>1 DEF Pipe!Wait, Pipe!kernel, Pipe!Goto
    <3>2. pc'["server"] = "aborted" /\ pc'["client"] = pc["client"]
      BY <1>a, <3>1
    <3>3. \A s \in Segments : Pipe!unrung(s)' = Pipe!unrung(s)
      BY <3>1, <3>2 DEF Pipe!unrung
    <3>4. Pipe!RungFor' /\ Pipe!Answered'
      BY <1>n, <1>q, <3>1, <3>2, <3>3
    <3>5. Pipe!Places' /\ Pipe!Made'
      BY <1>c, <1>d, <3>1, <3>2 DEF Pipe!Places, Pipe!Made
    <3> QED
      BY <1>a, <1>b, <1>t, <3>1, <3>4, <3>5
  \* A ring is answered: one less waits.
  <2>2. CASE /\ bell # <<>> /\ Pipe!Goto("server", "print") /\ bell' = Tail(bell)
             /\ woken' = IF bell[1] = at["server"] THEN woken + 1 ELSE woken
    <3>1. /\ pc["server"] = "wait" /\ UNCHANGED <<starts, mem, key, mode, at, fifo, deaf>>
          /\ pc' = [pc EXCEPT !["server"] = "print"]
      BY <1>4, <2>2 DEF Pipe!Wait, Pipe!kernel, Pipe!Goto
    <3>2. pc'["server"] = "print" /\ pc'["client"] = pc["client"] /\ bell' \in Seq(Segments)
      BY <1>a, <1>b, <2>2, <3>1
    <3>3. \A s \in Segments : /\ Pipe!unrung(s)' = Pipe!unrung(s) /\ waiting(s)' \in Nat
                              /\ waiting(s) = IF bell[1] = s THEN waiting(s)' + 1 ELSE waiting(s)'
      <4>1. \A s \in Segments : Pipe!unrung(s)' = Pipe!unrung(s)
        BY <3>1, <3>2 DEF Pipe!unrung
      <4>2. \A s \in Segments : /\ waiting(s)' \in Nat
                                /\ waiting(s) = IF bell[1] = s THEN waiting(s)' + 1 ELSE waiting(s)'
        <5>1. \A s : /\ waiting(s) = Cardinality(places(bell, s))
                     /\ waiting(s)' = Cardinality(places(Tail(bell), s))
          BY <2>2, RingsOf, SameCardinality DEF waiting
        <5>2. Tail(bell) \in Seq(Segments)
          BY <1>b, <2>2
        <5> QED
          BY <1>b, <2>2, <5>1, <5>2, RingTaken, RingsCounted
      <4> QED
        BY <4>1, <4>2
    <3>4. Pipe!RungFor'
      <4>1. \A s \in Segments : waiting(s)' + Pipe!unrung(s)' <= mem'[s].line
        <5>1. ASSUME NEW s \in Segments PROVE waiting(s)' + Pipe!unrung(s)' <= mem'[s].line
          <6>1. waiting(s)' <= waiting(s) /\ waiting(s)' \in Nat /\ Pipe!unrung(s)' = Pipe!unrung(s)
            BY <3>3
          <6> QED
            BY <1>0, <1>n, <3>1, <6>1
        <5> QED
          BY <5>1
      <4> QED
        BY <4>1 DEF Pipe!RungFor, waiting
    <3>5. PICK s \in Segments : s = at["server"] /\ woken + waiting(s) + Pipe!unrung(s) <= mem[s].line
      BY <1>w, <3>1
    <3>6. woken' \in 0 .. MaxLines /\ woken' + waiting(s)' + Pipe!unrung(s)' <= mem'[s].line
      <4>1. /\ waiting(s)' \in Nat /\ Pipe!unrung(s)' = Pipe!unrung(s) /\ Pipe!unrung(s) \in {0, 1}
            /\ waiting(s) = IF bell[1] = s THEN waiting(s)' + 1 ELSE waiting(s)'
            /\ mem'[s].line = mem[s].line /\ mem[s].line \in 0 .. MaxLines
        BY <1>n, <3>1, <3>3
      <4>2. woken' = IF bell[1] = s THEN woken + 1 ELSE woken
        BY <2>2, <3>5
      <4> QED
        BY <1>0, <1>b, <3>5, <4>1, <4>2
    <3>9. Pipe!Answered'
      BY <3>1, <3>2, <3>5, <3>6 DEF Pipe!Answered, waiting
    <3>7. Pipe!Places' /\ Pipe!Made'
      BY <1>c, <1>d, <3>1, <3>2 DEF Pipe!Places, Pipe!Made
    <3>8. Pipe!reading'
      BY <3>2 DEF Pipe!reading
    <3> QED
      BY <1>a, <1>b, <1>t, <3>1, <3>2, <3>4, <3>6, <3>7, <3>8, <3>9
  <2> QED
    BY <1>4, <2>1, <2>2 DEF Pipe!Wait
<1>5. CASE Pipe!PrintLine \/ Pipe!TestQuit
  <2>1. PICK to \in {"wait", "test", "remove"} :
           /\ pc["server"] \in {"print", "test"} /\ pc' = [pc EXCEPT !["server"] = to]
           /\ UNCHANGED <<starts, mem, key, mode, at, fifo, bell, deaf, woken>>
    BY <1>5 DEF Pipe!PrintLine, Pipe!TestQuit, Pipe!kernel, Pipe!doorbell, Pipe!Goto
  <2>2. pc'["server"] = to /\ pc'["client"] = pc["client"]
    BY <1>a, <2>1
  <2>3. \A s \in Segments : Pipe!unrung(s)' = Pipe!unrung(s)
    BY <2>1, <2>2 DEF Pipe!unrung
  <2>4. Pipe!RungFor' /\ Pipe!Answered'
    BY <1>n, <1>q, <2>1, <2>2, <2>3
  <2>5. Pipe!Places' /\ Pipe!Made'
    BY <1>c, <1>d, <2>1, <2>2 DEF Pipe!Places, Pipe!Made
  <2>6. Pipe!reading'
    BY <2>2 DEF Pipe!reading
  <2> QED
    BY <1>a, <1>b, <1>t, <2>1, <2>4, <2>5, <2>6
<1>6. CASE Pipe!RemoveSegment
  <2>1. /\ pc["server"] = "remove" /\ pc' = [pc EXCEPT !["server"] = "exit"]
        /\ key' = (IF key = at["server"] THEN 0 ELSE key) /\ at' = [at EXCEPT !["server"] = 0]
        /\ UNCHANGED <<starts, mem, mode, fifo, bell, deaf, woken>>
    BY <1>6 DEF Pipe!RemoveSegment, Pipe!Remove, Pipe!doorbell, Pipe!Goto
  <2>2. /\ pc'["server"] = "exit" /\ pc'["client"] = pc["client"]
        /\ at'["server"] = 0 /\ at'["client"] = at["client"]
    BY <1>a, <2>1
  <2>3. \A s \in Segments : Pipe!unrung(s)' = Pipe!unrung(s)
    BY <2>2 DEF Pipe!unrung
  <2>4. Pipe!RungFor' /\ Pipe!Answered'
    BY <1>n, <1>q, <2>1, <2>2, <2>3
  <2>5. Pipe!Places' /\ Pipe!Made'
    BY <1>c, <1>d, <2>1, <2>2 DEF Pipe!Places, Pipe!Made
  <2>6. Pipe!reading'
    BY <2>2 DEF Pipe!reading
  <2> QED
    BY <1>a, <1>b, <1>t, <2>1, <2>4, <2>5, <2>6
<1>7. CASE Pipe!ExitServer
  <2>1. /\ pc["server"] = "exit" /\ pc' = [pc EXCEPT !["server"] = "left"] /\ fifo' = FALSE /\ bell' = <<>>
        /\ deaf' = (deaf \/ Pipe!writing \/ pc["client"] = "opening")
        /\ UNCHANGED <<starts, mem, key, mode, at, woken>>
    BY <1>7 DEF Pipe!ExitServer, Pipe!unlink, Pipe!kernel, Pipe!Goto
  <2>2. pc'["server"] = "left" /\ pc'["client"] = pc["client"]
    BY <1>a, <2>1
  <2>3. \A s \in Segments : Pipe!unrung(s)' = Pipe!unrung(s)
    BY <2>1, <2>2 DEF Pipe!unrung
  <2>4. Pipe!RungFor' /\ Pipe!Answered'
    BY <1>n, <1>q, <2>1, <2>2, <2>3
  <2>5. Pipe!Places' /\ Pipe!Made'
    BY <1>c, <1>d, <2>1, <2>2 DEF Pipe!Places, Pipe!Made
  <2>6. deaf' \in BOOLEAN /\ bell' \in Seq(Segments)
    BY <1>b, <2>1 DEF Pipe!writing
  <2> QED
    BY <1>a, <1>b, <1>t, <2>1, <2>4, <2>5, <2>6
\* The client.  The server stays where it is.
<1>s. ASSUME pc' = [pc EXCEPT !["client"] = pc'["client"]]
      PROVE  pc'["server"] = pc["server"] /\ (Pipe!reading' <=> Pipe!reading)
  <2>1. pc'["server"] = pc["server"]
    BY <1>a, <1>s
  <2> QED
    BY <2>1 DEF Pipe!reading
<1>8. CASE Pipe!StartClient
  <2>1. /\ pc' = [pc EXCEPT !["client"] = "shmget"] /\ starts["client"] < MaxStarts
        /\ starts' = [starts EXCEPT !["client"] = @ + 1] /\ at' = [at EXCEPT !["client"] = 0]
        /\ deaf' = FALSE /\ UNCHANGED <<mem, key, mode, fifo, bell, woken>>
    BY <1>8 DEF Pipe!StartClient, Pipe!Start, Pipe!Goto
  <2>2. /\ pc'["client"] = "shmget" /\ at'["server"] = at["server"] /\ at'["client"] = 0
    BY <1>a, <2>1
  <2>3. pc'["server"] = pc["server"] /\ (Pipe!reading' \/ bell' = <<>>)
    BY <1>b, <1>s, <2>1, <2>2
  <2>4. \A s \in Segments : Pipe!unrung(s)' = 0
    BY <2>2 DEF Pipe!unrung
  <2>5. Pipe!RungFor' /\ Pipe!Answered'
    BY <1>w, <1>q, <2>1, <2>2, <2>3, <2>4
  <2>6. Pipe!Places' /\ Pipe!Made'
    BY <1>c, <1>d, <2>1, <2>2, <2>3 DEF Pipe!Places, Pipe!Made
  <2>7. starts' \in [{"server", "client"} -> 0 .. MaxStarts]
    BY <1>0, <1>a, <2>1
  <2> QED
    BY <1>a, <1>b, <1>t, <2>1, <2>3, <2>5, <2>6, <2>7
<1>9. CASE Pipe!GetSegment
  <2>1. /\ pc["client"] = "shmget" /\ pc' = [pc EXCEPT !["client"] = "shmat"]
        /\ UNCHANGED <<starts, mem, fifo, bell, deaf, woken>>
    BY <1>9 DEF Pipe!GetSegment, Pipe!doorbell, Pipe!Goto
  <2>2. PICK s \in Segments :
           /\ key' = s /\ at' = [at EXCEPT !["client"] = s]
           /\ \/ mode[s] = "none" /\ mode' = [mode EXCEPT ![s] = "nobody"]
              \/ key = s /\ UNCHANGED mode
    BY <1>a, <1>9 DEF Pipe!GetSegment, Pipe!Make, Pipe!Find
  <2>3. /\ pc'["client"] = "shmat" /\ at'["server"] = at["server"] /\ at'["client"] = s
        /\ mode'[s] # "none" /\ mode' \in [Segments -> {"none", "all", "nobody"}]
        /\ \A r \in Segments : r # s => mode'[r] = mode[r]
        /\ mode[s] = "all" => mode'[s] = "all"
    <3>1. pc'["client"] = "shmat" /\ at'["server"] = at["server"] /\ at'["client"] = s
      BY <1>a, <2>1, <2>2
    <3>2. CASE mode[s] = "none" /\ mode' = [mode EXCEPT ![s] = "nobody"]
      BY <1>a, <3>1, <3>2
    <3>3. CASE key = s /\ UNCHANGED mode
      <4>1. mode[s] # "none"
        BY <1>0, <1>a, <3>3
      <4> QED
        BY <1>a, <3>1, <3>3, <4>1
    <3> QED
      BY <2>2, <3>2, <3>3
  <2>4. pc'["server"] = pc["server"] /\ (Pipe!reading' \/ bell' = <<>>)
    BY <1>b, <1>s, <2>1, <2>3
  <2>5. \A r \in Segments : Pipe!unrung(r)' = 0
    BY <2>3 DEF Pipe!unrung
  <2>6. Pipe!RungFor' /\ Pipe!Answered'
    BY <1>w, <1>q, <2>1, <2>3, <2>4, <2>5
  <2>7. Pipe!Places'
    BY <1>c, <2>3, <2>4 DEF Pipe!Places
  <2>8. Pipe!Made'
    BY <1>a, <1>d, <2>1, <2>3, <2>4 DEF Pipe!Made
  <2> QED
    BY <1>0, <1>a, <1>b, <1>t, <2>1, <2>2, <2>3, <2>4, <2>6, <2>7, <2>8
<1>10. CASE Pipe!AttachSegment
  <2>1. /\ pc["client"] = "shmat" /\ pc' = [pc EXCEPT !["client"] = "open"]
        /\ at' = [at EXCEPT !["client"] = IF @ = key /\ mode[@] = "all" THEN @ ELSE 0]
        /\ UNCHANGED <<starts, mem, key, mode, fifo, bell, deaf, woken>>
    BY <1>10 DEF Pipe!AttachSegment, Pipe!Attach, Pipe!doorbell, Pipe!Goto
  <2>2. /\ pc'["client"] = "open" /\ at'["server"] = at["server"] /\ at'["client"] \in {at["client"], 0}
    BY <1>a, <2>1
  <2>3. pc'["server"] = pc["server"] /\ (Pipe!reading' \/ bell' = <<>>)
    BY <1>b, <1>s, <2>1, <2>2
  <2>4. \A s \in Segments : Pipe!unrung(s)' = 0
    BY <2>2 DEF Pipe!unrung
  <2>5. Pipe!RungFor' /\ Pipe!Answered'
    BY <1>w, <1>q, <2>1, <2>2, <2>3, <2>4
  <2>6. Pipe!Places' /\ Pipe!Made'
    BY <1>c, <1>d, <2>1, <2>2, <2>3 DEF Pipe!Places, Pipe!Made
  <2> QED
    BY <1>a, <1>b, <1>t, <2>1, <2>3, <2>5, <2>6
<1>11. CASE Pipe!OpenWrite
  <2>1. /\ pc["client"] = "open" /\ UNCHANGED <<starts, mem, key, mode, at, fifo, bell, deaf, woken>>
        /\ pc' = [pc EXCEPT !["client"] = CASE ~fifo -> "aborted" [] fifo /\ Pipe!reading -> "line"
                                            [] OTHER -> "opening"]
    BY <1>11 DEF Pipe!OpenWrite, Pipe!kernel, Pipe!doorbell, Pipe!Goto
  <2>2. pc'["client"] \in {"aborted", "line", "opening"} /\ pc' = [pc EXCEPT !["client"] = pc'["client"]]
    BY <1>a, <1>b, <2>1 DEF Pipe!reading
  <2>3. pc'["server"] = pc["server"] /\ (Pipe!reading' \/ bell' = <<>>)
    BY <1>b, <1>s, <2>1, <2>2
  <2>4. \A s \in Segments : Pipe!unrung(s)' = 0
    BY <2>2 DEF Pipe!unrung
  <2>5. Pipe!RungFor' /\ Pipe!Answered'
    BY <1>w, <1>q, <2>1, <2>2, <2>3, <2>4
  <2>6. Pipe!Places' /\ Pipe!Made'
    BY <1>c, <1>d, <2>1, <2>2, <2>3 DEF Pipe!Places, Pipe!Made
  <2> QED
    BY <1>a, <1>b, <1>t, <2>1, <2>2, <2>3, <2>5, <2>6
\* A line more is stored, and one more to be rung for.
<1>12. CASE Pipe!TypeLine
  <2>1. /\ pc["client"] = "line" /\ pc' = [pc EXCEPT !["client"] = "terminate"]
        /\ UNCHANGED <<starts, key, mode, at, fifo, bell, deaf, woken>>
    BY <1>12 DEF Pipe!TypeLine, Pipe!kernel, Pipe!doorbell, Pipe!Goto
  <2>2. PICK s \in Segments, quit \in BOOLEAN :
           /\ s = at["client"] /\ mem[s].line < MaxLines
           /\ mem' = [mem EXCEPT ![s] = [line |-> @.line + 1, quit |-> quit, raw |-> TRUE]]
    BY <1>a, <1>12 DEF Pipe!TypeLine, Pipe!Store
  <2>3. /\ mem'[s].line = mem[s].line + 1
        /\ \A r \in Segments : r # s => mem'[r] = mem[r]
        /\ mem' \in [Segments -> [line : 0 .. MaxLines, quit : BOOLEAN, raw : BOOLEAN]]
    BY <1>0, <1>a, <2>2
  <2>4. pc'["client"] = "terminate" /\ pc'["server"] = pc["server"] /\ (Pipe!reading' \/ bell' = <<>>)
    BY <1>a, <1>b, <1>s, <2>1
  <2>5. \A r \in Segments : /\ Pipe!unrung(r) = 0 /\ Pipe!rings(r)' = Pipe!rings(r)
                            /\ Pipe!unrung(r)' = IF r = s THEN 1 ELSE 0
    BY <2>1, <2>2, <2>4 DEF Pipe!unrung, Pipe!rings
  <2>6. ASSUME NEW r \in Segments
        PROVE  /\ waiting(r)' = waiting(r) /\ waiting(r) \in Nat
               /\ mem[r].line \in Nat /\ mem'[r].line \in Nat
               /\ waiting(r)' + Pipe!unrung(r)' <= mem'[r].line
               /\ mem'[r].line - Pipe!unrung(r)' = mem[r].line - Pipe!unrung(r)
    <3>1. waiting(r)' = waiting(r)
      BY <2>5 DEF waiting
    <3> QED
      BY <1>0, <1>n, <2>2, <2>3, <2>5, <3>1
  <2>7. Pipe!RungFor'
    BY <2>6 DEF Pipe!RungFor, waiting
  <2>8. Pipe!Answered'
    <3>1. ASSUME pc["server"] \in Working, NEW r \in Segments, r = at["server"]
          PROVE  woken' + waiting(r)' + Pipe!unrung(r)' <= mem'[r].line
      <4>1. woken + waiting(r) + Pipe!unrung(r) <= mem[r].line /\ woken \in Nat /\ woken' = woken
        BY <1>0, <1>b, <1>w, <2>1, <3>1
      <4>2. Pipe!unrung(r) \in Nat /\ Pipe!unrung(r)' \in Nat
        BY <2>5
      <4> QED
        BY <2>6, <4>1, <4>2
    <3> QED
      BY <1>w, <2>1, <2>4, <3>1 DEF Pipe!Answered, waiting
  <2>9. Pipe!Places' /\ Pipe!Made'
    BY <1>0, <1>a, <1>c, <1>d, <2>1, <2>2, <2>3, <2>4 DEF Pipe!Places, Pipe!Made
  <2> QED
    BY <1>a, <1>b, <1>t, <2>1, <2>3, <2>4, <2>7, <2>8, <2>9
<1>13. CASE Pipe!EndLine
  <2>1. /\ pc["client"] = "terminate" /\ pc' = [pc EXCEPT !["client"] = "signal"]
        /\ UNCHANGED <<starts, key, mode, at, fifo, bell, deaf, woken>>
    BY <1>13 DEF Pipe!EndLine, Pipe!kernel, Pipe!doorbell, Pipe!Goto
  <2>2. PICK s \in Segments : s = at["client"]
    BY <1>a, <1>c, <2>1
  <2>3. /\ mem' \in [Segments -> [line : 0 .. MaxLines, quit : BOOLEAN, raw : BOOLEAN]]
        /\ \A r \in Segments : mem'[r].line = mem[r].line /\ (r # s => mem'[r] = mem[r])
    <3>1. mem' = [mem EXCEPT ![s] = [mem[s] EXCEPT !.raw = FALSE]]
      BY <1>a, <1>13, <2>2 DEF Pipe!EndLine, Pipe!Terminate
    <3>2. /\ [mem[s] EXCEPT !.raw = FALSE] \in [line : 0 .. MaxLines, quit : BOOLEAN, raw : BOOLEAN]
          /\ [mem[s] EXCEPT !.raw = FALSE].line = mem[s].line
      BY <1>a, <2>2
    <3> QED
      BY <1>a, <3>1, <3>2
  <2>4. pc'["client"] = "signal" /\ pc'["server"] = pc["server"] /\ (Pipe!reading' \/ bell' = <<>>)
    BY <1>a, <1>b, <1>s, <2>1
  <2>5. \A r \in Segments : Pipe!unrung(r)' = Pipe!unrung(r)
    BY <2>1, <2>4 DEF Pipe!unrung
  <2>6. Pipe!RungFor' /\ Pipe!Answered'
    BY <1>w, <1>q, <2>1, <2>3, <2>4, <2>5
  <2>7. Pipe!Places' /\ Pipe!Made'
    BY <1>0, <1>a, <1>c, <1>d, <2>1, <2>2, <2>3, <2>4 DEF Pipe!Places, Pipe!Made
  <2> QED
    BY <1>a, <1>b, <1>t, <2>1, <2>3, <2>4, <2>6, <2>7
\* A ring for what has not been rung for, or the end of the client.
<1>14. CASE Pipe!Signal
  <2>0. pc["client"] = "signal" /\ UNCHANGED <<starts, mem, key, mode, at, fifo, deaf, woken>>
    BY <1>14 DEF Pipe!Signal, Pipe!kernel
  <2>1. CASE Pipe!Goto("client", "killed") /\ UNCHANGED bell
    <3>1. pc' = [pc EXCEPT !["client"] = "killed"]
      BY <2>1 DEF Pipe!Goto
    <3>2. pc'["client"] = "killed" /\ pc'["server"] = pc["server"] /\ (Pipe!reading' \/ bell' = <<>>)
      BY <1>a, <1>b, <1>s, <2>1, <3>1
    <3>3. \A s \in Segments : Pipe!unrung(s)' = 0
      BY <3>2 DEF Pipe!unrung
    <3>4. Pipe!RungFor' /\ Pipe!Answered'
      BY <1>w, <1>q, <2>0, <2>1, <3>2, <3>3
    <3>5. Pipe!Places' /\ Pipe!Made'
      BY <1>c, <1>d, <2>0, <3>2 DEF Pipe!Places, Pipe!Made
    <3> QED
      BY <1>a, <1>b, <1>t, <2>0, <2>1, <3>1, <3>2, <3>4, <3>5
  <2>2. CASE /\ Pipe!reading /\ bell' = Append(bell, at["client"])
             /\ Pipe!Goto("client", IF Pipe!saysQuit(at["client"]) THEN "left" ELSE "line")
    <3>1. PICK to \in {"left", "line"} : pc' = [pc EXCEPT !["client"] = to]
      BY <2>2 DEF Pipe!Goto
    <3>2. pc'["client"] = to /\ pc'["server"] = pc["server"] /\ Pipe!reading'
      BY <1>a, <1>s, <2>2, <3>1
    <3>3. PICK s \in Segments : s = at["client"]
      BY <1>a, <1>c, <2>0
    <3>4. \A r \in Segments : Pipe!unrung(r)' = 0 /\ Pipe!unrung(r) = IF r = s THEN 1 ELSE 0
      BY <2>0, <3>2, <3>3 DEF Pipe!unrung
    <3>5. \A r \in Segments : waiting(r)' = IF r = s THEN waiting(r) + 1 ELSE waiting(r)
      BY <1>b, <2>2, <3>3, RingAdded, RingsOf, SameCardinality DEF waiting
    <3>6. \A r \in Segments : /\ waiting(r)' + Pipe!unrung(r)' = waiting(r) + Pipe!unrung(r)
                              /\ waiting(r)' \in Nat /\ waiting(r) \in Nat
      BY <1>n, <3>4, <3>5
    <3>7. Pipe!RungFor'
      <4>1. \A r \in Segments : waiting(r)' + Pipe!unrung(r)' <= mem'[r].line
        BY <1>n, <2>0, <3>6
      <4> QED
        BY <4>1 DEF Pipe!RungFor, waiting
    <3>8. Pipe!Answered'
      <4>1. ASSUME pc["server"] \in Working, NEW r \in Segments, r = at["server"]
            PROVE  woken' + waiting(r)' + Pipe!unrung(r)' <= mem'[r].line
        <5>1. woken + waiting(r) + Pipe!unrung(r) <= mem[r].line /\ woken \in Nat /\ woken' = woken
          BY <1>0, <1>b, <1>w, <2>0, <4>1
        <5>2. Pipe!unrung(r) \in Nat /\ Pipe!unrung(r)' \in Nat
          BY <3>4
        <5> QED
          BY <2>0, <3>6, <5>1, <5>2
      <4> QED
        BY <1>w, <2>0, <3>2, <4>1 DEF Pipe!Answered, waiting
    <3>9. Pipe!Places' /\ Pipe!Made'
      BY <1>c, <1>d, <2>0, <3>2 DEF Pipe!Places, Pipe!Made
    <3>10. bell' \in Seq(Segments)
      BY <1>b, <2>2, <3>3
    <3> QED
      BY <1>a, <1>b, <1>t, <2>0, <3>1, <3>2, <3>7, <3>8, <3>9, <3>10
  <2> QED
    BY <1>14, <2>1, <2>2 DEF Pipe!Signal
<1>15. ASSUME NEW p \in Pipe!Programs, Pipe!Kill(p) PROVE Pipe!IInv'
  <2>1. /\ pc' = [pc EXCEPT ![p] = "killed"] /\ bell' = IF p = "server" \/ ~Pipe!reading THEN <<>> ELSE bell
        /\ UNCHANGED <<starts, mem, key, mode, at, fifo, deaf, woken>>
    BY <1>15 DEF Pipe!Kill, Pipe!kernel, Pipe!Goto
  <2>2. /\ pc'["server"] \in {pc["server"], "killed"} /\ pc'["client"] \in {pc["client"], "killed"}
        /\ pc'["server"] = pc["server"] \/ p = "server"
    BY <1>a, <2>1
  <2>3. \A s \in Segments : Pipe!unrung(s)' \in {0, Pipe!unrung(s)}
    BY <2>1, <2>2 DEF Pipe!unrung
  <2>4. Pipe!RungFor' /\ Pipe!Answered'
    BY <1>w, <1>q, <2>1, <2>2, <2>3
  <2>5. Pipe!Places' /\ Pipe!Made'
    BY <1>c, <1>d, <2>1, <2>2 DEF Pipe!Places, Pipe!Made
  <2>6. Pipe!reading' \/ bell' = <<>>
    BY <1>b, <2>1, <2>2 DEF Pipe!reading
  <2>7. pc' \in [{"server", "client"} -> AtServer \cup AtClient \cup Pipe!Ended] /\ bell' \in Seq(Segments)
    BY <1>a, <1>b, <2>1
  <2> QED
    BY <1>a, <1>b, <1>t, <2>1, <2>4, <2>5, <2>6, <2>7
<1>16. CASE UNCHANGED <<channel, doorbell>>
  <2>1. UNCHANGED <<pc, starts, key, mode, mem, at, fifo, bell, deaf, woken>>
    BY <1>16 DEF channel, segments, doorbell
  <2>2. \A s \in Segments : Pipe!unrung(s)' = Pipe!unrung(s)
    BY <2>1 DEF Pipe!unrung
  <2>3. Pipe!RungFor' /\ Pipe!Answered'
    BY <1>w, <1>q, <2>1, <2>2
  <2>4. Pipe!Places' /\ Pipe!Made' /\ (Pipe!reading' \/ bell' = <<>>)
    BY <1>b, <1>c, <1>d, <2>1 DEF Pipe!Places, Pipe!Made, Pipe!reading
  <2> QED
    BY <1>a, <1>b, <1>t, <2>1, <2>3, <2>4
<1> QED
  BY <1>1, <1>2, <1>3, <1>4, <1>5, <1>6, <1>7, <1>8, <1>9, <1>10, <1>11, <1>12, <1>13, <1>14, <1>15, <1>16
     DEF Pipe!Next, Pipe!ServerStep, Pipe!ClientStep

LEMMA PipeFresh == Pipe!IInv => Pipe!NeverStale
<1> SUFFICES ASSUME Pipe!IInv, pc["server"] = "print" PROVE mem[at["server"]].line >= woken
  BY DEF Pipe!NeverStale
<1>1. PICK s \in Segments : s = at["server"] /\ mem[s].line \in Nat
  BY DEF Pipe!IInv, Pipe!TypeOK, Pipe!SegmentsTyped, Pipe!Made, Pipe!Programs
<1>2. Pipe!Cardinality(Pipe!rings(s)) \in Nat /\ Pipe!unrung(s) \in {0, 1} /\ woken \in Nat
  BY MCChannelsAssumption, RingsCounted, RingsOf, SameCardinality
     DEF Pipe!IInv, Pipe!TypeOK, Pipe!unrung
<1>3. woken + Pipe!Cardinality(Pipe!rings(s)) + Pipe!unrung(s) <= mem[s].line
  BY <1>1 DEF Pipe!IInv, Pipe!Answered
<1> QED
  BY <1>1, <1>2, <1>3

-----------------------------------------------------------------------------
(***************************************************************************)
(* Shared memory without a doorbell.                                       *)
(***************************************************************************)
LEMMA PollInit == Pipe!Init => Poll!TypeOK
BY MCChannelsAssumption
   DEF Pipe!Init, Pipe!SegmentsInit, Pipe!Programs, Pipe!blank,
       Poll!TypeOK, Poll!SegmentsTyped, Poll!Programs, Poll!Ended

LEMMA PollNext == Poll!TypeOK /\ [Poll!Next]_channel => Poll!TypeOK'
<1> SUFFICES ASSUME Poll!TypeOK, [Poll!Next]_channel PROVE Poll!TypeOK'
  OBVIOUS
<1> USE DEF Poll!Programs, Poll!Ended
<1> DEFINE Where == {"shmget", "shmat", "print", "test", "remove", "line", "terminate"} \cup Poll!Ended
           Line == [line : 0 .. MaxLines, quit : BOOLEAN, raw : BOOLEAN]
<1>0. Segments \subseteq Nat \ {0} /\ MaxStarts \in Nat /\ MaxLines \in Nat
  BY MCChannelsAssumption
<1>a. /\ pc \in [{"server", "client"} -> Where]
      /\ starts \in [{"server", "client"} -> 0 .. MaxStarts]
      /\ key \in Segments \cup {0}
      /\ mode \in [Segments -> {"none", "all", "nobody"}]
      /\ mem \in [Segments -> Line]
      /\ at \in [{"server", "client"} -> Segments \cup {0}]
      /\ key # 0 => mode[key] # "none"
  BY DEF Poll!TypeOK, Poll!SegmentsTyped
<1>t. ASSUME pc' \in [{"server", "client"} -> Where],
             starts' \in [{"server", "client"} -> 0 .. MaxStarts],
             key' \in Segments \cup {0},
             mode' \in [Segments -> {"none", "all", "nobody"}],
             mem' \in [Segments -> Line],
             at' \in [{"server", "client"} -> Segments \cup {0}],
             key' # 0 => mode'[key'] # "none"
      PROVE  Poll!TypeOK'
  BY <1>t DEF Poll!TypeOK, Poll!SegmentsTyped
\* One program goes on.
<1>g. ASSUME NEW p \in {"server", "client"}, NEW to \in Where, Poll!Goto(p, to)
      PROVE  pc' \in [{"server", "client"} -> Where]
  BY <1>a, <1>g DEF Poll!Goto
<1>1. ASSUME NEW p \in {"server", "client"}, Poll!Start(p, "shmget"), UNCHANGED <<mem, key, mode>>
      PROVE  Poll!TypeOK'
  <2>1. starts' \in [{"server", "client"} -> 0 .. MaxStarts] /\ at' \in [{"server", "client"} -> Segments \cup {0}]
    BY <1>0, <1>1, <1>a DEF Poll!Start
  <2> QED
    BY <1>1, <1>a, <1>g, <1>t, <2>1 DEF Poll!Start
\* It makes a segment, or finds one.
<1>2. ASSUME NEW p \in {"server", "client"}, NEW m \in {"all", "nobody"}, NEW to \in Where,
             Poll!Make(p, m) \/ Poll!Find(p), Poll!Goto(p, to), UNCHANGED <<starts, mem>>
      PROVE  Poll!TypeOK'
  <2>1. CASE Poll!Make(p, m)
    <3>1. PICK s \in Segments : key' = s /\ mode' = [mode EXCEPT ![s] = m] /\ at' = [at EXCEPT ![p] = s]
      BY <2>1 DEF Poll!Make
    <3>2. /\ mode' \in [Segments -> {"none", "all", "nobody"}] /\ mode'[s] = m
          /\ at' \in [{"server", "client"} -> Segments \cup {0}]
      BY <1>a, <3>1
    <3> QED
      BY <1>2, <1>a, <1>g, <1>t, <3>1, <3>2
  <2>2. CASE Poll!Find(p)
    <3>1. at' \in [{"server", "client"} -> Segments \cup {0}] /\ UNCHANGED <<key, mode>>
      BY <1>a, <2>2 DEF Poll!Find
    <3> QED
      BY <1>2, <1>a, <1>g, <1>t, <3>1
  <2> QED
    BY <1>2, <2>1, <2>2
\* Nothing happens to the segments.
<1>3. ASSUME NEW p \in {"server", "client"}, NEW to \in Where,
             Poll!Goto(p, to), UNCHANGED <<starts, mem, key, mode, at>>
      PROVE  Poll!TypeOK'
  BY <1>3, <1>a, <1>g, <1>t
<1>4. CASE Poll!CreateSegment
  BY <1>2, <1>3, <1>4 DEF Poll!CreateSegment, Poll!kernel
<1>5. CASE Poll!PrintLine \/ Poll!TestQuit \/ Poll!LeaveOnQuit \/ \E p \in Poll!Programs : Poll!Kill(p)
  <2>1. CASE Poll!PrintLine
    BY <1>3, <2>1 DEF Poll!PrintLine, Poll!kernel
  <2>2. CASE Poll!TestQuit
    BY <1>3, <2>2 DEF Poll!TestQuit, Poll!kernel
  <2>3. CASE Poll!LeaveOnQuit
    BY <1>3, <2>3 DEF Poll!LeaveOnQuit, Poll!kernel
  <2>4. ASSUME NEW p \in Poll!Programs, Poll!Kill(p) PROVE Poll!TypeOK'
    BY <1>3, <2>4 DEF Poll!Kill, Poll!kernel
  <2> QED
    BY <1>5, <2>1, <2>2, <2>3, <2>4
<1>6. CASE Poll!RemoveSegment
  <2>1. /\ key' \in {0, key} /\ at' = [at EXCEPT !["server"] = 0] /\ UNCHANGED <<mode, mem, starts>>
        /\ Poll!Goto("server", "left")
    BY <1>6 DEF Poll!RemoveSegment, Poll!Remove
  <2>2. at' \in [{"server", "client"} -> Segments \cup {0}]
    BY <1>a, <2>1
  <2> QED
    BY <1>a, <1>g, <1>t, <2>1, <2>2
<1>7. CASE Poll!GetSegment
  BY <1>2, <1>7 DEF Poll!GetSegment
<1>8. CASE Poll!AttachSegment
  <2>1. at' \in [{"server", "client"} -> Segments \cup {0}]
    BY <1>8, <1>a DEF Poll!AttachSegment, Poll!Attach
  <2> QED
    BY <1>8, <1>a, <1>g, <1>t, <2>1 DEF Poll!AttachSegment, Poll!Attach
<1>9. CASE Poll!TypeLine
  <2>1. PICK quit \in BOOLEAN :
           /\ at["client"] # 0 /\ mem[at["client"]].line < MaxLines
           /\ mem' = [mem EXCEPT ![at["client"]] = [line |-> @.line + 1, quit |-> quit, raw |-> TRUE]]
    BY <1>9 DEF Poll!TypeLine, Poll!Store
  <2>2. PICK s \in Segments : s = at["client"]
    BY <1>a, <2>1
  <2>3. [line |-> mem[s].line + 1, quit |-> quit, raw |-> TRUE] \in Line
    BY <1>0, <1>a, <2>1, <2>2
  <2>4. mem' \in [Segments -> Line]
    BY <1>a, <2>1, <2>2, <2>3
  <2> QED
    BY <1>9, <1>a, <1>g, <1>t, <2>4 DEF Poll!TypeLine, Poll!kernel
<1>10. CASE Poll!EndLine
  <2>1. mem' = [mem EXCEPT ![at["client"]] = [mem[at["client"]] EXCEPT !.raw = FALSE]]
    BY <1>10, <1>a DEF Poll!EndLine, Poll!Terminate
  <2>2. \A s \in Segments : [mem[s] EXCEPT !.raw = FALSE] \in Line
    BY <1>a
  <2>3. mem' \in [Segments -> Line]
    BY <1>a, <2>1, <2>2
  <2> QED
    BY <1>10, <1>a, <1>g, <1>t, <2>3 DEF Poll!EndLine, Poll!kernel
<1>11. CASE UNCHANGED channel
  BY <1>11, <1>a, <1>t DEF channel, segments
<1> QED
  BY <1>1, <1>4, <1>5, <1>6, <1>7, <1>8, <1>9, <1>10, <1>11
     DEF Poll!Next, Poll!ServerStep, Poll!ClientStep, Poll!StartServer, Poll!StartClient

-----------------------------------------------------------------------------
(***************************************************************************)
(* All of them.                                                            *)
(***************************************************************************)
LEMMA InitInv == Init => IInv
BY PoolInit, DemoInit, FifoInit, ServerInit, PipeInit, PollInit DEF Init, IInv

LEMMA NextInv == IInv /\ [Next]_vars => IInv'
<1> SUFFICES ASSUME IInv, [Next]_vars PROVE IInv'
  OBVIOUS
<1>1. prog' = prog
  BY DEF Next, vars
\* What its program does not touch stands still.
<1>2. CASE prog = "pool"
  <2>1. [Pool!Next]_pipes
    BY <1>2 DEF Next, vars
  <2> QED
    BY <1>1, <1>2, <2>1, PoolNext DEF IInv
<1>3. CASE prog = "demo"
  <2>1. [Demo!Next]_<<pipes, count, seen>>
    BY <1>3 DEF Next, vars, rest
  <2> QED
    BY <1>1, <1>3, <2>1, DemoNext DEF IInv
<1>4. CASE prog = "fifo"
  <2>1. [Fifo!Next]_<<pipes, file, count, shown>>
    BY <1>4 DEF Next, vars, rest
  <2> QED
    BY <1>1, <1>4, <2>1, FifoNext DEF IInv
<1>5. CASE prog = "server"
  <2>1. [Server!Next]_pipes
    BY <1>5 DEF Next, vars
  <2> QED
    BY <1>1, <1>5, <2>1, ServerNext DEF IInv
<1>6. CASE prog = "shm_pipe"
  <2>1. [Pipe!Next]_<<channel, doorbell>>
    BY <1>6 DEF Next, vars, channel, pipes
  <2> QED
    BY <1>1, <1>6, <2>1, PipeNext DEF IInv
<1>7. CASE prog = "shm"
  <2>1. [Poll!Next]_channel
    BY <1>7 DEF Next, vars, channel, pipes
  <2> QED
    BY <1>1, <1>7, <2>1, PollNext DEF IInv
<1> QED
  BY <1>1, <1>2, <1>3, <1>4, <1>5, <1>6, <1>7 DEF IInv

LEMMA Invariance == Spec => []IInv
BY InitInv, NextInv, PTL DEF Spec

\* Each program keeps its types, whatever the kernel lets happen first.
THEOREM TypeCorrect == Spec => []TypeOK
<1>1. IInv => TypeOK
  BY DEF IInv, TypeOK, Pool!IInv, Demo!IInv, Fifo!IInv, Server!IInv, Pipe!IInv
<1> QED
  BY <1>1, Invariance, PTL

\* An end of file means what the programs take it for: a child of the pool leaves only
\* when the parent and all later children are gone, the demo's child has shown all that
\* was written when both have left, and nobody keeps a connection that another serves.
THEOREM EndsAreOwned == Spec => []EndsOwned
<1>1. IInv => EndsOwned
  BY DemoShown, ServerOwns DEF IInv, EndsOwned, Pool!IInv
<1> QED
  BY <1>1, Invariance, PTL

\* The n-th ring of the doorbell for a segment (shmServer.cc:49-55) is answered with line n
\* of it or a later one; rings of a client that has an earlier segment do not count.
THEOREM RingsAreFresh == Spec => []NeverStale
<1>1. IInv => NeverStale
  BY PipeFresh DEF IInv, NeverStale
<1> QED
  BY <1>1, Invariance, PTL
=============================================================================
