----------------------------- MODULE DemosProofs -----------------------------
(***************************************************************************)
(* Theorems about the small programs of MCDemos, for every number of       *)
(* tickets, numbers, messages, signals, looks, ticks, callers and stores.  *)
(***************************************************************************)
EXTENDS MCDemos, FiniteSetTheorems, SequenceTheorems, TLAPS

(***************************************************************************)
(* A parent and its child.                                                 *)
(***************************************************************************)
LEMMA Two == 1 .. 2 = {1, 2}
OBVIOUS

LEMMA WaitingInit == W!Init => W!IInv
BY MCDemosAssumption
   DEF W!Init, W!IInv, W!TypeOK, W!Places, W!Reaped, W!Codes, W!Statuses, W!Tasks

LEMMA WaitingNext == W!IInv /\ [W!Next]_<<pc, code, forWaiting>> => W!IInv'
<1> SUFFICES ASSUME W!IInv, [W!Next]_<<pc, code, forWaiting>> PROVE W!IInv'
  OBVIOUS
<1> DEFINE Where == {"start", "run", "wait", "tasks", "left", "none", "zombie", "reaped"}
<1>0. Ticks \in Nat
  BY MCDemosAssumption
\* The parent and the child, and apart from them what they count and run.
<1>a. /\ pc \in [{0, 1} -> Where]
      /\ pc[0] \in {"start", "run", "wait", "tasks", "left"} /\ pc[1] \in {"none", "run", "zombie", "reaped"}
      /\ code \in W!Codes /\ status \in W!Statuses /\ told \in W!Statuses \cup {"error"}
      /\ pc[1] \in {"zombie", "reaped"} <=> status # "none"
      /\ W!Places /\ W!Reaped
  BY DEF W!IInv, W!TypeOK, W!Places
<1>b. cnt \in 0 .. Ticks /\ handlers \in {<<>>, W!Tasks} /\ ran \in [{1, 2} -> {0, 1, 2}] /\ ran[2] = ran[1]
  BY DEF W!IInv, W!TypeOK, W!Places
<1>t. ASSUME /\ pc' \in [{0, 1} -> Where]
             /\ pc'[0] \in {"start", "run", "wait", "tasks", "left"} /\ pc'[1] \in {"none", "run", "zombie", "reaped"}
             /\ code' \in W!Codes /\ status' \in W!Statuses /\ told' \in W!Statuses \cup {"error"}
             /\ pc'[1] \in {"zombie", "reaped"} <=> status' # "none"
             /\ W!Places' /\ W!Reaped',
             cnt' \in 0 .. Ticks, handlers' \in {<<>>, W!Tasks},
             ran' \in [{1, 2} -> {0, 1, 2}], ran'[2] = ran'[1]
      PROVE  W!IInv'
  BY <1>t DEF W!IInv, W!TypeOK
<1> USE DEF W!Codes, W!Statuses, W!Places, W!Reaped
<1>1. CASE W!Fork
  BY <1>1, <1>a, <1>b, <1>t DEF W!Fork, W!after
\* The child has ended.
<1>2. ASSUME NEW how \in W!Statuses \ {"none"}, pc[1] = "run", W!Die(how), UNCHANGED <<code, cnt, told, handlers, ran>>
      PROVE  W!IInv'
  <2>1. /\ status' = how /\ pc'[0] = pc[0] /\ pc' \in [{0, 1} -> Where]
        /\ pc'[1] = IF code = "ignore" THEN "reaped" ELSE "zombie"
    <3>1. PICK w \in {"reaped", "zombie"} : /\ w = IF code = "ignore" THEN "reaped" ELSE "zombie"
                                            /\ pc' = [pc EXCEPT ![1] = w] /\ status' = how
      BY <1>2 DEF W!Die
    <3>2. pc \in [{0, 1} -> Where] /\ w \in Where
      BY <1>a
    <3> QED
      BY <3>1, <3>2
  <2>2. pc[0] \notin {"start", "left"}
    BY <1>2, <1>a
  <2> QED
    BY <1>2, <1>a, <1>b, <1>t, <2>1, <2>2
<1>3. CASE W!Count
  <2>1. cnt' \in 0 .. Ticks
    BY <1>0, <1>3, <1>b DEF W!Count
  <2> QED
    BY <1>3, <1>a, <1>b, <1>t, <2>1 DEF W!Count
<1>4. CASE W!ChildExit \/ W!Kill
  <2>1. W!ExitCode \in W!Statuses \ {"none"}
    BY <1>a DEF W!ExitCode
  <2> QED
    BY <1>2, <1>4, <2>1 DEF W!ChildExit, W!Kill
<1>5. CASE W!Poll \/ W!BlockingWait
  BY <1>5, <1>a, <1>b, <1>t DEF W!Poll, W!BlockingWait
<1>6. CASE W!RunTasks
  <2>1. handlers' = W!Tasks
    <3>1. <<>> \o W!Tasks = W!Tasks /\ W!Tasks # <<>>
      BY DEF W!Tasks
    <3> QED
      BY <1>6, <1>b, <3>1 DEF W!RunTasks
  <2>2. ran' = [k \in {1, 2} |-> IF ran[k] < 2 THEN ran[k] + 1 ELSE 2]
    <3>1. Len(W!Tasks) = 2
      BY DEF W!Tasks
    <3> QED
      BY <1>6, <2>1, <3>1, Two DEF W!RunTasks
  <2>3. ran' \in [{1, 2} -> {0, 1, 2}] /\ ran'[2] = ran'[1]
    BY <1>b, <2>2
  <2> QED
    BY <1>6, <1>a, <1>b, <1>t, <2>1, <2>3 DEF W!RunTasks
<1>7. CASE UNCHANGED <<pc, code, forWaiting>>
  BY <1>7, <1>a, <1>b, <1>t DEF forWaiting
<1> QED
  BY <1>1, <1>3, <1>4, <1>5, <1>6, <1>7 DEF W!Next, W!Parent, W!Child

-----------------------------------------------------------------------------
(***************************************************************************)
(* Blocked and pending signals.                                            *)
(***************************************************************************)
LEMMA SignalsInit == S!Init => S!IInv
<1> SUFFICES ASSUME S!Init PROVE S!IInv
  OBVIOUS
<1>1. pc \in [{0} -> {"start"}] /\ pc[0] = "start"
  BY DEF S!Init
<1>2. S!TypeOK
  <2>1. 0 \in 0 .. Looks /\ 1 \in 1 .. Last + 1 /\ 0 \in 0 .. 2
    BY MCDemosAssumption
  <2> QED
    BY <1>1, <2>1 DEF S!Init, S!TypeOK
<1>3. S!Places /\ S!Masked /\ S!Paid /\ S!HeldBack
  BY <1>1, MCDemosAssumption DEF S!Init, S!Places, S!Masked, S!Paid, S!HeldBack
<1> QED
  BY <1>2, <1>3 DEF S!IInv

LEMMA SignalsNext == S!IInv /\ [S!Next]_<<pc, code, forSignals>> => S!IInv'
<1> SUFFICES ASSUME S!IInv, [S!Next]_<<pc, code, forSignals>> PROVE S!IInv'
  OBVIOUS
<1> USE DEF S!IInv, S!TypeOK, S!Places, S!Masked, S!Paid, S!HeldBack, S!KILL, S!Mask, S!upTo2, S!Goto
<1>0. Sigs \subseteq Nat \ {0} /\ Looks \in Nat \ {0} /\ Last \in Nat \ {0}
  BY MCDemosAssumption
<1>1. ASSUME NEW s \in Sigs, S!Send(s) PROVE S!IInv'
  BY <1>0, <1>1 DEF S!Send
<1>2. CASE S!Handle
  <2>0. /\ pc[0] # "killed" /\ 2 \in pending /\ 2 \notin blocked /\ 2 \in Sigs /\ caught
        /\ pending' = pending \ {2} /\ UNCHANGED <<code, caught, next, by, sent>>
    BY <1>2 DEF S!Handle
  <2>1. pc[0] # "handler"
    BY <2>0
  <2>2. CASE /\ code = "mask" /\ pc' = [pc EXCEPT ![0] = "handler"]
             /\ blocked' = Sigs \cap S!Mask /\ count' = 0 /\ handled' = handled
    <3>1. pc'[0] = "handler" /\ pc' \in [{0} -> {"start", "block", "look", "handler", "sleep", "killed"}]
      BY <2>2
    <3>2. blocked' \subseteq Sigs \ {S!KILL}
      BY <2>2
    <3> QED
      BY <1>0, <2>0, <2>1, <2>2, <3>1, <3>2
  <2>3. CASE code = "unblock" /\ handled' = S!upTo2(handled) /\ UNCHANGED <<pc, blocked, count>>
    BY <1>0, <2>0, <2>1, <2>3
  <2> QED
    BY <1>2, <2>2, <2>3 DEF S!Handle
<1>3. ASSUME NEW s \in Sigs, S!Terminate(s) PROVE S!IInv'
  BY <1>0, <1>3 DEF S!Terminate
<1>4. CASE S!Catch
  BY <1>0, <1>4 DEF S!Catch
<1>5. CASE S!Block
  BY <1>0, <1>5 DEF S!Block
<1>6. CASE S!blockSig
  BY <1>0, <1>6 DEF S!blockSig
<1>7. CASE S!Look
  <2>1. /\ pc[0] = "look" /\ code = "unblock" /\ count' \in 0 .. Looks /\ blocked' \in {{}, blocked}
        /\ UNCHANGED <<pc, code, pending, caught, next, by, handled, sent>>
    BY <1>0, <1>7 DEF S!Look
  <2> QED
    BY <1>0, <2>1
<1>8. CASE S!LookInHandler
  <2>0. pc[0] = "handler" /\ code = "mask" /\ UNCHANGED <<code, pending, caught, next, by, sent>>
    BY <1>8 DEF S!LookInHandler
  <2>1. CASE count' < Looks /\ UNCHANGED <<pc, blocked, handled>>
    <3>1. count' \in 0 .. Looks
      BY <1>0, <1>8, <2>1 DEF S!LookInHandler
    <3> QED
      BY <1>0, <2>0, <2>1, <3>1
  <2>2. CASE /\ count' = Looks /\ pc' = [pc EXCEPT ![0] = "sleep"]
             /\ blocked' = {} /\ handled' = S!upTo2(handled)
    <3>1. pc'[0] = "sleep" /\ pc' \in [{0} -> {"start", "block", "look", "handler", "sleep", "killed"}]
      BY <2>2
    <3>2. count' \in 0 .. Looks
      BY <1>0, <2>2
    <3> QED
      BY <1>0, <2>0, <2>2, <3>1, <3>2
  <2> QED
    BY <1>8, <2>1, <2>2 DEF S!LookInHandler
<1>9. CASE UNCHANGED <<pc, code, forSignals>>
  BY <1>9 DEF forSignals
<1> QED
  BY <1>1, <1>2, <1>3, <1>4, <1>5, <1>6, <1>7, <1>8, <1>9 DEF S!Next, S!Kernel, S!Program

-----------------------------------------------------------------------------
(***************************************************************************)
(* Numbers in turn.                                                        *)
(***************************************************************************)
LEMMA Parity == \A k \in Nat : k % 2 \in {0, 1} /\ ((k + 1) % 2 = 1 <=> k % 2 # 1)
OBVIOUS

LEMMA PrintersInit == P!Init => P!IInv
<1> SUFFICES ASSUME P!Init PROVE P!IInv
  OBVIOUS
<1>1. pc \in [{0, 1, 2} -> {"create", "none"}] /\ pc[0] = "create" /\ pc[1] = "none" /\ pc[2] = "none"
  BY DEF P!Init, P!Both
<1>2. n \in Nat /\ n \in 0 .. MaxN /\ i = 0 /\ shown = 0 /\ mtx = 0 /\ ready = TRUE /\ spinning \in BOOLEAN
  BY MCDemosAssumption DEF P!Init
<1>3. P!TypeOK
  BY <1>1, <1>2 DEF P!TypeOK, P!Both
<1>4. P!Places /\ P!Tested /\ P!Counted
  BY <1>1, <1>2 DEF P!Places, P!Tested, P!Counted, P!Both
<1>5. P!Turns
  BY <1>1, <1>2 DEF P!Turns, P!turn, P!belongs, P!odd, P!Both
<1> QED
  BY <1>3, <1>4, <1>5 DEF P!IInv

LEMMA PrintersNext == P!IInv /\ [P!Next]_<<pc, mtx, forPrinters>> => P!IInv'
<1> SUFFICES ASSUME P!IInv, [P!Next]_<<pc, mtx, forPrinters>> PROVE P!IInv'
  OBVIOUS
<1> USE DEF P!Both
<1> DEFINE Where == {"create", "join", "none", "test", "spin", "lock", "waiting", "woken",
                     "print", "add", "pass", "unlock", "left"}
<1>a. /\ pc \in [{0, 1, 2} -> Where] /\ spinning \in BOOLEAN /\ ready \in BOOLEAN
      /\ n \in 0 .. MaxN /\ n \in Nat /\ MaxN \in Nat /\ i \in 0 .. n + 1 /\ i \in Nat /\ mtx \in {0, 1, 2}
      /\ shown = IF pc[1] = "add" \/ pc[2] = "add" THEN i + 1 ELSE i
  BY MCDemosAssumption DEF P!IInv, P!TypeOK, P!Places, P!Counted
<1>b. /\ pc[0] \in {"create", "join", "left"}
      /\ \A t \in {1, 2} : /\ pc[t] \notin {"create", "join"}
                           /\ spinning => pc[t] \notin {"lock", "waiting", "woken", "pass", "unlock"}
                           /\ ~spinning => pc[t] # "spin"
                           /\ pc[t] \in {"print", "add", "pass", "unlock"} /\ ~spinning => mtx = t
                           /\ pc[0] = "left" => pc[t] = "left"
  BY DEF P!IInv, P!Places
<1>d. /\ \A s \in {1, 2} : pc[s] \in {"print", "add"} => P!belongs(s)
      /\ ~spinning => IF pc[1] = "pass" \/ pc[2] = "pass"
                      THEN \A s \in {1, 2} : pc[s] = "pass" => ~P!belongs(s) /\ P!turn(s)
                      ELSE \A s \in {1, 2} : P!turn(s) <=> P!belongs(s)
      /\ \A s \in {1, 2} : /\ pc[s] \in {"spin", "lock", "waiting", "woken", "print", "add"} =>
                                i <= n /\ (~P!belongs(s) => i < n)
                           /\ pc[s] = "left" => i >= n
  BY DEF P!IInv, P!Turns, P!Tested
<1>p. P!belongs(1) <=> ~P!belongs(2)
  BY DEF P!belongs, P!odd
\* The same of the next state, in the form in which the steps show it.
<1>t. ASSUME pc' \in [{0, 1, 2} -> Where], UNCHANGED <<spinning, n>>, ready' \in BOOLEAN, mtx' \in {0, 1, 2},
             i' \in 0 .. n + 1, shown' = IF pc'[1] = "add" \/ pc'[2] = "add" THEN i' + 1 ELSE i',
             pc'[0] \in {"create", "join", "left"},
             \A s \in {1, 2} : /\ pc'[s] \notin {"create", "join"}
                               /\ spinning => pc'[s] \notin {"lock", "waiting", "woken", "pass", "unlock"}
                               /\ ~spinning => pc'[s] # "spin"
                               /\ pc'[s] \in {"print", "add", "pass", "unlock"} /\ ~spinning => mtx' = s
                               /\ pc'[0] = "left" => pc'[s] = "left",
             \A s \in {1, 2} : pc'[s] \in {"print", "add"} => P!belongs(s)',
             ~spinning => IF pc'[1] = "pass" \/ pc'[2] = "pass"
                          THEN \A s \in {1, 2} : pc'[s] = "pass" => ~P!belongs(s)' /\ P!turn(s)'
                          ELSE \A s \in {1, 2} : P!turn(s)' <=> P!belongs(s)',
             \A s \in {1, 2} : /\ pc'[s] \in {"spin", "lock", "waiting", "woken", "print", "add"} =>
                                    i' <= n /\ (~P!belongs(s)' => i' < n)
                               /\ pc'[s] = "left" => i' >= n
      PROVE  P!IInv'
  <2>1. P!Places' /\ P!Counted'
    BY <1>t DEF P!Places, P!Counted
  <2>2. P!Turns'
    BY <1>t DEF P!Turns
  <2>3. P!Tested'
    BY <1>t DEF P!Tested
  <2>4. P!TypeOK'
    BY <1>t, <1>a DEF P!TypeOK
  <2> QED
    BY <2>1, <2>2, <2>3, <2>4 DEF P!IInv
\* A thread moves, and neither the number nor the flag changes.
<1>u. ASSUME UNCHANGED <<spinning, n, i, ready>>
      PROVE  \A s \in {1, 2} : (P!belongs(s)' <=> P!belongs(s)) /\ (P!turn(s)' <=> P!turn(s))
  BY <1>u DEF P!belongs, P!turn, P!odd
<1>m. ASSUME NEW t \in {1, 2}, NEW to \in Where, pc' = [pc EXCEPT ![t] = to]
      PROVE  pc' \in [{0, 1, 2} -> Where] /\ pc'[t] = to /\ \A s \in {0, 1, 2} \ {t} : pc'[s] = pc[s]
  BY <1>m, <1>a
<1> HIDE DEF Where
<1>1. ASSUME NEW t \in {1, 2}, P!Create(t) PROVE P!IInv'
  <2>1. /\ pc[0] = "create" /\ pc[t] = "none" /\ UNCHANGED <<spinning, n, i, mtx, ready, shown>>
        /\ pc' \in [{0, 1, 2} -> Where] /\ pc'[0] \in {"create", "join"} /\ pc'[t] = "test"
        /\ \A s \in {1, 2} \ {t} : pc'[s] = pc[s]
    BY <1>1, <1>a DEF P!Create, Where
  <2> QED
    BY <1>a, <1>b, <1>d, <1>u, <1>t, <2>1
<1>2. CASE P!Join
  <2>1. /\ \A s \in {1, 2} : pc[s] = "left" /\ pc'[s] = "left"
        /\ pc'[0] = "left" /\ pc' \in [{0, 1, 2} -> Where] /\ UNCHANGED <<spinning, n, i, mtx, ready, shown>>
    BY <1>2, <1>a DEF P!Join, P!Goto, Where
  <2> QED
    BY <1>a, <1>b, <1>d, <1>u, <1>t, <2>1
<1>3. ASSUME NEW t \in {1, 2}, P!Test(t) PROVE P!IInv'
  <2>1. PICK to \in {"left", "spin", "lock"} :
           /\ pc[t] = "test" /\ pc' = [pc EXCEPT ![t] = to] /\ UNCHANGED <<spinning, n, i, mtx, ready, shown>>
           /\ to = "left" <=> i >= n
           /\ to = "spin" => spinning
           /\ to = "lock" => ~spinning
    <3>1. CASE i >= n
      <4>1. ~(i < n)
        BY <1>a, <3>1
      <4> QED
        BY <1>3, <3>1, <4>1 DEF P!Test, P!Goto
    <3>2. CASE i < n /\ spinning
      <4>1. ~(i >= n)
        BY <1>a, <3>2
      <4> QED
        BY <1>3, <3>2, <4>1 DEF P!Test, P!Goto
    <3>3. CASE i < n /\ ~spinning
      <4>1. ~(i >= n)
        BY <1>a, <3>3
      <4> QED
        BY <1>3, <3>3, <4>1 DEF P!Test, P!Goto
    <3> QED
      BY <1>a, <3>1, <3>2, <3>3
  <2>2. to \in Where
    BY DEF Where
  <2> QED
    BY <1>a, <1>b, <1>d, <1>u, <1>t, <1>m, <2>1, <2>2
<1>4. ASSUME NEW t \in {1, 2}, P!Spin(t) PROVE P!IInv'
  <2>1. /\ pc[t] = "spin" /\ spinning /\ P!belongs(t)
        /\ pc' = [pc EXCEPT ![t] = "print"] /\ UNCHANGED <<spinning, n, i, mtx, ready, shown>>
    BY <1>4, <1>b DEF P!Spin, P!Goto, P!turn, P!belongs
  <2>2. "print" \in Where
    BY DEF Where
  <2> QED
    BY <1>a, <1>b, <1>d, <1>u, <1>t, <1>m, <2>1, <2>2
<1>5. ASSUME NEW t \in {1, 2}, P!Lock(t) PROVE P!IInv'
  <2>1. PICK to \in {"print", "waiting"} :
           /\ pc[t] \in {"lock", "woken"} /\ mtx = 0
           /\ pc' = [pc EXCEPT ![t] = to] /\ UNCHANGED <<spinning, n, i, ready, shown>>
           /\ to = "print" <=> P!turn(t)
           /\ mtx' = IF to = "print" THEN t ELSE 0
    BY <1>5 DEF P!Lock
  <2>2. to \in Where
    BY DEF Where
  <2>3. \A s \in {1, 2} : ~spinning /\ pc[s] \notin {"print", "add", "pass", "unlock"}
    BY <2>1, <1>b
  <2> QED
    BY <1>a, <1>b, <1>d, <1>u, <1>t, <1>m, <2>1, <2>2, <2>3
<1>6. ASSUME NEW t \in {1, 2}, P!Wake(t) PROVE P!IInv'
  <2>1. /\ pc[t] = "waiting" /\ pc' = [pc EXCEPT ![t] = "woken"]
        /\ UNCHANGED <<spinning, n, i, mtx, ready, shown>>
    BY <1>6 DEF P!Wake, P!Goto
  <2>2. "woken" \in Where
    BY DEF Where
  <2> QED
    BY <1>a, <1>b, <1>d, <1>u, <1>t, <1>m, <2>1, <2>2
\* Two threads are not between the test of their turn and the end of it together.
<1>o. ASSUME NEW t \in {1, 2}, NEW s \in {1, 2} \ {t}, pc[t] \in {"print", "add", "pass", "unlock"},
             pc[t] \in {"print", "add"} \/ ~spinning
      PROVE  pc[s] \notin {"print", "add", "pass", "unlock"}
  BY <1>o, <1>b, <1>d, <1>p
<1>7. ASSUME NEW t \in {1, 2}, P!PrintNumber(t) PROVE P!IInv'
  <2>1. /\ pc[t] = "print" /\ pc' = [pc EXCEPT ![t] = "add"]
        /\ shown' = shown + 1 /\ UNCHANGED <<spinning, n, i, mtx, ready>>
    BY <1>7 DEF P!PrintNumber, P!Goto
  <2>2. "add" \in Where
    BY DEF Where
  <2> QED
    BY <1>a, <1>b, <1>d, <1>u, <1>t, <1>m, <1>o, <2>1, <2>2
<1>8. ASSUME NEW t \in {1, 2}, P!Add(t) PROVE P!IInv'
  <2>1. PICK to \in {"test", "pass"} :
           /\ pc[t] = "add" /\ pc' = [pc EXCEPT ![t] = to] /\ to = IF spinning THEN "test" ELSE "pass"
           /\ i' = i + 1 /\ UNCHANGED <<spinning, n, mtx, ready, shown>>
    BY <1>8 DEF P!Add, P!Goto
  <2>2. to \in Where
    BY DEF Where
  <2>3. \A s \in {1, 2} : P!belongs(s)' <=> ~P!belongs(s)
    BY <1>a, <2>1, Parity DEF P!belongs, P!odd
  <2>4. ~spinning => \A s \in {1, 2} : P!turn(s)' <=> P!turn(s)
    BY <2>1 DEF P!turn, P!odd
  <2>5. P!belongs(t) /\ i <= n
    BY <1>d, <2>1
  <2>6. \A s \in {1, 2} \ {t} : ~P!belongs(s) /\ pc[s] \notin {"print", "add", "pass", "unlock"}
    BY <1>o, <1>p, <2>1, <2>5
  <2>7. pc' \in [{0, 1, 2} -> Where] /\ pc'[t] = to /\ \A s \in {0, 1, 2} \ {t} : pc'[s] = pc[s]
    BY <1>m, <2>1, <2>2
  <2>8. i' \in 0 .. n + 1 /\ i' = shown' /\ pc'[1] # "add" /\ pc'[2] # "add"
    BY <1>a, <2>1, <2>5, <2>6, <2>7
  <2>9. \A s \in {1, 2} : /\ pc'[s] \in {"spin", "lock", "waiting", "woken", "print", "add"} =>
                               i' <= n /\ (~P!belongs(s)' => i' < n)
                          /\ pc'[s] = "left" => i' >= n
    <3>1. ASSUME NEW s \in {1, 2} \ {t}, pc[s] \in {"spin", "lock", "waiting", "woken"}
          PROVE  i + 1 <= n /\ P!belongs(s)'
      BY <1>a, <1>d, <2>3, <2>6, <3>1
    <3> QED
      BY <1>a, <1>d, <2>1, <2>6, <2>7, <3>1
  <2>10. /\ \A s \in {1, 2} : pc'[s] \in {"print", "add"} => P!belongs(s)'
         /\ ~spinning => IF pc'[1] = "pass" \/ pc'[2] = "pass"
                         THEN \A s \in {1, 2} : pc'[s] = "pass" => ~P!belongs(s)' /\ P!turn(s)'
                         ELSE \A s \in {1, 2} : P!turn(s)' <=> P!belongs(s)'
    BY <1>d, <2>1, <2>3, <2>4, <2>5, <2>6, <2>7
  <2>11. /\ pc'[0] \in {"create", "join", "left"}
         /\ \A s \in {1, 2} : /\ pc'[s] \notin {"create", "join"}
                              /\ spinning => pc'[s] \notin {"lock", "waiting", "woken", "pass", "unlock"}
                              /\ ~spinning => pc'[s] # "spin"
                              /\ pc'[s] \in {"print", "add", "pass", "unlock"} /\ ~spinning => mtx' = s
                              /\ pc'[0] = "left" => pc'[s] = "left"
    BY <1>b, <2>1, <2>7
  <2> QED
    BY <1>a, <1>t, <2>1, <2>7, <2>8, <2>9, <2>10, <2>11
<1>9. ASSUME NEW t \in {1, 2}, P!Pass(t) PROVE P!IInv'
  <2>1. /\ pc[t] = "pass" /\ ready' = (t = 1) /\ UNCHANGED <<spinning, n, i, mtx, shown>>
        /\ pc' = [s \in {0, 1, 2} |-> IF s = t THEN "unlock" ELSE IF pc[s] = "waiting" THEN "woken" ELSE pc[s]]
    BY <1>9 DEF P!Pass, P!odd
  <2>2. /\ pc' \in [{0, 1, 2} -> Where] /\ pc'[0] = pc[0] /\ pc'[t] = "unlock"
        /\ \A s \in {1, 2} \ {t} : pc'[s] = IF pc[s] = "waiting" THEN "woken" ELSE pc[s]
    BY <1>a, <1>b, <2>1 DEF Where
  <2>3. ~spinning /\ ~P!belongs(t) /\ \A s \in {1, 2} : P!belongs(s)' <=> P!belongs(s)
    BY <1>b, <1>d, <2>1 DEF P!belongs, P!odd
  <2>4. \A s \in {1, 2} \ {t} : P!belongs(s) /\ pc[s] \notin {"print", "add", "pass", "unlock"}
    BY <1>o, <1>p, <2>1, <2>3
  <2>5. \A s \in {1, 2} : P!turn(s)' <=> s # t
    BY <2>1, <2>3 DEF P!turn, P!odd
  <2> QED
    BY <1>a, <1>b, <1>d, <1>t, <2>1, <2>2, <2>3, <2>4, <2>5
<1>10. ASSUME NEW t \in {1, 2}, P!Unlock(t) PROVE P!IInv'
  <2>1. /\ pc[t] = "unlock" /\ pc' = [pc EXCEPT ![t] = "test"]
        /\ mtx' = 0 /\ UNCHANGED <<spinning, n, i, ready, shown>>
    BY <1>10 DEF P!Unlock, P!Goto
  <2>2. "test" \in Where
    BY DEF Where
  <2>3. ~spinning
    BY <1>b, <2>1
  <2> QED
    BY <1>a, <1>b, <1>d, <1>u, <1>t, <1>m, <1>o, <2>1, <2>2, <2>3
<1>11. CASE UNCHANGED <<pc, mtx, forPrinters>>
  <2>1. UNCHANGED <<pc, mtx, spinning, n, i, ready, shown>>
    BY <1>11 DEF forPrinters
  <2> QED
    BY <1>a, <1>b, <1>d, <1>u, <1>t, <2>1
<1> QED
  BY <1>1, <1>2, <1>3, <1>4, <1>5, <1>6, <1>7, <1>8, <1>9, <1>10, <1>11 DEF P!Next, P!Thread

LEMMA PrintersSafe == P!IInv => P!InTurn
<1> SUFFICES ASSUME P!IInv PROVE P!InTurn
  OBVIOUS
<1>1. /\ n \in Nat /\ i \in 0 .. n + 1
      /\ shown = IF pc[1] = "add" \/ pc[2] = "add" THEN i + 1 ELSE i
  BY MCDemosAssumption DEF P!IInv, P!TypeOK, P!Counted, P!Both
<1>2. \A t \in {1, 2} : /\ pc[t] \in {"print", "add"} => P!belongs(t) /\ i <= n
                        /\ pc[t] = "left" => i >= n
                        /\ pc[0] = "left" => pc[t] = "left"
                        /\ pc[t] \in {"print", "add"} /\ ~spinning => mtx = t
  BY DEF P!IInv, P!Turns, P!Tested, P!Places, P!Both
<1>3. \A t \in {1, 2} : pc[t] = "print" => i = shown
  BY <1>1, <1>2 DEF P!belongs, P!odd
<1> QED
  BY <1>1, <1>2, <1>3 DEF P!InTurn, P!belongs, P!Both

-----------------------------------------------------------------------------
(***************************************************************************)
(* Two copies of one buffer.                                               *)
(***************************************************************************)
LEMMA UpTo == /\ F!upTo(0) = <<>>
              /\ \A k \in 0 .. 4 : F!upTo(k) \in Seq(1 .. 4) /\ Len(F!upTo(k)) = k
              /\ \A k \in 0 .. 3 : F!upTo(k) \in Seq(1 .. 3)
BY DEF F!upTo

LEMMA UpToNext == ASSUME NEW k \in 0 .. 3 PROVE Append(F!upTo(k), k + 1) = F!upTo(k + 1) /\ k + 1 \in 0 .. 4
BY DEF F!upTo

LEMMA OnceAndBoth ==
    ASSUME NEW s, s = [m \in 1 .. 3 |-> m]
    PROVE  LET once == [k \in 1 .. 4 |-> IF k = 1 THEN 4 ELSE k - 1]
           IN  /\ s \in Seq(Nat) /\ <<4>> \in Seq(Nat) /\ once \in Seq(Nat)
               /\ <<4>> \o s = once
               /\ once \o s = [k \in 1 .. 7 |-> IF k = 1 THEN 4 ELSE IF k <= 4 THEN k - 1 ELSE k - 4]
OBVIOUS

\* What has come out of a pipe when none, one or both of the processes have left.
LEMMA Flushes == /\ <<4>> \o F!upTo(0) \o F!upTo(0) = <<4>>
                 /\ <<4>> \o F!upTo(3) \o F!upTo(0) = <<4>> \o F!upTo(3)
                 /\ <<4>> \o F!upTo(0) \o F!upTo(3) = <<4>> \o F!upTo(3)
                 /\ <<4>> \o F!upTo(3) = [k \in 1 .. 4 |-> IF k = 1 THEN 4 ELSE k - 1]
                 /\ <<4>> \o F!upTo(3) \o F!upTo(3) =
                      [k \in 1 .. 7 |-> IF k = 1 THEN 4 ELSE IF k <= 4 THEN k - 1 ELSE k - 4]
<1> DEFINE none == F!upTo(0)
           all == F!upTo(3)
           once == [k \in 1 .. 4 |-> IF k = 1 THEN 4 ELSE k - 1]
           both == [k \in 1 .. 7 |-> IF k = 1 THEN 4 ELSE IF k <= 4 THEN k - 1 ELSE k - 4]
<1>1. none = <<>>
  BY UpTo
<1>2. /\ all \in Seq(Nat) /\ <<4>> \in Seq(Nat) /\ once \in Seq(Nat)
      /\ <<4>> \o all = once /\ once \o all = both
  <2>1. all = [m \in 1 .. 3 |-> m]
    BY DEF F!upTo
  <2> HIDE DEF all
  <2> QED
    BY <2>1, OnceAndBoth
<1>4. \A s \in Seq(Nat) : s \o <<>> = s
  OBVIOUS
<1> HIDE DEF none, all, once, both
<1>6. <<4>> \o none = <<4>> /\ <<4>> \o none \o none = <<4>> /\ <<4>> \o none \o all = once /\ <<4>> \o all \o none = once
  BY <1>1, <1>2, <1>4
<1>7. <<4>> \o all \o all = both
  BY <1>2
<1> QED
  BY <1>2, <1>6, <1>7 DEF none, all, once, both

LEMMA ForkedInit == F!Init => F!IInv
<1> SUFFICES ASSUME F!Init PROVE F!IInv
  OBVIOUS
<1>1. /\ pc \in [{0, 1} -> {"print", "none"}] /\ pc[0] = "print" /\ pc[1] = "none"
      /\ stdout \in [{0, 1} -> Seq(1 .. 3)] /\ stdout = [p \in {0, 1} |-> <<>>] /\ out = <<>>
  BY DEF F!Init
<1>2. F!TypeOK
  BY <1>1 DEF F!Init, F!TypeOK, F!Printed
<1>3. F!Places
  BY <1>1 DEF F!Places, F!Printed
<1>4. F!AtTerminal /\ F!ToFile
  BY <1>1 DEF F!AtTerminal, F!ToFile
<1> QED
  BY <1>2, <1>3, <1>4 DEF F!IInv

LEMMA ForkedNext == F!IInv /\ [F!Next]_<<pc, out, forForked>> => F!IInv'
<1> SUFFICES ASSUME F!IInv, [F!Next]_<<pc, out, forForked>> PROVE F!IInv'
  OBVIOUS
<1> DEFINE Where == {"print", "write", "fork", "exit", "left", "none"}
           none == [p \in {0, 1} |-> <<>>]
<1>a. /\ tty \in BOOLEAN /\ pc \in [{0, 1} -> Where] /\ stdout \in [{0, 1} -> Seq(1 .. 3)] /\ out \in Seq(1 .. 4)
      /\ pc[0] # "none" /\ pc[1] \in {"none", "exit", "left"}
      /\ pc[0] \in {"print", "write", "fork"} => pc[1] = "none"
      /\ \A p \in {0, 1} : pc[p] \in {"none", "left"} => stdout[p] = <<>>
  BY DEF F!IInv, F!TypeOK, F!Places, F!Printed
<1>b. F!AtTerminal /\ F!ToFile
  BY DEF F!IInv
<1>t. ASSUME tty' = tty, pc' \in [{0, 1} -> Where], stdout' \in [{0, 1} -> Seq(1 .. 3)], out' \in Seq(1 .. 4),
             pc'[0] # "none", pc'[1] \in {"none", "exit", "left"},
             pc'[0] \in {"print", "write", "fork"} => pc'[1] = "none",
             \A p \in {0, 1} : pc'[p] \in {"none", "left"} => stdout'[p] = <<>>,
             F!AtTerminal', F!ToFile'
      PROVE  F!IInv'
  BY <1>t, <1>a DEF F!IInv, F!TypeOK, F!Places, F!Printed
<1>1. CASE F!Puts /\ tty
  <2>1. /\ pc[0] = "print" /\ pc[1] = "none" /\ stdout = none /\ stdout[0] = <<>>
        /\ UNCHANGED <<tty, stdout>>
    BY <1>1, <1>a, <1>b DEF F!Puts, F!AtTerminal
  <2>2. PICK k \in 0 .. 2 : out = F!upTo(k)
    BY <1>1, <1>b, <2>1 DEF F!AtTerminal, F!Printed
  <2>3. Len(out \o stdout[0]) = k
    <3>1. out \o <<>> = out
      BY <1>a
    <3>2. k \in 0 .. 4
      OBVIOUS
    <3>3. Len(F!upTo(k)) = k
      BY <3>2, UpTo
    <3> QED
      BY <2>1, <2>2, <3>1, <3>3
  <2>4. out' = F!upTo(k + 1) /\ pc' = [pc EXCEPT ![0] = IF k = 2 THEN "write" ELSE pc[0]]
    <3>1. /\ out' = Append(out, k + 1) /\ pc' = [pc EXCEPT ![0] = IF k + 1 = 3 THEN "write" ELSE pc[0]]
      BY <1>1, <2>3 DEF F!Puts, F!Printed
    <3>2. Append(F!upTo(k), k + 1) = F!upTo(k + 1)
      BY UpToNext
    <3>3. k + 1 = 3 <=> k = 2
      OBVIOUS
    <3> QED
      BY <2>2, <3>1, <3>2, <3>3
  <2>5. /\ pc' \in [{0, 1} -> Where] /\ pc'[1] = "none" /\ pc'[0] = (IF k = 2 THEN "write" ELSE "print")
    BY <1>a, <2>1, <2>4
  <2>6. out' \in Seq(1 .. 4)
    <3>1. k + 1 \in 0 .. 4
      OBVIOUS
    <3>2. F!upTo(k + 1) \in Seq(1 .. 4)
      BY <3>1, UpTo
    <3> QED
      BY <2>4, <3>2
  <2>7. F!AtTerminal' /\ F!ToFile'
    <3>1. k = 2 => out' = F!upTo(3)
      BY <2>4
    <3>2. k # 2 => k + 1 \in 0 .. 2
      OBVIOUS
    <3> QED
      BY <1>1, <2>1, <2>4, <2>5, <3>1, <3>2 DEF F!AtTerminal, F!ToFile, F!Printed
  <2> QED
    BY <1>a, <1>t, <2>1, <2>5, <2>6, <2>7
<1>2. CASE F!Puts /\ ~tty
  <2>1. pc[0] = "print" /\ pc[1] = "none" /\ out = <<>> /\ UNCHANGED <<tty, out>>
    BY <1>2, <1>a, <1>b DEF F!Puts, F!ToFile
  <2>2. PICK k \in 0 .. 2 : stdout[0] = F!upTo(k)
    BY <1>2, <1>b, <2>1 DEF F!ToFile, F!Printed
  <2>3. Len(out \o stdout[0]) = k
    <3>1. <<>> \o stdout[0] = stdout[0]
      BY <1>a
    <3>2. k \in 0 .. 4
      OBVIOUS
    <3>3. Len(F!upTo(k)) = k
      BY <3>2, UpTo
    <3> QED
      BY <2>1, <2>2, <3>1, <3>3
  <2>4. /\ stdout' = [stdout EXCEPT ![0] = F!upTo(k + 1)]
        /\ pc' = [pc EXCEPT ![0] = IF k = 2 THEN "write" ELSE pc[0]]
    <3>1. /\ stdout' = [stdout EXCEPT ![0] = Append(stdout[0], k + 1)]
          /\ pc' = [pc EXCEPT ![0] = IF k + 1 = 3 THEN "write" ELSE pc[0]]
      BY <1>2, <2>3 DEF F!Puts, F!Printed
    <3>2. Append(F!upTo(k), k + 1) = F!upTo(k + 1)
      BY UpToNext
    <3>3. k + 1 = 3 <=> k = 2
      OBVIOUS
    <3> QED
      BY <2>2, <3>1, <3>2, <3>3
  <2>5. /\ pc' \in [{0, 1} -> Where] /\ pc'[1] = "none" /\ pc'[0] = (IF k = 2 THEN "write" ELSE "print")
    BY <1>a, <2>1, <2>4
  <2>6. /\ stdout' \in [{0, 1} -> Seq(1 .. 3)] /\ stdout'[1] = stdout[1] /\ stdout'[0] = F!upTo(k + 1)
    <3>1. k + 1 \in 0 .. 3
      OBVIOUS
    <3>2. F!upTo(k + 1) \in Seq(1 .. 3)
      BY <3>1, UpTo
    <3> QED
      BY <1>a, <2>4, <3>2
  <2>7. F!AtTerminal' /\ F!ToFile'
    <3>1. k = 2 => stdout'[0] = F!upTo(3)
      BY <2>6
    <3>2. k # 2 => k + 1 \in 0 .. 2
      OBVIOUS
    <3> QED
      BY <1>2, <2>1, <2>5, <2>6, <3>1, <3>2 DEF F!AtTerminal, F!ToFile, F!Printed
  <2> QED
    BY <1>a, <1>t, <2>1, <2>5, <2>6, <2>7
<1>3. CASE F!Write
  <2>1. /\ pc[0] = "write" /\ pc[1] = "none" /\ out' = Append(out, 4) /\ UNCHANGED <<tty, stdout>>
        /\ pc' = [pc EXCEPT ![0] = "fork"]
    BY <1>3, <1>a DEF F!Write, F!Printed
  <2>2. pc' \in [{0, 1} -> Where] /\ pc'[0] = "fork" /\ pc'[1] = "none"
    BY <1>a, <2>1
  <2>3. out' \in Seq(1 .. 4)
    BY <1>a, <2>1
  <2>4. F!AtTerminal'
    <3>1. tty => stdout' = none /\ out' = F!upTo(4)
      <4>1. Append(F!upTo(3), 4) = F!upTo(4)
        BY UpToNext
      <4> QED
        BY <1>b, <2>1, <4>1 DEF F!AtTerminal, F!Printed
    <3> QED
      BY <2>1, <2>2, <3>1 DEF F!AtTerminal, F!Printed
  <2>5. F!ToFile'
    <3>1. ~tty => stdout'[0] = F!upTo(3) /\ out = <<>>
      BY <1>b, <2>1 DEF F!ToFile, F!Printed
    <3>2. ~tty => out' = <<4>> \o F!upTo(0) \o F!upTo(0)
      BY <2>1, <3>1, Flushes
    <3> QED
      BY <2>1, <2>2, <3>1, <3>2 DEF F!ToFile, F!flushed, F!Printed
  <2> QED
    BY <1>a, <1>t, <2>1, <2>2, <2>3, <2>4, <2>5
<1>4. CASE F!Fork
  <2>1. pc[0] = "fork" /\ pc[1] = "none" /\ UNCHANGED <<tty, out>>
    BY <1>4, <1>a DEF F!Fork
  <2>2. /\ pc' \in [{0, 1} -> Where] /\ pc'[0] = "exit" /\ pc'[1] \in {"none", "exit"}
        /\ stdout' \in [{0, 1} -> Seq(1 .. 3)] /\ stdout'[0] = stdout[0]
        /\ stdout'[1] = IF pc'[1] = "exit" THEN stdout[0] ELSE stdout[1]
    <3>1. CASE pc' = [pc EXCEPT ![0] = "exit", ![1] = "exit"] /\ stdout' = [stdout EXCEPT ![1] = stdout[0]]
      BY <1>a, <3>1
    <3>2. CASE pc' = [pc EXCEPT ![0] = "exit"] /\ UNCHANGED stdout
      BY <1>a, <2>1, <3>2
    <3> QED
      BY <1>4, <3>1, <3>2 DEF F!Fork
  <2>3. F!AtTerminal'
    <3>1. tty => stdout' = none
      BY <1>b, <2>2 DEF F!AtTerminal
    <3> QED
      BY <1>b, <2>1, <2>2, <3>1 DEF F!AtTerminal
  <2>4. F!ToFile'
    BY <1>b, <2>1, <2>2 DEF F!ToFile, F!flushed
  <2> QED
    BY <1>a, <1>t, <2>1, <2>2, <2>3, <2>4
<1>5. ASSUME NEW p \in {0, 1}, F!Exit(p) PROVE F!IInv'
  <2>1. /\ pc[p] = "exit" /\ pc' = [pc EXCEPT ![p] = "left"] /\ out' = out \o stdout[p]
        /\ stdout' = [stdout EXCEPT ![p] = <<>>] /\ tty' = tty
    BY <1>5 DEF F!Exit
  <2>2. /\ pc' \in [{0, 1} -> Where] /\ pc'[p] = "left" /\ \A q \in {0, 1} \ {p} : pc'[q] = pc[q]
        /\ stdout' \in [{0, 1} -> Seq(1 .. 3)] /\ stdout'[p] = <<>>
        /\ \A q \in {0, 1} \ {p} : stdout'[q] = stdout[q]
    <3>1. <<>> \in Seq(1 .. 3)
      OBVIOUS
    <3> QED
      BY <1>a, <2>1, <3>1
  <2>3. out' \in Seq(1 .. 4)
    BY <1>a, <2>1
  <2>4. pc[0] \notin {"print", "write", "fork"}
    BY <1>a, <2>1
  <2>5. F!AtTerminal'
    <3>1. tty => stdout[p] = <<>> /\ out = F!upTo(4) /\ stdout' = none
      BY <1>b, <2>2, <2>4 DEF F!AtTerminal, F!Printed
    <3>2. tty => out' = F!upTo(4)
      BY <1>a, <2>1, <3>1
    <3> QED
      BY <2>1, <2>2, <2>4, <3>1, <3>2 DEF F!AtTerminal, F!Printed
  <2>6. F!ToFile'
    <3>1. ~tty => stdout[p] = F!upTo(3) /\ out = <<4>> \o F!flushed(0) \o F!flushed(1)
      BY <1>b, <2>1, <2>4 DEF F!ToFile, F!Printed
    <3>2. ~tty => out' = <<4>> \o F!flushed(0)' \o F!flushed(1)'
      <4> SUFFICES ASSUME ~tty PROVE out' = <<4>> \o F!flushed(0)' \o F!flushed(1)'
        OBVIOUS
      <4>1. PICK q \in {0, 1} \ {p} : F!flushed(q)' = F!flushed(q) /\ F!flushed(q) \in {F!upTo(0), F!upTo(3)}
        BY <2>2 DEF F!flushed, F!Printed
      <4>2. F!flushed(p) = F!upTo(0) /\ F!flushed(p)' = F!upTo(3)
        BY <2>1, <2>2 DEF F!flushed, F!Printed
      <4>3. \/ out = <<4>> \o F!upTo(0) \o F!upTo(0) /\ F!flushed(q) = F!upTo(0)
            \/ out = <<4>> \o F!upTo(3) /\ F!flushed(q) = F!upTo(3)
        <5>1. CASE p = 0 /\ q = 1
          BY <3>1, <4>1, <4>2, <5>1, Flushes
        <5>2. CASE p = 1 /\ q = 0
          BY <3>1, <4>1, <4>2, <5>2, Flushes
        <5> QED
          BY <5>1, <5>2
      <4>4. \/ out' = <<4>> \o F!upTo(3) /\ F!flushed(q)' = F!upTo(0)
            \/ out' = <<4>> \o F!upTo(3) \o F!upTo(3) /\ F!flushed(q)' = F!upTo(3)
        BY <2>1, <3>1, <4>1, <4>3, Flushes
      <4>5. CASE p = 0 /\ q = 1
        BY <4>2, <4>4, <4>5, Flushes
      <4>6. CASE p = 1 /\ q = 0
        BY <4>2, <4>4, <4>6, Flushes
      <4> QED
        BY <4>5, <4>6
    <3> QED
      BY <1>b, <2>1, <2>2, <2>4, <3>2 DEF F!ToFile, F!Printed
  <2> QED
    BY <1>a, <1>t, <2>1, <2>2, <2>3, <2>4, <2>5, <2>6
<1>6. CASE UNCHANGED <<pc, out, forForked>>
  <2>1. UNCHANGED <<pc, out, tty, stdout>>
    BY <1>6 DEF forForked
  <2>2. F!AtTerminal' /\ F!ToFile'
    BY <1>b, <2>1 DEF F!AtTerminal, F!ToFile, F!flushed
  <2> QED
    BY <1>a, <1>t, <2>1, <2>2
<1> QED
  BY <1>1, <1>2, <1>3, <1>4, <1>5, <1>6 DEF F!Next

\* The instance's Cardinality is the library's.
LEMMA SameCardinality == \A X : F!Cardinality(X) = Cardinality(X)
BY DEF F!Cardinality, Cardinality

LEMMA ForkedSafe == F!IInv => F!OncePerProcess
<1> SUFFICES ASSUME F!IInv PROVE F!OncePerProcess
  OBVIOUS
<1>1. pc \in [{0, 1} -> {"print", "write", "fork", "exit", "left", "none"}] /\ tty \in BOOLEAN
  BY DEF F!IInv, F!TypeOK, F!Places
<1>2. tty => out = [m \in 1 .. Len(out) |-> m]
  <2>1. tty => \E k \in 0 .. 4 : out = F!upTo(k)
    BY <1>1 DEF F!IInv, F!AtTerminal, F!Printed
  <2>2. \A k \in 0 .. 4 : F!upTo(k) = [m \in 1 .. Len(F!upTo(k)) |-> m]
    BY UpTo DEF F!upTo
  <2> QED
    BY <2>1, <2>2
<1> DEFINE once == [k \in 1 .. 4 |-> IF k = 1 THEN 4 ELSE k - 1]
           both == [k \in 1 .. 7 |-> IF k = 1 THEN 4 ELSE IF k <= 4 THEN k - 1 ELSE k - 4]
<1>4. ASSUME ~tty, pc[0] \notin {"print", "write"}
      PROVE  out = CASE pc[0] # "left" /\ pc[1] # "left" -> <<4>>
                     [] (pc[0] = "left") # (pc[1] = "left") -> once
                     [] pc[0] = "left" /\ pc[1] = "left" -> both
  <2>1. out = <<4>> \o F!flushed(0) \o F!flushed(1)
    BY <1>4 DEF F!IInv, F!ToFile, F!Printed
  <2> HIDE DEF once, both
  <2>2. CASE pc[0] # "left" /\ pc[1] # "left"
    BY <2>1, <2>2, Flushes DEF F!flushed, F!Printed
  <2>3. CASE pc[0] = "left" /\ pc[1] # "left"
    BY <2>1, <2>3, Flushes DEF F!flushed, F!Printed, once
  <2>4. CASE pc[0] # "left" /\ pc[1] = "left"
    BY <2>1, <2>4, Flushes DEF F!flushed, F!Printed, once
  <2>5. CASE pc[0] = "left" /\ pc[1] = "left"
    BY <2>1, <2>5, Flushes DEF F!flushed, F!Printed, both
  <2> QED
    BY <2>2, <2>3, <2>4, <2>5
<1>5. ~tty /\ out # <<>> => Head(out) = 4
  <2>1. CASE pc[0] \in {"print", "write"}
    BY <2>1 DEF F!IInv, F!ToFile
  <2>2. CASE pc[0] \notin {"print", "write"}
    BY <1>4, <2>2
  <2> QED
    BY <2>1, <2>2
<1>6. Cardinality({}) = 0 /\ Cardinality({0}) = 1 /\ Cardinality({1}) = 1 /\ Cardinality({0, 1}) = 2
  <2>1. {0, 1} = {0} \cup {1}
    OBVIOUS
  <2> QED
    BY <2>1, FS_EmptySet, FS_Singleton, FS_AddElement
<1>7. ASSUME NEW m \in 1 .. 3, ~tty PROVE Cardinality({k \in DOMAIN out : out[k] = m}) = Cardinality(F!leavers)
  <2> DEFINE at == {k \in DOMAIN out : out[k] = m}
  <2>1. CASE out \in {<<>>, <<4>>} /\ F!leavers = {}
    <3>1. at = {}
      BY <2>1
    <3> QED
      BY <2>1, <3>1
  <2>2. CASE out = once /\ F!leavers \in {{0}, {1}}
    <3>1. at = {m + 1}
      BY <2>2
    <3>2. Cardinality(at) = 1
      BY <3>1, FS_Singleton
    <3> QED
      BY <1>6, <2>2, <3>2
  <2>3. CASE out = both /\ F!leavers = {0, 1}
    <3>1. at = {m + 1} \cup {m + 4}
      BY <2>3
    <3>2. Cardinality({m + 1}) = 1 /\ IsFiniteSet({m + 1}) /\ m + 4 \notin {m + 1}
      BY FS_Singleton
    <3>3. Cardinality(at) = 2
      BY <3>1, <3>2, FS_AddElement
    <3> QED
      BY <1>6, <2>3, <3>3
  <2>4. CASE pc[0] \in {"print", "write"}
    <3>1. out = <<>> /\ F!leavers = {}
      BY <1>7, <2>4 DEF F!IInv, F!ToFile, F!Places, F!leavers
    <3> QED
      BY <2>1, <3>1
  <2>5. CASE pc[0] \notin {"print", "write"}
    <3> HIDE DEF at, once, both
    <3>1. CASE pc[0] # "left" /\ pc[1] # "left"
      BY <1>4, <1>7, <2>1, <2>5, <3>1 DEF F!leavers
    <3>2. CASE pc[0] = "left" /\ pc[1] # "left"
      BY <1>4, <1>7, <2>2, <2>5, <3>2 DEF F!leavers
    <3>3. CASE pc[0] # "left" /\ pc[1] = "left"
      BY <1>4, <1>7, <2>2, <2>5, <3>3 DEF F!leavers
    <3>4. CASE pc[0] = "left" /\ pc[1] = "left"
      BY <1>4, <1>7, <2>3, <2>5, <3>4 DEF F!leavers
    <3> QED
      BY <3>1, <3>2, <3>3, <3>4
  <2> QED
    BY <2>4, <2>5
<1>8. \A m \in 1 .. F!Printed : ~tty => F!Cardinality({k \in DOMAIN out : out[k] = m}) = F!Cardinality(F!leavers)
  <2>1. F!Printed = 3
    BY DEF F!Printed
  <2> SUFFICES ASSUME NEW m \in 1 .. 3, ~tty
               PROVE  F!Cardinality({k \in DOMAIN out : out[k] = m}) = F!Cardinality(F!leavers)
    BY <2>1
  <2> DEFINE at == {k \in DOMAIN out : out[k] = m}
  <2>2. Cardinality(at) = Cardinality(F!leavers)
    BY <1>7
  <2>3. F!Cardinality(at) = Cardinality(at) /\ F!Cardinality(F!leavers) = Cardinality(F!leavers)
    BY SameCardinality
  <2> QED
    BY <2>2, <2>3
<1>9. ~tty /\ out # <<>> => Head(out) = F!Printed + 1
  BY <1>5 DEF F!Printed
<1> HIDE DEF once, both
<1> QED
  BY <1>2, <1>8, <1>9, Zenon DEF F!OncePerProcess

-----------------------------------------------------------------------------
(***************************************************************************)
(* Messages on their way through a buffer.                                 *)
(***************************************************************************)
LEMMA RangeOfJoin == ASSUME NEW s \in Seq(Nat), NEW t \in Seq(Nat)
                     PROVE  B!Range(s \o t) = B!Range(s) \cup B!Range(t)
<1>1. ASSUME NEW x \in B!Range(s) PROVE x \in B!Range(s \o t)
  <2>1. PICK k \in 1 .. Len(s) : x = s[k]
    BY <1>1 DEF B!Range
  <2>2. k \in DOMAIN (s \o t) /\ (s \o t)[k] = x
    BY <2>1
  <2> QED
    BY <2>2 DEF B!Range
<1>2. ASSUME NEW x \in B!Range(t) PROVE x \in B!Range(s \o t)
  <2>1. PICK k \in 1 .. Len(t) : x = t[k]
    BY <1>2 DEF B!Range
  <2>2. k + Len(s) \in DOMAIN (s \o t) /\ (s \o t)[k + Len(s)] = x
    BY <2>1
  <2> QED
    BY <2>2 DEF B!Range
<1>3. ASSUME NEW x \in B!Range(s \o t) PROVE x \in B!Range(s) \cup B!Range(t)
  <2>1. PICK k \in 1 .. Len(s) + Len(t) : x = (s \o t)[k]
    BY <1>3 DEF B!Range
  <2>2. CASE k <= Len(s)
    <3>1. k \in DOMAIN s /\ x = s[k]
      BY <2>1, <2>2
    <3> QED
      BY <3>1 DEF B!Range
  <2>3. CASE k > Len(s)
    <3>1. k - Len(s) \in DOMAIN t /\ x = t[k - Len(s)]
      BY <2>1, <2>3
    <3> QED
      BY <3>1 DEF B!Range
  <2> QED
    BY <2>1, <2>2, <2>3
<1> QED
  BY <1>1, <1>2, <1>3

LEMMA RangeOfAppend == ASSUME NEW s \in Seq(Nat), NEW x \in Nat
                       PROVE  B!Range(Append(s, x)) = B!Range(s) \cup {x}
<1>1. Append(s, x) = s \o <<x>> /\ <<x>> \in Seq(Nat)
  OBVIOUS
<1>2. B!Range(<<x>>) = {x}
  BY DEF B!Range
<1>3. B!Range(s \o <<x>>) = B!Range(s) \cup B!Range(<<x>>)
  BY <1>1, RangeOfJoin
<1> QED
  BY <1>1, <1>2, <1>3

\* One more message, and it is the next.
LEMMA OneMore == ASSUME NEW k \in Nat, NEW s \in Seq(Nat), NEW t \in Seq(Nat), s \o t = F!upTo(k)
                 PROVE  s \o Append(t, k + 1) = F!upTo(k + 1)
<1> DEFINE u == Append(t, k + 1)
<1>1. /\ s \o t \in Seq(Nat) /\ Len(s \o t) = Len(s) + Len(t) /\ Len(s) \in Nat /\ Len(t) \in Nat
      /\ \A m \in 1 .. Len(s) + Len(t) : (s \o t)[m] = IF m <= Len(s) THEN s[m] ELSE t[m - Len(s)]
  <2>1. Len(s) \in Nat /\ Len(t) \in Nat
    OBVIOUS
  <2> QED
    BY <2>1, ConcatProperties
<1>2. Len(s) + Len(t) = k /\ \A m \in 1 .. k : (s \o t)[m] = m
  BY <1>1 DEF F!upTo
<1>3. u \in Seq(Nat) /\ Len(u) = Len(t) + 1 /\ u[Len(t) + 1] = k + 1 /\ \A m \in 1 .. Len(t) : u[m] = t[m]
  BY <1>1
<1> HIDE DEF u
<1>4. /\ s \o u \in Seq(Nat) /\ Len(s \o u) = k + 1
      /\ \A m \in 1 .. k + 1 : (s \o u)[m] = IF m <= Len(s) THEN s[m] ELSE u[m - Len(s)]
  BY <1>1, <1>2, <1>3, ConcatProperties
<1>5. ASSUME NEW m \in 1 .. k + 1 PROVE (s \o u)[m] = m
  <2>1. CASE m <= Len(s)
    BY <1>1, <1>2, <1>4, <2>1
  <2>2. CASE m > Len(s) /\ m <= k
    <3>1. m - Len(s) \in 1 .. Len(t) /\ m \in 1 .. k
      BY <1>1, <1>2, <2>2
    <3> QED
      BY <1>1, <1>2, <1>3, <1>4, <2>2, <3>1
  <2>3. CASE m = k + 1
    <3>1. m - Len(s) = Len(t) + 1 /\ ~(m <= Len(s))
      BY <1>1, <1>2, <2>3
    <3> QED
      BY <1>3, <1>4, <2>3, <3>1
  <2>4. m <= Len(s) \/ (m > Len(s) /\ m <= k) \/ m = k + 1
    BY <1>1
  <2> QED
    BY <2>1, <2>2, <2>3, <2>4
<1>6. s \o u = F!upTo(k + 1)
  <2> DEFINE v == [m \in 1 .. k + 1 |-> m]
  <2>1. v \in Seq(Nat) /\ Len(v) = k + 1 /\ \A m \in 1 .. k + 1 : v[m] = m
    OBVIOUS
  <2>2. s \o u = v
    <3> HIDE DEF v
    <3>1. \A m \in 1 .. k + 1 : (s \o u)[m] = v[m]
      BY <1>5, <2>1
    <3> QED
      BY <1>4, <2>1, <3>1, SeqEqual
  <2> QED
    BY <2>2 DEF F!upTo
<1> QED
  BY <1>6 DEF u

LEMMA PrefixOfJoin == ASSUME NEW s \in Seq(Nat), NEW t \in Seq(Nat) PROVE B!IsPrefix(s, s \o t)
<1>1. SubSeq(s, 1, Len(s)) = SubSeq(s \o t, 1, Len(s))
  OBVIOUS
<1> QED
  BY <1>1 DEF B!IsPrefix

LEMMA BufferInit == B!Init => B!IInv
<1> SUFFICES ASSUME B!Init PROVE B!IInv
  OBVIOUS
<1>1. pc \in [{0} -> {"start"}] /\ pc[0] = "start"
  BY DEF B!Init
<1>2. B!TypeOK
  <2>1. <<>> \in Seq(1 .. 0) /\ 0 \in 0 .. Len(<<>>) /\ 0 \in 0 .. NumMessages
    BY MCDemosAssumption
  <2> QED
    BY <1>1, <2>1 DEF B!Init, B!TypeOK
<1>3. B!Kept = <<>>
  BY DEF B!Init, B!Kept
<1>4. <<>> \o <<>> = <<>> /\ <<>> = [m \in 1 .. 0 |-> m] /\ <<>> \in Seq(Nat)
  OBVIOUS
<1>5. B!WrittenOnce
  BY <1>1, <1>3, <1>4, PrefixOfJoin DEF B!Init, B!WrittenOnce
<1> QED
  BY <1>1, <1>2, <1>3, <1>5 DEF B!IInv

LEMMA BufferNext == B!IInv /\ [B!Next]_<<pc, out, forBuffer>> => B!IInv'
<1> SUFFICES ASSUME B!IInv, [B!Next]_<<pc, out, forBuffer>> PROVE B!IInv'
  OBVIOUS
<1> DEFINE Where == {"start", "open", "left", "killed"}
<1>p. pc \in [{0} -> Where] /\ fp \in {0, 1, 2, 3, 99} /\ (fp # 99 => pc[0] = "open")
  BY DEF B!IInv, B!TypeOK
<1>a. /\ said \in Nat /\ said \in 0 .. NumMessages /\ NumMessages \in Nat /\ twice \in BOOLEAN
      /\ buffer \in Seq(1 .. said) /\ end \in 0 .. Len(buffer) /\ out \in Seq(1 .. said)
  BY MCDemosAssumption DEF B!IInv, B!TypeOK
<1>k. /\ B!Kept \in Seq(1 .. said) /\ Len(B!Kept) = end
      /\ B!Kept \in Seq(Nat) /\ out \in Seq(Nat)
  <2>1. SubSeq(buffer, 1, end) \in Seq(1 .. said) /\ Len(SubSeq(buffer, 1, end)) = end
    BY <1>a
  <2>2. Seq(1 .. said) \subseteq Seq(Nat)
    BY <1>a
  <2> QED
    BY <1>a, <2>1, <2>2 DEF B!Kept
<1>w. /\ ~twice /\ pc[0] # "killed" => out \o B!Kept = F!upTo(said)
      /\ ~twice => B!IsPrefix(out, F!upTo(said))
      /\ twice /\ pc[0] # "killed" => B!Range(out \o B!Kept) = 1 .. said
      /\ pc[0] # "open" => B!Kept = <<>>
  BY DEF B!IInv, B!WrittenOnce, F!upTo
<1>t. ASSUME pc' \in [{0} -> Where], fp' \in {0, 1, 2, 3, 99}, fp' # 99 => pc'[0] = "open",
             said' \in 0 .. NumMessages, twice' \in BOOLEAN,
             buffer' \in Seq(1 .. said'), end' \in 0 .. Len(buffer'), out' \in Seq(1 .. said'),
             ~twice' /\ pc'[0] # "killed" => out' \o B!Kept' = F!upTo(said'),
             ~twice' => B!IsPrefix(out', F!upTo(said')),
             twice' /\ pc'[0] # "killed" => B!Range(out' \o B!Kept') = 1 .. said',
             pc'[0] # "open" => B!Kept' = <<>>
      PROVE  B!IInv'
  BY <1>t DEF B!IInv, B!TypeOK, B!WrittenOnce, F!upTo
\* What is flushed is what was kept.
<1>f. (IF end # 0 THEN out \o B!Kept ELSE out) = out \o B!Kept /\ out \o B!Kept \in Seq(1 .. said)
  <2>1. end = 0 => B!Kept = <<>>
    BY <1>k
  <2>2. out \o <<>> = out
    BY <1>k
  <2> QED
    BY <1>a, <1>k, <2>1, <2>2
<1>m. ASSUME NEW to \in Where, pc' = [pc EXCEPT ![0] = to] PROVE pc' \in [{0} -> Where] /\ pc'[0] = to
  BY <1>m, <1>p
<1>h. "open" \in Where /\ "left" \in Where /\ "killed" \in Where
  OBVIOUS
<1> HIDE DEF Where
<1>1. CASE B!fopen_
  <2>1. /\ pc[0] = "start" /\ UNCHANGED <<buffer, end, out, said, twice>>
        /\ \/ pc' = [pc EXCEPT ![0] = "open"] /\ fp' \in 0 .. 3
           \/ pc' = [pc EXCEPT ![0] = "left"] /\ fp' = fp
    BY <1>1 DEF B!fopen_
  <2>3. /\ pc' \in [{0} -> Where]
        /\ pc'[0] = "open" \/ (pc'[0] = "left" /\ fp' = fp)
    <3>1. CASE pc' = [pc EXCEPT ![0] = "open"]
      <4>1. pc' \in [{0} -> Where] /\ pc'[0] = "open"
        BY <1>h, <1>m, <3>1
      <4> QED
        BY <4>1
    <3>2. CASE pc' = [pc EXCEPT ![0] = "left"] /\ fp' = fp
      BY <1>h, <1>m, <3>2
    <3> QED
      BY <2>1, <3>1, <3>2
  <2>4. fp' \in {0, 1, 2, 3, 99} /\ (fp' # 99 => pc'[0] = "open")
    BY <1>p, <2>1, <2>3
  <2>2. B!Kept' = B!Kept
    BY <2>1 DEF B!Kept
  <2> QED
    BY <1>a, <1>t, <1>w, <2>1, <2>2, <2>3, <2>4
<1>2. ASSUME NEW newline \in BOOLEAN, B!fputs_(newline) PROVE B!IInv'
  <2> DEFINE flush == fp = 1 /\ newline
             b == Append(B!Kept, said + 1)
  <2>1. /\ pc[0] = "open" /\ said' = said + 1 /\ said' \in 0 .. NumMessages /\ said' \in Nat
        /\ buffer' = b /\ end' = end + 1
        /\ out' = (IF flush THEN out \o b ELSE out) /\ twice' = (twice \/ flush)
        /\ UNCHANGED <<pc, fp>>
    BY <1>2, <1>a DEF B!fputs_
  <2>2. /\ b \in Seq(1 .. said') /\ Len(b) = end + 1 /\ b \in Seq(Nat)
        /\ out \in Seq(1 .. said') /\ out \o b \in Seq(1 .. said') /\ out \o b \in Seq(Nat)
    <3>1. Seq(1 .. said) \subseteq Seq(1 .. said') /\ said + 1 \in 1 .. said'
      <4>1. 1 .. said \subseteq 1 .. said' /\ said + 1 \in 1 .. said'
        BY <1>a, <2>1
      <4>2. \A X, Y : X \subseteq Y => Seq(X) \subseteq Seq(Y)
        OBVIOUS
      <4> QED
        BY <4>1, <4>2
    <3>2. B!Kept \in Seq(1 .. said') /\ out \in Seq(1 .. said')
      BY <1>a, <1>k, <3>1
    <3>3. b \in Seq(1 .. said') /\ Len(b) = end + 1
      BY <1>k, <3>1, <3>2, SMTT(30)
    <3>4. Seq(1 .. said') \subseteq Seq(Nat)
      BY <2>1
    <3> HIDE DEF b
    <3>5. out \o b \in Seq(1 .. said')
      BY <3>2, <3>3
    <3> QED
      BY <3>2, <3>3, <3>4, <3>5
  <2>3. B!Kept' = b
    <3>1. B!Kept' = SubSeq(b, 1, end + 1)
      BY <2>1 DEF B!Kept
    <3> HIDE DEF b
    <3> QED
      BY <2>2, <3>1
  <2>4. /\ buffer' \in Seq(1 .. said') /\ end' \in 0 .. Len(buffer') /\ out' \in Seq(1 .. said')
        /\ twice' \in BOOLEAN
    <3>1. flush \in BOOLEAN /\ twice' \in BOOLEAN
      BY <1>a, <2>1
    <3> HIDE DEF b, flush
    <3>2. end' \in 0 .. Len(buffer')
      BY <1>a, <2>1, <2>2
    <3> QED
      BY <2>1, <2>2, <3>1, <3>2
  <2>5. B!Range(out \o b) = B!Range(out \o B!Kept) \cup {said'}
    <3>1. B!Range(out \o b) = B!Range(out) \cup B!Range(b)
      BY <1>k, <2>2, RangeOfJoin
    <3>2. B!Range(b) = B!Range(B!Kept) \cup {said'}
      BY <1>k, <2>1, RangeOfAppend
    <3>3. B!Range(out \o B!Kept) = B!Range(out) \cup B!Range(B!Kept)
      BY <1>a, <1>k, RangeOfJoin
    <3> QED
      BY <3>1, <3>2, <3>3
  <2>6. ~twice => out \o b = F!upTo(said')
    BY <1>a, <1>k, <1>w, <2>1, OneMore
  <2>7. B!Range(out \o b) = 1 .. said'
    <3>1. B!Range(out \o B!Kept) = 1 .. said
      <4>1. CASE twice
        BY <1>w, <2>1, <4>1
      <4>2. CASE ~twice
        <5>1. out \o B!Kept = F!upTo(said)
          BY <1>w, <2>1, <4>2
        <5> QED
          BY <5>1 DEF F!upTo, B!Range
      <4> QED
        BY <4>1, <4>2
    <3>2. 1 .. said' = (1 .. said) \cup {said'}
      BY <1>a, <2>1
    <3> QED
      BY <2>5, <3>1, <3>2
  <2>8. ~twice' => out' \o B!Kept' = F!upTo(said') /\ B!IsPrefix(out', F!upTo(said'))
    <3> SUFFICES ASSUME ~twice' PROVE out' \o B!Kept' = F!upTo(said') /\ B!IsPrefix(out', F!upTo(said'))
      OBVIOUS
    <3>1. out' = out /\ out \o b = F!upTo(said')
      BY <2>1, <2>6
    <3>3. B!IsPrefix(out, out \o b)
      BY <1>k, <2>2, PrefixOfJoin
    <3> QED
      BY <2>3, <3>1, <3>3
  <2>9. B!Range(out' \o B!Kept') = 1 .. said'
    <3>1. CASE flush
      <4>1. out' \o B!Kept' = (out \o b) \o b
        BY <2>1, <2>3, <3>1
      <4>2. B!Range((out \o b) \o b) = B!Range(out \o b) \cup B!Range(b) /\ B!Range(out \o b) = B!Range(out) \cup B!Range(b)
        <5> HIDE DEF b
        <5> QED
          BY <1>k, <2>2, RangeOfJoin
      <4> QED
        BY <2>7, <4>1, <4>2
    <3>2. CASE ~flush
      BY <2>1, <2>3, <2>7, <3>2
    <3> QED
      BY <3>1, <3>2
  <2> QED
    BY <1>p, <1>t, <2>1, <2>4, <2>8, <2>9
<1>3. CASE B!fflush_ \/ B!fclose_
  <2>1. /\ pc[0] = "open" /\ out' = out \o B!Kept /\ end' = 0 /\ buffer' \in {buffer, <<>>}
        /\ UNCHANGED <<said, twice>>
        /\ UNCHANGED <<pc, fp>> \/ (pc' = [pc EXCEPT ![0] = "left"] /\ fp' = 99)
    <3>1. CASE B!fflush_
      <4>1. out' = out \o B!Kept
        BY <1>f, <3>1 DEF B!fflush_
      <4> QED
        BY <3>1, <4>1 DEF B!fflush_
    <3>2. CASE B!fclose_
      BY <1>f, <3>2 DEF B!fclose_
    <3> QED
      BY <1>3, <3>1, <3>2
  <2>6. pc' \in [{0} -> Where] /\ pc'[0] \in {"open", "left"} /\ fp' \in {0, 1, 2, 3, 99} /\ (fp' # 99 => pc'[0] = "open")
    <3>1. CASE UNCHANGED <<pc, fp>>
      BY <1>p, <2>1, <3>1
    <3>2. CASE pc' = [pc EXCEPT ![0] = "left"] /\ fp' = 99
      BY <1>h, <1>m, <3>2
    <3> QED
      BY <2>1, <3>1, <3>2
  <2>2. B!Kept' = <<>>
    BY <1>a, <2>1 DEF B!Kept
  <2>3. out' \o B!Kept' = out \o B!Kept
    BY <1>f, <2>1, <2>2
  <2>4. ~twice => B!IsPrefix(out', F!upTo(said))
    <3>1. B!IsPrefix(out', out' \o <<>>)
      <4>1. out' \in Seq(Nat) /\ <<>> \in Seq(Nat)
        BY <1>k, <2>1
      <4> QED
        BY <4>1, PrefixOfJoin
    <3> QED
      BY <1>w, <2>1, <2>2, <2>3, <3>1
  <2>5. buffer' \in Seq(1 .. said') /\ end' \in 0 .. Len(buffer') /\ out' \in Seq(1 .. said')
    <3>1. <<>> \in Seq(1 .. said) /\ Len(<<>>) \in Nat /\ Len(buffer) \in Nat
      BY <1>a
    <3>2. buffer' \in Seq(1 .. said') /\ out' \in Seq(1 .. said')
      BY <1>a, <1>f, <2>1, <3>1
    <3>3. Len(buffer') \in Nat
      BY <3>2
    <3> QED
      BY <2>1, <3>2, <3>3
  <2>7. said' \in 0 .. NumMessages /\ twice' \in BOOLEAN
    BY <1>a, <2>1
  <2>8. /\ ~twice' => out' \o B!Kept' = F!upTo(said') /\ B!IsPrefix(out', F!upTo(said'))
        /\ twice' => B!Range(out' \o B!Kept') = 1 .. said'
    BY <1>w, <2>1, <2>3, <2>4
  <2> QED
    BY <1>t, <2>2, <2>5, <2>6, <2>7, <2>8
<1>4. CASE B!Kill
  <2>1. /\ pc[0] = "open" /\ end' = 0 /\ buffer' = <<>> /\ fp' = 99
        /\ UNCHANGED <<out, said, twice>> /\ pc' \in [{0} -> Where] /\ pc'[0] = "killed"
    BY <1>4, <1>h, <1>m DEF B!Kill
  <2>2. B!Kept' = <<>> /\ buffer' \in Seq(1 .. said') /\ end' \in 0 .. Len(buffer')
    BY <2>1 DEF B!Kept
  <2> QED
    BY <1>a, <1>t, <1>w, <2>1, <2>2
<1>5. CASE UNCHANGED <<pc, out, forBuffer>>
  <2>1. UNCHANGED <<pc, out, fp, buffer, end, said, twice>>
    BY <1>5 DEF forBuffer
  <2>2. B!Kept' = B!Kept
    BY <2>1 DEF B!Kept
  <2> QED
    BY <1>a, <1>p, <1>t, <1>w, <2>1, <2>2
<1> QED
  BY <1>1, <1>2, <1>3, <1>4, <1>5 DEF B!Next

-----------------------------------------------------------------------------
(***************************************************************************)
(* Tickets.                                                                *)
(***************************************************************************)
LEMMA Threads == /\ 0 .. NumThreads = {0} \cup T!Threads /\ 0 \notin T!Threads /\ 1 \in T!Threads
                 /\ NumThreads = 3 => T!Threads = {1, 2, 3}
                 /\ T!Numbers = -Total - 1 .. Total
BY MCDemosAssumption DEF T!Threads, T!Numbers

LEMMA TicketsInit == T!Init => T!IInv
<1> SUFFICES ASSUME T!Init PROVE T!IInv
  OBVIOUS
<1>1. /\ pc \in [{0} \cup T!Threads -> {"create", "none"}]
      /\ pc[0] = "create" /\ \A t \in T!Threads : pc[t] = "none"
      /\ locked \in BOOLEAN /\ (~locked => NumThreads = 3)
      /\ tickets = Total /\ mtx = 0 /\ reg = [t \in T!Threads |-> 0]
      /\ sold = [m \in T!Numbers |-> 0]
  BY Threads DEF T!Init
<1>2. Total \in Nat \ {0}
  BY MCDemosAssumption
<1>3. T!TypeOK
  <2>1. Total \in T!Numbers /\ 0 \in T!Numbers
    BY <1>2, Threads
  <2> QED
    BY <1>1, <1>2, <2>1, Threads DEF T!TypeOK
<1>4. T!Places
  BY <1>1, Threads DEF T!Places
<1>5. T!InOrder
  <2>1. \A m \in T!Numbers : sold[m] = 0 /\ ~(m > Total)
    BY <1>1, <1>2, Threads
  <2> QED
    BY <1>1, <1>2, <2>1, Threads DEF T!InOrder, T!selling, T!storing
<1>6. T!Bounded
  <2>1. -Total - 1 \in T!Numbers
    BY <1>2, Threads
  <2>2. sold[-Total - 1] = 0
    BY <1>1, <2>1
  <2> QED
    BY <1>1, <1>2, <2>2, Threads DEF T!Bounded, T!Near, T!Far, T!above, T!storing, T!selling
<1> QED
  BY <1>3, <1>4, <1>5, <1>6 DEF T!IInv

\* Without the lock, in terms of the counter, of who sells and of what the others store:
\* the counter and the late stores keep their distance.
LEMMA Distance ==
    ASSUME T!Bounded, ~locked, Total \in Nat \ {0}, tickets \in Int, \A t \in T!Threads : reg[t] \in Int
    PROVE  /\ tickets <= Total /\ \A t \in T!Threads : T!storing(t) => reg[t] - 1 < Total
           /\ tickets >= -Total - 1 /\ \A t \in T!Threads : T!storing(t) => reg[t] - 1 >= -Total - 1
           /\ \A t \in T!Threads : T!selling(t) => tickets # -Total - 1
BY Threads DEF T!Bounded, T!Near, T!Far, T!above, T!late, T!selling, T!storing

\* The same, of the counter k and three threads that are at x, y and z and have lx, ly
\* and lz to store.
Apart(k, x, lx, y, ly, z, lz) ==
    LET selling(w) == w \in {"print", "load"}
        low(b) == k >= b /\ (x = "store" => lx >= b) /\ (y = "store" => ly >= b) /\ (z = "store" => lz >= b)
    IN  /\ k <= Total /\ (x = "store" => lx < Total) /\ (y = "store" => ly < Total) /\ (z = "store" => lz < Total)
        /\ k > 0 => /\ low(k - Total)
                    /\ x = "store" => low(lx + 1 - Total)
                    /\ y = "store" => low(ly + 1 - Total)
                    /\ z = "store" => low(lz + 1 - Total)
        /\ k <= 0 => /\ \E w \in {x, y, z} : ~selling(w) /\ w # "store"
                     /\ low(-Total - 1)
                     /\ selling(x) \/ selling(y) \/ selling(z) => low(-Total)
                     /\ (selling(x) /\ selling(y)) \/ (selling(y) /\ selling(z)) \/ (selling(z) /\ selling(x)) =>
                            low(1 - Total)
                     /\ x = "store" /\ lx > 0 => low(lx - Total) /\ (selling(y) \/ selling(z) => low(lx + 1 - Total))
                     /\ y = "store" /\ ly > 0 => low(ly - Total) /\ (selling(z) \/ selling(x) => low(ly + 1 - Total))
                     /\ z = "store" /\ lz > 0 => low(lz - Total) /\ (selling(x) \/ selling(y) => low(lz + 1 - Total))

LEMMA ApartTest ==
    ASSUME Total \in Nat \ {0}, NEW k \in Int, NEW x, NEW lx \in Int, NEW y, NEW ly \in Int, NEW z, NEW lz \in Int,
           Apart(k, x, lx, y, ly, z, lz), x = "test"
    PROVE  Apart(k, IF k > 0 THEN "print" ELSE "left", lx, y, ly, z, lz)
BY DEF Apart

LEMMA ApartLoad ==
    ASSUME Total \in Nat \ {0}, NEW k \in Int, NEW x, NEW lx \in Int, NEW y, NEW ly \in Int, NEW z, NEW lz \in Int,
           Apart(k, x, lx, y, ly, z, lz), x = "load"
    PROVE  Apart(k, "store", k - 1, y, ly, z, lz)
BY DEF Apart

LEMMA ApartStore ==
    ASSUME Total \in Nat \ {0}, NEW k \in Int, NEW x, NEW lx \in Int, NEW y, NEW ly \in Int, NEW z, NEW lz \in Int,
           Apart(k, x, lx, y, ly, z, lz), x = "store"
    PROVE  Apart(lx, "test", lx, y, ly, z, lz)
BY DEF Apart

LEMMA ApartTurn ==
    ASSUME Total \in Nat \ {0}, NEW k \in Int, NEW x, NEW lx \in Int, NEW y, NEW ly \in Int, NEW z, NEW lz \in Int,
           Apart(k, x, lx, y, ly, z, lz)
    PROVE  Apart(k, y, ly, x, lx, z, lz) /\ Apart(k, z, lz, y, ly, x, lx)
BY DEF Apart

LEMMA BoundedIsApart ==
    ASSUME ~locked, NumThreads = 3, Total \in Nat \ {0}, tickets \in Int, \A t \in {1, 2, 3} : reg[t] \in Int
    PROVE  T!Bounded <=> /\ Apart(tickets, pc[1], reg[1] - 1, pc[2], reg[2] - 1, pc[3], reg[3] - 1)
                         /\ sold[-Total - 1] = 0
<1>1. T!Threads = {1, 2, 3}
  BY Threads
<1> QED
  BY <1>1, SMTT(60) DEF Apart, T!Bounded, T!Near, T!Far, T!above, T!late, T!selling, T!storing

LEMMA ApartIsBounded ==
    ASSUME ~locked', NumThreads = 3, Total \in Nat \ {0}, tickets' \in Int, \A t \in {1, 2, 3} : reg'[t] \in Int,
           Apart(tickets', pc'[1], reg'[1] - 1, pc'[2], reg'[2] - 1, pc'[3], reg'[3] - 1), sold'[-Total - 1] = 0
    PROVE  T!Bounded'
<1>1. T!Threads = {1, 2, 3}
  BY Threads
<1> QED
  BY <1>1, ZenonT(60) DEF Apart, T!Bounded, T!Near, T!Far, T!above, T!late, T!selling, T!storing

\* A step of one thread, whatever the other two do.
LEMMA BoundedStep ==
    ASSUME T!Bounded, ~locked, ~locked', Total \in Nat \ {0}, tickets \in Int, tickets' \in Int,
           \A u \in T!Threads : reg[u] \in Int /\ reg'[u] \in Int, sold'[-Total - 1] = 0,
           NEW t \in T!Threads, \A u \in T!Threads \ {t} : pc'[u] = pc[u] /\ reg'[u] = reg[u],
           \A y, z : \A ly, lz \in Int : Apart(tickets, pc[t], reg[t] - 1, y, ly, z, lz)
                                       => Apart(tickets', pc'[t], reg'[t] - 1, y, ly, z, lz)
    PROVE  T!Bounded'
<1>0. NumThreads = 3 /\ T!Threads = {1, 2, 3}
  BY Threads DEF T!Bounded
<1>1. \A u \in {1, 2, 3} : reg[u] - 1 \in Int /\ reg'[u] - 1 \in Int
  BY <1>0
<1>2. Apart(tickets, pc[1], reg[1] - 1, pc[2], reg[2] - 1, pc[3], reg[3] - 1)
  BY <1>0, BoundedIsApart
<1>3. CASE t = 1
  <2>1. Apart(tickets', pc'[1], reg'[1] - 1, pc[2], reg[2] - 1, pc[3], reg[3] - 1)
    BY <1>1, <1>2, <1>3
  <2>2. pc'[2] = pc[2] /\ reg'[2] = reg[2] /\ pc'[3] = pc[3] /\ reg'[3] = reg[3]
    BY <1>0, <1>3
  <2> QED
    BY <2>1, <2>2, <1>0, ApartIsBounded
<1>4. CASE t = 2
  <2>1. Apart(tickets, pc[2], reg[2] - 1, pc[1], reg[1] - 1, pc[3], reg[3] - 1)
    BY <1>1, <1>2, ApartTurn
  <2>2. Apart(tickets', pc'[2], reg'[2] - 1, pc[1], reg[1] - 1, pc[3], reg[3] - 1)
    BY <1>1, <1>4, <2>1
  <2>3. Apart(tickets', pc[1], reg[1] - 1, pc'[2], reg'[2] - 1, pc[3], reg[3] - 1)
    BY <1>1, <2>2, ApartTurn
  <2>4. pc'[1] = pc[1] /\ reg'[1] = reg[1] /\ pc'[3] = pc[3] /\ reg'[3] = reg[3]
    BY <1>0, <1>4
  <2> QED
    BY <2>3, <2>4, <1>0, ApartIsBounded
<1>5. CASE t = 3
  <2>1. Apart(tickets, pc[3], reg[3] - 1, pc[2], reg[2] - 1, pc[1], reg[1] - 1)
    BY <1>1, <1>2, ApartTurn
  <2>2. Apart(tickets', pc'[3], reg'[3] - 1, pc[2], reg[2] - 1, pc[1], reg[1] - 1)
    BY <1>1, <1>5, <2>1
  <2>3. Apart(tickets', pc[1], reg[1] - 1, pc[2], reg[2] - 1, pc'[3], reg'[3] - 1)
    BY <1>1, <2>2, ApartTurn
  <2>4. pc'[1] = pc[1] /\ reg'[1] = reg[1] /\ pc'[2] = pc[2] /\ reg'[2] = reg[2]
    BY <1>0, <1>5
  <2> QED
    BY <2>3, <2>4, <1>0, ApartIsBounded
<1> QED
  BY <1>0, <1>3, <1>4, <1>5

LEMMA ApartOther ==
    ASSUME Total \in Nat \ {0}, NEW k \in Int, NEW x, NEW lx \in Int, NEW y, NEW ly \in Int, NEW z, NEW lz \in Int,
           Apart(k, x, lx, y, ly, z, lz), NEW w, (x = "none" /\ w = "test") \/ (x = "print" /\ w = "load")
    PROVE  Apart(k, w, lx, y, ly, z, lz)
BY DEF Apart

LEMMA TicketsNext == T!IInv /\ [T!Next]_<<pc, mtx, forTickets>> => T!IInv'
<1> SUFFICES ASSUME T!IInv, [T!Next]_<<pc, mtx, forTickets>> PROVE T!IInv'
  OBVIOUS
<1> DEFINE Where == {"create", "join", "none", "lock", "test", "print", "load", "store", "unlock", "last", "left"}
           Inside == {"test", "print", "load", "store", "unlock", "last"}
           Taking == {"load", "store"}
           All == {0} \cup T!Threads
<1>0. Total \in Nat \ {0} /\ 0 \notin T!Threads /\ T!Numbers = -Total - 1 .. Total /\ T!Numbers \subseteq Int
  BY MCDemosAssumption, Threads
<1>a. /\ pc \in [All -> Where] /\ locked \in BOOLEAN /\ mtx \in All /\ tickets \in T!Numbers
      /\ reg \in [T!Threads -> T!Numbers] /\ sold \in [T!Numbers -> 0 .. 2]
  BY Threads DEF T!IInv, T!TypeOK, T!Places
<1>i. tickets \in Int /\ \A t \in T!Threads : reg[t] \in Int
  BY <1>0, <1>a
<1>b. /\ pc[0] \in {"create", "join", "left"}
      /\ \A t \in T!Threads : /\ pc[t] \notin {"create", "join"}
                              /\ ~locked => pc[t] \notin {"lock", "unlock", "last"}
                              /\ pc[0] = "left" => pc[t] = "left"
      /\ locked => \A t \in T!Threads : pc[t] \in Inside <=> mtx = t
  BY Threads DEF T!IInv, T!TypeOK, T!Places
<1>c. T!InOrder /\ T!Bounded
  BY DEF T!IInv
<1>t. ASSUME pc' \in [All -> Where], locked' = locked, mtx' \in All, tickets' \in T!Numbers,
             reg' \in [T!Threads -> T!Numbers], sold' \in [T!Numbers -> 0 .. 2],
             pc'[0] \in {"create", "join", "left"},
             \A t \in T!Threads : /\ pc'[t] \notin {"create", "join"}
                                  /\ ~locked => pc'[t] \notin {"lock", "unlock", "last"}
                                  /\ pc'[0] = "left" => pc'[t] = "left",
             locked => \A t \in T!Threads : pc'[t] \in Inside <=> mtx' = t,
             locked => T!InOrder', ~locked => T!Bounded'
      PROVE  T!IInv'
  <2>1. T!Places'
    BY <1>t, Threads DEF T!Places
  <2>2. T!InOrder' /\ T!Bounded'
    BY <1>t DEF T!InOrder, T!Bounded
  <2>3. T!TypeOK'
    BY <1>t, <1>a, Threads DEF T!TypeOK
  <2> QED
    BY <2>1, <2>2, <2>3 DEF T!IInv
\* A thread moves.
<1>m. ASSUME NEW t \in T!Threads, NEW to \in Where, pc' = [pc EXCEPT ![t] = to]
      PROVE  pc' \in [All -> Where] /\ pc'[t] = to /\ \A u \in All \ {t} : pc'[u] = pc[u]
  BY <1>m, <1>a
<1>h. /\ "lock" \in Where /\ "test" \in Where /\ "print" \in Where /\ "load" \in Where /\ "store" \in Where
      /\ "unlock" \in Where /\ "last" \in Where /\ "left" \in Where
  OBVIOUS
\* The order of the tickets, when all but t are outside the section, or do not take one.
<1>o. ASSUME locked, NEW t \in T!Threads, \A u \in T!Threads \ {t} : pc[u] \notin Taking
      PROVE  LET rest == IF pc[t] \in Taking THEN tickets - 1 ELSE tickets
             IN  /\ \A m \in T!Numbers : sold[m] = (IF m > rest THEN 1 ELSE 0)
                 /\ rest >= 0
                 /\ \A u \in T!Threads : /\ pc[u] \in {"print", "load", "store"} => tickets > 0
                                         /\ pc[u] = "store" => reg[u] = tickets
                                         /\ pc[u] \in {"last", "left"} => tickets = 0
  <2>1. (\E u \in T!Threads : pc[u] \in {"load", "store"}) <=> pc[t] \in Taking
    BY <1>o, Threads
  <2> QED
    BY <1>c, <1>o, <2>1, Threads DEF T!InOrder, T!selling, T!storing
<1>n. ASSUME locked' = locked, locked, NEW t \in T!Threads, \A u \in T!Threads \ {t} : pc'[u] \notin Taking,
             LET rest == IF pc'[t] \in Taking THEN tickets' - 1 ELSE tickets'
             IN  /\ \A m \in T!Numbers : sold'[m] = (IF m > rest THEN 1 ELSE 0)
                 /\ rest >= 0
                 /\ \A u \in T!Threads : /\ pc'[u] \in {"print", "load", "store"} => tickets' > 0
                                         /\ pc'[u] = "store" => reg'[u] = tickets'
                                         /\ pc'[u] \in {"last", "left"} => tickets' = 0
      PROVE  T!InOrder'
  <2>1. (\E u \in T!Threads : pc'[u] \in {"load", "store"}) <=> pc'[t] \in Taking
    BY <1>n, Threads
  <2> QED
    BY <1>n, <2>1, Threads DEF T!InOrder, T!selling, T!storing
\* A number that is not the last is never printed without the lock.
<1>d. ~locked => /\ sold[-Total - 1] = 0
                 /\ \A t \in T!Threads : T!storing(t) => reg[t] - 1 \in T!Numbers
                 /\ \A t \in T!Threads : T!selling(t) => tickets # -Total - 1
  <2>1. ~locked => sold[-Total - 1] = 0
    BY <1>c DEF T!Bounded
  <2> QED
    BY <1>0, <1>c, <1>i, <2>1, Distance
\* A step that neither finds a ticket nor takes one.
<1> DEFINE Aside(u) == \/ pc'[u] = pc[u]
                       \/ pc[u] \in {"none", "lock", "unlock"} /\ pc'[u] \in {"lock", "test"}
                       \/ pc[u] = "last" /\ pc'[u] = "left"
<1>e. ASSUME locked, UNCHANGED <<locked, tickets, reg, sold>>, \A u \in T!Threads : Aside(u)
      PROVE  T!InOrder'
  <2>1. PICK t \in T!Threads : \A u \in T!Threads \ {t} : pc[u] \notin Taking
    <3>1. PICK t \in T!Threads : mtx # 0 => t = mtx
      BY <1>a, Threads
    <3>2. \A u \in T!Threads \ {t} : pc[u] \notin Inside
      BY <1>0, <1>b, <1>e, <3>1
    <3> QED
      BY <3>2
  <2>2. (pc'[t] \in Taking <=> pc[t] \in Taking) /\ \A u \in T!Threads \ {t} : pc'[u] \notin Taking
    BY <1>e, <2>1
  <2> HIDE DEF Taking
  <2> QED
    BY <1>e, <1>n, <1>o, <2>1, <2>2
<1> HIDE DEF Where
<1>1. ASSUME NEW t \in T!Threads, T!Create(t) PROVE T!IInv'
  <2>1. /\ pc[0] = "create" /\ pc[t] = "none" /\ UNCHANGED <<locked, tickets, mtx, reg, sold>>
        /\ pc' \in [All -> Where] /\ pc'[0] \in {"create", "join"}
        /\ pc'[t] = (IF locked THEN "lock" ELSE "test") /\ \A u \in T!Threads \ {t} : pc'[u] = pc[u]
    BY <1>0, <1>1, <1>a DEF T!Create, T!top, Where
  <2>2. locked => T!InOrder'
    <3>1. \A u \in T!Threads : Aside(u)
      BY <2>1
    <3> HIDE DEF Aside
    <3> QED
      BY <1>e, <2>1, <3>1
  <2>3. ~locked => T!Bounded'
    <3> SUFFICES ASSUME ~locked PROVE T!Bounded'
      OBVIOUS
    <3>1. ASSUME NEW y, NEW z, NEW ly \in Int, NEW lz \in Int, Apart(tickets, pc[t], reg[t] - 1, y, ly, z, lz)
          PROVE  Apart(tickets', pc'[t], reg'[t] - 1, y, ly, z, lz)
      BY <1>0, <1>i, <2>1, <3>1, ApartOther
    <3> QED
      BY <1>0, <1>c, <1>d, <1>i, <2>1, <3>1, BoundedStep
  <2> QED
    BY <1>a, <1>b, <1>t, <2>1, <2>2, <2>3
<1>2. CASE T!Join
  <2>1. /\ \A u \in T!Threads : pc[u] = "left" /\ pc'[u] = pc[u]
        /\ UNCHANGED <<locked, tickets, mtx, reg, sold>> /\ pc' \in [All -> Where] /\ pc'[0] = "left"
    BY <1>2, <1>a, <1>h, Threads DEF T!Join, T!Goto
  <2>2. locked => T!InOrder'
    <3>1. \A u \in T!Threads : Aside(u)
      BY <2>1
    <3> HIDE DEF Aside
    <3> QED
      BY <1>e, <2>1, <3>1
  <2>3. ~locked => T!Bounded'
    BY <1>0, <1>c, <1>d, <1>i, <2>1, BoundedStep, Threads
  <2> QED
    BY <1>a, <1>b, <1>t, <2>1, <2>2, <2>3
<1>3. ASSUME NEW t \in T!Threads, T!Lock(t) PROVE T!IInv'
  <2>1. /\ pc[t] = "lock" /\ mtx = 0 /\ mtx' = t /\ UNCHANGED <<locked, tickets, reg, sold>>
        /\ pc' \in [All -> Where] /\ pc'[t] = "test" /\ \A u \in All \ {t} : pc'[u] = pc[u]
    BY <1>3, <1>h, <1>m DEF T!Lock, T!Goto
  <2>2. locked /\ T!InOrder'
    <3>1. \A u \in T!Threads : Aside(u)
      BY <2>1
    <3> HIDE DEF Aside
    <3> QED
      BY <1>b, <1>e, <2>1, <3>1
  <2> QED
    BY <1>a, <1>b, <1>t, <2>1, <2>2
<1>4. ASSUME NEW t \in T!Threads, T!Test(t) PROVE T!IInv'
  <2>1. /\ pc[t] = "test" /\ UNCHANGED <<locked, tickets, mtx, reg, sold>>
        /\ pc' \in [All -> Where] /\ \A u \in All \ {t} : pc'[u] = pc[u]
        /\ pc'[t] = IF tickets > 0 THEN "print" ELSE IF locked THEN "last" ELSE "left"
    <3> DEFINE to == IF tickets > 0 THEN "print" ELSE IF locked THEN "last" ELSE "left"
    <3>1. tickets > 0 <=> ~(tickets <= 0)
      BY <1>i
    <3>2. pc[t] = "test" /\ pc' = [pc EXCEPT ![t] = to] /\ UNCHANGED <<locked, tickets, mtx, reg, sold>>
      BY <1>4, <1>a, <3>1 DEF T!Test, T!Goto
    <3>3. to \in Where
      BY <1>h
    <3> HIDE DEF to
    <3>4. pc' \in [All -> Where] /\ pc'[t] = to /\ \A u \in All \ {t} : pc'[u] = pc[u]
      BY <1>m, <3>2, <3>3
    <3> QED
      BY <3>2, <3>4 DEF to
  <2>2. locked => T!InOrder'
    <3> SUFFICES ASSUME locked PROVE T!InOrder'
      OBVIOUS
    <3>1. \A u \in T!Threads \ {t} : pc[u] \notin Inside
      BY <1>b, <2>1
    <3>2. pc[t] \notin Taking /\ pc'[t] \notin Taking /\ \A u \in T!Threads \ {t} : pc[u] \notin Taking /\ pc'[u] \notin Taking
      BY <2>1, <3>1
    <3>3. /\ \A m \in T!Numbers : sold[m] = (IF m > tickets THEN 1 ELSE 0)
          /\ tickets >= 0 /\ \A u \in T!Threads : pc[u] \in {"last", "left"} => tickets = 0
      BY <1>o, <3>2
    <3>4. \A u \in T!Threads : pc'[u] \in {"print", "load", "store"} => tickets > 0
      BY <1>i, <2>1, <3>1
    <3>5. \A u \in T!Threads : pc'[u] # "store"
      BY <2>1, <3>1
    <3>6. ASSUME NEW u \in T!Threads, pc'[u] \in {"last", "left"} PROVE tickets = 0
      <4>1. CASE u = t
        BY <1>i, <2>1, <3>3, <3>6, <4>1
      <4>2. CASE u # t
        <5>1. pc'[u] = pc[u]
          BY <2>1, <4>2
        <5> QED
          BY <3>3, <3>6, <5>1
      <4> QED
        BY <4>1, <4>2
    <3> HIDE DEF Taking, Inside
    <3> QED
      BY <1>n, <2>1, <3>2, <3>3, <3>4, <3>5, <3>6
  <2>3. ~locked => T!Bounded'
    <3> SUFFICES ASSUME ~locked PROVE T!Bounded'
      OBVIOUS
    <3>1. ASSUME NEW y, NEW z, NEW ly \in Int, NEW lz \in Int, Apart(tickets, pc[t], reg[t] - 1, y, ly, z, lz)
          PROVE  Apart(tickets', pc'[t], reg'[t] - 1, y, ly, z, lz)
      <4>1. pc'[t] = IF tickets > 0 THEN "print" ELSE "left"
        BY <2>1
      <4> QED
        BY <1>0, <1>i, <2>1, <3>1, <4>1, ApartTest
    <3> QED
      BY <1>0, <1>c, <1>d, <1>i, <2>1, <3>1, BoundedStep
  <2> QED
    BY <1>a, <1>b, <1>t, <2>1, <2>2, <2>3
<1>5. ASSUME NEW t \in T!Threads, T!Sell(t) PROVE T!IInv'
  <2>1. /\ pc[t] = "print" /\ UNCHANGED <<locked, tickets, mtx, reg>>
        /\ pc' \in [All -> Where] /\ pc'[t] = "load" /\ \A u \in All \ {t} : pc'[u] = pc[u]
        /\ sold' = [sold EXCEPT ![tickets] = IF sold[tickets] = 0 THEN 1 ELSE 2]
    BY <1>5, <1>h, <1>m DEF T!Sell, T!Goto
  <2>2. sold' \in [T!Numbers -> 0 .. 2]
    BY <1>a, <2>1
  <2>3. locked => T!InOrder'
    <3> SUFFICES ASSUME locked PROVE T!InOrder'
      OBVIOUS
    <3>1. \A u \in T!Threads \ {t} : pc[u] \notin Inside
      BY <1>b, <2>1
    <3>2. /\ pc[t] \notin Taking /\ pc'[t] \in Taking
          /\ \A u \in T!Threads \ {t} : pc[u] \notin Taking /\ pc'[u] \notin Taking
      BY <2>1, <3>1
    <3>3. /\ \A m \in T!Numbers : sold[m] = (IF m > tickets THEN 1 ELSE 0)
          /\ tickets > 0 /\ \A u \in T!Threads : pc[u] \in {"last", "left"} => tickets = 0
      BY <1>o, <2>1, <3>2
    <3>4. \A m \in T!Numbers : sold'[m] = (IF m > tickets - 1 THEN 1 ELSE 0)
      BY <1>0, <1>a, <1>i, <2>1, <3>3
    <3>5. \A u \in T!Threads : pc'[u] # "store" /\ (pc'[u] \in {"last", "left"} => tickets = 0)
      BY <2>1, <3>1, <3>3
    <3>6. tickets - 1 >= 0
      BY <1>i, <3>3
    <3> HIDE DEF Taking, Inside
    <3> QED
      BY <1>n, <2>1, <3>2, <3>3, <3>4, <3>5, <3>6
  <2>4. ~locked => T!Bounded'
    <3>1. ~locked => sold'[-Total - 1] = 0
      <4>1. T!selling(t) /\ -Total - 1 \in T!Numbers
        BY <1>0, <2>1 DEF T!selling
      <4> QED
        BY <1>a, <1>d, <2>1, <4>1
    <3>2. ASSUME NEW y, NEW z, NEW ly \in Int, NEW lz \in Int, Apart(tickets, pc[t], reg[t] - 1, y, ly, z, lz)
          PROVE  Apart(tickets', pc'[t], reg'[t] - 1, y, ly, z, lz)
      BY <1>0, <1>i, <2>1, <3>2, ApartOther
    <3> QED
      BY <1>0, <1>c, <1>i, <2>1, <3>1, <3>2, BoundedStep
  <2> QED
    BY <1>a, <1>b, <1>t, <2>1, <2>2, <2>3, <2>4
<1>6. ASSUME NEW t \in T!Threads, T!Load(t) PROVE T!IInv'
  <2>1. /\ pc[t] = "load" /\ UNCHANGED <<locked, tickets, mtx, sold>>
        /\ pc' \in [All -> Where] /\ pc'[t] = "store" /\ \A u \in All \ {t} : pc'[u] = pc[u]
        /\ reg' = [reg EXCEPT ![t] = tickets]
    BY <1>6, <1>h, <1>m DEF T!Load, T!Goto
  <2>2. /\ reg' \in [T!Threads -> T!Numbers] /\ reg'[t] = tickets
        /\ \A u \in T!Threads \ {t} : reg'[u] = reg[u]
        /\ \A u \in T!Threads : reg'[u] \in Int
    BY <1>0, <1>a, <2>1
  <2>3. locked => T!InOrder'
    <3> SUFFICES ASSUME locked PROVE T!InOrder'
      OBVIOUS
    <3>1. \A u \in T!Threads \ {t} : pc[u] \notin Inside
      BY <1>b, <2>1
    <3>2. /\ pc[t] \in Taking /\ pc'[t] \in Taking
          /\ \A u \in T!Threads \ {t} : pc[u] \notin Taking /\ pc'[u] \notin Taking
      BY <2>1, <3>1
    <3>3. /\ \A m \in T!Numbers : sold[m] = (IF m > tickets - 1 THEN 1 ELSE 0)
          /\ tickets - 1 >= 0 /\ tickets > 0
          /\ \A u \in T!Threads : pc[u] \in {"last", "left"} => tickets = 0
      BY <1>o, <2>1, <3>2
    <3>5. \A u \in T!Threads : (pc'[u] = "store" => u = t) /\ (pc'[u] \in {"last", "left"} => tickets = 0)
      BY <2>1, <3>1, <3>3
    <3> HIDE DEF Taking, Inside
    <3> QED
      BY <1>n, <2>1, <2>2, <3>2, <3>3, <3>5
  <2>4. ~locked => T!Bounded'
    <3> SUFFICES ASSUME ~locked PROVE T!Bounded'
      OBVIOUS
    <3>1. ASSUME NEW y, NEW z, NEW ly \in Int, NEW lz \in Int, Apart(tickets, pc[t], reg[t] - 1, y, ly, z, lz)
          PROVE  Apart(tickets', pc'[t], reg'[t] - 1, y, ly, z, lz)
      BY <1>0, <1>i, <2>1, <2>2, <3>1, ApartLoad
    <3> QED
      BY <1>0, <1>c, <1>d, <1>i, <2>1, <2>2, <3>1, BoundedStep
  <2> QED
    BY <1>a, <1>b, <1>t, <2>1, <2>2, <2>3, <2>4
<1>7. ASSUME NEW t \in T!Threads, T!Store(t) PROVE T!IInv'
  <2>1. /\ pc[t] = "store" /\ tickets' = reg[t] - 1 /\ UNCHANGED <<locked, mtx, reg, sold>>
        /\ pc' \in [All -> Where] /\ pc'[t] = (IF locked THEN "unlock" ELSE "test")
        /\ \A u \in All \ {t} : pc'[u] = pc[u]
    <3> DEFINE to == IF locked THEN "unlock" ELSE "test"
    <3>1. to \in Where
      BY <1>h
    <3>2. pc[t] = "store" /\ pc' = [pc EXCEPT ![t] = to] /\ tickets' = reg[t] - 1 /\ UNCHANGED <<locked, mtx, reg, sold>>
      BY <1>7 DEF T!Store, T!Goto, T!top
    <3> HIDE DEF to
    <3>3. pc' \in [All -> Where] /\ pc'[t] = to /\ \A u \in All \ {t} : pc'[u] = pc[u]
      BY <1>m, <3>1, <3>2
    <3> QED
      BY <3>2, <3>3 DEF to
  <2>2. locked => T!InOrder' /\ tickets' \in T!Numbers
    <3> SUFFICES ASSUME locked PROVE T!InOrder' /\ tickets' \in T!Numbers
      OBVIOUS
    <3>1. \A u \in T!Threads \ {t} : pc[u] \notin Inside
      BY <1>b, <2>1
    <3>2. /\ pc[t] \in Taking /\ pc'[t] \notin Taking
          /\ \A u \in T!Threads \ {t} : pc[u] \notin Taking /\ pc'[u] \notin Taking
      BY <2>1, <3>1
    <3>3. /\ \A m \in T!Numbers : sold[m] = (IF m > tickets - 1 THEN 1 ELSE 0)
          /\ tickets - 1 >= 0 /\ reg[t] = tickets /\ tickets > 0
          /\ \A u \in T!Threads : pc[u] \notin {"last", "left"}
      BY <1>i, <1>o, <2>1, <3>2
    <3>4. tickets' = tickets - 1 /\ tickets' \in T!Numbers
      BY <1>0, <1>a, <1>i, <2>1, <3>3
    <3>5. \A u \in T!Threads : pc'[u] \notin {"print", "load", "store", "last", "left"}
      BY <2>1, <3>1, <3>3
    <3> HIDE DEF Taking, Inside
    <3> QED
      BY <1>n, <2>1, <3>2, <3>3, <3>4, <3>5
  <2>3. ~locked => T!Bounded' /\ tickets' \in T!Numbers
    <3> SUFFICES ASSUME ~locked PROVE T!Bounded' /\ tickets' \in T!Numbers
      OBVIOUS
    <3>1. tickets' \in T!Numbers
      BY <1>d, <2>1 DEF T!storing
    <3>2. tickets' \in Int /\ sold'[-Total - 1] = 0 /\ pc'[t] = "test"
      BY <1>0, <1>d, <2>1, <3>1
    <3>3. ASSUME NEW y, NEW z, NEW ly \in Int, NEW lz \in Int, Apart(tickets, pc[t], reg[t] - 1, y, ly, z, lz)
          PROVE  Apart(tickets', pc'[t], reg'[t] - 1, y, ly, z, lz)
      BY <1>0, <1>i, <2>1, <3>2, <3>3, ApartStore
    <3> QED
      BY <1>0, <1>c, <1>i, <2>1, <3>1, <3>2, <3>3, BoundedStep
  <2> QED
    BY <1>a, <1>b, <1>t, <2>1, <2>2, <2>3
<1>8. ASSUME NEW t \in T!Threads, T!Unlock(t) PROVE T!IInv'
  <2>1. PICK to \in {"lock", "left"} :
           /\ pc' = [pc EXCEPT ![t] = to] /\ mtx' = 0 /\ UNCHANGED <<locked, tickets, reg, sold>>
           /\ (pc[t] = "unlock" /\ to = "lock") \/ (pc[t] = "last" /\ to = "left")
    BY <1>8, <1>b DEF T!Unlock, T!Goto, T!top
  <2>2. /\ pc' \in [All -> Where] /\ pc'[t] = to /\ \A u \in All \ {t} : pc'[u] = pc[u]
    BY <1>h, <1>m, <2>1
  <2>3. locked /\ T!InOrder'
    <3>1. \A u \in T!Threads : Aside(u)
      BY <2>1, <2>2
    <3> HIDE DEF Aside
    <3> QED
      BY <1>b, <1>e, <2>1, <2>2, <3>1
  <2>4. \A u \in T!Threads : pc'[u] \notin Inside
    BY <1>b, <2>1, <2>2, <2>3
  <2> QED
    BY <1>a, <1>b, <1>t, <2>1, <2>2, <2>3, <2>4
<1>9. CASE UNCHANGED <<pc, mtx, forTickets>>
  <2>1. UNCHANGED <<pc, mtx, locked, tickets, reg, sold>>
    BY <1>9 DEF forTickets
  <2>2. locked => T!InOrder'
    <3>1. \A u \in T!Threads : Aside(u)
      BY <2>1
    <3> HIDE DEF Aside
    <3> QED
      BY <1>e, <2>1, <3>1
  <2>3. ~locked => T!Bounded'
    BY <1>0, <1>c, <1>d, <1>i, <2>1, BoundedStep, Threads
  <2> QED
    BY <1>a, <1>b, <1>t, <2>1, <2>2, <2>3
<1> QED
  BY <1>1, <1>2, <1>3, <1>4, <1>5, <1>6, <1>7, <1>8, <1>9, Threads DEF T!Next, T!Thread

LEMMA TicketsSafe == T!IInv => T!SoldOnce
<1> SUFFICES ASSUME T!IInv PROVE T!SoldOnce
  OBVIOUS
<1>1. sold[-Total - 1] = 0
  <2>1. CASE locked
    <3>1. PICK rest \in Int : rest >= 0 /\ \A m \in T!Numbers : sold[m] = (IF m > rest THEN 1 ELSE 0)
      <4>1. tickets \in Int /\ tickets - 1 \in Int
        BY MCDemosAssumption, Threads DEF T!IInv, T!TypeOK
      <4> DEFINE taken == \E t \in T!Threads : pc[t] \in {"load", "store"}
      <4>2. CASE taken
        BY <2>1, <4>1, <4>2 DEF T!IInv, T!InOrder
      <4>3. CASE ~taken
        BY <2>1, <4>1, <4>3 DEF T!IInv, T!InOrder
      <4> QED
        BY <4>2, <4>3
    <3>2. -Total - 1 \in T!Numbers /\ ~(-Total - 1 > rest)
      BY <3>1, MCDemosAssumption, Threads
    <3> QED
      BY <3>1, <3>2
  <2>2. CASE ~locked
    BY <2>2 DEF T!IInv, T!Bounded
  <2> QED
    BY <2>1, <2>2
<1>2. ASSUME locked, mtx = 0
      PROVE  (\A m \in T!Numbers : sold[m] = (IF m > tickets THEN 1 ELSE 0)) /\ tickets >= 0
  <2>1. \A t \in T!Threads : pc[t] \notin {"load", "store"}
    BY <1>2, Threads DEF T!IInv, T!TypeOK
  <2> QED
    BY <1>2, <2>1 DEF T!IInv, T!InOrder
<1>3. ASSUME locked, pc[0] = "left" PROVE tickets = 0
  <2>1. pc[1] = "left"
    BY <1>3, Threads DEF T!IInv, T!Places
  <2> QED
    BY <1>3, <2>1, Threads DEF T!IInv, T!InOrder
<1> QED
  BY <1>1, <1>2, <1>3 DEF T!SoldOnce

-----------------------------------------------------------------------------
(***************************************************************************)
(* The instance.                                                           *)
(***************************************************************************)
\* Before the first call there is no object and the lock is free.
LEMMA SingletonInit == L!Init => L!IInv
BY MCDemosAssumption
   DEF L!Init, L!IInv, L!TypeOK, L!LockDiscipline, L!OneObject, L!Building, L!OneInstance,
       L!NeverHalfBuilt, L!Objects

\* Every step of the call keeps the inductive invariant.  What the second test
\* (threadPool.hpp:67) adds is that ptr = Null under the lock means that no
\* object exists at all, not even one under construction.
LEMMA SingletonNext == L!IInv /\ [L!Next]_<<pc, mtx, forSingleton>> => L!IInv'
<1> SUFFICES ASSUME L!IInv, [L!Next]_<<pc, mtx, forSingleton>> PROVE L!IInv'
  OBVIOUS
<1> DEFINE Rest == L!LockDiscipline /\ L!OneObject /\ L!OneInstance /\ L!NeverHalfBuilt
<1>0. parts \in Seq(0 .. NumParts) /\ NumParts \in Nat /\ Len(parts) \in Nat
  BY MCDemosAssumption DEF L!IInv, L!TypeOK
<1>1. ASSUME NEW t \in Callers,
             L!Call(t) \/ L!Check(t) \/ L!Lock(t) \/ L!Unlock(t) \/ L!Return(t)
      PROVE  L!IInv'
  <2>1. CASE L!Call(t)
    BY <2>1, MCDemosAssumption, ZenonT(60)
       DEF L!Call, L!goto, L!IInv, L!TypeOK, L!LockDiscipline, L!OneObject, L!Building, L!OneInstance,
           L!NeverHalfBuilt, L!Objects
  <2>2. CASE L!Check(t)
    BY <2>2, MCDemosAssumption, ZenonT(60)
       DEF L!Check, L!goto, L!IInv, L!TypeOK, L!LockDiscipline, L!OneObject, L!Building, L!OneInstance,
           L!NeverHalfBuilt, L!Objects
  <2>3. CASE L!Lock(t)
    BY <2>3, MCDemosAssumption, ZenonT(60)
       DEF L!Lock, L!goto, L!IInv, L!TypeOK, L!LockDiscipline, L!OneObject, L!Building, L!OneInstance,
           L!NeverHalfBuilt, L!Objects
  <2>4. CASE L!Unlock(t)
    BY <2>4, MCDemosAssumption, ZenonT(60)
       DEF L!Unlock, L!goto, L!IInv, L!TypeOK, L!LockDiscipline, L!OneObject, L!Building, L!OneInstance,
           L!NeverHalfBuilt, L!Objects
  <2>5. CASE L!Return(t)
    BY <2>5, MCDemosAssumption, ZenonT(60)
       DEF L!Return, L!goto, L!IInv, L!TypeOK, L!LockDiscipline, L!OneObject, L!Building, L!OneInstance,
           L!NeverHalfBuilt, L!Objects
  <2>. QED BY <1>1, <2>1, <2>2, <2>3, <2>4, <2>5
<1>2. ASSUME NEW t \in Callers, L!CheckAgain(t), ptr # Null PROVE L!IInv'
  BY <1>2, MCDemosAssumption
     DEF L!CheckAgain, L!goto, L!IInv, L!TypeOK, L!LockDiscipline, L!OneObject, L!Building,
         L!OneInstance, L!NeverHalfBuilt, L!Objects
<1>3. ASSUME NEW t \in Callers, L!New(t), ptr = Null PROVE L!IInv'
  <2>1. Len(parts) = 0
    BY <1>3, MCDemosAssumption
       DEF L!New, L!goto, L!IInv, L!LockDiscipline, L!OneObject, L!Building
  <2>2. parts' = Append(parts, 0)
    BY <1>3 DEF L!New
  <2>3. parts' \in Seq(0 .. NumParts) /\ Len(parts') = 1
    BY <2>1, <2>2, <1>0
  <2>4. L!TypeOK'
    BY <1>3, <2>1, <2>3, MCDemosAssumption
       DEF L!New, L!goto, L!IInv, L!TypeOK, L!Objects
  <2>5. Rest'
    BY <1>3, <2>1, <2>3, MCDemosAssumption
       DEF L!New, L!goto, L!IInv, L!TypeOK, L!LockDiscipline, L!OneObject, L!Building,
           L!OneInstance, L!NeverHalfBuilt
  <2> QED
    BY <2>4, <2>5 DEF L!IInv
<1>4. ASSUME NEW t \in Callers, L!Construct(t) PROVE L!IInv'
  <2>1. got[t] = 1 /\ ptr = Null /\ pc[t] = "new" /\ L!Building /\ Len(parts) = 1
    BY <1>4 DEF L!Construct, L!IInv, L!OneObject, L!Building, L!goto
  <2>2. 1 \in 1 .. Len(parts) /\ parts[1] \in 0 .. NumParts
    <3>1. 1 \in 1 .. Len(parts)
      BY <2>1
    <3> QED
      BY <3>1, <1>0, ElementOfSeq
  <2>3. CASE parts[1] < NumParts
    <3>1. parts' = [parts EXCEPT ![1] = @ + 1] /\ UNCHANGED <<pc, ptr, mtx, got>>
      BY <1>4, <2>1, <2>3 DEF L!Construct
    <3>2. parts' \in Seq(0 .. NumParts) /\ Len(parts') = 1
      <4>1. parts[1] + 1 \in 0 .. NumParts
        BY <2>2, <2>3, <1>0
      <4>2. /\ [parts EXCEPT ![1] = parts[1] + 1] \in Seq(0 .. NumParts)
            /\ Len([parts EXCEPT ![1] = parts[1] + 1]) = Len(parts)
        BY <4>1, <2>2, <1>0, ExceptSeq
      <4> QED
        BY <4>2, <3>1, <2>1
    <3>3. L!TypeOK'
      BY <3>1, <3>2, <2>1 DEF L!IInv, L!TypeOK, L!Objects
    <3>4. Rest'
      BY <3>1, <3>2, <2>1, MCDemosAssumption
         DEF L!IInv, L!TypeOK, L!LockDiscipline, L!OneObject, L!Building,
             L!OneInstance, L!NeverHalfBuilt
    <3> QED
      BY <3>3, <3>4 DEF L!IInv
  <2>4. CASE ~(parts[1] < NumParts)
    <3>1. parts[1] = NumParts
      BY <2>2, <2>4, <1>0
    <3>2. /\ pc' = [pc EXCEPT ![t] = "store"]
          /\ UNCHANGED <<parts, ptr, mtx, got>>
      BY <1>4, <2>1, <2>4 DEF L!Construct, L!goto
    <3>3. L!TypeOK'
      BY <3>2 DEF L!IInv, L!TypeOK, L!Objects
    <3>4. Rest'
      BY <3>1, <3>2, <2>1, MCDemosAssumption
         DEF L!IInv, L!TypeOK, L!LockDiscipline, L!OneObject, L!Building,
             L!OneInstance, L!NeverHalfBuilt
    <3> QED
      BY <3>3, <3>4 DEF L!IInv
  <2> QED
    BY <2>3, <2>4
<1>5. ASSUME NEW t \in Callers, L!Store(t) PROVE L!IInv'
  <2>1. got[t] = 1 /\ ptr = Null /\ parts[1] = NumParts /\ Len(parts) = 1
    BY <1>5 DEF L!Store, L!IInv, L!OneObject, L!Building, L!goto
  <2>2. /\ pc' = [pc EXCEPT ![t] = "unlock"] /\ pc[t] = "store" /\ ptr' = 1
        /\ UNCHANGED <<mtx, parts, got>>
    BY <1>5, <2>1 DEF L!Store, L!goto
  <2>3. L!TypeOK'
    BY <2>1, <2>2 DEF L!IInv, L!TypeOK, L!Objects
  <2>4. ASSUME NEW u \in Callers, pc[u] \in {"new", "store"} PROVE u = t
    BY <2>2, <2>4 DEF L!IInv, L!LockDiscipline
  <2>5. L!LockDiscipline'
    BY <2>2 DEF L!IInv, L!TypeOK, L!LockDiscipline
  <2>6. L!OneInstance' /\ L!NeverHalfBuilt'
    <3>1. parts'[ptr'] = parts[1] /\ Len(parts') = 1
      BY <2>1, <2>2
    <3> QED
      BY <3>1, <2>1 DEF L!OneInstance, L!NeverHalfBuilt
  <2>7. L!OneObject'
    BY <2>1, <2>2, <2>4, MCDemosAssumption DEF L!IInv, L!TypeOK, L!OneObject, L!Building
  <2> QED
    BY <2>3, <2>5, <2>6, <2>7 DEF L!IInv
<1>6. CASE UNCHANGED <<pc, mtx, forSingleton>>
  BY <1>6 DEF forSingleton, L!IInv, L!TypeOK, L!LockDiscipline, L!OneObject, L!Building,
              L!OneInstance, L!NeverHalfBuilt, L!Objects
<1> QED
  BY <1>1, <1>2, <1>3, <1>4, <1>5, <1>6 DEF L!Next, L!Step, L!CheckAgain

-----------------------------------------------------------------------------
(***************************************************************************)
(* The programs together.                                                  *)
(***************************************************************************)
LEMMA InitInv == Init => IInv
<1> SUFFICES ASSUME Init PROVE IInv
  OBVIOUS
<1>1. /\ prog = "tickets" => T!Init
      /\ prog = "printers" => P!Init
      /\ prog = "buffer" => B!Init
      /\ prog = "forked" => F!Init
      /\ prog = "signals" => S!Init
      /\ prog = "waiting" => W!Init
      /\ prog = "singleton" => L!Init
  BY DEF Init
<1> QED
  BY <1>1, TicketsInit, PrintersInit, BufferInit, ForkedInit, SignalsInit, WaitingInit,
     SingletonInit DEF IInv

LEMMA NextInv == IInv /\ [Next]_vars => IInv'
<1> SUFFICES ASSUME IInv, [Next]_vars PROVE IInv'
  OBVIOUS
<1>1. prog' = prog
  BY DEF Next, vars
<1>2. CASE prog = "tickets"
  <2>1. [T!Next]_<<pc, mtx, forTickets>>
    BY <1>2 DEF Next, vars
  <2> QED
    BY <1>1, <1>2, <2>1, TicketsNext DEF IInv
<1>3. CASE prog = "printers"
  <2>1. [P!Next]_<<pc, mtx, forPrinters>>
    BY <1>3 DEF Next, vars
  <2> QED
    BY <1>1, <1>3, <2>1, PrintersNext DEF IInv
<1>4. CASE prog = "buffer"
  <2>1. [B!Next]_<<pc, out, forBuffer>>
    BY <1>4 DEF Next, vars
  <2> QED
    BY <1>1, <1>4, <2>1, BufferNext DEF IInv
<1>5. CASE prog = "forked"
  <2>1. [F!Next]_<<pc, out, forForked>>
    BY <1>5 DEF Next, vars
  <2> QED
    BY <1>1, <1>5, <2>1, ForkedNext DEF IInv
<1>6. CASE prog = "signals"
  <2>1. [S!Next]_<<pc, code, forSignals>>
    BY <1>6 DEF Next, vars
  <2> QED
    BY <1>1, <1>6, <2>1, SignalsNext DEF IInv
<1>7. CASE prog = "waiting"
  <2>1. [W!Next]_<<pc, code, forWaiting>>
    BY <1>7 DEF Next, vars
  <2> QED
    BY <1>1, <1>7, <2>1, WaitingNext DEF IInv
<1>8. CASE prog = "singleton"
  <2>1. [L!Next]_<<pc, mtx, forSingleton>>
    BY <1>8 DEF Next, vars
  <2> QED
    BY <1>1, <1>8, <2>1, SingletonNext DEF IInv
<1> QED
  BY <1>1, <1>2, <1>3, <1>4, <1>5, <1>6, <1>7, <1>8 DEF IInv

LEMMA Invariance == Spec => []IInv
BY InitInv, NextInv, PTL DEF Spec

\* Each program keeps its types, whatever the order of its threads, processes and
\* signals; with a lock, it is held by the thread that is inside and by no other.
THEOREM TypeCorrect == Spec => []TypeOK
<1>1. IInv => TypeOK
  BY DEF IInv, TypeOK, T!IInv, P!IInv, B!IInv, F!IInv, S!IInv, W!IInv, L!IInv
<1> QED
  BY <1>1, Invariance, PTL

\* Under its lock a counter sells every ticket once and in order, and without it three
\* threads stay within 2 * Total + 1 numbers; two printers alternate, and at most one
\* number too many comes out; a buffer writes its messages in order, once each until a
\* flush at a newline leaves them in it, and loses none; what is in a buffer at fork()
\* comes out once for each process that has left; a blocked signal does not end the
\* process; and a parent leaves with its child's own status and no zombie behind it.
THEOREM EachIsOnce == Spec => []EachOnce
<1>1. IInv => EachOnce
  BY TicketsSafe, PrintersSafe, ForkedSafe DEF IInv, EachOnce, B!IInv, S!IInv, W!IInv
<1> QED
  BY <1>1, Invariance, PTL

\* threadPool.hpp:67: however many threads ask at the same moment, the second
\* test lets one of them construct.
THEOREM OneIsBuilt == Spec => []OneInstance
<1>1. IInv => OneInstance
  BY DEF IInv, OneInstance, L!IInv
<1> QED
  BY <1>1, Invariance, PTL

\* threadPool.hpp:70: the pointer is assigned after the constructor has returned,
\* so the test outside the lock is safe under ordered stores.
THEOREM PointerIsBuilt == Spec => []NeverHalfBuilt
<1>1. IInv => NeverHalfBuilt
  BY DEF IInv, NeverHalfBuilt, L!IInv
<1> QED
  BY <1>1, Invariance, PTL

\* threadPool.hpp:60-74: all calls return the same object.
THEOREM PointerIsStable == Spec => PointerStable
<1>1. IInv /\ [Next]_vars => [ptr # Null => ptr' = ptr]_ptr
  <2> SUFFICES ASSUME IInv, [Next]_vars, ptr # Null PROVE ptr' = ptr
    OBVIOUS
  <2>1. CASE prog = "singleton"
    <3>1. L!IInv
      BY <2>1 DEF IInv
    <3>2. [L!Next]_<<pc, mtx, forSingleton>>
      BY <2>1 DEF Next, vars
    <3>3. ASSUME NEW t \in Callers, L!Store(t) PROVE FALSE
      BY <3>1, <3>3 DEF L!IInv, L!OneObject, L!Store, L!goto
    <3>4. ASSUME NEW t \in Callers, L!CheckAgain(t) PROVE ptr' = ptr
      BY <3>4 DEF L!CheckAgain
    <3> QED
      BY <3>2, <3>3, <3>4
         DEF L!Next, L!Step, L!Call, L!Check, L!Lock, L!Construct, L!Unlock, L!Return, forSingleton
  <2>2. CASE prog # "singleton"
    BY <2>2 DEF Next, vars, forSingleton
  <2> QED
    BY <2>1, <2>2
<1> QED
  BY <1>1, Invariance, PTL DEF Spec, PointerStable
=============================================================================
