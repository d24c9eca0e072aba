---------------------------- MODULE ShellProofs ----------------------------
(***************************************************************************)
(* Theorems about the mini shell of Shell, for every set of lines, however *)
(* many are typed, and a cmd_line of any size.                             *)
(***************************************************************************)
EXTENDS MCShell, FiniteSetTheorems, NaturalsInduction, WellFoundedInduction, TLAPS

(***************************************************************************)
(* Sequences.                                                              *)
(***************************************************************************)
\* Sequences are equal when they agree everywhere.
LEMMA SameSeq == ASSUME NEW S, NEW s \in Seq(S), NEW t \in Seq(S), Len(s) = Len(t),
                        \A i \in 1 .. Len(s) : s[i] = t[i]
                 PROVE  s = t
OBVIOUS

\* A sequence of length 0 is the empty one.
LEMMA NoPieces == ASSUME NEW S, NEW s \in Seq(S), Len(s) = 0
                  PROVE  s = <<>>
BY SameSeq

\* One piece of a line, taken as a part of it.
LEMMA OnePiece == ASSUME NEW S, NEW s \in Seq(S), NEW i \in 1 .. Len(s)
                  PROVE  SubSeq(s, i, i) = <<s[i]>>
<1> DEFINE p == SubSeq(s, i, i)
<1>1. p \in Seq(S) /\ Len(p) = 1 /\ p[1] = s[i]
  OBVIOUS
<1>2. <<s[i]>> \in Seq(S) /\ Len(<<s[i]>>) = 1 /\ <<s[i]>>[1] = s[i]
  OBVIOUS
<1> DEFINE q == <<s[i]>>
<1>. HIDE DEF p, q
<1>3. Len(p) = Len(q) /\ \A j \in 1 .. Len(p) : p[j] = q[j] BY <1>1, <1>2 DEF q
<1>4. q \in Seq(S) BY <1>2 DEF q
<1>5. p = q BY <1>1, <1>3, <1>4, SameSeq
<1>. QED BY <1>5 DEF p, q

\* Replacing one element changes no other.
LEMMA PutAt == ASSUME NEW S, NEW s \in Seq(S), NEW i \in 1 .. Len(s), NEW v \in S
               PROVE  /\ [s EXCEPT ![i] = v] \in Seq(S)
                      /\ Len([s EXCEPT ![i] = v]) = Len(s)
                      /\ \A j \in 1 .. Len(s) : [s EXCEPT ![i] = v][j] = IF j = i THEN v ELSE s[j]
<1> DEFINE t == [s EXCEPT ![i] = v]
<1>1. DOMAIN t = 1 .. Len(s) OBVIOUS
<1>2. \A j \in 1 .. Len(s) : t[j] = IF j = i THEN v ELSE s[j] OBVIOUS
<1>3. \A j \in 1 .. Len(s) : s[j] \in S OBVIOUS
<1>4. t = [j \in 1 .. Len(s) |-> t[j]] BY <1>1
<1>. HIDE DEF t
<1>5. \A j \in 1 .. Len(s) : t[j] \in S BY <1>2, <1>3
<1>6. Len(s) \in Nat OBVIOUS
<1>7. t \in Seq(S) /\ Len(t) = Len(s) BY <1>4, <1>5, <1>6
<1>. QED BY <1>2, <1>7 DEF t

(***************************************************************************)
(* Induction.                                                              *)
(***************************************************************************)
\* A set of numbers that is not empty has a least one.
LEMMA Least == ASSUME NEW T, T \subseteq Nat, T # {}
               PROVE \E m \in T : \A j \in T : m <= j
<1>1. PICK m \in T : \A y \in T : ~(<<y, m>> \in OpToRel(<, Nat))
  BY NatLessThanWellFounded, WFMin, Zenon
<1>2. \A y \in T : ~(y < m) BY <1>1 DEF OpToRel
<1>. QED BY <1>2

\* What holds of 0, and of i + 1 if it holds of i, holds up to N: the set G stands
\* for the predicate.
LEMMA UpTo == ASSUME NEW N \in Nat, NEW G, 0 \in G, \A i \in 0 .. N - 1 : i \in G => i + 1 \in G
              PROVE 0 .. N \subseteq G
<1> DEFINE Bad == {i \in 0 .. N : i \notin G}
<1>1. SUFFICES ASSUME Bad # {} PROVE FALSE
  OBVIOUS
<1>2. Bad \subseteq Nat OBVIOUS
<1>3. PICK m \in Bad : \A j \in Bad : m <= j
  <2> HIDE DEF Bad
  <2>. QED BY <1>1, <1>2, Least
<1>4. m \in 0 .. N /\ m \notin G OBVIOUS
<1>5. m - 1 \in 0 .. N - 1 BY <1>4
<1>6. m - 1 \in G BY <1>3, <1>5
<1>. QED BY <1>4, <1>5, <1>6

-----------------------------------------------------------------------------
(***************************************************************************)
(* The scan from the right.                                                *)
(***************************************************************************)
\* The equation of LastOperator()'s scan, up to n.
IsScan(line, n, f) == f = [i \in 0 .. n |-> IF i = 0 \/ line[i] \in Operators THEN i ELSE f[i - 1]]

\* There is a function with this equation, by induction on n.
LEMMA ScanExists == ASSUME NEW line, NEW N \in Nat
                    PROVE  \E f : IsScan(line, N, f)
<1> DEFINE G == {n \in 0 .. N : \E f : IsScan(line, n, f)}
<1>1. 0 \in G
  <2>1. IsScan(line, 0, [i \in 0 .. 0 |-> 0]) BY DEF IsScan
  <2>. QED BY <2>1
<1>2. ASSUME NEW n \in 0 .. N - 1, n \in G PROVE n + 1 \in G
  <2>1. PICK g : IsScan(line, n, g) BY <1>2
  <2>. DEFINE h == [i \in 0 .. n + 1 |-> IF i = 0 \/ line[i] \in Operators THEN i ELSE g[i - 1]]
  <2>2. ASSUME NEW i \in 0 .. n PROVE h[i] = g[i]
    BY <2>1 DEF IsScan
  <2>3. ASSUME NEW i \in 0 .. n + 1
        PROVE (IF i = 0 \/ line[i] \in Operators THEN i ELSE g[i - 1])
                = IF i = 0 \/ line[i] \in Operators THEN i ELSE h[i - 1]
    <3>1. i # 0 => i - 1 \in 0 .. n OBVIOUS
    <3>2. i # 0 => h[i - 1] = g[i - 1] BY <3>1, <2>2
    <3>. HIDE DEF h
    <3>. QED BY <3>2
  <2>4. h = [i \in 0 .. n + 1 |-> IF i = 0 \/ line[i] \in Operators THEN i ELSE h[i - 1]]
    BY <2>3, Zenon
  <2>5. IsScan(line, n + 1, h) BY <2>4 DEF IsScan
  <2>6. n + 1 \in 0 .. N BY <1>2
  <2>. QED BY <2>5, <2>6
<1>3. 0 .. N \subseteq G
  <2>. HIDE DEF G
  <2>. QED BY <1>1, <1>2, UpTo
<1>. QED BY <1>3

\* LastOperator() is the last value of such a function.
LEMMA LastOperatorScans == ASSUME NEW S, NEW line \in Seq(S)
                           PROVE  \E f : IsScan(line, Len(line), f) /\ LastOperator(line) = f[Len(line)]
<1> DEFINE scan[i \in 0 .. Len(line)] == IF i = 0 \/ line[i] \in Operators THEN i ELSE scan[i - 1]
<1>1. \E f : IsScan(line, Len(line), f) BY ScanExists
<1>2. IsScan(line, Len(line), scan) BY <1>1, Zenon DEF IsScan
<1>3. LastOperator(line) = scan[Len(line)] BY Zenon DEF LastOperator
<1>. HIDE DEF scan
<1>. QED BY <1>2, <1>3

\* The scan stops at the last operator, or, if the line has none, in front of it.
LEMMA LastOperatorIsLast ==
    ASSUME NEW S, NEW line \in Seq(S)
    PROVE  /\ Marks(line) = {} => LastOperator(line) = 0
           /\ Marks(line) # {} => LastOperator(line) = Max(Marks(line)) /\ LastOperator(line) \in Marks(line)
           /\ \A i \in Marks(line) : i <= LastOperator(line)
<1>1. PICK f : IsScan(line, Len(line), f) /\ LastOperator(line) = f[Len(line)]
  BY LastOperatorScans
<1> DEFINE M == Marks(line)
           Ok(n) == /\ f[n] \in 0 .. n
                    /\ f[n] = 0 \/ f[n] \in M
                    /\ \A j \in M : j <= n => j <= f[n]
           G == {n \in 0 .. Len(line) : Ok(n)}
<1>2. M \subseteq 1 .. Len(line) /\ \A i \in 1 .. Len(line) : i \in M <=> line[i] \in Operators
  BY DEF Marks
<1>. HIDE DEF M
<1>3. \A n \in 0 .. Len(line) : f[n] = IF n = 0 \/ line[n] \in Operators THEN n ELSE f[n - 1]
  BY <1>1 DEF IsScan
<1>4. 0 \in G
  BY <1>2, <1>3
<1>5. ASSUME NEW n \in 0 .. Len(line) - 1, n \in G PROVE n + 1 \in G
  <2>1. Ok(n) BY <1>5
  <2>2. n + 1 \in 1 .. Len(line) /\ n + 1 \in 0 .. Len(line) OBVIOUS
  <2>3. f[n + 1] = IF line[n + 1] \in Operators THEN n + 1 ELSE f[n] BY <1>3, <2>2
  <2>4. Ok(n + 1)
    <3>1. CASE n + 1 \in M BY <3>1, <2>3, <2>2, <1>2
    <3>2. CASE n + 1 \notin M BY <3>2, <2>3, <2>2, <2>1, <1>2
    <3>. QED BY <3>1, <3>2
  <2>. QED BY <2>4, <2>2
<1>6. Ok(Len(line))
  <2>. HIDE DEF G
  <2>1. Len(line) \in Nat OBVIOUS
  <2>2. 0 .. Len(line) \subseteq G BY <1>4, <1>5, <2>1, UpTo
  <2>3. Len(line) \in G BY <2>1, <2>2
  <2>. QED BY <2>3 DEF G
<1>. DEFINE m == LastOperator(line)
<1>7. m = 0 \/ m \in M BY <1>6, <1>1
<1>8. \A j \in M : j <= m BY <1>6, <1>1, <1>2
<1>9. M # {} => m \in M /\ m = Max(M)
  <2>. SUFFICES ASSUME M # {} PROVE m \in M /\ m = Max(M) OBVIOUS
  <2>1. m \in M
    <3>1. PICK j \in M : TRUE OBVIOUS
    <3>2. j \in 1 .. Len(line) /\ j <= m BY <1>8, <1>2
    <3>3. m # 0 BY <3>2
    <3>. QED BY <1>7, <3>3
  <2>. HIDE DEF m
  <2>2. \A k \in M : (\A j \in M : k >= j) => k = m BY <2>1, <1>8, <1>2
  <2>3. \A j \in M : m >= j BY <1>8, <1>2, <2>1
  <2>. QED BY <2>1, <2>2, <2>3 DEF Max
<1>10. M = {} => m = 0 BY <1>7
<1>. QED BY <1>8, <1>9, <1>10 DEF M

-----------------------------------------------------------------------------
(***************************************************************************)
(* The places where words begin, counted.                                  *)
(***************************************************************************)
Upto(line, n) == {j \in Starts(line) : j <= n}
Rank(line, n) == Cardinality(Upto(line, n))

\* The count starts at 0, and every beginning adds one.
LEMMA RankSteps ==
    ASSUME NEW S, NEW line \in Seq(S)
    PROVE  /\ Rank(line, 0) = 0
           /\ \A n \in 0 .. Len(line) : Rank(line, n) \in Nat
           /\ \A n \in 0 .. Len(line) - 1 :
                 Rank(line, n + 1) = Rank(line, n) + (IF n + 1 \in Starts(line) THEN 1 ELSE 0)
           /\ Rank(line, Len(line)) = Cardinality(Starts(line))
<1>1. Len(line) \in Nat OBVIOUS
<1>2. Starts(line) \subseteq 1 .. Len(line) BY DEF Starts
<1>3. \A n \in 0 .. Len(line) : Upto(line, n) \subseteq 1 .. n BY <1>2 DEF Upto
<1>4. ASSUME NEW n \in 0 .. Len(line) PROVE IsFiniteSet(Upto(line, n)) /\ Rank(line, n) \in Nat
  <2>1. IsFiniteSet(1 .. n) BY FS_Interval
  <2>2. IsFiniteSet(Upto(line, n)) BY <1>3, <2>1, FS_Subset
  <2>. QED BY <2>2, FS_CardinalityType DEF Rank
<1>5. Rank(line, 0) = 0
  <2>1. Upto(line, 0) = {} BY <1>2 DEF Upto
  <2>. QED BY <2>1, FS_EmptySet DEF Rank
<1>6. ASSUME NEW n \in 0 .. Len(line) - 1
      PROVE  Rank(line, n + 1) = Rank(line, n) + (IF n + 1 \in Starts(line) THEN 1 ELSE 0)
  <2>1. n \in 0 .. Len(line) BY <1>1
  <2>2. CASE n + 1 \in Starts(line)
    <3>1. Upto(line, n + 1) = Upto(line, n) \cup {n + 1} BY <1>2, <2>2 DEF Upto
    <3>2. n + 1 \notin Upto(line, n) BY DEF Upto
    <3>. QED BY <3>1, <3>2, <2>1, <2>2, <1>4, FS_AddElement DEF Rank
  <2>3. CASE n + 1 \notin Starts(line)
    <3>1. Upto(line, n + 1) = Upto(line, n) BY <1>2, <2>3 DEF Upto
    <3>2. Rank(line, n + 1) = Rank(line, n) BY <3>1 DEF Rank
    <3>. QED BY <3>2, <2>1, <2>3, <1>4
  <2>. QED BY <2>2, <2>3
<1>7. Rank(line, Len(line)) = Cardinality(Starts(line))
  <2>1. Upto(line, Len(line)) = Starts(line) BY <1>1, <1>2 DEF Upto
  <2>. QED BY <2>1 DEF Rank
<1>. QED BY <1>4, <1>5, <1>6, <1>7

\* The count grows at every beginning, and only there.
LEMMA RankOrder ==
    ASSUME NEW S, NEW line \in Seq(S)
    PROVE  \A n \in 0 .. Len(line) : \A m \in 0 .. n :
              /\ Rank(line, m) <= Rank(line, n)
              /\ n \in Starts(line) /\ m < n => Rank(line, m) < Rank(line, n)
<1>1. Len(line) \in Nat OBVIOUS
<1>2. \A n \in 0 .. Len(line) : Rank(line, n) \in Nat BY RankSteps
<1>3. \A n \in 0 .. Len(line) - 1 :
         Rank(line, n + 1) = Rank(line, n) + (IF n + 1 \in Starts(line) THEN 1 ELSE 0) BY RankSteps
<1>4. Starts(line) \subseteq 1 .. Len(line) BY DEF Starts
<1> DEFINE Ok(n) == \A m \in 0 .. n : Rank(line, m) <= Rank(line, n)
           G == {n \in 0 .. Len(line) : Ok(n)}
<1>5. 0 \in G BY <1>1, <1>2
<1>6. ASSUME NEW n \in 0 .. Len(line) - 1, n \in G PROVE n + 1 \in G
  <2>1. Ok(n) BY <1>6
  <2>2. n \in 0 .. Len(line) /\ n + 1 \in 0 .. Len(line) BY <1>1
  <2>3. Rank(line, n) <= Rank(line, n + 1) BY <1>2, <1>3, <2>2
  <2>4. ASSUME NEW m \in 0 .. n + 1 PROVE Rank(line, m) <= Rank(line, n + 1)
    <3>1. CASE m = n + 1 BY <3>1, <1>2, <2>2
    <3>2. CASE m \in 0 .. n
      <4>1. Rank(line, m) <= Rank(line, n) BY <3>2, <2>1
      <4>2. m \in 0 .. Len(line) BY <3>2, <2>2
      <4>. QED BY <4>1, <4>2, <2>2, <2>3, <1>2
    <3>. QED BY <3>1, <3>2
  <2>. QED BY <2>2, <2>4
<1>7. 0 .. Len(line) \subseteq G
  <2>. HIDE DEF G
  <2>. QED BY <1>1, <1>5, <1>6, UpTo
<1>8. ASSUME NEW n \in 0 .. Len(line), NEW m \in 0 .. n
      PROVE  /\ Rank(line, m) <= Rank(line, n)
             /\ n \in Starts(line) /\ m < n => Rank(line, m) < Rank(line, n)
  <2>1. Ok(n) BY <1>7
  <2>2. ASSUME n \in Starts(line), m < n PROVE Rank(line, m) < Rank(line, n)
    <3>1. n - 1 \in 0 .. Len(line) - 1 /\ n - 1 \in 0 .. Len(line) BY <2>2, <1>4, <1>1
    <3>2. Ok(n - 1) BY <1>7, <3>1
    <3>3. m \in 0 .. n - 1 /\ m \in 0 .. Len(line) BY <2>2, <1>1
    <3>4. Rank(line, m) <= Rank(line, n - 1) BY <3>2, <3>3
    <3>5. (n - 1) + 1 = n OBVIOUS
    <3>6. Rank(line, n) = Rank(line, n - 1) + 1 BY <1>3, <3>1, <3>5, <2>2
    <3>. QED BY <3>4, <3>6, <3>1, <3>3, <1>2
  <2>. QED BY <2>1, <2>2
<1>. QED BY <1>8

\* The n-th beginning is the one up to which n are counted.
LEMMA NthIs ==
    ASSUME NEW S, NEW line \in Seq(S), NEW s \in Starts(line)
    PROVE  Rank(line, s) \in 1 .. Cardinality(Starts(line)) /\ Nth(line, Rank(line, s)) = s
<1>1. Len(line) \in Nat OBVIOUS
<1>2. Starts(line) \subseteq 1 .. Len(line) BY DEF Starts
<1>3. \A n \in 0 .. Len(line) : \A m \in 0 .. n :
         n \in Starts(line) /\ m < n => Rank(line, m) < Rank(line, n) BY RankOrder
<1>4. \A n \in 0 .. Len(line) : Rank(line, n) \in Nat BY RankSteps
<1>5. Rank(line, s) \in 1 .. Cardinality(Starts(line))
  <2>1. s \in 1 .. Len(line) /\ Len(line) \in 0 .. Len(line) /\ 0 \in 0 .. s BY <1>1, <1>2
  <2>2. Rank(line, 0) < Rank(line, s) BY <2>1, <1>3
  <2>3. Rank(line, s) <= Rank(line, Len(line)) BY <2>1, RankOrder
  <2>4. Rank(line, 0) = 0 /\ Rank(line, Len(line)) = Cardinality(Starts(line)) BY RankSteps
  <2>. QED BY <2>1, <2>2, <2>3, <2>4, <1>4
<1>6. ASSUME NEW i \in Starts(line), Rank(line, i) = Rank(line, s) PROVE i = s
  <2>1. i \in 1 .. Len(line) /\ s \in 1 .. Len(line) BY <1>2
  <2>2. Rank(line, i) \in Nat BY <2>1, <1>4
  <2>3. ~(i < s) BY <1>6, <2>1, <2>2, <1>3
  <2>4. ~(s < i) BY <1>6, <2>1, <2>2, <1>3
  <2>. QED BY <2>1, <2>3, <2>4
<1>7. Nth(line, Rank(line, s)) = CHOOSE i \in Starts(line) : Rank(line, i) = Rank(line, s)
  BY Zenon DEF Nth, Rank, Upto
<1>. QED BY <1>5, <1>6, <1>7

\* The beginnings are counted without a gap.
LEMMA RankHits ==
    ASSUME NEW S, NEW line \in Seq(S)
    PROVE  \A k \in 1 .. Cardinality(Starts(line)) : \E s \in Starts(line) : Rank(line, s) = k
<1>1. Len(line) \in Nat OBVIOUS
<1>2. \A n \in 0 .. Len(line) : Rank(line, n) \in Nat BY RankSteps
<1>3. \A n \in 0 .. Len(line) - 1 :
         Rank(line, n + 1) = Rank(line, n) + (IF n + 1 \in Starts(line) THEN 1 ELSE 0) BY RankSteps
<1> DEFINE Ok(n) == \A k \in 1 .. Rank(line, n) : \E s \in Starts(line) : Rank(line, s) = k
           G == {n \in 0 .. Len(line) : Ok(n)}
<1>4. 0 \in G
  <2>1. Rank(line, 0) = 0 BY RankSteps
  <2>. QED BY <1>1, <2>1
<1>5. ASSUME NEW n \in 0 .. Len(line) - 1, n \in G PROVE n + 1 \in G
  <2>1. Ok(n) BY <1>5
  <2>2. n \in 0 .. Len(line) /\ n + 1 \in 0 .. Len(line) BY <1>1
  <2>3. ASSUME NEW k \in 1 .. Rank(line, n + 1) PROVE \E s \in Starts(line) : Rank(line, s) = k
    <3>1. CASE k \in 1 .. Rank(line, n) BY <3>1, <2>1
    <3>2. CASE k \notin 1 .. Rank(line, n)
      <4>1. n + 1 \in Starts(line) /\ k = Rank(line, n + 1) BY <3>2, <2>2, <1>2, <1>3
      <4>. QED BY <4>1
    <3>. QED BY <3>1, <3>2
  <2>. QED BY <2>2, <2>3
<1>6. 0 .. Len(line) \subseteq G
  <2>. HIDE DEF G
  <2>. QED BY <1>1, <1>4, <1>5, UpTo
<1>7. Ok(Len(line)) BY <1>1, <1>6
<1>8. Rank(line, Len(line)) = Cardinality(Starts(line)) BY RankSteps
<1>. QED BY <1>7, <1>8

-----------------------------------------------------------------------------
(***************************************************************************)
(* The words.                                                              *)
(***************************************************************************)
\* All of the line from s to e is solid, and no more of its first n pieces is.
IsRun(line, n, s, e) == /\ e \in s .. n
                        /\ \A k \in s .. e : line[k] # blank
                        /\ e = n \/ line[e + 1] = blank

\* The word that begins at s is the run from s.
LEMMA WordAtIs ==
    ASSUME NEW S, NEW line \in Seq(S), NEW s \in Starts(line), NEW e, IsRun(line, Len(line), s, e)
    PROVE  WordAt(line, s) = SubSeq(line, s, e)
<1> DEFINE E == {j \in s .. Len(line) : \A k \in s .. j : line[k] # blank}
<1>1. s \in 1 .. Len(line) /\ Len(line) \in Nat BY DEF Starts
<1>2. e \in E BY <1>1 DEF IsRun
<1>3. ASSUME NEW j \in E PROVE j <= e
  <2>1. j \in s .. Len(line) /\ e \in s .. Len(line) BY DEF IsRun
  <2>2. SUFFICES ASSUME j > e PROVE FALSE BY <1>1, <2>1
  <2>3. e + 1 \in s .. j /\ e # Len(line) BY <1>1, <2>1, <2>2
  <2>4. line[e + 1] = blank BY <2>3 DEF IsRun
  <2>5. line[e + 1] # blank BY <2>3
  <2>. QED BY <2>4, <2>5
<1>4. E \subseteq Nat BY <1>1
<1>5. Max(E) = e
  <2>. HIDE DEF E
  <2>1. \A j \in E : e >= j BY <1>2, <1>3, <1>4
  <2>2. \A k \in E : (\A j \in E : k >= j) => k = e BY <1>2, <1>3, <1>4
  <2>. QED BY <1>2, <2>1, <2>2 DEF Max
<1>. QED BY <1>5, Zenon DEF WordAt

\* The equation of strtok()'s words, up to the n-th piece.
IsFound(line, n, f) == f = [i \in 0 .. n |-> IF i = 0 THEN <<>> ELSE Take(line, i, f[i - 1])]

\* There is a function with this equation, by induction on n.
LEMMA FoundExists == ASSUME NEW line, NEW N \in Nat
                     PROVE  \E f : IsFound(line, N, f)
<1> DEFINE G == {n \in 0 .. N : \E f : IsFound(line, n, f)}
<1>1. 0 \in G
  <2>1. IsFound(line, 0, [i \in 0 .. 0 |-> <<>>]) BY DEF IsFound
  <2>. QED BY <2>1
<1>2. ASSUME NEW n \in 0 .. N - 1, n \in G PROVE n + 1 \in G
  <2>1. PICK g : IsFound(line, n, g) BY <1>2
  <2>. DEFINE h == [i \in 0 .. n + 1 |-> IF i = 0 THEN <<>> ELSE Take(line, i, g[i - 1])]
  <2>2. ASSUME NEW i \in 0 .. n PROVE h[i] = g[i]
    BY <2>1 DEF IsFound
  <2>3. ASSUME NEW i \in 0 .. n + 1
        PROVE (IF i = 0 THEN <<>> ELSE Take(line, i, g[i - 1]))
                = IF i = 0 THEN <<>> ELSE Take(line, i, h[i - 1])
    <3>1. i # 0 => i - 1 \in 0 .. n OBVIOUS
    <3>2. i # 0 => h[i - 1] = g[i - 1] BY <3>1, <2>2
    <3>. HIDE DEF h
    <3>. QED BY <3>2
  <2>4. h = [i \in 0 .. n + 1 |-> IF i = 0 THEN <<>> ELSE Take(line, i, h[i - 1])]
    BY <2>3, Zenon
  <2>5. IsFound(line, n + 1, h) BY <2>4 DEF IsFound
  <2>6. n + 1 \in 0 .. N BY <1>2
  <2>. QED BY <2>5, <2>6
<1>3. 0 .. N \subseteq G
  <2>. HIDE DEF G
  <2>. QED BY <1>1, <1>2, UpTo
<1>. QED BY <1>3

\* strtok() is the last value of such a function.
LEMMA StrtokFinds == ASSUME NEW S, NEW line \in Seq(S)
                     PROVE  \E f : IsFound(line, Len(line), f) /\ strtok(line) = f[Len(line)]
<1> DEFINE found[i \in 0 .. Len(line)] == IF i = 0 THEN <<>> ELSE Take(line, i, found[i - 1])
<1>1. \E f : IsFound(line, Len(line), f) BY FoundExists
<1>2. IsFound(line, Len(line), found) BY <1>1, Zenon DEF IsFound
<1>3. strtok(line) = found[Len(line)] BY Zenon DEF strtok
<1>. HIDE DEF found
<1>. QED BY <1>2, <1>3

\* What is found in the first n pieces: one word for each beginning, each as long as
\* these pieces let it be.
Found(line, S, n, words) ==
    /\ words \in Seq(Seq(S))
    /\ Len(words) = Rank(line, n)
    /\ \A s \in Starts(line) : s <= n =>
          \E e \in s .. n : IsRun(line, n, s, e) /\ words[Rank(line, s)] = SubSeq(line, s, e)

\* A piece that is not blank belongs to the run of the last beginning.
LEMMA LastRun ==
    ASSUME NEW S, NEW line \in Seq(S), NEW n \in 1 .. Len(line), line[n] # blank
    PROVE  \E s \in Starts(line) : IsRun(line, n, s, n) /\ Rank(line, s) = Rank(line, n)
<1> DEFINE G == {m \in 0 .. Len(line) : m = 0 \/ line[m] = blank
                    \/ \E s \in Starts(line) : IsRun(line, m, s, m) /\ Rank(line, s) = Rank(line, m)}
<1>1. Len(line) \in Nat OBVIOUS
<1>2. 0 \in G BY <1>1
<1>3. ASSUME NEW m \in 0 .. Len(line) - 1, m \in G PROVE m + 1 \in G
  <2>1. m \in 0 .. Len(line) /\ m + 1 \in 1 .. Len(line) /\ m + 1 \in 0 .. Len(line) /\ (m + 1) - 1 = m
    BY <1>1
  <2>2. CASE line[m + 1] = blank BY <2>2, <2>1
  <2>3. CASE line[m + 1] # blank /\ (m = 0 \/ line[m] = blank)
    <3>1. m + 1 \in Starts(line) BY <2>1, <2>3 DEF Starts
    <3>2. IsRun(line, m + 1, m + 1, m + 1) BY <2>1, <2>3 DEF IsRun
    <3>. QED BY <3>1, <3>2, <2>1
  <2>4. CASE line[m + 1] # blank /\ m # 0 /\ line[m] # blank
    <3>1. PICK s \in Starts(line) : IsRun(line, m, s, m) /\ Rank(line, s) = Rank(line, m)
      BY <1>3, <2>4
    <3>2. m + 1 \notin Starts(line) BY <2>1, <2>4 DEF Starts
    <3>3. Rank(line, m + 1) = Rank(line, m)
      <4>1. Rank(line, m) \in Nat BY <2>1, RankSteps
      <4>2. Rank(line, m + 1) = Rank(line, m) + (IF m + 1 \in Starts(line) THEN 1 ELSE 0) BY RankSteps
      <4>. QED BY <4>1, <4>2, <3>2
    <3>4. s \in 1 .. Len(line) BY DEF Starts
    <3>5. IsRun(line, m + 1, s, m + 1) BY <3>1, <3>4, <2>1, <2>4 DEF IsRun
    <3>. QED BY <3>1, <3>3, <3>5, <2>1
  <2>. QED BY <2>2, <2>3, <2>4
<1>4. 0 .. Len(line) \subseteq G
  <2>. HIDE DEF G
  <2>. QED BY <1>1, <1>2, <1>3, UpTo
<1>5. n \in G /\ n # 0 BY <1>1, <1>4
<1>. QED BY <1>5

\* One call of Take() goes on from the first n pieces to the first n + 1.
LEMMA TakesOne ==
    ASSUME NEW S, NEW line \in Seq(S), NEW n \in 0 .. Len(line) - 1,
           NEW words, Found(line, S, n, words)
    PROVE  Found(line, S, n + 1, Take(line, n + 1, words))
<1> DEFINE p == n + 1
           t == Take(line, p, words)
           last == Len(words)
<1>1. Len(line) \in Nat /\ n \in 0 .. Len(line) /\ p \in 1 .. Len(line) /\ p \in 0 .. Len(line) /\ p - 1 = n
  OBVIOUS
<1>2. words \in Seq(Seq(S)) /\ last = Rank(line, n) BY DEF Found
<1>3. \A s \in Starts(line) : s <= n =>
         \E e \in s .. n : IsRun(line, n, s, e) /\ words[Rank(line, s)] = SubSeq(line, s, e)
  BY DEF Found
<1>4. Starts(line) \subseteq 1 .. Len(line) BY DEF Starts
<1>5. Rank(line, p) = Rank(line, n) + (IF p \in Starts(line) THEN 1 ELSE 0) /\ Rank(line, n) \in Nat
  BY <1>1, RankSteps
<1>6. \A s \in Starts(line) : Rank(line, s) \in Nat \ {0} BY NthIs
<1>7. \A s \in Starts(line) : s <= n => Rank(line, s) \in 1 .. last
  <2>. TAKE s \in Starts(line)
  <2>. HAVE s <= n
  <2>1. s \in 0 .. n BY <1>1, <1>4
  <2>2. Rank(line, s) <= Rank(line, n) BY <1>1, <2>1, RankOrder
  <2>. QED BY <2>2, <1>2, <1>5, <1>6
<1>8. line[p] \in S BY <1>1
<1>9. CASE line[p] = blank
  <2>1. t = words BY <1>9 DEF Take
  <2>2. p \notin Starts(line) BY <1>9 DEF Starts
  <2>3. ASSUME NEW s \in Starts(line), s <= p
        PROVE  \E e \in s .. p : IsRun(line, p, s, e) /\ t[Rank(line, s)] = SubSeq(line, s, e)
    <3>1. s <= n /\ s \in 1 .. Len(line) BY <2>2, <2>3, <1>1, <1>4
    <3>2. PICK e \in s .. n : IsRun(line, n, s, e) /\ words[Rank(line, s)] = SubSeq(line, s, e)
      BY <3>1, <1>3
    <3>3. e \in s .. p BY <1>1, <3>1
    <3>4. IsRun(line, p, s, e) BY <3>2, <3>3, <1>9 DEF IsRun
    <3>. QED BY <3>2, <3>3, <3>4, <2>1
  <2>4. Len(t) = Rank(line, p) BY <2>1, <2>2, <1>2, <1>5
  <2>. QED BY <2>1, <2>3, <2>4, <1>2, Zenon DEF Found
<1>10. CASE line[p] # blank /\ n # 0 /\ line[n] # blank
  <2>1. t = [words EXCEPT ![last] = Append(@, line[p])] BY <1>10, <1>1 DEF Take
  <2>2. p \notin Starts(line) BY <1>10, <1>1 DEF Starts
  <2>3. PICK s0 \in Starts(line) : IsRun(line, n, s0, n) /\ Rank(line, s0) = Rank(line, n)
    <3>1. n \in 1 .. Len(line) BY <1>1, <1>10
    <3>. QED BY <3>1, <1>10, LastRun
  <2>4. s0 \in 1 .. n BY <2>3, <1>1, <1>4 DEF IsRun
  <2>5. last \in 1 .. last /\ last = Rank(line, s0) BY <2>3, <2>4, <1>2, <1>7
  <2>6. words[last] = SubSeq(line, s0, n)
    <3>1. PICK e \in s0 .. n : IsRun(line, n, s0, e) /\ words[Rank(line, s0)] = SubSeq(line, s0, e)
      BY <2>4, <1>3
    <3>2. e = n
      <4>1. SUFFICES ASSUME e # n PROVE FALSE OBVIOUS
      <4>2. line[e + 1] = blank /\ e + 1 \in s0 .. n BY <4>1, <3>1, <2>4, <1>1 DEF IsRun
      <4>. QED BY <4>2, <2>3 DEF IsRun
    <3>. QED BY <3>1, <3>2, <2>5
  <2>7. Append(words[last], line[p]) = SubSeq(line, s0, p) /\ Append(words[last], line[p]) \in Seq(S)
    <3>1. SubSeq(line, s0, n) \in Seq(S) BY <2>4, <1>1
    <3>2. Append(SubSeq(line, s0, n), line[p]) = SubSeq(line, s0, p)
      <4> DEFINE u == Append(SubSeq(line, s0, n), line[p])
                 v == SubSeq(line, s0, p)
      <4>1. u \in Seq(S) /\ Len(u) = p - s0 + 1 BY <2>4, <1>1
      <4>2. v \in Seq(S) /\ Len(v) = p - s0 + 1 BY <2>4, <1>1
      <4>3. \A i \in 1 .. p - s0 + 1 : u[i] = v[i] BY <2>4, <1>1
      <4>. HIDE DEF u, v
      <4>. QED BY <4>1, <4>2, <4>3, <2>4, <1>1
    <3>3. Append(words[last], line[p]) = Append(SubSeq(line, s0, n), line[p]) BY <2>6
    <3>4. SubSeq(line, s0, p) \in Seq(S) BY <2>4, <1>1
    <3>. QED BY <3>2, <3>3, <3>4, Zenon
  <2>8. t \in Seq(Seq(S)) /\ Len(t) = last /\ t[last] = SubSeq(line, s0, p)
        /\ \A i \in 1 .. last : i # last => t[i] = words[i]
    <3>. DEFINE w == Append(words[last], line[p])
    <3>1. w \in Seq(S) /\ w = SubSeq(line, s0, p) BY <2>7
    <3>2. t = [words EXCEPT ![last] = w] BY <2>1, Zenon
    <3>3. words \in Seq(Seq(S)) /\ last \in 1 .. Len(words) /\ last = Len(words) BY <2>5, <1>2
    <3>. HIDE DEF t, w, last
    <3>4. /\ [words EXCEPT ![last] = w] \in Seq(Seq(S))
          /\ Len([words EXCEPT ![last] = w]) = Len(words)
          /\ \A j \in 1 .. Len(words) : [words EXCEPT ![last] = w][j] = IF j = last THEN w ELSE words[j]
      BY <3>1, <3>3, PutAt
    <3>5. t \in Seq(Seq(S)) /\ Len(t) = Len(words)
          /\ \A j \in 1 .. Len(words) : t[j] = IF j = last THEN w ELSE words[j]
      BY <3>2, <3>4, Zenon
    <3>. QED BY <3>1, <3>3, <3>5
  <2>9. IsRun(line, p, s0, p) /\ p \in s0 .. p BY <2>3, <2>4, <1>1, <1>10 DEF IsRun
  <2>10. ASSUME NEW s \in Starts(line), s <= p
         PROVE  \E e \in s .. p : IsRun(line, p, s, e) /\ t[Rank(line, s)] = SubSeq(line, s, e)
    <3>1. CASE s = s0 BY <3>1, <2>5, <2>8, <2>9
    <3>2. CASE s # s0
      <4>1. s <= n /\ s \in 1 .. Len(line) BY <2>2, <2>10, <1>1, <1>4
      <4>2. PICK e \in s .. n : IsRun(line, n, s, e) /\ words[Rank(line, s)] = SubSeq(line, s, e)
        BY <4>1, <1>3
      <4>3. Rank(line, s) # last BY <3>2, <2>5, NthIs
      <4>4. t[Rank(line, s)] = words[Rank(line, s)] BY <4>1, <4>3, <2>8, <1>7
      <4>5. e # n
        <5>1. SUFFICES ASSUME e = n PROVE FALSE OBVIOUS
        <5>2. \A k \in s .. n : line[k] # blank BY <5>1, <4>2 DEF IsRun
        <5>3. \A k \in s0 .. n : line[k] # blank BY <2>3 DEF IsRun
        <5>4. CASE s < s0
          <6>1. line[s0 - 1] = blank BY <5>4, <4>1 DEF Starts
          <6>2. s0 - 1 \in s .. n BY <5>4, <4>1, <2>4, <1>1
          <6>. QED BY <6>1, <6>2, <5>2
        <5>5. CASE s0 < s
          <6>1. line[s - 1] = blank BY <5>5, <2>4 DEF Starts
          <6>2. s - 1 \in s0 .. n BY <5>5, <4>1, <2>4, <1>1
          <6>. QED BY <6>1, <6>2, <5>3
        <5>. QED BY <5>4, <5>5, <3>2, <4>1, <2>4
      <4>6. IsRun(line, p, s, e) /\ e \in s .. p BY <4>2, <4>5, <4>1, <1>1 DEF IsRun
      <4>. QED BY <4>2, <4>4, <4>6
    <3>. QED BY <3>1, <3>2
  <2>11. Len(t) = Rank(line, p) BY <2>8, <2>2, <1>2, <1>5
  <2>. QED BY <2>8, <2>10, <2>11, Zenon DEF Found
<1>11. CASE line[p] # blank /\ (n = 0 \/ line[n] = blank)
  <2>1. t = Append(words, <<line[p]>>) BY <1>11, <1>1 DEF Take
  <2>2. p \in Starts(line) BY <1>11, <1>1 DEF Starts
  <2>3. <<line[p]>> \in Seq(S) BY <1>8
  <2>4. t \in Seq(Seq(S)) /\ Len(t) = last + 1 /\ t[last + 1] = <<line[p]>>
        /\ \A i \in 1 .. last : t[i] = words[i]
    <3>. HIDE DEF t
    <3>. QED BY <2>1, <2>3, <1>2
  <2>5. Rank(line, p) = last + 1 BY <2>2, <1>2, <1>5
  <2>6. IsRun(line, p, p, p) /\ p \in p .. p BY <1>1, <1>11, SMTT(30) DEF IsRun
  <2>7. SubSeq(line, p, p) = <<line[p]>> BY <1>1, OnePiece
  <2>8. ASSUME NEW s \in Starts(line), s <= p
        PROVE  \E e \in s .. p : IsRun(line, p, s, e) /\ t[Rank(line, s)] = SubSeq(line, s, e)
    <3>1. CASE s = p BY <3>1, <2>4, <2>5, <2>6, <2>7
    <3>2. CASE s # p
      <4>1. s <= n /\ s \in 1 .. Len(line) BY <2>8, <3>2, <1>1, <1>4
      <4>2. PICK e \in s .. n : IsRun(line, n, s, e) /\ words[Rank(line, s)] = SubSeq(line, s, e)
        BY <4>1, <1>3
      <4>3. t[Rank(line, s)] = words[Rank(line, s)] BY <4>1, <2>4, <1>7
      <4>4. e # n
        <5>1. SUFFICES ASSUME e = n PROVE FALSE OBVIOUS
        <5>2. n \in s .. e /\ n # 0 BY <5>1, <4>1, <1>1
        <5>. QED BY <5>2, <4>2, <1>11 DEF IsRun
      <4>5. IsRun(line, p, s, e) /\ e \in s .. p BY <4>2, <4>4, <4>1, <1>1 DEF IsRun
      <4>. QED BY <4>2, <4>3, <4>5
    <3>. QED BY <3>1, <3>2
  <2>9. Len(t) = Rank(line, p) BY <2>4, <2>5
  <2>. QED BY <2>4, <2>8, <2>9, Zenon DEF Found
<1>. QED BY <1>9, <1>10, <1>11

\* The words that strtok() finds (myshell.c:129-136), one piece after the other, are the maximal runs of
\* pieces that are not blank, each of them once and in their order.
THEOREM StrtokFindsTheWords ==
    ASSUME NEW S, NEW line \in Seq(S)
    PROVE  strtok(line) = WordsOf(line) /\ strtok(line) \in Seq(Seq(S))
<1> DEFINE w == strtok(line)
<1>1. Len(line) \in Nat OBVIOUS
<1>2. PICK f : IsFound(line, Len(line), f) /\ w = f[Len(line)]
  BY StrtokFinds
<1> DEFINE G == {n \in 0 .. Len(line) : Found(line, S, n, f[n])}
<1>3. \A n \in 0 .. Len(line) : f[n] = IF n = 0 THEN <<>> ELSE Take(line, n, f[n - 1])
  BY <1>2 DEF IsFound
<1>4. Starts(line) \subseteq 1 .. Len(line) BY DEF Starts
<1>5. 0 \in G
  <2>1. f[0] = <<>> BY <1>1, <1>3
  <2>2. Rank(line, 0) = 0 BY RankSteps
  <2>3. \A s \in Starts(line) : ~(s <= 0) BY <1>4
  <2>4. <<>> \in Seq(Seq(S)) /\ Len(<<>>) = 0 OBVIOUS
  <2>5. Found(line, S, 0, f[0]) BY <2>1, <2>2, <2>3, <2>4 DEF Found
  <2>. QED BY <2>5, <1>1
<1>6. ASSUME NEW n \in 0 .. Len(line) - 1, n \in G PROVE n + 1 \in G
  <2>1. n + 1 \in 0 .. Len(line) /\ n + 1 # 0 /\ (n + 1) - 1 = n OBVIOUS
  <2>2. f[n + 1] = Take(line, n + 1, f[n]) BY <1>3, <2>1
  <2>3. Found(line, S, n + 1, Take(line, n + 1, f[n])) BY <1>6, TakesOne
  <2>. QED BY <2>1, <2>2, <2>3
<1>7. Found(line, S, Len(line), w)
  <2>1. 0 .. Len(line) \subseteq G
    <3>. HIDE DEF G
    <3>. QED BY <1>1, <1>5, <1>6, UpTo
  <2>2. Len(line) \in G BY <1>1, <2>1
  <2>. QED BY <2>2, <1>2
<1>8. Rank(line, Len(line)) = Cardinality(Starts(line)) BY RankSteps
<1>. HIDE DEF w
<1>9. w \in Seq(Seq(S)) /\ Len(w) = Cardinality(Starts(line)) BY <1>7, <1>8 DEF Found
<1>10. ASSUME NEW k \in 1 .. Len(w) PROVE w[k] = WordAt(line, Nth(line, k))
  <2>1. PICK s \in Starts(line) : Rank(line, s) = k BY <1>9, RankHits
  <2>2. Nth(line, k) = s BY <2>1, NthIs
  <2>3. s <= Len(line) BY <1>4
  <2>4. PICK e \in s .. Len(line) : IsRun(line, Len(line), s, e) /\ w[Rank(line, s)] = SubSeq(line, s, e)
    BY <1>7, <2>3 DEF Found
  <2>5. WordAt(line, s) = SubSeq(line, s, e) BY <2>4, WordAtIs
  <2>. QED BY <2>1, <2>2, <2>4, <2>5
<1>11. w = [k \in 1 .. Len(w) |-> w[k]] BY <1>9
<1>12. w = [k \in 1 .. Len(w) |-> WordAt(line, Nth(line, k))] BY <1>10, <1>11, Zenon
<1>13. w = WordsOf(line) BY <1>9, <1>12, Zenon DEF WordsOf
<1>. QED BY <1>9, <1>13 DEF w

\* A line without words is blank.
LEMMA NoWordIsBlank ==
    ASSUME NEW S, NEW line \in Seq(S), WordsOf(line) = <<>>
    PROVE  \A i \in 1 .. Len(line) : line[i] = blank
<1>1. Cardinality(Starts(line)) = 0
  <2>1. Rank(line, Len(line)) = Cardinality(Starts(line)) /\ Rank(line, Len(line)) \in Nat
    BY RankSteps
  <2>2. DOMAIN WordsOf(line) = 1 .. Cardinality(Starts(line)) BY DEF WordsOf
  <2>3. DOMAIN WordsOf(line) = {} OBVIOUS
  <2>. QED BY <2>1, <2>2, <2>3
<1>2. ASSUME NEW i \in 1 .. Len(line), line[i] # blank PROVE FALSE
  <2>1. PICK s \in Starts(line) : TRUE BY <1>2, LastRun
  <2>2. Rank(line, s) \in 1 .. Cardinality(Starts(line)) BY NthIs
  <2>. QED BY <1>1, <2>2
<1>. QED BY <1>2

\* A line that is blank up to its last piece has this piece as its only word.
LEMMA LastPieceIsTheWord ==
    ASSUME NEW S, NEW line \in Seq(S), line # <<>>, line[Len(line)] # blank,
           \A i \in 1 .. Len(line) - 1 : line[i] = blank
    PROVE  WordsOf(line) = <<<<line[Len(line)]>>>>
<1> DEFINE n == Len(line)
<1>1. n \in Nat /\ n # 0 /\ n \in 1 .. Len(line)
  <2>1. n # 0 BY NoPieces
  <2>. QED BY <2>1
<1>2. n \in Starts(line)
  <2>1. ASSUME n # 1 PROVE n - 1 \in 1 .. Len(line) - 1
    <3>. HIDE DEF n
    <3>1. n - 1 \in 1 .. n - 1 BY <1>1, <2>1
    <3>. QED BY <3>1 DEF n
  <2>2. n = 1 \/ line[n - 1] = blank BY <2>1
  <2>. QED BY <1>1, <2>2 DEF Starts
<1>3. Starts(line) = {n} BY <1>1, <1>2 DEF Starts
<1>4. Cardinality(Starts(line)) = 1 BY <1>3, FS_Singleton
<1>5. Rank(line, n) = 1 /\ Nth(line, 1) = n
  <2>1. Rank(line, n) \in 1 .. 1 /\ Nth(line, Rank(line, n)) = n BY <1>2, <1>4, NthIs
  <2>2. Rank(line, n) = 1 BY <2>1
  <2>. QED BY <2>1, <2>2
<1>6. WordAt(line, n) = <<line[n]>>
  <2>1. IsRun(line, Len(line), n, n) BY <1>1 DEF IsRun
  <2>2. WordAt(line, n) = SubSeq(line, n, n) BY <1>2, <2>1, WordAtIs
  <2>. QED BY <2>2, <1>1, OnePiece
<1>7. WordsOf(line) = [k \in 1 .. 1 |-> WordAt(line, Nth(line, k))] BY <1>4, Zenon DEF WordsOf
<1>. DEFINE v == <<line[n]>>
<1>8. \A k \in 1 .. 1 : WordAt(line, Nth(line, k)) = v BY <1>5, <1>6
<1>. HIDE DEF v
<1>9. WordsOf(line) = [k \in 1 .. 1 |-> v] BY <1>7, <1>8, Zenon
<1>10. [k \in 1 .. 1 |-> v] = <<v>> OBVIOUS
<1>. QED BY <1>9, <1>10 DEF v

-----------------------------------------------------------------------------
(***************************************************************************)
(* The operator.                                                           *)
(***************************************************************************)
\* CheckRedir() (myshell.c:36-85) goes by the last operator of the line: it cuts the line
\* in front of it, in front of both signs of a >>, and names the file by all behind it.
THEOREM CheckRedirTakesTheLast ==
    ASSUME NEW S, NEW line \in Seq(S)
    PROVE  LET redir == CheckRedir(line)
               last == Max(Marks(line))
               twice == last > 1 /\ line[last - 1] = ">"
           IN  /\ Marks(line) = {} => redir = [status |-> "NONE", cut |-> Len(line), sep |-> <<>>]
               /\ Marks(line) # {} =>
                     /\ last \in Marks(line)
                     /\ \A i \in Marks(line) : i <= last
                     /\ redir.sep = SubSeq(line, last + 1, Len(line))
                     /\ redir.status = IF line[last] = "<" THEN "INPUT"
                                       ELSE IF twice THEN "APPEND" ELSE "OUTPUT"
                     /\ redir.cut = IF line[last] = ">" /\ twice THEN last - 2 ELSE last - 1
<1> DEFINE redir == CheckRedir(line)
           last == Max(Marks(line))
           end == LastOperator(line)
           name == SubSeq(line, end + 1, Len(line))
           twice == end > 1 /\ line[end - 1] = ">"
<1>1. Marks(line) \subseteq 1 .. Len(line) BY DEF Marks
<1>2. \A i \in Marks(line) : line[i] \in {"<", ">"} BY DEF Marks, Operators
<1>. DEFINE none == [status |-> "NONE", cut |-> Len(line), sep |-> <<>>]
           input == [status |-> "INPUT", cut |-> end - 1, sep |-> name]
           output == [status |-> "OUTPUT", cut |-> end - 1, sep |-> name]
           append == [status |-> "APPEND", cut |-> end - 2, sep |-> name]
<1>5. redir = CASE end = 0 -> none
                [] end > 0 /\ line[end] = "<" -> input
                [] end > 0 /\ line[end] = ">" /\ ~twice -> output
                [] end > 0 /\ line[end] = ">" /\ twice -> append
  BY Zenon DEF CheckRedir
<1>3. CASE Marks(line) = {}
  <2>1. end = 0 BY <1>3, LastOperatorIsLast
  <2>. HIDE DEF none, input, output, append, redir, end
  <2>2. redir = none BY <2>1, <1>5
  <2>. QED BY <1>3, <2>2 DEF none, redir
<1>4. CASE Marks(line) # {}
  <2>1. end = last /\ end \in Marks(line) BY <1>4, LastOperatorIsLast
  <2>2. end > 0 /\ end # 0 /\ line[end] \in {"<", ">"} /\ end \in Nat BY <1>1, <1>2, <2>1
  <2>3. \A i \in Marks(line) : i <= last BY <2>1, LastOperatorIsLast
  <2>. HIDE DEF none, input, output, append, redir, end, twice, name
  <2>4. CASE line[end] = "<"
    <3>1. redir = input BY <1>5, <2>2, <2>4 DEF twice
    <3>2. redir.sep = name /\ redir.status = "INPUT" /\ redir.cut = end - 1 BY <3>1 DEF input
    <3>. QED BY <3>2, <2>1, <2>3, <2>4, <1>4 DEF redir, twice, name
  <2>5. CASE line[end] = ">" /\ ~twice
    <3>1. redir = output BY <1>5, <2>2, <2>5 DEF twice
    <3>2. redir.sep = name /\ redir.status = "OUTPUT" /\ redir.cut = end - 1 BY <3>1 DEF output
    <3>. QED BY <3>2, <2>1, <2>3, <2>5, <1>4 DEF redir, twice, name
  <2>6. CASE line[end] = ">" /\ twice
    <3>1. redir = append BY <1>5, <2>2, <2>6 DEF twice
    <3>2. redir.sep = name /\ redir.status = "APPEND" /\ redir.cut = end - 2 BY <3>1 DEF append
    <3>. QED BY <3>2, <2>1, <2>3, <2>6, <1>4 DEF redir, twice, name
  <2>. QED BY <2>2, <2>4, <2>5, <2>6
<1>. QED BY <1>3, <1>4

-----------------------------------------------------------------------------
(***************************************************************************)
(* The inductive invariant.                                                *)
(***************************************************************************)
\* A line that fits is read in one go, ...
ReadWhole == Fits => typed \in {<<>>, said}

\* ... what the globals hold is what it says, and the shell crashes on no other line.
Parsed ==
    LET redir == CheckRedir(Told)
        words == Split(SubSeq(Told, 1, redir.cut))
    IN  /\ shell \in {"fork", "wait"} /\ Fits =>
              g_argv = words /\ redir_status = redir.status /\ sep = redir.sep
        /\ shell = "crashed" /\ Fits => words = <<>>

\* The child's input and output are the terminal, until the file behind the operator has
\* been opened; x, if it can be, has been, and emptied for > .
Opened ==
    /\ child \in {"none", "redirect"} => fd = tty
    /\ child \in {"exec", "running"} =>
          /\ fd[0] \in IF redir_status = "INPUT" THEN {sep, terminal} ELSE {terminal}
          /\ fd[1] \in IF redir_status \in {"OUTPUT", "APPEND"} THEN {sep, terminal} ELSE {terminal}
          /\ sep = x /\ redir_status = "INPUT" /\ where \in DOMAIN file => fd[0] = x
          /\ sep = x /\ redir_status \in {"OUTPUT", "APPEND"} => fd[1] = x /\ where \in DOMAIN file
          /\ sep = x /\ redir_status = "OUTPUT" => Range(file[where]) \subseteq {count}

IInv == TypeOK /\ ReadWhole /\ Parsed /\ Opened

\* Sequences over a set are sequences over a larger one.
LEMMA Wider == ASSUME NEW S, NEW T, S \subseteq T, NEW s \in Seq(S) PROVE s \in Seq(T)
<1>1. s = [i \in 1 .. Len(s) |-> s[i]] /\ Len(s) \in Nat OBVIOUS
<1>2. \A i \in 1 .. Len(s) : s[i] \in T OBVIOUS
<1>. QED BY <1>1, <1>2

\* A part of a sequence.
LEMMA Part == ASSUME NEW S, NEW s \in Seq(S), NEW m \in 1 .. Len(s) + 1, NEW n \in m - 1 .. Len(s)
              PROVE  /\ SubSeq(s, m, n) \in Seq(S)
                     /\ Len(SubSeq(s, m, n)) = n - m + 1
                     /\ \A i \in 1 .. n - m + 1 : SubSeq(s, m, n)[i] = s[m + i - 1]
OBVIOUS

\* The status is one of four, which makes the child's switch complete.
LEMMA RedirType == ASSUME NEW S, NEW line \in Seq(S)
                   PROVE  CheckRedir(line).status \in {"NONE", "INPUT", "OUTPUT", "APPEND"}
<1> DEFINE redir == CheckRedir(line)
<1>1. CASE Marks(line) = {}
  <2>1. redir = [status |-> "NONE", cut |-> Len(line), sep |-> <<>>]
    BY <1>1, CheckRedirTakesTheLast, Zenon
  <2>2. redir.status = "NONE" BY <2>1
  <2>. QED BY <2>2
<1>2. CASE Marks(line) # {}
  <2>1. \E last : redir.status = IF line[last] = "<" THEN "INPUT"
                          ELSE IF last > 1 /\ line[last - 1] = ">" THEN "APPEND" ELSE "OUTPUT"
    BY <1>2, CheckRedirTakesTheLast, Zenon
  <2>. HIDE DEF redir
  <2>2. redir.status \in {"NONE", "INPUT", "OUTPUT", "APPEND"} BY <2>1
  <2>. QED BY <2>2 DEF redir
<1>. QED BY <1>1, <1>2

\* What fgets() takes of what was typed.
LEMMA ReadType ==
    ASSUME TypeOK, typed # <<>>
    PROVE  LET read == IF Len(typed) < NUM THEN Len(typed) ELSE NUM - 1
           IN  /\ read \in 1 .. Len(typed)
               /\ SubSeq(typed, 1, read - 1) \in Seq(Pieces \cup {newline})
               /\ SubSeq(typed, read + 1, Len(typed)) \in Seq(Pieces \cup {newline})
<1> DEFINE read == IF Len(typed) < NUM THEN Len(typed) ELSE NUM - 1
           P == Pieces \cup {newline}
<1>. HIDE DEF P
<1>1. typed \in Seq(P) BY DEF TypeOK, P
<1>2. Len(typed) \in Nat /\ Len(typed) # 0
  <2>1. Len(typed) = 0 => typed = <<>> BY <1>1, NoPieces
  <2>. QED BY <1>1, <2>1
<1>3. NUM \in Nat /\ NUM >= 3 BY ShellAssumption
<1>4. read \in 1 .. Len(typed) BY <1>2, <1>3
<1>. HIDE DEF read
<1>5. /\ read - 1 \in 1 - 1 .. Len(typed) /\ 1 \in 1 .. Len(typed) + 1
      /\ read + 1 \in 1 .. Len(typed) + 1 /\ Len(typed) \in (read + 1) - 1 .. Len(typed)
  BY <1>2, <1>4
<1>6. SubSeq(typed, 1, read - 1) \in Seq(P) BY <1>1, <1>5, Part
<1>7. SubSeq(typed, read + 1, Len(typed)) \in Seq(P) BY <1>1, <1>5, Part
<1>. QED BY <1>4, <1>6, <1>7 DEF read, P

\* The types hold of the shell before the first line.
LEMMA InitTyped == Init => TypeOK
<1>. SUFFICES ASSUME Init PROVE TypeOK OBVIOUS
<1>1. DOMAIN file = {"home"} /\ file["home"] = <<0>> BY DEF Init
<1>2. <<0>> \in Seq(0 .. 0) OBVIOUS
<1>3. DOMAIN fd = {0, 1} BY DEF Init, tty
<1>4. DOMAIN file \subseteq Places /\ \A w \in DOMAIN file : file[w] \in Seq(0 .. count)
  BY <1>1, <1>2 DEF Init, Places
<1>5. MaxLines \in Nat BY ShellAssumption
<1>6. <<>> \in Seq(Pieces \cup {newline}) OBVIOUS
<1>. QED BY <1>3, <1>4, <1>5, <1>6 DEF Init, TypeOK, Places

\* No step leaves the types: the shell waits exactly while it has a child, and it has a
\* command exactly between reading a line and the end of the child.
LEMMA NextTyped == ASSUME TypeOK, [Next]_vars PROVE TypeOK'
<1> DEFINE P == Pieces \cup {newline}
<1>. HIDE DEF P
<1>0. TypeOK <=>
          /\ shell \in {"prompt", "fork", "wait", "crashed", "killed"}
          /\ child \in {"none", "redirect", "exec", "running", "zombie"}
          /\ count \in 0 .. MaxLines
          /\ typed \in Seq(P) /\ said \in Seq(P)
          /\ where \in Places
          /\ DOMAIN file \subseteq Places /\ \A w \in DOMAIN file : file[w] \in Seq(0 .. count)
          /\ redir_status \in {"NONE", "INPUT", "OUTPUT", "APPEND"}
          /\ DOMAIN fd = {0, 1}
          /\ shell = "wait" <=> child # "none"
          /\ shell \in {"fork", "wait"} <=> g_argv # <<>>
  BY Zenon DEF TypeOK, P
<1>1. MaxLines \in Nat /\ DOMAIN tty = {0, 1} BY ShellAssumption DEF tty
<1>2. CASE UNCHANGED vars BY <1>2, <1>0 DEF vars, text, command, TypeOK
<1>3. CASE GetLine
  <2> DEFINE read == IF Len(typed) < NUM THEN Len(typed) ELSE NUM - 1
             line == SubSeq(typed, 1, read - 1)
             redir == CheckRedir(line)
             words == Split(SubSeq(line, 1, redir.cut))
  <2>1. typed # <<>> /\ shell = "prompt" BY <1>3 DEF GetLine
  <2>2. line \in Seq(P) /\ SubSeq(typed, read + 1, Len(typed)) \in Seq(P) BY <2>1, ReadType DEF P
  <2>3. redir.status \in {"NONE", "INPUT", "OUTPUT", "APPEND"} BY <2>2, RedirType
  <2>4. /\ typed' = SubSeq(typed, read + 1, Len(typed))
        /\ \/ words = <<>> /\ shell' = "crashed" /\ UNCHANGED <<where, command>>
           \/ /\ words # <<>> /\ words[1] = <<"cd">>
              /\ where' \in IF Len(words) > 1 THEN Places ELSE {where}
              /\ UNCHANGED <<shell, command>>
           \/ /\ words # <<>> /\ words[1] # <<"cd">>
              /\ shell' = "fork"
              /\ g_argv' = words
              /\ redir_status' = redir.status
              /\ sep' = redir.sep
              /\ UNCHANGED where
        /\ UNCHANGED <<child, count, said, file, fd>>
    BY <1>3, Zenon DEF GetLine
  <2>5. typed' \in Seq(P) BY <2>2, <2>4
  <2>. HIDE DEF redir, words, read, line
  <2>. QED BY <2>1, <2>3, <2>4, <2>5 DEF TypeOK, P, command
<1>4. CASE Fork BY <1>4, <1>1 DEF Fork, Forget, TypeOK, command, text
<1>5. CASE Wait BY <1>5, <1>1 DEF Wait, Forget, TypeOK, command, text
<1>6. CASE Redirect
  <2>1. PICK ok \in canOpen(sep) :
                  /\ fd' = CASE ~ok \/ redir_status = "NONE" -> fd
                             [] ok /\ redir_status = "INPUT" -> [fd EXCEPT ![0] = sep]
                             [] ok /\ redir_status \in {"OUTPUT", "APPEND"} -> [fd EXCEPT ![1] = sep]
                  /\ file' = IF ok /\ sep = x /\ redir_status \in {"OUTPUT", "APPEND"}
                             THEN opened(redir_status = "OUTPUT") ELSE file
    BY <1>6 DEF Redirect
  <2>2. DOMAIN fd' = {0, 1} BY <2>1 DEF TypeOK
  <2>3. DOMAIN file' \subseteq Places /\ \A w \in DOMAIN file' : file'[w] \in Seq(0 .. count)
    <3>1. <<>> \in Seq(0 .. count) OBVIOUS
    <3>. QED BY <2>1, <3>1 DEF opened, TypeOK
  <2>. QED BY <1>6, <2>2, <2>3 DEF Redirect, TypeOK, command, text
<1>7. CASE Exec BY <1>7 DEF Exec, TypeOK, command, text
<1>8. CASE End BY <1>8 DEF End, TypeOK, command, text
<1>9. CASE Work
  <2>1. DOMAIN file' = DOMAIN file BY <1>9 DEF Work
  <2>2. ASSUME NEW w \in DOMAIN file PROVE file'[w] \in Seq(0 .. count)
    <3>1. count \in 0 .. count BY DEF TypeOK
    <3>2. Append(file[w], count) \in Seq(0 .. count) BY <3>1 DEF TypeOK
    <3>3. file'[w] = IF w = where THEN Append(file[w], count) ELSE file[w] BY <1>9 DEF Work
    <3>. QED BY <3>2, <3>3 DEF TypeOK
  <2>. QED BY <1>9, <2>1, <2>2 DEF Work, TypeOK, command, text
<1>10. CASE Interrupt BY <1>10, <1>1 DEF Interrupt, Forget, TypeOK, command, text
<1>11. ASSUME NEW line \in Lines, NEW end \in {<<newline>>, <<>>}, Type(line, end) PROVE TypeOK'
  <2>1. line \in Seq(P)
    <3>1. line \in Seq(Pieces) BY ShellAssumption
    <3>. QED BY <3>1 DEF P
  <2>2. end \in Seq(P)
    <3>1. newline \in P BY DEF P
    <3>2. <<newline>> \in Seq(P) BY <3>1
    <3>3. <<>> \in Seq(P) OBVIOUS
    <3>. QED BY <3>2, <3>3
  <2>3. typed' \in Seq(P) /\ said' \in Seq(P) BY <2>1, <2>2, <1>11 DEF Type
  <2>4. count' \in 0 .. MaxLines /\ count <= count' BY <1>11, <1>1 DEF Type, TypeOK
  <2>5. ASSUME NEW w \in DOMAIN file PROVE file[w] \in Seq(0 .. count')
    <3>1. 0 .. count \subseteq 0 .. count' BY <2>4 DEF TypeOK
    <3>2. file[w] \in Seq(0 .. count) BY DEF TypeOK
    <3>. QED BY <3>1, <3>2, Wider
  <2>. QED BY <1>11, <2>3, <2>4, <2>5 DEF Type, TypeOK, command, P
<1>. QED BY <1>2, <1>3, <1>4, <1>5, <1>6, <1>7, <1>8, <1>9, <1>10, <1>11 DEF Next, Step

\* fgets() takes a line that fits at once.
LEMMA ReadWholeStep == ASSUME IInv, [Next]_vars PROVE ReadWhole'
<1>1. typed \in Seq(Pieces \cup {newline}) BY DEF IInv, TypeOK
<1>2. CASE said' = said /\ typed' = typed BY <1>2 DEF IInv, ReadWhole, Fits
<1>3. CASE said' = typed' BY <1>3 DEF ReadWhole
<1>4. CASE GetLine
  <2>. SUFFICES ASSUME Fits' PROVE typed' = <<>> BY DEF ReadWhole
  <2>1. said' = said /\ typed # <<>> BY <1>4 DEF GetLine
  <2>2. typed = said /\ Len(typed) < NUM BY <2>1 DEF IInv, ReadWhole, Fits
  <2>3. typed' = SubSeq(typed, Len(typed) + 1, Len(typed)) BY <1>4, <2>2 DEF GetLine
  <2>. HIDE DEF IInv
  <2>4. typed' \in Seq(Pieces \cup {newline}) /\ Len(typed') = 0
    <3>1. Len(typed) + 1 \in 1 .. Len(typed) + 1 /\ Len(typed) \in (Len(typed) + 1) - 1 .. Len(typed)
          /\ Len(typed) - (Len(typed) + 1) + 1 = 0
      BY <1>1
    <3>. QED BY <1>1, <2>3, <3>1, Part
  <2>. QED BY <2>4, NoPieces
<1>. QED
  BY <1>2, <1>3, <1>4
  DEF Next, Step, vars, text, Fork, Wait, Redirect, Exec, End, Work, Interrupt, Type

\* The globals are set when the line is read and last as long as the child.
LEMMA ParsedStep == ASSUME IInv, [Next]_vars PROVE Parsed'
<1> DEFINE redir == CheckRedir(Told)
           words == Split(SubSeq(Told, 1, redir.cut))
<1>1. Parsed => /\ shell \in {"fork", "wait"} /\ Fits =>
                      g_argv = words /\ redir_status = redir.status /\ sep = redir.sep
                /\ shell = "crashed" /\ Fits => words = <<>>
  BY Zenon DEF Parsed
<1>2. ASSUME said' = said,
             \/ shell' \notin {"fork", "wait", "crashed"}
             \/ shell' = shell /\ UNCHANGED command
             \/ shell = "fork" /\ shell' = "wait" /\ UNCHANGED command
      PROVE  Parsed'
  <2>1. Told' = Told /\ Fits' = Fits BY <1>2 DEF Told, Fits
  <2>. QED BY <2>1, <1>1, <1>2 DEF Parsed, IInv, command
<1>3. CASE GetLine
  <2> DEFINE read == IF Len(typed) < NUM THEN Len(typed) ELSE NUM - 1
             line == SubSeq(typed, 1, read - 1)
             Redir == CheckRedir(line)
             Words == Split(SubSeq(line, 1, Redir.cut))
  <2>1. /\ shell = "prompt" /\ typed # <<>> /\ said' = said
        /\ \/ Words = <<>> /\ shell' = "crashed" /\ UNCHANGED <<where, command>>
           \/ /\ Words # <<>> /\ Words[1] = <<"cd">>
              /\ where' \in IF Len(Words) > 1 THEN Places ELSE {where}
              /\ UNCHANGED <<shell, command>>
           \/ /\ Words # <<>> /\ Words[1] # <<"cd">>
              /\ shell' = "fork"
              /\ g_argv' = Words
              /\ redir_status' = Redir.status
              /\ sep' = Redir.sep
              /\ UNCHANGED where
    BY <1>3, Zenon DEF GetLine
  <2>2. Told' = Told /\ Fits' = Fits BY <2>1 DEF Told, Fits
  <2>3. CASE ~Fits BY <2>2, <2>3 DEF Parsed
  <2>4. CASE Fits
    <3>1. typed = said /\ Len(typed) < NUM BY <2>1, <2>4 DEF IInv, ReadWhole, Fits
    <3>2. line = Told BY <3>1 DEF Told
    <3>3. Redir = redir /\ Words = words BY <3>2
    <3>. HIDE DEF redir, words, Redir, Words
    <3>4. /\ shell' \in {"fork", "wait"} =>
                 g_argv' = words /\ redir_status' = redir.status /\ sep' = redir.sep
          /\ shell' = "crashed" => words = <<>>
      BY <2>1, <3>3
    <3>. QED BY <3>4, <2>2 DEF Parsed, redir, words
  <2>. QED BY <2>3, <2>4
<1>4. ASSUME NEW line \in Lines, NEW end \in {<<newline>>, <<>>}, Type(line, end) PROVE Parsed'
  <2>1. shell' = "prompt" BY <1>4 DEF Type
  <2>. QED BY <2>1 DEF Parsed
<1>5. CASE UNCHANGED vars BY <1>5, <1>2 DEF vars, text
<1>6. CASE Fork BY <1>6, <1>2 DEF Fork, text
<1>7. CASE Wait BY <1>7, <1>2 DEF Wait, text
<1>8. CASE Redirect BY <1>8, <1>2 DEF Redirect, text
<1>9. CASE Exec BY <1>9, <1>2 DEF Exec, text
<1>10. CASE End BY <1>10, <1>2 DEF End, text
<1>11. CASE Work BY <1>11, <1>2 DEF Work, text
<1>12. CASE Interrupt BY <1>12, <1>2 DEF Interrupt, text
<1>. QED BY <1>3, <1>4, <1>5, <1>6, <1>7, <1>8, <1>9, <1>10, <1>11, <1>12 DEF Next, Step

\* The child's descriptors are set once, between fork() and execvp().
LEMMA OpenedStep == ASSUME IInv, [Next]_vars PROVE Opened'
<1>1. CASE child' = child /\ UNCHANGED <<where, file, command, fd>> /\ count' = count
  BY <1>1 DEF IInv, Opened, command
<1>2. CASE child' = "zombie" BY <1>2 DEF Opened
<1>3. CASE child' \in {"none", "redirect"} /\ fd' = tty BY <1>3 DEF Opened
<1>4. CASE child = "none" /\ child' = child /\ fd' = fd BY <1>4 DEF IInv, Opened
<1>5. CASE Redirect
  <2>1. PICK ok \in canOpen(sep) :
                  /\ fd' = CASE ~ok \/ redir_status = "NONE" -> fd
                             [] ok /\ redir_status = "INPUT" -> [fd EXCEPT ![0] = sep]
                             [] ok /\ redir_status \in {"OUTPUT", "APPEND"} -> [fd EXCEPT ![1] = sep]
                  /\ file' = IF ok /\ sep = x /\ redir_status \in {"OUTPUT", "APPEND"}
                             THEN opened(redir_status = "OUTPUT") ELSE file
    BY <1>5 DEF Redirect
  <2>2. child' = "exec" /\ fd = tty /\ UNCHANGED <<where, count, command>>
    BY <1>5 DEF Redirect, IInv, Opened, command, text
  <2>3. redir_status \in {"NONE", "INPUT", "OUTPUT", "APPEND"} BY DEF IInv, TypeOK
  <2>4. fd[0] = terminal /\ fd[1] = terminal /\ DOMAIN fd = {0, 1} BY <2>2 DEF tty
  <2>5. ok \in BOOLEAN BY DEF canOpen
  <2>6. /\ fd'[0] \in IF redir_status = "INPUT" THEN {sep, terminal} ELSE {terminal}
        /\ fd'[1] \in IF redir_status \in {"OUTPUT", "APPEND"} THEN {sep, terminal} ELSE {terminal}
    BY <2>1, <2>3, <2>4, <2>5
  <2>7. ASSUME sep = x PROVE ok = (redir_status # "INPUT" \/ where \in DOMAIN file)
    <3>1. x # <<>> BY DEF x
    <3>. QED BY <3>1, <2>7, <2>1 DEF canOpen
  <2>8. ASSUME sep = x, redir_status = "INPUT", where \in DOMAIN file' PROVE fd'[0] = x
    <3>1. file' = file BY <2>1, <2>8
    <3>2. ok BY <2>7, <2>8, <3>1
    <3>. QED BY <3>2, <2>1, <2>4, <2>8
  <2>9. ASSUME sep = x, redir_status \in {"OUTPUT", "APPEND"} PROVE fd'[1] = x /\ where \in DOMAIN file'
    <3>1. ok BY <2>7, <2>9
    <3>2. file' = opened(redir_status = "OUTPUT") BY <3>1, <2>1, <2>9
    <3>. QED BY <3>1, <3>2, <2>1, <2>4, <2>9 DEF opened
  <2>10. ASSUME sep = x, redir_status = "OUTPUT" PROVE Range(file'[where]) \subseteq {count}
    <3>1. ok BY <2>7, <2>10
    <3>2. file' = opened(TRUE) BY <3>1, <2>1, <2>10
    <3>3. file'[where] = <<>> BY <3>2 DEF opened
    <3>. QED BY <3>3 DEF Range
  <2>. QED BY <2>2, <2>6, <2>8, <2>9, <2>10 DEF Opened, command
<1>6. CASE Exec
  <2>. QED BY <1>6 DEF Exec, IInv, Opened, command, text
<1>7. CASE Work
  <2>1. child' = child /\ child = "running" /\ DOMAIN file' = DOMAIN file
        /\ UNCHANGED <<where, count, command, fd>> BY <1>7 DEF Work, text
  <2>2. ASSUME sep = x, redir_status = "OUTPUT" PROVE Range(file'[where]) \subseteq {count}
    <3>1. Range(file[where]) \subseteq {count} /\ where \in DOMAIN file BY <2>1, <2>2 DEF IInv, Opened
    <3>2. file'[where] = Append(file[where], count) BY <1>7, <3>1 DEF Work
    <3>3. file[where] \in Seq(0 .. count) BY <3>1 DEF IInv, TypeOK
    <3>. QED BY <3>1, <3>2, <3>3 DEF Range
  <2>. QED BY <2>1, <2>2 DEF IInv, Opened, command
<1>8. GetLine => child = "none" /\ child' = child /\ fd' = fd BY DEF GetLine, IInv, TypeOK
<1>9. \A line, end : Type(line, end) => child = "none" /\ child' = child /\ fd' = fd
  BY DEF Type, IInv, TypeOK
<1>10. Fork => (child' = "redirect" /\ fd' = tty) \/ (child = "none" /\ child' = child /\ fd' = fd)
  BY DEF Fork, IInv, TypeOK
<1>. QED
  BY <1>1, <1>2, <1>3, <1>4, <1>5, <1>6, <1>7, <1>8, <1>9, <1>10
  DEF Next, Step, vars, text, Wait, End, Interrupt

\* The invariant is inductive.
LEMMA InitIInv == Init => IInv
<1>. SUFFICES ASSUME Init PROVE IInv OBVIOUS
<1>1. TypeOK BY InitTyped
<1>2. ReadWhole BY DEF Init, ReadWhole
<1>3. Parsed BY DEF Init, Parsed
<1>4. Opened BY DEF Init, Opened
<1>. QED BY <1>1, <1>2, <1>3, <1>4 DEF IInv

\* No step leaves the invariant.
LEMMA NextIInv == IInv /\ [Next]_vars => IInv'
<1>. SUFFICES ASSUME IInv, [Next]_vars PROVE IInv' OBVIOUS
<1>1. TypeOK' BY NextTyped DEF IInv
<1>. QED BY <1>1, ReadWholeStep, ParsedStep, OpenedStep DEF IInv

\* Whatever is typed: CheckRedir() leaves no line without a status, the shell waits exactly
\* while it has a child (myshell.c:160-205), and a file holds what commands of lines
\* typed so far have written.
THEOREM TypeCorrect == Spec => []TypeOK
<1>1. Init => TypeOK BY InitTyped
<1>2. TypeOK /\ [Next]_vars => TypeOK' BY NextTyped
<1>. QED BY <1>1, <1>2, PTL DEF Spec

\* The invariant holds in every state.
LEMMA Always == Spec => []IInv
BY InitIInv, NextIInv, PTL DEF Spec

-----------------------------------------------------------------------------
(***************************************************************************)
(* What the line says.                                                     *)
(***************************************************************************)
\* The least element of a set of numbers.
LEMMA MinIs == ASSUME NEW M, M \subseteq Nat, NEW m \in M, \A y \in M : m <= y PROVE Min(M) = m
<1>1. \A k \in M : (\A y \in M : k <= y) => k = m OBVIOUS
<1>. QED BY <1>1 DEF Min

\* The greatest one.
LEMMA MaxIs == ASSUME NEW M, M \subseteq Nat, NEW m \in M, \A y \in M : m >= y PROVE Max(M) = m
<1>1. \A k \in M : (\A y \in M : k >= y) => k = m OBVIOUS
<1>. QED BY <1>1 DEF Max

\* What was typed, without its newline, is a line.
LEMMA ToldType == ASSUME TypeOK PROVE Told \in Seq(Pieces \cup {newline})
<1> DEFINE P == Pieces \cup {newline}
<1>. HIDE DEF P
<1>1. said \in Seq(P) BY DEF TypeOK, P
<1>2. CASE Len(said) = 0
  <2>1. said = <<>> BY <1>1, <1>2, NoPieces
  <2>2. Told = <<>> BY <2>1 DEF Told
  <2>. QED BY <2>2
<1>3. CASE Len(said) # 0
  <2>1. 1 \in 1 .. Len(said) + 1 /\ Len(said) - 1 \in 1 - 1 .. Len(said) BY <1>1, <1>3
  <2>. QED BY <1>1, <2>1, Part DEF Told, P
<1>. QED BY <1>2, <1>3

\* Intervals from 1 are the same when they end at the same number.
LEMMA SameInterval == ASSUME NEW c \in Nat, NEW d \in Nat, 1 .. c = 1 .. d PROVE c = d
<1>1. Cardinality(1 .. c) = c /\ Cardinality(1 .. d) = d BY FS_Interval
<1>. QED BY <1>1

\* A line with at most one operator: CheckRedir() finds it, and cuts the line there.
LEMMA SignSays ==
    ASSUME TypeOK, Sign \in {<<>>, <<"<">>, <<">">>, <<">", ">">>}
    PROVE  LET redir == CheckRedir(Told)
           IN  /\ SubSeq(Told, 1, redir.cut) = Before
               /\ redir.status = IF Sign = <<>> THEN "NONE"
                                 ELSE IF Sign = <<"<">> THEN "INPUT"
                                 ELSE IF Sign = <<">">> THEN "OUTPUT" ELSE "APPEND"
               /\ Sign # <<>> => redir.sep = Behind /\ Marks(Told) # {}
<1> DEFINE P == Pieces \cup {newline}
           line == Told
           M == Marks(line)
           redir == CheckRedir(line)
<1>1. line \in Seq(P) BY ToldType
<1>. HIDE DEF P
<1>2. Before = SubSeq(line, 1, (IF M = {} THEN Len(line) + 1 ELSE Min(M)) - 1) BY DEF Before
<1>3. Behind = SubSeq(line, Max(M) + 1, Len(line)) BY DEF Behind
<1>4. Sign = [i \in 1 .. Cardinality(M) |-> line[Min(M) + i - 1]] BY DEF Sign
<1>. HIDE DEF line
<1>5. Len(line) \in Nat BY <1>1
<1>6. M \subseteq 1 .. Len(line) /\ (\A i \in 1 .. Len(line) : i \in M <=> line[i] \in {"<", ">"})
  BY <1>1 DEF Marks, Operators
<1>7. IsFiniteSet(M) /\ Cardinality(M) \in Nat
  <2>1. IsFiniteSet(1 .. Len(line)) BY <1>5, FS_Interval
  <2>. QED BY <1>6, <2>1, FS_Subset, FS_CardinalityType
<1>8. /\ M = {} => redir = [status |-> "NONE", cut |-> Len(line), sep |-> <<>>]
      /\ M # {} => LET last == Max(M)
                       twice == last > 1 /\ line[last - 1] = ">"
                   IN  /\ redir.sep = SubSeq(line, last + 1, Len(line))
                       /\ redir.status = IF line[last] = "<" THEN "INPUT"
                                         ELSE IF twice THEN "APPEND" ELSE "OUTPUT"
                       /\ redir.cut = IF line[last] = ">" /\ twice THEN last - 2 ELSE last - 1
  BY <1>1, CheckRedirTakesTheLast
<1>. HIDE DEF M, redir
<1>. DEFINE Goal == /\ SubSeq(line, 1, redir.cut) = Before
                    /\ redir.status = IF Sign = <<>> THEN "NONE"
                                      ELSE IF Sign = <<"<">> THEN "INPUT"
                                      ELSE IF Sign = <<">">> THEN "OUTPUT" ELSE "APPEND"
                    /\ Sign # <<>> => redir.sep = Behind /\ M # {}
<1>9. ASSUME Sign = <<>> PROVE Goal
  <2>1. Cardinality(M) = 0
    <3>1. DOMAIN Sign = 1 .. Cardinality(M) BY <1>4
    <3>2. DOMAIN Sign = {} BY <1>9
    <3>. QED BY <3>1, <3>2, <1>7
  <2>2. M = {} BY <2>1, <1>7, FS_EmptySet
  <2>3. redir.cut = Len(line) /\ redir.status = "NONE" BY <2>2, <1>8
  <2>4. (Len(line) + 1) - 1 = Len(line) BY <1>5
  <2>5. Before = SubSeq(line, 1, Len(line)) BY <2>2, <2>4, <1>2
  <2>6. SubSeq(line, 1, redir.cut) = Before BY <2>3, <2>5
  <2>. QED BY <2>3, <2>6, <1>9, Zenon
<1>10. ASSUME NEW c \in {"<", ">"}, Sign = <<c>> PROVE Goal
  <2>1. Cardinality(M) = 1
    <3>1. DOMAIN Sign = 1 .. Cardinality(M) BY <1>4
    <3>2. DOMAIN Sign = 1 .. 1 BY <1>10
    <3>. QED BY <3>1, <3>2, <1>7, SameInterval
  <2>2. PICK m : M = {m} BY <2>1, <1>7, FS_Singleton
  <2>3. m \in 1 .. Len(line) BY <2>2, <1>6
  <2>4. Min(M) = m /\ Max(M) = m /\ M # {}
    <3>1. M \subseteq Nat /\ m \in M /\ (\A y \in M : m <= y) /\ \A y \in M : m >= y BY <2>2, <2>3
    <3>2. Min(M) = m BY <3>1, MinIs
    <3>3. Max(M) = m BY <3>1, MaxIs
    <3>. QED BY <3>1, <3>2, <3>3
  <2>5. line[m] = c
    <3>1. Sign[1] = line[m + 1 - 1] BY <1>4, <2>1, <2>4
    <3>2. m + 1 - 1 = m BY <2>3
    <3>. QED BY <3>1, <3>2, <1>10
  <2>6. ~(m > 1 /\ line[m - 1] = ">")
    <3>1. ASSUME m > 1 PROVE m - 1 \in 1 .. Len(line) /\ m - 1 \notin M BY <3>1, <2>2, <2>3
    <3>. QED BY <3>1, <1>6
  <2>7. redir.cut = m - 1 /\ redir.sep = Behind /\ redir.status = IF c = "<" THEN "INPUT" ELSE "OUTPUT"
    BY <2>4, <2>5, <2>6, <1>3, <1>8
  <2>8. Before = SubSeq(line, 1, m - 1) BY <2>4, <1>2
  <2>9. Sign # <<>> /\ (Sign = <<"<">> <=> c = "<") /\ (Sign = <<">">> <=> c = ">") BY <1>10
  <2>. QED BY <2>4, <2>7, <2>8, <2>9
<1>11. ASSUME Sign = <<">", ">">> PROVE Goal
  <2>1. Cardinality(M) = 2
    <3>1. DOMAIN Sign = 1 .. Cardinality(M) BY <1>4
    <3>2. DOMAIN Sign = 1 .. 2 BY <1>11
    <3>. QED BY <3>1, <3>2, <1>7
  <2>2. \E a, b \in M : a < b /\ M = {a, b}
    <3>1. PICK a \in M : TRUE BY <2>1, FS_EmptySet
    <3>2. Cardinality(M \ {a}) = 1 /\ IsFiniteSet(M \ {a}) BY <2>1, <1>7, FS_RemoveElement
    <3>3. PICK b : M \ {a} = {b} BY <3>2, FS_Singleton
    <3>4. M = {a, b} /\ a # b /\ b \in M BY <3>1, <3>3
    <3>5. a \in 1 .. Len(line) /\ b \in 1 .. Len(line) BY <3>4, <1>6
    <3>. QED BY <3>4, <3>5
  <2>3. PICK m \in M, n \in M : m < n /\ M = {m, n} BY <2>2
  <2>4. m \in 1 .. Len(line) /\ n \in 1 .. Len(line) BY <1>6
  <2>5. Min(M) = m /\ Max(M) = n /\ M # {}
    <3>1. M \subseteq Nat /\ (\A y \in M : m <= y) /\ \A y \in M : n >= y BY <2>3, <2>4
    <3>2. Min(M) = m BY <3>1, MinIs
    <3>3. Max(M) = n BY <3>1, MaxIs
    <3>. QED BY <3>1, <3>2, <3>3
  <2>6. line[m] = ">" /\ line[m + 1] = ">"
    <3>1. Sign[1] = line[m + 1 - 1] /\ Sign[2] = line[m + 2 - 1] BY <1>4, <2>1, <2>5
    <3>2. m + 1 - 1 = m /\ m + 2 - 1 = m + 1 BY <2>4
    <3>. QED BY <3>1, <3>2, <1>11
  <2>7. n = m + 1
    <3>1. m + 1 \in 1 .. Len(line) BY <2>3, <2>4
    <3>2. m + 1 \in M BY <3>1, <2>6, <1>6
    <3>. QED BY <3>2, <2>3, <2>4
  <2>8. n > 1 /\ n - 1 = m /\ n - 2 = m - 1 BY <2>4, <2>7
  <2>9. redir.cut = m - 1 /\ redir.sep = Behind /\ redir.status = "APPEND"
    BY <2>5, <2>6, <2>7, <2>8, <1>3, <1>8
  <2>10. Before = SubSeq(line, 1, m - 1) BY <2>5, <1>2
  <2>11. Sign # <<>> /\ Sign # <<"<">> /\ Sign # <<">">> BY <1>11
  <2>12. SubSeq(line, 1, redir.cut) = Before BY <2>9, <2>10
  <2>. QED BY <2>5, <2>9, <2>11, <2>12, Zenon
<1>12. Goal
  <2>. HIDE DEF Goal
  <2>1. Sign = <<>> \/ (\E c \in {"<", ">"} : Sign = <<c>>) \/ Sign = <<">", ">">> OBVIOUS
  <2>. QED BY <2>1, <1>9, <1>10, <1>11
<1>. QED BY <1>12 DEF line, M, redir

-----------------------------------------------------------------------------
(***************************************************************************)
(* Each line does what it says.                                            *)
(***************************************************************************)
\* What the globals hold of a well formed line.
LEMMA ParsedAsWritten ==
    ASSUME IInv, WellFormed, shell \in {"fork", "wait"}
    PROVE  /\ g_argv = Split(Before) /\ strtok(Before) = WordsOf(Before)
           /\ WordsOf(Before) \in Seq(Seq(Pieces \cup {newline}))
           /\ redir_status = IF Sign = <<>> THEN "NONE"
                             ELSE IF Sign = <<"<">> THEN "INPUT"
                             ELSE IF Sign = <<">">> THEN "OUTPUT" ELSE "APPEND"
           /\ Sign # <<>> => sep = Behind
<1> DEFINE redir == CheckRedir(Told)
<1>1. Fits /\ Sign \in {<<>>, <<"<">>, <<">">>, <<">", ">">>} BY DEF WellFormed
<1>2. g_argv = Split(SubSeq(Told, 1, redir.cut)) /\ redir_status = redir.status /\ sep = redir.sep
  BY <1>1 DEF IInv, Parsed
<1>3. TypeOK BY DEF IInv
<1>4. /\ SubSeq(Told, 1, redir.cut) = Before
      /\ redir.status = IF Sign = <<>> THEN "NONE"
                        ELSE IF Sign = <<"<">> THEN "INPUT"
                        ELSE IF Sign = <<">">> THEN "OUTPUT" ELSE "APPEND"
      /\ Sign # <<>> => redir.sep = Behind
  BY <1>1, <1>3, SignSays
<1>5. Before \in Seq(Pieces \cup {newline})
  <2>1. Told \in Seq(Pieces \cup {newline}) BY <1>3, ToldType
  <2>2. Marks(Told) \subseteq 1 .. Len(Told) BY DEF Marks
  <2>3. CASE Marks(Told) = {}
    <3>1. Before = SubSeq(Told, 1, Len(Told)) /\ Len(Told) \in Nat BY <2>1, <2>3 DEF Before
    <3>2. 1 \in 1 .. Len(Told) + 1 /\ Len(Told) \in 1 - 1 .. Len(Told) BY <3>1
    <3>. QED BY <3>1, <3>2, <2>1, Part
  <2>4. CASE Marks(Told) # {}
    <3>1. PICK m \in Marks(Told) : \A y \in Marks(Told) : m <= y BY <2>2, <2>4, Least
    <3>2. Min(Marks(Told)) = m BY <3>1, <2>2, MinIs
    <3>3. Before = SubSeq(Told, 1, m - 1) BY <3>2, <2>4 DEF Before
    <3>4. 1 \in 1 .. Len(Told) + 1 /\ m - 1 \in 1 - 1 .. Len(Told) BY <2>1, <2>2
    <3>. QED BY <3>3, <3>4, <2>1, Part
  <2>. QED BY <2>3, <2>4
<1>6. strtok(Before) = WordsOf(Before) /\ strtok(Before) \in Seq(Seq(Pieces \cup {newline}))
  BY <1>5, StrtokFindsTheWords
<1>. QED BY <1>2, <1>4, <1>6, Zenon

\* The child runs with the words of the line, ls with its option behind the first.
LEMMA SplitIs ==
    ASSUME NEW S, NEW line, NEW words \in Seq(Seq(S)), strtok(line) = words, words # <<>>
    PROVE  /\ Split(line)[1] = words[1] /\ Split(line) # <<>>
           /\ Split(line) \in {words, <<<<"ls">>, <<"--color=auto">>>> \o Tail(words)}
<1>. DEFINE split == Split(line)
<1>1. split = IF words # <<>> /\ words[1] = <<"ls">>
              THEN <<words[1], <<"--color=auto">>>> \o Tail(words) ELSE words
  BY Zenon DEF Split
<1>. HIDE DEF split
<1>2. CASE words[1] = <<"ls">>
  <2>. DEFINE ls == <<"ls">>
              color == <<"--color=auto">>
              rest == Tail(words)
  <2>1. rest \in Seq(Seq(S)) /\ Len(rest) \in Nat OBVIOUS
  <2>2. split = <<ls, color>> \o rest /\ words[1] = ls BY <1>1, <1>2, Zenon
  <2>. HIDE DEF ls, color, rest
  <2>3. (<<ls, color>> \o rest)[1] = ls /\ Len(<<ls, color>> \o rest) = 2 + Len(rest)
    <3>1. rest \in Seq(Seq(S) \cup {ls, color}) BY <2>1, Wider
    <3>2. <<ls, color>> \in Seq(Seq(S) \cup {ls, color}) OBVIOUS
    <3>. QED BY <3>1, <3>2
  <2>4. <<ls, color>> \o rest # <<>> BY <2>1, <2>3
  <2>5. split[1] = words[1] /\ split # <<>> BY <2>2, <2>3, <2>4
  <2>. QED BY <2>2, <2>5, Zenon DEF split, ls, color, rest
<1>3. CASE words[1] # <<"ls">>
  <2>1. split = words BY <1>1, <1>3, Zenon
  <2>. QED BY <2>1, Zenon DEF split
<1>. QED BY <1>2, <1>3

\* The shell crashes on no line that has a word in front of its last operator.
LEMMA CrashedIsWordless ==
    ASSUME IInv, shell = "crashed", Fits
    PROVE  \/ WordsOf(Told) = <<>>
           \/ /\ Marks(Told) # {}
              /\ WordsOf(SubSeq(Told, 1, Max(Marks(Told)) - 1)) \in {<<>>, <<<<">">>>>}
<1> DEFINE P == Pieces \cup {newline}
           line == Told
           redir == CheckRedir(line)
           M == Marks(line)
           last == Max(M)
<1>1. line \in Seq(P) BY ToldType DEF IInv
<1>2. Split(SubSeq(line, 1, redir.cut)) = <<>> BY DEF IInv, Parsed
<1>. HIDE DEF line, P
<1>3. Len(line) \in Nat /\ M \subseteq 1 .. Len(line) BY <1>1 DEF Marks
<1>4. \A n \in 0 .. Len(line) : SubSeq(line, 1, n) \in Seq(P) /\ Len(SubSeq(line, 1, n)) = n
                                /\ \A i \in 1 .. n : SubSeq(line, 1, n)[i] = line[i]
  <2>. TAKE n \in 0 .. Len(line)
  <2>1. 1 \in 1 .. Len(line) + 1 /\ n \in 1 - 1 .. Len(line) /\ n - 1 + 1 = n BY <1>3
  <2>2. /\ SubSeq(line, 1, n) \in Seq(P)
        /\ Len(SubSeq(line, 1, n)) = n - 1 + 1
        /\ \A i \in 1 .. n - 1 + 1 : SubSeq(line, 1, n)[i] = line[1 + i - 1] BY <1>1, <2>1, Part
  <2>3. \A i \in 1 .. n : 1 + i - 1 = i OBVIOUS
  <2>. QED BY <2>1, <2>2, <2>3
<1>5. ASSUME NEW n \in 0 .. Len(line), redir.cut = n PROVE WordsOf(SubSeq(line, 1, n)) = <<>>
  <2>. DEFINE part == SubSeq(line, 1, n)
  <2>1. part \in Seq(P) /\ Split(part) = <<>> BY <1>2, <1>4, <1>5
  <2>. HIDE DEF part
  <2>2. strtok(part) = WordsOf(part) /\ strtok(part) \in Seq(Seq(P)) BY <2>1, StrtokFindsTheWords
  <2>3. strtok(part) = <<>> BY <2>1, <2>2, SplitIs
  <2>. QED BY <2>2, <2>3 DEF part
<1>6. /\ M = {} => redir = [status |-> "NONE", cut |-> Len(line), sep |-> <<>>]
      /\ M # {} => LET twice == last > 1 /\ line[last - 1] = ">"
                   IN  /\ last \in M
                       /\ redir.cut = IF line[last] = ">" /\ twice THEN last - 2 ELSE last - 1
  BY <1>1, CheckRedirTakesTheLast
<1>. HIDE DEF M, redir, last
<1>7. ASSUME M = {} PROVE WordsOf(line) = <<>>
  <2>1. redir.cut = Len(line) BY <1>6, <1>7
  <2>2. Len(line) \in 0 .. Len(line) BY <1>3
  <2>3. WordsOf(SubSeq(line, 1, Len(line))) = <<>> BY <2>1, <2>2, <1>5
  <2>4. SubSeq(line, 1, Len(line)) = line BY <1>1, <1>4, <2>2, SameSeq
  <2>. QED BY <2>3, <2>4
<1>8. ASSUME M # {} PROVE WordsOf(SubSeq(line, 1, last - 1)) \in {<<>>, <<<<">">>>>}
  <2>1. last \in 1 .. Len(line) BY <1>3, <1>6, <1>8
  <2>2. CASE redir.cut = last - 1
    <3>1. last - 1 \in 0 .. Len(line) BY <2>1
    <3>. QED BY <3>1, <2>2, <1>5
  <2>3. CASE redir.cut = last - 2 /\ last > 1 /\ line[last - 1] = ">"
    <3>. DEFINE n == last - 1
                part == SubSeq(line, 1, n)
                less == SubSeq(line, 1, n - 1)
    <3>1. n \in 1 .. Len(line) /\ n - 1 = last - 2 /\ n \in 0 .. Len(line) /\ n - 1 \in 0 .. Len(line)
      BY <2>1, <2>3
    <3>2. WordsOf(less) = <<>> BY <3>1, <2>3, <1>5
    <3>3. part \in Seq(P) /\ Len(part) = n /\ part[n] = ">" /\ \A i \in 1 .. n : part[i] = line[i]
      BY <3>1, <2>3, <1>4
    <3>4. less \in Seq(P) /\ Len(less) = n - 1 /\ \A i \in 1 .. n - 1 : less[i] = line[i]
      BY <3>1, <1>4
    <3>. HIDE DEF n, part, less
    <3>5. \A i \in 1 .. n - 1 : less[i] = blank BY <3>2, <3>4, NoWordIsBlank
    <3>6. \A i \in 1 .. Len(part) - 1 : part[i] = blank BY <3>1, <3>3, <3>4, <3>5
    <3>7. part # <<>> /\ part[Len(part)] = ">" BY <3>1, <3>3
    <3>8. ">" # blank BY DEF blank
    <3>9. WordsOf(part) = <<<<part[Len(part)]>>>> BY <3>3, <3>6, <3>7, <3>8, LastPieceIsTheWord
    <3>. QED BY <3>7, <3>9 DEF part, n
  <2>. QED BY <1>6, <1>8, <2>2, <2>3
<1>. QED BY <1>7, <1>8 DEF line, M, last

\* In every state: a running child has the words and the streams of its line.
LEMMA RunsWritten == IInv => RunsAsWritten
<1>. SUFFICES ASSUME IInv PROVE RunsAsWritten OBVIOUS
<1> DEFINE words == WordsOf(Before)
           to(i, signs) == IF Sign \in signs THEN {Behind, terminal} ELSE {terminal}
<1>1. ASSUME child = "running", WellFormed
      PROVE  /\ g_argv[1] = words[1]
             /\ g_argv \in {words, <<<<"ls">>, <<"--color=auto">>>> \o Tail(words)}
             /\ fd[0] \in to(0, {<<"<">>}) /\ fd[1] \in to(1, {<<">">>, <<">", ">">>})
             /\ Sign = <<"<">> /\ Behind = x /\ where \in DOMAIN file => fd[0] = x
             /\ Sign \in {<<">">>, <<">", ">">>} /\ Behind = x => fd[1] = x
             /\ Sign = <<">">> /\ Behind = x => Range(file[where]) \subseteq {count}
  <2>1. shell = "wait" BY <1>1 DEF IInv, TypeOK
  <2>2. /\ g_argv = Split(Before) /\ strtok(Before) = words
        /\ words \in Seq(Seq(Pieces \cup {newline}))
        /\ redir_status = IF Sign = <<>> THEN "NONE"
                          ELSE IF Sign = <<"<">> THEN "INPUT"
                          ELSE IF Sign = <<">">> THEN "OUTPUT" ELSE "APPEND"
        /\ Sign # <<>> => sep = Behind
    BY <2>1, <1>1, ParsedAsWritten
  <2>3. words # <<>> /\ Sign \in {<<>>, <<"<">>, <<">">>, <<">", ">">>} BY <1>1 DEF WellFormed
  <2>4. g_argv[1] = words[1] /\ g_argv \in {words, <<<<"ls">>, <<"--color=auto">>>> \o Tail(words)}
    BY <2>2, <2>3, SplitIs, Zenon
  <2>5. /\ fd[0] \in IF redir_status = "INPUT" THEN {sep, terminal} ELSE {terminal}
        /\ fd[1] \in IF redir_status \in {"OUTPUT", "APPEND"} THEN {sep, terminal} ELSE {terminal}
        /\ sep = x /\ redir_status = "INPUT" /\ where \in DOMAIN file => fd[0] = x
        /\ sep = x /\ redir_status \in {"OUTPUT", "APPEND"} => fd[1] = x
        /\ sep = x /\ redir_status = "OUTPUT" => Range(file[where]) \subseteq {count}
    BY <1>1 DEF IInv, Opened
  <2>6. /\ <<"<">> # <<>> /\ <<">">> # <<>> /\ <<">", ">">> # <<>>
        /\ <<"<">> # <<">">> /\ <<"<">> # <<">", ">">> /\ <<">">> # <<">", ">">>
    OBVIOUS
  <2>. DEFINE none == <<>>
              lt == <<"<">>
              gt == <<">">>
              gtgt == <<">", ">">>
  <2>7. /\ lt # none /\ gt # none /\ gtgt # none /\ lt # gt /\ lt # gtgt /\ gt # gtgt
        /\ Sign \in {none, lt, gt, gtgt}
        /\ redir_status = IF Sign = none THEN "NONE" ELSE IF Sign = lt THEN "INPUT"
                          ELSE IF Sign = gt THEN "OUTPUT" ELSE "APPEND"
        /\ Sign # none => sep = Behind
    BY <2>2, <2>3, <2>6, Zenon
  <2>. HIDE DEF none, lt, gt, gtgt
  <2>8. /\ fd[0] \in to(0, {lt}) /\ fd[1] \in to(1, {gt, gtgt})
        /\ Sign = lt /\ Behind = x /\ where \in DOMAIN file => fd[0] = x
        /\ Sign \in {gt, gtgt} /\ Behind = x => fd[1] = x
        /\ Sign = gt /\ Behind = x => Range(file[where]) \subseteq {count}
    BY <2>5, <2>7
  <2>. QED BY <2>4, <2>8, Zenon DEF lt, gt, gtgt
<1>2. ASSUME shell = "crashed", Fits
      PROVE  \/ WordsOf(Told) = <<>>
             \/ Marks(Told) # {} /\ WordsOf(SubSeq(Told, 1, Max(Marks(Told)) - 1)) \in {<<>>, <<<<">">>>>}
  BY <1>2, CrashedIsWordless
<1>. QED BY <1>1, <1>2, Zenon DEF RunsAsWritten

\* In every step: only the open() for > takes something away from a file.
LEMMA KeepsStep == ASSUME IInv, [Next]_vars PROVE KeepsFiles
<1>1. ASSUME NEW w \in DOMAIN file PROVE file[w] \in Seq(0 .. count) /\ IsPrefix(file[w], file[w])
  <2>1. file[w] \in Seq(0 .. count) BY DEF IInv, TypeOK
  <2>. QED BY <2>1 DEF IsPrefix
<1>2. CASE file' = file BY <1>1, <1>2 DEF KeepsFiles
<1>3. CASE Work
  <2>1. DOMAIN file' = DOMAIN file BY <1>3 DEF Work
  <2>2. ASSUME NEW w \in DOMAIN file PROVE IsPrefix(file[w], file'[w])
    <3>1. CASE w # where
      <4>1. file'[w] = file[w] BY <1>3, <3>1 DEF Work
      <4>. QED BY <4>1, <1>1
    <3>2. CASE w = where
      <4>. DEFINE s == file[w]
      <4>1. file'[w] = Append(s, count) BY <1>3, <3>2 DEF Work
      <4>2. s \in Seq(0 .. count) /\ count \in 0 .. count BY <1>1 DEF IInv, TypeOK
      <4>. HIDE DEF s
      <4>3. IsPrefix(s, Append(s, count)) BY <4>2 DEF IsPrefix
      <4>. QED BY <4>1, <4>3 DEF s
    <3>. QED BY <3>1, <3>2
  <2>. QED BY <2>1, <2>2 DEF KeepsFiles
<1>4. CASE Redirect
  <2>1. PICK ok \in canOpen(sep) :
           file' = IF ok /\ sep = x /\ redir_status \in {"OUTPUT", "APPEND"}
                   THEN opened(redir_status = "OUTPUT") ELSE file
    BY <1>4 DEF Redirect
  <2>2. file' = file \/ file' = opened(redir_status = "OUTPUT") BY <2>1
  <2>3. CASE file' = opened(redir_status = "OUTPUT")
    <3>1. shell = "wait" BY <1>4 DEF Redirect, IInv, TypeOK
    <3>2. ASSUME redir_status = "OUTPUT", WellFormed PROVE Sign = <<">">>
      <4>. DEFINE none == <<>>
                  lt == <<"<">>
                  gt == <<">">>
      <4>1. redir_status = IF Sign = none THEN "NONE" ELSE IF Sign = lt THEN "INPUT"
                           ELSE IF Sign = gt THEN "OUTPUT" ELSE "APPEND"
        BY <3>1, <3>2, ParsedAsWritten
      <4>. HIDE DEF none, lt, gt
      <4>2. Sign = gt BY <4>1, <3>2
      <4>. QED BY <4>2 DEF gt
    <3>3. ASSUME NEW w \in DOMAIN file
          PROVE w \in DOMAIN file' /\ (redir_status # "OUTPUT" => file'[w] = file[w])
      BY <2>3 DEF opened
    <3>4. ASSUME NEW w \in DOMAIN file
          PROVE IsPrefix(file[w], file'[w]) \/ (WellFormed => Sign = <<">">>)
      BY <3>2, <3>3, <1>1
    <3>. QED BY <3>3, <3>4 DEF KeepsFiles
  <2>. QED BY <2>2, <2>3, <1>2
<1>. QED
  BY <1>2, <1>3, <1>4
  DEF Next, Step, vars, GetLine, Fork, Wait, Exec, End, Interrupt, Type

\* Whatever lines are typed, the command of a well formed line runs with the words in
\* front of its operator and the streams its operator says, nothing is lost from a file
\* unless the line says > , and the shell crashes on no line that fits and has a word in
\* front of its last operator, a > of its own aside (myshell.c:93-205).
THEOREM DoesAsWritten == Spec => AsWritten
<1>1. IInv => RunsAsWritten BY RunsWritten
<1>2. IInv /\ [Next]_vars => KeepsFiles BY KeepsStep
<1>3. Spec => []IInv /\ [][Next]_vars BY Always, PTL DEF Spec
<1>. QED BY <1>1, <1>2, <1>3, PTL DEF AsWritten

=============================================================================
