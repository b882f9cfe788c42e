---------------------------- MODULE MerkleProofs ----------------------------
(***************************************************************************)
(* Proofs about the Merkle trees of the audit log, for trees of every      *)
(* size: the root, the inclusion proofs and the consistency proofs, and    *)
(* that those the API serves verify.                                       *)
(***************************************************************************)
EXTENDS AuditApiProofs

-----------------------------------------------------------------------------
(* The root level by level *)

LEMMA PairedIs ==
  ASSUME NEW s, Len(s) \in Nat
  PROVE  /\ Len(Paired(s)) = (Len(s) + 1) \div 2
         /\ \A i \in 1..((Len(s) + 1) \div 2) :
              Paired(s)[i] = IF 2 * i <= Len(s) THEN NodeHash(s[2 * i - 1], s[2 * i])
                             ELSE s[2 * i - 1]
<1> DEFINE h == (Len(s) + 1) \div 2
           At(i) == IF 2 * i <= Len(s) THEN NodeHash(s[2 * i - 1], s[2 * i]) ELSE s[2 * i - 1]
<1>1. Paired(s) = [i \in 1..h |-> At(i)]
  BY DEF Paired
<1>2. h \in Nat
  OBVIOUS
<1> HIDE DEF h, At
<1>3. Len(Paired(s)) = h /\ \A i \in 1..h : Paired(s)[i] = At(i)
  BY <1>1, <1>2
<1> QED
  BY <1>3 DEF h, At

\* Joining neighbours does not change the root of a slice that starts at a left
\* neighbour and ends at a right one, or with the last leaf.
LEMMA PairedSlice ==
  ASSUME NEW s, Len(s) \in Nat, NEW n \in Nat, NEW l \in Nat, n >= 1,
         2 * l + n <= Len(s), 2 * l + n = Len(s) \/ n % 2 = 0
  PROVE  Roots(s)[n][2 * l] = Roots(Paired(s))[(n + 1) \div 2][l]
<1> DEFINE t == Paired(s)
           Fits(m, r) == 2 * r + m <= Len(s) /\ (2 * r + m = Len(s) \/ m % 2 = 0)
           S == {m \in Nat : m >= 1 => \A r \in Nat : Fits(m, r) =>
                   Roots(s)[m][2 * r] = Roots(t)[(m + 1) \div 2][r]}
<1>1. Len(t) = (Len(s) + 1) \div 2 /\ Len(t) \in Nat
  BY PairedIs
<1>2. ASSUME NEW i \in Nat, i >= 1, i <= Len(t)
      PROVE  t[i] = IF 2 * i <= Len(s) THEN NodeHash(s[2 * i - 1], s[2 * i]) ELSE s[2 * i - 1]
  BY <1>1, <1>2, PairedIs
<1> HIDE DEF t
<1>3. ASSUME NEW m \in Nat, \A j \in Nat : j < m => j \in S
      PROVE  m \in S
  <2> SUFFICES ASSUME m >= 1, NEW r \in Nat, Fits(m, r)
               PROVE  Roots(s)[m][2 * r] = Roots(t)[(m + 1) \div 2][r]
    <3> HIDE DEF Fits
    <3> QED
      OBVIOUS
  <2> DEFINE h == (m + 1) \div 2
  <2>1. /\ m \in 0..Len(s) /\ 2 * r \in 0..(Len(s) - m)
        /\ h \in 0..Len(t) /\ r \in 0..(Len(t) - h) /\ h \in Nat
    BY <1>1
  <2>2. CASE m = 1
    <3>1. h = 1 /\ r + 1 <= Len(t) /\ r + 1 >= 1 /\ 2 * (r + 1) > Len(s) /\ 2 * (r + 1) - 1 = 2 * r + 1
      BY <1>1, <2>2
    <3>2. t[r + 1] = s[2 * r + 1]
      BY <1>2, <3>1
    <3> HIDE DEF h
    <3>3. Roots(t)[h][r] = t[r + 1]
      BY <1>1, <2>1, <3>1, RootsAt
    <3>4. Roots(s)[m][2 * r] = s[2 * r + 1]
      BY <2>1, <2>2, RootsAt
    <3> QED
      BY <3>2, <3>3, <3>4 DEF h
  <2>3. CASE m = 2
    <3>1. h = 1 /\ r + 1 <= Len(t) /\ r + 1 >= 1 /\ 2 * (r + 1) <= Len(s)
          /\ 2 * (r + 1) - 1 = 2 * r + 1 /\ 2 * (r + 1) = 2 * r + 2
      BY <1>1, <2>3
    <3>2. t[r + 1] = NodeHash(s[2 * r + 1], s[2 * r + 2])
      BY <1>2, <3>1
    <3> HIDE DEF h
    <3>3. Roots(t)[h][r] = t[r + 1]
      BY <1>1, <2>1, <3>1, RootsAt
    <3>4. SplitPoint(2) = 1
      BY SplitFacts
    <3>5. Roots(s)[m][2 * r] = NodeHash(Roots(s)[1][2 * r], Roots(s)[1][2 * r + 1])
      BY <2>1, <2>3, <3>4, RootsAt
    <3>6. Roots(s)[1][2 * r] = s[2 * r + 1]
      BY <2>1, <2>3, RootsAt
    <3>7. Roots(s)[1][2 * r + 1] = s[2 * r + 2]
      <4>1. 1 \in 0..Len(s) /\ 2 * r + 1 \in 0..(Len(s) - 1) /\ (2 * r + 1) + 1 = 2 * r + 2
        BY <2>1, <2>3
      <4> QED
        BY <4>1, RootsAt
    <3> QED
      BY <3>2, <3>3, <3>5, <3>6, <3>7 DEF h
  <2>4. CASE m >= 3
    <3> DEFINE k == SplitPoint(m)
               q == SplitPoint(h)
    <3>1. h >= 2 /\ k \in 1..(m - 1) /\ k = 2 * q /\ q \in 1..(h - 1)
      <4>1. h >= 2
        BY <2>4
      <4>2. k \in 1..(m - 1) /\ k = 2 * q
        <5> HIDE DEF Fits
        <5>1. m >= 2
          BY <2>4
        <5> QED
          BY <2>4, <5>1, SplitFacts
      <4>3. q \in 1..(h - 1)
        <5> HIDE DEF h
        <5> QED
          BY <2>1, <4>1, SplitFacts
      <4> QED
        BY <4>1, <4>2, <4>3
    <3>2. Roots(s)[m][2 * r] = NodeHash(Roots(s)[k][2 * r], Roots(s)[m - k][2 * r + k])
      BY <2>1, <2>4, RootsAt
    <3>3. Roots(t)[h][r] = NodeHash(Roots(t)[q][r], Roots(t)[h - q][r + q])
      <4> HIDE DEF h
      <4> QED
        BY <1>1, <2>1, <3>1, RootsAt
    <3> HIDE DEF k, q
    <3>4. /\ k \in Nat /\ k < m /\ k >= 1 /\ k % 2 = 0 /\ (k + 1) \div 2 = q
          /\ 2 * r + k <= Len(s)
      BY <2>1, <3>1
    <3>5. /\ m - k \in Nat /\ m - k < m /\ m - k >= 1 /\ r + q \in Nat
          /\ 2 * r + k = 2 * (r + q) /\ ((m - k) + 1) \div 2 = h - q
          /\ Fits(m - k, r + q)
      BY <2>1, <3>1
    <3>6. Roots(s)[k][2 * r] = Roots(t)[q][r]
      <4>1. k \in S /\ Fits(k, r)
        BY <1>3, <3>4
      <4>2. Roots(s)[k][2 * r] = Roots(t)[(k + 1) \div 2][r]
        <5> HIDE DEF Fits
        <5> QED
          BY <3>4, <4>1
      <4> QED
        BY <3>4, <4>2
    <3>7. Roots(s)[m - k][2 * r + k] = Roots(t)[h - q][r + q]
      <4>1. m - k \in S
        BY <1>3, <3>5
      <4>2. Roots(s)[m - k][2 * (r + q)] = Roots(t)[((m - k) + 1) \div 2][r + q]
        <5> HIDE DEF Fits, h
        <5> QED
          BY <3>5, <4>1
      <4> QED
        BY <3>5, <4>2
    <3> QED
      BY <3>2, <3>3, <3>6, <3>7
  <2> QED
    BY <2>2, <2>3, <2>4
<1> HIDE DEF Fits
<1>4. n \in S
  <2> HIDE DEF S
  <2> QED
    BY <1>3, StrongInduction
<1>5. Fits(n, l)
  BY DEF Fits
<1> QED
  BY <1>4, <1>5 DEF t

LEMMA PairedRoot ==
  ASSUME NEW s, Len(s) \in Nat, Len(s) >= 1
  PROVE  Root(Paired(s)) = Root(s)
<1>1. 2 * 0 + Len(s) <= Len(s) /\ 2 * 0 + Len(s) = Len(s) /\ 2 * 0 = 0
  OBVIOUS
<1>2. Roots(s)[Len(s)][2 * 0] = Roots(Paired(s))[(Len(s) + 1) \div 2][0]
  BY <1>1, PairedSlice
<1>3. Len(Paired(s)) = (Len(s) + 1) \div 2
  BY PairedIs
<1> QED
  BY <1>1, <1>2, <1>3 DEF Root

LEMMA RootOfOne ==
  ASSUME NEW s, Len(s) = 1
  PROVE  Root(s) = s[1]
<1>1. Len(s) \in Nat /\ 1 \in 0..Len(s) /\ 0 \in 0..(Len(s) - 1) /\ 0 + 1 = 1
  OBVIOUS
<1>2. Roots(s)[1][0] = s[1]
  BY <1>1, RootsAt
<1> QED
  BY <1>2 DEF Root

\* Level by level, from the leaves.
Levels(tree) ==
  LET Level[j \in 0..Len(tree)] == IF j = 0 THEN tree ELSE Paired(Level[j - 1]) IN Level

LEMMA LevelsDef ==
  ASSUME NEW tree, Len(tree) \in Nat
  PROVE  Levels(tree) = [j \in 0..Len(tree) |->
                             IF j = 0 THEN tree ELSE Paired(Levels(tree)[j - 1])]
<1> DEFINE Body(g, j) == IF j = 0 THEN tree ELSE Paired(g[j - 1])
           Sol(g, i) == \A j \in 0..i : g[j] = Body(g, j)
           S == {i \in Nat : \E g : Sol(g, i)}
<1>1. 0 \in S
  <2> DEFINE g == [n \in {0} |-> tree]
  <2>1. Sol(g, 0)
    OBVIOUS
  <2> HIDE DEF g
  <2> QED
    BY <2>1
<1>2. ASSUME NEW i \in Nat, NEW g, NEW h, NEW j \in 0..(i + 1), \A x \in 0..i : h[x] = g[x]
      PROVE  Body(h, j) = Body(g, j)
  <2>1. j = 0 \/ j - 1 \in 0..i
    OBVIOUS
  <2> QED
    BY <1>2, <2>1
<1> HIDE DEF Body
<1>3. ASSUME NEW i \in Nat, i \in S
      PROVE  i + 1 \in S
  <2>1. PICK g : Sol(g, i)
    BY <1>3
  <2> DEFINE h == [j \in 0..(i + 1) |-> IF j <= i THEN g[j] ELSE Body(g, j)]
  <2>2. ASSUME NEW j \in 0..(i + 1)
        PROVE  h[j] = Body(h, j)
    <3>1. h[j] = Body(g, j)
      BY <2>1
    <3>2. \A x \in 0..i : h[x] = g[x]
      OBVIOUS
    <3> HIDE DEF h
    <3> QED
      BY <1>2, <3>1, <3>2
  <2>3. Sol(h, i + 1)
    BY <2>2
  <2> HIDE DEF h
  <2> QED
    BY <2>3
<1>4. PICK g : Sol(g, Len(tree))
  <2>1. Len(tree) \in S
    <3> HIDE DEF S
    <3> QED
      BY <1>1, <1>3, StepInduction
  <2> QED
    BY <2>1
<1> DEFINE f == [j \in 0..Len(tree) |-> g[j]]
<1>5. f = [j \in 0..Len(tree) |-> Body(f, j)]
  <2>1. ASSUME NEW j \in 0..Len(tree)
        PROVE  f[j] = Body(f, j)
    <3>1. f[j] = Body(g, j) /\ j \in 0..(Len(tree) + 1)
      BY <1>4
    <3>2. \A i \in 0..Len(tree) : f[i] = g[i]
      OBVIOUS
    <3> HIDE DEF f
    <3> QED
      BY <1>2, <3>1, <3>2
  <2> QED
    BY <2>1
<1> HIDE DEF f
<1>6. \E x : x = [j \in 0..Len(tree) |-> Body(x, j)]
  BY <1>5
<1> QED
  BY <1>6 DEF Levels, Body

\* The root a log is anchored with is the root of the tree that joins neighbours
\* level by level, for any number of leaves.
THEOREM RootIsByLevels ==
  ASSUME NEW D, NEW tree \in Seq(D)
  PROVE  Root(tree) = RootByLevels(tree)
<1> SUFFICES ASSUME Len(tree) \in Nat, tree # <<>> => Len(tree) # 0
             PROVE  Root(tree) = RootByLevels(tree)
  OBVIOUS
<1> DEFINE N == Len(tree)
           Lev(j) == Levels(tree)[j]
<1>1. ASSUME NEW j \in 0..N
      PROVE  Lev(j) = IF j = 0 THEN tree ELSE Paired(Lev(j - 1))
  <2> DEFINE F == [i \in 0..N |-> IF i = 0 THEN tree ELSE Paired(Levels(tree)[i - 1])]
  <2>1. Levels(tree) = F
    BY LevelsDef
  <2>2. F[j] = IF j = 0 THEN tree ELSE Paired(Lev(j - 1))
    OBVIOUS
  <2> HIDE DEF F
  <2> QED
    BY <2>1, <2>2
<1> HIDE DEF Lev
<1>2. CASE N = 0
  <2>1. tree = <<>> /\ Root(tree) = EmptyRoot
    BY <1>2, RootsAt DEF Root
  <2> QED
    BY <2>1 DEF RootByLevels
<1>3. CASE N >= 1
  <2> DEFINE Good(j) == /\ Len(Lev(j)) \in Nat /\ Len(Lev(j)) >= 1
                        /\ Len(Lev(j)) = 1 \/ Len(Lev(j)) <= N - j
                        /\ Root(Lev(j)) = Root(tree)
             S == {j \in Nat : j <= N => Good(j)}
  <2>1. 0 \in S
    BY <1>1, <1>3
  <2>2. ASSUME NEW j \in Nat, j \in S
        PROVE  j + 1 \in S
    <3> SUFFICES ASSUME j + 1 <= N PROVE Good(j + 1)
      OBVIOUS
    <3>1. Good(j)
      BY <2>2
    <3>2. Lev(j + 1) = Paired(Lev(j))
      <4>1. j + 1 \in 0..N /\ j + 1 # 0 /\ (j + 1) - 1 = j
        OBVIOUS
      <4> QED
        BY <1>1, <4>1
    <3>3. Len(Lev(j + 1)) = (Len(Lev(j)) + 1) \div 2
      BY <3>1, <3>2, PairedIs
    <3>4. Root(Lev(j)) = Root(Lev(j + 1))
      BY <3>1, <3>2, PairedRoot
    <3> DEFINE m == Len(Lev(j))
    <3>5. N \in Nat /\ m \in Nat /\ m >= 1 /\ (m = 1 \/ m <= N - j)
      BY <3>1
    <3> HIDE DEF m, N
    <3>6. /\ (m + 1) \div 2 \in Nat /\ (m + 1) \div 2 >= 1
          /\ (m + 1) \div 2 = 1 \/ (m + 1) \div 2 <= N - (j + 1)
      BY <3>5
    <3> QED
      BY <3>1, <3>3, <3>4, <3>6 DEF m
  <2>3. N \in S
    <3> HIDE DEF S
    <3> QED
      BY <2>1, <2>2, StepInduction
  <2>4. Len(Lev(N)) = 1 /\ Root(Lev(N)) = Root(tree)
    BY <1>3, <2>3
  <2>5. Root(Lev(N)) = Lev(N)[1]
    BY <2>4, RootOfOne
  <2>6. tree # <<>>
    BY <1>3
  <2> QED
    BY <2>4, <2>5, <2>6 DEF RootByLevels, Levels, Lev
<1> QED
  BY <1>2, <1>3

-----------------------------------------------------------------------------
(* Inclusion proofs *)

Paths(m, tree) ==
  LET R == Roots(tree)
      Path[n \in 0..Len(tree)] ==
        [lo \in 0..(Len(tree) - n) |->
           LET k == SplitPoint(n)
           IN  IF n <= 1 THEN <<>>
               ELSE IF m < lo + k THEN Append(Path[k][lo], R[n - k][lo + k])
               ELSE Append(Path[n - k][lo + k], R[k][lo])]
  IN  Path

LEMMA PathsAt ==
  ASSUME NEW m, NEW tree, Len(tree) \in Nat, NEW i \in 0..Len(tree),
         NEW l \in 0..(Len(tree) - i), NEW k, k = SplitPoint(i)
  PROVE  Paths(m, tree)[i][l] =
           IF i <= 1 THEN <<>>
           ELSE IF m < l + k THEN Append(Paths(m, tree)[k][l], Roots(tree)[i - k][l + k])
           ELSE Append(Paths(m, tree)[i - k][l + k], Roots(tree)[k][l])
<1> DEFINE At(g, n, lo) == IF n <= 1 THEN <<>>
                           ELSE IF m < lo + SplitPoint(n)
                           THEN Append(g[SplitPoint(n)][lo],
                                       Roots(tree)[n - SplitPoint(n)][lo + SplitPoint(n)])
                           ELSE Append(g[n - SplitPoint(n)][lo + SplitPoint(n)],
                                       Roots(tree)[SplitPoint(n)][lo])
           Body(g, n) == [lo \in 0..(Len(tree) - n) |-> At(g, n, lo)]
           Sol(g, j) == \A n \in 0..j : g[n] = Body(g, n)
           S == {j \in Nat : \E g : Sol(g, j)}
<1>1. 0 \in S
  <2> DEFINE g == [n \in {0} |-> Body(0, 0)]
  <2>1. Sol(g, 0)
    OBVIOUS
  <2> HIDE DEF g
  <2> QED
    BY <2>1
<1>2. ASSUME NEW j \in Nat, NEW g, NEW h, NEW n \in 0..(j + 1), \A x \in 0..j : h[x] = g[x]
      PROVE  Body(h, n) = Body(g, n)
  <2>1. n >= 2 => SplitPoint(n) \in 0..j /\ n - SplitPoint(n) \in 0..j
    BY SplitFacts
  <2>2. ASSUME NEW lo \in 0..(Len(tree) - n)
        PROVE  At(h, n, lo) = At(g, n, lo)
    <3>1. CASE n <= 1
      BY <3>1
    <3>2. CASE n >= 2
      <4>1. h[SplitPoint(n)] = g[SplitPoint(n)] /\ h[n - SplitPoint(n)] = g[n - SplitPoint(n)]
        BY <1>2, <2>1, <3>2
      <4> QED
        BY <3>2, <4>1
    <3> QED
      BY <3>1, <3>2
  <2> HIDE DEF At
  <2> QED
    BY <2>2
<1> HIDE DEF Body
<1>3. ASSUME NEW j \in Nat, j \in S
      PROVE  j + 1 \in S
  <2>1. PICK g : Sol(g, j)
    BY <1>3
  <2> DEFINE h == [n \in 0..(j + 1) |-> IF n <= j THEN g[n] ELSE Body(g, n)]
  <2>2. ASSUME NEW n \in 0..(j + 1)
        PROVE  h[n] = Body(h, n)
    <3>1. h[n] = Body(g, n)
      BY <2>1
    <3>2. \A x \in 0..j : h[x] = g[x]
      OBVIOUS
    <3> HIDE DEF h
    <3> QED
      BY <1>2, <3>1, <3>2
  <2>3. Sol(h, j + 1)
    BY <2>2
  <2> HIDE DEF h
  <2> QED
    BY <2>3
<1>4. PICK g : Sol(g, Len(tree))
  <2>1. Len(tree) \in S
    <3> HIDE DEF S
    <3> QED
      BY <1>1, <1>3, StepInduction
  <2> QED
    BY <2>1
<1> DEFINE f == [n \in 0..Len(tree) |-> g[n]]
<1>5. f = [n \in 0..Len(tree) |-> Body(f, n)]
  <2>1. ASSUME NEW n \in 0..Len(tree)
        PROVE  f[n] = Body(f, n)
    <3>1. f[n] = Body(g, n) /\ n \in 0..(Len(tree) + 1)
      BY <1>4
    <3>2. \A x \in 0..Len(tree) : f[x] = g[x]
      OBVIOUS
    <3> HIDE DEF f
    <3> QED
      BY <1>2, <3>1, <3>2
  <2> QED
    BY <2>1
<1> HIDE DEF f
<1>6. \E x : x = [n \in 0..Len(tree) |-> Body(x, n)]
  BY <1>5
<1>7. Paths(m, tree) = [n \in 0..Len(tree) |-> Body(Paths(m, tree), n)]
  BY <1>6 DEF Paths, Body
<1>8. Paths(m, tree)[i] = Body(Paths(m, tree), i)
  BY <1>7
<1>9. Body(Paths(m, tree), i)[l] = At(Paths(m, tree), i, l)
  <2> HIDE DEF At
  <2> QED
    BY DEF Body
<1>10. Paths(m, tree)[i][l] = At(Paths(m, tree), i, l)
  BY <1>8, <1>9
<1> QED
  BY <1>10

\* The digests a path is made of.
Nodes(tree) == {Roots(tree)[n][lo] : n \in 0..Len(tree), lo \in 0..Len(tree)}

LEMMA PathIsSeq ==
  ASSUME NEW m \in Int, NEW tree, Len(tree) \in Nat, NEW n \in Nat, NEW lo \in Nat,
         lo + n <= Len(tree)
  PROVE  Paths(m, tree)[n][lo] \in Seq(Nodes(tree))
<1> DEFINE S == {i \in Nat : \A l \in Nat : l + i <= Len(tree) =>
                   Paths(m, tree)[i][l] \in Seq(Nodes(tree))}
<1>1. ASSUME NEW i \in Nat, \A j \in Nat : j < i => j \in S
      PROVE  i \in S
  <2> SUFFICES ASSUME NEW l \in Nat, l + i <= Len(tree)
               PROVE  Paths(m, tree)[i][l] \in Seq(Nodes(tree))
    OBVIOUS
  <2> DEFINE k == SplitPoint(i)
  <2>1. i \in 0..Len(tree) /\ l \in 0..(Len(tree) - i)
    OBVIOUS
  <2>2. CASE i <= 1
    <3>1. Paths(m, tree)[i][l] = <<>>
      BY <2>1, <2>2, PathsAt
    <3> QED
      BY <3>1
  <2>3. CASE i >= 2
    <3>1. k \in 1..(i - 1)
      BY <2>3, SplitFacts
    <3>2. Paths(m, tree)[i][l] =
            IF m < l + k THEN Append(Paths(m, tree)[k][l], Roots(tree)[i - k][l + k])
            ELSE Append(Paths(m, tree)[i - k][l + k], Roots(tree)[k][l])
      BY <2>1, <2>3, PathsAt
    <3> HIDE DEF k
    <3>3. /\ k \in 0..Len(tree) /\ i - k \in 0..Len(tree) /\ l \in 0..Len(tree)
          /\ l + k \in 0..Len(tree) /\ k \in Nat /\ k < i /\ i - k \in Nat /\ i - k < i
          /\ l + k \in Nat /\ (l + k) + (i - k) <= Len(tree) /\ l + k <= Len(tree)
      BY <2>1, <3>1
    <3>4. Roots(tree)[i - k][l + k] \in Nodes(tree) /\ Roots(tree)[k][l] \in Nodes(tree)
      BY <3>3 DEF Nodes
    <3>5. Paths(m, tree)[k][l] \in Seq(Nodes(tree))
      BY <1>1, <3>3
    <3>6. Paths(m, tree)[i - k][l + k] \in Seq(Nodes(tree))
      <4>1. i - k \in S
        BY <1>1, <3>3
      <4> QED
        BY <3>3, <4>1
    <3> QED
      BY <3>2, <3>4, <3>5, <3>6, AppendProperties
  <2> QED
    BY <2>2, <2>3
<1>2. n \in S
  <2> HIDE DEF S
  <2> QED
    BY <1>1, StrongInduction
<1> QED
  BY <1>2

Inclusions(n, leaf, path) ==
  LET Rebuilt[j \in 0..Len(path)] ==
        [s \in 0..n |-> [at \in 0..n |->
           LET k == SplitPoint(s)
               below == IF at < k THEN Rebuilt[j - 1][k][at] ELSE Rebuilt[j - 1][s - k][at - k]
           IN  CASE s = 0 -> NoProof
                 [] s = 1 -> IF j = 0 THEN leaf ELSE NoProof
                 [] s > 1 /\ j = 0 -> NoProof
                 [] OTHER -> IF below = NoProof THEN NoProof
                             ELSE IF at < k THEN NodeHash(below, path[j])
                             ELSE NodeHash(path[j], below)]]
  IN  Rebuilt

LEMMA InclusionsAt ==
  ASSUME NEW n \in Nat, NEW leaf, NEW path, Len(path) \in Nat, NEW j \in 0..Len(path),
         NEW s \in 0..n, NEW at \in 0..n, NEW k, k = SplitPoint(s), NEW below,
         below = IF at < k THEN Inclusions(n, leaf, path)[j - 1][k][at]
                 ELSE Inclusions(n, leaf, path)[j - 1][s - k][at - k]
  PROVE  /\ s = 1 /\ j = 0 => Inclusions(n, leaf, path)[j][s][at] = leaf
         /\ s >= 2 /\ j >= 1 =>
              Inclusions(n, leaf, path)[j][s][at] =
                IF below = NoProof THEN NoProof
                ELSE IF at < k THEN NodeHash(below, path[j]) ELSE NodeHash(path[j], below)
<1> DEFINE Below(g, i, r, a) == IF a < SplitPoint(r) THEN g[i - 1][SplitPoint(r)][a]
                                ELSE g[i - 1][r - SplitPoint(r)][a - SplitPoint(r)]
           At(g, i, r, a) ==
             CASE r = 0 -> NoProof
               [] r = 1 -> IF i = 0 THEN leaf ELSE NoProof
               [] r > 1 /\ i = 0 -> NoProof
               [] OTHER -> IF Below(g, i, r, a) = NoProof THEN NoProof
                           ELSE IF a < SplitPoint(r) THEN NodeHash(Below(g, i, r, a), path[i])
                           ELSE NodeHash(path[i], Below(g, i, r, a))
           Body(g, i) == [r \in 0..n |-> [a \in 0..n |-> At(g, i, r, a)]]
           Sol(g, y) == \A x \in 0..Len(path) : x < y => g[x] = Body(g, x)
           S == {y \in Nat : \E g : Sol(g, y)}
<1>1. ASSUME NEW x \in 0..Len(path), NEW g, NEW h, \A z \in 0..Len(path) : z < x => h[z] = g[z]
      PROVE  Body(h, x) = Body(g, x)
  <2>1. ASSUME NEW r \in 0..n, NEW a \in 0..n
        PROVE  At(h, x, r, a) = At(g, x, r, a)
    <3>1. CASE x = 0
      BY <3>1
    <3>2. CASE x # 0
      <4>1. h[x - 1] = g[x - 1]
        BY <1>1, <3>2
      <4> QED
        BY <4>1
    <3> QED
      BY <3>1, <3>2
  <2> HIDE DEF At
  <2> QED
    BY <2>1
<1> HIDE DEF Body
<1>2. 0 \in S
  <2>1. Sol(0, 0)
    OBVIOUS
  <2> QED
    BY <2>1
<1>3. ASSUME NEW y \in Nat, y \in S
      PROVE  y + 1 \in S
  <2>1. PICK g : Sol(g, y)
    BY <1>3
  <2> DEFINE h == [x \in 0..Len(path) |-> IF x < y THEN g[x] ELSE Body(g, x)]
  <2>2. ASSUME NEW x \in 0..Len(path), x < y + 1
        PROVE  h[x] = Body(h, x)
    <3>1. h[x] = Body(g, x)
      BY <2>1
    <3>2. \A z \in 0..Len(path) : z < x => h[z] = g[z]
      BY <2>2
    <3> HIDE DEF h
    <3> QED
      BY <1>1, <3>1, <3>2
  <2>3. Sol(h, y + 1)
    BY <2>2
  <2> HIDE DEF h
  <2> QED
    BY <2>3
<1>4. PICK g : Sol(g, Len(path) + 1)
  <2>1. Len(path) + 1 \in S
    <3> HIDE DEF S
    <3> QED
      BY <1>2, <1>3, StepInduction
  <2> QED
    BY <2>1
<1> DEFINE f == [x \in 0..Len(path) |-> g[x]]
<1>5. f = [x \in 0..Len(path) |-> Body(f, x)]
  <2>1. ASSUME NEW x \in 0..Len(path)
        PROVE  f[x] = Body(f, x)
    <3>1. f[x] = Body(g, x)
      BY <1>4
    <3>2. \A z \in 0..Len(path) : f[z] = g[z]
      OBVIOUS
    <3> HIDE DEF f
    <3> QED
      BY <1>1, <3>1, <3>2
  <2> QED
    BY <2>1
<1> HIDE DEF f
<1>6. \E z : z = [x \in 0..Len(path) |-> Body(z, x)]
  BY <1>5
<1>7. Inclusions(n, leaf, path) = [x \in 0..Len(path) |-> Body(Inclusions(n, leaf, path), x)]
  BY <1>6 DEF Inclusions, Body
<1>8. Inclusions(n, leaf, path)[j] = Body(Inclusions(n, leaf, path), j)
  BY <1>7
<1>9. Body(Inclusions(n, leaf, path), j)[s][at] = At(Inclusions(n, leaf, path), j, s, at)
  <2> HIDE DEF At
  <2> QED
    BY DEF Body
<1>10. Inclusions(n, leaf, path)[j][s][at] = At(Inclusions(n, leaf, path), j, s, at)
  BY <1>8, <1>9
<1>11. below = Below(Inclusions(n, leaf, path), j, s, at)
  OBVIOUS
<1> HIDE DEF Below
<1> QED
  BY <1>10, <1>11

\* The digests of p are the first ones of path.
Reads(path, p) == Len(p) <= Len(path) /\ \A i \in 1..Len(p) : path[i] = p[i]

LEMMA ReadsShorter ==
  ASSUME NEW X, NEW q \in Seq(X), NEW d \in X, NEW path, Len(path) \in Nat,
         Reads(path, Append(q, d))
  PROVE  /\ Len(Append(q, d)) = Len(q) + 1 /\ Len(q) \in Nat /\ Len(q) + 1 <= Len(path)
         /\ path[Len(q) + 1] = d /\ Reads(path, q)
<1>1. /\ Len(Append(q, d)) = Len(q) + 1 /\ Len(q) \in Nat
      /\ \A i \in 1..Len(q) : Append(q, d)[i] = q[i]
      /\ Append(q, d)[Len(q) + 1] = d
  BY AppendProperties
<1> QED
  BY <1>1 DEF Reads

\* The verifier's replay of a path, at every subtree the path goes through.
PathHolds(tree, m, leaf, path) ==
  \A n, lo \in Nat :
    /\ n >= 1 /\ lo <= m /\ m < lo + n /\ lo + n <= Len(tree)
    /\ Reads(path, Paths(m, tree)[n][lo])
    => (Inclusions(Len(tree), leaf, path)[Len(Paths(m, tree)[n][lo])][n][m - lo]
          = Roots(tree)[n][lo]
        <=> leaf = tree[m + 1])

\* What the verifier computes from a leaf and its audit path: the root if the leaf is
\* the one the path was made for, and nothing that equals the root otherwise.
LEMMA PathRebuilds ==
  ASSUME NEW tree, Len(tree) \in Nat, Digests(tree), NEW m \in Nat, NEW leaf,
         NEW path, Len(path) \in Nat
  PROVE  PathHolds(tree, m, leaf, path)
<1> DEFINE L == Len(tree)
           P(i, l) == Paths(m, tree)[i][l]
           Inc == Inclusions(L, leaf, path)
           R(i, l) == Roots(tree)[i][l]
           Holds(i, l) == l <= m /\ m < l + i /\ l + i <= L /\ Reads(path, P(i, l))
           Right(i, l) == Inc[Len(P(i, l))][i][m - l] = R(i, l) <=> leaf = tree[m + 1]
           S == {i \in Nat : i >= 1 => \A l \in Nat : Holds(i, l) => Right(i, l)}
<1>1. ASSUME NEW i \in Nat, \A j \in Nat : j < i => j \in S
      PROVE  i \in S
  <2> SUFFICES ASSUME i >= 1, NEW l \in Nat, Holds(i, l) PROVE Right(i, l)
    <3> HIDE DEF Holds, Right
    <3> QED
      OBVIOUS
  <2>1. i \in 0..L /\ l \in 0..(L - i) /\ m - l \in 0..L
    OBVIOUS
  <2>2. CASE i = 1
    <3>1. P(i, l) = <<>>
      BY <2>1, <2>2, PathsAt
    <3>2. Len(P(i, l)) = 0 /\ m = l
      BY <2>2, <3>1
    <3>3. Inc[0][1][m - l] = leaf
      BY <2>1, <2>2, InclusionsAt
    <3>4. R(1, l) = tree[m + 1]
      BY <2>1, <2>2, <3>2, RootsAt
    <3> QED
      BY <2>2, <3>2, <3>3, <3>4
  <2>3. CASE i >= 2
    <3> DEFINE k == SplitPoint(i)
    <3>1. k \in 1..(i - 1)
      BY <2>3, SplitFacts
    <3>2. R(i, l) = NodeHash(R(k, l), R(i - k, l + k))
      BY <2>1, <2>3, RootsAt
    <3>3. P(i, l) = IF m < l + k THEN Append(P(k, l), R(i - k, l + k))
                    ELSE Append(P(i - k, l + k), R(k, l))
      BY <2>1, <2>3, PathsAt
    <3>4. ASSUME NEW j \in 1..Len(path), NEW below,
                 below = IF m - l < k THEN Inc[j - 1][k][m - l]
                         ELSE Inc[j - 1][i - k][(m - l) - k]
          PROVE  Inc[j][i][m - l] = IF below = NoProof THEN NoProof
                                    ELSE IF m - l < k THEN NodeHash(below, path[j])
                                    ELSE NodeHash(path[j], below)
      BY <2>1, <2>3, <3>4, InclusionsAt
    <3> HIDE DEF k, Inc
    <3>5. /\ k \in Nat /\ k < i /\ k >= 1 /\ k \in 0..L /\ l \in 0..(L - k) /\ l + k <= L
          /\ i - k \in Nat /\ i - k < i /\ i - k >= 1 /\ i - k \in 0..L
          /\ l + k \in Nat /\ l + k \in 0..(L - (i - k)) /\ (l + k) + (i - k) = l + i
      BY <2>1, <3>1
    <3>6. /\ P(k, l) \in Seq(Nodes(tree)) /\ P(i - k, l + k) \in Seq(Nodes(tree))
          /\ R(k, l) \in Nodes(tree) /\ R(i - k, l + k) \in Nodes(tree)
          /\ R(k, l) # NoProof /\ R(i - k, l + k) # NoProof
      <4>1. P(k, l) \in Seq(Nodes(tree))
        BY <3>5, PathIsSeq
      <4>2. P(i - k, l + k) \in Seq(Nodes(tree))
        BY <3>5, PathIsSeq
      <4>3. R(k, l) \in Nodes(tree) /\ R(i - k, l + k) \in Nodes(tree)
        BY <3>5 DEF Nodes
      <4>4. R(k, l) # NoProof
        BY <3>5, RootsAreDigests
      <4>5. R(i - k, l + k) # NoProof
        BY <3>5, RootsAreDigests
      <4> QED
        BY <4>1, <4>2, <4>3, <4>4, <4>5
    <3> HIDE DEF P, R
    <3>7. CASE m < l + k
      <4> DEFINE q == P(k, l)
                 d == R(i - k, l + k)
      <4>1. P(i, l) = Append(q, d) /\ m - l < k
        BY <3>3, <3>5, <3>7
      <4>2. /\ Len(P(i, l)) = Len(q) + 1 /\ Len(q) \in Nat /\ Len(q) + 1 <= Len(path)
            /\ path[Len(q) + 1] = d /\ Reads(path, q)
        BY <3>6, <4>1, ReadsShorter
      <4>3. Right(k, l)
        <5>1. k \in S /\ Holds(k, l)
          BY <1>1, <3>5, <3>7, <4>2
        <5> HIDE DEF Holds, Right
        <5> QED
          BY <3>5, <5>1
      <4>4. Inc[Len(q) + 1][i][m - l] =
              IF Inc[Len(q)][k][m - l] = NoProof THEN NoProof
              ELSE NodeHash(Inc[Len(q)][k][m - l], path[Len(q) + 1])
        <5>1. Len(q) + 1 \in 1..Len(path) /\ (Len(q) + 1) - 1 = Len(q)
          BY <4>2
        <5> QED
          BY <3>4, <4>1, <5>1
      <4> HIDE DEF q, d
      <4>5. Inc[Len(q)][k][m - l] = R(k, l) <=> leaf = tree[m + 1]
        BY <4>3 DEF q
      <4> QED
        BY <3>2, <3>6, <4>2, <4>4, <4>5, DigestForms DEF d
    <3>8. CASE ~(m < l + k)
      <4> DEFINE q == P(i - k, l + k)
                 d == R(k, l)
      <4>1. P(i, l) = Append(q, d) /\ ~(m - l < k) /\ (m - l) - k = m - (l + k)
        <5>1. P(i, l) = Append(q, d)
          BY <3>3, <3>8
        <5>2. ~(m - l < k) /\ (m - l) - k = m - (l + k)
          BY <3>5, <3>8
        <5> QED
          BY <5>1, <5>2
      <4>2. /\ Len(P(i, l)) = Len(q) + 1 /\ Len(q) \in Nat /\ Len(q) + 1 <= Len(path)
            /\ path[Len(q) + 1] = d /\ Reads(path, q)
        BY <3>6, <4>1, ReadsShorter
      <4>3. Right(i - k, l + k)
        <5>1. i - k \in S
          BY <1>1, <3>5
        <5>2. Holds(i - k, l + k)
          BY <3>5, <3>8, <4>2
        <5> HIDE DEF Holds, Right
        <5> QED
          BY <3>5, <5>1, <5>2
      <4>4. Inc[Len(q) + 1][i][m - l] =
              IF Inc[Len(q)][i - k][m - (l + k)] = NoProof THEN NoProof
              ELSE NodeHash(path[Len(q) + 1], Inc[Len(q)][i - k][m - (l + k)])
        <5>1. Len(q) + 1 \in 1..Len(path) /\ (Len(q) + 1) - 1 = Len(q)
          BY <4>2
        <5> QED
          BY <3>4, <4>1, <5>1
      <4> HIDE DEF q, d
      <4>5. Inc[Len(q)][i - k][m - (l + k)] = R(i - k, l + k) <=> leaf = tree[m + 1]
        BY <4>3 DEF q
      <4> QED
        BY <3>2, <3>6, <4>2, <4>4, <4>5, DigestForms DEF d
    <3> QED
      BY <3>7, <3>8
  <2> QED
    BY <2>2, <2>3
<1> HIDE DEF Holds, Right
<1>2. ASSUME NEW n \in Nat PROVE n \in S
  <2> HIDE DEF S
  <2> QED
    BY <1>1, StrongInduction
<1>3. \A n, lo \in Nat : n >= 1 /\ Holds(n, lo) => Right(n, lo)
  BY <1>2
<1> QED
  BY <1>3 DEF Holds, Right, PathHolds

\* Consistency.
Subproofs(m, tree) ==
  LET R == Roots(tree)
      Path[n \in 0..Len(tree)] ==
        [lo \in 0..(Len(tree) - n) |->
           LET k == SplitPoint(n)
           IN  IF n <= 1 \/ m = lo + n THEN IF lo = 0 THEN <<>> ELSE <<R[n][lo]>>
               ELSE IF m <= lo + k THEN Append(Path[k][lo], R[n - k][lo + k])
               ELSE Append(Path[n - k][lo + k], R[k][lo])]
  IN  Path

\* One entry of it.
SubproofAt(P, m, tree, n, lo) ==
  LET R == Roots(tree)
      k == SplitPoint(n)
  IN  IF n <= 1 \/ m = lo + n THEN IF lo = 0 THEN <<>> ELSE <<R[n][lo]>>
      ELSE IF m <= lo + k THEN Append(P[k][lo], R[n - k][lo + k])
      ELSE Append(P[n - k][lo + k], R[k][lo])

LEMMA SubproofsAt ==
  ASSUME NEW m, NEW tree, Len(tree) \in Nat, NEW i \in 0..Len(tree),
         NEW l \in 0..(Len(tree) - i), NEW P, P = Subproofs(m, tree)
  PROVE  P[i][l] = SubproofAt(P, m, tree, i, l)
<1> DEFINE At(g, n, lo) == SubproofAt(g, m, tree, n, lo)
           Body(g, n) == [lo \in 0..(Len(tree) - n) |-> At(g, n, lo)]
           Sol(g, y) == \A x \in 0..Len(tree) : x < y => g[x] = Body(g, x)
           S == {y \in Nat : \E g : Sol(g, y)}
<1>1. ASSUME NEW x \in 0..Len(tree), NEW g, NEW h, \A z \in 0..Len(tree) : z < x => h[z] = g[z]
      PROVE  Body(h, x) = Body(g, x)
  <2>1. ASSUME NEW lo \in 0..(Len(tree) - x)
        PROVE  At(h, x, lo) = At(g, x, lo)
    <3>1. CASE x <= 1
      BY <3>1 DEF SubproofAt
    <3>2. CASE x >= 2
      <4>1. SplitPoint(x) \in 1..(x - 1)
        BY <3>2, SplitFacts
      <4>2. h[SplitPoint(x)] = g[SplitPoint(x)] /\ h[x - SplitPoint(x)] = g[x - SplitPoint(x)]
        BY <1>1, <4>1
      <4> QED
        BY <4>2 DEF SubproofAt
    <3> QED
      BY <3>1, <3>2
  <2> HIDE DEF At
  <2> QED
    BY <2>1
<1> HIDE DEF Body
<1>2. 0 \in S
  <2>1. Sol(0, 0)
    OBVIOUS
  <2> QED
    BY <2>1
<1>3. ASSUME NEW y \in Nat, y \in S
      PROVE  y + 1 \in S
  <2>1. PICK g : Sol(g, y)
    BY <1>3
  <2> DEFINE h == [x \in 0..Len(tree) |-> IF x < y THEN g[x] ELSE Body(g, x)]
  <2>2. ASSUME NEW x \in 0..Len(tree), x < y + 1
        PROVE  h[x] = Body(h, x)
    <3>1. h[x] = Body(g, x)
      BY <2>1
    <3>2. \A z \in 0..Len(tree) : z < x => h[z] = g[z]
      BY <2>2
    <3> HIDE DEF h
    <3> QED
      BY <1>1, <3>1, <3>2
  <2>3. Sol(h, y + 1)
    BY <2>2
  <2> HIDE DEF h
  <2> QED
    BY <2>3
<1>4. PICK g : Sol(g, Len(tree) + 1)
  <2>1. Len(tree) + 1 \in S
    <3> HIDE DEF S
    <3> QED
      BY <1>2, <1>3, StepInduction
  <2> QED
    BY <2>1
<1> DEFINE f == [x \in 0..Len(tree) |-> g[x]]
<1>5. f = [x \in 0..Len(tree) |-> Body(f, x)]
  <2>1. ASSUME NEW x \in 0..Len(tree)
        PROVE  f[x] = Body(f, x)
    <3>1. f[x] = Body(g, x)
      BY <1>4
    <3>2. \A z \in 0..Len(tree) : f[z] = g[z]
      OBVIOUS
    <3> HIDE DEF f
    <3> QED
      BY <1>1, <3>1, <3>2
  <2> QED
    BY <2>1
<1> HIDE DEF f
<1>6. \E z : z = [x \in 0..Len(tree) |-> Body(z, x)]
  BY <1>5
<1>7. Subproofs(m, tree) = [x \in 0..Len(tree) |-> Body(Subproofs(m, tree), x)]
  BY <1>6 DEF Subproofs, Body, SubproofAt
<1>8. P[i] = Body(P, i)
  BY <1>7
<1>9. Body(P, i)[l] = At(P, i, l)
  <2> HIDE DEF At
  <2> QED
    BY DEF Body
<1> QED
  BY <1>8, <1>9

Pair(old, new) == <<old, new>>

Consistents(m, n, start, path) ==
  LET Rebuilt[j \in 0..Len(path)] ==
        [s \in 0..n |-> [lo \in 0..(n - s) |->
           LET k == SplitPoint(s)
               below == IF m <= lo + k THEN Rebuilt[j - 1][k][lo] ELSE Rebuilt[j - 1][s - k][lo + k]
           IN  IF m = lo + s
               THEN IF lo = 0
                    THEN IF j = 0 THEN <<start, start>> ELSE NoProof
                    ELSE IF j = 1 THEN <<path[1], path[1]>> ELSE NoProof
               ELSE IF j = 0 \/ below = NoProof THEN NoProof
               ELSE IF m <= lo + k THEN <<below[1], NodeHash(below[2], path[j])>>
               ELSE <<NodeHash(path[j], below[1]), NodeHash(path[j], below[2])>>]]
  IN  Rebuilt

\* One entry of it.
RebuiltAt(C, m, start, path, j, s, lo) ==
  LET k == SplitPoint(s)
      below == IF m <= lo + k THEN C[j - 1][k][lo] ELSE C[j - 1][s - k][lo + k]
  IN  IF m = lo + s
      THEN IF lo = 0
           THEN IF j = 0 THEN <<start, start>> ELSE NoProof
           ELSE IF j = 1 THEN <<path[1], path[1]>> ELSE NoProof
      ELSE IF j = 0 \/ below = NoProof THEN NoProof
      ELSE IF m <= lo + k THEN <<below[1], NodeHash(below[2], path[j])>>
      ELSE <<NodeHash(path[j], below[1]), NodeHash(path[j], below[2])>>

LEMMA ConsistentsAt ==
  ASSUME NEW m, NEW n \in Nat, NEW start, NEW path, Len(path) \in Nat,
         NEW j \in 0..Len(path), NEW s \in 0..n, NEW lo \in 0..(n - s),
         NEW C, C = Consistents(m, n, start, path)
  PROVE  C[j][s][lo] = RebuiltAt(C, m, start, path, j, s, lo)
<1> DEFINE At(g, i, r, l) == RebuiltAt(g, m, start, path, i, r, l)
           Body(g, i) == [r \in 0..n |-> [l \in 0..(n - r) |-> At(g, i, r, l)]]
           Sol(g, y) == \A x \in 0..Len(path) : x < y => g[x] = Body(g, x)
           S == {y \in Nat : \E g : Sol(g, y)}
<1>1. ASSUME NEW x \in 0..Len(path), NEW g, NEW h, \A z \in 0..Len(path) : z < x => h[z] = g[z]
      PROVE  Body(h, x) = Body(g, x)
  <2>1. ASSUME NEW r \in 0..n, NEW l \in 0..(n - r)
        PROVE  At(h, x, r, l) = At(g, x, r, l)
    <3>1. CASE x = 0
      BY <3>1 DEF RebuiltAt
    <3>2. CASE x # 0
      <4>1. h[x - 1] = g[x - 1]
        BY <1>1, <3>2
      <4> QED
        BY <4>1 DEF RebuiltAt
    <3> QED
      BY <3>1, <3>2
  <2> HIDE DEF At
  <2> QED
    BY <2>1
<1> HIDE DEF Body
<1>2. 0 \in S
  <2>1. Sol(0, 0)
    OBVIOUS
  <2> QED
    BY <2>1
<1>3. ASSUME NEW y \in Nat, y \in S
      PROVE  y + 1 \in S
  <2>1. PICK g : Sol(g, y)
    BY <1>3
  <2> DEFINE h == [x \in 0..Len(path) |-> IF x < y THEN g[x] ELSE Body(g, x)]
  <2>2. ASSUME NEW x \in 0..Len(path), x < y + 1
        PROVE  h[x] = Body(h, x)
    <3>1. h[x] = Body(g, x)
      BY <2>1
    <3>2. \A z \in 0..Len(path) : z < x => h[z] = g[z]
      BY <2>2
    <3> HIDE DEF h
    <3> QED
      BY <1>1, <3>1, <3>2
  <2>3. Sol(h, y + 1)
    BY <2>2
  <2> HIDE DEF h
  <2> QED
    BY <2>3
<1>4. PICK g : Sol(g, Len(path) + 1)
  <2>1. Len(path) + 1 \in S
    <3> HIDE DEF S
    <3> QED
      BY <1>2, <1>3, StepInduction
  <2> QED
    BY <2>1
<1> DEFINE f == [x \in 0..Len(path) |-> g[x]]
<1>5. f = [x \in 0..Len(path) |-> Body(f, x)]
  <2>1. ASSUME NEW x \in 0..Len(path)
        PROVE  f[x] = Body(f, x)
    <3>1. f[x] = Body(g, x)
      BY <1>4
    <3>2. \A z \in 0..Len(path) : f[z] = g[z]
      OBVIOUS
    <3> HIDE DEF f
    <3> QED
      BY <1>1, <3>1, <3>2
  <2> QED
    BY <2>1
<1> HIDE DEF f
<1>6. \E z : z = [x \in 0..Len(path) |-> Body(z, x)]
  BY <1>5
<1>7. Consistents(m, n, start, path) = [x \in 0..Len(path) |-> Body(Consistents(m, n, start, path), x)]
  BY <1>6 DEF Consistents, Body, RebuiltAt
<1>8. C[j] = Body(C, j)
  BY <1>7
<1>9. Body(C, j)[s][lo] = At(C, j, s, lo)
  <2> HIDE DEF At
  <2> QED
    BY DEF Body
<1> QED
  BY <1>8, <1>9

\* Sizes between a split and the size it splits are split there too.
LEMMA SplitWithin ==
  ASSUME NEW n \in Nat, n >= 2, NEW i \in Nat, SplitPoint(n) < i, i <= n
  PROVE  SplitPoint(i) = SplitPoint(n)
<1> DEFINE S == {x \in Nat : x >= 2 => \A y \in Nat : SplitPoint(x) < y /\ y <= x
                                          => SplitPoint(y) = SplitPoint(x)}
<1>1. ASSUME NEW x \in Nat, \A y \in Nat : y < x => y \in S
      PROVE  x \in S
  <2> SUFFICES ASSUME x >= 2, NEW y \in Nat, SplitPoint(x) < y, y <= x
               PROVE  SplitPoint(y) = SplitPoint(x)
    OBVIOUS
  <2>1. SplitPoint(x) \in 1..(x - 1)
    BY SplitFacts
  <2>2. CASE x = 2
    BY <2>1, <2>2
  <2>3. CASE x >= 3
    <3> DEFINE a == (x + 1) \div 2
               b == (y + 1) \div 2
    <3>1. a \in Nat /\ b \in Nat /\ a >= 2 /\ a < x /\ b <= a
          /\ (\A k \in Nat : 2 * k < y => k < b)
      BY <2>3
    <3>2. SplitPoint(x) = 2 * SplitPoint(a) /\ SplitPoint(a) \in Nat /\ SplitPoint(a) >= 1
      <4>1. SplitPoint(x) = 2 * SplitPoint(a)
        BY <2>3, SplitFacts
      <4>2. SplitPoint(a) \in 1..(a - 1)
        BY <3>1, SplitFacts
      <4> QED
        BY <3>1, <4>1, <4>2
    <3> HIDE DEF a
    <3>3. SplitPoint(a) < b /\ y >= 3
      BY <3>1, <3>2
    <3>4. SplitPoint(y) = 2 * SplitPoint(b)
      BY <3>3, SplitFacts
    <3> HIDE DEF b
    <3>5. SplitPoint(b) = SplitPoint(a)
      <4>1. a \in S
        BY <1>1, <3>1
      <4> QED
        BY <3>1, <3>3, <4>1
    <3> QED
      BY <3>2, <3>4, <3>5
  <2> QED
    BY <2>2, <2>3
<1>2. n \in S
  <2> HIDE DEF S
  <2> QED
    BY <1>1, StrongInduction
<1> QED
  BY <1>2

LEMMA SubproofIsSeq ==
  ASSUME NEW m \in Int, NEW tree, Len(tree) \in Nat, NEW n \in Nat,
         NEW lo \in Nat, lo + n <= Len(tree)
  PROVE  Subproofs(m, tree)[n][lo] \in Seq(Nodes(tree))
<1> DEFINE P(i, l) == Subproofs(m, tree)[i][l]
           R(i, l) == Roots(tree)[i][l]
           S == {i \in Nat : \A l \in Nat : l + i <= Len(tree) => P(i, l) \in Seq(Nodes(tree))}
<1>1. ASSUME NEW i \in Nat, \A j \in Nat : j < i => j \in S
      PROVE  i \in S
  <2> SUFFICES ASSUME NEW l \in Nat, l + i <= Len(tree)
               PROVE  P(i, l) \in Seq(Nodes(tree))
    OBVIOUS
  <2> DEFINE k == SplitPoint(i)
  <2>1. i \in 0..Len(tree) /\ l \in 0..(Len(tree) - i) /\ l \in 0..Len(tree)
    OBVIOUS
  <2>2. P(i, l) = IF i <= 1 \/ m = l + i THEN IF l = 0 THEN <<>> ELSE <<R(i, l)>>
                  ELSE IF m <= l + k THEN Append(P(k, l), R(i - k, l + k))
                  ELSE Append(P(i - k, l + k), R(k, l))
    <3> DEFINE Q == Subproofs(m, tree)
    <3>1. Q[i][l] = SubproofAt(Q, m, tree, i, l)
      BY <2>1, SubproofsAt
    <3> HIDE DEF Q
    <3>2. Q[i][l] = IF i <= 1 \/ m = l + i THEN IF l = 0 THEN <<>> ELSE <<R(i, l)>>
                    ELSE IF m <= l + k THEN Append(Q[k][l], R(i - k, l + k))
                    ELSE Append(Q[i - k][l + k], R(k, l))
      BY <3>1 DEF SubproofAt
    <3> QED
      BY <3>2 DEF Q
  <2>3. R(i, l) \in Nodes(tree)
    BY <2>1 DEF Nodes
  <2>4. CASE i <= 1 \/ m = l + i
    <3>1. <<>> \in Seq(Nodes(tree)) /\ <<R(i, l)>> \in Seq(Nodes(tree))
      BY <2>3
    <3> HIDE DEF P, R
    <3>2. P(i, l) = <<>> \/ P(i, l) = <<R(i, l)>>
      BY <2>2, <2>4
    <3> QED
      BY <3>1, <3>2
  <2>5. CASE ~(i <= 1 \/ m = l + i)
    <3>0. i \in Nat /\ i >= 2
      BY <2>1, <2>5
    <3>1. k \in 1..(i - 1)
      BY <3>0, SplitFacts
    <3> HIDE DEF k
    <3>3. /\ k \in 0..Len(tree) /\ i - k \in 0..Len(tree) /\ l \in 0..Len(tree)
          /\ l + k \in 0..Len(tree) /\ k \in Nat /\ k < i /\ i - k \in Nat /\ i - k < i
          /\ l + k \in Nat /\ (l + k) + (i - k) <= Len(tree) /\ l + k <= Len(tree)
      BY <2>1, <3>1
    <3>4. R(i - k, l + k) \in Nodes(tree) /\ R(k, l) \in Nodes(tree)
      BY <3>3 DEF Nodes
    <3>5. P(k, l) \in Seq(Nodes(tree))
      BY <1>1, <3>3
    <3>6. P(i - k, l + k) \in Seq(Nodes(tree))
      <4>1. i - k \in S
        BY <1>1, <3>3
      <4> QED
        BY <3>3, <4>1
    <3> HIDE DEF P, R
    <3> QED
      BY <2>2, <2>5, <3>4, <3>5, <3>6, AppendProperties
  <2> QED
    BY <2>4, <2>5
<1>2. n \in S
  <2> HIDE DEF S
  <2> QED
    BY <1>1, StrongInduction
<1> QED
  BY <1>2

\* What the verifier computes from an old root and a consistency path: the two roots if the
\* old root is the one of the first m leaves, and otherwise, if the second one is right,
\* a first one that is not what it was given.
Rebuilds(tree, m, start, path, n, lo) ==
  \E a, b :
    /\ Consistents(m, Len(tree), start, path)[Len(Subproofs(m, tree)[n][lo])][n][lo] = Pair(a, b)
    /\ start = Roots(tree)[m][0] => b = Roots(tree)[n][lo]
    /\ b = Roots(tree)[n][lo] => a = Roots(tree)[m - lo][lo]

LEMMA SubproofRebuilds ==
  ASSUME NEW tree, Len(tree) \in Nat, NEW m \in Nat, NEW start,
         NEW path, Len(path) \in Nat
  PROVE  \A n, lo \in Nat :
           /\ lo < m /\ m <= lo + n /\ lo + n <= Len(tree)
           /\ Reads(path, Subproofs(m, tree)[n][lo])
           => Rebuilds(tree, m, start, path, n, lo)
<1> DEFINE L == Len(tree)
           P(i, l) == Subproofs(m, tree)[i][l]
           C == Consistents(m, L, start, path)
           R(i, l) == Roots(tree)[i][l]
           Holds(i, l) == l < m /\ m <= l + i /\ l + i <= L /\ Reads(path, P(i, l))
           Fits(i, l, a, b) == /\ start = R(m, 0) => b = R(i, l)
                               /\ b = R(i, l) => a = R(m - l, l)
           Right(i, l) == \E a, b : C[Len(P(i, l))][i][l] = Pair(a, b) /\ Fits(i, l, a, b)
           S == {i \in Nat : \A l \in Nat : Holds(i, l) => Right(i, l)}
<1>1. ASSUME NEW i \in Nat, \A j \in Nat : j < i => j \in S
      PROVE  i \in S
  <2> SUFFICES ASSUME NEW l \in Nat, Holds(i, l) PROVE Right(i, l)
    <3> HIDE DEF Holds, Right
    <3> QED
      OBVIOUS
  <2> DEFINE k == SplitPoint(i)
  <2>1. i \in 0..L /\ l \in 0..(L - i) /\ i >= 1 /\ m \in 0..L
    OBVIOUS
  <2> HIDE DEF Holds, Right
  <2>2. P(i, l) = IF i <= 1 \/ m = l + i THEN IF l = 0 THEN <<>> ELSE <<R(i, l)>>
                  ELSE IF m <= l + k THEN Append(P(k, l), R(i - k, l + k))
                  ELSE Append(P(i - k, l + k), R(k, l))
    <3> DEFINE Q == Subproofs(m, tree)
    <3>1. Q[i][l] = SubproofAt(Q, m, tree, i, l)
      BY <2>1, SubproofsAt
    <3> HIDE DEF Q
    <3>2. Q[i][l] = IF i <= 1 \/ m = l + i THEN IF l = 0 THEN <<>> ELSE <<R(i, l)>>
                    ELSE IF m <= l + k THEN Append(Q[k][l], R(i - k, l + k))
                    ELSE Append(Q[i - k][l + k], R(k, l))
      BY <3>1 DEF SubproofAt
    <3> QED
      BY <3>2 DEF Q
  <2> USE DEF Holds, Right
  <2>3. C = Consistents(m, L, start, path) /\ L \in Nat
    OBVIOUS
  <2> HIDE DEF C
  <2>4. CASE m = l + i /\ l = 0
    <3>1. P(i, l) = <<>>
      BY <2>2, <2>4
    <3>2. Len(P(i, l)) = 0 /\ 0 \in 0..Len(path)
      BY <3>1
    <3>3. C[0][i][l] = Pair(start, start)
      <4>1. C[0][i][l] = RebuiltAt(C, m, start, path, 0, i, l)
        BY <2>1, <2>3, <3>2, ConsistentsAt
      <4> QED
        BY <2>4, <4>1 DEF RebuiltAt, Pair
    <3>4. Fits(i, l, start, start)
      BY <2>4
    <3> HIDE DEF P, Fits
    <3> QED
      BY <3>2, <3>3, <3>4
  <2>5. CASE m = l + i /\ l # 0
    <3>1. P(i, l) = <<R(i, l)>>
      BY <2>2, <2>5
    <3>2. Len(P(i, l)) = 1 /\ P(i, l)[1] = R(i, l)
      <4> HIDE DEF P
      <4> QED
        BY <3>1
    <3>3. 1 \in 0..Len(path) /\ path[1] = R(i, l)
      BY <3>2 DEF Reads
    <3>4. C[1][i][l] = Pair(path[1], path[1])
      <4>1. C[1][i][l] = RebuiltAt(C, m, start, path, 1, i, l)
        BY <2>1, <2>3, <3>3, ConsistentsAt
      <4> QED
        BY <2>5, <4>1 DEF RebuiltAt, Pair
    <3>5. Fits(i, l, path[1], path[1])
      BY <2>5, <3>3
    <3> HIDE DEF P, Fits
    <3> QED
      BY <3>2, <3>4, <3>5
  <2>6. CASE m # l + i
    <3>1. k \in 1..(i - 1) /\ i >= 2
      BY <2>6, SplitFacts
    <3>2. R(i, l) = NodeHash(R(k, l), R(i - k, l + k))
      BY <2>1, <3>1, RootsAt
    <3>3. m > l + k => SplitPoint(m - l) = k
      BY <3>1, SplitWithin
    <3>4. m > l + k => R(m - l, l) = NodeHash(R(k, l), R(m - (l + k), l + k))
      <4> SUFFICES ASSUME m > l + k PROVE R(m - l, l) = NodeHash(R(k, l), R(m - (l + k), l + k))
        OBVIOUS
      <4> HIDE DEF k
      <4>1. m - l \in 0..L /\ l \in 0..(L - (m - l)) /\ m - l >= 2 /\ (m - l) - k = m - (l + k)
        BY <2>1, <3>1
      <4> QED
        BY <3>3, <4>1, RootsAt
    <3>0. k = SplitPoint(i)
      OBVIOUS
    <3> HIDE DEF k
    <3>5. /\ k \in Nat /\ k < i /\ k >= 1 /\ l + k <= L /\ l + k \in Nat
          /\ i - k \in Nat /\ i - k < i /\ i - k >= 1 /\ (l + k) + (i - k) = l + i
          /\ k \in 0..L /\ i - k \in 0..L /\ l \in 0..L /\ l + k \in 0..L
      BY <2>1, <3>1
    <3>6. /\ P(k, l) \in Seq(Nodes(tree)) /\ P(i - k, l + k) \in Seq(Nodes(tree))
          /\ R(k, l) \in Nodes(tree) /\ R(i - k, l + k) \in Nodes(tree)
      <4>1. P(k, l) \in Seq(Nodes(tree))
        <5> HIDE DEF Holds, Right
        <5> QED
          BY <3>5, SubproofIsSeq
      <4>2. P(i - k, l + k) \in Seq(Nodes(tree))
        <5>1. (l + k) + (i - k) <= L
          BY <3>5
        <5> HIDE DEF Holds, Right
        <5> QED
          BY <3>5, <5>1, SubproofIsSeq
      <4>3. R(k, l) \in Nodes(tree) /\ R(i - k, l + k) \in Nodes(tree)
        BY <3>5 DEF Nodes
      <4> QED
        BY <4>1, <4>2, <4>3
    <3>7. \A a, b : Pair(a, b) # NoProof /\ Pair(a, b)[1] = a /\ Pair(a, b)[2] = b
      BY DEF NoProof, Pair
    <3> HIDE DEF P, R
    <3>8. CASE m <= l + k
      <4> DEFINE q == P(k, l)
                 d == R(i - k, l + k)
      <4>1. P(i, l) = Append(q, d)
        BY <2>2, <2>6, <3>1, <3>8
      <4>2. /\ Len(P(i, l)) = Len(q) + 1 /\ Len(q) \in Nat /\ Len(q) + 1 <= Len(path)
            /\ path[Len(q) + 1] = d /\ Reads(path, q)
        BY <3>6, <4>1, ReadsShorter
      <4>3. Right(k, l)
        <5>1. k \in S /\ Holds(k, l)
          BY <1>1, <3>5, <3>8, <4>2
        <5> HIDE DEF Holds, Right
        <5> QED
          BY <3>5, <5>1
      <4>4. PICK a, b : C[Len(q)][k][l] = Pair(a, b) /\ Fits(k, l, a, b)
        <5> HIDE DEF Fits
        <5> QED
          BY <4>3
      <4>5. C[Len(q) + 1][i][l] = Pair(a, NodeHash(b, d))
        <5> DEFINE j == Len(q) + 1
        <5>1. j \in 0..Len(path) /\ j - 1 = Len(q) /\ j # 0 /\ path[j] = d
          BY <4>2
        <5>2. C[j - 1][k][l] = Pair(a, b)
          BY <4>4, <5>1
        <5> HIDE DEF j, q, d, L, Holds, Fits
        <5>3. C[j][i][l] = Pair(a, NodeHash(b, path[j]))
          <6>1. C[j][i][l] = RebuiltAt(C, m, start, path, j, i, l)
            BY <2>1, <2>3, <5>1, ConsistentsAt
          <6> QED
            BY <2>6, <3>0, <3>7, <3>8, <5>1, <5>2, <6>1 DEF RebuiltAt, Pair
        <5> QED
          BY <5>1, <5>3 DEF j
      <4>6. Fits(i, l, a, NodeHash(b, d))
        BY <3>2, <4>4, DigestForms
      <4> HIDE DEF Fits, q, d
      <4> QED
        BY <4>2, <4>5, <4>6
    <3>9. CASE m > l + k
      <4> DEFINE q == P(i - k, l + k)
                 d == R(k, l)
      <4>1. P(i, l) = Append(q, d) /\ ~(m <= l + k)
        <5>1. ~(m <= l + k)
          BY <3>5, <3>9
        <5> QED
          BY <2>2, <2>6, <3>1, <5>1
      <4>2. /\ Len(P(i, l)) = Len(q) + 1 /\ Len(q) \in Nat /\ Len(q) + 1 <= Len(path)
            /\ path[Len(q) + 1] = d /\ Reads(path, q)
        BY <3>6, <4>1, ReadsShorter
      <4>3. Right(i - k, l + k)
        <5>1. i - k \in S
          BY <1>1, <3>5
        <5>2. Holds(i - k, l + k)
          BY <3>5, <3>9, <4>2
        <5> HIDE DEF Holds, Right
        <5> QED
          BY <3>5, <5>1, <5>2
      <4>4. PICK a, b : C[Len(q)][i - k][l + k] = Pair(a, b) /\ Fits(i - k, l + k, a, b)
        <5> HIDE DEF Fits
        <5> QED
          BY <4>3
      <4>5. C[Len(q) + 1][i][l] = Pair(NodeHash(d, a), NodeHash(d, b))
        <5> DEFINE j == Len(q) + 1
        <5>1. j \in 0..Len(path) /\ j - 1 = Len(q) /\ j # 0 /\ path[j] = d
          BY <4>2
        <5>2. C[j - 1][i - k][l + k] = Pair(a, b)
          BY <4>4, <5>1
        <5> HIDE DEF j, q, d, L, Holds, Fits
        <5>3. C[j][i][l] = Pair(NodeHash(path[j], a), NodeHash(path[j], b))
          <6>1. C[j][i][l] = RebuiltAt(C, m, start, path, j, i, l)
            BY <2>1, <2>3, <5>1, ConsistentsAt
          <6> QED
            BY <2>6, <3>0, <3>7, <4>1, <5>1, <5>2, <6>1 DEF RebuiltAt, Pair
        <5> QED
          BY <5>1, <5>3 DEF j
      <4>6. Fits(i, l, NodeHash(d, a), NodeHash(d, b))
        BY <3>2, <3>4, <3>9, <4>4, DigestForms
      <4> HIDE DEF Fits, q, d
      <4> QED
        BY <4>2, <4>5, <4>6
    <3> QED
      BY <3>5, <3>8, <3>9
  <2> QED
    BY <2>4, <2>5, <2>6
<1> HIDE DEF Holds, Right
<1>2. ASSUME NEW n \in Nat PROVE n \in S
  <2> HIDE DEF S
  <2> QED
    BY <1>1, StrongInduction
<1>3. \A n, lo \in Nat : Holds(n, lo) => Right(n, lo)
  BY <1>2
<1> QED
  <2>1. ASSUME NEW n, NEW lo, Right(n, lo) PROVE Rebuilds(tree, m, start, path, n, lo)
    BY <2>1 DEF Right, Rebuilds
  <2> HIDE DEF P
  <2> QED
    BY <1>3, <2>1 DEF Holds, P

\* An inclusion proof shows one thing: the proof of leaf number index, checked against the
\* root of the tree it was made from, is accepted for the leaf that is there and refused
\* for every other (inclusion and verify_inclusion, for trees of every size).
THEOREM InclusionIsExact ==
  ASSUME NEW D, NEW tree \in Seq(D), Digests(tree), NEW index \in 0..(Len(tree) - 1), NEW leaf
  PROVE  VerifyInclusion(Inclusion(tree, index), leaf, Root(tree)) <=> leaf = tree[index + 1]
<1> SUFFICES ASSUME Len(tree) \in Nat
             PROVE  VerifyInclusion(Inclusion(tree, index), leaf, Root(tree))
                      <=> leaf = tree[index + 1]
  OBVIOUS
<1> DEFINE L == Len(tree)
           path == Paths(index, tree)[L][0]
<1>1. AuditPath(index, tree) = path
  BY DEF AuditPath, Paths
<1>2. path \in Seq(Nodes(tree)) /\ Len(path) \in Nat /\ index \in Nat
  <2>1. path \in Seq(Nodes(tree))
    BY PathIsSeq
  <2> HIDE DEF path
  <2> QED
    BY <2>1
<1>3. Reads(path, path)
  BY <1>2 DEF Reads
<1>4. Inclusions(L, leaf, path)[Len(path)][L][index] = Roots(tree)[L][0] <=> leaf = tree[index + 1]
  <2> DEFINE z == 0
  <2>1. L \in Nat /\ z \in Nat /\ L >= 1 /\ z <= index /\ index < z + L /\ z + L <= Len(tree)
        /\ index - z = index
    OBVIOUS
  <2>2. Reads(path, Paths(index, tree)[L][z])
    BY <1>3
  <2> HIDE DEF z, L
  <2>3. Inclusions(Len(tree), leaf, path)[Len(Paths(index, tree)[L][z])][L][index - z]
          = Roots(tree)[L][z] <=> leaf = tree[index + 1]
    <3> HIDE DEF path
    <3>1. PathHolds(tree, index, leaf, path)
      BY <1>2, PathRebuilds
    <3> QED
      BY <2>1, <2>2, <3>1 DEF PathHolds
  <2> QED
    BY <2>1, <2>3 DEF z, L
<1> HIDE DEF path
<1>5. Inclusion(tree, index) = [index |-> index, size |-> L, path |-> path]
  BY <1>1 DEF Inclusion
<1>6. RebuildInclusion(index, L, leaf, path) = Inclusions(L, leaf, path)[Len(path)][L][index]
  BY DEF RebuildInclusion, Inclusions
<1>7. index < L
  OBVIOUS
<1>8. VerifyInclusion(Inclusion(tree, index), leaf, Root(tree))
        <=> index < L /\ RebuildInclusion(index, L, leaf, path) = Roots(tree)[L][0]
  <2> DEFINE proof == Inclusion(tree, index)
  <2>1. proof.index = index /\ proof.size = L /\ proof.path = path
    BY <1>5
  <2> HIDE DEF proof
  <2>2. VerifyInclusion(proof, leaf, Root(tree))
          <=> index < L /\ RebuildInclusion(index, L, leaf, path) = Roots(tree)[L][0]
    BY <2>1 DEF VerifyInclusion, Root
  <2> QED
    BY <2>2 DEF proof
<1> HIDE DEF L
<1> QED
  BY <1>4, <1>6, <1>7, <1>8

\* A consistency proof shows one thing: the proof that the tree extends its first leaves,
\* checked against the root of the tree, is accepted for the root those leaves had and
\* refused for every other (consistency and verify_consistency, for trees of every size).
THEOREM ConsistencyIsExact ==
  ASSUME NEW D, NEW tree \in Seq(D), NEW first \in 1..Len(tree), NEW old
  PROVE  VerifyConsistency(Consistency(tree, first), old, Root(tree))
           <=> old = Root(SubSeq(tree, 1, first))
<1> SUFFICES ASSUME Len(tree) \in Nat
             PROVE  VerifyConsistency(Consistency(tree, first), old, Root(tree))
                      <=> old = Roots(tree)[first][0]
  <2>1. Len(tree) \in Nat /\ first \in 0..Len(tree)
    OBVIOUS
  <2>2. Root(SubSeq(tree, 1, first)) = Roots(tree)[first][0]
    BY <2>1, RootOfPrefix
  <2> QED
    BY <2>1, <2>2
<1> DEFINE L == Len(tree)
           path == Subproofs(first, tree)[L][0]
           new == Roots(tree)[L][0]
<1>1. Root(tree) = new
  BY DEF Root
<1>2. CASE first = L
  <2>1. Consistency(tree, first) = [first |-> first, second |-> L, path |-> <<>>]
    BY <1>2 DEF Consistency
  <2>2. VerifyConsistency(Consistency(tree, first), old, new) <=> old = new
    BY <1>2, <2>1 DEF VerifyConsistency
  <2> QED
    BY <1>1, <1>2, <2>2
<1>3. CASE first < L
  <2>1. Subproof(first, tree) = path
    BY DEF Subproof, Subproofs
  <2>2. path \in Seq(Nodes(tree)) /\ Len(path) \in Nat
    <3>1. path \in Seq(Nodes(tree))
      BY SubproofIsSeq
    <3> HIDE DEF path
    <3> QED
      BY <3>1
  <2>3. Reads(path, path)
    BY <2>2 DEF Reads
  <2>4. PICK a, b : /\ Consistents(first, L, old, path)[Len(path)][L][0] = Pair(a, b)
                    /\ old = Roots(tree)[first][0] => b = Roots(tree)[L][0]
                    /\ b = Roots(tree)[L][0] => a = Roots(tree)[first][0]
    <3> DEFINE z == 0
    <3>1. /\ L \in Nat /\ z \in Nat /\ first \in Nat /\ z < first /\ first <= z + L
          /\ z + L <= Len(tree) /\ first - z = first
      OBVIOUS
    <3>2. Reads(path, Subproofs(first, tree)[L][z])
      BY <2>3
    <3> HIDE DEF z, L
    <3>3. Rebuilds(tree, first, old, path, L, z)
      <4> HIDE DEF path
      <4> QED
        BY <2>2, <3>1, <3>2, SubproofRebuilds
    <3>4. PICK a, b :
             /\ Consistents(first, Len(tree), old, path)[Len(Subproofs(first, tree)[L][z])][L][z]
                  = Pair(a, b)
             /\ old = Roots(tree)[first][0] => b = Roots(tree)[L][z]
             /\ b = Roots(tree)[L][z] => a = Roots(tree)[first - z][z]
      <4> HIDE DEF path
      <4> QED
        BY <3>3, Zenon DEF Rebuilds
    <3>5. /\ Consistents(first, L, old, path)[Len(path)][L][0] = Pair(a, b)
          /\ old = Roots(tree)[first][0] => b = Roots(tree)[L][0]
          /\ b = Roots(tree)[L][0] => a = Roots(tree)[first][0]
      BY <3>1, <3>4 DEF z, L
    <3> QED
      BY <3>5
  <2> HIDE DEF path
  <2>5. Consistency(tree, first) = [first |-> first, second |-> L, path |-> path]
    BY <1>3, <2>1 DEF Consistency
  <2>6. RebuildConsistency(first, L, old, path) = Consistents(first, L, old, path)[Len(path)][L][0]
    BY DEF RebuildConsistency, Consistents
  <2>7. VerifyConsistency(Consistency(tree, first), old, new) <=> Pair(a, b) = Pair(old, new)
    BY <1>3, <2>4, <2>5, <2>6 DEF VerifyConsistency, Pair
  <2>8. Pair(a, b) = Pair(old, new) <=> a = old /\ b = new
    BY DEF Pair
  <2> QED
    BY <1>1, <2>4, <2>7, <2>8
<1> QED
  BY <1>2, <1>3

-----------------------------------------------------------------------------
(* The proofs that are served *)

\* A head that was handed out is the head of a prefix.
LEMMA HeadIs ==
  ASSUME ApiInv, NEW h \in heads
  PROVE  /\ h.log \in DOMAIN logs /\ h.log \in LogIds /\ leaves[h.log] \in Seq(Hashes)
         /\ h.sth.head.size \in 0..Len(leaves[h.log])
         /\ h.sth.head.root = RootAt(leaves, h.log, h.sth.head.size)
         /\ h.sth = SignedAt(leaves, h.log, h.sth.head.size)
<1>1. TablesOK(logs, leaves, anchored, heads)
  BY DEF ApiInv, InvOf
<1>2. PICK l \in DOMAIN logs : \E n \in 0..Len(leaves[l]) : h = HandedOut(leaves, l, n)
  BY <1>1 DEF TablesOK
<1>3. PICK n \in 0..Len(leaves[l]) : h = HandedOut(leaves, l, n)
  BY <1>2
<1>4. h.log = l /\ h.sth = SignedAt(leaves, l, n)
  BY <1>3 DEF HandedOut
<1>5. h.sth.head.size = n /\ h.sth.head.root = RootAt(leaves, l, n)
  <2>1. SignedAt(leaves, l, n).head = [size |-> n, root |-> RootAt(leaves, l, n)]
    BY DEF SignedAt, SignHead
  <2> QED
    BY <1>4, <2>1
<1> QED
  BY <1>1, <1>4, <1>5 DEF TablesOK

\* The root of a prefix, the way the tree is built and level by level.
LEMMA PrefixRoots ==
  ASSUME NEW s \in Seq(Hashes), NEW n \in 0..Len(s)
  PROVE  /\ Root(SubSeq(s, 1, n)) = Roots(s)[n][0]
         /\ RootByLevels(SubSeq(s, 1, n)) = Roots(s)[n][0]
<1> DEFINE p == SubSeq(s, 1, n)
<1>1. p \in Seq(Hashes) /\ Len(p) \in Nat /\ (p # <<>> => Len(p) # 0)
  OBVIOUS
<1>2. Root(p) = Roots(s)[n][0]
  BY RootOfPrefix
<1> HIDE DEF p
<1>3. Root(p) = RootByLevels(p)
  BY <1>1, RootIsByLevels
<1> QED
  BY <1>2, <1>3 DEF p

\* The signature of a head verifies, and verifies no head of another size.
LEMMA SignatureFits ==
  ASSUME NEW head, head.size \in Nat, head = [size |-> head.size, root |-> head.root],
         NEW sth, sth = SignHead(head, DefaultKeyId)
  PROVE  /\ VerifyHead(sth, DefaultKeyId)
         /\ ~VerifyHead([sth EXCEPT !.head.size = @ + 1], DefaultKeyId)
<1> DEFINE sig == Ed25519Sign(SecretOf(DefaultKeyId), DefaultKeyId, CanonicalBytes(head))
           sth2 == [sth EXCEPT !.head.size = @ + 1]
<1>1. sth = [head |-> head, signature |-> sig]
  BY DEF SignHead
<1>2. /\ sig.algo = "Ed25519" /\ sig.len = 64 /\ sig.by = SecretOf(DefaultKeyId).id
      /\ sig.of = CanonicalBytes(head)
  BY DEF Ed25519Sign
<1>3. PublicKey(SecretOf(DefaultKeyId)).id = SecretOf(DefaultKeyId).id
  BY DEF PublicKey
<1> HIDE DEF sig
<1>4. sth.head = head /\ sth.signature = sig
  BY <1>1
<1>5. VerifyHead(sth, DefaultKeyId)
  BY <1>2, <1>3, <1>4 DEF VerifyHead, Ed25519Verify
<1>6. sth2.head.size = head.size + 1 /\ sth2.signature = sig
  <2>1. sth2 = [head |-> [head EXCEPT !.size = head.size + 1], signature |-> sig]
    BY <1>1
  <2>2. [head EXCEPT !.size = head.size + 1].size = head.size + 1
    OBVIOUS
  <2> HIDE DEF sth2
  <2> QED
    BY <2>1, <2>2
<1> HIDE DEF sth2
<1>7. CanonicalBytes(sth2.head)[1] = head.size + 1 /\ CanonicalBytes(head)[1] = head.size
  BY <1>6 DEF CanonicalBytes
<1>8. CanonicalBytes(sth2.head) # sig.of
  BY <1>2, <1>7
<1>9. ~VerifyHead(sth2, DefaultKeyId)
  BY <1>6, <1>8 DEF VerifyHead, Ed25519Verify
<1> QED
  BY <1>5, <1>9 DEF sth2

\* The leaves of a log are records; no root of a prefix is the leaf of record 0.
LEMMA NotZero ==
  ASSUME NEW s \in Seq(Hashes)
  PROVE  /\ \A i \in 1..Len(s) : s[i] # LeafHash(0) /\ s[i] # NoProof
         /\ \A n \in 1..Len(s) : Roots(s)[n][0] # LeafHash(0)
<1>1. ASSUME NEW x \in Hashes PROVE x # LeafHash(0) /\ x # NoProof
  <2>1. PICK r \in Nat \ {0} : x = LeafHash(r)
    BY <1>1 DEF Hashes
  <2>2. LeafHash(r) = LeafHash(0) => r = 0
    BY DigestForms
  <2> QED
    BY <2>1, <2>2, DigestForms
<1>2. \A i \in 1..Len(s) : s[i] \in Hashes
  OBVIOUS
<1>3. ASSUME NEW n \in 1..Len(s) PROVE Roots(s)[n][0] # LeafHash(0)
  <2>1. Len(s) \in Nat /\ n \in 0..Len(s) /\ 0 \in 0..(Len(s) - n)
    OBVIOUS
  <2>2. CASE n = 1
    <3>1. Roots(s)[n][0] = s[0 + 1]
      BY <2>1, <2>2, RootsAt
    <3>2. s[1] # LeafHash(0)
      BY <1>1, <1>2, <2>2
    <3> QED
      BY <3>1, <3>2
  <2>3. CASE n >= 2
    <3>1. Roots(s)[n][0] = NodeHash(Roots(s)[SplitPoint(n)][0], Roots(s)[n - SplitPoint(n)][0 + SplitPoint(n)])
      BY <2>1, <2>3, RootsAt
    <3> QED
      BY <3>1, DigestForms
  <2> QED
    BY <2>2, <2>3
<1> QED
  BY <1>1, <1>2, <1>3

\* What a proof of inclusion says, of any prefix.
LEMMA InclusionServed ==
  ASSUME NEW s \in Seq(Hashes), NEW n \in 0..Len(s), NEW at \in Nat, at < n,
         NEW r, r = InclusionOf(SubSeq(s, 1, n), at)
  PROVE  /\ r.leaf = s[at + 1] /\ r.root = Roots(s)[n][0] /\ r.proof.size = n
         /\ VerifyInclusion(r.proof, r.leaf, r.root)
         /\ ~VerifyInclusion(r.proof, LeafHash(0), r.root)
<1> DEFINE p == SubSeq(s, 1, n)
<1>1. /\ p \in Seq(Hashes) /\ Len(p) = n /\ Len(p) \in Nat
      /\ \A i \in 1..n : p[i] = s[i]
  OBVIOUS
<1>2. Root(p) = Roots(s)[n][0]
  BY PrefixRoots
<1> HIDE DEF p
<1>3. at \in 0..(Len(p) - 1) /\ at + 1 \in 1..Len(p) /\ at + 1 \in 1..n
  BY <1>1
<1>4. r.proof = Inclusion(p, at) /\ r.leaf = p[at + 1] /\ r.root = Root(p)
  BY DEF InclusionOf, p
<1>5. Inclusion(p, at).size = n
  <2>1. ~(at >= Len(p))
    BY <1>1
  <2> QED
    BY <1>1, <2>1 DEF Inclusion
<1>6. Digests(p) /\ p[at + 1] # LeafHash(0)
  BY <1>1, <1>3, NotZero DEF Digests
<1>7. \A leaf : VerifyInclusion(Inclusion(p, at), leaf, Root(p)) <=> leaf = p[at + 1]
  BY <1>1, <1>3, <1>6, InclusionIsExact
<1> QED
  BY <1>1, <1>2, <1>3, <1>4, <1>5, <1>6, <1>7

\* What a proof of consistency says.
LEMMA ConsistencyServed ==
  ASSUME NEW s \in Seq(Hashes), NEW n \in 0..Len(s), NEW at \in 1..n,
         NEW r, r = ConsistencyOf(SubSeq(s, 1, n), at)
  PROVE  /\ r.old = Roots(s)[at][0] /\ r.new = Roots(s)[n][0] /\ r.proof.first = at /\ r.proof.second = n
         /\ VerifyConsistency(r.proof, r.old, r.new)
         /\ ~VerifyConsistency(r.proof, LeafHash(0), r.new)
<1> DEFINE p == SubSeq(s, 1, n)
<1>1. /\ p \in Seq(Hashes) /\ Len(p) = n /\ Len(p) \in Nat /\ Len(s) \in Nat
      /\ \A i \in 1..n : p[i] = s[i]
  OBVIOUS
<1>2. Root(p) = Roots(s)[n][0]
  BY PrefixRoots
<1>3. r.proof = Consistency(p, at) /\ r.old = Root(SubSeq(p, 1, at)) /\ r.new = Root(p)
  BY DEF ConsistencyOf
<1> HIDE DEF p
<1>4. at \in 1..Len(p) /\ at \in 0..Len(p) /\ at \in Nat
  <2>1. Len(p) = n /\ n \in Nat
    BY <1>1
  <2> QED
    BY <2>1
<1>5. Root(SubSeq(p, 1, at)) = Roots(p)[at][0]
  BY <1>1, <1>4, RootOfPrefix
<1>6. Roots(p)[at][0] = Roots(s)[at][0]
  <2>1. SubSeq(p, 1, at) = SubSeq(s, 1, at) /\ at \in 0..Len(s)
    BY <1>1, <1>4
  <2>2. Root(SubSeq(s, 1, at)) = Roots(s)[at][0]
    BY <2>1, RootOfPrefix
  <2> QED
    BY <1>5, <2>1, <2>2
<1>7. Consistency(p, at).first = at /\ Consistency(p, at).second = n
  <2>1. ~(at = 0 \/ at > Len(p))
    BY <1>1, <1>4
  <2> QED
    BY <1>1, <2>1 DEF Consistency
<1>8. \A old : VerifyConsistency(Consistency(p, at), old, Root(p)) <=> old = Root(SubSeq(p, 1, at))
  BY <1>1, <1>4, ConsistencyIsExact
<1>9. Roots(p)[at][0] # LeafHash(0)
  BY <1>1, <1>4, NotZero
<1> QED
  BY <1>2, <1>3, <1>5, <1>6, <1>7, <1>8, <1>9

LEMMA InvProofsVerify == ApiInv => ServedProofsVerify
<1> SUFFICES ASSUME ApiInv PROVE ServedProofsVerify
  OBVIOUS
<1>1. ASSUME NEW h \in heads
      PROVE  /\ h.sth.head.root.of = RootByLevels(Prefix(h.log, h.sth.head.size))
             /\ VerifyHead(h.sth, DefaultKeyId)
             /\ ~VerifyHead([h.sth EXCEPT !.head.size = @ + 1], DefaultKeyId)
  <2> DEFINE l == h.log
             n == h.sth.head.size
             head == [size |-> n, root |-> RootAt(leaves, l, n)]
  <2>1. /\ leaves[l] \in Seq(Hashes) /\ n \in 0..Len(leaves[l])
        /\ h.sth.head.root = RootAt(leaves, l, n) /\ h.sth = SignedAt(leaves, l, n)
    BY <1>1, HeadIs
  <2> HIDE DEF l, n
  <2>2. RootByLevels(SubSeq(leaves[l], 1, n)) = Roots(leaves[l])[n][0]
    BY <2>1, PrefixRoots
  <2>3. RootAt(leaves, l, n).of = Roots(leaves[l])[n][0]
    BY DEF RootAt
  <2>4. h.sth = SignHead(head, DefaultKeyId) /\ n \in Nat
    BY <2>1 DEF SignedAt
  <2>5. head.size = n /\ head = [size |-> head.size, root |-> head.root]
    OBVIOUS
  <2> HIDE DEF head
  <2>6. VerifyHead(h.sth, DefaultKeyId) /\ ~VerifyHead([h.sth EXCEPT !.head.size = @ + 1], DefaultKeyId)
    BY <2>4, <2>5, SignatureFits
  <2> QED
    BY <2>1, <2>2, <2>3, <2>6 DEF Prefix, l, n
<1>2. ASSUME NEW h \in heads
      PROVE  h.sth.head.root.of = Roots(leaves[h.log])[h.sth.head.size][0]
  <2>1. h.sth.head.root = RootAt(leaves, h.log, h.sth.head.size)
    BY HeadIs
  <2> QED
    BY <2>1 DEF RootAt
<1>3. ASSUME NEW c \in Client, Granted(c, "inclusion")
      PROVE  LET req == call[c].req
                 r == call[c].result.ok
             IN  /\ r.leaf = leaves[req.log][req.at + 1]
                 /\ VerifyInclusion(r.proof, r.leaf, r.root)
                 /\ \A h \in heads : h.log = req.log /\ h.sth.head.size = r.proof.size
                                       => h.sth.head.root.of = r.root
                 /\ ~VerifyInclusion(r.proof, LeafHash(0), r.root)
  <2> DEFINE k == call[c]
             l == k.req.log
             at == k.req.at
             r == k.result.ok
  <2>1. ServedInclusion(logs, leaves, k) /\ k.req.op = "inclusion" /\ k.req \in Requests
    BY <1>3, GrantedForm
  <2>2. TablesOK(logs, leaves, anchored, heads)
    BY DEF ApiInv, InvOf
  <2>3. at \in Nat
    BY <2>1, RequestForms, ApiAssumption
  <2> HIDE DEF k
  <2>4. PICK n \in 0..Len(leaves[l]) : at < n /\ k.result = Ok(InclusionOf(SubSeq(leaves[l], 1, n), at))
    BY <2>1 DEF ServedInclusion
  <2>5. l \in DOMAIN logs /\ leaves[l] \in Seq(Hashes)
    BY <2>1, <2>2 DEF ServedInclusion, TablesOK
  <2>6. r = InclusionOf(SubSeq(leaves[l], 1, n), at)
    BY <2>4, ResultForms
  <2> HIDE DEF l, at, r
  <2>7. /\ r.leaf = leaves[l][at + 1] /\ r.root = Roots(leaves[l])[n][0] /\ r.proof.size = n
        /\ VerifyInclusion(r.proof, r.leaf, r.root)
        /\ ~VerifyInclusion(r.proof, LeafHash(0), r.root)
    BY <2>3, <2>4, <2>5, <2>6, InclusionServed
  <2>8. \A h \in heads : h.log = l /\ h.sth.head.size = r.proof.size => h.sth.head.root.of = r.root
    BY <1>2, <2>7
  <2> QED
    BY <2>7, <2>8 DEF k, l, at, r
<1>4. ASSUME NEW c \in Client, Granted(c, "consistency")
      PROVE  LET req == call[c].req
                 r == call[c].result.ok
             IN  /\ VerifyConsistency(r.proof, r.old, r.new)
                 /\ \A h \in heads : h.log = req.log /\ h.sth.head.size = r.proof.first
                                       => h.sth.head.root.of = r.old
                 /\ \A h \in heads : h.log = req.log /\ h.sth.head.size = r.proof.second
                                       => h.sth.head.root.of = r.new
                 /\ ~VerifyConsistency(r.proof, LeafHash(0), r.new)
  <2> DEFINE k == call[c]
             l == k.req.log
             at == k.req.at
             r == k.result.ok
  <2>1. ServedConsistency(logs, leaves, k)
    BY <1>4, GrantedForm
  <2>2. TablesOK(logs, leaves, anchored, heads)
    BY DEF ApiInv, InvOf
  <2> HIDE DEF k
  <2>4. PICK n \in 0..Len(leaves[l]) :
          at \in 1..n /\ k.result = Ok(ConsistencyOf(SubSeq(leaves[l], 1, n), at))
    BY <2>1 DEF ServedConsistency
  <2>5. l \in DOMAIN logs /\ leaves[l] \in Seq(Hashes)
    BY <2>1, <2>2 DEF ServedConsistency, TablesOK
  <2>6. r = ConsistencyOf(SubSeq(leaves[l], 1, n), at)
    BY <2>4, ResultForms
  <2> HIDE DEF l, at, r
  <2>7. /\ r.old = Roots(leaves[l])[at][0] /\ r.new = Roots(leaves[l])[n][0] /\ r.proof.first = at
        /\ r.proof.second = n
        /\ VerifyConsistency(r.proof, r.old, r.new)
        /\ ~VerifyConsistency(r.proof, LeafHash(0), r.new)
    BY <2>4, <2>5, <2>6, ConsistencyServed
  <2>8. /\ \A h \in heads : h.log = l /\ h.sth.head.size = r.proof.first => h.sth.head.root.of = r.old
        /\ \A h \in heads : h.log = l /\ h.sth.head.size = r.proof.second => h.sth.head.root.of = r.new
    BY <1>2, <2>7
  <2> QED
    BY <2>7, <2>8 DEF k, l, r
<1> QED
  BY <1>1, <1>3, <1>4 DEF ServedProofsVerify

\* Every proof that is served verifies against the roots it is served with and against
\* every head of its size that was ever handed out, and verifies for nothing else, for
\* logs of any length.
THEOREM EveryProofVerifies == ApiSpec => []ServedProofsVerify
BY ApiKeepsBooks, InvProofsVerify, PTL
=============================================================================
