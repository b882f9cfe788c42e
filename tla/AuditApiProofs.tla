--------------------------- MODULE AuditApiProofs ---------------------------
(***************************************************************************)
(* Proofs about the HTTP API of the audit service, for any number of       *)
(* clients and logs, any records and sizes asked for, and any bounds: what *)
(* is stored, and what is answered.  The proofs it serves are the subject  *)
(* of MerkleProofs.                                                        *)
(***************************************************************************)
EXTENDS AuditApi, FiniteSetTheorems, SequenceTheorems, WellFoundedInduction, TLAPS

-----------------------------------------------------------------------------
(* Induction over the natural numbers, with a set in the place of the      *)
(* predicate, so that the provers can instantiate it.                      *)

\* Every nonempty set of natural numbers has a least element.
LEMMA LeastNat ==
  ASSUME NEW T, T \subseteq Nat, T # {}
  PROVE  \E x \in T : \A y \in T : x <= y
<1> DEFINE R == OpToRel(<, Nat)
<1>1. IsWellFoundedOn(R, Nat)
  BY NatLessThanWellFounded
<1>2. \A x, y \in Nat : y < x => <<y, x>> \in R
  BY DEF OpToRel
<1> HIDE DEF R
<1>3. PICK x \in T : \A y \in T : ~(<<y, x>> \in R)
  BY <1>1, WFMin
<1>4. \A y \in T : x \in Nat /\ y \in Nat /\ ~(y < x)
  BY <1>2, <1>3
<1>5. \A y \in T : x <= y
  BY <1>4
<1> QED
  BY <1>5

\* What holds of 0, and of n + 1 if it holds of n, holds of every natural number.
LEMMA StepInduction ==
  ASSUME NEW S, 0 \in S, \A n \in Nat : n \in S => n + 1 \in S
  PROVE  Nat \subseteq S
<1> SUFFICES ASSUME ~(Nat \subseteq S) PROVE FALSE
  OBVIOUS
<1> DEFINE T == {n \in Nat : n \notin S}
<1>1. PICK x \in T : \A y \in T : x <= y
  BY LeastNat
<1>2. x # 0 /\ x \in Nat
  BY <1>1
<1>3. x - 1 \in Nat /\ x - 1 \notin T /\ x = (x - 1) + 1
  BY <1>1, <1>2
<1> QED
  BY <1>1, <1>3

\* What holds of n if it holds of every smaller number holds of every natural number.
LEMMA StrongInduction ==
  ASSUME NEW S, \A n \in Nat : (\A m \in Nat : m < n => m \in S) => n \in S
  PROVE  Nat \subseteq S
<1> SUFFICES ASSUME ~(Nat \subseteq S) PROVE FALSE
  OBVIOUS
<1> DEFINE T == {n \in Nat : n \notin S}
<1>1. PICK x \in T : \A y \in T : x <= y
  BY LeastNat
<1>2. x \in Nat /\ x \notin S /\ \A m \in Nat : m < x => m \notin T
  BY <1>1
<1> QED
  BY <1>2

-----------------------------------------------------------------------------
(* The split point *)

Doubles(n) == LET Doubled[k \in 1..(2 * n)] == IF k < n THEN Doubled[2 * k] ELSE k IN Doubled

\* The loop of split_point ends, whatever n is.
LEMMA DoublesDef ==
  ASSUME NEW n \in Nat
  PROVE  Doubles(n) = [k \in 1..(2 * n) |-> IF k < n THEN Doubles(n)[2 * k] ELSE k]
<1> DEFINE Body(g, k) == IF k < n THEN g[2 * k] ELSE k
           Sol(g, j) == \A k \in 1..(2 * n) : k > 2 * n - j => g[k] = Body(g, k)
           S == {j \in Nat : \E g : Sol(g, j)}
<1>1. 0 \in S
  <2>1. Sol(0, 0)
    OBVIOUS
  <2> QED
    BY <2>1
<1>2. ASSUME NEW j \in Nat, j \in S
      PROVE  j + 1 \in S
  <2>1. PICK g : Sol(g, j)
    BY <1>2
  <2> DEFINE h == [k \in 1..(2 * n) |-> IF k > 2 * n - j THEN g[k] ELSE Body(g, k)]
  <2>2. ASSUME NEW k \in 1..(2 * n), k > 2 * n - (j + 1)
        PROVE  h[k] = Body(h, k)
    <3>1. h[k] = Body(g, k)
      BY <2>1
    <3>2. k < n => 2 * k \in 1..(2 * n) /\ 2 * k > 2 * n - j
      BY <2>2
    <3>3. k < n => h[2 * k] = g[2 * k]
      BY <3>2
    <3> QED
      BY <3>1, <3>3
  <2>3. Sol(h, j + 1)
    BY <2>2
  <2> HIDE DEF h
  <2> QED
    BY <2>3
<1>3. Nat \subseteq S
  <2> HIDE DEF S
  <2> QED
    BY <1>1, <1>2, StepInduction
<1>4. PICK g : Sol(g, 2 * n)
  <2>1. 2 * n \in S
    <3> HIDE DEF S
    <3> QED
      BY <1>3
  <2> QED
    BY <2>1
<1> DEFINE f == [k \in 1..(2 * n) |-> g[k]]
<1>5. f = [k \in 1..(2 * n) |-> Body(f, k)]
  <2>1. ASSUME NEW k \in 1..(2 * n)
        PROVE  f[k] = Body(f, k)
    <3>1. f[k] = Body(g, k)
      BY <1>4
    <3>2. k < n => 2 * k \in 1..(2 * n)
      OBVIOUS
    <3> QED
      BY <3>1, <3>2
  <2> QED
    BY <2>1
<1> HIDE DEF f
<1> QED
  BY <1>5 DEF Doubles

LEMMA DoublesAt ==
  ASSUME NEW n \in Nat, NEW k \in 1..(2 * n)
  PROVE  Doubles(n)[k] = IF k < n THEN Doubles(n)[2 * k] ELSE k
<1> DEFINE F == [i \in 1..(2 * n) |-> IF i < n THEN Doubles(n)[2 * i] ELSE i]
<1>1. Doubles(n) = F
  BY DoublesDef
<1>2. F[k] = IF k < n THEN Doubles(n)[2 * k] ELSE k
  OBVIOUS
<1> HIDE DEF F
<1> QED
  BY <1>1, <1>2

Above(n) == Doubles(n)[1]

\* The next power of two above n is twice the one above the half of n.
LEMMA AboveHalf ==
  ASSUME NEW n \in Nat, n >= 2, NEW m, m = (n + 1) \div 2
  PROVE  Above(n) = 2 * Above(m)
<1>1. m \in Nat /\ m >= 1 /\ m < n /\ n <= 2 * m
  OBVIOUS
<1>2. \A k \in Nat : k < m <=> 2 * k < n
  OBVIOUS
<1> DEFINE S == {j \in Nat : \A k \in 1..n : k >= n - j => Doubles(n)[2 * k] = 2 * Doubles(m)[k]}
<1>3. ASSUME NEW j \in Nat, \A i \in Nat : i < j => i \in S
      PROVE  j \in S
  <2> SUFFICES ASSUME NEW k \in 1..n, k >= n - j
               PROVE  Doubles(n)[2 * k] = 2 * Doubles(m)[k]
    OBVIOUS
  <2>1. 2 * k \in 1..(2 * n) /\ k \in 1..(2 * m) /\ k \in Nat
    BY <1>1
  <2>2. Doubles(n)[2 * k] = IF 2 * k < n THEN Doubles(n)[2 * (2 * k)] ELSE 2 * k
    BY <2>1, DoublesAt
  <2>3. Doubles(m)[k] = IF k < m THEN Doubles(m)[2 * k] ELSE k
    BY <1>1, <2>1, DoublesAt
  <2>4. CASE k < m
    <3>1. 2 * k < n /\ 2 * k \in 1..n /\ n - 2 * k \in Nat /\ n - 2 * k < j
      BY <1>2, <2>1, <2>4
    <3>2. n - 2 * k \in S
      BY <1>3, <3>1
    <3>3. 2 * k >= n - (n - 2 * k)
      BY <3>1
    <3>4. Doubles(n)[2 * (2 * k)] = 2 * Doubles(m)[2 * k]
      BY <3>1, <3>2, <3>3
    <3> QED
      BY <2>2, <2>3, <2>4, <3>1, <3>4
  <2>5. CASE ~(k < m)
    BY <1>2, <2>1, <2>2, <2>3, <2>5
  <2> QED
    BY <2>4, <2>5
<1>4. Nat \subseteq S
  <2> HIDE DEF S
  <2> QED
    BY <1>3, StrongInduction
<1>5. Doubles(n)[2] = 2 * Doubles(m)[1]
  <2>1. n \in S
    <3> HIDE DEF S
    <3> QED
      BY <1>4
  <2>2. Doubles(n)[2 * 1] = 2 * Doubles(m)[1]
    BY <2>1
  <2> QED
    BY <2>2
<1>6. Doubles(n)[1] = Doubles(n)[2]
  <2>1. 1 \in 1..(2 * n) /\ 1 < n /\ 2 * 1 = 2
    OBVIOUS
  <2> QED
    BY <2>1, DoublesAt
<1> QED
  BY <1>5, <1>6 DEF Above

LEMMA AboveOne == Above(1) = 1
  BY DoublesAt DEF Above

LEMMA AboveBounds ==
  ASSUME NEW n \in Nat, n >= 2
  PROVE  Above(n) \in n..(2 * n - 2)
<1> DEFINE S == {i \in Nat : i >= 2 => Above(i) \in i..(2 * i - 2)}
<1>1. ASSUME NEW i \in Nat, \A j \in Nat : j < i => j \in S, i >= 2
      PROVE  Above(i) \in i..(2 * i - 2)
  <2> DEFINE m == (i + 1) \div 2
  <2>1. m \in Nat /\ m >= 1 /\ m < i /\ i <= 2 * m /\ 2 * m <= i + 1
    BY <1>1
  <2>2. Above(i) = 2 * Above(m)
    BY <1>1, AboveHalf
  <2> HIDE DEF m
  <2>3. CASE m = 1
    BY <1>1, <2>1, <2>2, <2>3, AboveOne
  <2>4. CASE m >= 2
    <3>1. Above(m) \in m..(2 * m - 2)
      BY <1>1, <2>1, <2>4
    <3> QED
      BY <1>1, <2>1, <2>2, <3>1
  <2> QED
    BY <2>1, <2>3, <2>4
<1>2. \A i \in Nat : (\A j \in Nat : j < i => j \in S) => i \in S
  BY <1>1
<1>3. n \in S
  <2> HIDE DEF S
  <2> QED
    BY <1>2, StrongInduction
<1> QED
  BY <1>3

\* What split_point promises, and how the split of a slice and of its half relate.
LEMMA SplitFacts ==
  ASSUME NEW n \in Nat, n >= 2
  PROVE  /\ SplitPoint(n) \in 1..(n - 1)
         /\ n <= 2 * SplitPoint(n)
         /\ n >= 3 => SplitPoint(n) = 2 * SplitPoint((n + 1) \div 2)
<1> DEFINE m == (n + 1) \div 2
<1>1. \A i : SplitPoint(i) = Above(i) \div 2
  BY DEF SplitPoint, Above, Doubles
<1>2. m \in Nat /\ m >= 1 /\ 2 * m >= n
  OBVIOUS
<1>3. Above(n) = 2 * Above(m) /\ Above(n) \in n..(2 * n - 2)
  BY AboveHalf, AboveBounds
<1>4. Above(m) \in Nat
  <2> HIDE DEF m
  <2>1. m = 1 \/ m >= 2
    BY <1>2
  <2> QED
    BY <1>2, <2>1, AboveOne, AboveBounds
<1>5. SplitPoint(n) = Above(m)
  <2> HIDE DEF m
  <2> QED
    BY <1>1, <1>3, <1>4
<1>6. SplitPoint(n) \in 1..(n - 1) /\ n <= 2 * SplitPoint(n)
  <2> HIDE DEF m
  <2> QED
    BY <1>3, <1>4, <1>5
<1>7. ASSUME n >= 3
      PROVE  SplitPoint(n) = 2 * SplitPoint(m)
  <2> DEFINE l == (m + 1) \div 2
  <2>1. m >= 2 /\ l \in Nat /\ l >= 1
    BY <1>7
  <2>2. Above(m) = 2 * Above(l)
    <3> HIDE DEF m
    <3> QED
      BY <1>2, <2>1, AboveHalf
  <2>3. Above(l) \in Nat
    <3> HIDE DEF l
    <3>1. l = 1 \/ l >= 2
      BY <2>1
    <3> QED
      BY <2>1, <3>1, AboveOne, AboveBounds
  <2> HIDE DEF l, m
  <2> QED
    BY <1>1, <1>5, <2>2, <2>3
<1> QED
  BY <1>6, <1>7

-----------------------------------------------------------------------------
(* Roots *)

\* The recursion of MerkleTree::root is well-founded: a split makes both parts smaller.
LEMMA RootsDef ==
  ASSUME NEW tree, Len(tree) \in Nat
  PROVE  Roots(tree) =
           [n \in 0..Len(tree) |-> [lo \in 0..(Len(tree) - n) |->
              CASE n = 0 -> EmptyRoot
                [] n = 1 -> tree[lo + 1]
                [] OTHER -> NodeHash(Roots(tree)[SplitPoint(n)][lo],
                                     Roots(tree)[n - SplitPoint(n)][lo + SplitPoint(n)])]]
<1> DEFINE At(g, n, lo) == CASE n = 0 -> EmptyRoot
                             [] n = 1 -> tree[lo + 1]
                             [] OTHER -> NodeHash(g[SplitPoint(n)][lo],
                                                  g[n - SplitPoint(n)][lo + SplitPoint(n)])
           Body(g, n) == [lo \in 0..(Len(tree) - n) |-> At(g, n, lo)]
           Sol(g, j) == \A n \in 0..j : g[n] = Body(g, n)
           S == {j \in Nat : \E g : Sol(g, j)}
<1>1. 0 \in S
  <2> DEFINE g == [n \in {0} |-> Body(0, 0)]
  <2>1. Sol(g, 0)
    OBVIOUS
  <2> HIDE DEF g
  <2> QED
    BY <2>1
<1>2. ASSUME NEW j \in Nat, NEW g, NEW h, NEW n \in 0..(j + 1), \A i \in 0..j : h[i] = g[i]
      PROVE  Body(h, n) = Body(g, n)
  <2>1. n >= 2 => SplitPoint(n) \in 0..j /\ n - SplitPoint(n) \in 0..j
    BY SplitFacts
  <2>2. ASSUME NEW lo \in 0..(Len(tree) - n)
        PROVE  At(h, n, lo) = At(g, n, lo)
    <3>1. CASE n = 0 \/ n = 1
      BY <3>1
    <3>2. CASE n >= 2
      <4>1. h[SplitPoint(n)] = g[SplitPoint(n)] /\ h[n - SplitPoint(n)] = g[n - SplitPoint(n)]
        BY <1>2, <2>1, <3>2
      <4> QED
        BY <3>2, <4>1
    <3> QED
      BY <3>1, <3>2
  <2> HIDE DEF At
  <2> QED
    BY <2>2
<1> HIDE DEF Body
<1>3. ASSUME NEW j \in Nat, j \in S
      PROVE  j + 1 \in S
  <2>1. PICK g : Sol(g, j)
    BY <1>3
  <2> DEFINE h == [n \in 0..(j + 1) |-> IF n <= j THEN g[n] ELSE Body(g, n)]
  <2>2. ASSUME NEW n \in 0..(j + 1)
        PROVE  h[n] = Body(h, n)
    <3>1. h[n] = Body(g, n)
      BY <2>1
    <3>2. \A i \in 0..j : h[i] = g[i]
      OBVIOUS
    <3> HIDE DEF h
    <3> QED
      BY <1>2, <3>1, <3>2
  <2>3. Sol(h, j + 1)
    BY <2>2
  <2> HIDE DEF h
  <2> QED
    BY <2>3
<1>4. Nat \subseteq S
  <2> HIDE DEF S
  <2> QED
    BY <1>1, <1>3, StepInduction
<1>5. PICK g : Sol(g, Len(tree))
  <2>1. Len(tree) \in S
    <3> HIDE DEF S
    <3> QED
      BY <1>4
  <2> QED
    BY <2>1
<1> DEFINE f == [n \in 0..Len(tree) |-> g[n]]
<1>6. f = [n \in 0..Len(tree) |-> Body(f, n)]
  <2>1. ASSUME NEW n \in 0..Len(tree)
        PROVE  f[n] = Body(f, n)
    <3>1. f[n] = Body(g, n) /\ n \in 0..(Len(tree) + 1)
      BY <1>5
    <3>2. \A i \in 0..Len(tree) : f[i] = g[i]
      OBVIOUS
    <3> HIDE DEF f
    <3> QED
      BY <1>2, <3>1, <3>2
  <2> QED
    BY <2>1
<1> HIDE DEF f
<1>7. \E x : x = [n \in 0..Len(tree) |-> Body(x, n)]
  BY <1>6
<1> QED
  BY <1>7 DEF Roots, Body

LEMMA RootsAt ==
  ASSUME NEW tree, Len(tree) \in Nat, NEW n \in 0..Len(tree),
         NEW lo \in 0..(Len(tree) - n)
  PROVE  /\ n = 0 => Roots(tree)[n][lo] = EmptyRoot
         /\ n = 1 => Roots(tree)[n][lo] = tree[lo + 1]
         /\ n >= 2 => Roots(tree)[n][lo] =
                        NodeHash(Roots(tree)[SplitPoint(n)][lo],
                                 Roots(tree)[n - SplitPoint(n)][lo + SplitPoint(n)])
<1> DEFINE At(m, l) == CASE m = 0 -> EmptyRoot
                         [] m = 1 -> tree[l + 1]
                         [] OTHER -> NodeHash(Roots(tree)[SplitPoint(m)][l],
                                              Roots(tree)[m - SplitPoint(m)][l + SplitPoint(m)])
           F == [m \in 0..Len(tree) |-> [l \in 0..(Len(tree) - m) |-> At(m, l)]]
<1>1. Roots(tree) = F
  BY RootsDef
<1>2. F[n][lo] = At(n, lo)
  <2> HIDE DEF At
  <2> QED
    OBVIOUS
<1> HIDE DEF F
<1>3. Roots(tree)[n][lo] = At(n, lo)
  BY <1>1, <1>2
<1> QED
  BY <1>3

\* Slices with the same leaves have the same root.
LEMMA SameSlice ==
  ASSUME NEW a, NEW b, Len(a) \in Nat, Len(b) \in Nat, NEW n \in Nat,
         NEW p \in Nat, NEW q \in Nat, p + n <= Len(a), q + n <= Len(b),
         \A i \in 1..n : a[p + i] = b[q + i]
  PROVE  Roots(a)[n][p] = Roots(b)[n][q]
<1> DEFINE Same(m, l, r) == \A i \in 1..m : a[l + i] = b[r + i]
           S == {m \in Nat : \A l, r \in Nat :
                   l + m <= Len(a) /\ r + m <= Len(b) /\ Same(m, l, r)
                     => Roots(a)[m][l] = Roots(b)[m][r]}
<1>1. ASSUME NEW m \in Nat, \A j \in Nat : j < m => j \in S
      PROVE  m \in S
  <2> SUFFICES ASSUME NEW l \in Nat, NEW r \in Nat, l + m <= Len(a), r + m <= Len(b),
                      Same(m, l, r)
               PROVE  Roots(a)[m][l] = Roots(b)[m][r]
    <3> HIDE DEF Same
    <3> QED
      OBVIOUS
  <2>1. /\ m \in 0..Len(a) /\ l \in 0..(Len(a) - m)
        /\ m \in 0..Len(b) /\ r \in 0..(Len(b) - m)
    BY <1>1
  <2>2. CASE m = 0
    BY <2>1, <2>2, RootsAt
  <2>3. CASE m = 1
    <3>1. a[l + 1] = b[r + 1]
      BY <1>1, <2>3
    <3> QED
      BY <2>1, <2>3, <3>1, RootsAt
  <2>4. CASE m >= 2
    <3> DEFINE k == SplitPoint(m)
    <3>1. k \in 1..(m - 1)
      BY <2>4, SplitFacts
    <3> HIDE DEF k
    <3>2. /\ k \in Nat /\ k < m /\ l + k <= Len(a) /\ r + k <= Len(b)
          /\ m - k \in Nat /\ m - k < m /\ l + k \in Nat /\ r + k \in Nat
          /\ (l + k) + (m - k) <= Len(a) /\ (r + k) + (m - k) <= Len(b)
      BY <1>1, <3>1
    <3>3. Same(k, l, r)
      BY <3>1
    <3>4. Same(m - k, l + k, r + k)
      <4>1. ASSUME NEW i \in 1..(m - k)
            PROVE  a[(l + k) + i] = b[(r + k) + i]
        <5>1. k + i \in 1..m /\ (l + k) + i = l + (k + i) /\ (r + k) + i = r + (k + i)
          BY <3>1
        <5> QED
          BY <1>1, <5>1
      <4> QED
        BY <4>1
    <3> HIDE DEF Same
    <3>5. Roots(a)[k][l] = Roots(b)[k][r]
      BY <1>1, <3>2, <3>3
    <3>6. Roots(a)[m - k][l + k] = Roots(b)[m - k][r + k]
      <4>1. m - k \in S
        BY <1>1, <3>2
      <4> QED
        BY <3>2, <3>4, <4>1
    <3>7. Roots(a)[m][l] = NodeHash(Roots(a)[k][l], Roots(a)[m - k][l + k])
      BY <2>1, <2>4, RootsAt DEF k
    <3>8. Roots(b)[m][r] = NodeHash(Roots(b)[k][r], Roots(b)[m - k][r + k])
      BY <2>1, <2>4, RootsAt DEF k
    <3> QED
      BY <3>5, <3>6, <3>7, <3>8
  <2> QED
    BY <2>2, <2>3, <2>4
<1> HIDE DEF Same
<1>3. n \in S
  <2> HIDE DEF S
  <2> QED
    BY <1>1, StrongInduction
<1>4. Same(n, p, q)
  BY DEF Same
<1> QED
  BY <1>3, <1>4

\* The root of the first n leaves, also after more have come.
LEMMA RootOfPrefix ==
  ASSUME NEW X, NEW s \in Seq(X), NEW n \in 0..Len(s)
  PROVE  Root(SubSeq(s, 1, n)) = Roots(s)[n][0]
<1>1. /\ SubSeq(s, 1, n) \in Seq(X) /\ Len(SubSeq(s, 1, n)) = n
      /\ \A i \in 1..n : SubSeq(s, 1, n)[i] = s[i]
  BY SubSeqProperties
<1>2. \A i \in 1..n : SubSeq(s, 1, n)[0 + i] = s[0 + i]
  BY <1>1
<1>3. Roots(SubSeq(s, 1, n))[n][0] = Roots(s)[n][0]
  <2> DEFINE t == SubSeq(s, 1, n)
  <2>1. Len(t) \in Nat /\ Len(s) \in Nat /\ n \in Nat /\ 0 + n <= Len(t) /\ 0 + n <= Len(s)
    BY <1>1
  <2>2. \A i \in 1..n : t[0 + i] = s[0 + i]
    BY <1>2
  <2> HIDE DEF t
  <2>3. Roots(t)[n][0] = Roots(s)[n][0]
    BY <2>1, <2>2, SameSlice
  <2> QED
    BY <2>3 DEF t
<1> QED
  BY <1>1, <1>3 DEF Root

\* Digests of leaves are none of the marks for a missing proof.
Digests(tree) == \A i \in 1..Len(tree) : tree[i] # NoProof

\* Digests of different kinds differ, and a node tells its children.
LEMMA DigestForms ==
  ASSUME NEW a, NEW b, NEW c, NEW d
  PROVE  /\ EmptyRoot # NoProof /\ LeafHash(a) # NoProof /\ NodeHash(a, b) # NoProof
         /\ LeafHash(a) = LeafHash(b) => a = b
         /\ NodeHash(a, b) = NodeHash(c, d) => a = c /\ b = d
         /\ NodeHash(a, b) # LeafHash(c) /\ EmptyRoot # LeafHash(c)
<1>1. EmptyRoot # NoProof /\ LeafHash(a) # NoProof /\ NodeHash(a, b) # NoProof
  <2>1. Len(EmptyRoot) = 1 /\ Len(LeafHash(a)) = 2 /\ Len(NodeHash(a, b)) = 3
    BY DEF EmptyRoot, LeafHash, NodeHash
  <2> QED
    BY <2>1 DEF NoProof
<1>2. LeafHash(a) = LeafHash(b) => a = b
  BY DEF LeafHash
<1>3. NodeHash(a, b) = NodeHash(c, d) => a = c /\ b = d
  BY DEF NodeHash
<1>4. NodeHash(a, b) # LeafHash(c)
  <2>1. Len(LeafHash(c)) = 2 /\ Len(NodeHash(a, b)) = 3
    BY DEF LeafHash, NodeHash
  <2> QED
    BY <2>1
<1>5. EmptyRoot # LeafHash(c)
  <2>1. Len(LeafHash(c)) = 2 /\ Len(EmptyRoot) = 1
    BY DEF LeafHash, EmptyRoot
  <2> QED
    BY <2>1
<1> QED
  BY <1>1, <1>2, <1>3, <1>4, <1>5

LEMMA RootsAreDigests ==
  ASSUME NEW tree, Len(tree) \in Nat, Digests(tree), NEW n \in 0..Len(tree),
         NEW lo \in 0..(Len(tree) - n)
  PROVE  Roots(tree)[n][lo] # NoProof
<1>1. CASE n = 0
  BY <1>1, RootsAt, DigestForms
<1>2. CASE n = 1
  <2>1. Roots(tree)[n][lo] = tree[lo + 1]
    BY <1>2, RootsAt
  <2>2. lo + 1 \in 1..Len(tree)
    BY <1>2
  <2> QED
    BY <2>1, <2>2 DEF Digests
<1>3. CASE n >= 2
  BY <1>3, RootsAt, DigestForms
<1> QED
  BY <1>1, <1>2, <1>3

-----------------------------------------------------------------------------
(* The inductive invariant of the API.  Its parts take the tables as       *)
(* parameters: lg, lv and an for logs, leaves and anchored.                *)

Algo == CHOOSE a \in FromCode(HashCode, HashCode["Sha256"]) : TRUE
Hashes == {LeafHash(r) : r \in Nat \ {0}}
RootAt(lv, l, n) == [algo |-> Algo, of |-> Roots(lv[l])[n][0]]
SignedAt(lv, l, n) == SignHead([size |-> n, root |-> RootAt(lv, l, n)], DefaultKeyId)
Anchor(lv, l, n) == [log |-> l, size |-> n, root |-> RootAt(lv, l, n)]
HandedOut(lv, l, n) == [log |-> l, sth |-> SignedAt(lv, l, n)]

\* Every log is hashed with the factory's algorithm, every head ever anchored or handed
\* out is the head of a prefix.
TablesOK(lg, lv, an, hd) ==
  /\ DOMAIN lg \subseteq LogIds /\ \A l \in DOMAIN lg : lg[l] = HashCode["Sha256"]
  /\ lv \in [LogIds -> Seq(Hashes)]
  /\ \A a \in an : \E l \in DOMAIN lg : \E n \in 0..Len(lv[l]) : a = Anchor(lv, l, n)
  /\ \A h \in hd : \E l \in DOMAIN lg : \E n \in 0..Len(lv[l]) : h = HandedOut(lv, l, n)

\* A call has the fields it starts with.
TheCall(pc, req, depth, write, seen, result) ==
  [pc |-> pc, req |-> req, depth |-> depth, write |-> write, seen |-> seen, result |-> result]
IsCall(k) == k = TheCall(k.pc, k.req, k.depth, k.write, k.seen, k.result)

Top(k) == Len(Pipeline(k.req.op))

\* Before the commit: what the answer will say is what the commit will write.
LogWrite(x) == [kind |-> "log", log |-> x]
LeafWrite(l, at, record) == [kind |-> "leaf", log |-> l, at |-> at, leaf |-> LeafHash(record)]
HeadWrite(lv, l, n) == [kind |-> "head", log |-> l, size |-> n, root |-> RootAt(lv, l, n)]
Ok(value) == [ok |-> value]

PendingCreate(k) == \E x \in LogIds : k.write = LogWrite(x) /\ k.result = Ok(x)
PendingAppend(lg, lv, k) ==
  /\ k.req.log \in DOMAIN lg
  /\ k.write = LeafWrite(k.req.log, Len(lv[k.req.log]), k.req.record)
  /\ k.result = Ok(Len(lv[k.req.log]))
PendingHead(lg, lv, k) ==
  /\ k.req.log \in DOMAIN lg
  /\ \E n \in 0..Len(lv[k.req.log]) :
       k.write = HeadWrite(lv, k.req.log, n) /\ k.result = Ok(SignedAt(lv, k.req.log, n))
PendingOK(lg, lv, k) ==
  \/ k.req.op = "create" /\ PendingCreate(k)
  \/ k.req.op = "append" /\ PendingAppend(lg, lv, k)
  \/ k.req.op = "checkpoint" /\ PendingHead(lg, lv, k)

\* After it: what the answer will say is so.
CommittedCreate(lg, k) == \E x \in DOMAIN lg : k.result = Ok(x)
CommittedAppend(lg, lv, k) ==
  /\ k.req.log \in DOMAIN lg
  /\ \E i \in 1..Len(lv[k.req.log]) : /\ k.result = Ok(i - 1)
                                      /\ lv[k.req.log][i] = LeafHash(k.req.record)
CommittedHead(lg, lv, an, k) ==
  /\ k.req.log \in DOMAIN lg
  /\ \E n \in 0..Len(lv[k.req.log]) : /\ k.result = Ok(SignedAt(lv, k.req.log, n))
                                      /\ Anchor(lv, k.req.log, n) \in an
CommittedOK(lg, lv, an, k) ==
  \/ k.req.op = "create" /\ CommittedCreate(lg, k)
  \/ k.req.op = "append" /\ CommittedAppend(lg, lv, k)
  \/ k.req.op = "checkpoint" /\ CommittedHead(lg, lv, an, k)

\* A proof is about the first n leaves, for some n.
InclusionOf(read, at) == [proof |-> Inclusion(read, at), leaf |-> read[at + 1], root |-> Root(read)]
ConsistencyOf(read, at) ==
  [proof |-> Consistency(read, at), old |-> Root(SubSeq(read, 1, at)), new |-> Root(read)]
ServedInclusion(lg, lv, k) ==
  /\ k.req.log \in DOMAIN lg
  /\ \E n \in 0..Len(lv[k.req.log]) :
       k.req.at < n /\ k.result = Ok(InclusionOf(SubSeq(lv[k.req.log], 1, n), k.req.at))
ServedConsistency(lg, lv, k) ==
  /\ k.req.log \in DOMAIN lg
  /\ \E n \in 0..Len(lv[k.req.log]) :
       k.req.at \in 1..n /\ k.result = Ok(ConsistencyOf(SubSeq(lv[k.req.log], 1, n), k.req.at))
ServedOK(lg, lv, k) ==
  \/ k.req.op = "inclusion" /\ ServedInclusion(lg, lv, k)
  \/ k.req.op = "consistency" /\ ServedConsistency(lg, lv, k)

FailedOK(k) == k.write = NoWrite /\ \E e : k.result = Error(e)

LeavingOK(lg, lv, an, k) ==
  /\ k.depth \in 0..Top(k)
  /\ \/ FailedOK(k)
     \/ k.depth = Top(k) /\ PendingOK(lg, lv, k)
     \/ k.depth # Top(k) /\ k.write = NoWrite /\ CommittedOK(lg, lv, an, k)
     \/ k.write = NoWrite /\ ServedOK(lg, lv, k)

CallOK(lg, lv, an, k) ==
  /\ IsCall(k)
  /\ k.pc \in {"idle", "handle", "insert", "load", "leave"}
  /\ k.pc = "idle" => k = NoCall
  /\ k.pc # "idle" => k.req \in Requests
  /\ k.pc \in {"handle", "insert", "load"} => k.depth = Top(k) /\ k.write = NoWrite
  /\ k.pc = "insert" => /\ k.req.op = "append" /\ k.req.log \in DOMAIN lg
                        /\ k.seen \in 0..Len(lv[k.req.log])
  /\ k.pc = "load" => ~(k.req.op \in {"create", "append"}) /\ k.req.log \in DOMAIN lg
  /\ k.pc = "leave" => LeavingOK(lg, lv, an, k)

\* No two transactions hold a leaf of the same log.
Apart(calls) ==
  \A c, d \in Client : c # d /\ calls[c].write.kind = "leaf" /\ calls[d].write.kind = "leaf"
                         => calls[c].write.log # calls[d].write.log

\* The appends that are committed and not counted yet.
ToCount(k) == k.pc = "leave" /\ k.req.op = "append" /\ k.depth = 2 /\ ~IsError(k.result)
Uncounted(calls) == {c \in Client : ToCount(calls[c])}

InvOf(lg, lv, an, hd, calls, cnt) ==
  /\ TablesOK(lg, lv, an, hd)
  /\ calls = [c \in Client |-> calls[c]]
  /\ \A c \in Client : CallOK(lg, lv, an, calls[c])
  /\ Apart(calls)
  /\ cnt \in [appended : Nat, dropped : Nat, stored : Nat]
  /\ cnt.appended + Cardinality(Uncounted(calls)) <= cnt.stored
ApiInv == InvOf(logs, leaves, anchored, heads, call, count)

-----------------------------------------------------------------------------
(* Forms *)

LEMMA ResultForms ==
  ASSUME NEW e, NEW v
  PROVE  /\ IsError(Error(e)) /\ ~IsError(Ok(v)) /\ Ok(v).ok = v /\ Error(e) # Ok(v)
<1>1. DOMAIN Error(e) = {"error"} /\ DOMAIN Ok(v) = {"ok"}
  BY DEF Error, Ok
<1> QED
  BY <1>1 DEF IsError, Ok

LEMMA PipelineForms ==
  /\ Len(Pipeline("append")) = 3 /\ Pipeline("append")[1] = "tracing"
  /\ Pipeline("append")[2] = "metrics" /\ Pipeline("append")[3] = "transaction"
  /\ \A op \in {"create", "checkpoint"} :
       Len(Pipeline(op)) = 2 /\ Pipeline(op)[1] = "tracing" /\ Pipeline(op)[2] = "transaction"
  /\ \A op \in {"inclusion", "consistency"} : Len(Pipeline(op)) = 1 /\ Pipeline(op)[1] = "tracing"
BY DEF Pipeline

LEMMA RequestForms ==
  ASSUME NEW req \in Requests
  PROVE  /\ req.op \in {"create", "append", "checkpoint", "inclusion", "consistency"}
         /\ req.op = "append" => req.log \in LogIds /\ req.record \in NewRecords
         /\ req.op = "checkpoint" => req.log \in LogIds /\ req.key \in KeyIds
         /\ req.op \in {"inclusion", "consistency"} => req.log \in LogIds /\ req.at \in Positions
BY DEF Requests

LEMMA NoCallOK ==
  ASSUME NEW lg, NEW lv, NEW an
  PROVE  /\ CallOK(lg, lv, an, NoCall) /\ NoCall.pc = "idle" /\ NoCall.write.kind = "none"
         /\ NoCall.write = NoWrite
BY DEF CallOK, NoCall, IsCall, TheCall, NoWrite, LeavingOK

LEMMA LogWriteForm == \A x : LogWrite(x).kind = "log" /\ LogWrite(x).log = x
BY DEF LogWrite

LEMMA LeafWriteForm ==
  ASSUME NEW l, NEW at, NEW r
  PROVE  /\ LeafWrite(l, at, r).kind = "leaf" /\ LeafWrite(l, at, r).log = l
         /\ LeafWrite(l, at, r).at = at /\ LeafWrite(l, at, r).leaf = LeafHash(r)
BY DEF LeafWrite

LEMMA HeadWriteForm ==
  ASSUME NEW lv, NEW l, NEW n
  PROVE  /\ HeadWrite(lv, l, n).kind = "head" /\ HeadWrite(lv, l, n).log = l
         /\ HeadWrite(lv, l, n).size = n /\ HeadWrite(lv, l, n).root = RootAt(lv, l, n)
BY DEF HeadWrite

LEMMA NoWriteForm == NoWrite.kind = "none"
BY DEF NoWrite

\* A leaf that is written belongs to an append that is about to be committed.
LEMMA LeafWrites ==
  ASSUME NEW lg, NEW lv, NEW an, NEW k, CallOK(lg, lv, an, k), k.write.kind = "leaf"
  PROVE  /\ k.pc = "leave" /\ k.req.op = "append" /\ k.depth = 3 /\ PendingAppend(lg, lv, k)
<1>1. k.write # NoWrite
  BY NoWriteForm
<1>2. k.pc = "leave" /\ LeavingOK(lg, lv, an, k)
  BY <1>1, NoCallOK DEF CallOK
<1>3. k.depth = Top(k) /\ PendingOK(lg, lv, k)
  BY <1>1, <1>2 DEF LeavingOK, FailedOK
<1>4. ~PendingCreate(k) /\ ~PendingHead(lg, lv, k)
  BY LogWriteForm, HeadWriteForm DEF PendingCreate, PendingHead
<1>5. k.req.op = "append" /\ PendingAppend(lg, lv, k)
  BY <1>3, <1>4 DEF PendingOK
<1> QED
  BY <1>2, <1>3, <1>5, PipelineForms DEF Top

-----------------------------------------------------------------------------
(* What is in the tables stays there *)

Grown(lg, lv, an, lg2, lv2, an2) ==
  /\ DOMAIN lg \subseteq DOMAIN lg2 /\ DOMAIN lg2 \subseteq LogIds
  /\ lv \in [LogIds -> Seq(Hashes)] /\ lv2 \in [LogIds -> Seq(Hashes)]
  /\ \A l \in LogIds : /\ Len(lv[l]) <= Len(lv2[l])
                       /\ \A i \in 1..Len(lv[l]) : lv2[l][i] = lv[l][i]
  /\ an \subseteq an2

\* The root and the leaves of a prefix do not change.
LEMMA PrefixKeeps ==
  ASSUME NEW lg, NEW lv, NEW an, NEW lg2, NEW lv2, NEW an2, Grown(lg, lv, an, lg2, lv2, an2),
         NEW l \in LogIds, NEW n \in 0..Len(lv[l])
  PROVE  /\ n \in 0..Len(lv2[l])
         /\ RootAt(lv2, l, n) = RootAt(lv, l, n) /\ SignedAt(lv2, l, n) = SignedAt(lv, l, n)
         /\ Anchor(lv2, l, n) = Anchor(lv, l, n) /\ HandedOut(lv2, l, n) = HandedOut(lv, l, n)
         /\ SubSeq(lv2[l], 1, n) = SubSeq(lv[l], 1, n)
<1> DEFINE a == lv[l]
           b == lv2[l]
<1>1. /\ a \in Seq(Hashes) /\ b \in Seq(Hashes) /\ Len(a) \in Nat /\ Len(b) \in Nat
      /\ Len(a) <= Len(b) /\ \A i \in 1..Len(a) : b[i] = a[i]
  BY DEF Grown
<1> HIDE DEF a, b
<1>2. n \in Nat /\ n <= Len(a) /\ n <= Len(b) /\ n \in 0..Len(b)
  BY <1>1 DEF a
<1>3. \A i \in 1..n : b[i] = a[i]
  BY <1>1, <1>2
<1>4. Roots(b)[n][0] = Roots(a)[n][0]
  <2>1. 0 \in Nat /\ 0 + n <= Len(b) /\ 0 + n <= Len(a)
    BY <1>2
  <2>2. \A i \in 1..n : b[0 + i] = a[0 + i]
    BY <1>3
  <2> QED
    BY <1>1, <1>2, <2>1, <2>2, SameSlice
<1>5. RootAt(lv2, l, n) = RootAt(lv, l, n)
  BY <1>4 DEF RootAt, a, b
<1>6. SignedAt(lv2, l, n) = SignedAt(lv, l, n)
  BY <1>5 DEF SignedAt
<1>7. SubSeq(b, 1, n) = SubSeq(a, 1, n)
  BY <1>1, <1>2, <1>3
<1> QED
  BY <1>2, <1>5, <1>6, <1>7 DEF Anchor, HandedOut, a, b

\* What was anchored and what was handed out stays right.
LEMMA TablesKeep ==
  ASSUME NEW lg, NEW lv, NEW an, NEW hd, NEW lg2, NEW lv2, NEW an2,
         TablesOK(lg, lv, an, hd), Grown(lg, lv, an, lg2, lv2, an2)
  PROVE  /\ \A x \in an : \E l \in DOMAIN lg2 : \E n \in 0..Len(lv2[l]) : x = Anchor(lv2, l, n)
         /\ \A x \in hd : \E l \in DOMAIN lg2 : \E n \in 0..Len(lv2[l]) : x = HandedOut(lv2, l, n)
<1>1. ASSUME NEW x \in an
      PROVE  \E l \in DOMAIN lg2 : \E n \in 0..Len(lv2[l]) : x = Anchor(lv2, l, n)
  <2>0. PICK l \in DOMAIN lg : \E n \in 0..Len(lv[l]) : x = Anchor(lv, l, n)
    BY <1>1 DEF TablesOK
  <2>1. PICK n \in 0..Len(lv[l]) : x = Anchor(lv, l, n)
    BY <2>0
  <2>2. l \in LogIds /\ l \in DOMAIN lg2
    BY DEF Grown
  <2>3. n \in 0..Len(lv2[l]) /\ x = Anchor(lv2, l, n)
    BY <2>1, <2>2, PrefixKeeps
  <2> QED
    BY <2>2, <2>3
<1>2. ASSUME NEW x \in hd
      PROVE  \E l \in DOMAIN lg2 : \E n \in 0..Len(lv2[l]) : x = HandedOut(lv2, l, n)
  <2>0. PICK l \in DOMAIN lg : \E n \in 0..Len(lv[l]) : x = HandedOut(lv, l, n)
    BY <1>2 DEF TablesOK
  <2>1. PICK n \in 0..Len(lv[l]) : x = HandedOut(lv, l, n)
    BY <2>0
  <2>2. l \in LogIds /\ l \in DOMAIN lg2
    BY DEF Grown
  <2>3. n \in 0..Len(lv2[l]) /\ x = HandedOut(lv2, l, n)
    BY <2>1, <2>2, PrefixKeeps
  <2> QED
    BY <2>2, <2>3
<1> QED
  BY <1>1, <1>2

\* A call that is not the one that wrote still stands.
LEMMA CallKeeps ==
  ASSUME NEW lg, NEW lv, NEW an, NEW lg2, NEW lv2, NEW an2, NEW k,
         Grown(lg, lv, an, lg2, lv2, an2), CallOK(lg, lv, an, k),
         k.write.kind = "leaf" => Len(lv2[k.write.log]) = Len(lv[k.write.log])
  PROVE  CallOK(lg2, lv2, an2, k)
<1> DEFINE l == k.req.log
<1>0. DOMAIN lg \subseteq DOMAIN lg2 /\ DOMAIN lg \subseteq LogIds
  BY DEF Grown
<1>1. ASSUME PendingAppend(lg, lv, k) PROVE PendingAppend(lg2, lv2, k)
  <2>1. k.write.kind = "leaf" /\ k.write.log = l
    BY <1>1, LeafWriteForm DEF PendingAppend
  <2>2. Len(lv2[l]) = Len(lv[l])
    BY <2>1
  <2> QED
    BY <1>0, <1>1, <2>2 DEF PendingAppend
<1>2. ASSUME PendingHead(lg, lv, k) PROVE PendingHead(lg2, lv2, k)
  <2>1. l \in LogIds /\ l \in DOMAIN lg2
    BY <1>0, <1>2 DEF PendingHead
  <2>2. PICK n \in 0..Len(lv[l]) : k.write = HeadWrite(lv, l, n) /\ k.result = Ok(SignedAt(lv, l, n))
    BY <1>2 DEF PendingHead
  <2> HIDE DEF l
  <2>3. /\ n \in 0..Len(lv2[l]) /\ RootAt(lv2, l, n) = RootAt(lv, l, n)
        /\ SignedAt(lv2, l, n) = SignedAt(lv, l, n)
    BY <2>1, PrefixKeeps
  <2>4. HeadWrite(lv2, l, n) = HeadWrite(lv, l, n)
    BY <2>3 DEF HeadWrite
  <2> QED
    BY <2>1, <2>2, <2>3, <2>4 DEF PendingHead, l
<1>3. ASSUME CommittedAppend(lg, lv, k) PROVE CommittedAppend(lg2, lv2, k)
  <2>1. l \in LogIds /\ l \in DOMAIN lg2
    BY <1>0, <1>3 DEF CommittedAppend
  <2>2. PICK i \in 1..Len(lv[l]) : k.result = Ok(i - 1) /\ lv[l][i] = LeafHash(k.req.record)
    BY <1>3 DEF CommittedAppend
  <2> HIDE DEF l
  <2>3. i \in 1..Len(lv2[l]) /\ lv2[l][i] = lv[l][i]
    BY <2>1 DEF Grown
  <2> QED
    BY <2>1, <2>2, <2>3 DEF CommittedAppend, l
<1>4. ASSUME CommittedHead(lg, lv, an, k) PROVE CommittedHead(lg2, lv2, an2, k)
  <2>1. l \in LogIds /\ l \in DOMAIN lg2
    BY <1>0, <1>4 DEF CommittedHead
  <2>2. PICK n \in 0..Len(lv[l]) : k.result = Ok(SignedAt(lv, l, n)) /\ Anchor(lv, l, n) \in an
    BY <1>4 DEF CommittedHead
  <2> HIDE DEF l
  <2>3. /\ n \in 0..Len(lv2[l]) /\ Anchor(lv2, l, n) = Anchor(lv, l, n)
        /\ SignedAt(lv2, l, n) = SignedAt(lv, l, n)
    BY <2>1, PrefixKeeps
  <2>4. Anchor(lv2, l, n) \in an2
    BY <2>2, <2>3 DEF Grown
  <2> QED
    BY <2>1, <2>2, <2>3, <2>4 DEF CommittedHead, l
<1>5. ASSUME ServedInclusion(lg, lv, k) PROVE ServedInclusion(lg2, lv2, k)
  <2>1. l \in LogIds /\ l \in DOMAIN lg2
    BY <1>0, <1>5 DEF ServedInclusion
  <2>2. PICK n \in 0..Len(lv[l]) :
          k.req.at < n /\ k.result = Ok(InclusionOf(SubSeq(lv[l], 1, n), k.req.at))
    BY <1>5 DEF ServedInclusion
  <2> HIDE DEF l
  <2>3. n \in 0..Len(lv2[l]) /\ SubSeq(lv2[l], 1, n) = SubSeq(lv[l], 1, n)
    BY <2>1, PrefixKeeps
  <2> QED
    BY <2>1, <2>2, <2>3 DEF ServedInclusion, l
<1>6. ASSUME ServedConsistency(lg, lv, k) PROVE ServedConsistency(lg2, lv2, k)
  <2>1. l \in LogIds /\ l \in DOMAIN lg2
    BY <1>0, <1>6 DEF ServedConsistency
  <2>2. PICK n \in 0..Len(lv[l]) :
          k.req.at \in 1..n /\ k.result = Ok(ConsistencyOf(SubSeq(lv[l], 1, n), k.req.at))
    BY <1>6 DEF ServedConsistency
  <2> HIDE DEF l
  <2>3. n \in 0..Len(lv2[l]) /\ SubSeq(lv2[l], 1, n) = SubSeq(lv[l], 1, n)
    BY <2>1, PrefixKeeps
  <2> QED
    BY <2>1, <2>2, <2>3 DEF ServedConsistency, l
<1>7. CommittedCreate(lg, k) => CommittedCreate(lg2, k)
  BY <1>0 DEF CommittedCreate
<1>8. ASSUME LeavingOK(lg, lv, an, k) PROVE LeavingOK(lg2, lv2, an2, k)
  <2>1. PendingOK(lg, lv, k) => PendingOK(lg2, lv2, k)
    BY <1>1, <1>2 DEF PendingOK
  <2>2. CommittedOK(lg, lv, an, k) => CommittedOK(lg2, lv2, an2, k)
    BY <1>3, <1>4, <1>7 DEF CommittedOK
  <2>3. ServedOK(lg, lv, k) => ServedOK(lg2, lv2, k)
    BY <1>5, <1>6 DEF ServedOK
  <2> QED
    BY <1>8, <2>1, <2>2, <2>3 DEF LeavingOK
<1>9. ASSUME k.pc = "insert" PROVE l \in DOMAIN lg2 /\ k.seen \in 0..Len(lv2[l])
  <2>1. l \in DOMAIN lg /\ k.seen \in 0..Len(lv[l])
    BY <1>9 DEF CallOK
  <2>2. l \in LogIds /\ l \in DOMAIN lg2
    BY <1>0, <2>1
  <2> HIDE DEF l
  <2>3. Len(lv[l]) <= Len(lv2[l]) /\ Len(lv[l]) \in Nat /\ Len(lv2[l]) \in Nat
    BY <2>2 DEF Grown
  <2> QED
    BY <2>1, <2>2, <2>3
<1>10. k.pc = "load" => l \in DOMAIN lg2
  BY <1>0 DEF CallOK
<1> QED
  BY <1>8, <1>9, <1>10 DEF CallOK

LEMMA GrownSame ==
  ASSUME NEW lg, NEW lv, NEW an, NEW hd, TablesOK(lg, lv, an, hd)
  PROVE  Grown(lg, lv, an, lg, lv, an)
BY DEF TablesOK, Grown

-----------------------------------------------------------------------------
(* Steps *)

\* The leaf that a call holds is of a log that no other call holds a leaf of.
Clear(calls, c, k) ==
  k.write.kind = "leaf" => \A d \in Client \ {c} : calls[d].write.kind = "leaf"
                                                     => calls[d].write.log # k.write.log

LEMMA CountFacts ==
  ASSUME NEW calls
  PROVE  /\ IsFiniteSet(Uncounted(calls)) /\ Cardinality(Uncounted(calls)) \in Nat
BY ApiAssumption, FS_Subset, FS_CardinalityType DEF Uncounted

\* A call that is not to be counted leaves no more calls to be counted.
LEMMA CountMoves ==
  ASSUME NEW calls, calls = [d \in Client |-> calls[d]], NEW c \in Client, NEW k
  PROVE  LET now == Uncounted([calls EXCEPT ![c] = k])
         IN  /\ ~ToCount(k) => Cardinality(now) <= Cardinality(Uncounted(calls))
             /\ ~ToCount(k) /\ ToCount(calls[c]) => Cardinality(now) + 1 <= Cardinality(Uncounted(calls))
             /\ Cardinality(now) <= Cardinality(Uncounted(calls)) + 1
<1> DEFINE calls2 == [calls EXCEPT ![c] = k]
           U == Uncounted(calls)
           V == Uncounted(calls2)
<1>1. IsFiniteSet(U) /\ IsFiniteSet(V) /\ Cardinality(U) \in Nat /\ Cardinality(V) \in Nat
  BY CountFacts
<1>2. calls2[c] = k /\ \A d \in Client : d # c => calls2[d] = calls[d]
  OBVIOUS
<1>3. V \subseteq U \cup {c} /\ (~ToCount(k) => V \subseteq U \ {c}) /\ (ToCount(calls[c]) => c \in U)
  <2> HIDE DEF calls2
  <2> QED
    BY <1>2 DEF Uncounted
<1> HIDE DEF U, V
<1>4. ASSUME V \subseteq U \ {c} PROVE Cardinality(V) <= Cardinality(U)
  BY <1>1, <1>4, FS_Subset
<1>5. ASSUME V \subseteq U \ {c}, c \in U PROVE Cardinality(V) + 1 <= Cardinality(U)
  <2>1. IsFiniteSet(U \ {c}) /\ Cardinality(U \ {c}) = Cardinality(U) - 1
    BY <1>1, <1>5, FS_RemoveElement
  <2>2. Cardinality(V) <= Cardinality(U \ {c})
    BY <1>5, <2>1, FS_Subset
  <2> QED
    BY <1>1, <2>1, <2>2
<1>6. Cardinality(V) <= Cardinality(U) + 1
  <2>0. IsFiniteSet(U \cup {c}) /\ Cardinality(U \cup {c}) \in {Cardinality(U), Cardinality(U) + 1}
    BY <1>1, FS_AddElement
  <2>1. IsFiniteSet(U \cup {c}) /\ Cardinality(U \cup {c}) <= Cardinality(U) + 1 /\ Cardinality(U \cup {c}) \in Nat
    BY <1>1, <2>0
  <2>2. Cardinality(V) <= Cardinality(U \cup {c})
    BY <1>3, <2>1, FS_Subset
  <2> QED
    BY <1>1, <2>1, <2>2
<1> QED
  BY <1>3, <1>4, <1>5, <1>6 DEF U, V

Put(calls, c, k) == [calls EXCEPT ![c] = k]

\* The logs that other calls hold leaves of get none.
Undisturbed(calls, c, lv, lv2) ==
  \A d \in Client \ {c} : calls[d].write.kind = "leaf" =>
     Len(lv2[calls[d].write.log]) = Len(lv[calls[d].write.log])

\* A step of c to the call k.
StepTo(lg, lv, an, hd, calls, cnt, lg2, lv2, an2, hd2, calls2, cnt2, c, k) ==
  /\ c \in Client /\ InvOf(lg, lv, an, hd, calls, cnt)
  /\ TablesOK(lg2, lv2, an2, hd2) /\ Grown(lg, lv, an, lg2, lv2, an2)
  /\ Undisturbed(calls, c, lv, lv2)
  /\ calls2 = Put(calls, c, k) /\ CallOK(lg2, lv2, an2, k) /\ Clear(calls, c, k)
  /\ cnt2 \in [appended : Nat, dropped : Nat, stored : Nat]
  /\ cnt2.appended + Cardinality(Uncounted(calls2)) <= cnt2.stored

\* What a step has to show: the tables it leaves, the call it moves, the counters.
LEMMA Steps ==
  ASSUME NEW lg, NEW lv, NEW an, NEW hd, NEW calls, NEW cnt, NEW lg2, NEW lv2, NEW an2, NEW hd2,
         NEW calls2, NEW cnt2, NEW c, NEW k,
         StepTo(lg, lv, an, hd, calls, cnt, lg2, lv2, an2, hd2, calls2, cnt2, c, k)
  PROVE  InvOf(lg2, lv2, an2, hd2, calls2, cnt2)
<1> USE DEF StepTo
<1>1. /\ calls = [d \in Client |-> calls[d]] /\ Apart(calls)
      /\ \A d \in Client : CallOK(lg, lv, an, calls[d])
  BY DEF InvOf
<1>2. calls2[c] = k /\ \A d \in Client : d # c => calls2[d] = calls[d]
  BY <1>1 DEF Put
<1>3. calls2 = [d \in Client |-> calls2[d]]
  BY <1>1 DEF Put
<1>4. ASSUME NEW d \in Client PROVE CallOK(lg2, lv2, an2, calls2[d])
  <2>1. CASE d = c
    BY <1>2, <2>1
  <2>2. CASE d # c
    <3>1. CallOK(lg2, lv2, an2, calls[d])
      BY <1>1, <2>2, CallKeeps DEF Undisturbed
    <3> QED
      BY <1>2, <2>2, <3>1
  <2> QED
    BY <2>1, <2>2
<1>5. Apart(calls2)
  BY <1>1, <1>2 DEF Apart, Clear
<1> QED
  BY <1>3, <1>4, <1>5 DEF InvOf

\* A step that leaves the tables and the counters alone.
LEMMA QuietSteps ==
  ASSUME NEW lg, NEW lv, NEW an, NEW hd, NEW calls, NEW cnt, NEW calls2, NEW c \in Client, NEW k,
         InvOf(lg, lv, an, hd, calls, cnt), calls2 = Put(calls, c, k),
         CallOK(lg, lv, an, k), Clear(calls, c, k), ~ToCount(k)
  PROVE  InvOf(lg, lv, an, hd, calls2, cnt)
<1>1. /\ TablesOK(lg, lv, an, hd) /\ cnt \in [appended : Nat, dropped : Nat, stored : Nat]
      /\ cnt.appended + Cardinality(Uncounted(calls)) <= cnt.stored
      /\ calls = [d \in Client |-> calls[d]]
  BY DEF InvOf
<1>2. Cardinality(Uncounted(calls2)) <= Cardinality(Uncounted(calls))
  BY <1>1, CountMoves DEF Put
<1>3. cnt.appended + Cardinality(Uncounted(calls2)) <= cnt.stored
  <2>1. /\ cnt.appended \in Nat /\ cnt.stored \in Nat /\ Cardinality(Uncounted(calls)) \in Nat
        /\ Cardinality(Uncounted(calls2)) \in Nat
    BY <1>1, CountFacts
  <2> QED
    BY <1>1, <1>2, <2>1
<1>4. Grown(lg, lv, an, lg, lv, an)
  BY <1>1, GrownSame
<1>5. Undisturbed(calls, c, lv, lv)
  BY DEF Undisturbed
<1>6. StepTo(lg, lv, an, hd, calls, cnt, lg, lv, an, hd, calls2, cnt, c, k)
  BY <1>1, <1>3, <1>4, <1>5 DEF StepTo
<1> QED
  BY <1>6, Steps

\* The calls that the steps write.
To(k, pc) == [k EXCEPT !.pc = pc]
ToSeen(k, pc, n) == [k EXCEPT !.pc = pc, !.seen = n]
Stopped(k, pc, r) == [k EXCEPT !.pc = pc, !.result = r]
Written(k, pc, w, r) == [k EXCEPT !.pc = pc, !.write = w, !.result = r]
Outwards(k) == [k EXCEPT !.depth = @ - 1]
Done(k, w) == [k EXCEPT !.depth = @ - 1, !.write = w]
Instead(k, r) == [k EXCEPT !.result = r]
Started(k, pc, q, d) == [k EXCEPT !.pc = pc, !.req = q, !.depth = d]
Refused(k, pc, q, d, r) == [k EXCEPT !.pc = pc, !.req = q, !.depth = d, !.result = r]

\* The shapes of the calls that the steps write.
LEMMA CallFields ==
  ASSUME NEW pc, NEW req, NEW depth, NEW write, NEW seen, NEW result
  PROVE  LET k == TheCall(pc, req, depth, write, seen, result)
         IN  /\ k.pc = pc /\ k.req = req /\ k.depth = depth /\ k.write = write /\ k.seen = seen
             /\ k.result = result /\ IsCall(k)
BY DEF TheCall, IsCall

LEMMA GoesOn ==
  ASSUME NEW k, IsCall(k), NEW pc
  PROVE  To(k, pc) = TheCall(pc, k.req, k.depth, k.write, k.seen, k.result)
<1>2. k = TheCall(k.pc, k.req, k.depth, k.write, k.seen, k.result)
  BY DEF IsCall
<1>3. [TheCall(k.pc, k.req, k.depth, k.write, k.seen, k.result) EXCEPT !.pc = pc] = TheCall(pc, k.req, k.depth, k.write, k.seen, k.result)
  BY DEF TheCall
<1> QED
  BY <1>2, <1>3 DEF To

LEMMA GoesOnSeen ==
  ASSUME NEW k, IsCall(k), NEW pc, NEW n
  PROVE  ToSeen(k, pc, n) = TheCall(pc, k.req, k.depth, k.write, n, k.result)
<1>1. [k EXCEPT !.pc = pc, !.seen = n] = [[k EXCEPT !.pc = pc] EXCEPT !.seen = n]
  OBVIOUS
<1>2. k = TheCall(k.pc, k.req, k.depth, k.write, k.seen, k.result)
  BY DEF IsCall
<1>3. [TheCall(k.pc, k.req, k.depth, k.write, k.seen, k.result) EXCEPT !.pc = pc] = TheCall(pc, k.req, k.depth, k.write, k.seen, k.result)
  BY DEF TheCall
<1>4. [TheCall(pc, k.req, k.depth, k.write, k.seen, k.result) EXCEPT !.seen = n] = TheCall(pc, k.req, k.depth, k.write, n, k.result)
  BY DEF TheCall
<1>5. [k EXCEPT !.pc = pc, !.seen = n] = TheCall(pc, k.req, k.depth, k.write, n, k.result)
  BY <1>1, <1>2, <1>3, <1>4
<1> QED
  BY <1>5 DEF ToSeen

LEMMA Stops ==
  ASSUME NEW k, IsCall(k), NEW pc, NEW r
  PROVE  Stopped(k, pc, r) = TheCall(pc, k.req, k.depth, k.write, k.seen, r)
<1>1. [k EXCEPT !.pc = pc, !.result = r] = [[k EXCEPT !.pc = pc] EXCEPT !.result = r]
  OBVIOUS
<1>2. k = TheCall(k.pc, k.req, k.depth, k.write, k.seen, k.result)
  BY DEF IsCall
<1>3. [TheCall(k.pc, k.req, k.depth, k.write, k.seen, k.result) EXCEPT !.pc = pc] = TheCall(pc, k.req, k.depth, k.write, k.seen, k.result)
  BY DEF TheCall
<1>4. [TheCall(pc, k.req, k.depth, k.write, k.seen, k.result) EXCEPT !.result = r] = TheCall(pc, k.req, k.depth, k.write, k.seen, r)
  BY DEF TheCall
<1>5. [k EXCEPT !.pc = pc, !.result = r] = TheCall(pc, k.req, k.depth, k.write, k.seen, r)
  BY <1>1, <1>2, <1>3, <1>4
<1> QED
  BY <1>5 DEF Stopped

LEMMA Writes ==
  ASSUME NEW k, IsCall(k), NEW pc, NEW w, NEW r
  PROVE  Written(k, pc, w, r) = TheCall(pc, k.req, k.depth, w, k.seen, r)
<1>1. [k EXCEPT !.pc = pc, !.write = w, !.result = r] = [[[k EXCEPT !.pc = pc] EXCEPT !.write = w] EXCEPT !.result = r]
  OBVIOUS
<1>2. k = TheCall(k.pc, k.req, k.depth, k.write, k.seen, k.result)
  BY DEF IsCall
<1>3. [TheCall(k.pc, k.req, k.depth, k.write, k.seen, k.result) EXCEPT !.pc = pc] = TheCall(pc, k.req, k.depth, k.write, k.seen, k.result)
  BY DEF TheCall
<1>4. [TheCall(pc, k.req, k.depth, k.write, k.seen, k.result) EXCEPT !.write = w] = TheCall(pc, k.req, k.depth, w, k.seen, k.result)
  BY DEF TheCall
<1>5. [TheCall(pc, k.req, k.depth, w, k.seen, k.result) EXCEPT !.result = r] = TheCall(pc, k.req, k.depth, w, k.seen, r)
  BY DEF TheCall
<1>6. [k EXCEPT !.pc = pc, !.write = w, !.result = r] = TheCall(pc, k.req, k.depth, w, k.seen, r)
  BY <1>1, <1>2, <1>3, <1>4, <1>5
<1> QED
  BY <1>6 DEF Written

LEMMA Counts ==
  ASSUME NEW k, IsCall(k)
  PROVE  Outwards(k) = TheCall(k.pc, k.req, k.depth - 1, k.write, k.seen, k.result)
<1>1. [k EXCEPT !.depth = @ - 1] = [k EXCEPT !.depth = k.depth - 1]
  OBVIOUS
<1>2. k = TheCall(k.pc, k.req, k.depth, k.write, k.seen, k.result)
  BY DEF IsCall
<1>3. [TheCall(k.pc, k.req, k.depth, k.write, k.seen, k.result) EXCEPT !.depth = k.depth - 1] = TheCall(k.pc, k.req, k.depth - 1, k.write, k.seen, k.result)
  BY DEF TheCall
<1>4. [k EXCEPT !.depth = @ - 1] = TheCall(k.pc, k.req, k.depth - 1, k.write, k.seen, k.result)
  BY <1>1, <1>2, <1>3
<1> QED
  BY <1>4 DEF Outwards

LEMMA Commits ==
  ASSUME NEW k, IsCall(k), NEW w
  PROVE  Done(k, w) = TheCall(k.pc, k.req, k.depth - 1, w, k.seen, k.result)
<1>1. [k EXCEPT !.depth = @ - 1, !.write = w] = [[k EXCEPT !.depth = k.depth - 1] EXCEPT !.write = w]
  OBVIOUS
<1>2. k = TheCall(k.pc, k.req, k.depth, k.write, k.seen, k.result)
  BY DEF IsCall
<1>3. [TheCall(k.pc, k.req, k.depth, k.write, k.seen, k.result) EXCEPT !.depth = k.depth - 1] = TheCall(k.pc, k.req, k.depth - 1, k.write, k.seen, k.result)
  BY DEF TheCall
<1>4. [TheCall(k.pc, k.req, k.depth - 1, k.write, k.seen, k.result) EXCEPT !.write = w] = TheCall(k.pc, k.req, k.depth - 1, w, k.seen, k.result)
  BY DEF TheCall
<1>5. [k EXCEPT !.depth = @ - 1, !.write = w] = TheCall(k.pc, k.req, k.depth - 1, w, k.seen, k.result)
  BY <1>1, <1>2, <1>3, <1>4
<1> QED
  BY <1>5 DEF Done

LEMMA Replaced ==
  ASSUME NEW k, IsCall(k), NEW r
  PROVE  Instead(k, r) = TheCall(k.pc, k.req, k.depth, k.write, k.seen, r)
<1>1. [k EXCEPT !.result = r] = [k EXCEPT !.result = r]
  OBVIOUS
<1>2. k = TheCall(k.pc, k.req, k.depth, k.write, k.seen, k.result)
  BY DEF IsCall
<1>3. [TheCall(k.pc, k.req, k.depth, k.write, k.seen, k.result) EXCEPT !.result = r] = TheCall(k.pc, k.req, k.depth, k.write, k.seen, r)
  BY DEF TheCall
<1>4. [k EXCEPT !.result = r] = TheCall(k.pc, k.req, k.depth, k.write, k.seen, r)
  BY <1>1, <1>2, <1>3
<1> QED
  BY <1>4 DEF Instead

LEMMA Starts ==
  ASSUME NEW k, IsCall(k), NEW pc, NEW q, NEW d
  PROVE  Started(k, pc, q, d) = TheCall(pc, q, d, k.write, k.seen, k.result)
<1>1. [k EXCEPT !.pc = pc, !.req = q, !.depth = d] = [[[k EXCEPT !.pc = pc] EXCEPT !.req = q] EXCEPT !.depth = d]
  OBVIOUS
<1>2. k = TheCall(k.pc, k.req, k.depth, k.write, k.seen, k.result)
  BY DEF IsCall
<1>3. [TheCall(k.pc, k.req, k.depth, k.write, k.seen, k.result) EXCEPT !.pc = pc] = TheCall(pc, k.req, k.depth, k.write, k.seen, k.result)
  BY DEF TheCall
<1>4. [TheCall(pc, k.req, k.depth, k.write, k.seen, k.result) EXCEPT !.req = q] = TheCall(pc, q, k.depth, k.write, k.seen, k.result)
  BY DEF TheCall
<1>5. [TheCall(pc, q, k.depth, k.write, k.seen, k.result) EXCEPT !.depth = d] = TheCall(pc, q, d, k.write, k.seen, k.result)
  BY DEF TheCall
<1>6. [k EXCEPT !.pc = pc, !.req = q, !.depth = d] = TheCall(pc, q, d, k.write, k.seen, k.result)
  BY <1>1, <1>2, <1>3, <1>4, <1>5
<1> QED
  BY <1>6 DEF Started

LEMMA StartsBadly ==
  ASSUME NEW k, IsCall(k), NEW pc, NEW q, NEW d, NEW r
  PROVE  Refused(k, pc, q, d, r) = TheCall(pc, q, d, k.write, k.seen, r)
<1>1. [k EXCEPT !.pc = pc, !.req = q, !.depth = d, !.result = r] = [[[[k EXCEPT !.pc = pc] EXCEPT !.req = q] EXCEPT !.depth = d] EXCEPT !.result = r]
  OBVIOUS
<1>2. k = TheCall(k.pc, k.req, k.depth, k.write, k.seen, k.result)
  BY DEF IsCall
<1>3. [TheCall(k.pc, k.req, k.depth, k.write, k.seen, k.result) EXCEPT !.pc = pc] = TheCall(pc, k.req, k.depth, k.write, k.seen, k.result)
  BY DEF TheCall
<1>4. [TheCall(pc, k.req, k.depth, k.write, k.seen, k.result) EXCEPT !.req = q] = TheCall(pc, q, k.depth, k.write, k.seen, k.result)
  BY DEF TheCall
<1>5. [TheCall(pc, q, k.depth, k.write, k.seen, k.result) EXCEPT !.depth = d] = TheCall(pc, q, d, k.write, k.seen, k.result)
  BY DEF TheCall
<1>6. [TheCall(pc, q, d, k.write, k.seen, k.result) EXCEPT !.result = r] = TheCall(pc, q, d, k.write, k.seen, r)
  BY DEF TheCall
<1>7. [k EXCEPT !.pc = pc, !.req = q, !.depth = d, !.result = r] = TheCall(pc, q, d, k.write, k.seen, r)
  BY <1>1, <1>2, <1>3, <1>4, <1>5, <1>6
<1> QED
  BY <1>7 DEF Refused

-----------------------------------------------------------------------------
(* Calls *)

LEMMA TopIs ==
  ASSUME NEW k, k.req \in Requests
  PROVE  /\ Top(k) \in 1..3 /\ (k.req.op = "append" => Top(k) = 3)
         /\ (k.req.op \in {"create", "checkpoint"} => Top(k) = 2)
         /\ (k.req.op \in {"inclusion", "consistency"} => Top(k) = 1)
BY RequestForms, PipelineForms DEF Top

\* A request that comes in, and one that gets no transaction.
LEMMA StartOK ==
  ASSUME NEW lg, NEW lv, NEW an, NEW req \in Requests, NEW k,
         k = TheCall("handle", req, Len(Pipeline(req.op)), NoWrite, 0, NoRequest)
  PROVE  CallOK(lg, lv, an, k) /\ ~ToCount(k) /\ k.write = NoWrite
<1>1. /\ k.pc = "handle" /\ k.req = req /\ k.depth = Len(Pipeline(req.op)) /\ k.write = NoWrite
      /\ IsCall(k)
  BY CallFields
<1> QED
  BY <1>1 DEF CallOK, ToCount, Top

LEMMA FailedStands ==
  ASSUME NEW lg, NEW lv, NEW an, NEW k, IsCall(k), k.pc = "leave", k.req \in Requests,
         k.depth \in 0..Top(k), k.write = NoWrite, NEW e, k.result = Error(e)
  PROVE  CallOK(lg, lv, an, k) /\ ~ToCount(k)
<1>1. LeavingOK(lg, lv, an, k)
  BY DEF LeavingOK, FailedOK
<1>2. ~ToCount(k)
  BY ResultForms DEF ToCount
<1> QED
  BY <1>1, <1>2 DEF CallOK

\* A call that is being handled may fail, ...
LEMMA FailOK ==
  ASSUME NEW lg, NEW lv, NEW an, NEW k, CallOK(lg, lv, an, k), k.pc \in {"handle", "insert", "load"},
         NEW e
  PROVE  LET f == TheCall("leave", k.req, k.depth, k.write, k.seen, Error(e))
         IN  CallOK(lg, lv, an, f) /\ ~ToCount(f) /\ f.write = NoWrite
<1> DEFINE f == TheCall("leave", k.req, k.depth, k.write, k.seen, Error(e))
<1>1. /\ f.pc = "leave" /\ f.req = k.req /\ f.depth = k.depth /\ f.write = k.write
      /\ f.result = Error(e) /\ IsCall(f)
  BY CallFields
<1>2. k.req \in Requests /\ k.depth = Top(k) /\ k.write = NoWrite
  BY DEF CallOK
<1> HIDE DEF f
<1>3. Top(f) = Top(k) /\ Top(k) \in 1..3
  BY <1>1, <1>2, TopIs DEF Top
<1>4. f.depth \in 0..Top(f)
  BY <1>1, <1>2, <1>3
<1>5. CallOK(lg, lv, an, f) /\ ~ToCount(f)
  BY <1>1, <1>2, <1>4, FailedStands
<1> QED
  BY <1>1, <1>2, <1>5 DEF f

\* ... succeed with something to write, ...
LEMMA WriteOK ==
  ASSUME NEW lg, NEW lv, NEW an, NEW k, CallOK(lg, lv, an, k), k.pc \in {"handle", "insert", "load"},
         NEW w, NEW r, NEW s, s = TheCall("leave", k.req, k.depth, w, k.seen, r), PendingOK(lg, lv, s)
  PROVE  CallOK(lg, lv, an, s) /\ ~ToCount(s)
<1>1. /\ s.pc = "leave" /\ s.req = k.req /\ s.depth = k.depth /\ s.write = w /\ s.result = r /\ IsCall(s)
  BY CallFields
<1>2. k.req \in Requests /\ k.depth = Top(k)
  BY DEF CallOK
<1>0. Top(s) = Top(k)
  BY <1>1 DEF Top
<1>3. Top(s) = Top(k) /\ Top(k) \in 1..3 /\ (s.req.op = "append" => s.depth = 3)
  BY <1>0, <1>1, <1>2, TopIs
<1>4. LeavingOK(lg, lv, an, s)
  BY <1>1, <1>2, <1>3 DEF LeavingOK
<1>5. ~ToCount(s)
  BY <1>3 DEF ToCount
<1> QED
  BY <1>1, <1>2, <1>4, <1>5 DEF CallOK

\* ... or with a proof.
LEMMA ServeOK ==
  ASSUME NEW lg, NEW lv, NEW an, NEW k, CallOK(lg, lv, an, k), k.pc \in {"handle", "insert", "load"},
         NEW r, NEW s, s = TheCall("leave", k.req, k.depth, NoWrite, k.seen, r), ServedOK(lg, lv, s)
  PROVE  CallOK(lg, lv, an, s) /\ ~ToCount(s)
<1>1. /\ s.pc = "leave" /\ s.req = k.req /\ s.depth = k.depth /\ s.write = NoWrite /\ s.result = r /\ IsCall(s)
  BY CallFields
<1>2. k.req \in Requests /\ k.depth = Top(k)
  BY DEF CallOK
<1>0. Top(s) = Top(k)
  BY <1>1 DEF Top
<1>3. Top(s) = Top(k) /\ Top(k) \in 1..3 /\ (s.req.op = "append" => s.depth = 3)
  BY <1>0, <1>1, <1>2, TopIs
<1>4. LeavingOK(lg, lv, an, s)
  BY <1>1, <1>2, <1>3 DEF LeavingOK
<1>5. ~ToCount(s)
  BY <1>3 DEF ToCount
<1> QED
  BY <1>1, <1>2, <1>4, <1>5 DEF CallOK

LEMMA ClearNone ==
  ASSUME NEW calls, NEW c, NEW k, k.write.kind # "leaf"
  PROVE  Clear(calls, c, k)
BY DEF Clear

LEMMA InvAt ==
  ASSUME ApiInv, NEW c \in Client
  PROVE  /\ InvOf(logs, leaves, anchored, heads, call, count)
         /\ CallOK(logs, leaves, anchored, call[c]) /\ IsCall(call[c])
         /\ TablesOK(logs, leaves, anchored, heads) /\ call = [d \in Client |-> call[d]]
BY DEF ApiInv, InvOf, CallOK

\* A step of c to k that leaves all else alone.
LEMMA QuietStep ==
  ASSUME ApiInv, NEW c \in Client, UNCHANGED <<Store, heads, count>>,
         call' = Put(call, c, call'[c]), CallOK(logs, leaves, anchored, call'[c]),
         Clear(call, c, call'[c]), ~ToCount(call'[c])
  PROVE  ApiInv'
<1>1. InvOf(logs, leaves, anchored, heads, call, count)
  BY DEF ApiInv
<1>2. InvOf(logs, leaves, anchored, heads, call', count)
  BY <1>1, QuietSteps
<1> QED
  BY <1>2 DEF ApiInv, Store

\* The call of c after a step to k.
LEMMA GoesTo ==
  ASSUME NEW calls, calls = [d \in Client |-> calls[d]], NEW c \in Client, NEW k, NEW calls2,
         calls2 = Put(calls, c, k)
  PROVE  calls2[c] = k /\ calls2 = Put(calls, c, calls2[c])
BY DEF Put

LEMMA FailStep ==
  ASSUME ApiInv, NEW c \in Client, call[c].pc \in {"handle", "insert", "load"}, NEW e, Fails(c, e),
         UNCHANGED <<Store, heads, count>>
  PROVE  ApiInv'
<1> DEFINE k == call[c]
           f == TheCall("leave", k.req, k.depth, k.write, k.seen, Error(e))
<1>1. CallOK(logs, leaves, anchored, k) /\ IsCall(k) /\ call = [d \in Client |-> call[d]]
  BY InvAt
<1> HIDE DEF k
<1>0. Stopped(k, "leave", Error(e)) = f
  BY <1>1, Stops
<1>2. call' = Put(call, c, Stopped(k, "leave", Error(e)))
  BY DEF Fails, Goes, Stopped, Put, k
<1>3. CallOK(logs, leaves, anchored, f) /\ ~ToCount(f) /\ f.write = NoWrite
  BY <1>1, FailOK DEF k
<1> HIDE DEF f
<1>4. Clear(call, c, f)
  BY <1>3, ClearNone, NoWriteForm
<1>5. call'[c] = f /\ call' = Put(call, c, call'[c])
  BY <1>0, <1>1, <1>2, GoesTo
<1> QED
  BY <1>3, <1>4, <1>5, QuietStep

-----------------------------------------------------------------------------
(* The actions that leave the tables alone *)

LEMMA ReceiveStep ==
  ASSUME ApiInv, NEW c \in Client, NEW req \in Requests, Receive(c, req)
  PROVE  ApiInv'
<1> DEFINE p == Pipeline(req.op)
<1>0. UNCHANGED <<Store, heads, count>>
  BY DEF Receive
<1>1. call = [d \in Client |-> call[d]]
  BY InvAt
<1>2. NoCall = TheCall("idle", NoRequest, 0, NoWrite, 0, NoRequest)
  BY DEF NoCall, TheCall
<1>3. /\ IsCall(NoCall) /\ NoCall.write = NoWrite /\ NoCall.seen = 0 /\ NoCall.result = NoRequest
  BY <1>2, CallFields
<1>4. CASE Goes(c, [NoCall EXCEPT !.pc = "handle", !.req = req, !.depth = Len(p)])
  <2> DEFINE k == TheCall("handle", req, Len(p), NoWrite, 0, NoRequest)
  <2>1. Started(NoCall, "handle", req, Len(p)) = k
    BY <1>3, Starts
  <2>2. CallOK(logs, leaves, anchored, k) /\ ~ToCount(k) /\ k.write = NoWrite
    BY StartOK
  <2>3. call' = Put(call, c, Started(NoCall, "handle", req, Len(p)))
    BY <1>4 DEF Goes, Put, Started
  <2> HIDE DEF k
  <2>4. call'[c] = k /\ call' = Put(call, c, call'[c])
    BY <1>1, <2>1, <2>3, GoesTo
  <2>5. Clear(call, c, k)
    BY <2>2, ClearNone, NoWriteForm
  <2> QED
    BY <1>0, <2>2, <2>4, <2>5, QuietStep
<1>5. ASSUME NEW d \in DOMAIN p,
             Goes(c, [NoCall EXCEPT !.pc = "leave", !.req = req, !.depth = d - 1, !.result = Error("Storage")])
      PROVE  ApiInv'
  <2> DEFINE k == TheCall("leave", req, d - 1, NoWrite, 0, Error("Storage"))
  <2>1. Refused(NoCall, "leave", req, d - 1, Error("Storage")) = k
    BY <1>3, StartsBadly
  <2>2. /\ k.pc = "leave" /\ k.req = req /\ k.depth = d - 1 /\ k.write = NoWrite
        /\ k.result = Error("Storage") /\ IsCall(k)
    BY CallFields
  <2>3. call' = Put(call, c, Refused(NoCall, "leave", req, d - 1, Error("Storage")))
    BY <1>5 DEF Goes, Put, Refused
  <2> HIDE DEF k
  <2>4. call'[c] = k /\ call' = Put(call, c, call'[c])
    BY <1>1, <2>1, <2>3, GoesTo
  <2>5. Clear(call, c, k)
    BY <2>2, ClearNone, NoWriteForm
  <2>6. k.depth \in 0..Top(k)
    <3>1. DOMAIN p = 1..Len(p) /\ Len(p) \in Nat
      <4>1. p \in {<<"tracing", "metrics", "transaction">>, <<"tracing", "transaction">>, <<"tracing">>}
        BY DEF Pipeline
      <4> QED
        BY <4>1
    <3>2. Top(k) = Len(p)
      BY <2>2 DEF Top
    <3> HIDE DEF p
    <3> QED
      BY <1>5, <2>2, <3>1, <3>2
  <2>8. k.req \in Requests
    BY <2>2
  <2>7. CallOK(logs, leaves, anchored, k) /\ ~ToCount(k)
    BY <2>2, <2>6, <2>8, FailedStands
  <2> QED
    BY <1>0, <2>4, <2>5, <2>7, QuietStep
<1>6. \/ Goes(c, [NoCall EXCEPT !.pc = "handle", !.req = req, !.depth = Len(p)])
      \/ \E d \in DOMAIN p : Goes(c, [NoCall EXCEPT !.pc = "leave", !.req = req, !.depth = d - 1,
                                                   !.result = Error("Storage")])
  BY DEF Receive
<1> QED
  BY <1>4, <1>5, <1>6

LEMMA CreateStep ==
  ASSUME ApiInv, NEW c \in Client, HandleCreate(c)
  PROVE  ApiInv'
<1> DEFINE k == call[c]
<1>1. /\ CallOK(logs, leaves, anchored, k) /\ IsCall(k) /\ call = [d \in Client |-> call[d]]
      /\ k.pc = "handle" /\ k.req.op = "create"
  BY InvAt DEF HandleCreate, Handling
<1>2. PICK l \in LogIds : Succeeds(c, [kind |-> "log", log |-> l], l)
  BY DEF HandleCreate
<1> DEFINE s == TheCall("leave", k.req, k.depth, LogWrite(l), k.seen, Ok(l))
<1> HIDE DEF k
<1>3. Written(k, "leave", LogWrite(l), Ok(l)) = s
  BY <1>1, Writes
<1>4. call' = Put(call, c, Written(k, "leave", LogWrite(l), Ok(l)))
  BY <1>2 DEF Succeeds, Goes, Put, Written, LogWrite, Ok, k
<1>5. s.req = k.req /\ s.write = LogWrite(l) /\ s.result = Ok(l)
  BY CallFields
<1> HIDE DEF s
<1>6. PendingOK(logs, leaves, s)
  BY <1>1, <1>5 DEF PendingOK, PendingCreate
<1>7. CallOK(logs, leaves, anchored, s) /\ ~ToCount(s)
  BY <1>1, <1>6, WriteOK DEF s
<1>8. Clear(call, c, s)
  BY <1>5, ClearNone, LogWriteForm
<1>9. call'[c] = s /\ call' = Put(call, c, call'[c])
  BY <1>1, <1>3, <1>4, GoesTo
<1> QED
  BY <1>7, <1>8, <1>9, QuietStep DEF HandleCreate

LEMMA AppendStep ==
  ASSUME ApiInv, NEW c \in Client, HandleAppend(c)
  PROVE  ApiInv'
<1> DEFINE k == call[c]
           l == k.req.log
<1>1. /\ CallOK(logs, leaves, anchored, k) /\ IsCall(k) /\ call = [d \in Client |-> call[d]]
      /\ k.pc = "handle" /\ k.req.op = "append" /\ TablesOK(logs, leaves, anchored, heads)
  BY InvAt DEF HandleAppend, Handling
<1>2. CASE l \notin DOMAIN logs
  BY <1>1, <1>2, FailStep DEF HandleAppend
<1>3. CASE l \in DOMAIN logs
  <2> DEFINE n == Len(leaves[l])
             s == TheCall("insert", k.req, k.depth, k.write, n, k.result)
  <2>1. Goes(c, [k EXCEPT !.pc = "insert", !.seen = n])
    BY <1>3 DEF HandleAppend
  <2>2. n \in Nat
    BY <1>1, <1>3 DEF TablesOK
  <2> HIDE DEF k, n
  <2>3. ToSeen(k, "insert", n) = s
    BY <1>1, GoesOnSeen
  <2>4. call' = Put(call, c, ToSeen(k, "insert", n))
    BY <2>1 DEF Goes, Put, ToSeen
  <2>5. /\ s.pc = "insert" /\ s.req = k.req /\ s.depth = k.depth /\ s.write = k.write /\ s.seen = n
        /\ IsCall(s)
    BY CallFields
  <2> HIDE DEF s
  <2>6. k.req \in Requests /\ k.depth = Top(k) /\ k.write = NoWrite
    BY <1>1 DEF CallOK
  <2>7. CallOK(logs, leaves, anchored, s) /\ ~ToCount(s)
    BY <1>1, <1>3, <2>2, <2>5, <2>6 DEF CallOK, Top, ToCount, n
  <2>8. Clear(call, c, s)
    BY <2>5, <2>6, ClearNone, NoWriteForm
  <2>9. call'[c] = s /\ call' = Put(call, c, call'[c])
    BY <1>1, <2>3, <2>4, GoesTo
  <2> QED
    BY <2>7, <2>8, <2>9, QuietStep DEF HandleAppend
<1> QED
  BY <1>2, <1>3

LEMMA InsertStep ==
  ASSUME ApiInv, NEW c \in Client, InsertLeaf(c)
  PROVE  ApiInv'
<1> DEFINE k == call[c]
           l == k.req.log
           n == Len(leaves[l])
<1>1. /\ CallOK(logs, leaves, anchored, k) /\ IsCall(k) /\ call = [d \in Client |-> call[d]]
      /\ k.pc = "insert" /\ k.req.op = "append" /\ TablesOK(logs, leaves, anchored, heads)
  BY InvAt DEF InsertLeaf, Handling
<1>2. l \in DOMAIN logs /\ k.seen \in 0..n
  BY <1>1 DEF CallOK
<1>3. CASE k.seen < n
  BY <1>1, <1>3, FailStep DEF InsertLeaf
<1>4. CASE ~(k.seen < n)
  <2>1. n \in Nat
    BY <1>1, <1>2 DEF TablesOK
  <2>2. k.seen = n
    <3> HIDE DEF n, k
    <3> QED
      BY <1>2, <1>4, <2>1
  <2> DEFINE w == LeafWrite(l, n, k.req.record)
             s == TheCall("leave", k.req, k.depth, w, k.seen, Ok(n))
  <2>3. Succeeds(c, [kind |-> "leaf", log |-> l, at |-> n, leaf |-> LeafHash(k.req.record)], n)
    BY <1>4, <2>2 DEF InsertLeaf
  <2> HIDE DEF k, n
  <2>4. Written(k, "leave", w, Ok(n)) = s
    BY <1>1, Writes
  <2>5. call' = Put(call, c, Written(k, "leave", w, Ok(n)))
    BY <2>3 DEF Succeeds, Goes, Put, Written, LeafWrite, Ok, k
  <2>6. s.req = k.req /\ s.write = w /\ s.result = Ok(n)
    BY CallFields
  <2> HIDE DEF s
  <2>7. PendingOK(logs, leaves, s)
    BY <1>1, <1>2, <2>6 DEF PendingOK, PendingAppend, n
  <2>8. CallOK(logs, leaves, anchored, s) /\ ~ToCount(s)
    BY <1>1, <2>7, WriteOK DEF s
  <2>9. Clear(call, c, s)
    <3>1. s.write.kind = "leaf" /\ s.write.log = l
      BY <2>6, LeafWriteForm
    <3>2. ASSUME NEW d \in Client \ {c}, call[d].write.kind = "leaf", call[d].write.log = l
          PROVE  FALSE
      <4>1. CallOK(logs, leaves, anchored, call[d])
        BY InvAt
      <4>2. PendingAppend(logs, leaves, call[d])
        BY <3>2, <4>1, LeafWrites
      <4>3. call[d].write.at = Len(leaves[call[d].write.log])
        BY <4>2, LeafWriteForm DEF PendingAppend
      <4>4. call[d].write.at = n
        BY <3>2, <4>3 DEF n
      <4>5. <<call[d].write.log, call[d].write.at>> # <<k.req.log, k.seen>>
        BY <3>2 DEF InsertLeaf, Others, k
      <4> QED
        BY <2>2, <3>2, <4>4, <4>5
    <3> QED
      BY <3>1, <3>2 DEF Clear
  <2>10. call'[c] = s /\ call' = Put(call, c, call'[c])
    BY <1>1, <2>4, <2>5, GoesTo
  <2> QED
    BY <2>8, <2>9, <2>10, QuietStep DEF InsertLeaf
<1> QED
  BY <1>3, <1>4

LEMMA FindStep ==
  ASSUME ApiInv, NEW c \in Client, FindLog(c)
  PROVE  ApiInv'
<1> DEFINE k == call[c]
<1>1. /\ CallOK(logs, leaves, anchored, k) /\ IsCall(k) /\ call = [d \in Client |-> call[d]]
      /\ k.pc = "handle" /\ k.req.op \in {"checkpoint", "inclusion", "consistency"}
  BY InvAt DEF FindLog, Handling
<1>2. CASE k.req.log \notin DOMAIN logs
  BY <1>1, <1>2, FailStep DEF FindLog
<1>3. CASE k.req.log \in DOMAIN logs
  <2> DEFINE s == TheCall("load", k.req, k.depth, k.write, k.seen, k.result)
  <2>1. call' = Put(call, c, To(k, "load"))
    BY <1>3 DEF FindLog, Goes, Put, To
  <2> HIDE DEF k
  <2>2. To(k, "load") = s
    BY <1>1, GoesOn
  <2>3. s.pc = "load" /\ s.req = k.req /\ s.depth = k.depth /\ s.write = k.write /\ IsCall(s)
    BY CallFields
  <2> HIDE DEF s
  <2>4. k.req \in Requests /\ k.depth = Top(k) /\ k.write = NoWrite
    BY <1>1 DEF CallOK
  <2>5. CallOK(logs, leaves, anchored, s) /\ ~ToCount(s)
    BY <1>1, <1>3, <2>3, <2>4 DEF CallOK, Top, ToCount
  <2>6. Clear(call, c, s)
    BY <2>3, <2>4, ClearNone, NoWriteForm
  <2>7. call'[c] = s /\ call' = Put(call, c, call'[c])
    BY <1>1, <2>1, <2>2, GoesTo
  <2> QED
    BY <2>5, <2>6, <2>7, QuietStep DEF FindLog
<1> QED
  BY <1>2, <1>3

\* The head that is signed is the one of all the leaves there are.
LEMMA HeadForm ==
  ASSUME TablesOK(logs, leaves, anchored, heads), NEW l \in DOMAIN logs
  PROVE  HeadOf(l) = [size |-> Len(leaves[l]), root |-> RootAt(leaves, l, Len(leaves[l]))]
<1>1. logs[l] = HashCode["Sha256"]
  BY DEF TablesOK
<1>2. (CHOOSE a \in FromCode(HashCode, logs[l]) : TRUE) = Algo
  BY <1>1 DEF Algo
<1> QED
  BY <1>2 DEF HeadOf, RootAt, Root

LEMMA IssueStep ==
  ASSUME ApiInv, NEW c \in Client, LoadAndIssue(c)
  PROVE  ApiInv'
<1> DEFINE k == call[c]
           l == k.req.log
           n == Len(leaves[l])
<1>1. /\ CallOK(logs, leaves, anchored, k) /\ IsCall(k) /\ call = [d \in Client |-> call[d]]
      /\ k.pc = "load" /\ k.req.op = "checkpoint" /\ TablesOK(logs, leaves, anchored, heads)
  BY InvAt DEF LoadAndIssue, Handling
<1>2. l \in DOMAIN logs
  BY <1>1 DEF CallOK
<1>3. CASE k.req.key \notin StoreKeys
  BY <1>1, <1>3, FailStep DEF LoadAndIssue
<1>4. CASE k.req.key \in StoreKeys
  <2>1. k.req.key = DefaultKeyId
    BY <1>4 DEF StoreKeys
  <2>2. n \in Nat
    BY <1>1, <1>2 DEF TablesOK
  <2> DEFINE h == [size |-> n, root |-> RootAt(leaves, l, n)]
             w == HeadWrite(leaves, l, n)
             s == TheCall("leave", k.req, k.depth, w, k.seen, Ok(SignedAt(leaves, l, n)))
  <2>3. HeadOf(l) = h /\ h.size = n /\ h.root = RootAt(leaves, l, n)
    BY <1>1, <1>2, HeadForm
  <2>4. Succeeds(c, [kind |-> "head", log |-> l, size |-> HeadOf(l).size, root |-> HeadOf(l).root],
                 SignHead(HeadOf(l), k.req.key))
    BY <1>4 DEF LoadAndIssue
  <2>5. /\ [kind |-> "head", log |-> l, size |-> HeadOf(l).size, root |-> HeadOf(l).root] = w
        /\ SignHead(HeadOf(l), k.req.key) = SignedAt(leaves, l, n)
    <3> HIDE DEF l, n
    <3> QED
      BY <2>1, <2>3 DEF HeadWrite, SignedAt
  <2> HIDE DEF l, n, w
  <2>6. Succeeds(c, w, SignedAt(leaves, l, n))
    BY <2>4, <2>5
  <2>7. call' = Put(call, c, Written(k, "leave", w, Ok(SignedAt(leaves, l, n))))
    BY <2>6 DEF Succeeds, Goes, Put, Written, Ok
  <2> HIDE DEF k
  <2>8. Written(k, "leave", w, Ok(SignedAt(leaves, l, n))) = s
    BY <1>1, Writes
  <2>9. s.req = k.req /\ s.write = w /\ s.result = Ok(SignedAt(leaves, l, n))
    BY CallFields
  <2> HIDE DEF s
  <2>10. PendingOK(logs, leaves, s)
    <3>1. n \in 0..Len(leaves[l]) /\ l = s.req.log
      BY <2>2, <2>9 DEF n, l
    <3>2. PendingHead(logs, leaves, s)
      BY <1>2, <2>9, <3>1 DEF PendingHead, w
    <3> QED
      BY <1>1, <2>9, <3>2 DEF PendingOK
  <2>11. CallOK(logs, leaves, anchored, s) /\ ~ToCount(s)
    BY <1>1, <2>10, WriteOK DEF s
  <2>12. Clear(call, c, s)
    BY <2>9, ClearNone, HeadWriteForm DEF w
  <2>13. call'[c] = s /\ call' = Put(call, c, call'[c])
    BY <1>1, <2>7, <2>8, GoesTo
  <2> QED
    BY <2>11, <2>12, <2>13, QuietStep DEF LoadAndIssue
<1> QED
  BY <1>3, <1>4

LEMMA WholeIsPrefix ==
  ASSUME NEW X, NEW s \in Seq(X)
  PROVE  SubSeq(s, 1, Len(s)) = s /\ Len(s) \in Nat
OBVIOUS

LEMMA InclusionStep ==
  ASSUME ApiInv, NEW c \in Client, LoadAndProveInclusion(c)
  PROVE  ApiInv'
<1> DEFINE k == call[c]
           l == k.req.log
           read == leaves[l]
           at == k.req.at
<1>1. /\ CallOK(logs, leaves, anchored, k) /\ IsCall(k) /\ call = [d \in Client |-> call[d]]
      /\ k.pc = "load" /\ k.req.op = "inclusion" /\ TablesOK(logs, leaves, anchored, heads)
  BY InvAt DEF LoadAndProveInclusion, Handling
<1>2. l \in DOMAIN logs /\ k.req \in Requests
  BY <1>1 DEF CallOK
<1>3. read \in Seq(Hashes) /\ at \in Nat
  BY <1>1, <1>2, RequestForms, ApiAssumption DEF TablesOK
<1>4. CASE Inclusion(read, at) = NoProof
  BY <1>1, <1>4, FailStep DEF LoadAndProveInclusion
<1>5. CASE Inclusion(read, at) # NoProof
  <2> DEFINE v == Ok(InclusionOf(read, at))
             s == TheCall("leave", k.req, k.depth, NoWrite, k.seen, v)
  <2>1. call' = Put(call, c, Written(k, "leave", NoWrite, v))
    BY <1>5 DEF LoadAndProveInclusion, Succeeds, Goes, Put, Written, Ok, InclusionOf
  <2> HIDE DEF read, at, v
  <2>2. Len(read) \in Nat /\ SubSeq(read, 1, Len(read)) = read
    BY <1>3, WholeIsPrefix
  <2>3. at < Len(read)
    BY <1>3, <1>5, <2>2 DEF Inclusion
  <2> HIDE DEF k
  <2>4. Written(k, "leave", NoWrite, v) = s
    BY <1>1, Writes
  <2>5. s.req = k.req /\ s.write = NoWrite /\ s.result = v
    BY CallFields
  <2> HIDE DEF s
  <2>6. ServedOK(logs, leaves, s)
    <3>1. s.req.log = l /\ s.req.at = at /\ leaves[l] = read /\ s.req.op = "inclusion"
      BY <1>1, <2>5 DEF read, at
    <3> HIDE DEF l
    <3>2. Len(read) \in 0..Len(leaves[l])
      BY <2>2, <3>1
    <3>3. s.result = Ok(InclusionOf(SubSeq(leaves[l], 1, Len(read)), at))
      BY <2>2, <2>5, <3>1 DEF v
    <3>4. ServedInclusion(logs, leaves, s)
      BY <1>2, <2>3, <3>1, <3>2, <3>3 DEF ServedInclusion
    <3> QED
      BY <3>1, <3>4 DEF ServedOK
  <2>7. CallOK(logs, leaves, anchored, s) /\ ~ToCount(s)
    BY <1>1, <2>6, ServeOK DEF s
  <2>8. Clear(call, c, s)
    BY <2>5, ClearNone, NoWriteForm
  <2>9. call'[c] = s /\ call' = Put(call, c, call'[c])
    BY <1>1, <2>1, <2>4, GoesTo
  <2> QED
    BY <2>7, <2>8, <2>9, QuietStep DEF LoadAndProveInclusion
<1> QED
  BY <1>4, <1>5

LEMMA ConsistencyStep ==
  ASSUME ApiInv, NEW c \in Client, LoadAndProveConsistency(c)
  PROVE  ApiInv'
<1> DEFINE k == call[c]
           l == k.req.log
           read == leaves[l]
           at == k.req.at
<1>1. /\ CallOK(logs, leaves, anchored, k) /\ IsCall(k) /\ call = [d \in Client |-> call[d]]
      /\ k.pc = "load" /\ k.req.op = "consistency" /\ TablesOK(logs, leaves, anchored, heads)
  BY InvAt DEF LoadAndProveConsistency, Handling
<1>2. l \in DOMAIN logs /\ k.req \in Requests
  BY <1>1 DEF CallOK
<1>3. read \in Seq(Hashes) /\ at \in Nat
  BY <1>1, <1>2, RequestForms, ApiAssumption DEF TablesOK
<1>4. CASE Consistency(read, at) = NoProof
  BY <1>1, <1>4, FailStep DEF LoadAndProveConsistency
<1>5. CASE Consistency(read, at) # NoProof
  <2> DEFINE v == Ok(ConsistencyOf(read, at))
             s == TheCall("leave", k.req, k.depth, NoWrite, k.seen, v)
  <2>1. call' = Put(call, c, Written(k, "leave", NoWrite, v))
    BY <1>5 DEF LoadAndProveConsistency, Succeeds, Goes, Put, Written, Ok, ConsistencyOf
  <2> HIDE DEF read, at, v
  <2>2. Len(read) \in Nat /\ SubSeq(read, 1, Len(read)) = read
    BY <1>3, WholeIsPrefix
  <2>3. at \in 1..Len(read)
    <3>1. ~(at = 0 \/ at > Len(read))
      BY <1>5 DEF Consistency
    <3> QED
      BY <1>3, <2>2, <3>1
  <2> HIDE DEF k
  <2>4. Written(k, "leave", NoWrite, v) = s
    BY <1>1, Writes
  <2>5. s.req = k.req /\ s.write = NoWrite /\ s.result = v
    BY CallFields
  <2> HIDE DEF s
  <2>6. ServedOK(logs, leaves, s)
    <3>1. s.req.log = l /\ s.req.at = at /\ leaves[l] = read /\ s.req.op = "consistency"
      BY <1>1, <2>5 DEF read, at
    <3> HIDE DEF l
    <3>2. Len(read) \in 0..Len(leaves[l])
      BY <2>2, <3>1
    <3>3. s.result = Ok(ConsistencyOf(SubSeq(leaves[l], 1, Len(read)), at))
      BY <2>2, <2>5, <3>1 DEF v
    <3>4. ServedConsistency(logs, leaves, s)
      BY <1>2, <2>3, <3>1, <3>2, <3>3 DEF ServedConsistency
    <3> QED
      BY <3>1, <3>4 DEF ServedOK
  <2>7. CallOK(logs, leaves, anchored, s) /\ ~ToCount(s)
    BY <1>1, <2>6, ServeOK DEF s
  <2>8. Clear(call, c, s)
    BY <2>5, ClearNone, NoWriteForm
  <2>9. call'[c] = s /\ call' = Put(call, c, call'[c])
    BY <1>1, <2>1, <2>4, GoesTo
  <2> QED
    BY <2>7, <2>8, <2>9, QuietStep DEF LoadAndProveConsistency
<1> QED
  BY <1>4, <1>5

LEMMA StatementFailsStep ==
  ASSUME ApiInv, NEW c \in Client, StatementFails(c)
  PROVE  ApiInv'
BY FailStep DEF StatementFails

\* A result that is an error comes with nothing to write.
LEMMA ErrorForm ==
  ASSUME NEW lg, NEW lv, NEW an, NEW k, CallOK(lg, lv, an, k), k.pc = "leave", IsError(k.result)
  PROVE  k.write = NoWrite /\ \E e : k.result = Error(e)
<1>1. ~PendingOK(lg, lv, k)
  BY ResultForms DEF PendingOK, PendingCreate, PendingAppend, PendingHead
<1>2. ~CommittedOK(lg, lv, an, k)
  BY ResultForms DEF CommittedOK, CommittedCreate, CommittedAppend, CommittedHead
<1>3. ~ServedOK(lg, lv, k)
  BY ResultForms DEF ServedOK, ServedInclusion, ServedConsistency
<1> QED
  BY <1>1, <1>2, <1>3 DEF CallOK, LeavingOK, FailedOK

LEMMA RollbackStep ==
  ASSUME ApiInv, NEW c \in Client, Rollback(c)
  PROVE  ApiInv'
<1> DEFINE k == call[c]
           s == TheCall(k.pc, k.req, k.depth - 1, NoWrite, k.seen, k.result)
<1>1. /\ CallOK(logs, leaves, anchored, k) /\ IsCall(k) /\ call = [d \in Client |-> call[d]]
      /\ k.pc = "leave" /\ k.depth > 0 /\ IsError(k.result)
  BY InvAt DEF Rollback, Leaving
<1>2. call' = Put(call, c, Done(k, NoWrite))
  BY DEF Rollback, Goes, Put, Done
<1> HIDE DEF k
<1>3. PICK e : k.result = Error(e)
  BY <1>1, ErrorForm
<1>4. Done(k, NoWrite) = s
  BY <1>1, Commits
<1>5. /\ s.pc = "leave" /\ s.req = k.req /\ s.depth = k.depth - 1 /\ s.write = NoWrite
      /\ s.result = Error(e) /\ IsCall(s)
  BY <1>1, <1>3, CallFields
<1> HIDE DEF s
<1>6. k.req \in Requests /\ k.depth \in 0..Top(k)
  BY <1>1 DEF CallOK, LeavingOK
<1>7. Top(s) = Top(k) /\ Top(k) \in 1..3
  BY <1>5, <1>6, TopIs DEF Top
<1>8. s.depth \in 0..Top(s)
  BY <1>1, <1>5, <1>6, <1>7
<1>9. CallOK(logs, leaves, anchored, s) /\ ~ToCount(s)
  BY <1>5, <1>6, <1>8, FailedStands
<1>10. Clear(call, c, s)
  BY <1>5, ClearNone, NoWriteForm
<1>11. call'[c] = s /\ call' = Put(call, c, call'[c])
  BY <1>1, <1>2, <1>4, GoesTo
<1> QED
  BY <1>9, <1>10, <1>11, QuietStep DEF Rollback
-----------------------------------------------------------------------------
(* The commit *)

\* A call that leaves its transaction without an error has something to write.
LEMMA PendingForm ==
  ASSUME NEW lg, NEW lv, NEW an, NEW k, CallOK(lg, lv, an, k), k.pc = "leave", k.depth > 0,
         Pipeline(k.req.op)[k.depth] = "transaction", ~IsError(k.result)
  PROVE  k.depth = Top(k) /\ PendingOK(lg, lv, k) /\ k.req \in Requests
<1>1. LeavingOK(lg, lv, an, k) /\ k.req \in Requests /\ k.depth \in 0..Top(k)
  BY DEF CallOK, LeavingOK
<1>2. /\ k.req.op \in {"create", "append", "checkpoint", "inclusion", "consistency"}
      /\ Top(k) \in 1..3
  BY <1>1, RequestForms, TopIs
<1>3. k.depth = Top(k) /\ k.req.op \notin {"inclusion", "consistency"}
  <2>1. CASE k.req.op = "append"
    <3>1. Top(k) = 3
      BY <1>1, <2>1, TopIs
    <3>2. k.depth = 1 \/ k.depth = 2 \/ k.depth = 3
      BY <1>1, <3>1
    <3> QED
      BY <2>1, <3>1, <3>2, PipelineForms
  <2>2. CASE k.req.op \in {"create", "checkpoint"}
    <3>1. Top(k) = 2
      BY <1>1, <2>2, TopIs
    <3>2. k.depth = 1 \/ k.depth = 2
      BY <1>1, <3>1
    <3> QED
      BY <2>2, <3>1, <3>2, PipelineForms
  <2>3. CASE k.req.op \in {"inclusion", "consistency"}
    <3>1. Top(k) = 1
      BY <1>1, <2>3, TopIs
    <3>2. k.depth = 1
      BY <1>1, <3>1
    <3> QED
      BY <2>3, <3>2, PipelineForms
  <2> QED
    BY <1>2, <2>1, <2>2, <2>3
<1>4. ~FailedOK(k)
  BY ResultForms DEF FailedOK
<1> QED
  BY <1>1, <1>3, <1>4 DEF LeavingOK, ServedOK

\* What the tables are after a write.
LogsAfter(lg, w) ==
  IF w.kind = "log"
  THEN [l \in DOMAIN lg \cup {w.log} |-> IF l = w.log THEN HashCode["Sha256"] ELSE lg[l]]
  ELSE lg
LeavesAfter(lv, w) == IF w.kind = "leaf" THEN [lv EXCEPT ![w.log] = Append(@, w.leaf)] ELSE lv
AnchoredAfter(an, w) ==
  IF w.kind = "head" /\ ~\E a \in an : a.log = w.log /\ a.size = w.size
  THEN an \cup {[log |-> w.log, size |-> w.size, root |-> w.root]} ELSE an

\* The commit of a new log, ...
LEMMA LogCommits ==
  ASSUME NEW lg, NEW lv, NEW an, NEW hd, TablesOK(lg, lv, an, hd), NEW x \in LogIds, NEW w, w = LogWrite(x)
  PROVE  /\ TablesOK(LogsAfter(lg, w), LeavesAfter(lv, w), AnchoredAfter(an, w), hd)
         /\ Grown(lg, lv, an, LogsAfter(lg, w), LeavesAfter(lv, w), AnchoredAfter(an, w))
         /\ x \in DOMAIN LogsAfter(lg, w) /\ LeavesAfter(lv, w) = lv
<1> DEFINE lg2 == LogsAfter(lg, w)
<1>1. w.kind = "log" /\ w.log = x
  BY LogWriteForm
<1>2. LeavesAfter(lv, w) = lv /\ AnchoredAfter(an, w) = an
  BY <1>1 DEF LeavesAfter, AnchoredAfter
<1>3. /\ DOMAIN lg2 = DOMAIN lg \cup {x}
      /\ \A l \in DOMAIN lg2 : lg2[l] = IF l = x THEN HashCode["Sha256"] ELSE lg[l]
  BY <1>1 DEF LogsAfter
<1> HIDE DEF lg2
<1>4. DOMAIN lg2 \subseteq LogIds /\ \A l \in DOMAIN lg2 : lg2[l] = HashCode["Sha256"]
  BY <1>3 DEF TablesOK
<1>5. Grown(lg, lv, an, lg2, lv, an)
  BY <1>3, <1>4 DEF TablesOK, Grown
<1>6. TablesOK(lg2, lv, an, hd)
  <2>1. lv \in [LogIds -> Seq(Hashes)]
    BY DEF TablesOK
  <2>2. /\ \A y \in an : \E l \in DOMAIN lg2 : \E n \in 0..Len(lv[l]) : y = Anchor(lv, l, n)
        /\ \A y \in hd : \E l \in DOMAIN lg2 : \E n \in 0..Len(lv[l]) : y = HandedOut(lv, l, n)
    BY <1>5, TablesKeep
  <2> QED
    BY <1>4, <1>5, <2>1, <2>2 DEF TablesOK
<1> QED
  BY <1>2, <1>3, <1>5, <1>6 DEF lg2

\* What the commit of a leaf comes to.
LeafCommitted(lg, lv, an, hd, l, record, w) ==
  /\ TablesOK(LogsAfter(lg, w), LeavesAfter(lv, w), AnchoredAfter(an, w), hd)
  /\ Grown(lg, lv, an, LogsAfter(lg, w), LeavesAfter(lv, w), AnchoredAfter(an, w))
  /\ Len(LeavesAfter(lv, w)[l]) = Len(lv[l]) + 1 /\ Len(lv[l]) \in Nat
  /\ LeavesAfter(lv, w)[l][Len(lv[l]) + 1] = LeafHash(record)
  /\ \A x \in LogIds : x # l => LeavesAfter(lv, w)[x] = lv[x]
  /\ LogsAfter(lg, w) = lg

\* ... of a leaf, ...
LEMMA LeafCommits ==
  ASSUME NEW lg, NEW lv, NEW an, NEW hd, TablesOK(lg, lv, an, hd), NEW l \in DOMAIN lg,
         NEW at, NEW record \in NewRecords, NEW w, w = LeafWrite(l, at, record)
  PROVE  LeafCommitted(lg, lv, an, hd, l, record, w)
<1> DEFINE lv2 == LeavesAfter(lv, w)
           h == LeafHash(record)
<1>1. w.kind = "leaf" /\ w.log = l /\ w.leaf = h
  BY LeafWriteForm
<1>2. LogsAfter(lg, w) = lg /\ AnchoredAfter(an, w) = an
  BY <1>1 DEF LogsAfter, AnchoredAfter
<1>3. lv \in [LogIds -> Seq(Hashes)] /\ l \in LogIds /\ DOMAIN lg \subseteq LogIds
  BY DEF TablesOK
<1>4. h \in Hashes
  BY ApiAssumption DEF Hashes
<1> HIDE DEF h
<1>5. lv2 = [lv EXCEPT ![l] = Append(lv[l], h)]
  BY <1>1 DEF LeavesAfter
<1> HIDE DEF lv2
<1>6. /\ Append(lv[l], h) \in Seq(Hashes) /\ Len(Append(lv[l], h)) = Len(lv[l]) + 1 /\ Len(lv[l]) \in Nat
      /\ Append(lv[l], h)[Len(lv[l]) + 1] = h
      /\ \A i \in 1..Len(lv[l]) : Append(lv[l], h)[i] = lv[l][i]
  BY <1>3, <1>4
<1>7. lv2 \in [LogIds -> Seq(Hashes)] /\ lv2[l] = Append(lv[l], h) /\ \A x \in LogIds : x # l => lv2[x] = lv[x]
  BY <1>3, <1>5, <1>6
<1>8. Grown(lg, lv, an, lg, lv2, an)
  <2>1. ASSUME NEW x \in LogIds
        PROVE  Len(lv[x]) <= Len(lv2[x]) /\ \A i \in 1..Len(lv[x]) : lv2[x][i] = lv[x][i]
    <3>1. Len(lv[x]) \in Nat
      BY <1>3
    <3>2. CASE x = l
      BY <1>6, <1>7, <3>2
    <3>3. CASE x # l
      BY <1>7, <3>1, <3>3
    <3> QED
      BY <3>2, <3>3
  <2> QED
    BY <1>3, <1>7, <2>1 DEF Grown
<1>9. TablesOK(lg, lv2, an, hd)
  <2>1. \A x \in DOMAIN lg : lg[x] = HashCode["Sha256"]
    BY DEF TablesOK
  <2>2. /\ \A x \in an : \E y \in DOMAIN lg : \E n \in 0..Len(lv2[y]) : x = Anchor(lv2, y, n)
        /\ \A x \in hd : \E y \in DOMAIN lg : \E n \in 0..Len(lv2[y]) : x = HandedOut(lv2, y, n)
    BY <1>8, TablesKeep
  <2> QED
    BY <1>3, <1>7, <1>8, <2>1, <2>2 DEF TablesOK
<1> QED
  BY <1>2, <1>6, <1>7, <1>8, <1>9 DEF lv2, h, LeafCommitted

\* ... of a head: whoever anchored its size before anchored the same root.
LEMMA HeadCommits ==
  ASSUME NEW lg, NEW lv, NEW an, NEW hd, TablesOK(lg, lv, an, hd), NEW l \in DOMAIN lg,
         NEW n \in 0..Len(lv[l]), NEW w, w = HeadWrite(lv, l, n)
  PROVE  /\ TablesOK(LogsAfter(lg, w), LeavesAfter(lv, w), AnchoredAfter(an, w), hd)
         /\ Grown(lg, lv, an, LogsAfter(lg, w), LeavesAfter(lv, w), AnchoredAfter(an, w))
         /\ Anchor(lv, l, n) \in AnchoredAfter(an, w) /\ LeavesAfter(lv, w) = lv
         /\ LogsAfter(lg, w) = lg
<1> DEFINE an2 == AnchoredAfter(an, w)
<1>1. w.kind = "head" /\ w.log = l /\ w.size = n /\ w.root = RootAt(lv, l, n)
  BY HeadWriteForm
<1>2. LogsAfter(lg, w) = lg /\ LeavesAfter(lv, w) = lv
  BY <1>1 DEF LogsAfter, LeavesAfter
<1>3. /\ DOMAIN lg \subseteq LogIds /\ \A x \in DOMAIN lg : lg[x] = HashCode["Sha256"]
      /\ lv \in [LogIds -> Seq(Hashes)]
      /\ \A a \in an : \E x \in DOMAIN lg : \E m \in 0..Len(lv[x]) : a = Anchor(lv, x, m)
  BY DEF TablesOK
<1>4. Anchor(lv, l, n) = [log |-> w.log, size |-> w.size, root |-> w.root]
  BY <1>1 DEF Anchor
<1>5. Anchor(lv, l, n) \in an2 /\ an \subseteq an2 /\ an2 \subseteq an \cup {Anchor(lv, l, n)}
  <2>1. CASE \E a \in an : a.log = w.log /\ a.size = w.size
    <3>1. PICK a \in an : a.log = w.log /\ a.size = w.size
      BY <2>1
    <3>2. PICK x \in DOMAIN lg : \E m \in 0..Len(lv[x]) : a = Anchor(lv, x, m)
      BY <1>3
    <3>3. PICK m \in 0..Len(lv[x]) : a = Anchor(lv, x, m)
      BY <3>2
    <3>4. a.log = x /\ a.size = m
      BY <3>3 DEF Anchor
    <3>5. a = Anchor(lv, l, n)
      BY <1>1, <3>1, <3>3, <3>4
    <3>6. an2 = an
      BY <2>1 DEF AnchoredAfter
    <3> QED
      BY <3>5, <3>6
  <2>2. CASE ~\E a \in an : a.log = w.log /\ a.size = w.size
    <3>1. an2 = an \cup {[log |-> w.log, size |-> w.size, root |-> w.root]}
      BY <1>1, <2>2 DEF AnchoredAfter
    <3> QED
      BY <1>4, <3>1
  <2> QED
    BY <2>1, <2>2
<1> HIDE DEF an2
<1>6. Grown(lg, lv, an, lg, lv, an2)
  <2>1. Grown(lg, lv, an, lg, lv, an)
    BY GrownSame
  <2> QED
    BY <1>5, <2>1 DEF Grown
<1>7. \A a \in an2 : \E x \in DOMAIN lg : \E m \in 0..Len(lv[x]) : a = Anchor(lv, x, m)
  BY <1>3, <1>5
<1>8. TablesOK(lg, lv, an2, hd)
  BY <1>3, <1>7 DEF TablesOK
<1> QED
  BY <1>2, <1>5, <1>6, <1>8 DEF an2

\* What the commit of any call comes to.
CommitMade(lg, lv, an, hd, k, lg2, lv2, an2) ==
  /\ TablesOK(lg2, lv2, an2, hd) /\ Grown(lg, lv, an, lg2, lv2, an2)
  /\ CommittedOK(lg2, lv2, an2, k) /\ (k.req.op = "append" => lv2 # lv)
  /\ \A x \in LogIds : x # k.write.log \/ k.write.kind # "leaf" => Len(lv2[x]) = Len(lv[x])

\* After the commit what the call was to answer is so, and of the other logs no leaf
\* has changed.
LEMMA CommitMakesTrue ==
  ASSUME NEW lg, NEW lv, NEW an, NEW hd, TablesOK(lg, lv, an, hd), NEW k, k.req \in Requests,
         PendingOK(lg, lv, k), NEW lg2, NEW lv2, NEW an2, lg2 = LogsAfter(lg, k.write),
         lv2 = LeavesAfter(lv, k.write), an2 = AnchoredAfter(an, k.write)
  PROVE  CommitMade(lg, lv, an, hd, k, lg2, lv2, an2)
<1> USE DEF CommitMade
<1>1. CASE k.req.op = "create" /\ PendingCreate(k)
  <2>1. PICK x \in LogIds : k.write = LogWrite(x) /\ k.result = Ok(x)
    BY <1>1 DEF PendingCreate
  <2>2. /\ TablesOK(lg2, lv2, an2, hd) /\ Grown(lg, lv, an, lg2, lv2, an2)
        /\ x \in DOMAIN lg2 /\ lv2 = lv
    BY <2>1, LogCommits
  <2> QED
    BY <1>1, <2>1, <2>2 DEF CommittedOK, CommittedCreate
<1>2. CASE k.req.op = "append" /\ PendingAppend(lg, lv, k)
  <2> DEFINE l == k.req.log
             r == k.req.record
             n == Len(lv[l])
  <2>1. r \in NewRecords /\ l \in DOMAIN lg /\ k.write = LeafWrite(l, n, r) /\ k.result = Ok(n)
    BY <1>2, RequestForms DEF PendingAppend
  <2> HIDE DEF l, r
  <2>2. /\ TablesOK(lg2, lv2, an2, hd) /\ Grown(lg, lv, an, lg2, lv2, an2)
        /\ Len(lv2[l]) = n + 1 /\ n \in Nat /\ lv2[l][n + 1] = LeafHash(r)
        /\ (\A x \in LogIds : x # l => lv2[x] = lv[x]) /\ lg2 = lg
    <3>1. LeafCommitted(lg, lv, an, hd, l, r, k.write)
      BY <2>1, LeafCommits
    <3> QED
      BY <3>1 DEF LeafCommitted
  <2> HIDE DEF n
  <2>3. k.write.kind = "leaf" /\ k.write.log = l
    <3>1. LeafWrite(l, n, r).kind = "leaf" /\ LeafWrite(l, n, r).log = l
      BY LeafWriteForm
    <3> QED
      BY <2>1, <3>1
  <2>4. n + 1 \in 1..Len(lv2[l]) /\ (n + 1) - 1 = n /\ n + 1 # n
    <3>1. n \in Nat /\ Len(lv2[l]) = n + 1
      BY <2>2
    <3> QED
      BY <3>1
  <2>5. CommittedAppend(lg2, lv2, k)
    BY <2>1, <2>2, <2>4 DEF CommittedAppend, l, r
  <2>6. lv2 # lv
    BY <2>2, <2>4 DEF n
  <2> QED
    BY <1>2, <2>2, <2>3, <2>5, <2>6 DEF CommittedOK
<1>3. CASE k.req.op = "checkpoint" /\ PendingHead(lg, lv, k)
  <2> DEFINE l == k.req.log
  <2>1. l \in DOMAIN lg
    BY <1>3 DEF PendingHead
  <2>2. PICK n \in 0..Len(lv[l]) : k.write = HeadWrite(lv, l, n) /\ k.result = Ok(SignedAt(lv, l, n))
    BY <1>3 DEF PendingHead
  <2> HIDE DEF l
  <2>3. /\ TablesOK(lg2, lv2, an2, hd) /\ Grown(lg, lv, an, lg2, lv2, an2)
        /\ Anchor(lv, l, n) \in an2 /\ lv2 = lv /\ lg2 = lg
    BY <2>1, <2>2, HeadCommits
  <2>4. CommittedHead(lg2, lv2, an2, k)
    BY <2>1, <2>2, <2>3 DEF CommittedHead, l
  <2> QED
    BY <1>3, <2>3, <2>4 DEF CommittedOK
<1> QED
  BY <1>1, <1>2, <1>3 DEF PendingOK

\* So it is for the write of the call of c.
LEMMA AppliedForm ==
  ASSUME ApiInv, NEW c \in Client, Leaving(c, "transaction"), ~IsError(call[c].result),
         Applied(call[c].write)
  PROVE  /\ TablesOK(logs', leaves', anchored', heads)
         /\ Grown(logs, leaves, anchored, logs', leaves', anchored')
         /\ CommittedOK(logs', leaves', anchored', call[c])
         /\ call[c].req.op = "append" => leaves' # leaves
         /\ Undisturbed(call, c, leaves, leaves')
<1> DEFINE k == call[c]
<1>1. CallOK(logs, leaves, anchored, k) /\ TablesOK(logs, leaves, anchored, heads)
  BY InvAt
<1>2. /\ k.pc = "leave" /\ k.depth > 0 /\ Pipeline(k.req.op)[k.depth] = "transaction"
      /\ ~IsError(k.result)
  BY DEF Leaving
<1>3. /\ logs' = LogsAfter(logs, k.write) /\ leaves' = LeavesAfter(leaves, k.write)
      /\ anchored' = AnchoredAfter(anchored, k.write)
  BY DEF Applied, LogsAfter, LeavesAfter, AnchoredAfter
<1> HIDE DEF k
<1>4. PendingOK(logs, leaves, k) /\ k.req \in Requests
  BY <1>1, <1>2, PendingForm
<1> DEFINE lg2 == LogsAfter(logs, k.write)
           lv2 == LeavesAfter(leaves, k.write)
           an2 == AnchoredAfter(anchored, k.write)
<1>10. CommitMade(logs, leaves, anchored, heads, k, lg2, lv2, an2)
  BY <1>1, <1>4, CommitMakesTrue
<1> HIDE DEF lg2, lv2, an2
<1>5. /\ TablesOK(logs', leaves', anchored', heads)
      /\ Grown(logs, leaves, anchored, logs', leaves', anchored')
      /\ CommittedOK(logs', leaves', anchored', k)
      /\ k.req.op = "append" => leaves' # leaves
      /\ \A x \in LogIds : x # k.write.log \/ k.write.kind # "leaf" => Len(leaves'[x]) = Len(leaves[x])
  <2>1. logs' = lg2 /\ leaves' = lv2 /\ anchored' = an2
    BY <1>3 DEF lg2, lv2, an2
  <2> QED
    BY <1>10, <2>1 DEF CommitMade
<1>6. ASSUME NEW d \in Client \ {c}, call[d].write.kind = "leaf"
      PROVE  Len(leaves'[call[d].write.log]) = Len(leaves[call[d].write.log])
  <2>1. CallOK(logs, leaves, anchored, call[d])
    BY InvAt
  <2>2. PendingAppend(logs, leaves, call[d])
    BY <1>6, <2>1, LeafWrites
  <2>5. call[d].write.log = call[d].req.log /\ call[d].req.log \in DOMAIN logs
    BY <2>2, LeafWriteForm DEF PendingAppend
  <2>3. call[d].write.log \in LogIds
    BY <1>1, <2>5 DEF TablesOK
  <2>4. call[d].write.log # k.write.log \/ k.write.kind # "leaf"
    BY <1>6 DEF ApiInv, InvOf, Apart, k
  <2> QED
    BY <1>5, <2>3, <2>4
<1> QED
  BY <1>5, <1>6 DEF k, Undisturbed

\* A step of c that may have written.
LEMMA WriteStep ==
  ASSUME ApiInv, NEW c \in Client, TablesOK(logs', leaves', anchored', heads),
         Grown(logs, leaves, anchored, logs', leaves', anchored'),
         Undisturbed(call, c, leaves, leaves'),
         call' = Put(call, c, call'[c]), CallOK(logs', leaves', anchored', call'[c]),
         call'[c].write = NoWrite, ToCount(call'[c]) => leaves' # leaves,
         count' = [count EXCEPT !.stored = @ + Stored], heads' = heads
  PROVE  ApiInv'
<1> DEFINE U == Cardinality(Uncounted(call))
           V == Cardinality(Uncounted(call'))
<1>1. /\ InvOf(logs, leaves, anchored, heads, call, count) /\ call = [d \in Client |-> call[d]]
      /\ count \in [appended : Nat, dropped : Nat, stored : Nat] /\ count.appended + U <= count.stored
  BY DEF ApiInv, InvOf
<1>2. Clear(call, c, call'[c])
  BY ClearNone, NoWriteForm
<1>3. (~ToCount(call'[c]) => V <= U) /\ V <= U + 1
  BY <1>1, CountMoves DEF Put
<1>4. U \in Nat /\ V \in Nat
  BY CountFacts
<1> HIDE DEF U, V
<1>5. Stored \in {0, 1} /\ (leaves' # leaves => Stored = 1)
  BY DEF Stored
<1>6. count' \in [appended : Nat, dropped : Nat, stored : Nat] /\ count'.appended + V <= count'.stored
  <2>1. V <= U + Stored
    BY <1>3, <1>4, <1>5
  <2>2. /\ count.appended \in Nat /\ count.stored \in Nat /\ count'.appended = count.appended
        /\ count'.stored = count.stored + Stored
    BY <1>1, <1>5
  <2>3. count' \in [appended : Nat, dropped : Nat, stored : Nat]
    BY <1>1, <1>5
  <2> QED
    BY <1>1, <1>4, <1>5, <2>1, <2>2, <2>3
<1>7. InvOf(logs', leaves', anchored', heads, call', count')
  <2> DEFINE k == call'[c]
  <2>1. call' = Put(call, c, k)
    OBVIOUS
  <2>2. CallOK(logs', leaves', anchored', k) /\ Clear(call, c, k)
    BY <1>2
  <2>3. count'.appended + Cardinality(Uncounted(call')) <= count'.stored
    BY <1>6 DEF V
  <2> HIDE DEF k
  <2>4. StepTo(logs, leaves, anchored, heads, call, count, logs', leaves', anchored', heads,
               call', count', c, k)
    BY <1>1, <1>6, <2>1, <2>2, <2>3 DEF StepTo
  <2> QED
    BY <2>4, Steps
<1> QED
  BY <1>7 DEF ApiInv

LEMMA NothingApplied ==
  ASSUME ApiInv, NEW c \in Client, UNCHANGED Store
  PROVE  /\ TablesOK(logs', leaves', anchored', heads) /\ Undisturbed(call, c, leaves, leaves')
         /\ Grown(logs, leaves, anchored, logs', leaves', anchored')
<1>1. logs' = logs /\ leaves' = leaves /\ anchored' = anchored
  BY DEF Store
<1>2. TablesOK(logs, leaves, anchored, heads) /\ Undisturbed(call, c, leaves, leaves)
  BY InvAt DEF Undisturbed
<1>3. Grown(logs, leaves, anchored, logs, leaves, anchored)
  BY <1>2, GrownSame
<1> QED
  BY <1>1, <1>2, <1>3

LEMMA CommitStep ==
  ASSUME ApiInv, NEW c \in Client, Commit(c)
  PROVE  ApiInv'
<1> DEFINE k == call[c]
           w == NoWrite
           s == TheCall(k.pc, k.req, k.depth - 1, w, k.seen, k.result)
           f == TheCall(k.pc, k.req, k.depth - 1, w, k.seen, Error("Storage"))
<1>1. /\ CallOK(logs, leaves, anchored, k) /\ IsCall(k) /\ call = [d \in Client |-> call[d]]
      /\ k.pc = "leave" /\ k.depth > 0 /\ ~IsError(k.result) /\ Leaving(c, "transaction")
      /\ Pipeline(k.req.op)[k.depth] = "transaction"
  BY InvAt DEF Commit, Leaving
<1>2. /\ count' = [count EXCEPT !.stored = @ + Stored] /\ heads' = heads
      /\ \/ Applied(k.write) /\ call' = Put(call, c, Done(k, NoWrite))
         \/ Applied(k.write) /\ call' = Put(call, c, Instead(Done(k, NoWrite), Error("Storage")))
         \/ UNCHANGED Store /\ call' = Put(call, c, Instead(Done(k, NoWrite), Error("Storage")))
  BY DEF Commit, Goes, Put, Done, Instead
<1>3. Applied(k.write) => /\ TablesOK(logs', leaves', anchored', heads)
                          /\ Grown(logs, leaves, anchored, logs', leaves', anchored')
                          /\ CommittedOK(logs', leaves', anchored', k)
                          /\ k.req.op = "append" => leaves' # leaves
                          /\ Undisturbed(call, c, leaves, leaves')
  BY <1>1, AppliedForm
<1> HIDE DEF k
<1>4. k.depth = Top(k) /\ k.req \in Requests /\ Top(k) \in 1..3
  BY <1>1, PendingForm, TopIs
<1>5. /\ s.pc = "leave" /\ s.req = k.req /\ s.depth = k.depth - 1 /\ s.write = NoWrite
      /\ s.result = k.result /\ IsCall(s)
  BY <1>1, CallFields
<1>6. /\ f.pc = "leave" /\ f.req = k.req /\ f.depth = k.depth - 1 /\ f.write = NoWrite
      /\ f.result = Error("Storage") /\ IsCall(f)
  BY <1>1, CallFields
<1>7. Done(k, NoWrite) = s
  BY <1>1, Commits
<1>8. Instead(s, Error("Storage")) = f
  <2> HIDE DEF s
  <2>1. Instead(s, Error("Storage")) = TheCall(s.pc, s.req, s.depth, s.write, s.seen, Error("Storage"))
    BY <1>5, Replaced
  <2>2. s.pc = k.pc /\ s.seen = k.seen
    BY CallFields DEF s
  <2> QED
    BY <1>5, <2>1, <2>2
<1> HIDE DEF s, f
<1>9. Top(s) = Top(k) /\ Top(f) = Top(k)
  BY <1>5, <1>6 DEF Top
<1>10. CASE Applied(k.write) /\ call' = Put(call, c, s)
  <2>1. CommittedOK(logs', leaves', anchored', s)
    BY <1>3, <1>5, <1>10 DEF CommittedOK, CommittedCreate, CommittedAppend, CommittedHead
  <2>2. s.depth \in 0..Top(s) /\ s.depth # Top(s)
    BY <1>4, <1>5, <1>9
  <2>3. CallOK(logs', leaves', anchored', s)
    BY <1>4, <1>5, <2>1, <2>2 DEF CallOK, LeavingOK
  <2>4. ToCount(s) => leaves' # leaves
    BY <1>3, <1>5, <1>10 DEF ToCount
  <2>5. call'[c] = s /\ call' = Put(call, c, call'[c])
    BY <1>1, <1>10, GoesTo
  <2> QED
    BY <1>2, <1>3, <1>5, <1>10, <2>3, <2>4, <2>5, WriteStep
<1>11. CASE (Applied(k.write) \/ UNCHANGED Store) /\ call' = Put(call, c, f)
  <2>1. /\ TablesOK(logs', leaves', anchored', heads) /\ Undisturbed(call, c, leaves, leaves')
        /\ Grown(logs, leaves, anchored, logs', leaves', anchored')
    BY <1>3, <1>11, NothingApplied
  <2>2. f.depth \in 0..Top(f) /\ f.req \in Requests
    BY <1>4, <1>6, <1>9
  <2>3. CallOK(logs', leaves', anchored', f) /\ ~ToCount(f)
    BY <1>6, <2>2, FailedStands
  <2>4. call'[c] = f /\ call' = Put(call, c, call'[c])
    BY <1>1, <1>11, GoesTo
  <2> QED
    BY <1>2, <1>6, <2>1, <2>3, <2>4, WriteStep
<1> QED
  BY <1>2, <1>7, <1>8, <1>10, <1>11

LEMMA ClientGoneStep ==
  ASSUME ApiInv, NEW c \in Client, ClientGone(c)
  PROVE  ApiInv'
<1>1. /\ call' = Put(call, c, NoCall) /\ call = [d \in Client |-> call[d]]
      /\ count' = [count EXCEPT !.stored = @ + Stored] /\ heads' = heads
  BY InvAt DEF ClientGone, Put
<1>2. \/ UNCHANGED Store
      \/ Leaving(c, "transaction") /\ ~IsError(call[c].result) /\ Applied(call[c].write)
  BY DEF ClientGone
<1>3. /\ TablesOK(logs', leaves', anchored', heads) /\ Undisturbed(call, c, leaves, leaves')
      /\ Grown(logs, leaves, anchored, logs', leaves', anchored')
  BY <1>2, NothingApplied, AppliedForm
<1>4. CallOK(logs', leaves', anchored', NoCall) /\ NoCall.write = NoWrite /\ ~ToCount(NoCall)
  BY NoCallOK DEF ToCount
<1>5. call'[c] = NoCall /\ call' = Put(call, c, call'[c])
  BY <1>1, GoesTo
<1> QED
  BY <1>1, <1>3, <1>4, <1>5, WriteStep

LEMMA CountStep ==
  ASSUME ApiInv, NEW c \in Client, Count(c)
  PROVE  ApiInv'
<1> DEFINE k == call[c]
           s == TheCall(k.pc, k.req, k.depth - 1, k.write, k.seen, k.result)
           U == Cardinality(Uncounted(call))
           V == Cardinality(Uncounted(call'))
<1>1. /\ CallOK(logs, leaves, anchored, k) /\ IsCall(k) /\ call = [d \in Client |-> call[d]]
      /\ k.pc = "leave" /\ k.depth > 0 /\ Pipeline(k.req.op)[k.depth] = "metrics"
      /\ TablesOK(logs, leaves, anchored, heads)
  BY InvAt DEF Count, Leaving
<1>2. /\ call' = Put(call, c, Outwards(k)) /\ logs' = logs /\ leaves' = leaves /\ anchored' = anchored
      /\ heads' = heads
      /\ count' = IF IsError(k.result) THEN [count EXCEPT !.dropped = @ + 1]
                  ELSE [count EXCEPT !.appended = @ + 1]
  BY DEF Count, Goes, Put, Outwards, Store
<1>3. /\ InvOf(logs, leaves, anchored, heads, call, count)
      /\ count \in [appended : Nat, dropped : Nat, stored : Nat] /\ count.appended + U <= count.stored
  BY DEF ApiInv, InvOf
<1> HIDE DEF k
<1>4. k.req \in Requests /\ LeavingOK(logs, leaves, anchored, k) /\ k.depth \in 0..Top(k)
  BY <1>1 DEF CallOK, LeavingOK
<1>5. k.req.op = "append" /\ k.depth = 2 /\ Top(k) = 3
  <2>1. /\ k.req.op \in {"create", "append", "checkpoint", "inclusion", "consistency"}
        /\ (k.req.op = "append" => Top(k) = 3)
        /\ (k.req.op \in {"create", "checkpoint"} => Top(k) = 2)
        /\ (k.req.op \in {"inclusion", "consistency"} => Top(k) = 1)
    BY <1>4, RequestForms, TopIs
  <2>2. k.depth = 1 \/ k.depth = 2 \/ k.depth = 3
    BY <1>1, <1>4, <2>1
  <2>3. CASE k.req.op = "append"
    BY <1>1, <2>1, <2>2, <2>3, PipelineForms
  <2>4. CASE k.req.op \in {"create", "checkpoint"}
    <3>1. k.depth = 1 \/ k.depth = 2
      BY <1>1, <1>4, <2>1, <2>4
    <3> QED
      BY <1>1, <2>4, <3>1, PipelineForms
  <2>5. CASE k.req.op \in {"inclusion", "consistency"}
    <3>1. k.depth = 1
      BY <1>1, <1>4, <2>1, <2>5
    <3> QED
      BY <1>1, <2>5, <3>1, PipelineForms
  <2> QED
    BY <2>1, <2>3, <2>4, <2>5
<1>6. /\ s.pc = "leave" /\ s.req = k.req /\ s.depth = 1 /\ s.write = k.write
      /\ s.result = k.result /\ IsCall(s)
  BY <1>1, <1>5, CallFields
<1>7. Outwards(k) = s
  BY <1>1, Counts
<1> HIDE DEF s
<1>8. k.write = NoWrite /\ (FailedOK(k) \/ CommittedOK(logs, leaves, anchored, k))
  BY <1>4, <1>5 DEF LeavingOK, FailedOK, ServedOK
<1>9. FailedOK(s) \/ CommittedOK(logs, leaves, anchored, s)
  BY <1>6, <1>8 DEF FailedOK, CommittedOK, CommittedCreate, CommittedAppend, CommittedHead
<1>10. Top(s) = 3
  BY <1>5, <1>6 DEF Top
<1>11. CallOK(logs, leaves, anchored, s) /\ ~ToCount(s)
  <2>1. LeavingOK(logs, leaves, anchored, s)
    BY <1>6, <1>8, <1>9, <1>10 DEF LeavingOK
  <2>2. ~ToCount(s)
    BY <1>6 DEF ToCount
  <2>3. s.req \in Requests
    BY <1>4, <1>6
  <2> QED
    BY <1>6, <2>1, <2>2, <2>3 DEF CallOK
<1>12. Clear(call, c, s)
  BY <1>6, <1>8, ClearNone, NoWriteForm
<1>13. V <= U /\ (~IsError(k.result) => V + 1 <= U)
  <2>1. ~IsError(k.result) => ToCount(call[c])
    BY <1>1, <1>5 DEF ToCount, k
  <2> QED
    BY <1>1, <1>2, <1>7, <1>11, <2>1, CountMoves DEF Put
<1>14. U \in Nat /\ V \in Nat
  BY CountFacts
<1> HIDE DEF U, V
<1>15. count' \in [appended : Nat, dropped : Nat, stored : Nat] /\ count'.appended + V <= count'.stored
  <2>1. CASE IsError(k.result)
    <3>1. /\ count' \in [appended : Nat, dropped : Nat, stored : Nat]
          /\ count'.appended = count.appended /\ count'.stored = count.stored
      BY <1>2, <1>3, <2>1
    <3> QED
      BY <1>3, <1>13, <1>14, <3>1
  <2>2. CASE ~IsError(k.result)
    <3>1. /\ count' \in [appended : Nat, dropped : Nat, stored : Nat]
          /\ count'.appended = count.appended + 1 /\ count'.stored = count.stored
      BY <1>2, <1>3, <2>2
    <3> QED
      BY <1>3, <1>13, <1>14, <2>2, <3>1
  <2> QED
    BY <2>1, <2>2
<1>16. InvOf(logs, leaves, anchored, heads, call', count')
  <2>1. Grown(logs, leaves, anchored, logs, leaves, anchored) /\ Undisturbed(call, c, leaves, leaves)
    BY <1>1, GrownSame DEF Undisturbed
  <2>2. count'.appended + Cardinality(Uncounted(call')) <= count'.stored
    BY <1>15 DEF V
  <2>3. call' = Put(call, c, s)
    BY <1>2, <1>7
  <2>4. StepTo(logs, leaves, anchored, heads, call, count, logs, leaves, anchored, heads,
               call', count', c, s)
    BY <1>1, <1>3, <1>11, <1>12, <1>15, <2>1, <2>2, <2>3 DEF StepTo
  <2> QED
    BY <2>4, Steps
<1> QED
  BY <1>2, <1>16 DEF ApiInv

\* A call that is answered without an error was committed, or is a proof.
LEMMA AnsweredForm ==
  ASSUME NEW lg, NEW lv, NEW an, NEW k, CallOK(lg, lv, an, k), k.pc = "leave", ~IsError(k.result),
         k.depth = 0 \/ (k.depth > 0 /\ Pipeline(k.req.op)[k.depth] = "tracing")
  PROVE  k.req \in Requests /\ (CommittedOK(lg, lv, an, k) \/ ServedOK(lg, lv, k))
<1>1. LeavingOK(lg, lv, an, k) /\ k.req \in Requests
  BY DEF CallOK
<1>2. ~FailedOK(k)
  BY ResultForms DEF FailedOK
<1>3. ~(k.depth = Top(k) /\ PendingOK(lg, lv, k))
  <2>1. SUFFICES ASSUME k.depth = Top(k), PendingOK(lg, lv, k) PROVE FALSE
    OBVIOUS
  <2>2. k.req.op \in {"create", "append", "checkpoint"}
    BY <2>1 DEF PendingOK
  <2>3. Pipeline(k.req.op)[k.depth] = "transaction" /\ k.depth # 0
    <3>1. CASE k.req.op = "append"
      BY <2>1, <3>1, PipelineForms DEF Top
    <3>2. CASE k.req.op \in {"create", "checkpoint"}
      BY <2>1, <3>2, PipelineForms DEF Top
    <3> QED
      BY <2>2, <3>1, <3>2
  <2> QED
    BY <2>3
<1> QED
  BY <1>1, <1>2, <1>3 DEF LeavingOK

LEMMA AnswerStep ==
  ASSUME ApiInv, NEW c \in Client, Answer(c)
  PROVE  ApiInv'
<1> DEFINE k == call[c]
           l == k.req.log
<1>1. /\ CallOK(logs, leaves, anchored, k) /\ call = [d \in Client |-> call[d]]
      /\ TablesOK(logs, leaves, anchored, heads) /\ k.pc = "leave"
      /\ k.depth = 0 \/ (k.depth > 0 /\ Pipeline(k.req.op)[k.depth] = "tracing")
  BY InvAt DEF Answer, Answering, Leaving
<1>2. /\ call' = Put(call, c, NoCall) /\ logs' = logs /\ leaves' = leaves /\ anchored' = anchored
      /\ count' = count
      /\ heads' = IF k.req.op = "checkpoint" /\ ~IsError(k.result)
                  THEN heads \cup {[log |-> l, sth |-> k.result.ok]} ELSE heads
  BY DEF Answer, Put, Store
<1>3. /\ InvOf(logs, leaves, anchored, heads, call, count)
      /\ count \in [appended : Nat, dropped : Nat, stored : Nat]
      /\ count.appended + Cardinality(Uncounted(call)) <= count.stored
  BY DEF ApiInv, InvOf
<1> HIDE DEF k
<1>4. TablesOK(logs, leaves, anchored, heads')
  <2>1. CASE k.req.op = "checkpoint" /\ ~IsError(k.result)
    <3>1. CommittedHead(logs, leaves, anchored, k)
      BY <1>1, <2>1, AnsweredForm DEF CommittedOK, ServedOK
    <3>2. PICK n \in 0..Len(leaves[l]) : k.result = Ok(SignedAt(leaves, l, n))
      BY <3>1 DEF CommittedHead
    <3>3. l \in DOMAIN logs
      BY <3>1 DEF CommittedHead
    <3> HIDE DEF l
    <3>4. k.result.ok = SignedAt(leaves, l, n)
      BY <3>2, ResultForms
    <3>5. heads' = heads \cup {HandedOut(leaves, l, n)}
      BY <1>2, <2>1, <3>4 DEF HandedOut
    <3>6. \A h \in heads' : \E x \in DOMAIN logs : \E m \in 0..Len(leaves[x]) : h = HandedOut(leaves, x, m)
      BY <1>1, <3>3, <3>5 DEF TablesOK
    <3> QED
      BY <1>1, <3>6 DEF TablesOK
  <2>2. CASE ~(k.req.op = "checkpoint" /\ ~IsError(k.result))
    BY <1>1, <1>2, <2>2
  <2> QED
    BY <2>1, <2>2
<1>5. CallOK(logs, leaves, anchored, NoCall) /\ ~ToCount(NoCall)
  BY NoCallOK DEF ToCount
<1>6. Clear(call, c, NoCall)
  BY NoCallOK, ClearNone
<1>7. Grown(logs, leaves, anchored, logs, leaves, anchored) /\ Undisturbed(call, c, leaves, leaves)
  BY <1>1, GrownSame DEF Undisturbed
<1>8. count.appended + Cardinality(Uncounted(call')) <= count.stored
  <2>1. Cardinality(Uncounted(call')) <= Cardinality(Uncounted(call))
    BY <1>1, <1>2, <1>5, CountMoves DEF Put
  <2>2. Cardinality(Uncounted(call')) \in Nat /\ Cardinality(Uncounted(call)) \in Nat
    BY CountFacts
  <2> QED
    BY <1>3, <2>1, <2>2
<1>9. InvOf(logs, leaves, anchored, heads', call', count)
  <2>1. call' = Put(call, c, NoCall)
    BY <1>2
  <2>2. StepTo(logs, leaves, anchored, heads, call, count, logs, leaves, anchored, heads',
               call', count, c, NoCall)
    BY <1>3, <1>4, <1>5, <1>6, <1>7, <1>8, <2>1 DEF StepTo
  <2> QED
    BY <2>2, Steps
<1> QED
  BY <1>2, <1>9 DEF ApiInv

LEMMA InitOK == ApiInit => ApiInv
<1> SUFFICES ASSUME ApiInit PROVE ApiInv
  OBVIOUS
<1>1. PICK n \in Sizes, l \in LogIds :
        /\ logs = [x \in {l} |-> HashCode["Sha256"]]
        /\ leaves = [x \in LogIds |-> IF x = l THEN [i \in 1..n |-> LeafHash(i)] ELSE <<>>]
        /\ anchored = {} /\ heads = {}
        /\ call = [c \in Client |-> NoCall]
        /\ count = [appended |-> 0, dropped |-> 0, stored |-> 0]
  BY DEF ApiInit
<1>2. n \in Nat
  BY ApiAssumption
<1>3. [i \in 1..n |-> LeafHash(i)] \in Seq(Hashes)
  <2>1. \A i \in 1..n : LeafHash(i) \in Hashes
    BY <1>2 DEF Hashes
  <2> QED
    BY <1>2, <2>1
<1>4. TablesOK(logs, leaves, anchored, heads)
  <2>1. DOMAIN logs = {l} /\ \A x \in DOMAIN logs : logs[x] = HashCode["Sha256"]
    BY <1>1
  <2>2. <<>> \in Seq(Hashes)
    OBVIOUS
  <2> DEFINE t == [i \in 1..n |-> LeafHash(i)]
  <2>3. t \in Seq(Hashes) /\ leaves = [x \in LogIds |-> IF x = l THEN t ELSE <<>>]
    BY <1>1, <1>3
  <2> HIDE DEF t
  <2>4. leaves \in [LogIds -> Seq(Hashes)]
    BY <2>2, <2>3
  <2>5. anchored = {} /\ heads = {}
    BY <1>1
  <2> QED
    BY <2>1, <2>4, <2>5 DEF TablesOK
<1>5. \A c \in Client : call[c] = NoCall
  BY <1>1
<1>6. \A c \in Client : CallOK(logs, leaves, anchored, call[c])
  BY <1>5, NoCallOK
<1>7. Apart(call)
  BY <1>5, NoCallOK DEF Apart
<1>8. Uncounted(call) = {}
  BY <1>5, NoCallOK DEF Uncounted, ToCount
<1>9. count.appended + Cardinality(Uncounted(call)) <= count.stored
  <2>1. Cardinality(Uncounted(call)) = 0
    BY <1>8, FS_EmptySet
  <2>2. count.appended = 0 /\ count.stored = 0
    BY <1>1
  <2> QED
    BY <2>1, <2>2
<1>10. count \in [appended : Nat, dropped : Nat, stored : Nat] /\ call = [c \in Client |-> call[c]]
  BY <1>1
<1> QED
  BY <1>4, <1>6, <1>7, <1>9, <1>10 DEF ApiInv, InvOf

LEMMA NextOK == ApiInv /\ [ApiNext]_apiVars => ApiInv'
<1> SUFFICES ASSUME ApiInv, [ApiNext]_apiVars PROVE ApiInv'
  OBVIOUS
<1>1. CASE UNCHANGED apiVars
  BY <1>1 DEF apiVars, ApiInv
<1>2. ASSUME NEW c \in Client,
             \/ \E req \in Requests : Receive(c, req)
             \/ HandleCreate(c) \/ HandleAppend(c) \/ InsertLeaf(c) \/ FindLog(c)
             \/ LoadAndIssue(c) \/ LoadAndProveInclusion(c) \/ LoadAndProveConsistency(c)
             \/ StatementFails(c)
             \/ Commit(c) \/ Rollback(c) \/ Count(c) \/ Answer(c) \/ ClientGone(c)
      PROVE  ApiInv'
  BY <1>2, ReceiveStep, CreateStep, AppendStep, InsertStep, FindStep, IssueStep, InclusionStep,
     ConsistencyStep, StatementFailsStep, CommitStep, RollbackStep, CountStep, AnswerStep,
     ClientGoneStep
<1> QED
  BY <1>1, <1>2 DEF ApiNext

\* The API keeps its invariant: what a call is about to answer is what it is about to
\* write or what is written, and what was anchored or handed out is the head of a prefix.
THEOREM ApiKeepsBooks == ApiSpec => []ApiInv
<1>1. ApiInv /\ [ApiNext]_apiVars => ApiInv'
  BY NextOK
<1> QED
  BY <1>1, InitOK, PTL DEF ApiSpec

-----------------------------------------------------------------------------
(* Answers *)

\* An answer that grants is not an error, and says what was committed or proved.
LEMMA GrantedForm ==
  ASSUME ApiInv, NEW c \in Client, NEW op, Granted(c, op)
  PROVE  /\ call[c].req.op = op /\ call[c].req \in Requests
         /\ op = "create" => CommittedCreate(logs, call[c])
         /\ op = "append" => CommittedAppend(logs, leaves, call[c])
         /\ op = "checkpoint" => CommittedHead(logs, leaves, anchored, call[c])
         /\ op = "inclusion" => ServedInclusion(logs, leaves, call[c])
         /\ op = "consistency" => ServedConsistency(logs, leaves, call[c])
<1> DEFINE k == call[c]
<1>1. /\ k.req.op = op /\ k.pc = "leave" /\ Status(op, k.result) \in {200, 201}
      /\ k.depth = 0 \/ (k.depth > 0 /\ Pipeline(k.req.op)[k.depth] = "tracing")
  BY DEF Granted, Answering, Leaving
<1>2. CallOK(logs, leaves, anchored, k)
  BY InvAt
<1> HIDE DEF k
<1>3. ~IsError(k.result)
  BY <1>1 DEF Status
<1>4. k.req \in Requests /\ (CommittedOK(logs, leaves, anchored, k) \/ ServedOK(logs, leaves, k))
  BY <1>1, <1>2, <1>3, AnsweredForm
<1>5. /\ op = "create" => CommittedCreate(logs, k)
      /\ op = "append" => CommittedAppend(logs, leaves, k)
      /\ op = "checkpoint" => CommittedHead(logs, leaves, anchored, k)
      /\ op = "inclusion" => ServedInclusion(logs, leaves, k)
      /\ op = "consistency" => ServedConsistency(logs, leaves, k)
  BY <1>1, <1>4 DEF CommittedOK, ServedOK
<1> QED
  BY <1>1, <1>4, <1>5 DEF k

LEMMA InvAnswersTrue == ApiInv => AnswersAreTrue
<1> SUFFICES ASSUME ApiInv PROVE AnswersAreTrue
  OBVIOUS
<1>1. ASSUME NEW c \in Client, Granted(c, "append")
      PROVE  <<call[c].result.ok + 1, LeafHash(call[c].req.record)>> \in ToPairs(leaves[call[c].req.log])
  <2> DEFINE k == call[c]
             l == k.req.log
  <2>1. CommittedAppend(logs, leaves, k)
    BY <1>1, GrantedForm
  <2>2. TablesOK(logs, leaves, anchored, heads)
    BY InvAt
  <2> HIDE DEF k
  <2>3. PICK i \in 1..Len(leaves[l]) : k.result = Ok(i - 1) /\ leaves[l][i] = LeafHash(k.req.record)
    BY <2>1 DEF CommittedAppend
  <2>4. leaves[l] \in Seq(Hashes)
    BY <2>1, <2>2 DEF CommittedAppend, TablesOK
  <2>5. k.result.ok = i - 1 /\ (i - 1) + 1 = i /\ i \in DOMAIN leaves[l]
    BY <2>3, <2>4, ResultForms
  <2>6. k.result.ok + 1 = i
    BY <2>5
  <2>7. <<i, LeafHash(k.req.record)>> \in ToPairs(leaves[l])
    BY <2>3, <2>5 DEF ToPairs
  <2> QED
    BY <2>6, <2>7 DEF k
<1>2. ASSUME NEW c \in Client, Granted(c, "create")
      PROVE  call[c].result.ok \in DOMAIN logs
  <2>1. CommittedCreate(logs, call[c])
    BY <1>2, GrantedForm
  <2> QED
    BY <2>1, ResultForms DEF CommittedCreate
<1>3. ASSUME NEW c \in Client, Granted(c, "checkpoint")
      PROVE  [log |-> call[c].req.log, size |-> call[c].result.ok.head.size,
              root |-> call[c].result.ok.head.root] \in anchored
  <2> DEFINE k == call[c]
             l == k.req.log
  <2>1. CommittedHead(logs, leaves, anchored, k)
    BY <1>3, GrantedForm
  <2> HIDE DEF k
  <2>2. PICK n \in 0..Len(leaves[l]) : k.result = Ok(SignedAt(leaves, l, n)) /\ Anchor(leaves, l, n) \in anchored
    BY <2>1 DEF CommittedHead
  <2> HIDE DEF l
  <2>3. k.result.ok = SignedAt(leaves, l, n)
    BY <2>2, ResultForms
  <2>4. SignedAt(leaves, l, n).head.size = n /\ SignedAt(leaves, l, n).head.root = RootAt(leaves, l, n)
    BY DEF SignedAt, SignHead
  <2> QED
    BY <2>2, <2>3, <2>4 DEF Anchor, l, k
<1>4. count.appended <= count.stored
  <2>1. /\ count \in [appended : Nat, dropped : Nat, stored : Nat]
        /\ count.appended + Cardinality(Uncounted(call)) <= count.stored
    BY DEF ApiInv, InvOf
  <2>2. Cardinality(Uncounted(call)) \in Nat /\ count.appended \in Nat /\ count.stored \in Nat
    BY <2>1, CountFacts
  <2> QED
    BY <2>1, <2>2
<1> QED
  BY <1>1, <1>2, <1>3, <1>4 DEF AnswersAreTrue

\* Every answer is true when it goes out, however requests interleave, commits fail and
\* clients leave, for any number of clients, logs and records.
THEOREM EveryAnswerIsTrue == ApiSpec => []AnswersAreTrue
BY ApiKeepsBooks, InvAnswersTrue, PTL
=============================================================================
