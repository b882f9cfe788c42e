--------------------------- MODULE ComponentProofs ---------------------------
(***************************************************************************)
(* Proofs about three parts that share no state: the screen of a request,  *)
(* UrlScreen, for any requests the parser accepts and any answers of the   *)
(* resolver; the crypto factories, CryptoUse, for any keys, nonces and     *)
(* texts and any choice of compiled-in algorithms; and the startup and the *)
(* hot reload of Server, for any configurations, any channel size and any  *)
(* number of edits of the policy file.                                     *)
(***************************************************************************)
EXTENDS Server, CryptoUse, UrlScreen, FiniteSetTheorems, SequenceTheorems,
        WellFoundedInduction, TLAPS

-----------------------------------------------------------------------------
(* The texts of a request *)

\* What holds of 0, and of n + 1 if it holds of n, holds of every natural number.
LEMMA StepInduction ==
  ASSUME NEW S, 0 \in S, \A n \in Nat : n \in S => n + 1 \in S
  PROVE  Nat \subseteq S
<1> SUFFICES ASSUME ~(Nat \subseteq S) PROVE FALSE
  OBVIOUS
<1> DEFINE T == {n \in Nat : n \notin S}
           R == OpToRel(<, Nat)
<1>1. IsWellFoundedOn(R, Nat)
  BY NatLessThanWellFounded
<1>2. \A x, y \in Nat : y < x => <<y, x>> \in R
  BY DEF OpToRel
<1>3. T \subseteq Nat /\ T # {}
  OBVIOUS
<1> HIDE DEF R
<1>4. PICK x \in T : \A y \in T : ~(<<y, x>> \in R)
  <2> HIDE DEF T
  <2> QED
    BY <1>1, <1>3, WFMin
<1>5. x # 0 /\ x \in Nat
  BY <1>4
<1>6. x - 1 \in Nat /\ x - 1 < x /\ x = (x - 1) + 1
  BY <1>5
<1>7. x - 1 \notin T
  BY <1>2, <1>4, <1>5, <1>6
<1> QED
  BY <1>4, <1>6, <1>7

Flattened(s) ==
  LET flatten[i \in 1..Len(s)] == IF i = 1 THEN s[i] ELSE flatten[i - 1] \o s[i] IN flatten

LEMMA FlattenedDef ==
  ASSUME NEW X, NEW s \in Seq(X)
  PROVE  Flattened(s) =
           [i \in 1..Len(s) |-> IF i = 1 THEN s[i] ELSE Flattened(s)[i - 1] \o s[i]]
<1> DEFINE Body(g, i) == IF i = 1 THEN s[i] ELSE g[i - 1] \o s[i]
           Sol(g, k) == \A i \in 1..Len(s) : i < k => g[i] = Body(g, i)
           S == {k \in Nat : \E g : Sol(g, k)}
<1>1. 0 \in S
  <2>1. Sol(0, 0)
    OBVIOUS
  <2> QED
    BY <2>1
<1>2. ASSUME NEW k \in Nat, k \in S PROVE k + 1 \in S
  <2>1. PICK g : Sol(g, k)
    BY <1>2
  <2> DEFINE h == [i \in 1..Len(s) |-> IF i < k THEN g[i] ELSE Body(g, i)]
  <2>2. ASSUME NEW i \in 1..Len(s), i < k + 1 PROVE h[i] = Body(h, i)
    <3>1. h[i] = Body(g, i)
      BY <2>1
    <3>2. i # 1 => i - 1 \in 1..Len(s) /\ i - 1 < k
      BY <2>2
    <3>3. i # 1 => h[i - 1] = g[i - 1]
      BY <3>2
    <3> QED
      BY <3>1, <3>3
  <2>3. Sol(h, k + 1)
    BY <2>2
  <2> HIDE DEF h
  <2> QED
    BY <2>3
<1>3. Nat \subseteq S
  <2> HIDE DEF S
  <2> QED
    BY <1>1, <1>2, StepInduction
<1>4. PICK g : Sol(g, Len(s) + 1)
  <2>1. Len(s) + 1 \in S
    <3> HIDE DEF S
    <3> QED
      BY <1>3
  <2> QED
    BY <2>1
<1> DEFINE f == [i \in 1..Len(s) |-> g[i]]
<1>5. f = [i \in 1..Len(s) |-> Body(f, i)]
  <2>1. ASSUME NEW i \in 1..Len(s) PROVE f[i] = Body(f, i)
    <3>1. f[i] = Body(g, i)
      BY <1>4
    <3>2. i # 1 => i - 1 \in 1..Len(s)
      OBVIOUS
    <3> QED
      BY <3>1, <3>2
  <2> QED
    BY <2>1
<1> HIDE DEF f
<1> QED
  BY <1>5 DEF Flattened

LEMMA FlattenedAt ==
  ASSUME NEW X, NEW s \in Seq(X), NEW n \in 1..Len(s)
  PROVE  Flattened(s)[n] = IF n = 1 THEN s[n] ELSE Flattened(s)[n - 1] \o s[n]
<1> DEFINE F == [i \in 1..Len(s) |-> IF i = 1 THEN s[i] ELSE Flattened(s)[i - 1] \o s[i]]
<1>1. Flattened(s) = F
  BY FlattenedDef
<1>2. F[n] = IF n = 1 THEN s[n] ELSE Flattened(s)[n - 1] \o s[n]
  OBVIOUS
<1> HIDE DEF F
<1> QED
  BY <1>1, <1>2

LEMMA RangeConcat ==
  ASSUME NEW X, NEW a \in Seq(X), NEW b \in Seq(X)
  PROVE  Range(a \o b) = Range(a) \cup Range(b)
<1>1. ASSUME NEW i \in DOMAIN a PROVE a[i] \in Range(a \o b)
  <2>1. i \in DOMAIN (a \o b) /\ (a \o b)[i] = a[i]
    OBVIOUS
  <2> QED
    BY <2>1 DEF Range
<1>2. ASSUME NEW i \in DOMAIN b PROVE b[i] \in Range(a \o b)
  <2>1. Len(a) + i \in DOMAIN (a \o b) /\ (a \o b)[Len(a) + i] = b[i]
    OBVIOUS
  <2> QED
    BY <2>1 DEF Range
<1>3. ASSUME NEW i \in DOMAIN (a \o b) PROVE (a \o b)[i] \in Range(a) \cup Range(b)
  <2>1. CASE i <= Len(a)
    <3>1. i \in DOMAIN a /\ (a \o b)[i] = a[i]
      BY <2>1
    <3> QED
      BY <3>1 DEF Range
  <2>2. CASE i > Len(a)
    <3>1. i - Len(a) \in DOMAIN b /\ (a \o b)[i] = b[i - Len(a)]
      BY <2>2
    <3> QED
      BY <3>1 DEF Range
  <2> QED
    BY <2>1, <2>2
<1>4. \A x : x \in Range(a \o b) <=> x \in Range(a) \cup Range(b)
  BY <1>1, <1>2, <1>3 DEF Range
<1> QED
  BY <1>4

\* x is in one of the sequences of s.
In(x, s) == \E i \in DOMAIN s : x \in Range(s[i])

\* Flattening keeps every element and adds none.
LEMMA FlattenIs ==
  ASSUME NEW X, NEW s \in Seq(Seq(X))
  PROVE  FlattenSeq(s) \in Seq(X) /\ \A x : x \in Range(FlattenSeq(s)) <=> In(x, s)
<1> DEFINE F == Flattened(s)
           Done(k) == F[k] \in Seq(X) /\ \A x : x \in Range(F[k]) <=> \E i \in 1..k : x \in Range(s[i])
           S == {k \in Nat : k + 1 <= Len(s) => Done(k + 1)}
<1>1. 0 \in S
  <2> SUFFICES ASSUME 1 <= Len(s) PROVE Done(1)
    OBVIOUS
  <2>1. 1 \in 1..Len(s) /\ s[1] \in Seq(X)
    OBVIOUS
  <2>2. F[1] = s[1]
    BY <2>1, FlattenedAt
  <2>3. \A i \in 1..1 : i = 1
    OBVIOUS
  <2>4. 1 \in 1..1
    OBVIOUS
  <2> HIDE DEF F
  <2> QED
    BY <2>1, <2>2, <2>3, <2>4
<1>2. ASSUME NEW k \in Nat, k \in S PROVE k + 1 \in S
  <2> SUFFICES ASSUME (k + 1) + 1 <= Len(s) PROVE Done((k + 1) + 1)
    OBVIOUS
  <2> DEFINE m == (k + 1) + 1
  <2>1. m \in 1..Len(s) /\ m # 1 /\ m - 1 = k + 1 /\ s[m] \in Seq(X) /\ k + 1 <= Len(s)
    OBVIOUS
  <2>2. Done(k + 1)
    BY <1>2, <2>1
  <2>3. F[m] = F[m - 1] \o s[m]
    BY <2>1, FlattenedAt
  <2>4. F[m] = F[k + 1] \o s[m]
    BY <2>1, <2>3
  <2> HIDE DEF F
  <2>5. F[m] \in Seq(X)
    BY <2>1, <2>2, <2>4
  <2>6. Range(F[m]) = Range(F[k + 1]) \cup Range(s[m])
    BY <2>1, <2>2, <2>4, RangeConcat
  <2>7. \A i \in 1..m : i \in 1..(k + 1) \/ i = m
    OBVIOUS
  <2>8. m \in 1..m /\ \A i \in 1..(k + 1) : i \in 1..m
    OBVIOUS
  <2> HIDE DEF m
  <2>9. \A x : x \in Range(F[m]) <=> \E i \in 1..m : x \in Range(s[i])
    BY <2>2, <2>6, <2>7, <2>8
  <2>10. Done(m)
    BY <2>5, <2>9
  <2> QED
    BY <2>10 DEF m
<1>3. Nat \subseteq S
  <2> HIDE DEF S
  <2> QED
    BY <1>1, <1>2, StepInduction
<1>4. CASE Len(s) = 0
  <2>1. s = <<>>
    BY <1>4
  <2>2. FlattenSeq(s) = <<>>
    BY <1>4, <2>1 DEF FlattenSeq
  <2>3. DOMAIN s = {} /\ <<>> \in Seq(X)
    BY <2>1
  <2>4. \A x : x \notin Range(<<>>)
    BY DEF Range
  <2> QED
    BY <2>2, <2>3, <2>4 DEF In
<1>5. CASE Len(s) # 0
  <2>1. Len(s) - 1 \in Nat /\ (Len(s) - 1) + 1 = Len(s) /\ DOMAIN s = 1..Len(s)
    BY <1>5
  <2>2. Len(s) - 1 \in S
    <3> HIDE DEF S
    <3> QED
      BY <1>3, <2>1
  <2>3. Done((Len(s) - 1) + 1)
    BY <2>1, <2>2
  <2>4. Done(Len(s))
    BY <2>1, <2>3
  <2>5. FlattenSeq(s) = F[Len(s)]
    BY <1>5 DEF FlattenSeq, Flattened
  <2> QED
    BY <2>1, <2>4, <2>5 DEF In
<1> QED
  BY <1>4, <1>5
-----------------------------------------------------------------------------
(* The levels of a JSON value *)

LEMMA NestingDef ==
  ASSUME NEW v
  PROVE  Levels(v) = [k \in 0..MaxDepth |-> IF k = 0 THEN {v} ELSE Inside(Levels(v)[k - 1])]
<1> MaxDepth \in Nat
  BY ScreenAssumption
<1> DEFINE Body(g, k) == IF k = 0 THEN {v} ELSE Inside(g[k - 1])
           Sol(g, j) == \A k \in 0..MaxDepth : k < j => g[k] = Body(g, k)
           S == {j \in Nat : \E g : Sol(g, j)}
<1>1. 0 \in S
  <2>1. Sol(0, 0)
    OBVIOUS
  <2> QED
    BY <2>1
<1>2. ASSUME NEW j \in Nat, j \in S PROVE j + 1 \in S
  <2>1. PICK g : Sol(g, j)
    BY <1>2
  <2> DEFINE h == [k \in 0..MaxDepth |-> IF k < j THEN g[k] ELSE Body(g, k)]
  <2>2. ASSUME NEW k \in 0..MaxDepth, k < j + 1 PROVE h[k] = Body(h, k)
    <3>1. h[k] = Body(g, k)
      BY <2>1
    <3>2. k # 0 => k - 1 \in 0..MaxDepth /\ k - 1 < j
      BY <2>2
    <3>3. k # 0 => h[k - 1] = g[k - 1]
      BY <3>2
    <3> QED
      BY <3>1, <3>3
  <2>3. Sol(h, j + 1)
    BY <2>2
  <2> HIDE DEF h
  <2> QED
    BY <2>3
<1>3. Nat \subseteq S
  <2> HIDE DEF S
  <2> QED
    BY <1>1, <1>2, StepInduction
<1>4. PICK g : Sol(g, MaxDepth + 1)
  <2>1. MaxDepth + 1 \in S
    <3> HIDE DEF S
    <3> QED
      BY <1>3
  <2> QED
    BY <2>1
<1> DEFINE f == [k \in 0..MaxDepth |-> g[k]]
<1>5. f = [k \in 0..MaxDepth |-> Body(f, k)]
  <2>1. ASSUME NEW k \in 0..MaxDepth PROVE f[k] = Body(f, k)
    <3>1. f[k] = Body(g, k)
      BY <1>4
    <3>2. k # 0 => k - 1 \in 0..MaxDepth
      OBVIOUS
    <3> QED
      BY <3>1, <3>2
  <2> QED
    BY <2>1
<1> HIDE DEF f
<1> QED
  BY <1>5 DEF Levels

LEMMA LevelsAt ==
  ASSUME NEW v
  PROVE  /\ Levels(v)[0] = {v} /\ 0 \in 0..MaxDepth
         /\ \A k \in 0..MaxDepth : k # 0 => Levels(v)[k] = Inside(Levels(v)[k - 1])
<1> DEFINE F == [k \in 0..MaxDepth |-> IF k = 0 THEN {v} ELSE Inside(Levels(v)[k - 1])]
<1>0. 0 \in 0..MaxDepth
  BY ScreenAssumption
<1>1. Levels(v) = F
  BY NestingDef
<1>2. \A k \in 0..MaxDepth : F[k] = IF k = 0 THEN {v} ELSE Inside(Levels(v)[k - 1])
  OBVIOUS
<1> HIDE DEF F
<1> QED
  BY <1>0, <1>1, <1>2

\* A value that can be in the hidden fields of a request.
IsNested(v) == Inside(Levels(v)[MaxDepth]) = {} /\ \A w \in Reachable(v) : IsJson(w)

\* The items of a value are a level further in.
LEMMA ItemsInside ==
  ASSUME NEW v, IsNested(v), NEW k \in 0..MaxDepth, NEW w \in Levels(v)[k], NEW i \in DOMAIN w.items
  PROVE  k + 1 \in 0..MaxDepth /\ w.items[i] \in Levels(v)[k + 1]
<1>1. w.items[i] \in Inside(Levels(v)[k])
  BY DEF Inside, Range
<1>2. k # MaxDepth
  BY <1>1 DEF IsNested
<1>3. k + 1 \in 0..MaxDepth /\ k + 1 # 0 /\ (k + 1) - 1 = k
  BY <1>2, ScreenAssumption
<1>4. Levels(v)[k + 1] = Inside(Levels(v)[(k + 1) - 1])
  BY <1>3, LevelsAt
<1> QED
  BY <1>1, <1>3, <1>4

LEMMA ReachableLevels ==
  ASSUME NEW v
  PROVE  /\ v \in Reachable(v)
         /\ \A w : w \in Reachable(v) <=> \E k \in 0..MaxDepth : w \in Levels(v)[k]
BY LevelsAt DEF Reachable

AllLeaves(v) ==
  LET Leaves[w \in Reachable(v)] ==
          IF w.t = "string" THEN <<w.text>>
          ELSE IF w.t \in {"array", "object"}
               THEN FlattenSeq([i \in DOMAIN w.items |-> Leaves[w.items[i]]])
          ELSE <<>>
  IN  Leaves

\* collect_string_leaves comes to an end, whatever the value.
LEMMA LeavesDef ==
  ASSUME NEW v, IsNested(v)
  PROVE  AllLeaves(v) =
           [w \in Reachable(v) |->
              IF w.t = "string" THEN <<w.text>>
              ELSE IF w.t \in {"array", "object"}
                   THEN FlattenSeq([i \in DOMAIN w.items |-> AllLeaves(v)[w.items[i]]])
              ELSE <<>>]
<1> MaxDepth \in Nat
  BY ScreenAssumption
<1> DEFINE L == Levels(v)
           R == Reachable(v)
           Items(g, w) == [i \in DOMAIN w.items |-> g[w.items[i]]]
           Body(g, w) == IF w.t = "string" THEN <<w.text>>
                         ELSE IF w.t \in {"array", "object"} THEN FlattenSeq(Items(g, w))
                         ELSE <<>>
           Deep(w, j) == \E k \in 0..MaxDepth : k > MaxDepth - j /\ w \in L[k]
           Sol(g, j) == \A w \in R : Deep(w, j) => g[w] = Body(g, w)
           S == {j \in Nat : \E g : Sol(g, j)}
<1>0. ASSUME NEW g, NEW h, NEW w, \A i \in DOMAIN w.items : g[w.items[i]] = h[w.items[i]]
      PROVE  Body(g, w) = Body(h, w)
  <2>1. Items(g, w) = Items(h, w)
    BY <1>0
  <2> HIDE DEF Items
  <2> QED
    BY <2>1
<1> HIDE DEF Body
<1>1. 0 \in S
  <2>1. Sol(0, 0)
    <3>1. ASSUME NEW w \in R, Deep(w, 0) PROVE FALSE
      BY <3>1
    <3> QED
      BY <3>1
  <2> QED
    BY <2>1
<1>2. ASSUME NEW j \in Nat, j \in S PROVE j + 1 \in S
  <2>1. PICK g : Sol(g, j)
    BY <1>2
  <2> DEFINE h == [w \in R |-> IF Deep(w, j) THEN g[w] ELSE Body(g, w)]
  <2>2. ASSUME NEW w \in R, Deep(w, j + 1) PROVE h[w] = Body(h, w)
    <3>1. h[w] = Body(g, w)
      BY <2>1
    <3>2. ASSUME NEW i \in DOMAIN w.items PROVE g[w.items[i]] = h[w.items[i]]
      <4>1. PICK k \in 0..MaxDepth : k > MaxDepth - (j + 1) /\ w \in L[k]
        BY <2>2
      <4>2. k + 1 \in 0..MaxDepth /\ w.items[i] \in L[k + 1]
        BY <4>1, ItemsInside
      <4>3. k + 1 > MaxDepth - j
        BY <4>1
      <4>4. Deep(w.items[i], j)
        BY <4>2, <4>3
      <4>5. w.items[i] \in R
        BY <4>2, ReachableLevels
      <4> QED
        BY <4>4, <4>5
    <3> HIDE DEF h
    <3>3. Body(g, w) = Body(h, w)
      BY <1>0, <3>2
    <3> QED
      BY <3>1, <3>3
  <2>3. Sol(h, j + 1)
    BY <2>2
  <2> HIDE DEF h
  <2> QED
    BY <2>3
<1>3. Nat \subseteq S
  <2> HIDE DEF S
  <2> QED
    BY <1>1, <1>2, StepInduction
<1>4. PICK g : Sol(g, MaxDepth + 1)
  <2>1. MaxDepth + 1 \in S
    <3> HIDE DEF S
    <3> QED
      BY <1>3
  <2> QED
    BY <2>1
<1>5. ASSUME NEW w \in R PROVE g[w] = Body(g, w)
  <2>1. PICK k \in 0..MaxDepth : w \in L[k]
    BY ReachableLevels
  <2>2. k > MaxDepth - (MaxDepth + 1)
    OBVIOUS
  <2> QED
    BY <1>4, <2>1, <2>2
<1> DEFINE f == [w \in R |-> g[w]]
<1>6. ASSUME NEW w \in R PROVE f[w] = Body(f, w)
  <2>1. f[w] = Body(g, w)
    BY <1>5
  <2>2. ASSUME NEW i \in DOMAIN w.items PROVE g[w.items[i]] = f[w.items[i]]
    <3>1. PICK k \in 0..MaxDepth : w \in L[k]
      BY ReachableLevels
    <3>2. w.items[i] \in R
      BY <3>1, ItemsInside, ReachableLevels
    <3> QED
      BY <3>2
  <2> HIDE DEF f
  <2>3. Body(g, w) = Body(f, w)
    BY <1>0, <2>2
  <2> QED
    BY <2>1, <2>3
<1>7. f = [w \in R |-> Body(f, w)]
  BY <1>6
<1> HIDE DEF f
<1> QED
  BY <1>7 DEF AllLeaves, Body

LEMMA LeavesAt ==
  ASSUME NEW v, IsNested(v), NEW w \in Reachable(v)
  PROVE  /\ w.t = "string" => AllLeaves(v)[w] = <<w.text>>
         /\ w.t \in {"array", "object"} =>
              AllLeaves(v)[w] = FlattenSeq([i \in DOMAIN w.items |-> AllLeaves(v)[w.items[i]]])
         /\ w.t \notin {"string", "array", "object"} => AllLeaves(v)[w] = <<>>
<1> DEFINE Body(u) == IF u.t = "string" THEN <<u.text>>
                      ELSE IF u.t \in {"array", "object"}
                           THEN FlattenSeq([i \in DOMAIN u.items |-> AllLeaves(v)[u.items[i]]])
                      ELSE <<>>
           F == [u \in Reachable(v) |-> Body(u)]
<1>1. AllLeaves(v) = F
  BY LeavesDef
<1>2. F[w] = Body(w)
  OBVIOUS
<1>3. AllLeaves(v)[w] = Body(w)
  <2> HIDE DEF F, Body
  <2> QED
    BY <1>1, <1>2
<1> DEFINE items == FlattenSeq([i \in DOMAIN w.items |-> AllLeaves(v)[w.items[i]]])
<1>4. AllLeaves(v)[w] = IF w.t = "string" THEN <<w.text>>
                        ELSE IF w.t \in {"array", "object"} THEN items ELSE <<>>
  BY <1>3
<1> HIDE DEF items, Body, F
<1>5. /\ w.t = "string" => AllLeaves(v)[w] = <<w.text>>
      /\ w.t \in {"array", "object"} => AllLeaves(v)[w] = items
      /\ w.t \notin {"string", "array", "object"} => AllLeaves(v)[w] = <<>>
  BY <1>4
<1> QED
  BY <1>5 DEF items

\* The leaves found below w are texts, and their tokens are those found below its items
\* and its own.
LEMMA LeavesOf ==
  ASSUME NEW v, IsNested(v), NEW w \in Reachable(v),
         \A i \in DOMAIN w.items : AllLeaves(v)[w.items[i]] \in Seq(Seq(Tokens))
  PROVE  /\ AllLeaves(v)[w] \in Seq(Seq(Tokens))
         /\ \A x : In(x, AllLeaves(v)[w]) <=>
              x \in Range(w.text) \/ \E i \in DOMAIN w.items : In(x, AllLeaves(v)[w.items[i]])
<1> DEFINE A == AllLeaves(v)
<1>1. IsJson(w)
  BY DEF IsNested
<1>2. CASE w.t = "string"
  <2>1. A[w] = <<w.text>> /\ w.text \in Seq(Tokens) /\ w.items = <<>>
    BY <1>1, <1>2, LeavesAt DEF IsJson
  <2> HIDE DEF A
  <2>2. A[w] \in Seq(Seq(Tokens)) /\ DOMAIN A[w] = {1} /\ A[w][1] = w.text /\ DOMAIN w.items = {}
    BY <2>1
  <2>3. \A x : In(x, A[w]) <=> x \in Range(w.text)
    BY <2>2 DEF In
  <2> QED
    BY <2>2, <2>3 DEF A
<1>3. CASE w.t \in {"array", "object"}
  <2> DEFINE s == [i \in DOMAIN w.items |-> A[w.items[i]]]
  <2>1. A[w] = FlattenSeq(s) /\ w.text = <<>> /\ w.items \in Seq(Range(w.items))
    BY <1>1, <1>3, LeavesAt DEF IsJson
  <2>2. DOMAIN w.items = 1..Len(w.items) /\ Len(w.items) \in Nat
    BY <2>1
  <2>3. s \in Seq(Seq(Seq(Tokens))) /\ DOMAIN s = DOMAIN w.items
        /\ \A i \in DOMAIN w.items : s[i] = A[w.items[i]]
    BY <2>2
  <2> HIDE DEF s, A
  <2>4. A[w] \in Seq(Seq(Tokens)) /\ \A y : y \in Range(A[w]) <=> In(y, s)
    BY <2>1, <2>3, FlattenIs
  <2>5. \A x : x \notin Range(w.text)
    BY <2>1 DEF Range
  <2>6. ASSUME NEW x PROVE In(x, A[w]) <=> \E i \in DOMAIN w.items : In(x, A[w.items[i]])
    <3>1. In(x, A[w]) <=> \E y : y \in Range(A[w]) /\ x \in Range(y)
      BY DEF In, Range
    <3>2. (\E i \in DOMAIN w.items : In(x, A[w.items[i]])) <=>
            \E i \in DOMAIN s : \E y : y \in Range(s[i]) /\ x \in Range(y)
      <4>1. \A i \in DOMAIN s : In(x, s[i]) <=> \E y : y \in Range(s[i]) /\ x \in Range(y)
        BY DEF In, Range
      <4>2. (\E i \in DOMAIN w.items : In(x, A[w.items[i]])) <=> \E i \in DOMAIN s : In(x, s[i])
        BY <2>3
      <4> QED
        BY <4>1, <4>2
    <3>3. (\E i \in DOMAIN s : \E y : y \in Range(s[i]) /\ x \in Range(y)) <=>
            \E y : In(y, s) /\ x \in Range(y)
      BY DEF In
    <3> QED
      BY <2>4, <3>1, <3>2, <3>3
  <2> QED
    BY <2>4, <2>5, <2>6 DEF A
<1>4. CASE w.t \notin {"string", "array", "object"}
  <2>1. A[w] = <<>> /\ w.text = <<>> /\ w.items = <<>>
    BY <1>1, <1>4, LeavesAt DEF IsJson
  <2> HIDE DEF A
  <2>2. A[w] \in Seq(Seq(Tokens)) /\ DOMAIN A[w] = {} /\ DOMAIN w.text = {} /\ DOMAIN w.items = {}
    BY <2>1
  <2> QED
    BY <2>2 DEF A, In, Range
<1> QED
  BY <1>2, <1>3, <1>4

\* Below every value of every level there are texts, of values inside v.
LEMMA LeavesDown ==
  ASSUME NEW v, IsNested(v), NEW w \in Reachable(v)
  PROVE  /\ AllLeaves(v)[w] \in Seq(Seq(Tokens))
         /\ \A x : In(x, AllLeaves(v)[w]) => \E u \in Reachable(v) : x \in Range(u.text)
<1> DEFINE A == AllLeaves(v)
           L == Levels(v)
           R == Reachable(v)
           Found(x) == \E u \in R : x \in Range(u.text)
           OK(u) == A[u] \in Seq(Seq(Tokens)) /\ \A x : In(x, A[u]) => Found(x)
           S == {j \in Nat : \A k \in 0..MaxDepth : k > MaxDepth - j => \A u \in L[k] : OK(u)}
<1> MaxDepth \in Nat
  BY ScreenAssumption
<1>1. 0 \in S
  <2>1. ASSUME NEW k \in 0..MaxDepth, k > MaxDepth - 0 PROVE FALSE
    BY <2>1
  <2> QED
    BY <2>1
<1>2. ASSUME NEW j \in Nat, j \in S PROVE j + 1 \in S
  <2>1. ASSUME NEW k \in 0..MaxDepth, k > MaxDepth - (j + 1), NEW u \in L[k] PROVE OK(u)
    <3>1. u \in R
      BY ReachableLevels
    <3>2. ASSUME NEW i \in DOMAIN u.items PROVE OK(u.items[i])
      <4>1. k + 1 \in 0..MaxDepth /\ u.items[i] \in L[k + 1]
        BY ItemsInside
      <4>2. k + 1 > MaxDepth - j
        BY <2>1
      <4> HIDE DEF OK, L
      <4> QED
        BY <1>2, <4>1, <4>2
    <3>3. /\ A[u] \in Seq(Seq(Tokens))
          /\ \A x : In(x, A[u]) <=>
               x \in Range(u.text) \/ \E i \in DOMAIN u.items : In(x, A[u.items[i]])
      BY <3>1, <3>2, LeavesOf
    <3> HIDE DEF A, R
    <3> QED
      BY <3>1, <3>2, <3>3
  <2> HIDE DEF OK, L
  <2> QED
    BY <2>1
<1>3. Nat \subseteq S
  <2> HIDE DEF S
  <2> QED
    BY <1>1, <1>2, StepInduction
<1>4. MaxDepth + 1 \in S
  <2> HIDE DEF S
  <2> QED
    BY <1>3
<1>5. PICK k \in 0..MaxDepth : w \in L[k]
  BY ReachableLevels
<1>6. k > MaxDepth - (MaxDepth + 1)
  OBVIOUS
<1>7. OK(w)
  <2> HIDE DEF OK, L
  <2> QED
    BY <1>4, <1>5, <1>6
<1> QED
  BY <1>7

\* What is found below a value is found below v.
LEMMA LeavesUp ==
  ASSUME NEW v, IsNested(v), NEW w \in Reachable(v), NEW x, In(x, AllLeaves(v)[w])
  PROVE  In(x, AllLeaves(v)[v])
<1> DEFINE A == AllLeaves(v)
           L == Levels(v)
           S == {k \in Nat : k <= MaxDepth => \A u \in L[k] : In(x, A[u]) => In(x, A[v])}
<1> MaxDepth \in Nat
  BY ScreenAssumption
<1>1. 0 \in S
  <2>1. L[0] = {v}
    BY LevelsAt
  <2> HIDE DEF L, A
  <2> QED
    BY <2>1
<1>2. ASSUME NEW k \in Nat, k \in S PROVE k + 1 \in S
  <2> SUFFICES ASSUME k + 1 <= MaxDepth, NEW u \in L[k + 1], In(x, A[u]) PROVE In(x, A[v])
    OBVIOUS
  <2>1. k + 1 \in 0..MaxDepth /\ k + 1 # 0 /\ (k + 1) - 1 = k /\ k \in 0..MaxDepth /\ k <= MaxDepth
    OBVIOUS
  <2>2. L[k + 1] = Inside(L[(k + 1) - 1])
    BY <2>1, LevelsAt
  <2>3. u \in Inside(L[k])
    BY <2>1, <2>2
  <2>4. PICK p \in L[k] : u \in Range(p.items)
    BY <2>3 DEF Inside
  <2>5. PICK i \in DOMAIN p.items : u = p.items[i]
    BY <2>4 DEF Range
  <2>6. p \in Reachable(v)
    BY <2>1, ReachableLevels
  <2>7. \A n \in DOMAIN p.items : A[p.items[n]] \in Seq(Seq(Tokens))
    BY <2>1, ItemsInside, ReachableLevels, LeavesDown
  <2>8. In(x, A[p])
    BY <2>5, <2>6, <2>7, LeavesOf
  <2> HIDE DEF L, A
  <2> QED
    BY <1>2, <2>1, <2>8
<1>3. Nat \subseteq S
  <2> HIDE DEF S
  <2> QED
    BY <1>1, <1>2, StepInduction
<1>4. PICK k \in 0..MaxDepth : w \in L[k]
  BY ReachableLevels
<1>5. k \in S /\ k <= MaxDepth
  <2> HIDE DEF S
  <2> QED
    BY <1>3
<1> HIDE DEF L
<1> QED
  BY <1>4, <1>5

\* collect_string_leaves finds every string at every depth, and nothing else.
LEMMA LeavesExact ==
  ASSUME NEW v, IsNested(v)
  PROVE  /\ StringLeaves(v) \in Seq(Seq(Tokens))
         /\ \A x : In(x, StringLeaves(v)) <=> \E u \in Reachable(v) : x \in Range(u.text)
<1>1. StringLeaves(v) = AllLeaves(v)[v]
  BY DEF StringLeaves, AllLeaves
<1>2. v \in Reachable(v)
  BY ReachableLevels
<1>3. AllLeaves(v)[v] \in Seq(Seq(Tokens))
  BY <1>2, LeavesDown
<1>4. ASSUME NEW x, In(x, AllLeaves(v)[v]) PROVE \E u \in Reachable(v) : x \in Range(u.text)
  BY <1>2, <1>4, LeavesDown
<1>5. ASSUME NEW x, NEW u \in Reachable(v), x \in Range(u.text) PROVE In(x, AllLeaves(v)[v])
  <2>1. PICK k \in 0..MaxDepth : u \in Levels(v)[k]
    BY ReachableLevels
  <2>2. \A n \in DOMAIN u.items : AllLeaves(v)[u.items[n]] \in Seq(Seq(Tokens))
    BY <2>1, ItemsInside, ReachableLevels, LeavesDown
  <2>3. In(x, AllLeaves(v)[u])
    BY <1>5, <2>2, LeavesOf
  <2> QED
    BY <2>3, LeavesUp
<1> QED
  BY <1>1, <1>3, <1>4, <1>5

\* The texts of the messages of one role.
LEMMA MessagesExact ==
  ASSUME NEW b, IsRequest(b), NEW role
  PROVE  /\ MessagesOf(role, b) \in Seq(Seq(Tokens))
         /\ \A x : In(x, MessagesOf(role, b)) <=>
              \E m \in Range(b.messages) : m.role = role /\ x \in Range(m.content.text)
<1> DEFINE Of(m) == IF m.role = role THEN <<m.content.text>> ELSE <<>>
           s == [i \in DOMAIN b.messages |-> Of(b.messages[i])]
<1>1. /\ b.messages \in Seq(Range(b.messages))
      /\ \A m \in Range(b.messages) : m.content.text \in Seq(Tokens)
  BY DEF IsRequest, IsJson
<1>2. /\ DOMAIN b.messages = 1..Len(b.messages) /\ Len(b.messages) \in Nat
      /\ \A i \in DOMAIN b.messages : b.messages[i] \in Range(b.messages)
  BY <1>1
<1>3. \A i \in DOMAIN b.messages : Of(b.messages[i]) \in Seq(Seq(Tokens))
  BY <1>1, <1>2
<1>4. /\ s \in Seq(Seq(Seq(Tokens))) /\ DOMAIN s = DOMAIN b.messages
      /\ \A i \in DOMAIN s : s[i] = Of(b.messages[i])
  <2> HIDE DEF Of
  <2> QED
    BY <1>2, <1>3
<1>5. MessagesOf(role, b) = FlattenSeq(s)
  BY DEF MessagesOf
<1>6. \A m, y : y \in Range(Of(m)) <=> m.role = role /\ y = m.content.text
  <2>1. ASSUME NEW y, NEW z PROVE z \in Range(<<y>>) <=> z = y
    BY DEF Range
  <2>2. ASSUME NEW z PROVE z \notin Range(<<>>)
    BY DEF Range
  <2> QED
    BY <2>1, <2>2
<1> HIDE DEF s, Of
<1>7. MessagesOf(role, b) \in Seq(Seq(Tokens)) /\ \A y : y \in Range(MessagesOf(role, b)) <=> In(y, s)
  BY <1>4, <1>5, FlattenIs
<1>8. \A y : In(y, s) <=> \E m \in Range(b.messages) : m.role = role /\ y = m.content.text
  <2>1. \A y : In(y, s) <=> \E i \in DOMAIN b.messages : y \in Range(Of(b.messages[i]))
    BY <1>4 DEF In
  <2>2. \A y : (\E i \in DOMAIN b.messages : y \in Range(Of(b.messages[i]))) <=>
                 \E m \in Range(b.messages) : y \in Range(Of(m))
    BY DEF Range
  <2> QED
    BY <1>6, <2>1, <2>2
<1>9. \A x : In(x, MessagesOf(role, b)) <=> \E y : y \in Range(MessagesOf(role, b)) /\ x \in Range(y)
  BY DEF In, Range
<1> QED
  BY <1>7, <1>8, <1>9

LEMMA InConcat ==
  ASSUME NEW X, NEW a \in Seq(Seq(X)), NEW b \in Seq(Seq(X))
  PROVE  a \o b \in Seq(Seq(X)) /\ \A x : In(x, a \o b) <=> In(x, a) \/ In(x, b)
<1>1. Range(a \o b) = Range(a) \cup Range(b)
  BY RangeConcat
<1>2. \A x, s : In(x, s) <=> \E y : y \in Range(s) /\ x \in Range(y)
  BY DEF In, Range
<1> QED
  BY <1>1, <1>2

LEMMA HiddenExact ==
  ASSUME NEW b, IsRequest(b)
  PROVE  /\ HiddenFields(b) \in Seq(Seq(Tokens))
         /\ \A x : In(x, HiddenFields(b)) <=>
              \/ In(x, MessagesOf("system", b))
              \/ \E h \in Range(b.hidden) : \E u \in Reachable(h) : x \in Range(u.text)
<1> DEFINE s == [i \in DOMAIN b.hidden |-> StringLeaves(b.hidden[i])]
<1>1. b.hidden \in Seq(Range(b.hidden)) /\ \A h \in Range(b.hidden) : IsNested(h)
  BY DEF IsRequest, IsNested
<1>2. /\ DOMAIN b.hidden = 1..Len(b.hidden) /\ Len(b.hidden) \in Nat
      /\ \A i \in DOMAIN b.hidden : b.hidden[i] \in Range(b.hidden)
  BY <1>1
<1>3. \A i \in DOMAIN b.hidden : StringLeaves(b.hidden[i]) \in Seq(Seq(Tokens))
  BY <1>1, <1>2, LeavesExact
<1>4. /\ s \in Seq(Seq(Seq(Tokens))) /\ DOMAIN s = DOMAIN b.hidden
      /\ \A i \in DOMAIN s : s[i] = StringLeaves(b.hidden[i])
  BY <1>2, <1>3
<1>5. HiddenFields(b) = MessagesOf("system", b) \o FlattenSeq(s)
  BY DEF HiddenFields
<1> HIDE DEF s
<1>6. FlattenSeq(s) \in Seq(Seq(Tokens)) /\ \A y : y \in Range(FlattenSeq(s)) <=> In(y, s)
  BY <1>4, FlattenIs
<1>7. ASSUME NEW x
      PROVE  In(x, FlattenSeq(s)) <=>
               \E h \in Range(b.hidden) : \E u \in Reachable(h) : x \in Range(u.text)
  <2>1. In(x, FlattenSeq(s)) <=> \E y : y \in Range(FlattenSeq(s)) /\ x \in Range(y)
    BY DEF In, Range
  <2>2. In(x, FlattenSeq(s)) <=> \E i \in DOMAIN s : In(x, s[i])
    <3>1. \A i \in DOMAIN s : In(x, s[i]) <=> \E y : y \in Range(s[i]) /\ x \in Range(y)
      BY DEF In, Range
    <3>2. \A y : In(y, s) <=> \E i \in DOMAIN s : y \in Range(s[i])
      BY DEF In
    <3> QED
      BY <1>6, <2>1, <3>1, <3>2
  <2>3. \A i \in DOMAIN s : In(x, s[i]) <=> \E u \in Reachable(b.hidden[i]) : x \in Range(u.text)
    BY <1>1, <1>2, <1>4, LeavesExact
  <2>4. \A h : h \in Range(b.hidden) <=> \E i \in DOMAIN b.hidden : h = b.hidden[i]
    BY DEF Range
  <2> QED
    BY <1>4, <2>2, <2>3, <2>4
<1>8. MessagesOf("system", b) \in Seq(Seq(Tokens))
  BY MessagesExact
<1> QED
  BY <1>5, <1>6, <1>7, <1>8, InConcat

\* parse_request misses no text: the tokens to screen are those of the messages of the
\* user and the system and of every string at any depth of the hidden fields.
THEOREM EveryTextIsScreened ==
  ASSUME NEW b \in RunRequests
  PROVE  /\ FlattenSeq(InspectedTexts(b)) \in Seq(Tokens)
         /\ Range(FlattenSeq(InspectedTexts(b))) = InspectedTokens(b)
<1> DEFINE s == InspectedTexts(b)
<1>1. IsRequest(b)
  BY ScreenAssumption
<1>2. /\ MessagesOf("user", b) \in Seq(Seq(Tokens)) /\ MessagesOf("system", b) \in Seq(Seq(Tokens))
      /\ \A x : In(x, MessagesOf("user", b)) <=>
           \E m \in Range(b.messages) : m.role = "user" /\ x \in Range(m.content.text)
      /\ \A x : In(x, MessagesOf("system", b)) <=>
           \E m \in Range(b.messages) : m.role = "system" /\ x \in Range(m.content.text)
  BY <1>1, MessagesExact
<1>3. s = MessagesOf("user", b) \o HiddenFields(b)
  BY DEF InspectedTexts
<1> HIDE DEF s
<1>4. s \in Seq(Seq(Tokens)) /\ \A x : In(x, s) <=> In(x, MessagesOf("user", b)) \/ In(x, HiddenFields(b))
  BY <1>1, <1>2, <1>3, HiddenExact, InConcat
<1>5. FlattenSeq(s) \in Seq(Tokens) /\ \A x : x \in Range(FlattenSeq(s)) <=> In(x, s)
  BY <1>4, FlattenIs
<1>6. ASSUME NEW x PROVE x \in InspectedTokens(b) <=> In(x, s)
  <2>1. x \in InspectedTokens(b) <=>
          \/ \E m \in Range(b.messages) : m.role \in {"user", "system"} /\ x \in Range(m.content.text)
          \/ \E h \in Range(b.hidden) : \E u \in Reachable(h) : x \in Range(u.text)
    <3>1. x \in MessageTokens(b) <=>
            \E m \in Range(b.messages) : m.role \in {"user", "system"} /\ x \in Range(m.content.text)
      BY DEF MessageTokens
    <3>2. x \in HiddenTokens(b) <=>
            \E h \in Range(b.hidden) : \E u \in Reachable(h) : x \in Range(u.text)
      BY DEF HiddenTokens
    <3> QED
      BY <3>1, <3>2 DEF InspectedTokens
  <2>2. In(x, HiddenFields(b)) <=>
          \/ In(x, MessagesOf("system", b))
          \/ \E h \in Range(b.hidden) : \E u \in Reachable(h) : x \in Range(u.text)
    BY <1>1, HiddenExact
  <2> QED
    BY <1>2, <1>4, <2>1, <2>2
<1>7. Range(FlattenSeq(s)) = InspectedTokens(b)
  BY <1>5, <1>6
<1> QED
  BY <1>5, <1>7 DEF s
-----------------------------------------------------------------------------
(* The addresses *)

LEMMA SegmentIs == \A x : x \in Segment <=> x \in Nat /\ x < 256 * 256
<1>1. U16(255, 255) = 256 * 256 - 1
  BY DEF U16
<1> QED
  BY <1>1 DEF Segment

LEMMA AddressSeq ==
  ASSUME NEW n \in Nat, NEW S \in SUBSET Nat, NEW ip \in [1..n -> S]
  PROVE  ip \in Seq(Nat) /\ Len(ip) = n /\ DOMAIN ip = 1..n
<1>1. ip \in [1..n -> Nat]
  OBVIOUS
<1>2. ip \in Seq(Nat)
  BY <1>1, SeqDef
<1>3. DOMAIN ip = 1..n /\ DOMAIN ip = 1..Len(ip) /\ Len(ip) \in Nat
  BY <1>1, <1>2, LenProperties
<1>4. Len(ip) = n
  BY <1>3
<1> QED
  BY <1>2, <1>3, <1>4

LEMMA AddressForms ==
  ASSUME NEW ip \in Address
  PROVE  \/ ip \in [1..4 -> Octet] /\ ip \in Seq(Nat) /\ Len(ip) = 4 /\ DOMAIN ip = 1..4
         \/ ip \in [1..8 -> Segment] /\ ip \in Seq(Nat) /\ Len(ip) = 8 /\ DOMAIN ip = 1..8
<1>1. Octet \in SUBSET Nat /\ Segment \in SUBSET Nat
  BY SegmentIs DEF Octet
<1>2. CASE ip \in [1..4 -> Octet]
  BY <1>1, <1>2, AddressSeq
<1>3. CASE ip \in [1..8 -> Segment]
  BY <1>1, <1>3, AddressSeq
<1> QED
  BY <1>2, <1>3 DEF Address

\* The reference of an address with four octets.
InternalOctets(a) ==
  \/ U16(a[1], a[2]) \in InternalV4
  \/ \E o \in {0, 255} : \A i \in 1..4 : a[i] = o

LEMMA OctetsAgree ==
  ASSUME NEW a \in Seq(Nat), Len(a) = 4, \A i \in 1..4 : a[i] \in Octet
  PROVE  IsBlockedV4(a) <=> InternalOctets(a)
<1>1. a[1] \in Octet /\ a[2] \in Octet /\ a[3] \in Octet /\ a[4] \in Octet
  OBVIOUS
<1>2. a = <<0, 0, 0, 0>> <=> \A i \in 1..4 : a[i] = 0
  OBVIOUS
<1>3. a = <<255, 255, 255, 255>> <=> \A i \in 1..4 : a[i] = 255
  OBVIOUS
<1>4. IsLoopbackV4(a) \/ IsPrivateV4(a) \/ IsLinkLocalV4(a) <=> U16(a[1], a[2]) \in InternalV4
  <2> DEFINE p == a[1]
             q == a[2]
  <2>1. p \in Octet /\ q \in Octet
    BY <1>1
  <2> HIDE DEF p, q
  <2>2. q \div 16 = 1 <=> 16 <= q /\ q <= 31
    BY <2>1 DEF Octet
  <2>3. U16(p, q) \in InternalV4 <=>
          \/ p = 127 \/ p = 10 \/ (p = 172 /\ 16 <= q /\ q <= 31)
          \/ (p = 192 /\ q = 168) \/ (p = 169 /\ q = 254)
    BY <2>1 DEF InternalV4, Octet, U16
  <2>4. \/ p = 127 \/ p = 10 \/ (p = 172 /\ q \div 16 = 1)
        \/ (p = 192 /\ q = 168) \/ (p = 169 /\ q = 254)
        <=> U16(p, q) \in InternalV4
    BY <2>2, <2>3
  <2> QED
    BY <2>4 DEF p, q, IsLoopbackV4, IsPrivateV4, IsLinkLocalV4
<1> QED
  BY <1>2, <1>3, <1>4 DEF IsBlockedV4, InternalOctets

\* The zeros of eight segments.
Zeros(a) == {i \in DOMAIN a : a[i] = 0}

LEMMA ZeroCount ==
  ASSUME NEW a, DOMAIN a = 1..8
  PROVE  /\ Cardinality(Zeros(a)) = 8 <=> \A i \in 1..8 : a[i] = 0
         /\ Cardinality(Zeros(a)) = 7 /\ a[8] # 0 <=> a[8] # 0 /\ \A i \in 1..7 : a[i] = 0
<1>1. IsFiniteSet(1..8) /\ Cardinality(1..8) = 8 /\ IsFiniteSet(1..7) /\ Cardinality(1..7) = 7
  <2>1. ASSUME NEW n \in Nat PROVE IsFiniteSet(1..n) /\ Cardinality(1..n) = n
    BY FS_Interval
  <2> QED
    BY <2>1
<1>2. Zeros(a) \subseteq 1..8
  BY DEF Zeros
<1>3. Cardinality(Zeros(a)) = 8 <=> Zeros(a) = 1..8
  BY <1>1, <1>2, FS_Subset
<1>4. (Zeros(a) = 1..8) <=> \A i \in 1..8 : a[i] = 0
  BY DEF Zeros
<1>5. ASSUME a[8] # 0 PROVE Cardinality(Zeros(a)) = 7 <=> \A i \in 1..7 : a[i] = 0
  <2>1. Zeros(a) \subseteq 1..7
    <3>1. 8 \notin Zeros(a)
      BY <1>5 DEF Zeros
    <3> QED
      BY <1>2, <3>1
  <2>2. Cardinality(Zeros(a)) = 7 <=> Zeros(a) = 1..7
    BY <1>1, <2>1, FS_Subset
  <2>3. (Zeros(a) = 1..7) <=> \A i \in 1..7 : a[i] = 0
    <3>1. ASSUME NEW i \in 1..7 PROVE i \in Zeros(a) <=> a[i] = 0
      BY DEF Zeros
    <3> QED
      BY <2>1, <3>1
  <2> QED
    BY <2>2, <2>3
<1> QED
  BY <1>3, <1>4, <1>5

\* A prefix, place by place.
PrefixIs(a, n) ==
  /\ SubSeq(a, 1, n) \in Seq(Nat) /\ Len(SubSeq(a, 1, n)) = n
  /\ \A i \in 1..n : SubSeq(a, 1, n)[i] = a[i]

\* The prefixes the code compares, segment by segment.
LEMMA SegmentPrefixes ==
  ASSUME NEW a \in Seq(Nat), Len(a) = 8
  PROVE  /\ IsMapped(a) <=> a[6] = U16(255, 255) /\ \A i \in 1..5 : a[i] = 0
         /\ SubSeq(a, 1, 7) = <<0, 0, 0, 0, 0, 0, 0>> <=> \A i \in 1..7 : a[i] = 0
<1>0. ASSUME NEW n \in Nat, n <= 8
      PROVE  PrefixIs(a, n)
  <2>1. ASSUME NEW i \in 1..n PROVE a[i] \in Nat
    <3>1. i \in 1..Len(a)
      BY <1>0
    <3> QED
      BY <3>1, ElementOfSeq
  <2>2. /\ SubSeq(a, 1, n) \in Seq(Nat) /\ Len(SubSeq(a, 1, n)) = IF 1 <= n THEN n - 1 + 1 ELSE 0
        /\ \A i \in 1..n - 1 + 1 : SubSeq(a, 1, n)[i] = a[1 + i - 1]
    BY <2>1, SubSeqProperties
  <2>3. Len(SubSeq(a, 1, n)) = n
    BY <2>2
  <2>4. ASSUME NEW i \in 1..n PROVE SubSeq(a, 1, n)[i] = a[i]
    <3>1. i \in 1..n - 1 + 1 /\ 1 + i - 1 = i
      OBVIOUS
    <3> QED
      BY <2>2, <3>1
  <2> QED
    BY <2>2, <2>3, <2>4 DEF PrefixIs
<1>1. /\ SubSeq(a, 1, 6) \in Seq(Nat) /\ Len(SubSeq(a, 1, 6)) = 6
      /\ \A i \in 1..6 : SubSeq(a, 1, 6)[i] = a[i]
  <2>1. PrefixIs(a, 6)
    BY <1>0
  <2> QED
    BY <2>1 DEF PrefixIs
<1>2. /\ SubSeq(a, 1, 7) \in Seq(Nat) /\ Len(SubSeq(a, 1, 7)) = 7
      /\ \A i \in 1..7 : SubSeq(a, 1, 7)[i] = a[i]
  <2>1. PrefixIs(a, 7)
    BY <1>0
  <2> QED
    BY <2>1 DEF PrefixIs
<1>3. IsMapped(a) <=> a[6] = U16(255, 255) /\ \A i \in 1..5 : a[i] = 0
  <2> DEFINE s == SubSeq(a, 1, 6)
  <2>1. s \in Seq(Nat) /\ Len(s) = 6 /\ \A i \in 1..6 : s[i] = a[i]
    BY <1>1
  <2> HIDE DEF s
  <2>2. s = <<0, 0, 0, 0, 0, U16(255, 255)>> <=>
          s[1] = 0 /\ s[2] = 0 /\ s[3] = 0 /\ s[4] = 0 /\ s[5] = 0 /\ s[6] = U16(255, 255)
    BY <2>1
  <2>3. (\A i \in 1..5 : a[i] = 0) <=> a[1] = 0 /\ a[2] = 0 /\ a[3] = 0 /\ a[4] = 0 /\ a[5] = 0
    OBVIOUS
  <2> QED
    BY <2>1, <2>2, <2>3 DEF IsMapped, s
<1>4. SubSeq(a, 1, 7) = <<0, 0, 0, 0, 0, 0, 0>> <=> \A i \in 1..7 : a[i] = 0
  <2> DEFINE s == SubSeq(a, 1, 7)
  <2>1. s \in Seq(Nat) /\ Len(s) = 7 /\ \A i \in 1..7 : s[i] = a[i]
    BY <1>2
  <2> HIDE DEF s
  <2>2. s = <<0, 0, 0, 0, 0, 0, 0>> <=>
          s[1] = 0 /\ s[2] = 0 /\ s[3] = 0 /\ s[4] = 0 /\ s[5] = 0 /\ s[6] = 0 /\ s[7] = 0
    BY <2>1
  <2>3. (\A i \in 1..7 : a[i] = 0) <=>
          a[1] = 0 /\ a[2] = 0 /\ a[3] = 0 /\ a[4] = 0 /\ a[5] = 0 /\ a[6] = 0 /\ a[7] = 0
    OBVIOUS
  <2> QED
    BY <2>1, <2>2, <2>3 DEF s
<1> QED
  BY <1>3, <1>4

\* is_blocked refuses exactly the internal networks, for all addresses of both families,
\* those written as an IPv4 address inside an IPv6 one included.
THEOREM BlockedIsInternal ==
  ASSUME NEW ip \in Address
  PROVE  IsBlocked(ip) <=> InternalAddress(ip)
<1>1. CASE ip \in [1..4 -> Octet] /\ ip \in Seq(Nat) /\ Len(ip) = 4
  <2>1. IsBlockedV4(ip) <=> InternalOctets(ip)
    BY <1>1, OctetsAgree
  <2>2. IsBlocked(ip) <=> IsBlockedV4(ip)
    BY <1>1 DEF IsBlocked
  <2>3. InternalAddress(ip) <=> InternalOctets(ip)
    BY <1>1 DEF InternalAddress, InternalOctets
  <2> QED
    BY <2>1, <2>2, <2>3
<1>2. CASE ip \in [1..8 -> Segment] /\ ip \in Seq(Nat) /\ Len(ip) = 8 /\ DOMAIN ip = 1..8
  <2> DEFINE m == Mapped(ip)
  <2>1. /\ ip[1] \in Segment /\ ip[7] \in Segment /\ ip[8] \in Segment
    BY <1>2
  <2>2. m \in Seq(Nat) /\ Len(m) = 4 /\ \A i \in 1..4 : m[i] \in Octet
    <3>1. \A x \in Segment : x \div 256 \in Octet /\ x % 256 \in Octet
      <4> SUFFICES ASSUME NEW x \in Segment PROVE x \div 256 \in Octet /\ x % 256 \in Octet
        OBVIOUS
      <4>1. x \in Nat /\ x < 256 * 256
        BY SegmentIs
      <4>2. x \div 256 \in 0..255
        BY <4>1
      <4>3. x % 256 \in 0..255
        BY <4>1
      <4> QED
        BY <4>2, <4>3 DEF Octet
    <3>2. Octet \in SUBSET Nat
      BY DEF Octet
    <3> DEFINE f == <<ip[7] \div 256, ip[7] % 256, ip[8] \div 256, ip[8] % 256>>
    <3>3. \A i \in 1..4 : f[i] \in Octet
      BY <2>1, <3>1
    <3>4. f \in Seq(Octet) /\ Len(f) = 4
      BY <2>1, <3>1
    <3>5. f \in Seq(Nat)
      BY <3>2, <3>4, SeqMonotonic
    <3> QED
      BY <3>3, <3>4, <3>5 DEF Mapped
  <2>3. IsBlockedV4(m) <=> InternalOctets(m)
    BY <2>2, OctetsAgree
  <2>4. IsBlocked(ip) <=> IsBlockedV6(ip)
    BY <1>2 DEF IsBlocked
  <2>5. CASE IsMapped(ip)
    <3>1. ip[6] = U16(255, 255) /\ \A i \in 1..5 : ip[i] = 0
      BY <1>2, <2>5, SegmentPrefixes
    <3>2. IsBlockedV6(ip) <=> IsBlockedV4(m)
      BY <2>5 DEF IsBlockedV6
    <3>3. InternalAddress(ip) <=> InternalOctets(m)
      BY <1>2, <3>1 DEF InternalAddress, InternalOctets, Mapped
    <3> QED
      BY <2>3, <2>4, <3>2, <3>3
  <2>6. CASE ~IsMapped(ip)
    <3>1. ~(ip[6] = U16(255, 255) /\ \A i \in 1..5 : ip[i] = 0)
      BY <1>2, <2>6, SegmentPrefixes
    <3> DEFINE c == Cardinality(Zeros(ip))
               x == ip[1]
               y == ip[8]
    <3>2. IsBlockedV6(ip) <=> \/ (\A i \in 1..7 : ip[i] = 0) /\ y \in {0, 1}
                              \/ x \div 512 = U16(252, 0) \div 512 \/ x \div 64 = U16(254, 128) \div 64
      BY <1>2, <2>6, SegmentPrefixes DEF IsBlockedV6
    <3>3. InternalAddress(ip) <=> x \in InternalV6 \/ c = 8 \/ (c = 7 /\ y = 1)
      BY <1>2, <3>1 DEF InternalAddress, Zeros
    <3>4. c = 8 <=> (\A i \in 1..7 : ip[i] = 0) /\ y = 0
      <4>1. c = 8 <=> \A i \in 1..8 : ip[i] = 0
        BY <1>2, ZeroCount
      <4> QED
        BY <4>1
    <3>5. c = 7 /\ y = 1 <=> (\A i \in 1..7 : ip[i] = 0) /\ y = 1
      <4>1. c = 7 /\ ip[8] # 0 <=> ip[8] # 0 /\ \A i \in 1..7 : ip[i] = 0
        BY <1>2, ZeroCount
      <4> QED
        BY <4>1
    <3>6. x \in InternalV6 <=> x \div 512 = U16(252, 0) \div 512 \/ x \div 64 = U16(254, 128) \div 64
      <4>1. x \in Segment
        BY <2>1
      <4> HIDE DEF x
      <4> QED
        <5>1. x \in Nat
          BY <4>1, SegmentIs
        <5>2. U16(252, 0) = 126 * 512 /\ U16(253, 255) = 127 * 512 - 1
          BY DEF U16
        <5>3. U16(254, 128) = 1018 * 64 /\ U16(254, 191) = 1019 * 64 - 1
          BY DEF U16
        <5>4. x \div 512 = 126 <=> 126 * 512 <= x /\ x <= 127 * 512 - 1
          BY <5>1
        <5>5. x \div 64 = 1018 <=> 1018 * 64 <= x /\ x <= 1019 * 64 - 1
          BY <5>1
        <5>6. (126 * 512) \div 512 = 126 /\ (1018 * 64) \div 64 = 1018
          OBVIOUS
        <5> QED
          BY <5>1, <5>2, <5>3, <5>4, <5>5, <5>6 DEF InternalV6
    <3> HIDE DEF c, x, y
    <3> QED
      BY <2>4, <3>2, <3>3, <3>4, <3>5, <3>6
  <2> QED
    BY <2>5, <2>6
<1> QED
  BY <1>1, <1>2, AddressForms
-----------------------------------------------------------------------------
(* The screen *)

\* first_disallowed_url refuses a token at once exactly if the token names an internal
\* target without being resolved.
LEMMA VerdictIsInternal ==
  ASSUME NEW t \in Tokens
  PROVE  t.url /\ UrlVerdict(t) = "Blocked" <=> NamesInternal(t)
<1> DEFINE domain == t.host.domain
           ip == t.host.ip
<1>1. IsToken(t)
  BY ScreenAssumption
<1>2. /\ t.url \in BOOLEAN /\ t.parses \in BOOLEAN
      /\ ip # <<>> => ip \in Address
      /\ domain # <<>> => ip = <<>>
  BY <1>1 DEF IsToken
<1>3. ip # <<>> => (IsBlocked(ip) <=> InternalAddress(ip))
  BY <1>2, BlockedIsInternal
<1>4. BlockedDomain(domain) <=> \/ domain[Len(domain)] = "localhost"
                                \/ domain = <<"metadata", "google", "internal">>
  BY DEF BlockedDomain, Last
<1>5. NamesInternal(t) <=>
        /\ t.url /\ t.parses
        /\ \/ t.scheme \notin {"http", "https"}
           \/ ip # <<>> /\ InternalAddress(ip)
           \/ domain # <<>> /\ BlockedDomain(domain)
  BY <1>4 DEF NamesInternal
<1>6. UrlVerdict(t) = "Blocked" <=>
        /\ t.parses
        /\ \/ t.scheme \notin {"http", "https"}
           \/ IF domain # <<>> THEN BlockedDomain(domain) ELSE ip # <<>> /\ IsBlocked(ip)
  BY <1>2 DEF UrlVerdict
<1> HIDE DEF domain, ip
<1> QED
  BY <1>2, <1>3, <1>5, <1>6

\* The tokens still to be screened are all of the request, but for those that name no
\* internal target; nothing the resolver answered so far is internal; and a verdict has
\* its reason.
Screened(b, ts, fd) ==
  /\ Range(ts) \subseteq InspectedTokens(b)
  /\ \A t \in InspectedTokens(b) : NamesInternal(t) => t \in Range(ts)
  /\ \A ip \in fd : ~InternalAddress(ip)

HasInternal(b, fd) ==
  \/ \E t \in InspectedTokens(b) : NamesInternal(t)
  \/ \E ip \in fd : InternalAddress(ip)

ScreenInvAt(b, ts, rs, fd, oc) ==
  /\ b \in RunRequests /\ ts \in Seq(Tokens) /\ fd \subseteq Address
  /\ oc \in {"received", "screening", "rejected", "clear", "malformed"}
  /\ rs # <<>> => oc = "screening"
  /\ oc \in {"received", "malformed"} => fd = {}
  /\ oc = "screening" => Screened(b, ts, fd)
  /\ oc = "clear" => ~HasInternal(b, fd)
  /\ oc = "rejected" => HasInternal(b, fd)

ScreenInv == ScreenInvAt(body, texts, resolving, found, outcome)

LEMMA HeadAndTail ==
  ASSUME NEW S, NEW s \in Seq(S), s # <<>>
  PROVE  /\ Head(s) \in S /\ Head(s) \in Range(s) /\ Tail(s) \in Seq(S)
         /\ Range(Tail(s)) \subseteq Range(s)
         /\ \A x \in Range(s) : x = Head(s) \/ x \in Range(Tail(s))
<1>1. /\ Len(s) \in Nat \ {0} /\ DOMAIN s = 1..Len(s) /\ Head(s) = s[1] /\ Head(s) \in S
  OBVIOUS
<1>2. /\ Tail(s) \in Seq(S) /\ Len(Tail(s)) = Len(s) - 1 /\ DOMAIN Tail(s) = 1..Len(s) - 1
      /\ \A i \in 1..Len(s) - 1 : Tail(s)[i] = s[i + 1]
  OBVIOUS
<1>3. Head(s) \in Range(s)
  BY <1>1 DEF Range
<1>4. ASSUME NEW x \in Range(Tail(s)) PROVE x \in Range(s)
  <2>1. PICK i \in 1..Len(s) - 1 : x = Tail(s)[i]
    BY <1>2 DEF Range
  <2>2. x = s[i + 1] /\ i + 1 \in DOMAIN s
    BY <1>1, <1>2, <2>1
  <2> QED
    BY <2>2 DEF Range
<1>5. ASSUME NEW x \in Range(s), x # Head(s) PROVE x \in Range(Tail(s))
  <2>1. PICK i \in 1..Len(s) : x = s[i]
    BY <1>1 DEF Range
  <2>2. i # 1
    BY <1>1, <1>5, <2>1
  <2> DEFINE k == i - 1
  <2>3. k \in 1..Len(s) - 1 /\ k + 1 = i
    BY <1>1, <2>2
  <2> HIDE DEF k
  <2>4. x = Tail(s)[k] /\ k \in DOMAIN Tail(s)
    BY <1>2, <2>1, <2>3
  <2> QED
    BY <2>4 DEF Range
<1> QED
  BY <1>1, <1>2, <1>3, <1>4, <1>5

LEMMA AnswerJudged ==
  ASSUME NEW ips \in Seq(Address)
  PROVE  /\ Range(ips) \subseteq Address
         /\ (\E i \in DOMAIN ips : IsBlocked(ips[i])) <=> \E ip \in Range(ips) : InternalAddress(ip)
<1>1. \A i \in DOMAIN ips : ips[i] \in Address
  OBVIOUS
<1>2. \A i \in DOMAIN ips : IsBlocked(ips[i]) <=> InternalAddress(ips[i])
  BY <1>1, BlockedIsInternal
<1>3. (\E ip \in Range(ips) : InternalAddress(ip)) <=> \E i \in DOMAIN ips : InternalAddress(ips[i])
  BY DEF Range
<1> QED
  BY <1>1, <1>2, <1>3 DEF Range

LEMMA ScreenStarts == ScreenInit => ScreenInv
  BY EmptySeq DEF ScreenInit, ScreenInv, ScreenInvAt

LEMMA ParseKeeps == ScreenInv /\ ParseRequest => ScreenInv'
<1> SUFFICES ASSUME ScreenInv, ParseRequest PROVE ScreenInv'
  OBVIOUS
<1> DEFINE ts == IF MalformedRequest(body) THEN <<>> ELSE FlattenSeq(InspectedTexts(body))
<1>1. /\ body \in RunRequests /\ resolving = <<>> /\ found = {}
  BY DEF ScreenInv, ScreenInvAt, ParseRequest
<1>2. /\ body' = body /\ resolving' = <<>> /\ found' = {} /\ texts' = ts
      /\ outcome' = IF MalformedRequest(body) THEN "malformed" ELSE "screening"
  BY <1>1 DEF ParseRequest
<1>3. FlattenSeq(InspectedTexts(body)) \in Seq(Tokens)
      /\ Range(FlattenSeq(InspectedTexts(body))) = InspectedTokens(body)
  BY <1>1, EveryTextIsScreened
<1>4. ts \in Seq(Tokens)
  BY <1>3, EmptySeq
<1>5. ~MalformedRequest(body) => Screened(body, ts, {})
  BY <1>3 DEF Screened
<1> HIDE DEF ts
<1>6. ScreenInvAt(body, ts, <<>>, {}, IF MalformedRequest(body) THEN "malformed" ELSE "screening")
  BY <1>1, <1>4, <1>5 DEF ScreenInvAt
<1> QED
  BY <1>2, <1>6 DEF ScreenInv

LEMMA TokenKeeps == ScreenInv /\ ScreenToken => ScreenInv'
<1> SUFFICES ASSUME ScreenInv, ScreenToken PROVE ScreenInv'
  OBVIOUS
<1> DEFINE t == Head(texts)
           answer == IF t.url THEN UrlVerdict(t) ELSE "Allowed"
           rest == Tail(texts)
           rs == IF answer = "Resolve" THEN t.host.domain ELSE <<>>
           oc == IF answer = "Blocked" THEN "rejected" ELSE "screening"
<1>1. /\ body \in RunRequests /\ texts \in Seq(Tokens) /\ found \subseteq Address
      /\ Screened(body, texts, found) /\ texts # <<>>
  BY DEF ScreenInv, ScreenInvAt, ScreenToken
<1>2. body' = body /\ texts' = rest /\ resolving' = rs /\ found' = found /\ outcome' = oc
  BY DEF ScreenToken
<1>3. /\ t \in Tokens /\ t \in Range(texts) /\ rest \in Seq(Tokens)
      /\ Range(rest) \subseteq Range(texts)
      /\ \A x \in Range(texts) : x = t \/ x \in Range(rest)
  BY <1>1, HeadAndTail
<1>4. answer = "Blocked" <=> NamesInternal(t)
  BY <1>3, VerdictIsInternal
<1>5. answer = "Resolve" => answer # "Blocked"
  OBVIOUS
<1> HIDE DEF t, answer, rest
<1>6. answer = "Blocked" => HasInternal(body, found)
  BY <1>1, <1>3, <1>4 DEF HasInternal, Screened
<1>7. answer # "Blocked" => Screened(body, rest, found)
  BY <1>1, <1>3, <1>4 DEF Screened
<1>8. ScreenInvAt(body, rest, rs, found, oc)
  BY <1>1, <1>3, <1>5, <1>6, <1>7 DEF ScreenInvAt
<1> QED
  BY <1>2, <1>8 DEF ScreenInv

LEMMA AnswerKeeps ==
  ASSUME NEW ips \in Lookups, ScreenInv, Resolved(ips)
  PROVE  ScreenInv'
<1> DEFINE blocked == \E i \in DOMAIN ips : IsBlocked(ips[i])
           fd == found \cup Range(ips)
           oc == IF blocked THEN "rejected" ELSE "screening"
<1>1. /\ body \in RunRequests /\ texts \in Seq(Tokens) /\ found \subseteq Address
      /\ Screened(body, texts, found)
  BY DEF ScreenInv, ScreenInvAt, Resolved
<1>2. body' = body /\ texts' = texts /\ resolving' = <<>> /\ found' = fd /\ outcome' = oc
  BY DEF Resolved
<1>3. ips \in Seq(Address)
  BY ScreenAssumption
<1>4. Range(ips) \subseteq Address /\ (blocked <=> \E ip \in Range(ips) : InternalAddress(ip))
  BY <1>3, AnswerJudged
<1> HIDE DEF blocked
<1>5. blocked => HasInternal(body, fd)
  BY <1>4 DEF HasInternal
<1>6. ~blocked => Screened(body, texts, fd)
  BY <1>1, <1>4 DEF Screened
<1>7. fd \subseteq Address
  BY <1>1, <1>4
<1> HIDE DEF fd
<1>8. ScreenInvAt(body, texts, <<>>, fd, oc)
  BY <1>1, <1>5, <1>6, <1>7 DEF ScreenInvAt
<1> QED
  BY <1>2, <1>8 DEF ScreenInv

LEMMA PassKeeps == ScreenInv /\ ScreenPasses => ScreenInv'
<1> SUFFICES ASSUME ScreenInv, ScreenPasses PROVE ScreenInv'
  OBVIOUS
<1>1. /\ body \in RunRequests /\ texts \in Seq(Tokens) /\ found \subseteq Address
      /\ Screened(body, texts, found) /\ texts = <<>>
  BY DEF ScreenInv, ScreenInvAt, ScreenPasses
<1>2. /\ body' = body /\ texts' = texts /\ resolving' = <<>> /\ found' = found
      /\ outcome' = "clear"
  BY DEF ScreenPasses
<1>3. Range(texts) = {}
  BY <1>1, EmptySeq DEF Range
<1>4. ~HasInternal(body, found)
  BY <1>1, <1>3 DEF Screened, HasInternal
<1>5. ScreenInvAt(body, texts, <<>>, found, "clear")
  BY <1>1, <1>4 DEF ScreenInvAt
<1> QED
  BY <1>2, <1>5 DEF ScreenInv

\* A request gets past the screen exactly if nothing it carries names an internal
\* target and no lookup returned one, whatever the request, its nesting up to the
\* parser's limit, and the resolver's answers.
THEOREM InternalTargetsNeverPass == ScreenSpec => []InternalTargetsRefused
<1>1. ScreenInv /\ [ScreenNext]_screenVars => ScreenInv'
  <2> SUFFICES ASSUME ScreenInv, [ScreenNext]_screenVars PROVE ScreenInv'
    OBVIOUS
  <2>1. CASE ParseRequest
    BY <2>1, ParseKeeps
  <2>2. CASE ScreenToken
    BY <2>2, TokenKeeps
  <2>3. CASE ScreenPasses
    BY <2>3, PassKeeps
  <2>4. ASSUME NEW ips \in Lookups, Resolved(ips) PROVE ScreenInv'
    BY <2>4, AnswerKeeps
  <2>5. CASE UNCHANGED screenVars
    BY <2>5 DEF ScreenInv, screenVars
  <2> QED
    BY <2>1, <2>2, <2>3, <2>4, <2>5 DEF ScreenNext
<1>2. ScreenInv => InternalTargetsRefused
  BY DEF ScreenInv, ScreenInvAt, HasInternal, InternalTargetsRefused
<1> QED
  BY <1>1, <1>2, ScreenStarts, PTL DEF ScreenSpec

-----------------------------------------------------------------------------
(* Sealing and signing *)

SealedBytes(algo, key, nonce, aad, plain) ==
  [by |-> algo, key |-> key.id, nonce |-> nonce, aad |-> aad, plain |-> plain]
SealedAs(algo, key, nonce, aad, plain) ==
  [c |-> [algo |-> algo, bytes |-> SealedBytes(algo, key, nonce, aad, plain)],
   key |-> key, nonce |-> nonce, aad |-> aad, plain |-> plain]

\* What was sealed was sealed with a key and a nonce that can be used.
SealedOK(s) ==
  \E algo \in DOMAIN AeadCode, key \in Keys, nonce \in Nonces, aad, plain \in Texts :
     /\ AeadUsable(algo, key) = "ok" /\ CheckedNonce(algo, nonce)
     /\ s = SealedAs(algo, key, nonce, aad, plain)
SignedOK(g) ==
  "ed25519" \in CryptoFeatures /\ \E key \in Keys, data \in Texts : g = Ed25519Sign(key, key.id, data)

CryptoInv ==
  /\ \A s \in sealed : SealedOK(s)
  /\ \A g \in signed : SignedOK(g)
  /\ OnlyTheSealedOpens

LEMMA NoPanic ==
  ASSUME NEW algo, NEW nonce, CheckedNonce(algo, nonce)
  PROVE  BackendTakes(algo, nonce)
BY Zenon DEF CheckedNonce, BackendTakes

LEMMA ErrorDomain ==
  ASSUME NEW e
  PROVE  IsError(Error(e)) /\ "panic" \notin DOMAIN Error(e) /\ "bytes" \notin DOMAIN Error(e)
BY DEF IsError, Error

LEMMA SealedForms ==
  ASSUME NEW algo, NEW key, NEW nonce, NEW aad, NEW plain
  PROVE  LET b == SealedBytes(algo, key, nonce, aad, plain)
             s == SealedAs(algo, key, nonce, aad, plain)
         IN  /\ b.by = algo /\ b.key = key.id /\ b.nonce = nonce /\ b.aad = aad /\ b.plain = plain
             /\ "panic" \notin DOMAIN b
             /\ s.c.algo = algo /\ s.c.bytes = b /\ s.key = key /\ s.nonce = nonce /\ s.aad = aad
             /\ s.plain = plain /\ s.c = [algo |-> algo, bytes |-> b]
BY DEF SealedBytes, SealedAs

\* What Encrypt returns.
LEMMA EncryptForms ==
  ASSUME NEW algo, NEW key, NEW nonce, NEW aad, NEW plain
  PROVE  \/ \E e : Encrypt(algo, key, nonce, aad, plain) = Error(e)
         \/ /\ AeadUsable(algo, key) = "ok" /\ CheckedNonce(algo, nonce)
            /\ Encrypt(algo, key, nonce, aad, plain) =
                 [algo |-> algo, bytes |-> SealedBytes(algo, key, nonce, aad, plain)]
<1>1. CASE AeadUsable(algo, key) # "ok"
  <2>1. Encrypt(algo, key, nonce, aad, plain) = Error(AeadUsable(algo, key))
    BY <1>1 DEF Encrypt
  <2> QED
    BY <2>1
<1>2. CASE AeadUsable(algo, key) = "ok" /\ ~CheckedNonce(algo, nonce)
  <2>1. Encrypt(algo, key, nonce, aad, plain) = Error("InvalidNonce")
    BY <1>2 DEF Encrypt, AeadEncrypt
  <2> QED
    BY <2>1
<1>3. CASE AeadUsable(algo, key) = "ok" /\ CheckedNonce(algo, nonce)
  <2>1. BackendEncrypt(algo, key, nonce, aad, plain) = SealedBytes(algo, key, nonce, aad, plain)
    BY <1>3, NoPanic DEF BackendEncrypt, SealedBytes
  <2>2. "panic" \notin DOMAIN SealedBytes(algo, key, nonce, aad, plain)
    BY SealedForms
  <2>3. AeadEncrypt(algo, key, nonce, aad, plain) =
          [algo |-> algo, bytes |-> SealedBytes(algo, key, nonce, aad, plain)]
    BY <1>3, <2>1, <2>2 DEF AeadEncrypt
  <2> QED
    BY <1>3, <2>3 DEF Encrypt
<1> QED
  BY <1>1, <1>2, <1>3

LEMMA CipherFields ==
  ASSUME NEW algo, NEW b, NEW c, c = [algo |-> algo, bytes |-> b]
  PROVE  c.algo = algo /\ c.bytes = b
OBVIOUS

\* What Decrypt returns for what was sealed, with the algorithm it is read with.
LEMMA DecryptForms ==
  ASSUME NEW a, NEW k \in Keys, NEW n, NEW d, NEW p, AeadUsable(a, k) = "ok", CheckedNonce(a, n),
         NEW algo, NEW key \in Keys, NEW nonce, NEW aad, NEW c,
         c = [algo |-> algo, bytes |-> SealedBytes(a, k, n, d, p)]
  PROVE  IF algo = a /\ key = k /\ nonce = n /\ aad = d
         THEN Decrypt(key, nonce, aad, c) = [plain |-> p]
         ELSE \E e : Decrypt(key, nonce, aad, c) = Error(e)
<1> DEFINE b == SealedBytes(a, k, n, d, p)
           Fits == b = [by |-> algo, key |-> key.id, nonce |-> nonce, aad |-> aad, plain |-> b.plain]
<1>0. c = [algo |-> algo, bytes |-> b]
  OBVIOUS
<1>1. c.algo = algo /\ c.bytes = b
  <2> HIDE DEF b
  <2> QED
    BY <1>0, CipherFields
<1>2. b.by = a /\ b.key = k.id /\ b.nonce = n /\ b.aad = d /\ b.plain = p
  BY DEF SealedBytes
<1>3. CASE AeadUsable(algo, key) # "ok"
  <2>1. Decrypt(key, nonce, aad, c) = Error(AeadUsable(algo, key))
    BY <1>1, <1>3 DEF Decrypt
  <2> QED
    BY <1>3, <2>1
<1>4. CASE AeadUsable(algo, key) = "ok" /\ ~CheckedNonce(algo, nonce)
  <2>1. Decrypt(key, nonce, aad, c) = Error("InvalidNonce")
    BY <1>1, <1>4 DEF Decrypt, AeadDecrypt
  <2> QED
    BY <1>4, <2>1
<1>5. CASE AeadUsable(algo, key) = "ok" /\ CheckedNonce(algo, nonce)
  <2>1. Decrypt(key, nonce, aad, c) = BackendDecrypt(algo, key, nonce, aad, b)
    BY <1>1, <1>5 DEF Decrypt, AeadDecrypt
  <2>2. BackendTakes(algo, nonce)
    BY <1>5, NoPanic
  <2>3. Fits => BackendDecrypt(algo, key, nonce, aad, b) = [plain |-> p]
    BY <1>2, <2>2 DEF BackendDecrypt
  <2>4. ~Fits => BackendDecrypt(algo, key, nonce, aad, b) = Error("Decryption")
    BY <1>2, <2>2 DEF BackendDecrypt
  <2>5. Fits <=> algo = a /\ key = k /\ nonce = n /\ aad = d
    <3>1. k.len = 32 /\ key.len = 32
      BY <1>5 DEF AeadUsable, KeyLen
    <3>2. key.id = k.id => key = k
      <4>1. key = [id |-> key.id, len |-> key.len] /\ k = [id |-> k.id, len |-> k.len]
        BY CryptoAssumption
      <4> QED
        BY <3>1, <4>1
    <3>3. ASSUME Fits PROVE algo = a /\ key.id = k.id /\ nonce = n /\ aad = d
      <4> DEFINE f == [by |-> algo, key |-> key.id, nonce |-> nonce, aad |-> aad, plain |-> b.plain]
      <4>1. f.by = algo /\ f.key = key.id /\ f.nonce = nonce /\ f.aad = aad
        OBVIOUS
      <4>2. b = f
        BY <3>3
      <4> HIDE DEF b, f
      <4> QED
        BY <1>2, <4>1, <4>2
    <3>4. ASSUME algo = a, key = k, nonce = n, aad = d PROVE Fits
      BY <1>2, <3>4 DEF SealedBytes
    <3> QED
      BY <3>2, <3>3, <3>4
  <2> QED
    BY <2>1, <2>3, <2>4, <2>5
<1> QED
  BY <1>3, <1>4, <1>5

LEMMA SealStep ==
  ASSUME CryptoInv, NEW algo \in DOMAIN AeadCode, NEW key \in Keys, NEW nonce \in Nonces,
         NEW aad \in Texts, NEW plain \in Texts, Seal(algo, key, nonce, aad, plain)
  PROVE  CryptoInv'
<1> DEFINE r == Encrypt(algo, key, nonce, aad, plain)
           c == [algo |-> algo, bytes |-> SealedBytes(algo, key, nonce, aad, plain)]
<1>1. /\ asked' = [op |-> "seal", algo |-> algo, key |-> key, nonce |-> nonce] /\ reply' = r
      /\ signed' = signed
      /\ sealed' = IF "bytes" \in DOMAIN r
                   THEN sealed \cup {[c |-> r, key |-> key, nonce |-> nonce, aad |-> aad, plain |-> plain]}
                   ELSE sealed
  BY DEF Seal
<1>2. \/ \E e : r = Error(e)
      \/ AeadUsable(algo, key) = "ok" /\ CheckedNonce(algo, nonce) /\ r = c
  BY EncryptForms
<1>3. DOMAIN c = {"algo", "bytes"}
  OBVIOUS
<1> HIDE DEF r, c
<1>4. "panic" \notin DOMAIN r
  BY <1>2, <1>3, ErrorDomain
<1>5. asked'.op = "seal"
  BY <1>1
<1>6. OnlyTheSealedOpens'
  BY <1>1, <1>4, <1>5 DEF OnlyTheSealedOpens
<1>7. \A s \in sealed' : SealedOK(s)
  <2>1. CASE "bytes" \notin DOMAIN r
    BY <1>1, <2>1 DEF CryptoInv
  <2>2. CASE "bytes" \in DOMAIN r
    <3>1. AeadUsable(algo, key) = "ok" /\ CheckedNonce(algo, nonce) /\ r = c
      BY <1>2, <2>2, ErrorDomain
    <3>2. [c |-> r, key |-> key, nonce |-> nonce, aad |-> aad, plain |-> plain]
            = SealedAs(algo, key, nonce, aad, plain)
      BY <3>1 DEF SealedAs, c
    <3>3. SealedOK(SealedAs(algo, key, nonce, aad, plain))
      BY <3>1 DEF SealedOK
    <3>4. sealed' = sealed \cup {SealedAs(algo, key, nonce, aad, plain)}
      BY <1>1, <2>2, <3>2
    <3> QED
      BY <3>3, <3>4 DEF CryptoInv
  <2> QED
    BY <2>1, <2>2
<1> QED
  BY <1>1, <1>6, <1>7 DEF CryptoInv

LEMMA OpenStep ==
  ASSUME CryptoInv, NEW s \in sealed, NEW code, NEW key \in Keys, NEW nonce, NEW aad,
         Open(s, code, key, nonce, aad)
  PROVE  CryptoInv'
<1>1. PICK algo \in FromCode(AeadCode, code) :
        /\ asked' = [op |-> "open", algo |-> algo, key |-> key, nonce |-> nonce, aad |-> aad, from |-> s]
        /\ reply' = Decrypt(key, nonce, aad, [s.c EXCEPT !.algo = algo])
        /\ sealed' = sealed /\ signed' = signed
  BY DEF Open
<1>2. PICK a \in DOMAIN AeadCode, k \in Keys, n \in Nonces, d \in Texts, p \in Texts :
        /\ AeadUsable(a, k) = "ok" /\ CheckedNonce(a, n) /\ s = SealedAs(a, k, n, d, p)
  BY DEF CryptoInv, SealedOK
<1> DEFINE b == SealedBytes(a, k, n, d, p)
           c == [algo |-> algo, bytes |-> b]
<1>3. /\ s.c = [algo |-> a, bytes |-> b] /\ s.c.algo = a /\ s.key = k /\ s.nonce = n /\ s.aad = d
      /\ s.plain = p
  BY <1>2 DEF SealedAs
<1>4. [s.c EXCEPT !.algo = algo] = c
  <2> HIDE DEF b
  <2> QED
    BY <1>3
<1>5. IF algo = a /\ key = k /\ nonce = n /\ aad = d
      THEN reply' = [plain |-> p] ELSE \E e : reply' = Error(e)
  <2>1. reply' = Decrypt(key, nonce, aad, c)
    BY <1>1, <1>4
  <2> HIDE DEF c
  <2> QED
    BY <1>2, <2>1, DecryptForms DEF c
<1> HIDE DEF b, c
<1>6. /\ asked'.op = "open" /\ asked'.algo = algo /\ asked'.key = key /\ asked'.nonce = nonce
      /\ asked'.aad = aad /\ asked'.from = s
  BY <1>1
<1>7. "panic" \notin DOMAIN reply'
  <2>1. "panic" \notin DOMAIN [plain |-> p]
    OBVIOUS
  <2> QED
    BY <1>5, <2>1, ErrorDomain
<1>8. IF asked'.algo = asked'.from.c.algo /\ asked'.key = asked'.from.key
           /\ asked'.nonce = asked'.from.nonce /\ asked'.aad = asked'.from.aad
      THEN reply' = [plain |-> asked'.from.plain] ELSE IsError(reply')
  BY <1>3, <1>5, <1>6, ErrorDomain
<1>9. OnlyTheSealedOpens'
  BY <1>6, <1>7, <1>8 DEF OnlyTheSealedOpens
<1> QED
  BY <1>1, <1>9 DEF CryptoInv

LEMMA SignStep ==
  ASSUME CryptoInv, NEW algo, NEW key \in Keys, NEW data \in Texts, Sign(algo, key, key.id, data)
  PROVE  CryptoInv'
<1> DEFINE r == SignData(algo, key, key.id, data)
           g == Ed25519Sign(key, key.id, data)
<1>1. /\ asked' = [op |-> "sign", algo |-> algo, key |-> key] /\ reply' = r
      /\ signed' = (IF IsError(r) THEN signed ELSE signed \cup {r}) /\ sealed' = sealed
  BY DEF Sign
<1>2. (\E e : r = Error(e)) \/ (SignatureUsable(algo, key) = "ok" /\ r = g)
  <2>1. CASE SignatureUsable(algo, key) = "ok"
    BY <2>1 DEF SignData
  <2>2. CASE SignatureUsable(algo, key) # "ok"
    <3>1. r = Error(SignatureUsable(algo, key))
      BY <2>2 DEF SignData
    <3> QED
      BY <3>1
  <2> QED
    BY <2>1, <2>2
<1>3. SignatureUsable(algo, key) = "ok" => "ed25519" \in CryptoFeatures
  BY DEF SignatureUsable
<1>4. "panic" \notin DOMAIN g /\ ~IsError(g)
  BY DEF Ed25519Sign, IsError
<1> HIDE DEF r, g
<1>5. "panic" \notin DOMAIN r
  BY <1>2, <1>4, ErrorDomain
<1>6. asked'.op = "sign"
  BY <1>1
<1>7. OnlyTheSealedOpens'
  BY <1>1, <1>5, <1>6 DEF OnlyTheSealedOpens
<1>8. \A x \in signed' : SignedOK(x)
  <2>1. CASE IsError(r)
    BY <1>1, <2>1 DEF CryptoInv
  <2>2. CASE ~IsError(r)
    <3>1. r = g /\ "ed25519" \in CryptoFeatures
      BY <1>2, <1>3, <2>2, ErrorDomain
    <3>2. SignedOK(g)
      BY <3>1 DEF SignedOK, g
    <3> QED
      BY <1>1, <2>2, <3>1, <3>2 DEF CryptoInv
  <2> QED
    BY <2>1, <2>2
<1> QED
  BY <1>1, <1>7, <1>8 DEF CryptoInv

LEMMA VerifyStep ==
  ASSUME CryptoInv, NEW sig \in signed, NEW code, NEW key \in Keys, NEW data,
         Verify(sig, code, PublicKey(key), data)
  PROVE  CryptoInv'
<1> DEFINE public == PublicKey(key)
<1>1. PICK algo \in FromCode(SignCode, code) :
        /\ asked' = [op |-> "verify", algo |-> algo, key |-> public, data |-> data, from |-> sig]
        /\ reply' = VerifySignature(public, data, [sig EXCEPT !.algo = algo])
        /\ sealed' = sealed /\ signed' = signed
  BY DEF Verify
<1>2. PICK k \in Keys, d \in Texts : sig = Ed25519Sign(k, k.id, d)
  BY DEF CryptoInv, SignedOK
<1>3. "ed25519" \in CryptoFeatures
  BY DEF CryptoInv, SignedOK
<1> DEFINE g == [sig EXCEPT !.algo = algo]
<1>4. g.algo = algo /\ g.len = 64 /\ g.by = sig.by /\ g.of = sig.of
  BY <1>2 DEF Ed25519Sign
<1>5. public.len = 32
  BY DEF PublicKey
<1> HIDE DEF g, public
<1>6. /\ asked'.op = "verify" /\ asked'.algo = algo /\ asked'.key = public /\ asked'.data = data
      /\ asked'.from = sig
  BY <1>1
<1>7. CASE algo # "Ed25519"
  <2>1. SignatureUsable(g.algo, public) = "UnsupportedSignature"
    <3>1. SignatureUsable(algo, public) = "UnsupportedSignature"
      BY <1>7 DEF SignatureUsable
    <3> QED
      BY <1>4, <3>1
  <2>2. reply' = Error("UnsupportedSignature")
    BY <1>1, <2>1 DEF VerifySignature, g
  <2>3. OnlyTheSealedOpens'
    BY <1>6, <1>7, <2>2, ErrorDomain DEF OnlyTheSealedOpens
  <2> QED
    BY <1>1, <2>3 DEF CryptoInv
<1>8. CASE algo = "Ed25519"
  <2>1. SignatureUsable(g.algo, public) = "ok"
    BY <1>3, <1>4, <1>5, <1>8 DEF SignatureUsable
  <2>2. reply' = [valid |-> Ed25519Verify(public, data, g)]
    BY <1>1, <2>1 DEF VerifySignature, g
  <2>3. Ed25519Verify(public, data, g) <=> (public.id = sig.by /\ data = sig.of)
    BY <1>4, <1>8 DEF Ed25519Verify
  <2>4. reply' = [valid |-> (public.id = sig.by /\ data = sig.of)]
    <3> DEFINE x == Ed25519Verify(public, data, g)
               y == public.id = sig.by /\ data = sig.of
    <3>1. x \in BOOLEAN /\ y \in BOOLEAN /\ (x <=> y)
      BY <2>3 DEF Ed25519Verify
    <3>2. x = y
      BY <3>1, Zenon
    <3> HIDE DEF x, y
    <3>3. [valid |-> x] = [valid |-> y]
      BY <3>2, Zenon
    <3> QED
      BY <2>2, <3>3, Zenon DEF x, y
  <2>5. "panic" \notin DOMAIN reply'
    BY <2>2
  <2>6. OnlyTheSealedOpens'
    BY <1>6, <2>4, <2>5 DEF OnlyTheSealedOpens
  <2> QED
    BY <1>1, <2>6 DEF CryptoInv
<1> QED
  BY <1>7, <1>8

\* Only what was sealed opens, and only what was signed is valid, for all keys, nonces,
\* texts and features of the build, and no backend panics.
THEOREM SealsAndSignaturesHold == CryptoSpec => []OnlyTheSealedOpens
<1>1. CryptoInit => CryptoInv
  <2>1. NothingAsked.op = "none" /\ DOMAIN NothingAsked = {"op"}
    BY DEF NothingAsked
  <2>2. CryptoInit => "panic" \notin DOMAIN reply /\ asked.op = "none"
    BY <2>1 DEF CryptoInit
  <2>3. CryptoInit => OnlyTheSealedOpens
    BY <2>2 DEF OnlyTheSealedOpens
  <2> QED
    BY <2>3 DEF CryptoInit, CryptoInv
<1>2. CryptoInv /\ [CryptoNext]_cryptoVars => CryptoInv'
  <2> SUFFICES ASSUME CryptoInv, [CryptoNext]_cryptoVars PROVE CryptoInv'
    OBVIOUS
  <2>1. CASE UNCHANGED cryptoVars
    BY <2>1 DEF cryptoVars, CryptoInv, OnlyTheSealedOpens
  <2>2. CASE CryptoNext
    BY <2>2, SealStep, OpenStep, SignStep, VerifyStep DEF CryptoNext
  <2> QED
    BY <2>1, <2>2
<1>3. CryptoInv => OnlyTheSealedOpens
  BY DEF CryptoInv
<1> QED
  BY <1>1, <1>2, <1>3, PTL DEF CryptoSpec

-----------------------------------------------------------------------------
(* The server *)

TypeOK ==
    /\ versions \in Seq({"good", "empty", "bad"}) /\ versions # <<>>
    /\ live \in 0..Latest /\ armed \in BOOLEAN
    /\ events \in Nat /\ changes \in Nat
    /\ task \in [Trigger -> TaskState] /\ saw \in [Trigger -> 0..Latest]

\* The live policy compiled; tasks run and the watch is installed only once a
\* policy is live; a reload that compiles has read some content.
Gated ==
    /\ live # 0 => versions[live] # "bad"
    /\ armed => live # 0
    /\ ~armed => task["watch"] = "off"
    /\ \A t \in Trigger : task[t] # "off" => live # 0
    /\ \A t \in Trigger : task[t] = "compile" => saw[t] # 0

\* A reload that will read, or has read, the latest content is on its way.
Pending ==
    \/ events > 0 \/ changes > 0
    \/ task["watch"] \in {"debounce", "spawned"}
    \/ task["watch"] = "compile" /\ saw["watch"] = Latest

\* The latest content is live, and no reload under way would replace it.
Settled ==
    /\ live = Latest
    /\ \A t \in Trigger : task[t] = "compile" => saw[t] = Latest

Fresh ==
    live # 0 /\ unseen = "no" =>
        IF armed THEN versions[Latest] = "good" => Pending \/ Settled ELSE Settled

\* The watch is installed once, on the way out of build_policy.
After == {"logid", "bind", "tls", "connect", "migrate", "resolve", "build", "listen",
          "serving", "draining", "aborted", "exited", "killed"}
Past == armed => stage \in After

IInv == TypeOK /\ Gated /\ Fresh

\* What the invariant is about.
seenVars == <<versions, events, live, armed, changes, task, saw, unseen>>

LEMMA InitIInv == Init => IInv
<1> SUFFICES ASSUME Init PROVE IInv
  OBVIOUS
<1>1. PICK q \in {"good", "empty", "bad"} : versions = <<q>>
  BY DEF Init
<1>2. versions \in Seq({"good", "empty", "bad"}) /\ versions # <<>> /\ Latest = 1
  BY <1>1 DEF Latest
<1>3. TypeOK
  <2>1. live = 0 /\ events = 0 /\ changes = 0 /\ armed \in BOOLEAN
    BY DEF Init
  <2>2. task = [t \in Trigger |-> "off"] /\ saw = [t \in Trigger |-> 0]
    BY DEF Init
  <2> QED
    BY <1>2, <2>1, <2>2 DEF TypeOK, TaskState
<1>4. Gated /\ Fresh
  BY DEF Init, Gated, Fresh, Trigger
<1> QED
  BY <1>3, <1>4 DEF IInv

LEMMA QuietStep == IInv /\ UNCHANGED seenVars => IInv'
  BY DEF IInv, TypeOK, Gated, Fresh, Pending, Settled, Latest, seenVars

LEMMA BuildStep ==
  ASSUME IInv, BuildPolicy
  PROVE  IInv'
<1>1. Latest \in Nat \ {0} /\ live = 0 /\ ~armed
  BY DEF IInv, TypeOK, Gated, Latest, BuildPolicy
<1>2. \A t \in Trigger : task[t] = "off"
  BY <1>1 DEF IInv, Gated
<1>3. CASE UNCHANGED live
  BY <1>3, QuietStep DEF BuildPolicy, fileVars, seenVars
<1>4. CASE live' = Latest /\ Loads(versions[Latest])
  <2>1. versions[Latest] # "bad" /\ UNCHANGED <<versions, events, armed, changes, task, saw, unseen>>
    BY <1>4 DEF Loads, BuildPolicy, fileVars
  <2> QED
    BY <1>1, <1>2, <1>4, <2>1 DEF IInv, TypeOK, Gated, Fresh, Settled, Latest
<1> QED
  BY <1>3, <1>4 DEF BuildPolicy

LEMMA ArmStep ==
  ASSUME IInv, Past, ArmWatch
  PROVE  IInv'
<1>1. UNCHANGED <<versions, events, live, changes, saw, unseen>> /\ live # 0 /\ ~armed
  BY DEF ArmWatch, fileVars, At, Past, After
<1>2. CASE UNCHANGED <<armed, task>>
  BY <1>1, <1>2, QuietStep DEF seenVars
<1>3. CASE armed' = TRUE /\ task' = [task EXCEPT !["watch"] = "idle"]
  <2>1. TypeOK' /\ Gated'
    BY <1>1, <1>3 DEF IInv, TypeOK, Gated, Latest, Trigger, TaskState
  <2>2. Settled => Settled'
    BY <1>1, <1>3 DEF IInv, TypeOK, Settled, Latest, Trigger
  <2>3. Fresh'
    BY <1>1, <1>3, <2>2 DEF IInv, Fresh
  <2> QED
    BY <2>1, <2>3 DEF IInv
<1> QED
  BY <1>2, <1>3 DEF ArmWatch

LEMMA EditStep ==
  ASSUME IInv, NEW q \in {"good", "empty", "bad"}, Edit(q)
  PROVE  IInv'
<1>1. /\ versions' = Append(versions, q)
      /\ UNCHANGED <<live, armed, changes, task, saw>>
      /\ events' = (IF armed THEN events + 1 ELSE events)
      /\ unseen' = (IF live # 0 /\ ~armed THEN "unwatched" ELSE unseen)
  BY DEF Edit
<1>2. Latest \in Nat /\ Latest' = Latest + 1 /\ versions' \in Seq({"good", "empty", "bad"})
      /\ versions' # <<>>
  BY <1>1 DEF Latest, IInv, TypeOK
<1>3. \A i \in 1..Latest : versions'[i] = versions[i]
  BY <1>1 DEF Latest, IInv, TypeOK
<1>4. TypeOK'
  BY <1>1, <1>2 DEF IInv, TypeOK
<1>5. Gated'
  <2>1. live # 0 => versions'[live] # "bad"
    BY <1>2, <1>3 DEF IInv, TypeOK, Gated
  <2> QED
    BY <1>1, <2>1 DEF IInv, Gated
<1>6. Fresh'
  BY <1>1 DEF IInv, TypeOK, Fresh, Pending
<1> QED
  BY <1>4, <1>5, <1>6 DEF IInv

LEMMA NotifyStep ==
  ASSUME IInv, Notify
  PROVE  IInv'
<1>1. UNCHANGED <<versions, live, armed, task, saw, unseen>> /\ changes' \in Nat /\ changes' > 0
      /\ events' \in Nat
  BY ChannelAssumption DEF IInv, TypeOK, Notify
<1>2. TypeOK' /\ Gated'
  BY <1>1 DEF IInv, TypeOK, Gated, Latest
<1>3. armed => Pending'
  BY <1>1 DEF Pending
<1>4. Fresh'
  BY <1>1, <1>3 DEF IInv, Fresh, Settled, Latest
<1> QED
  BY <1>2, <1>4 DEF IInv

\* A task that moves on, other than to the end of its reload.
LEMMA TaskMoves ==
  ASSUME IInv, NEW t \in Trigger, NEW s \in TaskState \ {"off", "compile"},
         task' = [task EXCEPT ![t] = s], live # 0, task[t] # "compile",
         UNCHANGED <<versions, events, live, armed, saw, unseen>>, changes' \in Nat,
         t = "watch" => task[t] # "off",
         \/ t = "watch" /\ s \in {"debounce", "spawned"}
         \/ task[t] \in {"off", "idle"} /\ changes' = changes
  PROVE  IInv'
<1>1. \A x \in Trigger : task'[x] = IF x = t THEN s ELSE task[x]
  BY DEF IInv, TypeOK
<1>2. TypeOK'
  BY DEF IInv, TypeOK, Latest
<1>3. Gated'
  BY <1>1 DEF IInv, Gated, Trigger, Latest
<1>4. Fresh'
  BY <1>1 DEF IInv, TypeOK, Gated, Fresh, Pending, Settled, Latest, Trigger
<1> QED
  BY <1>2, <1>3, <1>4 DEF IInv

\* A reload that starts to compile has read the latest content.
LEMMA ReadStep ==
  ASSUME IInv, NEW t \in Trigger, ReloadReads(t)
  PROVE  IInv'
<1>1. /\ task[t] = "spawned" /\ Becomes(t, "compile") /\ saw' = [saw EXCEPT ![t] = Latest]
      /\ UNCHANGED <<versions, events, live, armed, changes, unseen>>
  BY DEF ReloadReads, fileVars
<1>2. \A x \in Trigger : /\ task'[x] = (IF x = t THEN "compile" ELSE task[x])
                          /\ saw'[x] = (IF x = t THEN Latest ELSE saw[x])
  BY <1>1 DEF Becomes, IInv, TypeOK
<1>3. Latest' = Latest /\ Latest \in Nat \ {0}
  BY <1>1 DEF IInv, TypeOK, Latest
<1>4. TypeOK'
  BY <1>1, <1>3 DEF Becomes, IInv, TypeOK, TaskState
<1>5. Gated'
  BY <1>1, <1>2, <1>3 DEF IInv, Gated, Trigger
<1>6. Pending => Pending'
  BY <1>1, <1>2, <1>3 DEF Pending, Trigger
<1>7. Settled => Settled'
  BY <1>1, <1>2, <1>3 DEF Settled
<1>8. Fresh'
  BY <1>1, <1>3, <1>6, <1>7 DEF IInv, Fresh
<1> QED
  BY <1>4, <1>5, <1>8 DEF IInv

\* The end of a reload.  If it read the latest content and that compiles, it is
\* live now; if it did not, a newer edit is still on its way, unless the other
\* task reloads at the same time.
LEMMA EndStep ==
  ASSUME IInv, NEW t \in Trigger, ReloadEnds(t)
  PROVE  IInv'
<1>1. /\ task[t] = "compile" /\ Becomes(t, "idle") /\ Swap(t)
      /\ UNCHANGED <<versions, events, armed, changes, saw>>
  BY DEF ReloadEnds, fileVars
<1>2. \A x \in Trigger : task'[x] = IF x = t THEN "idle" ELSE task[x]
  BY <1>1 DEF Becomes, IInv, TypeOK
<1>3. Latest' = Latest /\ Latest \in Nat \ {0} /\ saw[t] \in 1..Latest /\ live # 0
  BY <1>1 DEF IInv, TypeOK, Gated, Latest
<1>4. /\ \/ live' = live /\ unseen' = unseen /\ versions[saw[t]] # "good"
         \/ live' = saw[t] /\ versions[saw[t]] = "good"
  BY <1>1 DEF Swap, ReloadAccepts
<1>5. TypeOK'
  BY <1>1, <1>3, <1>4 DEF Becomes, IInv, TypeOK, TaskState
<1>6. Gated'
  BY <1>1, <1>2, <1>3, <1>4 DEF IInv, Gated, Trigger
<1> SUFFICES Fresh'
  BY <1>5, <1>6 DEF IInv
<1>7. ASSUME saw[t] # Latest
      PROVE  ~Settled /\ (Pending => Pending')
  BY <1>1, <1>2, <1>3, <1>7 DEF Pending, Settled, Trigger
<1>8. CASE live' = live /\ unseen' = unseen /\ versions[saw[t]] # "good"
  <2>1. Settled => Settled'
    BY <1>1, <1>2, <1>3, <1>8 DEF Settled
  <2>2. CASE saw[t] = Latest
    BY <1>1, <1>3, <1>8, <2>1, <2>2 DEF IInv, Fresh
  <2>3. CASE saw[t] # Latest
    BY <1>1, <1>3, <1>7, <1>8, <2>1, <2>3 DEF IInv, Fresh
  <2> QED
    BY <2>2, <2>3
<1>9. CASE live' = saw[t] /\ versions[saw[t]] = "good"
  <2>1. unseen' = IF \E o \in Trigger \ {t} : task[o] \in {"spawned", "compile"}
                  THEN "overlap"
                  ELSE IF saw[t] = Latest THEN "no" ELSE unseen
    BY <1>1, <1>9 DEF Swap, ReloadAccepts
  <2>2. CASE \E o \in Trigger \ {t} : task[o] \in {"spawned", "compile"}
    BY <2>1, <2>2 DEF Fresh
  <2>3. CASE /\ ~\E o \in Trigger \ {t} : task[o] \in {"spawned", "compile"}
             /\ saw[t] = Latest
    <3>1. Settled'
      BY <1>1, <1>2, <1>3, <1>9, <2>3 DEF Settled
    <3> QED
      BY <3>1 DEF Fresh
  <2>4. CASE /\ ~\E o \in Trigger \ {t} : task[o] \in {"spawned", "compile"}
             /\ saw[t] # Latest
    <3>1. unseen' = unseen
      BY <2>1, <2>4
    <3> QED
      BY <1>1, <1>3, <1>7, <2>4, <3>1 DEF IInv, Fresh
  <2> QED
    BY <2>2, <2>3, <2>4
<1> QED
  BY <1>4, <1>8, <1>9

LEMMA Onward ==
  ASSUME stage \in {"policy", "logid", "bind", "tls", "connect", "migrate", "resolve",
                    "build", "listen"}, Proceed
  PROVE  stage' \in After
<1> DEFINE i == CHOOSE k \in DOMAIN Startup : Startup[k] = stage
<1>1. \E k \in DOMAIN Startup : Startup[k] = stage
  BY DEF Startup
<1>2. i \in DOMAIN Startup /\ Startup[i] = stage
  BY <1>1
<1>3. stage' = Startup[i + 1]
  BY DEF Proceed
<1> HIDE DEF i
<1>4. i \in 4..12
  BY <1>2 DEF Startup
<1> QED
  BY <1>3, <1>4 DEF Startup, After

LEMMA PastStep ==
  ASSUME Past, TypeOK, Next
  PROVE  Past'
<1>1. CASE stage' = stage /\ armed' = armed
  BY <1>1 DEF Past
<1>2. CASE stage' \in After
  BY <1>2 DEF Past
<1>3. CASE stage \in {"load", "validate", "metrics"} /\ armed' = armed
  BY <1>3 DEF Past, After
<1>4. CASE BuildPolicy \/ ArmWatch
  BY <1>1, <1>2, <1>4, Onward DEF BuildPolicy, ArmWatch, Abort, At, After
<1>5. CASE Start
  BY <1>2, <1>1, <1>3, <1>4, <1>5, Onward
  DEF Start, Check, InitMetrics, Connect, Migrate, ResolveLog, BuildServer, Listen,
      Abort, At, After
<1> QED
  BY <1>1, <1>2, <1>5
  DEF Next, Edit, Notify, Hangup, InstallHangup, HangupTask, HangupReceived, ReloadReads,
      ReloadEnds, WatchTask, ChangeReceived, Debounced, Terminate, TaskStops, Exit, After

LEMMA StepIInv ==
  ASSUME IInv, Past, Next
  PROVE  IInv'
<1>1. CASE UNCHANGED seenVars
  BY <1>1, QuietStep
<1>2. CASE Start
  BY <1>1, <1>2, BuildStep, ArmStep
  DEF Start, Check, InitMetrics, Connect, Migrate, ResolveLog, BuildServer, Listen,
      fileVars, reloadVars, seenVars
<1>3. CASE Hangup \/ Terminate \/ Exit
  BY <1>1, <1>3 DEF Hangup, Terminate, Exit, fileVars, reloadVars, seenVars
<1>4. \A t \in Trigger : task[t] # "off" => live # 0
  BY DEF IInv, Gated
<1>5. changes \in Nat /\ (task["watch"] # "off" => armed)
  BY DEF IInv, TypeOK, Gated
<1>6. CASE InstallHangup
  BY <1>5, <1>6, TaskMoves DEF InstallHangup, Becomes, fileVars, Trigger, TaskState
<1>7. CASE HangupReceived
  BY <1>4, <1>5, <1>7, TaskMoves DEF HangupReceived, Becomes, Waits, fileVars, Trigger, TaskState
<1>8. CASE ChangeReceived \/ Debounced
  <2>1. PICK s \in {"debounce", "spawned"} : task' = [task EXCEPT !["watch"] = s]
    BY <1>8 DEF ChangeReceived, Debounced, Becomes
  <2>2. /\ task["watch"] \in {"idle", "debounce"} /\ changes' \in Nat
        /\ UNCHANGED <<versions, events, live, armed, saw, unseen>>
    BY <1>5, <1>8 DEF ChangeReceived, Debounced, Waits, fileVars
  <2>3. live # 0 /\ task["watch"] # "off"
    BY <1>4, <1>5, <2>2 DEF Trigger
  <2>4. "watch" \in Trigger /\ s \in TaskState \ {"off", "compile"}
    BY DEF Trigger, TaskState
  <2>5. task["watch"] # "compile" /\ "watch" # "hangup"
    BY <2>2
  <2> QED
    BY <2>1, <2>2, <2>3, <2>4, <2>5, TaskMoves
<1>9. ASSUME NEW t \in Trigger, TaskStops(t)
      PROVE  IInv'
  BY <1>4, <1>5, <1>9, TaskMoves DEF TaskStops, Becomes, fileVars, Trigger, TaskState
<1> QED
  BY <1>2, <1>3, <1>6, <1>7, <1>8, <1>9, EditStep, NotifyStep, ReadStep, EndStep
  DEF Next, HangupTask, WatchTask, Trigger

LEMMA Inductive == Spec => [](IInv /\ Past)
<1>1. Init => Past
  BY DEF Init, Past
<1>2. Past /\ UNCHANGED vars => Past'
  BY DEF Past, vars
<1>3. IInv /\ UNCHANGED vars => IInv'
  BY QuietStep DEF vars, fileVars, reloadVars, seenVars
<1>4. IInv => TypeOK
  BY DEF IInv
<1> QED
  BY <1>1, <1>2, <1>3, <1>4, InitIInv, StepIInv, PastStep, PTL DEF Spec

\* For any channel size and any number and order of edits, signals and reloads:
\* once the watch is installed and all is quiet, the live policy is the latest
\* content of the file, unless an edit went unwatched or the two tasks' reloads
\* overlapped.
THEOREM QuietIsAlwaysCurrent == Spec => []QuietIsCurrent
<1>1. IInv => QuietIsCurrent
  <2> SUFFICES ASSUME IInv, armed, events = 0, changes = 0,
                      \A t \in Trigger : task[t] \in {"off", "idle", "failed"},
                      versions[Latest] = "good", unseen = "no"
               PROVE  live = Latest
    BY DEF QuietIsCurrent
  <2>1. ~Pending
    BY DEF Pending, Trigger
  <2> QED
    BY <2>1 DEF IInv, Gated, Fresh, Settled
<1> QED
  BY <1>1, Inductive, PTL

\* For any edits and interleaving of the reload tasks: what is live compiles, and
\* a reload swaps in nothing but a content with rules.
THEOREM GateNeverOpens == Spec => GateStaysClosed
<1>1. IInv => (live # 0 => versions[live] # "bad")
  BY DEF IInv, Gated
<1>2. IInv /\ [Next]_vars =>
        [live # 0 /\ live' # live => versions'[live'] = "good"]_vars
  <2> SUFFICES ASSUME IInv, Next, live # 0, live' # live
               PROVE  versions'[live'] = "good"
    OBVIOUS
  <2>1. PICK t \in Trigger : ReloadEnds(t)
    BY DEF Next, Start, Check, InitMetrics, BuildPolicy, ArmWatch, Connect, Migrate,
           ResolveLog, BuildServer, Listen, Edit, Notify, Hangup, InstallHangup,
           HangupTask, HangupReceived, ReloadReads, WatchTask, ChangeReceived,
           Debounced, Terminate, TaskStops, Exit, reloadVars, Trigger
  <2> QED
    BY <2>1 DEF ReloadEnds, Swap, ReloadAccepts, fileVars
<1> QED
  BY <1>1, <1>2, Inductive, PTL DEF Spec, GateStaysClosed

-----------------------------------------------------------------------------
(* Startup *)

\* The stages at which a check is not yet passed.
Unloaded == {"load", "aborted", "killed"}
Unvalidated == Unloaded \cup {"validate"}
Unmetered == Unvalidated \cup {"metrics"}
Unruled == Unmetered \cup {"policy"}
Unnamed == Unruled \cup {"logid"}
Unbound == Unnamed \cup {"bind"}
Uncertified == Unbound \cup {"tls"}

Cleared ==
    /\ stage \notin Unloaded => Extracts(conf)
    /\ stage \notin Unvalidated => Valid(conf)
    /\ stage \notin Unmetered => MetricsBuild(conf)
    /\ stage \notin Unruled => FileBacked \/ RulesetBuilds(conf)
    /\ stage \notin Unnamed => pinned # "bad"
    /\ stage \notin Unbound => BindParses(conf)
    /\ stage \notin Uncertified => TlsLoads(conf)

Sound ==
    /\ Extracts(conf) /\ Valid(conf) /\ MetricsBuild(conf)
    /\ FileBacked \/ RulesetBuilds(conf)
    /\ pinned # "bad" /\ BindParses(conf) /\ TlsLoads(conf)

StartInv ==
    /\ Cleared
    /\ store # {} => Sound
    /\ stage \in {"listen", "serving"} => settings = ServerSettings(conf)
    /\ live # 0 => FileBacked
    /\ conf["proxy.rate_limit_per_second"] \in Nat /\ conf["proxy.rate_limit_burst"] \in Nat

LEMMA Follows ==
  ASSUME NEW k \in 1..12, stage = Startup[k], Proceed
  PROVE  stage' = Startup[k + 1]
<1> DEFINE i == CHOOSE j \in DOMAIN Startup : Startup[j] = stage
<1>1. k \in DOMAIN Startup
  BY DEF Startup
<1>2. i \in DOMAIN Startup /\ Startup[i] = Startup[k]
  BY <1>1
<1>3. stage' = Startup[i + 1]
  BY DEF Proceed
<1> HIDE DEF i
<1>4. i = k
  BY <1>2 DEF Startup
<1> QED
  BY <1>3, <1>4

\* main's order, stage by stage.
LEMMA InOrder ==
  ASSUME Proceed
  PROVE  /\ stage = "load" => stage' = "validate"
         /\ stage = "validate" => stage' = "metrics"
         /\ stage = "metrics" => stage' = "policy"
         /\ stage = "policy" => stage' = "logid"
         /\ stage = "logid" => stage' = "bind"
         /\ stage = "bind" => stage' = "tls"
         /\ stage = "tls" => stage' = "connect"
         /\ stage = "connect" => stage' = "migrate"
         /\ stage = "migrate" => stage' = "resolve"
         /\ stage = "resolve" => stage' = "build"
         /\ stage = "build" => stage' = "listen"
         /\ stage = "listen" => stage' = "serving"
  BY Follows DEF Startup

\* Everything StartInv is about but the stage.
startedVars == <<conf, pinned, store, settings, live>>

LEMMA ClearedSound ==
  ASSUME Cleared, stage \notin Uncertified
  PROVE  Sound
  BY DEF Cleared, Sound, Unloaded, Unvalidated, Unmetered, Unruled, Unnamed, Unbound,
         Uncertified

LEMMA StartSame ==
  ASSUME StartInv, UNCHANGED startedVars, Cleared', stage' \notin {"listen", "serving"}
  PROVE  StartInv'
  BY DEF StartInv, Sound, FileBacked, Engine, startedVars

\* A stage of main with nothing but a check.
LEMMA ClearedNext ==
  ASSUME Cleared, UNCHANGED <<conf, pinned>>, Proceed,
         stage = "load" => Extracts(conf),
         stage = "validate" => Valid(conf),
         stage = "metrics" => MetricsBuild(conf),
         stage = "policy" => FileBacked \/ RulesetBuilds(conf),
         stage = "logid" => pinned # "bad",
         stage = "bind" => BindParses(conf),
         stage = "tls" => TlsLoads(conf),
         stage \in {"load", "validate", "metrics", "policy", "logid", "bind", "tls",
                    "connect", "migrate", "resolve", "build", "listen"}
  PROVE  Cleared' /\ (stage' = "serving" => stage = "listen")
                  /\ (stage' = "listen" => stage = "build")
<1>1. /\ Extracts(conf)' = Extracts(conf) /\ Valid(conf)' = Valid(conf)
      /\ MetricsBuild(conf)' = MetricsBuild(conf) /\ FileBacked' = FileBacked
      /\ RulesetBuilds(conf)' = RulesetBuilds(conf) /\ BindParses(conf)' = BindParses(conf)
      /\ TlsLoads(conf)' = TlsLoads(conf)
  BY DEF FileBacked, Engine
<1> QED
  BY <1>1, InOrder DEF Cleared, Unloaded, Unvalidated, Unmetered, Unruled, Unnamed,
                       Unbound, Uncertified

LEMMA StoppedClear ==
  ASSUME stage' \in {"aborted", "killed"}
  PROVE  Cleared'
  BY DEF Cleared, Unloaded, Unvalidated, Unmetered, Unruled, Unnamed, Unbound, Uncertified

\* The stages up to the certificate leave the store alone and let pass only what
\* they have checked.
LEMMA CheckStep ==
  ASSUME StartInv, UNCHANGED startedVars, Proceed,
         \/ stage = "load" /\ Extracts(conf)
         \/ stage = "validate" /\ Valid(conf)
         \/ stage = "metrics" /\ MetricsBuild(conf)
         \/ stage = "policy" /\ (FileBacked \/ RulesetBuilds(conf))
         \/ stage = "logid" /\ pinned # "bad"
         \/ stage = "bind" /\ BindParses(conf)
         \/ stage = "tls" /\ TlsLoads(conf)
  PROVE  StartInv'
<1>1. UNCHANGED <<conf, pinned>> /\ Cleared
  BY DEF startedVars, StartInv
<1>2. Cleared' /\ stage' \notin {"listen", "serving"}
  BY <1>1, ClearedNext
<1> QED
  BY <1>2, StartSame

LEMMA AbortStep ==
  ASSUME StartInv, UNCHANGED <<conf, pinned, store, live>>, stage' \in {"aborted", "killed"}
  PROVE  StartInv'
  BY StoppedClear DEF StartInv, Sound, FileBacked, Engine

\* The stages after the certificate, where the configuration is known to be sound.
LEMMA SoundStep ==
  ASSUME StartInv, UNCHANGED <<conf, pinned, live>>, Proceed,
         stage \in {"connect", "migrate", "resolve", "build", "listen"},
         stage = "build" => settings' = ServerSettings(conf),
         stage = "listen" => settings' = settings
  PROVE  StartInv'
<1>1. Cleared /\ Sound
  BY ClearedSound DEF StartInv, Unloaded, Unvalidated, Unmetered, Unruled, Unnamed,
                      Unbound, Uncertified
<1>2. Cleared' /\ (stage' = "serving" => stage = "listen") /\ (stage' = "listen" => stage = "build")
  BY <1>1, ClearedNext
<1>3. Sound'
  BY <1>1 DEF Sound, FileBacked, Engine
<1>4. stage' \in {"listen", "serving"} => settings' = ServerSettings(conf)'
  BY <1>2 DEF StartInv
<1> QED
  BY <1>2, <1>3, <1>4 DEF StartInv, FileBacked, Engine

LEMMA StartStep ==
  ASSUME StartInv, Start
  PROVE  StartInv'
<1>1. CASE Check("load", Extracts(conf))
  BY <1>1, CheckStep, AbortStep DEF Check, At, Abort, startVars, reloadVars, startedVars
<1>2. CASE Check("validate", Valid(conf))
  BY <1>2, CheckStep, AbortStep DEF Check, At, Abort, startVars, reloadVars, startedVars
<1>3. CASE InitMetrics
  BY <1>3, CheckStep, AbortStep DEF InitMetrics, At, Abort, startVars, reloadVars, startedVars
<1>4. CASE BuildPolicy
  <2>1. UNCHANGED <<conf, pinned, store, settings>> /\ stage = "policy"
    BY <1>4 DEF BuildPolicy, startVars, At
  <2>2. CASE UNCHANGED live
    <3>1. CASE Abort
      BY <2>1, <2>2, <3>1, AbortStep DEF Abort
    <3>2. CASE Proceed /\ (FileBacked \/ RulesetBuilds(conf))
      BY <2>1, <2>2, <3>2, CheckStep DEF startedVars
    <3>3. CASE stage' = stage
      BY <2>1, <2>2, <3>3 DEF StartInv, Cleared, Sound, FileBacked, Engine
    <3> QED
      BY <1>4, <3>1, <3>2, <3>3 DEF BuildPolicy
  <2>3. CASE FileBacked /\ stage' = stage
    BY <2>1, <2>3 DEF StartInv, Cleared, Sound, FileBacked, Engine
  <2>4. CASE FileBacked /\ Proceed
    <3>1. Cleared' /\ stage' \notin {"listen", "serving"}
      BY <2>1, <2>4, ClearedNext DEF StartInv
    <3> QED
      BY <2>1, <2>4, <3>1 DEF StartInv, Sound, FileBacked, Engine
  <2> QED
    BY <1>4, <2>2, <2>3, <2>4 DEF BuildPolicy
<1>5. CASE ArmWatch
  <2>1. UNCHANGED startedVars /\ stage = "policy" /\ Proceed /\ FileBacked
    BY <1>5 DEF ArmWatch, startVars, startedVars, At, StartInv
  <2> QED
    BY <2>1, CheckStep
<1>6. CASE Check("logid", pinned # "bad")
  BY <1>6, CheckStep, AbortStep DEF Check, At, Abort, startVars, reloadVars, startedVars
<1>7. CASE Check("bind", BindParses(conf))
  BY <1>7, CheckStep, AbortStep DEF Check, At, Abort, startVars, reloadVars, startedVars
<1>8. CASE Check("tls", TlsLoads(conf))
  BY <1>8, CheckStep, AbortStep DEF Check, At, Abort, startVars, reloadVars, startedVars
<1>9. CASE Connect
  <2>1. UNCHANGED <<conf, pinned, live>> /\ stage = "connect"
    BY <1>9 DEF Connect, reloadVars, At
  <2>2. CASE UNCHANGED <<stage, store>>
    BY <2>1, <2>2 DEF StartInv, Cleared, Sound, FileBacked, Engine
  <2> QED
    BY <1>9, <2>1, <2>2, SoundStep, AbortStep DEF Connect, Abort
<1>10. CASE Migrate \/ ResolveLog
  <2>1. UNCHANGED <<conf, pinned, live>> /\ stage \in {"migrate", "resolve"}
    BY <1>10 DEF Migrate, ResolveLog, reloadVars, At
  <2> QED
    BY <1>10, <2>1, SoundStep, AbortStep DEF Migrate, ResolveLog, Abort
<1>11. CASE BuildServer \/ Listen
  <2>1. UNCHANGED <<conf, pinned, live, store>> /\ stage \in {"build", "listen"}
    BY <1>11 DEF BuildServer, Listen, startVars, reloadVars, At
  <2>2. (stage = "build" => settings' = ServerSettings(conf))
        /\ (stage = "listen" => settings' = settings)
    BY <1>11 DEF BuildServer, Listen, startVars, At
  <2> QED
    BY <1>11, <2>1, <2>2, SoundStep, AbortStep DEF BuildServer, Listen, Abort
<1> QED
  BY <1>1, <1>2, <1>3, <1>4, <1>5, <1>6, <1>7, <1>8, <1>9, <1>10, <1>11 DEF Start

LEMMA StepStart ==
  ASSUME StartInv, Gated, Next
  PROVE  StartInv'
<1>1. CASE Start
  BY <1>1, StartStep
<1>2. ASSUME UNCHANGED <<conf, pinned, store, settings>>, stage' = stage,
             live' # 0 => live # 0
      PROVE  StartInv'
  BY <1>2 DEF StartInv, Cleared, Sound, FileBacked, Engine
<1>3. ASSUME NEW t \in Trigger, ReloadEnds(t)
      PROVE  StartInv'
  BY <1>2, <1>3 DEF ReloadEnds, Gated, startVars
<1>4. CASE Hangup
  BY <1>2, <1>4, AbortStep DEF Hangup, startVars
<1>5. CASE Terminate \/ Exit
  <2>1. /\ UNCHANGED <<conf, pinned, store, settings, live>>
        /\ stage \in {"serving", "draining"} /\ stage' \in {"draining", "exited"}
    BY <1>5 DEF Terminate, Exit, At, startVars, reloadVars
  <2>2. Cleared'
    BY <2>1 DEF StartInv, Cleared, FileBacked, Engine, Unloaded, Unvalidated, Unmetered,
                Unruled, Unnamed, Unbound, Uncertified
  <2> QED
    BY <2>1, <2>2, StartSame DEF startedVars
<1> QED
  BY <1>1, <1>2, <1>3, <1>4, <1>5
  DEF Next, Edit, Notify, InstallHangup, HangupTask, HangupReceived, ReloadReads,
      WatchTask, ChangeReceived, Debounced, TaskStops, startVars, Trigger

LEMMA InitStart == Init => StartInv
<1> SUFFICES ASSUME Init PROVE StartInv
  OBVIOUS
<1>1. stage = "load" /\ store = {} /\ live = 0
  BY DEF Init
<1>2. conf["proxy.rate_limit_per_second"] \in Nat /\ conf["proxy.rate_limit_burst"] \in Nat
  BY LayersAssumption DEF Init
<1> QED
  BY <1>1, <1>2 DEF StartInv, Cleared, Unloaded, Unvalidated, Unmetered, Unruled, Unnamed,
                    Unbound, Uncertified

LEMMA SoundDefects ==
  ASSUME Sound
  PROVE  Defects \ {"ledger"} = {}
<1> SUFFICES ASSUME NEW d \in Defects, d # "ledger" PROVE FALSE
  OBVIOUS
<1>1. d \in {"load", "validate", "metrics", "ruleset", "logid", "bind", "tls"}
  BY DEF Defects
<1> QED
  BY <1>1 DEF Defects, Sound

LEMMA ServingSettings ==
  ASSUME Valid(conf), settings = ServerSettings(conf),
         conf["proxy.rate_limit_per_second"] \in Nat, conf["proxy.rate_limit_burst"] \in Nat
  PROVE  LET p == settings.proxy
         IN  /\ p.permits > 0 /\ p.body > 0 /\ p.frame > 0 /\ 0 \notin p.timeouts
             /\ settings.outbox.capacity > 0 /\ settings.deadline > 0
             /\ p.burst > 0 => p.rate > 0
             /\ p.memory.backend # None => p.memory.ttl > 0
             /\ p.keys = {} => /\ conf["proxy.api_key"] \in Absent
                               /\ "ok" \notin conf["proxy.api_keys"]
<1> DEFINE p == settings.proxy
<1>1. /\ p.permits = conf["proxy.max_concurrent_requests"]
      /\ p.body = conf["proxy.max_body_bytes"] /\ p.frame = conf["proxy.max_frame_bytes"]
      /\ p.timeouts = {conf["proxy.connect_timeout_secs"], conf["proxy.read_timeout_secs"]}
      /\ p.rate = conf["proxy.rate_limit_per_second"]
      /\ p.burst = conf["proxy.rate_limit_burst"]
      /\ p.keys = AcceptedApiKeys(conf) /\ p.memory = SessionMemoryConfig(conf)
      /\ settings.outbox.capacity = conf["audit.outbox_capacity"]
      /\ settings.deadline = conf["policy.decision_timeout_ms"]
  BY DEF ServerSettings, ProxyConfig, OutboxSettings
<1>2. /\ conf["proxy.max_concurrent_requests"] > 0 /\ conf["proxy.max_body_bytes"] > 0
      /\ conf["proxy.max_frame_bytes"] > 0 /\ conf["proxy.connect_timeout_secs"] > 0
      /\ conf["proxy.read_timeout_secs"] > 0
      /\ conf["proxy.rate_limit_burst"] # 0 => conf["proxy.rate_limit_per_second"] # 0
  BY DEF Valid, ProxyValid, Positive
<1>3. conf["audit.outbox_capacity"] > 0 /\ conf["policy.decision_timeout_ms"] > 0
  BY DEF Valid, AuditValid, PolicyValid, Positive
<1>4. p.memory.backend # None => p.memory.ttl > 0
  <2> DEFINE q == SessionMemoryConfig(conf)
  <2>1. p.memory = q
    BY <1>1
  <2>2. q.backend # None => q.ttl > 0
    <3>1. CASE conf["policy.session_memory.enabled"]
      BY <3>1 DEF SessionMemoryConfig, Valid, PolicyValid, SessionMemoryValid, Positive
    <3>2. CASE ~conf["policy.session_memory.enabled"]
      BY <3>2 DEF SessionMemoryConfig
    <3> QED
      BY <3>1, <3>2
  <2> HIDE DEF p, q
  <2> QED
    BY <2>1, <2>2
<1>5. p.keys = {} => /\ conf["proxy.api_key"] \in Absent
                     /\ "ok" \notin conf["proxy.api_keys"]
  <2>1. "ok" \notin Absent
    BY DEF Absent, None
  <2>2. p.keys = ({conf["proxy.api_key"]} \cup conf["proxy.api_keys"]) \ Absent
    BY <1>1 DEF AcceptedApiKeys
  <2> HIDE DEF p
  <2> QED
    BY <2>1, <2>2
<1>6. 0 \notin p.timeouts
  <2>1. p.timeouts = {conf["proxy.connect_timeout_secs"], conf["proxy.read_timeout_secs"]}
    BY <1>1
  <2>2. conf["proxy.connect_timeout_secs"] # 0 /\ conf["proxy.read_timeout_secs"] # 0
    BY <1>2
  <2> HIDE DEF p
  <2> QED
    BY <2>1, <2>2
<1>7. p.burst > 0 => p.rate > 0
  <2>1. p.rate = conf["proxy.rate_limit_per_second"] /\ p.burst = conf["proxy.rate_limit_burst"]
    BY <1>1
  <2>2. conf["proxy.rate_limit_burst"] # 0 => conf["proxy.rate_limit_per_second"] # 0
    BY <1>2
  <2> HIDE DEF p
  <2> QED
    BY <2>1, <2>2
<1> QED
  BY <1>1, <1>2, <1>3, <1>4, <1>5, <1>6, <1>7

\* For every configuration, from whichever layers, and every build: no defect but
\* that of the session ledger lets main touch the store, and a process that
\* serves has settings within the bounds the other modules assume.
THEOREM StartupIsGated == Spec => []StartupGate
<1>1. StartInv => StartupGate
  <2> SUFFICES ASSUME StartInv PROVE StartupGate
    OBVIOUS
  <2>1. Defects \ {"ledger"} # {} => store = {}
    BY SoundDefects DEF StartInv
  <2>2. ASSUME stage = "serving"
        PROVE  Valid(conf) /\ settings = ServerSettings(conf)
    BY <2>2 DEF StartInv, Cleared, Unloaded, Unvalidated
  <2>3. conf["proxy.rate_limit_per_second"] \in Nat /\ conf["proxy.rate_limit_burst"] \in Nat
    BY DEF StartInv
  <2> QED
    BY <2>1, <2>2, <2>3, ServingSettings DEF StartupGate
<1>2. StartInv /\ UNCHANGED vars => StartInv'
  BY DEF StartInv, Cleared, Sound, FileBacked, Engine, vars, startVars, reloadVars
<1>3. IInv => Gated
  BY DEF IInv
<1> QED
  BY <1>1, <1>2, <1>3, InitStart, StepStart, Inductive, PTL DEF Spec
=============================================================================
