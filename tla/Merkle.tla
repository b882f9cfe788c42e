------------------------------- MODULE Merkle -------------------------------
(***************************************************************************)
(* The Merkle tree of RFC 6962 and its proofs, as domain/merkle/services   *)
(* computes and verifies them.  A digest is the term it is the hash of:    *)
(* equal digests are equal inputs.                                         *)
(*                                                                         *)
(* A slice of the leaves is given by its length n and by lo, the leaves    *)
(* before it.  The code recurses on slices and counts a leaf within its    *)
(* slice; here it is counted within the whole tree, so that what is m in   *)
(* the code is m - lo.  Leaves are counted from 1 in TLA+ and from 0 in    *)
(* the code.                                                               *)
(***************************************************************************)
EXTENDS Integers, Sequences

NoProof == <<>>

\* MerkleHasher: the prefix tells a leaf from a node; the empty root has neither.
EmptyRoot == <<"empty">>
LeafHash(record) == <<"leaf", record>>
NodeHash(left, right) == <<"node", left, right>>

\* The loop of split_point, and the largest power of two below n.
SplitPoint(n) ==
    LET Doubled[k \in 1..(2 * n)] == IF k < n THEN Doubled[2 * k] ELSE k
    IN  Doubled[1] \div 2

\* MerkleTree::root, of every slice of the leaves, and of all of them.
Roots(leaves) ==
    LET R[n \in 0..Len(leaves)] ==
          [lo \in 0..(Len(leaves) - n) |->
             CASE n = 0 -> EmptyRoot
               [] n = 1 -> leaves[lo + 1]
               [] OTHER -> LET k == SplitPoint(n) IN NodeHash(R[k][lo], R[n - k][lo + k])]
    IN  R
Root(leaves) == Roots(leaves)[Len(leaves)][0]

\* audit_path: the siblings on the way up, the deepest one first.
AuditPath(m, leaves) ==
    LET R == Roots(leaves)
        Path[n \in 0..Len(leaves)] ==
          [lo \in 0..(Len(leaves) - n) |->
             LET k == SplitPoint(n)
             IN  IF n <= 1 THEN <<>>
                 ELSE IF m < lo + k THEN Append(Path[k][lo], R[n - k][lo + k])
                 ELSE Append(Path[n - k][lo + k], R[k][lo])]
    IN  Path[Len(leaves)][0]

Inclusion(leaves, index) ==
    IF index >= Len(leaves) THEN NoProof
    ELSE [index |-> index, size |-> Len(leaves), path |-> AuditPath(index, leaves)]

\* rebuild_inclusion with the first j digests of the path: the leaf is number `at` of
\* a subtree of s leaves.
RebuildInclusion(m, n, leaf, path) ==
    LET Rebuilt[j \in 0..Len(path)] ==
          [s \in 0..n |-> [at \in 0..n |->
             LET k == SplitPoint(s)
                 below == IF at < k THEN Rebuilt[j - 1][k][at] ELSE Rebuilt[j - 1][s - k][at - k]
             IN  CASE s = 0 -> NoProof
                   [] s = 1 -> IF j = 0 THEN leaf ELSE NoProof
                   [] s > 1 /\ j = 0 -> NoProof
                   [] OTHER -> IF below = NoProof THEN NoProof
                               ELSE IF at < k THEN NodeHash(below, path[j])
                               ELSE NodeHash(path[j], below)]]
    IN  Rebuilt[Len(path)][n][m]

VerifyInclusion(proof, leaf, root) ==
    /\ proof.index < proof.size
    /\ RebuildInclusion(proof.index, proof.size, leaf, proof.path) = root

\* A slip: the flag is handed down on the right side too.
SubproofWhole(m, leaves) ==
    LET R == Roots(leaves)
        Path[n \in 0..Len(leaves)] ==
          [lo \in 0..(Len(leaves) - n) |->
             LET k == SplitPoint(n)
             IN  IF n <= 1 \/ m = lo + n THEN <<>>
                 ELSE IF m <= lo + k THEN Append(Path[k][lo], R[n - k][lo + k])
                 ELSE Append(Path[n - k][lo + k], R[k][lo])]
    IN  Path[Len(leaves)][0]

\* subproof: its flag says that the old tree is the subtree reached so far, whose root
\* the verifier already has.  It is set at the top and handed down on the left side
\* only, so it is set in the slices that start at the first leaf: lo = 0.  A single
\* leaf is never split.
Subproof(m, leaves) ==
    LET R == Roots(leaves)
        Path[n \in 0..Len(leaves)] ==
          [lo \in 0..(Len(leaves) - n) |->
             LET k == SplitPoint(n)
             IN  IF n <= 1 \/ m = lo + n THEN IF lo = 0 THEN <<>> ELSE <<R[n][lo]>>
                 ELSE IF m <= lo + k THEN Append(Path[k][lo], R[n - k][lo + k])
                 ELSE Append(Path[n - k][lo + k], R[k][lo])]
    IN  Path[Len(leaves)][0]

Consistency(leaves, first) ==
    IF first = 0 \/ first > Len(leaves) THEN NoProof
    ELSE [first |-> first, second |-> Len(leaves),
          path |-> IF first = Len(leaves) THEN <<>> ELSE Subproof(first, leaves)]

\* rebuild_consistency with the first j digests of the path: the old and the new root
\* of the s leaves after the first lo ones; the flag is lo = 0 again.
RebuildConsistency(m, n, seed, path) ==
    LET Rebuilt[j \in 0..Len(path)] ==
          [s \in 0..n |-> [lo \in 0..(n - s) |->
             LET k == SplitPoint(s)
                 below == IF m <= lo + k THEN Rebuilt[j - 1][k][lo] ELSE Rebuilt[j - 1][s - k][lo + k]
             IN  IF m = lo + s
                 THEN IF lo = 0
                      THEN IF j = 0 THEN <<seed, seed>> ELSE NoProof
                      ELSE IF j = 1 THEN <<path[1], path[1]>> ELSE NoProof
                 ELSE IF j = 0 \/ below = NoProof THEN NoProof
                 ELSE IF m <= lo + k THEN <<below[1], NodeHash(below[2], path[j])>>
                 ELSE <<NodeHash(path[j], below[1]), NodeHash(path[j], below[2])>>]]
    IN  Rebuilt[Len(path)][n][0]

VerifyConsistency(proof, old, new) ==
    LET m == proof.first
        n == proof.second
    IN  CASE m > n -> FALSE
          [] m = n -> proof.path = <<>> /\ old = new
          [] m = 0 /\ n > 0 -> proof.path = <<>>
          [] OTHER -> RebuildConsistency(m, n, old, proof.path) = <<old, new>>

-----------------------------------------------------------------------------
(* A reference for Root that knows no split: level by level, neighbours    *)
(* are joined and a last one without a neighbour moves up as it is.        *)

Paired(hashes) ==
    [i \in 1..((Len(hashes) + 1) \div 2) |->
       IF 2 * i <= Len(hashes) THEN NodeHash(hashes[2 * i - 1], hashes[2 * i])
       ELSE hashes[2 * i - 1]]
RootByLevels(leaves) ==
    LET Level[j \in 0..Len(leaves)] == IF j = 0 THEN leaves ELSE Paired(Level[j - 1])
    IN  IF leaves = <<>> THEN EmptyRoot ELSE Level[Len(leaves)][1]
=============================================================================
