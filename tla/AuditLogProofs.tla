--------------------------- MODULE AuditLogProofs ---------------------------
(***************************************************************************)
(* Proofs about AuditLog, for any replicas, logs and records, and any      *)
(* bounds on leaves and transactions in doubt.                             *)
(***************************************************************************)
EXTENDS AuditLog, SequenceTheorems, FiniteSetTheorems, TLAPS

\* The rows of a table without gaps, and the list they stand for.
Dense(rows, n) == n \in Nat /\ DOMAIN rows = 0..(n - 1)
Size(rows) == Cardinality(DOMAIN rows)
List(rows, n) == [k \in 1..n |-> rows[k - 1]]
Row(n, rec) == [i \in {n} |-> rec]

LEMMA IntervalSize ==
  ASSUME NEW n \in Nat
  PROVE  IsFiniteSet(0..(n - 1)) /\ Cardinality(0..(n - 1)) = n
<1>1. 0 \in Int /\ n - 1 \in Int
  OBVIOUS
<1>2. IsFiniteSet(0..(n - 1)) /\ Cardinality(0..(n - 1)) = IF 0 > n - 1 THEN 0 ELSE n - 1 - 0 + 1
  BY <1>1, FS_Interval
<1> QED
  BY <1>2

LEMMA DenseSize ==
  ASSUME NEW rows, NEW n, Dense(rows, n)
  PROVE  Size(rows) = n
BY IntervalSize DEF Dense, Size

\* COALESCE(MAX(leaf_index) + 1, 0) is the number of rows.
LEMMA DenseNext ==
  ASSUME NEW rows, NEW n, Dense(rows, n)
  PROVE  NextIndex(rows) = n
<1>1. CASE n = 0
  <2>1. DOMAIN rows = {}
    BY <1>1 DEF Dense
  <2> QED
    BY <1>1, <2>1 DEF NextIndex
<1>2. CASE n # 0
  <2>1. n - 1 \in DOMAIN rows /\ \A i \in DOMAIN rows : i <= n - 1
    BY <1>2 DEF Dense
  <2>2. ASSUME NEW m \in DOMAIN rows, \A i \in DOMAIN rows : i <= m PROVE m = n - 1
    <3>1. n - 1 <= m /\ m <= n - 1
      BY <2>1, <2>2
    <3>2. n \in Nat /\ m \in Int
      BY DEF Dense
    <3> QED
      BY <3>1, <3>2
  <2>3. (CHOOSE m \in DOMAIN rows : \A i \in DOMAIN rows : i <= m) = n - 1
    BY <2>1, <2>2
  <2>4. DOMAIN rows # {}
    BY <2>1
  <2>5. NextIndex(rows) = 1 + (n - 1) /\ n \in Nat
    BY <2>3, <2>4 DEF NextIndex, Dense
  <2> QED
    BY <2>5
<1> QED
  BY <1>1, <1>2

\* The k-th row in index order is the one with index k - 1.
LEMMA DenseRanked ==
  ASSUME NEW rows, NEW n, Dense(rows, n), NEW k \in 1..n
  PROVE  Ranked(rows, k) = k - 1
<1>1. ASSUME NEW i \in DOMAIN rows
      PROVE  Cardinality({j \in DOMAIN rows : j < i}) = i
  <2>1. i \in Nat /\ {j \in DOMAIN rows : j < i} = 0..(i - 1)
    BY DEF Dense
  <2> QED
    BY <2>1, IntervalSize
<1>2. k - 1 \in DOMAIN rows
  BY DEF Dense
<1>3. (CHOOSE i \in DOMAIN rows : Cardinality({j \in DOMAIN rows : j < i}) = k - 1) = k - 1
  BY <1>1, <1>2
<1> QED
  BY <1>3 DEF Ranked

LEMMA DenseOrdered ==
  ASSUME NEW rows, NEW n, Dense(rows, n)
  PROVE  Ordered(rows) = List(rows, n)
<1>1. Cardinality(DOMAIN rows) = n
  BY DenseSize DEF Size
<1>2. \A k \in 1..n : rows[Ranked(rows, k)] = rows[k - 1]
  BY DenseRanked
<1> QED
  BY <1>1, <1>2 DEF Ordered, List

LEMMA ListTyped ==
  ASSUME NEW rows, NEW n, Dense(rows, n), RowsOK(rows)
  PROVE  List(rows, n) \in Seq(Record) /\ Len(List(rows, n)) = n
<1>1. \A k \in 1..n : rows[k - 1] \in Record
  BY DEF Dense, RowsOK
<1> QED
  BY <1>1 DEF List, Dense

\* An insert at the next index adds one row and keeps the others.
LEMMA MergeOne ==
  ASSUME NEW rows, NEW n, Dense(rows, n), RowsOK(rows), NEW rec \in Record
  PROVE  LET more == Merge(rows, Row(n, rec))
         IN  /\ Dense(more, n + 1) /\ RowsOK(more)
             /\ \A i \in DOMAIN rows : more[i] = rows[i]
             /\ more[n] = rec
             /\ List(more, n + 1) = Append(List(rows, n), rec)
<1> DEFINE more == Merge(rows, Row(n, rec))
<1>1. DOMAIN more = 0..n /\ n \in Nat
  BY DEF Merge, Dense, Row
<1>2. \A i \in DOMAIN rows : more[i] = rows[i]
  BY DEF Merge
<1>3. more[n] = rec
  BY DEF Merge, Dense, Row
<1>4. Dense(more, n + 1)
  BY <1>1 DEF Dense
<1>5. \A i \in DOMAIN more : i \in DOMAIN rows \/ i = n
  BY <1>1 DEF Dense
<1>6. RowsOK(more)
  <2>1. more = [i \in DOMAIN more |-> more[i]]
    BY DEF Merge
  <2> HIDE DEF more
  <2> QED
    BY <1>1, <1>2, <1>3, <1>5, <2>1 DEF RowsOK
<1>7. List(more, n + 1) = Append(List(rows, n), rec)
  <2>1. List(rows, n) \in Seq(Record) /\ Len(List(rows, n)) = n
    BY ListTyped
  <2>2. List(more, n + 1) \in Seq(Record) /\ Len(List(more, n + 1)) = n + 1
    BY <1>4, <1>6, ListTyped
  <2>3. Append(List(rows, n), rec) \in Seq(Record) /\ Len(Append(List(rows, n), rec)) = n + 1
    BY <2>1
  <2>4. ASSUME NEW k \in 1..(n + 1)
        PROVE  List(more, n + 1)[k] = Append(List(rows, n), rec)[k]
    <3>1. CASE k = n + 1
      <4>1. Append(List(rows, n), rec)[k] = rec
        BY <2>1, <3>1
      <4>2. List(more, n + 1)[k] = more[n]
        BY <1>1, <3>1 DEF List
      <4> QED
        BY <1>3, <4>1, <4>2
    <3>2. CASE k # n + 1
      <4>1. k \in 1..n /\ k - 1 \in DOMAIN rows
        BY <1>1, <3>2 DEF Dense
      <4>2. Append(List(rows, n), rec)[k] = List(rows, n)[k]
        BY <2>1, <4>1
      <4>3. List(rows, n)[k] = rows[k - 1] /\ List(more, n + 1)[k] = more[k - 1]
        BY <4>1 DEF List
      <4> QED
        BY <1>2, <4>1, <4>2, <4>3
    <3> QED
      BY <3>1, <3>2
  <2> QED
    BY <1>1, <2>2, <2>3, <2>4, SeqEqual
<1> QED
  BY <1>2, <1>3, <1>4, <1>6, <1>7

LEMMA MergeNone ==
  ASSUME NEW rows, RowsOK(rows)
  PROVE  Merge(rows, NoRows) = rows
<1>1. DOMAIN rows \cup DOMAIN NoRows = DOMAIN rows
  BY DEF NoRows
<1>2. Merge(rows, NoRows) = [i \in DOMAIN rows |-> rows[i]]
  BY <1>1 DEF Merge
<1> QED
  BY <1>2 DEF RowsOK
-----------------------------------------------------------------------------
(* The inductive invariant.                                                *)

AppendWrites(l, n, rec) == Writes(l, Row(n, rec), {}, FALSE)
IssueWrites(l, hs, pc) == Writes(l, NoRows, hs, pc = "commit")
HeadType == [log : LogId, root : Seq(Record)]
Anchored(l, n) == \E c \in checkpoint : c.log = l /\ Len(c.root) = n

FieldsInv ==
  /\ home \in [Replica -> LogId \cup {NoLog}]
  /\ app \in [Replica -> [pc : {"idle", "read", "insert", "commit"},
                          rec : Record \cup {NoLog}, next : Nat]]
  /\ \A r \in Replica : app[r].pc # "idle" => app[r].rec \in Record
  /\ iss \in [Replica -> [pc : {"idle", "anchor", "save", "commit"}, root : Seq(Record)]]
  /\ lastSize \in [Replica -> Nat \cup {-1}]
  /\ tx = [c \in Replica \X Kind |-> tx[c]]

\* The committed tables: no gaps, and everything acknowledged or signed is in them.
TableInv ==
  /\ logs \subseteq LogId
  /\ leaf = [l \in LogId |-> leaf[l]]
  /\ \A l \in LogId : Dense(leaf[l], Size(leaf[l])) /\ RowsOK(leaf[l])
  /\ signed \subseteq HeadType /\ checkpoint \subseteq signed
  /\ acked \subseteq [log : LogId, index : Nat, rec : Record]
  /\ AckedIsStored /\ SignedArePrefixes

\* One replica: what its two transactions have written at each of their steps.
SessionOK(r) ==
  /\ home[r] = NoLog => lastSize[r] = -1 /\ app[r].pc = "idle" /\ iss[r].pc = "idle"
  /\ lastSize[r] # -1 => Anchored(home[r], lastSize[r])
  /\ app[r].pc = "insert" => app[r].next \in 0..Size(leaf[home[r]])
  /\ app[r].pc = "commit" => app[r].next = Size(leaf[home[r]])
  /\ tx[<<r, "append">>] = IF app[r].pc = "commit"
                           THEN AppendWrites(home[r], app[r].next, app[r].rec) ELSE NoWrites
  /\ iss[r].pc # "idle" => TreeHead(home[r], iss[r].root) \in signed
  /\ iss[r].pc \in {"idle", "anchor"} => tx[<<r, "issue">>] = NoWrites
  /\ iss[r].pc \in {"save", "commit"} =>
       /\ \E hs \in SUBSET {iss[r].root} :
            tx[<<r, "issue">>] = IssueWrites(home[r], hs, iss[r].pc)
       /\ iss[r].root \in tx[<<r, "issue">>].heads \/ Anchored(home[r], Len(iss[r].root))
SessionInv == \A r \in Replica : SessionOK(r)

\* A transaction in doubt holds the next leaf of its log, or a signed head.
DoubtOK(w) ==
  \/ \E l \in LogId, rec \in Record : w = AppendWrites(l, Size(leaf[l]), rec)
  \/ \E h \in signed : \E hs \in SUBSET {h.root} : w = IssueWrites(h.log, hs, "commit")
DoubtInv == \A w \in doubt : DoubtOK(w)

\* The key of the next leaf of a log is held by one transaction at most.
HoldsRow(w) == DOMAIN w.rows # {}
LoneInv ==
  /\ \A r, q \in Replica :
       app[r].pc = "commit" /\ app[q].pc = "commit" /\ home[r] = home[q] => r = q
  /\ \A r \in Replica : \A w \in doubt :
       app[r].pc = "commit" /\ HoldsRow(w) => w.log # home[r]
  /\ \A v, w \in doubt : HoldsRow(v) /\ HoldsRow(w) /\ v.log = w.log => v = w

IInv == FieldsInv /\ TableInv /\ SessionInv /\ DoubtInv /\ LoneInv

LEMMA InvInit == Init => IInv
<1> SUFFICES ASSUME Init PROVE IInv
  OBVIOUS
<1> USE DEF Init
<1>1. Size(NoRows) = 0 /\ Dense(NoRows, 0) /\ RowsOK(NoRows)
  <2>1. DOMAIN NoRows = {} /\ NoRows = [i \in DOMAIN NoRows |-> NoRows[i]]
    BY DEF NoRows
  <2>2. Dense(NoRows, 0)
    BY <2>1 DEF Dense
  <2> QED
    BY <2>1, <2>2, DenseSize DEF RowsOK
<1>2. FieldsInv
  <2>1. AppendIdle \in [pc : {"idle", "read", "insert", "commit"},
                        rec : Record \cup {NoLog}, next : Nat]
    BY DEF AppendIdle
  <2>2. IssueIdle \in [pc : {"idle", "anchor", "save", "commit"}, root : Seq(Record)]
    BY DEF IssueIdle
  <2>3. lastSize \in [Replica -> Nat \cup {-1}]
    OBVIOUS
  <2>4. \A r \in Replica : app[r].pc = "idle"
    BY DEF AppendIdle
  <2>5. tx = [c \in Replica \X Kind |-> tx[c]]
    OBVIOUS
  <2> QED
    BY <2>1, <2>2, <2>3, <2>4, <2>5 DEF FieldsInv
<1>3. TableInv
  BY <1>1 DEF TableInv, AckedIsStored, SignedArePrefixes
<1>4. SessionInv
  BY DEF SessionInv, SessionOK, AppendIdle, IssueIdle, Kind
<1>5. DoubtInv /\ LoneInv
  BY DEF DoubtInv, LoneInv, AppendIdle
<1> QED
  BY <1>2, <1>3, <1>4, <1>5 DEF IInv

\* A step that commits no leaf and signs nothing keeps the tables right.
LEMMA TableSame ==
  ASSUME TableInv, leaf' = leaf, signed' = signed, acked' = acked,
         logs' \subseteq LogId, checkpoint' \subseteq signed
  PROVE  TableInv'
BY DEF TableInv, AckedIsStored, SignedArePrefixes

\* A committed append: one more leaf at the end of its log.
LEMMA LeafGrow ==
  ASSUME TableInv, NEW l \in LogId, NEW rec \in Record,
         leaf' = [leaf EXCEPT ![l] = Merge(@, Row(Size(leaf[l]), rec))]
  PROVE  /\ leaf' = [m \in LogId |-> leaf'[m]]
         /\ \A m \in LogId : Dense(leaf'[m], Size(leaf'[m])) /\ RowsOK(leaf'[m])
         /\ Size(leaf[l]) \in Nat /\ Size(leaf'[l]) = Size(leaf[l]) + 1
         /\ \A m \in LogId : m # l => leaf'[m] = leaf[m]
         /\ \A m \in LogId : \A i \in DOMAIN leaf[m] :
              i \in DOMAIN leaf'[m] /\ leaf'[m][i] = leaf[m][i]
         /\ Size(leaf[l]) \in DOMAIN leaf'[l] /\ leaf'[l][Size(leaf[l])] = rec
         /\ List(leaf'[l], Size(leaf[l]) + 1) = Append(List(leaf[l], Size(leaf[l])), rec)
<1> DEFINE n == Size(leaf[l])
           more == Merge(leaf[l], Row(n, rec))
<1>1. Dense(leaf[l], n) /\ RowsOK(leaf[l]) /\ leaf = [m \in LogId |-> leaf[m]]
  BY DEF TableInv
<1>2. leaf'[l] = more /\ \A m \in LogId : m # l => leaf'[m] = leaf[m]
  BY <1>1
<1>3. leaf' = [m \in LogId |-> leaf'[m]]
  BY <1>1
<1>4. /\ Dense(more, n + 1) /\ RowsOK(more) /\ more[n] = rec
      /\ \A i \in DOMAIN leaf[l] : more[i] = leaf[l][i]
      /\ List(more, n + 1) = Append(List(leaf[l], n), rec)
  <2> HIDE DEF n
  <2> QED
    BY <1>1, MergeOne
<1> HIDE DEF more, n
<1>5. Size(leaf'[l]) = n + 1 /\ n \in Nat
  BY <1>1, <1>2, <1>4, DenseSize DEF Dense
<1>6. DOMAIN leaf[l] = 0..(n - 1) /\ DOMAIN leaf'[l] = 0..n
  BY <1>1, <1>2, <1>4, <1>5 DEF Dense
<1>7. \A m \in LogId : \A i \in DOMAIN leaf[m] :
        i \in DOMAIN leaf'[m] /\ leaf'[m][i] = leaf[m][i]
  <2> SUFFICES ASSUME NEW m \in LogId, NEW i \in DOMAIN leaf[m]
               PROVE  i \in DOMAIN leaf'[m] /\ leaf'[m][i] = leaf[m][i]
    OBVIOUS
  <2>1. CASE m = l
    <3>1. i \in DOMAIN leaf'[l]
      BY <1>5, <1>6, <2>1
    <3> QED
      BY <1>2, <1>4, <2>1, <3>1
  <2>2. CASE m # l
    BY <1>2, <2>2
  <2> QED
    BY <2>1, <2>2
<1>8. \A m \in LogId : Dense(leaf'[m], Size(leaf'[m])) /\ RowsOK(leaf'[m])
  <2> SUFFICES ASSUME NEW m \in LogId
               PROVE  Dense(leaf'[m], Size(leaf'[m])) /\ RowsOK(leaf'[m])
    OBVIOUS
  <2>1. CASE m = l
    BY <1>2, <1>4, <1>5, <2>1
  <2>2. CASE m # l
    BY <1>2, <2>2 DEF TableInv
  <2> QED
    BY <2>1, <2>2
<1>9. n \in DOMAIN leaf'[l] /\ leaf'[l][n] = rec
  BY <1>2, <1>4, <1>5, <1>6
<1> QED
  BY <1>2, <1>3, <1>4, <1>5, <1>7, <1>8, <1>9 DEF n

\* It may be acknowledged, and nothing acknowledged or signed before is disturbed.
LEMMA TableGrow ==
  ASSUME TableInv, NEW l \in LogId, NEW rec \in Record,
         leaf' = [leaf EXCEPT ![l] = Merge(@, Row(Size(leaf[l]), rec))],
         signed' = signed, checkpoint' = checkpoint, logs' = logs,
         acked' \subseteq acked \cup {[log |-> l, index |-> Size(leaf[l]), rec |-> rec]}
  PROVE  TableInv'
<1> DEFINE n == Size(leaf[l])
<1>1. /\ leaf' = [m \in LogId |-> leaf'[m]] /\ n \in Nat
      /\ \A m \in LogId : Dense(leaf'[m], Size(leaf'[m])) /\ RowsOK(leaf'[m])
      /\ n \in DOMAIN leaf'[l] /\ leaf'[l][n] = rec
  BY LeafGrow
<1>2. \A m \in LogId : \A i \in DOMAIN leaf[m] :
        i \in DOMAIN leaf'[m] /\ leaf'[m][i] = leaf[m][i]
  BY LeafGrow
<1> HIDE DEF n
<1>3. AckedIsStored'
  <2> SUFFICES ASSUME NEW a \in acked'
               PROVE  a.index \in DOMAIN leaf'[a.log] /\ leaf'[a.log][a.index] = a.rec
    BY DEF AckedIsStored
  <2>1. CASE a \in acked
    <3>1. a.log \in LogId /\ a.index \in DOMAIN leaf[a.log] /\ leaf[a.log][a.index] = a.rec
      BY <2>1 DEF TableInv, AckedIsStored
    <3> QED
      BY <1>2, <3>1
  <2>2. CASE a \notin acked
    <3>1. a.log = l /\ a.index = n /\ a.rec = rec
      BY <2>2 DEF n
    <3> QED
      BY <1>1, <3>1
  <2> QED
    BY <2>1, <2>2
<1>4. acked' \subseteq [log : LogId, index : Nat, rec : Record]
  BY <1>1 DEF TableInv, n
<1>5. SignedArePrefixes'
  <2> SUFFICES ASSUME NEW h \in signed, NEW k \in 1..Len(h.root)
               PROVE  k - 1 \in DOMAIN leaf'[h.log] /\ h.root[k] = leaf'[h.log][k - 1]
    BY DEF SignedArePrefixes
  <2>1. h.log \in LogId /\ k - 1 \in DOMAIN leaf[h.log] /\ h.root[k] = leaf[h.log][k - 1]
    BY DEF TableInv, SignedArePrefixes, HeadType
  <2> QED
    BY <1>2, <2>1
<1> QED
  BY <1>1, <1>3, <1>4, <1>5 DEF TableInv

\* Signing the head of what is stored.
LEMMA TableSign ==
  ASSUME TableInv, NEW l \in LogId, UNCHANGED <<leaf, checkpoint, acked, logs>>,
         signed' = signed \cup {TreeHead(l, Ordered(leaf[l]))}
  PROVE  /\ TableInv'
         /\ Ordered(leaf[l]) = List(leaf[l], Size(leaf[l]))
         /\ Ordered(leaf[l]) \in Seq(Record) /\ Len(Ordered(leaf[l])) = Size(leaf[l])
<1> DEFINE n == Size(leaf[l])
           root == Ordered(leaf[l])
<1>1. Dense(leaf[l], n) /\ RowsOK(leaf[l])
  BY DEF TableInv
<1>2. root = List(leaf[l], n) /\ root \in Seq(Record) /\ Len(root) = n
  <2> HIDE DEF n
  <2> QED
    BY <1>1, DenseOrdered, ListTyped
<1>3. \A k \in 1..Len(root) : k - 1 \in DOMAIN leaf[l] /\ root[k] = leaf[l][k - 1]
  BY <1>1, <1>2 DEF Dense, List
<1> HIDE DEF root, n
<1>4. signed' = signed \cup {TreeHead(l, root)} /\ TreeHead(l, root) \in HeadType
  BY <1>2 DEF root, TreeHead, HeadType
<1>5. SignedArePrefixes'
  BY <1>3, <1>4 DEF TableInv, SignedArePrefixes, TreeHead
<1> QED
  BY <1>2, <1>4, <1>5 DEF TableInv, AckedIsStored, root, n

-----------------------------------------------------------------------------
(* What a step of one replica or of the database leaves alone.             *)

LEMMA AppendFields ==
  ASSUME NEW w, NEW l, NEW n, NEW rec, w = AppendWrites(l, n, rec)
  PROVE  /\ w.log = l /\ w.rows = Row(n, rec) /\ w.heads = {}
         /\ DOMAIN w.rows = {n} /\ HoldsRow(w)
<1>1. w.log = l /\ w.rows = Row(n, rec) /\ w.heads = {}
  BY DEF AppendWrites, Writes
<1>2. DOMAIN Row(n, rec) = {n}
  BY DEF Row
<1> QED
  BY <1>1, <1>2 DEF HoldsRow

LEMMA IssueFields ==
  ASSUME NEW w, NEW l, NEW hs, NEW pc, w = IssueWrites(l, hs, pc)
  PROVE  /\ w.log = l /\ w.rows = NoRows /\ w.heads = hs
         /\ DOMAIN w.rows = {} /\ ~HoldsRow(w)
<1>1. w.log = l /\ w.rows = NoRows /\ w.heads = hs
  BY DEF IssueWrites, Writes
<1>2. DOMAIN NoRows = {}
  BY DEF NoRows
<1> QED
  BY <1>1, <1>2 DEF HoldsRow

LEMMA SessionFrame ==
  ASSUME NEW r \in Replica, SessionOK(r), FieldsInv, TableInv,
         home'[r] = home[r], app'[r] = app[r], iss'[r] = iss[r], lastSize'[r] = lastSize[r],
         tx'[<<r, "append">>] = tx[<<r, "append">>], tx'[<<r, "issue">>] = tx[<<r, "issue">>],
         signed \subseteq signed', checkpoint \subseteq checkpoint',
         \/ home[r] = NoLog
         \/ Size(leaf'[home[r]]) = Size(leaf[home[r]])
         \/ app[r].pc # "commit" /\ Size(leaf'[home[r]]) = Size(leaf[home[r]]) + 1
  PROVE  SessionOK(r)'
<1>1. \A l, n : Anchored(l, n) => Anchored(l, n)'
  BY DEF Anchored
<1>2. app[r].pc = "insert" => app[r].next \in 0..Size(leaf'[home[r]])
  <2> SUFFICES ASSUME app[r].pc = "insert" PROVE app[r].next \in 0..Size(leaf'[home[r]])
    OBVIOUS
  <2>1. app[r].next \in 0..Size(leaf[home[r]]) /\ home[r] # NoLog
    BY DEF SessionOK
  <2>2. Size(leaf[home[r]]) \in Nat
    BY <2>1 DEF TableInv, FieldsInv, Dense
  <2> QED
    BY <2>1, <2>2
<1>3. app[r].pc = "commit" => app[r].next = Size(leaf'[home[r]])
  BY DEF SessionOK
<1>4. iss[r].root \in tx[<<r, "issue">>].heads \/ Anchored(home[r], Len(iss[r].root)) =>
        iss[r].root \in tx[<<r, "issue">>].heads \/ Anchored(home[r], Len(iss[r].root))'
  BY <1>1
<1>5. lastSize[r] # -1 => Anchored(home[r], lastSize[r])'
  BY <1>1 DEF SessionOK
<1> HIDE DEF Size
<1>6. iss[r].pc \in {"save", "commit"} =>
        /\ \E hs \in SUBSET {iss[r].root} :
             tx[<<r, "issue">>] = IssueWrites(home[r], hs, iss[r].pc)
        /\ iss[r].root \in tx[<<r, "issue">>].heads \/ Anchored(home[r], Len(iss[r].root))'
  BY <1>4 DEF SessionOK
<1> QED
  BY <1>2, <1>3, <1>5, <1>6 DEF SessionOK, Anchored

LEMMA DoubtFrame ==
  ASSUME NEW w, DoubtOK(w), signed \subseteq signed',
         \A l \in LogId : HoldsRow(w) /\ w.log = l => Size(leaf'[l]) = Size(leaf[l])
  PROVE  DoubtOK(w)'
<1>1. CASE \E l \in LogId, rec \in Record : w = AppendWrites(l, Size(leaf[l]), rec)
  <2>1. PICK l \in LogId, rec \in Record : w = AppendWrites(l, Size(leaf[l]), rec)
    BY <1>1
  <2>2. w.log = l /\ HoldsRow(w)
    BY <2>1, AppendFields
  <2>3. w = AppendWrites(l, Size(leaf'[l]), rec)
    BY <2>1, <2>2
  <2> QED
    BY <2>3 DEF DoubtOK
<1>2. CASE \E h \in signed : \E hs \in SUBSET {h.root} : w = IssueWrites(h.log, hs, "commit")
  BY <1>2 DEF DoubtOK
<1> QED
  BY <1>1, <1>2 DEF DoubtOK

\* A command in progress has a log.
LEMMA HomeIsLog ==
  ASSUME FieldsInv, NEW r \in Replica, SessionOK(r), app[r].pc # "idle" \/ iss[r].pc # "idle"
  PROVE  home[r] \in LogId
<1>1. home[r] # NoLog
  BY DEF SessionOK
<1>2. home[r] \in LogId \cup {NoLog}
  BY DEF FieldsInv
<1> QED
  BY <1>1, <1>2

\* The writes of a replica whose COMMIT is next.
LEMMA ReadyWrites ==
  ASSUME NEW r \in Replica, FieldsInv, TableInv, SessionOK(r)
  PROVE  /\ app[r].pc = "commit" =>
              /\ home[r] \in LogId /\ app[r].rec \in Record
              /\ app[r].next = Size(leaf[home[r]])
              /\ tx[<<r, "append">>] = AppendWrites(home[r], Size(leaf[home[r]]), app[r].rec)
              /\ DoubtOK(tx[<<r, "append">>]) /\ HoldsRow(tx[<<r, "append">>])
              /\ tx[<<r, "append">>].log = home[r]
         /\ iss[r].pc = "commit" =>
              /\ TreeHead(home[r], iss[r].root) \in signed
              /\ \E hs \in SUBSET {iss[r].root} : tx[<<r, "issue">>] = IssueWrites(home[r], hs, "commit")
              /\ DoubtOK(tx[<<r, "issue">>]) /\ ~HoldsRow(tx[<<r, "issue">>])
<1>1. ASSUME app[r].pc = "commit"
      PROVE  /\ home[r] \in LogId /\ app[r].rec \in Record
             /\ app[r].next = Size(leaf[home[r]])
             /\ tx[<<r, "append">>] = AppendWrites(home[r], Size(leaf[home[r]]), app[r].rec)
             /\ DoubtOK(tx[<<r, "append">>]) /\ HoldsRow(tx[<<r, "append">>])
             /\ tx[<<r, "append">>].log = home[r]
  <2>1. home[r] \in LogId /\ app[r].rec \in Record
    BY <1>1, HomeIsLog DEF FieldsInv
  <2>2. app[r].next = Size(leaf[home[r]])
    BY <1>1 DEF SessionOK
  <2>3. tx[<<r, "append">>] = AppendWrites(home[r], Size(leaf[home[r]]), app[r].rec)
    BY <1>1, <2>2 DEF SessionOK
  <2>4. DoubtOK(tx[<<r, "append">>])
    BY <2>1, <2>3 DEF DoubtOK
  <2>5. HoldsRow(tx[<<r, "append">>]) /\ tx[<<r, "append">>].log = home[r]
    BY <2>3, AppendFields
  <2> QED
    BY <2>1, <2>2, <2>3, <2>4, <2>5
<1>2. ASSUME iss[r].pc = "commit"
      PROVE  /\ TreeHead(home[r], iss[r].root) \in signed
             /\ \E hs \in SUBSET {iss[r].root} : tx[<<r, "issue">>] = IssueWrites(home[r], hs, "commit")
             /\ DoubtOK(tx[<<r, "issue">>]) /\ ~HoldsRow(tx[<<r, "issue">>])
  <2>1. TreeHead(home[r], iss[r].root) \in signed
    BY <1>2 DEF SessionOK
  <2>2. PICK hs \in SUBSET {iss[r].root} :
          tx[<<r, "issue">>] = IssueWrites(home[r], hs, iss[r].pc)
    BY <1>2 DEF SessionOK
  <2>3. tx[<<r, "issue">>] = IssueWrites(home[r], hs, "commit")
    BY <1>2, <2>2
  <2>4. ~HoldsRow(tx[<<r, "issue">>])
    BY <2>3, IssueFields
  <2>5. DoubtOK(tx[<<r, "issue">>])
    BY <2>1, <2>3 DEF DoubtOK, TreeHead
  <2> QED
    BY <2>1, <2>3, <2>4, <2>5
<1> QED
  BY <1>1, <1>2

\* The transaction a step of replica r may leave in doubt.
Leaves(r, w) ==
  \/ w = tx[<<r, "append">>] /\ app[r].pc = "commit" /\ app'[r].pc # "commit"
  \/ w = tx[<<r, "issue">>] /\ iss[r].pc = "commit"

\* Everything of the other replicas.
Others(r) ==
  \A q \in Replica \ {r} :
    /\ home'[q] = home[q] /\ app'[q] = app[q] /\ iss'[q] = iss[q]
    /\ lastSize'[q] = lastSize[q]
    /\ tx'[<<q, "append">>] = tx[<<q, "append">>]
    /\ tx'[<<q, "issue">>] = tx[<<q, "issue">>]

\* A step of one replica that commits nothing.
LEMMA OneReplica ==
  ASSUME IInv, NEW r \in Replica, leaf' = leaf,
         signed \subseteq signed', checkpoint \subseteq checkpoint',
         Others(r),
         FieldsInv', TableInv', SessionOK(r)',
         \A w \in doubt' : w \in doubt \/ Leaves(r, w),
         app'[r].pc = "commit" =>
           \/ app[r].pc = "commit" /\ home'[r] = home[r]
           \/ /\ \A q \in Replica : app[q].pc = "commit" => home[q] # home'[r]
              /\ \A w \in doubt' : HoldsRow(w) => w.log # home'[r]
  PROVE  IInv'
<1> USE DEF IInv
<1>1. SessionInv'
  <2> SUFFICES ASSUME NEW q \in Replica PROVE SessionOK(q)'
    BY DEF SessionInv
  <2>1. CASE q = r
    BY <2>1
  <2>2. CASE q # r
    BY <2>2, SessionFrame DEF SessionInv, Others
  <2> QED
    BY <2>1, <2>2
<1>2. /\ app[r].pc = "commit" => /\ DoubtOK(tx[<<r, "append">>]) /\ HoldsRow(tx[<<r, "append">>])
                                 /\ tx[<<r, "append">>].log = home[r]
      /\ iss[r].pc = "commit" => DoubtOK(tx[<<r, "issue">>]) /\ ~HoldsRow(tx[<<r, "issue">>])
  BY ReadyWrites DEF SessionInv
<1>3. DoubtInv'
  <2> SUFFICES ASSUME NEW w \in doubt' PROVE DoubtOK(w)'
    BY DEF DoubtInv
  <2>1. DoubtOK(w)
    BY <1>2 DEF DoubtInv, Leaves
  <2> QED
    BY <2>1, DoubtFrame
<1>4. \A w \in doubt' : HoldsRow(w) =>
        \/ w \in doubt
        \/ /\ app[r].pc = "commit" /\ app'[r].pc # "commit"
           /\ w.log = home[r] /\ w = tx[<<r, "append">>]
  <2> SUFFICES ASSUME NEW w \in doubt', HoldsRow(w), w \notin doubt
               PROVE  /\ app[r].pc = "commit" /\ app'[r].pc # "commit"
                      /\ w.log = home[r] /\ w = tx[<<r, "append">>]
    OBVIOUS
  <2>1. CASE w = tx[<<r, "issue">>] /\ iss[r].pc = "commit"
    BY <1>2, <2>1
  <2>2. CASE w = tx[<<r, "append">>] /\ app[r].pc = "commit" /\ app'[r].pc # "commit"
    BY <1>2, <2>2
  <2> QED
    BY <2>1, <2>2 DEF Leaves
<1>5. ASSUME NEW p \in Replica, NEW q \in Replica,
             app'[p].pc = "commit", app'[q].pc = "commit", home'[p] = home'[q]
      PROVE  p = q
  <2>1. \A x \in Replica : x # r /\ app'[x].pc = "commit" =>
          app[x].pc = "commit" /\ home'[x] = home[x]
    BY DEF Others
  <2>2. \A x, y \in Replica :
          app[x].pc = "commit" /\ app[y].pc = "commit" /\ home[x] = home[y] => x = y
    BY DEF LoneInv
  <2>3. ASSUME NEW x \in Replica, x # r, app'[x].pc = "commit", app'[r].pc = "commit"
        PROVE  home'[x] # home'[r]
    <3>1. app[x].pc = "commit" /\ home'[x] = home[x]
      BY <2>1, <2>3
    <3> QED
      BY <2>2, <2>3, <3>1
  <2> QED
    BY <1>5, <2>1, <2>2, <2>3
<1>6. ASSUME NEW q \in Replica, NEW w \in doubt', app'[q].pc = "commit", HoldsRow(w)
      PROVE  w.log # home'[q]
  <2>1. CASE q = r
    <3>1. w \in doubt
      BY <1>4, <1>6, <2>1
    <3> QED
      BY <1>6, <2>1, <3>1 DEF LoneInv
  <2>2. CASE q # r
    <3>1. app[q].pc = "commit" /\ home'[q] = home[q]
      BY <1>6, <2>2 DEF Others
    <3> QED
      BY <1>4, <1>6, <2>2, <3>1 DEF LoneInv
  <2> QED
    BY <2>1, <2>2
<1>7. ASSUME NEW v \in doubt', NEW w \in doubt', HoldsRow(v), HoldsRow(w), v.log = w.log
      PROVE  v = w
  BY <1>4, <1>7 DEF LoneInv
<1>8. LoneInv'
  BY <1>5, <1>6, <1>7 DEF LoneInv, HoldsRow
<1> QED
  BY <1>1, <1>3, <1>8

-----------------------------------------------------------------------------
(* The steps.                                                              *)

LEMMA StartKeeps ==
  ASSUME IInv, NEW r \in Replica, NEW l \in LogId, CreateLog(r, l) \/ PinLog(r, l)
  PROVE  IInv'
<1> USE DEF IInv
<1>1. /\ home[r] = NoLog /\ home' = [home EXCEPT ![r] = l] /\ logs' \subseteq logs \cup {l}
      /\ UNCHANGED <<leaf, checkpoint, app, iss, lastSize, tx, doubt, signed, acked>>
  BY DEF CreateLog, PinLog
<1>2. FieldsInv'
  BY <1>1 DEF FieldsInv
<1>3. TableInv'
  BY <1>1, TableSame DEF TableInv
<1>4. lastSize[r] = -1 /\ app[r].pc = "idle" /\ iss[r].pc = "idle" /\ SessionOK(r)
  BY <1>1 DEF SessionInv, SessionOK
<1>5. SessionOK(r)'
  BY <1>1, <1>4 DEF SessionOK
<1>6. Others(r)
  BY <1>1 DEF Others, FieldsInv
<1> QED
  BY <1>1, <1>2, <1>3, <1>4, <1>5, <1>6, OneReplica

LEMMA AppendBeginKeeps ==
  ASSUME IInv, NEW r \in Replica, NEW rec \in Record, AppendBegin(r, rec)
  PROVE  IInv'
<1> USE DEF IInv, AppendBegin
<1>1. FieldsInv'
  BY DEF FieldsInv
<1>2. TableInv'
  BY TableSame DEF TableInv
<1>3. SessionOK(r) /\ app'[r].pc = "read" /\ home[r] # NoLog
  BY LogAssumption DEF SessionInv, FieldsInv, TableInv
<1>4. SessionOK(r)'
  BY <1>3 DEF SessionOK, Anchored
<1>5. Others(r)
  BY DEF Others, FieldsInv
<1> QED
  BY <1>1, <1>2, <1>3, <1>4, <1>5, OneReplica

LEMMA ReadNextKeeps ==
  ASSUME IInv, NEW r \in Replica, ReadNext(r)
  PROVE  IInv'
<1> USE DEF IInv, ReadNext
<1>1. SessionOK(r) /\ home[r] \in LogId
  BY HomeIsLog DEF SessionInv
<1>2. NextIndex(leaf[home[r]]) = Size(leaf[home[r]]) /\ Size(leaf[home[r]]) \in Nat
  BY <1>1, DenseNext DEF TableInv, Dense
<1> DEFINE n == Size(leaf[home[r]])
           Appends == [pc : {"idle", "read", "insert", "commit"},
                       rec : Record \cup {NoLog}, next : Nat]
<1> HIDE DEF n
<1>3. /\ app' = [app EXCEPT ![r].pc = "insert", ![r].next = n] /\ n \in Nat
      /\ app \in [Replica -> Appends]
  BY <1>2 DEF n, FieldsInv
<1>4. FieldsInv'
  <2>1. app' \in [Replica -> Appends]
    <3>1. ASSUME NEW a \in Appends
          PROVE  [a EXCEPT !.pc = "insert", !.next = n] \in Appends
      BY ONLY <1>3, <3>1
    <3> HIDE DEF Appends
    <3> QED
      BY ONLY <1>3, <3>1
  <2>2. \A q \in Replica : app'[q].rec = app[q].rec /\ (app'[q].pc # "idle" => app[q].pc # "idle")
    BY <1>3
  <2> QED
    BY <2>1, <2>2 DEF FieldsInv
<1>5. TableInv'
  BY TableSame DEF TableInv
<1>6. app'[r].pc = "insert" /\ app'[r].next \in 0..n
  BY <1>3
<1>7. SessionOK(r)'
  BY <1>1, <1>6 DEF SessionOK, Anchored, n
<1>8. Others(r)
  BY DEF Others, FieldsInv
<1> QED
  BY <1>4, <1>5, <1>6, <1>7, <1>8, OneReplica

\* The step to InsertConflict and the one that rolls an append back.
LEMMA AppendEndKeeps ==
  ASSUME IInv, NEW r \in Replica, InsertConflict(r) \/ AppendFails(r)
  PROVE  IInv'
<1> USE DEF IInv
<1>1. /\ UNCHANGED <<logs, leaf, checkpoint, home, iss, lastSize, doubt, signed, acked>>
      /\ app' = [app EXCEPT ![r] = AppendIdle] /\ SessionOK(r)
      /\ tx' = [tx EXCEPT ![<<r, "append">>] = NoWrites]
  <2>1. CASE AppendFails(r)
    BY <2>1 DEF AppendFails, EndAppend, Discard, SessionInv
  <2>2. CASE InsertConflict(r)
    <3>1. tx[<<r, "append">>] = NoWrites /\ SessionOK(r) /\ tx' = tx
      BY <2>2 DEF InsertConflict, SessionInv, SessionOK
    <3>2. tx' = [tx EXCEPT ![<<r, "append">>] = NoWrites]
      BY <3>1 DEF FieldsInv
    <3> QED
      BY <2>2, <3>1, <3>2 DEF InsertConflict, EndAppend
  <2> QED
    BY <2>1, <2>2
<1>2. FieldsInv'
  <2>1. AppendIdle \in [pc : {"idle", "read", "insert", "commit"},
                        rec : Record \cup {NoLog}, next : Nat] /\ AppendIdle.pc = "idle"
    BY DEF AppendIdle
  <2>2. tx' = [c \in Replica \X Kind |-> tx'[c]]
    BY <1>1 DEF FieldsInv
  <2> QED
    BY <1>1, <2>1, <2>2 DEF FieldsInv
<1>3. TableInv'
  BY <1>1, TableSame DEF TableInv
<1>4. app'[r].pc = "idle" /\ tx'[<<r, "append">>] = NoWrites /\ tx'[<<r, "issue">>] = tx[<<r, "issue">>]
  BY <1>1 DEF FieldsInv, AppendIdle, Kind
<1>5. SessionOK(r)'
  BY <1>1, <1>4 DEF SessionOK, Anchored
<1>6. Others(r)
  BY <1>1 DEF Others, FieldsInv, Kind
<1> QED
  BY <1>1, <1>2, <1>3, <1>4, <1>5, <1>6, OneReplica

LEMMA InsertLeafKeeps ==
  ASSUME IInv, NEW r \in Replica, InsertLeaf(r)
  PROVE  IInv'
<1> USE DEF IInv
<1> DEFINE l == home[r]
           n == app[r].next
<1>1. /\ UNCHANGED <<logs, leaf, checkpoint, home, iss, lastSize, doubt, signed, acked>>
      /\ app[r].pc = "insert" /\ app' = [app EXCEPT ![r].pc = "commit"]
      /\ SessionOK(r) /\ ~RowHeld(l, n) /\ n \notin DOMAIN leaf[l]
  BY DEF InsertLeaf, SessionInv
<1>2. l \in LogId /\ app[r].rec \in Record /\ n \in 0..Size(leaf[l])
  BY <1>1 DEF SessionOK, FieldsInv
<1>3. n = Size(leaf[l])
  BY <1>1, <1>2 DEF TableInv, Dense
<1>4. tx' = [tx EXCEPT ![<<r, "append">>] = AppendWrites(l, n, app[r].rec)]
  BY DEF InsertLeaf, AppendWrites, Row
<1>5. FieldsInv'
  <2>1. tx' = [c \in Replica \X Kind |-> tx'[c]]
    BY <1>4 DEF FieldsInv
  <2> DEFINE Appends == [pc : {"idle", "read", "insert", "commit"},
                         rec : Record \cup {NoLog}, next : Nat]
  <2>2. app' \in [Replica -> Appends]
    <3>1. app \in [Replica -> Appends] /\ app' = [app EXCEPT ![r].pc = "commit"]
      BY <1>1 DEF FieldsInv
    <3> QED
      BY ONLY <3>1
  <2>3. \A q \in Replica : app'[q].rec = app[q].rec /\ (app'[q].pc # "idle" => app[q].pc # "idle")
    BY <1>1 DEF FieldsInv
  <2> QED
    BY <1>1, <2>1, <2>2, <2>3 DEF FieldsInv
<1>6. TableInv'
  BY <1>1, TableSame DEF TableInv
<1>7. /\ app'[r].pc = "commit" /\ app'[r].next = n /\ app'[r].rec = app[r].rec
      /\ tx'[<<r, "append">>] = AppendWrites(l, n, app[r].rec)
      /\ tx'[<<r, "issue">>] = tx[<<r, "issue">>]
  BY <1>1, <1>4 DEF FieldsInv, Kind
<1>8. SessionOK(r)'
  BY <1>1, <1>3, <1>7 DEF SessionOK, Anchored
<1>9. Others(r)
  BY <1>1, <1>4 DEF Others, FieldsInv, Kind
<1>10. \A w \in Open : w.log = l => n \notin DOMAIN w.rows
  BY <1>1 DEF RowHeld
<1>11. ASSUME NEW q \in Replica, app[q].pc = "commit" PROVE home[q] # l
  <2>1. /\ tx[<<q, "append">>] = AppendWrites(home[q], Size(leaf[home[q]]), app[q].rec)
        /\ tx[<<q, "append">>].log = home[q]
    BY <1>11, ReadyWrites DEF SessionInv
  <2>2. tx[<<q, "append">>] \in Open
    BY DEF Open, Kind
  <2>3. DOMAIN tx[<<q, "append">>].rows = {Size(leaf[home[q]])}
    BY <2>1, AppendFields
  <2> QED
    BY <1>3, <1>10, <2>1, <2>2, <2>3
<1>12. ASSUME NEW w \in doubt, HoldsRow(w) PROVE w.log # l
  <2>1. CASE \E m \in LogId, rec \in Record : w = AppendWrites(m, Size(leaf[m]), rec)
    <3>1. PICK m \in LogId, rec \in Record : w = AppendWrites(m, Size(leaf[m]), rec)
      BY <2>1
    <3>2. w.log = m /\ DOMAIN w.rows = {Size(leaf[m])}
      BY <3>1, AppendFields
    <3> QED
      BY <1>3, <1>10, <3>2 DEF Open
  <2>2. CASE \E h \in signed : \E hs \in SUBSET {h.root} : w = IssueWrites(h.log, hs, "commit")
    BY <1>12, <2>2, IssueFields
  <2> QED
    BY <2>1, <2>2 DEF DoubtInv, DoubtOK
<1> QED
  BY <1>1, <1>5, <1>6, <1>7, <1>8, <1>9, <1>11, <1>12, OneReplica

LEMMA CommitAppendLostKeeps ==
  ASSUME IInv, NEW r \in Replica, CommitAppendLost(r)
  PROVE  IInv'
<1> USE DEF IInv
<1>1. /\ UNCHANGED <<logs, leaf, checkpoint, home, iss, lastSize, signed, acked>>
      /\ app' = [app EXCEPT ![r] = AppendIdle] /\ SessionOK(r) /\ app[r].pc = "commit"
      /\ tx' = [tx EXCEPT ![<<r, "append">>] = NoWrites]
      /\ doubt' = doubt \cup {tx[<<r, "append">>]}
  BY DEF CommitAppendLost, EndAppend, Discard, SessionInv
<1>2. FieldsInv'
  <2>1. AppendIdle \in [pc : {"idle", "read", "insert", "commit"},
                        rec : Record \cup {NoLog}, next : Nat] /\ AppendIdle.pc = "idle"
    BY DEF AppendIdle
  <2>2. tx' = [c \in Replica \X Kind |-> tx'[c]]
    BY <1>1 DEF FieldsInv
  <2> QED
    BY <1>1, <2>1, <2>2 DEF FieldsInv
<1>3. TableInv'
  BY <1>1, TableSame DEF TableInv
<1>4. app'[r].pc = "idle" /\ tx'[<<r, "append">>] = NoWrites /\ tx'[<<r, "issue">>] = tx[<<r, "issue">>]
  BY <1>1 DEF FieldsInv, AppendIdle, Kind
<1>5. SessionOK(r)'
  BY <1>1, <1>4 DEF SessionOK, Anchored
<1>6. Others(r)
  BY <1>1 DEF Others, FieldsInv, Kind
<1>7. \A w \in doubt' : w \in doubt \/ Leaves(r, w)
  BY <1>1, <1>4 DEF Leaves
<1> QED
  BY <1>1, <1>2, <1>3, <1>4, <1>5, <1>6, <1>7, OneReplica

LEMMA LoadAndSignKeeps ==
  ASSUME IInv, NEW r \in Replica, LoadAndSign(r)
  PROVE  IInv'
<1> USE DEF IInv
<1> DEFINE l == home[r]
           root == Ordered(leaf[l])
<1>1. /\ UNCHANGED <<logs, leaf, checkpoint, home, app, lastSize, tx, doubt, acked>>
      /\ iss' = [iss EXCEPT ![r] = [pc |-> "anchor", root |-> root]]
      /\ signed' = signed \cup {TreeHead(l, root)}
      /\ l \in LogId /\ iss[r].pc = "idle" /\ SessionOK(r)
  BY DEF LoadAndSign, SessionInv, TableInv
<1>2. TableInv' /\ root \in Seq(Record)
  BY <1>1, TableSign
<1> HIDE DEF root
<1>3. FieldsInv'
  BY <1>1, <1>2 DEF FieldsInv
<1>4. iss'[r].pc = "anchor" /\ iss'[r].root = root
  BY <1>1 DEF FieldsInv
<1>5. SessionOK(r)'
  <2>1. home[r] # NoLog /\ TreeHead(home[r], root) \in signed'
    BY <1>1, LogAssumption
  <2>2. tx[<<r, "issue">>] = NoWrites
    BY <1>1 DEF SessionOK
  <2> HIDE DEF l
  <2>3. UNCHANGED <<leaf, checkpoint, home, app, lastSize, tx>> /\ SessionOK(r)
    BY <1>1
  <2> QED
    BY <1>4, <2>1, <2>2, <2>3 DEF SessionOK, Anchored
<1>6. Others(r)
  BY <1>1 DEF Others, FieldsInv
<1> QED
  BY <1>1, <1>2, <1>3, <1>5, <1>6, OneReplica

LEMMA AnchorKeeps ==
  ASSUME IInv, NEW r \in Replica, Anchor(r)
  PROVE  IInv'
<1> USE DEF IInv
<1> DEFINE root == iss[r].root
           hs == IF Anchored(home[r], Len(root)) THEN {} ELSE {root}
<1>1. /\ UNCHANGED <<logs, leaf, checkpoint, home, app, lastSize, doubt, signed, acked>>
      /\ iss[r].pc = "anchor" /\ iss' = [iss EXCEPT ![r].pc = "save"] /\ SessionOK(r)
  BY DEF Anchor, SessionInv, Anchored
<1>2. tx' = [tx EXCEPT ![<<r, "issue">>] = IssueWrites(home[r], hs, "save")]
  <2>1. Writes(home[r], NoRows, hs, FALSE) = IssueWrites(home[r], hs, "save")
    BY DEF IssueWrites
  <2>2. tx' = [tx EXCEPT ![<<r, "issue">>] = Writes(home[r], NoRows, hs, FALSE)]
    BY DEF Anchor, Anchored
  <2> QED
    BY <2>1, <2>2
<1>3. hs \in SUBSET {root} /\ (root \in hs \/ Anchored(home[r], Len(root)))
  OBVIOUS
<1> HIDE DEF hs
<1>4. FieldsInv'
  <2>1. tx' = [c \in Replica \X Kind |-> tx'[c]]
    BY <1>2 DEF FieldsInv
  <2> QED
    BY <1>1, <2>1 DEF FieldsInv
<1>5. TableInv'
  BY <1>1, TableSame DEF TableInv
<1>6. /\ iss'[r].pc = "save" /\ iss'[r].root = root
      /\ tx'[<<r, "issue">>] = IssueWrites(home[r], hs, "save")
      /\ tx'[<<r, "append">>] = tx[<<r, "append">>]
  BY <1>1, <1>2 DEF FieldsInv, Kind
<1>7. tx'[<<r, "issue">>].heads = hs
  BY <1>6, IssueFields
<1>8. SessionOK(r)'
  BY <1>1, <1>3, <1>6, <1>7 DEF SessionOK, Anchored
<1>9. Others(r)
  BY <1>1, <1>2 DEF Others, FieldsInv, Kind
<1> QED
  BY <1>1, <1>4, <1>5, <1>8, <1>9, OneReplica

LEMMA SaveKeeps ==
  ASSUME IInv, NEW r \in Replica, Save(r)
  PROVE  IInv'
<1> USE DEF IInv
<1> DEFINE root == iss[r].root
           missing == (0..(Len(root) - 1)) \ DOMAIN leaf[home[r]]
<1>1. /\ UNCHANGED <<logs, leaf, checkpoint, home, app, lastSize, doubt, signed, acked>>
      /\ iss[r].pc = "save" /\ iss' = [iss EXCEPT ![r].pc = "commit"] /\ SessionOK(r)
  BY DEF Save, SessionInv
<1>2. TreeHead(home[r], root) \in signed /\ root \in Seq(Record)
  BY <1>1 DEF SessionOK, FieldsInv
<1>3. missing = {}
  <2> SUFFICES ASSUME NEW i \in 0..(Len(root) - 1) PROVE i \in DOMAIN leaf[home[r]]
    OBVIOUS
  <2>1. i + 1 \in 1..Len(root) /\ (i + 1) - 1 = i
    BY <1>2
  <2>2. (i + 1) - 1 \in DOMAIN leaf[home[r]]
    BY <1>2, <2>1 DEF TableInv, SignedArePrefixes, TreeHead
  <2> QED
    BY <2>1, <2>2
<1>4. [i \in missing |-> root[i + 1]] = NoRows
  BY <1>3 DEF NoRows
<1>5. PICK hs \in SUBSET {root} : tx[<<r, "issue">>] = IssueWrites(home[r], hs, "save")
  BY <1>1 DEF SessionOK
<1>6. tx[<<r, "issue">>].heads = hs
  BY <1>5, IssueFields
<1>7. tx' = [tx EXCEPT ![<<r, "issue">>] = IssueWrites(home[r], hs, "commit")]
  <2>1. tx' = [tx EXCEPT ![<<r, "issue">>] = Writes(home[r], NoRows, hs, TRUE)]
    BY <1>4, <1>6 DEF Save, FieldsInv, Kind
  <2>2. Writes(home[r], NoRows, hs, TRUE) = IssueWrites(home[r], hs, "commit")
    BY DEF IssueWrites
  <2> QED
    BY <2>1, <2>2
<1> HIDE DEF missing
<1>8. FieldsInv'
  <2>1. tx' = [c \in Replica \X Kind |-> tx'[c]]
    BY <1>7 DEF FieldsInv
  <2> QED
    BY <1>1, <2>1 DEF FieldsInv
<1>9. TableInv'
  BY <1>1, TableSame DEF TableInv
<1>10. /\ iss'[r].pc = "commit" /\ iss'[r].root = root
       /\ tx'[<<r, "issue">>] = IssueWrites(home[r], hs, "commit")
       /\ tx'[<<r, "append">>] = tx[<<r, "append">>]
  BY <1>1, <1>7 DEF FieldsInv, Kind
<1>11. tx'[<<r, "issue">>].heads = hs
  BY <1>10, IssueFields
<1>12. root \in hs \/ Anchored(home[r], Len(root))
  BY <1>1, <1>6 DEF SessionOK
<1>13. SessionOK(r)'
  BY <1>1, <1>10, <1>11, <1>12 DEF SessionOK, Anchored
<1>14. Others(r)
  BY <1>1, <1>7 DEF Others, FieldsInv, Kind
<1> QED
  BY <1>1, <1>8, <1>9, <1>13, <1>14, OneReplica

LEMMA IssueEndKeeps ==
  ASSUME IInv, NEW r \in Replica, CommitIssueLost(r) \/ IssueFails(r)
  PROVE  IInv'
<1> USE DEF IInv
<1>1. /\ UNCHANGED <<logs, leaf, checkpoint, home, app, lastSize, signed, acked>>
      /\ iss' = [iss EXCEPT ![r] = IssueIdle] /\ SessionOK(r)
      /\ tx' = [tx EXCEPT ![<<r, "issue">>] = NoWrites]
  BY DEF CommitIssueLost, IssueFails, EndIssue, Discard, SessionInv
<1>2. FieldsInv'
  <2>1. IssueIdle \in [pc : {"idle", "anchor", "save", "commit"}, root : Seq(Record)]
    BY DEF IssueIdle
  <2>2. tx' = [c \in Replica \X Kind |-> tx'[c]]
    BY <1>1 DEF FieldsInv
  <2> QED
    BY <1>1, <2>1, <2>2 DEF FieldsInv
<1>3. TableInv'
  BY <1>1, TableSame DEF TableInv
<1>4. iss'[r].pc = "idle" /\ tx'[<<r, "issue">>] = NoWrites /\ tx'[<<r, "append">>] = tx[<<r, "append">>]
  BY <1>1 DEF FieldsInv, IssueIdle, Kind
<1>5. SessionOK(r)'
  BY <1>1, <1>4 DEF SessionOK, Anchored
<1>6. Others(r)
  BY <1>1 DEF Others, FieldsInv, Kind
<1>7. \A w \in doubt' : w \in doubt \/ Leaves(r, w)
  BY DEF Leaves, CommitIssueLost, IssueFails
<1> QED
  BY <1>1, <1>2, <1>3, <1>4, <1>5, <1>6, <1>7, OneReplica

LEMMA CrashKeeps ==
  ASSUME IInv, NEW r \in Replica, Crash(r)
  PROVE  IInv'
<1> USE DEF IInv
<1>1. /\ UNCHANGED <<logs, leaf, checkpoint, signed, acked>>
      /\ home' = [home EXCEPT ![r] = NoLog] /\ lastSize' = [lastSize EXCEPT ![r] = -1]
      /\ app' = [app EXCEPT ![r] = AppendIdle] /\ iss' = [iss EXCEPT ![r] = IssueIdle]
      /\ tx' = [tx EXCEPT ![<<r, "append">>] = NoWrites, ![<<r, "issue">>] = NoWrites]
  BY DEF Crash, EndAppend, EndIssue
<1>2. FieldsInv'
  <2>1. IssueIdle \in [pc : {"idle", "anchor", "save", "commit"}, root : Seq(Record)]
    BY DEF IssueIdle
  <2>2. AppendIdle \in [pc : {"idle", "read", "insert", "commit"},
                        rec : Record \cup {NoLog}, next : Nat] /\ AppendIdle.pc = "idle"
    BY DEF AppendIdle
  <2>3. tx' = [c \in Replica \X Kind |-> tx'[c]]
    BY <1>1 DEF FieldsInv
  <2>4. lastSize' \in [Replica -> Nat \cup {-1}]
    BY <1>1 DEF FieldsInv
  <2>5. app' \in [Replica -> [pc : {"idle", "read", "insert", "commit"},
                              rec : Record \cup {NoLog}, next : Nat]]
    BY <1>1, <2>2 DEF FieldsInv
  <2>6. \A q \in Replica : app'[q].pc # "idle" => app'[q].rec \in Record
    BY <1>1, <2>2 DEF FieldsInv
  <2>7. iss' \in [Replica -> [pc : {"idle", "anchor", "save", "commit"}, root : Seq(Record)]]
    BY <1>1, <2>1 DEF FieldsInv
  <2>8. home' \in [Replica -> LogId \cup {NoLog}]
    BY <1>1 DEF FieldsInv
  <2> QED
    BY <2>3, <2>4, <2>5, <2>6, <2>7, <2>8 DEF FieldsInv
<1>3. TableInv'
  BY <1>1, TableSame DEF TableInv
<1>4. /\ home'[r] = NoLog /\ lastSize'[r] = -1 /\ app'[r].pc = "idle" /\ iss'[r].pc = "idle"
      /\ tx'[<<r, "append">>] = NoWrites /\ tx'[<<r, "issue">>] = NoWrites
  BY <1>1 DEF FieldsInv, AppendIdle, IssueIdle, Kind
<1>5. SessionOK(r)'
  BY <1>4 DEF SessionOK
<1>6. Others(r)
  BY <1>1 DEF Others, FieldsInv, Kind
<1>7. \A w \in doubt' : w \in doubt \/ Leaves(r, w)
  BY <1>4 DEF Leaves, Crash, Kind
<1> QED
  BY <1>1, <1>2, <1>3, <1>4, <1>5, <1>6, <1>7, OneReplica

LEMMA DoubtAbortsKeeps ==
  ASSUME IInv, NEW w \in doubt, DoubtAborts(w)
  PROVE  IInv'
<1> USE DEF IInv, DoubtAborts
<1>1. FieldsInv'
  BY DEF FieldsInv
<1>2. TableInv'
  BY TableSame DEF TableInv
<1>3. SessionInv'
  BY DEF SessionInv, SessionOK, Anchored
<1>4. DoubtInv'
  BY DEF DoubtInv, DoubtOK
<1>5. LoneInv'
  BY DEF LoneInv, HoldsRow
<1> QED
  BY <1>1, <1>2, <1>3, <1>4, <1>5

\* A committed checkpoint: no leaf is written, as `save` finds them all stored.
LEMMA CommitHead ==
  ASSUME TableInv, NEW h \in signed, NEW hs \in SUBSET {h.root}, NEW w,
         w = IssueWrites(h.log, hs, "commit"), Commit(w)
  PROVE  /\ leaf' = leaf /\ checkpoint \subseteq checkpoint' /\ checkpoint' \subseteq signed
         /\ h.root \in hs => h \in checkpoint'
<1>1. w.log = h.log /\ w.rows = NoRows /\ w.heads = hs
  BY IssueFields
<1>2. h \in HeadType /\ h.log \in LogId /\ TreeHead(h.log, h.root) = h
  BY DEF TableInv, HeadType, TreeHead
<1>3. leaf' = [leaf EXCEPT ![h.log] = Merge(leaf[h.log], NoRows)]
  BY <1>1 DEF Commit
<1>4. Merge(leaf[h.log], NoRows) = leaf[h.log]
  BY <1>2, MergeNone DEF TableInv
<1>5. leaf' = leaf
  BY <1>2, <1>3, <1>4 DEF TableInv
<1>6. checkpoint' = checkpoint \cup {TreeHead(h.log, s) : s \in hs}
  BY <1>1 DEF Commit
<1>7. \A s \in hs : TreeHead(h.log, s) = h
  BY <1>2
<1>8. checkpoint \subseteq checkpoint' /\ checkpoint' \subseteq signed
  BY <1>6, <1>7 DEF TableInv
<1>9. h.root \in hs => h \in checkpoint'
  BY <1>2, <1>6
<1> QED
  BY <1>5, <1>8, <1>9

\* A committed append: one row, at the end of its log.
LEMMA CommitLeaf ==
  ASSUME NEW l \in LogId, NEW rec \in Record, NEW w,
         w = AppendWrites(l, Size(leaf[l]), rec), Commit(w)
  PROVE  /\ leaf' = [leaf EXCEPT ![l] = Merge(@, Row(Size(leaf[l]), rec))]
         /\ checkpoint' = checkpoint
<1>1. w.log = l /\ w.rows = Row(Size(leaf[l]), rec) /\ w.heads = {}
  BY AppendFields
<1> QED
  BY <1>1 DEF Commit

LEMMA CommitIssueKeeps ==
  ASSUME IInv, NEW r \in Replica, CommitIssue(r)
  PROVE  IInv' /\ leaf' = leaf /\ checkpoint \subseteq checkpoint'
<1> USE DEF IInv
<1> DEFINE root == iss[r].root
           h == TreeHead(home[r], root)
<1>1. /\ UNCHANGED <<logs, home, app, doubt, signed, acked>>
      /\ iss[r].pc = "commit" /\ iss' = [iss EXCEPT ![r] = IssueIdle] /\ SessionOK(r)
      /\ lastSize' = [lastSize EXCEPT ![r] = Len(root)]
      /\ tx' = [tx EXCEPT ![<<r, "issue">>] = NoWrites]
      /\ Commit(tx[<<r, "issue">>])
  BY DEF CommitIssue, EndIssue, Discard, SessionInv
<1>2. h \in signed /\ h.log = home[r] /\ h.root = root /\ root \in Seq(Record)
  BY <1>1 DEF SessionOK, TreeHead, FieldsInv
<1>3. PICK hs \in SUBSET {root} : tx[<<r, "issue">>] = IssueWrites(home[r], hs, "commit")
  BY <1>1, ReadyWrites
<1>4. tx[<<r, "issue">>].heads = hs
  BY <1>3, IssueFields
<1>5. /\ leaf' = leaf /\ checkpoint \subseteq checkpoint' /\ checkpoint' \subseteq signed
      /\ root \in hs => h \in checkpoint'
  BY <1>1, <1>2, <1>3, CommitHead
<1>6. \E c \in checkpoint' : c.log = home[r] /\ Len(c.root) = Len(root)
  <2>1. CASE root \in hs
    BY <1>2, <1>5, <2>1
  <2>2. CASE root \notin hs
    BY <1>1, <1>4, <1>5, <2>2 DEF SessionOK, Anchored
  <2> QED
    BY <2>1, <2>2
<1>7. FieldsInv'
  <2>1. IssueIdle \in [pc : {"idle", "anchor", "save", "commit"}, root : Seq(Record)]
    BY DEF IssueIdle
  <2>2. tx' = [c \in Replica \X Kind |-> tx'[c]]
    BY <1>1 DEF FieldsInv
  <2>3. lastSize' \in [Replica -> Nat \cup {-1}]
    BY <1>1, <1>2 DEF FieldsInv
  <2> QED
    BY <1>1, <2>1, <2>2, <2>3 DEF FieldsInv
<1>8. TableInv'
  BY <1>1, <1>5, TableSame DEF TableInv
<1>9. /\ iss'[r].pc = "idle" /\ tx'[<<r, "issue">>] = NoWrites
      /\ tx'[<<r, "append">>] = tx[<<r, "append">>] /\ lastSize'[r] = Len(root)
  BY <1>1 DEF FieldsInv, IssueIdle, Kind
<1>10. SessionOK(r)'
  <2>1. home[r] # NoLog
    BY <1>1 DEF SessionOK
  <2> QED
    BY <1>1, <1>5, <1>6, <1>9, <2>1 DEF SessionOK, Anchored
<1>11. Others(r)
  BY <1>1 DEF Others, FieldsInv, Kind
<1> QED
  BY <1>1, <1>5, <1>7, <1>8, <1>10, <1>11, OneReplica

LEMMA CommitAppendKeeps ==
  ASSUME IInv, NEW r \in Replica, CommitAppend(r)
  PROVE  IInv'
<1> USE DEF IInv
<1> DEFINE l == home[r]
           rec == app[r].rec
<1>1. /\ UNCHANGED <<logs, home, iss, lastSize, doubt, signed>>
      /\ app[r].pc = "commit" /\ app' = [app EXCEPT ![r] = AppendIdle] /\ SessionOK(r)
      /\ acked' = acked \cup {[log |-> l, index |-> app[r].next, rec |-> rec]}
      /\ tx' = [tx EXCEPT ![<<r, "append">>] = NoWrites]
      /\ Commit(tx[<<r, "append">>])
  BY DEF CommitAppend, EndAppend, Discard, SessionInv
<1>2. /\ l \in LogId /\ rec \in Record /\ app[r].next = Size(leaf[l])
      /\ tx[<<r, "append">>] = AppendWrites(l, Size(leaf[l]), rec)
  BY <1>1, ReadyWrites
<1>3. /\ leaf' = [leaf EXCEPT ![l] = Merge(@, Row(Size(leaf[l]), rec))]
      /\ checkpoint' = checkpoint
  BY <1>1, <1>2, CommitLeaf
<1>4. /\ TableInv' /\ Size(leaf'[l]) = Size(leaf[l]) + 1
      /\ \A m \in LogId : m # l => leaf'[m] = leaf[m]
  BY <1>1, <1>2, <1>3, LeafGrow, TableGrow
<1>5. FieldsInv'
  <2>1. AppendIdle \in [pc : {"idle", "read", "insert", "commit"},
                        rec : Record \cup {NoLog}, next : Nat] /\ AppendIdle.pc = "idle"
    BY DEF AppendIdle
  <2>2. tx' = [c \in Replica \X Kind |-> tx'[c]]
    BY <1>1 DEF FieldsInv
  <2> QED
    BY <1>1, <2>1, <2>2 DEF FieldsInv
<1>6. app'[r].pc = "idle" /\ tx'[<<r, "append">>] = NoWrites /\ tx'[<<r, "issue">>] = tx[<<r, "issue">>]
  BY <1>1 DEF FieldsInv, AppendIdle, Kind
<1>7. SessionInv'
  <2> SUFFICES ASSUME NEW q \in Replica PROVE SessionOK(q)'
    BY DEF SessionInv
  <2>1. CASE q = r
    BY <1>1, <1>3, <1>6, <2>1 DEF SessionOK, Anchored
  <2>2. CASE q # r
    <3>1. /\ home'[q] = home[q] /\ app'[q] = app[q] /\ iss'[q] = iss[q]
          /\ lastSize'[q] = lastSize[q]
          /\ tx'[<<q, "append">>] = tx[<<q, "append">>]
          /\ tx'[<<q, "issue">>] = tx[<<q, "issue">>]
      BY <1>1, <2>2 DEF FieldsInv, Kind
    <3>2. home[q] = l => app[q].pc # "commit"
      BY <1>1, <2>2 DEF LoneInv
    <3>3. home[q] # l /\ home[q] # NoLog => leaf'[home[q]] = leaf[home[q]]
      BY <1>4 DEF FieldsInv
    <3>4. \/ home[q] = NoLog
          \/ Size(leaf'[home[q]]) = Size(leaf[home[q]])
          \/ app[q].pc # "commit" /\ Size(leaf'[home[q]]) = Size(leaf[home[q]]) + 1
      BY <1>4, <3>2, <3>3
    <3> QED
      BY <1>1, <1>3, <3>1, <3>4, SessionFrame DEF SessionInv
  <2> QED
    BY <2>1, <2>2
<1>8. DoubtInv'
  <2> SUFFICES ASSUME NEW w \in doubt PROVE DoubtOK(w)'
    BY <1>1 DEF DoubtInv
  <2>1. \A m \in LogId : HoldsRow(w) /\ w.log = m => Size(leaf'[m]) = Size(leaf[m])
    BY <1>1, <1>4 DEF LoneInv
  <2> QED
    BY <1>1, <2>1, DoubtFrame DEF DoubtInv
<1>9. LoneInv'
  <2>1. \A q \in Replica : app'[q].pc = "commit" => app[q].pc = "commit"
    BY <1>1, <1>6 DEF FieldsInv
  <2> QED
    BY <1>1, <2>1 DEF LoneInv, HoldsRow
<1> QED
  BY <1>4, <1>5, <1>7, <1>8, <1>9

LEMMA DoubtCommitsKeeps ==
  ASSUME IInv, NEW w \in doubt, DoubtCommits(w)
  PROVE  IInv'
<1> USE DEF IInv
<1>1. /\ UNCHANGED <<logs, home, app, iss, lastSize, tx, signed, acked>>
      /\ doubt' = doubt \ {w} /\ Commit(w)
  BY DEF DoubtCommits
<1>2. FieldsInv' /\ LoneInv'
  BY <1>1 DEF FieldsInv, LoneInv, HoldsRow
<1>3. CASE \E l \in LogId, rec \in Record : w = AppendWrites(l, Size(leaf[l]), rec)
  <2>1. PICK l \in LogId, rec \in Record : w = AppendWrites(l, Size(leaf[l]), rec)
    BY <1>3
  <2>2. /\ leaf' = [leaf EXCEPT ![l] = Merge(@, Row(Size(leaf[l]), rec))]
        /\ checkpoint' = checkpoint
    BY <1>1, <2>1, CommitLeaf
  <2>3. /\ TableInv' /\ Size(leaf'[l]) = Size(leaf[l]) + 1
        /\ \A m \in LogId : m # l => leaf'[m] = leaf[m]
    BY <1>1, <2>2, LeafGrow, TableGrow
  <2>4. HoldsRow(w) /\ w.log = l
    BY <2>1, AppendFields
  <2>5. ASSUME NEW q \in Replica PROVE SessionOK(q)'
    <3>1. home[q] = l => app[q].pc # "commit"
      BY <2>4 DEF LoneInv
    <3>2. home[q] # l /\ home[q] # NoLog => leaf'[home[q]] = leaf[home[q]]
      BY <2>3 DEF FieldsInv
    <3>3. \/ home[q] = NoLog
          \/ Size(leaf'[home[q]]) = Size(leaf[home[q]])
          \/ app[q].pc # "commit" /\ Size(leaf'[home[q]]) = Size(leaf[home[q]]) + 1
      BY <2>3, <3>1, <3>2
    <3> QED
      BY <1>1, <2>2, <3>3, SessionFrame DEF SessionInv
  <2>6. ASSUME NEW v \in doubt' PROVE DoubtOK(v)'
    <3>1. v \in doubt /\ (HoldsRow(v) => v.log # l)
      BY <1>1, <2>4 DEF LoneInv
    <3>2. \A m \in LogId : HoldsRow(v) /\ v.log = m => Size(leaf'[m]) = Size(leaf[m])
      BY <2>3, <3>1
    <3> QED
      BY <1>1, <3>1, <3>2, DoubtFrame DEF DoubtInv
  <2> QED
    BY <1>2, <2>3, <2>5, <2>6 DEF SessionInv, DoubtInv
<1>4. CASE \E h \in signed : \E hs \in SUBSET {h.root} : w = IssueWrites(h.log, hs, "commit")
  <2>1. leaf' = leaf /\ checkpoint \subseteq checkpoint' /\ checkpoint' \subseteq signed
    BY <1>1, <1>4, CommitHead
  <2>2. TableInv'
    BY <1>1, <2>1, TableSame DEF TableInv
  <2>3. ASSUME NEW q \in Replica PROVE SessionOK(q)'
    BY <1>1, <2>1, SessionFrame DEF SessionInv
  <2>4. ASSUME NEW v \in doubt' PROVE DoubtOK(v)'
    BY <1>1, <2>1, DoubtFrame DEF DoubtInv
  <2> QED
    BY <1>2, <2>2, <2>3, <2>4 DEF SessionInv, DoubtInv
<1> QED
  BY <1>3, <1>4 DEF DoubtInv, DoubtOK

LEMMA InvStep == IInv /\ [Next]_vars => IInv'
<1> SUFFICES ASSUME IInv, [Next]_vars PROVE IInv'
  OBVIOUS
<1>1. ASSUME NEW r \in Replica, NEW l \in LogId, CreateLog(r, l) \/ PinLog(r, l) PROVE IInv'
  BY <1>1, StartKeeps
<1>2. ASSUME NEW r \in Replica, NEW rec \in Record, AppendBegin(r, rec) PROVE IInv'
  BY <1>2, AppendBeginKeeps
<1>3. ASSUME NEW r \in Replica, AppendStep(r) PROVE IInv'
  BY <1>3, ReadNextKeeps, InsertLeafKeeps, AppendEndKeeps, CommitAppendKeeps DEF AppendStep
<1>4. ASSUME NEW r \in Replica, CommitAppendLost(r) \/ AppendFails(r) PROVE IInv'
  BY <1>4, CommitAppendLostKeeps, AppendEndKeeps
<1>5. ASSUME NEW r \in Replica, LoadAndSign(r) \/ IssueStep(r) PROVE IInv'
  BY <1>5, LoadAndSignKeeps, AnchorKeeps, SaveKeeps, CommitIssueKeeps DEF IssueStep
<1>6. ASSUME NEW r \in Replica, CommitIssueLost(r) \/ IssueFails(r) PROVE IInv'
  BY <1>6, IssueEndKeeps
<1>7. ASSUME NEW r \in Replica, Crash(r) PROVE IInv'
  BY <1>7, CrashKeeps
<1>8. ASSUME NEW w \in doubt, DoubtCommits(w) \/ DoubtAborts(w) PROVE IInv'
  BY <1>8, DoubtCommitsKeeps, DoubtAbortsKeeps
<1>9. CASE UNCHANGED vars
  <2>1. UNCHANGED <<logs, leaf, checkpoint, home, app, iss, lastSize, tx, doubt, signed, acked>>
    BY <1>9 DEF vars
  <2>2. FieldsInv' /\ TableInv'
    BY <2>1 DEF IInv, FieldsInv, TableInv, AckedIsStored, SignedArePrefixes
  <2>3. SessionInv'
    BY <2>1 DEF IInv, SessionInv, SessionOK, Anchored
  <2>4. DoubtInv' /\ LoneInv'
    BY <2>1 DEF IInv, DoubtInv, DoubtOK, LoneInv, HoldsRow
  <2> QED
    BY <2>2, <2>3, <2>4 DEF IInv
<1> QED
  BY <1>1, <1>2, <1>3, <1>4, <1>5, <1>6, <1>7, <1>8, <1>9 DEF Next

LEMMA Invariance == Spec => []IInv
BY InvInit, InvStep, PTL DEF Spec

-----------------------------------------------------------------------------
(* The theorems.                                                           *)

\* A log never has a gap, so the size a checkpoint states is the number of
\* leaves and the next index is MAX + 1, whichever appends fail.
THEOREM NoGaps == Spec => []Contiguous
<1>1. IInv => Contiguous
  BY DEF IInv, TableInv, Dense, Size, Contiguous
<1> QED
  BY <1>1, Invariance, PTL

\* append_record never reports success for a leaf that is not in the log at
\* the index it reports, through races, rollbacks and crashes.
THEOREM SuccessIsStored == Spec => []AckedIsStored
<1>1. IInv => AckedIsStored
  BY DEF IInv, TableInv
<1> QED
  BY <1>1, Invariance, PTL

\* Every head that issue_checkpoint signs, committed or not, is a prefix of the
\* log for ever: any two are consistent.
THEOREM HeadsAreConsistent == Spec => []SignedArePrefixes
<1>1. IInv => SignedArePrefixes
  BY DEF IInv, TableInv
<1> QED
  BY <1>1, Invariance, PTL

\* The anchored checkpoints are signed heads, one for each size of a log.
THEOREM AnchorsAreSigned == Spec => []AnchoredWereSigned
<1>1. ASSUME IInv PROVE AnchoredWereSigned
  <2>1. checkpoint \subseteq signed /\ signed \subseteq HeadType /\ SignedArePrefixes
    BY <1>1 DEF IInv, TableInv
  <2>2. ASSUME NEW c \in checkpoint, NEW d \in checkpoint,
               c.log = d.log, Len(c.root) = Len(d.root)
        PROVE  c = d
    <3>1. /\ c \in HeadType /\ d \in HeadType /\ c \in signed /\ d \in signed
          /\ c.root \in Seq(Record) /\ d.root \in Seq(Record)
      BY <2>1 DEF HeadType
    <3>2. \A k \in 1..Len(c.root) : c.root[k] = d.root[k]
      BY <2>1, <2>2, <3>1 DEF SignedArePrefixes
    <3>3. c.root = d.root
      BY <2>2, <3>1, <3>2, SeqEqual
    <3> QED
      BY <2>2, <3>1, <3>3 DEF HeadType
  <2> QED
    BY <2>1, <2>2 DEF AnchoredWereSigned
<1> QED
  BY <1>1, Invariance, PTL

\* The scheduler's idle skip is sound: a size it skips has its checkpoint.
THEOREM SkipIsSound == Spec => []IdleSkipIsSound
<1>1. IInv => IdleSkipIsSound
  BY DEF IInv, SessionInv, SessionOK, Anchored, IdleSkipIsSound
<1> QED
  BY <1>1, Invariance, PTL

\* How a step moves the log: not at all, by one leaf at its end, or by signing
\* the head of the whole list.
LogStep ==
  \/ leaf' = leaf /\ signed' = signed
  \/ \E l \in LogId, rec \in Record :
       leaf' = [leaf EXCEPT ![l] = Merge(@, Row(Size(leaf[l]), rec))] /\ signed' = signed
  \/ \E l \in LogId : leaf' = leaf /\ signed' = signed \cup {TreeHead(l, Ordered(leaf[l]))}
Kept == checkpoint \subseteq checkpoint' /\ logs \subseteq logs'

LEMMA StepsMoveTheLog == IInv /\ [Next]_vars => LogStep /\ Kept
<1> SUFFICES ASSUME IInv, [Next]_vars PROVE LogStep /\ Kept
  OBVIOUS
<1> USE DEF IInv
<1>1. ASSUME UNCHANGED <<leaf, signed, checkpoint>>, logs \subseteq logs' PROVE LogStep /\ Kept
  BY <1>1 DEF LogStep, Kept
<1>2. ASSUME NEW r \in Replica, CommitAppend(r) PROVE LogStep /\ Kept
  <2>1. /\ home[r] \in LogId /\ app[r].rec \in Record
        /\ tx[<<r, "append">>] = AppendWrites(home[r], Size(leaf[home[r]]), app[r].rec)
    BY <1>2, ReadyWrites DEF CommitAppend, SessionInv
  <2>2. /\ leaf' = [leaf EXCEPT ![home[r]] = Merge(@, Row(Size(leaf[home[r]]), app[r].rec))]
        /\ checkpoint' = checkpoint
    BY <1>2, <2>1, CommitLeaf DEF CommitAppend
  <2> QED
    BY <1>2, <2>1, <2>2 DEF LogStep, Kept, CommitAppend
<1>3. ASSUME NEW r \in Replica, CommitIssue(r) PROVE LogStep /\ Kept
  BY <1>3, CommitIssueKeeps DEF LogStep, Kept, CommitIssue
<1>4. ASSUME NEW r \in Replica, LoadAndSign(r) PROVE LogStep /\ Kept
  BY <1>4 DEF LogStep, Kept, LoadAndSign, TableInv
<1>5. ASSUME NEW w \in doubt, DoubtCommits(w) PROVE LogStep /\ Kept
  <2>1. Commit(w) /\ signed' = signed /\ logs' = logs
    BY <1>5 DEF DoubtCommits
  <2>2. CASE \E l \in LogId, rec \in Record : w = AppendWrites(l, Size(leaf[l]), rec)
    <3>1. PICK l \in LogId, rec \in Record : w = AppendWrites(l, Size(leaf[l]), rec)
      BY <2>2
    <3>2. /\ leaf' = [leaf EXCEPT ![l] = Merge(@, Row(Size(leaf[l]), rec))]
          /\ checkpoint' = checkpoint
      BY <2>1, <3>1, CommitLeaf
    <3> QED
      BY <2>1, <3>2 DEF LogStep, Kept
  <2>3. CASE \E h \in signed : \E hs \in SUBSET {h.root} : w = IssueWrites(h.log, hs, "commit")
    <3>1. leaf' = leaf /\ checkpoint \subseteq checkpoint'
      BY <2>1, <2>3, CommitHead
    <3> QED
      BY <2>1, <3>1 DEF LogStep, Kept
  <2> QED
    BY <2>2, <2>3 DEF DoubtInv, DoubtOK
<1>6. ASSUME NEW r \in Replica,
             \/ \E l \in LogId : CreateLog(r, l) \/ PinLog(r, l)
             \/ \E rec \in Record : AppendBegin(r, rec)
             \/ ReadNext(r) \/ InsertLeaf(r) \/ InsertConflict(r)
             \/ CommitAppendLost(r) \/ AppendFails(r)
             \/ Anchor(r) \/ Save(r) \/ CommitIssueLost(r) \/ IssueFails(r) \/ Crash(r)
      PROVE  UNCHANGED <<leaf, signed, checkpoint>> /\ logs \subseteq logs'
  BY <1>6 DEF CreateLog, PinLog, AppendBegin, ReadNext, InsertLeaf, InsertConflict,
              CommitAppendLost, AppendFails, Anchor, Save, CommitIssueLost, IssueFails, Crash
<1>7. ASSUME NEW w \in doubt, DoubtAborts(w) PROVE LogStep /\ Kept
  BY <1>1, <1>7 DEF DoubtAborts
<1>8. CASE UNCHANGED vars
  BY <1>1, <1>8 DEF vars
<1> QED
  BY <1>1, <1>2, <1>3, <1>4, <1>5, <1>6, <1>7, <1>8 DEF Next, AppendStep, IssueStep

\* No committed leaf, checkpoint or log is ever changed or removed, `save`
\* rewriting every leaf included.
THEOREM RowsAreFinal == Spec => AppendOnly
<1> DEFINE Keep == /\ \A l \in LogId : \A i \in DOMAIN leaf[l] :
                        i \in DOMAIN leaf'[l] /\ leaf'[l][i] = leaf[l][i]
                   /\ checkpoint \subseteq checkpoint'
                   /\ logs \subseteq logs'
<1>1. IInv /\ [Next]_vars => [Keep]_vars
  <2> SUFFICES ASSUME IInv, [Next]_vars PROVE Keep
    OBVIOUS
  <2>1. LogStep /\ Kept /\ TableInv
    BY StepsMoveTheLog DEF IInv
  <2>2. CASE leaf' = leaf
    BY <2>1, <2>2 DEF Kept
  <2>3. CASE \E l \in LogId, rec \in Record :
               leaf' = [leaf EXCEPT ![l] = Merge(@, Row(Size(leaf[l]), rec))]
    <3>1. \A m \in LogId : \A i \in DOMAIN leaf[m] :
            i \in DOMAIN leaf'[m] /\ leaf'[m][i] = leaf[m][i]
      BY <2>1, <2>3, LeafGrow
    <3> QED
      BY <2>1, <3>1 DEF Kept
  <2> QED
    BY <2>1, <2>2, <2>3 DEF LogStep
<1> QED
  BY <1>1, Invariance, PTL DEF Spec, AppendOnly

-----------------------------------------------------------------------------
(* Refinement and types.                                                   *)

LEMMA LogInit == Init => Abstract!Init
<1> SUFFICES ASSUME Init PROVE Abstract!Init
  OBVIOUS
<1>1. DOMAIN NoRows = {} /\ Dense(NoRows, 0)
  BY DEF NoRows, Dense
<1>2. Ordered(NoRows) = List(NoRows, 0)
  BY <1>1, DenseOrdered
<1>3. List(NoRows, 0) = <<>>
  BY DEF List
<1> QED
  BY <1>2, <1>3 DEF Init, Abstract!Init

\* A step of the tables is a step of the abstract log, or invisible to it.
LEMMA LogStepIsAbstract ==
  ASSUME IInv, LogStep
  PROVE  [Abstract!Next]_(Abstract!vars)
<1> USE DEF IInv
<1>1. CASE leaf' = leaf /\ signed' = signed
  BY <1>1 DEF Abstract!vars
<1>2. CASE \E l \in LogId, rec \in Record :
             leaf' = [leaf EXCEPT ![l] = Merge(@, Row(Size(leaf[l]), rec))] /\ signed' = signed
  <2>1. PICK l \in LogId, rec \in Record :
          leaf' = [leaf EXCEPT ![l] = Merge(@, Row(Size(leaf[l]), rec))] /\ signed' = signed
    BY <1>2
  <2>2. /\ \A m \in LogId : Dense(leaf'[m], Size(leaf'[m]))
        /\ Size(leaf[l]) \in Nat /\ Size(leaf'[l]) = Size(leaf[l]) + 1
        /\ \A m \in LogId : m # l => leaf'[m] = leaf[m]
        /\ List(leaf'[l], Size(leaf[l]) + 1) = Append(List(leaf[l], Size(leaf[l])), rec)
    BY <2>1, LeafGrow
  <2>3. Ordered(leaf'[l]) = List(leaf'[l], Size(leaf[l]) + 1)
    BY <2>2, DenseOrdered
  <2>4. Ordered(leaf[l]) = List(leaf[l], Size(leaf[l]))
    BY DenseOrdered DEF TableInv
  <2>5. Ordered(leaf'[l]) = Append(Ordered(leaf[l]), rec)
    BY <2>2, <2>3, <2>4
  <2>6. [m \in LogId |-> Ordered(leaf'[m])]
          = [[m \in LogId |-> Ordered(leaf[m])] EXCEPT ![l] = Append(@, rec)]
    BY <2>2, <2>5
  <2>7. Abstract!AppendLeaf(l, rec)
    BY <2>1, <2>6 DEF Abstract!AppendLeaf
  <2> QED
    BY <2>7 DEF Abstract!Next
<1>3. CASE \E l \in LogId : leaf' = leaf /\ signed' = signed \cup {TreeHead(l, Ordered(leaf[l]))}
  <2>1. PICK l \in LogId : leaf' = leaf /\ signed' = signed \cup {TreeHead(l, Ordered(leaf[l]))}
    BY <1>3
  <2>2. Abstract!IssueCheckpoint(l)
    BY <2>1 DEF Abstract!IssueCheckpoint, Abstract!TreeHead, TreeHead
  <2> QED
    BY <2>2 DEF Abstract!Next
<1> QED
  BY <1>1, <1>2, <1>3 DEF LogStep

\* The tables, the transactions and the replicas together implement the
\* append-only log with checkpoints of domain/merkle's aggregate.
THEOREM TablesImplementLog == Spec => ImplementsLog
<1>1. IInv /\ [Next]_vars => [Abstract!Next]_(Abstract!vars)
  BY StepsMoveTheLog, LogStepIsAbstract
<1> QED
  BY <1>1, LogInit, Invariance, PTL DEF Spec, ImplementsLog, Abstract!Spec

LEMMA WritesForm ==
  ASSUME NEW l \in LogId \cup {NoLog}, NEW rows, RowsOK(rows), NEW hs \in SUBSET Seq(Record),
         NEW b \in BOOLEAN
  PROVE  WritesOK(Writes(l, rows, hs, b))
<1> DEFINE w == Writes(l, rows, hs, b)
<1>1. w.log = l /\ w.rows = rows /\ w.heads = hs
  BY DEF Writes
<1>2. w.lock = b
  BY Zenon DEF Writes
<1>3. w = Writes(w.log, w.rows, w.heads, w.lock)
  BY <1>1, <1>2, Zenon
<1>4. w.lock \in BOOLEAN
  BY <1>2, Zenon
<1> QED
  BY <1>1, <1>3, <1>4, Zenon DEF WritesOK

LEMMA RowForm ==
  ASSUME NEW n \in Nat, NEW rec \in Record
  PROVE  RowsOK(Row(n, rec))
<1>1. DOMAIN Row(n, rec) = {n} /\ Row(n, rec)[n] = rec
  BY DEF Row
<1>2. Row(n, rec) = [i \in {n} |-> Row(n, rec)[i]]
  BY DEF Row
<1> QED
  BY <1>1, <1>2 DEF RowsOK

LEMMA NoRowsForm == RowsOK(NoRows)
<1>1. DOMAIN NoRows = {} /\ NoRows = [i \in {} |-> NoRows[i]]
  BY DEF NoRows
<1> QED
  BY <1>1 DEF RowsOK

LEMMA NoWritesForm == WritesOK(NoWrites)
<1>1. NoLog \in LogId \cup {NoLog} /\ {} \in SUBSET Seq(Record) /\ FALSE \in BOOLEAN
  OBVIOUS
<1> QED
  BY <1>1, NoRowsForm, WritesForm, Zenon DEF NoWrites

LEMMA AppendWritesForm ==
  ASSUME NEW l \in LogId, NEW n \in Nat, NEW rec \in Record
  PROVE  WritesOK(AppendWrites(l, n, rec))
<1>1. l \in LogId \cup {NoLog} /\ {} \in SUBSET Seq(Record) /\ FALSE \in BOOLEAN
  OBVIOUS
<1> QED
  BY <1>1, RowForm, WritesForm, Zenon DEF AppendWrites

LEMMA IssueWritesForm ==
  ASSUME NEW l \in LogId, NEW root \in Seq(Record), NEW hs \in SUBSET {root}, NEW pc
  PROVE  WritesOK(IssueWrites(l, hs, pc))
<1>1. l \in LogId \cup {NoLog} /\ hs \in SUBSET Seq(Record)
  OBVIOUS
<1>2. (pc = "commit") \in BOOLEAN
  OBVIOUS
<1> QED
  BY <1>1, <1>2, NoRowsForm, WritesForm, Zenon DEF IssueWrites

\* Every table row, transaction and in-memory field keeps its type.
THEOREM TypeCorrect == Spec => []TypeOK
<1>1. ASSUME IInv PROVE TypeOK
  <2> USE <1>1 DEF IInv
  <2>1. ASSUME NEW w \in doubt PROVE WritesOK(w)
    <3>1. ASSUME NEW l \in LogId, NEW rec \in Record, w = AppendWrites(l, Size(leaf[l]), rec)
          PROVE  WritesOK(w)
      <4>1. Size(leaf[l]) \in Nat
        BY DEF TableInv, Dense
      <4> QED
        BY <3>1, <4>1, AppendWritesForm
    <3>2. ASSUME NEW h \in signed, NEW hs \in SUBSET {h.root}, w = IssueWrites(h.log, hs, "commit")
          PROVE  WritesOK(w)
      <4>1. h.log \in LogId /\ h.root \in Seq(Record)
        BY DEF TableInv, HeadType
      <4> QED
        BY <3>2, <4>1, IssueWritesForm
    <3> QED
      BY <3>1, <3>2 DEF DoubtInv, DoubtOK
  <2>2. ASSUME NEW r \in Replica PROVE WritesOK(tx[<<r, "append">>])
    <3>1. CASE app[r].pc = "commit"
      <4>1. tx[<<r, "append">>] = AppendWrites(home[r], app[r].next, app[r].rec)
        BY <3>1 DEF SessionInv, SessionOK
      <4>2. home[r] \in LogId
        BY <3>1, HomeIsLog DEF SessionInv
      <4>3. app[r].next \in Nat /\ app[r].rec \in Record
        BY <3>1 DEF FieldsInv
      <4> QED
        BY <4>1, <4>2, <4>3, AppendWritesForm
    <3>2. CASE app[r].pc # "commit"
      <4>1. tx[<<r, "append">>] = NoWrites
        BY <3>2 DEF SessionInv, SessionOK
      <4> QED
        BY <4>1, NoWritesForm
    <3> QED
      BY <3>1, <3>2
  <2>3. ASSUME NEW r \in Replica PROVE WritesOK(tx[<<r, "issue">>])
    <3>1. CASE iss[r].pc \in {"save", "commit"}
      <4>1. PICK hs \in SUBSET {iss[r].root} :
              tx[<<r, "issue">>] = IssueWrites(home[r], hs, iss[r].pc)
        BY <3>1 DEF SessionInv, SessionOK
      <4>2. home[r] \in LogId
        BY <3>1, HomeIsLog DEF SessionInv
      <4>3. iss[r].root \in Seq(Record)
        BY DEF FieldsInv
      <4> QED
        BY <4>1, <4>2, <4>3, IssueWritesForm
    <3>2. CASE iss[r].pc \in {"idle", "anchor"}
      <4>1. tx[<<r, "issue">>] = NoWrites
        BY <3>2 DEF SessionInv, SessionOK
      <4> QED
        BY <4>1, NoWritesForm
    <3> QED
      BY <3>1, <3>2 DEF FieldsInv
  <2>4. ASSUME NEW w \in Open PROVE WritesOK(w)
    <3>1. CASE w \in doubt
      BY <2>1, <3>1
    <3>2. CASE w \notin doubt
      <4>1. PICK r \in Replica, k \in Kind : w = tx[<<r, k>>]
        BY ONLY <3>2, w \in Open DEF Open
      <4> QED
        BY <2>2, <2>3, <4>1 DEF Kind
    <3> QED
      BY <3>1, <3>2
  <2>5. /\ \A c \in checkpoint : c.log \in LogId /\ c.root \in Seq(Record)
        /\ \A h \in signed : h.log \in LogId /\ h.root \in Seq(Record)
        /\ \A a \in acked : a.log \in LogId /\ a.index \in Nat /\ a.rec \in Record
    BY DEF TableInv, HeadType
  <2> QED
    BY <2>4, <2>5 DEF FieldsInv, TableInv, TypeOK
<1> QED
  BY <1>1, Invariance, PTL
=============================================================================
