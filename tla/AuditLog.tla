------------------------------- MODULE AuditLog -------------------------------
(***************************************************************************)
(* The transparency log as agate-audit keeps it in PostgreSQL: the tables  *)
(* audit_log, audit_leaf and audit_checkpoint, and the transactions that   *)
(* the AppendRecord, IssueCheckpoint and CreateLog commands run on them.   *)
(* Every replica of the server runs one appender (its audit outbox) and    *)
(* one checkpoint scheduler; replicas pinned to one AUDIT_LOG_ID share a   *)
(* log.  Transactions are READ COMMITTED: a statement sees the rows that   *)
(* are committed when it runs, and an insert of a key that another open    *)
(* transaction has inserted waits for that transaction to end.             *)
(*                                                                         *)
(* A COMMIT whose answer is lost (the connection breaks, or the process    *)
(* dies, after COMMIT was sent) leaves the transaction in doubt: the       *)
(* database commits it or rolls it back later, and nobody is told.         *)
(*                                                                         *)
(* The Merkle hash is collision free, so a root is represented by the list *)
(* of leaves it commits to, and a tree size is the length of that list.    *)
(***************************************************************************)
EXTENDS Integers, Sequences, FiniteSets

CONSTANTS LogId,      \* log identifiers (UUIDs)
          NoLog,      \* no identifier: the replica is not running
          Record,     \* leaf hashes of the records
          Replica,    \* server processes
          MaxLeaves,  \* bound: appends begin only on logs shorter than this
          MaxDoubt    \* bound: transactions in doubt at one time

ASSUME LogAssumption == NoLog \notin LogId
ASSUME BoundAssumption == MaxLeaves \in Nat /\ MaxDoubt \in Nat

VARIABLES logs,       \* ids with a committed audit_log row
          leaf,       \* committed audit_leaf rows of each log, by leaf_index
          checkpoint, \* committed audit_checkpoint rows
          home,       \* the log each replica records into
          app,        \* each replica's append in progress
          iss,        \* each replica's checkpoint in progress
          lastSize,   \* CheckpointScheduler's last_size; -1 is None
          tx,         \* uncommitted writes of each replica's two connections
          doubt,      \* writes of transactions whose COMMIT got no answer
          signed,     \* every head ever signed (history)
          acked       \* every append reported as a success (history)

vars == <<logs, leaf, checkpoint, home, app, iss, lastSize, tx, doubt,
          signed, acked>>

-----------------------------------------------------------------------------
(* Rows *)

NoRows == [i \in {} |-> NoLog]

\* A slip: a log from 1.
NextIndexFromOne(rows) ==
    1 + (CHOOSE m \in DOMAIN rows \cup {0} : \A i \in DOMAIN rows : i <= m)

\* COALESCE(MAX(leaf_index) + 1, 0)
NextIndex(rows) ==
    IF DOMAIN rows = {} THEN 0
    ELSE 1 + (CHOOSE m \in DOMAIN rows : \A i \in DOMAIN rows : i <= m)

\* The index of the k-th row in ORDER BY leaf_index.
Ranked(rows, k) ==
    CHOOSE i \in DOMAIN rows :
        Cardinality({j \in DOMAIN rows : j < i}) = k - 1

\* SELECT leaf_hash ... ORDER BY leaf_index
Ordered(rows) ==
    [k \in 1..Cardinality(DOMAIN rows) |-> rows[Ranked(rows, k)]]

\* Rows of `more` whose key is free in `rows` are added to it.
Merge(rows, more) ==
    [i \in DOMAIN rows \cup DOMAIN more |->
        IF i \in DOMAIN rows THEN rows[i] ELSE more[i]]

\* A tree head: the log and the leaves its root commits to.
TreeHead(l, s) == [log |-> l, root |-> s]

-----------------------------------------------------------------------------
(* Transactions *)

Kind == {"append", "issue"}

\* The writes of an open transaction: leaves, a checkpoint, and whether it
\* holds the lock on the audit_log row that `save` updates.
Writes(l, rows, heads, lock) ==
    [log |-> l, rows |-> rows, heads |-> heads, lock |-> lock]
NoWrites == Writes(NoLog, NoRows, {}, FALSE)

Open == {tx[<<r, k>>] : r \in Replica, k \in Kind} \cup doubt

\* Another transaction has inserted this key and not ended.
RowHeld(l, i) == \E w \in Open : w.log = l /\ i \in DOMAIN w.rows
SizeHeld(l, n) == \E w \in Open : w.log = l /\ \E s \in w.heads : Len(s) = n
LogHeld(l) == \E w \in Open : w.log = l /\ w.lock

Commit(w) ==
    /\ leaf' = [leaf EXCEPT ![w.log] = Merge(@, w.rows)]
    /\ checkpoint' = checkpoint \cup {TreeHead(w.log, s) : s \in w.heads}

AppendIdle == [pc |-> "idle", rec |-> NoLog, next |-> 0]
IssueIdle == [pc |-> "idle", root |-> <<>>]

Init ==
    /\ logs = {}
    /\ leaf = [l \in LogId |-> NoRows]
    /\ checkpoint = {}
    /\ home = [r \in Replica |-> NoLog]
    /\ app = [r \in Replica |-> AppendIdle]
    /\ iss = [r \in Replica |-> IssueIdle]
    /\ lastSize = [r \in Replica |-> -1]
    /\ tx = [c \in Replica \X Kind |-> NoWrites]
    /\ doubt = {}
    /\ signed = {}
    /\ acked = {}

-----------------------------------------------------------------------------
(* Start-up: resolve_log *)

\* No AUDIT_LOG_ID: a log with a fresh id is created.
CreateLog(r, l) ==
    /\ home[r] = NoLog
    /\ l \notin logs
    /\ \A q \in Replica : home[q] # l
    /\ logs' = logs \cup {l}
    /\ home' = [home EXCEPT ![r] = l]
    /\ UNCHANGED <<leaf, checkpoint, app, iss, lastSize, tx, doubt, signed, acked>>

\* AUDIT_LOG_ID is set; nobody checks that the log exists.
PinLog(r, l) ==
    /\ home[r] = NoLog
    /\ home' = [home EXCEPT ![r] = l]
    /\ UNCHANGED <<logs, leaf, checkpoint, app, iss, lastSize, tx, doubt, signed, acked>>

-----------------------------------------------------------------------------
(* AppendRecord.  On a log without a row it fails with LogNotFound before  *)
(* it has written anything, which changes no state here.                   *)

EndAppend(r) == app' = [app EXCEPT ![r] = AppendIdle]

\* A slip: the connection keeps its open transaction.
DiscardNothing(r, k) == UNCHANGED tx

Discard(r, k) == tx' = [tx EXCEPT ![<<r, k>>] = NoWrites]

AppendBegin(r, rec) ==
    /\ home[r] \in logs
    /\ app[r].pc = "idle"
    /\ Cardinality(DOMAIN leaf[home[r]]) < MaxLeaves
    /\ app' = [app EXCEPT ![r] = [pc |-> "read", rec |-> rec, next |-> 0]]
    /\ UNCHANGED <<logs, leaf, checkpoint, home, iss, lastSize, tx, doubt, signed, acked>>

ReadNext(r) ==
    /\ app[r].pc = "read"
    /\ app' = [app EXCEPT ![r].pc = "insert",
                          ![r].next = NextIndex(leaf[home[r]])]
    /\ UNCHANGED <<logs, leaf, checkpoint, home, iss, lastSize, tx, doubt, signed, acked>>

\* A slip: INSERT ... ON CONFLICT DO NOTHING, as in `save`.
InsertLeafIdempotent(r) ==
    /\ app[r].pc = "insert"
    /\ ~RowHeld(home[r], app[r].next)
    /\ app' = [app EXCEPT ![r].pc = "commit"]
    /\ tx' = [tx EXCEPT ![<<r, "append">>] =
                Writes(home[r], [i \in {app[r].next} |-> app[r].rec], {}, FALSE)]
    /\ UNCHANGED <<logs, leaf, checkpoint, home, iss, lastSize, doubt, signed, acked>>

\* The plain INSERT, of a key nobody holds.
InsertLeaf(r) ==
    /\ app[r].pc = "insert"
    /\ ~RowHeld(home[r], app[r].next)
    /\ app[r].next \notin DOMAIN leaf[home[r]]
    /\ app' = [app EXCEPT ![r].pc = "commit"]
    /\ tx' = [tx EXCEPT ![<<r, "append">>] =
                Writes(home[r], [i \in {app[r].next} |-> app[r].rec], {}, FALSE)]
    /\ UNCHANGED <<logs, leaf, checkpoint, home, iss, lastSize, doubt, signed, acked>>

\* The key is taken: the unique constraint rejects the row, and the record is
\* given up with a storage error.
InsertConflict(r) ==
    /\ app[r].pc = "insert"
    /\ ~RowHeld(home[r], app[r].next)
    /\ app[r].next \in DOMAIN leaf[home[r]]
    /\ EndAppend(r)
    /\ UNCHANGED <<logs, leaf, checkpoint, home, iss, lastSize, tx, doubt, signed, acked>>

CommitAppend(r) ==
    /\ app[r].pc = "commit"
    /\ Commit(tx[<<r, "append">>])
    /\ acked' = acked \cup {[log |-> home[r], index |-> app[r].next, rec |-> app[r].rec]}
    /\ Discard(r, "append")
    /\ EndAppend(r)
    /\ UNCHANGED <<logs, home, iss, lastSize, doubt, signed>>

\* COMMIT was sent and the connection broke before the answer.
CommitAppendLost(r) ==
    /\ app[r].pc = "commit"
    /\ Cardinality(doubt) < MaxDoubt
    /\ doubt' = doubt \cup {tx[<<r, "append">>]}
    /\ Discard(r, "append")
    /\ EndAppend(r)
    /\ UNCHANGED <<logs, leaf, checkpoint, home, iss, lastSize, signed, acked>>

\* A statement fails: TransactionBehavior rolls back.
AppendFails(r) ==
    /\ app[r].pc # "idle"
    /\ Discard(r, "append")
    /\ EndAppend(r)
    /\ UNCHANGED <<logs, leaf, checkpoint, home, iss, lastSize, doubt, signed, acked>>

-----------------------------------------------------------------------------
(* IssueCheckpoint *)

EndIssue(r) == iss' = [iss EXCEPT ![r] = IssueIdle]

\* A slip: the load sees the replica's own uncommitted append.
LoadAndSignDirty(r) ==
    /\ home[r] \in logs
    /\ iss[r].pc = "idle"
    /\ LET root == Ordered(Merge(leaf[home[r]], tx[<<r, "append">>].rows)) IN
        /\ lastSize[r] # Len(root)
        /\ signed' = signed \cup {TreeHead(home[r], root)}
        /\ iss' = [iss EXCEPT ![r] = [pc |-> "anchor", root |-> root]]
    /\ UNCHANGED <<logs, leaf, checkpoint, home, app, lastSize, tx, doubt, acked>>

\* Load the leaves and sign their head.  At the size of the last checkpoint
\* this replica issued (the idle skip) the handler writes nothing.
LoadAndSign(r) ==
    /\ home[r] \in logs
    /\ iss[r].pc = "idle"
    /\ LET root == Ordered(leaf[home[r]]) IN
        /\ lastSize[r] # Len(root)
        /\ signed' = signed \cup {TreeHead(home[r], root)}
        /\ iss' = [iss EXCEPT ![r] = [pc |-> "anchor", root |-> root]]
    /\ UNCHANGED <<logs, leaf, checkpoint, home, app, lastSize, tx, doubt, acked>>

\* A slip: the head is taken again when it is anchored.
AnchorCurrent(r) ==
    LET root == Ordered(leaf[home[r]])
    IN  /\ iss[r].pc = "anchor"
        /\ ~SizeHeld(home[r], Len(root))
        /\ tx' = [tx EXCEPT ![<<r, "issue">>] =
                    Writes(home[r], NoRows, {root}, FALSE)]
        /\ iss' = [iss EXCEPT ![r].pc = "save"]
        /\ UNCHANGED <<logs, leaf, checkpoint, home, app, lastSize, doubt, signed, acked>>

\* INSERT INTO audit_checkpoint ... ON CONFLICT (log_id, tree_size) DO NOTHING
Anchor(r) ==
    LET root == iss[r].root
        taken == \E c \in checkpoint : c.log = home[r] /\ Len(c.root) = Len(root)
    IN  /\ iss[r].pc = "anchor"
        /\ ~SizeHeld(home[r], Len(root))
        /\ tx' = [tx EXCEPT ![<<r, "issue">>] =
                    Writes(home[r], NoRows, IF taken THEN {} ELSE {root}, FALSE)]
        /\ iss' = [iss EXCEPT ![r].pc = "save"]
        /\ UNCHANGED <<logs, leaf, checkpoint, home, app, lastSize, doubt, signed, acked>>

\* LogCommandGateway::save: update the audit_log row, and insert again every
\* leaf that was loaded, ON CONFLICT DO NOTHING.
Save(r) ==
    LET root == iss[r].root
        missing == (0..(Len(root) - 1)) \ DOMAIN leaf[home[r]]
    IN  /\ iss[r].pc = "save"
        /\ ~LogHeld(home[r])
        /\ \A i \in 0..(Len(root) - 1) : ~RowHeld(home[r], i)
        /\ tx' = [tx EXCEPT ![<<r, "issue">>] =
                    Writes(home[r], [i \in missing |-> root[i + 1]], @.heads, TRUE)]
        /\ iss' = [iss EXCEPT ![r].pc = "commit"]
        /\ UNCHANGED <<logs, leaf, checkpoint, home, app, lastSize, doubt, signed, acked>>

\* A slip: the stored leaves are replaced by the ones that were loaded.
CommitIssueRewrites(r) ==
    /\ iss[r].pc = "commit"
    /\ leaf' = [leaf EXCEPT ![home[r]] =
                    [i \in 0..(Len(iss[r].root) - 1) |-> iss[r].root[i + 1]]]
    /\ checkpoint' = checkpoint \cup {TreeHead(home[r], iss[r].root)}
    /\ lastSize' = [lastSize EXCEPT ![r] = Len(iss[r].root)]
    /\ Discard(r, "issue")
    /\ EndIssue(r)
    /\ UNCHANGED <<logs, home, app, doubt, signed, acked>>

CommitIssue(r) ==
    /\ iss[r].pc = "commit"
    /\ Commit(tx[<<r, "issue">>])
    /\ lastSize' = [lastSize EXCEPT ![r] = Len(iss[r].root)]
    /\ Discard(r, "issue")
    /\ EndIssue(r)
    /\ UNCHANGED <<logs, home, app, doubt, signed, acked>>

\* A slip: the size is remembered although the answer was an error.
CommitIssueLostRemembers(r) ==
    /\ iss[r].pc = "commit"
    /\ Cardinality(doubt) < MaxDoubt
    /\ doubt' = doubt \cup {tx[<<r, "issue">>]}
    /\ lastSize' = [lastSize EXCEPT ![r] = Len(iss[r].root)]
    /\ Discard(r, "issue")
    /\ EndIssue(r)
    /\ UNCHANGED <<logs, leaf, checkpoint, home, app, signed, acked>>

\* The scheduler sees an error and keeps its last_size.
CommitIssueLost(r) ==
    /\ iss[r].pc = "commit"
    /\ Cardinality(doubt) < MaxDoubt
    /\ doubt' = doubt \cup {tx[<<r, "issue">>]}
    /\ Discard(r, "issue")
    /\ EndIssue(r)
    /\ UNCHANGED <<logs, leaf, checkpoint, home, app, lastSize, signed, acked>>

IssueFails(r) ==
    /\ iss[r].pc # "idle"
    /\ Discard(r, "issue")
    /\ EndIssue(r)
    /\ UNCHANGED <<logs, leaf, checkpoint, home, app, lastSize, doubt, signed, acked>>

-----------------------------------------------------------------------------
(* The database and the machine *)

DoubtCommits(w) ==
    /\ w \in doubt
    /\ Commit(w)
    /\ doubt' = doubt \ {w}
    /\ UNCHANGED <<logs, home, app, iss, lastSize, tx, signed, acked>>

DoubtAborts(w) ==
    /\ w \in doubt
    /\ doubt' = doubt \ {w}
    /\ UNCHANGED <<logs, leaf, checkpoint, home, app, iss, lastSize, tx, signed, acked>>

\* The process dies.  A transaction about to commit may have sent COMMIT.
Crash(r) ==
    /\ home[r] # NoLog
    /\ \E sent \in SUBSET {k \in Kind : \/ k = "append" /\ app[r].pc = "commit"
                                        \/ k = "issue" /\ iss[r].pc = "commit"} :
        /\ Cardinality(doubt) + Cardinality(sent) <= MaxDoubt
        /\ doubt' = doubt \cup {tx[<<r, k>>] : k \in sent}
    /\ home' = [home EXCEPT ![r] = NoLog]
    /\ tx' = [tx EXCEPT ![<<r, "append">>] = NoWrites, ![<<r, "issue">>] = NoWrites]
    /\ lastSize' = [lastSize EXCEPT ![r] = -1]
    /\ EndAppend(r)
    /\ EndIssue(r)
    /\ UNCHANGED <<logs, leaf, checkpoint, signed, acked>>

AppendStep(r) ==
    \/ ReadNext(r)
    \/ InsertLeaf(r)
    \/ InsertConflict(r)
    \/ CommitAppend(r)

IssueStep(r) ==
    \/ Anchor(r)
    \/ Save(r)
    \/ CommitIssue(r)

Next ==
    \/ \E r \in Replica :
        \/ \E l \in LogId : CreateLog(r, l) \/ PinLog(r, l)
        \/ \E rec \in Record : AppendBegin(r, rec)
        \/ AppendStep(r)
        \/ CommitAppendLost(r)
        \/ AppendFails(r)
        \/ LoadAndSign(r)
        \/ IssueStep(r)
        \/ CommitIssueLost(r)
        \/ IssueFails(r)
        \/ Crash(r)
    \/ \E w \in doubt : DoubtCommits(w) \/ DoubtAborts(w)

\* The database resolves every transaction in doubt and grants a lock to its
\* waiters in the order they queued, and a running command keeps running.
Fairness ==
    /\ \A r \in Replica : SF_vars(AppendStep(r)) /\ SF_vars(IssueStep(r))
    /\ \A l \in LogId, locked \in BOOLEAN :
        WF_vars(\E w \in doubt : /\ w.log = l /\ w.lock = locked
                                 /\ DoubtCommits(w) \/ DoubtAborts(w))

Spec == Init /\ [][Next]_vars

FairSpec == Spec /\ Fairness

-----------------------------------------------------------------------------
(* Properties *)

RowsOK(rows) ==
    /\ DOMAIN rows \subseteq Nat
    /\ rows = [i \in DOMAIN rows |-> rows[i]]
    /\ \A i \in DOMAIN rows : rows[i] \in Record

WritesOK(w) ==
    /\ w = Writes(w.log, w.rows, w.heads, w.lock)
    /\ w.log \in LogId \cup {NoLog}
    /\ RowsOK(w.rows)
    /\ w.heads \subseteq Seq(Record)
    /\ w.lock \in BOOLEAN

\* Every table row, transaction and in-memory field has its type.
TypeOK ==
    /\ logs \subseteq LogId
    /\ leaf = [l \in LogId |-> leaf[l]]
    /\ \A l \in LogId : RowsOK(leaf[l])
    /\ \A c \in checkpoint : c.log \in LogId /\ c.root \in Seq(Record)
    /\ home \in [Replica -> LogId \cup {NoLog}]
    /\ app \in [Replica -> [pc : {"idle", "read", "insert", "commit"},
                            rec : Record \cup {NoLog}, next : Nat]]
    /\ \A r \in Replica : app[r].pc # "idle" => app[r].rec \in Record
    /\ iss \in [Replica -> [pc : {"idle", "anchor", "save", "commit"},
                            root : Seq(Record)]]
    /\ lastSize \in [Replica -> Nat \cup {-1}]
    /\ tx = [c \in Replica \X Kind |-> tx[c]]
    /\ \A w \in Open : WritesOK(w)
    /\ \A h \in signed : h.log \in LogId /\ h.root \in Seq(Record)
    /\ \A a \in acked : a.log \in LogId /\ a.index \in Nat /\ a.rec \in Record

\* Two appenders that read the same MAX(leaf_index), appends that roll back
\* and commits in doubt never leave a gap in a log's indices: a size is the
\* number of rows, and the k-th row is the leaf with index k - 1.
Contiguous ==
    \A l \in LogId : DOMAIN leaf[l] = 0..(Cardinality(DOMAIN leaf[l]) - 1)

\* What append_record promises: an append reported as a success is the leaf at
\* the index that was reported, whatever other writers, crashes and lost
\* answers came before or since ("not a lost leaf reported as success").
AckedIsStored ==
    \A a \in acked :
        a.index \in DOMAIN leaf[a.log] /\ leaf[a.log][a.index] = a.rec

\* Every head any replica ever signed, checkpoints that were rolled back
\* included, commits to a prefix of the one stored log: no two heads of a log
\* contradict each other.
SignedArePrefixes ==
    \A h \in signed :
        \A k \in 1..Len(h.root) :
            /\ k - 1 \in DOMAIN leaf[h.log]
            /\ h.root[k] = leaf[h.log][k - 1]

\* A row of audit_checkpoint is a head that was signed, and a log has one for
\* each size however many replicas issue it.
AnchoredWereSigned ==
    /\ checkpoint \subseteq signed
    /\ \A c, d \in checkpoint :
        c.log = d.log /\ Len(c.root) = Len(d.root) => c = d

\* The comment on the idle skip: "the checkpoint at this size is already
\* recorded and anchored".  It is true whenever the skip can be taken.
IdleSkipIsSound ==
    \A r \in Replica :
        lastSize[r] # -1 =>
            \E c \in checkpoint : c.log = home[r] /\ Len(c.root) = lastSize[r]

\* Stored rows are final: no command, not even `save` rewriting every leaf,
\* changes or removes a leaf or a checkpoint.
AppendOnly ==
    [][/\ \A l \in LogId : \A i \in DOMAIN leaf[l] :
            i \in DOMAIN leaf'[l] /\ leaf'[l][i] = leaf[l][i]
       /\ checkpoint \subseteq checkpoint'
       /\ logs \subseteq logs']_vars

\* The abstract log: the stored leaves in index order, and the signed heads.
Abstract == INSTANCE TransparencyLog
                WITH leaves <- [l \in LogId |-> Ordered(leaf[l])],
                     issued <- signed

\* The tables implement the append-only log of the domain aggregate.
ImplementsLog == Abstract!Spec

\* Waiting on each other's keys and on the audit_log row never holds up the
\* replicas for ever: a command that has begun its transaction ends it.
TransactionsEnd ==
    \A r \in Replica :
        /\ app[r].pc # "idle" ~> app[r].pc = "idle"
        /\ iss[r].pc # "idle" ~> iss[r].pc = "idle"
==============================================================================
