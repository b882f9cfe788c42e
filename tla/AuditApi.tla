------------------------------ MODULE AuditApi ------------------------------
(***************************************************************************)
(* The HTTP API of agate-audit: a request is dispatched through the        *)
(* behaviors registered for its type to its handler, which works on the    *)
(* tables through the gateways, and is answered.  Requests of several      *)
(* clients interleave at every await.  How the transactions of replicas    *)
(* contend for the tables is AuditLog's matter; here a log is the list of  *)
(* its committed leaves, and what is followed is what an answer says about *)
(* it: the index of a leaf, a signed head, a proof.                        *)
(***************************************************************************)
EXTENDS Merkle, Crypto, FiniteSets

CONSTANTS Client, LogIds,
          NewRecords,     \* records the clients append, as positive numbers
          Sizes,          \* sizes the first log may have when the API comes up
          Positions,      \* leaf indexes and tree sizes asked for
          MaxAppends,     \* bound: no appends begin after so many were stored
          MaxDropped,     \* bound: or dropped
          MaxAnchored,    \* bound: no checkpoints begin after so many were anchored
          Seeds           \* values of AUDIT_CHECKPOINT_SEED considered

ASSUME ApiAssumption ==
    /\ IsFiniteSet(Client)
    /\ NewRecords \subseteq Nat \ {0} /\ Sizes \subseteq Nat /\ Positions \subseteq Nat

VARIABLES logs,      \* audit_log: the code of the hash algorithm of each log
          leaves,    \* audit_leaf, in the order of leaf_index
          anchored,  \* audit_checkpoint: [log, size, root]
          seed,      \* the seed in the environment
          call,      \* the request each client has in progress
          heads,     \* the signed heads handed out so far (history)
          count      \* the counters, and the appends there were at all

apiVars == <<logs, leaves, anchored, seed, call, heads, count>>

-----------------------------------------------------------------------------
(* The key store *)

DefaultKeyId == "checkpoint-ed25519"
KeyIds == {DefaultKeyId, "other"}

\* from_env: decode_seed takes 64 hex digits; otherwise there is no key.
StoreKeys == IF seed = [hex |-> TRUE, len |-> 64] THEN {DefaultKeyId} ELSE {}
SecretOf(id) == [id |-> id, len |-> 32]

\* to_canonical_bytes, and CheckpointSigner / CheckpointVerifier on it.
CanonicalBytes(head) == <<head.size, HashCode[head.root.algo], head.root.of>>
SignHead(head, key) == [head |-> head,
                        signature |-> Ed25519Sign(SecretOf(key), key, CanonicalBytes(head))]
VerifyHead(sth, key) ==
    Ed25519Verify(PublicKey(SecretOf(key)), CanonicalBytes(sth.head), sth.signature)

-----------------------------------------------------------------------------
(* Requests and the pipeline *)

Requests ==
    [op : {"create"}]
    \cup [op : {"append"}, log : LogIds, record : NewRecords]
    \cup [op : {"checkpoint"}, log : LogIds, key : KeyIds]
    \cup [op : {"inclusion", "consistency"}, log : LogIds, at : Positions]

\* A slip: the counters sit inside the transaction.
PipelineCountsFirst(op) ==
    CASE op = "append" -> <<"tracing", "transaction", "metrics">>
      [] op \in {"create", "checkpoint"} -> <<"tracing", "transaction">>
      [] OTHER -> <<"tracing">>

\* build_registry: the behaviors of a request type, outermost first.
Pipeline(op) ==
    CASE op = "append" -> <<"tracing", "metrics", "transaction">>
      [] op \in {"create", "checkpoint"} -> <<"tracing", "transaction">>
      [] OTHER -> <<"tracing">>

NoRequest == [op |-> "none"]
NoWrite == [kind |-> "none"]
NoCall == [pc |-> "idle", req |-> NoRequest, depth |-> 0, write |-> NoWrite, seen |-> 0, result |-> NoRequest]

ApiInit ==
    \E n \in Sizes, l \in LogIds :
        /\ logs = [x \in {l} |-> HashCode["Sha256"]]
        /\ leaves = [x \in LogIds |-> IF x = l THEN [i \in 1..n |-> LeafHash(i)] ELSE <<>>]
        /\ anchored = {} /\ heads = {}
        /\ seed \in Seeds
        /\ call = [c \in Client |-> NoCall]
        /\ count = [appended |-> 0, dropped |-> 0, stored |-> 0]

Store == <<logs, leaves, anchored>>
Goes(c, k) == call' = [call EXCEPT ![c] = k]
Fails(c, e) == Goes(c, [call[c] EXCEPT !.pc = "leave", !.result = Error(e)])
Succeeds(c, write, value) ==
    Goes(c, [call[c] EXCEPT !.pc = "leave", !.write = write, !.result = [ok |-> value]])

\* Mediator::send, inwards: the behaviors up to the handler, or up to the transaction
\* if PgTransactionManager::begin gets no connection; those outside it see the error.
Receive(c, req) ==
    LET p == Pipeline(req.op)
    IN  /\ call[c].pc = "idle"
        /\ req.op = "append" => count.stored < MaxAppends /\ count.dropped < MaxDropped
        /\ req.op = "checkpoint" => Cardinality(anchored) < MaxAnchored
        /\ req.op = "create" => LogIds \ DOMAIN logs # {}
        /\ \/ Goes(c, [NoCall EXCEPT !.pc = "handle", !.req = req, !.depth = Len(p)])
           \/ \E d \in DOMAIN p :
                /\ p[d] = "transaction"
                /\ Goes(c, [NoCall EXCEPT !.pc = "leave", !.req = req, !.depth = d - 1,
                                          !.result = Error("Storage")])
        /\ UNCHANGED <<Store, seed, heads, count>>

-----------------------------------------------------------------------------
(* Handlers *)

Handling(c, pc, ops) == call[c].pc = pc /\ call[c].req.op \in ops
Others(c, kind) == {d \in Client \ {c} : call[d].write.kind = kind}

\* CreateLog: a fresh id, the factory's algorithm, `save`.
HandleCreate(c) ==
    /\ Handling(c, "handle", {"create"})
    /\ \E l \in LogIds \ DOMAIN logs :
         /\ \A d \in Others(c, "log") : call[d].write.log # l
         /\ Succeeds(c, [kind |-> "log", log |-> l], l)
    /\ UNCHANGED <<Store, seed, heads, count>>

\* append_record: the log exists, and its next index is ...
HandleAppend(c) ==
    LET l == call[c].req.log
    IN  /\ Handling(c, "handle", {"append"})
        /\ IF l \in DOMAIN logs THEN Goes(c, [call[c] EXCEPT !.pc = "insert", !.seen = Len(leaves[l])])
           ELSE Fails(c, "LogNotFound")
        /\ UNCHANGED <<Store, seed, heads, count>>

\* ... inserted.  The insert waits for another transaction that holds the index, and
\* fails when the index is taken.
InsertLeaf(c) ==
    LET k == call[c]
    IN  /\ Handling(c, "insert", {"append"})
        /\ \A d \in Others(c, "leaf") : <<call[d].write.log, call[d].write.at>> # <<k.req.log, k.seen>>
        /\ IF k.seen < Len(leaves[k.req.log]) THEN Fails(c, "Storage")
           ELSE Succeeds(c, [kind |-> "leaf", log |-> k.req.log, at |-> k.seen,
                             leaf |-> LeafHash(k.req.record)], k.seen)
        /\ UNCHANGED <<Store, seed, heads, count>>

\* IssueCheckpoint and both queries first look for the log ...
FindLog(c) ==
    /\ Handling(c, "handle", {"checkpoint", "inclusion", "consistency"})
    /\ IF call[c].req.log \in DOMAIN logs THEN Goes(c, [call[c] EXCEPT !.pc = "load"])
       ELSE Fails(c, "LogNotFound")
    /\ UNCHANGED <<Store, seed, heads, count>>

HeadOf(l) ==
    [size |-> Len(leaves[l]),
     root |-> [algo |-> CHOOSE a \in FromCode(HashCode, logs[l]) : TRUE, of |-> Root(leaves[l])]]

\* ... and then, in another statement, read its leaves.  A head is signed, anchored
\* unless its size is anchored already, and the log saved; this waits for another
\* transaction that does the same.  The API always issues.
LoadAndIssue(c) ==
    LET k == call[c]
        head == HeadOf(k.req.log)
    IN  /\ Handling(c, "load", {"checkpoint"})
        /\ \A d \in Others(c, "head") : call[d].write.log # k.req.log
        /\ IF k.req.key \notin StoreKeys THEN Fails(c, "KeyNotFound")
           ELSE Succeeds(c, [kind |-> "head", log |-> k.req.log, size |-> head.size,
                             root |-> head.root], SignHead(head, k.req.key))
        /\ UNCHANGED <<Store, seed, heads, count>>

LoadAndProveInclusion(c) ==
    LET k == call[c]
        read == leaves[k.req.log]
        proof == Inclusion(read, k.req.at)
    IN  /\ Handling(c, "load", {"inclusion"})
        /\ IF proof = NoProof THEN Fails(c, "LeafOutOfRange")
           ELSE Succeeds(c, NoWrite,
                         [proof |-> proof, leaf |-> read[k.req.at + 1], root |-> Root(read)])
        /\ UNCHANGED <<Store, seed, heads, count>>

LoadAndProveConsistency(c) ==
    LET k == call[c]
        read == leaves[k.req.log]
        proof == Consistency(read, k.req.at)
    IN  /\ Handling(c, "load", {"consistency"})
        /\ IF proof = NoProof THEN Fails(c, "SizeOutOfRange")
           ELSE Succeeds(c, NoWrite,
                         [proof |-> proof, old |-> Root(SubSeq(read, 1, k.req.at)), new |-> Root(read)])
        /\ UNCHANGED <<Store, seed, heads, count>>

\* Any statement may fail.
StatementFails(c) ==
    /\ call[c].pc \in {"handle", "insert", "load"}
    /\ Fails(c, "Storage")
    /\ UNCHANGED <<Store, seed, heads, count>>

-----------------------------------------------------------------------------
(* The way out *)

Applied(w) ==
    /\ logs' = IF w.kind = "log"
               THEN [l \in DOMAIN logs \cup {w.log} |-> IF l = w.log THEN HashCode["Sha256"] ELSE logs[l]]
               ELSE logs
    /\ leaves' = IF w.kind = "leaf" THEN [leaves EXCEPT ![w.log] = Append(@, w.leaf)] ELSE leaves
    /\ anchored' = IF w.kind = "head" /\ ~\E a \in anchored : a.log = w.log /\ a.size = w.size
                   THEN anchored \cup {[log |-> w.log, size |-> w.size, root |-> w.root]}
                   ELSE anchored

Stored == IF leaves' # leaves THEN 1 ELSE 0

Leaving(c, behavior) ==
    LET k == call[c]
    IN  k.pc = "leave" /\ k.depth > 0 /\ Pipeline(k.req.op)[k.depth] = behavior

\* TransactionBehavior: commit what succeeded; a commit that fails may have happened.
Commit(c) ==
    LET k == call[c]
        out == [k EXCEPT !.depth = @ - 1, !.write = NoWrite]
    IN  /\ Leaving(c, "transaction") /\ ~IsError(k.result)
        /\ \/ Applied(k.write) /\ Goes(c, out)
           \/ Applied(k.write) /\ Goes(c, [out EXCEPT !.result = Error("Storage")])
           \/ UNCHANGED Store /\ Goes(c, [out EXCEPT !.result = Error("Storage")])
        /\ count' = [count EXCEPT !.stored = @ + Stored]
        /\ UNCHANGED <<seed, heads>>

Rollback(c) ==
    /\ Leaving(c, "transaction") /\ IsError(call[c].result)
    /\ Goes(c, [call[c] EXCEPT !.depth = @ - 1, !.write = NoWrite])
    /\ UNCHANGED <<Store, seed, heads, count>>

\* MetricsBehavior: the outcome as it is here.
Count(c) ==
    /\ Leaving(c, "metrics")
    /\ count' = IF IsError(call[c].result) THEN [count EXCEPT !.dropped = @ + 1]
                ELSE [count EXCEPT !.appended = @ + 1]
    /\ Goes(c, [call[c] EXCEPT !.depth = @ - 1])
    /\ UNCHANGED <<Store, seed, heads>>

\* The status a result is answered with: HttpError::into_response, or the handler's own.
Status(op, result) ==
    IF IsError(result)
    THEN CASE result.error = "LogNotFound" -> 404
           [] result.error \in {"LeafOutOfRange", "SizeOutOfRange", "Domain"} -> 400
           [] OTHER -> 500
    ELSE IF op \in {"create", "append", "checkpoint"} THEN 201 ELSE 200

Answering(c) == call[c].pc = "leave" /\ (call[c].depth = 0 \/ Leaving(c, "tracing"))

\* TracingBehavior closes its span, the answer goes out.
Answer(c) ==
    LET k == call[c]
        sth == k.result.ok
    IN  /\ Answering(c)
        /\ heads' = IF k.req.op = "checkpoint" /\ ~IsError(k.result)
                    THEN heads \cup {[log |-> k.req.log, sth |-> sth]} ELSE heads
        /\ call' = [call EXCEPT ![c] = NoCall]
        /\ UNCHANGED <<Store, seed, count>>

\* The client hangs up: the future is dropped where it is, and the request's scope
\* with it, whose finalizer rolls an open transaction back; a COMMIT that was already
\* sent may still happen.
ClientGone(c) ==
    /\ call[c].pc # "idle"
    /\ call' = [call EXCEPT ![c] = NoCall]
    /\ \/ UNCHANGED Store
       \/ Leaving(c, "transaction") /\ ~IsError(call[c].result) /\ Applied(call[c].write)
    /\ count' = [count EXCEPT !.stored = @ + Stored]
    /\ UNCHANGED <<seed, heads>>

ApiNext ==
    \E c \in Client :
        \/ \E req \in Requests : Receive(c, req)
        \/ HandleCreate(c) \/ HandleAppend(c) \/ InsertLeaf(c) \/ FindLog(c)
        \/ LoadAndIssue(c) \/ LoadAndProveInclusion(c) \/ LoadAndProveConsistency(c)
        \/ StatementFails(c)
        \/ Commit(c) \/ Rollback(c) \/ Count(c) \/ Answer(c) \/ ClientGone(c)

ApiSpec == ApiInit /\ [][ApiNext]_apiVars

-----------------------------------------------------------------------------
(* Properties *)

ToPairs(s) == {<<i, s[i]>> : i \in DOMAIN s}
Prefix(l, n) == SubSeq(leaves[l], 1, n)
Granted(c, op) ==
    Answering(c) /\ call[c].req.op = op /\ Status(op, call[c].result) \in {200, 201}

\* Auditors that compare notes never disagree: whatever commits came between the
\* statements of a query, a served proof verifies against the roots served with it and
\* against every signed head of its size, old or new; it shows the record stored at
\* that index and no other; and every head carries the root of its prefix under a
\* signature that no other head would fit.
ServedProofsVerify ==
    /\ \A h \in heads :
         LET head == h.sth.head
         IN  /\ head.root.of = RootByLevels(Prefix(h.log, head.size))
             /\ VerifyHead(h.sth, DefaultKeyId)
             /\ ~VerifyHead([h.sth EXCEPT !.head.size = @ + 1], DefaultKeyId)
    /\ \A c \in Client :
       LET req == call[c].req
           r == call[c].result.ok
           Agrees(n, root) == \A h \in heads : h.log = req.log /\ h.sth.head.size = n
                                                 => h.sth.head.root.of = root
       IN    /\ Granted(c, "inclusion") =>
                  /\ r.leaf = leaves[req.log][req.at + 1]
                  /\ VerifyInclusion(r.proof, r.leaf, r.root) /\ Agrees(r.proof.size, r.root)
                  /\ ~VerifyInclusion(r.proof, LeafHash(0), r.root)
             /\ Granted(c, "consistency") =>
                  /\ VerifyConsistency(r.proof, r.old, r.new)
                  /\ Agrees(r.proof.first, r.old) /\ Agrees(r.proof.second, r.new)
                  /\ r.proof.first < r.proof.second =>
                       ~VerifyConsistency(r.proof, LeafHash(0), r.new)

\* An answer is true when it goes out: an append that is granted is in the log at the
\* index it names, a created log exists, a granted head is anchored; and the counters
\* never report an append that was not stored, however commits fail and clients leave.
AnswersAreTrue ==
    /\ \A c \in Client :
       LET req == call[c].req
           value == call[c].result.ok
       IN    /\ Granted(c, "append") => <<value + 1, LeafHash(req.record)>> \in ToPairs(leaves[req.log])
             /\ Granted(c, "create") => value \in DOMAIN logs
             /\ Granted(c, "checkpoint") =>
                  [log |-> req.log, size |-> value.head.size, root |-> value.head.root] \in anchored
    /\ count.appended <= count.stored
=============================================================================
