--------------------------- MODULE TransparencyLog ---------------------------
(***************************************************************************)
(* What a transparency log promises, as the aggregate of                   *)
(* domain/merkle/entities/transparency_log.rs states it: a list of leaf    *)
(* hashes that only grows at its end, and checkpoints that are snapshots   *)
(* of the whole list.  No storage, transactions, replicas or crashes:      *)
(* AuditLog is shown to implement this module.                             *)
(*                                                                         *)
(* The Merkle root is collision free, so a head is represented by the list *)
(* of leaves it commits to; its size is the length of that list.           *)
(***************************************************************************)
EXTENDS Naturals, Sequences

CONSTANTS LogId,    \* log identifiers
          Record    \* leaf hashes

VARIABLES leaves,   \* the leaves of every log
          issued    \* the heads signed so far

vars == <<leaves, issued>>

\* A tree head: the log and the leaves its root commits to.
TreeHead(l, s) == [log |-> l, root |-> s]

Init ==
    /\ leaves = [l \in LogId |-> <<>>]
    /\ issued = {}

\* TransparencyLog::append: the leaf takes the next index.
AppendLeaf(l, rec) ==
    /\ leaves' = [leaves EXCEPT ![l] = Append(@, rec)]
    /\ UNCHANGED issued

\* TransparencyLog::issue_checkpoint, signed by the application layer.
IssueCheckpoint(l) ==
    /\ issued' = issued \cup {TreeHead(l, leaves[l])}
    /\ UNCHANGED leaves

Next ==
    \E l \in LogId :
        \/ \E rec \in Record : AppendLeaf(l, rec)
        \/ IssueCheckpoint(l)

Spec == Init /\ [][Next]_vars
==============================================================================
