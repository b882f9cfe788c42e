----------------------------- MODULE MCAuditLog -----------------------------
(* Instances of AuditLog for TLC. *)
EXTENDS AuditLog, TLC

\* Replicas are interchangeable, and so are records.
Symmetric == Permutations(Replica) \cup Permutations(Record)
==============================================================================
