--------------------------- MODULE MCAuditPipeline ---------------------------
(* Instances of AuditPipeline for TLC. *)
EXTENDS AuditPipeline, TLC

\* Runs are interchangeable.
Symmetric == Permutations(Run)
==============================================================================
