------------------------------ MODULE MCAudit ------------------------------
(* Instances of AuditSeal for TLC.  No symmetry: liveness is checked.       *)
EXTENDS AuditSeal
=============================================================================
