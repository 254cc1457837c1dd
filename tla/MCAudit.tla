------------------------------ MODULE MCAudit ------------------------------
(* Instances of AuditExport for TLC. *)
EXTENDS AuditExport, TLC
============================================================================
