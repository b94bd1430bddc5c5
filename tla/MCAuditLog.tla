----------------------------- MODULE MCAuditLog -----------------------------
(* Instances of AuditLog for TLC. *)
EXTENDS AuditLog, TLC

CONSTANTS c1, c2, read, write

MCDays == (read :> 0) @@ (write :> 1)

=============================================================================
