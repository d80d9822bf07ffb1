----------------------------- MODULE MCAuditLog -----------------------------
(* AuditLog with entries of two kinds, and two goroutines that write reports: *)
(* the callback of a connection and the clean-up of the operator's program.  *)
EXTENDS AuditLog

MCRecords == {[result |-> "OK"], [result |-> "DENIED"]}
=============================================================================
