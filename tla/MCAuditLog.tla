----------------------------- MODULE MCAuditLog -----------------------------
(* AuditLog.tla with one request that may be logged again and again. *)
EXTENDS AuditLog

OneEntry == {[id |-> "r1"]}
=============================================================================
