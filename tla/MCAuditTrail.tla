---------------------------- MODULE MCAuditTrail -----------------------------
(* Instance of AuditTrail for TLC: its constants are numbers.                *)
EXTENDS AuditTrail
==============================================================================
