----------------------------- MODULE MCAuditLedger -----------------------------
(* Model values for AuditLedger.                                            *)
EXTENDS AuditLedger

CONSTANTS w1, w2, w3, e1, e2, e3, e4, c1, c2
================================================================================
