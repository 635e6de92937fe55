----------------------------- MODULE MCAuditLog -----------------------------
(* AuditLog on two threads, two contents, and a handful of rows.           *)
EXTENDS AuditLog, TLC

CONSTANTS t1, t2, a, b

MCThreads == {t1, t2}
MCPayloads == {a, b}
=============================================================================
