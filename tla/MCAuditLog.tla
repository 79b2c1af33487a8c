----------------------------- MODULE MCAuditLog -----------------------------
(* An instance of AuditLog for TLC: five entries of two namespaces, pages of *)
(* one and two; a limit of three is cut to two.                              *)
EXTENDS AuditLog

CONSTANTS app, web

FiveKeys == 1 .. 5
TwoNamespaces == {app, web}
SomeLimits == {0, 2, 3}
============================================================================
