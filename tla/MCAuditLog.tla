----------------------------- MODULE MCAuditLog -----------------------------
(***************************************************************************)
(* Three records, whose lines have two or three bytes.                     *)
(***************************************************************************)
EXTENDS AuditLog

LineLength == [h1 |-> 3, h2 |-> 3, h3 |-> 2]
=============================================================================
