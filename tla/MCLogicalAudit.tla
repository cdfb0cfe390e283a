--------------------------- MODULE MCLogicalAudit ---------------------------
(***************************************************************************)
(* Small instances of LogicalAudit for TLC.                                *)
(***************************************************************************)
EXTENDS LogicalAudit

CONSTANTS p1, p2

TwoOperators == {p1, p2}
=============================================================================
