--------------------------- MODULE MCTeacherGate ---------------------------
(***************************************************************************)
(* Small instances of TeacherGate for TLC.                                 *)
(***************************************************************************)
EXTENDS TeacherGate

CONSTANTS b1, b2, b3, d1, d2, p1, p2

\* Two builds of one version of the client, and a later version.
Says == [b \in {b1, b2, b3} |-> IF b = b3 THEN "later" ELSE "one"]

\* One version of everything to begin with; the order of names is arbitrary.
Beginning == drifts = 0 => env = [config |-> 1, tree |-> 1, binary |-> b1, data |-> 1]
=============================================================================
