-------------------------- MODULE MCTeacherLedger ---------------------------
(***************************************************************************)
(* Small instances of TeacherLedger for TLC.                               *)
(***************************************************************************)
EXTENDS TeacherLedger, TLC

CONSTANTS p1, p2

OneOperator == {p1}
TwoOperators == {p1, p2}

\* A chunk repaired in two groups, with and without a second chunk.
ThreeRows == <<{1, 2}, {3}>>
TwoRows == <<{1}, {2}>>

\* Four recorded attempts are an initial wave, a retry of a broken structure
\* and one attempt more than that.  After a live lock was unlinked most
\* guarantees are off: two attempts show what is left of them.
Within ==
    /\ Cardinality(attempts) <= 4
    /\ stolen => Cardinality(attempts) <= 2

Symmetric == Permutations(TwoOperators)
=============================================================================
