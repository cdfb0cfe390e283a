-------------------------- MODULE MCTrainingResume --------------------------
(***************************************************************************)
(* A small instance of TrainingResume for TLC.                             *)
(***************************************************************************)
EXTENDS TrainingResume

CONSTANTS r1, r2, m1, k1, k2, o1

TwoRuns == {r1, r2}
OneMonitor == {m1}
TwoContracts == {k1, k2}
OneOutput == {o1}

\* Runs, and contracts, are interchangeable: the run that starts first is r1, and
\* the contract it asks for is k1.
Representative ==
    IF call[r1] = Absent
    THEN pc[r1] = "idle" => \A p \in Run : pc[p] = "idle"
    ELSE call[r1].contract = k1
=============================================================================
