---------------------------- MODULE MCDevResume ----------------------------
(***************************************************************************)
(* A small instance of DevResume for TLC.                                  *)
(***************************************************************************)
EXTENDS DevResume

CONSTANTS r1, r2, k1, k2

TwoRuns == {r1, r2}
TwoContracts == {k1, k2}
=============================================================================
