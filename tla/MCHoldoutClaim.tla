--------------------------- MODULE MCHoldoutClaim ---------------------------
(***************************************************************************)
(* A small instance of HoldoutClaim for TLC.                               *)
(***************************************************************************)
EXTENDS HoldoutClaim, TLC

CONSTANTS c1, c2, f1, f2, f3, p1, m1, m2, m3, k1, k2, o1, o2, r1, r2

TwoCalls == {c1, c2}
ThreeFreezes == {f1, f2, f3}
OneFreezePath == {p1}
ThreeMethods == {m1, m2, m3}
TwoCheckpoints == {k1, k2}
TwoPaths == {o1, o2}
TwoRecords == {r1, r2}

\* A label more for the checkpoint of another one.
Checkpoints == m1 :> k1 @@ m2 :> k2 @@ m3 :> k1

\* One freeze with a fallback, and two that a backend cannot tell apart.
FrozenMethods ==
    f1 :> [primary |-> m1, fallback |-> m2] @@ f2 :> [primary |-> m3, fallback |-> m2]
      @@ f3 :> [primary |-> m2, fallback |-> None]

Symmetric == Permutations(TwoCalls) \cup Permutations(TwoPaths) \cup Permutations(TwoRecords)
=============================================================================
