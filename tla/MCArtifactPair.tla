--------------------------- MODULE MCArtifactPair ---------------------------
(***************************************************************************)
(* Small instances of ArtifactPair for TLC.                                *)
(***************************************************************************)
EXTENDS ArtifactPair, TLC

CONSTANTS w1, w2, w3, b1, b2

ThreeWriters == {w1, w2, w3}
OneBytes == {b1}
TwoBytes == {b1, b2}

\* Writers and payloads can be renamed, and at most one of three writers has a
\* payload of its own: these two assignments stand for all eight.  (A symmetry
\* set would say the same, but not together with liveness.)
UpToRenaming == bytes[w1] = b1 /\ bytes[w2] = b1
=============================================================================
