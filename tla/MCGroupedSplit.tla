--------------------------- MODULE MCGroupedSplit ---------------------------
(***************************************************************************)
(* Small instances of GroupedSplit for TLC.                                *)
(***************************************************************************)
EXTENDS GroupedSplit

CONSTANTS math, source

\* Up to four labels on six records, no more of the one kind than of the
\* other (they can be exchanged): groups chained by labels of both kinds, after
\* three unions or none.  A tenth of six records is less than any group, half
\* of them may leave too few groups for the folds.
Bearers(f, l) == {x \in Id : l \in f[x]}

Labellings ==
    {f \in [Id -> SUBSET Label] :
        /\ Cardinality(Bearers(f, source)) <= Cardinality(Bearers(f, math))
        /\ Cardinality(Bearers(f, source)) + Cardinality(Bearers(f, math)) <= 4}

MCInput ==
    [pairs : {{}, {<<2, 1>>, <<4, 3>>, <<3, 1>>}}, labels : Labellings,
     num : {1}, den : {2, 10}]
=============================================================================
