--------------------------- MODULE MCRationaleChain -------------------------
(***************************************************************************)
(* Small instances of RationaleChain for TLC: three folds, one problem     *)
(* held out, two operators.                                                *)
(***************************************************************************)
EXTENDS RationaleChain, TLC

CONSTANTS q0, q1, q2, q3, o1, o2, full, rest, pilot

\* Contract 2 corrects the answer of q2; contract 3 holds q0 out and frees q3.
MCSplit ==
    [c \in {1, 2, 3} |->
        IF c = 3 THEN (q0 :> None) @@ (q1 :> 1) @@ (q2 :> 2) @@ (q3 :> 0)
                 ELSE (q0 :> 0) @@ (q1 :> 1) @@ (q2 :> 2) @@ (q3 :> None)]

\* Texts 1 and 2 prove the same answer in other words; text 3 proves another.
MCRight ==
    [c \in {1, 2, 3} |-> [q \in {q0, q1, q2, q3} |-> IF c = 2 /\ q = q2 THEN {3} ELSE {1, 2}]]

MCShort == [c \in {1, 2, 3} |-> {1, 2, 3}]

Said(ids, text) == [q \in ids |-> [text |-> text, clean |-> TRUE]]

MCLedger ==
    (full :> [rows |-> Said({q1, q2}, 1), pilot |-> {q1, q2}, probe |-> None])
    @@ (rest :> [rows |-> Said({q0}, 1), pilot |-> None, probe |-> 1])
    @@ (pilot :> [rows |-> Said({q2}, 1), pilot |-> None, probe |-> None])

\* Rows put in by hand: other words, an unclean row, a row too many.
MCReplacement ==
    {Said({q1, q2}, 2), Said({q0, q2}, 2), Said({q0, q1, q2}, 1),
     [q \in {q0, q2} |-> [text |-> 1, clean |-> FALSE]]}

MCSourceTarget == {<<"source", "source.json">>}
MCCorpusTarget == {<<"corpus", "corpus.json">>, <<"corpus2", "corpus.json">>}
Operators == Permutations(Op)

\* From contract 1, made for fold 1 and used for fold 0 or 1; a pair both of
\* whose names are taken is not made again.  The pilot is not given together
\* with the full bank, with which it shares a row, and its file stays.
Within ==
    /\ drifts = 0 => now = 1
    /\ source[pilot] = Ledger[pilot].rows
    /\ \A o \in Op :
          /\ op[o].at # "idle" =>
                op[o].fold \in IF op[o].kind \in {"source", "corpus"} THEN {1} ELSE {0, 1}
          /\ op[o].at \in {"verify", "read"} => ~({pilot, full} \subseteq op[o].banks)
          /\ op[o].at \in {"verify", "read", "load", "targets"} =>
                \E i \in 1..2 : file[op[o].target[i]] = None
=============================================================================
