--------------------------- MODULE MCSelectionFlow --------------------------
(***************************************************************************)
(* A small instance of SelectionFlow for TLC: two folds, the base and two  *)
(* candidates.                                                             *)
(***************************************************************************)
EXTENDS SelectionFlow, TLC

CONSTANTS b0, b1, c1, x0, x1, y0, y1, e1, e2, cmp, oof, oof2, fz, pinned

MCLabel == <<"base", "x", "y">>

Bundle(fold, method, id) == [fold |-> fold, method |-> method, contract |-> 1, id |-> id]
RowsOf(fold, checkpoint, id) ==
    [fold |-> fold, checkpoint |-> checkpoint, contract |-> 1, sums |-> id, sound |-> TRUE, id |-> id]
Unsound(content) == [content EXCEPT !.sound = FALSE]
By(content, e) == [of |-> content, exec |-> e]

ax0 == Bundle(0, "m", 1)
ax1 == Bundle(1, "m", 1)
ay0 == Bundle(0, "m", 2)
ay1 == Bundle(1, "m", 2)
\* The same candidate, trained in another way.
ax1m == Bundle(1, "n", 1)

GivenRows ==
    (b0 :> RowsOf(0, pinned, 1)) @@ (b1 :> RowsOf(1, pinned, 1)) @@ (c1 :> RowsOf(1, pinned, 2))
    @@ (x0 :> RowsOf(0, ax0, 1)) @@ (x1 :> RowsOf(1, ax1, 1))
    @@ (y0 :> RowsOf(0, ay0, 1)) @@ (y1 :> RowsOf(1, ay1, 1))

\* A second run of candidate x, and its run with the other training.
x0again == RowsOf(0, ax0, 2)
x1other == RowsOf(1, ax1m, 1)

MCAdapterBytes == {ax0, ax1, ay0, ay1, ax1m}
MCRowBytes == Range(GivenRows) \cup {x0again, x1other, Unsound(GivenRows[b1]), Unsound(GivenRows[x0])}

Named(runs) == [p \in DOMAIN runs |-> By(runs[p], e1)]
Adapters == (x0 :> ax0) @@ (x1 :> ax1) @@ (y0 :> ay0) @@ (y1 :> ay1)

\* All is well; or one run of the base was damaged before its manifest was made
\* (the replacement below repairs it, with the same sums) and candidate x was
\* trained differently on fold 1; or candidate y has been given the adapter of x.
Otherwise == [GivenRows EXCEPT ![x1] = x1other, ![b1] = Unsound(@)]
Copied == [GivenRows EXCEPT ![y0] = x0again]

MCGiven ==
    {[run |-> GivenRows, manifest |-> Named(GivenRows), adapter |-> Adapters],
     [run |-> Otherwise, manifest |-> Named(Otherwise),
      adapter |-> [Adapters EXCEPT ![x1] = ax1m]],
     [run |-> Copied, manifest |-> Named(Copied), adapter |-> Adapters]}

\* The operator may give candidate y the files of x on fold 0, and the base
\* either of its runs on fold 1.
MCOffer ==
    (<<0, "base">> :> {<<b0, Nothing>>}) @@ (<<1, "base">> :> {<<b1, Nothing>>, <<c1, Nothing>>})
    @@ (<<0, "x">> :> {<<x0, x0>>}) @@ (<<1, "x">> :> {<<x1, x1>>})
    @@ (<<0, "y">> :> {<<y0, y0>>, <<y0, x0>>}) @@ (<<1, "y">> :> {<<y1, y1>>})

MCName ==
    [kind \in {"cross", "base", "probe", "require", "freeze", "freezeBase"} |->
        CASE kind \in {"cross", "probe"} -> {cmp}
          [] kind = "base" -> {oof, oof2}
          [] kind = "require" -> {cmp}
          [] kind \in {"freeze", "freezeBase"} -> {fz}]

MCReplacement ==
    {<<"rows", b1, Unsound(GivenRows[b1])>>, <<"rows", b1, Nothing>>,
     <<"manifest", b1, By(Unsound(GivenRows[b1]), e1)>>, <<"manifest", b1, By(GivenRows[b1], e2)>>,
     <<"rows", x0, Unsound(GivenRows[x0])>>, <<"rows", x1, x1other>>, <<"manifest", x1, By(x1other, e1)>>,
     <<"rows", b1, GivenRows[b1]>>, <<"rows", y0, x0again>>,
     <<"adapter", x0, Nothing>>, <<"adapter", x1, ax1m>>}

\* A command whose artifact has a name that is taken is not started; an
\* instance follows the candidates or the base.
Within ==
    /\ cmd.at # "idle" /\ cmd.kind \in {"cross", "base", "probe", "freeze", "freezeBase"} => out[cmd.target] = Nothing
    /\ out[cmp] = Nothing \/ (out[oof] = Nothing /\ out[oof2] = Nothing)
    /\ out[oof] = Nothing => out[oof2] = Nothing
=============================================================================
