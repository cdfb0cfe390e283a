---------------------------- MODULE GroupedSplit ----------------------------
(***************************************************************************)
(* build-splits (cli.py) and splits.py: records that share a verified      *)
(* label are joined into groups, whole groups are locked away as the final *)
(* holdout, the others are dealt to cross-validation folds, and every      *)
(* later command asks the resulting manifest for its training and          *)
(* validation records.                                                     *)
(*                                                                         *)
(* Ranks that the code takes from SHA-256 order candidates in a way nobody *)
(* chose: where they decide, any candidate may come first.  The holdout    *)
(* fraction is a ratio of integers; the rounding of doubles is left out.   *)
(***************************************************************************)
EXTENDS Integers, FiniteSets

CONSTANTS
    Id,         \* record ids, ordered as their strings are
    Label,      \* "math:..." and "source:..." fingerprints
    NFolds,     \* n_folds
    Input,      \* what may be asked for: unions, labels and a holdout fraction
    MaxExcluded, \* bound on the records an organizer excludes
    None

ASSUME FoldsAssumption == NFolds \in Nat /\ NFolds >= 2
ASSUME IdAssumption == Id \subseteq Nat /\ IsFiniteSet(Id) /\ None \notin Id \cup 0..NFolds
ASSUME ExcludedAssumption == MaxExcluded \in Nat
ASSUME InputAssumption ==
    \A i \in Input :
        /\ i.pairs \subseteq Id \X Id
        /\ i.labels \in [Id -> SUBSET Label]
        /\ i.num \in Nat /\ i.den \in Nat /\ 0 < i.num /\ i.num < i.den

VARIABLES
    input,      \* the arguments of the call
    phase,      \* where the call is
    pairs,      \* union_pairs still to be joined
    labels,     \* labels still to be looked at, by record
    first,      \* first_by_label
    parent,     \* the union-find forest
    rank,
    group,      \* group_by_id
    scanned,    \* groups considered for the holdout
    held,       \* selected: the groups of the holdout
    size,       \* selected_size
    fold,       \* assignment: the fold of a group
    load,       \* fold_sizes
    count,      \* fold_group_counts
    answer      \* what the manifest last answered

forest == <<pairs, labels, first, parent, rank>>
holdout == <<scanned, held, size>>
folds == <<fold, load, count>>
vars == <<input, phase, forest, group, holdout, folds, answer>>

Folds == 0..(NFolds - 1)
Phases == {"cluster", "scan", "trim", "deal", "made", "refused", "broken"}
Answer == [train : SUBSET Id, valid : SUBSET Id, excluded : SUBSET Id]

Init ==
    /\ input \in Input
    /\ phase = "cluster"
    /\ pairs = input.pairs
    /\ labels = input.labels
    /\ first = [l \in Label |-> None]
    /\ parent = [x \in Id |-> x]
    /\ rank = [x \in Id |-> 0]
    /\ group = [x \in Id |-> x]
    /\ scanned = {}
    /\ held = {}
    /\ size = 0
    /\ fold = [g \in Id |-> None]
    /\ load = [f \in Folds |-> 0]
    /\ count = [f \in Folds |-> 0]
    /\ answer = None

(***************************************************************************)
(* build_group_clusters                                                    *)
(***************************************************************************)
\* What find() walks through: the least set with x that contains, with every
\* node, its parent.
Upward == {S \in SUBSET Id : \A z \in S : parent[z] \in S}
Walked(x) == {y \in Id : \A S \in Upward : x \in S => y \in S}

Find(x) == CHOOSE r \in Walked(x) : parent[r] = r

\* Mutant: the records are linked, not their roots.
Union_Members(l, r) ==
    /\ parent' = [parent EXCEPT ![r] = l]
    /\ UNCHANGED rank

\* Both paths are compressed; the root of lower rank goes below the other.
Union(l, r) ==
    LET a == Find(l)
        b == Find(r)
        child == IF rank[a] < rank[b] THEN a ELSE b
        root == IF rank[a] < rank[b] THEN b ELSE a
        short == [x \in Id |-> IF x \in Walked(l) \cup Walked(r) THEN Find(x) ELSE parent[x]]
    IN  IF a = b
          THEN parent' = short /\ UNCHANGED rank
          ELSE /\ parent' = [short EXCEPT ![child] = root]
               /\ rank' = IF rank[a] = rank[b] THEN [rank EXCEPT ![root] = @ + 1] ELSE rank

UnionPair ==
    /\ phase = "cluster"
    /\ \E p \in pairs :
          /\ Union(p[1], p[2])
          /\ pairs' = pairs \ {p}
    /\ UNCHANGED <<input, phase, labels, first, group, holdout, folds, answer>>

\* Records in order of their ids; a label joins each to the first that had it.
UnionLabel ==
    /\ phase = "cluster"
    /\ pairs = {}
    /\ \E x \in Id : \E l \in labels[x] :
          /\ \A y \in Id : y < x => labels[y] = {}
          /\ first' = [first EXCEPT ![l] = IF @ = None THEN x ELSE @]
          /\ Union(first'[l], x)
          /\ labels' = [labels EXCEPT ![x] = @ \ {l}]
    /\ UNCHANGED <<input, phase, pairs, group, holdout, folds, answer>>

Least(S) == CHOOSE x \in S : \A y \in S : x <= y

\* _validate_split_parameters: the folds and the holdout need a group each.
Refused(names) == Cardinality(names) < NFolds + 1

\* A group is named after its least member; the parameters are then checked.
Resolve ==
    /\ phase = "cluster"
    /\ pairs = {}
    /\ \A x \in Id : labels[x] = {}
    /\ group' = [x \in Id |-> Least({y \in Id : Find(y) = Find(x)})]
    /\ phase' = IF Refused({group'[x] : x \in Id}) THEN "refused" ELSE "scan"
    /\ UNCHANGED <<input, forest, holdout, folds, answer>>

Groups == {group[x] : x \in Id}
Members(g) == {x \in Id : group[x] = g}
Size(g) == Cardinality(Members(g))

(***************************************************************************)
(* _choose_holdout_groups                                                  *)
(***************************************************************************)
Abs(n) == IF n < 0 THEN -n ELSE n

\* The distance of n records from the target, times the denominator.
Off(n) == Abs(n * input.den - Cardinality(Id) * input.num)

\* Mutant: a group that changes nothing is taken too.
Closer_OrEqual(n, m) == Off(n) <= Off(m)

Closer(n, m) == Off(n) < Off(m)

Scan ==
    /\ phase = "scan"
    /\ \E g \in Groups \ scanned :
          /\ scanned' = scanned \cup {g}
          /\ \/ /\ Closer(size + Size(g), size)
                /\ held' = held \cup {g}
                /\ size' = size + Size(g)
             \/ /\ ~Closer(size + Size(g), size)
                /\ UNCHANGED <<held, size>>
    /\ UNCHANGED <<input, phase, forest, group, folds, answer>>

\* If no group came closer than none, the best single one is taken.
EndScan ==
    /\ phase = "scan"
    /\ scanned = Groups
    /\ \/ held # {} /\ UNCHANGED <<held, size>>
       \/ /\ held = {}
          /\ \E g \in Groups :
                /\ \A h \in Groups : Off(Size(g)) <= Off(Size(h))
                /\ held' = {g}
                /\ size' = Size(g)
    /\ phase' = "trim"
    /\ UNCHANGED <<input, forest, group, scanned, folds, answer>>

\* Mutant: one fold short.
TooFewLeft_OneShort == Cardinality(Groups) - Cardinality(held) < NFolds - 1

TooFewLeft == Cardinality(Groups) - Cardinality(held) < NFolds

\* Groups go back until every fold can have one; min() of nothing raises.
Trim ==
    /\ phase = "trim"
    /\ TooFewLeft
    /\ \/ /\ held = {}
          /\ phase' = "broken"
          /\ UNCHANGED <<held, size>>
       \/ /\ \E g \in held :
                /\ \A h \in held : Off(size - Size(g)) <= Off(size - Size(h))
                /\ held' = held \ {g}
                /\ size' = size - Size(g)
          /\ UNCHANGED phase
    /\ UNCHANGED <<input, forest, group, scanned, folds, answer>>

EndTrim ==
    /\ phase = "trim"
    /\ ~TooFewLeft
    /\ phase' = IF held = {} THEN "broken" ELSE "deal"
    /\ UNCHANGED <<input, forest, group, holdout, folds, answer>>

(***************************************************************************)
(* _assign_cv_folds                                                        *)
(***************************************************************************)
Waiting == {g \in Groups \ held : fold[g] = None}

Largest(g) == \A h \in Waiting : Size(h) <= Size(g)

Lighter(e, f) == load[e] < load[f] \/ (load[e] = load[f] /\ count[e] < count[f])

Lightest(f) == \A e \in Folds : ~Lighter(e, f)

Deal ==
    /\ phase = "deal"
    /\ \E g \in Waiting, f \in Folds :
          /\ Largest(g)
          /\ Lightest(f)
          /\ fold' = [fold EXCEPT ![g] = f]
          /\ load' = [load EXCEPT ![f] = @ + Size(g)]
          /\ count' = [count EXCEPT ![f] = @ + 1]
    /\ UNCHANGED <<input, phase, forest, group, holdout, answer>>

(***************************************************************************)
(* The manifest                                                            *)
(***************************************************************************)
HoldoutIds == {x \in Id : group[x] \in held}
CvIds == Id \ HoldoutIds
FoldIds(f) == {x \in CvIds : fold[group[x]] = f}
TrainingIds(f) == {x \in CvIds : fold[group[x]] # f}

\* SplitManifest.validate: the holdout and every fold have records.
Validates ==
    /\ HoldoutIds # {}
    /\ {fold[group[x]] : x \in CvIds} = Folds

Validate ==
    /\ phase = "deal"
    /\ Waiting = {}
    /\ phase' = IF Validates THEN "made" ELSE "broken"
    /\ UNCHANGED <<input, forest, group, holdout, folds, answer>>

\* Mutant: only the named records are excluded.
Expand_Named(S) == S

\* expand_hard_group_exclusions
Expand(S) == {x \in Id : \E y \in S : group[x] = group[y]}

\* eligible_training_ids and eligible_validation_ids
Ask ==
    /\ phase = "made"
    /\ \E f \in Folds, excluded \in {S \in SUBSET Id : Cardinality(S) <= MaxExcluded} :
          answer' = [train |-> TrainingIds(f) \ Expand(excluded),
                     valid |-> FoldIds(f) \ Expand(excluded),
                     excluded |-> excluded]
    /\ UNCHANGED <<input, phase, forest, group, holdout, folds>>

Next ==
    \/ UnionPair \/ UnionLabel \/ Resolve
    \/ Scan \/ EndScan \/ Trim \/ EndTrim
    \/ Deal \/ Validate \/ Ask

Spec == Init /\ [][Next]_vars

(***************************************************************************)
(* Properties                                                              *)
(***************************************************************************)
TypeOK ==
    /\ input \in Input
    /\ phase \in Phases
    /\ pairs \subseteq Id \X Id
    /\ labels \in [Id -> SUBSET Label]
    /\ first \in [Label -> Id \cup {None}]
    /\ parent \in [Id -> Id]
    /\ rank \in [Id -> Nat]
    /\ group \in [Id -> Id]
    /\ scanned \subseteq Id
    /\ held \subseteq Id
    /\ size \in 0..Cardinality(Id)
    /\ fold \in [Id -> Folds \cup {None}]
    /\ load \in [Folds -> 0..Cardinality(Id)]
    /\ count \in [Folds -> 0..Cardinality(Id)]
    /\ answer \in Answer \cup {None}

\* The verified equivalences of the input, one step at a time.
Joined(x, y) ==
    \/ <<x, y>> \in input.pairs \/ <<y, x>> \in input.pairs
    \/ input.labels[x] \cap input.labels[y] # {}

Closed(S) == \A x \in S, y \in Id : Joined(x, y) => y \in S

\* Whatever the order of the unions, a group is a least closed set of
\* equivalent records and bears the name of its least member (build_group_clusters).
ClustersExact ==
    phase # "cluster" =>
        \A g \in Groups :
            /\ g = Least(Members(g))
            /\ Closed(Members(g))
            /\ \A S \in (SUBSET Members(g)) \ {{}, Members(g)} : ~Closed(S)

\* Parameters that pass the check lead to a manifest: the holdout is never
\* trimmed away, no fold stays empty, and validate() accepts the result.
AcceptedParametersSucceed == phase # "broken"

\* A holdout of several groups exceeds its target by less than half of one of
\* them, also after it was trimmed (_choose_holdout_groups).
HoldoutClose ==
    Cardinality(held) > 1 =>
        \E g \in held :
            2 * (Cardinality(HoldoutIds) * input.den - Cardinality(Id) * input.num)
                < Size(g) * input.den

\* A fold without any one of its groups is no larger than another fold
\* (_assign_cv_folds).
Balanced ==
    \A e, f \in Folds : \A g \in Groups :
        (fold[g] = e /\ g \notin held) =>
            Cardinality(FoldIds(e)) - Size(g) <= Cardinality(FoldIds(f))

\* No record a command trains on is equivalent to one it validates on, to one
\* of the locked holdout or to an excluded one.
NoLeak ==
    answer # None =>
        /\ Closed(answer.train) /\ Closed(answer.valid)
        /\ answer.train \cap answer.valid = {}
        /\ (answer.train \cup answer.valid) \cap (HoldoutIds \cup answer.excluded) = {}
=============================================================================
