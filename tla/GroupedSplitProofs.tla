------------------------- MODULE GroupedSplitProofs -------------------------
(***************************************************************************)
(* The grouped split for any finite set of records, any labels, any number *)
(* of folds and any holdout fraction: groups are the classes of the        *)
(* asserted equivalences, accepted parameters succeed, the holdout is      *)
(* close to its target, folds are balanced, and nothing leaks.             *)
(*                                                                         *)
(* The union-find forest is treated first, as a function p on records with *)
(* a rank k that grows towards the roots; the scan, the trim and the deal  *)
(* only know the groups that result from it.                               *)
(***************************************************************************)
EXTENDS GroupedSplit, FiniteSetTheorems, WellFoundedInduction, TLAPS

(***************************************************************************)
(* Forests                                                                 *)
(***************************************************************************)
UpwardIn(p) == {S \in SUBSET Id : \A z \in S : p[z] \in S}
Path(p, x) == {y \in Id : \A S \in UpwardIn(p) : x \in S => y \in S}
Root(p, x) == CHOOSE r \in Path(p, x) : p[r] = r
Forest(p, k) ==
    /\ p \in [Id -> Id]
    /\ k \in [Id -> Nat]
    /\ \A x \in Id : p[x] # x => k[x] < k[p[x]]

\* A path is the least set with its record that contains, with every node, the
\* parent.
LEMMA PathLeast ==
  ASSUME NEW p \in [Id -> Id], NEW x \in Id
  PROVE  /\ x \in Path(p, x)
         /\ Path(p, x) \in UpwardIn(p)
         /\ \A S \in UpwardIn(p) : x \in S => Path(p, x) \subseteq S
BY DEF Path, UpwardIn

\* The path of a node of a path is a part of it.
LEMMA PathWithin ==
  ASSUME NEW p \in [Id -> Id], NEW x \in Id, NEW y \in Path(p, x)
  PROVE  Path(p, y) \subseteq Path(p, x)
<1>1. y \in Id
  BY DEF Path
<1> QED
  BY <1>1, PathLeast

\* Ranks grow along a path.
LEMMA PathClimbs ==
  ASSUME NEW p, NEW k, Forest(p, k), NEW x \in Id, NEW y \in Path(p, x)
  PROVE  y = x \/ k[x] < k[y]
<1> DEFINE S == {y1 \in Id : y1 = x \/ k[x] < k[y1]}
<1>1. ASSUME NEW z \in S PROVE p[z] \in S
  <2>1. p[z] \in Id /\ k[x] \in Nat /\ k[z] \in Nat /\ k[p[z]] \in Nat
    BY DEF Forest
  <2>2. CASE p[z] = z
    BY <2>2
  <2>3. CASE p[z] # z
    <3>1. k[z] < k[p[z]]
      BY <2>3 DEF Forest
    <3> QED
      BY <2>1, <3>1
  <2> QED
    BY <2>2, <2>3
<1>2. S \in UpwardIn(p)
  BY <1>1 DEF UpwardIn
<1>3. Path(p, x) \subseteq S
  BY <1>2, PathLeast DEF Forest
<1> QED
  BY <1>3

\* The walk of find() ends: a least part of a path is a single root.
LEMMA RootExists ==
  ASSUME NEW p, NEW k, Forest(p, k), NEW x \in Id
  PROVE  \E r \in Path(p, x) : p[r] = r
<1> p \in [Id -> Id]
  BY DEF Forest
<1> DEFINE Part == {S \in UpwardIn(p) : S # {} /\ S \subseteq Path(p, x)}
<1>1. IsWellFoundedOn(StrictSubsetOrdering(Id), SUBSET Id)
  BY FS_StrictSubsetOrderingWellFounded, FS_FiniteSubsetsOfFinite, IdAssumption
<1>2. Path(p, x) \in Part
  BY PathLeast
<1>3. Part \subseteq SUBSET Id
  BY DEF UpwardIn
<1> HIDE DEF Part
<1>4. PICK M \in Part : \A S \in Part : <<S, M>> \notin StrictSubsetOrdering(Id)
  BY <1>1, <1>2, <1>3, WFMin
<1>5. M \in UpwardIn(p) /\ M # {} /\ M \subseteq Path(p, x) /\ M \subseteq Id
  BY <1>3, <1>4 DEF Part
<1>6. PICK y \in M : TRUE
  BY <1>5
<1>7. y \in Id /\ p[y] \in Id /\ p[y] \in M
  BY <1>5, <1>6 DEF UpwardIn
<1>8. Path(p, p[y]) \in Part
  <2>1. Path(p, p[y]) \subseteq M
    BY <1>5, <1>7, PathLeast
  <2>2. p[y] \in Path(p, p[y]) /\ Path(p, p[y]) \in UpwardIn(p)
    BY <1>7, PathLeast
  <2> QED
    BY <1>5, <2>1, <2>2 DEF Part
<1>9. Path(p, p[y]) = M
  <2>1. Path(p, p[y]) \subseteq M
    BY <1>5, <1>7, PathLeast
  <2>2. <<Path(p, p[y]), M>> \notin StrictSubsetOrdering(Id)
    BY <1>4, <1>8
  <2>3. Path(p, p[y]) \in SUBSET Id /\ M \in SUBSET Id
    BY <1>5 DEF Path
  <2> QED
    BY <2>1, <2>2, <2>3 DEF StrictSubsetOrdering
<1>10. y = p[y] \/ k[p[y]] < k[y]
  BY <1>6, <1>7, <1>9, PathClimbs
<1>11. p[y] = y \/ k[y] < k[p[y]]
  BY <1>7 DEF Forest
<1>12. k[y] \in Nat /\ k[p[y]] \in Nat
  BY <1>7 DEF Forest
<1> QED
  BY <1>5, <1>6, <1>10, <1>11, <1>12

\* A path has one root only.
LEMMA RootUnique ==
  ASSUME NEW p \in [Id -> Id], NEW x \in Id,
         NEW r \in Path(p, x), NEW s \in Path(p, x), p[r] = r, p[s] = s
  PROVE  r = s
<1>0. r \in Id /\ s \in Id
  BY DEF Path
<1> DEFINE Above == {z \in Id : r \in Path(p, z)}
<1>1. ASSUME NEW z \in Above PROVE p[z] \in Above
  <2>1. CASE z = r
    BY <2>1
  <2>2. CASE z # r
    <3> DEFINE Rest == Path(p, p[z]) \cup {z}
    <3>1. p[z] \in Path(p, p[z]) /\ Path(p, p[z]) \in UpwardIn(p)
      BY PathLeast
    <3>2. Rest \in UpwardIn(p)
      BY <3>1 DEF UpwardIn
    <3>3. Path(p, z) \subseteq Rest
      BY <3>2, PathLeast
    <3>4. r \in Path(p, p[z])
      BY <2>2, <3>3
    <3> QED
      BY <3>4
  <2> QED
    BY <2>1, <2>2
<1>2. Above \in UpwardIn(p)
  BY <1>1 DEF UpwardIn
<1>3. s \in Above
  BY <1>2, PathLeast
<1>4. {s} \in UpwardIn(p)
  BY <1>0 DEF UpwardIn
<1>5. Path(p, s) \subseteq {s}
  BY <1>0, <1>4, PathLeast
<1> QED
  BY <1>3, <1>5

\* What find() returns: the one root of the path.
LEMMA RootFound ==
  ASSUME NEW p, NEW k, Forest(p, k), NEW x \in Id
  PROVE  /\ Root(p, x) \in Path(p, x)
         /\ Root(p, x) \in Id
         /\ p[Root(p, x)] = Root(p, x)
         /\ \A r \in Path(p, x) : p[r] = r => r = Root(p, x)
<1>1. Root(p, x) \in Path(p, x) /\ p[Root(p, x)] = Root(p, x)
  BY RootExists DEF Root
<1>2. Root(p, x) \in Id
  BY <1>1 DEF Path
<1>3. p \in [Id -> Id]
  BY DEF Forest
<1>4. \A r \in Path(p, x) : p[r] = r => r = Root(p, x)
  BY <1>1, <1>3, RootUnique
<1> QED
  BY <1>1, <1>2, <1>4

\* A record and those on its path have the same root.
LEMMA RootOfPath ==
  ASSUME NEW p, NEW k, Forest(p, k), NEW x \in Id, NEW y \in Path(p, x)
  PROVE  Root(p, y) = Root(p, x)
<1>1. y \in Id
  BY DEF Path
<1>2. Root(p, y) \in Path(p, x)
  BY <1>1, RootFound, PathWithin DEF Forest
<1> QED
  BY <1>1, <1>2, RootFound

\* Hanging any nodes directly below their root changes no root.
LEMMA Compressed ==
  ASSUME NEW p, NEW k, Forest(p, k), NEW q,
         q \in [Id -> Id], \A z \in Id : q[z] \in {p[z], Root(p, z)}
  PROVE  Forest(q, k) /\ \A x \in Id : Root(q, x) = Root(p, x)
<1>1. \A z \in Id : Root(p, z) \in Id /\ Root(p, z) \in Path(p, z) /\ p[Root(p, z)] = Root(p, z)
  BY RootFound
<1>2. ASSUME NEW z \in Id, q[z] # z PROVE k[z] < k[q[z]]
  <2>1. CASE q[z] = p[z]
    BY <1>2, <2>1 DEF Forest
  <2>2. CASE q[z] = Root(p, z)
    BY <1>1, <1>2, <2>2, PathClimbs
  <2> QED
    BY <2>1, <2>2
<1>3. Forest(q, k)
  BY <1>2 DEF Forest
<1>4. ASSUME NEW x \in Id PROVE Root(q, x) = Root(p, x)
  <2> DEFINE R == Root(p, x)
  <2>1. q[R] = R
    <3>1. R \in Path(p, R)
      BY <1>1, PathLeast DEF Forest
    <3>2. Root(p, R) = R
      BY <1>1, <3>1, RootFound
    <3> QED
      BY <1>1, <3>2
  <2>2. ASSUME NEW S \in UpwardIn(q), x \in S PROVE R \in S
    <3> DEFINE T == {z \in Id : Root(p, z) = R /\ (z \in S \/ R \in S)}
    <3>1. ASSUME NEW z \in T PROVE p[z] \in T
      <4>1. p[z] \in Id
        BY DEF Forest
      <4>2. p[z] \in Path(p, z)
        <5>1. z \in Path(p, z) /\ Path(p, z) \in UpwardIn(p)
          BY PathLeast DEF Forest
        <5> QED
          BY <5>1 DEF UpwardIn
      <4>3. Root(p, p[z]) = R
        BY <4>2, RootOfPath
      <4>4. p[z] \in S \/ R \in S
        <5>1. CASE R \in S
          BY <5>1
        <5>2. CASE R \notin S
          <6>1. z \in S /\ q[z] \in S
            BY <5>2 DEF UpwardIn
          <6> QED
            BY <6>1
        <5> QED
          BY <5>1, <5>2
      <4> QED
        BY <4>1, <4>3, <4>4
    <3>2. T \in UpwardIn(p)
      BY <3>1 DEF UpwardIn
    <3>3. x \in T
      BY <2>2
    <3>4. R \in T
      BY <1>1, <3>2, <3>3, PathLeast DEF Forest
    <3> QED
      BY <3>4
  <2>3. R \in Path(q, x)
    BY <1>1, <2>2 DEF Path
  <2> QED
    BY <1>3, <2>1, <2>3, RootFound
<1> QED
  BY <1>3, <1>4

\* What a union does to a forest q with ranks k once both paths are compressed:
\* the root a goes below the root b, which results in j with ranks m.
Link(q, k, a, b, j, m) ==
    /\ Forest(q, k)
    /\ a \in Id /\ b \in Id /\ a # b
    /\ q[a] = a /\ q[b] = b
    /\ j = [q EXCEPT ![a] = b]
    /\ m \in [Id -> Nat]
    /\ \A z \in Id \ {b} : m[z] = k[z]
    /\ m[b] >= k[b] /\ m[b] > k[a]

\* Hanging one root below another of higher rank moves its records, and no
\* others, to the other.
LEMMA Linked ==
  ASSUME NEW q, NEW k, NEW a, NEW b, NEW j, NEW m, Link(q, k, a, b, j, m)
  PROVE  Forest(j, m) /\ \A x \in Id : Root(j, x) = IF Root(q, x) = a THEN b ELSE Root(q, x)
<1> USE DEF Link
<1>0. j \in [Id -> Id] /\ j[a] = b /\ \A z \in Id \ {a} : j[z] = q[z]
  BY DEF Forest
<1>1. ASSUME NEW z \in Id, j[z] # z PROVE m[z] < m[j[z]]
  <2>1. CASE z = a
    BY <1>0, <2>1
  <2>2. CASE z # a
    <3>1. j[z] = q[z] /\ q[z] \in Id /\ z # b
      BY <1>0, <1>1, <2>2 DEF Forest
    <3>2. k[z] < k[q[z]] /\ k[z] = m[z]
      BY <1>1, <3>1 DEF Forest
    <3>3. k[q[z]] <= m[q[z]]
      BY <3>1 DEF Forest
    <3>4. k[z] \in Nat /\ k[q[z]] \in Nat /\ m[q[z]] \in Nat
      BY <3>1 DEF Forest
    <3> QED
      BY <3>1, <3>2, <3>3, <3>4
  <2> QED
    BY <2>1, <2>2
<1>2. Forest(j, m)
  BY <1>0, <1>1 DEF Forest
<1>3. ASSUME NEW x \in Id PROVE Root(j, x) = IF Root(q, x) = a THEN b ELSE Root(q, x)
  <2> DEFINE R == Root(q, x)
  <2> DEFINE H == IF R = a THEN b ELSE R
  <2>1. R \in Id /\ R \in Path(q, x) /\ q[R] = R
    BY RootFound
  <2>2. H \in Id /\ j[H] = H
    BY <1>0, <2>1
  <2>3. ASSUME NEW S \in UpwardIn(j), x \in S PROVE H \in S
    <3> DEFINE T == {z \in Id : z \in S}
    <3>1. ASSUME NEW z \in T PROVE q[z] \in T
      <4>1. CASE z = a
        BY <4>1
      <4>2. CASE z # a
        <5>1. j[z] = q[z] /\ j[z] \in S
          BY <1>0, <4>2 DEF UpwardIn
        <5>2. q[z] \in Id
          BY DEF Forest
        <5> QED
          BY <5>1, <5>2
      <4> QED
        BY <4>1, <4>2
    <3>2. T \in UpwardIn(q)
      BY <3>1 DEF UpwardIn
    <3>3. R \in S
      BY <2>1, <2>3, <3>2, PathLeast DEF Forest
    <3>4. R = a => b \in S
      BY <1>0, <3>3 DEF UpwardIn
    <3> QED
      BY <3>3, <3>4
  <2>4. H \in Path(j, x)
    BY <2>2, <2>3 DEF Path
  <2> QED
    BY <1>2, <2>2, <2>4, RootFound
<1> QED
  BY <1>2, <1>3

\* A union makes one class of two and leaves the others alone.
LEMMA Unified ==
  ASSUME Forest(parent, rank), NEW l \in Id, NEW r \in Id, Union(l, r)
  PROVE  /\ Forest(parent', rank')
         /\ \E child \in Id, root \in Id :
               /\ {child, root} = {Root(parent, l), Root(parent, r)}
               /\ \A x \in Id : Root(parent', x) =
                     IF Root(parent, x) = child THEN root ELSE Root(parent, x)
<1>1. \A x : Find(x) = Root(parent, x) /\ Walked(x) = Path(parent, x)
  BY DEF Find, Walked, Upward, Root, Path, UpwardIn
<1> DEFINE a == Root(parent, l)
           b == Root(parent, r)
           child == IF rank[a] < rank[b] THEN a ELSE b
           root == IF rank[a] < rank[b] THEN b ELSE a
           short == [x \in Id |-> IF x \in Path(parent, l) \cup Path(parent, r)
                                    THEN Root(parent, x) ELSE parent[x]]
<1>2. IF a = b
        THEN parent' = short /\ rank' = rank
        ELSE /\ parent' = [short EXCEPT ![child] = root]
             /\ rank' = IF rank[a] = rank[b] THEN [rank EXCEPT ![root] = @ + 1] ELSE rank
  BY <1>1 DEF Union
<1>3. \A x \in Id : Root(parent, x) \in Id /\ parent[Root(parent, x)] = Root(parent, x)
  BY RootFound
<1>4. Forest(short, rank) /\ \A x \in Id : Root(short, x) = Root(parent, x)
  <2>1. short \in [Id -> Id] /\ \A z \in Id : short[z] \in {parent[z], Root(parent, z)}
    BY <1>3 DEF Forest
  <2> HIDE DEF short
  <2> QED
    BY <2>1, Compressed
<1>5. child \in Id /\ root \in Id /\ {child, root} = {a, b}
  BY <1>3
<1>6. CASE a = b
  <2>1. parent' = short /\ rank' = rank
    BY <1>2, <1>6
  <2> HIDE DEF short
  <2>2. \A x \in Id : Root(parent', x) = IF Root(parent, x) = a THEN a ELSE Root(parent, x)
    BY <1>4, <2>1
  <2>3. a \in Id /\ {a, a} = {a, b}
    BY <1>3, <1>6
  <2>4. Forest(parent', rank')
    BY <1>4, <2>1
  <2>5. \E c \in Id, s \in Id :
           /\ {c, s} = {a, b}
           /\ \A x \in Id : Root(parent', x) = IF Root(parent, x) = c THEN s ELSE Root(parent, x)
    <3> HIDE DEF a, b
    <3> QED
      BY <2>2, <2>3
  <2> QED
    BY <2>4, <2>5
<1>7. CASE a # b
  <2>1. parent' = [short EXCEPT ![child] = root]
    BY <1>2, <1>7
  <2>2. child # root /\ short[child] = child /\ short[root] = root
    <3>1. Root(parent, a) = a /\ Root(parent, b) = b
      BY <1>3, PathLeast, RootFound DEF Forest
    <3>2. parent[a] = a /\ parent[b] = b
      BY <1>3
    <3> QED
      BY <1>3, <1>7, <3>1, <3>2
  <2>3. /\ rank' \in [Id -> Nat]
        /\ \A z \in Id \ {root} : rank'[z] = rank[z]
        /\ rank'[root] >= rank[root] /\ rank'[root] > rank[child]
    <3>1. rank \in [Id -> Nat] /\ a \in Id /\ b \in Id
      BY <1>3 DEF Forest
    <3>2. rank' = IF rank[a] = rank[b] THEN [rank EXCEPT ![root] = @ + 1] ELSE rank
      BY <1>2, <1>7
    <3> HIDE DEF a, b
    <3> QED
      BY <3>1, <3>2
  <2> HIDE DEF short, child, root
  <2>4. Forest(parent', rank') /\ \A x \in Id : Root(parent', x) =
            IF Root(short, x) = child THEN root ELSE Root(short, x)
    <3>1. Link(short, rank, child, root, parent', rank')
      BY <1>4, <1>5, <2>1, <2>2, <2>3 DEF Link
    <3> QED
      BY <3>1, Linked
  <2>5. \A x \in Id : Root(parent', x) = IF Root(parent, x) = child THEN root ELSE Root(parent, x)
    BY <1>4, <2>4
  <2> HIDE DEF a, b
  <2> QED
    BY <1>5, <2>4, <2>5 DEF a, b
<1> QED
  BY <1>6, <1>7

(***************************************************************************)
(* Clusters                                                                *)
(***************************************************************************)
Same(x, y) == Root(parent, x) = Root(parent, y)

\* What has been joined so far has one root, and no root lies outside a closed
\* set that has a record below it.
Clustering ==
    /\ input \in Input
    /\ pairs \subseteq input.pairs
    /\ labels \in [Id -> SUBSET Label]
    /\ \A x \in Id : labels[x] \subseteq input.labels[x]
    /\ first \in [Label -> Id \cup {None}]
    /\ Forest(parent, rank)
    /\ \A p \in input.pairs \ pairs : Same(p[1], p[2])
    /\ \A x \in Id : \A l \in input.labels[x] \ labels[x] : first[l] \in Id /\ Same(first[l], x)
    /\ \A l \in Label : first[l] \in Id => l \in input.labels[first[l]]
    /\ \A S \in SUBSET Id : Closed(S) => \A x \in S : Root(parent, x) \in S

\* The input holds pairs of records and labels of records.
LEMMA InputTyped ==
  ASSUME input \in Input
  PROVE  /\ input.pairs \subseteq Id \X Id
         /\ input.labels \in [Id -> SUBSET Label]
         /\ input.num \in Nat /\ input.den \in Nat /\ 0 < input.num /\ input.num < input.den
BY InputAssumption

\* The complement of a closed set is closed.
LEMMA ClosedComplement ==
  ASSUME NEW S \in SUBSET Id, Closed(S)
  PROVE  Closed(Id \ S)
BY DEF Closed, Joined

\* Before any union every record is the root of its own class.
LEMMA InitClustering == Init => Clustering
<1> SUFFICES ASSUME Init PROVE Clustering
  OBVIOUS
<1>1. input \in Input /\ pairs = input.pairs /\ labels = input.labels
  BY DEF Init
<1>2. parent = [x \in Id |-> x] /\ rank = [x \in Id |-> 0] /\ first = [l \in Label |-> None]
  BY DEF Init
<1>3. Forest(parent, rank)
  BY <1>2 DEF Forest
<1>4. \A x \in Id : Root(parent, x) = x
  <2>1. \A x \in Id : x \in Path(parent, x) /\ parent[x] = x
    BY <1>2, <1>3, PathLeast DEF Forest
  <2> QED
    BY <1>3, <2>1, RootFound
<1>5. first \in [Label -> Id \cup {None}] /\ \A l \in Label : first[l] \notin Id
  BY <1>2, IdAssumption
<1>6. input.labels \in [Id -> SUBSET Label]
  BY <1>1, InputTyped
<1> QED
  BY <1>1, <1>3, <1>4, <1>5, <1>6 DEF Clustering

\* A union of two joined records keeps classes together and closed sets closed.
LEMMA UnionKeeps ==
  ASSUME Clustering, NEW l \in Id, NEW r \in Id, Joined(l, r) \/ l = r, Union(l, r)
  PROVE  /\ Forest(parent', rank')
         /\ \A x, y \in Id : Root(parent, x) = Root(parent, y) => Root(parent', x) = Root(parent', y)
         /\ Root(parent', l) = Root(parent', r)
         /\ \A S \in SUBSET Id : Closed(S) => \A x \in S : Root(parent', x) \in S
<1>0. Forest(parent, rank)
  BY DEF Clustering
<1>1. Forest(parent', rank')
  BY <1>0, Unified
<1>2. PICK child \in Id, root \in Id :
         /\ {child, root} = {Root(parent, l), Root(parent, r)}
         /\ \A x \in Id : Root(parent', x) = IF Root(parent, x) = child THEN root ELSE Root(parent, x)
  BY <1>0, Unified
<1>3. \A S \in SUBSET Id : Closed(S) => \A x \in S : Root(parent, x) \in S
  BY DEF Clustering
<1>4. ASSUME NEW S \in SUBSET Id, Closed(S), NEW x \in S PROVE Root(parent', x) \in S
  <2>1. Root(parent, x) \in S
    BY <1>3, <1>4
  <2>2. CASE Root(parent, x) # child
    BY <1>2, <2>1, <2>2
  <2>3. CASE Root(parent, x) = child
    <3>1. Closed(Id \ S)
      BY <1>4, ClosedComplement
    <3>2. l \in S <=> r \in S
      BY <1>4 DEF Closed, Joined
    <3>3. l \in S <=> Root(parent, l) \in S
      BY <1>3, <1>4, <3>1
    <3>4. r \in S <=> Root(parent, r) \in S
      BY <1>3, <1>4, <3>1
    <3>5. root \in S
      BY <1>2, <2>1, <2>3, <3>2, <3>3, <3>4
    <3> QED
      BY <1>2, <2>3, <3>5
  <2> QED
    BY <2>2, <2>3
<1>5. \A x, y \in Id : Root(parent, x) = Root(parent, y) => Root(parent', x) = Root(parent', y)
  BY <1>2
<1>6. Root(parent', l) = Root(parent', r)
  BY <1>2
<1> QED
  BY <1>1, <1>4, <1>5, <1>6

\* A union asked for by name merges two classes of asserted equivalences.
LEMMA PairStep == Clustering /\ UnionPair => Clustering'
<1> SUFFICES ASSUME Clustering, UnionPair PROVE Clustering'
  OBVIOUS
<1>1. PICK p \in pairs : Union(p[1], p[2]) /\ pairs' = pairs \ {p}
  BY DEF UnionPair
<1>2. UNCHANGED <<input, labels, first>>
  BY DEF UnionPair
<1>3. p \in input.pairs /\ p[1] \in Id /\ p[2] \in Id /\ Joined(p[1], p[2])
  BY <1>1, InputTyped DEF Clustering, Joined
<1>4. /\ Forest(parent', rank')
      /\ \A x, y \in Id : Root(parent, x) = Root(parent, y) => Root(parent', x) = Root(parent', y)
      /\ Root(parent', p[1]) = Root(parent', p[2])
      /\ \A S \in SUBSET Id : Closed(S) => \A x \in S : Root(parent', x) \in S
  BY <1>1, <1>3, UnionKeeps
<1>5. \A q \in input.pairs \ pairs' : Root(parent', q[1]) = Root(parent', q[2])
  <2> TAKE q \in input.pairs \ pairs'
  <2>1. q[1] \in Id /\ q[2] \in Id
    BY InputTyped DEF Clustering
  <2>2. CASE q = p
    BY <1>4, <2>2
  <2>3. CASE q # p
    BY <1>1, <1>4, <2>1, <2>3 DEF Clustering, Same
  <2> QED
    BY <2>2, <2>3
<1>6. \A x \in Id : \A l \in input.labels[x] \ labels[x] :
          first[l] \in Id /\ Root(parent', first[l]) = Root(parent', x)
  BY <1>4 DEF Clustering, Same
<1>7. \A S \in SUBSET Id : Closed(S)' <=> Closed(S)
  BY <1>2 DEF Closed, Joined
<1>8. pairs' \subseteq input.pairs
  BY <1>1 DEF Clustering
<1> QED
  BY <1>2, <1>4, <1>5, <1>6, <1>7, <1>8 DEF Clustering, Same

\* A union of two records that share a label merges two such classes.
LEMMA LabelStep == Clustering /\ UnionLabel => Clustering'
<1> SUFFICES ASSUME Clustering, UnionLabel PROVE Clustering'
  OBVIOUS
<1>0. PICK x \in Id : \E l \in labels[x] :
         /\ first' = [first EXCEPT ![l] = IF @ = None THEN x ELSE @]
         /\ Union(first'[l], x)
         /\ labels' = [labels EXCEPT ![x] = @ \ {l}]
  BY DEF UnionLabel
<1>1. PICK l \in labels[x] :
         /\ first' = [first EXCEPT ![l] = IF @ = None THEN x ELSE @]
         /\ Union(first'[l], x)
         /\ labels' = [labels EXCEPT ![x] = @ \ {l}]
  BY <1>0
<1>2. UNCHANGED <<input, pairs>>
  BY DEF UnionLabel
<1>3. /\ labels \in [Id -> SUBSET Label] /\ first \in [Label -> Id \cup {None}] /\ None \notin Id
      /\ l \in Label /\ l \in input.labels[x]
  BY IdAssumption DEF Clustering
<1>4. /\ first' \in [Label -> Id \cup {None}] /\ first'[l] \in Id
      /\ \A m \in Label : first[m] \in Id => first'[m] = first[m]
      /\ \A m \in Label : first'[m] # first[m] => m = l /\ first'[m] = x
  BY <1>1, <1>3
<1>5. \A m \in Label : first'[m] \in Id => m \in input.labels[first'[m]]
  BY <1>3, <1>4 DEF Clustering
<1>6. Joined(first'[l], x)
  BY <1>3, <1>4, <1>5 DEF Joined
<1>7. /\ Forest(parent', rank')
      /\ \A y, z \in Id : Root(parent, y) = Root(parent, z) => Root(parent', y) = Root(parent', z)
      /\ Root(parent', first'[l]) = Root(parent', x)
      /\ \A S \in SUBSET Id : Closed(S) => \A y \in S : Root(parent', y) \in S
  BY <1>1, <1>4, <1>6, UnionKeeps
<1>8. labels' \in [Id -> SUBSET Label] /\ \A y \in Id : labels'[y] \subseteq labels[y]
  BY <1>1, <1>3
<1>9. \A y \in Id : \A m \in input.labels[y] \ labels'[y] :
          first'[m] \in Id /\ Root(parent', first'[m]) = Root(parent', y)
  <2> TAKE y \in Id
  <2> TAKE m \in input.labels[y] \ labels'[y]
  <2>0. m \in Label
    BY InputTyped DEF Clustering
  <2>1. CASE m = l /\ y = x
    BY <1>4, <1>7, <2>1
  <2>2. CASE ~(m = l /\ y = x)
    <3>1. m \notin labels[y]
      BY <1>1, <1>3, <2>2
    <3>2. first[m] \in Id /\ Root(parent, first[m]) = Root(parent, y)
      BY <3>1 DEF Clustering, Same
    <3> QED
      BY <1>4, <1>7, <2>0, <3>2
  <2> QED
    BY <2>1, <2>2
<1>10. \A p \in input.pairs \ pairs : Root(parent', p[1]) = Root(parent', p[2])
  <2> TAKE p \in input.pairs \ pairs
  <2>1. p[1] \in Id /\ p[2] \in Id /\ Root(parent, p[1]) = Root(parent, p[2])
    BY InputTyped DEF Clustering, Same
  <2> QED
    BY <1>7, <2>1
<1>11. \A S \in SUBSET Id : Closed(S)' <=> Closed(S)
  BY <1>2 DEF Closed, Joined
<1>12. \A y \in Id : labels'[y] \subseteq input.labels[y]
  BY <1>8 DEF Clustering
<1>13. input \in Input /\ pairs \subseteq input.pairs
  BY DEF Clustering
<1> QED
  BY <1>2, <1>4, <1>5, <1>7, <1>8, <1>9, <1>10, <1>11, <1>12, <1>13 DEF Clustering, Same

\* Every step keeps the forest and what it stands for.
LEMMA ClusteringStep == Clustering /\ [Next]_vars => Clustering'
<1> SUFFICES ASSUME Clustering, [Next]_vars PROVE Clustering'
  OBVIOUS
<1>1. CASE UnionPair
  BY <1>1, PairStep
<1>2. CASE UnionLabel
  BY <1>2, LabelStep
<1>3. CASE UNCHANGED <<input, forest>>
  <2>1. UNCHANGED <<input, pairs, labels, first, parent, rank>>
    BY <1>3 DEF forest
  <2>2. \A S \in SUBSET Id : Closed(S)' <=> Closed(S)
    BY <2>1 DEF Closed, Joined
  <2> QED
    BY <2>1, <2>2 DEF Clustering, Same
<1>4. CASE Resolve \/ Scan \/ EndScan \/ Trim \/ EndTrim \/ Deal \/ Validate \/ Ask \/ UNCHANGED vars
  BY <1>3, <1>4 DEF Resolve, Scan, EndScan, Trim, EndTrim, Deal, Validate, Ask, vars
<1> QED
  BY <1>1, <1>2, <1>4 DEF Next

(***************************************************************************)
(* Groups                                                                  *)
(***************************************************************************)
\* Numbers that are records have a least one among them: the one with the
\* smallest set of records before it.
LEMMA LeastIs ==
  ASSUME NEW S \in SUBSET Id, S # {}
  PROVE  Least(S) \in S /\ \A y \in S : Least(S) <= y
<1> DEFINE Before(x) == {y \in Id : y < x}
           All == {Before(x) : x \in S}
<1>1. IsWellFoundedOn(StrictSubsetOrdering(Id), SUBSET Id)
  BY FS_StrictSubsetOrderingWellFounded, FS_FiniteSubsetsOfFinite, IdAssumption
<1>2. All \subseteq SUBSET Id /\ All # {}
  OBVIOUS
<1>3. PICK M \in All : \A T \in All : <<T, M>> \notin StrictSubsetOrdering(Id)
  <2> HIDE DEF All
  <2> QED
    BY <1>1, <1>2, WFMin
<1>4. PICK x \in S : M = Before(x)
  OBVIOUS
<1>5. ASSUME NEW y \in S PROVE x <= y
  <2>1. x \in Nat /\ y \in Nat
    BY IdAssumption
  <2>2. SUFFICES ASSUME y < x PROVE FALSE
    BY <2>1
  <2>3. Before(y) \subseteq Before(x) /\ y \in Before(x) /\ y \notin Before(y)
    <3>1. \A z \in Id : z \in Nat /\ (z < y => z < x)
      BY <2>1, <2>2, IdAssumption
    <3>2. ~(y < y)
      BY <2>1
    <3> QED
      BY <2>2, <3>1, <3>2
  <2>4. <<Before(y), M>> \notin StrictSubsetOrdering(Id)
    BY <1>3
  <2> QED
    BY <1>4, <2>3, <2>4 DEF StrictSubsetOrdering
<1> QED
  BY <1>5 DEF Least

\* The groups are the classes of the asserted equivalences, named after their
\* least member.
Grouping ==
    /\ \A x, y \in Id : Joined(x, y) => group[x] = group[y]
    /\ \A S \in SUBSET Id : Closed(S) => \A x \in S, y \in Id : group[y] = group[x] => y \in S
    /\ \A x \in Id : group[group[x]] = group[x]
    /\ \A x, y \in Id : group[y] = group[x] => group[x] <= y

\* A part of the manifest is made of whole groups from the moment they have names.
Grouped == group \in [Id -> Id] /\ (phase # "cluster" => Grouping)

\* Once the unions are over, the resolution names every class after its least
\* member.
LEMMA ResolveGroups ==
  ASSUME Clustering, Resolve
  PROVE  Grouping' /\ group' \in [Id -> Id]
<1> DEFINE C(x) == {y \in Id : Root(parent, y) = Root(parent, x)}
<1>1. group' = [x \in Id |-> Least(C(x))]
  <2>1. \A x : Find(x) = Root(parent, x)
    BY DEF Find, Walked, Upward, Root, Path, UpwardIn
  <2> QED
    BY <2>1 DEF Resolve
<1>2. pairs = {} /\ (\A x \in Id : labels[x] = {}) /\ UNCHANGED input
  BY DEF Resolve
<1>3. ASSUME NEW x \in Id
      PROVE  Least(C(x)) \in C(x) /\ \A y \in C(x) : Least(C(x)) <= y
  <2>1. C(x) \in SUBSET Id /\ C(x) # {}
    OBVIOUS
  <2> QED
    BY <2>1, LeastIs
<1>4. \A x \in Id : group'[x] \in Id /\ Root(parent, group'[x]) = Root(parent, x)
  BY <1>1, <1>3
<1>5. \A x, y \in Id : Root(parent, x) = Root(parent, y) => C(x) = C(y)
  OBVIOUS
<1>6. \A x, y \in Id : group'[x] = group'[y] <=> Root(parent, x) = Root(parent, y)
  BY <1>1, <1>4, <1>5
<1>7. ASSUME NEW x \in Id, NEW y \in Id, Joined(x, y) PROVE Root(parent, x) = Root(parent, y)
  <2>1. CASE <<x, y>> \in input.pairs
    BY <1>2, <2>1 DEF Clustering, Same
  <2>2. CASE <<y, x>> \in input.pairs
    BY <1>2, <2>2 DEF Clustering, Same
  <2>3. CASE input.labels[x] \cap input.labels[y] # {}
    <3>1. PICK l : l \in input.labels[x] /\ l \in input.labels[y]
      BY <2>3
    <3>2. Root(parent, first[l]) = Root(parent, x) /\ Root(parent, first[l]) = Root(parent, y)
      BY <1>2, <3>1 DEF Clustering, Same
    <3> QED
      BY <3>2
  <2> QED
    BY <1>7, <2>1, <2>2, <2>3 DEF Joined
<1>8. ASSUME NEW S \in SUBSET Id, Closed(S), NEW x \in S, NEW y \in Id, group'[y] = group'[x]
      PROVE  y \in S
  <2>1. Root(parent, x) \in S
    BY <1>8 DEF Clustering
  <2>2. Root(parent, y) = Root(parent, x)
    BY <1>6, <1>8
  <2>3. SUFFICES ASSUME y \notin S PROVE FALSE
    OBVIOUS
  <2>4. Closed(Id \ S)
    BY <1>8, ClosedComplement
  <2>5. Root(parent, y) \in Id \ S
    BY <2>3, <2>4 DEF Clustering
  <2> QED
    BY <2>1, <2>2, <2>5
<1>9. \A x \in Id : group'[group'[x]] = group'[x]
  BY <1>4, <1>6
<1>10. \A x, y \in Id : group'[y] = group'[x] => group'[x] <= y
  BY <1>1, <1>3, <1>6
<1>11. (\A x, y \in Id : Joined(x, y)' <=> Joined(x, y)) /\ \A S \in SUBSET Id : Closed(S)' <=> Closed(S)
  BY <1>2 DEF Closed, Joined
<1>12. group' \in [Id -> Id]
  BY <1>1, <1>3
<1> QED
  BY <1>6, <1>7, <1>8, <1>9, <1>10, <1>11, <1>12 DEF Grouping

\* The groups never change after they were resolved.
LEMMA GroupedStep == Clustering /\ Grouped /\ [Next]_vars => Grouped'
<1> SUFFICES ASSUME Clustering, Grouped, [Next]_vars PROVE Grouped'
  OBVIOUS
<1>1. CASE Resolve
  BY <1>1, ResolveGroups DEF Grouped
<1>2. CASE UNCHANGED <<input, group>> /\ (phase' = "cluster" \/ phase # "cluster")
  <2>1. (\A x, y \in Id : Joined(x, y)' <=> Joined(x, y)) /\ \A S \in SUBSET Id : Closed(S)' <=> Closed(S)
    BY <1>2 DEF Closed, Joined
  <2>2. Grouping => Grouping'
    BY <1>2, <2>1 DEF Grouping
  <2> QED
    BY <1>2, <2>2 DEF Grouped
<1>3. CASE UnionPair \/ UnionLabel \/ Scan \/ EndScan \/ Trim \/ EndTrim \/ Deal \/ Validate \/ Ask \/ UNCHANGED vars
  <2>1. UNCHANGED <<input, group>>
    BY <1>3 DEF UnionPair, UnionLabel, Scan, EndScan, Trim, EndTrim, Deal, Validate, Ask, vars
  <2>2. phase' = phase \/ phase # "cluster"
    BY <1>3 DEF UnionPair, UnionLabel, Scan, EndScan, Trim, EndTrim, Deal, Validate, Ask, vars
  <2> QED
    BY <1>2, <2>1, <2>2
<1> QED
  BY <1>1, <1>3 DEF Next

(***************************************************************************)
(* Sizes                                                                   *)
(***************************************************************************)
\* The records of some groups.
Of(H) == {x \in Id : group[x] \in H}

\* A group has a record, and no set of groups has more records than there are.
LEMMA SizesTyped ==
  ASSUME group \in [Id -> Id]
  PROVE  /\ IsFiniteSet(Groups) /\ Cardinality(Groups) \in Nat
         /\ Cardinality(Id) \in Nat
         /\ \A g \in Groups : Size(g) \in Nat /\ Size(g) > 0
         /\ \A H : Cardinality(Of(H)) \in 0..Cardinality(Id)
<1>1. IsFiniteSet(Id) /\ Cardinality(Id) \in Nat
  BY IdAssumption, FS_CardinalityType
<1>2. Groups \subseteq Id
  BY DEF Groups
<1>3. IsFiniteSet(Groups) /\ Cardinality(Groups) \in Nat
  BY <1>1, <1>2, FS_Subset, FS_CardinalityType
<1>4. ASSUME NEW g \in Groups PROVE Size(g) \in Nat /\ Size(g) > 0
  <2>1. Members(g) \subseteq Id /\ Members(g) # {}
    BY DEF Members, Groups
  <2>2. IsFiniteSet(Members(g)) /\ Size(g) \in Nat
    BY <1>1, <2>1, FS_Subset, FS_CardinalityType DEF Size
  <2>3. Size(g) # 0
    BY <2>1, <2>2, FS_EmptySet DEF Size
  <2> QED
    BY <2>2, <2>3
<1>5. ASSUME NEW H PROVE Cardinality(Of(H)) \in 0..Cardinality(Id)
  <2>1. Of(H) \in SUBSET Id
    BY DEF Of
  <2>2. IsFiniteSet(Of(H)) /\ Cardinality(Of(H)) <= Cardinality(Id)
    BY <1>1, <2>1, FS_Subset
  <2>3. Cardinality(Of(H)) \in Nat
    BY <2>2, FS_CardinalityType
  <2> QED
    BY <1>1, <2>2, <2>3
<1> QED
  BY <1>1, <1>3, <1>4, <1>5

\* One group more has as many records more as the group has.
LEMMA OneMore ==
  ASSUME group \in [Id -> Id], NEW H, NEW g, g \notin H
  PROVE  Cardinality(Of(H \cup {g})) = Cardinality(Of(H)) + Size(g)
<1>1. IsFiniteSet(Of(H)) /\ IsFiniteSet(Members(g))
  <2>1. Of(H) \in SUBSET Id /\ Members(g) \in SUBSET Id
    BY DEF Of, Members
  <2> QED
    BY <2>1, IdAssumption, FS_Subset
<1>2. Of(H \cup {g}) = Of(H) \cup Members(g) /\ Of(H) \cap Members(g) = {}
  BY DEF Of, Members
<1>3. Cardinality(Of(H \cup {g})) = Cardinality(Of(H)) + Cardinality(Members(g)) - Cardinality({})
  BY <1>1, <1>2, FS_Union
<1>4. Cardinality({}) = 0 /\ Cardinality(Of(H)) \in Nat /\ Cardinality(Members(g)) \in Nat
  BY <1>1, FS_EmptySet, FS_CardinalityType
<1> QED
  BY <1>3, <1>4 DEF Size

\* Cardinality of what a subset leaves.
LEMMA Remaining ==
  ASSUME NEW S, IsFiniteSet(S), NEW T \in SUBSET S
  PROVE  /\ IsFiniteSet(S \ T)
         /\ Cardinality(S \ T) = Cardinality(S) - Cardinality(T)
<1>1. IsFiniteSet(T) /\ IsFiniteSet(S \ T)
  BY FS_Subset
<1>2. T \cup (S \ T) = S /\ T \cap (S \ T) = {}
  OBVIOUS
<1>3. Cardinality(S) = Cardinality(T) + Cardinality(S \ T) - Cardinality({})
  BY <1>1, <1>2, FS_Union
<1>4. Cardinality({}) = 0 /\ Cardinality(T) \in Nat /\ Cardinality(S \ T) \in Nat /\ Cardinality(S) \in Nat
  BY <1>1, FS_EmptySet, FS_CardinalityType
<1> QED
  BY <1>1, <1>3, <1>4

\* Going up by s and coming closer to zero leaves less than half of s above it.
LEMMA Nearer ==
  ASSUME NEW a \in Int, NEW s \in Int, s > 0, Abs(a + s) < Abs(a)
  PROVE  2 * (a + s) < s
BY DEF Abs

\* A product of natural numbers is one, and positive if they are.
LEMMA Product ==
  ASSUME NEW m \in Nat, NEW d \in Nat
  PROVE  m * d \in Nat /\ (m > 0 /\ d > 0 => m * d > 0)
OBVIOUS

\* Multiplication distributes over a sum.
LEMMA Distributes ==
  ASSUME NEW m \in Nat, NEW n \in Nat, NEW d \in Nat
  PROVE  (m + n) * d = m * d + n * d
OBVIOUS

(***************************************************************************)
(* The holdout                                                             *)
(***************************************************************************)
Ungrouped == {"cluster", "refused"}

\* Twice what a holdout of n records has above its target, in units of the
\* denominator, is less than one of its groups.
Near(n) ==
    \E g \in held : 2 * (n * input.den - Cardinality(Id) * input.num) < Size(g) * input.den

Holding ==
    /\ phase \in Phases
    /\ size = Cardinality(Of(held))
    /\ phase \in Ungrouped => held = {} /\ scanned = {}
    /\ phase \notin Ungrouped =>
          /\ held \subseteq scanned /\ scanned \subseteq Groups
          /\ Cardinality(Groups) >= NFolds + 1
    /\ phase \notin Ungrouped \cup {"scan"} => held # {}
    /\ phase \in {"deal", "made"} => Cardinality(Groups) - Cardinality(held) >= NFolds
    /\ (held # {} /\ (phase = "scan" \/ Cardinality(held) > 1)) => Near(size)

\* Nothing is held out before the groups are known.
LEMMA InitHolding == Init => Holding
<1> SUFFICES ASSUME Init PROVE Holding
  OBVIOUS
<1>1. phase = "cluster" /\ held = {} /\ scanned = {} /\ size = 0
  BY DEF Init
<1>2. Of(held) = {} /\ Cardinality({}) = 0
  BY <1>1, FS_EmptySet DEF Of
<1> QED
  BY <1>1, <1>2 DEF Holding, Phases, Ungrouped

\* The scan for the holdout starts with an empty selection of the right size.
LEMMA ResolveHolds ==
  ASSUME Holding, Grouped, Resolve, group' \in [Id -> Id]
  PROVE  Holding'
<1>1. phase = "cluster" /\ held = {} /\ scanned = {} /\ UNCHANGED <<held, scanned, size, input>>
  BY DEF Resolve, Holding, Ungrouped, holdout
<1>2. Of(held) = {} /\ Of(held)' = {}
  BY <1>1 DEF Of
<1>3. size' = Cardinality(Of(held)')
  BY <1>1, <1>2 DEF Holding
<1>4. Groups' = {group'[x] : x \in Id}
  BY DEF Groups
<1>5. Cardinality(Groups') \in Nat
  <2>1. Groups' \in SUBSET Id
    BY <1>4
  <2> QED
    BY <2>1, IdAssumption, FS_Subset, FS_CardinalityType
<1>6. phase' = IF Cardinality(Groups') < NFolds + 1 THEN "refused" ELSE "scan"
  BY <1>4 DEF Resolve, Refused
<1>7. phase' \notin Ungrouped => Cardinality(Groups') >= NFolds + 1
  BY <1>5, <1>6, FoldsAssumption DEF Ungrouped
<1> QED
  BY <1>1, <1>3, <1>6, <1>7 DEF Holding, Phases, Ungrouped

\* Taking a group that brings the holdout closer to its target, or leaving it,
\* keeps the bounds.
LEMMA ScanHolds ==
  ASSUME Holding, Grouped, input \in Input, Scan
  PROVE  Holding'
<1>0. phase = "scan" /\ UNCHANGED <<phase, input, group>>
  BY DEF Scan
<1>1. PICK g \in Groups \ scanned :
         /\ scanned' = scanned \cup {g}
         /\ \/ /\ Closer(size + Size(g), size)
               /\ held' = held \cup {g}
               /\ size' = size + Size(g)
            \/ UNCHANGED <<held, size>>
  BY DEF Scan
<1>2. Groups' = Groups /\ (\A h : Size(h)' = Size(h)) /\ \A H : Of(H)' = {x \in Id : group[x] \in H'}
  BY <1>0 DEF Groups, Size, Members, Of
<1>3. held \subseteq scanned /\ scanned \subseteq Groups /\ Cardinality(Groups) >= NFolds + 1
      /\ size = Cardinality(Of(held))
  BY <1>0 DEF Holding, Ungrouped
<1>4. scanned' \subseteq Groups /\ held' \subseteq scanned'
  BY <1>1, <1>3
<1>5. CASE UNCHANGED <<held, size>>
  <2>1. Of(held)' = Of(held) /\ (Near(size) => Near(size)')
    BY <1>0, <1>2, <1>5 DEF Of, Near
  <2> QED
    BY <1>0, <1>2, <1>3, <1>4, <1>5, <2>1 DEF Holding, Ungrouped, Phases
<1>6. CASE Closer(size + Size(g), size) /\ held' = held \cup {g} /\ size' = size + Size(g)
  <2>1. g \notin held
    BY <1>1, <1>3
  <2>2. Of(held)' = Of(held \cup {g})
    BY <1>0, <1>6 DEF Of
  <2>3. size' = Cardinality(Of(held)')
    BY <1>3, <1>6, <2>1, <2>2, OneMore DEF Grouped
  <2>4. 2 * (size' * input.den - Cardinality(Id) * input.num) < Size(g) * input.den
    <3> DEFINE s == Size(g)
               d == input.den
               t == Cardinality(Id) * input.num
    <3>1. s \in Nat /\ s > 0 /\ d \in Nat /\ d > 0 /\ size \in Nat /\ t \in Nat
      <4>1. input.num \in Nat /\ d \in Nat /\ d > 0
        BY InputTyped
      <4>2. s \in Nat /\ s > 0 /\ Cardinality(Id) \in Nat /\ size \in 0..Cardinality(Id)
        BY <1>3, SizesTyped DEF Grouped
      <4>3. t \in Nat
        BY <4>1, <4>2, Product
      <4> QED
        BY <4>1, <4>2, <4>3
    <3>2. Abs((size + s) * d - t) < Abs(size * d - t)
      BY <1>6 DEF Closer, Off
    <3> HIDE DEF s, d, t
    <3>3. (size + s) * d = size * d + s * d /\ size * d \in Nat /\ s * d \in Nat /\ s * d > 0
      BY <3>1, Product, Distributes
    <3>4. Abs((size * d - t) + s * d) < Abs(size * d - t)
      <4>1. (size * d + s * d) - t = (size * d - t) + s * d
        BY <3>1, <3>3
      <4> QED
        BY <3>2, <3>3, <4>1
    <3>5. 2 * ((size * d - t) + s * d) < s * d
      <4>1. size * d - t \in Int /\ s * d \in Int /\ s * d > 0
        BY <3>1, <3>3
      <4> QED
        BY <3>4, <4>1, Nearer
    <3>6. 2 * ((size + s) * d - t) < s * d
      BY <3>1, <3>3, <3>5
    <3> QED
      BY <1>6, <3>6 DEF s, d, t
  <2>5. Near(size)'
    <3>1. g \in held'
      BY <1>6
    <3> QED
      BY <1>0, <1>2, <2>4, <3>1 DEF Near
  <2> QED
    BY <1>0, <1>2, <1>3, <1>4, <2>3, <2>5 DEF Holding, Ungrouped, Phases
<1> QED
  BY <1>1, <1>5, <1>6

\* The end of the scan leaves enough groups, or a selection that has to be
\* trimmed.
LEMMA EndScanHolds ==
  ASSUME Holding, Grouped, EndScan
  PROVE  Holding'
<1>0. phase = "scan" /\ phase' = "trim" /\ scanned = Groups /\ UNCHANGED <<input, group, scanned>>
  BY DEF EndScan
<1>1. Groups' = Groups /\ (\A h : Size(h)' = Size(h))
  BY <1>0 DEF Groups, Size, Members
<1>2. held \subseteq scanned /\ scanned \subseteq Groups /\ Cardinality(Groups) >= NFolds + 1
      /\ size = Cardinality(Of(held))
  BY <1>0 DEF Holding, Ungrouped
<1>3. CASE held # {} /\ UNCHANGED <<held, size>>
  <2>1. Of(held)' = Of(held) /\ (Near(size) => Near(size)')
    BY <1>0, <1>1, <1>3 DEF Of, Near
  <2>2. Near(size)
    BY <1>0, <1>3 DEF Holding
  <2> QED
    BY <1>0, <1>1, <1>2, <1>3, <2>1, <2>2 DEF Holding, Ungrouped, Phases
<1>4. CASE held = {}
  <2>1. PICK g \in Groups : held' = {g} /\ size' = Size(g)
    BY <1>0, <1>4 DEF EndScan
  <2>2. Cardinality(Of({} \cup {g})) = Cardinality(Of({})) + Size(g)
    BY OneMore DEF Grouped
  <2>3. Cardinality(Of({})) = 0 /\ Of({} \cup {g}) = Of({g}) /\ Size(g) \in Nat
    <3>1. Of({}) = {} /\ Cardinality({}) = 0
      BY FS_EmptySet DEF Of
    <3> QED
      BY <3>1, SizesTyped DEF Grouped
  <2>4. Of(held)' = Of({g})
    BY <1>0, <2>1 DEF Of
  <2>5. size' = Cardinality(Of(held)')
    BY <2>1, <2>2, <2>3, <2>4
  <2>6. ~(Cardinality(held') > 1)
    <3>1. Cardinality(held') = 1
      BY <2>1, FS_Singleton
    <3> QED
      BY <3>1
  <2> QED
    BY <1>0, <1>1, <1>2, <2>1, <2>5, <2>6 DEF Holding, Ungrouped, Phases
<1> QED
  BY <1>3, <1>4 DEF EndScan

\* Groups go back only while several are held: with one, each fold can have a group.
LEMMA TrimHolds ==
  ASSUME Holding, Grouped, input \in Input, Trim
  PROVE  Holding' /\ phase' = "trim"
<1>0. phase = "trim" /\ TooFewLeft /\ UNCHANGED <<input, group, scanned>>
  BY DEF Trim
<1>1. Groups' = Groups /\ (\A h : Size(h)' = Size(h))
  BY <1>0 DEF Groups, Size, Members
<1>2. held \subseteq scanned /\ scanned \subseteq Groups /\ Cardinality(Groups) >= NFolds + 1
      /\ size = Cardinality(Of(held)) /\ held # {}
  BY <1>0 DEF Holding, Ungrouped
<1>3. PICK g \in held : held' = held \ {g} /\ size' = size - Size(g) /\ UNCHANGED phase
  BY <1>0, <1>2 DEF Trim
<1>4. IsFiniteSet(held) /\ Cardinality(held) \in Nat /\ Cardinality(Groups) \in Nat
  BY <1>2, SizesTyped, FS_Subset, FS_CardinalityType DEF Grouped
<1>5. Cardinality(held) > 1
  BY <1>0, <1>2, <1>4, FoldsAssumption DEF TooFewLeft
<1>6. Cardinality(held') = Cardinality(held) - 1 /\ IsFiniteSet(held')
  BY <1>3, <1>4, FS_RemoveElement
<1>7. held' # {} /\ held' \subseteq held
  BY <1>3, <1>4, <1>5, <1>6, FS_EmptySet
<1>8. size' = Cardinality(Of(held)')
  <2>1. Cardinality(Of(held' \cup {g})) = Cardinality(Of(held')) + Size(g)
    BY <1>3, OneMore DEF Grouped
  <2>2. held' \cup {g} = held /\ Of(held)' = Of(held')
    BY <1>0, <1>3 DEF Of
  <2>3. Cardinality(Of(held')) \in 0..Cardinality(Id) /\ Cardinality(Id) \in Nat /\ Size(g) \in Nat
    BY <1>2, <1>3, SizesTyped DEF Grouped
  <2>4. Cardinality(Of(held)) = Cardinality(Of(held')) + Size(g)
    BY <2>1, <2>2
  <2> QED
    BY <1>2, <1>3, <2>2, <2>3, <2>4
<1>9. Near(size)'
  <2> DEFINE d == input.den
             t == Cardinality(Id) * input.num
  <2>1. PICK w \in held : 2 * (size * d - t) < Size(w) * d
    BY <1>0, <1>2, <1>5 DEF Holding, Near
  <2>2. PICK h \in held' : w # g => h = w
    BY <1>3, <1>7
  <2>3. /\ Size(g) \in Nat /\ Size(g) > 0 /\ Size(h) \in Nat /\ Size(h) > 0
        /\ size \in Nat /\ size' \in Nat /\ d \in Nat /\ d > 0 /\ t \in Nat
    <3>1. g \in Groups /\ h \in Groups
      BY <1>2, <1>7
    <3>2. input.num \in Nat /\ d \in Nat /\ d > 0
      BY InputTyped
    <3>3. Cardinality(Id) \in Nat /\ size \in 0..Cardinality(Id) /\ Cardinality(Of(held')) \in 0..Cardinality(Id)
      BY <1>2, SizesTyped DEF Grouped
    <3>4. Of(held)' = Of(held')
      BY <1>0 DEF Of
    <3>5. Size(g) \in Nat /\ Size(g) > 0 /\ Size(h) \in Nat /\ Size(h) > 0
      BY <3>1, SizesTyped DEF Grouped
    <3>6. t \in Nat
      BY <3>2, <3>3, Product
    <3> QED
      BY <1>8, <3>2, <3>3, <3>4, <3>5, <3>6
  <2>4. size = size' + Size(g)
    BY <1>3, <2>3
  <2> HIDE DEF d, t
  <2>5. size * d = size' * d + Size(g) * d /\ size' * d \in Nat /\ Size(g) * d \in Nat
        /\ Size(g) * d > 0 /\ Size(h) * d \in Nat /\ Size(h) * d > 0
    <3>1. (size' + Size(g)) * d = size' * d + Size(g) * d
      BY <2>3, Distributes
    <3>4. size' * d \in Nat
      BY <2>3, Product
    <3>2. Size(g) * d \in Nat /\ Size(g) * d > 0
      BY <2>3, Product
    <3>3. Size(h) * d \in Nat /\ Size(h) * d > 0
      BY <2>3, Product
    <3> QED
      BY <2>4, <3>1, <3>2, <3>3, <3>4
  <2>6. 2 * (size' * d - t) < Size(h) * d
    <3>1. CASE w = g
      BY <2>1, <2>3, <2>5, <3>1
    <3>2. CASE w # g
      BY <2>1, <2>2, <2>3, <2>5, <3>2
    <3> QED
      BY <3>1, <3>2
  <2> QED
    BY <1>0, <1>1, <2>6 DEF Near, d, t
<1> QED
  BY <1>0, <1>1, <1>2, <1>3, <1>7, <1>8, <1>9 DEF Holding, Ungrouped, Phases

\* The end of the trim leaves a group per fold and the bounds on the holdout.
LEMMA EndTrimHolds ==
  ASSUME Holding, Grouped, EndTrim
  PROVE  Holding' /\ phase' = "deal"
<1>0. phase = "trim" /\ ~TooFewLeft /\ UNCHANGED <<input, group, held, scanned, size>>
  BY DEF EndTrim, holdout
<1>1. Groups' = Groups /\ (\A h : Size(h)' = Size(h)) /\ Of(held)' = Of(held)
  BY <1>0 DEF Groups, Size, Members, Of
<1>2. held # {} /\ held \subseteq Groups
  BY <1>0 DEF Holding, Ungrouped
<1>3. phase' = "deal"
  BY <1>2 DEF EndTrim
<1>4. Cardinality(held) \in Nat /\ Cardinality(Groups) \in Nat
  BY <1>2, SizesTyped, FS_Subset, FS_CardinalityType DEF Grouped
<1>5. Cardinality(Groups) - Cardinality(held) >= NFolds
  BY <1>0, <1>4, FoldsAssumption DEF TooFewLeft
<1>6. Near(size) => Near(size)'
  BY <1>0, <1>1 DEF Near
<1> QED
  BY <1>0, <1>1, <1>3, <1>5, <1>6 DEF Holding, Ungrouped, Phases

\* Steps that touch neither the groups nor the holdout.
LEMMA OtherHolds ==
  ASSUME Holding, UNCHANGED <<input, group, holdout>>,
         \/ phase' = phase
         \/ phase = "deal" /\ phase' \in {"made", "broken"}
  PROVE  Holding'
<1>1. UNCHANGED <<input, group, held, scanned, size>>
  BY DEF holdout
<1>2. Groups' = Groups /\ (\A h : Size(h)' = Size(h)) /\ Of(held)' = Of(held)
  BY <1>1 DEF Groups, Size, Members, Of
<1>3. Near(size) => Near(size)'
  BY <1>1, <1>2 DEF Near
<1>4. CASE phase' = phase
  BY <1>1, <1>2, <1>3, <1>4 DEF Holding
<1>5. CASE phase = "deal" /\ phase' \in {"made", "broken"}
  BY <1>1, <1>2, <1>3, <1>5 DEF Holding, Ungrouped, Phases
<1> QED
  BY <1>4, <1>5

\* Every step keeps what is known of the holdout.
LEMMA HoldingStep == Clustering /\ Grouped /\ Holding /\ [Next]_vars => Holding'
<1> SUFFICES ASSUME Clustering, Grouped, Holding, [Next]_vars PROVE Holding'
  OBVIOUS
<1>0. input \in Input
  BY DEF Clustering
<1>1. CASE Resolve
  BY <1>1, ResolveGroups, ResolveHolds
<1>2. CASE Scan
  BY <1>0, <1>2, ScanHolds
<1>3. CASE EndScan
  BY <1>3, EndScanHolds
<1>4. CASE Trim
  BY <1>0, <1>4, TrimHolds
<1>5. CASE EndTrim
  BY <1>5, EndTrimHolds
<1>6. CASE UnionPair \/ UnionLabel \/ Deal \/ Validate \/ Ask \/ UNCHANGED vars
  <2>1. UNCHANGED <<input, group, holdout>>
    BY <1>6 DEF UnionPair, UnionLabel, Deal, Validate, Ask, vars
  <2>2. CASE Validate
    <3>1. phase = "deal" /\ phase' \in {"made", "broken"}
      BY <2>2 DEF Validate
    <3> QED
      BY <2>1, <3>1, OtherHolds
  <2>3. CASE UnionPair \/ UnionLabel \/ Deal \/ Ask \/ UNCHANGED vars
    <3>1. phase' = phase
      BY <2>3 DEF UnionPair, UnionLabel, Deal, Ask, vars
    <3> QED
      BY <2>1, <3>1, OtherHolds
  <2> QED
    BY <1>6, <2>2, <2>3
<1> QED
  BY <1>1, <1>2, <1>3, <1>4, <1>5, <1>6 DEF Next

(***************************************************************************)
(* The folds                                                               *)
(***************************************************************************)
Dealt(f) == {g \in Id : fold[g] = f}
Dealing == {"deal", "made", "broken"}

\* Loads and counts are those of the groups dealt; what was dealt is no smaller
\* than what waits; a fold less any one group weighs no more than another; and
\* while a fold is empty no other has two groups.
Loaded ==
    /\ fold \in [Id -> Folds \cup {None}]
    /\ load \in [Folds -> Nat]
    /\ count \in [Folds -> Nat]
    /\ phase \notin Dealing => \A g \in Id : fold[g] = None
    /\ \A g \in Id : fold[g] # None => g \in Groups \ held
    /\ \A f \in Folds : load[f] = Cardinality(Of(Dealt(f))) /\ count[f] = Cardinality(Dealt(f))
    /\ \A g \in Id, h \in Waiting : fold[g] # None => Size(h) <= Size(g)
    /\ \A e, f \in Folds : \A g \in Id : fold[g] = e => load[e] - Size(g) <= load[f]
    /\ \A f \in Folds : load[f] = 0 =>
          \A g, h \in Id : (fold[g] # None /\ fold[g] = fold[h]) => g = h

\* No fold has the number that stands for none.
LEMMA FoldsTyped == None \notin Folds /\ None \notin Id /\ IsFiniteSet(Folds) /\ Cardinality(Folds) = NFolds
<1>1. None \notin Folds /\ None \notin Id
  <2>1. Folds \subseteq 0..NFolds
    BY FoldsAssumption DEF Folds
  <2> QED
    BY <2>1, IdAssumption
<1>2. IsFiniteSet(0..(NFolds - 1)) /\ Cardinality(0..(NFolds - 1)) = NFolds
  <2>1. 0 \in Int /\ NFolds - 1 \in Int /\ ~(0 > NFolds - 1)
    BY FoldsAssumption
  <2> QED
    BY <2>1, FS_Interval, FoldsAssumption
<1> QED
  BY <1>1, <1>2 DEF Folds

\* Nothing dealt: nothing to be said.
LEMMA UndealtLoaded ==
  ASSUME fold = [g \in Id |-> None], load = [f \in Folds |-> 0], count = [f \in Folds |-> 0],
         phase \in Phases
  PROVE  Loaded
<1>1. \A f \in Folds : Dealt(f) = {}
  BY FoldsTyped DEF Dealt
<1>2. Of({}) = {} /\ Cardinality({}) = 0
  BY FS_EmptySet DEF Of
<1>3. \A f \in Folds : load[f] = Cardinality(Of(Dealt(f))) /\ count[f] = Cardinality(Dealt(f))
  BY <1>1, <1>2
<1>4. fold \in [Id -> Folds \cup {None}] /\ load \in [Folds -> Nat] /\ count \in [Folds -> Nat]
  OBVIOUS
<1>5. \A g \in Id : fold[g] = None /\ fold[g] \notin Folds
  BY FoldsTyped
<1> QED
  BY <1>3, <1>4, <1>5 DEF Loaded

\* Before the deal the folds are as they were at the start.
Undealt == phase \notin Dealing =>
    /\ fold = [g \in Id |-> None]
    /\ load = [f \in Folds |-> 0]
    /\ count = [f \in Folds |-> 0]

\* Giving the largest group left to the lightest fold keeps the folds balanced.
LEMMA DealLoads ==
  ASSUME Loaded, Grouped, Deal
  PROVE  Loaded'
<1>0. phase = "deal" /\ UNCHANGED <<phase, group, held>>
  BY DEF Deal, holdout
<1>1. PICK g \in Waiting : \E f \in Folds :
         /\ Largest(g) /\ Lightest(f)
         /\ fold' = [fold EXCEPT ![g] = f]
         /\ load' = [load EXCEPT ![f] = @ + Size(g)]
         /\ count' = [count EXCEPT ![f] = @ + 1]
  BY DEF Deal
<1>2. PICK f \in Folds :
         /\ Largest(g) /\ Lightest(f)
         /\ fold' = [fold EXCEPT ![g] = f]
         /\ load' = [load EXCEPT ![f] = @ + Size(g)]
         /\ count' = [count EXCEPT ![f] = @ + 1]
  BY <1>1
<1>3. /\ fold \in [Id -> Folds \cup {None}] /\ load \in [Folds -> Nat] /\ count \in [Folds -> Nat]
      /\ g \in Groups \ held /\ g \in Id /\ fold[g] = None /\ None \notin Folds
  BY FoldsTyped DEF Loaded, Waiting, Groups, Grouped
<1>4. Groups' = Groups /\ (\A h : Size(h)' = Size(h))
  BY <1>0 DEF Groups, Size, Members
<1>5. \A h \in Groups : Size(h) \in Nat /\ Size(h) > 0
  BY SizesTyped DEF Grouped
<1>6. /\ fold' \in [Id -> Folds \cup {None}]
      /\ fold'[g] = f /\ \A h \in Id \ {g} : fold'[h] = fold[h]
  BY <1>2, <1>3
<1>7. /\ load' \in [Folds -> Nat]
      /\ load'[f] = load[f] + Size(g) /\ \A e \in Folds \ {f} : load'[e] = load[e]
  BY <1>2, <1>3, <1>5
<1>8. /\ count' \in [Folds -> Nat]
      /\ count'[f] = count[f] + 1 /\ \A e \in Folds \ {f} : count'[e] = count[e]
  BY <1>2, <1>3
<1>9. \A h \in Id : fold'[h] # None => h \in Groups \ held
  BY <1>3, <1>6 DEF Loaded
<1>10. ASSUME NEW e \in Folds
       PROVE  load'[e] = Cardinality(Of(Dealt(e))') /\ count'[e] = Cardinality(Dealt(e)')
  <2>0. load[e] = Cardinality(Of(Dealt(e))) /\ count[e] = Cardinality(Dealt(e))
    BY DEF Loaded
  <2>1. CASE e # f
    <3>1. Dealt(e)' = Dealt(e)
      BY <1>3, <1>6, <2>1 DEF Dealt
    <3>2. Of(Dealt(e))' = Of(Dealt(e))
      BY <1>0, <3>1 DEF Of
    <3> QED
      BY <1>7, <1>8, <2>0, <2>1, <3>1, <3>2
  <2>2. CASE e = f
    <3>1. Dealt(e)' = Dealt(e) \cup {g} /\ g \notin Dealt(e)
      BY <1>3, <1>6, <2>2 DEF Dealt
    <3>2. Of(Dealt(e))' = Of(Dealt(e) \cup {g})
      BY <1>0, <3>1 DEF Of
    <3>3. Cardinality(Of(Dealt(e) \cup {g})) = Cardinality(Of(Dealt(e))) + Size(g)
      BY <3>1, OneMore DEF Grouped
    <3>4. IsFiniteSet(Dealt(e))
      <4>1. Dealt(e) \in SUBSET Id
        BY DEF Dealt
      <4> QED
        BY <4>1, IdAssumption, FS_Subset
    <3>5. Cardinality(Dealt(e) \cup {g}) = Cardinality(Dealt(e)) + 1
      BY <3>1, <3>4, FS_AddElement
    <3> QED
      BY <1>7, <1>8, <2>0, <2>2, <3>1, <3>2, <3>3, <3>5
  <2> QED
    BY <2>1, <2>2
<1>11. Waiting' \subseteq Waiting /\ g \notin Waiting'
  <2>1. Waiting' = {h \in Groups \ held : fold'[h] = None}
    BY <1>0, <1>4 DEF Waiting
  <2>2. Groups \subseteq Id
    BY DEF Groups, Grouped
  <2> QED
    BY <1>3, <1>6, <2>1, <2>2 DEF Waiting
<1>12. \A k \in Id, h \in Waiting' : fold'[k] # None => Size(h) <= Size(k)
  <2> TAKE k \in Id, h \in Waiting'
  <2>1. CASE k = g
    BY <1>2, <1>11, <2>1 DEF Largest
  <2>2. CASE k # g
    BY <1>6, <1>11, <2>2 DEF Loaded
  <2> QED
    BY <2>1, <2>2
<1>13. \A e \in Folds : load[f] <= load[e]
  BY <1>2, <1>3 DEF Lightest, Lighter
<1>14. \A d, e \in Folds : \A h \in Id : fold'[h] = d => load'[d] - Size(h) <= load'[e]
  <2> TAKE d, e \in Folds
  <2> TAKE h \in Id
  <2> HAVE fold'[h] = d
  <2>0. h \in Groups /\ Size(h) \in Nat /\ Size(g) \in Nat /\ Size(g) > 0
    BY <1>3, <1>5, <1>9
  <2>1. load[d] \in Nat /\ load[e] \in Nat /\ load[f] \in Nat /\ load[e] <= load'[e]
    BY <1>3, <1>7, <2>0
  <2>2. CASE h = g
    <3>1. d = f /\ load'[d] - Size(h) = load[f]
      BY <1>6, <1>7, <2>0, <2>1, <2>2
    <3> QED
      BY <1>7, <1>13, <2>1, <3>1
  <2>3. CASE h # g
    <3>1. fold[h] = d /\ load[d] - Size(h) <= load[e]
      BY <1>6, <2>3 DEF Loaded
    <3>2. CASE d # f
      BY <1>7, <2>0, <2>1, <3>1, <3>2
    <3>3. CASE d = f
      <4>1. Size(g) <= Size(h)
        BY <1>1, <1>3, <3>1 DEF Loaded
      <4>2. load'[d] - Size(h) = (load[f] + Size(g)) - Size(h)
        BY <1>7, <3>3
      <4> QED
        BY <1>7, <1>13, <2>0, <2>1, <4>1, <4>2
    <3> QED
      BY <3>2, <3>3
  <2> QED
    BY <2>2, <2>3
<1>15. \A e \in Folds : load'[e] = 0 =>
          \A h, k \in Id : (fold'[h] # None /\ fold'[h] = fold'[k]) => h = k
  <2> TAKE e \in Folds
  <2> HAVE load'[e] = 0
  <2>1. load[e] = 0 /\ load[f] = 0
    BY <1>3, <1>5, <1>7, <1>13
  <2>2. \A h \in Id : fold[h] # f
    <3> SUFFICES ASSUME NEW h \in Id, fold[h] = f PROVE FALSE
      OBVIOUS
    <3>1. h \in Groups
      BY <1>3 DEF Loaded
    <3>2. load[f] - Size(h) <= load[f] /\ Cardinality(Of(Dealt(f))) = 0
      BY <2>1, <1>5, <3>1 DEF Loaded
    <3>3. PICK x \in Id : group[x] = h
      BY <3>1 DEF Groups
    <3>4. x \in Of(Dealt(f))
      BY <3>3 DEF Of, Dealt
    <3>5. IsFiniteSet(Of(Dealt(f)))
      <4>1. Of(Dealt(f)) \in SUBSET Id
        BY DEF Of
      <4> QED
        BY <4>1, IdAssumption, FS_Subset
    <3> QED
      BY <3>2, <3>4, <3>5, FS_EmptySet
  <2>3. \A h, k \in Id : (fold[h] # None /\ fold[h] = fold[k]) => h = k
    BY <2>1 DEF Loaded
  <2> QED
    BY <1>6, <2>2, <2>3
<1>16. phase' \in Dealing
  BY <1>0 DEF Dealing
<1> QED
  BY <1>0, <1>4, <1>6, <1>7, <1>8, <1>9, <1>10, <1>12, <1>14, <1>15, <1>16 DEF Loaded

\* Every step keeps what is known of the folds.
LEMMA LoadedStep ==
  ASSUME Holding, Grouped, Loaded, Undealt, [Next]_vars
  PROVE  Loaded' /\ Undealt'
<1>1. CASE Deal
  <2>1. phase' = "deal"
    BY <1>1 DEF Deal
  <2> QED
    BY <1>1, <2>1, DealLoads DEF Undealt, Dealing
<1>2. CASE UNCHANGED folds /\ phase' \in Phases /\ phase \notin Dealing
  <2>1. UNCHANGED <<fold, load, count>>
    BY <1>2 DEF folds
  <2>2. /\ fold' = [g \in Id |-> None] /\ load' = [f \in Folds |-> 0] /\ count' = [f \in Folds |-> 0]
        /\ phase' \in Phases
    BY <1>2, <2>1 DEF Undealt
  <2>3. Loaded'
    <3>1. \A f \in Folds : Dealt(f)' = {}
      BY <2>2, FoldsTyped DEF Dealt
    <3>2. Of({})' = {} /\ Cardinality({}) = 0
      BY FS_EmptySet DEF Of
    <3>3. \A f \in Folds : Of(Dealt(f))' = {}
      BY <3>1 DEF Of
    <3>4. \A f \in Folds : load'[f] = Cardinality(Of(Dealt(f))') /\ count'[f] = Cardinality(Dealt(f)')
      BY <2>2, <3>1, <3>2, <3>3
    <3>5. fold' \in [Id -> Folds \cup {None}] /\ load' \in [Folds -> Nat] /\ count' \in [Folds -> Nat]
      BY <2>2
    <3>6. \A g \in Id : fold'[g] = None /\ fold'[g] \notin Folds
      BY <2>2, FoldsTyped
    <3> QED
      BY <3>4, <3>5, <3>6 DEF Loaded
  <2> QED
    BY <2>2, <2>3 DEF Undealt
<1>3. CASE UNCHANGED <<folds, group, held>> /\ phase \in Dealing /\ phase' \in Dealing
  <2>1. UNCHANGED <<fold, load, count, group, held>>
    BY <1>3 DEF folds
  <2>2. Groups' = Groups /\ (\A h : Size(h)' = Size(h)) /\ Waiting' = Waiting
    BY <2>1 DEF Groups, Size, Members, Waiting
  <2>3. \A f \in Folds : Dealt(f)' = Dealt(f) /\ Of(Dealt(f))' = Of(Dealt(f))
    BY <2>1 DEF Dealt, Of
  <2> QED
    BY <1>3, <2>1, <2>2, <2>3 DEF Loaded, Undealt
<1>4. CASE UNCHANGED vars
  <2>1. UNCHANGED <<folds, group, held, phase>>
    BY <1>4 DEF vars, holdout
  <2> QED
    BY <1>2, <1>3, <2>1 DEF Holding
<1>5. CASE UnionPair \/ UnionLabel \/ Resolve \/ Scan \/ EndScan \/ Trim \/ EndTrim
  <2>1. UNCHANGED folds /\ phase \notin Dealing /\ phase \in Phases
    BY <1>5 DEF UnionPair, UnionLabel, Resolve, Scan, EndScan, Trim, EndTrim, Dealing, Holding
  <2>2. phase' \in Phases
    <3>1. CASE UnionPair \/ UnionLabel \/ Scan
      BY <2>1, <3>1 DEF UnionPair, UnionLabel, Scan
    <3>2. CASE Resolve \/ EndScan \/ Trim \/ EndTrim
      BY <2>1, <3>2 DEF Resolve, EndScan, Trim, EndTrim, Phases
    <3> QED
      BY <1>5, <3>1, <3>2
  <2> QED
    BY <1>2, <2>1, <2>2
<1>6. CASE Validate \/ Ask
  <2>1. UNCHANGED <<folds, group, held>>
    BY <1>6 DEF Validate, Ask, holdout
  <2>2. phase \in Dealing /\ phase' \in Dealing
    BY <1>6 DEF Validate, Ask, Dealing
  <2> QED
    BY <1>3, <2>1, <2>2
<1> QED
  BY <1>1, <1>4, <1>5, <1>6 DEF Next

\* The records of a fold are those of the groups dealt to it.
LEMMA FoldRecords ==
  ASSUME Loaded, Grouped, NEW f \in Folds
  PROVE  FoldIds(f) = Of(Dealt(f)) /\ Cardinality(FoldIds(f)) = load[f]
<1>1. \A x \in Id : group[x] \in Id /\ (fold[group[x]] = f => group[x] \notin held)
  BY FoldsTyped DEF Grouped, Loaded
<1>2. FoldIds(f) = Of(Dealt(f))
  BY <1>1 DEF FoldIds, CvIds, HoldoutIds, Of, Dealt
<1> QED
  BY <1>2 DEF Loaded

\* When every group is dealt, no fold is empty: were one, all groups would be
\* in different folds, and there are as many groups as folds.
LEMMA FoldsFilled ==
  ASSUME Holding, Grouped, Loaded, phase = "deal", Waiting = {}
  PROVE  Validates
<1>1. held # {} /\ held \subseteq Groups /\ Cardinality(Groups) - Cardinality(held) >= NFolds
  BY DEF Holding, Ungrouped
<1>2. HoldoutIds # {}
  <2>1. PICK g \in held : TRUE
    BY <1>1
  <2>2. PICK x \in Id : group[x] = g
    BY <1>1, <2>1 DEF Groups
  <2> QED
    BY <2>1, <2>2 DEF HoldoutIds
<1>3. \A g \in Groups \ held : g \in Id /\ fold[g] \in Folds
  <2>1. Groups \subseteq Id
    BY DEF Groups, Grouped
  <2> QED
    BY <2>1 DEF Waiting, Loaded
<1>4. \A x \in CvIds : group[x] \in Groups \ held
  BY DEF CvIds, HoldoutIds, Groups
<1>5. ASSUME NEW f \in Folds PROVE \E x \in CvIds : fold[group[x]] = f
  <2> SUFFICES ASSUME \A x \in CvIds : fold[group[x]] # f PROVE FALSE
    OBVIOUS
  <2>1. FoldIds(f) = {}
    BY DEF FoldIds
  <2>2. load[f] = 0
    BY <2>1, FoldRecords, FS_EmptySet
  <2>3. \A g, h \in Groups \ held : fold[g] = fold[h] => g = h
    BY <1>3, <2>2, FoldsTyped DEF Loaded
  <2>4. ASSUME NEW g \in Groups \ held PROVE fold[g] \in Folds \ {f}
    <3>1. PICK x \in Id : group[x] = g
      BY DEF Groups
    <3>2. x \in CvIds
      BY <3>1 DEF CvIds, HoldoutIds
    <3> QED
      BY <1>3, <3>1, <3>2
  <2> DEFINE S == Groups \ held
             T == Folds \ {f}
             F == [g \in S |-> fold[g]]
  <2>5. F \in [S -> T] /\ \A g, h \in S : F[g] = F[h] => g = h
    BY <2>3, <2>4
  <2>6. IsFiniteSet(S) /\ Cardinality(S) >= NFolds /\ Cardinality(S) \in Nat
    <3>1. IsFiniteSet(Groups)
      BY SizesTyped DEF Grouped
    <3> QED
      BY <1>1, <3>1, Remaining, FS_CardinalityType
  <2>7. IsFiniteSet(T) /\ Cardinality(T) = NFolds - 1
    BY FoldsTyped, FS_RemoveElement
  <2>8. Cardinality(T) < Cardinality(S)
    BY <2>6, <2>7, FoldsAssumption
  <2> HIDE DEF S, T, F
  <2>9. \E g, h \in S : g # h /\ F[g] = F[h]
    BY <2>5, <2>6, <2>7, <2>8, FS_PigeonHole
  <2> QED
    BY <2>5, <2>9
<1>6. \A x \in CvIds : fold[group[x]] \in Folds
  BY <1>3, <1>4
<1>7. {fold[group[x]] : x \in CvIds} = Folds
  BY <1>5, <1>6
<1> QED
  BY <1>2, <1>7 DEF Validates

(***************************************************************************)
(* The answers                                                             *)
(***************************************************************************)
\* An answer is what the finished manifest says of one fold and some exclusions.
Answered ==
    /\ answer \in Answer \cup {None}
    /\ answer # None =>
          /\ phase = "made"
          /\ \E f \in Folds, excluded \in SUBSET Id :
                answer = [train |-> TrainingIds(f) \ Expand(excluded),
                          valid |-> FoldIds(f) \ Expand(excluded),
                          excluded |-> excluded]

\* Every step keeps what is known of the answer to a training command.
LEMMA AnsweredStep ==
  ASSUME Answered, [Next]_vars
  PROVE  Answered'
<1>1. CASE Ask
  <2>1. PICK f \in Folds, excluded \in SUBSET Id :
           answer' = [train |-> TrainingIds(f) \ Expand(excluded),
                      valid |-> FoldIds(f) \ Expand(excluded),
                      excluded |-> excluded]
    BY <1>1 DEF Ask
  <2>2. UNCHANGED <<group, fold, held>> /\ phase' = "made"
    BY <1>1 DEF Ask, folds, holdout
  <2>3. TrainingIds(f)' = TrainingIds(f) /\ FoldIds(f)' = FoldIds(f) /\ Expand(excluded)' = Expand(excluded)
    BY <2>2 DEF TrainingIds, FoldIds, CvIds, HoldoutIds, Expand
  <2>4. answer' \in Answer
    BY <2>1 DEF Answer, TrainingIds, FoldIds, CvIds
  <2> QED
    BY <2>1, <2>2, <2>3, <2>4 DEF Answered
<1>2. CASE UNCHANGED answer /\ phase # "made"
  BY <1>2 DEF Answered
<1>3. CASE UNCHANGED vars
  <2>1. UNCHANGED <<group, fold, held, phase, answer>>
    BY <1>3 DEF vars, folds, holdout
  <2>2. \A f \in Folds, excluded \in SUBSET Id :
           /\ TrainingIds(f)' = TrainingIds(f) /\ FoldIds(f)' = FoldIds(f)
           /\ Expand(excluded)' = Expand(excluded)
    BY <2>1 DEF TrainingIds, FoldIds, CvIds, HoldoutIds, Expand
  <2> QED
    BY <2>1, <2>2 DEF Answered
<1>4. CASE UnionPair \/ UnionLabel \/ Resolve \/ Scan \/ EndScan \/ Trim \/ EndTrim \/ Deal \/ Validate
  <2>1. UNCHANGED answer /\ phase # "made"
    BY <1>4 DEF UnionPair, UnionLabel, Resolve, Scan, EndScan, Trim, EndTrim, Deal, Validate
  <2> QED
    BY <1>2, <2>1
<1> QED
  BY <1>1, <1>3, <1>4 DEF Next

(***************************************************************************)
(* Theorems                                                                *)
(***************************************************************************)
IInv ==
    /\ Clustering
    /\ Grouped
    /\ Holding
    /\ Loaded /\ Undealt
    /\ Answered
    /\ AcceptedParametersSucceed

\* The inductive invariant holds before the first union.
LEMMA InitInvariant == Init => IInv
<1> SUFFICES ASSUME Init PROVE IInv
  OBVIOUS
<1>1. Clustering /\ Holding
  BY InitClustering, InitHolding
<1>2. Grouped
  BY DEF Init, Grouped
<1>3. Loaded /\ Undealt
  BY UndealtLoaded DEF Init, Undealt, Phases
<1>4. Answered /\ AcceptedParametersSucceed
  BY DEF Init, Answered, AcceptedParametersSucceed
<1> QED
  BY <1>1, <1>2, <1>3, <1>4 DEF IInv

\* The call cannot fail: a trim leaves a group, and a finished deal validates.
LEMMA SuccessStep ==
  ASSUME IInv, [Next]_vars
  PROVE  AcceptedParametersSucceed'
<1> USE DEF IInv, AcceptedParametersSucceed
<1>0. input \in Input
  BY DEF Clustering
<1>1. CASE Trim
  BY <1>0, <1>1, TrimHolds
<1>2. CASE EndTrim
  BY <1>2, EndTrimHolds
<1>3. CASE Validate
  <2>1. Validates
    BY <1>3, FoldsFilled DEF Validate
  <2> QED
    BY <1>3, <2>1 DEF Validate
<1>4. CASE Resolve \/ EndScan
  BY <1>4 DEF Resolve, EndScan
<1>5. CASE UnionPair \/ UnionLabel \/ Scan \/ Deal \/ Ask \/ UNCHANGED vars
  <2>1. phase' = phase
    BY <1>5 DEF UnionPair, UnionLabel, Scan, Deal, Ask, vars
  <2> QED
    BY <2>1
<1> QED
  BY <1>1, <1>2, <1>3, <1>4, <1>5 DEF Next

\* Every step keeps the inductive invariant.
LEMMA InvariantStep == IInv /\ [Next]_vars => IInv'
<1> SUFFICES ASSUME IInv, [Next]_vars PROVE IInv'
  OBVIOUS
<1>1. Clustering' /\ Grouped' /\ Holding'
  BY ClusteringStep, GroupedStep, HoldingStep DEF IInv
<1>2. Loaded' /\ Undealt'
  BY LoadedStep DEF IInv
<1>3. Answered' /\ AcceptedParametersSucceed'
  BY AnsweredStep, SuccessStep DEF IInv
<1> QED
  BY <1>1, <1>2, <1>3 DEF IInv

\* The inductive invariant of build-splits: what each stage of the call may rely
\* on from the one before it.
THEOREM Invariance == Spec => []IInv
BY InitInvariant, InvariantStep, PTL DEF Spec

\* Every variable of build-splits keeps its type; sizes, loads and counts never
\* exceed the number of records.
THEOREM TypeCorrect == Spec => []TypeOK
<1>1. IInv => TypeOK
  <2> SUFFICES ASSUME IInv PROVE TypeOK
    OBVIOUS
  <2>1. /\ input \in Input /\ pairs \subseteq Id \X Id /\ labels \in [Id -> SUBSET Label]
        /\ first \in [Label -> Id \cup {None}] /\ parent \in [Id -> Id] /\ rank \in [Id -> Nat]
    BY InputTyped DEF IInv, Clustering, Forest
  <2>2. phase \in Phases /\ group \in [Id -> Id] /\ answer \in Answer \cup {None}
    BY DEF IInv, Holding, Grouped, Answered
  <2>3. scanned \subseteq Id /\ held \subseteq Id
    <3>1. Groups \subseteq Id
      BY <2>2 DEF Groups
    <3> QED
      BY <3>1 DEF IInv, Holding
  <2>4. size \in 0..Cardinality(Id)
    BY <2>2, SizesTyped DEF IInv, Holding
  <2>5. fold \in [Id -> Folds \cup {None}]
    BY DEF IInv, Loaded
  <2>6. load \in [Folds -> 0..Cardinality(Id)]
    <3>1. \A f \in Folds : load[f] \in 0..Cardinality(Id)
      BY <2>2, SizesTyped DEF IInv, Loaded
    <3> QED
      BY <3>1 DEF IInv, Loaded
  <2>7. count \in [Folds -> 0..Cardinality(Id)]
    <3>1. ASSUME NEW f \in Folds PROVE count[f] \in 0..Cardinality(Id)
      <4>1. Dealt(f) \in SUBSET Id
        BY DEF Dealt
      <4>2. Cardinality(Dealt(f)) <= Cardinality(Id)
        BY <4>1, IdAssumption, FS_Subset
      <4>3. Cardinality(Id) \in Nat /\ count[f] \in Nat /\ count[f] = Cardinality(Dealt(f))
        BY IdAssumption, FS_CardinalityType DEF IInv, Loaded
      <4> QED
        BY <4>2, <4>3
    <3> QED
      BY <3>1 DEF IInv, Loaded
  <2> QED
    BY <2>1, <2>2, <2>3, <2>4, <2>5, <2>6, <2>7 DEF TypeOK
<1> QED
  BY <1>1, Invariance, PTL

\* Whatever the order of the unions, the groups are the least closed sets of
\* equivalent records, named after their least member (build_group_clusters).
THEOREM ClustersAreClasses == Spec => []ClustersExact
<1>1. IInv => ClustersExact
  <2> SUFFICES ASSUME IInv, phase # "cluster", NEW g \in Groups
               PROVE  /\ g = Least(Members(g))
                      /\ Closed(Members(g))
                      /\ \A S \in (SUBSET Members(g)) \ {{}, Members(g)} : ~Closed(S)
    BY DEF ClustersExact
  <2>1. Grouping /\ group \in [Id -> Id]
    BY DEF IInv, Grouped
  <2>2. PICK x \in Id : group[x] = g
    BY DEF Groups
  <2>3. g \in Id /\ group[g] = g /\ g \in Members(g) /\ Members(g) \subseteq Id
    BY <2>1, <2>2 DEF Grouping, Members
  <2>4. \A y \in Members(g) : g <= y
    BY <2>1, <2>2 DEF Grouping, Members
  <2>5. g = Least(Members(g))
    <3>1. Least(Members(g)) \in Members(g) /\ Least(Members(g)) <= g
      BY <2>3, LeastIs
    <3>2. g <= Least(Members(g)) /\ g \in Nat /\ Least(Members(g)) \in Nat
      BY <2>3, <2>4, <3>1, IdAssumption
    <3> QED
      BY <3>1, <3>2
  <2>6. Closed(Members(g))
    BY <2>1 DEF Grouping, Members, Closed
  <2>7. ASSUME NEW S \in (SUBSET Members(g)) \ {{}, Members(g)}, Closed(S) PROVE FALSE
    <3>1. PICK y \in S : TRUE
      BY <2>7
    <3>2. S \in SUBSET Id /\ group[y] = g
      BY <2>3, <2>7, <3>1 DEF Members
    <3>3. Members(g) \subseteq S
      BY <2>1, <2>7, <3>1, <3>2 DEF Grouping, Members
    <3> QED
      BY <2>7, <3>3
  <2> QED
    BY <2>5, <2>6, <2>7
<1> QED
  BY <1>1, Invariance, PTL

\* Parameters that _validate_split_parameters accepts lead to a manifest that
\* SplitManifest.validate accepts.
THEOREM ParametersSucceed == Spec => []AcceptedParametersSucceed
<1>1. IInv => AcceptedParametersSucceed
  BY DEF IInv
<1> QED
  BY <1>1, Invariance, PTL

\* A holdout of several groups exceeds its target by less than half of one of
\* them, whatever was trimmed (_choose_holdout_groups).
THEOREM HoldoutIsClose == Spec => []HoldoutClose
<1>1. IInv => HoldoutClose
  <2> SUFFICES ASSUME IInv, Cardinality(held) > 1
               PROVE  \E g \in held :
                        2 * (Cardinality(HoldoutIds) * input.den - Cardinality(Id) * input.num)
                            < Size(g) * input.den
    BY DEF HoldoutClose
  <2>1. HoldoutIds = Of(held)
    BY DEF HoldoutIds, Of
  <2>2. held # {}
    <3>1. Cardinality({}) = 0
      BY FS_EmptySet
    <3> QED
      BY <3>1
  <2>3. Near(size) /\ size = Cardinality(HoldoutIds)
    BY <2>1, <2>2 DEF IInv, Holding
  <2> QED
    BY <2>3 DEF Near
<1> QED
  BY <1>1, Invariance, PTL

\* A fold without any one of its groups is no larger than another fold
\* (_assign_cv_folds).
THEOREM FoldsAreBalanced == Spec => []Balanced
<1>1. IInv => Balanced
  <2> SUFFICES ASSUME IInv, NEW e \in Folds, NEW f \in Folds, NEW g \in Groups, fold[g] = e
               PROVE  Cardinality(FoldIds(e)) - Size(g) <= Cardinality(FoldIds(f))
    BY DEF Balanced
  <2>1. Cardinality(FoldIds(e)) = load[e] /\ Cardinality(FoldIds(f)) = load[f]
    BY FoldRecords DEF IInv
  <2>2. g \in Id
    BY DEF Groups, IInv, Grouped
  <2> QED
    BY <2>1, <2>2 DEF IInv, Loaded
<1> QED
  BY <1>1, Invariance, PTL

\* No record a command trains on is equivalent to one it validates on, to one
\* of the locked holdout or to an excluded one (eligible_training_ids).
THEOREM NothingLeaks == Spec => []NoLeak
<1>1. IInv => NoLeak
  <2> SUFFICES ASSUME IInv, answer # None
               PROVE  /\ Closed(answer.train) /\ Closed(answer.valid)
                      /\ answer.train \cap answer.valid = {}
                      /\ (answer.train \cup answer.valid) \cap (HoldoutIds \cup answer.excluded) = {}
    BY DEF NoLeak
  <2>1. PICK f \in Folds, excluded \in SUBSET Id :
           answer = [train |-> TrainingIds(f) \ Expand(excluded),
                     valid |-> FoldIds(f) \ Expand(excluded),
                     excluded |-> excluded]
    BY DEF IInv, Answered
  <2>2. \A x, y \in Id : Joined(x, y) => group[x] = group[y]
    BY DEF IInv, Answered, Grouped, Grouping
  <2>3. Closed(TrainingIds(f) \ Expand(excluded))
    BY <2>2 DEF Closed, TrainingIds, CvIds, HoldoutIds, Expand
  <2>4. Closed(FoldIds(f) \ Expand(excluded))
    BY <2>2 DEF Closed, FoldIds, CvIds, HoldoutIds, Expand
  <2>5. TrainingIds(f) \cap FoldIds(f) = {} /\ (TrainingIds(f) \cup FoldIds(f)) \cap HoldoutIds = {}
    BY DEF TrainingIds, FoldIds, CvIds
  <2>6. excluded \subseteq Expand(excluded)
    BY DEF Expand
  <2> QED
    BY <2>1, <2>3, <2>4, <2>5, <2>6
<1> QED
  BY <1>1, Invariance, PTL
=============================================================================
