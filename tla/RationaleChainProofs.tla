------------------------ MODULE RationaleChainProofs ------------------------
(***************************************************************************)
(* From banks to training, for any number of operators, problems, folds,   *)
(* contracts, banks and paths.  What a command has established it carries  *)
(* with it; what is shared are only the names it links.  So the argument   *)
(* has two parts: what a command's own steps have checked (Sound), and who *)
(* may take away a name (Owned): until its manifest is linked, records     *)
(* belong to the one command that linked them, and afterwards to nobody.   *)
(***************************************************************************)
EXTENDS RationaleChain, TLAPS

(***************************************************************************)
(* The shapes of commands and files                                        *)
(***************************************************************************)
\* The places of a command that publishes a pair.
Publishing == {"targets", "link_records", "link_manifest"}

\* The two kinds of manifests.
SourceManifests ==
    [kind : {"source"}, path : {t[1] : t \in SourceTarget}, rows : Rows, contract : Contract,
     fold : Fold, banks : SUBSET Bank]
CorpusManifests ==
    [kind : {"corpus"}, path : {t[1] : t \in CorpusTarget}, rows : Rows, contract : Contract, fold : Fold]

\* A materialization, the building of a corpus, and its use before and after
\* its manifest is read.
Materializing ==
    [at : {"verify", "read"} \cup Publishing, kind : {"source"}, contract : Contract, fold : Fold,
     target : SourceTarget, banks : SUBSET Bank, todo : SUBSET Bank, bank : Bank \cup {None}, rows : Rows]
Building ==
    [at : {"load"} \cup Publishing, kind : {"corpus"}, contract : Contract, fold : Fold,
     target : CorpusTarget, from : {t[1] : t \in SourceTarget}, rows : Rows]
Asking ==
    [at : {"manifest"}, kind : {"audit", "train"}, contract : Contract, fold : Fold,
     target : CorpusTarget, audit : AuditPath, rows : Rows]
Loading ==
    [at : {"hash", "rows", "audit", "train"}, kind : {"audit", "train"}, contract : Contract, fold : Fold,
     target : CorpusTarget, audit : AuditPath, manifest : CorpusManifests, rows : Rows]

\* A command in any of its shapes.
Command == {Idle} \cup Materializing \cup Building \cup Asking \cup Loading

\* Every file is of the kind its name says.
Kinds(f) ==
    /\ \A t \in Target : f[t[1]] \in Rows \cup {None}
    /\ \A t \in SourceTarget : f[t[2]] \in SourceManifests \cup {None}
    /\ \A t \in CorpusTarget : f[t[2]] \in CorpusManifests \cup {None}

\* The types, with the shapes of commands and files.
Shapes ==
    /\ now \in Contract
    /\ source \in [Bank -> Rows]
    /\ file = [p \in Path |-> file[p]]
    /\ Kinds(file)
    /\ op \in [Op -> Command]
    /\ drifts \in 0..MaxDrift
    /\ faults \in 0..MaxFaults
    /\ byHand \subseteq Path
    /\ torn \subseteq Bank \X Replacement

(***************************************************************************)
(* The invariant                                                           *)
(***************************************************************************)
\* Rows that prove the answers of a contract.
Correct(rows, c, ids) == \A id \in ids : rows[id].clean /\ rows[id].text \in Right[c][id]

\* What a materialization has verified so far.
Verified(c) ==
    /\ c.at \in {"verify", "read"} =>
          /\ Correct(c.rows, c.contract, DOMAIN c.rows \cap Training(c.contract, c.fold))
          /\ \A b \in c.banks \ c.todo : Authorized(b, c.contract)
    /\ c.at = "read" => c.bank \in c.todo /\ Authorized(c.bank, c.contract)
    /\ c.at \in Publishing =>
          /\ DOMAIN c.rows = Training(c.contract, c.fold)
          /\ Correct(c.rows, c.contract, DOMAIN c.rows)
          /\ \A b \in c.banks : Authorized(b, c.contract)

\* What an audit or a training run has read is valid and as the manifest says.
Checked(c) ==
    c.at \in {"audit", "train"} =>
        c.at = c.kind /\ Valid(c.rows, c.contract, c.fold) /\ c.rows = c.manifest.rows

\* What a command relies on it has checked.
Sound ==
    \A o \in Op : /\ op[o] \in Materializing => Verified(op[o])
                  /\ op[o] \in Loading => Checked(op[o])

\* The file of a bank is as the ledger derives it, or was replaced after a check.
Trusted(b) == source[b] = Ledger[b].rows \/ <<b, source[b]>> \in torn

\* Where the rows of a materialization are from, and will be from.
Sourced(c) ==
    /\ c.todo \subseteq c.banks
    /\ \A id \in DOMAIN c.rows : \E b \in c.banks : OfBank(c.rows[id], id, b)
    /\ c.at = "read" => c.bank \in c.banks /\ Trusted(c.bank)

\* Every materialization has its rows from its banks.
Traced == \A o \in Op : op[o] \in Materializing => Sourced(op[o])

\* Records that wait for their manifest are those of the command that linked
\* them, and of no other command and no manifest.
Owned ==
    \A o \in Op : op[o].at = "link_manifest" =>
        LET p == op[o].target[1] IN
            p \notin byHand =>
                /\ file[p] = op[o].rows
                /\ \A m \in Manifests(Target) : m.path # p
                /\ \A q \in Op : op[q].at = "link_manifest" /\ op[q].target[1] = p => q = o

\* The inductive invariant.
IInv ==
    /\ Shapes
    /\ Sound
    /\ Traced
    /\ Owned
    /\ ManifestNamesRecords
    /\ MaterializedExactly
    /\ PromotedOnly
    /\ \A t \in trained : t.rows \in Rows
    /\ TrainedAsNamed

(***************************************************************************)
(* Rows                                                                    *)
(***************************************************************************)
\* Rows are rows of some problems.
LEMMA RowsAre ==
    ASSUME NEW r \in Rows
    PROVE  /\ DOMAIN r \subseteq Id
           /\ r = [id \in DOMAIN r |-> r[id]]
           /\ \A id \in DOMAIN r : r[id] \in Row
BY DEF Rows

\* Whatever gives a row to each of some problems is rows.
LEMMA RowsFrom ==
    ASSUME NEW ids \in SUBSET Id, NEW r \in [ids -> Row]
    PROVE  r \in Rows
BY DEF Rows

\* A command that has read nothing.
LEMMA NoRows == <<>> \in Rows /\ DOMAIN <<>> = {}
<1>1. <<>> \in [{} -> Row] /\ DOMAIN <<>> = {}
  OBVIOUS
<1> QED
  BY <1>1, RowsFrom

\* Where a command is tells its shape.
LEMMA ShapeOf ==
    ASSUME NEW c \in Command
    PROVE  /\ c.at \in {"verify", "read"} => c \in Materializing
           /\ c.at = "load" => c \in Building
           /\ c.at \in Publishing => c \in Materializing \cup Building
           /\ c.at = "manifest" => c \in Asking
           /\ c.at \in {"hash", "rows", "audit", "train"} => c \in Loading
           /\ c \in Materializing => c \notin Loading /\ c \notin Building
           /\ c \in Building => c \notin Loading
           /\ c \in Asking => c \notin Loading /\ c \notin Materializing
BY DEF Command, Idle, Materializing, Building, Asking, Loading, Publishing

(***************************************************************************)
(* Steps that write no file                                                *)
(***************************************************************************)
\* A row stays one of its bank's, and what is materialized stays promoted.
LEMMA PromotedStep ==
    ASSUME PromotedOnly, Manifests(SourceTarget)' = Manifests(SourceTarget), torn \subseteq torn'
    PROVE  PromotedOnly'
<1>1. \A row, id, b : OfBank(row, id, b) => OfBank(row, id, b)'
  BY DEF OfBank
<1>2. \A b, c : Authorized(b, c)' <=> Authorized(b, c)
  BY DEF Authorized
<1> QED
  BY <1>1, <1>2 DEF PromotedOnly

\* A command that ends, and no other, loses sight of where its rows are from.
LEMMA TracedStep ==
    ASSUME Traced, UNCHANGED <<source, torn>>,
           \A q \in Op : op'[q] = op[q] \/ op'[q] \notin Materializing
    PROVE  Traced'
BY DEF Traced, Sourced, Trusted, OfBank

\* Nothing is disturbed as long as no command gets to its manifest, each one
\* keeps its shape and stands by what it has checked.
LEMMA StillStep ==
    ASSUME IInv, UNCHANGED <<file, byHand, trained>>, Traced',
           torn \subseteq torn', torn' \subseteq Bank \X Replacement,
           now' \in Contract, source' \in [Bank -> Rows], drifts' \in 0..MaxDrift, faults' \in 0..MaxFaults,
           op' \in [Op -> Command],
           \A o \in Op : /\ op'[o] \in Materializing => Verified(op'[o])
                         /\ op'[o] \in Loading => Checked(op'[o])
                         /\ op'[o].at = "link_manifest" => op'[o] = op[o]
    PROVE  IInv'
<1>1. Shapes' /\ Sound'
  BY DEF IInv, Shapes, Kinds, Sound
<1>2. Owned'
  BY DEF IInv, Owned, Manifests
<1>3. ManifestNamesRecords' /\ MaterializedExactly' /\ PromotedOnly'
  <2>1. Manifests(SourceTarget)' = Manifests(SourceTarget)
    BY DEF Manifests
  <2>2. PromotedOnly'
    BY <2>1, PromotedStep DEF IInv
  <2> QED
    BY <2>2 DEF IInv, ManifestNamesRecords, MaterializedExactly, Manifests
<1>4. (\A t \in trained : t.rows \in Rows)' /\ TrainedAsNamed'
  BY DEF IInv, TrainedAsNamed
<1> QED
  BY <1>1, <1>2, <1>3, <1>4 DEF IInv

\* A step of one command that changes nothing but what that command has read.
LEMMA PrivateStep ==
    ASSUME IInv, NEW o \in Op, NEW c \in Command,
           op' = [op EXCEPT ![o] = c], UNCHANGED <<world, file, trained>>,
           c \in Materializing => Verified(c) /\ Sourced(c),
           c \in Loading => Checked(c), c.at # "link_manifest"
    PROVE  IInv'
<1>1. op \in [Op -> Command] /\ Sound /\ Traced
  BY DEF IInv, Shapes
<1>2. op' \in [Op -> Command]
  BY <1>1
<1>3. ASSUME NEW q \in Op
      PROVE  /\ op'[q] \in Materializing => Verified(op'[q])
             /\ op'[q] \in Loading => Checked(op'[q])
             /\ op'[q].at = "link_manifest" => op'[q] = op[q]
  <2>1. CASE q = o
    BY <1>1, <2>1
  <2>2. CASE q # o
    BY <1>1, <2>2 DEF Sound
  <2> QED
    BY <2>1, <2>2
<1>4. now' \in Contract /\ source' \in [Bank -> Rows] /\ drifts' \in 0..MaxDrift /\ faults' \in 0..MaxFaults
  BY DEF IInv, Shapes, world
<1>5. Traced'
  <2>1. c \in Materializing => Sourced(c)'
    BY DEF Sourced, Trusted, OfBank, world
  <2>2. ASSUME NEW q \in Op, q # o, op[q] \in Materializing PROVE Sourced(op[q])'
    BY <1>1, <2>2 DEF Traced, Sourced, Trusted, OfBank, world
  <2> QED
    BY <1>1, <2>1, <2>2 DEF Traced
<1>6. torn' = torn /\ torn \subseteq Bank \X Replacement
  BY DEF IInv, Shapes, world
<1> QED
  BY <1>2, <1>3, <1>4, <1>5, <1>6, StillStep DEF world

\* A command that ends has nothing to stand by.
LEMMA IdleSound == Idle \in Command /\ Idle \notin Materializing /\ Idle \notin Loading /\ Idle.at = "idle"
BY DEF Command, Idle, Materializing, Loading, Publishing

\* A command that gives up.
LEMMA EndStep ==
    ASSUME IInv, NEW o \in Op, End(o), UNCHANGED <<world, file, trained>>
    PROVE  IInv'
BY IdleSound, PrivateStep DEF End

(***************************************************************************)
(* Materialization                                                         *)
(***************************************************************************)
\* An acceptable bank is authorized under the contract it was accepted under.
LEMMA AcceptedIsAuthorized ==
    ASSUME NEW b \in Bank, NEW c \in Contract, Acceptable(b, c)
    PROVE  Authorized(b, c)
BY DEF Acceptable, Promoted, PilotReceipt, ProbeDecision, Authorized

\* A materialization verifies its banks one by one, keeps to the rows that are
\* correct, and publishes the rows of exactly the problems of its fold.
LEMMA MaterializeStep ==
    ASSUME IInv, NEW o \in Op, Materialize(o)
    PROVE  IInv'
<1> USE DEF Publishing
<1>1. Shapes /\ Sound /\ Traced /\ op[o] \in Command
  BY DEF IInv, Shapes
<1>2. CASE StartMaterialize(o)
  <2>1. PICK fold \in Fold, banks \in (SUBSET Bank) \ {{}}, target \in SourceTarget :
          op' = [op EXCEPT ![o] = [at |-> "verify", kind |-> "source", contract |-> Given, fold |-> fold,
                                   target |-> target, banks |-> banks, todo |-> banks, bank |-> None, rows |-> <<>>]]
    BY <1>2 DEF StartMaterialize
  <2> DEFINE c == [at |-> "verify", kind |-> "source", contract |-> Given, fold |-> fold,
                   target |-> target, banks |-> banks, todo |-> banks, bank |-> None, rows |-> <<>>]
  <2>2. c \in Materializing
    BY <1>1, NoRows DEF Shapes, Materializing, Given
  <2>3. Verified(c) /\ Sourced(c)
    BY NoRows DEF Verified, Correct, Sourced
  <2>4. c \in Command /\ c \notin Loading
    BY <2>2, ShapeOf DEF Command
  <2> QED
    BY <1>2, <2>1, <2>2, <2>3, <2>4, PrivateStep DEF StartMaterialize
<1>3. CASE VerifyBank(o)
  <2>1. op[o] \in Materializing /\ Verified(op[o]) /\ Sourced(op[o])
    BY <1>1, <1>3, ShapeOf DEF VerifyBank, Sound, Traced
  <2>2. PICK b \in op[o].todo :
          \/ /\ Acceptable(b, op[o].contract)
             /\ op' = [op EXCEPT ![o].at = "read", ![o].bank = b]
          \/ /\ ~Acceptable(b, op[o].contract)
             /\ End(o)
    BY <1>3 DEF VerifyBank
  <2>3. CASE Acceptable(b, op[o].contract) /\ op' = [op EXCEPT ![o].at = "read", ![o].bank = b]
    <3> DEFINE c == [op[o] EXCEPT !.at = "read", !.bank = b]
    <3>1. b \in Bank /\ op[o].contract \in Contract
      BY <2>1 DEF Materializing
    <3>2. Authorized(b, op[o].contract)
      BY <2>3, <3>1, AcceptedIsAuthorized
    <3>3. c \in Materializing /\ c.at = "read" /\ c.bank = b /\ c.rows = op[o].rows
          /\ c.contract = op[o].contract /\ c.fold = op[o].fold /\ c.banks = op[o].banks /\ c.todo = op[o].todo
      BY <2>1, <3>1 DEF Materializing
    <3>4. op' = [op EXCEPT ![o] = c]
      BY <1>1, <2>3 DEF Shapes
    <3> HIDE DEF c
    <3>5. Verified(c)
      BY <1>3, <2>1, <3>2, <3>3 DEF Verified, VerifyBank
    <3>7. Sourced(c)
      BY <2>1, <2>3, <3>3 DEF Sourced, Trusted, Acceptable, Derived
    <3>6. c \in Command /\ c \notin Loading
      BY <3>3, ShapeOf DEF Command
    <3> QED
      BY <1>3, <3>3, <3>4, <3>5, <3>6, <3>7, PrivateStep DEF VerifyBank
  <2> QED
    BY <1>3, <2>2, <2>3, EndStep DEF VerifyBank
<1>4. CASE ReadBank(o)
  <2> DEFINE b == op[o].bank
             new == source[b]
             old == op[o].rows
             all == [id \in DOMAIN old \cup DOMAIN new |-> IF id \in DOMAIN new THEN new[id] ELSE old[id]]
             scope == Training(op[o].contract, op[o].fold)
  <2>1. op[o] \in Materializing /\ Verified(op[o]) /\ Sourced(op[o])
    BY <1>1, <1>4, ShapeOf DEF ReadBank, Sound, Traced
  <2>2. b \in op[o].todo /\ Authorized(b, op[o].contract) /\ b \in Bank
    BY <1>4, <2>1 DEF Verified, ReadBank, Materializing
  <2>3. CASE /\ DOMAIN new = Ids(b)
             /\ Selectable(op[o].contract, op[o].fold, new)
             /\ op' = [op EXCEPT ![o].at = "verify", ![o].todo = @ \ {b}, ![o].rows = all]
    <3> DEFINE c == [op[o] EXCEPT !.at = "verify", !.todo = @ \ {b}, !.rows = all]
    <3>1. new \in Rows /\ old \in Rows
      BY <1>1, <2>1, <2>2 DEF Shapes, Materializing
    <3>2. all \in Rows /\ DOMAIN all = DOMAIN old \cup DOMAIN new
      <4>1. DOMAIN old \cup DOMAIN new \in SUBSET Id
        BY <3>1, RowsAre
      <4>2. all \in [DOMAIN old \cup DOMAIN new -> Row]
        BY <3>1, RowsAre
      <4> HIDE DEF all
      <4> QED
        BY <4>1, <4>2, RowsFrom
    <3>3. Correct(all, op[o].contract, DOMAIN all \cap scope)
      <4>1. Correct(old, op[o].contract, DOMAIN old \cap scope)
        BY <1>4, <2>1 DEF Verified, ReadBank
      <4> QED
        BY <2>3, <4>1 DEF Selectable, Correct
    <3>9. \A id \in DOMAIN all : \E d \in op[o].banks : OfBank(all[id], id, d)
      <4>1. b \in op[o].banks /\ Trusted(b)
        BY <1>4, <2>1 DEF Sourced, ReadBank
      <4>2. ASSUME NEW id \in DOMAIN new PROVE OfBank(new[id], id, b)
        BY <2>3, <4>1, <4>2 DEF Trusted, OfBank
      <4>3. ASSUME NEW id \in DOMAIN old PROVE \E d \in op[o].banks : OfBank(old[id], id, d)
        BY <2>1, <4>3 DEF Sourced
      <4> QED
        BY <4>1, <4>2, <4>3
    <3> HIDE DEF all
    <3>4. c \in Materializing /\ c.at = "verify" /\ c.rows = all /\ c.todo = op[o].todo \ {b}
          /\ c.contract = op[o].contract /\ c.fold = op[o].fold /\ c.banks = op[o].banks
      BY <2>1, <3>2 DEF Materializing
    <3>5. op' = [op EXCEPT ![o] = c]
      BY <1>1, <2>3 DEF Shapes
    <3>6. \A d \in op[o].banks \ op[o].todo : Authorized(d, op[o].contract)
      BY <1>4, <2>1 DEF Verified, ReadBank
    <3> HIDE DEF c
    <3>7. Verified(c) /\ Sourced(c)
      BY <2>1, <2>2, <3>3, <3>4, <3>6, <3>9 DEF Verified, Sourced
    <3>8. c \in Command /\ c \notin Loading
      BY <3>4, ShapeOf DEF Command
    <3> QED
      BY <1>4, <3>4, <3>5, <3>7, <3>8, PrivateStep DEF ReadBank
  <2>4. \/ /\ DOMAIN new = Ids(b)
           /\ Selectable(op[o].contract, op[o].fold, new)
           /\ op' = [op EXCEPT ![o].at = "verify", ![o].todo = @ \ {b}, ![o].rows = all]
        \/ End(o)
    BY <1>1, <1>4, <2>1 DEF ReadBank, Shapes, Materializing
  <2> QED
    BY <1>4, <2>3, <2>4, EndStep DEF ReadBank
<1>5. CASE SelectRows(o)
  <2>1. op[o] \in Materializing /\ Verified(op[o]) /\ Sourced(op[o])
    BY <1>1, <1>5, ShapeOf DEF SelectRows, Sound, Traced
  <2>2. CASE /\ Training(op[o].contract, op[o].fold) \subseteq DOMAIN op[o].rows
             /\ op' = [op EXCEPT ![o].at = "targets", ![o].rows = Selected(o)]
    <3> DEFINE scope == Training(op[o].contract, op[o].fold)
               c == [op[o] EXCEPT !.at = "targets", !.rows = Selected(o)]
    <3>1. op[o].rows \in Rows
      BY <2>1 DEF Materializing
    <3>2. Selected(o) = [id \in scope |-> op[o].rows[id]]
      BY <2>2 DEF Selected, Restrict
    <3>3. Selected(o) \in Rows /\ DOMAIN Selected(o) = scope
      <4>1. scope \in SUBSET Id
        BY DEF Training
      <4>2. Selected(o) \in [scope -> Row]
        BY <2>2, <3>1, <3>2, RowsAre
      <4> QED
        BY <3>2, <4>1, <4>2, RowsFrom
    <3>4. Correct(Selected(o), op[o].contract, scope)
      BY <1>5, <2>1, <2>2, <3>2 DEF Verified, Correct, SelectRows
    <3>5. c \in Materializing /\ c.at = "targets" /\ c.rows = Selected(o)
          /\ c.contract = op[o].contract /\ c.fold = op[o].fold /\ c.banks = op[o].banks /\ c.todo = op[o].todo
      BY <2>1, <3>3 DEF Materializing
    <3>6. op' = [op EXCEPT ![o] = c]
      BY <1>1, <2>2 DEF Shapes
    <3>7. \A d \in op[o].banks : Authorized(d, op[o].contract)
      BY <1>5, <2>1 DEF Verified, SelectRows
    <3> HIDE DEF c
    <3>8. Verified(c)
      BY <3>3, <3>4, <3>5, <3>7 DEF Verified
    <3>9. c \in Command /\ c \notin Loading
      BY <3>5, ShapeOf DEF Command
    <3>10. Sourced(c)
      BY <2>1, <2>2, <3>2, <3>3, <3>5 DEF Sourced
    <3> QED
      BY <1>5, <3>5, <3>6, <3>8, <3>9, <3>10, PrivateStep DEF SelectRows
  <2> QED
    BY <1>5, <2>2, EndStep DEF SelectRows
<1> QED
  BY <1>2, <1>3, <1>4, <1>5 DEF Materialize

(***************************************************************************)
(* Reading                                                                 *)
(***************************************************************************)
\* The commands that read a source or a corpus: what they go on with is valid,
\* and what they audit or learn from is what the manifest names.
LEMMA ReadStep ==
    ASSUME IInv, NEW o \in Op, Build(o) \/ Load(o) \/ StartAudit(o) \/ StartTrain(o) \/ CheckTargets(o)
    PROVE  IInv'
<1> USE DEF Publishing
<1>1. Shapes /\ Sound /\ Traced /\ op[o] \in Command
  BY DEF IInv, Shapes
<1>2. CASE StartBuild(o)
  <2>1. PICK fold \in Fold, from \in SourceTarget, target \in CorpusTarget :
          op' = [op EXCEPT ![o] = [at |-> "load", kind |-> "corpus", contract |-> Given, fold |-> fold,
                                   target |-> target, from |-> from[1], rows |-> <<>>]]
    BY <1>2 DEF StartBuild
  <2> DEFINE c == [at |-> "load", kind |-> "corpus", contract |-> Given, fold |-> fold,
                   target |-> target, from |-> from[1], rows |-> <<>>]
  <2>2. c \in Building /\ c.at = "load"
    BY <1>1, NoRows DEF Shapes, Building, Given
  <2>3. c \in Command /\ c \notin Loading /\ c \notin Materializing
    BY <2>2, ShapeOf DEF Command
  <2> QED
    BY <1>2, <2>1, <2>2, <2>3, PrivateStep DEF StartBuild
<1>3. CASE LoadSource(o)
  <2>1. op[o] \in Building
    BY <1>1, <1>3, ShapeOf DEF LoadSource
  <2>2. CASE /\ Valid(file[op[o].from], op[o].contract, op[o].fold)
             /\ op' = [op EXCEPT ![o].at = "targets", ![o].rows = file[op[o].from]]
    <3> DEFINE rows == file[op[o].from]
               c == [op[o] EXCEPT !.at = "targets", !.rows = rows]
    <3>1. rows \in Rows
      <4>1. PICK t \in SourceTarget : op[o].from = t[1]
        BY <2>1 DEF Building
      <4> QED
        BY <1>1, <2>2, <4>1 DEF Shapes, Kinds, Target, Valid
    <3>2. c \in Building /\ c.at = "targets"
      BY <2>1, <3>1 DEF Building
    <3>3. op' = [op EXCEPT ![o] = c]
      BY <1>1, <2>2 DEF Shapes
    <3> HIDE DEF c
    <3>4. c \in Command /\ c \notin Loading /\ c \notin Materializing
      BY <3>2, ShapeOf DEF Command
    <3> QED
      BY <1>3, <3>2, <3>3, <3>4, PrivateStep DEF LoadSource
  <2> QED
    BY <1>3, <2>2, EndStep DEF LoadSource
<1>4. CASE StartAudit(o) \/ StartTrain(o)
  <2>1. PICK purpose \in {"audit", "train"}, fold \in Fold, target \in CorpusTarget, audit \in AuditPath :
          op' = [op EXCEPT ![o] = [at |-> "manifest", kind |-> purpose, contract |-> Given, fold |-> fold,
                                   target |-> target, audit |-> audit, rows |-> <<>>]]
    BY <1>4 DEF StartAudit, StartTrain, Use
  <2> DEFINE c == [at |-> "manifest", kind |-> purpose, contract |-> Given, fold |-> fold,
                   target |-> target, audit |-> audit, rows |-> <<>>]
  <2>2. c \in Asking /\ c.at = "manifest"
    BY <1>1, NoRows DEF Shapes, Asking, Given
  <2>3. c \in Command /\ c \notin Loading /\ c \notin Materializing
    BY <2>2, ShapeOf DEF Command
  <2>4. UNCHANGED <<world, file, trained>>
    BY <1>4 DEF StartAudit, StartTrain, Use
  <2> QED
    BY <2>1, <2>2, <2>3, <2>4, PrivateStep
<1>5. CASE ReadManifest(o)
  <2>1. op[o] \in Asking
    BY <1>1, <1>5, ShapeOf DEF ReadManifest
  <2> DEFINE m == file[op[o].target[2]]
             c == [at |-> "hash", kind |-> op[o].kind, contract |-> op[o].contract,
                   fold |-> op[o].fold, target |-> op[o].target,
                   audit |-> op[o].audit, manifest |-> m, rows |-> <<>>]
  <2>2. CASE IsManifest(m) /\ Bound(m, o) /\ op' = [op EXCEPT ![o] = c]
    <3>1. m \in CorpusManifests
      BY <1>1, <2>1, <2>2 DEF Asking, IsManifest, Shapes, Kinds
    <3>2. c \in Loading /\ c.at = "hash"
      BY <2>1, <3>1, NoRows DEF Asking, Loading
    <3> HIDE DEF c
    <3>3. c \in Command /\ c \notin Materializing
      BY <3>2, ShapeOf DEF Command
    <3>4. Checked(c)
      BY <3>2 DEF Checked
    <3> QED
      BY <1>5, <2>2, <3>2, <3>3, <3>4, PrivateStep DEF ReadManifest
  <2> QED
    BY <1>5, <2>2, EndStep DEF ReadManifest
<1>6. CASE HashRecords(o)
  <2>1. op[o] \in Loading
    BY <1>1, <1>6, ShapeOf DEF HashRecords
  <2>2. CASE Goto(o, "rows")
    <3> DEFINE c == [op[o] EXCEPT !.at = "rows"]
    <3>1. c \in Loading /\ c.at = "rows"
      BY <2>1 DEF Loading
    <3>2. op' = [op EXCEPT ![o] = c]
      BY <1>1, <2>2 DEF Shapes, Goto
    <3> HIDE DEF c
    <3>3. c \in Command /\ c \notin Materializing /\ Checked(c)
      BY <3>1, ShapeOf DEF Command, Checked
    <3> QED
      BY <1>6, <3>1, <3>2, <3>3, PrivateStep DEF HashRecords
  <2> QED
    BY <1>6, <2>2, EndStep DEF HashRecords
<1>7. CASE ReadRows(o)
  <2>1. op[o] \in Loading
    BY <1>1, <1>7, ShapeOf DEF ReadRows
  <2> DEFINE rows == file[op[o].target[1]]
  <2>2. CASE /\ Valid(rows, op[o].contract, op[o].fold) /\ Derives(rows, op[o].manifest)
             /\ op' = [op EXCEPT ![o].at = op[o].kind, ![o].rows = rows]
    <3> DEFINE c == [op[o] EXCEPT !.at = op[o].kind, !.rows = rows]
    <3>1. rows \in Rows
      BY <2>1, <2>2 DEF Loading, CorpusManifests, Derives
    <3>2. op[o].kind \in {"audit", "train"}
      BY <2>1 DEF Loading
    <3>3. c \in Loading /\ c.at = op[o].kind /\ c.kind = op[o].kind /\ c.rows = rows
          /\ c.manifest = op[o].manifest /\ c.contract = op[o].contract /\ c.fold = op[o].fold
      BY <2>1, <3>1, <3>2 DEF Loading
    <3>4. op' = [op EXCEPT ![o] = c]
      BY <1>1, <2>2 DEF Shapes
    <3> HIDE DEF c
    <3>5. Checked(c)
      BY <2>2, <3>3 DEF Checked, Derives
    <3>6. c \in Command /\ c \notin Materializing /\ c.at # "link_manifest"
      BY <3>2, <3>3, ShapeOf DEF Command
    <3> QED
      BY <1>7, <3>3, <3>4, <3>5, <3>6, PrivateStep DEF ReadRows
  <2> QED
    BY <1>7, <2>2, EndStep DEF ReadRows
<1>8. CASE CheckTargets(o)
  <2>1. op[o] \in Materializing \cup Building
    BY <1>1, <1>8, ShapeOf DEF CheckTargets
  <2>2. CASE Goto(o, "link_records")
    <3> DEFINE c == [op[o] EXCEPT !.at = "link_records"]
    <3>1. op' = [op EXCEPT ![o] = c]
      BY <1>1, <2>2 DEF Shapes, Goto
    <3>2. CASE op[o] \in Materializing
      <4>1. c \in Materializing /\ c.at = "link_records" /\ c.rows = op[o].rows /\ c.todo = op[o].todo
            /\ c.contract = op[o].contract /\ c.fold = op[o].fold /\ c.banks = op[o].banks
        BY <3>2 DEF Materializing
      <4>2. Verified(op[o]) /\ Sourced(op[o])
        BY <1>1, <3>2 DEF Sound, Traced
      <4> HIDE DEF c
      <4>3. Verified(c) /\ Sourced(c)
        BY <1>8, <4>1, <4>2 DEF Verified, Sourced, CheckTargets
      <4>4. c \in Command /\ c \notin Loading
        BY <4>1, ShapeOf DEF Command
      <4> QED
        BY <1>8, <3>1, <4>1, <4>3, <4>4, PrivateStep DEF CheckTargets
    <3>3. CASE op[o] \in Building
      <4>1. c \in Building /\ c.at = "link_records"
        BY <3>3 DEF Building
      <4> HIDE DEF c
      <4>2. c \in Command /\ c \notin Loading /\ c \notin Materializing
        BY <4>1, ShapeOf DEF Command
      <4> QED
        BY <1>8, <3>1, <4>1, <4>2, PrivateStep DEF CheckTargets
    <3> QED
      BY <2>1, <3>2, <3>3
  <2> QED
    BY <1>8, <2>2, EndStep DEF CheckTargets
<1> QED
  BY <1>2, <1>3, <1>4, <1>5, <1>6, <1>7, <1>8 DEF Build, Load

(***************************************************************************)
(* Publication                                                             *)
(***************************************************************************)
\* A command that publishes has rows and a target.
LEMMA PublishingTyped ==
    ASSUME NEW c \in Command, c.at \in Publishing
    PROVE  c.rows \in Rows /\ c.target \in Target
<1>1. c \in Materializing \cup Building
  BY ShapeOf
<1> QED
  BY <1>1 DEF Materializing, Building, Target

\* A manifest names rows and a path of records.
LEMMA ManifestTyped ==
    ASSUME Shapes, NEW m \in Manifests(Target)
    PROVE  m.rows \in Rows /\ \E t \in Target : m.path = t[1]
<1>1. PICK t \in Target : m = file[t[2]] /\ m # None
  BY DEF Manifests
<1>2. m \in SourceManifests \cup CorpusManifests
  BY <1>1 DEF Shapes, Kinds, Target
<1> QED
  BY <1>2 DEF SourceManifests, CorpusManifests, Target

\* Manifests do not change when another file does.
LEMMA SameManifests ==
    ASSUME Shapes, NEW t \in Target, NEW x, file' = [file EXCEPT ![t[1]] = x]
    PROVE  /\ Manifests(Target)' = Manifests(Target)
           /\ Manifests(SourceTarget)' = Manifests(SourceTarget)
<1>1. \A s \in Target : file'[s[2]] = file[s[2]]
  BY NameAssumption DEF Shapes, Path, Target
<1> QED
  BY <1>1 DEF Manifests, Target

\* Records are linked under a free name: no other command and no manifest
\* counts on what is there.
LEMMA LinkRecordsStep ==
    ASSUME IInv, NEW o \in Op, LinkRecords(o)
    PROVE  IInv'
<1> USE DEF Publishing
<1>1. Shapes /\ Sound /\ Traced /\ Owned /\ ManifestNamesRecords /\ op[o] \in Command
  BY DEF IInv, Shapes
<1> DEFINE p == op[o].target[1]
           c == [op[o] EXCEPT !.at = "link_manifest"]
<1>2. op[o].rows \in Rows /\ op[o].target \in Target /\ op[o] \in Materializing \cup Building
  BY <1>1, PublishingTyped, ShapeOf DEF LinkRecords
<1>3. CASE /\ file[p] = None
           /\ file' = [file EXCEPT ![p] = op[o].rows]
           /\ op' = [op EXCEPT ![o] = c]
  <2>1. op' \in [Op -> Command] /\ Sound' /\ Traced'
    <3>1. c \in Command /\ (c \in Materializing => op[o] \in Materializing) /\ c \notin Loading
      BY <1>2 DEF Command, Materializing, Building, Loading
    <3>2. ASSUME c \in Materializing PROVE Verified(c) /\ Sourced(c)
      <4>1. op[o] \in Materializing /\ Verified(op[o]) /\ Sourced(op[o])
        BY <1>1, <3>1, <3>2 DEF Sound, Traced
      <4>2. c.at = "link_manifest" /\ c.rows = op[o].rows /\ c.todo = op[o].todo
            /\ c.contract = op[o].contract /\ c.fold = op[o].fold /\ c.banks = op[o].banks
        BY <4>1 DEF Materializing
      <4> HIDE DEF c
      <4> QED
        BY <1>3, <4>1, <4>2 DEF Verified, Sourced, LinkRecords
    <3> HIDE DEF c
    <3>3. \A q \in Op : op'[q] = IF q = o THEN c ELSE op[q]
      BY <1>1, <1>3 DEF Shapes
    <3>4. op' \in [Op -> Command] /\ Sound'
      BY <1>1, <1>3, <3>1, <3>2 DEF Sound, Shapes
    <3>5. \A q \in Op : op'[q] \in Materializing => Sourced(op'[q])
      BY <1>1, <3>2, <3>3 DEF Traced
    <3>6. UNCHANGED <<source, torn>>
      BY DEF LinkRecords, world
    <3>7. Traced'
      BY <3>5, <3>6 DEF Traced, Sourced, Trusted, OfBank
    <3> QED
      BY <3>4, <3>7
  <2>2. c.at = "link_manifest" /\ c.rows = op[o].rows /\ c.target = op[o].target
    BY <1>2 DEF Materializing, Building
  <2> HIDE DEF c
  <2>3. \A q \in Op : op'[q] = IF q = o THEN c ELSE op[q]
    BY <1>1, <1>3 DEF Shapes
  <2>4. p \in Path /\ \A s \in Path : file'[s] = IF s = p THEN op[o].rows ELSE file[s]
    BY <1>1, <1>2, <1>3 DEF Shapes, Path
  <2>5. Shapes'
    <3>1. Kinds(file)'
      <4>1. \A t \in Target : file'[t[1]] \in Rows \cup {None}
        BY <1>1, <1>2, <2>4 DEF Shapes, Kinds, Path
      <4>2. \A t \in Target : file'[t[2]] = file[t[2]]
        BY <1>2, <2>4, NameAssumption DEF Path
      <4> QED
        BY <1>1, <4>1, <4>2 DEF Shapes, Kinds, Target
    <3>2. file' = [q \in Path |-> file'[q]]
      BY <1>1, <1>3 DEF Shapes
    <3> QED
      BY <1>1, <2>1, <3>1, <3>2 DEF LinkRecords, Shapes, world
  <2>6. Manifests(Target)' = Manifests(Target) /\ Manifests(SourceTarget)' = Manifests(SourceTarget)
    BY <1>1, <1>2, <1>3, SameManifests
  <2>7. None \notin Rows /\ byHand' = byHand
    BY ChainAssumption DEF LinkRecords, world
  <2>8. ASSUME p \notin byHand
        PROVE  /\ \A m \in Manifests(Target) : m.path # p
               /\ \A q \in Op : op[q].at = "link_manifest" => op[q].target[1] # p
    <3>1. \A m \in Manifests(Target) : m.path # p
      BY <1>1, <1>3, <2>7, <2>8, ManifestTyped DEF ManifestNamesRecords
    <3>2. ASSUME NEW q \in Op, op[q].at = "link_manifest", op[q].target[1] = p PROVE FALSE
      <4>1. op[q].rows \in Rows
        BY <1>1, <3>2, PublishingTyped DEF Shapes
      <4> QED
        BY <1>1, <1>3, <2>7, <2>8, <3>2, <4>1 DEF Owned
    <3> QED
      BY <3>1, <3>2
  <2>9. Owned'
    <3>1. SUFFICES ASSUME NEW q \in Op, op'[q].at = "link_manifest", op'[q].target[1] \notin byHand
                   PROVE  /\ file'[op'[q].target[1]] = op'[q].rows
                          /\ \A m \in Manifests(Target) : m.path # op'[q].target[1]
                          /\ \A r \in Op : op'[r].at = "link_manifest" /\ op'[r].target[1] = op'[q].target[1]
                                              => r = q
      BY <2>6, <2>7 DEF Owned
    <3>2. CASE q = o
      BY <2>2, <2>3, <2>4, <2>8, <3>1, <3>2
    <3>3. CASE q # o
      <4>1. op'[q] = op[q] /\ (op[q].target[1] # p \/ p \in byHand)
        BY <2>3, <2>8, <3>1, <3>3
      <4>2. op[q].target[1] \in Path
        BY <1>1, <2>3, <3>1, <3>3, PublishingTyped DEF Shapes, Path
      <4> QED
        BY <1>1, <2>2, <2>3, <2>4, <3>1, <3>3, <4>1, <4>2 DEF Owned
    <3> QED
      BY <3>2, <3>3
  <2>10. ManifestNamesRecords'
    <3>1. \A m \in Manifests(Target) : m.path \in Path
      BY <1>1, ManifestTyped DEF Path
    <3> QED
      BY <1>1, <2>4, <2>6, <2>7, <2>8, <3>1 DEF ManifestNamesRecords
  <2>11. MaterializedExactly' /\ PromotedOnly'
    BY <2>6, PromotedStep DEF IInv, MaterializedExactly, LinkRecords, world
  <2>12. (\A t \in trained : t.rows \in Rows)' /\ TrainedAsNamed'
    BY DEF IInv, TrainedAsNamed, LinkRecords
  <2> QED
    BY <2>1, <2>5, <2>9, <2>10, <2>11, <2>12 DEF IInv
<1>4. CASE End(o) /\ UNCHANGED file
  BY <1>4, EndStep DEF LinkRecords
<1> QED
  BY <1>1, <1>3, <1>4 DEF LinkRecords, Goto, Shapes

\* The manifest is linked for records nobody else counts on, or they are taken
\* back.
LEMMA LinkManifestStep ==
    ASSUME IInv, NEW o \in Op, LinkManifest(o)
    PROVE  IInv'
<1> USE DEF Publishing
<1>1. /\ Shapes /\ Sound /\ Traced /\ Owned /\ ManifestNamesRecords /\ op[o] \in Command
      /\ op[o].at = "link_manifest"
  BY DEF IInv, Shapes, LinkManifest
<1> DEFINE p == op[o].target[1]
           d == op[o].target[2]
<1>2. op[o].rows \in Rows /\ op[o].target \in Target /\ op[o] \in Materializing \cup Building
  BY <1>1, PublishingTyped, ShapeOf
<1>3. op' \in [Op -> Command] /\ \A q \in Op : op'[q] = IF q = o THEN Idle ELSE op[q]
  BY <1>1, IdleSound DEF LinkManifest, End, Shapes
<1>4. Sound' /\ Traced'
  <2>1. Sound'
    BY <1>1, <1>3, IdleSound DEF Sound
  <2>2. Traced'
    BY <1>1, <1>3, IdleSound, TracedStep DEF LinkManifest, world
  <2> QED
    BY <2>1, <2>2
<1>5. p \in Path /\ d \in Path /\ p # d /\ byHand' = byHand /\ trained' = trained
  BY <1>2, NameAssumption DEF Path, LinkManifest, world
<1>6. (\A t \in trained : t.rows \in Rows)' /\ TrainedAsNamed'
  BY <1>5 DEF IInv, TrainedAsNamed
<1>7. ASSUME NEW q \in Op, op'[q].at = "link_manifest", op[q].target[1] \notin byHand
      PROVE  q # o /\ op'[q] = op[q] /\ op[q].target[1] # p /\ op[q].target[1] \in Path /\ op[q].target[1] # d
  <2>1. q # o /\ op'[q] = op[q]
    BY <1>3, <1>7, IdleSound
  <2>2. op[q].target \in Target
    BY <1>1, <1>7, <2>1, PublishingTyped DEF Shapes
  <2>3. op[q].target[1] # p
    BY <1>1, <1>7, <2>1 DEF Owned
  <2> QED
    BY <1>2, <2>1, <2>2, <2>3, NameAssumption DEF Path
<1>8. CASE file[d] = None /\ file' = [file EXCEPT ![d] = Manifest(o)]
  <2> DEFINE m == Manifest(o)
  <2>1. /\ m.path = p /\ m.rows = op[o].rows
        /\ op[o] \in Materializing => /\ m \in SourceManifests /\ m.contract = op[o].contract
                                      /\ m.fold = op[o].fold /\ m.banks = op[o].banks
        /\ op[o] \in Building => m \in CorpusManifests
    <3>1. CASE op[o] \in Materializing
      <4>1. m = SourceManifest(o) /\ op[o] \notin Building
        BY <3>1 DEF Manifest, Materializing, Building
      <4> QED
        BY <3>1, <4>1 DEF SourceManifest, Materializing, SourceManifests
    <3>2. CASE op[o] \in Building
      <4>1. m = CorpusManifest(o) /\ op[o] \notin Materializing
        BY <3>2 DEF Manifest, Materializing, Building
      <4> QED
        BY <3>2, <4>1 DEF CorpusManifest, Building, CorpusManifests
    <3> QED
      BY <1>2, <3>1, <3>2
  <2> HIDE DEF m
  <2>2. \A s \in Path : file'[s] = IF s = d THEN m ELSE file[s]
    BY <1>1, <1>8 DEF Shapes, m
  <2>3. \A t \in Target : file'[t[1]] = file[t[1]] /\ t[1] # d
    BY <1>2, <2>2, NameAssumption DEF Path
  <2>4. Shapes'
    <3>1. \A t \in SourceTarget : file'[t[2]] \in SourceManifests \cup {None}
      <4>1. SUFFICES ASSUME NEW t \in SourceTarget, t[2] = d PROVE m \in SourceManifests
        BY <1>1, <2>2 DEF Shapes, Kinds, Path, Target
      <4>2. op[o].target \notin CorpusTarget
        BY <4>1, NameAssumption
      <4> QED
        BY <1>2, <2>1, <4>2 DEF Building
    <3>2. \A t \in CorpusTarget : file'[t[2]] \in CorpusManifests \cup {None}
      <4>1. SUFFICES ASSUME NEW t \in CorpusTarget, t[2] = d PROVE m \in CorpusManifests
        BY <1>1, <2>2 DEF Shapes, Kinds, Path, Target
      <4>2. op[o].target \notin SourceTarget
        BY <4>1, NameAssumption
      <4> QED
        BY <1>2, <2>1, <4>2 DEF Materializing
    <3>3. file' = [q \in Path |-> file'[q]]
      BY <1>1, <1>8 DEF Shapes
    <3> QED
      BY <1>1, <1>3, <2>3, <3>1, <3>2, <3>3 DEF LinkManifest, Shapes, Kinds, world
  <2>5. \A n \in Manifests(Target)' : n = m \/ n \in Manifests(Target)
    BY <2>2 DEF Manifests, Path
  <2>6. \A n \in Manifests(SourceTarget)' :
          n \in Manifests(SourceTarget) \/ (n = m /\ op[o] \in Materializing)
    <3>1. \A t \in SourceTarget : t[2] = d => op[o] \in Materializing
      BY <1>2, NameAssumption DEF Building
    <3> QED
      BY <2>2, <3>1 DEF Manifests, Path, Target
  <2>7. \A n \in Manifests(Target) : n.path # d /\ n.path \in Path
    BY <1>1, <2>3, ManifestTyped DEF Path
  <2>8. Owned'
    <3>1. SUFFICES ASSUME NEW q \in Op, op'[q].at = "link_manifest", op[q].target[1] \notin byHand, op'[q] = op[q]
                   PROVE  /\ file'[op[q].target[1]] = op[q].rows
                          /\ \A n \in Manifests(Target)' : n.path # op[q].target[1]
                          /\ \A r \in Op : op'[r].at = "link_manifest" /\ op'[r].target[1] = op[q].target[1]
                                              => r = q
      BY <1>3, <1>5, IdleSound DEF Owned
    <3>2. q # o /\ op[q].target[1] # p /\ op[q].target[1] \in Path /\ op[q].target[1] # d
      BY <1>7, <3>1
    <3>3. file'[op[q].target[1]] = op[q].rows /\ \A n \in Manifests(Target)' : n.path # op[q].target[1]
      BY <1>1, <2>1, <2>2, <2>5, <3>1, <3>2 DEF Owned
    <3>4. \A r \in Op : op'[r].at = "link_manifest" => op'[r] = op[r]
      BY <1>3, IdleSound
    <3> QED
      BY <1>1, <3>1, <3>3, <3>4 DEF Owned
  <2>9. ManifestNamesRecords'
    BY <1>1, <1>5, <2>1, <2>2, <2>5, <2>7 DEF ManifestNamesRecords, Owned
  <2>10. MaterializedExactly' /\ PromotedOnly'
    <3>1. op[o] \in Materializing => /\ DOMAIN m.rows = Training(m.contract, m.fold)
                                     /\ Correct(m.rows, m.contract, DOMAIN m.rows)
                                     /\ \A b \in m.banks : Authorized(b, m.contract)
      BY <1>1, <2>1 DEF Sound, Verified
    <3>2. op[o] \in Materializing => \A id \in DOMAIN m.rows : \E b \in m.banks : OfBank(m.rows[id], id, b)
      BY <1>1, <2>1 DEF Traced, Sourced
    <3>3. MaterializedExactly'
      BY <2>6, <3>1 DEF IInv, MaterializedExactly, Correct
    <3>4. torn' = torn
      BY DEF LinkManifest, world
    <3>5. \A n \in Manifests(SourceTarget)' :
            /\ \A b \in n.banks : Authorized(b, n.contract)
            /\ \A id \in DOMAIN n.rows : \E b \in n.banks : OfBank(n.rows[id], id, b)
      BY <2>6, <3>1, <3>2 DEF IInv, PromotedOnly
    <3>6. PromotedOnly'
      BY <3>4, <3>5 DEF PromotedOnly, Authorized, OfBank
    <3> QED
      BY <3>3, <3>6
  <2> QED
    BY <1>3, <1>4, <1>6, <2>4, <2>8, <2>9, <2>10 DEF IInv
<1>9. CASE file' = [file EXCEPT ![p] = None]
  <2>1. \A s \in Path : file'[s] = IF s = p THEN None ELSE file[s]
    BY <1>1, <1>9 DEF Shapes
  <2>2. Manifests(Target)' = Manifests(Target) /\ Manifests(SourceTarget)' = Manifests(SourceTarget)
    BY <1>1, <1>2, <1>9, SameManifests
  <2>3. Shapes'
    <3>1. \A t \in Target : file'[t[1]] \in Rows \cup {None} /\ file'[t[2]] = file[t[2]]
      BY <1>1, <1>2, <2>1, NameAssumption DEF Shapes, Kinds, Path
    <3>2. file' = [q \in Path |-> file'[q]]
      BY <1>1, <1>9 DEF Shapes
    <3> QED
      BY <1>1, <1>3, <3>1, <3>2 DEF LinkManifest, Shapes, Kinds, Target, world
  <2>4. Owned'
    <3>1. SUFFICES ASSUME NEW q \in Op, op'[q].at = "link_manifest", op[q].target[1] \notin byHand, op'[q] = op[q]
                   PROVE  /\ file'[op[q].target[1]] = op[q].rows
                          /\ \A n \in Manifests(Target) : n.path # op[q].target[1]
                          /\ \A r \in Op : op'[r].at = "link_manifest" /\ op'[r].target[1] = op[q].target[1]
                                              => r = q
      BY <1>3, <1>5, <2>2, IdleSound DEF Owned
    <3>2. op[q].target[1] # p /\ op[q].target[1] \in Path
      BY <1>7, <3>1
    <3>3. \A r \in Op : op'[r].at = "link_manifest" => op'[r] = op[r]
      BY <1>3, IdleSound
    <3> QED
      BY <1>1, <2>1, <3>1, <3>2, <3>3 DEF Owned
  <2>5. ManifestNamesRecords'
    <3>1. \A m \in Manifests(Target) : m.path \in Path /\ (m.path \notin byHand => m.path # p)
      BY <1>1, ManifestTyped DEF Path, Owned
    <3> QED
      BY <1>1, <1>5, <2>1, <2>2, <3>1 DEF ManifestNamesRecords
  <2>6. MaterializedExactly' /\ PromotedOnly'
    BY <2>2, PromotedStep DEF IInv, MaterializedExactly, LinkManifest, world
  <2> QED
    BY <1>3, <1>4, <1>6, <2>3, <2>4, <2>5, <2>6 DEF IInv
<1> QED
  BY <1>8, <1>9 DEF LinkManifest

(***************************************************************************)
(* Use, and the environment                                                *)
(***************************************************************************)
\* An audit has a name of its own.
LEMMA WriteAuditStep ==
    ASSUME IInv, NEW o \in Op, WriteAudit(o)
    PROVE  IInv'
<1>1. Shapes /\ Sound /\ Traced /\ op[o] \in Command
  BY DEF IInv, Shapes
<1>2. op[o] \in Loading
  BY <1>1, ShapeOf DEF WriteAudit
<1>3. \A t \in Target : file'[t[1]] = file[t[1]] /\ file'[t[2]] = file[t[2]]
  BY <1>1, <1>2, NameAssumption DEF WriteAudit, Loading, Shapes, Path
<1>4. op' \in [Op -> Command] /\ \A q \in Op : op'[q] = IF q = o THEN Idle ELSE op[q]
  BY <1>1, IdleSound DEF WriteAudit, End, Shapes
<1>5. Manifests(Target)' = Manifests(Target) /\ Manifests(SourceTarget)' = Manifests(SourceTarget)
  BY <1>3 DEF Manifests, Target
<1>6. Shapes'
  <2>1. Kinds(file)'
    BY <1>1, <1>3 DEF Shapes, Kinds, Target
  <2>2. file' = [p \in Path |-> file'[p]]
    BY <1>1 DEF WriteAudit, Shapes
  <2> QED
    BY <1>1, <1>4, <2>1, <2>2 DEF WriteAudit, Shapes, world
<1>7. Sound' /\ Traced'
  <2>1. Sound'
    BY <1>1, <1>4, IdleSound DEF Sound
  <2>2. Traced'
    BY <1>1, <1>4, IdleSound, TracedStep DEF WriteAudit, world
  <2> QED
    BY <2>1, <2>2
<1>8. Owned'
  <2>1. \A q \in Op : op'[q].at = "link_manifest" => op'[q] = op[q] /\ op[q].target \in Target
    BY <1>1, <1>4, IdleSound, PublishingTyped DEF Shapes, Publishing
  <2>2. Owned /\ byHand' = byHand
    BY DEF IInv, WriteAudit, world
  <2> QED
    BY <1>3, <1>5, <2>1, <2>2 DEF Owned
<1>9. ManifestNamesRecords'
  BY <1>1, <1>3, <1>5, ManifestTyped DEF IInv, ManifestNamesRecords, WriteAudit, world
<1>10. MaterializedExactly' /\ PromotedOnly'
  BY <1>5, PromotedStep DEF IInv, MaterializedExactly, WriteAudit, world
<1>11. (\A t \in trained : t.rows \in Rows)' /\ TrainedAsNamed'
  BY DEF IInv, TrainedAsNamed, WriteAudit
<1> QED
  BY <1>6, <1>7, <1>8, <1>9, <1>10, <1>11 DEF IInv

\* A training run learns from rows it has checked.
LEMMA TrainStep ==
    ASSUME IInv, NEW o \in Op, Train(o)
    PROVE  IInv'
<1>1. Shapes /\ Sound /\ Traced /\ op[o] \in Command
  BY DEF IInv, Shapes
<1>2. op[o] \in Loading /\ Checked(op[o]) /\ op[o].at = "train"
  BY <1>1, ShapeOf DEF Train, Sound
<1> DEFINE t == [contract |-> op[o].contract, fold |-> op[o].fold,
                 rows |-> op[o].rows, named |-> op[o].manifest.rows]
<1>3. /\ t.rows \in Rows
      /\ t.rows = t.named
      /\ DOMAIN t.rows = Training(t.contract, t.fold)
      /\ \A id \in DOMAIN t.rows : t.rows[id].clean /\ t.rows[id].text \in Right[t.contract][id] \cap Short[t.contract]
  BY <1>2 DEF Checked, Loading, Valid, Proves, Concise, Evidenced
<1> HIDE DEF t
<1>4. trained' = trained \/ trained' = trained \cup {t}
  BY DEF Train, t
<1>5. (\A s \in trained : s.rows \in Rows)' /\ TrainedAsNamed'
  BY <1>3, <1>4 DEF IInv, TrainedAsNamed
<1>6. op' \in [Op -> Command] /\ \A q \in Op : op'[q] = IF q = o THEN Idle ELSE op[q]
  BY <1>1, IdleSound DEF Train, End, Shapes
<1>7. Shapes' /\ Sound'
  BY <1>1, <1>6, IdleSound DEF Shapes, Kinds, Sound, Train, world
<1>8. Owned' /\ ManifestNamesRecords' /\ MaterializedExactly'
  BY <1>6, IdleSound
     DEF IInv, Owned, ManifestNamesRecords, MaterializedExactly, Manifests, Train, world
<1>9. Traced'
  BY <1>1, <1>6, IdleSound, TracedStep DEF Train, world
<1>10. PromotedOnly'
  <2>1. Manifests(SourceTarget)' = Manifests(SourceTarget) /\ torn' = torn
    BY DEF Manifests, Train, world
  <2> QED
    BY <2>1, PromotedStep DEF IInv
<1> QED
  BY <1>5, <1>7, <1>8, <1>9, <1>10 DEF IInv

\* The contract changes, a command is killed, a file is replaced by hand.
LEMMA EnvironmentStep ==
    ASSUME IInv, Drift \/ Fault
    PROVE  IInv'
<1>1. Shapes /\ Sound /\ Traced /\ drifts \in Nat /\ faults \in Nat /\ MaxDrift \in Nat /\ MaxFaults \in Nat
  BY ChainAssumption DEF IInv, Shapes
<1>2. CASE Drift
  <2>1. \A o \in Op : /\ op'[o] \in Materializing => Verified(op'[o])
                      /\ op'[o] \in Loading => Checked(op'[o])
                      /\ op'[o].at = "link_manifest" => op'[o] = op[o]
    BY <1>1, <1>2 DEF Drift, Sound
  <2>2. op' \in [Op -> Command] /\ source' \in [Bank -> Rows] /\ now' \in Contract
        /\ drifts' \in 0..MaxDrift /\ faults' \in 0..MaxFaults
        /\ torn' = torn /\ torn \subseteq Bank \X Replacement
    BY <1>1, <1>2 DEF Drift, Shapes
  <2>3. Traced'
    BY <1>1, <1>2, TracedStep DEF Drift
  <2> QED
    BY <1>2, <2>1, <2>2, <2>3, StillStep DEF Drift
<1>3. CASE Fault
  <2>1. faults' \in 0..MaxFaults /\ now' \in Contract /\ drifts' \in 0..MaxDrift /\ trained' = trained
    BY <1>1, <1>3 DEF Fault, Shapes
  <2>2. ASSUME NEW o \in Op, Kill(o) PROVE IInv'
    <3>1. op' \in [Op -> Command] /\ \A q \in Op : op'[q] = IF q = o THEN Idle ELSE op[q]
      BY <1>1, <2>2, IdleSound DEF Kill, End, Shapes
    <3>2. \A q \in Op : /\ op'[q] \in Materializing => Verified(op'[q])
                        /\ op'[q] \in Loading => Checked(op'[q])
                        /\ op'[q].at = "link_manifest" => op'[q] = op[q]
      BY <1>1, <3>1, IdleSound DEF Sound
    <3>3. Traced'
      BY <1>1, <2>2, <3>1, IdleSound, TracedStep DEF Kill
    <3> QED
      BY <1>1, <2>1, <2>2, <3>1, <3>2, <3>3, StillStep DEF Kill, Shapes
  <2>3. ASSUME NEW b \in Bank, ReplaceSource(b) PROVE IInv'
    <3>3. PICK rows \in Replacement :
            /\ source' = [source EXCEPT ![b] = rows]
            /\ torn' = IF BetweenReads(b) THEN torn \cup {<<b, rows>>} ELSE torn
      BY <2>3 DEF ReplaceSource
    <3>1. source' \in [Bank -> Rows] /\ torn \subseteq torn' /\ torn' \subseteq Bank \X Replacement
      BY <1>1, <3>3, ChainAssumption DEF Shapes
    <3>2. \A q \in Op : /\ op'[q] \in Materializing => Verified(op'[q])
                        /\ op'[q] \in Loading => Checked(op'[q])
                        /\ op'[q].at = "link_manifest" => op'[q] = op[q]
      BY <1>1, <2>3 DEF ReplaceSource, Sound
    <3>4. Traced'
      <4>1. SUFFICES ASSUME NEW q \in Op, op[q] \in Materializing PROVE Sourced(op[q])'
        BY <2>3 DEF Traced, ReplaceSource
      <4>2. Sourced(op[q]) /\ op' = op
        BY <1>1, <2>3, <4>1 DEF Traced, ReplaceSource
      <4>3. \A row, id, d : OfBank(row, id, d) => OfBank(row, id, d)'
        BY <3>1 DEF OfBank
      <4>4. ASSUME op[q].at = "read" PROVE op[q].bank \in op[q].banks /\ Trusted(op[q].bank)'
        <5>1. op[q].bank \in op[q].banks /\ Trusted(op[q].bank) /\ op[q].bank \in Bank
          BY <4>1, <4>2, <4>4 DEF Sourced, Materializing
        <5>2. CASE op[q].bank = b
          <6>1. BetweenReads(b)
            BY <4>4, <5>2 DEF BetweenReads
          <6>2. source'[b] = rows /\ <<b, rows>> \in torn'
            BY <1>1, <3>3, <6>1 DEF Shapes
          <6> QED
            BY <4>2, <5>1, <5>2, <6>2 DEF Trusted
        <5>3. CASE op[q].bank # b
          <6>1. source'[op[q].bank] = source[op[q].bank]
            BY <1>1, <3>3, <5>1, <5>3 DEF Shapes
          <6> QED
            BY <3>1, <4>2, <5>1, <6>1 DEF Trusted
        <5> QED
          BY <5>2, <5>3
      <4> QED
        BY <4>2, <4>3, <4>4 DEF Sourced
    <3> QED
      BY <1>1, <2>1, <2>3, <3>1, <3>2, <3>4, StillStep DEF ReplaceSource, Shapes
  <2>4. ASSUME NEW t \in Target, ReplaceFile(t[1]) PROVE IInv'
    <3>1. PICK rows \in Replacement \cup {None} : file' = [file EXCEPT ![t[1]] = rows]
      BY <2>4 DEF ReplaceFile
    <3>2. rows \in Rows \cup {None} /\ t[1] \in Path /\ byHand' = byHand \cup {t[1]}
          /\ op' = op /\ source' = source /\ torn' = torn
      BY <2>4, ChainAssumption DEF Path, ReplaceFile
    <3>3. Manifests(Target)' = Manifests(Target) /\ Manifests(SourceTarget)' = Manifests(SourceTarget)
      BY <1>1, <3>1, SameManifests
    <3>4. \A s \in Path : file'[s] = IF s = t[1] THEN rows ELSE file[s]
      BY <1>1, <3>1 DEF Shapes
    <3>5. Shapes' /\ Sound'
      <4>1. \A s \in Target : file'[s[1]] \in Rows \cup {None} /\ file'[s[2]] = file[s[2]]
        BY <1>1, <3>2, <3>4, NameAssumption DEF Shapes, Kinds, Path
      <4>2. file' = [p \in Path |-> file'[p]]
        BY <1>1, <3>1 DEF Shapes
      <4> QED
        BY <1>1, <2>1, <3>2, <4>1, <4>2 DEF Shapes, Kinds, Target, Sound
    <3>6. Owned'
      <4>1. \A q \in Op : op[q].at = "link_manifest" => op[q].target[1] \in Path
        BY <1>1, PublishingTyped DEF Shapes, Publishing, Path
      <4> QED
        BY <3>2, <3>3, <3>4, <4>1 DEF IInv, Owned
    <3>7. ManifestNamesRecords'
      <4>1. \A m \in Manifests(Target) : m.path \in Path
        BY <1>1, ManifestTyped DEF Path
      <4> QED
        BY <3>2, <3>3, <3>4, <4>1 DEF IInv, ManifestNamesRecords
    <3>8. MaterializedExactly' /\ PromotedOnly'
      BY <3>2, <3>3, PromotedStep DEF IInv, MaterializedExactly
    <3>9. (\A s \in trained : s.rows \in Rows)' /\ TrainedAsNamed'
      BY <2>1 DEF IInv, TrainedAsNamed
    <3>10. Traced'
      BY <1>1, <3>2, TracedStep
    <3> QED
      BY <3>5, <3>6, <3>7, <3>8, <3>9, <3>10 DEF IInv
  <2> QED
    BY <1>3, <2>2, <2>3, <2>4 DEF Fault
<1> QED
  BY <1>2, <1>3

(***************************************************************************)
(* The theorems                                                            *)
(***************************************************************************)
\* No file and no command yet.
LEMMA InitInvariant == Init => IInv
<1> SUFFICES ASSUME Init PROVE IInv
  OBVIOUS
<1>1. \A t \in Target : file[t[1]] = None /\ file[t[2]] = None
  BY DEF Init, Path
<1>2. Manifests(Target) = {} /\ Manifests(SourceTarget) = {}
  BY <1>1 DEF Manifests, Target
<1>3. Shapes
  <2>1. source \in [Bank -> Rows]
    BY ChainAssumption DEF Init
  <2>2. op \in [Op -> Command] /\ Kinds(file)
    BY <1>1, IdleSound DEF Init, Kinds, Target
  <2> QED
    BY <2>1, <2>2, ChainAssumption DEF Init, Shapes
<1>4. Sound /\ Traced /\ Owned
  BY IdleSound DEF Init, Sound, Traced, Owned
<1>5. ManifestNamesRecords /\ MaterializedExactly /\ PromotedOnly
  BY <1>2 DEF ManifestNamesRecords, MaterializedExactly, PromotedOnly
<1>6. (\A t \in trained : t.rows \in Rows) /\ TrainedAsNamed
  BY DEF Init, TrainedAsNamed
<1> QED
  BY <1>3, <1>4, <1>5, <1>6 DEF IInv

\* Every step keeps the invariant.
LEMMA InvariantStep == IInv /\ [Next]_vars => IInv'
<1> SUFFICES ASSUME IInv, [Next]_vars PROVE IInv'
  OBVIOUS
<1>1. ASSUME NEW o \in Op,
             Materialize(o) \/ Build(o) \/ Publish(o) \/ Load(o) \/ Audit(o) \/ TrainFold(o)
      PROVE  IInv'
  BY <1>1, MaterializeStep, ReadStep, LinkRecordsStep, LinkManifestStep, WriteAuditStep, TrainStep
     DEF Publish, Audit, TrainFold
<1>2. CASE UNCHANGED vars
  <2>1. \A o \in Op : /\ op'[o] \in Materializing => Verified(op'[o])
                      /\ op'[o] \in Loading => Checked(op'[o])
                      /\ op'[o].at = "link_manifest" => op'[o] = op[o]
    BY <1>2 DEF IInv, Sound, vars
  <2>2. Traced'
    BY <1>2, TracedStep DEF IInv, vars
  <2> QED
    BY <1>2, <2>1, <2>2, StillStep DEF IInv, Shapes, vars
<1> QED
  BY <1>1, <1>2, EnvironmentStep DEF Next

\* The invariant holds throughout, for any instance.
THEOREM Invariance == Spec => []IInv
BY InitInvariant, InvariantStep, PTL DEF Spec

\* Every variable keeps its type: what a command holds are rows, a contract and
\* a fold, whichever of its four shapes it has.
THEOREM TypeCorrect == Spec => []TypeOK
<1>1. IInv => TypeOK
  <2> SUFFICES ASSUME IInv PROVE TypeOK
    OBVIOUS
  <2>1. ASSUME NEW o \in Op
        PROVE  /\ op[o].at \in Places
               /\ op[o].at # "idle" => op[o].contract \in Contract /\ op[o].fold \in Fold /\ op[o].rows \in Rows
    <3>1. op[o] \in Command
      BY DEF IInv, Shapes
    <3>2. CASE op[o] = Idle
      BY <3>2, IdleSound DEF Places
    <3>3. CASE op[o] \in Materializing \cup Building
      BY <3>3 DEF Materializing, Building, Publishing, Places
    <3>4. CASE op[o] \in Asking \cup Loading
      BY <3>4 DEF Asking, Loading, Places
    <3> QED
      BY <3>1, <3>2, <3>3, <3>4 DEF Command
  <2> QED
    BY <2>1 DEF IInv, Shapes, TypeOK
<1> QED
  BY <1>1, Invariance, PTL

\* A manifest stands for the records it names, whoever publishes under one of
\* its names and whoever is killed.
THEOREM ManifestsStand == Spec => []ManifestNamesRecords
<1>1. IInv => ManifestNamesRecords
  BY DEF IInv
<1> QED
  BY <1>1, Invariance, PTL

\* What is materialized are the fold's training problems with right answers.
THEOREM MaterializationIsExact == Spec => []MaterializedExactly
<1>1. IInv => MaterializedExactly
  BY DEF IInv
<1> QED
  BY <1>1, Invariance, PTL

\* What is materialized is, row by row, what a bank's ledger derives or what was
\* put into the bank between its check and its second opening, and every bank
\* is over the whole of an authorized scope.
THEOREM OnlyPromotedBanks == Spec => []PromotedOnly
<1>1. IInv => PromotedOnly
  BY DEF IInv
<1> QED
  BY <1>1, Invariance, PTL

\* Training learns from the rows its evidence names, valid under its contract.
THEOREM LearnsAsNamed == Spec => []TrainedAsNamed
<1>1. IInv => TrainedAsNamed
  BY DEF IInv
<1> QED
  BY <1>1, Invariance, PTL
=============================================================================
