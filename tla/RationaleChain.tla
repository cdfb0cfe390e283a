--------------------------- MODULE RationaleChain ---------------------------
(***************************************************************************)
(* From the teacher's finalized banks to the rows a training run learns    *)
(* from: rationale_materialization.py selects a fold's rows from banks,    *)
(* rationale_corpus.py builds a corpus of them and audits it, and          *)
(* gate-b-train-fold reads corpus, manifest and audit again.  Each result  *)
(* is a file or a pair of files that replaces nothing.                     *)
(*                                                                         *)
(* Several operators issue these commands at a time.  A command reads what *)
(* it needs in several steps; between any two of them another command may  *)
(* publish, the data contract may change, a private file may be replaced   *)
(* by hand, and the command itself may be killed.                          *)
(*                                                                         *)
(* A SHA-256 is modelled by the content it is taken of.  A contract is all *)
(* a command is given: train and exclusion bytes, split, rationale config. *)
(***************************************************************************)
EXTENDS Naturals, Functions

CONSTANTS
    Op,             \* operators
    Id,             \* organizer problems
    Text,           \* target texts
    Contract,       \* versions of the contract
    Fold,           \* folds of the split; 0 is the fold teachers are planned for
    Split,          \* [Contract -> [Id -> Fold \cup {None}]]; None: held out or excluded
    Right,          \* [Contract -> [Id -> SUBSET Text]]: texts that prove the answer
    Short,          \* [Contract -> SUBSET Text]: texts within the limits of the config
    Bank,           \* finalized banks
    Ledger,         \* [Bank -> the plan of the bank, its accepted rows and its sidecars]
    SourceTarget,   \* <<records path, manifest path>> a materialization may be given
    CorpusTarget,   \* <<records path, manifest path>> a corpus may be given
    AuditPath,      \* paths for audits
    Replacement,    \* rows somebody may put into a private file by hand
    MaxDrift,       \* bound on changes of the contract
    MaxFaults,      \* bound on kills and replaced files
    None

Row == [text : Text, clean : BOOLEAN]
Rows == UNION {[ids -> Row] : ids \in SUBSET Id}

ASSUME ChainAssumption ==
    /\ 0 \in Fold
    /\ Split \in [Contract -> [Id -> Fold \cup {None}]]
    /\ Right \in [Contract -> [Id -> SUBSET Text]]
    /\ Short \in [Contract -> SUBSET Text]
    /\ Ledger \in [Bank -> [rows : Rows, pilot : (SUBSET Id) \cup {None}, probe : Contract \cup {None}]]
    /\ Replacement \subseteq Rows
    /\ MaxDrift \in Nat
    /\ MaxFaults \in Nat
    /\ None \notin Fold
    /\ None \notin Rows

Target == SourceTarget \cup CorpusTarget
Path == {t[1] : t \in Target} \cup {t[2] : t \in Target} \cup AuditPath

\* Records, the two kinds of manifests and audits have names of their own: the
\* readers accept no file of another kind.
ASSUME NameAssumption ==
    /\ \A t \in Target : \A s \in Target : t[1] # s[2]
    /\ \A t \in SourceTarget : \A s \in CorpusTarget : t[2] # s[2]
    /\ \A t \in Target : t[1] \notin AuditPath /\ t[2] \notin AuditPath

VARIABLES
    now,       \* the contract that holds
    source,    \* the source file of each bank
    file,      \* what is under each path, or None
    op,        \* the command of each operator: its place and what it has read
    drifts,
    faults,
    byHand,    \* history: paths somebody has written by hand
    torn,      \* history: rows put into a bank between its check and its second opening
    trained    \* history: what training runs learned from

vars == <<now, source, file, op, drifts, faults, byHand, torn, trained>>
world == <<now, source, drifts, faults, byHand, torn>>

Idle == [at |-> "idle"]

Init ==
    /\ now \in Contract
    /\ source = [b \in Bank |-> Ledger[b].rows]
    /\ file = [p \in Path |-> None]
    /\ op = [o \in Op |-> Idle]
    /\ drifts = 0
    /\ faults = 0
    /\ byHand = {}
    /\ torn = {}
    /\ trained = {}

Goto(o, place) == op' = [op EXCEPT ![o].at = place]
End(o) == op' = [op EXCEPT ![o] = Idle]

(***************************************************************************)
(* Scopes                                                                  *)
(***************************************************************************)
\* _load_gate_b_preclaim_contract: what a command finds when it starts.
Given == now

\* _fold_training_contract, _training_contract: eligible_training_ids(fold).
Training(c, fold) == {id \in Id : Split[c][id] \notin {fold, None}}
Validation(c, fold) == {id \in Id : Split[c][id] = fold}

\* _eligible_development_cv_ids.
Development(c) == Training(c, 0) \cup Validation(c, 0)

Ids(b) == DOMAIN Ledger[b].rows

(***************************************************************************)
(* gate-b-materialize-teacher-bank                                         *)
(***************************************************************************)
StartMaterialize(o) ==
    /\ op[o] = Idle
    /\ \E fold \in Fold, banks \in (SUBSET Bank) \ {{}}, target \in SourceTarget :
          op' = [op EXCEPT ![o] = [at |-> "verify", kind |-> "source", contract |-> Given, fold |-> fold,
                                   target |-> target, banks |-> banks, todo |-> banks, bank |-> None, rows |-> <<>>]]
    /\ UNCHANGED <<world, file, trained>>

\* Mutant: the file has a row for every problem, whatever the row says.
Derived_Named(b) == DOMAIN source[b] = Ids(b)

\* _verify_teacher_bank_for_logical_audit: the file is what the ledger derives.
Derived(b) == source[b] = Ledger[b].rows

\* load_teacher_full_v1_bank_authorization, against the present fold 0.
PilotReceipt(b, c) == Ledger[b].pilot = Training(c, 0)

\* _load_v2_bank_authorization: the decision was made under the present split.
ProbeDecision(b, c) == Ledger[b].probe # None /\ Split[Ledger[b].probe] = Split[c]

\* _verify_bank_promotion_binding.
Promoted(b, c) ==
    \/ Ids(b) = Training(c, 0) /\ PilotReceipt(b, c)
    \/ Ids(b) = Validation(c, 0) /\ ProbeDecision(b, c)

Acceptable(b, c) == Derived(b) /\ Ids(b) \subseteq Development(c) /\ Promoted(b, c)

VerifyBank(o) ==
    /\ op[o].at = "verify" /\ op[o].todo # {}
    /\ \E b \in op[o].todo :
          \/ /\ Acceptable(b, op[o].contract)
             /\ op' = [op EXCEPT ![o].at = "read", ![o].bank = b]
          \/ /\ ~Acceptable(b, op[o].contract)
             /\ End(o)
    /\ UNCHANGED <<world, file, trained>>

\* _validate_selected_source_row: only rows of the selected fold are compared.
Selectable(c, fold, rows) ==
    \A id \in DOMAIN rows \cap Training(c, fold) : rows[id].clean /\ rows[id].text \in Right[c][id]

\* _load_verified_source_rows: the file is opened a second time, and nothing
\* holds what is read then against the ledger or the digest taken before.
ReadBank(o) ==
    /\ op[o].at = "read"
    /\ LET b == op[o].bank
           rows == source[b]
           ok == /\ DOMAIN rows = Ids(b)
                 /\ Selectable(op[o].contract, op[o].fold, rows)
                 /\ DOMAIN rows \cap DOMAIN op[o].rows = {}
       IN \/ /\ ok
             /\ op' = [op EXCEPT ![o].at = "verify", ![o].todo = @ \ {b},
                                 ![o].rows = [id \in DOMAIN @ \cup DOMAIN rows |->
                                                 IF id \in DOMAIN rows THEN rows[id] ELSE @[id]]]
          \/ /\ ~ok
             /\ End(o)
    /\ UNCHANGED <<world, file, trained>>

\* Mutant: whatever the banks hold is written.
Selected_All(o) == op[o].rows

\* The rows of the fold's training problems and no other.
Selected(o) == Restrict(op[o].rows, Training(op[o].contract, op[o].fold))

SelectRows(o) ==
    /\ op[o].at = "verify" /\ op[o].todo = {}
    /\ \/ /\ Training(op[o].contract, op[o].fold) \subseteq DOMAIN op[o].rows
          /\ op' = [op EXCEPT ![o].at = "targets", ![o].rows = Selected(o)]
       \/ /\ ~(Training(op[o].contract, op[o].fold) \subseteq DOMAIN op[o].rows)
          /\ End(o)
    /\ UNCHANGED <<world, file, trained>>

(***************************************************************************)
(* Publication of a pair                                                   *)
(***************************************************************************)
\* _new_pair_targets, _artifact_targets: both paths must be free.
CheckTargets(o) ==
    /\ op[o].at = "targets"
    /\ IF \A i \in 1..2 : file[op[o].target[i]] = None THEN Goto(o, "link_records") ELSE End(o)
    /\ UNCHANGED <<world, file, trained>>

\* Mutant: the rename replaces what has appeared since the paths were checked.
LinkRecords_Replace(o) ==
    /\ op[o].at = "link_records"
    /\ file' = [file EXCEPT ![op[o].target[1]] = op[o].rows]
    /\ Goto(o, "link_manifest")
    /\ UNCHANGED <<world, trained>>

LinkRecords(o) ==
    /\ op[o].at = "link_records"
    /\ LET p == op[o].target[1] IN
          \/ /\ file[p] = None
             /\ file' = [file EXCEPT ![p] = op[o].rows]
             /\ Goto(o, "link_manifest")
          \/ /\ file[p] # None
             /\ End(o)
             /\ UNCHANGED file
    /\ UNCHANGED <<world, trained>>

\* _materialization_manifest_bytes: the banks are named as well.
SourceManifest(o) ==
    [kind |-> "source", path |-> op[o].target[1], rows |-> op[o].rows, contract |-> op[o].contract,
     fold |-> op[o].fold, banks |-> op[o].banks]

\* build_rationale_corpus: what the rows derive, but not where they came from.
CorpusManifest(o) ==
    [kind |-> "corpus", path |-> op[o].target[1], rows |-> op[o].rows, contract |-> op[o].contract,
     fold |-> op[o].fold]

Manifest(o) == IF op[o].kind = "source" THEN SourceManifest(o) ELSE CorpusManifest(o)

\* Losing the manifest's name takes back the records this command has linked.
LinkManifest(o) ==
    /\ op[o].at = "link_manifest"
    /\ LET p == op[o].target[2] IN
          \/ /\ file[p] = None
             /\ file' = [file EXCEPT ![p] = Manifest(o)]
          \/ /\ file[p] # None
             /\ file' = [file EXCEPT ![op[o].target[1]] = None]
    /\ End(o)
    /\ UNCHANGED <<world, trained>>

(***************************************************************************)
(* build-rationale-corpus                                                  *)
(***************************************************************************)
\* Any private file of rows may be the source: its manifest is not asked for.
StartBuild(o) ==
    /\ op[o] = Idle
    /\ \E fold \in Fold, from \in SourceTarget, target \in CorpusTarget :
          op' = [op EXCEPT ![o] = [at |-> "load", kind |-> "corpus", contract |-> Given, fold |-> fold,
                                   target |-> target, from |-> from[1], rows |-> <<>>]]
    /\ UNCHANGED <<world, file, trained>>

\* _parse_teacher, _parse_verification: answer hidden, accepted locally, no tool.
Evidenced(row) == row.clean

\* _rationale_text: character and line limits of the config.
Concise(row, c) == row.text \in Short[c]

\* _parse_row: the question and the final line are those of the organizer.
Proves(row, id, c) == row.text \in Right[c][id]

\* _load_rows: exactly the eligible training problems of the fold.
Valid(rows, c, fold) ==
    /\ rows # None
    /\ DOMAIN rows = Training(c, fold)
    /\ \A id \in DOMAIN rows : Proves(rows[id], id, c) /\ Concise(rows[id], c) /\ Evidenced(rows[id])

LoadSource(o) ==
    /\ op[o].at = "load"
    /\ LET rows == file[op[o].from] IN
          IF Valid(rows, op[o].contract, op[o].fold)
          THEN op' = [op EXCEPT ![o].at = "targets", ![o].rows = rows]
          ELSE End(o)
    /\ UNCHANGED <<world, file, trained>>

(***************************************************************************)
(* audit-rationale-corpus and the inputs of gate-b-train-fold              *)
(***************************************************************************)
Use(o, purpose) ==
    /\ op[o] = Idle
    /\ \E fold \in Fold, target \in CorpusTarget, audit \in AuditPath :
          op' = [op EXCEPT ![o] = [at |-> "manifest", kind |-> purpose, contract |-> Given, fold |-> fold,
                                   target |-> target, audit |-> audit, rows |-> <<>>]]
    /\ UNCHANGED <<world, file, trained>>

StartAudit(o) == Use(o, "audit")

\* All four rationale inputs are given.
StartTrain(o) == Use(o, "train")

IsManifest(m) == m # None /\ "kind" \in DOMAIN m /\ m.kind = "corpus"

\* The manifest says what the present contract makes it say.
Bound(m, o) ==
    /\ m.path = op[o].target[1]
    /\ m.fold = op[o].fold
    /\ Split[m.contract] = Split[op[o].contract] /\ Short[m.contract] = Short[op[o].contract]

ReadManifest(o) ==
    /\ op[o].at = "manifest"
    /\ LET m == file[op[o].target[2]] IN
          IF IsManifest(m) /\ Bound(m, o)
          THEN op' = [op EXCEPT ![o] = [at |-> "hash", kind |-> op[o].kind, contract |-> op[o].contract,
                                        fold |-> op[o].fold, target |-> op[o].target,
                                        audit |-> op[o].audit, manifest |-> m, rows |-> <<>>]]
          ELSE End(o)
    /\ UNCHANGED <<world, file, trained>>

HashRecords(o) ==
    /\ op[o].at = "hash"
    /\ IF file[op[o].target[1]] = op[o].manifest.rows THEN Goto(o, "rows") ELSE End(o)
    /\ UNCHANGED <<world, file, trained>>

\* Mutant: the rows read are not held against the manifest again.
Derives_Unchecked(rows, m) == TRUE

\* The sequences of targets and of teacher evidence follow from the rows read.
Derives(rows, m) == rows = m.rows

\* The file is opened a second time for its rows.
ReadRows(o) ==
    /\ op[o].at = "rows"
    /\ LET rows == file[op[o].target[1]] IN
          IF Valid(rows, op[o].contract, op[o].fold) /\ Derives(rows, op[o].manifest)
          THEN op' = [op EXCEPT ![o].at = op[o].kind, ![o].rows = rows]
          ELSE End(o)
    /\ UNCHANGED <<world, file, trained>>

AuditOf(o) ==
    [kind |-> "audit", manifest |-> op[o].manifest, fold |-> op[o].fold,
     split |-> Split[op[o].contract], config |-> Short[op[o].contract]]

WriteAudit(o) ==
    /\ op[o].at = "audit"
    /\ file' = [file EXCEPT ![op[o].audit] = IF @ = None THEN AuditOf(o) ELSE @]
    /\ End(o)
    /\ UNCHANGED <<world, trained>>

\* The audit is that of this corpus under this contract; the rows are learned from.
Train(o) ==
    /\ op[o].at = "train"
    /\ trained' = IF file[op[o].audit] = AuditOf(o)
                  THEN trained \cup {[contract |-> op[o].contract, fold |-> op[o].fold,
                                      rows |-> op[o].rows, named |-> op[o].manifest.rows]}
                  ELSE trained
    /\ End(o)
    /\ UNCHANGED <<world, file>>

(***************************************************************************)
(* The environment                                                         *)
(***************************************************************************)
\* A corrected answer, a new exclusion, another split or another config.
Drift ==
    /\ drifts < MaxDrift
    /\ drifts' = drifts + 1
    /\ now' \in Contract \ {now}
    /\ UNCHANGED <<source, file, op, faults, byHand, torn, trained>>

Kill(o) ==
    /\ op[o] # Idle
    /\ End(o)
    /\ UNCHANGED <<source, file, byHand, torn>>

\* Somebody removes a file of rows or puts another in its place.
ReplaceFile(p) ==
    /\ \E rows \in Replacement \cup {None} : file' = [file EXCEPT ![p] = rows]
    /\ byHand' = byHand \cup {p}
    /\ UNCHANGED <<source, op, torn>>

\* Some command has checked the bank and has yet to open it for its rows.
BetweenReads(b) == \E o \in Op : op[o].at = "read" /\ op[o].bank = b

ReplaceSource(b) ==
    /\ \E rows \in Replacement :
          /\ source' = [source EXCEPT ![b] = rows]
          /\ torn' = IF BetweenReads(b) THEN torn \cup {<<b, rows>>} ELSE torn
    /\ UNCHANGED <<file, byHand, op>>

Fault ==
    /\ faults < MaxFaults
    /\ faults' = faults + 1
    /\ \/ \E o \in Op : Kill(o)
       \/ \E t \in Target : ReplaceFile(t[1])
       \/ \E b \in Bank : ReplaceSource(b)
    /\ UNCHANGED <<now, drifts, trained>>

Materialize(o) == StartMaterialize(o) \/ VerifyBank(o) \/ ReadBank(o) \/ SelectRows(o)
Build(o) == StartBuild(o) \/ LoadSource(o)
Publish(o) == CheckTargets(o) \/ LinkRecords(o) \/ LinkManifest(o)
Load(o) == ReadManifest(o) \/ HashRecords(o) \/ ReadRows(o)
Audit(o) == StartAudit(o) \/ WriteAudit(o)
TrainFold(o) == StartTrain(o) \/ Train(o)

Next ==
    \/ \E o \in Op : Materialize(o) \/ Build(o) \/ Publish(o) \/ Load(o) \/ Audit(o) \/ TrainFold(o)
    \/ Drift \/ Fault

Spec == Init /\ [][Next]_vars

(***************************************************************************)
(* Properties                                                              *)
(***************************************************************************)
Places == {"idle", "verify", "read", "targets", "link_records", "link_manifest", "load",
           "manifest", "hash", "rows", "audit", "train"}

TypeOK ==
    /\ now \in Contract
    /\ \A b \in Bank : source[b] \in Rows
    /\ \A o \in Op :
          /\ op[o].at \in Places
          /\ op[o].at # "idle" => op[o].contract \in Contract /\ op[o].fold \in Fold /\ op[o].rows \in Rows
    /\ drifts \in 0..MaxDrift
    /\ faults \in 0..MaxFaults
    /\ byHand \subseteq Path
    /\ torn \subseteq Bank \X Replacement
    /\ \A t \in trained : t.rows \in Rows

Manifests(targets) == {file[t[2]] : t \in targets} \ {None}

\* A manifest stands for records that are there as it says, whoever else was
\* publishing under one of its names and whoever was killed, unless somebody
\* has laid hands on the records.
ManifestNamesRecords ==
    \A m \in Manifests(Target) : m.path \notin byHand => file[m.path] = m.rows

\* A materialization holds exactly the eligible training problems of its fold,
\* never a held out, excluded or validation row, every answer right under the
\* contract it was made under.
MaterializedExactly ==
    \A m \in Manifests(SourceTarget) :
        /\ DOMAIN m.rows = Training(m.contract, m.fold)
        /\ \A id \in DOMAIN m.rows : m.rows[id].clean /\ m.rows[id].text \in Right[m.contract][id]

\* A bank over the whole of a scope that somebody was allowed to ask for: fold
\* 0's training rows after a pilot of that very scope, or its validation rows
\* after a probe under that split.
Authorized(b, c) ==
    \/ Ids(b) = Training(c, 0) /\ Ledger[b].pilot = Ids(b)
    \/ Ids(b) = Validation(c, 0) /\ Ledger[b].probe # None /\ Split[Ledger[b].probe] = Split[c]

\* A row of a bank's plan: the ledger derives it, or it was in a file put in the
\* bank's place after a check and before the file was opened for its rows.
OfBank(row, id, b) ==
    /\ id \in Ids(b)
    /\ \/ row = Ledger[b].rows[id]
       \/ \E t \in torn : t[1] = b /\ id \in DOMAIN t[2] /\ row = t[2][id]

\* Every row of a materialization is a row of one of the banks it names, and
\* every bank it names is over the whole of an authorized scope.  The ledger of
\* the bank derives the row, however often the bank's file was replaced before
\* its check or since, by whom and for which command.  The exception is the
\* code's: a file replaced between the check and the second opening.
PromotedOnly ==
    \A m \in Manifests(SourceTarget) :
        /\ \A b \in m.banks : Authorized(b, m.contract)
        /\ \A id \in DOMAIN m.rows : \E b \in m.banks : OfBank(m.rows[id], id, b)

\* A training run learns from exactly its fold's training problems, from rows
\* that prove the answers of its own contract, and from the very rows its
\* evidence names, although it has opened the file twice and corpus and audit
\* were made by earlier commands under whatever contract held then.
TrainedAsNamed ==
    \A t \in trained :
        /\ t.rows = t.named
        /\ DOMAIN t.rows = Training(t.contract, t.fold)
        /\ \A id \in DOMAIN t.rows :
              /\ t.rows[id].clean
              /\ t.rows[id].text \in Right[t.contract][id] \cap Short[t.contract]
=============================================================================
