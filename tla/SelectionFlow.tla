---------------------------- MODULE SelectionFlow ---------------------------
(***************************************************************************)
(* gate_b_selection.py: from development runs to a frozen method.          *)
(*                                                                         *)
(* A development run is a pair of files, rows and manifest.  Four commands *)
(* read runs: the comparison over all folds, the qualification of the base *)
(* model over all folds, the probe of one fold, and the check before an    *)
(* adapter is trained.  Two commands freeze a method from the artifact of  *)
(* a comparison or a qualification, and every entry to the holdout or the  *)
(* submission reads the freeze again.  An artifact replaces nothing.       *)
(*                                                                         *)
(* Each command opens the same file more than once.  Between two of its    *)
(* steps a run, an adapter, an artifact or the sources a run was made from *)
(* may be removed or made again, and the data contract may change.  One    *)
(* command runs at a time: commands write nothing that another one reads,  *)
(* but artifacts, which appear in one step.                                *)
(*                                                                         *)
(* A SHA-256 is modelled by the content it is taken of.  The proofs use    *)
(* this module and HoldoutClaim together: names that both would have say   *)
(* that they are the selection's.                                          *)
(***************************************************************************)
EXTENDS Naturals, Sequences, FiniteSets, Functions

CONSTANTS
    NFolds,         \* folds of the split
    Deployment,     \* the fold whose checkpoint is deployed
    Label,          \* labels in the order of the command line, the base first
    RunPath,        \* where pairs of rows and manifest are
    AdapterPath,    \* where adapter bundles are
    OutPath,        \* where artifacts are written
    Offer,          \* [fold \X label -> SUBSET (RunPath \X (AdapterPath \cup {Nothing}))]
    Exec,           \* sources, config, preflight and smoke report a run was made with
    Contract,       \* versions of split, organizer data and exclusions
    AdapterBytes,   \* [fold, method, contract, id] of adapter bundles
    RowBytes,       \* [fold, checkpoint, contract, sums, sound, id] of rows: sums is
                    \* what their manifest says of them besides fold and checkpoint
    Name,           \* [kind of command -> SUBSET OutPath]: where its artifact goes
    Given,          \* {[run, manifest, adapter]}: the files there may be at the start
    Replacement,    \* <<kind, path, content>> of what may be put in a file's place
    MaxFaults,      \* bound on replaced files, changed sources and changed contracts
    Pinned,         \* the checkpoint of the pinned base model
    Nothing

Fold == 0..(NFolds - 1)
Base == Head(Label)
Key == Fold \X Range(Label)
\* A manifest is the summary that was written of the rows whose digest it holds.
Manifest == [of : RowBytes, exec : Exec]

ASSUME SelectionAssumption ==
    /\ NFolds \in Nat \ {0}
    /\ Deployment \in Fold
    /\ Label \in Seq(STRING) /\ Label # <<>> /\ IsInjective(Label)
    /\ Offer \in [Key -> SUBSET (RunPath \X (AdapterPath \cup {Nothing}))]
    /\ \A a \in AdapterBytes : a.fold \in Fold /\ a.contract \in Contract /\ a.method # Pinned
    /\ \A r \in RowBytes : r.checkpoint \in AdapterBytes \cup {Pinned}
    /\ Name \in [{"cross", "base", "probe", "require", "freeze", "freezeBase"} -> SUBSET OutPath]
    /\ MaxFaults \in Nat

\* What the files hold at the start and what they may be replaced with is of their kind.
ASSUME FilesAssumption ==
    /\ \A files \in Given :
          /\ files.run \in [RunPath -> RowBytes \cup {Nothing}]
          /\ files.manifest \in [RunPath -> Manifest \cup {Nothing}]
          /\ files.adapter \in [AdapterPath -> AdapterBytes \cup {Nothing}]
    /\ \A r \in Replacement :
          \/ r[1] = "rows" /\ r[3] \in RowBytes \cup {Nothing}
          \/ r[1] = "manifest" /\ r[3] \in Manifest \cup {Nothing}
          \/ r[1] = "adapter" /\ r[3] \in AdapterBytes \cup {Nothing}

VARIABLES
    now,        \* the contract that holds
    rows,       \* the rows under each run path, or Nothing
    manifest,   \* the manifest under each run path, or Nothing
    adapter,    \* the bundle under each adapter path, or Nothing
    stands,     \* the sources that are still as they were hashed
    out,        \* the artifact under each output path, or Nothing
    cmd,        \* the command that runs: its place and what it has read
    faults,
    swapped,    \* history: rows that were replaced between their digest and their reading
    entered     \* history: the freeze the last holdout or submission went on with

selectionVars == <<now, rows, manifest, adapter, stands, out, cmd, faults, swapped, entered>>
world == <<now, rows, manifest, adapter, stands, faults, swapped>>

Idle == [at |-> "idle"]

SelectionInit ==
    /\ now \in Contract
    /\ \E files \in Given : rows = files.run /\ manifest = files.manifest /\ adapter = files.adapter
    /\ stands = Exec
    /\ out = [p \in OutPath |-> Nothing]
    /\ cmd = Idle
    /\ faults = 0
    /\ swapped = {}
    /\ entered = Nothing

End == cmd' = Idle
Refuse == End /\ UNCHANGED <<world, out, entered>>
Continue(with) == cmd' = with /\ UNCHANGED <<world, out, entered>>

(***************************************************************************)
(* Commands that read runs                                                 *)
(***************************************************************************)
\* for fold in range(n_folds): for label in labels
Grid(folds, labels) ==
    [i \in 1..(Len(folds) * Len(labels)) |->
        <<folds[((i - 1) \div Len(labels)) + 1], labels[((i - 1) % Len(labels)) + 1]>>]

Folds == [i \in 1..NFolds |-> i - 1]

\* verify_base_development_oof and compare_development_runs.
BaseKeys == Grid(Folds, <<Base>>)
ProbeKeys(fold) == Grid(<<fold>>, Label)

KeysOf(kind, fold) ==
    CASE kind = "cross"   -> Grid(Folds, Label)
      [] kind = "base"    -> BaseKeys
      [] kind = "probe"   -> ProbeKeys(fold)
      [] kind = "require" -> Grid(<<fold>>, <<Base>>)

StartRead ==
    /\ cmd = Idle
    /\ \E kind \in {"cross", "base", "probe", "require"}, fold \in Fold : \E target \in Name[kind] :
          cmd' = [at |-> "manifest", kind |-> kind, contract |-> now, target |-> target,
                  todo |-> KeysOf(kind, fold), got |-> <<>>,
                  given |-> Nothing, manifest |-> Nothing, rows |-> Nothing, read |-> Nothing]
    /\ UNCHANGED <<world, out, entered>>

CurrentKey == Head(cmd.todo)
CurrentRun == cmd.given[1]
CurrentAdapter == cmd.given[2]
Reading(place) == cmd.at = place /\ cmd.todo # <<>>

\* _validate_execution_evidence: the files that a run names are hashed again, the
\* source manifest, the config and the reports of the runtime gate.  The tree the
\* source manifest lists is not.
SourcesStand(m) == m.exec \in stands

\* The run, and for a candidate the adapter, given for the next fold and label.
ReadManifest ==
    /\ Reading("manifest")
    /\ \E given \in Offer[CurrentKey] :
          LET m == manifest[given[1]]
          IN IF m # Nothing /\ SourcesStand(m)
             THEN Continue([cmd EXCEPT !.at = "hash", !.given = given, !.manifest = m])
             ELSE Refuse

\* The digest of the rows is the one the manifest names.
Summarised(m, content) == content = m.of

HashRows ==
    /\ Reading("hash")
    /\ IF Summarised(cmd.manifest, rows[CurrentRun])
       THEN Continue([cmd EXCEPT !.at = "rows", !.rows = rows[CurrentRun]])
       ELSE Refuse

\* _validate_development_row: every row is of this fold and contract, and what
\* can be derived from its completion is derived again.
RowsValid(content, fold, contract) ==
    content.sound /\ content.fold = fold /\ content.contract = contract

\* Mutant: nobody looks whose rows they are.
AddUp_AnyCheckpoint(m, content) == content.sums = m.of.sums

\* The file is opened a second time, and not hashed again: the rows must only
\* agree with what the manifest says of its own, the fold, the checkpoint, counts
\* and totals, seeds, prompts and latencies.  Other rows with the same sums pass.
\* Of the contract a manifest names the split and the ids, but not the data, so
\* rows of another contract may pass here; RowsValid is what refuses them.
AddUp(m, content) ==
    content.fold = m.of.fold /\ content.checkpoint = m.of.checkpoint /\ content.sums = m.of.sums

ReadRows ==
    /\ Reading("rows")
    /\ LET content == rows[CurrentRun]
       IN IF content # Nothing /\ RowsValid(content, CurrentKey[1], cmd.contract) /\ AddUp(cmd.manifest, content)
          THEN Continue([cmd EXCEPT !.at = "record", !.read = content])
          ELSE Refuse

\* _adapter_method_fingerprint: the contract and the sources of the training, not
\* the fold and not the bytes.
Fingerprint(a) == a.method

\* _validate_oof_method_provenance: the fixed base runs the pinned checkpoint;
\* a candidate runs the adapter at its path, trained for this fold and contract.
MethodOf(key, content, path) ==
    IF key[2] = Base
    THEN IF path = Nothing /\ content.checkpoint = Pinned THEN Pinned ELSE Nothing
    ELSE LET a == IF path = Nothing THEN Nothing ELSE adapter[path]
         IN IF a # Nothing /\ a.fold = key[1] /\ a.contract = cmd.contract /\ content.checkpoint = a
            THEN Fingerprint(a)
            ELSE Nothing

\* The evidence of one run.  The manifest's digest is taken now, of the file
\* that is there now; only the qualification of the base keeps its sources.
Entry(key) ==
    [path     |-> CurrentRun,
     rows     |-> cmd.rows,
     manifest |-> manifest[CurrentRun],
     checkpoint |-> cmd.read.checkpoint,
     method   |-> IF cmd.kind = "probe" THEN Nothing ELSE MethodOf(key, cmd.read, CurrentAdapter),
     bundle   |-> IF cmd.kind = "cross" THEN CurrentAdapter ELSE Nothing,
     adapter  |-> IF cmd.kind = "cross" /\ key[2] # Base THEN cmd.read.checkpoint ELSE Nothing,
     exec     |-> IF cmd.kind = "base" THEN cmd.manifest.exec ELSE Nothing]

\* Mutant: only the files of a run are looked at, not its adapter.
Reused_Adapter(entry) ==
    \E key \in DOMAIN cmd.got : cmd.got[key].rows = entry.rows /\ cmd.got[key].manifest = entry.manifest

\* run_identity_owner, adapter_identity_owner.
Reused(entry) ==
    \E key \in DOMAIN cmd.got :
        \/ cmd.got[key].rows = entry.rows /\ cmd.got[key].manifest = entry.manifest
        \/ entry.adapter # Nothing /\ cmd.got[key].adapter = entry.adapter

\* Mutant: the pinned checkpoint and the adapter are not looked at.
Usable_AnyMethod(entry) == cmd.kind \in {"cross", "base"} => ~Reused(entry)

\* require_base_development_artifact.
RequiredBase(entry) == entry.checkpoint = Pinned

Usable(entry) ==
    CASE cmd.kind \in {"cross", "base"} -> entry.method # Nothing /\ ~Reused(entry)
      [] cmd.kind = "probe"             -> TRUE
      [] cmd.kind = "require"           -> RequiredBase(entry)

\* The evidence of one run more.
With(got, key, entry) == [k \in DOMAIN got \cup {key} |-> IF k = key THEN entry ELSE got[k]]

RecordRun ==
    /\ Reading("record")
    /\ LET entry == Entry(CurrentKey)
       IN IF entry.manifest # Nothing /\ Usable(entry)
          THEN Continue([cmd EXCEPT !.at = "manifest", !.todo = Tail(@), !.given = Nothing, !.manifest = Nothing,
                                    !.rows = Nothing, !.read = Nothing, !.got = With(@, CurrentKey, entry)])
          ELSE Refuse

\* Mutant: each fold may have its own training method.
OneMethod_Any(got) == TRUE

\* fingerprints_by_label.
OneMethod(got) == \A k, l \in DOMAIN got : k[2] = l[2] => got[k].method = got[l].method

\* The folds of the base share one execution provenance.
OneProvenance(got) == \A k, l \in DOMAIN got : got[k].exec = got[l].exec

Consistent(got, kind) ==
    /\ kind = "cross" => OneMethod(got)
    /\ kind = "base" => OneProvenance(got)

Artifact(got) ==
    [schema |-> cmd.kind, contract |-> cmd.contract, got |-> got]

\* _write_hashed_json_noreplace.
Write(target, content) ==
    /\ out' = IF out[target] = Nothing THEN [out EXCEPT ![target] = content] ELSE out
    /\ End

Conclude ==
    /\ cmd.at = "manifest" /\ cmd.todo = <<>>
    /\ IF Consistent(cmd.got, cmd.kind)
       THEN /\ IF cmd.kind = "require" THEN End /\ UNCHANGED out ELSE Write(cmd.target, Artifact(cmd.got))
            /\ UNCHANGED <<world, entered>>
       ELSE Refuse

(***************************************************************************)
(* Freezing, and reading a freeze                                          *)
(***************************************************************************)
\* freeze_development_selection: any label of the comparison, and perhaps
\* another one for the records the first cannot answer.
\* freeze_base_development_selection: the base.
StartFreeze ==
    /\ cmd = Idle
    /\ \E kind \in {"freeze", "freezeBase"}, from, target \in OutPath,
          primary \in Range(Label), fallback \in Range(Label) \cup {Nothing} :
          /\ target \in Name[kind]
          /\ fallback # primary
          /\ kind = "freezeBase" => primary = Base /\ fallback = Nothing
          /\ cmd' = [at |-> "parse", kind |-> kind, from |-> from, target |-> target, contract |-> Nothing,
                     primary |-> primary, fallback |-> fallback, frozen |-> Nothing,
                     source |-> Nothing, digest |-> Nothing, todo |-> <<>>, touched |-> {}]
    /\ UNCHANGED <<world, out, entered>>

\* validate_frozen_selection_methods, authorize_locked_holdout_once,
\* validate_locked_holdout_access: _load_supported_freeze_artifact.  The file is
\* opened again for its own digest, which only HoldoutClaim makes use of.
StartEnter ==
    /\ cmd = Idle
    /\ \E from \in OutPath :
          LET frozen == out[from]
          IN /\ frozen # Nothing /\ frozen.schema \in {"freeze", "freezeBase"}
             /\ entered' = Nothing
             /\ cmd' = [at |-> IF frozen.schema = "freeze" THEN "finish" ELSE "parse",
                        kind |-> "enter", from |-> frozen.from, target |-> Nothing, contract |-> now,
                        primary |-> frozen.primary, fallback |-> frozen.fallback, frozen |-> frozen,
                        source |-> Nothing, digest |-> Nothing, todo |-> <<>>, touched |-> {}]
    /\ UNCHANGED <<world, out>>

\* A probe of one fold is no basis for a freeze.
Schemas(kind) == IF kind = "freeze" THEN {"cross"} ELSE {"base"}

\* _load_hashed_json_artifact parses the file, then opens it again to hash it.
ParseSource ==
    /\ cmd.at = "parse"
    /\ LET a == out[cmd.from]
       IN IF a # Nothing /\ a.schema \in Schemas(cmd.kind)
          THEN Continue([cmd EXCEPT !.at = "digest", !.source = a])
          ELSE Refuse

\* _require_base_oof_qualification.
Qualified(a) ==
    /\ DOMAIN a.got = Fold \X {Base}
    /\ \A key \in DOMAIN a.got : a.got[key].method = Pinned /\ a.got[key].checkpoint = Pinned
    /\ OneProvenance(a.got)

\* Mutant: only the deployed run is hashed again.
Rechecks_Deployed(kind, primary, fallback) ==
    [i \in 1..1 |-> [key |-> <<Deployment, primary>>, deployed |-> kind # "enter"]]

\* A candidate's freeze opens the deployed runs again; the base's freeze, and
\* every entry with it, all folds.
Rechecks(kind, primary, fallback) ==
    LET deployed(label) == [key |-> <<Deployment, label>>, deployed |-> TRUE]
        folds == [i \in 1..NFolds |-> [key |-> BaseKeys[i], deployed |-> FALSE]]
    IN CASE kind = "freeze"     -> IF fallback = Nothing THEN <<deployed(primary)>>
                                   ELSE <<deployed(primary), deployed(fallback)>>
         [] kind = "freezeBase" -> Append(folds, deployed(Base))
         [] kind = "enter"      -> folds

Opening(todo) ==
    IF todo = <<>> THEN "finish" ELSE IF Head(todo).deployed THEN "method" ELSE "rehash"

DigestSource ==
    /\ cmd.at = "digest"
    /\ LET a == out[cmd.from]
       IN IF a # Nothing /\ (cmd.kind = "freeze" \/ Qualified(cmd.source))
          THEN LET todo == Rechecks(cmd.kind, cmd.primary, cmd.fallback)
               IN Continue([cmd EXCEPT !.at = Opening(todo), !.digest = a, !.todo = todo])
          ELSE Refuse

Item == Head(cmd.todo)
Recorded == cmd.source.got[Item.key]

\* Mutant: a candidate's bundle is not opened again.
MethodStands_Trusted(entry) == TRUE

\* _revalidate_deployment_method_evidence: the adapter is validated again and
\* held against the evidence, its fold and its contract.
MethodStands(entry) ==
    IF entry.method = Pinned
    THEN entry.checkpoint = Pinned
    ELSE /\ entry.bundle # Nothing
         /\ adapter[entry.bundle] = entry.adapter
         /\ entry.checkpoint = entry.adapter

RecheckMethod ==
    /\ Reading("method")
    /\ IF MethodStands(Recorded)
       THEN Continue([cmd EXCEPT !.at = "rehash"])
       ELSE Refuse

RecheckRows ==
    /\ Reading("rehash")
    /\ IF rows[Recorded.path] = Recorded.rows
       THEN Continue([cmd EXCEPT !.at = "remanifest"])
       ELSE Refuse

RecheckManifest ==
    /\ Reading("remanifest")
    /\ IF manifest[Recorded.path] = Recorded.manifest
       THEN Continue([cmd EXCEPT !.at = "reread"])
       ELSE Refuse

\* The manifest is parsed again: run_binding; for every fold of the base also
\* _validate_execution_evidence.
Bound(m) ==
    /\ m.of.checkpoint = Recorded.checkpoint
    /\ m.of.fold = Item.key[1]
    /\ m.of.contract = cmd.source.contract
    /\ ~Item.deployed => SourcesStand(m) /\ m.exec = Recorded.exec

RereadManifest ==
    /\ Reading("reread")
    /\ LET m == manifest[Recorded.path]
       IN IF m # Nothing /\ Bound(m)
          THEN Continue([cmd EXCEPT !.at = Opening(Tail(cmd.todo)), !.todo = Tail(@)])
          ELSE Refuse

FreezeArtifact ==
    [schema |-> cmd.kind, from |-> cmd.from, digest |-> cmd.digest, payload |-> cmd.source,
     contract |-> cmd.source.contract, primary |-> cmd.primary, fallback |-> cmd.fallback]

PublishFreeze ==
    /\ cmd.at = "finish" /\ cmd.kind # "enter"
    /\ Write(cmd.target, FreezeArtifact)
    /\ UNCHANGED <<world, entered>>

\* The base's freeze must name the bytes and the payload of its qualification.
NamesSource(frozen) == frozen.digest = cmd.digest /\ frozen.payload = cmd.source

Enter ==
    /\ cmd.at = "finish" /\ cmd.kind = "enter"
    /\ IF (cmd.frozen.schema = "freezeBase" => NamesSource(cmd.frozen)) /\ cmd.frozen.contract = cmd.contract
       THEN /\ entered' = cmd.frozen
            /\ End
            /\ UNCHANGED <<world, out>>
       ELSE Refuse

(***************************************************************************)
(* What happens around a command                                           *)
(***************************************************************************)
Touch(what) ==
    /\ faults < MaxFaults
    /\ faults' = faults + 1
    /\ cmd' = IF "touched" \in DOMAIN cmd THEN [cmd EXCEPT !.touched = @ \cup {what}] ELSE cmd
    /\ UNCHANGED entered

\* The rows that are hashed and not yet read.
Hashed == IF cmd.at = "rows" THEN {<<CurrentRun, cmd.rows>>} ELSE {}

\* A run or an adapter is removed, copied or made again.
ReplaceRun ==
    \E r \in Replacement :
        /\ \/ /\ r[1] = "rows" /\ rows' = [rows EXCEPT ![r[2]] = r[3]] /\ UNCHANGED manifest
              /\ swapped' = swapped \cup {h \in Hashed : h[1] = r[2]}
           \/ r[1] = "manifest" /\ manifest' = [manifest EXCEPT ![r[2]] = r[3]] /\ UNCHANGED <<rows, swapped>>
        /\ Touch(<<"run", r[2]>>)
        /\ UNCHANGED <<now, adapter, stands, out>>

ReplaceAdapter ==
    \E r \in Replacement :
        /\ r[1] = "adapter" /\ adapter' = [adapter EXCEPT ![r[2]] = r[3]]
        /\ Touch(<<"adapter", r[2]>>)
        /\ UNCHANGED <<now, rows, manifest, stands, out, swapped>>

\* A source manifest, the config or a report of the runtime gate changes.
ChangeSources ==
    \E e \in stands :
        /\ stands' = stands \ {e}
        /\ Touch(<<"sources", e>>)
        /\ UNCHANGED <<now, rows, manifest, adapter, out, swapped>>

\* Somebody removes an artifact, or copies another one over it.
ReplaceArtifact ==
    \E path \in OutPath, content \in Range(out) \cup {Nothing} :
        /\ out[path] # Nothing /\ content # out[path]
        /\ out' = [out EXCEPT ![path] = content]
        /\ Touch(<<"out", path>>)
        /\ UNCHANGED <<now, rows, manifest, adapter, stands, swapped>>

ChangeContract ==
    \E c \in Contract :
        /\ c > now
        /\ now' = c
        /\ Touch(<<"contract", c>>)
        /\ UNCHANGED <<rows, manifest, adapter, stands, out, swapped>>

SelectionNext ==
    \/ StartRead \/ ReadManifest \/ HashRows \/ ReadRows \/ RecordRun \/ Conclude
    \/ StartFreeze \/ StartEnter \/ ParseSource \/ DigestSource
    \/ RecheckMethod \/ RecheckRows \/ RecheckManifest \/ RereadManifest
    \/ PublishFreeze \/ Enter
    \/ ReplaceRun \/ ReplaceAdapter \/ ChangeSources \/ ReplaceArtifact \/ ChangeContract

SelectionSpec == SelectionInit /\ [][SelectionNext]_selectionVars

(***************************************************************************)
(* Properties                                                              *)
(***************************************************************************)
TrainingMethods == {Pinned} \cup {a.method : a \in AdapterBytes}

EntryOf(kind) ==
    [path : RunPath, rows : RowBytes, manifest : Manifest, checkpoint : AdapterBytes \cup {Pinned},
     method : IF kind \in {"cross", "base"} THEN TrainingMethods ELSE TrainingMethods \cup {Nothing},
     bundle : AdapterPath \cup {Nothing}, adapter : AdapterBytes \cup {Nothing},
     exec : IF kind = "base" THEN Exec ELSE {Nothing}]

EvidenceOK(a) ==
    /\ a.schema \in {"cross", "base", "probe", "require"} /\ a.contract \in Contract
    /\ DOMAIN a.got \subseteq Key
    /\ \A key \in DOMAIN a.got : a.got[key] \in EntryOf(a.schema)

\* The artifacts there are, those inside freezes, and the evidence the running
\* command has collected so far.
Artifacts == {out[p] : p \in OutPath} \ {Nothing}
Freezes == {a \in Artifacts : a.schema \in {"freeze", "freezeBase"}}
Evidence ==
    (Artifacts \ Freezes) \cup {f.payload : f \in Freezes}
    \cup (IF "got" \in DOMAIN cmd THEN {Artifact(cmd.got)} ELSE {})

\* Every file holds bytes of its kind, and all evidence is complete: a run of a
\* comparison or a qualification has the method it was made by.
SelectionTypeOK ==
    /\ now \in Contract
    /\ rows \in [RunPath -> RowBytes \cup {Nothing}]
    /\ manifest \in [RunPath -> Manifest \cup {Nothing}]
    /\ adapter \in [AdapterPath -> AdapterBytes \cup {Nothing}]
    /\ stands \subseteq Exec
    /\ faults \in 0..MaxFaults
    /\ swapped \subseteq RunPath \X RowBytes
    /\ \A a \in Evidence : EvidenceOK(a)
    /\ \A f \in Freezes \cup ({entered} \ {Nothing}) :
          /\ EvidenceOK(f.payload) /\ f.digest.schema \in {"cross", "base", "probe", "freeze", "freezeBase"}
          /\ f.primary \in Range(Label) /\ f.fallback \in (Range(Label) \ {f.primary}) \cup {Nothing}

\* _load_development_run opens the rows twice, once for their digest and once to
\* recompute every row, and compares the second reading with the manifest's sums
\* only.  The rows whose digest evidence records are valid for the fold and the
\* contract, unless they were taken out of their file between the two; and even
\* then they are of this fold and carry the checkpoint that is recorded.
RecordedRowsAreValid ==
    \A a \in Evidence : \A key \in DOMAIN a.got :
        LET entry == a.got[key]
        IN /\ entry.rows.fold = key[1] /\ entry.checkpoint = entry.rows.checkpoint
           /\ \/ entry.rows.sound /\ entry.rows.contract = a.contract
              \/ <<entry.path, entry.rows>> \in swapped

\* compare_cross_fold_development_runs, verify_base_development_oof: no run and
\* no adapter stands for two folds or for two labels, however often files are
\* copied or the operator names them.
NothingCountedTwice ==
    \A a \in Evidence : a.schema \in {"cross", "base"} =>
        \A k, l \in DOMAIN a.got : k # l =>
            /\ <<a.got[k].rows, a.got[k].manifest>> # <<a.got[l].rows, a.got[l].manifest>>
            /\ a.got[k].adapter # Nothing => a.got[k].adapter # a.got[l].adapter

\* What may be frozen: a label has run on every fold of one contract, by one
\* training method, each time with an adapter that was trained without that
\* fold; the folds of the base share their sources.
FrozenFromAllFolds ==
    \A f \in Freezes : LET got == f.payload.got IN
        \A label \in {f.primary, f.fallback} \ {Nothing} : \A fold \in Fold :
            /\ <<fold, label>> \in DOMAIN got
            /\ got[<<fold, label>>].method = got[<<Deployment, label>>].method
            /\ got[<<fold, label>>].exec = got[<<Deployment, label>>].exec
            /\ label # Base =>
                  LET a == got[<<fold, label>>].adapter
                  IN a.fold = fold /\ a.contract = f.contract /\ a.method = got[<<fold, label>>].method

\* The files of an entry are as it records them, but for what has been replaced
\* since the running command began.
Untouched(what) == what \notin cmd.touched
RunStands(entry) ==
    Untouched(<<"run", entry.path>>) => rows[entry.path] = entry.rows /\ manifest[entry.path] = entry.manifest
BundleStands(entry) ==
    entry.bundle # Nothing /\ Untouched(<<"adapter", entry.bundle>>) => adapter[entry.bundle] = entry.adapter

SourcesOf(entry) == Untouched(<<"sources", entry.exec>>) => entry.exec \in stands

\* The runs a freeze goes by, and with them the adapters it deploys.
UsedBy(f) ==
    IF f.schema = "freeze" THEN {Deployment} \X ({f.primary, f.fallback} \ {Nothing}) ELSE Fold \X {Base}
UsedStand(f) == \A key \in UsedBy(f) : RunStands(f.payload.got[key]) /\ BundleStands(f.payload.got[key])

\* The runs of the base and their sources, and the artifact that qualified it.
BaseStands(f) ==
    /\ \A key \in Fold \X {Base} : RunStands(f.payload.got[key]) /\ SourcesOf(f.payload.got[key])
    /\ Untouched(<<"out", f.from>>) => f.digest = f.payload /\ out[f.from] = f.payload

Published(p) == out[p] = Nothing /\ out'[p] # Nothing /\ faults' = faults
FreezeAt(p) == Published(p) /\ out'[p].schema \in {"freeze", "freezeBase"}

\* freeze_development_selection, freeze_base_development_selection: a freeze is
\* published only if the deployed run and adapter of each frozen label, and for
\* the base the runs of all folds, are still the bytes that were compared: a
\* file replaced at any time between the comparison and the freeze is noticed.
FreezeSeesChanges == [][\A p \in OutPath : FreezeAt(p) => UsedStand(out'[p])]_selectionVars

\* docs/16:85: at the entry to the holdout the rows and manifests of all folds
\* of the base, and the files named as their sources, are hashed again; and what
\* is gone on with is the base as the artifact qualified it that the freeze
\* names: unless somebody replaced that file while it was being read, it is
\* still there and the freeze was not made from two different files.
EntrySeesChanges ==
    [][entered' # entered /\ entered' # Nothing /\ entered'.schema = "freezeBase" => BaseStands(entered')]_selectionVars
=============================================================================
