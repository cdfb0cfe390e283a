# Formal models of the deep-challenge toolkit

This directory holds TLA+ models of `src/deep_challenge`, the TLC
configurations that check them on small instances, and TLAPS proofs of their
central theorems. `PROJECT.json` lists components, runs, mutants, findings,
hazards, theorems, and the source lines that every definition translates.

    tlc -workers 2 -config ArtifactPair.cfg MCArtifactPair.tla
    tlapm ArtifactPairProofs.tla

## 1. The system

The toolkit prepares, trains and evaluates one model for a competition. It is
a set of command-line calls (`cli.py`) over files in private directories. There
is no server and no database. What has to stay right are *ledgers*: directories
in which evidence is only ever added, by calls that may overlap, may be killed
at any system call, and are repeated by an operator afterwards. The common
tools are a temporary file hard-linked to a new name (the link fails if the
name exists), a lock file that names its owner's process, and manifests that
bind other files by digest.

| Component | State it keeps | Operations | What is hard | Module |
| --- | --- | --- | --- | --- |
| `splits.py` | the split manifest | grouping, holdout, folds, exclusion, `eligible_training_ids` | order of unions, trim and balance at the boundary, leakage across partitions | `GroupedSplit` |
| `teacher_harness.py`, `teacher_pilot_authorization.py`, gates of `cli.py` | replay and live reports, canary plan, pilot receipt, plan sidecars | replay, canary, plan, run, finalize, audit, authorize | evidence read while the environment changes; kill in the middle of a canary | `TeacherGate` |
| `teacher_rationale.py`, plan ledger | attempt records with raw files, assessments, plan lock, the bank pair, the threshold marker | `run_teacher_plan`, `finalize_teacher_bank`, `teacher_plan_lock` | two workers; kill between raw files and record; paid commands must not be repeated | `TeacherLedger` |
| `teacher_rationale.py`, logical audit | audit plan, attempts, lock, result | plan, run, finalize, status | two recoverers of one lock; no second opinion | `LogicalAudit`, `AuditVerdict` |
| `rationale_materialization.py`, `rationale_corpus.py` | materialized rows, corpus and audit, each published once | select, publish, load, audit, train | files read twice, contracts that change between four commands | `RationaleChain` |
| `gate_b_runtime.py`, training resume | contract, `flock`, checkpoints, archives, markers, adapter directories | `train_qlora_fold`, `read_training_resume_status` | kill in the middle of archiving, of publication or of a checkpoint | `TrainingResume`, `TrainingJob` |
| `gate_b.py`, pair publication | a records file, its manifest, a lock file | `_publish_atomic_pair` and its lock functions | two links are not atomic; kill between them; rollback; stale-lock recovery | `ArtifactPair`, `PairCommit` |
| `gate_b.py`, resumable baseline | contract, lock, chunk attempts, progress | `_run_resumable_development_baseline`, final publication | crash anywhere and resume | `DevResume` |
| `gate_b_selection.py`, evidence | comparison, qualification and freeze artifacts | compare, qualify, probe, require, freeze, enter | files replaced between and during commands; one run counted twice | `SelectionFlow` |
| `gate_b_selection.py`, `gate_b_holdout.py` | claim, receipt, result | `authorize_locked_holdout_once`, `evaluate_locked_holdout_once` | one evaluation ever; failures consume the claim; concurrent calls | `HoldoutClaim`, `OneShot` |
| `answers.py`, `inference.py`, `evaluation.py`, `gate_b_prediction.py` | none, or one output | extraction, voting, exact match, prediction | pure functions of one process | - |
| `gpu_smoke.py`, `model_preflight.py`, `gate_b_sft_preflight.py`, `tokenizer_profile.py` | a report | read-only probes | hardware, external packages | - |
| `workflow_status.py`, `parser_golden.py`, `submission.py`, `independent_submission.py`, `data.py`, `quality.py`, `audit.py`, `provenance.py`, `public_repo_guard.py`, `development_shard.py` | none or one output | validation, formatting | input validation, single process | - |

They interact through files only, in this order: the split says which records
may be used; a canary and a pilot earn the right to ask the teacher; the plan
ledger yields a bank; banks are materialized into rows, rows into a corpus; the
corpus feeds training, which yields adapters; baseline runs over adapters are
compared and frozen; the freeze is the only key to the holdout claim. Each
module takes what its predecessor publishes as given and the predecessor's
promise as the reason: the ids a contract allows (`GroupedSplit`) are
`Split` in `RationaleChain`; a finished bank (`TeacherLedger`) is one step of
`TeacherGate` and a file in `RationaleChain`; a pair (`ArtifactPair`) appears in
`DevResume` as one live run at a time on one pair.

## 2. Modules

### `PairCommit`, `ArtifactPair`

`PairCommit` states what publishing one pair promises: the contents appear in
one step, are replaced by nothing, and may be withdrawn only before some writer
passed the point of no return.

`ArtifactPair` is `_publish_atomic_pair`, one action per system call on a shared
name. `records`, `manifest` and `lock` are the names in the directory; a file is
identified by the writer that made its inode, which is what the
`st_dev`/`st_ino` comparisons distinguish. `pc` is the place of each call,
`tries` the two iterations of the acquisition loop, `seen` what a recoverer read
from the lock file, `outcome` what the call has settled (`ok` once the
directory fsync after the manifest link succeeded, `failed_after_commit` when
the `finally` clause raises later, `failed_in_rollback` when the rollback itself
raised). `Crash(p)` is SIGKILL at any point. Process ids are not reused.
`MaxFaults` bounds failing system calls; `hit` are the writers they happened to.
Any call that touches a shared name may fail, those of the rollback and of the
`finally` clause included: an `OSError` of the first unlink of a rollback skips the
second, and one of the temporary files leaves the lock behind.

The lock is not safe against two recoverers (section 4). `stolen` records that a
live lock was unlinked; properties that rest on the lock are stated for
behaviours in which that did not happen, the others without it. `PairCommit` has
an action for it, `Breach`, after which it promises nothing.

### `DevResume`

`gate-b-development` over one resume directory: contract, resume lock, chunk
attempts, progress file, and the final pair.

| State | In the code |
| --- | --- |
| `contract` | `contract.json`, linked once and compared by every run |
| `lock` | the lock file: its owner, and whether its JSON is written yet (it is created empty) |
| `records`, `manifest` | the pair of every attempt `<<chunk, number>>` and of the final artifacts |
| `damaged` | records files that no longer have the bytes they were given |
| `progress` | `progress.json`: its state, and the set of chunks behind the number it carries |
| `pc`, `tries`, `seen` | place of each run, its acquisition loop, the owner it read |
| `have` | `recovered`: the rows a run counts as done, chunk by chunk |
| `target` | the pair a run publishes; `Final` once all chunks are complete |

A run goes through `RequireNewTargets` (the check of `cli.py`),
`InitializeContract`, the lock (`CreateLock`, `WriteLock`, `ReadLock`,
`CheckOwner`, `UnlinkStale`), `Load` (the newest attempt that verifies, per
chunk), `Generate`, the publication of the attempt, `Advance`, and again until
`Complete`, `Release`, `Validate` (after the lock was released) and the
publication of the final pair. An exception while a chunk is generated or
published is `Interrupt`. `Report` is the write of the progress file, which may
fail before or after the replacement. `Crash` is SIGKILL anywhere, `Damage` a
records file that rots.

Rows are named by the run that generated them: a record carries its measured
latency, so two generations of one chunk differ, and what two runs return agrees
only because the second recovers what the first published. The lock of a pair is
the subject of `ArtifactPair`; here it appears as what it ensures, one live run
at a time on one pair (`PairBusy`). The files read under one call are one
snapshot. `stolen` is as above: reclaiming the resume lock unlinks a name, too.

### `TeacherLedger`

One process per operator call. `attempts`, `evidence` (keys that have a raw
event file), `assessed`, `marker` and `bank` are the plan directory; `lock` the
plan lock. A run goes through the checks of `cli.py` (`CheckWave`,
`ReadRetryable`, both on unlocked reads), the lock (`TryLock`, `Inspect`,
`UnlinkStale`), `PlanJobs` (the whole job list, with pre-allocated numbers) and
the execution: `WriteEvidence` (raw files first), `WriteAttempt` (the record),
`LoseAttempt` (an exception in between), `CancelJobs` (the executor cancels what
no worker took). A finalizer goes through `CheckProtocol`, the lock, one
`WriteAssessment` per parsed attempt, `Conclude`, the two links of the bank, and
after the release `CheckThreshold` and `LinkMarker`. `Profile` selects the rules
of the v3, v4 and v5 teacher configurations. The code tells pilot plans from full
plans by their size (`Pilot`); waves, the retry before grading and the threshold
are rules of pilot plans only, and a full v5 plan may be graded with a broken
structure nobody retried.

Abstractions: problems are numbers, an answer is its status and the set of rows
that match the organizer's answer; the several file reads of one unlocked check
are one snapshot; release reads its token and unlinks in one step (they can
differ only after a lock was stolen); `malformed` is the class of broken
structures only v5 distinguishes; one repair invocation more or less than the
rules allow ends the call in `CheckWave`.

### `OneShot`, `HoldoutClaim`

`OneShot` is what the locked holdout promises: claimed for one freeze, opened
once, one result at most, and used up when the claim comes to nothing.

Calls of `gate-b-locked-holdout-evaluate`, each with its own freeze artifact,
backends and output path. `CheckStatic` covers every check before the claim,
`LinkClaim` and `LinkReceipt` the two no-replace files, `ValidateAccess` the
re-reading of both, `LoadRecords` the moment the holdout is opened,
`GeneratePrimary`/`GenerateFallback` one record each, `Publish` the result.
`Stop` is an exception or a kill anywhere; nothing is undone. A call opens its
freeze five times: for the static checks (`CheckStatic`), to parse and to hash what
it claims (`Authorize`, `HashFreeze`), to parse and to hash it again behind the
receipt (`ParseAgain`, `ValidateAccess`). `ReplaceFreeze` puts another freeze, or
none, under the path at any time, and `torn` is history: whose reading it separated
from which earlier one. A backend is compared by its checkpoint, which two methods
may share. All calls together are one `OneShot` (`Shot`): its stage follows from
the claim, the results and whether a call still pursues them (`Stage`).

### `TrainingResume`, `TrainingJob`

`gate-b-train-fold` over one persistent workspace and `gate-b-training-status`
next to it. `TrainingJob` is what the workspace promises to whoever relies on
it: bound to one contract, begun before it publishes, adapters never replaced,
completed once for an adapter of its own contract.

| State | In the code |
| --- | --- |
| `root`, `debris`, `contract` | the workspace directory, a temporary file a killed run left in it, `resume-contract.json` |
| `lockfile` | the file that is flocked; the flock itself is where a run is (`Locked`), since the kernel drops it with the process |
| `checkpoint` | `checkpoint-N`: missing, without sidecar, whole, or with bytes lost behind its sidecar |
| `forensic`, `manifested` | the forensic attempt of each recovery and its manifest |
| `adapter`, `started`, `completion` | published directories and the two markers |

A run binds the contract (`LookRoot` to `ValidateContract`), takes the flock
(`OpenLock`, `Flock`, `WriteLock`), finds a published adapter whose marker is
missing (`Recover`) or chooses a checkpoint and moves what does not verify aside
(`Select`, `MoveAside`, `WriteForensicManifest`, `Choose`), trains (`Save`,
`WriteSidecar`), exports, renames without replacing, verifies and marks. `Raise`
is an exception, `Die` SIGKILL, `Rot` a checkpoint that loses bytes. A run without
a workspace uses only the last part. The GPU work is abstracted to checkpoints
saved in order.

### `LogicalAudit`, `AuditVerdict`

Plan, run, finalize and status of the logical audit of a bank. `AuditVerdict`
says that at most `MaxAttempts` answers are recorded, that the first readable one
is the verdict, and that a manifest states it for ever. In `LogicalAudit`, `stage`
is how much of the plan directory is there, `attempts`, `evidence` and `parsed`
the three files of an attempt, `lock` the audit lock with its recovery of a dead
owner. A command loads the ledger before it takes the lock (`ReadAttempts`), decides
under it (`Decide`), asks (`Ask`), and links raw output, parsed output and record one
after the other. `Kill` ends a command anywhere.

### `TeacherGate`

What must be on disk before a question may be sent to the teacher. `env` is the
installed config, source tree, executable and data contract; `replays`, `canary`,
`lives` and `receipts` the evidence; `plan` each plan directory with its
sidecars. A report names another one by holding its content, which is what a
SHA-256 does for the code. One operator issues one command at a time, but a
command is several steps, and between two of them `Drift` may change the
environment, and a fault may kill the command or remove or edit evidence.
Executables are compared by the version they print (`VersionOf`), which two may
share, and only when a command starts: each call runs whatever is installed by
then (`Sent`). `earned` and `asked` are history: what a canary really got, and
under what each plan's questions were sent.

### `RationaleChain`

From finalized banks to what a training run learns: `gate-b-materialize-teacher-bank`,
`build-rationale-corpus`, `audit-rationale-corpus` and the rationale inputs of
`gate-b-train-fold`, by several operators whose target names overlap. `file` is
what is under each path, `op` what each command has read. A command opens its
inputs twice (once for the digest, once for the rows), and `ReplaceFile`,
`ReplaceSource` and `Drift` may come in between. The second reading of a corpus is
held against its manifest; that of a bank is held against nothing but its plan's
ids and the organizer's answers, and `torn` remembers what was put into a bank in
that moment. A contract is what a command is given: answers, exclusions, split and
rationale config.

### `SelectionFlow`

From development runs to a frozen method and the entry with it: the comparison
over all folds, the qualification of the base, the probe of one fold, the check
before an adapter is trained, both freezes, and the reading of a freeze by the
holdout and the submission. Rows, manifests and adapters are under paths and may
be replaced between any two reads, `stands` are the files named as sources that are
still as they were hashed (the tree that a source manifest lists is not hashed
again). Rows are hashed first and then opened a second time; of the second reading
the code compares the fold, the checkpoint and sums with the manifest (`AddUp`), so
other rows with the same sums pass, and `swapped` remembers the rows they took the
place of. A manifest is taken to hold the sums of the rows whose digest it holds. The operator may name any run in `Offer` for a fold and a
label, also the same one twice. Which candidate wins is a choice: the
statistics are not modelled, what they are applied to is.

### `GroupedSplit`

`build-splits`, and the questions later commands ask the manifest. The union-find
with path compression is modelled link by link (`Find`, `Union`), then
`Resolve` names each group after its least record, `Scan` and `Trim` choose the
holdout group by group, `Deal` gives the largest group left to the lightest
fold, `Validate` is the manifest's own validation, and `Ask` is a training
command with its exclusions. Ranks taken from SHA-256 order candidates in a way
nobody chose: any of them may come first. The holdout fraction is a ratio of
integers; the rounding of doubles is left out.

### MC and proof modules

`MC*` modules give small instances; `*Proofs` modules hold the theorems.
`TeacherProofs` is about `TeacherLedger` and `TeacherGate`, `HoldoutProofs` about
`HoldoutClaim` and `SelectionFlow`: two specifications that share no variable in
one proof module each. Where both would use a name, that of the gate or the
selection says so (`GateInit`, `SelectionNext`).
Definitions named `X_Y`, which stand before the definition `X` they change, are
plausible bugs: each property of a passing run is violated when `X` is replaced
by its mutant. They are used by nothing else.

## 3. Runs

| Run | Instance | Shows |
| --- | --- | --- |
| `pair` | 3 writers, 2 payloads, 2 faults, any crash | a failed call leaves nothing of its own, and one whose rollback failed as well no manifest without its bytes (`FailureLeavesNothing`); `ArtifactPair` implements `PairCommit` (`RefinesPairCommit`), which includes that a commit is final; a rerun that is alone commits (`LoneRerunRecovers`) |
| `pair_reclaim` | 3 writers | finding 1 |
| `ledger` | 2 operators, 2 workers, chunks of 2 and 1 rows, 3 attempts, profile v5, a pilot plan, up to 4 records | unique identities (`OneRecordPerKey`), the cap (`AttemptCap`), no row paid for twice (`NeverPaysTwice`), complete banks (`BankComplete`), one retry of a broken structure, even after a stolen lock, and no score before it (`ProtocolRetryOnce`) |
| `ledger_partial` | 1 operator, 2 chunks of 1 row, profile v3 | finding 2 |
| `holdout_gate` | 2 calls, 3 freezes (two that a backend cannot tell apart, one without a fallback) under 1 path, 3 replacements, 2 outputs, 2 records | one opening (`OpenedOnce`), by the call and with the methods the claim names although the freeze may be another one at each of five readings (`ClaimBinds`), a result that follows the routing policy; `HoldoutClaim` implements `OneShot` (`RefinesOneShot`), which includes that an abandoned claim stays consumed |
| `dev` | 2 runs, 2 contracts, 2 chunks, 1 fault, 1 rotten file, any crash | chunks are generated once (`GeneratedOnce`), completed runs agree and the final rows are those of the ledger (`OneResult`), a lone run completes |
| `training` | 2 runs, 2 contracts, 1 monitor, 2 checkpoints, 1 fault, 1 rotten checkpoint, any kill | training goes on from the newest whole checkpoint, none is overwritten or lost (`CheckpointsKept`); `TrainingResume` implements `TrainingJob`; a lone run completes |
| `audit` | 2 operators, 2 attempts, 2 kills | a readable ledger, no second opinion, `LogicalAudit` implements `AuditVerdict`; a lone run records an answer |
| `gate` | 1 canary directory, 2 plans, 2 calls per canary, 3 trees (1 broken), 3 binaries of 2 versions, 2 data contracts, 1 drift, 2 faults | questions only on an earned canary (`AskedOnEarnedCanary`), on one report per plan and under what it names, but for an executable replaced during a run (`OneEvidencePerPlan`), the full bank only after its pilot (`FullFollowsPilot`), and reports that name what exists (`GateTypeOK`) |
| `chain` | 2 operators, 4 problems, 3 folds, 3 contracts, 3 banks, 1 drift, 1 fault | manifests name their records, materializations are exact, each of their rows is one of an authorized bank (`PromotedOnly`), training learns what its evidence names |
| `selection` | 2 folds, base and 2 candidates, 3 starting directories, 1 replaced file or changed source | complete evidence (`SelectionTypeOK`), recorded rows are valid unless they were swapped before they were read (`RecordedRowsAreValid`), nothing is counted twice, freezes rest on all folds; what a freeze or an entry goes by stands, or was replaced since it began (`FreezeSeesChanges`, `EntrySeesChanges`) |
| `split` | 6 records, up to 4 labels of 2 kinds, 3 unions or none, 2 folds, fractions 1/2 and 1/10 | groups are classes, accepted parameters succeed, the holdout is close to its size, no leak |

The modules state more than the runs check. Types, the exclusion properties
(`MutualExclusion`, `LedgerExcludes`, `OneTrainer`), what several steps of an
argument establish (`HeldRowsPersist`, `ProgressHonest`, `OneContract`,
`WorkspaceIsBound`, `CompleteIsSticky`, `Balanced` and others) are proved for
every instance instead (section 5), and the runs are left with what they alone can
show (liveness) and with the promises a user of each component relies on.

Bounds. Three writers are needed for the recovery races (a dead owner and two
recoverers); two payloads distinguish a recoverable orphan from a foreign one.
One chunk of two rows gives a repair in two groups and partial acceptance, a
second chunk a wave that is only partly done. Two operators suffice for
check/lock races: a third would repeat the role of one of them. Four records are
an initial wave, a protocol retry and one more; after a theft of the plan lock
two records, a retry among them, show what is left of the guarantees. In `DevResume` a run makes at
most one attempt of a chunk, so three attempt numbers for two runs are never
exhausted. In `TrainingResume` two checkpoints give a whole one below a partial
one; each of the two runs may be the killed one, and the second finds every state
a sequence of kills can leave. In `LogicalAudit` two kills give the dead owner and
a second kill in the recovery; two attempts give an unreadable answer and a
verdict. In `TeacherGate` one drift suffices because every check compares two
readings. In `RationaleChain` two operators share a manifest name under two record
names; one replaced file falls between any two reads, those of a bank included. In `GroupedSplit` six
records hold two chained groups of three and every smaller partition; half of
them leaves too few groups for two folds, a tenth less than any group. `Within`,
`Beginning`, `Representative` and `UpToRenaming` in the MC modules cut symmetric or
repeated cases and are explained there.

Writers, runs and holdout calls make one call each and then stop, and a split is
built once, so those instances do not check deadlock. Where an operator may
always issue another command (ledger, audit, gate, chain, selection), deadlock is
checked. Symmetry is not used for liveness.

Fairness: `WF(Step(p))`, `WF(TrainFold(p))` per process: a live process keeps
executing. No call is obliged to start, no fault or crash is obliged to happen or
to stop, no monitor to be called.

## 4. Where the code and its documentation differ

1. *Stale pair locks* (`pair_reclaim`). "Reclaim only a verified dead-owner
   lock": the lock name is unlinked after the check without re-reading it. Two
   recoverers of one dead owner can both enter.
2. *Interrupted attempts* (`ledger_partial`). A run killed between the raw event
   file and the attempt record leaves an event file that blocks its number for
   ever: numbers are derived from records.

Noticed while modelling and visible in the models, but not stated as properties:

* The marker of a failed wave is linked after the plan lock is released
  (`cli.py:2729`); a finalizer killed in between leaves a wave below the threshold
  that later runs repair. The v4 wave rule is checked before the lock and not
  under it (`cli.py:2426`), so two runs that passed the check may share a wave.
  The rule of profile v4 is part of `CheckWave`; the run uses profile v5.
* The training monitor drops its shared lock before it reads marker and
  checkpoints (`gate_b_runtime.py:1748`), so that it may answer
  `terminal_failed` while a run has just begun. Only `complete` is sticky. And
  while it holds the lock it makes a starting run fail (the `refused` of
  `LoneRunCompletes`).
* The remaining-scope commands never check the harness evidence again
  (`cli.py:3083`): `Gated` covers the pilot and the full plan.
* A freeze opens the adapter of the deployed fold again, not those of the other
  folds (`gate_b_selection.py:1590`): `FreezeSeesChanges` speaks of the deployed
  run and, for the base, of all runs.
* A run of the baseline killed while it creates the resume lock leaves an empty
  file that blocks every later run (`EmptyLock` in `LoneRunCompletes`), and
  `_require_new_development_targets` refuses the exact records-only orphan that
  the pair writer itself would complete. A training run killed while it writes
  the contract blocks the workspace in the same way (`debris` in `Blocked`).
* The methods of a freeze are bound to its claim only as far as a file read twice
  can bind them: a freeze replaced between parsing and hashing, before the claim and
  again behind the receipt, is evaluated with the methods of another one
  (the exception in `ClaimBinds`).
* A Codex executable upgraded in place while a run is asking is asked from then on:
  each call compares its path only (`cli.py:5116`; the exception in
  `OneEvidencePerPlan`). The same holds for a canary.
* The rows of a run are compared with sums when they are read a second time
  (`gate_b_selection.py:2710`): invalid rows that are swapped for valid ones with the
  same sums after they were hashed leave their digest in the evidence (the exception
  in `RecordedRowsAreValid`).
* The file of a bank is verified and then opened again for its rows
  (`rationale_materialization.py:368`, `394`), which nothing compares with the digest
  the materialization records (the exception in `PromotedOnly`).
* An unlink that fails in the rollback of a pair leaves what the rollback had not
  reached (`gate_b.py:2693`; `failed_in_rollback` in `FailureLeavesNothing`).
* A kill between raw output and record blocks a number of the logical audit, too
  (`LoneRunRecords` excludes it).

## 5. Proofs

All theorems hold for every number of writers, payloads, operators, chunks,
calls, freezes, plans, canaries, runs and records, and for every bound on faults,
from the named assumptions on the constants (the marker values are distinct from
the data; the limits are natural numbers; sets of records are finite; records,
manifests and audits have names of their own; files hold content of their kind).

* `ArtifactPairProofs`: an inductive invariant that ties the place of each
  writer to the names that carry its inode and to the lock. Mutual exclusion and
  the pair's consistency are not inductive alone: whether a manifest may be
  linked depends on what this writer saw under the lock, which only the holder
  can have changed. Since a rollback removes the manifest first, one that breaks
  leaves a manifest only over records of its own bytes. From it: types, exclusion, consistency, clean failure,
  finality of a commit (an action property), and the refinement of `PairCommit`.
* `DevResumeProofs`: `Inv` says where each run is and which pair it is at
  (`PlaceInv`), how far the pair's owner is with the links (`PairInv`), that the
  resume lock names the run in the ledger (`LockInv`), that what a run or the
  progress file counts is *kept*, attested and worked on by nobody (`HeldInv`,
  `ProgressInv`, `FinalInv`), that a published chunk survives until it is
  counted (`AdvanceInv`), and that a chunk still missing has no sound attempt
  (`FreshInv`). None of the properties is inductive alone: a rollback could
  remove an attested attempt another run has counted, unless it is known that
  nobody is at it. The argument is three steps: only the run at a pair changes
  the pair (`OnlyTarget`), new attempts take unused numbers, so no run ever
  comes to work on a kept attempt (`KeptStays`), and under the lock whatever is
  attested is kept (`KeptWhileLocked`). All safety properties of the
  module follow, `OneResult` and the types among them; `OneContract` needs no lock.
* `TeacherProofs`, the ledger: `LedgerInv` has five parts. Identities (`KeyInv`):
  whatever has a record or is in flight has its raw file, and keys in flight are
  distinct; this needs no lock at all, which is why it survives stolen locks.
  Types: there are finitely many attempts, hence a latest one of a chunk, hence a
  next number. The lock (`LockInv`): a call that works under it owns it until a
  live lock is unlinked, since only the recoverer of a dead owner unlinks it.
  Payment (`PayInv`): the jobs a run plans are about pending rows and share none,
  and while no other run writes they stay so, because each record a run
  writes settles rows that none of its other jobs is about; from this
  `AttemptCap` and `NeverPaysTwice`, and with the accepted rows of the problems
  `BankComplete`. The protocol (`ProtocolInv`, `RetryInv`): what a check found
  resolved stays resolved, so that a check outside the lock may be believed; and
  the first retry of a chunk has the number 2, under which only one record
  fits. For this reason `ProtocolRetryOnce` does not ask for an intact lock in its
  second half: an earlier form did, and the proof did not need it.
* `TeacherProofs`, the gate: `GateInv` says that a canary plan holds a beginning of
  the answers that were really given (`CanaryInv`): storage may lose the last
  ones, and no canary is taken up again, so whatever agrees with a full plan was
  really paid. Then, that whatever a gated plan was asked under is what
  its sidecar names (`Strong`, `AskInv`): the sidecar is linked once, when nothing has been
  asked, and every run compares the installed source and executable with it; between
  runs nothing is asked, so an executable the report does not name came during one. Both
  `AskedOnEarnedCanary` and `OneEvidencePerPlan` follow. And that a passed pilot stays
  passed (`Passed`, `PilotInv`): its receipt is verified before the sidecar is written
  without which the full plan cannot ask. A kill between the two sidecars leaves
  a plan that can never ask, not one that may ask too much.
* `LogicalAuditProofs`: whoever has linked raw output is the only one between raw
  output and record, and has seen every record (`Current`, `OneInFlight`). The
  reason is counting: a command asks for the number after those it has read, the
  link succeeds only under a number without raw output, and every record has its
  own (`FreshIsNext`). This again needs no lock; only that nothing is *asked* once
  the audit is closed does (`Held`). Since the one in flight is up to date, its
  record is the next step of the abstract audit, and the first readable answer is
  the only one (`VerdictIsUnique`): `LogicalAudit` implements `AuditVerdict`.
* `RationaleChainProofs`: what a command has verified it carries with it (`Sound`):
  the banks checked so far are authorized, the rows read so far are correct within the
  fold, what is audited or learned from is what the manifest names. What is shared
  are names, and records that wait for their manifest belong to one command
  (`Owned`): they were linked under a free name, so no manifest and no other command
  counts on them, and taking them back when the manifest's name is lost harms
  nobody. Where rows are from (`Traced`) is an invariant of its own, since it speaks of
  bank files too: between check and second opening a file is as the ledger derives it
  or was put there in that very moment. All four properties of the run follow, and
  the types.
* `HoldoutProofs`, the claim: an invariant in which the claim separates the calls. A
  call behind the claim is alone and nothing is opened yet; a call that
  generates is the one that opened. What a call has read (`ReadingInv`) is, reading by
  reading, what it had read before unless the file was replaced in between, and past
  the last check the receipt's methods are those the backends were checked against.
  From it all safety properties of the module and
  the action property that abandoned claims stay abandoned. Where a call is says
  what the stage of `OneShot` is (`StageIs`), so each step of a call is one of
  `OneShot` or a stutter, and a call that stops behind the claim loses the
  evaluation (`StoppingLoses`): `HoldoutClaim` implements `OneShot`. The mapping
  needs that a missing file is no result (`ResultAssumption`).
* `HoldoutProofs`, the selection: `SelectionInv` says first what evidence is worth
  (`GoodEvidence`): each entry is of rows that were valid and carries their
  checkpoint, was made as it says (`Provenance`), and shares nothing with the
  others (`Distinct`); and that a command in the middle of reading has collected,
  together with what it has to visit, all of the grid. That the grid visits every
  fold and label is a lemma on quotients (`GridVisits`). The rows an entry records are
  those that were hashed, and the rows that were read are the same ones or have taken
  their place in between (`swapped`). Evidence in artifacts and
  freezes is of this kind whatever is copied over what. From it the types and the
  three invariants of the run. The two action properties need `StandsInv`: each
  item a command must open again is still on its list or stands, and what stands
  goes on standing or is noted as replaced (`StaysFresh`). The list visits whatever
  the freeze goes by (`RechecksVisit`). The attempt to prove an earlier
  `EntrySeesChanges` failed for a good reason: it said that a freeze that is entered with
  was always made from one file, which holds only for a single replaced file. With
  three replacements of the qualification, two around the freeze and one during the
  entry, parse and digest may be of two files at both places. The property now
  excepts an artifact that was replaced during the entry.
* `TrainingResumeProofs`: `RunInv` says what a run may rely on where it is: it was
  called (`Called`), past the lock it has the workspace's contract (`Bound`), past
  the start marker training has begun (`Begun`), the adapter it marks is of its
  contract (`Vouched`), what it moves aside does not verify (`Aside`), and beyond
  the checkpoint it goes on from the directory is empty or about to be
  (`Frontier`). The argument is that a step of another run cannot disturb any of
  it: evidence is only added (`Added`), and the Trainer directory changes under
  the flock only or loses bytes (`Undisturbed`). All safety and action properties
  of the module follow, `CheckpointsKept` among them, and that `TrainingResume`
  implements `TrainingJob`.
* `GroupedSplitProofs`: the union-find forest with a rank that grows towards the
  roots, so that every walk ends in the least closed set of its record; a union
  merges two classes and compression none (`Clustering`). Then one invariant per
  stage: groups are classes named after their least member (`Grouped`), the
  holdout is near its target and leaves a group per fold (`Holding`), no fold
  without one of its groups exceeds another (`Loaded`), and what a command trains
  on (`Answered`). Minimal elements come from the library's well-founded orders
  on finite subsets, since induction over data is out of reach.

Model-checked only: what a lone run or rerun eventually does (`LoneRerunRecovers`,
`LoneRunCompletes`, `LoneRunRecords`), since liveness under fairness and `ENABLED`
are outside the prover's reach. Every other property of a passing run is a theorem.
What `GroupedSplit` computes is proved as an invariant of the walk, link by link,
since induction over data is out of reach. `pair_reclaim` and `ledger_partial` show
counterexamples and have nothing to prove.

## 6. Plan

1. An abstract ledger that `DevResume` and `TeacherLedger` both implement.

## 7. Not modelled

Byte formats, digests (a digest stands for its contents), wording, GPU work. The
statistics behind a selection (exact binomial sums, Holm's correction) and answer
extraction work on fractions and characters and are deterministic functions of one
process, which their unit tests reach. `gate_b_prediction.py` repeats the routing
of the holdout evaluation and the publication of a file; `development_shard.py`
repeats the locked publication of a pair. The read-only preflights, the status
view, and the validators and formatters listed as `not_modelled` in `PROJECT.json`
change no shared state.
