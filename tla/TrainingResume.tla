--------------------------- MODULE TrainingResume ---------------------------
(***************************************************************************)
(* QLoRA fold training (gate_b_runtime.py): train_qlora_fold over one      *)
(* persistent workspace, and read_training_resume_status, which looks at   *)
(* the workspace from another process.                                     *)
(*                                                                         *)
(* The workspace holds a contract, a flock file, a start marker, the       *)
(* Trainer's checkpoints, a forensic attempt per recovery and a completion *)
(* marker.  Adapters are published next to it by an atomic rename.  A run  *)
(* may be killed between two system calls, fail anywhere, or find a        *)
(* checkpoint that lost bytes.  The kernel drops a flock with its process, *)
(* so the lock of a run is where the run is; the lock file itself stays.   *)
(***************************************************************************)
EXTENDS Naturals, FiniteSets

CONSTANTS
    Run,        \* processes running gate-b-train-fold
    Monitor,    \* processes running gate-b-training-status
    Contract,   \* the evidence a contract binds: plan, gates, data, source
    Output,     \* names an adapter may be published under
    LastStep,   \* checkpoints a whole training saves
    Absent,     \* nothing under a name
    MaxFaults,  \* bound on failing calls
    MaxDamage   \* bound on checkpoints that lose bytes

Step == 1..LastStep
Adapter == [contract : Contract, own : BOOLEAN]
Call == [contract : Contract, output : Output, resume : BOOLEAN]

ASSUME AbsentAssumption == Absent \notin Adapter \cup Call \cup Contract \cup Output
ASSUME BoundsAssumption ==
    /\ LastStep \in Nat
    /\ MaxFaults \in Nat
    /\ MaxDamage \in Nat

VARIABLES
    root,        \* the workspace directory exists
    debris,      \* a killed run left the temporary file of a contract in it
    contract,    \* resume-contract.json
    lockfile,    \* the lock file: Absent, "empty" or "written"
    started,     \* the start marker exists
    checkpoint,  \* checkpoint-N: "none", "partial" (no sidecar), "whole", "rotten"
    forensic,    \* what the recovery of each run moved aside
    manifested,  \* runs whose forensic attempt has its manifest
    adapter,     \* adapter directories
    completion,  \* the output the completion marker names
    pc,          \* where each run is
    call,        \* what each run was started with
    newest,      \* the checkpoint each run resumes from, 0 for none
    moving,      \* checkpoints each run has yet to move aside
    step,        \* the last checkpoint each run has saved or resumed from
    faults, rot, \* failures and damage so far
    mpc, answer  \* where each monitor is, and its last answer

disk == <<root, debris, contract, lockfile, started, checkpoint, forensic, manifested,
          adapter, completion>>
local == <<call, newest, moving, step>>
vars == <<disk, pc, local, faults, rot, mpc, answer>>

Preparing == {"root", "mkdir", "look_contract", "look_entries", "temp", "link_contract",
              "validate_contract", "output", "open_lock", "flock"}
Working == {"write_lock", "inspect", "recover", "select", "archive", "choose", "begin",
            "resume", "train", "sidecar", "export", "publish", "verify", "complete"}
Over == {"done", "failed", "refused", "dead"}
Answers == {"none", "error", "complete", "running", "ready", "retryable", "terminal_failed"}

TypeOK ==
    /\ root \in BOOLEAN
    /\ debris \in BOOLEAN
    /\ contract \in Contract \cup {Absent}
    /\ lockfile \in {Absent, "empty", "written"}
    /\ started \in BOOLEAN
    /\ checkpoint \in [Step -> {"none", "partial", "whole", "rotten"}]
    /\ forensic \in [Run -> SUBSET (Step \X {"partial", "rotten"})]
    /\ manifested \subseteq Run
    /\ adapter \in [Output -> Adapter \cup {Absent}]
    /\ completion \in Output \cup {Absent}
    /\ pc \in [Run -> {"idle"} \cup Preparing \cup Working \cup Over]
    /\ call \in [Run -> Call \cup {Absent}]
    /\ newest \in [Run -> 0..LastStep]
    /\ moving \in [Run -> SUBSET Step]
    /\ step \in [Run -> 0..LastStep]
    /\ faults \in 0..MaxFaults
    /\ rot \in 0..MaxDamage
    /\ mpc \in [Monitor -> {"idle", "lock", "read_lock", "marker", "steps"}]
    /\ answer \in [Monitor -> Answers]

Init ==
    /\ root = FALSE
    /\ debris = FALSE
    /\ contract = Absent
    /\ lockfile = Absent
    /\ started = FALSE
    /\ checkpoint = [s \in Step |-> "none"]
    /\ forensic = [p \in Run |-> {}]
    /\ manifested = {}
    /\ adapter = [o \in Output |-> Absent]
    /\ completion = Absent
    /\ pc = [p \in Run |-> "idle"]
    /\ call = [p \in Run |-> Absent]
    /\ newest = [p \in Run |-> 0]
    /\ moving = [p \in Run |-> {}]
    /\ step = [p \in Run |-> 0]
    /\ faults = 0
    /\ rot = 0
    /\ mpc = [m \in Monitor |-> "idle"]
    /\ answer = [m \in Monitor |-> "none"]

Alive(p) == pc[p] \in Preparing \cup Working
Goto(p, label) == pc' = [pc EXCEPT ![p] = label]
Mine(p) == call[p].output

\* The exclusive flock of the workspace, from flock to close or death.
Locked(p) == pc[p] \in Working /\ call[p].resume

\* Monitors hold the same file with a shared flock while they read it.
Reading(m) == mpc[m] = "read_lock"

Whole == {s \in Step : checkpoint[s] = "whole"}

\* _recoverable_trainer_checkpoint_reason: a directory without the sidecar, or
\* one whose files no longer verify behind it.
Recoverable == {s \in Step : checkpoint[s] \in {"partial", "rotten"}}

Latest(S) == IF S = {} THEN 0 ELSE CHOOSE s \in S : \A t \in S : t <= s

(***************************************************************************)
(* The contract                                                            *)
(***************************************************************************)
\* The gate reports: either is missing, red or bound to another, or they are
\* green.  They and the data may be generated anew between two runs.
GateRed(p) ==
    /\ pc[p] = "idle"
    /\ Goto(p, "failed")
    /\ UNCHANGED <<disk, local, faults, rot, mpc, answer>>

\* The plan derived from the split, the gates and the data are the contract.
Start(p) ==
    /\ pc[p] = "idle"
    /\ \E k \in Contract, o \in Output, r \in BOOLEAN :
          /\ call' = [call EXCEPT ![p] = [contract |-> k, output |-> o, resume |-> r]]
          /\ Goto(p, IF r THEN "root" ELSE "output")
    /\ UNCHANGED <<disk, newest, moving, step, faults, rot, mpc, answer>>

LookRoot(p) ==
    /\ pc[p] = "root"
    /\ Goto(p, IF root THEN "look_contract" ELSE "mkdir")
    /\ UNCHANGED <<disk, local, faults, rot, mpc, answer>>

\* A concurrent creator must have finished the contract.
MakeRoot(p) ==
    /\ pc[p] = "mkdir"
    /\ root' = TRUE
    /\ Goto(p, IF root THEN "validate_contract" ELSE "temp")
    /\ UNCHANGED <<debris, contract, lockfile, started, checkpoint, forensic, manifested,
                   adapter, completion, local, faults, rot, mpc, answer>>

LookContract(p) ==
    /\ pc[p] = "look_contract"
    /\ Goto(p, IF contract = Absent THEN "look_entries" ELSE "validate_contract")
    /\ UNCHANGED <<disk, local, faults, rot, mpc, answer>>

\* any(root.iterdir()), temporary files of other runs included.
HasEntries ==
    \/ debris
    \/ contract # Absent
    \/ \E q \in Run : pc[q] = "link_contract"

LookEntries(p) ==
    /\ pc[p] = "look_entries"
    /\ Goto(p, IF HasEntries THEN "failed" ELSE "temp")
    /\ UNCHANGED <<disk, local, faults, rot, mpc, answer>>

\* _atomic_write_new_file: the temporary file, then link and unlink.
WriteTemp(p) ==
    /\ pc[p] = "temp"
    /\ Goto(p, "link_contract")
    /\ UNCHANGED <<disk, local, faults, rot, mpc, answer>>

LinkContract(p) ==
    /\ pc[p] = "link_contract"
    /\ contract' = IF contract = Absent THEN call[p].contract ELSE contract
    /\ Goto(p, "validate_contract")
    /\ UNCHANGED <<root, debris, lockfile, started, checkpoint, forensic, manifested, adapter,
                   completion, local, faults, rot, mpc, answer>>

\* A missing contract, or one of other evidence, ends the run.
ValidateContract(p) ==
    /\ pc[p] = "validate_contract"
    /\ Goto(p, IF contract = call[p].contract THEN "output" ELSE "failed")
    /\ UNCHANGED <<disk, local, faults, rot, mpc, answer>>

\* Without a workspace an existing adapter is refused and nothing is kept.
CheckOutput(p) ==
    /\ pc[p] = "output"
    /\ Goto(p, IF call[p].resume THEN "open_lock"
               ELSE IF adapter[Mine(p)] # Absent THEN "failed" ELSE "export")
    /\ UNCHANGED <<disk, local, faults, rot, mpc, answer>>

(***************************************************************************)
(* The lock                                                                *)
(***************************************************************************)
OpenLock(p) ==
    /\ pc[p] = "open_lock"
    /\ lockfile' = IF lockfile = Absent THEN "empty" ELSE lockfile
    /\ Goto(p, "flock")
    /\ UNCHANGED <<root, debris, contract, started, checkpoint, forensic, manifested, adapter,
                   completion, local, faults, rot, mpc, answer>>

Contended(p) == (\E q \in Run \ {p} : Locked(q)) \/ \E m \in Monitor : Reading(m)

\* LOCK_EX | LOCK_NB, then the file is truncated.
Flock(p) ==
    /\ pc[p] = "flock"
    /\ IF Contended(p)
       THEN /\ Goto(p, "refused")
            /\ UNCHANGED lockfile
       ELSE /\ Goto(p, "write_lock")
            /\ lockfile' = "empty"
    /\ UNCHANGED <<root, debris, contract, started, checkpoint, forensic, manifested, adapter,
                   completion, local, faults, rot, mpc, answer>>

\* The process id is written and the contract is read again under the lock.
WriteLock(p) ==
    /\ pc[p] = "write_lock"
    /\ lockfile' = "written"
    /\ Goto(p, IF contract = call[p].contract THEN "inspect" ELSE "failed")
    /\ UNCHANGED <<root, debris, contract, started, checkpoint, forensic, manifested, adapter,
                   completion, local, faults, rot, mpc, answer>>

Inspect(p) ==
    /\ pc[p] = "inspect"
    /\ Goto(p, IF adapter[Mine(p)] # Absent THEN "recover" ELSE "select")
    /\ UNCHANGED <<disk, local, faults, rot, mpc, answer>>

\* validate_adapter_artifact: the directory closes over its own checksums.
Verifies(o) == adapter[o] # Absent

\* And its manifest holds every piece of evidence of the contract.
BoundTo(o, k) == Verifies(o) /\ adapter[o].contract = k

\* A published adapter: only its completion marker is missing.
Recover(p) ==
    /\ pc[p] = "recover"
    /\ Goto(p, IF completion = Absent /\ started /\ BoundTo(Mine(p), contract)
               THEN "complete" ELSE "failed")
    /\ UNCHANGED <<disk, local, faults, rot, mpc, answer>>

(***************************************************************************)
(* Checkpoints                                                             *)
(***************************************************************************)
Select(p) ==
    /\ pc[p] = "select"
    /\ newest' = [newest EXCEPT ![p] = Latest(Whole)]
    /\ moving' = [moving EXCEPT ![p] = Recoverable]
    /\ Goto(p, IF Recoverable = {} THEN "choose" ELSE "archive")
    /\ UNCHANGED <<disk, call, step, faults, rot, mpc, answer>>

\* Mutant: partial checkpoints are deleted.
MoveAside_Delete(p) ==
    /\ pc[p] = "archive"
    /\ \E s \in moving[p] :
          /\ checkpoint' = [checkpoint EXCEPT ![s] = "none"]
          /\ moving' = [moving EXCEPT ![p] = @ \ {s}]
    /\ UNCHANGED <<root, debris, contract, lockfile, started, forensic, manifested, adapter,
                   completion, pc, call, newest, step, faults, rot, mpc, answer>>

\* One rename into the forensic attempt of this run; nothing is rolled back.
MoveAside(p) ==
    /\ pc[p] = "archive"
    /\ \E s \in moving[p] :
          /\ forensic' = [forensic EXCEPT ![p] = @ \cup {<<s, checkpoint[s]>>}]
          /\ checkpoint' = [checkpoint EXCEPT ![s] = "none"]
          /\ moving' = [moving EXCEPT ![p] = @ \ {s}]
    /\ UNCHANGED <<root, debris, contract, lockfile, started, manifested, adapter, completion,
                   pc, call, newest, step, faults, rot, mpc, answer>>

WriteForensicManifest(p) ==
    /\ pc[p] = "archive"
    /\ moving[p] = {}
    /\ manifested' = manifested \cup {p}
    /\ Goto(p, "choose")
    /\ UNCHANGED <<root, debris, contract, lockfile, started, checkpoint, forensic, adapter,
                   completion, local, faults, rot, mpc, answer>>

\* Mutant: a workspace without a checkpoint is refused.
Choose_NoRestart(p) ==
    /\ pc[p] = "choose"
    /\ Goto(p, IF newest[p] = 0 /\ started THEN "failed" ELSE "begin")
    /\ UNCHANGED <<disk, local, faults, rot, mpc, answer>>

\* After training started something must be left to account for it: a whole
\* checkpoint, or entries this very run moved aside.
Choose(p) ==
    /\ pc[p] = "choose"
    /\ Goto(p, IF newest[p] = 0 /\ started /\ p \notin manifested THEN "failed" ELSE "begin")
    /\ UNCHANGED <<disk, local, faults, rot, mpc, answer>>

MarkStarted(p) ==
    /\ pc[p] = "begin"
    /\ started' = TRUE
    /\ Goto(p, "resume")
    /\ UNCHANGED <<root, debris, contract, lockfile, checkpoint, forensic, manifested, adapter,
                   completion, local, faults, rot, mpc, answer>>

\* The runtime verifies the chosen checkpoint once more before it loads it.
Resume(p) ==
    /\ pc[p] = "resume"
    /\ step' = [step EXCEPT ![p] = newest[p]]
    /\ Goto(p, IF newest[p] = 0 \/ newest[p] \in Whole THEN "train" ELSE "failed")
    /\ UNCHANGED <<disk, call, newest, moving, faults, rot, mpc, answer>>

\* The Trainer writes the directory of its next checkpoint.
Save(p) ==
    /\ pc[p] = "train"
    /\ step[p] < LastStep
    /\ step' = [step EXCEPT ![p] = @ + 1]
    /\ checkpoint' = [checkpoint EXCEPT ![step[p] + 1] = "partial"]
    /\ Goto(p, "sidecar")
    /\ UNCHANGED <<root, debris, contract, lockfile, started, forensic, manifested, adapter,
                   completion, call, newest, moving, faults, rot, mpc, answer>>

\* on_save: the sidecar binds a finished checkpoint to the contract.
WriteSidecar(p) ==
    /\ pc[p] = "sidecar"
    /\ checkpoint' = [checkpoint EXCEPT ![step[p]] = "whole"]
    /\ Goto(p, "train")
    /\ UNCHANGED <<root, debris, contract, lockfile, started, forensic, manifested, adapter,
                   completion, local, faults, rot, mpc, answer>>

(***************************************************************************)
(* The adapter                                                             *)
(***************************************************************************)
Finish(p) ==
    /\ pc[p] = "train"
    /\ step[p] = LastStep
    /\ Goto(p, "export")
    /\ UNCHANGED <<disk, local, faults, rot, mpc, answer>>

\* A bundle with manifest and checksums in a private directory.
Export(p) ==
    /\ pc[p] = "export"
    /\ Goto(p, "publish")
    /\ UNCHANGED <<disk, local, faults, rot, mpc, answer>>

Bundle(p) == [contract |-> call[p].contract, own |-> call[p].resume]

\* Mutant: the adapter is moved into place, over an existing one.
PublishAdapter_Replace(p) ==
    /\ pc[p] = "publish"
    /\ Goto(p, "verify")
    /\ adapter' = [adapter EXCEPT ![Mine(p)] = Bundle(p)]
    /\ UNCHANGED <<root, debris, contract, lockfile, started, checkpoint, forensic, manifested,
                   completion, local, faults, rot, mpc, answer>>

\* RENAME_NOREPLACE: the whole bundle appears, or an adapter was there.
PublishAdapter(p) ==
    /\ pc[p] = "publish"
    /\ IF adapter[Mine(p)] # Absent
       THEN /\ Goto(p, "failed")
            /\ UNCHANGED adapter
       ELSE /\ Goto(p, "verify")
            /\ adapter' = [adapter EXCEPT ![Mine(p)] = Bundle(p)]
    /\ UNCHANGED <<root, debris, contract, lockfile, started, checkpoint, forensic, manifested,
                   completion, local, faults, rot, mpc, answer>>

VerifyPublished(p) ==
    /\ pc[p] = "verify"
    /\ Goto(p, IF ~Verifies(Mine(p)) THEN "failed"
               ELSE IF call[p].resume THEN "complete" ELSE "done")
    /\ UNCHANGED <<disk, local, faults, rot, mpc, answer>>

MarkComplete(p) ==
    /\ pc[p] = "complete"
    /\ completion' = IF completion = Absent THEN Mine(p) ELSE completion
    /\ Goto(p, IF completion = Absent THEN "done" ELSE "failed")
    /\ UNCHANGED <<root, debris, contract, lockfile, started, checkpoint, forensic, manifested,
                   adapter, local, faults, rot, mpc, answer>>

(***************************************************************************)
(* What may go wrong                                                       *)
(***************************************************************************)
\* A call raises: the temporary file is removed, the lock is closed, what was
\* renamed or published stays.
Raise(p) ==
    /\ Alive(p)
    /\ faults < MaxFaults
    /\ faults' = faults + 1
    /\ Goto(p, "failed")
    /\ UNCHANGED <<disk, local, rot, mpc, answer>>

Die(p) ==
    /\ Alive(p)
    /\ debris' = (debris \/ pc[p] = "link_contract")
    /\ Goto(p, "dead")
    /\ UNCHANGED <<root, contract, lockfile, started, checkpoint, forensic, manifested, adapter,
                   completion, local, faults, rot, mpc, answer>>

\* A checkpoint behind its sidecar loses bytes: the Trainer syncs nothing.
Rot ==
    /\ rot < MaxDamage
    /\ rot' = rot + 1
    /\ \E s \in Whole : checkpoint' = [checkpoint EXCEPT ![s] = "rotten"]
    /\ UNCHANGED <<root, debris, contract, lockfile, started, forensic, manifested, adapter,
                   completion, pc, local, faults, mpc, answer>>

(***************************************************************************)
(* The status command                                                      *)
(***************************************************************************)
Say(m, text) ==
    /\ answer' = [answer EXCEPT ![m] = text]
    /\ mpc' = [mpc EXCEPT ![m] = "idle"]

Look(m, label) ==
    /\ mpc' = [mpc EXCEPT ![m] = label]
    /\ UNCHANGED answer

\* The contract must be there; a completion marker is verified against its
\* adapter and answers at once.
StatusOpen(m) ==
    /\ mpc[m] = "idle"
    /\ IF contract = Absent THEN Say(m, "error")
       ELSE IF completion = Absent THEN Look(m, "lock")
       ELSE Say(m, IF BoundTo(completion, contract) THEN "complete" ELSE "error")
    /\ UNCHANGED <<disk, pc, local, faults, rot>>

StatusLock(m) ==
    /\ mpc[m] = "lock"
    /\ IF lockfile = Absent THEN Look(m, "marker")
       ELSE IF \E p \in Run : Locked(p) THEN Say(m, "running")
       ELSE Look(m, "read_lock")
    /\ UNCHANGED <<disk, pc, local, faults, rot>>

\* The shared lock is dropped before the rest of the workspace is read.
StatusReadLock(m) ==
    /\ Reading(m)
    /\ IF lockfile = "written" THEN Look(m, "marker") ELSE Say(m, "error")
    /\ UNCHANGED <<disk, pc, local, faults, rot>>

StatusMarker(m) ==
    /\ mpc[m] = "marker"
    /\ IF started THEN Look(m, "steps") ELSE Say(m, "ready")
    /\ UNCHANGED <<disk, pc, local, faults, rot>>

StatusSteps(m) ==
    /\ mpc[m] = "steps"
    /\ Say(m, IF Whole = {} THEN "terminal_failed" ELSE "retryable")
    /\ UNCHANGED <<disk, pc, local, faults, rot>>

Bind(p) ==
    \/ LookRoot(p) \/ MakeRoot(p) \/ LookContract(p) \/ LookEntries(p)
    \/ WriteTemp(p) \/ LinkContract(p) \/ ValidateContract(p)
Acquire(p) == OpenLock(p) \/ Flock(p) \/ WriteLock(p) \/ Inspect(p) \/ Recover(p)
Restore(p) == Select(p) \/ MoveAside(p) \/ WriteForensicManifest(p) \/ Choose(p)
Train(p) == MarkStarted(p) \/ Resume(p) \/ Save(p) \/ WriteSidecar(p) \/ Finish(p)
Publish(p) == Export(p) \/ PublishAdapter(p) \/ VerifyPublished(p) \/ MarkComplete(p)

TrainFold(p) == Bind(p) \/ CheckOutput(p) \/ Acquire(p) \/ Restore(p) \/ Train(p) \/ Publish(p)

ReadStatus(m) ==
    \/ StatusOpen(m) \/ StatusLock(m) \/ StatusReadLock(m) \/ StatusMarker(m) \/ StatusSteps(m)

Next ==
    \/ \E p \in Run : GateRed(p) \/ Start(p) \/ TrainFold(p) \/ Raise(p) \/ Die(p)
    \/ \E m \in Monitor : ReadStatus(m)
    \/ Rot

Spec == Init /\ [][Next]_vars

\* A live run keeps executing; nothing obliges a run to start, and nothing a
\* monitor to be called.
Fairness == \A p \in Run : WF_vars(TrainFold(p))

FairSpec == Spec /\ Fairness

(***************************************************************************)
(* Properties                                                              *)
(***************************************************************************)
\* At most one run works in the workspace, whatever was killed before and
\* whoever reads the lock file meanwhile.
OneTrainer == \A p, q \in Run : Locked(p) /\ Locked(q) => p = q

\* A run that is past the lock holds the contract of the workspace: of two
\* first runs with different evidence that raced for it, one never trains.
WorkspaceIsBound ==
    \A p \in Run : Locked(p) /\ pc[p] # "write_lock" => call[p].contract = contract

\* What a run resumes from is the newest checkpoint that verifies, so no
\* training a kill has left whole is repeated.
ResumesNewest ==
    \A p \in Run : pc[p] \in {"archive", "choose", "begin", "resume"} =>
        \A s \in Whole : s <= newest[p]

\* The Trainer never saves into a checkpoint directory that is there already.
NothingOverwritten ==
    [][\A p \in Run : pc[p] = "train" /\ pc'[p] = "sidecar" => checkpoint[step'[p]] = "none"]_vars

\* A checkpoint leaves the Trainer directory only into a forensic attempt, and
\* never while it verifies; a forensic attempt only grows.
NothingLost ==
    [][/\ \A s \in Step : checkpoint[s] # "none" /\ checkpoint'[s] = "none" =>
             /\ checkpoint[s] # "whole"
             /\ \E p \in Run : <<s, checkpoint[s]>> \in forensic'[p]
       /\ \A p \in Run : forensic[p] \subseteq forensic'[p]]_vars

\* The checkpoints carry the training across kills: a run goes on from the newest
\* whole one, saves over none and moves aside only what no longer verifies.
CheckpointsKept == []ResumesNewest /\ NothingOverwritten /\ NothingLost

\* A monitor that has once read "complete" reads it ever after.
CompleteIsSticky ==
    [][\A m \in Monitor : answer[m] = "complete" => answer'[m] = "complete"]_vars

\* The workspace with its adapters is a training job as TrainingJob states it.
TrainingJobSpec == INSTANCE TrainingJob
RefinesTrainingJob == TrainingJobSpec!Spec

\* What keeps a run that is alone in the workspace from going on: a contract of
\* other evidence, debris where the contract should be, a completed workspace,
\* an adapter that is not the workspace's, a training that was started and has
\* left no checkpoint to account for it.
Blocked(p) ==
    \/ contract \notin {Absent, call[p].contract}
    \/ contract = Absent /\ debris
    \/ completion # Absent
    \/ IF adapter[Mine(p)] # Absent
       THEN ~started \/ ~BoundTo(Mine(p), contract)
       ELSE started /\ Whole = {} /\ Recoverable = {}

Alone(p) == \A q \in Run \ {p} : pc[q] \in Over

\* A run that is alone with a workspace that is not blocked completes it, from
\* whatever the runs before it have left: it is done, it is killed, or a monitor
\* held the lock file when it asked for the lock.
LoneRunCompletes ==
    \A p \in Run :
        (/\ pc[p] = "root"
         /\ Alone(p)
         /\ faults = MaxFaults
         /\ rot = MaxDamage
         /\ ~Blocked(p)) ~> pc[p] \in {"done", "dead", "refused"}
=============================================================================
