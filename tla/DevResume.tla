----------------------------- MODULE DevResume -----------------------------
(***************************************************************************)
(* The resumable development baseline of gate_b.py, as the command         *)
(* gate-b-development runs it: _run_resumable_development_baseline over    *)
(* one resume directory, then write_development_artifacts.                 *)
(*                                                                         *)
(* Generation is expensive, so it is cut into chunks and each chunk is     *)
(* published as a records/manifest pair under an attempt number.  A rerun  *)
(* recovers the chunks whose newest attempt verifies and generates the     *)
(* rest.  Runs may overlap and may be killed between two system calls.     *)
(*                                                                         *)
(* Every generation measures its own latency, so the rows two runs         *)
(* generate for one chunk differ: rows are named by the run that generated *)
(* them.  The lock of a single pair is ArtifactPair's subject; here it     *)
(* appears as what it ensures, one live run at a time on one pair.         *)
(***************************************************************************)
EXTENDS Naturals, FiniteSets

CONSTANTS
    Run,         \* processes running the command: a process id is never reused
    ChunkCount,  \* chunks of the plan
    MaxAttempts, \* bound on the attempt numbers of a chunk
    Contract,    \* what _build_development_resume_contract may yield
    Nobody,      \* rows not generated yet
    Absent,      \* nothing under a name
    MaxFaults,   \* bound on failing system calls and generations
    MaxDamage    \* bound on records files that rot on disk

Chunk == 1..ChunkCount
Number == 1..MaxAttempts
Final == <<0, 0>>                    \* the published records/manifest pair
Slot == (Chunk \X Number) \cup {Final}

Rows == [Chunk -> Run \cup {Nobody}]
File == [owner : Run, rows : Rows]
Lock == [owner : Run, written : BOOLEAN]
Progress == [state : {"running", "interrupted", "complete"}, completed : SUBSET Chunk]

ASSUME AbsentAssumption ==
    Absent \notin File \cup Lock \cup Progress \cup Slot \cup Contract \cup Run
ASSUME NobodyAssumption == Nobody \notin Run
ASSUME BoundsAssumption ==
    /\ ChunkCount \in Nat \ {0}
    /\ MaxAttempts \in Nat
    /\ MaxFaults \in Nat
    /\ MaxDamage \in Nat

VARIABLES
    contract,    \* contract.json
    lock,        \* the lock file: its owner, and whether its JSON is written
    records,     \* records file of every pair
    manifest,    \* manifest file of every pair
    damaged,     \* pairs whose records file no longer has the bytes it was given
    progress,    \* progress.json: a state and the completed chunks (it carries their number)
    wanted,      \* the contract each run was started with
    pc,          \* where each run is
    seen,        \* the owner each run read from the lock file
    tries,       \* iterations left in the acquisition loop
    have,        \* recovered: the rows each run holds, chunk by chunk
    target,      \* the pair each run publishes
    faults,      \* failures so far
    stolen       \* history: the lock of a live run was unlinked by another

disk == <<contract, lock, records, manifest, damaged, progress>>
vars == <<contract, lock, records, manifest, damaged, progress,
          wanted, pc, seen, tries, have, target, faults, stolen>>

Pairing == {"open", "link_records", "link_manifest", "settle", "rollback"}
Working == {"write_lock", "load", "generate", "interrupt", "advance",
            "release", "release_failed"}
Labels == Pairing \cup Working \cup
          {"idle", "targets", "contract", "lock", "read_lock", "check_owner",
           "unlink_stale", "validate", "done", "failed", "dead"}

TypeOK ==
    /\ contract \in Contract \cup {Absent}
    /\ lock \in Lock \cup {Absent}
    /\ records \in [Slot -> File \cup {Absent}]
    /\ manifest \in [Slot -> File \cup {Absent}]
    /\ damaged \subseteq Slot
    /\ progress \in Progress \cup {Absent}
    /\ wanted \in [Run -> Contract]
    /\ pc \in [Run -> Labels]
    /\ seen \in [Run -> Run \cup {Absent}]
    /\ tries \in [Run -> 0..2]
    /\ have \in [Run -> Rows]
    /\ target \in [Run -> Slot \cup {Absent}]
    /\ faults \in 0..MaxFaults
    /\ stolen \in BOOLEAN

\* _process_is_alive
Alive(p) == pc[p] \notin {"idle", "done", "failed", "dead"}

\* Between the creation of the resume lock and its release.
InLedger(p) == pc[p] \in Working \/ (pc[p] \in Pairing /\ target[p] # Final)

NoRows == [c \in Chunk |-> Nobody]

Init ==
    /\ contract = Absent
    /\ lock = Absent
    /\ records = [s \in Slot |-> Absent]
    /\ manifest = [s \in Slot |-> Absent]
    /\ damaged = {}
    /\ progress = Absent
    /\ wanted \in [Run -> Contract]
    /\ pc = [p \in Run |-> "idle"]
    /\ seen = [p \in Run |-> Absent]
    /\ tries = [p \in Run |-> 2]
    /\ have = [p \in Run |-> NoRows]
    /\ target = [p \in Run |-> Absent]
    /\ faults = 0
    /\ stolen = FALSE

Goto(p, label) == pc' = [pc EXCEPT ![p] = label]

Fault ==
    /\ faults < MaxFaults
    /\ faults' = faults + 1

(***************************************************************************)
(* Before the ledger                                                       *)
(***************************************************************************)
Start(p) ==
    /\ pc[p] = "idle"
    /\ Goto(p, "targets")
    /\ UNCHANGED <<disk, wanted, seen, tries, have, target, faults, stolen>>

\* _require_new_development_targets: neither output name may exist.
RequireNewTargets(p) ==
    /\ pc[p] = "targets"
    /\ Goto(p, IF records[Final] = Absent /\ manifest[Final] = Absent
               THEN "contract" ELSE "failed")
    /\ UNCHANGED <<disk, wanted, seen, tries, have, target, faults, stolen>>

\* The first run links its contract, every run compares what is there.  The
\* call may fail before or after the link.
InitializeContract(p) ==
    /\ pc[p] = "contract"
    /\ \/ /\ contract' = IF contract = Absent THEN wanted[p] ELSE contract
          /\ Goto(p, IF contract' = wanted[p] THEN "lock" ELSE "failed")
          /\ UNCHANGED faults
       \/ /\ Fault
          /\ Goto(p, "failed")
          /\ contract' \in {contract, IF contract = Absent THEN wanted[p] ELSE contract}
    /\ UNCHANGED <<lock, records, manifest, damaged, progress>>
    /\ UNCHANGED <<wanted, seen, tries, have, target, stolen>>

(***************************************************************************)
(* The resume lock                                                         *)
(***************************************************************************)
\* O_CREAT | O_EXCL: the lock exists before it names its owner.
CreateLock(p) ==
    /\ pc[p] = "lock"
    /\ \/ /\ lock = Absent
          /\ lock' = [owner |-> p, written |-> FALSE]
          /\ Goto(p, "write_lock")
       \/ /\ lock # Absent
          /\ Goto(p, "read_lock")
          /\ UNCHANGED lock
    /\ UNCHANGED <<contract, records, manifest, damaged, progress>>
    /\ UNCHANGED <<wanted, seen, tries, have, target, faults, stolen>>

\* Unlinking the lock name, whoever made the file under it.
RemoveLock(p) ==
    /\ lock' = Absent
    /\ stolen' = (stolen \/ (lock # Absent /\ lock.owner # p /\ Alive(lock.owner)))

\* A failed write closes the descriptor and takes the name away.
WriteLock(p) ==
    /\ pc[p] = "write_lock"
    /\ \/ /\ lock' = IF lock # Absent /\ lock.owner = p
                     THEN [lock EXCEPT !.written = TRUE] ELSE lock
          /\ Goto(p, "load")
          /\ UNCHANGED <<faults, stolen>>
       \/ /\ Fault
          /\ RemoveLock(p)
          /\ Goto(p, "failed")
    /\ UNCHANGED <<contract, records, manifest, damaged, progress>>
    /\ UNCHANGED <<wanted, seen, tries, have, target>>

\* A lock that vanished, is empty or belongs to another contract is refused.
Readable(p) == lock # Absent /\ lock.written /\ wanted[lock.owner] = wanted[p]

ReadLock(p) ==
    /\ pc[p] = "read_lock"
    /\ \/ /\ Readable(p)
          /\ seen' = [seen EXCEPT ![p] = lock.owner]
          /\ Goto(p, "check_owner")
       \/ /\ ~Readable(p)
          /\ Goto(p, "failed")
          /\ UNCHANGED seen
    /\ UNCHANGED <<disk, wanted, tries, have, target, faults, stolen>>

CheckOwner(p) ==
    /\ pc[p] = "check_owner"
    /\ Goto(p, IF Alive(seen[p]) THEN "failed" ELSE "unlink_stale")
    /\ UNCHANGED <<disk, wanted, seen, tries, have, target, faults, stolen>>

UnlinkStale(p) ==
    /\ pc[p] = "unlink_stale"
    /\ RemoveLock(p)
    /\ tries' = [tries EXCEPT ![p] = @ - 1]
    /\ Goto(p, IF tries[p] > 1 THEN "lock" ELSE "failed")
    /\ UNCHANGED <<contract, records, manifest, damaged, progress>>
    /\ UNCHANGED <<wanted, seen, have, target, faults>>

(***************************************************************************)
(* Recovering and generating chunks                                        *)
(***************************************************************************)
Completed(p) == {c \in Chunk : have[p][c] # Nobody}

\* _load_development_resume_chunk: the manifest vouches for the records.
Verified(s, p) ==
    /\ manifest[s] # Absent
    /\ records[s] # Absent
    /\ records[s].rows = manifest[s].rows
    /\ s \notin damaged
    /\ wanted[manifest[s].owner] = wanted[p]

\* The verified attempts of a chunk with the highest number.
Newest(c, p) ==
    {n \in Number :
        /\ Verified(<<c, n>>, p)
        /\ \A m \in Number : Verified(<<c, m>>, p) => m <= n}

\* Mutant: a restarted run starts over.
Recovered_Nothing(rows, p) == rows = NoRows

\* rows is what _load_reusable_development_chunks returns to p.
Recovered(rows, p) ==
    \A c \in Chunk :
        \/ /\ rows[c] = Nobody
           /\ \A n \in Number : ~Verified(<<c, n>>, p)
        \/ \E n \in Newest(c, p) : rows[c] = records[<<c, n>>].rows[c]

\* _write_development_resume_progress: the file is replaced as a whole.
WriteProgress(state, completed) == progress' = [state |-> state, completed |-> completed]

\* Reporting these chunks ends in the place next.  A call that fails has replaced
\* the file or not, and goes to the release.
Report(p, state, completed, next) ==
    \/ /\ WriteProgress(state, completed)
       /\ Goto(p, next)
       /\ UNCHANGED faults
    \/ /\ Fault
       /\ Goto(p, "release_failed")
       /\ WriteProgress(state, completed) \/ UNCHANGED progress

Load(p) ==
    /\ pc[p] = "load"
    /\ \E rows \in Rows :
          /\ Recovered(rows, p)
          /\ have' = [have EXCEPT ![p] = rows]
          /\ Report(p, "running", {c \in Chunk : rows[c] # Nobody}, "generate")
    /\ UNCHANGED <<contract, lock, records, manifest, damaged>>
    /\ UNCHANGED <<wanted, seen, tries, target, stolen>>

Missing(p) == Chunk \ Completed(p)

\* Mutant: attempts that left records without a manifest are not counted.
NextAttempt_Manifests(n, c) ==
    /\ \A m \in Number : manifest[<<c, m>>] # Absent => m < n
    /\ n > 1 => manifest[<<c, n - 1>>] # Absent

\* _next_development_chunk_attempt: one more than any number in use.
NextAttempt(n, c) ==
    LET InUse(m) == records[<<c, m>>] # Absent \/ manifest[<<c, m>>] # Absent
    IN  /\ \A m \in Number : InUse(m) => m < n
        /\ n > 1 => InUse(n - 1)

\* The first chunk not recovered, as a new attempt.  MaxAttempts bounds n.
Generate(p) ==
    /\ pc[p] = "generate"
    /\ \E c \in Missing(p) :
          /\ \A d \in Missing(p) : c <= d
          /\ \/ /\ \E n \in Number :
                      /\ NextAttempt(n, c)
                      /\ target' = [target EXCEPT ![p] = <<c, n>>]
                /\ Goto(p, "open")
                /\ UNCHANGED faults
             \/ /\ Fault
                /\ Goto(p, "interrupt")
                /\ UNCHANGED target
    /\ UNCHANGED <<disk, wanted, seen, tries, have, stolen>>

Interrupt(p) ==
    /\ pc[p] = "interrupt"
    /\ Report(p, "interrupted", Completed(p), "release_failed")
    /\ UNCHANGED <<contract, lock, records, manifest, damaged>>
    /\ UNCHANGED <<wanted, seen, tries, have, target, stolen>>

\* The published chunk joins the recovered ones.
Advance(p) ==
    /\ pc[p] = "advance"
    /\ have' = [have EXCEPT ![p][target[p][1]] = p]
    /\ Report(p, "running", Completed(p) \cup {target[p][1]}, "generate")
    /\ UNCHANGED <<contract, lock, records, manifest, damaged>>
    /\ UNCHANGED <<wanted, seen, tries, target, stolen>>

\* The rows of all chunks are returned once the lock is released.
Complete(p) ==
    /\ pc[p] = "generate"
    /\ Missing(p) = {}
    /\ Report(p, "complete", Chunk, "release")
    /\ target' = IF pc'[p] = "release" THEN [target EXCEPT ![p] = Final] ELSE target
    /\ UNCHANGED <<contract, lock, records, manifest, damaged>>
    /\ UNCHANGED <<wanted, seen, tries, have, stolen>>

\* The lock is taken away only if it still is the file this run made; the
\* release itself may fail, before or after that.
Release(p) ==
    /\ pc[p] \in {"release", "release_failed"}
    /\ LET rest == IF lock # Absent /\ lock.owner = p THEN Absent ELSE lock
       IN  \/ /\ lock' = rest
              /\ Goto(p, IF pc[p] = "release" THEN "validate" ELSE "failed")
              /\ UNCHANGED faults
           \/ /\ Fault
              /\ lock' \in {lock, rest}
              /\ Goto(p, "failed")
    /\ UNCHANGED <<contract, records, manifest, damaged, progress>>
    /\ UNCHANGED <<wanted, seen, tries, have, target, stolen>>

(***************************************************************************)
(* Publishing a pair: an attempt of a chunk, or the final artifacts        *)
(***************************************************************************)
\* What p writes into the records file of its target.
Payload(p) ==
    IF target[p] = Final THEN have[p] ELSE [NoRows EXCEPT ![target[p][1]] = p]

FileOf(p) == [owner |-> p, rows |-> Payload(p)]

\* A call that raises: a chunk is reported as interrupted, the command ends.
Raise(p) == Goto(p, IF target[p] = Final THEN "failed" ELSE "interrupt")

\* _validate_final_records_against_resume, after the lock was released.
Validate(p) ==
    /\ pc[p] = "validate"
    /\ Goto(p, IF \A c \in Chunk : \E n \in Number :
                     Verified(<<c, n>>, p) /\ records[<<c, n>>].rows[c] = have[p][c]
               THEN "open" ELSE "failed")
    /\ UNCHANGED <<disk, wanted, seen, tries, have, target, faults, stolen>>

\* Another live run holds the lock of this pair.
PairBusy(p) ==
    \E q \in Run \ {p} : target[q] = target[p] /\ pc[q] \in Pairing \ {"open"}

\* Records without a manifest are completed only if they are these bytes.
Orphan(p) ==
    /\ records[target[p]] # Absent
    /\ records[target[p]].rows = Payload(p)
    /\ target[p] \notin damaged

OpenPair(p) ==
    /\ pc[p] = "open"
    /\ \/ /\ ~PairBusy(p)
          /\ manifest[target[p]] = Absent
          /\ \/ records[target[p]] = Absent /\ Goto(p, "link_records")
             \/ Orphan(p) /\ Goto(p, "link_manifest")
       \/ /\ \/ PairBusy(p)
             \/ manifest[target[p]] # Absent
             \/ records[target[p]] # Absent /\ ~Orphan(p)
          /\ Raise(p)
    /\ UNCHANGED <<disk, wanted, seen, tries, have, target, faults, stolen>>

LinkRecords(p) ==
    /\ pc[p] = "link_records"
    /\ \/ /\ records' = [records EXCEPT ![target[p]] = FileOf(p)]
          /\ Goto(p, "link_manifest")
          /\ UNCHANGED faults
       \/ /\ Fault
          /\ Raise(p)
          /\ UNCHANGED records
    /\ UNCHANGED <<contract, lock, manifest, damaged, progress>>
    /\ UNCHANGED <<wanted, seen, tries, have, target, stolen>>

LinkManifest(p) ==
    /\ pc[p] = "link_manifest"
    /\ \/ /\ manifest' = [manifest EXCEPT ![target[p]] = FileOf(p)]
          /\ Goto(p, "settle")
          /\ UNCHANGED faults
       \/ /\ Fault
          /\ Goto(p, "rollback")
          /\ UNCHANGED manifest
    /\ UNCHANGED <<contract, lock, records, damaged, progress>>
    /\ UNCHANGED <<wanted, seen, tries, have, target, stolen>>

\* The directory fsync commits the pair or rolls it back; after the commit the
\* finally clause may still raise.
Settle(p) ==
    /\ pc[p] = "settle"
    /\ \/ /\ Goto(p, IF target[p] = Final THEN "done" ELSE "advance")
          /\ UNCHANGED faults
       \/ /\ Fault
          /\ \/ Goto(p, "rollback")
             \/ Raise(p)
    /\ UNCHANGED <<disk, wanted, seen, tries, have, target, stolen>>

Mine(file, p) == file # Absent /\ file.owner = p

\* _unlink_if_same_file, on both names.
Rollback(p) ==
    /\ pc[p] = "rollback"
    /\ manifest' = [manifest EXCEPT ![target[p]] = IF Mine(@, p) THEN Absent ELSE @]
    /\ records' = [records EXCEPT ![target[p]] = IF Mine(@, p) THEN Absent ELSE @]
    /\ damaged' = IF Mine(records[target[p]], p) THEN damaged \ {target[p]} ELSE damaged
    /\ Raise(p)
    /\ UNCHANGED <<contract, lock, progress>>
    /\ UNCHANGED <<wanted, seen, tries, have, target, faults, stolen>>

(***************************************************************************)
(* The environment                                                         *)
(***************************************************************************)
\* SIGKILL between any two system calls.
Crash(p) ==
    /\ Alive(p)
    /\ Goto(p, "dead")
    /\ UNCHANGED <<disk, wanted, seen, tries, have, target, faults, stolen>>

\* A records file loses its bytes; nothing ever repairs it.
Damage ==
    /\ \E s \in Slot \ damaged :
          /\ records[s] # Absent
          /\ Cardinality(damaged) < MaxDamage
          /\ damaged' = damaged \cup {s}
    /\ UNCHANGED <<contract, lock, records, manifest, progress>>
    /\ UNCHANGED <<wanted, pc, seen, tries, have, target, faults, stolen>>

Acquire(p) ==
    CreateLock(p) \/ WriteLock(p) \/ ReadLock(p) \/ CheckOwner(p) \/ UnlinkStale(p)

Develop(p) ==
    Load(p) \/ Generate(p) \/ Interrupt(p) \/ Advance(p) \/ Complete(p) \/ Release(p)

Publish(p) ==
    \/ Validate(p) \/ OpenPair(p) \/ LinkRecords(p) \/ LinkManifest(p)
    \/ Settle(p) \/ Rollback(p)

Step(p) ==
    RequireNewTargets(p) \/ InitializeContract(p) \/ Acquire(p) \/ Develop(p) \/ Publish(p)

Next == Damage \/ \E p \in Run : Start(p) \/ Step(p) \/ Crash(p)

Spec == Init /\ [][Next]_vars

\* A live process keeps executing; nothing obliges a command to be issued.
Fairness == \A p \in Run : WF_vars(Step(p))

FairSpec == Spec /\ Fairness

(***************************************************************************)
(* Properties                                                              *)
(***************************************************************************)
\* Unless the lock of a live run was unlinked, one run at a time works in the
\* ledger, although the lock is created empty and written later.
LedgerExcludes ==
    ~stolen => \A p, q \in Run : InLedger(p) /\ InLedger(q) => p = q

\* A manifest vouches for the attempt s, or did before its records rotted.
Attested(s) ==
    manifest[s] # Absent /\ records[s] # Absent /\ records[s].rows = manifest[s].rows

\* A chunk that verified is never generated again: one sound attempt at most,
\* whatever crashed, failed or rotted between the runs.
GeneratedOnce ==
    ~stolen => \A c \in Chunk : \A m, n \in Number :
        /\ Attested(<<c, m>>) /\ <<c, m>> \notin damaged
        /\ Attested(<<c, n>>) /\ <<c, n>> \notin damaged
        => m = n

\* The rows a run counts as done, recovered or its own, are on disk: they
\* survive every crash and every rollback of every other run.
HeldRowsPersist ==
    ~stolen => \A p \in Run : \A c \in Completed(p) : \E n \in Number :
        Attested(<<c, n>>) /\ records[<<c, n>>].rows[c] = have[p][c]

\* All runs that complete return the same rows, although each generation is
\* different: that is what lets a later run finish the final pair.
RunsAgree ==
    ~stolen /\ damaged = {} =>
        \A p, q \in Run : target[p] = Final /\ target[q] = Final => have[p] = have[q]

\* What the status command reports as completed is on disk.
ProgressHonest ==
    (~stolen /\ progress # Absent) => \A c \in progress.completed : \E n \in Number :
        Attested(<<c, n>>)

\* A published final pair consists of rows attested in the ledger, even if the
\* ledger rotted and was repaired between the validation and the publication.
FinalFromLedger ==
    (~stolen /\ manifest[Final] # Absent) =>
        /\ Attested(Final)
        /\ \A c \in Chunk : \E n \in Number :
              Attested(<<c, n>>) /\ records[<<c, n>>].rows[c] = records[Final].rows[c]

\* The baseline has one result: completed runs agree on it and the final pair
\* states it, as long as no live lock was unlinked.
OneResult == RunsAgree /\ FinalFromLedger

\* Every manifest in the directory was written for the contract it is bound to.
OneContract ==
    \A s \in Slot : manifest[s] # Absent => wanted[manifest[s].owner] = contract

\* Left by a kill between the creation of the resume lock and its write.
EmptyLock == lock # Absent /\ ~lock.written /\ ~Alive(lock.owner)

Others(p) == Run \ {p}

\* p lost rows it had verified or published.
LostRows(p) ==
    \E c \in Completed(p) : \E n \in Number :
        <<c, n>> \in damaged /\ records[<<c, n>>] # Absent /\ records[<<c, n>>].rows[c] = have[p][c]

\* A run that is alone completes what crashed runs left: it recovers their
\* chunks and their lock, steps over their orphans and publishes.  Excepted are
\* an empty lock, an older final file, another contract, and a new failure.
LoneRunCompletes ==
    \A p \in Run :
        (pc[p] = "targets" /\ \A q \in Others(p) : ~Alive(q))
            ~> (\/ pc[p] \in {"done", "dead"}
                \/ \E q \in Others(p) : Alive(q)
                \/ faults = MaxFaults
                \/ EmptyLock
                \/ records[Final] # Absent /\ records[Final].owner # p
                \/ contract \notin {Absent, wanted[p]}
                \/ LostRows(p))

(***************************************************************************)
(* The inductive invariant behind the properties                           *)
(***************************************************************************)
ChunkSlot == Chunk \X Number

\* Past the lock of the pair, before its release.
Moving == Pairing \ {"open"}

\* Where a run is says which pair it is at and what it has done.
PlaceInv ==
    \A p \in Run :
        /\ pc[p] \in Pairing => target[p] \in Slot
        /\ pc[p] \in Pairing /\ target[p] # Final => target[p][1] \in Missing(p)
        /\ pc[p] = "advance" => target[p] \in ChunkSlot
        /\ pc[p] \in {"release", "validate"} => target[p] = Final
        /\ target[p] = Final =>
              /\ Completed(p) = Chunk
              /\ pc[p] \in Pairing \cup {"release", "validate", "done", "failed", "dead"}
        /\ pc[p] \notin {"idle", "targets", "contract", "failed", "dead"} => contract = wanted[p]
        /\ pc[p] \in {"idle", "targets", "contract", "lock", "read_lock", "check_owner",
                      "unlink_stale"} => tries[p] > 0

\* One live run at a time on a pair, and how far it is with the two links.
PairInv ==
    /\ \A p, q \in Run :
          pc[p] \in Moving /\ pc[q] \in Moving /\ target[p] = target[q] => p = q
    /\ \A p \in Run :
          /\ pc[p] = "link_records" => records[target[p]] = Absent
          /\ pc[p] \in {"link_records", "link_manifest"} => manifest[target[p]] = Absent
          /\ pc[p] \in Moving \ {"link_records"} =>
                records[target[p]] # Absent /\ records[target[p]].rows = Payload(p)
          /\ pc[p] = "settle" => manifest[target[p]] = FileOf(p)
          /\ pc[p] = "rollback" => manifest[target[p]] \in {Absent, FileOf(p)}

\* The records of an attempt hold rows of its chunk.
RowsInv ==
    \A c \in Chunk : \A n \in Number :
        records[<<c, n>>] # Absent => records[<<c, n>>].rows[c] # Nobody

LockInv ==
    ~stolen => \A p \in Run : InLedger(p) => lock # Absent /\ lock.owner = p

\* An attested attempt that no run is still working on: nothing removes it.
Kept(s) == Attested(s) /\ ~\E q \in Run : pc[q] \in Pairing /\ target[q] = s

HeldInv ==
    ~stolen => \A p \in Run : \A c \in Completed(p) : \E n \in Number :
        Kept(<<c, n>>) /\ records[<<c, n>>].rows[c] = have[p][c]

AdvanceInv ==
    ~stolen => \A p \in Run : pc[p] = "advance" =>
        Attested(target[p]) /\ records[target[p]].rows[target[p][1]] = p

Sound(s) == Attested(s) /\ s \notin damaged

\* Past the recovery a chunk that is still missing has no sound attempt but
\* the one this run is about to count.
FreshInv ==
    ~stolen => \A p \in Run :
        (pc[p] \in {"generate", "advance"} \/ (pc[p] \in Pairing /\ target[p] # Final)) =>
            \A c \in Missing(p) : \A n \in Number :
                Sound(<<c, n>>) => pc[p] # "generate" /\ target[p] = <<c, n>>

ProgressInv ==
    (~stolen /\ progress # Absent) => \A c \in progress.completed : \E n \in Number :
        Kept(<<c, n>>)

FinalInv ==
    (~stolen /\ manifest[Final] # Absent) =>
        /\ Attested(Final)
        /\ \A c \in Chunk : \E n \in Number :
              Kept(<<c, n>>) /\ records[<<c, n>>].rows[c] = records[Final].rows[c]

Inv ==
    /\ TypeOK
    /\ PlaceInv
    /\ PairInv
    /\ RowsInv
    /\ OneContract
    /\ LockInv
    /\ HeldInv
    /\ AdvanceInv
    /\ FreshInv
    /\ GeneratedOnce
    /\ ProgressInv
    /\ FinalInv
=============================================================================
