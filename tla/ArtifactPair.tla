---------------------------- MODULE ArtifactPair ----------------------------
(***************************************************************************)
(* Publication of one records/manifest pair of Gate B artifacts:           *)
(* _publish_atomic_pair and its lock file in gate_b.py.  The records file  *)
(* is linked first and the manifest second; the manifest is the commit     *)
(* marker.  Writers are processes, each making one call.  Any of them may  *)
(* be killed between two system calls.  The names in the directory are the *)
(* only shared state, so every system call on one of them is an action.    *)
(*                                                                         *)
(* A file is identified by the writer that made its inode, which is what   *)
(* the st_dev/st_ino comparisons of the code tell apart.                   *)
(***************************************************************************)
EXTENDS Naturals

CONSTANTS
    Writer,      \* processes: a process id is never reused
    Bytes,       \* contents of the records file; a manifest carries its digest
    NoFile,      \* nothing under a name
    MaxFaults    \* bound on the system calls that fail with OSError

File == [owner : Writer, bytes : Bytes]

ASSUME NoFileAssumption == NoFile \notin Writer \cup Bytes \cup File
ASSUME MaxFaultsAssumption == MaxFaults \in Nat

VARIABLES
    records,     \* the file under the records name
    manifest,    \* the file under the manifest name
    lock,        \* the writer named by the lock file
    pc,          \* where each writer is in its call
    bytes,       \* what each writer publishes
    seen,        \* the owner each writer read from the lock file
    tries,       \* iterations left in the acquisition loop
    outcome,     \* what each call has settled
    faults,      \* failed system calls so far
    hit,         \* history: the writers whose system calls they were
    stolen       \* history: the lock of a live writer was unlinked by another

vars == <<records, manifest, lock, pc, bytes, seen, tries, outcome, faults, hit, stolen>>

Critical == {"stat_records", "stat_manifest_fresh", "stat_manifest_orphan",
             "compare", "link_records", "link_manifest", "fsync",
             "rollback_manifest", "rollback_records", "release", "unlink_lock"}

Locking == {"link_lock", "lock_fsync", "read_lock", "check_owner", "unlink_stale"}

Labels == Critical \cup Locking \cup {"idle", "finish", "done", "dead"}

\* Past the directory fsync that follows the manifest link.
Committed == {"ok", "failed_after_commit"}

TypeOK ==
    /\ records \in File \cup {NoFile}
    /\ manifest \in File \cup {NoFile}
    /\ lock \in Writer \cup {NoFile}
    /\ pc \in [Writer -> Labels]
    /\ bytes \in [Writer -> Bytes]
    /\ seen \in [Writer -> Writer \cup {NoFile}]
    /\ tries \in [Writer -> 0..2]
    /\ outcome \in [Writer -> Committed \cup {"none", "failed", "failed_in_rollback"}]
    /\ faults \in 0..MaxFaults
    /\ hit \subseteq Writer
    /\ stolen \in BOOLEAN

\* _process_is_alive: a finished call is a finished process.
Alive(p) == pc[p] \notin {"idle", "done", "dead"}

Mine(file, p) == file # NoFile /\ file.owner = p

Init ==
    /\ records = NoFile
    /\ manifest = NoFile
    /\ lock = NoFile
    /\ pc = [p \in Writer |-> "idle"]
    /\ bytes \in [Writer -> Bytes]
    /\ seen = [p \in Writer |-> NoFile]
    /\ tries = [p \in Writer |-> 2]
    /\ outcome = [p \in Writer |-> "none"]
    /\ faults = 0
    /\ hit = {}
    /\ stolen = FALSE

(***************************************************************************)
(* Control                                                                 *)
(***************************************************************************)
Goto(p, label) == pc' = [pc EXCEPT ![p] = label]

\* An exception before the lock is held: nothing to undo, nothing to release.
FailUnlocked(p) ==
    /\ Goto(p, "finish")
    /\ outcome' = [outcome EXCEPT ![p] = "failed"]

\* An exception with the lock held enters the except clause.
Raise(p) == Goto(p, "rollback_manifest")

Fault(p) ==
    /\ faults < MaxFaults
    /\ faults' = faults + 1
    /\ hit' = hit \cup {p}

\* Unlinking the lock name, whoever owns the file under it by now.
RemoveLock(p) ==
    /\ lock' = NoFile
    /\ stolen' = (stolen \/ (lock # NoFile /\ lock # p /\ Alive(lock)))

(***************************************************************************)
(* Acquiring the lock                                                      *)
(***************************************************************************)
\* Both temporary files are written and synced before anything is shared.
Start(p) ==
    /\ pc[p] = "idle"
    /\ Goto(p, "link_lock")
    /\ UNCHANGED <<records, manifest, lock, bytes, seen, tries, outcome, faults, hit, stolen>>

\* Mutant: the lock file is moved into place, over an existing one.
LinkLock_Replace(p) ==
    /\ pc[p] = "link_lock"
    /\ lock' = p
    /\ Goto(p, "lock_fsync")
    /\ UNCHANGED <<records, manifest, bytes, seen, tries, outcome, faults, hit, stolen>>

\* A prepared lock file is hard-linked, so it is never visible half written.
LinkLock(p) ==
    /\ pc[p] = "link_lock"
    /\ \/ /\ lock = NoFile
          /\ lock' = p
          /\ Goto(p, "lock_fsync")
       \/ /\ lock # NoFile
          /\ Goto(p, "read_lock")
          /\ UNCHANGED lock
    /\ UNCHANGED <<records, manifest, bytes, seen, tries, outcome, faults, hit, stolen>>

\* A failure here leaves the lock file behind without a descriptor to release.
LockFsync(p) ==
    /\ pc[p] = "lock_fsync"
    /\ \/ /\ Goto(p, "stat_records")
          /\ UNCHANGED <<outcome, faults, hit>>
       \/ /\ Fault(p)
          /\ FailUnlocked(p)
    /\ UNCHANGED <<records, manifest, lock, bytes, seen, tries, stolen>>

\* A lock released in the meantime is not a regular file: the call fails.
ReadLock(p) ==
    /\ pc[p] = "read_lock"
    /\ \/ /\ lock = NoFile
          /\ FailUnlocked(p)
          /\ UNCHANGED <<seen, faults, hit>>
       \/ /\ lock # NoFile
          /\ seen' = [seen EXCEPT ![p] = lock]
          /\ Goto(p, "check_owner")
          /\ UNCHANGED <<outcome, faults, hit>>
       \/ /\ Fault(p)
          /\ FailUnlocked(p)
          /\ UNCHANGED seen
    /\ UNCHANGED <<records, manifest, lock, bytes, tries, stolen>>

CheckOwner(p) ==
    /\ pc[p] = "check_owner"
    /\ \/ /\ Alive(seen[p])
          /\ FailUnlocked(p)
       \/ /\ ~Alive(seen[p])
          /\ Goto(p, "unlink_stale")
          /\ UNCHANGED outcome
    /\ UNCHANGED <<records, manifest, lock, bytes, seen, tries, faults, hit, stolen>>

\* The name is unlinked without looking at the file under it again.
UnlinkStale(p) ==
    /\ pc[p] = "unlink_stale"
    /\ \/ /\ RemoveLock(p)
          /\ tries' = [tries EXCEPT ![p] = @ - 1]
          /\ \/ /\ tries[p] > 1
                /\ Goto(p, "link_lock")
                /\ UNCHANGED outcome
             \/ /\ tries[p] <= 1
                /\ FailUnlocked(p)
          /\ UNCHANGED <<faults, hit>>
       \/ /\ Fault(p)
          /\ FailUnlocked(p)
          /\ UNCHANGED <<lock, stolen, tries>>
    /\ UNCHANGED <<records, manifest, bytes, seen>>

(***************************************************************************)
(* Publishing under the lock                                               *)
(***************************************************************************)
StatRecords(p) ==
    /\ pc[p] = "stat_records"
    /\ Goto(p, IF records = NoFile THEN "stat_manifest_fresh" ELSE "stat_manifest_orphan")
    /\ UNCHANGED <<records, manifest, lock, bytes, seen, tries, outcome, faults, hit, stolen>>

\* Any manifest is a hard no-overwrite failure; records alone are an orphan.
StatManifest(p) ==
    /\ pc[p] \in {"stat_manifest_fresh", "stat_manifest_orphan"}
    /\ \/ /\ manifest # NoFile
          /\ Raise(p)
       \/ /\ manifest = NoFile
          /\ Goto(p, IF pc[p] = "stat_manifest_fresh" THEN "link_records" ELSE "compare")
    /\ UNCHANGED <<records, manifest, lock, bytes, seen, tries, outcome, faults, hit, stolen>>

\* Mutant: no orphan will do.
Recoverable_Never(p) == FALSE

\* _validate_recoverable_records_orphan: only this very payload is recovered.
Recoverable(p) == records # NoFile /\ records.bytes = bytes[p]

CompareOrphan(p) ==
    /\ pc[p] = "compare"
    /\ \/ /\ Recoverable(p)
          /\ Goto(p, "link_manifest")
          /\ UNCHANGED <<faults, hit>>
       \/ /\ ~Recoverable(p)
          /\ Raise(p)
          /\ UNCHANGED <<faults, hit>>
       \/ /\ Fault(p)
          /\ Raise(p)
    /\ UNCHANGED <<records, manifest, lock, bytes, seen, tries, outcome, stolen>>

\* _write_fsynced_temp: the whole content is on disk before it gets a name.
Temp(p) == [owner |-> p, bytes |-> bytes[p]]

LinkRecords(p) ==
    /\ pc[p] = "link_records"
    /\ \/ /\ records = NoFile
          /\ records' = Temp(p)
          /\ Goto(p, "link_manifest")
          /\ UNCHANGED <<faults, hit>>
       \/ /\ records # NoFile
          /\ Raise(p)
          /\ UNCHANGED <<records, faults, hit>>
       \/ /\ Fault(p)
          /\ Raise(p)
          /\ UNCHANGED records
    /\ UNCHANGED <<manifest, lock, bytes, seen, tries, outcome, stolen>>

LinkManifest(p) ==
    /\ pc[p] = "link_manifest"
    /\ \/ /\ manifest = NoFile
          /\ manifest' = Temp(p)
          /\ Goto(p, "fsync")
          /\ UNCHANGED <<faults, hit>>
       \/ /\ manifest # NoFile
          /\ Raise(p)
          /\ UNCHANGED <<manifest, faults, hit>>
       \/ /\ Fault(p)
          /\ Raise(p)
          /\ UNCHANGED manifest
    /\ UNCHANGED <<records, lock, bytes, seen, tries, outcome, stolen>>

Fsync(p) ==
    /\ pc[p] = "fsync"
    /\ \/ /\ outcome' = [outcome EXCEPT ![p] = "ok"]
          /\ Goto(p, "release")
          /\ UNCHANGED <<faults, hit>>
       \/ /\ Fault(p)
          /\ Raise(p)
          /\ UNCHANGED outcome
    /\ UNCHANGED <<records, manifest, lock, bytes, seen, tries, stolen>>

\* A stat or an unlink of the rollback itself fails: its OSError leaves the
\* except clause, and what the rollback had not reached yet stays.
RollbackBreaks(p) ==
    /\ Fault(p)
    /\ outcome' = [outcome EXCEPT ![p] = "failed_in_rollback"]
    /\ Goto(p, "release")

\* _unlink_if_same_file: only the file this call linked is taken back.
RollbackManifest(p) ==
    /\ pc[p] = "rollback_manifest"
    /\ \/ /\ manifest' = IF Mine(manifest, p) THEN NoFile ELSE manifest
          /\ Goto(p, "rollback_records")
          /\ UNCHANGED <<outcome, faults, hit>>
       \/ /\ Mine(manifest, p)
          /\ RollbackBreaks(p)
          /\ UNCHANGED manifest
    /\ UNCHANGED <<records, lock, bytes, seen, tries, stolen>>

\* Mutant: only the manifest is taken back.
RollbackRecords_Kept(p) ==
    /\ pc[p] = "rollback_records"
    /\ outcome' = [outcome EXCEPT ![p] = "failed"]
    /\ Goto(p, "release")
    /\ UNCHANGED <<records, manifest, lock, bytes, seen, tries, faults, hit, stolen>>

RollbackRecords(p) ==
    /\ pc[p] = "rollback_records"
    /\ \/ /\ records' = IF Mine(records, p) THEN NoFile ELSE records
          /\ outcome' = [outcome EXCEPT ![p] = "failed"]
          /\ Goto(p, "release")
          /\ UNCHANGED <<faults, hit>>
       \/ /\ Mine(records, p)
          /\ RollbackBreaks(p)
          /\ UNCHANGED records
    /\ UNCHANGED <<manifest, lock, bytes, seen, tries, stolen>>

(***************************************************************************)
(* Releasing the lock                                                      *)
(***************************************************************************)
\* What the caller is told when an exception leaves the finally clause.
LateFailure(p) ==
    outcome' = [outcome EXCEPT ![p] =
        IF @ \in Committed THEN "failed_after_commit" ELSE @]

\* An exception of the finally clause skips the rest of it.
LeaveBreaks(p) ==
    /\ Fault(p)
    /\ LateFailure(p)
    /\ Goto(p, "done")

\* The temporary files are unlinked before the lock is looked at: when that
\* fails, the lock file stays behind its owner.
Release(p) ==
    /\ pc[p] = "release"
    /\ \/ /\ Goto(p, IF lock = p THEN "unlink_lock" ELSE "finish")
          /\ UNCHANGED <<outcome, faults, hit>>
       \/ LeaveBreaks(p)
    /\ UNCHANGED <<records, manifest, lock, bytes, seen, tries, stolen>>

\* A lock that has vanished since the stat is an exception too.
UnlinkLock(p) ==
    /\ pc[p] = "unlink_lock"
    /\ \/ /\ RemoveLock(p)
          /\ IF lock = NoFile
                THEN LateFailure(p) /\ Goto(p, "done")
                ELSE UNCHANGED outcome /\ Goto(p, "finish")
          /\ UNCHANGED <<faults, hit>>
       \/ /\ LeaveBreaks(p)
          /\ UNCHANGED <<lock, stolen>>
    /\ UNCHANGED <<records, manifest, bytes, seen, tries>>

\* The last directory fsync may fail too: the pair stays, the caller sees an error.
Finish(p) ==
    /\ pc[p] = "finish"
    /\ Goto(p, "done")
    /\ \/ UNCHANGED <<outcome, faults, hit>>
       \/ Fault(p) /\ LateFailure(p)
    /\ UNCHANGED <<records, manifest, lock, bytes, seen, tries, stolen>>

\* SIGKILL between any two system calls.
Crash(p) ==
    /\ Alive(p)
    /\ Goto(p, "dead")
    /\ UNCHANGED <<records, manifest, lock, bytes, seen, tries, outcome, faults, hit, stolen>>

Acquire(p) ==
    LinkLock(p) \/ LockFsync(p) \/ ReadLock(p) \/ CheckOwner(p) \/ UnlinkStale(p)

Publish(p) ==
    \/ StatRecords(p) \/ StatManifest(p) \/ CompareOrphan(p) \/ LinkRecords(p)
    \/ LinkManifest(p) \/ Fsync(p) \/ RollbackManifest(p) \/ RollbackRecords(p)

Leave(p) == Release(p) \/ UnlinkLock(p) \/ Finish(p)

Step(p) == Acquire(p) \/ Publish(p) \/ Leave(p)

Next == \E p \in Writer : Start(p) \/ Step(p) \/ Crash(p)

Spec == Init /\ [][Next]_vars

\* A live process keeps executing; nothing obliges a call to start.
Fairness == \A p \in Writer : WF_vars(Step(p))

FairSpec == Spec /\ Fairness

(***************************************************************************)
(* Properties                                                              *)
(***************************************************************************)
\* As long as no live lock was reclaimed, at most one writer is between the
\* acquisition of the pair lock and its release.
MutualExclusion ==
    ~stolen => \A p, q \in Writer : pc[p] \in Critical /\ pc[q] \in Critical => p = q

\* A visible manifest vouches for the records next to it: they exist and are
\* the bytes whose digest it carries, through crashes, rollbacks and recovery.
CommittedPairConsistent ==
    (~stolen /\ manifest # NoFile) => records # NoFile /\ records.bytes = manifest.bytes

\* Once a call passed its directory fsync, no later call, rollback or recovery
\* touches either file: evidence is never overwritten or withdrawn.
AcknowledgedIsFinal ==
    [][(~stolen' /\ \E p \in Writer : outcome[p] \in Committed)
         => UNCHANGED <<records, manifest>>]_vars

\* A call that reports failure without having committed took its own files
\* back, whoever got in between.  Only a rollback that failed itself may leave
\* some of them, and as long as no live lock was reclaimed what it leaves is
\* its records alone or its manifest next to records of the same bytes.
FailureLeavesNothing ==
    \A p \in Writer :
        /\ outcome[p] = "failed" => ~Mine(records, p) /\ ~Mine(manifest, p)
        /\ outcome[p] = "failed_in_rollback" /\ ~stolen /\ Mine(manifest, p)
             => records # NoFile /\ records.bytes = bytes[p]

\* The lock of a live process is never removed by another process: the
\* docstring of _acquire_development_artifact_pair_lock.
ReclaimsOnlyDeadOwner == ~stolen

\* A rerun that is alone recovers whatever crashes left behind (a stale lock,
\* an orphan of its own bytes): unless it is killed or hits a failing system
\* call, it commits, or it finds another payload already published.
Alone(p) == pc[p] = "link_lock" /\ \A q \in Writer \ {p} : pc[q] \in {"done", "dead"}

LoneRerunRecovers ==
    \A p \in Writer :
        (Alone(p) /\ tries[p] = 2)
            ~> (\/ outcome[p] = "ok"
                \/ pc[p] = "dead"
                \/ p \in hit
                \/ manifest # NoFile
                \/ records # NoFile /\ records.bytes # bytes[p])

(***************************************************************************)
(* Refinement                                                              *)
(***************************************************************************)
Abstract == INSTANCE PairCommit WITH
    pair <- IF records # NoFile /\ manifest # NoFile THEN records.bytes ELSE NoFile,
    acked <- \E p \in Writer : outcome[p] \in Committed,
    void <- stolen

\* The links, the lock and the rollback implement one atomic commit, up to the
\* first reclaim of a live lock.
RefinesPairCommit == Abstract!Spec
=============================================================================
