------------------------- MODULE ArtifactPairProofs -------------------------
(***************************************************************************)
(* Proofs about ArtifactPair, for every set of writers, payloads and any   *)
(* number of failing system calls.                                         *)
(***************************************************************************)
EXTENDS ArtifactPair, TLAPS

\* Before its call has settled anything, a writer's outcome is open.
Open == {"idle"} \cup Locking \cup (Critical \ {"release", "unlink_lock"})

Closed == {"release", "unlink_lock", "finish", "done"}

OutcomeInv ==
    \A p \in Writer :
        /\ pc[p] \in Open => outcome[p] = "none"
        /\ pc[p] \in Closed => outcome[p] # "none"
        /\ outcome[p] = "failed" => ~Mine(records, p) /\ ~Mine(manifest, p)

\* A file under a name was linked by a writer that got that far.
OwnerInv ==
    \A p \in Writer :
        /\ Mine(records, p) =>
             pc[p] \in {"link_manifest", "fsync", "rollback_manifest", "rollback_records", "dead"}
                       \cup Closed
        /\ Mine(manifest, p) =>
             /\ pc[p] \in {"fsync", "rollback_manifest", "dead"} \cup Closed
             /\ manifest.bytes = bytes[p]

HolderInv ==
    \A p \in Writer : pc[p] \in Critical \cup {"lock_fsync"} => lock = p

\* What the writer inside the critical section knows about the two names.
FileInv ==
    /\ manifest # NoFile => records # NoFile /\ records.bytes = manifest.bytes
    /\ \A p \in Writer :
        /\ pc[p] \in {"stat_manifest_fresh", "link_records"} => records = NoFile
        /\ pc[p] \in {"link_records", "compare", "link_manifest"} => manifest = NoFile
        /\ pc[p] = "link_manifest" => Recoverable(p)
        /\ pc[p] = "fsync" => Mine(manifest, p)
        /\ pc[p] = "rollback_manifest" /\ Mine(records, p) /\ manifest # NoFile
             => Mine(manifest, p)
        /\ pc[p] = "rollback_records" /\ Mine(records, p) => manifest = NoFile

FinalInv ==
    \A p \in Writer :
        outcome[p] \in Committed => manifest # NoFile /\ outcome[manifest.owner] \in Committed

\* A writer still in the acquisition loop has an iteration left.
TriesInv ==
    \A p \in Writer :
        pc[p] \in {"idle", "link_lock", "read_lock", "check_owner", "unlink_stale"} => tries[p] > 0

\* The inductive invariant.  HolderInv is what the lock is for; a stolen lock
\* breaks it and everything that rests on it, so those parts are conditional.
Inv ==
    /\ TypeOK
    /\ TriesInv
    /\ OutcomeInv
    /\ OwnerInv
    /\ ~stolen => HolderInv /\ FileInv /\ FinalInv

(***************************************************************************)
(* Every step preserves every part                                         *)
(***************************************************************************)
\* Variables keep their types; the loop counter needs TriesInv.
LEMMA TypeStep ==
    ASSUME TypeOK, TriesInv, [Next]_vars
    PROVE  TypeOK'
<1> USE NoFileAssumption, MaxFaultsAssumption DEF TypeOK, Goto, Labels, Critical, Locking, Committed, TriesInv, File
<1>1. ASSUME NEW p \in Writer, Start(p) PROVE TypeOK'
  BY <1>1 DEF Start
<1>2. ASSUME NEW p \in Writer, Acquire(p) PROVE TypeOK'
  <2>1. CASE LinkLock(p)
    BY <2>1 DEF LinkLock
  <2>2. CASE LockFsync(p)
    BY <2>2 DEF LockFsync, Fault, FailUnlocked
  <2>3. CASE ReadLock(p)
    BY <2>3 DEF ReadLock, FailUnlocked, Fault
  <2>4. CASE CheckOwner(p)
    BY <2>4 DEF CheckOwner, FailUnlocked
  <2>5. CASE UnlinkStale(p)
    <3>1. tries' \in [Writer -> 0..2]
      BY <2>5 DEF UnlinkStale
    <3>2. faults' \in 0..MaxFaults /\ hit' \subseteq Writer
      BY <2>5 DEF UnlinkStale, Fault
    <3>3. pc' \in [Writer -> Labels] /\ outcome' \in [Writer -> Committed \cup {"none", "failed", "failed_in_rollback"}]
      BY <2>5 DEF UnlinkStale, FailUnlocked
    <3>4. lock' \in Writer \cup {NoFile} /\ stolen' \in BOOLEAN
      BY <2>5, Zenon DEF UnlinkStale, RemoveLock
    <3> QED
      BY <2>5, <3>1, <3>2, <3>3, <3>4 DEF UnlinkStale
  <2> QED
    BY <1>2, <2>1, <2>2, <2>3, <2>4, <2>5 DEF Acquire
<1>3. ASSUME NEW p \in Writer, Publish(p) PROVE TypeOK'
  <2>1. CASE StatRecords(p)
    BY <2>1 DEF StatRecords
  <2>2. CASE StatManifest(p)
    BY <2>2 DEF StatManifest, Raise
  <2>3. CASE CompareOrphan(p)
    BY <2>3 DEF CompareOrphan, Raise, Fault
  <2>4. CASE LinkRecords(p)
    BY <2>4 DEF LinkRecords, Temp, Fault, Raise
  <2>5. CASE LinkManifest(p)
    BY <2>5 DEF LinkManifest, Temp, Fault, Raise
  <2>6. CASE Fsync(p)
    BY <2>6 DEF Fsync, Fault, Raise
  <2>7. CASE RollbackManifest(p)
    BY <2>7 DEF RollbackManifest, RollbackBreaks, Fault
  <2>8. CASE RollbackRecords(p)
    BY <2>8 DEF RollbackRecords, RollbackBreaks, Fault
  <2> QED
    BY <1>3, <2>1, <2>2, <2>3, <2>4, <2>5, <2>6, <2>7, <2>8 DEF Publish
<1>4. ASSUME NEW p \in Writer, Leave(p) PROVE TypeOK'
  <2>1. CASE Release(p)
    BY <2>1 DEF Release, LeaveBreaks, LateFailure, Fault
  <2>2. CASE UnlinkLock(p)
    <3>1. faults' \in 0..MaxFaults /\ hit' \subseteq Writer
      BY <2>2 DEF UnlinkLock, LeaveBreaks, Fault
    <3>2. pc' \in [Writer -> Labels] /\ outcome' \in [Writer -> Committed \cup {"none", "failed", "failed_in_rollback"}]
      BY <2>2 DEF UnlinkLock, LeaveBreaks, LateFailure
    <3>3. lock' \in Writer \cup {NoFile} /\ stolen' \in BOOLEAN
      BY <2>2, Zenon DEF UnlinkLock, RemoveLock
    <3> QED
      BY <2>2, <3>1, <3>2, <3>3 DEF UnlinkLock
  <2>3. CASE Finish(p)
    BY <2>3 DEF Finish, Fault, LateFailure
  <2> QED
    BY <1>4, <2>1, <2>2, <2>3 DEF Leave
<1>5. ASSUME NEW p \in Writer, Crash(p) PROVE TypeOK'
  BY <1>5 DEF Crash
<1>6. CASE UNCHANGED vars
  BY <1>6 DEF vars
<1> QED
  BY <1>1, <1>2, <1>3, <1>4, <1>5, <1>6 DEF Next, Step

\* The acquisition loop is left when its last iteration is used up.
LEMMA TriesStep ==
    ASSUME TypeOK, TriesInv, [Next]_vars
    PROVE  TriesInv'
<1> USE NoFileAssumption, MaxFaultsAssumption DEF TypeOK, Goto, Labels, Critical, Locking, Committed, TriesInv
<1>1. ASSUME NEW p \in Writer, Start(p) PROVE TriesInv'
  BY <1>1 DEF Start
<1>2. ASSUME NEW p \in Writer, Acquire(p) PROVE TriesInv'
  BY <1>2 DEF Acquire, LinkLock, LockFsync, ReadLock, CheckOwner, UnlinkStale, RemoveLock, FailUnlocked,
         Fault
<1>3. ASSUME NEW p \in Writer, Publish(p) PROVE TriesInv'
  BY <1>3 DEF Publish, StatRecords, StatManifest, CompareOrphan, LinkRecords, LinkManifest, Temp, Fsync,
         RollbackManifest, RollbackRecords, RollbackBreaks, Fault, Raise
<1>4. ASSUME NEW p \in Writer, Leave(p) PROVE TriesInv'
  BY <1>4 DEF Leave, Release, UnlinkLock, Finish, LeaveBreaks, RemoveLock, LateFailure, Fault
<1>5. ASSUME NEW p \in Writer, Crash(p) PROVE TriesInv'
  BY <1>5 DEF Crash
<1>6. CASE UNCHANGED vars
  BY <1>6 DEF vars
<1> QED
  BY <1>1, <1>2, <1>3, <1>4, <1>5, <1>6 DEF Next, Step

\* An outcome is settled once, and failure is reported only after the rollback.
LEMMA OutcomeStep ==
    ASSUME TypeOK, OutcomeInv, OwnerInv, [Next]_vars
    PROVE  OutcomeInv'
<1> USE NoFileAssumption, MaxFaultsAssumption DEF TypeOK, Goto, Labels, Critical, Locking, Committed,
        OutcomeInv, OwnerInv, Open, Closed, Mine, File
<1>1. ASSUME NEW p \in Writer, Start(p) PROVE OutcomeInv'
  BY <1>1 DEF Start
<1>2. ASSUME NEW p \in Writer, Acquire(p) PROVE OutcomeInv'
  BY <1>2 DEF Acquire, LinkLock, LockFsync, ReadLock, CheckOwner, UnlinkStale, RemoveLock, FailUnlocked,
         Fault
<1>3. ASSUME NEW p \in Writer, Publish(p) PROVE OutcomeInv'
  BY <1>3 DEF Publish, StatRecords, StatManifest, CompareOrphan, LinkRecords, LinkManifest, Temp, Fsync,
         RollbackManifest, RollbackRecords, RollbackBreaks, Fault, Raise
<1>4. ASSUME NEW p \in Writer, Leave(p) PROVE OutcomeInv'
  BY <1>4 DEF Leave, Release, UnlinkLock, Finish, LeaveBreaks, RemoveLock, LateFailure, Fault
<1>5. ASSUME NEW p \in Writer, Crash(p) PROVE OutcomeInv'
  BY <1>5 DEF Crash
<1>6. CASE UNCHANGED vars
  BY <1>6 DEF vars
<1> QED
  BY <1>1, <1>2, <1>3, <1>4, <1>5, <1>6 DEF Next, Step

\* Only the link actions put a writer's own inode under a name.
LEMMA OwnerStep ==
    ASSUME TypeOK, OwnerInv, OutcomeInv, [Next]_vars
    PROVE  OwnerInv'
<1> USE NoFileAssumption, MaxFaultsAssumption DEF TypeOK, Goto, Labels, Critical, Locking, Committed,
        OwnerInv, OutcomeInv, Open, Closed, Mine, File
<1>1. ASSUME NEW p \in Writer, Start(p) PROVE OwnerInv'
  BY <1>1 DEF Start
<1>2. ASSUME NEW p \in Writer, Acquire(p) PROVE OwnerInv'
  BY <1>2 DEF Acquire, LinkLock, LockFsync, ReadLock, CheckOwner, UnlinkStale, RemoveLock, FailUnlocked,
         Fault
<1>3. ASSUME NEW p \in Writer, Publish(p) PROVE OwnerInv'
  BY <1>3 DEF Publish, StatRecords, StatManifest, CompareOrphan, LinkRecords, LinkManifest, Temp, Fsync,
         RollbackManifest, RollbackRecords, RollbackBreaks, Fault, Raise
<1>4. ASSUME NEW p \in Writer, Leave(p) PROVE OwnerInv'
  BY <1>4 DEF Leave, Release, UnlinkLock, Finish, LeaveBreaks, RemoveLock, LateFailure, Fault
<1>5. ASSUME NEW p \in Writer, Crash(p) PROVE OwnerInv'
  BY <1>5 DEF Crash
<1>6. CASE UNCHANGED vars
  BY <1>6 DEF vars
<1> QED
  BY <1>1, <1>2, <1>3, <1>4, <1>5, <1>6 DEF Next, Step

\* A step that does not steal a lock leaves every writer in the critical
\* section the owner of the lock file.
LEMMA HolderStep ==
    ASSUME TypeOK, HolderInv, ~stolen', [Next]_vars
    PROVE  HolderInv'
<1> USE NoFileAssumption, MaxFaultsAssumption DEF TypeOK, Goto, Labels, Critical, Locking, Committed, HolderInv
<1>1. ASSUME NEW p \in Writer, Start(p) PROVE HolderInv'
  BY <1>1 DEF Start
<1>2. ASSUME NEW p \in Writer, Acquire(p) PROVE HolderInv'
  <2>1. CASE LinkLock(p)
    BY <2>1 DEF LinkLock
  <2>2. CASE LockFsync(p) \/ ReadLock(p) \/ CheckOwner(p)
    BY <2>2 DEF LockFsync, ReadLock, CheckOwner, FailUnlocked, Fault
  <2>3. CASE UnlinkStale(p)
    <3>0. CASE UNCHANGED lock
      <4>1. pc' = [pc EXCEPT ![p] = pc'[p]] /\ pc'[p] \notin Critical \cup {"lock_fsync"}
        BY <2>3 DEF UnlinkStale, FailUnlocked
      <4> QED
        BY <3>0, <4>1
    <3> SUFFICES ASSUME RemoveLock(p) PROVE HolderInv'
      BY <2>3, <3>0 DEF UnlinkStale
    <3>1. ~(lock # NoFile /\ lock # p /\ Alive(lock))
      BY <2>3 DEF UnlinkStale, RemoveLock
    <3>2. ASSUME NEW q \in Writer, q # p PROVE pc[q] \notin Critical \cup {"lock_fsync"}
      BY <3>1, <3>2 DEF Alive
    <3>3. pc'[p] \notin Critical \cup {"lock_fsync"}
      BY <2>3 DEF UnlinkStale, FailUnlocked
    <3>4. \A q \in Writer \ {p} : pc'[q] = pc[q]
      BY <2>3 DEF UnlinkStale, FailUnlocked
    <3> QED
      BY <3>2, <3>3, <3>4
  <2> QED
    BY <1>2, <2>1, <2>2, <2>3 DEF Acquire
<1>3. ASSUME NEW p \in Writer, Publish(p) PROVE HolderInv'
  BY <1>3 DEF Publish, StatRecords, StatManifest, CompareOrphan, LinkRecords, LinkManifest, Temp, Fsync,
         RollbackManifest, RollbackRecords, RollbackBreaks, Fault, Raise
<1>4. ASSUME NEW p \in Writer, Leave(p) PROVE HolderInv'
  BY <1>4 DEF Leave, Release, UnlinkLock, Finish, LeaveBreaks, RemoveLock, LateFailure, Fault
<1>5. ASSUME NEW p \in Writer, Crash(p) PROVE HolderInv'
  BY <1>5 DEF Crash
<1>6. CASE UNCHANGED vars
  BY <1>6 DEF vars
<1> QED
  BY <1>1, <1>2, <1>3, <1>4, <1>5, <1>6 DEF Next, Step

\* The writer that holds the lock is the only one to change the two names.
LEMMA FileStep ==
    ASSUME TypeOK, OwnerInv, HolderInv, FileInv, [Next]_vars
    PROVE  FileInv'
<1> USE NoFileAssumption, MaxFaultsAssumption DEF TypeOK, Goto, Labels, Critical, Locking, Committed,
        OwnerInv, HolderInv, FileInv, Mine, Recoverable, Closed, File
<1>1. ASSUME NEW p \in Writer, Start(p) PROVE FileInv'
  BY <1>1 DEF Start
<1>2. ASSUME NEW p \in Writer, Acquire(p) PROVE FileInv'
  BY <1>2 DEF Acquire, LinkLock, LockFsync, ReadLock, CheckOwner, UnlinkStale, RemoveLock, FailUnlocked,
         Fault
<1>3. ASSUME NEW p \in Writer, Publish(p) PROVE FileInv'
  <2>1. CASE StatRecords(p)
    BY <2>1 DEF StatRecords
  <2>2. CASE StatManifest(p)
    BY <2>2 DEF StatManifest, Raise
  <2>3. CASE CompareOrphan(p)
    BY <2>3 DEF CompareOrphan, Raise, Fault
  <2>4. CASE LinkRecords(p)
    BY <2>4 DEF LinkRecords, Temp, Fault, Raise
  <2>5. CASE LinkManifest(p)
    BY <2>5 DEF LinkManifest, Temp, Fault, Raise
  <2>6. CASE Fsync(p)
    BY <2>6 DEF Fsync, Fault, Raise
  <2>7. CASE RollbackManifest(p)
    BY <2>7 DEF RollbackManifest, RollbackBreaks, Fault
  <2>8. CASE RollbackRecords(p)
    BY <2>8 DEF RollbackRecords, RollbackBreaks, Fault
  <2> QED
    BY <1>3, <2>1, <2>2, <2>3, <2>4, <2>5, <2>6, <2>7, <2>8 DEF Publish
<1>4. ASSUME NEW p \in Writer, Leave(p) PROVE FileInv'
  BY <1>4 DEF Leave, Release, UnlinkLock, Finish, LeaveBreaks, RemoveLock, LateFailure, Fault
<1>5. ASSUME NEW p \in Writer, Crash(p) PROVE FileInv'
  BY <1>5 DEF Crash
<1>6. CASE UNCHANGED vars
  BY <1>6 DEF vars
<1> QED
  BY <1>1, <1>2, <1>3, <1>4, <1>5, <1>6 DEF Next, Step

\* A committed manifest stays: its owner is past every rollback.
LEMMA FinalStep ==
    ASSUME TypeOK, OutcomeInv, OwnerInv, FileInv, FinalInv, [Next]_vars
    PROVE  FinalInv'
<1> USE NoFileAssumption, MaxFaultsAssumption DEF TypeOK, Goto, Labels, Critical, Locking, Committed,
        OutcomeInv, OwnerInv, FileInv, FinalInv, Open, Closed, Mine, Recoverable, File
<1>1. ASSUME NEW p \in Writer, Start(p) PROVE FinalInv'
  BY <1>1 DEF Start
<1>2. ASSUME NEW p \in Writer, Acquire(p) PROVE FinalInv'
  BY <1>2 DEF Acquire, LinkLock, LockFsync, ReadLock, CheckOwner, UnlinkStale, RemoveLock, FailUnlocked,
         Fault
<1>3. ASSUME NEW p \in Writer, Publish(p) PROVE FinalInv'
  BY <1>3 DEF Publish, StatRecords, StatManifest, CompareOrphan, LinkRecords, LinkManifest, Temp, Fsync,
         RollbackManifest, RollbackRecords, RollbackBreaks, Fault, Raise
<1>4. ASSUME NEW p \in Writer, Leave(p) PROVE FinalInv'
  BY <1>4 DEF Leave, Release, UnlinkLock, Finish, LeaveBreaks, RemoveLock, LateFailure, Fault
<1>5. ASSUME NEW p \in Writer, Crash(p) PROVE FinalInv'
  BY <1>5 DEF Crash
<1>6. CASE UNCHANGED vars
  BY <1>6 DEF vars
<1> QED
  BY <1>1, <1>2, <1>3, <1>4, <1>5, <1>6 DEF Next, Step

\* A stolen lock stays stolen.
LEMMA StolenStep ==
    ASSUME TypeOK, [Next]_vars, ~stolen'
    PROVE  ~stolen
<1> USE DEF TypeOK
<1>1. ASSUME NEW p \in Writer, UnlinkStale(p) \/ UnlinkLock(p) PROVE ~stolen
  BY <1>1 DEF UnlinkStale, UnlinkLock, RemoveLock
<1>2. ASSUME NEW p \in Writer, Next, ~(UnlinkStale(p) \/ UnlinkLock(p)),
             Start(p) \/ Step(p) \/ Crash(p)
      PROVE  ~stolen
  BY <1>2 DEF Step, Acquire, Publish, Leave, Start, LinkLock, LockFsync, ReadLock, CheckOwner,
              StatRecords, StatManifest, CompareOrphan, LinkRecords, LinkManifest, Temp, Fsync,
              RollbackManifest, RollbackRecords, Release, Finish, Crash
<1>3. CASE UNCHANGED vars
  BY <1>3 DEF vars
<1> QED
  BY <1>1, <1>2, <1>3 DEF Next

\* The inductive invariant holds initially.
LEMMA InvInit == Init => Inv
<1> SUFFICES ASSUME Init PROVE Inv
  OBVIOUS
<1> USE NoFileAssumption, MaxFaultsAssumption DEF Init, Labels, Critical, Locking, Committed
<1>1. TypeOK
  <2>1. pc \in [Writer -> Labels] /\ outcome \in [Writer -> Committed \cup {"none", "failed", "failed_in_rollback"}]
    OBVIOUS
  <2>2. tries \in [Writer -> 0..2] /\ seen \in [Writer -> Writer \cup {NoFile}]
    OBVIOUS
  <2>3. faults \in 0..MaxFaults
    OBVIOUS
  <2> QED
    BY <2>1, <2>2, <2>3 DEF TypeOK
<1>2. TriesInv
  BY DEF TriesInv
<1>3. OutcomeInv
  BY DEF OutcomeInv, Open, Closed, Mine
<1>4. OwnerInv
  BY DEF OwnerInv, Mine
<1>5. HolderInv /\ FileInv /\ FinalInv
  BY DEF HolderInv, FileInv, FinalInv, Mine
<1> QED
  BY <1>1, <1>2, <1>3, <1>4, <1>5 DEF Inv

\* Every step, a crash or a failing system call included, preserves it.
LEMMA InvStep == Inv /\ [Next]_vars => Inv'
<1> SUFFICES ASSUME Inv, [Next]_vars PROVE Inv'
  OBVIOUS
<1>1. TypeOK' /\ TriesInv'
  BY TypeStep, TriesStep DEF Inv
<1>2. OutcomeInv' /\ OwnerInv'
  BY OutcomeStep, OwnerStep DEF Inv
<1>3. ASSUME ~stolen' PROVE HolderInv' /\ FileInv' /\ FinalInv'
  <2>1. HolderInv /\ FileInv /\ FinalInv
    BY <1>3, StolenStep DEF Inv
  <2> QED
    BY <1>3, <2>1, HolderStep, FileStep, FinalStep DEF Inv
<1> QED
  BY <1>1, <1>2, <1>3 DEF Inv

(***************************************************************************)
(* What follows from the invariant                                         *)
(***************************************************************************)
\* The inductive invariant holds in every reachable state.
THEOREM Invariance == Spec => []Inv
  BY InvInit, InvStep, PTL DEF Spec

\* Every variable keeps its type.
THEOREM TypeCorrect == Spec => []TypeOK
<1>1. Inv => TypeOK
  BY DEF Inv
<1> QED
  BY <1>1, Invariance, PTL

\* The pair lock excludes as long as no live lock was reclaimed.
THEOREM LockExcludes == Spec => []MutualExclusion
<1>1. Inv => MutualExclusion
  BY DEF Inv, HolderInv, MutualExclusion
<1> QED
  BY <1>1, Invariance, PTL

\* A visible manifest always vouches for the records file next to it.
THEOREM ManifestVouches == Spec => []CommittedPairConsistent
<1>1. Inv => CommittedPairConsistent
  BY DEF Inv, FileInv, CommittedPairConsistent
<1> QED
  BY <1>1, Invariance, PTL

\* A call that reports failure left none of its files, stolen lock or not; a
\* rollback that failed itself left no manifest without its records.
THEOREM FailureIsClean == Spec => []FailureLeavesNothing
<1>1. Inv => FailureLeavesNothing
  BY DEF Inv, OutcomeInv, OwnerInv, FileInv, FailureLeavesNothing, Mine
<1> QED
  BY <1>1, Invariance, PTL

\* A step that steals no lock changes neither file of a committed pair.
LEMMA FinalAction ==
    ASSUME Inv, [Next]_vars, ~stolen', NEW w \in Writer, outcome[w] \in Committed
    PROVE  UNCHANGED <<records, manifest>>
<1> USE NoFileAssumption DEF Goto
<1>1. TypeOK /\ OutcomeInv /\ OwnerInv /\ FileInv /\ FinalInv
  BY StolenStep DEF Inv
<1>2. /\ manifest # NoFile
      /\ records # NoFile
      /\ manifest.owner \in Writer
      /\ outcome[manifest.owner] \in Committed
  BY <1>1 DEF FinalInv, FileInv, TypeOK, File
<1>3. ASSUME NEW p \in Writer, Publish(p) PROVE UNCHANGED <<records, manifest>>
  <2>1. CASE LinkRecords(p) \/ LinkManifest(p)
    BY <1>2, <2>1 DEF LinkRecords, LinkManifest, Temp
  <2>2. CASE RollbackManifest(p)
    <3>1. ~Mine(manifest, p)
      BY <1>1, <1>2, <2>2 DEF RollbackManifest, OutcomeInv, Open, Critical, Committed, Mine
    <3> QED
      BY <2>2, <3>1 DEF RollbackManifest
  <2>3. CASE RollbackRecords(p)
    BY <1>1, <1>2, <2>3 DEF RollbackRecords, FileInv
  <2> QED
    BY <1>3, <2>1, <2>2, <2>3 DEF Publish, StatRecords, StatManifest, CompareOrphan, Fsync
<1>4. ASSUME NEW p \in Writer, Acquire(p) \/ Leave(p) \/ Start(p) \/ Crash(p)
      PROVE  UNCHANGED <<records, manifest>>
  BY <1>4 DEF Acquire, LinkLock, LockFsync, ReadLock, CheckOwner, UnlinkStale, Leave, Release,
              UnlinkLock, Finish, Start, Crash
<1> QED
  BY <1>3, <1>4 DEF Next, Step, vars

\* Committed evidence is never overwritten or withdrawn.
THEOREM CommitIsFinal == Spec => AcknowledgedIsFinal
<1>1. Inv /\ [Next]_vars
        => [(~stolen' /\ \E p \in Writer : outcome[p] \in Committed)
              => UNCHANGED <<records, manifest>>]_vars
  BY FinalAction
<1> QED
  BY <1>1, Invariance, PTL DEF Spec, AcknowledgedIsFinal

(***************************************************************************)
(* The refinement of PairCommit                                            *)
(***************************************************************************)
\* Two absent names are an uncommitted pair.
LEMMA RefinementInit == Init => Abstract!Init
  BY DEF Init, Abstract!Init, Committed

\* Every step that steals no lock is a step of PairCommit or a stutter.
LEMMA RefinementStep ==
    ASSUME Inv, [Next]_vars, ~stolen'
    PROVE  [Abstract!Next]_(Abstract!vars)
<1> DEFINE pairBar == IF records # NoFile /\ manifest # NoFile THEN records.bytes ELSE NoFile
           ackedBar == \E p \in Writer : outcome[p] \in Committed
<1> USE NoFileAssumption DEF Goto
<1>1. TypeOK /\ OutcomeInv /\ OwnerInv /\ FileInv /\ FinalInv
  BY StolenStep DEF Inv
<1>0. stolen = FALSE /\ stolen' = FALSE
  <2>1. TypeOK'
    BY InvStep DEF Inv
  <2> QED
    BY <2>1, StolenStep DEF Inv, TypeOK
<1>2. ASSUME pairBar' = pairBar, ackedBar' = ackedBar
      PROVE  [Abstract!Next]_(Abstract!vars)
  BY <1>0, <1>2 DEF Abstract!vars
<1>3. ASSUME NEW p \in Writer, NEW value \in Committed \cup {"none", "failed", "failed_in_rollback"},
             outcome' = [outcome EXCEPT ![p] = value],
             outcome[p] \in Committed <=> value \in Committed
      PROVE  ackedBar' = ackedBar
  BY <1>1, <1>3 DEF TypeOK
<1>4. ASSUME NEW p \in Writer, LinkManifest(p)
      PROVE  [Abstract!Next]_(Abstract!vars)
  <2>1. ackedBar' = ackedBar
    BY <1>4 DEF LinkManifest, Temp
  <2>2. CASE manifest' = manifest
    BY <1>2, <1>4, <2>1, <2>2 DEF LinkManifest, Temp
  <2>3. CASE manifest' # manifest
    <3>1. /\ records # NoFile /\ records' = records
          /\ manifest = NoFile /\ manifest' = [owner |-> p, bytes |-> bytes[p]]
      BY <1>1, <1>4, <2>3 DEF LinkManifest, Temp, FileInv, Recoverable
    <3>2. [owner |-> p, bytes |-> bytes[p]] \in File /\ records.bytes \in Bytes
      BY <1>1, <3>1 DEF TypeOK, File
    <3>3. pairBar = NoFile /\ pairBar' = records.bytes
      BY <3>1, <3>2
    <3>4. Abstract!Commit(records.bytes)
      BY <1>0, <2>1, <3>3 DEF Abstract!Commit
    <3> QED
      BY <1>0, <3>2, <3>4 DEF Abstract!Next
  <2> QED
    BY <2>2, <2>3
<1>5. ASSUME NEW p \in Writer, Fsync(p)
      PROVE  [Abstract!Next]_(Abstract!vars)
  <2>1. pairBar' = pairBar
    BY <1>5 DEF Fsync
  <2>2. CASE UNCHANGED outcome
    BY <1>2, <2>1, <2>2
  <2>3. CASE outcome' = [outcome EXCEPT ![p] = "ok"]
    <3>1. ackedBar'
      BY <1>1, <2>3 DEF TypeOK, Committed
    <3>2. manifest # NoFile /\ records # NoFile /\ records \in File
      BY <1>1, <1>5 DEF Fsync, FileInv, Mine, TypeOK
    <3>3. pairBar # NoFile
      BY <3>2 DEF File
    <3> QED
      BY <1>0, <2>1, <3>1, <3>3 DEF Abstract!Acknowledge, Abstract!Next
  <2> QED
    BY <1>5, <2>2, <2>3 DEF Fsync
<1>6. ASSUME NEW p \in Writer, RollbackManifest(p)
      PROVE  [Abstract!Next]_(Abstract!vars)
  <2>0. outcome[p] = "none"
    BY <1>1, <1>6 DEF OutcomeInv, Open, Critical, RollbackManifest
  <2>1. ackedBar' = ackedBar /\ records' = records
    <3>1. CASE UNCHANGED outcome
      BY <1>6, <3>1 DEF RollbackManifest
    <3>2. CASE outcome' = [outcome EXCEPT ![p] = "failed_in_rollback"]
      BY <1>3, <1>6, <2>0, <3>2 DEF RollbackManifest, Committed
    <3> QED
      BY <1>6, <3>1, <3>2 DEF RollbackManifest, RollbackBreaks
  <2>2. CASE manifest' = manifest
    BY <1>2, <2>1, <2>2
  <2>3. CASE manifest' # manifest
    <3>1. Mine(manifest, p) /\ manifest' = NoFile
      BY <1>6, <2>3 DEF RollbackManifest
    <3>3. ~ackedBar
      BY <1>1, <2>0, <3>1 DEF FinalInv, Mine, Committed
    <3>4. pairBar' = NoFile /\ ~ackedBar'
      BY <2>1, <3>1, <3>3
    <3>5. CASE pairBar = NoFile
      BY <1>2, <2>1, <3>4, <3>5
    <3>6. CASE pairBar # NoFile
      BY <1>0, <3>3, <3>4, <3>6 DEF Abstract!Retract, Abstract!Next
    <3> QED
      BY <3>5, <3>6
  <2> QED
    BY <2>2, <2>3
<1>7. ASSUME NEW p \in Writer, LinkRecords(p)
      PROVE  [Abstract!Next]_(Abstract!vars)
  <2>1. manifest = NoFile /\ manifest' = NoFile /\ outcome' = outcome
    BY <1>1, <1>7 DEF LinkRecords, Temp, FileInv
  <2> QED
    BY <1>2, <2>1
<1>8. ASSUME NEW p \in Writer, RollbackRecords(p)
      PROVE  [Abstract!Next]_(Abstract!vars)
  <2>1. outcome[p] = "none"
    BY <1>1, <1>8 DEF OutcomeInv, Open, Critical, RollbackRecords
  <2>2. ackedBar' = ackedBar
    <3>1. CASE outcome' = [outcome EXCEPT ![p] = "failed"]
      BY <1>3, <2>1, <3>1 DEF Committed
    <3>2. CASE outcome' = [outcome EXCEPT ![p] = "failed_in_rollback"]
      BY <1>3, <2>1, <3>2 DEF Committed
    <3> QED
      BY <1>8, <3>1, <3>2 DEF RollbackRecords, RollbackBreaks
  <2>3. manifest' = manifest /\ (records' = records \/ manifest = NoFile)
    BY <1>1, <1>8 DEF RollbackRecords, FileInv
  <2> QED
    BY <1>2, <2>2, <2>3
<1>9. ASSUME NEW p \in Writer, StatRecords(p) \/ StatManifest(p) \/ CompareOrphan(p)
                                \/ Start(p) \/ Crash(p)
      PROVE  [Abstract!Next]_(Abstract!vars)
  BY <1>2, <1>9 DEF StatRecords, StatManifest, CompareOrphan, Start, Crash
<1>10. ASSUME NEW p \in Writer, Acquire(p)
       PROVE  [Abstract!Next]_(Abstract!vars)
  <2>1. UNCHANGED <<records, manifest>>
    BY <1>10 DEF Acquire, LinkLock, LockFsync, ReadLock, CheckOwner, UnlinkStale
  <2>2. CASE UNCHANGED outcome
    BY <1>2, <2>1, <2>2
  <2>3. CASE FailUnlocked(p)
    <3>1. outcome[p] = "none"
      BY <1>1, <1>10 DEF OutcomeInv, Open, Locking, Acquire, LinkLock, LockFsync, ReadLock,
                         CheckOwner, UnlinkStale
    <3>2. ackedBar' = ackedBar
      BY <1>3, <2>3, <3>1 DEF FailUnlocked, Committed
    <3> QED
      BY <1>2, <2>1, <3>2
  <2> QED
    BY <1>10, <2>2, <2>3 DEF Acquire, LinkLock, LockFsync, ReadLock, CheckOwner, UnlinkStale
<1>11. ASSUME NEW p \in Writer, Leave(p)
       PROVE  [Abstract!Next]_(Abstract!vars)
  <2>1. UNCHANGED <<records, manifest>>
    BY <1>11 DEF Leave, Release, UnlinkLock, Finish
  <2>2. CASE UNCHANGED outcome
    BY <1>2, <2>1, <2>2
  <2>3. CASE LateFailure(p)
    <3>1. CASE outcome[p] \in Committed
      <4>1. outcome' = [outcome EXCEPT ![p] = "failed_after_commit"]
        BY <2>3, <3>1 DEF LateFailure
      <4> QED
        BY <1>2, <1>3, <2>1, <3>1, <4>1 DEF Committed
    <3>2. CASE outcome[p] \notin Committed
      <4>1. UNCHANGED outcome
        BY <1>1, <2>3, <3>2 DEF LateFailure, TypeOK
      <4> QED
        BY <1>2, <2>1, <4>1
    <3> QED
      BY <3>1, <3>2
  <2> QED
    BY <1>11, <2>2, <2>3 DEF Leave, Release, UnlinkLock, Finish, LeaveBreaks
<1>12. CASE UNCHANGED vars
  BY <1>2, <1>12 DEF vars
<1> QED
  BY <1>4, <1>5, <1>6, <1>7, <1>8, <1>9, <1>10, <1>11, <1>12 DEF Next, Step, Publish

\* Up to the first lock theft, two links, a lock file and a rollback are one
\* atomic commit that nothing replaces.
THEOREM ImplementsPairCommit == Spec => RefinesPairCommit
<1>1. ASSUME Inv, [Next]_vars
      PROVE  [Abstract!Next]_(Abstract!vars)
  <2>1. CASE ~stolen'
    BY <1>1, <2>1, RefinementStep
  <2>2. CASE stolen'
    <3>1. TypeOK'
      BY <1>1, InvStep DEF Inv
    <3> QED
      BY <2>2, <3>1 DEF Abstract!Next, Abstract!Breach, TypeOK, File
  <2> QED
    BY <2>1, <2>2 DEF Inv, TypeOK
<1> QED
  BY <1>1, Invariance, RefinementInit, PTL DEF Spec, RefinesPairCommit, Abstract!Spec
=============================================================================
