-------------------------- MODULE DevResumeProofs --------------------------
(***************************************************************************)
(* The resume ledger, for any number of runs, chunks and attempts: Inv is  *)
(* inductive and the safety properties of DevResume follow from it.        *)
(*                                                                         *)
(* A step belongs to one run, changes the files of at most the pair that   *)
(* run is at (Frame, OnlyTarget), and therefore never touches an attempt no run is *)
(* working on (KeptStays).  The rest of the argument is who works where:   *)
(* the resume lock for the attempts, the pair lock for the links.          *)
(***************************************************************************)
EXTENDS DevResume, TLAPS

Act(p) == Start(p) \/ Step(p) \/ Crash(p)

\* Attempts of chunks and the final pair are different pairs.
LEMMA SlotFacts ==
    /\ Final \in Slot
    /\ \A c \in Chunk, n \in Number :
          <<c, n>> \in Slot /\ <<c, n>> \in ChunkSlot /\ <<c, n>> # Final
    /\ \A s \in Slot : s # Final => s \in ChunkSlot /\ s[1] \in Chunk /\ s[2] \in Number
    /\ \A s \in ChunkSlot : s \in Slot /\ s # Final /\ s[1] \in Chunk /\ s[2] \in Number
                            /\ s = <<s[1], s[2]>>
    /\ NoRows \in Rows
    /\ Absent \notin Slot
  BY AbsentAssumption, BoundsAssumption
  DEF Final, Slot, ChunkSlot, Chunk, Number, NoRows, Rows

\* What a run publishes has the type of a records file.
LEMMA PayloadType ==
    ASSUME TypeOK, NEW p \in Run, target[p] \in Slot
    PROVE  /\ Payload(p) \in Rows
           /\ FileOf(p) \in File
           /\ FileOf(p) # Absent
           /\ FileOf(p).owner = p
           /\ FileOf(p).rows = Payload(p)
           /\ \A c \in Chunk, n \in Number : target[p] = <<c, n>> => Payload(p)[c] = p
<1>1. Payload(p) \in Rows
  BY SlotFacts DEF TypeOK, Payload, Rows
<1>2. FileOf(p) \in File
  BY <1>1 DEF FileOf, File
<1>3. ASSUME NEW c \in Chunk, NEW n \in Number, target[p] = <<c, n>>
      PROVE  Payload(p)[c] = p
  <2>1. Payload(p) = [NoRows EXCEPT ![c] = p]
    BY <1>3, SlotFacts DEF Payload
  <2> QED
    BY <2>1 DEF NoRows
<1> QED
  BY <1>1, <1>2, <1>3, AbsentAssumption DEF FileOf

\* A report leaves a progress file and counts its own failure.
LEMMA ReportType ==
    ASSUME TypeOK, NEW p \in Run, NEW completed \in SUBSET Chunk,
           NEW state \in {"running", "interrupted", "complete"}, NEW next,
           Report(p, state, completed, next)
    PROVE  progress' \in Progress \cup {Absent} /\ faults' \in 0..MaxFaults
<1>1. [state |-> state, completed |-> completed] \in Progress
  BY DEF Progress
<1> QED
  BY <1>1, BoundsAssumption DEF Report, WriteProgress, Fault, TypeOK

\* Variables keep their types.
LEMMA TypeStep ==
    ASSUME TypeOK, PlaceInv, [Next]_vars
    PROVE  TypeOK'
<1> USE BoundsAssumption DEF TypeOK, disk, Goto, Labels, Pairing, Working
<1>1. ASSUME NEW p \in Run, Act(p)
      PROVE  TypeOK'
  <2>1. CASE Start(p) \/ RequireNewTargets(p) \/ Crash(p) \/ Validate(p)
    BY <2>1 DEF Start, RequireNewTargets, Crash, Validate
  <2>2. CASE InitializeContract(p)
    BY <2>2 DEF InitializeContract, Fault
  <2>3. CASE CreateLock(p)
    <3>1. [owner |-> p, written |-> FALSE] \in Lock
      BY DEF Lock
    <3> QED
      BY <2>3, <3>1 DEF CreateLock
  <2>4. CASE WriteLock(p)
    <3>1. lock # Absent => [lock EXCEPT !.written = TRUE] \in Lock
      BY DEF Lock
    <3>2. stolen' \in BOOLEAN
      BY <2>4 DEF WriteLock, RemoveLock
    <3>3. lock' \in Lock \cup {Absent}
      BY <2>4, <3>1 DEF WriteLock, RemoveLock
    <3> QED
      BY <2>4, <3>2, <3>3 DEF WriteLock, Fault
  <2>5. CASE ReadLock(p) \/ CheckOwner(p)
    BY <2>5 DEF ReadLock, Readable, Lock, CheckOwner
  <2>6. CASE UnlinkStale(p)
    <3>1. stolen' \in BOOLEAN
      BY <2>6 DEF UnlinkStale, RemoveLock
    <3>2. tries' \in [Run -> 0..2]
      BY <2>6 DEF UnlinkStale, PlaceInv
    <3> QED
      BY <2>6, <3>1, <3>2 DEF UnlinkStale, RemoveLock
  <2>7. CASE Load(p)
    <3>1. PICK rows \in Rows :
            /\ have' = [have EXCEPT ![p] = rows]
            /\ Report(p, "running", {c \in Chunk : rows[c] # Nobody}, "generate")
      BY <2>7 DEF Load
    <3>2. progress' \in Progress \cup {Absent} /\ faults' \in 0..MaxFaults
      BY <3>1, ReportType
    <3> QED
      BY <2>7, <3>1, <3>2 DEF Load, Report
  <2>8. CASE Generate(p)
    BY <2>8, SlotFacts DEF Generate, Missing, Fault
  <2>9. CASE Interrupt(p) \/ Complete(p)
    <3>1. progress' \in Progress \cup {Absent} /\ faults' \in 0..MaxFaults
      BY <2>9, ReportType DEF Interrupt, Complete, Completed
    <3> QED
      BY <2>9, <3>1, SlotFacts DEF Interrupt, Complete, Report
  <2>10. CASE Advance(p)
    <3>1. target[p][1] \in Chunk
      BY <2>10, SlotFacts DEF Advance, PlaceInv
    <3>2. have' \in [Run -> Rows]
      <4>1. [have[p] EXCEPT ![target[p][1]] = p] \in Rows
        BY <3>1 DEF Rows
      <4> QED
        BY <2>10, <4>1 DEF Advance
    <3>3. progress' \in Progress \cup {Absent} /\ faults' \in 0..MaxFaults
      BY <2>10, <3>1, ReportType DEF Advance, Completed
    <3> QED
      BY <2>10, <3>2, <3>3 DEF Advance, Report
  <2>11. CASE Release(p)
    BY <2>11 DEF Release, Fault
  <2>12. CASE OpenPair(p) \/ Settle(p)
    BY <2>12 DEF OpenPair, Settle, Raise, Fault
  <2>13. CASE LinkRecords(p) \/ LinkManifest(p)
    <3>1. FileOf(p) \in File
      BY <2>13, PayloadType DEF LinkRecords, LinkManifest, PlaceInv
    <3> QED
      BY <2>13, <3>1 DEF LinkRecords, LinkManifest, Raise, Fault
  <2>14. CASE Rollback(p)
    BY <2>14 DEF Rollback, Raise
  <2> QED
    BY <1>1, <2>1, <2>2, <2>3, <2>4, <2>5, <2>6, <2>7, <2>8, <2>9, <2>10, <2>11, <2>12, <2>13,
       <2>14 DEF Act, Step, Acquire, Develop, Publish
<1>2. CASE Damage
  BY <1>2 DEF Damage
<1>3. CASE UNCHANGED vars
  BY <1>3 DEF vars
<1> QED
  BY <1>1, <1>2, <1>3 DEF Next, Act

(***************************************************************************)
(* What a step of p can change, and which action does it                   *)
(***************************************************************************)
\* The other runs stay where they are.
Alone(p) ==
    /\ wanted' = wanted
    /\ \A q \in Run : q # p => /\ pc'[q] = pc[q] /\ target'[q] = target[q]
                               /\ have'[q] = have[q] /\ tries'[q] = tries[q]

\* Which actions change what.
Causes(p) ==
    /\ contract' # contract => InitializeContract(p)
    /\ lock' # lock => CreateLock(p) \/ WriteLock(p) \/ UnlinkStale(p) \/ Release(p)
    /\ stolen' # stolen => WriteLock(p) \/ UnlinkStale(p)
    /\ records' # records => LinkRecords(p) \/ Rollback(p)
    /\ manifest' # manifest => LinkManifest(p) \/ Rollback(p)
    /\ damaged' # damaged => Rollback(p)
    /\ progress' # progress => Load(p) \/ Interrupt(p) \/ Advance(p) \/ Complete(p)
    /\ have' # have => Load(p) \/ Advance(p)
    /\ target' # target => Generate(p) \/ Complete(p)
    /\ tries' # tries => UnlinkStale(p)

\* Which actions lead where.
Arrivals(p) ==
    /\ pc'[p] \in {"contract", "check_owner"} => RequireNewTargets(p) \/ ReadLock(p)
    /\ pc'[p] \in {"targets", "lock", "read_lock", "unlink_stale"} =>
          Start(p) \/ InitializeContract(p) \/ CreateLock(p) \/ CheckOwner(p) \/ UnlinkStale(p)
    /\ pc'[p] = "write_lock" => CreateLock(p)
    /\ pc'[p] = "load" => WriteLock(p)
    /\ pc'[p] = "generate" => Load(p) \/ Advance(p)
    /\ pc'[p] = "advance" => Settle(p)
    /\ pc'[p] = "interrupt" =>
          Generate(p) \/ OpenPair(p) \/ LinkRecords(p) \/ Settle(p) \/ Rollback(p)
    /\ pc'[p] = "release" => Complete(p)
    /\ pc'[p] = "release_failed" => Load(p) \/ Interrupt(p) \/ Advance(p) \/ Complete(p)
    /\ pc'[p] = "validate" => Release(p) /\ pc[p] = "release"
    /\ pc'[p] = "open" => Generate(p) \/ Validate(p)
    /\ pc'[p] \in Moving => OpenPair(p) \/ LinkRecords(p) \/ LinkManifest(p) \/ Settle(p)
    /\ pc'[p] = "done" => Settle(p)
    /\ pc'[p] # "idle"

\* A step of p moves p only, and each variable changes in few of its actions.
LEMMA Frame ==
    ASSUME TypeOK, NEW p \in Run, Act(p)
    PROVE  Alone(p) /\ Causes(p) /\ Arrivals(p)
<1> USE DEF TypeOK, disk, Goto, Alone, Causes, Arrivals, Pairing, Moving
<1>1. CASE Start(p)
  BY <1>1 DEF Start
<1>2. CASE RequireNewTargets(p)
  BY <1>2 DEF RequireNewTargets
<1>3. CASE Crash(p)
  BY <1>3 DEF Crash
<1>4. CASE Validate(p)
  BY <1>4 DEF Validate
<1>5. CASE InitializeContract(p)
  BY <1>5 DEF InitializeContract
<1>6. CASE CreateLock(p)
  BY <1>6 DEF CreateLock
<1>7. CASE WriteLock(p)
  BY <1>7 DEF WriteLock
<1>8. CASE ReadLock(p)
  BY <1>8 DEF ReadLock
<1>9. CASE CheckOwner(p)
  BY <1>9 DEF CheckOwner
<1>10. CASE UnlinkStale(p)
  BY <1>10 DEF UnlinkStale
<1>11. CASE Load(p)
  BY <1>11 DEF Load, Report
<1>12. CASE Generate(p)
  BY <1>12 DEF Generate
<1>13. CASE Interrupt(p)
  BY <1>13 DEF Interrupt, Report
<1>14. CASE Advance(p)
  BY <1>14 DEF Advance, Report
<1>15. CASE Complete(p)
  BY <1>15 DEF Complete, Report
<1>16. CASE Release(p)
  BY <1>16 DEF Release
<1>17. CASE OpenPair(p)
  BY <1>17 DEF OpenPair, Raise
<1>18. CASE LinkRecords(p)
  BY <1>18 DEF LinkRecords, Raise
<1>19. CASE LinkManifest(p)
  BY <1>19 DEF LinkManifest
<1>20. CASE Settle(p)
  BY <1>20 DEF Settle, Raise
<1>21. CASE Rollback(p)
  BY <1>21 DEF Rollback, Raise
<1> QED
  BY <1>1, <1>2, <1>3, <1>4, <1>5, <1>6, <1>7, <1>8, <1>9, <1>10, <1>11, <1>12, <1>13, <1>14,
     <1>15, <1>16, <1>17, <1>18, <1>19, <1>20, <1>21 DEF Act, Step, Acquire, Develop, Publish

\* Files change only at the pair p is linking or rolling back.
LEMMA OnlyTarget ==
    ASSUME TypeOK, NEW p \in Run, Act(p), NEW s \in Slot,
           pc[p] \in Moving => target[p] # s
    PROVE  /\ records'[s] = records[s]
           /\ manifest'[s] = manifest[s]
           /\ s \in damaged' <=> s \in damaged
<1>1. ASSUME LinkRecords(p) \/ LinkManifest(p) \/ Rollback(p)
      PROVE  target[p] # s
  BY <1>1 DEF LinkRecords, LinkManifest, Rollback, Moving, Pairing
<1>2. records' # records => records'[s] = records[s]
  BY <1>1, Frame DEF Causes, LinkRecords, Rollback, TypeOK
<1>3. manifest' # manifest => manifest'[s] = manifest[s]
  BY <1>1, Frame DEF Causes, LinkManifest, Rollback, TypeOK
<1>4. damaged' # damaged => (s \in damaged' <=> s \in damaged)
  BY <1>1, Frame DEF Causes, Rollback
<1> QED
  BY <1>2, <1>3, <1>4

(***************************************************************************)
(* The parts of the invariant that need no lock of the ledger              *)
(***************************************************************************)
\* Where a run is keeps saying which pair it is at and what it has done.
LEMMA PlaceStep ==
    ASSUME TypeOK, TypeOK', PlaceInv, NEW p \in Run, Act(p)
    PROVE  PlaceInv'
<1> USE Frame, SlotFacts DEF TypeOK, Goto
<1> DEFINE Place(q) ==
      /\ pc[q] \in Pairing => target[q] \in Slot
      /\ pc[q] \in Pairing /\ target[q] # Final => target[q][1] \in Missing(q)
      /\ pc[q] = "advance" => target[q] \in ChunkSlot
      /\ pc[q] \in {"release", "validate"} => target[q] = Final
    Whole(q) ==
      target[q] = Final =>
        /\ Completed(q) = Chunk
        /\ pc[q] \in Pairing \cup {"release", "validate", "done", "failed", "dead"}
    Bound(q) ==
      pc[q] \notin {"idle", "targets", "contract", "failed", "dead"} => contract = wanted[q]
    Tried(q) ==
      pc[q] \in {"idle", "targets", "contract", "lock", "read_lock", "check_owner",
                 "unlink_stale"} => tries[q] > 0
<1>1. \A q \in Run : Place(q) /\ Whole(q) /\ Bound(q) /\ Tried(q)
  BY DEF PlaceInv
<1>2. contract' # contract => contract = Absent /\ contract' = wanted[p]
  BY DEF Causes, InitializeContract
<1>3. ASSUME NEW q \in Run, q # p
      PROVE  Place(q)' /\ Whole(q)' /\ Bound(q)' /\ Tried(q)'
  <2>1. Place(q)' /\ Whole(q)' /\ Tried(q)'
    BY <1>1, <1>3 DEF Alone, Completed, Missing
  <2>2. Bound(q)'
    BY <1>1, <1>2, <1>3, AbsentAssumption DEF Alone
  <2> QED
    BY <2>1, <2>2
<1>4. Place(p)'
  <2>1. ASSUME pc'[p] \in Pairing
        PROVE  target'[p] \in Slot
    BY <1>1, <2>1 DEF Arrivals, Causes, Generate, Validate, OpenPair, LinkRecords, LinkManifest,
          Settle, Missing, Pairing, Moving
  <2>4. ASSUME pc'[p] \in Pairing, target'[p] # Final
        PROVE  target'[p][1] \in Missing(p)'
    <3>1. CASE Generate(p)
      BY <2>4, <3>1 DEF Generate, Missing, Completed, Pairing
    <3>2. CASE OpenPair(p) \/ LinkRecords(p) \/ LinkManifest(p) \/ Settle(p)
      BY <1>1, <2>4, <3>2 DEF OpenPair, LinkRecords, LinkManifest, Settle, Missing, Completed,
            Pairing
    <3> QED
      BY <1>1, <2>4, <3>1, <3>2 DEF Arrivals, Validate, Moving, Pairing
  <2>2. ASSUME pc'[p] = "advance"
        PROVE  target'[p] \in ChunkSlot
    BY <1>1, <2>2 DEF Arrivals, Settle, Raise, Pairing
  <2>3. ASSUME pc'[p] \in {"release", "validate"}
        PROVE  target'[p] = Final
    BY <1>1, <2>3 DEF Arrivals, Complete, Release, Report
  <2> QED
    BY <2>1, <2>2, <2>3, <2>4
<1>5. Whole(p)'
  <2>1. CASE Generate(p)
    BY <1>1, <2>1 DEF Generate, Missing, Pairing
  <2>2. CASE Complete(p)
    BY <1>1, <2>2 DEF Complete, Missing, Completed, Report, Pairing
  <2>3. CASE Load(p) \/ Advance(p)
    BY <1>1, <2>3 DEF Load, Advance, Report, Pairing
  <2>4. CASE Release(p) \/ Settle(p) \/ Rollback(p) \/ LinkRecords(p) \/ LinkManifest(p)
    BY <1>1, <2>4 DEF Release, Settle, Rollback, LinkRecords, LinkManifest, Raise, Pairing,
          Completed
  <2>5. CASE ~(Generate(p) \/ Complete(p) \/ Load(p) \/ Advance(p) \/ Release(p) \/ Settle(p)
               \/ Rollback(p) \/ LinkRecords(p) \/ LinkManifest(p))
    <3>1. have' = have /\ target' = target
      BY <2>5 DEF Causes
    <3>2. ASSUME target[p] = Final
          PROVE  Validate(p) \/ OpenPair(p) \/ Crash(p)
      BY <1>1, <2>5, <3>2 DEF Act, Step, Acquire, Develop, Publish, Pairing, Start,
            RequireNewTargets, InitializeContract, CreateLock, WriteLock, ReadLock, CheckOwner,
            UnlinkStale, Interrupt
    <3> QED
      BY <1>1, <3>1, <3>2 DEF Validate, OpenPair, Crash, Raise, Pairing, Completed
  <2> QED
    BY <2>1, <2>2, <2>3, <2>4, <2>5
<1>6. Bound(p)'
  <2>1. CASE InitializeContract(p)
    BY <2>1 DEF InitializeContract, Alone
  <2>2. CASE ~InitializeContract(p)
    <3>1. contract' = contract
      BY <2>2 DEF Causes
    <3>2. pc'[p] \notin {"idle", "targets", "contract", "failed", "dead"} =>
          pc[p] \notin {"idle", "targets", "contract", "failed", "dead"}
      BY <2>2 DEF Act, Step, Acquire, Develop, Publish, Start, RequireNewTargets, CreateLock,
            WriteLock, ReadLock, CheckOwner, UnlinkStale, Load, Generate, Interrupt, Advance,
            Complete, Release, Validate, OpenPair, LinkRecords, LinkManifest, Settle, Rollback,
            Crash, Pairing
    <3> QED
      BY <1>1, <3>1, <3>2 DEF Alone
  <2> QED
    BY <2>1, <2>2
<1>7. Tried(p)'
  <2>1. CASE UnlinkStale(p)
    BY <1>1, <2>1 DEF UnlinkStale
  <2>2. CASE ~UnlinkStale(p)
    <3>1. tries' = tries
      BY <2>2 DEF Causes
    <3>2. pc'[p] \in {"targets", "contract", "lock", "read_lock", "check_owner", "unlink_stale"} =>
          pc[p] \in {"idle", "targets", "contract", "lock", "read_lock", "check_owner"}
      BY <2>2 DEF Arrivals, RequireNewTargets, ReadLock, Start, InitializeContract, CreateLock,
            CheckOwner
    <3> QED
      BY <1>1, <3>1, <3>2 DEF Arrivals
  <2> QED
    BY <2>1, <2>2
<1> QED
  BY <1>3, <1>4, <1>5, <1>6, <1>7 DEF PlaceInv

\* On one pair one live run at a time, in the order of the two links.
LEMMA PairStep ==
    ASSUME TypeOK, TypeOK', PlaceInv, PairInv, NEW p \in Run, Act(p)
    PROVE  PairInv'
<1> USE Frame DEF TypeOK, Goto
<1> DEFINE Linked(q) ==
      /\ pc[q] = "link_records" => records[target[q]] = Absent
      /\ pc[q] \in {"link_records", "link_manifest"} => manifest[target[q]] = Absent
      /\ pc[q] \in Moving \ {"link_records"} =>
            records[target[q]] # Absent /\ records[target[q]].rows = Payload(q)
      /\ pc[q] = "settle" => manifest[target[q]] = FileOf(q)
      /\ pc[q] = "rollback" => manifest[target[q]] \in {Absent, FileOf(q)}
<1>1. /\ \A q \in Run : Linked(q)
      /\ \A q, r \in Run :
            pc[q] \in Moving /\ pc[r] \in Moving /\ target[q] = target[r] => q = r
  BY DEF PairInv
<1>2. \A q \in Run : pc[q] \in Moving => target[q] \in Slot
  BY DEF PlaceInv, Moving
<1>3. ASSUME NEW q \in Run, q # p
      PROVE  Linked(q)'
  <2>1. pc'[q] = pc[q] /\ target'[q] = target[q] /\ have'[q] = have[q]
    BY <1>3 DEF Alone
  <2>2. Payload(q)' = Payload(q) /\ FileOf(q)' = FileOf(q)
    BY <2>1 DEF Payload, FileOf
  <2>3. ASSUME pc[q] \in Moving
        PROVE  records'[target[q]] = records[target[q]] /\ manifest'[target[q]] = manifest[target[q]]
    BY <1>1, <1>2, <1>3, <2>3, OnlyTarget
  <2> QED
    BY <1>1, <2>1, <2>2, <2>3 DEF Moving, Pairing
<1>4. Linked(p)'
  <2>1. CASE pc'[p] \notin Moving
    BY <2>1 DEF Moving, Pairing
  <2>2. CASE OpenPair(p)
    <3>1. target[p] \in Slot /\ Payload(p)' = Payload(p)
      BY <2>2 DEF OpenPair, PlaceInv, Pairing, Payload, disk
    <3> QED
      BY <2>2, <3>1 DEF OpenPair, Orphan, Raise, disk, Moving, Pairing
  <2>3. CASE LinkRecords(p)
    <3>1. target[p] \in Slot /\ Payload(p)' = Payload(p)
      BY <1>2, <2>3 DEF LinkRecords, Moving, Pairing, Payload
    <3>2. FileOf(p) # Absent /\ FileOf(p).rows = Payload(p)
      BY <3>1, PayloadType
    <3> QED
      BY <1>1, <2>3, <3>1, <3>2 DEF LinkRecords, Raise, Moving, Pairing
  <2>4. CASE LinkManifest(p)
    <3>1. target[p] \in Slot /\ Payload(p)' = Payload(p) /\ FileOf(p)' = FileOf(p)
      BY <1>2, <2>4 DEF LinkManifest, Moving, Pairing, Payload, FileOf
    <3> QED
      BY <1>1, <2>4, <3>1 DEF LinkManifest, Moving, Pairing
  <2>5. CASE Settle(p)
    <3>1. Payload(p)' = Payload(p) /\ FileOf(p)' = FileOf(p)
      BY <2>5 DEF Settle, Payload, FileOf
    <3> QED
      BY <1>1, <2>5, <3>1 DEF Settle, Raise, disk, Moving, Pairing
  <2> QED
    BY <2>1, <2>2, <2>3, <2>4, <2>5 DEF Arrivals
<1>5. ASSUME NEW q \in Run, q # p, pc'[p] \in Moving, pc'[q] \in Moving,
             target'[p] = target'[q]
      PROVE  FALSE
  <2>1. pc[q] \in Moving /\ target[q] = target'[q]
    BY <1>5 DEF Alone
  <2>2. target'[p] = target[p]
    BY <1>5 DEF Arrivals, OpenPair, LinkRecords, LinkManifest, Settle
  <2>3. pc[p] \in Moving \/ ~PairBusy(p)
    BY <1>5 DEF Arrivals, OpenPair, LinkRecords, LinkManifest, Settle, Raise, Moving, Pairing
  <2> QED
    BY <1>1, <1>5, <2>1, <2>2, <2>3 DEF PairBusy, Moving
<1>6. \A q, r \in Run :
         pc'[q] \in Moving /\ pc'[r] \in Moving /\ target'[q] = target'[r] => q = r
  BY <1>1, <1>5 DEF Alone
<1> QED
  BY <1>3, <1>4, <1>6 DEF PairInv

\* The records of an attempt hold rows of its chunk.
LEMMA RowsStep ==
    ASSUME TypeOK, PlaceInv, RowsInv, NEW p \in Run, Act(p)
    PROVE  RowsInv'
<1> SUFFICES ASSUME NEW c \in Chunk, NEW n \in Number, records'[<<c, n>>] # Absent
             PROVE  records'[<<c, n>>].rows[c] # Nobody
  BY DEF RowsInv
<1>1. <<c, n>> \in Slot
  BY SlotFacts
<1>2. CASE records'[<<c, n>>] = records[<<c, n>>]
  BY <1>2 DEF RowsInv
<1>3. CASE LinkRecords(p) /\ target[p] = <<c, n>>
  <2>1. FileOf(p).rows = Payload(p) /\ Payload(p)[c] = p
    BY <1>1, <1>3, PayloadType
  <2>2. records'[<<c, n>>] = FileOf(p) \/ records'[<<c, n>>] = records[<<c, n>>]
    BY <1>1, <1>3 DEF LinkRecords, TypeOK
  <2> QED
    BY <1>2, <2>1, <2>2, NobodyAssumption
<1>4. CASE Rollback(p) /\ target[p] = <<c, n>>
  BY <1>1, <1>4 DEF Rollback, TypeOK, RowsInv
<1> QED
  BY <1>1, <1>2, <1>3, <1>4, Frame DEF Causes, LinkRecords, Rollback, TypeOK

\* Manifests are written for the contract of the directory only.
LEMMA ContractStep ==
    ASSUME TypeOK, PlaceInv, OneContract, NEW p \in Run, Act(p)
    PROVE  OneContract'
<1> SUFFICES ASSUME NEW s \in Slot, manifest'[s] # Absent
             PROVE  wanted'[manifest'[s].owner] = contract'
  BY DEF OneContract
<1>1. wanted' = wanted
  BY Frame DEF Alone
<1>2. CASE manifest[s] # Absent /\ manifest'[s] = manifest[s]
  <2>1. wanted[manifest[s].owner] = contract /\ wanted[manifest[s].owner] \in Contract
    BY <1>2 DEF OneContract, TypeOK, File
  <2>2. contract' = contract
    BY <2>1, Frame, AbsentAssumption DEF Causes, InitializeContract
  <2> QED
    BY <1>1, <1>2, <2>1, <2>2
<1>3. CASE ~(manifest[s] # Absent /\ manifest'[s] = manifest[s])
  <2>1. LinkManifest(p) /\ manifest'[s] = FileOf(p)
    BY <1>3, Frame DEF Causes, LinkManifest, Rollback, TypeOK
  <2>2. contract' = contract /\ wanted[p] = contract
    BY <2>1 DEF LinkManifest, PlaceInv
  <2> QED
    BY <1>1, <2>1, <2>2 DEF FileOf
<1> QED
  BY <1>2, <1>3

(***************************************************************************)
(* The resume lock                                                         *)
(***************************************************************************)
\* A fresh lock file is a lock file.
LEMMA LockFile ==
    ASSUME NEW p \in Run
    PROVE  [owner |-> p, written |-> FALSE] \in Lock /\ [owner |-> p, written |-> FALSE] # Absent
<1>1. [owner |-> p, written |-> FALSE] \in Lock
  BY DEF Lock
<1> QED
  BY <1>1, AbsentAssumption

\* A run in the ledger owns the lock, unless a live lock was unlinked.
LEMMA LockStep ==
    ASSUME TypeOK, TypeOK', PlaceInv, LockInv, NEW p \in Run, Act(p)
    PROVE  LockInv'
<1> SUFFICES ASSUME ~stolen', NEW q \in Run, InLedger(q)'
             PROVE  lock' # Absent /\ lock'.owner = q
  BY DEF LockInv
<1> USE Frame DEF TypeOK, Goto
<1>1. ~stolen
  BY DEF Causes, WriteLock, UnlinkStale, RemoveLock
<1>2. CASE CreateLock(p) /\ lock = Absent
  <2>1. q = p
    BY <1>1, <1>2 DEF LockInv, Alone, InLedger
  <2> QED
    <3>1. [owner |-> p, written |-> FALSE] # Absent
      BY LockFile
    <3> QED
      BY <1>2, <2>1, <3>1 DEF CreateLock
<1>3. CASE ~(CreateLock(p) /\ lock = Absent)
  <2>1. InLedger(q)
    <3>1. CASE q # p
      BY <3>1 DEF Alone, InLedger
    <3>2. CASE q = p
      <4>1. CASE pc'[p] \in {"write_lock", "load", "generate", "release", "release_failed"}
        BY <1>3, <3>2, <4>1 DEF InLedger, Arrivals, Working, CreateLock, WriteLock, Load, Advance,
              Complete, Interrupt, Report
      <4>2. CASE pc'[p] \in {"advance", "interrupt"}
        BY <3>2, <4>2 DEF InLedger, Arrivals, Working, Pairing, Settle, Generate, OpenPair,
              LinkRecords, Rollback, Raise
      <4>3. CASE pc'[p] \in Pairing /\ target'[p] # Final
        BY <3>2, <4>3 DEF InLedger, Arrivals, Working, Pairing, Moving, Settle, Generate, OpenPair,
              LinkRecords, LinkManifest, Validate, PlaceInv
      <4> QED
        BY <3>2, <4>1, <4>2, <4>3 DEF InLedger, Working
    <3> QED
      BY <3>1, <3>2
  <2>2. lock # Absent /\ lock.owner = q
    BY <1>1, <2>1 DEF LockInv
  <2>3. CASE lock' = lock
    BY <2>2, <2>3
  <2>4. CASE WriteLock(p)
    <3>1. Alive(q)
      BY <2>1 DEF InLedger, Alive, Working, Pairing
    <3>2. pc'[p] = "failed" => p # q
      BY DEF InLedger, Working, Pairing
    <3>3. pc'[p] # "failed" => lock' = [lock EXCEPT !.written = TRUE] \/ lock' = lock
      BY <2>4 DEF WriteLock
    <3>4. [lock EXCEPT !.written = TRUE] # Absent /\ [lock EXCEPT !.written = TRUE].owner = lock.owner
      BY <2>2, AbsentAssumption DEF Lock
    <3>5. pc'[p] # "failed"
      BY <2>2, <2>4, <3>1, <3>2 DEF WriteLock, RemoveLock
    <3> QED
      BY <2>2, <3>3, <3>4, <3>5
  <2>5. CASE UnlinkStale(p)
    <3>1. Alive(q) /\ p # q
      BY <2>1, <2>5 DEF InLedger, Alive, Working, Pairing, UnlinkStale
    <3> QED
      BY <2>2, <2>5, <3>1 DEF UnlinkStale, RemoveLock
  <2>6. CASE Release(p)
    <3>1. p # q
      BY <2>6 DEF InLedger, Working, Pairing, Release
    <3> QED
      BY <2>2, <2>6, <3>1 DEF Release
  <2> QED
    BY <1>3, <2>2, <2>3, <2>4, <2>5, <2>6 DEF Causes, CreateLock
<1> QED
  BY <1>2, <1>3

\* The owner of the lock is the only run in the ledger.
LEMMA OneInLedger == LockInv => LedgerExcludes
  BY DEF LockInv, LedgerExcludes

(***************************************************************************)
(* Attempts                                                                *)
(***************************************************************************)
\* An attempt is what it was unless p is moving on it.
LEMMA SameAttempt ==
    ASSUME TypeOK, NEW p \in Run, Act(p), NEW s \in Slot, pc[p] \in Moving => target[p] # s
    PROVE  /\ records'[s] = records[s]
           /\ Attested(s)' <=> Attested(s)
           /\ Sound(s)' <=> Sound(s)
<1>1. /\ records'[s] = records[s]
      /\ manifest'[s] = manifest[s]
      /\ s \in damaged' <=> s \in damaged
  BY OnlyTarget
<1> QED
  BY <1>1 DEF Attested, Sound

\* No step touches a kept attempt, and no run starts to work on it.
LEMMA KeptStays ==
    ASSUME TypeOK, PlaceInv, NEW p \in Run, Act(p), NEW s \in ChunkSlot, Kept(s)
    PROVE  Kept(s)' /\ records'[s] = records[s]
<1>1. s \in Slot /\ s # Final
  BY SlotFacts
<1>2. pc[p] \in Moving => target[p] # s
  BY DEF Kept, Moving
<1>3. records'[s] = records[s] /\ Attested(s)'
  BY <1>1, <1>2, SameAttempt DEF Kept
<1>4. ASSUME NEW q \in Run, pc'[q] \in Pairing, target'[q] = s
      PROVE  FALSE
  <2>1. q = p
    BY <1>4, Frame DEF Alone, Kept
  <2>2. CASE Generate(p)
    <3>1. PICK c \in Chunk, n \in Number : NextAttempt(n, c) /\ s = <<c, n>>
      BY <1>4, <2>1, <2>2 DEF Generate, Missing, TypeOK, Goto, Pairing
    <3>2. Attested(<<c, n>>)
      BY <3>1 DEF Kept
    <3> QED
      BY <3>1, <3>2 DEF NextAttempt, Attested, Number
  <2>3. CASE ~Generate(p)
    <3>1. pc[p] \in Pairing \/ Validate(p)
      BY <1>4, <2>1, <2>3, Frame DEF Arrivals, Moving, Pairing, OpenPair, LinkRecords, LinkManifest,
            Settle
    <3>2. target'[p] = target[p]
      BY <1>4, <2>1, <2>3, Frame DEF Causes, Complete, Report, TypeOK, Goto, Pairing
    <3> QED
      BY <1>1, <1>4, <2>1, <3>1, <3>2 DEF Kept, Validate, PlaceInv
  <2> QED
    BY <2>2, <2>3
<1> QED
  BY <1>3, <1>4 DEF Kept

\* With the lock and no pair of its own, a run sees only finished attempts.
LEMMA KeptWhileLocked ==
    ASSUME LockInv, ~stolen, NEW p \in Run, InLedger(p), pc[p] \notin Pairing,
           NEW s \in ChunkSlot, Attested(s)
    PROVE  Kept(s)
<1>1. s # Final
  BY SlotFacts
<1> QED
  BY <1>1 DEF Kept, LockInv, InLedger

\* A published attempt stays until its run has counted it.
LEMMA AdvanceStep ==
    ASSUME TypeOK, PlaceInv, PairInv, LockInv, LockInv', AdvanceInv, NEW p \in Run, Act(p)
    PROVE  AdvanceInv'
<1> SUFFICES ASSUME ~stolen', NEW q \in Run, pc'[q] = "advance"
             PROVE  Attested(target[q])' /\ records'[target'[q]].rows[target'[q][1]] = q
  BY DEF AdvanceInv
<1> USE Frame
<1>1. ~stolen
  BY DEF Causes, WriteLock, UnlinkStale, RemoveLock, TypeOK
<1>2. CASE q # p
  <2>1. pc[q] = "advance" /\ target'[q] = target[q] /\ target[q] \in ChunkSlot
    BY <1>2 DEF Alone, PlaceInv
  <2>2. Attested(target[q]) /\ records[target[q]].rows[target[q][1]] = q
    BY <1>1, <2>1 DEF AdvanceInv
  <2>3. pc[p] \in Moving => target[p] # target[q]
    BY <1>1, <1>2, <2>1, SlotFacts DEF LockInv, InLedger, Moving, Working
  <2> QED
    BY <2>1, <2>2, <2>3, SlotFacts, SameAttempt DEF Attested
<1>3. CASE q = p
  <2>1. Settle(p)
    BY <1>3 DEF Arrivals
  <2>2. target[p] \in Slot /\ target[p] # Final /\ pc[p] = "settle" /\ UNCHANGED <<records, manifest, target>>
    BY <1>3, <2>1 DEF Settle, PlaceInv, Pairing, disk, Goto, Raise, TypeOK
  <2>3. /\ records[target[p]] # Absent
        /\ records[target[p]].rows = Payload(p)
        /\ manifest[target[p]] = FileOf(p)
    BY <2>2 DEF PairInv, Moving, Pairing
  <2>4. FileOf(p) # Absent /\ FileOf(p).rows = Payload(p)
    BY <2>2, PayloadType
  <2>5. Payload(p)[target[p][1]] = p
    <3>1. target[p][1] \in Chunk /\ target[p][2] \in Number /\ target[p] = <<target[p][1], target[p][2]>>
      BY <2>2, SlotFacts
    <3> QED
      BY <2>2, <3>1, PayloadType
  <2> QED
    BY <1>3, <2>2, <2>3, <2>4, <2>5 DEF Attested
<1> QED
  BY <1>2, <1>3

\* What a run counts as done is a kept attempt.
LEMMA HeldStep ==
    ASSUME TypeOK, PlaceInv, LockInv, HeldInv, AdvanceInv, NEW p \in Run, Act(p)
    PROVE  HeldInv'
<1> SUFFICES ASSUME ~stolen', NEW q \in Run, NEW c \in Completed(q)'
             PROVE  \E n \in Number : Kept(<<c, n>>)' /\ records'[<<c, n>>].rows[c] = have'[q][c]
  BY DEF HeldInv
<1> USE Frame
<1>1. ~stolen
  BY DEF Causes, WriteLock, UnlinkStale, RemoveLock, TypeOK
<1>2. c \in Chunk /\ have'[q][c] # Nobody
  BY DEF Completed
<1>3. SUFFICES \E n \in Number : Kept(<<c, n>>) /\ records[<<c, n>>].rows[c] = have'[q][c]
  BY <1>2, <1>3, SlotFacts, KeptStays
<1>4. CASE have'[q][c] = have[q][c]
  BY <1>1, <1>2, <1>4 DEF HeldInv, Completed
<1>5. CASE have'[q][c] # have[q][c]
  <2>1. q = p /\ (Load(p) \/ Advance(p))
    BY <1>5 DEF Alone, Causes
  <2>2. CASE Load(p)
    <3>1. PICK rows \in Rows : Recovered(rows, p) /\ have' = [have EXCEPT ![p] = rows]
      BY <1>5, <2>2 DEF Load, Report
    <3>2. have'[q][c] = rows[c]
      BY <2>1, <3>1 DEF TypeOK
    <3>3. PICK n \in Newest(c, p) : rows[c] = records[<<c, n>>].rows[c]
      BY <1>2, <3>1, <3>2 DEF Recovered
    <3>4. n \in Number /\ Attested(<<c, n>>)
      BY <3>3 DEF Newest, Verified, Attested
    <3>5. InLedger(p) /\ pc[p] \notin Pairing
      BY <2>2 DEF Load, InLedger, Working, Pairing
    <3>6. Kept(<<c, n>>)
      BY <1>1, <1>2, <3>4, <3>5, SlotFacts, KeptWhileLocked
    <3> QED
      BY <3>2, <3>3, <3>4, <3>6
  <2>3. CASE Advance(p)
    <3>1. target[p] \in ChunkSlot /\ pc[p] = "advance"
      BY <2>3 DEF Advance, PlaceInv
    <3>2. c = target[p][1] /\ have'[q][c] = p
      <4>1. target[p][1] \in Chunk
        BY <3>1, SlotFacts
      <4>2. have' = [have EXCEPT ![p] = [have[p] EXCEPT ![target[p][1]] = p]]
        BY <2>3 DEF Advance
      <4>3. have[p] \in Rows
        BY DEF TypeOK
      <4> QED
        BY <1>2, <1>5, <2>1, <4>1, <4>2, <4>3 DEF TypeOK, Rows
    <3>3. Attested(target[p]) /\ records[target[p]].rows[c] = p
      BY <1>1, <3>1, <3>2 DEF AdvanceInv
    <3>4. Kept(target[p])
      BY <1>1, <3>1, <3>3, KeptWhileLocked DEF InLedger, Working, Pairing
    <3> QED
      BY <3>1, <3>2, <3>3, <3>4, SlotFacts
  <2> QED
    BY <2>1, <2>2, <2>3
<1> QED
  BY <1>4, <1>5

\* What the progress file counts is kept.
LEMMA ProgressStep ==
    ASSUME TypeOK, TypeOK', PlaceInv, HeldInv', ProgressInv, NEW p \in Run, Act(p)
    PROVE  ProgressInv'
<1> SUFFICES ASSUME ~stolen', progress' # Absent, NEW c \in progress'.completed
             PROVE  \E n \in Number : Kept(<<c, n>>)'
  BY DEF ProgressInv
<1> USE Frame
<1>1. ~stolen
  BY DEF Causes, WriteLock, UnlinkStale, RemoveLock, TypeOK
<1>2. c \in Chunk
  BY DEF TypeOK, Progress
<1>3. CASE progress' = progress
  BY <1>1, <1>2, <1>3, SlotFacts, KeptStays DEF ProgressInv
<1>4. CASE progress' # progress
  <2>1. c \in Completed(p)'
    <3>1. CASE Load(p)
      BY <1>4, <3>1 DEF Load, Report, WriteProgress, Completed, TypeOK
    <3>2. CASE Interrupt(p)
      BY <1>4, <3>2 DEF Interrupt, Report, WriteProgress, Completed
    <3>3. CASE Advance(p)
      <4>1. c \in Completed(p) \cup {target[p][1]}
        BY <1>4, <3>3 DEF Advance, Report, WriteProgress
      <4>2. have' = [have EXCEPT ![p] = [have[p] EXCEPT ![target[p][1]] = p]] /\ have[p] \in Rows
        BY <3>3 DEF Advance, TypeOK
      <4>3. have'[p][c] # Nobody
        BY <1>2, <4>1, <4>2, NobodyAssumption DEF Completed, TypeOK, Rows
      <4> QED
        BY <1>2, <4>3 DEF Completed
    <3>4. CASE Complete(p)
      BY <1>2, <1>4, <3>4 DEF Complete, Report, Missing, Completed
    <3> QED
      BY <1>4, <3>1, <3>2, <3>3, <3>4 DEF Causes
  <2> QED
    BY <2>1 DEF HeldInv
<1> QED
  BY <1>3, <1>4

\* An attempt becomes sound only under a run in the ledger that is linking it.
LEMMA SoundStep ==
    ASSUME TypeOK, PlaceInv, NEW p \in Run, Act(p), NEW c \in Chunk, NEW n \in Number,
           Sound(<<c, n>>)'
    PROVE  \/ Sound(<<c, n>>)
           \/ pc[p] \in Pairing /\ target[p] = <<c, n>> /\ target[p] # Final /\ c \in Missing(p)
<1>1. <<c, n>> \in Slot /\ <<c, n>> # Final /\ <<c, n>>[1] = c
  BY SlotFacts
<1> QED
  BY <1>1, SameAttempt DEF Moving, PlaceInv

\* Past the recovery a missing chunk has no sound attempt of another run.
LEMMA FreshStep ==
    ASSUME TypeOK, TypeOK', PlaceInv, PlaceInv', RowsInv, OneContract, LockInv, FreshInv,
           NEW p \in Run, Act(p)
    PROVE  FreshInv'
<1> DEFINE After(q) ==
      pc[q] \in {"generate", "advance"} \/ (pc[q] \in Pairing /\ target[q] # Final)
<1> SUFFICES ASSUME ~stolen', NEW q \in Run, After(q)', NEW c \in Missing(q)', NEW n \in Number,
                    Sound(<<c, n>>)'
             PROVE  pc'[q] # "generate" /\ target'[q] = <<c, n>>
  BY DEF FreshInv
<1> USE Frame
<1>1. ~stolen
  BY DEF Causes, WriteLock, UnlinkStale, RemoveLock, TypeOK
<1>2. c \in Chunk
  BY DEF Missing
<1>3. \A r \in Run : After(r) /\ c \in Missing(r) /\ Sound(<<c, n>>) =>
        pc[r] # "generate" /\ target[r] = <<c, n>>
  BY <1>1 DEF FreshInv
<1>4. CASE q # p
  <2>1. After(q) /\ c \in Missing(q) /\ pc'[q] = pc[q] /\ target'[q] = target[q]
    BY <1>4 DEF Alone, Missing, Completed
  <2>2. ~(pc[p] \in Pairing /\ target[p] # Final)
    BY <1>1, <1>4, <2>1 DEF LockInv, InLedger, Working
  <2>3. Sound(<<c, n>>)
    BY <1>2, <2>2, SoundStep
  <2> QED
    BY <1>3, <2>1, <2>3
<1>5. CASE q = p /\ Load(p)
  <2>1. PICK rows \in Rows : Recovered(rows, p) /\ have' = [have EXCEPT ![p] = rows]
    BY <1>5 DEF Load, Report, Goto, TypeOK, Pairing
  <2>2. rows[c] = Nobody
    BY <1>2, <1>5, <2>1 DEF Missing, Completed, TypeOK
  <2>3. Sound(<<c, n>>)
    BY <1>2, <1>5, SoundStep DEF Load, Pairing
  <2>4. Verified(<<c, n>>, p)
    <3>1. contract = wanted[p]
      BY <1>5 DEF Load, PlaceInv
    <3> QED
      BY <1>2, <2>3, <3>1, SlotFacts DEF Sound, Attested, Verified, OneContract
  <2>5. \A m \in Newest(c, p) : rows[c] # records[<<c, m>>].rows[c]
    BY <1>2, <2>2 DEF Newest, Verified, RowsInv
  <2> QED
    BY <1>2, <2>1, <2>4, <2>5 DEF Recovered
<1>6. CASE q = p /\ Advance(p)
  <2>1. target[p] \in ChunkSlot /\ pc[p] = "advance" /\ have' = [have EXCEPT ![p] = [have[p] EXCEPT ![target[p][1]] = p]]
    BY <1>6 DEF Advance, PlaceInv
  <2>2. target[p][1] \in Chunk /\ have[p] \in Rows
    BY <2>1, SlotFacts DEF TypeOK
  <2>3. c \in Missing(p) /\ c # target[p][1]
    BY <1>2, <1>6, <2>1, <2>2, NobodyAssumption DEF Missing, Completed, TypeOK, Rows
  <2>4. Sound(<<c, n>>)
    BY <1>2, <2>1, SoundStep DEF Pairing
  <2> QED
    BY <1>3, <2>1, <2>3, <2>4
<1>7. CASE q = p /\ ~Load(p) /\ ~Advance(p)
  <2>1. c \in Missing(p)
    BY <1>7 DEF Causes, Missing, Completed
  <2>2. /\ pc'[p] # "generate"
        /\ After(p)
    BY <1>7, SlotFacts DEF Arrivals, Settle, Generate, Validate, OpenPair, LinkRecords, LinkManifest,
       Pairing, Moving, PlaceInv
  <2>3. CASE Generate(p)
    <3>1. pc[p] = "generate"
      BY <2>3 DEF Generate
    <3> QED
      BY <1>2, <1>3, <2>1, <2>2, <3>1, SoundStep DEF Pairing
  <2>4. CASE ~Generate(p)
    <3>1. target'[p] = target[p]
      BY <1>7, <2>4, PlaceInv' DEF Causes, Complete, Report, Goto, TypeOK, Pairing
    <3> QED
      BY <1>2, <1>3, <1>7, <2>1, <2>2, <3>1, SoundStep
  <2> QED
    BY <2>3, <2>4
<1> QED
  BY <1>4, <1>5, <1>6, <1>7

\* A chunk with a sound attempt gets no second one.
LEMMA OnceStep ==
    ASSUME TypeOK, PlaceInv, FreshInv, GeneratedOnce, NEW p \in Run, Act(p)
    PROVE  GeneratedOnce'
<1> SUFFICES ASSUME ~stolen', NEW c \in Chunk, NEW m \in Number, NEW n \in Number,
                    Sound(<<c, m>>)', Sound(<<c, n>>)'
             PROVE  m = n
  BY DEF GeneratedOnce, Sound
<1>1. ~stolen
  BY Frame DEF Causes, WriteLock, UnlinkStale, RemoveLock, TypeOK
<1>2. CASE Sound(<<c, m>>) /\ Sound(<<c, n>>)
  BY <1>1, <1>2 DEF GeneratedOnce, Sound
<1>3. ASSUME NEW i \in Number, NEW j \in Number, ~Sound(<<c, i>>), Sound(<<c, i>>)', Sound(<<c, j>>)'
      PROVE  i = j
  <2>1. pc[p] \in Pairing /\ target[p] = <<c, i>> /\ target[p] # Final /\ c \in Missing(p)
    BY <1>3, SoundStep
  <2>2. Sound(<<c, j>>) => target[p] = <<c, j>>
    BY <1>1, <2>1 DEF FreshInv
  <2>3. ~Sound(<<c, j>>) => target[p] = <<c, j>>
    BY <1>3, SoundStep
  <2> QED
    BY <2>1, <2>2, <2>3
<1> QED
  BY <1>2, <1>3

\* The final pair is made of kept attempts.
LEMMA FinalStep ==
    ASSUME TypeOK, PlaceInv, PairInv, HeldInv, FinalInv, NEW p \in Run, Act(p)
    PROVE  FinalInv'
<1> SUFFICES ASSUME ~stolen', manifest'[Final] # Absent
             PROVE  /\ Attested(Final)'
                    /\ \A c \in Chunk : \E n \in Number :
                          Kept(<<c, n>>)' /\ records'[<<c, n>>].rows[c] = records'[Final].rows[c]
  BY DEF FinalInv
<1>1. ~stolen
  BY Frame DEF Causes, WriteLock, UnlinkStale, RemoveLock, TypeOK
<1>2. SUFFICES /\ Attested(Final)'
               /\ \A c \in Chunk : \E n \in Number :
                     Kept(<<c, n>>) /\ records[<<c, n>>].rows[c] = records'[Final].rows[c]
  BY <1>2, SlotFacts, KeptStays
<1>3. CASE manifest'[Final] = manifest[Final] /\ records'[Final] = records[Final]
  BY <1>1, <1>3 DEF FinalInv, Attested
<1>4. CASE ~(manifest'[Final] = manifest[Final] /\ records'[Final] = records[Final])
  <2>1. pc[p] \in Moving /\ target[p] = Final
    BY <1>4, SlotFacts, OnlyTarget
  <2>2. LinkManifest(p)
    <3>1. ~LinkRecords(p)
      BY <1>4, <2>1 DEF LinkRecords, PairInv
    <3>2. ~Rollback(p)
      BY <2>1, SlotFacts, PayloadType DEF Rollback, PairInv, Mine, TypeOK
    <3> QED
      BY <1>4, <3>1, <3>2, Frame DEF Causes
  <2>3. /\ manifest'[Final] = FileOf(p)
        /\ records'[Final] = records[Final]
        /\ records[Final] # Absent
        /\ records[Final].rows = Payload(p)
    BY <1>4, <2>1, <2>2, SlotFacts DEF LinkManifest, PairInv, Moving, Pairing, TypeOK
  <2>4. FileOf(p) # Absent /\ FileOf(p).rows = Payload(p) /\ Payload(p) = have[p]
    BY <2>1, SlotFacts, PayloadType DEF Payload
  <2>5. \A c \in Chunk : \E n \in Number : Kept(<<c, n>>) /\ records[<<c, n>>].rows[c] = have[p][c]
    BY <1>1, <2>1 DEF HeldInv, PlaceInv
  <2> QED
    BY <2>3, <2>4, <2>5 DEF Attested
<1> QED
  BY <1>3, <1>4

(***************************************************************************)
(* The invariant, and the properties it carries                            *)
(***************************************************************************)
\* Nothing exists yet and no run has started.
LEMMA InvInit == Init => Inv
<1> SUFFICES ASSUME Init
             PROVE  Inv
  OBVIOUS
<1> USE DEF Init
<1>1. TypeOK
  <2>1. NoRows \in Rows /\ faults \in 0..MaxFaults /\ "idle" \in Labels
    BY SlotFacts, BoundsAssumption DEF Labels
  <2>2. /\ contract \in Contract \cup {Absent}
        /\ lock \in Lock \cup {Absent}
        /\ progress \in Progress \cup {Absent}
        /\ damaged \subseteq Slot
        /\ stolen \in BOOLEAN
    OBVIOUS
  <2>3. /\ records \in [Slot -> File \cup {Absent}]
        /\ manifest \in [Slot -> File \cup {Absent}]
    OBVIOUS
  <2>4. /\ wanted \in [Run -> Contract]
        /\ pc \in [Run -> Labels]
        /\ seen \in [Run -> Run \cup {Absent}]
        /\ tries \in [Run -> 0..2]
        /\ have \in [Run -> Rows]
        /\ target \in [Run -> Slot \cup {Absent}]
    BY <2>1
  <2> QED
    BY <2>1, <2>2, <2>3, <2>4 DEF TypeOK
<1>2. \A p \in Run : Completed(p) = {} /\ target[p] # Final
  BY SlotFacts DEF Completed, NoRows
<1>3. PlaceInv /\ PairInv
  BY <1>2 DEF PlaceInv, PairInv, Pairing, Moving
<1>4. \A s \in Slot : ~Attested(s)
  BY DEF Attested
<1>5. RowsInv /\ OneContract /\ LockInv /\ AdvanceInv
  BY SlotFacts DEF RowsInv, OneContract, LockInv, AdvanceInv, InLedger, Working, Pairing
<1>6. HeldInv /\ ProgressInv /\ FinalInv
  <2>1. HeldInv
    BY <1>2 DEF HeldInv
  <2>2. ProgressInv
    BY DEF ProgressInv
  <2>3. FinalInv
    BY SlotFacts DEF FinalInv
  <2> QED
    BY <2>1, <2>2, <2>3
<1>7. FreshInv /\ GeneratedOnce
  <2>1. \A c \in Chunk, n \in Number : ~Attested(<<c, n>>)
    BY <1>4, SlotFacts
  <2> QED
    BY <2>1 DEF FreshInv, GeneratedOnce, Sound, Missing
<1> QED
  BY <1>1, <1>3, <1>5, <1>6, <1>7 DEF Inv

\* A records file that rots takes nothing from the invariant: only soundness is
\* lost, and no part of the invariant asks for it.
LEMMA DamageStep ==
    ASSUME Inv, Damage, TypeOK'
    PROVE  Inv'
<1> USE DEF Damage
<1>1. PlaceInv' /\ PairInv'
  BY DEF Inv, PlaceInv, PairInv, Completed, Missing, Payload, FileOf
<1>2. RowsInv' /\ OneContract' /\ LockInv'
  BY DEF Inv, RowsInv, OneContract, LockInv, InLedger
<1>3. \A s : (Attested(s)' <=> Attested(s)) /\ (Kept(s)' <=> Kept(s)) /\ (Sound(s)' => Sound(s))
  BY DEF Attested, Kept, Sound
<1>4. HeldInv' /\ AdvanceInv' /\ ProgressInv' /\ FinalInv'
  BY <1>3 DEF Inv, HeldInv, AdvanceInv, ProgressInv, FinalInv, Completed, Attested
<1>5. FreshInv'
  BY <1>3 DEF Inv, FreshInv, Missing, Completed
<1>6. GeneratedOnce'
  BY <1>3 DEF Inv, GeneratedOnce, Sound
<1> QED
  BY <1>1, <1>2, <1>4, <1>5, <1>6 DEF Inv

\* Every step keeps the invariant.
LEMMA InvStep == Inv /\ [Next]_vars => Inv'
<1> SUFFICES ASSUME Inv, [Next]_vars
             PROVE  Inv'
  OBVIOUS
<1>1. TypeOK'
  BY TypeStep DEF Inv
<1>2. ASSUME NEW p \in Run, Act(p)
      PROVE  Inv'
  <2>1. PlaceInv' /\ PairInv' /\ RowsInv' /\ OneContract'
    BY <1>1, <1>2, PlaceStep, PairStep, RowsStep, ContractStep DEF Inv
  <2>2. LockInv'
    BY <1>1, <1>2, LockStep DEF Inv
  <2>3. HeldInv'
    BY <1>2, HeldStep DEF Inv
  <2>4. AdvanceInv' /\ ProgressInv'
    BY <1>1, <1>2, <2>2, <2>3, AdvanceStep, ProgressStep DEF Inv
  <2>5. FreshInv'
    BY <1>1, <1>2, <2>1, FreshStep DEF Inv
  <2>6. GeneratedOnce' /\ FinalInv'
    BY <1>2, OnceStep, FinalStep DEF Inv
  <2> QED
    BY <1>1, <2>1, <2>2, <2>3, <2>4, <2>5, <2>6 DEF Inv
<1>3. CASE Damage
  BY <1>1, <1>3, DamageStep
<1>4. CASE UNCHANGED vars
  <2> USE <1>4 DEF vars, Inv
  <2>1. PlaceInv' /\ PairInv' /\ RowsInv' /\ OneContract' /\ LockInv'
    BY DEF PlaceInv, PairInv, RowsInv, OneContract, LockInv, Completed, Missing, Payload, FileOf,
       InLedger
  <2>2. \A s : (Attested(s)' <=> Attested(s)) /\ (Kept(s)' <=> Kept(s)) /\ (Sound(s)' <=> Sound(s))
    BY DEF Attested, Kept, Sound
  <2>3. HeldInv' /\ AdvanceInv' /\ ProgressInv' /\ FinalInv'
    BY <2>2 DEF HeldInv, AdvanceInv, ProgressInv, FinalInv, Completed, Attested
  <2>4. FreshInv' /\ GeneratedOnce'
    BY <2>2 DEF FreshInv, GeneratedOnce, Missing, Completed, Sound
  <2> QED
    BY <1>1, <2>1, <2>3, <2>4
<1> QED
  BY <1>2, <1>3, <1>4 DEF Next, Act

\* Inv holds in every reachable state, whatever crashed, failed or rotted.
THEOREM Invariance == Spec => []Inv
<1> QED
  BY InvInit, InvStep, PTL DEF Spec

\* Every variable keeps its type.
THEOREM TypeCorrect == Spec => []TypeOK
<1>1. Inv => TypeOK
  BY DEF Inv
<1> QED
  BY <1>1, Invariance, PTL

\* Unless the lock of a live run was unlinked, one run at a time is between the
\* creation of the resume lock and its release.
THEOREM LedgerLockExcludes == Spec => []LedgerExcludes
<1>1. Inv => LedgerExcludes
  BY OneInLedger DEF Inv
<1> QED
  BY <1>1, Invariance, PTL

\* A chunk that verified is never generated again: of the attempts of a chunk at
\* most one is sound.
THEOREM ChunksGeneratedOnce == Spec => []GeneratedOnce
<1>1. Inv => GeneratedOnce
  BY DEF Inv
<1> QED
  BY <1>1, Invariance, PTL

\* The rows a run counts as done stay on disk, under every crash and rollback.
THEOREM RowsPersist == Spec => []HeldRowsPersist
<1>1. Inv => HeldRowsPersist
  BY DEF Inv, HeldInv, HeldRowsPersist, Kept
<1> QED
  BY <1>1, Invariance, PTL

\* Two runs that completed hold the same rows, as long as nothing rotted.
THEOREM CompletedRunsAgree == Spec => []RunsAgree
<1>1. ASSUME Inv
      PROVE  RunsAgree
  <2> SUFFICES ASSUME ~stolen, damaged = {}, NEW p \in Run, NEW q \in Run,
                      target[p] = Final, target[q] = Final
               PROVE  have[p] = have[q]
    BY DEF RunsAgree
  <2>1. ASSUME NEW c \in Chunk
        PROVE  have[p][c] = have[q][c]
    <3>1. c \in Completed(p) /\ c \in Completed(q)
      BY <1>1 DEF Inv, PlaceInv
    <3>2. PICK m \in Number : Kept(<<c, m>>) /\ records[<<c, m>>].rows[c] = have[p][c]
      BY <1>1, <3>1 DEF Inv, HeldInv
    <3>3. PICK n \in Number : Kept(<<c, n>>) /\ records[<<c, n>>].rows[c] = have[q][c]
      BY <1>1, <3>1 DEF Inv, HeldInv
    <3>4. m = n
      BY <1>1, <3>2, <3>3 DEF Inv, GeneratedOnce, Kept
    <3> QED
      BY <3>2, <3>3, <3>4
  <2>2. have[p] \in Rows /\ have[q] \in Rows
    BY <1>1 DEF Inv, TypeOK
  <2> QED
    BY <2>1, <2>2 DEF Rows
<1> QED
  BY <1>1, Invariance, PTL

\* What the progress file reports as completed is attested on disk.
THEOREM ProgressIsHonest == Spec => []ProgressHonest
<1>1. Inv => ProgressHonest
  BY DEF Inv, ProgressInv, ProgressHonest, Kept
<1> QED
  BY <1>1, Invariance, PTL

\* The published final pair consists of rows attested in the ledger.
THEOREM FinalIsFromLedger == Spec => []FinalFromLedger
<1>1. Inv => FinalFromLedger
  BY DEF Inv, FinalInv, FinalFromLedger, Kept
<1> QED
  BY <1>1, Invariance, PTL

\* The baseline has one result, however many runs worked on it.
THEOREM ResultIsOne == Spec => []OneResult
BY CompletedRunsAgree, FinalIsFromLedger, PTL DEF OneResult

\* No manifest was written for another contract than the directory's, stolen
\* lock or not.
THEOREM ContractIsOne == Spec => []OneContract
<1>1. Inv => OneContract
  BY DEF Inv
<1> QED
  BY <1>1, Invariance, PTL
=============================================================================
