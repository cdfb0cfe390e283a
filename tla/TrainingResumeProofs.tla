------------------------ MODULE TrainingResumeProofs ------------------------
(***************************************************************************)
(* The training workspace, for any number of runs, monitors, contracts,    *)
(* outputs and checkpoints: RunInv says of each run what it may rely on    *)
(* where it is.  The steps of the others cannot take it away: Evidence is  *)
(* only ever added, and only the run that holds the flock changes the      *)
(* Trainer directory, which otherwise only loses bytes.                    *)
(***************************************************************************)
EXTENDS TrainingResume, FiniteSetTheorems, WellFoundedInduction, TLAPS

Act(p) == GateRed(p) \/ Start(p) \/ TrainFold(p) \/ Raise(p) \/ Die(p)

(***************************************************************************)
(* The invariant                                                           *)
(***************************************************************************)
Opening == {"open_lock", "flock"}
Resuming == Working \ {"export", "publish", "verify"}
Late == {"resume", "train", "sidecar", "export", "publish", "verify", "complete"}

\* A live run has been called; what happens under the flock is a resumable run.
Called(p) ==
    /\ Alive(p) => call[p] \in Call
    /\ pc[p] \in Opening \cup Resuming => call[p].resume

Bound(p) == Locked(p) /\ pc[p] # "write_lock" => call[p].contract = contract

Begun(p) == Locked(p) /\ pc[p] \in Late => started

\* The adapter a run marks as complete is of its own contract.
Vouched(p) ==
    pc[p] \in {"verify", "complete"} =>
        adapter[Mine(p)] # Absent /\ adapter[Mine(p)].contract = call[p].contract

\* What a run moves aside does not verify.
Aside(p) == pc[p] = "archive" => \A s \in moving[p] : checkpoint[s] \in {"partial", "rotten"}

\* Beyond the checkpoint a run goes on from, the Trainer directory is empty or
\* about to be.
Frontier(p) ==
    /\ pc[p] \in {"archive", "choose", "begin", "resume"} =>
          \A s \in Step : s > newest[p] =>
              checkpoint[s] = "none" \/ (pc[p] = "archive" /\ s \in moving[p])
    /\ pc[p] \in {"train", "sidecar"} => \A s \in Step : s > step[p] => checkpoint[s] = "none"

RunInv(p) == Called(p) /\ Bound(p) /\ Begun(p) /\ Vouched(p) /\ Aside(p) /\ Frontier(p)

\* A monitor that has said "complete" finds the same evidence again.
Confirmed(m) ==
    answer[m] = "complete" =>
        /\ mpc[m] = "idle"
        /\ contract # Absent
        /\ completion # Absent
        /\ BoundTo(completion, contract)

IInv ==
    /\ TypeOK
    /\ OneTrainer
    /\ \A p \in Run : RunInv(p)
    /\ \A m \in Monitor : Confirmed(m)

(***************************************************************************)
(* Checkpoints are numbers                                                 *)
(***************************************************************************)
\* A set of checkpoints has a newest one; without any the training starts over.
LEMMA LatestIs ==
    ASSUME NEW S \in SUBSET Step
    PROVE  /\ Latest(S) \in 0..LastStep
           /\ \A s \in S : s <= Latest(S)
<1>0. \A s \in S : s \in Int /\ 1 <= s /\ s <= LastStep
  BY BoundsAssumption DEF Step
<1>1. CASE S = {}
  BY <1>1, BoundsAssumption DEF Latest
<1>2. CASE S # {}
  <2> DEFINE Above(s) == {t \in S : t > s}
             T == {Above(s) : s \in S}
  <2>1. IsWellFoundedOn(StrictSubsetOrdering(S), SUBSET S)
    <3>1. IsFiniteSet(Step)
      BY BoundsAssumption, FS_Interval DEF Step
    <3>2. IsFiniteSet(S)
      BY <3>1, FS_Subset
    <3> QED
      BY <3>2, FS_StrictSubsetOrderingWellFounded, FS_FiniteSubsetsOfFinite
  <2>2. T \subseteq SUBSET S /\ T # {}
    BY <1>2
  <2> HIDE DEF T
  <2>3. PICK A \in T : \A B \in T : ~(<<B, A>> \in StrictSubsetOrdering(S))
    BY <2>1, <2>2, WFMin
  <2>4. PICK n \in S : A = Above(n)
    BY DEF T
  <2>5. \A t \in S : t <= n
    <3> SUFFICES ASSUME NEW t \in S, t > n PROVE FALSE
      BY <1>0
    <3>1. Above(t) \in T
      BY DEF T
    <3>2. Above(t) \subseteq Above(n) /\ t \in Above(n) /\ t \notin Above(t)
      BY <1>0
    <3>3. <<Above(t), Above(n)>> \in StrictSubsetOrdering(S)
      BY <3>2 DEF StrictSubsetOrdering
    <3> QED
      BY <2>3, <2>4, <3>1, <3>3
  <2>6. Latest(S) \in S /\ \A t \in S : t <= Latest(S)
    BY <1>2, <2>5 DEF Latest
  <2> QED
    BY <2>6, <1>0, BoundsAssumption
<1> QED
  BY <1>1, <1>2

(***************************************************************************)
(* Types                                                                   *)
(***************************************************************************)
\* Binding the contract keeps the types.
LEMMA BindTypes ==
    ASSUME TypeOK, NEW p \in Run, Called(p), Bind(p)
    PROVE  TypeOK'
<1> USE DEF disk, local, Goto, Preparing, Working, Over
<1>1. CASE LookRoot(p)
  BY <1>1 DEF LookRoot, TypeOK
<1>2. CASE MakeRoot(p)
  BY <1>2 DEF MakeRoot, TypeOK
<1>3. CASE LookContract(p)
  BY <1>3 DEF LookContract, TypeOK
<1>4. CASE LookEntries(p)
  BY <1>4 DEF LookEntries, TypeOK
<1>5. CASE WriteTemp(p)
  BY <1>5 DEF WriteTemp, TypeOK
<1>6. CASE LinkContract(p)
  <2>1. call[p].contract \in Contract
    BY <1>6 DEF LinkContract, Called, Alive, Call
  <2> QED
    BY <1>6, <2>1 DEF LinkContract, TypeOK
<1>7. CASE ValidateContract(p)
  BY <1>7 DEF ValidateContract, TypeOK
<1> QED
  BY <1>1, <1>2, <1>3, <1>4, <1>5, <1>6, <1>7 DEF Bind

\* Taking the flock and looking for a published adapter keep the types.
LEMMA AcquireTypes ==
    ASSUME TypeOK, NEW p \in Run, CheckOutput(p) \/ Acquire(p)
    PROVE  TypeOK'
<1> USE DEF disk, local, Goto, Preparing, Working, Over
<1>1. CASE CheckOutput(p)
  BY <1>1 DEF CheckOutput, TypeOK
<1>2. CASE OpenLock(p)
  BY <1>2 DEF OpenLock, TypeOK
<1>3. CASE Flock(p)
  BY <1>3 DEF Flock, TypeOK
<1>4. CASE WriteLock(p)
  BY <1>4 DEF WriteLock, TypeOK
<1>5. CASE Inspect(p)
  BY <1>5 DEF Inspect, TypeOK
<1>6. CASE Recover(p)
  BY <1>6 DEF Recover, TypeOK
<1> QED
  BY <1>1, <1>2, <1>3, <1>4, <1>5, <1>6 DEF Acquire

\* Choosing a checkpoint and moving the others aside keep the types.
LEMMA RestoreTypes ==
    ASSUME TypeOK, NEW p \in Run, Aside(p), Restore(p)
    PROVE  TypeOK'
<1> USE DEF disk, local, Goto, Preparing, Working, Over
<1>1. CASE Select(p)
  <2>1. Latest(Whole) \in 0..LastStep
    BY LatestIs DEF Whole
  <2>2. Recoverable \in SUBSET Step
    BY DEF Recoverable
  <2> HIDE DEF Step
  <2> QED
    BY <1>1, <2>1, <2>2 DEF Select, TypeOK
<1>2. CASE MoveAside(p)
  <2>1. PICK s \in moving[p] :
          /\ forensic' = [forensic EXCEPT ![p] = @ \cup {<<s, checkpoint[s]>>}]
          /\ checkpoint' = [checkpoint EXCEPT ![s] = "none"]
          /\ moving' = [moving EXCEPT ![p] = @ \ {s}]
    BY <1>2 DEF MoveAside
  <2>2. s \in Step /\ checkpoint[s] \in {"partial", "rotten"}
    BY <1>2, <2>1 DEF MoveAside, Aside, TypeOK
  <2>3. forensic' \in [Run -> SUBSET (Step \X {"partial", "rotten"})]
    BY <2>1, <2>2 DEF TypeOK
  <2>4. checkpoint' \in [Step -> {"none", "partial", "whole", "rotten"}]
    BY <2>1 DEF TypeOK
  <2>5. moving' \in [Run -> SUBSET Step]
    BY <2>1 DEF TypeOK
  <2> QED
    BY <1>2, <2>3, <2>4, <2>5 DEF MoveAside, TypeOK
<1>3. CASE WriteForensicManifest(p)
  BY <1>3 DEF WriteForensicManifest, TypeOK
<1>4. CASE Choose(p)
  BY <1>4 DEF Choose, TypeOK
<1> QED
  BY <1>1, <1>2, <1>3, <1>4 DEF Restore

\* Training keeps the types; it ends with the last checkpoint.
LEMMA TrainTypes ==
    ASSUME TypeOK, NEW p \in Run, Train(p)
    PROVE  TypeOK'
<1> USE DEF disk, local, Goto, Preparing, Working, Over
<1>1. CASE MarkStarted(p)
  BY <1>1 DEF MarkStarted, TypeOK
<1>2. CASE Resume(p)
  BY <1>2 DEF Resume, TypeOK
<1>3. CASE Save(p)
  <2>1. step[p] + 1 \in 0..LastStep
    BY <1>3, BoundsAssumption DEF Save, TypeOK
  <2> QED
    BY <1>3, <2>1 DEF Save, TypeOK
<1>4. CASE WriteSidecar(p)
  BY <1>4 DEF WriteSidecar, TypeOK
<1>5. CASE Finish(p)
  BY <1>5 DEF Finish, TypeOK
<1> QED
  BY <1>1, <1>2, <1>3, <1>4, <1>5 DEF Train

\* Publication keeps the types.
LEMMA PublishTypes ==
    ASSUME TypeOK, NEW p \in Run, Called(p), Publish(p)
    PROVE  TypeOK'
<1> USE DEF disk, local, Goto, Preparing, Working, Over
<1>0. Mine(p) \in Output /\ Bundle(p) \in Adapter
  BY DEF Publish, Export, PublishAdapter, VerifyPublished, MarkComplete, Called, Alive, Call,
         Mine, Bundle, Adapter
<1>1. CASE Export(p)
  BY <1>1 DEF Export, TypeOK
<1>2. CASE PublishAdapter(p)
  <2>1. adapter' \in [Output -> Adapter \cup {Absent}]
    BY <1>0, <1>2 DEF PublishAdapter, TypeOK
  <2> QED
    BY <1>2, <2>1 DEF PublishAdapter, TypeOK
<1>3. CASE VerifyPublished(p)
  BY <1>3 DEF VerifyPublished, TypeOK
<1>4. CASE MarkComplete(p)
  BY <1>0, <1>4 DEF MarkComplete, TypeOK
<1> QED
  BY <1>1, <1>2, <1>3, <1>4 DEF Publish

\* Every step of a run keeps the types.
LEMMA ActTypes ==
    ASSUME TypeOK, NEW p \in Run, Called(p), Aside(p), Act(p)
    PROVE  TypeOK'
<1> USE DEF disk, local, Goto, Preparing, Working, Over
<1>1. CASE GateRed(p)
  BY <1>1 DEF GateRed, TypeOK
<1>2. CASE Start(p)
  <2>1. PICK k \in Contract : \E o \in Output, r \in BOOLEAN :
          /\ call' = [call EXCEPT ![p] = [contract |-> k, output |-> o, resume |-> r]]
          /\ Goto(p, IF r THEN "root" ELSE "output")
    BY <1>2 DEF Start
  <2>2. call' \in [Run -> Call \cup {Absent}] /\ pc' \in [Run -> {"idle"} \cup Preparing \cup Working \cup Over]
    BY <2>1 DEF Call, TypeOK
  <2> QED
    BY <1>2, <2>2 DEF Start, TypeOK
<1>3. CASE TrainFold(p)
  BY <1>3, BindTypes, AcquireTypes, RestoreTypes, TrainTypes, PublishTypes DEF TrainFold
<1>4. CASE Raise(p)
  BY <1>4, BoundsAssumption DEF Raise, TypeOK
<1>5. CASE Die(p)
  BY <1>5 DEF Die, TypeOK
<1> QED
  BY <1>1, <1>2, <1>3, <1>4, <1>5 DEF Act

\* Lost bytes and monitors keep the types.
LEMMA OtherTypes ==
    ASSUME TypeOK, Rot \/ (\E m \in Monitor : ReadStatus(m)) \/ UNCHANGED vars
    PROVE  TypeOK'
<1> USE DEF disk, local
<1>1. CASE Rot
  <2>1. PICK s \in Whole : checkpoint' = [checkpoint EXCEPT ![s] = "rotten"]
    BY <1>1 DEF Rot
  <2>2. checkpoint' \in [Step -> {"none", "partial", "whole", "rotten"}]
    BY <2>1 DEF TypeOK
  <2>3. rot' \in 0..MaxDamage
    BY <1>1, BoundsAssumption DEF Rot, TypeOK
  <2> QED
    BY <1>1, <2>2, <2>3 DEF Rot, TypeOK
<1>2. ASSUME NEW m \in Monitor, ReadStatus(m) PROVE TypeOK'
  BY <1>2 DEF ReadStatus, StatusOpen, StatusLock, StatusReadLock, StatusMarker, StatusSteps,
              Say, Look, Answers, TypeOK
<1>3. CASE UNCHANGED vars
  <2>1. UNCHANGED <<root, debris, contract, lockfile, started, checkpoint, forensic>>
    BY <1>3 DEF vars
  <2>2. UNCHANGED <<manifested, adapter, completion, pc, call, newest, moving, step>>
    BY <1>3 DEF vars
  <2>3. UNCHANGED <<faults, rot, mpc, answer>>
    BY <1>3 DEF vars
  <2> QED
    BY <2>1, <2>2, <2>3 DEF TypeOK
<1> QED
  BY <1>1, <1>2, <1>3

(***************************************************************************)
(* What a step leaves to the others                                        *)
(***************************************************************************)
\* Evidence is added, never taken back.
Added ==
    /\ contract # Absent => contract' = contract
    /\ started => started'
    /\ \A o \in Output : adapter[o] # Absent => adapter'[o] = adapter[o]
    /\ completion # Absent => completion' = completion

Same(q) ==
    /\ pc'[q] = pc[q]
    /\ call'[q] = call[q]
    /\ newest'[q] = newest[q]
    /\ moving'[q] = moving[q]
    /\ step'[q] = step[q]

\* Under its flock a run finds its checkpoints again, or damaged.
Undisturbed(q) ==
    Locked(q) =>
        \A s \in Step :
            \/ checkpoint'[s] = checkpoint[s]
            \/ checkpoint[s] = "whole" /\ checkpoint'[s] = "rotten"

Frame(p) ==
    /\ \A q \in Run : q # p => Same(q)
    /\ Added
    /\ Locked(p) \/ checkpoint' = checkpoint
    /\ mpc' = mpc
    /\ answer' = answer

\* A step of a run is a step of this run: the others stay where they are, what
\* is published stays, and the Trainer directory changes under the flock only.
LEMMA FrameStep ==
    ASSUME TypeOK, NEW p \in Run, Called(p), Act(p)
    PROVE  Frame(p)
<1> USE DEF disk, local, Goto, Frame, Added, Same
<1>1. CASE GateRed(p) \/ Raise(p)
  BY <1>1 DEF GateRed, Raise, TypeOK
<1>2. CASE Start(p)
  <2>1. \A q \in Run : q # p => call'[q] = call[q] /\ pc'[q] = pc[q]
    BY <1>2 DEF Start, TypeOK
  <2> QED
    BY <1>2, <2>1 DEF Start
<1>3. CASE Die(p)
  BY <1>3 DEF Die, TypeOK
<1>4. CASE LookRoot(p) \/ LookContract(p) \/ LookEntries(p) \/ WriteTemp(p) \/ ValidateContract(p)
           \/ CheckOutput(p)
  BY <1>4 DEF LookRoot, LookContract, LookEntries, WriteTemp, ValidateContract, CheckOutput, TypeOK
<1>5. CASE MakeRoot(p) \/ LinkContract(p)
  BY <1>5 DEF MakeRoot, LinkContract, TypeOK
<1>6. CASE OpenLock(p) \/ Flock(p) \/ WriteLock(p)
  BY <1>6 DEF OpenLock, Flock, WriteLock, TypeOK
<1>7. CASE Inspect(p) \/ Recover(p) \/ Choose(p)
  BY <1>7 DEF Inspect, Recover, Choose, TypeOK
<1>8. CASE Select(p)
  BY <1>8 DEF Select, TypeOK
<1>9. CASE MoveAside(p)
  <2>1. Locked(p)
    BY <1>9 DEF MoveAside, Locked, Called, Resuming, Working
  <2>2. \A q \in Run : q # p => moving'[q] = moving[q]
    BY <1>9 DEF MoveAside, TypeOK
  <2> QED
    BY <1>9, <2>1, <2>2 DEF MoveAside
<1>10. CASE WriteForensicManifest(p) \/ MarkStarted(p)
  BY <1>10 DEF WriteForensicManifest, MarkStarted, TypeOK
<1>11. CASE Resume(p)
  BY <1>11 DEF Resume, TypeOK
<1>12. CASE Save(p) \/ WriteSidecar(p)
  <2>1. Locked(p)
    BY <1>12 DEF Save, WriteSidecar, Locked, Called, Resuming, Working
  <2> QED
    BY <1>12, <2>1 DEF Save, WriteSidecar, TypeOK
<1>13. CASE Finish(p) \/ Export(p) \/ VerifyPublished(p)
  BY <1>13 DEF Finish, Export, VerifyPublished, TypeOK
<1>14. CASE PublishAdapter(p)
  BY <1>14 DEF PublishAdapter, TypeOK
<1>15. CASE MarkComplete(p)
  BY <1>15 DEF MarkComplete, TypeOK
<1> QED
  BY <1>1, <1>2, <1>3, <1>4, <1>5, <1>6, <1>7, <1>8, <1>9, <1>10, <1>11, <1>12, <1>13, <1>14,
     <1>15
  DEF Act, TrainFold, Bind, Acquire, Restore, Train, Publish

\* What a run relies on survives whatever only adds evidence and leaves the
\* Trainer directory to it, or damages a checkpoint there.
LEMMA KeptByOthers ==
    ASSUME TypeOK, NEW q \in Run, RunInv(q), Same(q), Added, Undisturbed(q)
    PROVE  RunInv(q)'
<1>1. Called(q)'
  BY DEF RunInv, Called, Same, Alive
<1>2. Bound(q)'
  <2>1. Locked(q) => call[q] \in Call /\ call[q].contract # Absent
    BY AbsentAssumption DEF RunInv, Called, Locked, Alive, Call
  <2> QED
    BY <2>1 DEF RunInv, Bound, Same, Added, Locked
<1>3. Begun(q)'
  BY DEF RunInv, Begun, Same, Added, Locked
<1>4. Vouched(q)'
  <2>1. pc[q] \in {"verify", "complete"} => Mine(q) \in Output
    BY DEF RunInv, Called, Alive, Working, Call, Mine
  <2>2. Mine(q)' = Mine(q)
    BY DEF Same, Mine
  <2> QED
    BY <2>1, <2>2 DEF RunInv, Vouched, Same, Added
<1>5. pc[q] \in {"archive", "choose", "begin", "resume", "train", "sidecar"} => Locked(q)
  BY DEF RunInv, Called, Resuming, Working, Locked
<1>6. pc[q] = "archive" => moving[q] \subseteq Step
  BY DEF TypeOK
<1>7. Aside(q)'
  BY <1>5, <1>6 DEF RunInv, Aside, Same, Undisturbed
<1>8. Frontier(q)'
  BY <1>5, <1>6 DEF RunInv, Frontier, Same, Undisturbed
<1> QED
  BY <1>1, <1>2, <1>3, <1>4, <1>7, <1>8 DEF RunInv

(***************************************************************************)
(* What a step leaves to the run itself                                    *)
(***************************************************************************)
\* Starting a call, ending it in any way, and the steps before the flock.
LEMMA OpenStep ==
    ASSUME TypeOK, NEW p \in Run, RunInv(p),
           \/ GateRed(p) \/ Start(p) \/ Raise(p) \/ Die(p)
           \/ Bind(p) \/ CheckOutput(p) \/ OpenLock(p)
    PROVE  RunInv(p)'
<1> USE DEF disk, local, Goto, RunInv, Called, Bound, Begun, Vouched, Aside, Frontier, Alive,
            Locked, Mine, Opening, Resuming, Late, Preparing, Working
<1>1. CASE GateRed(p) \/ Raise(p)
  BY <1>1 DEF GateRed, Raise, TypeOK
<1>2. CASE Start(p)
  <2>1. PICK k \in Contract : \E o \in Output, r \in BOOLEAN :
          /\ call' = [call EXCEPT ![p] = [contract |-> k, output |-> o, resume |-> r]]
          /\ Goto(p, IF r THEN "root" ELSE "output")
    BY <1>2 DEF Start
  <2>2. call'[p] \in Call /\ pc'[p] \in {"root", "output"}
    BY <2>1 DEF Call, TypeOK
  <2> QED
    BY <2>2
<1>3. CASE Die(p)
  BY <1>3 DEF Die, TypeOK
<1>4. CASE Bind(p)
  <2>1. call'[p] = call[p] /\ pc[p] \in Preparing
    BY <1>4 DEF Bind, LookRoot, MakeRoot, LookContract, LookEntries, WriteTemp, LinkContract,
                ValidateContract
  <2>2. pc'[p] \in {"look_contract", "mkdir", "validate_contract", "temp", "look_entries",
                    "failed", "link_contract", "output"}
    BY <1>4 DEF Bind, LookRoot, MakeRoot, LookContract, LookEntries, WriteTemp, LinkContract,
                ValidateContract, TypeOK
  <2> QED
    BY <2>1, <2>2
<1>5. CASE CheckOutput(p)
  BY <1>5 DEF CheckOutput, TypeOK
<1>6. CASE OpenLock(p)
  BY <1>6 DEF OpenLock, TypeOK
<1> QED
  BY <1>1, <1>2, <1>3, <1>4, <1>5, <1>6

\* Under the flock until a checkpoint is chosen.
LEMMA LockedStep ==
    ASSUME TypeOK, NEW p \in Run, RunInv(p),
           Flock(p) \/ WriteLock(p) \/ Inspect(p) \/ Recover(p)
    PROVE  RunInv(p)'
<1> USE DEF disk, local, Goto, RunInv, Called, Bound, Begun, Vouched, Aside, Frontier, Alive,
            Locked, Mine, Opening, Resuming, Late, Preparing, Working
<1>1. CASE Flock(p)
  BY <1>1 DEF Flock, TypeOK
<1>2. CASE WriteLock(p)
  BY <1>2 DEF WriteLock, TypeOK
<1>3. CASE Inspect(p)
  BY <1>3 DEF Inspect, TypeOK
<1>4. CASE Recover(p)
  BY <1>4 DEF Recover, BoundTo, Verifies, TypeOK
<1> QED
  BY <1>1, <1>2, <1>3, <1>4

\* A checkpoint beyond the newest whole one is missing or recoverable.
LEMMA RestoreStep ==
    ASSUME TypeOK, NEW p \in Run, RunInv(p), Restore(p)
    PROVE  RunInv(p)'
<1> USE DEF disk, local, Goto
<1>1. CASE Select(p)
  <2>1. /\ pc[p] = "select" /\ pc'[p] \in {"choose", "archive"}
        /\ pc'[p] = "choose" => Recoverable = {}
        /\ newest'[p] = Latest(Whole) /\ moving'[p] = Recoverable
        /\ UNCHANGED <<checkpoint, contract, call, started, adapter>>
    BY <1>1 DEF Select, TypeOK
  <2>2. Latest(Whole) \in Nat /\ \A s \in Whole : s <= Latest(Whole)
    BY LatestIs, BoundsAssumption DEF Whole
  <2>3. \A s \in Step : s > Latest(Whole) => checkpoint[s] = "none" \/ s \in Recoverable
    <3> SUFFICES ASSUME NEW s \in Step, s > Latest(Whole)
                 PROVE  checkpoint[s] = "none" \/ s \in Recoverable
      OBVIOUS
    <3>1. s \notin Whole
      BY <2>2, BoundsAssumption DEF Step
    <3> QED
      BY <3>1 DEF Whole, Recoverable, TypeOK
  <2>4. Frontier(p)'
    <3>1. \A s \in Step : s > newest'[p] =>
             checkpoint'[s] = "none" \/ (pc'[p] = "archive" /\ s \in moving'[p])
      BY <2>1, <2>3
    <3> QED
      BY <2>1, <3>1 DEF Frontier
  <2>5. Aside(p)'
    BY <2>1 DEF Aside, Recoverable
  <2> QED
    BY <2>1, <2>4, <2>5
    DEF RunInv, Called, Bound, Begun, Vouched, Alive, Locked, Mine, Opening, Resuming, Late,
        Preparing, Working
<1>2. CASE MoveAside(p)
  <2>1. PICK s \in moving[p] :
          /\ checkpoint' = [checkpoint EXCEPT ![s] = "none"]
          /\ moving' = [moving EXCEPT ![p] = @ \ {s}]
    BY <1>2 DEF MoveAside
  <2>2. /\ pc[p] = "archive" /\ pc' = pc /\ moving[p] \subseteq Step
        /\ UNCHANGED <<contract, call, started, adapter, newest>>
    BY <1>2 DEF MoveAside, TypeOK
  <2>3. moving'[p] = moving[p] \ {s}
    BY <2>1 DEF TypeOK
  <2>4. \A t \in Step : checkpoint'[t] = IF t = s THEN "none" ELSE checkpoint[t]
    BY <2>1 DEF TypeOK
  <2>5. Aside(p)'
    BY <2>2, <2>3, <2>4 DEF RunInv, Aside
  <2>6. Frontier(p)'
    <3>1. \A t \in Step : t > newest[p] => checkpoint'[t] = "none" \/ t \in moving'[p]
      BY <2>2, <2>3, <2>4 DEF RunInv, Frontier
    <3> QED
      BY <2>2, <3>1 DEF Frontier
  <2> QED
    BY <2>2, <2>5, <2>6
    DEF RunInv, Called, Bound, Begun, Vouched, Alive, Locked, Mine, Opening, Resuming, Late,
        Preparing, Working
<1>3. CASE WriteForensicManifest(p)
  BY <1>3
  DEF WriteForensicManifest, TypeOK, RunInv, Called, Bound, Begun, Vouched, Aside, Frontier,
      Alive, Locked, Mine, Opening, Resuming, Late, Preparing, Working
<1>4. CASE Choose(p)
  BY <1>4
  DEF Choose, TypeOK, RunInv, Called, Bound, Begun, Vouched, Aside, Frontier,
      Alive, Locked, Mine, Opening, Resuming, Late, Preparing, Working
<1> QED
  BY <1>1, <1>2, <1>3, <1>4 DEF Restore

\* The Trainer goes on from the checkpoint a run has chosen.
LEMMA TrainStep ==
    ASSUME TypeOK, NEW p \in Run, RunInv(p), Train(p)
    PROVE  RunInv(p)'
<1> USE DEF disk, local, Goto, RunInv, Called, Bound, Begun, Vouched, Aside, Frontier, Alive,
            Locked, Mine, Opening, Resuming, Late, Preparing, Working
<1>1. CASE MarkStarted(p)
  BY <1>1 DEF MarkStarted, TypeOK
<1>2. CASE Resume(p)
  BY <1>2 DEF Resume, TypeOK
<1>3. CASE Save(p)
  <2>1. /\ pc[p] = "train" /\ pc'[p] = "sidecar" /\ step'[p] = step[p] + 1
        /\ checkpoint' = [checkpoint EXCEPT ![step[p] + 1] = "partial"]
        /\ step[p] \in Nat
        /\ UNCHANGED <<contract, call, started, adapter>>
    BY <1>3, BoundsAssumption DEF Save, TypeOK
  <2>2. \A s \in Step : s > step'[p] => checkpoint'[s] = "none"
    <3> SUFFICES ASSUME NEW s \in Step, s > step'[p] PROVE checkpoint'[s] = "none"
      OBVIOUS
    <3>1. s \in Nat /\ s # step[p] + 1 /\ s > step[p]
      BY <2>1, BoundsAssumption DEF Step
    <3> QED
      BY <2>1, <3>1 DEF TypeOK
  <2> QED
    BY <2>1, <2>2
<1>4. CASE WriteSidecar(p)
  <2>1. /\ pc[p] = "sidecar" /\ pc'[p] = "train" /\ step' = step
        /\ checkpoint' = [checkpoint EXCEPT ![step[p]] = "whole"]
        /\ step[p] \in Nat
        /\ UNCHANGED <<contract, call, started, adapter>>
    BY <1>4, BoundsAssumption DEF WriteSidecar, TypeOK
  <2>2. \A s \in Step : s > step'[p] => checkpoint'[s] = "none"
    <3> SUFFICES ASSUME NEW s \in Step, s > step'[p] PROVE checkpoint'[s] = "none"
      OBVIOUS
    <3>1. s \in Nat /\ s # step[p]
      BY <2>1, BoundsAssumption DEF Step
    <3> QED
      BY <2>1, <3>1 DEF TypeOK
  <2> QED
    BY <2>1, <2>2
<1>5. CASE Finish(p)
  BY <1>5 DEF Finish, TypeOK
<1> QED
  BY <1>1, <1>2, <1>3, <1>4, <1>5 DEF Train

\* The adapter a run has published is its own and stays.
LEMMA PublishStep ==
    ASSUME TypeOK, NEW p \in Run, RunInv(p), Publish(p)
    PROVE  RunInv(p)'
<1> USE DEF disk, local, Goto, RunInv, Called, Bound, Begun, Vouched, Aside, Frontier, Alive,
            Locked, Mine, Opening, Resuming, Late, Preparing, Working
<1>1. CASE Export(p)
  BY <1>1 DEF Export, TypeOK
<1>2. CASE PublishAdapter(p)
  <2>1. Mine(p) \in Output /\ Bundle(p) \in Adapter /\ Bundle(p).contract = call[p].contract
    BY <1>2 DEF PublishAdapter, Call, Bundle, Adapter
  <2>2. CASE adapter[Mine(p)] # Absent
    BY <1>2, <2>2 DEF PublishAdapter, TypeOK
  <2>3. CASE adapter[Mine(p)] = Absent
    <3>1. adapter'[Mine(p)] = Bundle(p) /\ Bundle(p) # Absent
      BY <1>2, <2>1, <2>3, AbsentAssumption DEF PublishAdapter, TypeOK
    <3> QED
      BY <1>2, <2>1, <2>3, <3>1 DEF PublishAdapter, TypeOK
  <2> QED
    BY <2>2, <2>3
<1>3. CASE VerifyPublished(p)
  BY <1>3 DEF VerifyPublished, TypeOK
<1>4. CASE MarkComplete(p)
  BY <1>4 DEF MarkComplete, TypeOK
<1> QED
  BY <1>1, <1>2, <1>3, <1>4 DEF Publish

\* Every step of a run keeps what the run relies on.
LEMMA OwnStep ==
    ASSUME TypeOK, NEW p \in Run, RunInv(p), Act(p)
    PROVE  RunInv(p)'
BY OpenStep, LockedStep, RestoreStep, TrainStep, PublishStep
DEF Act, TrainFold, Acquire

(***************************************************************************)
(* The flock and the monitors                                              *)
(***************************************************************************)
\* The flock is the only way into the workspace.
LEMMA EnterStep ==
    ASSUME TypeOK, NEW p \in Run, Act(p), Locked(p)'
    PROVE  Locked(p) \/ \A q \in Run \ {p} : ~Locked(q)
<1> USE DEF disk, local, Goto, Locked, Preparing, Working, Over
<1>1. CASE Start(p)
  <2>1. pc'[p] \in {"root", "output"}
    BY <1>1 DEF Start, TypeOK
  <2> QED
    BY <2>1
<1>2. CASE GateRed(p) \/ Raise(p)
  BY <1>2 DEF GateRed, Raise, TypeOK
<1>3. CASE Die(p)
  BY <1>3 DEF Die, TypeOK
<1>4. CASE Bind(p)
  <2>1. pc'[p] \in {"look_contract", "mkdir", "validate_contract", "temp", "look_entries",
                    "failed", "link_contract", "output"}
    BY <1>4 DEF Bind, LookRoot, MakeRoot, LookContract, LookEntries, WriteTemp, LinkContract,
                ValidateContract, TypeOK
  <2> QED
    BY <2>1
<1>5. CASE CheckOutput(p) \/ OpenLock(p)
  BY <1>5 DEF CheckOutput, OpenLock, TypeOK
<1>6. CASE Flock(p)
  BY <1>6 DEF Flock, Contended, TypeOK
<1>7. CASE WriteLock(p) \/ Inspect(p) \/ Recover(p)
  BY <1>7 DEF WriteLock, Inspect, Recover
<1>8. CASE Restore(p)
  BY <1>8 DEF Restore, Select, MoveAside, WriteForensicManifest, Choose
<1>9. CASE Train(p)
  BY <1>9 DEF Train, MarkStarted, Resume, Save, WriteSidecar, Finish
<1>10. CASE Publish(p)
  BY <1>10 DEF Publish, Export, PublishAdapter, VerifyPublished, MarkComplete
<1> QED
  BY <1>1, <1>2, <1>3, <1>4, <1>5, <1>6, <1>7, <1>8, <1>9, <1>10 DEF Act, TrainFold, Acquire

\* At most one run enters.
LEMMA OneTrainerStep ==
    ASSUME TypeOK, OneTrainer, NEW p \in Run, Act(p), Frame(p)
    PROVE  OneTrainer'
<1>1. \A q \in Run : q # p => (Locked(q)' <=> Locked(q))
  BY DEF Frame, Same, Locked
<1>2. Locked(p)' => Locked(p) \/ \A q \in Run \ {p} : ~Locked(q)
  BY EnterStep
<1> QED
  BY <1>1, <1>2 DEF OneTrainer

\* What is confirmed stays confirmed while evidence is only added.
LEMMA ConfirmedKept ==
    ASSUME TypeOK, NEW m \in Monitor, Confirmed(m), Added, mpc' = mpc, answer' = answer
    PROVE  Confirmed(m)'
BY DEF TypeOK, Confirmed, Added, BoundTo, Verifies

\* A status command confirms what it finds and nothing else.
LEMMA StatusStep ==
    ASSUME TypeOK, NEW m \in Monitor, Confirmed(m), NEW n \in Monitor, ReadStatus(n)
    PROVE  Confirmed(m)'
<1> USE DEF disk, local, Confirmed, BoundTo, Verifies, Say, Look
<1>1. UNCHANGED <<contract, completion, adapter>>
  BY DEF ReadStatus, StatusOpen, StatusLock, StatusReadLock, StatusMarker, StatusSteps
<1>2. CASE n # m
  <2>1. mpc'[m] = mpc[m] /\ answer'[m] = answer[m]
    BY <1>2 DEF ReadStatus, StatusOpen, StatusLock, StatusReadLock, StatusMarker, StatusSteps,
                TypeOK
  <2> QED
    BY <1>1, <2>1
<1>3. CASE n = m
  <2>1. CASE StatusOpen(m)
    BY <1>1, <2>1 DEF StatusOpen, TypeOK
  <2>2. CASE StatusLock(m)
    BY <1>1, <2>2 DEF StatusLock, TypeOK
  <2>3. CASE StatusReadLock(m)
    BY <1>1, <2>3 DEF StatusReadLock, Reading, TypeOK
  <2>4. CASE StatusMarker(m)
    BY <1>1, <2>4 DEF StatusMarker, TypeOK
  <2>5. CASE StatusSteps(m)
    BY <1>1, <2>5 DEF StatusSteps, TypeOK
  <2> QED
    BY <1>3, <2>1, <2>2, <2>3, <2>4, <2>5 DEF ReadStatus
<1> QED
  BY <1>2, <1>3

(***************************************************************************)
(* The invariant is inductive                                              *)
(***************************************************************************)
\* A workspace nobody has touched.
LEMMA InitInvariant == Init => IInv
<1> SUFFICES ASSUME Init PROVE IInv
  OBVIOUS
<1>1. TypeOK
  <2>1. 0 \in 0..LastStep /\ 0 \in 0..MaxFaults /\ 0 \in 0..MaxDamage
    BY BoundsAssumption
  <2>2. /\ started \in BOOLEAN
        /\ checkpoint \in [Step -> {"none", "partial", "whole", "rotten"}]
        /\ forensic \in [Run -> SUBSET (Step \X {"partial", "rotten"})]
        /\ adapter \in [Output -> Adapter \cup {Absent}]
        /\ answer \in [Monitor -> Answers]
    BY DEF Init, Answers
  <2>3. /\ newest \in [Run -> 0..LastStep] /\ step \in [Run -> 0..LastStep]
        /\ faults \in 0..MaxFaults /\ rot \in 0..MaxDamage
    BY <2>1 DEF Init
  <2>4. /\ pc \in [Run -> {"idle"} \cup Preparing \cup Working \cup Over]
        /\ call \in [Run -> Call \cup {Absent}]
        /\ moving \in [Run -> SUBSET Step]
        /\ mpc \in [Monitor -> {"idle", "lock", "read_lock", "marker", "steps"}]
    BY DEF Init
  <2>5. /\ root \in BOOLEAN /\ debris \in BOOLEAN /\ contract \in Contract \cup {Absent}
        /\ lockfile \in {Absent, "empty", "written"} /\ manifested \subseteq Run
        /\ completion \in Output \cup {Absent}
    BY DEF Init
  <2> QED
    BY <2>2, <2>3, <2>4, <2>5 DEF TypeOK
<1>2. OneTrainer
  BY DEF Init, OneTrainer, Locked, Working
<1>3. \A p \in Run : RunInv(p)
  BY DEF Init, RunInv, Called, Bound, Begun, Vouched, Aside, Frontier, Alive, Locked, Opening,
         Resuming, Late, Preparing, Working
<1>4. \A m \in Monitor : Confirmed(m)
  BY DEF Init, Confirmed
<1> QED
  BY <1>1, <1>2, <1>3, <1>4 DEF IInv

\* A run acts: its own step, and the frame for all others.
LEMMA ActInvariant ==
    ASSUME IInv, NEW p \in Run, Act(p)
    PROVE  IInv'
<1> USE DEF IInv
<1>1. TypeOK'
  BY ActTypes DEF RunInv
<1>2. Frame(p)
  BY FrameStep DEF RunInv
<1>3. OneTrainer'
  BY <1>2, OneTrainerStep
<1>4. ASSUME NEW q \in Run PROVE RunInv(q)'
  <2>1. CASE q = p
    BY <2>1, OwnStep
  <2>2. CASE q # p
    <3>1. Same(q) /\ Added
      BY <1>2, <2>2 DEF Frame
    <3>2. Undisturbed(q)
      BY <1>2, <2>2 DEF Frame, OneTrainer, Undisturbed
    <3> QED
      BY <3>1, <3>2, KeptByOthers
  <2> QED
    BY <2>1, <2>2
<1>5. \A m \in Monitor : Confirmed(m)'
  BY <1>2, ConfirmedKept DEF Frame
<1> QED
  BY <1>1, <1>3, <1>4, <1>5

\* Monitors change nothing a run relies on, and bytes are lost only behind a
\* sidecar.
LEMMA OtherInvariant ==
    ASSUME IInv, Rot \/ (\E m \in Monitor : ReadStatus(m)) \/ UNCHANGED vars
    PROVE  IInv'
<1> USE DEF IInv
<1>1. TypeOK'
  BY OtherTypes
<1>2. /\ UNCHANGED <<contract, started, adapter, completion>>
      /\ UNCHANGED <<pc, call, newest, moving, step>>
  BY DEF Rot, ReadStatus, StatusOpen, StatusLock, StatusReadLock, StatusMarker, StatusSteps,
         disk, local, vars
<1>3. Added
  BY <1>2 DEF Added
<1>4. \A s \in Step : \/ checkpoint'[s] = checkpoint[s]
                      \/ checkpoint[s] = "whole" /\ checkpoint'[s] = "rotten"
  <2>1. CASE Rot
    BY <2>1 DEF Rot, Whole, TypeOK
  <2>2. CASE ~Rot
    <3>1. checkpoint' = checkpoint
      BY <2>2 DEF ReadStatus, StatusOpen, StatusLock, StatusReadLock, StatusMarker, StatusSteps,
                  disk, vars
    <3> QED
      BY <3>1
  <2> QED
    BY <2>1, <2>2
<1>5. \A q \in Run : RunInv(q)'
  <2>1. \A q \in Run : Same(q) /\ Undisturbed(q)
    BY <1>2, <1>4 DEF Same, Undisturbed
  <2> QED
    BY <1>3, <1>4, <2>1, KeptByOthers
<1>6. OneTrainer'
  BY <1>2 DEF OneTrainer, Locked
<1>7. \A m \in Monitor : Confirmed(m)'
  <2>1. CASE \E n \in Monitor : ReadStatus(n)
    BY <2>1, StatusStep
  <2>2. CASE Rot \/ UNCHANGED vars
    <3>1. mpc' = mpc /\ answer' = answer
      BY <2>2 DEF Rot, vars
    <3> QED
      BY <1>3, <3>1, ConfirmedKept
  <2> QED
    BY <2>1, <2>2
<1> QED
  BY <1>1, <1>5, <1>6, <1>7

\* Every step keeps the invariant.
LEMMA InvariantStep == IInv /\ [Next]_vars => IInv'
BY ActInvariant, OtherInvariant DEF Next, Act

\* The inductive invariant of the training workspace.
THEOREM Invariance == Spec => []IInv
BY InitInvariant, InvariantStep, PTL DEF Spec

\* The variables keep their types, whatever was killed or lost.
THEOREM TypeCorrect == Spec => []TypeOK
<1>1. IInv => TypeOK
  BY DEF IInv
<1> QED
  BY <1>1, Invariance, PTL

\* At most one run works in the workspace (the flock of train_qlora_fold).
THEOREM FlockExcludes == Spec => []OneTrainer
<1>1. IInv => OneTrainer
  BY DEF IInv
<1> QED
  BY <1>1, Invariance, PTL

\* A run past the lock holds the contract of the workspace, also when several
\* first runs raced for it (_initialize_training_resume).
THEOREM ContractBinds == Spec => []WorkspaceIsBound
<1>1. IInv => WorkspaceIsBound
  BY DEF IInv, RunInv, Bound, WorkspaceIsBound
<1> QED
  BY <1>1, Invariance, PTL

\* A run resumes from the newest checkpoint that verifies
\* (_latest_complete_trainer_checkpoint).
THEOREM NewestIsResumed == Spec => []ResumesNewest
<1>1. IInv => ResumesNewest
  <2> SUFFICES ASSUME IInv, NEW p \in Run, pc[p] \in {"archive", "choose", "begin", "resume"},
                      NEW s \in Whole
               PROVE  s <= newest[p]
    BY DEF ResumesNewest
  <2>1. s \in Step /\ checkpoint[s] = "whole" /\ s \in Int /\ newest[p] \in Int
    BY BoundsAssumption DEF Whole, IInv, TypeOK, Step
  <2>2. Frontier(p) /\ Aside(p)
    BY DEF IInv, RunInv
  <2>3. ~(s > newest[p])
    BY <2>1, <2>2 DEF Frontier, Aside
  <2> QED
    BY <2>1, <2>3
<1> QED
  BY <1>1, Invariance, PTL

(***************************************************************************)
(* What a step may never do                                                *)
(***************************************************************************)
\* A step that changes nothing a run does is lost bytes, a monitor or nothing.
LEMMA NextCases ==
    ASSUME IInv, [Next]_vars
    PROVE  \/ \E p \in Run : Act(p)
           \/ Rot /\ UNCHANGED <<contract, started, adapter, completion, forensic, pc>>
           \/ UNCHANGED <<contract, started, adapter, completion, checkpoint, forensic, pc>>
BY DEF Next, Act, Rot, ReadStatus, StatusOpen, StatusLock, StatusReadLock, StatusMarker, StatusSteps,
       disk, local, vars

\* The Trainer never saves into a directory that is there already.
THEOREM SavesAreNew == Spec => NothingOverwritten
<1>1. ASSUME IInv, [Next]_vars,
             NEW p \in Run, pc[p] = "train", pc'[p] = "sidecar"
      PROVE  checkpoint[step'[p]] = "none"
  <2>1. PICK q \in Run : Act(q)
    BY <1>1, NextCases
  <2>2. q = p
    <3>1. Frame(q)
      BY <1>1, <2>1, FrameStep DEF IInv, RunInv
    <3> QED
      BY <1>1, <3>1 DEF Frame, Same
  <2>3. Save(p)
    <3> USE <1>1, <2>1, <2>2 DEF IInv, TypeOK, Goto
    <3>1. ~GateRed(p) /\ ~Start(p) /\ ~Raise(p) /\ ~Die(p)
      BY DEF GateRed, Start, Raise, Die
    <3>2. ~Bind(p) /\ ~CheckOutput(p) /\ ~Acquire(p) /\ ~Restore(p) /\ ~Publish(p)
      BY DEF Bind, LookRoot, MakeRoot, LookContract, LookEntries, WriteTemp, LinkContract,
             ValidateContract, CheckOutput, Acquire, OpenLock, Flock, WriteLock, Inspect, Recover,
             Restore, Select, MoveAside, WriteForensicManifest, Choose, Publish, Export,
             PublishAdapter, VerifyPublished, MarkComplete
    <3>3. ~MarkStarted(p) /\ ~Resume(p) /\ ~WriteSidecar(p) /\ ~Finish(p)
      BY DEF MarkStarted, Resume, WriteSidecar, Finish
    <3> QED
      BY <3>1, <3>2, <3>3 DEF Act, TrainFold, Train
  <2>4. step'[p] = step[p] + 1 /\ step[p] \in Nat /\ step[p] < LastStep
    BY <1>1, <2>3, BoundsAssumption DEF Save, IInv, TypeOK
  <2>5. step'[p] \in Step /\ step'[p] > step[p]
    BY <2>4, BoundsAssumption DEF Step
  <2> QED
    BY <1>1, <2>5 DEF IInv, RunInv, Frontier
<1>2. IInv /\ [Next]_vars =>
        [\A p \in Run : pc[p] = "train" /\ pc'[p] = "sidecar" => checkpoint[step'[p]] = "none"]_vars
  BY <1>1
<1> QED
  BY <1>2, Invariance, PTL DEF Spec, NothingOverwritten

\* Only MoveAside empties the place of a checkpoint, and only when it does not
\* verify.
LEMMA LossStep ==
    ASSUME IInv, NEW p \in Run, Act(p)
    PROVE  /\ \A s \in Step : checkpoint[s] # "none" /\ checkpoint'[s] = "none" =>
                /\ checkpoint[s] # "whole"
                /\ <<s, checkpoint[s]>> \in forensic'[p]
           /\ \A q \in Run : forensic[q] \subseteq forensic'[q]
<1> USE DEF disk, local
<1>1. CASE MoveAside(p)
  <2>1. PICK t \in moving[p] :
          /\ forensic' = [forensic EXCEPT ![p] = @ \cup {<<t, checkpoint[t]>>}]
          /\ checkpoint' = [checkpoint EXCEPT ![t] = "none"]
    BY <1>1 DEF MoveAside
  <2>2. t \in Step /\ checkpoint[t] \in {"partial", "rotten"}
    BY <1>1, <2>1 DEF MoveAside, IInv, RunInv, Aside, TypeOK
  <2>3. \A s \in Step : s # t => checkpoint'[s] = checkpoint[s]
    BY <2>1 DEF IInv, TypeOK
  <2>4. \A q \in Run : forensic[q] \subseteq forensic'[q]
    BY <2>1 DEF IInv, TypeOK
  <2>5. <<t, checkpoint[t]>> \in forensic'[p]
    BY <2>1 DEF IInv, TypeOK
  <2> QED
    BY <2>2, <2>3, <2>4, <2>5
<1>2. CASE Save(p) \/ WriteSidecar(p)
  <2>1. forensic' = forensic /\ \A s \in Step : checkpoint'[s] \in {checkpoint[s], "partial", "whole"}
    BY <1>2 DEF Save, WriteSidecar, IInv, TypeOK
  <2> QED
    BY <2>1
<1>3. CASE ~MoveAside(p) /\ ~Save(p) /\ ~WriteSidecar(p)
  <2>1. checkpoint' = checkpoint /\ forensic' = forensic
    <3>1. CASE GateRed(p) \/ Start(p) \/ Raise(p) \/ Die(p)
      BY <3>1 DEF GateRed, Start, Raise, Die
    <3>2. CASE Bind(p) \/ CheckOutput(p)
      BY <3>2 DEF Bind, LookRoot, MakeRoot, LookContract, LookEntries, WriteTemp, LinkContract,
                  ValidateContract, CheckOutput
    <3>3. CASE Acquire(p)
      BY <3>3 DEF Acquire, OpenLock, Flock, WriteLock, Inspect, Recover
    <3>4. CASE Restore(p)
      BY <1>3, <3>4 DEF Restore, Select, WriteForensicManifest, Choose
    <3>5. CASE Train(p)
      BY <1>3, <3>5 DEF Train, MarkStarted, Resume, Finish
    <3>6. CASE Publish(p)
      BY <3>6 DEF Publish, Export, PublishAdapter, VerifyPublished, MarkComplete
    <3> QED
      BY <3>1, <3>2, <3>3, <3>4, <3>5, <3>6 DEF Act, TrainFold
  <2> QED
    BY <2>1
<1> QED
  BY <1>1, <1>2, <1>3

\* No training is lost: what leaves the Trainer directory is in a forensic
\* attempt and did not verify (_archive_recoverable_trainer_checkpoints).
THEOREM TrainingIsKept == Spec => NothingLost
<1>1. ASSUME IInv, [Next]_vars
      PROVE  /\ \A s \in Step : checkpoint[s] # "none" /\ checkpoint'[s] = "none" =>
                  /\ checkpoint[s] # "whole"
                  /\ \E p \in Run : <<s, checkpoint[s]>> \in forensic'[p]
             /\ \A p \in Run : forensic[p] \subseteq forensic'[p]
  <2>1. CASE \E p \in Run : Act(p)
    BY <1>1, <2>1, LossStep
  <2>2. CASE Rot /\ forensic' = forensic
    <3>1. \A s \in Step : checkpoint'[s] \in {checkpoint[s], "rotten"}
      BY <1>1, <2>2 DEF Rot, Whole, IInv, TypeOK
    <3> QED
      BY <2>2, <3>1
  <2>3. CASE checkpoint' = checkpoint /\ forensic' = forensic
    BY <2>3
  <2> QED
    BY <1>1, <2>1, <2>2, <2>3, NextCases
<1>2. IInv /\ [Next]_vars =>
        [/\ \A s \in Step : checkpoint[s] # "none" /\ checkpoint'[s] = "none" =>
               /\ checkpoint[s] # "whole"
               /\ \E p \in Run : <<s, checkpoint[s]>> \in forensic'[p]
         /\ \A p \in Run : forensic[p] \subseteq forensic'[p]]_vars
  BY <1>1
<1> QED
  BY <1>2, Invariance, PTL DEF Spec, NothingLost

\* Newest first, none overwritten, none lost: the checkpoints carry the training.
THEOREM CheckpointsCarry == Spec => CheckpointsKept
BY NewestIsResumed, SavesAreNew, TrainingIsKept, PTL DEF CheckpointsKept

\* A completed training is reported as complete for ever
\* (read_training_resume_status).
THEOREM CompletionIsSticky == Spec => CompleteIsSticky
<1>1. ASSUME IInv, [Next]_vars, NEW m \in Monitor, answer[m] = "complete"
      PROVE  answer'[m] = "complete"
  <2>1. CASE \E p \in Run : Act(p)
    BY <1>1, <2>1, FrameStep DEF Frame, IInv, RunInv
  <2>2. CASE Rot \/ UNCHANGED vars
    BY <1>1, <2>2 DEF Rot, vars
  <2>3. ASSUME NEW n \in Monitor, ReadStatus(n) PROVE answer'[m] = "complete"
    <3>1. CASE n # m
      BY <1>1, <2>3, <3>1 DEF ReadStatus, StatusOpen, StatusLock, StatusReadLock, StatusMarker,
                              StatusSteps, Say, Look, IInv, TypeOK
    <3>2. CASE n = m
      <4>1. mpc[m] = "idle" /\ contract # Absent /\ completion # Absent
            /\ BoundTo(completion, contract)
        BY <1>1 DEF IInv, Confirmed
      <4>2. StatusOpen(m)
        BY <2>3, <3>2, <4>1 DEF ReadStatus, StatusLock, StatusReadLock, StatusMarker, StatusSteps,
                                Reading
      <4> QED
        BY <1>1, <4>1, <4>2 DEF StatusOpen, Say, IInv, TypeOK
    <3> QED
      BY <3>1, <3>2
  <2> QED
    BY <1>1, <2>1, <2>2, <2>3 DEF Next, Act
<1>2. IInv /\ [Next]_vars =>
        [\A m \in Monitor : answer[m] = "complete" => answer'[m] = "complete"]_vars
  BY <1>1
<1> QED
  BY <1>2, Invariance, PTL DEF Spec, CompleteIsSticky

(***************************************************************************)
(* The refinement of TrainingJob                                           *)
(***************************************************************************)
\* Every step of a run is a step of the job or a stutter.
LEMMA JobStep ==
    ASSUME IInv, NEW p \in Run, Act(p)
    PROVE  [TrainingJobSpec!Next]_(TrainingJobSpec!vars)
<1> USE DEF disk, local, TrainingJobSpec!vars, TrainingJobSpec!Next
<1>0. RunInv(p) /\ TypeOK
  BY DEF IInv
<1>1. CASE LinkContract(p)
  <2>1. call[p].contract \in Contract
    BY <1>0, <1>1 DEF LinkContract, RunInv, Called, Alive, Preparing, Call
  <2> QED
    BY <1>1, <2>1 DEF LinkContract, TrainingJobSpec!Bind
<1>2. CASE MarkStarted(p)
  <2>1. Locked(p) /\ call[p].contract = contract /\ call[p] \in Call
    BY <1>0, <1>2 DEF MarkStarted, RunInv, Called, Bound, Alive, Locked, Resuming, Working
  <2>2. contract # Absent
    BY <2>1, AbsentAssumption DEF Call
  <2> QED
    BY <1>2, <2>2 DEF MarkStarted, TrainingJobSpec!Begin
<1>3. CASE PublishAdapter(p)
  <2>1. Mine(p) \in Output /\ call[p].contract \in Contract /\ call[p].resume \in BOOLEAN
    BY <1>0, <1>3 DEF PublishAdapter, RunInv, Called, Alive, Working, Call, Mine
  <2>2. call[p].resume => started /\ call[p].contract = contract
    BY <1>0, <1>3 DEF PublishAdapter, RunInv, Bound, Begun, Locked, Working, Late
  <2>3. CASE adapter[Mine(p)] # Absent
    BY <1>3, <2>3 DEF PublishAdapter
  <2>4. CASE adapter[Mine(p)] = Absent
    <3>1. adapter' = [adapter EXCEPT ![Mine(p)] =
                        [contract |-> call[p].contract, own |-> call[p].resume]]
      BY <1>3, <2>4 DEF PublishAdapter, Bundle
    <3>2. UNCHANGED <<contract, started, completion>>
      BY <1>3 DEF PublishAdapter
    <3>3. TrainingJobSpec!Publish(Mine(p), call[p].contract)
      BY <2>1, <2>2, <2>4, <3>1, <3>2 DEF TrainingJobSpec!Publish
    <3> QED
      BY <2>1, <3>3
  <2> QED
    BY <2>3, <2>4
<1>4. CASE MarkComplete(p)
  <2>1. Mine(p) \in Output /\ Locked(p)
    BY <1>0, <1>4 DEF MarkComplete, RunInv, Called, Alive, Working, Resuming, Locked, Call, Mine
  <2>2. /\ started
        /\ adapter[Mine(p)] # Absent
        /\ adapter[Mine(p)].contract = contract
    BY <1>0, <1>4, <2>1 DEF MarkComplete, RunInv, Bound, Begun, Vouched, Late
  <2> QED
    BY <1>4, <2>1, <2>2 DEF MarkComplete, TrainingJobSpec!Complete
<1>5. CASE ~LinkContract(p) /\ ~MarkStarted(p) /\ ~PublishAdapter(p) /\ ~MarkComplete(p)
  <2>1. UNCHANGED <<contract, started, adapter, completion>>
    <3>1. CASE GateRed(p) \/ Start(p) \/ Raise(p) \/ Die(p)
      BY <3>1 DEF GateRed, Start, Raise, Die
    <3>2. CASE Bind(p) \/ CheckOutput(p)
      BY <1>5, <3>2 DEF Bind, LookRoot, MakeRoot, LookContract, LookEntries, WriteTemp,
                        ValidateContract, CheckOutput
    <3>3. CASE Acquire(p)
      BY <3>3 DEF Acquire, OpenLock, Flock, WriteLock, Inspect, Recover
    <3>4. CASE Restore(p)
      BY <3>4 DEF Restore, Select, MoveAside, WriteForensicManifest, Choose
    <3>5. CASE Train(p)
      BY <1>5, <3>5 DEF Train, Resume, Save, WriteSidecar, Finish
    <3>6. CASE Publish(p)
      BY <1>5, <3>6 DEF Publish, Export, VerifyPublished
    <3> QED
      BY <3>1, <3>2, <3>3, <3>4, <3>5, <3>6 DEF Act, TrainFold
  <2> QED
    BY <2>1
<1> QED
  BY <1>1, <1>2, <1>3, <1>4, <1>5

\* The locked, resumable, killable training of a fold is one training job.
THEOREM ImplementsTrainingJob == Spec => RefinesTrainingJob
<1>1. Init => TrainingJobSpec!Init
  BY DEF Init, TrainingJobSpec!Init
<1>2. IInv /\ [Next]_vars => [TrainingJobSpec!Next]_(TrainingJobSpec!vars)
  BY JobStep, NextCases DEF TrainingJobSpec!vars
<1> QED
  BY <1>1, <1>2, Invariance, PTL DEF Spec, RefinesTrainingJob, TrainingJobSpec!Spec
=============================================================================
