---------------------------- MODULE TeacherProofs ----------------------------
(***************************************************************************)
(* The guarantees of the teacher's ledger, each for any number of          *)
(* operators and any plan:                                                 *)
(*   - the identity of an attempt is never used twice, even between two    *)
(*     runs that both believe they hold the plan lock: the raw event file, *)
(*     created before the record, makes the identity exclusive;            *)
(*   - the variables keep their types: the latest attempt on a chunk       *)
(*     exists, since there are finitely many;                              *)
(*   - the plan lock excludes, and with it no row is bought twice or more  *)
(*     often than allowed: what a run may buy is pending when it is        *)
(*     planned and stays so until its record is written;                   *)
(*   - a bank stands on one accepted answer for each problem;              *)
(*   - a broken structure is retried once, whatever happens to the lock,   *)
(*     because what the checks read before the lock can only become truer. *)
(*                                                                         *)
(* And of the gate before it, for any number of canaries and plans, any    *)
(* number of changes underneath and of killed commands:                    *)
(*   - a question of a gated plan is sent on a canary that was earned, and *)
(*     all of them on the same one: the sidecar that names it is written   *)
(*     once, before the first question, and what it names was really paid; *)
(*   - the complete bank follows a pilot that passed every gate: its       *)
(*     receipt is verified before the sidecar without which it cannot ask, *)
(*     and nothing takes back what a pilot has passed.                     *)
(* The two specifications share no variable: each theorem is about one.    *)
(***************************************************************************)
EXTENDS TeacherLedger, TeacherGate, FiniteSetTheorems, WellFoundedInduction, TLAPS

\* Jobs in flight are a set per process.
FlightInv == active \in [Proc -> SUBSET UNION {active[p] : p \in Proc}]

\* What has a record, and what is in flight, has evidence under its key.
EvidenceInv ==
    /\ \A a \in attempts : KeyOf(a) \in evidence
    /\ \A p \in Proc : \A a \in active[p] : KeyOf(a) \in evidence

\* A key in flight belongs to one process and has no record yet.
FlightKeyInv ==
    /\ \A p, q \in Proc : \A a \in active[p], b \in active[q] :
          KeyOf(a) = KeyOf(b) => p = q /\ a = b
    /\ \A p \in Proc : \A a \in active[p], b \in attempts : KeyOf(a) # KeyOf(b)

\* The inductive invariant of the identities.
KeyInv == FlightInv /\ EvidenceInv /\ FlightKeyInv /\ OneRecordPerKey

\* A process may only lose jobs in flight as long as it writes nothing.
LEMMA DropStep ==
    ASSUME KeyInv, NEW p \in Proc, NEW S, S \subseteq active[p],
           active' = [active EXCEPT ![p] = S],
           attempts' = attempts, evidence' = evidence
    PROVE  KeyInv'
<1>1. FlightInv'
  BY DEF KeyInv, FlightInv
<1>2. \A q \in Proc : active'[q] \subseteq active[q]
  BY DEF KeyInv, FlightInv
<1>3. EvidenceInv' /\ FlightKeyInv' /\ OneRecordPerKey'
  BY <1>2 DEF KeyInv, EvidenceInv, FlightKeyInv, OneRecordPerKey, KeyOf
<1> QED
  BY <1>1, <1>3 DEF KeyInv

\* A step that writes no record and no evidence drops jobs in flight or none.
LEMMA QuietStep ==
    ASSUME KeyInv, active' = active, attempts' = attempts, evidence' = evidence
    PROVE  KeyInv'
BY DEF KeyInv, FlightInv, EvidenceInv, FlightKeyInv, OneRecordPerKey, KeyOf

\* The end of a call forgets what it had in flight.
LEMMA EndStep ==
    ASSUME KeyInv, NEW p \in Proc, End(p), attempts' = attempts, evidence' = evidence
    PROVE  KeyInv'
<1> DEFINE S == {}
<1>1. active' = [active EXCEPT ![p] = S]
  BY DEF End
<1>2. S \subseteq active[p]
  OBVIOUS
<1> HIDE DEF S
<1> QED
  BY <1>1, <1>2, DropStep

\* Evidence is written under a name nothing else uses.
LEMMA WriteEvidenceStep ==
    ASSUME KeyInv, NEW p \in Proc, WriteEvidence(p)
    PROVE  KeyInv'
<1>1. PICK job \in queue[p] :
        \/ /\ FreshName(KeyOf(job))
           /\ evidence' = evidence \cup {KeyOf(job)}
           /\ \E a \in Answers(job) : active' = [active EXCEPT ![p] = @ \cup {a}]
        \/ UNCHANGED <<evidence, active>>
  BY DEF WriteEvidence
<1>2. attempts' = attempts
  BY DEF WriteEvidence
<1>3. CASE UNCHANGED <<evidence, active>>
  BY <1>2, <1>3, QuietStep
<1>4. CASE ~UNCHANGED <<evidence, active>>
  <2>1. /\ KeyOf(job) \notin evidence
        /\ evidence' = evidence \cup {KeyOf(job)}
    BY <1>1, <1>4 DEF FreshName
  <2>2. PICK a \in Answers(job) : active' = [active EXCEPT ![p] = @ \cup {a}]
    BY <1>1, <1>4
  <2>3. KeyOf(a) = KeyOf(job)
    BY <2>2 DEF Answers, KeyOf
  <2>4. \A q \in Proc : active'[q] = IF q = p THEN active[p] \cup {a} ELSE active[q]
    BY <2>2 DEF KeyInv, FlightInv
  <2>5. FlightInv'
    BY <2>2, <2>4 DEF KeyInv, FlightInv
  <2>6. EvidenceInv'
    BY <1>2, <2>1, <2>3, <2>4 DEF KeyInv, EvidenceInv, KeyOf
  <2>7. FlightKeyInv'
    <3>1. \A q \in Proc : \A b \in active[q] : KeyOf(b) # KeyOf(a)
      BY <2>1, <2>3 DEF KeyInv, EvidenceInv
    <3>2. \A b \in attempts : KeyOf(b) # KeyOf(a)
      BY <2>1, <2>3 DEF KeyInv, EvidenceInv
    <3> QED
      BY <1>2, <2>4, <3>1, <3>2 DEF KeyInv, FlightKeyInv, KeyOf
  <2>8. OneRecordPerKey'
    BY <1>2 DEF KeyInv, OneRecordPerKey, KeyOf
  <2> QED
    BY <2>5, <2>6, <2>7, <2>8 DEF KeyInv
<1> QED
  BY <1>3, <1>4

\* The record of a job in flight is the first with its key.
LEMMA WriteAttemptStep ==
    ASSUME KeyInv, NEW p \in Proc, WriteAttempt(p)
    PROVE  KeyInv'
<1>1. PICK a \in active[p] : /\ attempts' = attempts \cup {a}
                             /\ active' = [active EXCEPT ![p] = @ \ {a}]
  BY DEF WriteAttempt
<1>2. evidence' = evidence
  BY DEF WriteAttempt
<1>3. \A q \in Proc : active'[q] = IF q = p THEN active[p] \ {a} ELSE active[q]
  BY <1>1 DEF KeyInv, FlightInv
<1>4. FlightInv'
  BY <1>1, <1>3 DEF KeyInv, FlightInv
<1>5. EvidenceInv'
  BY <1>1, <1>2, <1>3 DEF KeyInv, EvidenceInv, KeyOf
<1>6. FlightKeyInv'
  BY <1>1, <1>3 DEF KeyInv, FlightKeyInv, KeyOf
<1>7. OneRecordPerKey'
  BY <1>1 DEF KeyInv, FlightKeyInv, OneRecordPerKey, KeyOf
<1> QED
  BY <1>4, <1>5, <1>6, <1>7 DEF KeyInv

\* Initially there is no attempt.
LEMMA KeyInit == Init => KeyInv
BY DEF Init, KeyInv, FlightInv, EvidenceInv, FlightKeyInv, OneRecordPerKey

\* Every step preserves the invariant, crashes and stolen locks included.
LEMMA KeyStep == KeyInv /\ [Next]_vars => KeyInv'
<1> SUFFICES ASSUME KeyInv, [Next]_vars PROVE KeyInv'
  OBVIOUS
<1>1. ASSUME NEW p \in Proc, StartRun(p) \/ StartFinalize(p) \/ Crash(p)
      PROVE  KeyInv'
  <2>1. CASE StartRun(p) \/ StartFinalize(p)
    BY <2>1, QuietStep DEF StartRun, StartFinalize, ledger
  <2>2. CASE Crash(p)
    BY <2>2, EndStep DEF Crash, ledger
  <2> QED
    BY <1>1, <2>1, <2>2
<1>2. ASSUME NEW p \in Proc, Locking(p)
      PROVE  KeyInv'
  <2>1. attempts' = attempts /\ evidence' = evidence
    BY <1>2 DEF Locking, TryLock, Inspect, UnlinkStale, Release, ledger
  <2>2. active' = active \/ End(p)
    BY <1>2 DEF Locking, TryLock, Inspect, UnlinkStale, Release, local
  <2> QED
    BY <2>1, <2>2, QuietStep, EndStep
<1>3. ASSUME NEW p \in Proc, Running(p)
      PROVE  KeyInv'
  <2>1. CASE CheckWave(p)
    <3>1. attempts' = attempts /\ evidence' = evidence /\ (active' = active \/ End(p))
      BY <2>1 DEF CheckWave, ledger, local
    <3> QED
      BY <3>1, QuietStep, EndStep
  <2>2. CASE ReadRetryable(p) \/ PlanJobs(p) \/ CancelJobs(p) \/ FinishRun(p)
    <3>1. attempts' = attempts /\ evidence' = evidence /\ active' = active
      BY <2>2 DEF ReadRetryable, PlanJobs, CancelJobs, FinishRun, ledger, local
    <3> QED
      BY <3>1, QuietStep
  <2>3. CASE WriteEvidence(p)
    BY <2>3, WriteEvidenceStep
  <2>4. CASE WriteAttempt(p)
    BY <2>4, WriteAttemptStep
  <2>5. CASE LoseAttempt(p)
    <3>1. PICK a \in active[p] : active' = [active EXCEPT ![p] = @ \ {a}]
      BY <2>5 DEF LoseAttempt
    <3>2. attempts' = attempts /\ evidence' = evidence
      BY <2>5 DEF LoseAttempt, ledger
    <3> QED
      BY <3>1, <3>2, DropStep
  <2> QED
    BY <1>3, <2>1, <2>2, <2>3, <2>4, <2>5 DEF Running
<1>4. ASSUME NEW p \in Proc, Finalizing(p)
      PROVE  KeyInv'
  <2>1. attempts' = attempts /\ evidence' = evidence
    BY <1>4 DEF Finalizing, CheckProtocol, LoadLedger, WriteAssessment, Conclude, LinkSource,
       LinkManifest, CheckThreshold, LinkMarker, ledger
  <2>2. active' = active \/ End(p)
    BY <1>4 DEF Finalizing, CheckProtocol, LoadLedger, WriteAssessment, Conclude, LinkSource,
       LinkManifest, CheckThreshold, LinkMarker, local
  <2> QED
    BY <2>1, <2>2, QuietStep, EndStep
<1>5. CASE UNCHANGED vars
  BY <1>5, QuietStep DEF vars, ledger, local
<1> QED
  BY <1>1, <1>2, <1>3, <1>4, <1>5 DEF Next, Step

\* An attempt identity names one attempt, stolen lock or not.
THEOREM IdentityIsExclusive == Spec => []OneRecordPerKey
<1>1. Init => KeyInv
  BY KeyInit
<1>2. KeyInv /\ [Next]_vars => KeyInv'
  BY KeyStep
<1>3. KeyInv => OneRecordPerKey
  BY DEF KeyInv
<1> QED
  BY <1>1, <1>2, <1>3, PTL DEF Spec

(***************************************************************************)
(* The variables keep their types, numbers of attempts included            *)
(***************************************************************************)
\* There are finitely many problems.
LEMMA ProblemsFinite ==
    /\ IsFiniteSet(Problems)
    /\ Problems \subseteq Nat
    /\ Chunk \subseteq Nat
    /\ \A S \in SUBSET Problems : /\ IsFiniteSet(S)
                                  /\ Cardinality(S) \in 0..Cardinality(Problems)
<1> DEFINE All == {Chunks[c] : c \in Chunk}
<1>1. Chunk = 1..Len(Chunks) /\ Len(Chunks) \in Nat /\ Chunks \in [Chunk -> SUBSET Nat \ {{}}]
  BY PlanAssumption DEF Chunk
<1>2. IsFiniteSet(Chunk)
  BY <1>1, FS_Interval
<1>3. Chunks \in Surjection(Chunk, All)
  BY <1>1 DEF Surjection
<1>4. IsFiniteSet(All)
  BY <1>2, <1>3, FS_Surjection
<1>5. \A T \in All : IsFiniteSet(T)
  BY PlanAssumption DEF Chunk
<1>6. IsFiniteSet(Problems)
  <2> HIDE DEF All
  <2>1. IsFiniteSet(UNION All)
    BY <1>4, <1>5, FS_UNION
  <2> QED
    BY <2>1 DEF Problems, All
<1>7. ASSUME NEW S \in SUBSET Problems
      PROVE  IsFiniteSet(S) /\ Cardinality(S) \in 0..Cardinality(Problems)
  BY <1>6, FS_Subset, FS_CardinalityType
<1>8. Problems \subseteq Nat /\ Chunk \subseteq Nat
  BY <1>1 DEF Problems
<1> QED
  BY <1>6, <1>7, <1>8

\* The latest attempt on a chunk exists.
LEMMA LatestExists ==
    ASSUME NEW H, H # {}, IsFiniteSet(H), \A a \in H : a.number \in Nat
    PROVE  \E a \in H : \A b \in H : b.number <= a.number
<1> DEFINE Above(a) == {b \in H : a.number < b.number}
           All == {Above(a) : a \in H}
<1>1. IsWellFoundedOn(StrictSubsetOrdering(H), SUBSET H)
  BY FS_StrictSubsetOrderingWellFounded, FS_FiniteSubsetsOfFinite
<1>2. All \subseteq SUBSET H /\ All # {}
  OBVIOUS
<1>3. PICK M \in All : \A T \in All : <<T, M>> \notin StrictSubsetOrdering(H)
  <2> HIDE DEF All
  <2> QED
    BY <1>1, <1>2, WFMin
<1>4. PICK a \in H : M = Above(a)
  OBVIOUS
<1>5. ASSUME NEW b \in H PROVE b.number <= a.number
  <2>1. SUFFICES ASSUME a.number < b.number PROVE FALSE
    OBVIOUS
  <2>2. Above(b) \subseteq Above(a) /\ b \in Above(a) /\ b \notin Above(b)
    BY <2>1
  <2>3. <<Above(b), M>> \notin StrictSubsetOrdering(H)
    BY <1>3
  <2> QED
    BY <1>4, <2>2, <2>3 DEF StrictSubsetOrdering
<1> QED
  BY <1>5

\* A set of numbers that is not empty has a least one.
LEMMA LeastExists ==
    ASSUME NEW S \in SUBSET Nat, S # {}
    PROVE  \E m \in S : \A n \in S : m <= n
<1> DEFINE Below(m) == {n \in S : n < m}
<1>1. PICK t \in S : TRUE
  OBVIOUS
<1>2. \A n \in S : n \in Nat
  OBVIOUS
<1> DEFINE H == {n \in S : n <= t}
           All == {Below(m) : m \in H}
<1>3. IsFiniteSet(H)
  <2>1. H \in SUBSET Nat /\ t \in Nat /\ \A s \in H : s <= t
    BY <1>2
  <2> QED
    BY <2>1, FS_BoundedSetOfNaturals
<1>4. IsWellFoundedOn(StrictSubsetOrdering(H), SUBSET H)
  BY <1>3, FS_StrictSubsetOrderingWellFounded, FS_FiniteSubsetsOfFinite
<1>5. All \subseteq SUBSET H /\ All # {}
  <2>1. \A m \in H : \A n \in Below(m) : n \in H
    BY <1>2
  <2>2. t \in H
    BY <1>2
  <2> QED
    BY <2>1, <2>2
<1>6. PICK M \in All : \A T \in All : <<T, M>> \notin StrictSubsetOrdering(H)
  <2> HIDE DEF All, H
  <2> QED
    BY <1>4, <1>5, WFMin
<1>7. PICK m \in H : M = Below(m)
  OBVIOUS
<1>8. ASSUME NEW n \in S PROVE m <= n
  <2>1. SUFFICES ASSUME n < m PROVE FALSE
    OBVIOUS
  <2>2. n \in H
    BY <1>2, <2>1
  <2>3. Below(n) \subseteq Below(m) /\ n \in Below(m) /\ n \notin Below(n)
    <3>1. m \in Nat /\ n \in Nat
      BY <1>2, <1>7
    <3>2. \A o \in S : o < n => o < m
      BY <1>2, <2>1, <3>1
    <3>3. ~(n < n)
      BY <3>1
    <3> QED
      BY <2>1, <3>2, <3>3
  <2>4. <<Below(n), M>> \notin StrictSubsetOrdering(H)
    BY <1>6, <2>2
  <2>5. Below(n) \in SUBSET H /\ Below(m) \in SUBSET H
    <3>1. Below(n) \in All /\ Below(m) \in All
      BY <2>2
    <3> QED
      BY <1>5, <3>1
  <2> QED
    BY <1>7, <2>3, <2>4, <2>5 DEF StrictSubsetOrdering
<1> QED
  BY <1>8

\* The first of a set of keys is one of them.
LEMMA FirstIs ==
    ASSUME NEW S \in SUBSET Key, S # {}
    PROVE  First(S) \in S
<1> DEFINE Cs == {k[1] : k \in S}
<1>1. \A k \in S : k[1] \in Nat /\ k[2] \in Nat /\ k = <<k[1], k[2]>>
  <2>1. S \subseteq Nat \X Nat
    BY ProblemsFinite DEF Key
  <2> QED
    BY <2>1
<1>2. Cs \in SUBSET Nat /\ Cs # {}
  BY <1>1
<1>3. PICK c \in Cs : \A d \in Cs : c <= d
  <2> HIDE DEF Cs
  <2> QED
    BY <1>2, LeastExists
<1> DEFINE Ns == {n \in Nat : <<c, n>> \in S}
<1>4. Ns \in SUBSET Nat /\ Ns # {}
  BY <1>1
<1>5. PICK n \in Ns : \A m \in Ns : n <= m
  <2> HIDE DEF Ns
  <2> QED
    BY <1>4, LeastExists
<1>6. ASSUME NEW j \in S PROVE ~Before(j, <<c, n>>)
  <2>1. j[1] \in Nat /\ j[2] \in Nat /\ c \in Nat /\ n \in Nat /\ c <= j[1]
    BY <1>1, <1>3
  <2>2. j[1] = c => n <= j[2]
    BY <1>1, <1>5
  <2> QED
    BY <2>1, <2>2 DEF Before
<1>7. <<c, n>> \in S
  OBVIOUS
<1> QED
  BY <1>6, <1>7 DEF First

\* The types with what they rest on: finitely many attempts, and only what
\* has raw files is assessed.
TypeInv ==
    /\ TypeOK
    /\ IsFiniteSet(attempts)
    /\ \A p \in Proc : todo[p] \subseteq evidence

\* The latest attempt on a chunk that has one is one of them, the last by number.
LEMMA LatestIs ==
    ASSUME TypeInv, NEW c \in Chunk, History(c) # {}
    PROVE  /\ IsFiniteSet(History(c))
           /\ Latest(c) \in History(c)
           /\ \A b \in History(c) : b.number <= Latest(c).number
<1>1. History(c) \subseteq attempts /\ \A a \in History(c) : a.number \in Nat \ {0}
  BY DEF TypeInv, TypeOK, History, Attempt
<1>2. IsFiniteSet(History(c))
  BY <1>1, FS_Subset DEF TypeInv
<1>3. \E a \in History(c) : \A b \in History(c) : b.number <= a.number
  BY <1>1, <1>2, LatestExists
<1> QED
  BY <1>2, <1>3 DEF Latest

\* The number of the next attempt on a chunk is a number.
LEMMA NextNumberTyped ==
    ASSUME TypeInv, NEW c \in Chunk
    PROVE  NextNumber(c) \in Nat \ {0}
<1>1. CASE History(c) = {}
  BY <1>1 DEF NextNumber
<1>2. CASE History(c) # {}
  <2>1. \A a \in History(c) : a.number \in Nat \ {0}
    BY DEF TypeInv, TypeOK, History, Attempt
  <2> QED
    BY <1>2, <2>1, LatestIs DEF NextNumber
<1> QED
  BY <1>1, <1>2

\* A group is a distance from the next number and some rows of the chunk.
LEMMA GroupsTyped ==
    ASSUME NEW c \in Chunk, NEW g \in Groups(c)
    PROVE  g[1] \in Nat /\ g[2] \subseteq Chunks[c] /\ g[2] \subseteq Problems
<1>1. Chunks[c] \subseteq Problems
  BY DEF Problems
<1>2. CASE g = <<0, Chunks[c]>>
  BY <1>1, <1>2
<1>3. CASE \E n \in 0..((Cardinality(Rows(c)) - 1) \div RepairSize) : g = <<n, Group(Rows(c), n)>>
  <2>1. PICK n \in 0..((Cardinality(Rows(c)) - 1) \div RepairSize) : g = <<n, Group(Rows(c), n)>>
    BY <1>3
  <2>2. Group(Rows(c), n) \subseteq Chunks[c]
    BY DEF Group, Rows
  <2>3. Rows(c) \in SUBSET Problems
    BY <1>1 DEF Rows
  <2>4. Cardinality(Rows(c)) \in Int /\ RepairSize \in Nat \ {0}
    BY <2>3, ProblemsFinite, LimitAssumption, FS_CardinalityType
  <2>5. n \in Nat
    BY <2>4
  <2> QED
    BY <1>1, <2>1, <2>2, <2>5
<1> QED
  BY <1>2, <1>3 DEF Groups

\* What is planned are jobs.
LEMMA PlannedTyped ==
    ASSUME TypeInv, NEW p \in Proc
    PROVE  Planned(p) \subseteq Job
<1>1. ASSUME NEW c \in Chunk, NEW j \in JobsOf(c)
      PROVE  j \in Job
  <2>1. PICK g \in Groups(c) : j = [chunk |-> c, number |-> NextNumber(c) + g[1], ids |-> g[2]]
    BY DEF JobsOf
  <2>2. NextNumber(c) + g[1] \in Nat \ {0}
    BY GroupsTyped, NextNumberTyped
  <2> QED
    BY GroupsTyped, <2>1, <2>2 DEF Job
<1>2. Jobs \subseteq Job
  BY <1>1 DEF Jobs
<1> QED
  BY <1>2 DEF Planned

\* What is accepted is among the problems.
LEMMA CountedTyped ==
    ASSUME TypeInv
    PROVE  Cardinality(Accepted) \in 0..Cardinality(Problems)
<1>1. Accepted \in SUBSET Problems
  BY DEF TypeInv, TypeOK, Accepted, Graded, Attempt
<1> QED
  BY <1>1, ProblemsFinite

\* The types of what a step assigns.
LEMMA IdleTyped == Idle \in Invocation
<1>1. Cardinality(Problems) \in Nat
  BY ProblemsFinite, FS_CardinalityType
<1> QED
  BY <1>1 DEF Idle, Invocation

\* A call that ends gives up its jobs.
LEMMA EndTyped ==
    ASSUME TypeInv, NEW p \in Proc, End(p)
    PROVE  /\ pc' \in [Proc -> Labels]
           /\ call' \in [Proc -> Invocation]
           /\ queue' \in [Proc -> SUBSET Job]
           /\ active' \in [Proc -> SUBSET Attempt]
           /\ todo' \in [Proc -> SUBSET Key]
           /\ aborted' \in [Proc -> BOOLEAN]
           /\ \A q \in Proc : todo'[q] \subseteq todo[q]
BY IdleTyped DEF TypeInv, TypeOK, End, Goto, Labels

\* The types in the initial states.
LEMMA TypeInit == Init => TypeInv
<1> SUFFICES ASSUME Init PROVE TypeInv
  OBVIOUS
<1>1. call \in [Proc -> Invocation]
  BY IdleTyped DEF Init
<1>2. IsFiniteSet(attempts) /\ \A p \in Proc : todo[p] \subseteq evidence
  BY FS_EmptySet DEF Init
<1>3. pc \in [Proc -> Labels] /\ aborted \in [Proc -> BOOLEAN]
  BY DEF Init, Labels
<1>4. queue \in [Proc -> SUBSET Job] /\ active \in [Proc -> SUBSET Attempt] /\ todo \in [Proc -> SUBSET Key]
  BY DEF Init
<1> QED
  BY <1>1, <1>2, <1>3, <1>4 DEF Init, TypeOK, TypeInv

\* A call that does not recover a lock a second time.
LEMMA Unrecovered ==
    ASSUME NEW calls \in [Proc -> Invocation], NEW p \in Proc
    PROVE  [calls EXCEPT ![p].recover = FALSE] \in [Proc -> Invocation]
<1>1. [calls[p] EXCEPT !.recover = FALSE] \in Invocation
  BY DEF Invocation
<1> QED
  BY <1>1

\* Starting calls, and the lock.
LEMMA TypeOutside ==
    ASSUME TypeInv, NEW p \in Proc,
           StartRun(p) \/ StartFinalize(p) \/ Crash(p) \/ Locking(p)
    PROVE  TypeInv'
<1> USE DEF TypeInv
<1>0. call \in [Proc -> Invocation]
  BY DEF TypeOK
<1>1. CASE StartRun(p)
  <2>1. PICK k \in Limits, r \in BOOLEAN :
          call' = [call EXCEPT ![p] = [Idle EXCEPT !.kind = "run", !.limit = k, !.recover = r]]
    BY <1>1 DEF StartRun
  <2>2. [Idle EXCEPT !.kind = "run", !.limit = k, !.recover = r] \in Invocation
    BY IdleTyped DEF Invocation
  <2>3. call' \in [Proc -> Invocation]
    BY <2>1, <2>2 DEF TypeOK
  <2>4. pc' \in [Proc -> Labels]
    BY <1>1 DEF StartRun, Goto, TypeOK, Labels
  <2> QED
    BY <1>1, <2>3, <2>4 DEF StartRun, TypeOK, ledger
<1>2. CASE StartFinalize(p)
  <2>1. PICK r \in BOOLEAN :
          call' = [call EXCEPT ![p] = [Idle EXCEPT !.kind = "finalize", !.recover = r]]
    BY <1>2 DEF StartFinalize
  <2>2. [Idle EXCEPT !.kind = "finalize", !.recover = r] \in Invocation
    BY IdleTyped DEF Invocation
  <2>3. call' \in [Proc -> Invocation]
    BY <2>1, <2>2 DEF TypeOK
  <2>4. pc' \in [Proc -> Labels]
    BY <1>2 DEF StartFinalize, Goto, TypeOK, Labels
  <2> QED
    BY <1>2, <2>3, <2>4 DEF StartFinalize, TypeOK, ledger
<1>3. CASE Crash(p)
  BY <1>3, EndTyped DEF Crash, TypeOK, ledger
<1>4. CASE TryLock(p)
  <2>1. CASE call' = [call EXCEPT ![p].recover = FALSE] /\ UNCHANGED <<queue, active, aborted, todo>>
             /\ lock' = p /\ Goto(p, IF call[p].kind = "run" THEN "plan" ELSE "load")
    <3>1. call' \in [Proc -> Invocation]
      BY <1>0, <2>1, Unrecovered
    <3>2. pc' \in [Proc -> Labels]
      BY <2>1 DEF TypeOK, Goto, Labels
    <3> QED
      BY <1>4, <2>1, <3>1, <3>2 DEF TryLock, TypeOK, ledger
  <2>2. CASE Goto(p, "inspect") /\ UNCHANGED <<lock, local>>
    BY <1>4, <2>2 DEF TryLock, TypeOK, Goto, ledger, local, Labels
  <2>3. CASE End(p) /\ UNCHANGED lock
    BY <1>4, <2>3, EndTyped DEF TryLock, TypeOK, ledger
  <2> QED
    BY <1>4, <2>1, <2>2, <2>3 DEF TryLock
<1>5. CASE Inspect(p)
  BY <1>5, EndTyped DEF Inspect, TypeOK, Goto, ledger, local, Labels
<1>6. CASE UnlinkStale(p)
  <2>1. CASE End(p)
    BY <1>6, <2>1, EndTyped DEF UnlinkStale, TypeOK, ledger
  <2>2. CASE Goto(p, "lock") /\ call' = [call EXCEPT ![p].recover = FALSE]
             /\ UNCHANGED <<queue, active, aborted, todo>>
    <3>1. pc' \in [Proc -> Labels]
      BY <2>2 DEF TypeOK, Goto, Labels
    <3>2. call' \in [Proc -> Invocation]
      BY <1>0, <2>2, Unrecovered
    <3> QED
      BY <1>6, <2>2, <3>1, <3>2 DEF UnlinkStale, TypeOK, ledger
  <2> QED
    BY <1>6, <2>1, <2>2 DEF UnlinkStale
<1>7. CASE Release(p)
  BY <1>7, EndTyped DEF Release, TypeOK, Goto, ledger, local, Labels
<1> QED
  BY <1>1, <1>2, <1>3, <1>4, <1>5, <1>6, <1>7 DEF Locking

\* Runs.
LEMMA TypeRunning ==
    ASSUME TypeInv, NEW p \in Proc, Running(p)
    PROVE  TypeInv'
<1> USE DEF TypeInv
<1>1. CASE CheckWave(p)
  BY <1>1, EndTyped DEF CheckWave, TypeOK, Goto, ledger, local, Labels
<1>2. CASE ReadRetryable(p)
  BY <1>2 DEF ReadRetryable, Retryable, TypeOK, Goto, ledger, Labels, Invocation
<1>3. CASE PlanJobs(p)
  <2>1. call' \in [Proc -> Invocation]
    <3>1. [Idle EXCEPT !.kind = "run"] \in Invocation
      BY IdleTyped DEF Invocation
    <3> QED
      BY <1>3, <3>1 DEF PlanJobs, TypeOK
  <2>2. pc' \in [Proc -> Labels] /\ queue' \in [Proc -> SUBSET Job]
    BY <1>3, PlannedTyped DEF PlanJobs, TypeOK, Goto, Labels
  <2> QED
    BY <1>3, <2>1, <2>2 DEF PlanJobs, TypeOK, ledger
<1>4. CASE WriteEvidence(p)
  <2>1. PICK job \in queue[p] :
          /\ queue' = [queue EXCEPT ![p] = @ \ {job}]
          /\ \/ /\ evidence' = evidence \cup {KeyOf(job)}
                /\ \E a \in Answers(job) : active' = [active EXCEPT ![p] = @ \cup {a}]
                /\ UNCHANGED aborted
             \/ /\ aborted' = [aborted EXCEPT ![p] = TRUE]
                /\ UNCHANGED <<evidence, active>>
    BY <1>4 DEF WriteEvidence
  <2>2. job \in Job /\ KeyOf(job) \in Key
    BY DEF TypeOK, Job, KeyOf, Key
  <2>3. Answers(job) \subseteq Attempt
    BY <2>2 DEF Answers, Attempt, Job
  <2>4. queue' \in [Proc -> SUBSET Job]
    BY <2>1 DEF TypeOK
  <2>5. evidence' \subseteq Key /\ evidence \subseteq evidence'
    BY <2>1, <2>2 DEF TypeOK
  <2>6. active' \in [Proc -> SUBSET Attempt] /\ aborted' \in [Proc -> BOOLEAN]
    BY <2>1, <2>3 DEF TypeOK
  <2> QED
    BY <1>4, <2>4, <2>5, <2>6 DEF WriteEvidence, TypeOK
<1>5. CASE WriteAttempt(p)
  <2>1. PICK a \in active[p] : attempts' = attempts \cup {a} /\ active' = [active EXCEPT ![p] = @ \ {a}]
    BY <1>5 DEF WriteAttempt
  <2>2. IsFiniteSet(attempts')
    BY <2>1, FS_AddElement
  <2>3. attempts' \subseteq Attempt /\ active' \in [Proc -> SUBSET Attempt]
    BY <2>1 DEF TypeOK
  <2> QED
    BY <1>5, <2>2, <2>3 DEF WriteAttempt, TypeOK
<1>6. CASE LoseAttempt(p)
  BY <1>6 DEF LoseAttempt, TypeOK, ledger
<1>7. CASE CancelJobs(p)
  BY <1>7 DEF CancelJobs, TypeOK, ledger
<1>8. CASE FinishRun(p)
  BY <1>8 DEF FinishRun, TypeOK, Goto, ledger, local, Labels
<1> QED
  BY <1>1, <1>2, <1>3, <1>4, <1>5, <1>6, <1>7, <1>8 DEF Running

\* Finalizers.
LEMMA TypeFinalizing ==
    ASSUME TypeInv, KeyInv, NEW p \in Proc, Finalizing(p)
    PROVE  TypeInv'
<1> USE DEF TypeInv
<1>1. CASE CheckProtocol(p)
  BY <1>1, EndTyped DEF CheckProtocol, TypeOK, Goto, ledger, local, Labels
<1>2. CASE LoadLedger(p)
  <2>1. KeysOf(Ungraded) \subseteq evidence
    BY DEF KeyInv, EvidenceInv, KeysOf, Ungraded
  <2>2. todo' \in [Proc -> SUBSET Key] /\ \A q \in Proc : todo'[q] \subseteq evidence
    BY <1>2, <2>1 DEF LoadLedger, TypeOK
  <2> QED
    BY <1>2, <2>2 DEF LoadLedger, TypeOK, Goto, ledger, Labels
<1>3. CASE WriteAssessment(p)
  <2>1. First(todo[p]) \in todo[p]
    BY <1>3, FirstIs DEF WriteAssessment, TypeOK
  <2> QED
    BY <1>3, <2>1 DEF WriteAssessment, TypeOK, Goto, Labels
<1>4. CASE Conclude(p)
  <2>1. pc' \in [Proc -> Labels]
    BY <1>4 DEF Conclude, TypeOK, Goto, Labels
  <2>2. call' \in [Proc -> Invocation]
    <3>1. CASE call' = call
      BY <3>1 DEF TypeOK
    <3>2. CASE call' = [call EXCEPT ![p].complete = FALSE, ![p].counted = Cardinality(Accepted)]
      <4> DEFINE n == Cardinality(Accepted)
                 c == [call[p] EXCEPT !.complete = FALSE, !.counted = n]
      <4>1. n \in 0..Cardinality(Problems)
        BY CountedTyped
      <4> HIDE DEF n
      <4>2. c \in Invocation
        BY <4>1 DEF TypeOK, Invocation
      <4>3. call' = [call EXCEPT ![p] = c]
        BY <3>2 DEF n, TypeOK
      <4> HIDE DEF c
      <4> QED
        BY <4>2, <4>3 DEF TypeOK
    <3> QED
      BY <1>4, <3>1, <3>2 DEF Conclude
  <2> QED
    BY <1>4, <2>1, <2>2 DEF Conclude, TypeOK, ledger
<1>5. CASE LinkSource(p) \/ LinkManifest(p)
  BY <1>5 DEF LinkSource, LinkManifest, TypeOK, Goto, local, Labels
<1>6. CASE CheckThreshold(p)
  BY <1>6, EndTyped DEF CheckThreshold, TypeOK, Goto, ledger, local, Labels
<1>7. CASE LinkMarker(p)
  BY <1>7, EndTyped DEF LinkMarker, TypeOK
<1> QED
  BY <1>1, <1>2, <1>3, <1>4, <1>5, <1>6, <1>7 DEF Finalizing

\* Every step keeps the types.
LEMMA TypeStep == TypeInv /\ KeyInv /\ [Next]_vars => TypeInv'
<1> SUFFICES ASSUME TypeInv, KeyInv, [Next]_vars PROVE TypeInv'
  OBVIOUS
<1>1. CASE UNCHANGED vars
  BY <1>1 DEF TypeInv, TypeOK, vars, ledger, local
<1> QED
  BY <1>1, TypeOutside, TypeRunning, TypeFinalizing DEF Next, Step

\* The variables keep their types, for any plan, profile and number of
\* operators: attempt numbers are numbers, and only what has evidence is graded.
THEOREM TypeCorrect == Spec => []TypeOK
<1>1. Init => TypeInv /\ KeyInv
  BY TypeInit, KeyInit
<1>2. TypeInv /\ KeyInv /\ [Next]_vars => (TypeInv /\ KeyInv)'
  BY TypeStep, KeyStep
<1>3. TypeInv => TypeOK
  BY DEF TypeInv
<1> QED
  BY <1>1, <1>2, <1>3, PTL DEF Spec

(***************************************************************************)
(* What the plan lock protects                                             *)
(***************************************************************************)
\* Where a call holds the plan lock.
Holding == {"plan", "execute", "load", "assess", "link_source", "link_manifest", "release"}

\* A call that works under the lock owns it, unless a live lock was unlinked.
LockInv == ~stolen => \A p \in Proc : pc[p] \in Holding => lock = p

\* Jobs exist only while a run executes them.
QueueInv == \A p \in Proc : pc[p] # "execute" => queue[p] = {} /\ active[p] = {}

\* The label of a call after each of its steps, and what a step leaves alone.
LEMMA OnlyOwnState ==
    ASSUME TypeOK, NEW p \in Proc, StartRun(p) \/ StartFinalize(p) \/ Step(p) \/ Crash(p),
           NEW q \in Proc, q # p
    PROVE  /\ pc'[q] = pc[q] /\ call'[q] = call[q] /\ queue'[q] = queue[q]
           /\ active'[q] = active[q] /\ todo'[q] = todo[q] /\ aborted'[q] = aborted[q]
<1> USE DEF TypeOK, Goto, End, ledger, local
<1>1. CASE StartRun(p) \/ StartFinalize(p) \/ Crash(p)
  BY <1>1 DEF StartRun, StartFinalize, Crash
<1>2. CASE Locking(p)
  BY <1>2 DEF Locking, TryLock, Inspect, UnlinkStale, Release
<1>3. CASE Running(p)
  <2>1. CASE CheckWave(p) \/ ReadRetryable(p) \/ PlanJobs(p) \/ FinishRun(p) \/ CancelJobs(p)
    BY <2>1 DEF CheckWave, ReadRetryable, PlanJobs, FinishRun, CancelJobs
  <2>2. CASE WriteEvidence(p) \/ WriteAttempt(p) \/ LoseAttempt(p)
    BY <2>2 DEF WriteEvidence, WriteAttempt, LoseAttempt
  <2> QED
    BY <1>3, <2>1, <2>2 DEF Running
<1>4. CASE Finalizing(p)
  BY <1>4 DEF Finalizing, CheckProtocol, LoadLedger, WriteAssessment, Conclude, LinkSource,
     LinkManifest, CheckThreshold, LinkMarker
<1> QED
  BY <1>1, <1>2, <1>3, <1>4 DEF Step

\* The lock in the initial states.
LEMMA HoldInit == Init => LockInv /\ QueueInv
BY DEF Init, LockInv, QueueInv, Holding

\* A step that leaves the lock alone and enters no new critical section.
LEMMA LockQuiet ==
    ASSUME LockInv, stolen' = stolen, lock' = lock, NEW p \in Proc,
           \A q \in Proc : q # p => pc'[q] = pc[q],
           pc'[p] \in Holding => pc[p] \in Holding
    PROVE  LockInv'
BY DEF LockInv

\* The steps on the lock itself.
LEMMA LockMoves ==
    ASSUME TypeOK, LockInv, NEW p \in Proc, Locking(p) \/ Crash(p)
    PROVE  LockInv'
<1> USE DEF TypeOK, Goto
<1>1. \A q \in Proc : q # p => pc'[q] = pc[q]
  BY OnlyOwnState DEF Step
<1>2. CASE TryLock(p)
  <2>1. CASE lock = "free" /\ lock' = p
    <3>1. \A q \in Proc : ~stolen => pc[q] \notin Holding
      BY <2>1, ProcAssumption DEF LockInv
    <3> QED
      BY <1>1, <1>2, <2>1, <3>1 DEF LockInv, TryLock
  <2>2. CASE ~(lock = "free" /\ lock' = p)
    <3>1. lock' = lock /\ stolen' = stolen /\ pc'[p] \in {"inspect", "idle"}
      BY <1>2, <2>2 DEF TryLock, End
    <3> QED
      BY <1>1, <3>1, LockQuiet DEF Holding
  <2> QED
    BY <2>1, <2>2
<1>3. CASE Inspect(p)
  <2>1. lock' = lock /\ stolen' = stolen /\ pc'[p] \in {"recheck", "unlink", "idle"}
    BY <1>3 DEF Inspect, End
  <2> QED
    BY <1>1, <2>1, LockQuiet DEF Holding
<1>4. CASE UnlinkStale(p)
  <2>1. pc'[p] \in {"lock", "idle"} /\ stolen' = (stolen \/ lock \in Proc)
    BY <1>4 DEF UnlinkStale, End
  <2>2. SUFFICES ASSUME ~stolen, lock \notin Proc PROVE LockInv'
    BY <2>1 DEF LockInv
  <2>3. \A q \in Proc : pc[q] \notin Holding
    BY <2>2 DEF LockInv
  <2> QED
    BY <1>1, <2>1, <2>3 DEF LockInv, Holding
<1>5. CASE Release(p)
  <2>1. pc[p] = "release" /\ pc'[p] \in {"marker_check", "idle"} /\ stolen' = stolen
    BY <1>5 DEF Release, End
  <2>2. \A q \in Proc : ~stolen /\ pc[q] \in Holding => q = p
    BY <2>1 DEF LockInv, Holding
  <2> QED
    BY <1>1, <2>1, <2>2 DEF LockInv, Holding
<1>6. CASE Crash(p)
  <2>1. pc'[p] = "idle" /\ stolen' = stolen /\ lock' = IF lock = p THEN "stale" ELSE lock
    BY <1>6 DEF Crash, End
  <2> QED
    BY <1>1, <2>1 DEF LockInv, Holding
<1> QED
  BY <1>2, <1>3, <1>4, <1>5, <1>6 DEF Locking

\* Every step keeps the exclusion.
LEMMA LockStep == TypeOK /\ LockInv /\ [Next]_vars => LockInv'
<1> SUFFICES ASSUME TypeOK, LockInv, [Next]_vars PROVE LockInv'
  OBVIOUS
<1>1. CASE UNCHANGED vars
  BY <1>1 DEF LockInv, vars, local
<1>2. ASSUME NEW p \in Proc, StartRun(p) \/ StartFinalize(p) \/ Running(p) \/ Finalizing(p)
      PROVE  LockInv'
  <2> USE DEF TypeOK, Goto, Holding
  <2>1. \A q \in Proc : q # p => pc'[q] = pc[q]
    BY <1>2, OnlyOwnState DEF Step
  <2>2. stolen' = stolen /\ lock' = lock
    BY <1>2 DEF StartRun, StartFinalize, Running, CheckWave, ReadRetryable, PlanJobs,
       WriteEvidence, WriteAttempt, LoseAttempt, CancelJobs, FinishRun, Finalizing, CheckProtocol,
       LoadLedger, WriteAssessment, Conclude, LinkSource, LinkManifest, CheckThreshold, LinkMarker
  <2>3. pc'[p] \in Holding => pc[p] \in Holding
    <3>1. CASE StartRun(p) \/ StartFinalize(p)
      BY <3>1 DEF StartRun, StartFinalize
    <3>2. CASE Running(p)
      BY <3>2 DEF Running, CheckWave, ReadRetryable, PlanJobs, WriteEvidence, WriteAttempt,
         LoseAttempt, CancelJobs, FinishRun, End
    <3>3. CASE Finalizing(p)
      BY <3>3 DEF Finalizing, CheckProtocol, LoadLedger, WriteAssessment, Conclude, LinkSource,
         LinkManifest, CheckThreshold, LinkMarker, End
    <3> QED
      BY <1>2, <3>1, <3>2, <3>3
  <2> QED
    BY <2>1, <2>2, <2>3, LockQuiet
<1> QED
  BY <1>1, <1>2, LockMoves DEF Next, Step

\* Every step keeps queues to runs that execute.
LEMMA QueueStep == TypeOK /\ QueueInv /\ [Next]_vars => QueueInv'
<1> SUFFICES ASSUME TypeOK, QueueInv, [Next]_vars PROVE QueueInv'
  OBVIOUS
<1>1. CASE UNCHANGED vars
  BY <1>1 DEF QueueInv, vars, local
<1>2. ASSUME NEW p \in Proc, StartRun(p) \/ StartFinalize(p) \/ Step(p) \/ Crash(p)
      PROVE  QueueInv'
  <2> USE DEF TypeOK, Goto, End, local
  <2>1. SUFFICES ASSUME pc'[p] # "execute" PROVE queue'[p] = {} /\ active'[p] = {}
    BY <1>2, OnlyOwnState DEF QueueInv
  <2>2. CASE StartRun(p) \/ StartFinalize(p) \/ Crash(p)
    BY <2>2 DEF StartRun, StartFinalize, Crash, QueueInv
  <2>3. CASE Locking(p)
    BY <2>3 DEF Locking, TryLock, Inspect, UnlinkStale, Release, QueueInv
  <2>4. CASE Running(p)
    BY <2>1, <2>4 DEF Running, CheckWave, ReadRetryable, PlanJobs, WriteEvidence, WriteAttempt,
       LoseAttempt, CancelJobs, FinishRun, QueueInv
  <2>5. CASE Finalizing(p)
    BY <2>5 DEF Finalizing, CheckProtocol, LoadLedger, WriteAssessment, Conclude, LinkSource,
       LinkManifest, CheckThreshold, LinkMarker, QueueInv
  <2> QED
    BY <1>2, <2>2, <2>3, <2>4, <2>5 DEF Step
<1> QED
  BY <1>1, <1>2 DEF Next

(***************************************************************************)
(* The ledger only grows                                                   *)
(***************************************************************************)
\* Every step adds to the attempts and to the assessments, or leaves them.
LEMMA LedgerGrows ==
    ASSUME NEW p \in Proc, StartRun(p) \/ StartFinalize(p) \/ Step(p) \/ Crash(p)
    PROVE  attempts \subseteq attempts' /\ assessed \subseteq assessed'
<1> USE DEF ledger
<1>1. CASE StartRun(p) \/ StartFinalize(p) \/ Crash(p)
  BY <1>1 DEF StartRun, StartFinalize, Crash
<1>2. CASE Locking(p)
  BY <1>2 DEF Locking, TryLock, Inspect, UnlinkStale, Release
<1>3. CASE Running(p)
  BY <1>3 DEF Running, CheckWave, ReadRetryable, PlanJobs, WriteEvidence, WriteAttempt,
     LoseAttempt, CancelJobs, FinishRun
<1>4. CASE Finalizing(p)
  BY <1>4 DEF Finalizing, CheckProtocol, LoadLedger, WriteAssessment, Conclude, LinkSource,
     LinkManifest, CheckThreshold, LinkMarker
<1> QED
  BY <1>1, <1>2, <1>3, <1>4 DEF Step

\* What is accepted stays accepted.
LEMMA AcceptedGrows ==
    ASSUME attempts \subseteq attempts', assessed \subseteq assessed'
    PROVE  Accepted \subseteq Accepted'
BY DEF Accepted, Graded, KeyOf

(***************************************************************************)
(* A bank is published over a complete ledger                              *)
(***************************************************************************)
\* Before the first half of a bank is linked every problem has been accepted.
BankInv ==
    (bank # "none" \/ \E p \in Proc : pc[p] \in {"link_source", "link_manifest"})
        => Problems \subseteq Accepted

\* Every step keeps a bank complete.
LEMMA BankStep == TypeOK /\ BankInv /\ [Next]_vars => BankInv'
<1> SUFFICES ASSUME TypeOK, BankInv, [Next]_vars PROVE BankInv'
  OBVIOUS
<1>1. CASE UNCHANGED vars
  BY <1>1 DEF BankInv, vars, local, ledger, Accepted, Graded, KeyOf
<1>2. ASSUME NEW p \in Proc, StartRun(p) \/ StartFinalize(p) \/ Step(p) \/ Crash(p)
      PROVE  BankInv'
  <2> USE DEF TypeOK, Goto, End, local, ledger
  <2>1. Accepted \subseteq Accepted'
    BY <1>2, LedgerGrows, AcceptedGrows
  <2>2. (bank' # "none" \/ pc'[p] \in {"link_source", "link_manifest"})
           => bank # "none" \/ pc[p] \in {"link_source", "link_manifest"} \/ Problems = Accepted
    <3>1. CASE StartRun(p) \/ StartFinalize(p) \/ Crash(p)
      BY <3>1 DEF StartRun, StartFinalize, Crash
    <3>2. CASE Locking(p)
      BY <3>2 DEF Locking, TryLock, Inspect, UnlinkStale, Release
    <3>3. CASE Running(p)
      BY <3>3 DEF Running, CheckWave, ReadRetryable, PlanJobs, WriteEvidence, WriteAttempt,
         LoseAttempt, CancelJobs, FinishRun
    <3>4. CASE Finalizing(p)
      BY <3>4 DEF Finalizing, CheckProtocol, LoadLedger, WriteAssessment, Conclude, LinkSource,
         LinkManifest, CheckThreshold, LinkMarker
    <3> QED
      BY <1>2, <3>1, <3>2, <3>3, <3>4 DEF Step
  <2>3. \A q \in Proc : q # p => pc'[q] = pc[q]
    BY <1>2, OnlyOwnState
  <2>4. Problems' = Problems
    BY DEF Problems, Chunk
  <2> QED
    BY <2>1, <2>2, <2>3, <2>4 DEF BankInv
<1> QED
  BY <1>1, <1>2 DEF Next

(***************************************************************************)
(* The protocol of the v5 profile                                          *)
(***************************************************************************)
\* Every chunk was tried and no broken structure waits for its retry.
Resolved == Retryable = {} /\ \A c \in Chunk : History(c) # {}

\* A finalizer on its way from the check to the assessments.
PassedProtocol(p) ==
    \/ pc[p] \in {"load", "assess"}
    \/ pc[p] \in {"lock", "inspect", "recheck", "unlink"} /\ call[p].kind # "run"

\* What was resolved when a finalizer looked, still is when it assesses.
ProtocolInv ==
    /\ \A p \in Proc : pc[p] \in {"wave", "keys"} => call[p].kind = "run"
    /\ assessed # {} => Resolved
    /\ \A p \in Proc : PassedProtocol(p) => Resolved

\* A further attempt on a chunk never makes it retryable again.
LEMMA ResolvedLasts ==
    ASSUME TypeInv, TypeInv', Resolved, attempts \subseteq attempts'
    PROVE  Resolved'
<1>1. \A c \in Chunk : History(c) # {} /\ History(c) \subseteq History(c)'
  BY DEF Resolved, History
<1>2. ASSUME NEW c \in Chunk, Cardinality(History(c)') = 1, Latest(c)'.status = "malformed"
      PROVE  FALSE
  <2>1. /\ IsFiniteSet(History(c)) /\ Latest(c) \in History(c)
    BY <1>1, LatestIs
  <2>2. IsFiniteSet(History(c)')
    BY FS_Subset DEF TypeInv, History
  <2>3. PICK a : History(c)' = {a}
    BY <1>2, <2>2, FS_Singleton
  <2>4. History(c)' = History(c)
    BY <1>1, <2>3
  <2>5. Latest(c)' = Latest(c)
    BY <2>4 DEF Latest
  <2>6. c \in Retryable
    BY <1>2, <2>4, <2>5 DEF Retryable
  <2> QED
    BY <2>6 DEF Resolved
<1>3. Retryable' = {}
  BY <1>2 DEF Retryable
<1> QED
  BY <1>1, <1>3 DEF Resolved

\* Every step on a pilot plan under the v5 profile keeps it.
LEMMA ProtocolStep ==
    TypeInv /\ TypeInv' /\ Profile = "v5" /\ Pilot /\ ProtocolInv /\ [Next]_vars => ProtocolInv'
<1> SUFFICES ASSUME TypeInv, TypeInv', Profile = "v5", Pilot, ProtocolInv, [Next]_vars
             PROVE  ProtocolInv'
  OBVIOUS
<1>1. CASE UNCHANGED vars
  BY <1>1 DEF ProtocolInv, PassedProtocol, Resolved, Retryable, Latest, History, vars, local, ledger
<1>2. ASSUME NEW p \in Proc, StartRun(p) \/ StartFinalize(p) \/ Step(p) \/ Crash(p)
      PROVE  ProtocolInv'
  <2> USE DEF TypeInv, TypeOK, Goto, End, local, ledger
  <2>1. \A q \in Proc : q # p => pc'[q] = pc[q] /\ call'[q] = call[q]
    BY <1>2, OnlyOwnState
  <2>2. Resolved => Resolved'
    BY <1>2, LedgerGrows, ResolvedLasts
  <2>3. /\ pc'[p] \in {"wave", "keys"} => call'[p].kind = "run"
        /\ PassedProtocol(p)' => Resolved
        /\ assessed' # {} => Resolved
    <3>1. CASE StartRun(p)
      <4>1. PICK k \in Limits, r \in BOOLEAN :
              call' = [call EXCEPT ![p] = [Idle EXCEPT !.kind = "run", !.limit = k, !.recover = r]]
        BY <3>1 DEF StartRun
      <4>2. [Idle EXCEPT !.kind = "run", !.limit = k, !.recover = r].kind = "run"
        BY DEF Idle
      <4>3. pc'[p] = "wave" /\ call'[p].kind = "run" /\ assessed' = assessed
        BY <3>1, <4>1, <4>2 DEF StartRun
      <4> QED
        BY <4>3 DEF PassedProtocol, ProtocolInv
    <3>2. CASE StartFinalize(p)
      <4>1. pc'[p] = "protocol" /\ assessed' = assessed
        BY <3>2 DEF StartFinalize
      <4> QED
        BY <4>1 DEF PassedProtocol, ProtocolInv
    <3>3. CASE Crash(p)
      <4>1. pc'[p] = "idle" /\ assessed' = assessed
        BY <3>3 DEF Crash
      <4> QED
        BY <4>1 DEF PassedProtocol, ProtocolInv
    <3>4. CASE Locking(p)
      <4>1. assessed' = assessed
        BY <3>4 DEF Locking, TryLock, Inspect, UnlinkStale, Release
      <4>2. pc[p] \in {"lock", "inspect", "recheck", "unlink", "release"}
        BY <3>4 DEF Locking, TryLock, Inspect, UnlinkStale, Release
      <4>3. CASE pc'[p] \in {"idle", "marker_check", "plan"}
        BY <4>1, <4>3 DEF PassedProtocol, ProtocolInv
      <4>4. CASE pc'[p] \in {"load", "lock", "inspect", "recheck", "unlink"}
        <5>1. pc[p] # "release"
          BY <3>4, <4>4 DEF Locking, TryLock, Inspect, UnlinkStale, Release
        <5>2. call'[p].kind = call[p].kind
          BY <3>4, <4>4 DEF Locking, TryLock, Inspect, UnlinkStale, Release, Invocation
        <5>3. pc'[p] = "load" => call[p].kind # "run"
          BY <3>4, <4>4 DEF Locking, TryLock, Inspect, UnlinkStale, Release
        <5> QED
          BY <4>1, <4>2, <4>4, <5>1, <5>2, <5>3 DEF PassedProtocol, ProtocolInv
      <4> QED
        BY <3>4, <4>3, <4>4 DEF Locking, TryLock, Inspect, UnlinkStale, Release
    <3>5. CASE Running(p)
      <4>1. assessed' = assessed
        BY <3>5 DEF Running, CheckWave, ReadRetryable, PlanJobs, WriteEvidence, WriteAttempt,
           LoseAttempt, CancelJobs, FinishRun
      <4>2. CASE CheckWave(p) \/ ReadRetryable(p)
        <5>1. pc[p] \in {"wave", "keys"} /\ pc'[p] \in {"keys", "lock", "idle"}
          BY <4>2 DEF CheckWave, ReadRetryable
        <5>2. pc'[p] # "idle" => call'[p].kind = call[p].kind
          BY <4>2 DEF CheckWave, ReadRetryable, Invocation
        <5> QED
          BY <4>1, <5>1, <5>2 DEF PassedProtocol, ProtocolInv
      <4>3. CASE ~(CheckWave(p) \/ ReadRetryable(p))
        <5>1. pc'[p] \in {"release", "execute"}
          BY <3>5, <4>3 DEF Running, PlanJobs, WriteEvidence, WriteAttempt, LoseAttempt,
             CancelJobs, FinishRun
        <5> QED
          BY <4>1, <5>1 DEF PassedProtocol, ProtocolInv
      <4> QED
        BY <4>2, <4>3
    <3>6. CASE CheckProtocol(p)
      <4>1. assessed' = assessed /\ (pc'[p] = "idle" \/ (pc'[p] = "lock" /\ Resolved))
        BY <3>6 DEF CheckProtocol, ProtocolResolved, Resolved
      <4> QED
        BY <4>1 DEF PassedProtocol, ProtocolInv
    <3>7. CASE LoadLedger(p) \/ WriteAssessment(p) \/ Conclude(p)
      <4>1. pc[p] \in {"load", "assess"} /\ pc'[p] \in {"assess", "link_source", "release"}
        BY <3>7 DEF LoadLedger, WriteAssessment, Conclude
      <4> QED
        BY <4>1 DEF PassedProtocol, ProtocolInv
    <3>8. CASE LinkSource(p) \/ LinkManifest(p) \/ CheckThreshold(p) \/ LinkMarker(p)
      <4>1. assessed' = assessed /\ pc'[p] \in {"link_manifest", "release", "marker_link", "idle"}
        BY <3>8 DEF LinkSource, LinkManifest, CheckThreshold, LinkMarker
      <4> QED
        BY <4>1 DEF PassedProtocol, ProtocolInv
    <3> QED
      BY <1>2, <3>1, <3>2, <3>3, <3>4, <3>5, <3>6, <3>7, <3>8 DEF Step, Finalizing
  <2>4. ASSUME NEW q \in Proc, q # p, PassedProtocol(q)' PROVE Resolved
    BY <2>1, <2>4 DEF PassedProtocol, ProtocolInv
  <2> QED
    BY <2>1, <2>2, <2>3, <2>4 DEF ProtocolInv
<1> QED
  BY <1>1, <1>2 DEF Next

(***************************************************************************)
(* The jobs a run plans                                                    *)
(***************************************************************************)
\* There are finitely many jobs to plan.
LEMMA JobsFinite == IsFiniteSet(Jobs)
<1>1. ASSUME NEW c \in Chunk PROVE IsFiniteSet(Groups(c))
  <2>1. CASE History(c) = {} \/ Faulty(c)
    <3>1. IsFiniteSet({<<0, Chunks[c]>>})
      BY FS_Singleton
    <3> QED
      BY <2>1, <3>1 DEF Groups
  <2>2. CASE ~(History(c) = {} \/ Faulty(c))
    <3> DEFINE top == (Cardinality(Rows(c)) - 1) \div RepairSize
               f == [g \in 0..top |-> <<g, Group(Rows(c), g)>>]
               G == {<<g, Group(Rows(c), g)>> : g \in 0..top}
    <3>1. Rows(c) \in SUBSET Problems
      BY DEF Rows, Problems
    <3>2. Cardinality(Rows(c)) \in Int /\ RepairSize \in Nat \ {0}
      BY <3>1, ProblemsFinite, LimitAssumption, FS_CardinalityType
    <3>3. 0 \in Int /\ top \in Int
      BY <3>2
    <3> HIDE DEF top
    <3>4. IsFiniteSet(0..top)
      BY <3>3, FS_Interval
    <3>5. f \in Surjection(0..top, G)
      BY DEF Surjection
    <3>6. IsFiniteSet(G)
      BY <3>4, <3>5, FS_Surjection
    <3>7. Groups(c) = G
      BY <2>2 DEF Groups, top
    <3> QED
      BY <3>6, <3>7
  <2> QED
    BY <2>1, <2>2
<1>2. ASSUME NEW c \in Chunk PROVE IsFiniteSet(JobsOf(c))
  <2> DEFINE f == [g \in Groups(c) |-> [chunk |-> c, number |-> NextNumber(c) + g[1], ids |-> g[2]]]
  <2>1. f \in Surjection(Groups(c), JobsOf(c))
    BY DEF Surjection, JobsOf
  <2> QED
    BY <1>1, <2>1, FS_Surjection
<1> DEFINE E == {d \in Chunk : Eligible(d)}
           All == {JobsOf(c) : c \in E}
           h == [c \in E |-> JobsOf(c)]
<1>3. IsFiniteSet(E)
  <2>1. Chunk = 1..Len(Chunks) /\ 1 \in Int /\ Len(Chunks) \in Int
    BY PlanAssumption DEF Chunk
  <2>2. IsFiniteSet(Chunk)
    BY <2>1, FS_Interval
  <2> QED
    BY <2>2, FS_Subset
<1>4. h \in Surjection(E, All)
  BY DEF Surjection
<1>5. IsFiniteSet(All)
  BY <1>3, <1>4, FS_Surjection
<1>6. \A T \in All : IsFiniteSet(T)
  BY <1>2
<1>7. Jobs = UNION All
  BY DEF Jobs
<1> HIDE DEF All, h, E
<1> QED
  BY <1>5, <1>6, <1>7, FS_UNION

\* A planned job is a group of a chunk that is eligible and was reached.
LEMMA PlannedIs ==
    ASSUME TypeInv, NEW p \in Proc, NEW j \in Planned(p)
    PROVE  \E c \in Chunk : /\ Eligible(c) /\ Reached(p, c)
                            /\ \E g \in Groups(c) :
                                  j = [chunk |-> c, number |-> NextNumber(c) + g[1], ids |-> g[2]]
<1>1. j \in Jobs /\ Cardinality({i \in Jobs : Before(KeyOf(i), KeyOf(j))}) < call[p].limit
  BY DEF Planned
<1>2. PICK c \in Chunk : Eligible(c) /\ j \in JobsOf(c)
  BY <1>1 DEF Jobs
<1>3. PICK g \in Groups(c) : j = [chunk |-> c, number |-> NextNumber(c) + g[1], ids |-> g[2]]
  BY <1>2 DEF JobsOf
<1> DEFINE L == {i \in Jobs : i.chunk < c}
           B == {i \in Jobs : Before(KeyOf(i), KeyOf(j))}
<1>4. L \subseteq B
  BY <1>3 DEF Before, KeyOf
<1>5. IsFiniteSet(B) /\ IsFiniteSet(L)
  BY JobsFinite, FS_Subset
<1>6. Cardinality(L) <= Cardinality(B) /\ Cardinality(L) \in Nat /\ Cardinality(B) \in Nat
  BY <1>4, <1>5, FS_Subset, FS_CardinalityType
<1>7. call[p].limit \in Nat
  <2>1. Cardinality(Problems) \in Nat
    BY ProblemsFinite, FS_CardinalityType
  <2> QED
    BY <2>1 DEF TypeInv, TypeOK, Invocation, Limits
<1>8. Cardinality(B) < call[p].limit
  BY <1>1
<1> HIDE DEF L, B
<1>9. Cardinality(L) < call[p].limit
  BY <1>6, <1>7, <1>8
<1>10. Reached(p, c)
  BY <1>9 DEF Reached, L
<1> QED
  BY <1>2, <1>3, <1>10

\* The sole attempt on a chunk is its latest.
LEMMA SoleIsLatest ==
    ASSUME TypeInv, NEW c \in Chunk, Cardinality(History(c)) = 1
    PROVE  History(c) = {Latest(c)}
<1>1. IsFiniteSet(History(c))
  BY FS_Subset DEF TypeInv, History
<1>2. PICK x : History(c) = {x}
  BY <1>1, FS_Singleton
<1> QED
  BY <1>2, LatestIs

\* A chunk whose last answer could not be read is planned only as a retry.
LEMMA FaultyIsRetried ==
    ASSUME TypeInv, NEW p \in Proc, ~Refused(p), NEW c \in Chunk, Eligible(c), Reached(p, c),
           Faulty(c)
    PROVE  /\ c \in call[p].retryable
           /\ History(c) = {Latest(c)}
BY SoleIsLatest DEF Refused, Retries

(***************************************************************************)
(* A broken structure is retried once, as a whole                          *)
(***************************************************************************)
\* What a job or an attempt on a chunk may follow: a further one comes after a
\* first record, and under v5 a first answer that could not be read is followed
\* by one retry of the whole chunk, or by nothing.
FollowsRule(b) ==
    /\ b.number > 1 => \E a \in attempts : a.chunk = b.chunk /\ a.number = 1
    /\ Profile = "v5" =>
          \A a \in attempts :
              (a.chunk = b.chunk /\ a.number = 1 /\ a.status # "parsed" /\ b.number > 1) =>
                  /\ a.status = "malformed"
                  /\ b.number = 2 => b.ids = Chunks[b.chunk]
                  /\ b.number > 2 => \E r \in attempts :
                         KeyOf(r) = <<b.chunk, 2>> /\ r.status = "parsed"

\* The rule holds for records, for jobs in flight and for planned ones; and a
\* key read as retryable had a broken structure.
RetryInv ==
    /\ \A b \in attempts : FollowsRule(b)
    /\ \A p \in Proc : \A b \in active[p] : FollowsRule(b)
    /\ \A p \in Proc : \A b \in queue[p] : FollowsRule(b)
    /\ \A p \in Proc : \A c \in call[p].retryable : \E a \in History(c) : a.status = "malformed"

\* A planned job follows the rule.
LEMMA PlannedFollows ==
    ASSUME TypeInv, OneRecordPerKey, RetryInv, NEW p \in Proc, ~Refused(p), NEW j \in Planned(p)
    PROVE  FollowsRule(j)
<1>1. PICK c \in Chunk :
        /\ Eligible(c) /\ Reached(p, c)
        /\ \E g \in Groups(c) : j = [chunk |-> c, number |-> NextNumber(c) + g[1], ids |-> g[2]]
  BY PlannedIs
<1>2. PICK g \in Groups(c) : j = [chunk |-> c, number |-> NextNumber(c) + g[1], ids |-> g[2]]
  BY <1>1
<1>3. g[1] \in Nat
  BY GroupsTyped
<1>4. CASE History(c) = {}
  <2>1. j.number = 1
    BY <1>2, <1>4 DEF Groups, NextNumber
  <2> QED
    BY <2>1 DEF FollowsRule
<1>5. CASE History(c) # {}
  <2> DEFINE l == Latest(c)
  <2>1. l \in attempts /\ l.chunk = c /\ l.number \in Nat \ {0}
    BY <1>5, LatestIs DEF History, TypeInv, TypeOK, Attempt
  <2>2. j.chunk = c /\ j.number = l.number + 1 + g[1] /\ j.ids = g[2]
    BY <1>2, <1>5 DEF NextNumber
  <2>3. FollowsRule(l)
    BY <2>1 DEF RetryInv
  <2>4. \E a \in attempts : a.chunk = j.chunk /\ a.number = 1
    <3>1. CASE l.number = 1
      BY <2>1, <2>2, <3>1
    <3>2. CASE l.number > 1
      BY <2>1, <2>2, <2>3, <3>2 DEF FollowsRule
    <3> QED
      BY <2>1, <3>1, <3>2
  <2>5. ASSUME Profile = "v5", NEW a \in attempts, a.chunk = j.chunk, a.number = 1,
               a.status # "parsed"
        PROVE  /\ a.status = "malformed"
               /\ j.number = 2 => j.ids = Chunks[j.chunk]
               /\ j.number > 2 => \E r \in attempts :
                      KeyOf(r) = <<j.chunk, 2>> /\ r.status = "parsed"
    <3>1. CASE Faulty(c)
      <4>1. c \in call[p].retryable /\ History(c) = {l}
        BY <1>1, <3>1, FaultyIsRetried
      <4>2. a \in History(c)
        BY <2>2, <2>5 DEF History
      <4>3. a = l
        BY <4>1, <4>2
      <4>4. l.status = "malformed"
        BY <4>1 DEF RetryInv
      <4>5. g = <<0, Chunks[c]>>
        BY <3>1 DEF Groups
      <4>6. j.number = 2 /\ j.ids = Chunks[c]
        BY <2>1, <2>2, <2>5, <4>3, <4>5
      <4> QED
        BY <2>2, <4>3, <4>4, <4>6
    <3>2. CASE ~Faulty(c)
      <4>1. l.status = "parsed"
        BY <1>5, <2>5, <3>2 DEF Faulty
      <4>2. l.number # 1
        BY <2>1, <2>2, <2>5, <4>1 DEF OneRecordPerKey, KeyOf
      <4>3. l.number > 1 /\ j.number > 2
        BY <1>3, <2>1, <2>2, <4>2
      <4>4. /\ a.status = "malformed"
            /\ l.number > 2 => \E r \in attempts :
                   KeyOf(r) = <<l.chunk, 2>> /\ r.status = "parsed"
        BY <2>1, <2>2, <2>3, <2>5, <4>3 DEF FollowsRule
      <4>5. l.number = 2 => KeyOf(l) = <<j.chunk, 2>>
        BY <2>1, <2>2 DEF KeyOf
      <4>6. \E r \in attempts : KeyOf(r) = <<j.chunk, 2>> /\ r.status = "parsed"
        BY <2>1, <2>2, <4>1, <4>3, <4>4, <4>5
      <4> QED
        BY <4>3, <4>4, <4>6
    <3> QED
      BY <3>1, <3>2
  <2> QED
    BY <2>4, <2>5 DEF FollowsRule
<1> QED
  BY <1>4, <1>5

\* The rule outlives a new record, whose key was not recorded before.
LEMMA FollowsLasts ==
    ASSUME NEW b, FollowsRule(b), NEW a, attempts' = attempts \cup {a},
           \A d \in attempts : KeyOf(d) # KeyOf(a)
    PROVE  FollowsRule(b)'
<1>1. b.number > 1 => \E d \in attempts' : d.chunk = b.chunk /\ d.number = 1
  BY DEF FollowsRule
<1>2. ASSUME Profile = "v5", NEW d \in attempts', d.chunk = b.chunk, d.number = 1,
             d.status # "parsed", b.number > 1
      PROVE  /\ d.status = "malformed"
             /\ b.number = 2 => b.ids = Chunks[b.chunk]
             /\ b.number > 2 => \E r \in attempts' :
                    KeyOf(r) = <<b.chunk, 2>> /\ r.status = "parsed"
  <2>1. PICK f \in attempts : f.chunk = b.chunk /\ f.number = 1
    BY <1>2 DEF FollowsRule
  <2>2. d # a
    BY <1>2, <2>1 DEF KeyOf
  <2>3. d \in attempts
    BY <2>2
  <2> QED
    BY <1>2, <2>3 DEF FollowsRule
<1> QED
  BY <1>1, <1>2 DEF FollowsRule, KeyOf

\* A step that writes no record and plans nothing keeps the rule.
LEMMA RetryQuiet ==
    ASSUME RetryInv, attempts' = attempts,
           \A q \in Proc : \A b \in active'[q] : FollowsRule(b),
           \A q \in Proc : \A b \in queue'[q] : FollowsRule(b),
           \A q \in Proc : \A c \in call'[q].retryable : \E a \in History(c) : a.status = "malformed"
    PROVE  RetryInv'
BY DEF RetryInv, FollowsRule, History, KeyOf

\* Every step keeps the rule.
LEMMA RetryStep == TypeInv /\ KeyInv /\ RetryInv /\ [Next]_vars => RetryInv'
<1> SUFFICES ASSUME TypeInv, KeyInv, RetryInv, [Next]_vars PROVE RetryInv'
  OBVIOUS
<1>1. CASE UNCHANGED vars
  BY <1>1, RetryQuiet DEF RetryInv, vars, local, ledger
<1>2. ASSUME NEW p \in Proc, StartRun(p) \/ StartFinalize(p) \/ Step(p) \/ Crash(p)
      PROVE  RetryInv'
  <2> USE DEF TypeInv, TypeOK, Goto, local, ledger
  <2>1. \A q \in Proc : q # p =>
          active'[q] = active[q] /\ queue'[q] = queue[q] /\ call'[q] = call[q]
    BY <1>2, OnlyOwnState
  <2>2. ASSUME attempts' = attempts,
               \A b \in active'[p] : FollowsRule(b),
               \A b \in queue'[p] : FollowsRule(b),
               \A c \in call'[p].retryable : \E a \in History(c) : a.status = "malformed"
        PROVE  RetryInv'
    BY <2>1, <2>2, RetryQuiet DEF RetryInv
  <2>3. CASE End(p) /\ attempts' = attempts
    <3>1. queue'[p] = {} /\ active'[p] = {} /\ call'[p].retryable = {}
      BY <2>3 DEF End, Idle
    <3> QED
      BY <2>2, <2>3, <3>1
  <2>4. ASSUME attempts' = attempts, active'[p] \subseteq active[p], queue'[p] \subseteq queue[p],
               call'[p].retryable \subseteq call[p].retryable
        PROVE  RetryInv'
    BY <2>2, <2>4 DEF RetryInv
  <2>5. CASE StartRun(p)
    <3>1. PICK k \in Limits, r \in BOOLEAN :
            call' = [call EXCEPT ![p] = [Idle EXCEPT !.kind = "run", !.limit = k, !.recover = r]]
      BY <2>5 DEF StartRun
    <3>2. [Idle EXCEPT !.kind = "run", !.limit = k, !.recover = r].retryable = {}
      BY DEF Idle
    <3> QED
      BY <2>4, <2>5, <3>1, <3>2 DEF StartRun
  <2>6. CASE StartFinalize(p)
    <3>1. PICK r \in BOOLEAN :
            call' = [call EXCEPT ![p] = [Idle EXCEPT !.kind = "finalize", !.recover = r]]
      BY <2>6 DEF StartFinalize
    <3>2. [Idle EXCEPT !.kind = "finalize", !.recover = r].retryable = {}
      BY DEF Idle
    <3> QED
      BY <2>4, <2>6, <3>1, <3>2 DEF StartFinalize
  <2>7. CASE Crash(p)
    BY <2>3, <2>7 DEF Crash
  <2>8. CASE Locking(p)
    <3>1. CASE ~End(p)
      <4>1. call'[p].retryable = call[p].retryable
        BY <2>8, <3>1 DEF Locking, TryLock, Inspect, UnlinkStale, Release, Invocation
      <4> QED
        BY <2>4, <2>8, <3>1, <4>1 DEF Locking, TryLock, Inspect, UnlinkStale, Release
    <3> QED
      BY <2>3, <2>8, <3>1 DEF Locking, TryLock, Inspect, UnlinkStale, Release
  <2>9. CASE CheckWave(p)
    BY <2>3, <2>4, <2>9 DEF CheckWave
  <2>10. CASE ReadRetryable(p)
    <3>1. call'[p].retryable = Retryable
      BY <2>10 DEF ReadRetryable, Invocation
    <3>2. ASSUME NEW c \in Retryable PROVE \E a \in History(c) : a.status = "malformed"
      BY SoleIsLatest DEF Retryable
    <3> QED
      BY <2>2, <2>10, <3>1, <3>2 DEF ReadRetryable, RetryInv
  <2>11. CASE PlanJobs(p)
    <3>1. call'[p].retryable = {}
      <4>1. [Idle EXCEPT !.kind = "run"].retryable = {}
        BY DEF Idle
      <4> QED
        BY <2>11, <4>1 DEF PlanJobs
    <3>2. \A b \in queue'[p] : FollowsRule(b)
      BY <2>11, PlannedFollows DEF PlanJobs, RetryInv, KeyInv
    <3> QED
      BY <2>2, <2>11, <3>1, <3>2 DEF PlanJobs, RetryInv
  <2>12. CASE WriteEvidence(p)
    <3>1. PICK job \in queue[p] :
            /\ queue' = [queue EXCEPT ![p] = @ \ {job}]
            /\ \/ \E a \in Answers(job) : active' = [active EXCEPT ![p] = @ \cup {a}]
               \/ active' = active
      BY <2>12 DEF WriteEvidence
    <3>2. ASSUME NEW a \in Answers(job) PROVE FollowsRule(a)
      <4>1. a.chunk = job.chunk /\ a.number = job.number /\ a.ids = job.ids
        BY DEF Answers
      <4>2. FollowsRule(job)
        BY DEF RetryInv
      <4> QED
        BY <4>1, <4>2 DEF FollowsRule
    <3>3. \A b \in active'[p] : FollowsRule(b)
      BY <3>1, <3>2 DEF RetryInv
    <3>4. \A b \in queue'[p] : FollowsRule(b)
      BY <3>1 DEF RetryInv
    <3> QED
      BY <2>2, <2>12, <3>3, <3>4 DEF WriteEvidence, RetryInv
  <2>13. CASE WriteAttempt(p)
    <3>1. PICK a \in active[p] : /\ attempts' = attempts \cup {a}
                                 /\ active' = [active EXCEPT ![p] = @ \ {a}]
      BY <2>13 DEF WriteAttempt
    <3>2. \A d \in attempts : KeyOf(d) # KeyOf(a)
      BY DEF KeyInv, FlightKeyInv
    <3>3. \A b : FollowsRule(b) => FollowsRule(b)'
      BY <3>1, <3>2, FollowsLasts
    <3>4. \A b \in attempts' : FollowsRule(b)'
      BY <3>1, <3>3 DEF RetryInv
    <3>5. \A q \in Proc : active'[q] \subseteq active[q] /\ queue'[q] = queue[q] /\ call'[q] = call[q]
      BY <2>13, <3>1 DEF WriteAttempt
    <3>6. \A c \in Chunk : History(c) \subseteq History(c)'
      BY <3>1 DEF History
    <3>7. \A q \in Proc : \A c \in call'[q].retryable : \E d \in History(c)' : d.status = "malformed"
      BY <3>5, <3>6 DEF RetryInv, Invocation
    <3> QED
      BY <3>3, <3>4, <3>5, <3>7 DEF RetryInv
  <2>14. CASE LoseAttempt(p) \/ CancelJobs(p) \/ FinishRun(p)
    BY <2>4, <2>14 DEF LoseAttempt, CancelJobs, FinishRun
  <2>15. CASE Finalizing(p)
    <3>1. CASE ~End(p)
      <4>1. call'[p].retryable = call[p].retryable
        BY <2>15, <3>1 DEF Finalizing, CheckProtocol, LoadLedger, WriteAssessment, Conclude,
           LinkSource, LinkManifest, CheckThreshold, LinkMarker, Invocation
      <4> QED
        BY <2>4, <2>15, <3>1, <4>1 DEF Finalizing, CheckProtocol, LoadLedger, WriteAssessment,
           Conclude, LinkSource, LinkManifest, CheckThreshold, LinkMarker
    <3> QED
      BY <2>3, <2>15, <3>1 DEF Finalizing, CheckProtocol, LoadLedger, WriteAssessment, Conclude,
         LinkSource, LinkManifest, CheckThreshold, LinkMarker
  <2> QED
    BY <1>2, <2>5, <2>6, <2>7, <2>8, <2>9, <2>10, <2>11, <2>12, <2>13, <2>14, <2>15
       DEF Step, Running
<1> QED
  BY <1>1, <1>2 DEF Next

(***************************************************************************)
(* No row is bought twice                                                  *)
(***************************************************************************)
\* An answer is about rows of its chunk, and accepts rows only if it was read.
WellShaped(a) ==
    /\ a.ids \subseteq Chunks[a.chunk]
    /\ a.right \subseteq a.ids
    /\ a.status # "parsed" => a.right = {}

\* Records, jobs in flight and planned jobs are about rows of their chunk.
ShapeInv ==
    /\ \A a \in attempts : WellShaped(a)
    /\ \A p \in Proc : \A a \in active[p] : WellShaped(a)
    /\ \A p \in Proc : \A j \in queue[p] : j.ids \subseteq Chunks[j.chunk]

\* What a run is about to buy is still open and has attempts left.
JobsPending ==
    \A p \in Proc : /\ \A j \in queue[p] : j.ids \subseteq Pending
                    /\ \A a \in active[p] : a.ids \subseteq Pending

\* The jobs of a run share no row.
JobsApart ==
    \A p \in Proc : /\ \A j, k \in queue[p] : j # k => j.ids \cap k.ids = {}
                    /\ \A a, b \in active[p] : a # b => a.ids \cap b.ids = {}
                    /\ \A j \in queue[p], a \in active[p] : j.ids \cap a.ids = {}

\* No row is right in two attempts.
RightsApart == \A a, b \in attempts : a # b => a.right \cap b.right = {}

\* The inductive invariant of what is paid for.
PayInv == ~stolen => JobsPending /\ JobsApart /\ RightsApart /\ AttemptCap

\* A row of a chunk is answered by attempts on that chunk only.
LEMMA RowsOfChunk ==
    ASSUME TypeOK, ShapeInv, NEW c \in Chunk, NEW i \in Chunks[c], NEW b \in attempts, i \in b.ids
    PROVE  b \in History(c)
<1>1. b.chunk \in Chunk /\ i \in Chunks[b.chunk]
  BY DEF TypeOK, Attempt, ShapeInv, WellShaped
<1>2. b.chunk = c
  BY <1>1, PlanAssumption DEF Chunk
<1> QED
  BY <1>2 DEF History

\* A planned job asks for rows of its chunk that are pending.
LEMMA PlannedPending ==
    ASSUME TypeInv, ShapeInv, NEW p \in Proc, ~Refused(p), NEW j \in Planned(p)
    PROVE  j.ids \subseteq Pending /\ j.ids \subseteq Chunks[j.chunk]
<1> USE DEF TypeInv
<1>1. PICK c \in Chunk :
        /\ Eligible(c) /\ Reached(p, c)
        /\ \E g \in Groups(c) : j = [chunk |-> c, number |-> NextNumber(c) + g[1], ids |-> g[2]]
  BY PlannedIs
<1>2. PICK g \in Groups(c) : j = [chunk |-> c, number |-> NextNumber(c) + g[1], ids |-> g[2]]
  BY <1>1
<1>3. j.chunk = c /\ j.ids = g[2] /\ g[2] \subseteq Chunks[c]
  BY <1>2, GroupsTyped
<1>4. Open = Pending
  BY DEF Refused, Exhausted, Pending
<1>5. \A b \in Graded \cup Ungraded : b \in attempts /\ b.right \subseteq b.ids
  BY DEF Graded, Ungraded, ShapeInv, WellShaped
<1>6. Chunks[c] \cap Unassessed = {} /\ Chunks[c] \subseteq Problems
  BY <1>1 DEF Eligible, Problems
<1>7. CASE History(c) = {}
  <2>1. \A i \in Chunks[c] : i \notin Accepted
    BY <1>5, <1>7, RowsOfChunk DEF Accepted
  <2> QED
    BY <1>3, <1>4, <1>6, <2>1 DEF Open
<1>8. CASE History(c) # {} /\ Faulty(c)
  <2>1. History(c) = {Latest(c)} /\ Latest(c).status # "parsed"
    BY <1>1, <1>8, FaultyIsRetried DEF Faulty
  <2>2. \A b \in History(c) : b.right = {}
    BY <2>1 DEF History, ShapeInv, WellShaped
  <2>3. \A i \in Chunks[c] : i \notin Accepted
    BY <1>5, <2>2, RowsOfChunk DEF Accepted
  <2> QED
    BY <1>3, <1>4, <1>6, <2>3 DEF Open
<1>9. CASE History(c) # {} /\ ~Faulty(c)
  <2>1. PICK n \in 0..((Cardinality(Rows(c)) - 1) \div RepairSize) : g = <<n, Group(Rows(c), n)>>
    BY <1>9 DEF Groups
  <2> QED
    BY <1>3, <2>1 DEF Group, Rows
<1> QED
  BY <1>7, <1>8, <1>9

\* Two planned jobs share no row.
LEMMA PlannedApart ==
    ASSUME TypeInv, NEW p \in Proc, NEW j \in Planned(p), NEW k \in Planned(p), j # k
    PROVE  j.ids \cap k.ids = {}
<1>1. PICK c \in Chunk : \E g \in Groups(c) :
        j = [chunk |-> c, number |-> NextNumber(c) + g[1], ids |-> g[2]]
  BY PlannedIs
<1>2. PICK g \in Groups(c) : j = [chunk |-> c, number |-> NextNumber(c) + g[1], ids |-> g[2]]
  BY <1>1
<1>3. PICK d \in Chunk : \E h \in Groups(d) :
        k = [chunk |-> d, number |-> NextNumber(d) + h[1], ids |-> h[2]]
  BY PlannedIs
<1>4. PICK h \in Groups(d) : k = [chunk |-> d, number |-> NextNumber(d) + h[1], ids |-> h[2]]
  BY <1>3
<1>5. j.ids = g[2] /\ k.ids = h[2] /\ g[2] \subseteq Chunks[c] /\ h[2] \subseteq Chunks[d]
  BY <1>2, <1>4, GroupsTyped
<1>6. CASE c # d
  BY <1>5, <1>6, PlanAssumption DEF Chunk
<1>7. CASE c = d
  <2>1. g # h
    BY <1>2, <1>4, <1>7
  <2>2. ~(History(c) = {} \/ Faulty(c))
    BY <1>7, <2>1 DEF Groups
  <2>3. PICK n \in 0..((Cardinality(Rows(c)) - 1) \div RepairSize) : g = <<n, Group(Rows(c), n)>>
    BY <2>2 DEF Groups
  <2>4. PICK m \in 0..((Cardinality(Rows(c)) - 1) \div RepairSize) : h = <<m, Group(Rows(c), m)>>
    BY <1>7, <2>2 DEF Groups
  <2>5. n # m
    BY <2>1, <2>3, <2>4
  <2>6. Group(Rows(c), n) \cap Group(Rows(c), m) = {}
    BY <2>5 DEF Group
  <2> QED
    BY <1>5, <2>3, <2>4, <2>6
<1> QED
  BY <1>6, <1>7

\* Every step keeps answers about rows of their chunk.
LEMMA ShapeStep == TypeInv /\ ShapeInv /\ [Next]_vars => ShapeInv'
<1> SUFFICES ASSUME TypeInv, ShapeInv, [Next]_vars PROVE ShapeInv'
  OBVIOUS
<1>1. CASE UNCHANGED vars
  BY <1>1 DEF ShapeInv, WellShaped, vars, local, ledger
<1>2. ASSUME NEW p \in Proc, StartRun(p) \/ StartFinalize(p) \/ Step(p) \/ Crash(p)
      PROVE  ShapeInv'
  <2> USE DEF TypeInv, TypeOK, Goto, End, local, ledger
  <2>1. \A q \in Proc : q # p => active'[q] = active[q] /\ queue'[q] = queue[q]
    BY <1>2, OnlyOwnState
  <2>2. ASSUME \A a \in attempts' : WellShaped(a), \A a \in active'[p] : WellShaped(a),
               \A j \in queue'[p] : j.ids \subseteq Chunks[j.chunk]
        PROVE  ShapeInv'
    BY <2>1, <2>2 DEF ShapeInv, WellShaped
  <2>3. ASSUME attempts' = attempts, active'[p] \subseteq active[p], queue'[p] \subseteq queue[p]
        PROVE  ShapeInv'
    BY <2>2, <2>3 DEF ShapeInv
  <2>4. CASE StartRun(p) \/ StartFinalize(p) \/ Crash(p)
    BY <2>3, <2>4 DEF StartRun, StartFinalize, Crash
  <2>5. CASE Locking(p)
    BY <2>3, <2>5 DEF Locking, TryLock, Inspect, UnlinkStale, Release
  <2>6. CASE CheckWave(p) \/ ReadRetryable(p) \/ LoseAttempt(p) \/ CancelJobs(p) \/ FinishRun(p)
    BY <2>3, <2>6 DEF CheckWave, ReadRetryable, LoseAttempt, CancelJobs, FinishRun
  <2>7. CASE PlanJobs(p)
    <3>1. \A j \in queue'[p] : j.ids \subseteq Chunks[j.chunk]
      BY <2>7, PlannedPending DEF PlanJobs, ShapeInv
    <3> QED
      BY <2>2, <2>7, <3>1 DEF PlanJobs, ShapeInv
  <2>8. CASE WriteEvidence(p)
    <3>1. PICK job \in queue[p] :
            /\ queue' = [queue EXCEPT ![p] = @ \ {job}]
            /\ \/ \E a \in Answers(job) : active' = [active EXCEPT ![p] = @ \cup {a}]
               \/ active' = active
      BY <2>8 DEF WriteEvidence
    <3>2. ASSUME NEW a \in Answers(job) PROVE WellShaped(a)
      <4>1. job.ids \subseteq Chunks[job.chunk]
        BY DEF ShapeInv
      <4> QED
        BY <4>1 DEF Answers, WellShaped
    <3>3. \A a \in active'[p] : WellShaped(a)
      BY <3>1, <3>2 DEF ShapeInv
    <3> QED
      BY <2>2, <2>8, <3>1, <3>3 DEF WriteEvidence, ShapeInv
  <2>9. CASE WriteAttempt(p)
    <3>1. PICK a \in active[p] : /\ attempts' = attempts \cup {a}
                                 /\ active' = [active EXCEPT ![p] = @ \ {a}]
      BY <2>9 DEF WriteAttempt
    <3> QED
      BY <2>2, <2>9, <3>1 DEF WriteAttempt, ShapeInv
  <2>10. CASE Finalizing(p)
    BY <2>3, <2>10 DEF Finalizing, CheckProtocol, LoadLedger, WriteAssessment, Conclude, LinkSource,
       LinkManifest, CheckThreshold, LinkMarker
  <2> QED
    BY <1>2, <2>4, <2>5, <2>6, <2>7, <2>8, <2>9, <2>10 DEF Step, Running
<1> QED
  BY <1>1, <1>2 DEF Next

\* A step that writes nothing and plans nothing buys nothing.
LEMMA PayQuiet ==
    ASSUME PayInv, stolen => stolen', attempts' = attempts, assessed' = assessed,
           \A q \in Proc : active'[q] \subseteq active[q] /\ queue'[q] \subseteq queue[q]
    PROVE  PayInv'
<1>1. Pending' = Pending
  BY DEF Pending, Open, Problems, Chunk, Accepted, Graded, Unassessed, Ungraded, AttemptsOn, KeyOf
<1>2. Problems' = Problems /\ \A i : AttemptsOn(i)' = AttemptsOn(i)
  BY DEF Problems, Chunk, AttemptsOn
<1> QED
  BY <1>1, <1>2 DEF PayInv, JobsPending, JobsApart, RightsApart, AttemptCap

\* A new record leaves the rows it is not about as they were.
LEMMA StillPending ==
    ASSUME NEW a, attempts' = attempts \cup {a}, a.right \subseteq a.ids, assessed' = assessed,
           NEW i, i \notin a.ids
    PROVE  AttemptsOn(i)' = AttemptsOn(i) /\ (i \in Pending => i \in Pending')
<1>1. {b \in attempts' : i \in b.ids} = {b \in attempts : i \in b.ids}
  OBVIOUS
<1>2. AttemptsOn(i)' = AttemptsOn(i)
  BY <1>1 DEF AttemptsOn
<1>3. i \in Accepted' => i \in Accepted
  BY DEF Accepted, Graded, KeyOf
<1>4. i \in Unassessed' => i \in Unassessed
  BY DEF Unassessed, Ungraded, KeyOf
<1>5. Problems' = Problems
  BY DEF Problems, Chunk
<1> QED
  BY <1>2, <1>3, <1>4, <1>5 DEF Pending, Open

\* A right row of a recorded attempt is accepted, or waits to be graded.
LEMMA RightIsKnown ==
    ASSUME ShapeInv, NEW b \in attempts, NEW i \in b.right
    PROVE  i \notin Open
<1>1. b.status = "parsed" /\ i \in b.ids
  BY DEF ShapeInv, WellShaped
<1> QED
  BY <1>1 DEF Open, Accepted, Graded, Unassessed, Ungraded

\* While one call works under the lock, no other has a job.
LEMMA OthersIdle ==
    ASSUME LockInv, QueueInv, ~stolen, NEW p \in Proc, pc[p] \in Holding, NEW q \in Proc, q # p
    PROVE  queue[q] = {} /\ active[q] = {}
BY DEF LockInv, QueueInv, Holding

\* The record of an attempt on pending rows.
LEMMA PayWriteAttempt ==
    ASSUME TypeInv, ShapeInv, LockInv, QueueInv, PayInv, NEW p \in Proc, WriteAttempt(p), ~stolen
    PROVE  /\ PayInv'
           /\ \A a \in attempts' \ attempts : a.ids \cap (Accepted \cup Unassessed) = {}
<1> USE DEF TypeInv, TypeOK
<1>1. PICK a \in active[p] : /\ attempts' = attempts \cup {a}
                             /\ active' = [active EXCEPT ![p] = @ \ {a}]
  BY DEF WriteAttempt
<1>2. assessed' = assessed /\ queue' = queue /\ pc[p] = "execute"
  BY DEF WriteAttempt
<1>3. a.ids \subseteq Pending /\ WellShaped(a)
  BY DEF PayInv, JobsPending, ShapeInv
<1>4. \A q \in Proc : q # p => queue'[q] = {} /\ active'[q] = {}
  BY <1>1, <1>2, OthersIdle DEF Holding
<1>5. JobsPending'
  <2>1. \A j \in queue[p] : j.ids \subseteq Pending /\ j.ids \cap a.ids = {}
    BY DEF PayInv, JobsPending, JobsApart
  <2>2. \A b \in active'[p] : b.ids \subseteq Pending /\ b.ids \cap a.ids = {}
    BY <1>1 DEF PayInv, JobsPending, JobsApart
  <2>3. \A i \in Pending : i \notin a.ids => i \in Pending'
    BY <1>1, <1>2, <1>3, StillPending DEF WellShaped
  <2> QED
    BY <1>2, <1>4, <2>1, <2>2, <2>3 DEF JobsPending
<1>6. JobsApart'
  <2>1. \A q \in Proc : active'[q] \subseteq active[q] /\ queue'[q] = queue[q]
    BY <1>1, <1>2
  <2> QED
    BY <2>1 DEF PayInv, JobsApart
<1>7. RightsApart'
  <2>1. ASSUME NEW b \in attempts, b # a PROVE a.right \cap b.right = {}
    BY <1>3, RightIsKnown DEF Pending, WellShaped
  <2> QED
    BY <1>1, <2>1 DEF PayInv, RightsApart
<1>8. AttemptCap'
  <2>1. ASSUME NEW i \in Problems PROVE AttemptsOn(i)' <= MaxAttempts
    <3>1. CASE i \in a.ids
      <4> DEFINE S == {b \in attempts : i \in b.ids}
                 T == {b \in attempts' : i \in b.ids}
      <4>1. T = S \cup {a}
        BY <1>1, <3>1
      <4>2. IsFiniteSet(S)
        BY FS_Subset
      <4>3. Cardinality(S) < MaxAttempts
        BY <1>3, <3>1 DEF Pending, AttemptsOn
      <4>4. Cardinality(S) \in Nat /\ Cardinality(T) \in {Cardinality(S), Cardinality(S) + 1}
        <5> HIDE DEF S, T
        <5>1. Cardinality(S) \in Nat
          BY <4>2, FS_CardinalityType
        <5>2. Cardinality(S \cup {a}) = IF a \in S THEN Cardinality(S) ELSE Cardinality(S) + 1
          BY <4>2, FS_AddElement
        <5> QED
          BY <4>1, <5>1, <5>2
      <4>5. AttemptsOn(i)' = Cardinality(T)
        BY DEF AttemptsOn
      <4>6. MaxAttempts \in Nat
        BY LimitAssumption
      <4> HIDE DEF S, T
      <4> QED
        BY <4>3, <4>4, <4>5, <4>6
    <3>2. CASE i \notin a.ids
      <4>1. AttemptsOn(i)' = AttemptsOn(i)
        BY <1>1, <1>2, <1>3, <3>2, StillPending DEF WellShaped
      <4> QED
        BY <4>1 DEF PayInv, AttemptCap
    <3> QED
      BY <3>1, <3>2
  <2>2. Problems' = Problems
    BY DEF Problems, Chunk
  <2> QED
    BY <2>1, <2>2 DEF AttemptCap
<1>9. \A b \in attempts' \ attempts : b.ids \cap (Accepted \cup Unassessed) = {}
  BY <1>1, <1>3 DEF Pending, Open
<1> QED
  BY <1>5, <1>6, <1>7, <1>8, <1>9 DEF PayInv

\* Every step keeps what is paid for exclusive.
LEMMA PayStep ==
    TypeInv /\ ShapeInv /\ LockInv /\ QueueInv /\ PayInv /\ [Next]_vars => PayInv'
<1> SUFFICES ASSUME TypeInv, ShapeInv, LockInv, QueueInv, PayInv, [Next]_vars PROVE PayInv'
  OBVIOUS
<1>1. CASE UNCHANGED vars
  BY <1>1, PayQuiet DEF vars, local, ledger
<1>2. ASSUME NEW p \in Proc, StartRun(p) \/ StartFinalize(p) \/ Step(p) \/ Crash(p)
      PROVE  PayInv'
  <2> USE DEF TypeInv, TypeOK, Goto, End, local, ledger
  <2>1. \A q \in Proc : q # p => active'[q] = active[q] /\ queue'[q] = queue[q]
    BY <1>2, OnlyOwnState
  <2>2. ASSUME stolen => stolen', attempts' = attempts, assessed' = assessed,
               active'[p] \subseteq active[p], queue'[p] \subseteq queue[p]
        PROVE  PayInv'
    BY <2>1, <2>2, PayQuiet
  <2>3. CASE StartRun(p) \/ StartFinalize(p) \/ Crash(p)
    BY <2>2, <2>3 DEF StartRun, StartFinalize, Crash
  <2>4. CASE Locking(p)
    BY <2>2, <2>4 DEF Locking, TryLock, Inspect, UnlinkStale, Release
  <2>5. CASE CheckWave(p) \/ ReadRetryable(p) \/ LoseAttempt(p) \/ CancelJobs(p) \/ FinishRun(p)
    BY <2>2, <2>5 DEF CheckWave, ReadRetryable, LoseAttempt, CancelJobs, FinishRun
  <2>6. CASE PlanJobs(p)
    <3>1. CASE Refused(p)
      <4>1. stolen' = stolen /\ attempts' = attempts /\ assessed' = assessed /\ active' = active
            /\ queue' = queue
        BY <2>6, <3>1 DEF PlanJobs
      <4> QED
        BY <2>2, <4>1
    <3>2. CASE ~Refused(p)
      <4>1. /\ stolen' = stolen /\ attempts' = attempts /\ assessed' = assessed
            /\ active' = active /\ queue'[p] = Planned(p) /\ active[p] = {}
        BY <2>6, <3>2 DEF PlanJobs, QueueInv
      <4>2. Pending' = Pending /\ Problems' = Problems /\ \A i : AttemptsOn(i)' = AttemptsOn(i)
        BY <4>1 DEF Pending, Open, Problems, Chunk, Accepted, Graded, Unassessed, Ungraded,
           AttemptsOn, KeyOf
      <4>3. JobsPending => JobsPending'
        BY <2>1, <3>2, <4>1, <4>2, PlannedPending DEF JobsPending
      <4>4. JobsApart => JobsApart'
        BY <2>1, <4>1, PlannedApart DEF JobsApart
      <4> QED
        BY <4>1, <4>2, <4>3, <4>4 DEF PayInv, RightsApart, AttemptCap
    <3> QED
      BY <3>1, <3>2
  <2>7. CASE WriteEvidence(p)
    <3>1. PICK job \in queue[p] :
            /\ queue' = [queue EXCEPT ![p] = @ \ {job}]
            /\ \/ \E a \in Answers(job) : active' = [active EXCEPT ![p] = @ \cup {a}]
               \/ active' = active
      BY <2>7 DEF WriteEvidence
    <3>2. stolen' = stolen /\ attempts' = attempts /\ assessed' = assessed
      BY <2>7 DEF WriteEvidence
    <3>3. CASE active' = active
      BY <2>2, <3>1, <3>2, <3>3
    <3>4. CASE active' # active
      <4>1. PICK a \in Answers(job) : active' = [active EXCEPT ![p] = @ \cup {a}]
        BY <3>1, <3>4
      <4>2. a.ids = job.ids
        BY DEF Answers
      <4>3. Pending' = Pending /\ Problems' = Problems /\ \A i : AttemptsOn(i)' = AttemptsOn(i)
        BY <3>2 DEF Pending, Open, Problems, Chunk, Accepted, Graded, Unassessed, Ungraded,
           AttemptsOn, KeyOf
      <4>4. queue'[p] = queue[p] \ {job} /\ active'[p] = active[p] \cup {a}
        BY <3>1, <4>1
      <4>5. JobsPending => JobsPending'
        BY <2>1, <4>2, <4>3, <4>4 DEF JobsPending
      <4>6. JobsApart => JobsApart'
        BY <2>1, <4>2, <4>4 DEF JobsApart
      <4> QED
        BY <3>2, <4>3, <4>5, <4>6 DEF PayInv, RightsApart, AttemptCap
    <3> QED
      BY <3>3, <3>4
  <2>8. CASE WriteAttempt(p)
    <3>1. stolen' = stolen
      BY <2>8 DEF WriteAttempt
    <3>2. CASE stolen
      BY <3>1, <3>2 DEF PayInv
    <3> QED
      BY <2>8, <3>2, PayWriteAttempt
  <2>9. CASE WriteAssessment(p)
    <3>1. /\ pc[p] = "assess" /\ stolen' = stolen /\ attempts' = attempts /\ queue' = queue
          /\ active' = active
      BY <2>9 DEF WriteAssessment
    <3>2. SUFFICES ASSUME ~stolen PROVE PayInv'
      BY <3>1 DEF PayInv
    <3>3. \A q \in Proc : queue[q] = {} /\ active[q] = {}
      BY <3>1, <3>2, OthersIdle DEF QueueInv, Holding
    <3>4. Problems' = Problems /\ \A i : AttemptsOn(i)' = AttemptsOn(i)
      BY <3>1 DEF Problems, Chunk, AttemptsOn
    <3> QED
      BY <3>1, <3>3, <3>4 DEF PayInv, JobsPending, JobsApart, RightsApart, AttemptCap
  <2>10. CASE CheckProtocol(p) \/ LoadLedger(p) \/ Conclude(p) \/ LinkSource(p) \/ LinkManifest(p)
               \/ CheckThreshold(p) \/ LinkMarker(p)
    BY <2>2, <2>10 DEF CheckProtocol, LoadLedger, Conclude, LinkSource, LinkManifest,
       CheckThreshold, LinkMarker
  <2> QED
    BY <1>2, <2>3, <2>4, <2>5, <2>6, <2>7, <2>8, <2>9, <2>10 DEF Step, Running, Finalizing
<1> QED
  BY <1>1, <1>2 DEF Next

(***************************************************************************)
(* The invariant of the ledger, and what follows                           *)
(***************************************************************************)
\* Everything the guarantees of the ledger rest on.
LedgerInv ==
    /\ TypeInv /\ KeyInv /\ LockInv /\ QueueInv /\ ShapeInv /\ PayInv /\ BankInv /\ RetryInv
    /\ Profile = "v5" /\ Pilot => ProtocolInv

\* It holds initially: nothing was bought yet.
LEMMA LedgerInit == Init => LedgerInv
<1> SUFFICES ASSUME Init PROVE LedgerInv
  OBVIOUS
<1>1. ShapeInv /\ JobsPending /\ JobsApart /\ RightsApart
  BY DEF Init, ShapeInv, JobsPending, JobsApart, RightsApart
<1>2. AttemptCap
  <2>1. ASSUME NEW i PROVE AttemptsOn(i) = 0
    <3>1. {a \in attempts : i \in a.ids} = {}
      BY DEF Init
    <3> QED
      BY <3>1, FS_EmptySet DEF AttemptsOn
  <2> QED
    BY <2>1, LimitAssumption DEF AttemptCap
<1>3. BankInv
  BY DEF Init, BankInv
<1>4. RetryInv
  BY DEF Init, RetryInv, Idle
<1>5. ProtocolInv
  BY DEF Init, ProtocolInv, PassedProtocol
<1> QED
  BY <1>1, <1>2, <1>3, <1>4, <1>5, TypeInit, KeyInit, HoldInit DEF LedgerInv, PayInv

\* Every step keeps it.
LEMMA LedgerStep == LedgerInv /\ [Next]_vars => LedgerInv'
<1> SUFFICES ASSUME LedgerInv, [Next]_vars PROVE LedgerInv'
  OBVIOUS
<1>1. TypeInv'
  BY TypeStep DEF LedgerInv
<1>2. KeyInv' /\ LockInv' /\ QueueInv'
  BY KeyStep, LockStep, QueueStep DEF LedgerInv, TypeInv
<1>3. ShapeInv' /\ PayInv' /\ BankInv' /\ RetryInv'
  BY ShapeStep, PayStep, BankStep, RetryStep DEF LedgerInv, TypeInv
<1>4. Profile = "v5" /\ Pilot => ProtocolInv'
  BY <1>1, ProtocolStep DEF LedgerInv
<1>5. Pilot' = Pilot
  BY DEF Pilot, Problems, Chunk
<1> QED
  BY <1>1, <1>2, <1>3, <1>4, <1>5 DEF LedgerInv

\* Two calls are never both between taking the plan lock and releasing it,
\* as long as recovery did not unlink the lock of a live call.
LockExcludes ==
    ~stolen => \A p, q \in Proc : pc[p] \in Holding /\ pc[q] \in Holding => p = q

\* The plan lock excludes, for any number of operators, whatever crashes.
THEOREM LockIsExclusive == Spec => []LockExcludes
<1>1. LedgerInv => LockExcludes
  BY DEF LedgerInv, LockInv, LockExcludes
<1> QED
  BY LedgerInit, LedgerStep, <1>1, PTL DEF Spec

\* No row is tried more than max_attempts times: what a run may buy has an
\* attempt left when it is planned, and until its record is written.
THEOREM AttemptsAreCapped == Spec => []AttemptCap
<1>1. LedgerInv => AttemptCap
  BY DEF LedgerInv, PayInv, AttemptCap
<1> QED
  BY LedgerInit, LedgerStep, <1>1, PTL DEF Spec

\* A new record is never about a row that is accepted or waits to be graded.
THEOREM NothingPaidTwice == Spec => NeverPaysTwice
<1>1. LedgerInv /\ [Next]_vars =>
        [~stolen' => \A a \in attempts' \ attempts : a.ids \cap (Accepted \cup Unassessed) = {}]_vars
  <2> SUFFICES ASSUME LedgerInv, NEW p \in Proc,
                      StartRun(p) \/ StartFinalize(p) \/ Step(p) \/ Crash(p), ~stolen'
               PROVE  \A a \in attempts' \ attempts : a.ids \cap (Accepted \cup Unassessed) = {}
    BY DEF Next
  <2>1. CASE attempts' = attempts
    BY <2>1
  <2>2. CASE WriteAttempt(p)
    <3>1. ~stolen
      BY <2>2 DEF WriteAttempt
    <3> QED
      BY <2>2, <3>1, PayWriteAttempt DEF LedgerInv
  <2>3. attempts' = attempts \/ WriteAttempt(p)
    <3> USE DEF ledger
    <3>1. CASE StartRun(p) \/ StartFinalize(p) \/ Crash(p)
      BY <3>1 DEF StartRun, StartFinalize, Crash
    <3>2. CASE Locking(p)
      BY <3>2 DEF Locking, TryLock, Inspect, UnlinkStale, Release
    <3>3. CASE Running(p)
      BY <3>3 DEF Running, CheckWave, ReadRetryable, PlanJobs, WriteEvidence, LoseAttempt,
         CancelJobs, FinishRun
    <3>4. CASE Finalizing(p)
      BY <3>4 DEF Finalizing, CheckProtocol, LoadLedger, WriteAssessment, Conclude, LinkSource,
         LinkManifest, CheckThreshold, LinkMarker
    <3> QED
      BY <3>1, <3>2, <3>3, <3>4 DEF Step
  <2> QED
    BY <2>1, <2>2, <2>3
<1> QED
  BY LedgerInit, LedgerStep, <1>1, PTL DEF Spec, NeverPaysTwice

\* A bank stands on exactly one accepted answer for each problem.
THEOREM BankIsComplete == Spec => []BankComplete
<1>1. LedgerInv => BankComplete
  <2> SUFFICES ASSUME LedgerInv, ~stolen, bank # "none", NEW i \in Problems
               PROVE  Cardinality({a \in Graded : i \in a.right}) = 1
    BY DEF BankComplete
  <2>1. i \in Accepted
    BY DEF LedgerInv, BankInv
  <2>2. PICK a \in Graded : i \in a.right
    BY <2>1 DEF Accepted
  <2>3. \A b \in Graded : i \in b.right => b = a
    BY <2>2 DEF LedgerInv, PayInv, RightsApart, Graded
  <2>4. {b \in Graded : i \in b.right} = {a}
    BY <2>2, <2>3
  <2>5. Cardinality({a}) = 1
    BY FS_Singleton
  <2> QED
    BY <2>4, <2>5
<1> QED
  BY LedgerInit, LedgerStep, <1>1, PTL DEF Spec

\* Under v5 nothing of a pilot plan is graded before every broken structure was
\* retried, and in any plan a chunk whose first answer was unreadable is
\* retried once, as a whole.
THEOREM RetriedOnce == Spec => []ProtocolRetryOnce
<1>1. LedgerInv => ProtocolRetryOnce
  BY DEF LedgerInv, ProtocolRetryOnce, ProtocolInv, Resolved, RetryInv, FollowsRule
<1> QED
  BY LedgerInit, LedgerStep, <1>1, PTL DEF Spec

(***************************************************************************)
(* The gate before the teacher: types                                      *)
(***************************************************************************)
\* The commands that run, by where they are.
Harness == [replay : Replay, live : Live]
Under == [tree : Tree, live : Live \cup {None}, binary : Binary, replaced : BOOLEAN]
CanaryCommand ==
    [at : {"canary_plan", "canary_call"}, dir : CanaryDir, config : Config, tree : Tree, version : Version]
PlanCommand ==
    [at : {"plan", "write_v1", "write_v2", "write_harness"}, dir : PlanDir, scope : Scope,
     version : Version, data : Data, receipt : Receipt \cup {None}, harness : Harness \cup {None}]
RunCommand == [at : {"run"}, dir : PlanDir, tree : Tree, live : Live \cup {None}, replaced : BOOLEAN]

\* What a plan directory holds.
PlanState ==
    [scope : Scope \cup {None}, version : Version \cup {None}, data : Data \cup {None},
     receipt : Receipt \cup {None}, harness : Harness \cup {None}, decided : BOOLEAN,
     first : {None, "poor", "good"}, done : BOOLEAN, bank : BOOLEAN,
     audit : {None, "passed", "failed"}]

\* The types of the variables, each a set.
GateTypes ==
    /\ env \in Environment
    /\ replays \subseteq Replay
    /\ canary \in [CanaryDir -> [version : Version \cup {None}, answers : Seq(Answer)]]
    /\ lives \subseteq Live
    /\ plan \in [PlanDir -> PlanState]
    /\ decisions \subseteq Data
    /\ receipts \subseteq Receipt
    /\ cmd \in {NoCommand} \cup CanaryCommand \cup PlanCommand \cup RunCommand
    /\ drifts \in 0..MaxDrift
    /\ faults \in 0..MaxFaults
    /\ earned \in [CanaryDir -> Seq([answer : Answer, binary : Binary])]
    /\ asked \in [PlanDir -> SUBSET Under]

\* A command that writes a plan, and where it is in doing so.
Writing == cmd.at \in {"write_v1", "write_v2", "write_harness"}

\* What a plan, or the command that makes it, refers to is on disk.
OnDisk(receipt, harness) ==
    /\ receipt \in receipts \cup {None}
    /\ harness # None => harness.live \in lives /\ harness.replay \in replays

\* Plans and commands refer to what is on disk, and a command that writes a plan
\* is at a sidecar of its kind.
References ==
    /\ \A p \in PlanDir : OnDisk(plan[p].receipt, plan[p].harness)
    /\ cmd \in PlanCommand => OnDisk(cmd.receipt, cmd.harness)
    /\ cmd.at = "plan" /\ cmd.scope \in {"pilot", "full"} => cmd.harness # None
    /\ cmd.at = "write_v1" => cmd.scope = "full" /\ cmd.harness # None
    /\ cmd.at = "write_v2" => cmd.scope = "rest"
    /\ cmd.at = "write_harness" => cmd.scope \in {"pilot", "full"} /\ cmd.harness # None

(***************************************************************************)
(* The gate before the teacher: what is earned                             *)
(***************************************************************************)
\* A private canary plan holds a beginning of the answers that were really
\* given; while a canary is called it holds all of them.
CanaryInv ==
    /\ \A d \in CanaryDir :
          /\ Len(canary[d].answers) <= Len(earned[d]) /\ Len(earned[d]) <= CanaryChunks
          /\ \A i \in 1..Len(canary[d].answers) : canary[d].answers[i] = earned[d][i].answer
          /\ canary[d].version = None => Len(earned[d]) = 0
    /\ cmd.at = "canary_plan" => canary[cmd.dir].version = None
    /\ cmd.at = "canary_call" =>
          canary[cmd.dir].version # None /\ Len(canary[cmd.dir].answers) = Len(earned[cmd.dir])

\* Every chunk of the canary was called and succeeded.
Earned(d) ==
    /\ Len(earned[d]) = CanaryChunks
    /\ \A i \in 1..CanaryChunks : earned[d][i].answer = "success"

\* What the questions of a plan may be sent under: the report its sidecar names, its
\* tree, and its executable unless that was replaced since the run began.
Strong(p, e) ==
    /\ plan[p].harness # None
    /\ e.live = plan[p].harness.live
    /\ e.tree = e.live.tree
    /\ e.binary # e.live.binary => e.replaced
    /\ Earned(e.live.dir)

\* Questions are sent for plans only, and under the sidecar's evidence.
AskInv ==
    /\ \A p \in PlanDir : plan[p].scope = None => asked[p] = {}
    /\ \A p \in PlanDir : Gated(p) => \A e \in asked[p] : Strong(p, e)
    /\ cmd.at = "plan" => plan[cmd.dir].scope = None
    /\ Writing => /\ asked[cmd.dir] = {} /\ plan[cmd.dir].harness = None
                  /\ plan[cmd.dir].scope = cmd.scope /\ plan[cmd.dir].data = cmd.data
    /\ cmd.at = "run" => /\ plan[cmd.dir].scope # None
                         /\ Gated(cmd.dir) => Strong(cmd.dir, Sent)

\* A pilot whose every gate is passed: this never becomes false again.
Passed(p, data) ==
    /\ plan[p].scope = "pilot" /\ plan[p].data = data
    /\ plan[p].first = "good" /\ plan[p].done /\ plan[p].bank /\ plan[p].audit = "passed"
    /\ asked[p] # {}

\* A receipt for a data contract stands for such a pilot.
Backed(receipt, data) == receipt # None /\ Passed(receipt.pilot, data)

\* The receipt of a complete plan is checked before its harness sidecar exists.
PilotInv ==
    /\ \A p \in PlanDir : plan[p].done => asked[p] # {}
    /\ \A p \in PlanDir :
          plan[p].scope = "full" /\ plan[p].harness # None => Backed(plan[p].receipt, plan[p].data)
    /\ cmd.at \in {"plan", "write_v1"} /\ cmd.scope = "full" => Backed(cmd.receipt, cmd.data)
    /\ cmd.at = "write_harness" /\ cmd.scope = "full" => Backed(plan[cmd.dir].receipt, cmd.data)

(***************************************************************************)
(* The gate before the teacher: types are kept                             *)
(***************************************************************************)
\* Where a command is says which one it is.
LEMMA CommandIs ==
    ASSUME GateTypes
    PROVE  /\ cmd.at \in {"canary_plan", "canary_call"} => cmd \in CanaryCommand
           /\ cmd.at \in {"plan", "write_v1", "write_v2", "write_harness"} => cmd \in PlanCommand
           /\ cmd.at = "run" => cmd \in RunCommand
           /\ cmd \in CanaryCommand => cmd.at \in {"canary_plan", "canary_call"}
           /\ cmd \in PlanCommand => cmd.at \in {"plan", "write_v1", "write_v2", "write_harness"}
BY DEF GateTypes, NoCommand, CanaryCommand, PlanCommand, RunCommand

\* A plan directory of which one part is written.
LEMMA PlanParts ==
    ASSUME NEW s \in PlanState
    PROVE  /\ \A r \in Receipt \cup {None} : [s EXCEPT !.receipt = r] \in PlanState
           /\ \A h \in Harness \cup {None} : [s EXCEPT !.harness = h] \in PlanState
           /\ [s EXCEPT !.decided = TRUE] \in PlanState
           /\ [s EXCEPT !.bank = TRUE] \in PlanState
           /\ \A v \in {"passed", "failed"} : [s EXCEPT !.audit = v] \in PlanState
           /\ \A f \in {None, "poor", "good"}, a \in BOOLEAN :
                 [s EXCEPT !.first = f, !.done = a] \in PlanState
<1>1. \A r \in Receipt \cup {None} : [s EXCEPT !.receipt = r] \in PlanState
  BY DEF PlanState
<1>2. \A h \in Harness \cup {None} : [s EXCEPT !.harness = h] \in PlanState
  BY DEF PlanState
<1>3. [s EXCEPT !.decided = TRUE] \in PlanState
  BY DEF PlanState
<1>4. [s EXCEPT !.bank = TRUE] \in PlanState
  BY DEF PlanState
<1>5. \A v \in {"passed", "failed"} : [s EXCEPT !.audit = v] \in PlanState
  BY DEF PlanState
<1>6. \A f \in {None, "poor", "good"}, a \in BOOLEAN :
        [s EXCEPT !.first = f, !.done = a] \in PlanState
  BY DEF PlanState
<1> QED
  BY <1>1, <1>2, <1>3, <1>4, <1>5, <1>6

\* One more answer of a canary.
LEMMA OneMoreAnswer ==
    ASSUME NEW s \in [version : Version \cup {None}, answers : Seq(Answer)], NEW a \in Answer
    PROVE  [s EXCEPT !.answers = Append(@, a)] \in [version : Version \cup {None}, answers : Seq(Answer)]
<1>1. s.answers \in Seq(Answer)
  OBVIOUS
<1>2. Append(s.answers, a) \in Seq(Answer)
  BY <1>1
<1> QED
  BY <1>2

\* The harness commands.
LEMMA TypesCanary ==
    ASSUME GateTypes, RunReplay \/ Canary
    PROVE  GateTypes'
<1> USE DEF GateTypes, world
<1>1. CASE RunReplay
  <2> DEFINE q == Replayed
  <2>1. q \in BOOLEAN
    BY DEF Replayed
  <2>2. env.config \in Config
    BY DEF Environment
  <2> HIDE DEF q
  <2>3. [config |-> env.config, qualified |-> q] \in Replay
    BY <2>1, <2>2 DEF Replay
  <2>4. replays' \subseteq Replay
    BY <1>1, <2>3 DEF RunReplay, q
  <2> QED
    BY <1>1, <2>4 DEF RunReplay
<1>2. CASE \E d \in CanaryDir : StartCanary(d)
  <2>1. PICK d \in CanaryDir : StartCanary(d)
    BY <1>2
  <2>2. cmd' \in CanaryCommand
    BY <2>1, GateAssumption DEF StartCanary, CanaryCommand, Environment, Installed
  <2> QED
    BY <2>1, <2>2 DEF StartCanary, reports
<1>3. CASE MakeCanary
  <2>1. cmd \in CanaryCommand
    BY <1>3, CommandIs DEF MakeCanary
  <2>2. cmd' \in CanaryCommand
    BY <1>3, <2>1 DEF MakeCanary, CanaryCommand
  <2>3. canary' \in [CanaryDir -> [version : Version \cup {None}, answers : Seq(Answer)]]
    BY <1>3, <2>1 DEF MakeCanary, CanaryCommand
  <2> QED
    BY <1>3, <2>2, <2>3 DEF MakeCanary
<1>4. CASE CallCanary
  <2>1. cmd \in CanaryCommand
    BY <1>4, CommandIs DEF CallCanary
  <2>2. cmd.dir \in CanaryDir
    BY <2>1 DEF CanaryCommand
  <2>3. PICK a \in Answer :
          /\ canary' = [canary EXCEPT ![cmd.dir].answers = Append(@, a)]
          /\ earned' = [earned EXCEPT ![cmd.dir] = Append(@, [answer |-> a, binary |-> env.binary])]
    BY <1>4 DEF CallCanary
  <2>4. canary' \in [CanaryDir -> [version : Version \cup {None}, answers : Seq(Answer)]]
    <3> DEFINE c == [canary[cmd.dir] EXCEPT !.answers = Append(@, a)]
    <3>1. c \in [version : Version \cup {None}, answers : Seq(Answer)]
      BY <2>2, OneMoreAnswer
    <3>2. canary' = [canary EXCEPT ![cmd.dir] = c]
      BY <2>2, <2>3
    <3> HIDE DEF c
    <3> QED
      BY <3>1, <3>2
  <2>5. earned' \in [CanaryDir -> Seq([answer : Answer, binary : Binary])]
    <3>1. [answer |-> a, binary |-> env.binary] \in [answer : Answer, binary : Binary]
      BY DEF Environment
    <3> DEFINE r == [answer |-> a, binary |-> env.binary]
    <3> HIDE DEF r
    <3> DEFINE c == Append(earned[cmd.dir], r)
    <3>2. r \in [answer : Answer, binary : Binary]
      BY <3>1 DEF r
    <3>3. earned[cmd.dir] \in Seq([answer : Answer, binary : Binary])
      BY <2>2
    <3>4. c \in Seq([answer : Answer, binary : Binary])
      BY <3>2, <3>3
    <3>5. earned' = [earned EXCEPT ![cmd.dir] = c]
      BY <2>3 DEF r
    <3> HIDE DEF c
    <3> QED
      BY <3>4, <3>5
  <2> QED
    BY <1>4, <2>4, <2>5 DEF CallCanary
<1>5. CASE ReportCanary
  <2>1. cmd \in CanaryCommand
    BY <1>5, CommandIs DEF ReportCanary
  <2>2. cmd.dir \in CanaryDir /\ cmd.config \in Config /\ cmd.tree \in Tree /\ cmd.version \in Version
    BY <2>1 DEF CanaryCommand
  <2> DEFINE answers == canary[cmd.dir].answers
             q == AllSucceed(answers)
             l == [config |-> cmd.config, tree |-> cmd.tree, binary |-> env.binary, version |-> cmd.version,
                   dir |-> cmd.dir, answers |-> answers, qualified |-> q]
  <2>3. Len(answers) = CanaryChunks /\ lives' = lives \cup {l}
    BY <1>5 DEF ReportCanary
  <2>4. answers \in Seq(Answer)
    BY <2>2
  <2>5. answers \in UNION {[1..n -> Answer] : n \in 0..CanaryChunks}
    <3>1. CanaryChunks \in 0..CanaryChunks
      BY GateAssumption
    <3> HIDE DEF answers
    <3>2. answers \in [1..CanaryChunks -> Answer]
      BY <2>3, <2>4
    <3> QED
      BY <3>1, <3>2
  <2>6. q \in BOOLEAN
    BY DEF AllSucceed
  <2>7. env.binary \in Binary
    BY DEF Environment
  <2>8. l \in Live
    <3> HIDE DEF q, answers
    <3> QED
      BY <2>2, <2>5, <2>6, <2>7 DEF Live
  <2> HIDE DEF l
  <2>9. lives' \subseteq Live
    BY <2>3, <2>8
  <2> QED
    BY <1>5, <2>9 DEF ReportCanary, Done
<1> QED
  BY <1>1, <1>2, <1>3, <1>4, <1>5 DEF Canary

\* The commands that make a plan.
LEMMA TypesPlanning ==
    ASSUME GateTypes, Planning
    PROVE  GateTypes'
<1> USE DEF GateTypes, world, reports
<1>1. ASSUME NEW p \in PlanDir, StartRestPlan(p) \/ \E scope \in Scope : StartPlan(p, scope)
      PROVE  GateTypes'
  <2>1. cmd' \in PlanCommand
    <3>1. env.data \in Data /\ Installed \in Version
      BY GateAssumption DEF Environment, Installed
    <3>2. CASE StartRestPlan(p)
      BY <3>1, <3>2 DEF StartRestPlan, PlanCommand, Scope
    <3>3. CASE \E scope \in Scope : StartPlan(p, scope)
      <4>1. PICK scope \in Scope : StartPlan(p, scope)
        BY <3>3
      <4>2. PICK r \in replays, l \in lives, receipt \in receipts \cup {None} :
              cmd' = [at |-> "plan", dir |-> p, scope |-> scope, version |-> Installed,
                      data |-> env.data, receipt |-> receipt, harness |-> [replay |-> r, live |-> l]]
        BY <4>1 DEF StartPlan
      <4>3. [replay |-> r, live |-> l] \in Harness
        BY DEF Harness
      <4> QED
        BY <3>1, <4>2, <4>3 DEF PlanCommand
    <3> QED
      BY <1>1, <3>2, <3>3
  <2> QED
    BY <1>1, <2>1 DEF StartRestPlan, StartPlan
<1>2. CASE MakePlan
  <2>1. cmd \in PlanCommand
    BY <1>2, CommandIs DEF MakePlan
  <2>2. cmd.dir \in PlanDir /\ cmd.scope \in Scope /\ cmd.version \in Version /\ cmd.data \in Data
    BY <2>1 DEF PlanCommand
  <2>3. cmd' \in PlanCommand
    BY <1>2, <2>1 DEF MakePlan, PlanCommand
  <2>4. [NoPlan EXCEPT !.scope = cmd.scope, !.version = cmd.version, !.data = cmd.data] \in PlanState
    BY <2>2 DEF NoPlan, PlanState
  <2>5. plan' \in [PlanDir -> PlanState]
    BY <1>2, <2>4 DEF MakePlan
  <2> QED
    BY <1>2, <2>3, <2>5 DEF MakePlan
<1>3. CASE WriteV1Sidecar
  <2>1. cmd \in PlanCommand
    BY <1>3, CommandIs DEF WriteV1Sidecar
  <2>2. cmd' \in PlanCommand
    BY <1>3, <2>1 DEF WriteV1Sidecar, PlanCommand
  <2>3. plan' \in [PlanDir -> PlanState]
    <3> DEFINE c == [plan[cmd.dir] EXCEPT !.receipt = cmd.receipt]
    <3>1. c \in PlanState
      BY <2>1, PlanParts DEF PlanCommand
    <3>2. plan' = [plan EXCEPT ![cmd.dir] = c]
      BY <1>3 DEF WriteV1Sidecar
    <3> HIDE DEF c
    <3> QED
      BY <3>1, <3>2
  <2> QED
    BY <1>3, <2>2, <2>3 DEF WriteV1Sidecar
<1>4. CASE WriteV2Sidecar
  <2>1. cmd \in PlanCommand
    BY <1>4, CommandIs DEF WriteV2Sidecar
  <2>2. plan' \in [PlanDir -> PlanState]
    <3> DEFINE c == [plan[cmd.dir] EXCEPT !.decided = TRUE]
    <3>1. c \in PlanState
      BY <2>1, PlanParts DEF PlanCommand
    <3>2. plan' = [plan EXCEPT ![cmd.dir] = c]
      BY <1>4 DEF WriteV2Sidecar
    <3> HIDE DEF c
    <3> QED
      BY <3>1, <3>2
  <2> QED
    BY <1>4, <2>2 DEF WriteV2Sidecar, Done
<1>5. CASE WriteHarnessSidecar
  <2>1. cmd \in PlanCommand
    BY <1>5, CommandIs DEF WriteHarnessSidecar
  <2>2. plan' \in [PlanDir -> PlanState]
    <3>1. CASE plan' = [plan EXCEPT ![cmd.dir].harness = cmd.harness]
      <4> DEFINE c == [plan[cmd.dir] EXCEPT !.harness = cmd.harness]
      <4>1. c \in PlanState
        BY <2>1, PlanParts DEF PlanCommand
      <4>2. plan' = [plan EXCEPT ![cmd.dir] = c]
        BY <3>1
      <4> HIDE DEF c
      <4> QED
        BY <4>1, <4>2
    <3>2. CASE plan' = plan
      BY <3>2
    <3> QED
      BY <1>5, <3>1, <3>2 DEF WriteHarnessSidecar
  <2> QED
    BY <1>5, <2>2 DEF WriteHarnessSidecar, Done
<1> QED
  BY <1>1, <1>2, <1>3, <1>4, <1>5 DEF Planning

\* The commands that work on a plan.
LEMMA TypesWorking ==
    ASSUME GateTypes, Working
    PROVE  GateTypes'
<1> USE DEF GateTypes, world, reports
<1>1. ASSUME NEW p \in PlanDir, StartAsking(p) PROVE GateTypes'
  <2>1. PICK l \in Passing(p) :
          cmd' = [at |-> "run", dir |-> p, tree |-> env.tree, live |-> l, replaced |-> FALSE]
    BY <1>1 DEF StartAsking
  <2>2. l \in Live \cup {None}
    BY DEF Passing
  <2>3. cmd' \in RunCommand
    BY <2>1, <2>2 DEF RunCommand, Environment
  <2> QED
    BY <1>1, <2>3 DEF StartAsking
<1>2. ASSUME NEW p \in PlanDir, Finalize(p) \/ Audit(p) PROVE GateTypes'
  <2>1. PICK c \in PlanState : plan' = [plan EXCEPT ![p] = c]
    <3>1. plan[p] \in PlanState
      OBVIOUS
    <3>2. CASE Finalize(p)
      <4>1. plan' = [plan EXCEPT ![p] = [plan[p] EXCEPT !.bank = TRUE]]
        BY <3>2 DEF Finalize
      <4> QED
        BY <3>1, <4>1, PlanParts
    <3>3. CASE Audit(p)
      <4>1. PICK verdict \in {"passed", "failed"} :
              plan' = [plan EXCEPT ![p] = [plan[p] EXCEPT !.audit = verdict]]
        BY <3>3 DEF Audit
      <4> QED
        BY <3>1, <4>1, PlanParts
    <3> QED
      BY <1>2, <3>2, <3>3
  <2> QED
    BY <1>2, <2>1 DEF Finalize, Audit
<1>3. ASSUME NEW p \in PlanDir, Authorize(p) PROVE GateTypes'
  <2>1. Bound(p) \in Receipt
    BY DEF Bound, Receipt, Environment
  <2> QED
    BY <1>3, <2>1 DEF Authorize
<1>4. CASE Ask
  <2>1. cmd \in RunCommand
    BY <1>4, CommandIs DEF Ask
  <2>2. cmd.dir \in PlanDir /\ Sent \in Under
    BY <2>1 DEF RunCommand, Sent, Under, Environment
  <2>3. PICK first \in IF plan[cmd.dir].first = None THEN {"poor", "good"} ELSE {plan[cmd.dir].first},
             all \in BOOLEAN :
          plan' = [plan EXCEPT ![cmd.dir].first = first, ![cmd.dir].done = all]
    BY <1>4 DEF Ask
  <2>4. first \in {None, "poor", "good"}
    BY <2>2, <2>3 DEF PlanState
  <2>5. plan' \in [PlanDir -> PlanState]
    <3> DEFINE c == [plan[cmd.dir] EXCEPT !.first = first, !.done = all]
    <3>1. c \in PlanState
      BY <2>2, <2>4, PlanParts
    <3>2. plan' = [plan EXCEPT ![cmd.dir] = c]
      BY <2>2, <2>3
    <3> HIDE DEF c
    <3> QED
      BY <3>1, <3>2
  <2>6. asked' \in [PlanDir -> SUBSET Under]
    BY <1>4, <2>2 DEF Ask
  <2> QED
    BY <1>4, <2>5, <2>6 DEF Ask
<1>5. CASE EndRun
  BY <1>5 DEF EndRun, Done
<1> QED
  BY <1>1, <1>2, <1>3, <1>4, <1>5 DEF Working

\* What happens around the commands.
LEMMA TypesOutside ==
    ASSUME GateTypes, Drift \/ Decide \/ Fault
    PROVE  GateTypes'
<1> USE DEF GateTypes, world, reports
<1>1. CASE Drift
  <2>1. env' \in Environment
    BY <1>1 DEF Drift, Environment
  <2>2. drifts' \in 0..MaxDrift
    BY <1>1, GateAssumption DEF Drift
  <2>3. cmd' \in {NoCommand} \cup CanaryCommand \cup PlanCommand \cup RunCommand
    <3>1. CASE cmd.at = "run" /\ cmd' = [cmd EXCEPT !.replaced = TRUE]
      <4>1. cmd \in RunCommand
        BY <3>1, CommandIs
      <4> QED
        BY <3>1, <4>1 DEF RunCommand
    <3>2. CASE cmd' = cmd
      BY <3>2
    <3> QED
      BY <1>1, <3>1, <3>2 DEF Drift
  <2> QED
    BY <1>1, <2>1, <2>2, <2>3 DEF Drift
<1>2. CASE Decide
  BY <1>2 DEF Decide, Environment
<1>3. CASE Fault
  <2>1. faults' \in 0..MaxFaults
    BY <1>3, GateAssumption DEF Fault
  <2>2. CASE Edit
    <3>1. PICK d \in CanaryDir :
            /\ canary[d].version # None
            /\ replays' = replays \cup {[config |-> env.config, qualified |-> TRUE]}
            /\ lives' = lives \cup
                  {[config |-> env.config, tree |-> env.tree, binary |-> env.binary,
                    version |-> canary[d].version, dir |-> d,
                    answers |-> [i \in 1..CanaryChunks |-> "success"], qualified |-> TRUE]}
      BY <2>2 DEF Edit
    <3>2. /\ env.config \in Config /\ env.tree \in Tree /\ env.binary \in Binary
          /\ canary[d].version \in Version
      BY <3>1 DEF Environment
    <3>3. [config |-> env.config, qualified |-> TRUE] \in Replay
      BY <3>2 DEF Replay
    <3> DEFINE s == [i \in 1..CanaryChunks |-> "success"]
    <3>4. s \in UNION {[1..n -> Answer] : n \in 0..CanaryChunks}
      <4>1. s \in [1..CanaryChunks -> Answer] /\ CanaryChunks \in 0..CanaryChunks
        BY GateAssumption DEF Answer
      <4> QED
        BY <4>1
    <3> HIDE DEF s
    <3>5. [config |-> env.config, tree |-> env.tree, binary |-> env.binary, version |-> canary[d].version,
           dir |-> d, answers |-> s, qualified |-> TRUE] \in Live
      BY <3>2, <3>4 DEF Live
    <3>6. lives' \subseteq Live /\ replays' \subseteq Replay
      BY <3>1, <3>3, <3>5 DEF s
    <3> QED
      BY <1>3, <2>1, <2>2, <3>6 DEF Fault, Edit
  <2>3. CASE Damage
    <3>1. PICK d \in CanaryDir :
            /\ Len(canary[d].answers) > 0
            /\ canary' = [canary EXCEPT ![d].answers = SubSeq(@, 1, Len(@) - 1)]
      BY <2>3 DEF Damage
    <3> DEFINE s == SubSeq(canary[d].answers, 1, Len(canary[d].answers) - 1)
    <3>2. s \in Seq(Answer)
      <4>1. canary[d].answers \in Seq(Answer)
        OBVIOUS
      <4> QED
        BY <3>1, <4>1
    <3>3. canary' = [canary EXCEPT ![d].answers = s]
      BY <3>1
    <3> HIDE DEF s
    <3>4. canary' \in [CanaryDir -> [version : Version \cup {None}, answers : Seq(Answer)]]
      BY <3>2, <3>3
    <3> QED
      BY <1>3, <2>1, <2>3, <3>4 DEF Fault, Damage
  <2>4. CASE Kill
    BY <1>3, <2>1, <2>4 DEF Fault, Kill, Done
  <2> QED
    BY <1>3, <2>2, <2>3, <2>4 DEF Fault
<1> QED
  BY <1>1, <1>2, <1>3

\* Every step keeps the types.
LEMMA TypesStep == GateTypes /\ [GateNext]_gateVars => GateTypes'
<1> SUFFICES ASSUME GateTypes, [GateNext]_gateVars PROVE GateTypes'
  OBVIOUS
<1>1. CASE UNCHANGED gateVars
  BY <1>1 DEF GateTypes, gateVars
<1> QED
  BY <1>1, TypesCanary, TypesPlanning, TypesWorking, TypesOutside DEF GateNext

\* The types in the initial states.
LEMMA TypesInit == GateInit => GateTypes
BY GateAssumption DEF GateInit, GateTypes, NoCanary, NoPlan, PlanState

(***************************************************************************)
(* The gate before the teacher: the invariant is kept                      *)
(***************************************************************************)
\* What every step of the gate leaves or adds to.
LEMMA GateGrows ==
    ASSUME GateTypes, [GateNext]_gateVars
    PROVE  /\ replays \subseteq replays' /\ lives \subseteq lives' /\ receipts \subseteq receipts'
           /\ \A p \in PlanDir : asked[p] \subseteq asked'[p]
<1> USE DEF world, reports
<1>1. CASE UNCHANGED gateVars
  BY <1>1 DEF gateVars
<1>2. CASE RunReplay \/ Canary
  BY <1>2 DEF RunReplay, Canary, StartCanary, MakeCanary, CallCanary, ReportCanary
<1>3. CASE Planning
  BY <1>3 DEF Planning, StartPlan, StartRestPlan, MakePlan, WriteV1Sidecar, WriteV2Sidecar,
     WriteHarnessSidecar
<1>4. CASE Working
  BY <1>4 DEF Working, StartAsking, Ask, EndRun, Finalize, Audit, Authorize, GateTypes
<1>5. CASE Drift \/ Decide \/ Fault
  BY <1>5 DEF Drift, Decide, Fault, Edit, Damage, Kill
<1> QED
  BY <1>1, <1>2, <1>3, <1>4, <1>5 DEF GateNext

\* A canary that was earned stays so: no chunk is called again.
LEMMA EarnedLasts ==
    ASSUME GateTypes, CanaryInv, [GateNext]_gateVars, NEW d \in CanaryDir, Earned(d)
    PROVE  Earned(d)'
<1> USE DEF world, reports
<1>1. earned'[d] = earned[d]
  <2>1. CASE UNCHANGED gateVars
    BY <2>1 DEF gateVars
  <2>2. CASE CallCanary
    <3>1. PICK r : earned' = [earned EXCEPT ![cmd.dir] = Append(@, r)]
      BY <2>2 DEF CallCanary
    <3>2. Len(earned[cmd.dir]) < CanaryChunks
      BY <2>2 DEF CallCanary, CanaryInv
    <3>3. CanaryChunks \in Nat
      BY GateAssumption
    <3>4. d # cmd.dir
      BY <3>2, <3>3 DEF Earned
    <3> QED
      BY <3>1, <3>4 DEF GateTypes
  <2>3. CASE RunReplay \/ (Canary /\ ~CallCanary)
    BY <2>3 DEF RunReplay, Canary, StartCanary, MakeCanary, ReportCanary
  <2>4. CASE Planning
    BY <2>4 DEF Planning, StartPlan, StartRestPlan, MakePlan, WriteV1Sidecar, WriteV2Sidecar,
       WriteHarnessSidecar
  <2>5. CASE Working
    BY <2>5 DEF Working, StartAsking, Ask, EndRun, Finalize, Audit, Authorize
  <2>6. CASE Drift \/ Decide \/ Fault
    BY <2>6 DEF Drift, Decide, Fault
  <2> QED
    BY <2>1, <2>2, <2>3, <2>4, <2>5, <2>6 DEF GateNext, Canary
<1> QED
  BY <1>1 DEF Earned

\* Steps that call no canary and lose nothing of one.
LEMMA CanaryQuiet ==
    ASSUME CanaryInv, canary' = canary, earned' = earned,
           cmd' = cmd \/ cmd'.at \notin {"canary_plan", "canary_call"}
    PROVE  CanaryInv'
BY DEF CanaryInv

\* Where a command is and what it works on does not change around it; a run takes
\* note of it when the executable is replaced under it.
LEMMA DriftMoves ==
    ASSUME GateTypes, Drift
    PROVE  \/ cmd' = cmd /\ (cmd.at = "run" => env'.binary = env.binary)
           \/ /\ cmd.at = "run" /\ cmd'.at = "run" /\ cmd' = [cmd EXCEPT !.replaced = TRUE]
              /\ UNCHANGED <<plan, asked, earned>>
<1>1. CASE cmd.at = "run"
  <2>1. cmd \in RunCommand
    BY <1>1, CommandIs
  <2> QED
    BY <1>1, <2>1 DEF Drift, RunCommand
<1>2. CASE cmd.at # "run"
  BY <1>2 DEF Drift
<1> QED
  BY <1>1, <1>2

\* The canaries hold what was earned, whatever is lost of them.
LEMMA CanaryStep == GateTypes /\ CanaryInv /\ [GateNext]_gateVars => CanaryInv'
<1> SUFFICES ASSUME GateTypes, CanaryInv, [GateNext]_gateVars PROVE CanaryInv'
  OBVIOUS
<1> USE DEF world, reports
<1>1. CASE UNCHANGED gateVars
  BY <1>1, CanaryQuiet DEF gateVars
<1>2. CASE RunReplay \/ Drift \/ Decide
  <2>1. CASE Drift
    BY <2>1, CanaryQuiet, DriftMoves DEF Drift
  <2> QED
    BY <1>2, <2>1, CanaryQuiet DEF RunReplay, Decide
<1>3. CASE \E d \in CanaryDir : StartCanary(d)
  BY <1>3 DEF StartCanary, CanaryInv
<1>4. CASE MakeCanary
  <2>1. cmd \in CanaryCommand
    BY <1>4, CommandIs DEF MakeCanary
  <2>2. cmd.dir \in CanaryDir /\ cmd.version \in Version
    BY <2>1 DEF CanaryCommand
  <2>3. cmd'.at = "canary_call" /\ cmd'.dir = cmd.dir
    BY <1>4, <2>1 DEF MakeCanary, CanaryCommand
  <2>4. \A d \in CanaryDir :
          /\ canary'[d].answers = canary[d].answers
          /\ canary'[d].version = IF d = cmd.dir THEN cmd.version ELSE canary[d].version
    BY <1>4, <2>2 DEF MakeCanary, GateTypes
  <2>5. cmd.version # None
    BY <2>2, NoneAssumption
  <2>6. Len(earned[cmd.dir]) = 0 /\ Len(canary[cmd.dir].answers) <= Len(earned[cmd.dir])
    BY <1>4, <2>2 DEF MakeCanary, CanaryInv
  <2>7. canary[cmd.dir].answers \in Seq(Answer)
    BY <2>2 DEF GateTypes
  <2>8. Len(canary[cmd.dir].answers) = Len(earned[cmd.dir])
    BY <2>6, <2>7
  <2> QED
    BY <1>4, <2>2, <2>3, <2>4, <2>5, <2>8 DEF MakeCanary, CanaryInv
<1>5. CASE CallCanary
  <2>1. cmd \in CanaryCommand
    BY <1>5, CommandIs DEF CallCanary
  <2>2. cmd.dir \in CanaryDir
    BY <2>1 DEF CanaryCommand
  <2> DEFINE s == canary[cmd.dir].answers
             t == earned[cmd.dir]
  <2>3. PICK a \in Answer :
          /\ canary' = [canary EXCEPT ![cmd.dir].answers = Append(@, a)]
          /\ earned' = [earned EXCEPT ![cmd.dir] = Append(@, [answer |-> a, binary |-> env.binary])]
    BY <1>5 DEF CallCanary
  <2> DEFINE r == [answer |-> a, binary |-> env.binary]
  <2>4. s \in Seq(Answer) /\ t \in Seq([answer : Answer, binary : Binary]) /\ r \in [answer : Answer, binary : Binary]
    BY <2>2 DEF GateTypes, Environment
  <2>5. Len(s) = Len(t) /\ Len(t) < CanaryChunks /\ CanaryChunks \in Nat /\ canary[cmd.dir].version # None
    BY <1>5, GateAssumption DEF CallCanary, CanaryInv
  <2>6. \A i \in 1..Len(s) : s[i] = t[i].answer
    BY <2>2 DEF CanaryInv
  <2>7. r.answer = a
    OBVIOUS
  <2>8. canary'[cmd.dir].answers = Append(s, a) /\ earned'[cmd.dir] = Append(t, r)
    BY <2>2, <2>3 DEF GateTypes
  <2>9. /\ Len(Append(s, a)) = Len(Append(t, r)) /\ Len(Append(t, r)) <= CanaryChunks
        /\ \A i \in 1..Len(Append(s, a)) : Append(s, a)[i] = Append(t, r)[i].answer
    <3> HIDE DEF s, t, r
    <3> QED
      BY <2>4, <2>5, <2>6, <2>7
  <2>10. \A d \in CanaryDir :
           /\ canary'[d].version = canary[d].version
           /\ d # cmd.dir => canary'[d] = canary[d] /\ earned'[d] = earned[d]
    BY <2>3 DEF GateTypes
  <2>11. cmd' = cmd
    BY <1>5 DEF CallCanary
  <2>12. Len(Append(s, a)) \in Nat /\ Len(Append(t, r)) \in Nat
    <3> HIDE DEF s, t, r
    <3> QED
      BY <2>4
  <2> HIDE DEF s, t, r
  <2> QED
    BY <1>5, <2>2, <2>5, <2>8, <2>9, <2>10, <2>11, <2>12 DEF CallCanary, CanaryInv
<1>6. CASE ReportCanary
  BY <1>6, CanaryQuiet DEF ReportCanary, Done, NoCommand
<1>7. CASE Planning
  <2>1. CASE \E p \in PlanDir : StartRestPlan(p) \/ \E scope \in Scope : StartPlan(p, scope)
    BY <2>1, CanaryQuiet DEF StartRestPlan, StartPlan
  <2>2. CASE MakePlan \/ WriteV1Sidecar
    <3>1. cmd \in PlanCommand
      BY <2>2, CommandIs DEF MakePlan, WriteV1Sidecar
    <3>2. cmd'.at \in {"write_v1", "write_v2", "write_harness"}
      BY <2>2, <3>1 DEF MakePlan, WriteV1Sidecar, PlanCommand
    <3> QED
      BY <2>2, <3>2, CanaryQuiet DEF MakePlan, WriteV1Sidecar
  <2>3. CASE WriteV2Sidecar \/ WriteHarnessSidecar
    BY <2>3, CanaryQuiet DEF WriteV2Sidecar, WriteHarnessSidecar, Done, NoCommand
  <2> QED
    BY <1>7, <2>1, <2>2, <2>3 DEF Planning
<1>8. CASE Working
  BY <1>8, CanaryQuiet DEF Working, StartAsking, Ask, EndRun, Finalize, Audit, Authorize, Done, NoCommand
<1>9. CASE Fault
  <2>1. CASE Edit \/ Kill
    BY <1>9, <2>1, CanaryQuiet DEF Fault, Edit, Kill, Done, NoCommand
  <2>2. CASE Damage
    <3>1. PICK d \in CanaryDir :
            /\ Len(canary[d].answers) > 0
            /\ canary' = [canary EXCEPT ![d].answers = SubSeq(@, 1, Len(@) - 1)]
      BY <2>2 DEF Damage
    <3> DEFINE s == canary[d].answers
               u == SubSeq(s, 1, Len(s) - 1)
    <3>2. s \in Seq(Answer) /\ Len(s) \in Nat /\ Len(s) > 0
      BY <3>1 DEF GateTypes
    <3>3. Len(u) = Len(s) - 1 /\ \A i \in 1..Len(u) : u[i] = s[i]
      <4> HIDE DEF s
      <4> QED
        BY <3>2
    <3>4. canary'[d].answers = u
      BY <3>1 DEF GateTypes
    <3>5. \A e \in CanaryDir : canary'[e].version = canary[e].version /\ (e # d => canary'[e] = canary[e])
      BY <3>1 DEF GateTypes
    <3>6. cmd' = cmd /\ cmd.at # "canary_call" /\ earned' = earned
      BY <1>9, <2>2 DEF Damage, Fault
    <3>7. Len(s) <= Len(earned[d]) /\ \A i \in 1..Len(s) : s[i] = earned[d][i].answer
      BY DEF CanaryInv
    <3>8. Len(earned[d]) \in Nat
      BY DEF GateTypes
    <3> HIDE DEF s, u
    <3>9. Len(u) <= Len(earned[d]) /\ \A i \in 1..Len(u) : u[i] = earned[d][i].answer
      BY <3>2, <3>3, <3>7, <3>8
    <3>10. \A e \in CanaryDir :
             /\ Len(canary'[e].answers) <= Len(earned[e]) /\ Len(earned[e]) <= CanaryChunks
             /\ \A i \in 1..Len(canary'[e].answers) : canary'[e].answers[i] = earned[e][i].answer
             /\ canary'[e].version = None => Len(earned[e]) = 0
      BY <3>4, <3>5, <3>9 DEF CanaryInv
    <3>11. cmd.at = "canary_plan" => canary'[cmd.dir].version = None
      <4> SUFFICES ASSUME cmd.at = "canary_plan" PROVE canary'[cmd.dir].version = None
        OBVIOUS
      <4>1. cmd.dir \in CanaryDir
        BY CommandIs DEF CanaryCommand
      <4> QED
        BY <4>1, <3>5 DEF CanaryInv
    <3> QED
      BY <3>6, <3>10, <3>11 DEF CanaryInv
  <2> QED
    BY <1>9, <2>1, <2>2 DEF Fault
<1> QED
  BY <1>1, <1>2, <1>3, <1>4, <1>5, <1>6, <1>7, <1>8, <1>9 DEF GateNext, Canary

\* A plan is written by a command that makes one, at its own directory.
LEMMA CommandParts ==
    ASSUME GateTypes
    PROVE  /\ cmd.at \in {"plan", "write_v1", "write_v2", "write_harness"} =>
                /\ cmd.dir \in PlanDir /\ cmd.scope \in Scope /\ cmd.data \in Data
                /\ cmd.receipt \in Receipt \cup {None} /\ cmd.harness \in Harness \cup {None}
           /\ cmd.at = "run" => cmd.dir \in PlanDir /\ Sent \in Under
<1>1. cmd.at = "run" => cmd.dir \in PlanDir /\ Sent \in Under
  BY CommandIs DEF GateTypes, Environment, RunCommand, Sent, Under
<1> QED
  BY <1>1, CommandIs DEF PlanCommand

\* What a step that makes no plan may write of one.
LEMMA PlanChanges ==
    ASSUME GateTypes, [GateNext]_gateVars, NEW p \in PlanDir
    PROVE  \/ plan'[p] = plan[p]
           \/ /\ cmd.at = "plan" /\ p = cmd.dir /\ MakePlan
              /\ plan'[p] = [NoPlan EXCEPT !.scope = cmd.scope, !.version = cmd.version, !.data = cmd.data]
           \/ /\ cmd.at = "write_v1" /\ p = cmd.dir /\ WriteV1Sidecar
              /\ plan'[p] = [plan[p] EXCEPT !.receipt = cmd.receipt]
           \/ /\ cmd.at = "write_v2" /\ p = cmd.dir /\ WriteV2Sidecar
              /\ plan'[p] = [plan[p] EXCEPT !.decided = TRUE]
           \/ /\ cmd.at = "write_harness" /\ p = cmd.dir /\ WriteHarnessSidecar
              /\ plan'[p] = [plan[p] EXCEPT !.harness = cmd.harness]
           \/ /\ cmd.at = "run" /\ p = cmd.dir /\ Ask /\ ~plan[p].done
              /\ \E first \in {"poor", "good"}, all \in BOOLEAN :
                    plan'[p] = [plan[p] EXCEPT !.first = first, !.done = all]
           \/ /\ cmd.at = "idle" /\ UNCHANGED cmd
              /\ plan'[p] = [plan[p] EXCEPT !.bank = TRUE]
           \/ /\ cmd.at = "idle" /\ UNCHANGED cmd /\ plan[p].audit = None
              /\ \E verdict \in {"passed", "failed"} : plan'[p] = [plan[p] EXCEPT !.audit = verdict]
<1> USE DEF world, reports
<1>0. plan \in [PlanDir -> PlanState] /\ plan[p] \in PlanState
  BY DEF GateTypes
<1>1. CASE UNCHANGED gateVars
  BY <1>1 DEF gateVars
<1>2. CASE RunReplay \/ Canary
  BY <1>2 DEF RunReplay, Canary, StartCanary, MakeCanary, CallCanary, ReportCanary
<1>3. CASE Planning
  <2>1. CASE \E q \in PlanDir : StartRestPlan(q) \/ \E scope \in Scope : StartPlan(q, scope)
    BY <2>1 DEF StartRestPlan, StartPlan
  <2>2. CASE MakePlan
    BY <2>2, <1>0 DEF MakePlan
  <2>3. CASE WriteV1Sidecar
    BY <2>3, <1>0 DEF WriteV1Sidecar
  <2>4. CASE WriteV2Sidecar
    BY <2>4, <1>0 DEF WriteV2Sidecar
  <2>5. CASE WriteHarnessSidecar
    BY <2>5, <1>0 DEF WriteHarnessSidecar
  <2> QED
    BY <1>3, <2>1, <2>2, <2>3, <2>4, <2>5 DEF Planning
<1>4. CASE Working
  <2>1. ASSUME NEW q \in PlanDir, StartAsking(q) \/ Authorize(q) PROVE plan'[p] = plan[p]
    BY <2>1 DEF StartAsking, Authorize
  <2>2. ASSUME NEW q \in PlanDir, Finalize(q)
        PROVE  cmd.at = "idle" /\ UNCHANGED cmd
               /\ (plan'[p] = plan[p] \/ plan'[p] = [plan[p] EXCEPT !.bank = TRUE])
    BY <2>2, <1>0 DEF Finalize, Ready
  <2>3. ASSUME NEW q \in PlanDir, Audit(q)
        PROVE  cmd.at = "idle" /\ UNCHANGED cmd
               /\ (\/ plan'[p] = plan[p]
                   \/ /\ plan[p].audit = None
                      /\ \E verdict \in {"passed", "failed"} : plan'[p] = [plan[p] EXCEPT !.audit = verdict])
    BY <2>3, <1>0 DEF Audit, Ready
  <2>4. CASE Ask
    <3>1. PICK first \in IF plan[cmd.dir].first = None THEN {"poor", "good"} ELSE {plan[cmd.dir].first},
               all \in BOOLEAN :
            plan' = [plan EXCEPT ![cmd.dir].first = first, ![cmd.dir].done = all]
      BY <2>4 DEF Ask
    <3>2. cmd.dir \in PlanDir /\ cmd.at = "run" /\ ~plan[cmd.dir].done
      BY <2>4, CommandParts DEF Ask
    <3>3. first \in {"poor", "good"}
      BY <3>1, <3>2, <1>0 DEF PlanState
    <3>4. p # cmd.dir => plan'[p] = plan[p]
      BY <3>1, <3>2, <1>0
    <3>5. plan'[cmd.dir] = [plan[cmd.dir] EXCEPT !.first = first, !.done = all]
      BY <3>1, <3>2, <1>0
    <3> QED
      BY <2>4, <3>2, <3>3, <3>4, <3>5
  <2>5. CASE EndRun
    BY <2>5 DEF EndRun
  <2> QED
    BY <1>4, <2>1, <2>2, <2>3, <2>4, <2>5 DEF Working
<1>5. CASE Drift \/ Decide \/ Fault
  BY <1>5 DEF Drift, Decide, Fault
<1> QED
  BY <1>1, <1>2, <1>3, <1>4, <1>5 DEF GateNext

\* Where a command goes.
LEMMA CommandMoves ==
    ASSUME GateTypes, [GateNext]_gateVars
    PROVE  \/ cmd' = cmd /\ (cmd.at = "run" => env'.binary = env.binary)
           \/ /\ cmd.at = "run" /\ cmd'.at = "run" /\ cmd' = [cmd EXCEPT !.replaced = TRUE]
              /\ UNCHANGED <<plan, asked, earned>>
           \/ cmd'.at \in {"idle", "canary_plan", "canary_call"}
           \/ \E p \in PlanDir : StartRestPlan(p)
           \/ \E p \in PlanDir, scope \in Scope : StartPlan(p, scope)
           \/ MakePlan
           \/ WriteV1Sidecar
           \/ \E p \in PlanDir : StartAsking(p)
<1> USE DEF world, reports
<1>1. CASE UNCHANGED gateVars
  BY <1>1 DEF gateVars
<1>2. CASE RunReplay \/ Canary
  <2>1. CASE MakeCanary
    <3>1. cmd \in CanaryCommand
      BY <2>1, CommandIs DEF MakeCanary
    <3> QED
      BY <2>1, <3>1 DEF MakeCanary, CanaryCommand
  <2> QED
    BY <1>2, <2>1 DEF RunReplay, Canary, StartCanary, CallCanary, ReportCanary, Done, NoCommand
<1>3. CASE Planning
  BY <1>3 DEF Planning, WriteV2Sidecar, WriteHarnessSidecar, Done, NoCommand
<1>4. CASE Working
  BY <1>4 DEF Working, Ask, EndRun, Finalize, Audit, Authorize, Done, NoCommand
<1>5. CASE Decide \/ Fault
  BY <1>5 DEF Decide, Fault, Edit, Damage, Kill, Done, NoCommand
<1>6. CASE Drift
  BY <1>6, DriftMoves
<1> QED
  BY <1>1, <1>2, <1>3, <1>4, <1>5, <1>6 DEF GateNext

\* What is referred to is on disk: reports and receipts are never taken away.
LEMMA ReferencesStep == GateTypes /\ References /\ [GateNext]_gateVars => References'
<1> SUFFICES ASSUME GateTypes, References, [GateNext]_gateVars PROVE References'
  OBVIOUS
<1>1. replays \subseteq replays' /\ lives \subseteq lives' /\ receipts \subseteq receipts'
  BY GateGrows
<1>2. ASSUME NEW p \in PlanDir PROVE OnDisk(plan[p].receipt, plan[p].harness)'
  <2>1. plan[p] \in PlanState
    BY DEF GateTypes
  <2>2. OnDisk(plan[p].receipt, plan[p].harness)
    BY DEF References
  <2>3. cmd.at \in {"write_v1", "write_harness"} => OnDisk(cmd.receipt, cmd.harness)
    BY CommandIs DEF References
  <2>4. CASE MakePlan /\ plan'[p] = [NoPlan EXCEPT !.scope = cmd.scope, !.version = cmd.version, !.data = cmd.data]
    <3>1. plan'[p].receipt = None /\ plan'[p].harness = None
      BY <2>4 DEF NoPlan
    <3> QED
      BY <3>1 DEF OnDisk
  <2>5. CASE cmd.at = "write_v1" /\ plan'[p] = [plan[p] EXCEPT !.receipt = cmd.receipt]
    <3>1. plan'[p].receipt = cmd.receipt /\ plan'[p].harness = plan[p].harness
      BY <2>1, <2>5 DEF PlanState
    <3> QED
      BY <1>1, <2>2, <2>3, <2>5, <3>1 DEF OnDisk
  <2>6. CASE cmd.at = "write_harness" /\ plan'[p] = [plan[p] EXCEPT !.harness = cmd.harness]
    <3>1. plan'[p].receipt = plan[p].receipt /\ plan'[p].harness = cmd.harness
      BY <2>1, <2>6 DEF PlanState
    <3> QED
      BY <1>1, <2>2, <2>3, <2>6, <3>1 DEF OnDisk
  <2>7. CASE plan'[p].receipt = plan[p].receipt /\ plan'[p].harness = plan[p].harness
    BY <1>1, <2>2, <2>7 DEF OnDisk
  <2> QED
    BY <2>1, <2>4, <2>5, <2>6, <2>7, PlanChanges DEF PlanState
<1> DEFINE Refers(c) ==
             /\ c \in PlanCommand => OnDisk(c.receipt, c.harness)
             /\ c.at = "plan" /\ c.scope \in {"pilot", "full"} => c.harness # None
             /\ c.at = "write_v1" => c.scope = "full" /\ c.harness # None
             /\ c.at = "write_v2" => c.scope = "rest"
             /\ c.at = "write_harness" => c.scope \in {"pilot", "full"} /\ c.harness # None
<1>3. Refers(cmd)
  BY DEF References
<1>4. \A c \in PlanCommand : c.at \in {"plan", "write_v1", "write_v2", "write_harness"}
  BY DEF PlanCommand
<1>5. Refers(cmd)'
  <2>1. CASE cmd' = cmd
    BY <1>1, <1>3, <2>1 DEF OnDisk
  <2>2. CASE cmd'.at \in {"idle", "canary_plan", "canary_call", "run"} \/ \E p \in PlanDir : StartAsking(p)
    <3>1. cmd'.at \notin {"plan", "write_v1", "write_v2", "write_harness"}
      BY <2>2 DEF StartAsking
    <3> QED
      BY <1>4, <3>1
  <2>3. CASE \E p \in PlanDir : StartRestPlan(p)
    <3>1. cmd'.at = "plan" /\ cmd'.scope = "rest" /\ cmd'.receipt = None /\ cmd'.harness = None
      BY <2>3 DEF StartRestPlan
    <3> QED
      BY <3>1 DEF OnDisk
  <2>4. CASE \E p \in PlanDir, scope \in Scope : StartPlan(p, scope)
    <3>1. PICK p \in PlanDir, scope \in Scope, r \in replays, l \in lives, receipt \in receipts \cup {None} :
            cmd' = [at |-> "plan", dir |-> p, scope |-> scope, version |-> Installed,
                    data |-> env.data, receipt |-> receipt, harness |-> [replay |-> r, live |-> l]]
      BY <2>4 DEF StartPlan
    <3>2. cmd'.at = "plan" /\ cmd'.receipt = receipt /\ cmd'.harness = [replay |-> r, live |-> l]
      BY <3>1
    <3>3. [replay |-> r, live |-> l] \in Harness
      BY DEF Harness, GateTypes
    <3>4. cmd'.harness # None
      BY <3>2, <3>3, NoneAssumption DEF Harness
    <3>5. OnDisk(cmd.receipt, cmd.harness)'
      BY <1>1, <3>2 DEF OnDisk
    <3> QED
      BY <3>2, <3>4, <3>5
  <2>5. CASE MakePlan
    <3>1. cmd \in PlanCommand /\ cmd.at = "plan"
      BY <2>5, CommandIs DEF MakePlan
    <3>2. /\ cmd'.receipt = cmd.receipt /\ cmd'.harness = cmd.harness /\ cmd'.scope = cmd.scope
          /\ cmd'.at = CASE cmd.scope = "full" -> "write_v1"
                         [] cmd.scope = "rest" -> "write_v2"
                         [] OTHER -> "write_harness"
      BY <2>5, <3>1 DEF MakePlan, PlanCommand
    <3>3. cmd.scope \in {"full", "rest", "pilot"}
      BY <3>1 DEF PlanCommand, Scope
    <3>4. OnDisk(cmd.receipt, cmd.harness)'
      BY <1>1, <1>3, <3>1, <3>2 DEF OnDisk
    <3> QED
      BY <1>3, <3>1, <3>2, <3>3, <3>4
  <2>6. CASE WriteV1Sidecar
    <3>1. cmd \in PlanCommand /\ cmd.at = "write_v1"
      BY <2>6, CommandIs DEF WriteV1Sidecar
    <3>2. /\ cmd'.receipt = cmd.receipt /\ cmd'.harness = cmd.harness /\ cmd'.scope = cmd.scope
          /\ cmd'.at = "write_harness"
      BY <2>6, <3>1 DEF WriteV1Sidecar, PlanCommand
    <3>3. OnDisk(cmd.receipt, cmd.harness)'
      BY <1>1, <1>3, <3>1, <3>2 DEF OnDisk
    <3> QED
      BY <1>3, <3>1, <3>2, <3>3
  <2> QED
    BY <2>1, <2>2, <2>3, <2>4, <2>5, <2>6, CommandMoves
<1> QED
  BY <1>2, <1>5 DEF References

(***************************************************************************)
(* The gate before the teacher: what questions are sent under              *)
(***************************************************************************)
\* Evidence that was enough for a plan stays so while its sidecar is kept.
LEMMA StrongLasts ==
    ASSUME GateTypes, CanaryInv, [GateNext]_gateVars,
           NEW p \in PlanDir, plan'[p].harness = plan[p].harness, NEW e \in Under, Strong(p, e)
    PROVE  Strong(p, e)'
<1>1. plan[p].harness \in Harness
  BY DEF Strong, GateTypes, PlanState
<1>2. plan[p].harness.live.dir \in CanaryDir
  BY <1>1 DEF Harness, Live
<1>3. \A d \in CanaryDir : Earned(d) => Earned(d)'
  BY EarnedLasts
<1>4. Earned(plan[p].harness.live.dir)'
  <2>1. Earned(plan[p].harness.live.dir)
    BY DEF Strong
  <2> QED
    BY <1>2, <1>3, <2>1 DEF Earned
<1> QED
  BY <1>4 DEF Strong, Earned

\* A command that goes on asking has evidence for it.
LEMMA StartsStrong ==
    ASSUME GateTypes, CanaryInv, NEW p \in PlanDir, StartAsking(p)
    PROVE  /\ plan[p].scope # None /\ UNCHANGED <<plan, asked, earned>>
           /\ cmd'.at = "run" /\ cmd'.dir = p
           /\ Gated(p) => Strong(p, Sent')
<1>1. PICK l \in Passing(p) :
        cmd' = [at |-> "run", dir |-> p, tree |-> env.tree, live |-> l, replaced |-> FALSE]
  BY DEF StartAsking
<1>2. plan[p].scope # None
  BY <1>1, NoneAssumption DEF Passing, Scope
<1>3. ASSUME Gated(p) PROVE Strong(p, Sent')
  <2>1. PICK r \in replays : l \in lives /\ Recheck(p, r, l)
    BY <1>1, <1>3 DEF Passing, Gated
  <2>2. plan[p].harness = [replay |-> r, live |-> l] /\ l \in Live
    BY <2>1 DEF Recheck, GateTypes
  <2>3. plan[p].harness # None /\ plan[p].harness.live = l
    BY <2>1, <2>2, NoneAssumption DEF GateTypes
  <2>4. l.tree = env.tree /\ l.binary = env.binary
    BY <2>1 DEF Recheck, Qualified, Rederived
  <2>5. l.dir \in CanaryDir
    BY <2>2 DEF Live
  <2>6. AllSucceed(canary[l.dir].answers)
    BY <2>1 DEF Recheck, Qualified, Rederived
  <2>7. Earned(l.dir)
    <3>1. Len(canary[l.dir].answers) = CanaryChunks
      BY <2>6 DEF AllSucceed
    <3>2. canary[l.dir].answers \in Seq(Answer) /\ Len(earned[l.dir]) \in Nat /\ CanaryChunks \in Nat
      BY <2>5, GateAssumption DEF GateTypes
    <3>3. Len(earned[l.dir]) = CanaryChunks
      BY <2>5, <3>1, <3>2 DEF CanaryInv
    <3>4. \A i \in 1..CanaryChunks : canary[l.dir].answers[i] = "success"
      BY <2>6, <3>1, <3>2 DEF AllSucceed
    <3> QED
      BY <2>5, <3>1, <3>3, <3>4 DEF CanaryInv, Earned
  <2>8. Sent' = [tree |-> env.tree, live |-> l, binary |-> env.binary, replaced |-> FALSE]
    BY <1>1 DEF StartAsking, Sent, world
  <2> QED
    BY <2>3, <2>4, <2>7, <2>8 DEF Strong
<1> QED
  BY <1>1, <1>2, <1>3 DEF StartAsking

\* Only a running command sends questions, for its own plan and under what it found.
LEMMA AskedChanges ==
    ASSUME GateTypes, [GateNext]_gateVars
    PROVE  \/ asked' = asked
           \/ /\ Ask /\ cmd.at = "run" /\ cmd' = cmd
              /\ asked' = [asked EXCEPT ![cmd.dir] = @ \cup {Sent}]
<1> USE DEF world, reports
<1>1. CASE UNCHANGED gateVars
  BY <1>1 DEF gateVars
<1>2. CASE RunReplay \/ Canary
  BY <1>2 DEF RunReplay, Canary, StartCanary, MakeCanary, CallCanary, ReportCanary
<1>3. CASE Planning
  BY <1>3 DEF Planning, StartPlan, StartRestPlan, MakePlan, WriteV1Sidecar, WriteV2Sidecar,
     WriteHarnessSidecar
<1>4. CASE Working
  BY <1>4 DEF Working, StartAsking, Ask, EndRun, Finalize, Audit, Authorize
<1>5. CASE Drift \/ Decide \/ Fault
  BY <1>5 DEF Drift, Decide, Fault
<1> QED
  BY <1>1, <1>2, <1>3, <1>4, <1>5 DEF GateNext

\* The scope, the data and the sidecar of a plan change only while it is made.
LEMMA PlanIsKept ==
    ASSUME GateTypes, [GateNext]_gateVars, NEW p \in PlanDir
    PROVE  \/ /\ plan'[p].scope = plan[p].scope /\ plan'[p].data = plan[p].data
              /\ plan'[p].harness = plan[p].harness
           \/ /\ cmd.at = "plan" /\ p = cmd.dir /\ MakePlan
              /\ plan'[p].scope = cmd.scope /\ plan'[p].data = cmd.data
              /\ plan'[p].harness = None
           \/ /\ cmd.at = "write_harness" /\ p = cmd.dir /\ WriteHarnessSidecar
              /\ plan'[p].scope = plan[p].scope /\ plan'[p].data = plan[p].data
<1>1. plan[p] \in PlanState
  BY DEF GateTypes
<1> QED
  BY <1>1, PlanChanges DEF PlanState, NoPlan

\* Questions are only ever sent under the evidence of their plan's sidecar.
LEMMA AskStep ==
    GateTypes /\ CanaryInv /\ AskInv /\ [GateNext]_gateVars => AskInv'
<1> SUFFICES ASSUME GateTypes, CanaryInv, AskInv, [GateNext]_gateVars PROVE AskInv'
  OBVIOUS
<1>1. ASSUME NEW p \in PlanDir
      PROVE  /\ plan'[p].scope = None => asked'[p] = {}
             /\ Gated(p)' => \A e \in asked'[p] : Strong(p, e)'
  <2>1. /\ plan[p].scope = None => asked[p] = {}
        /\ Gated(p) => \A e \in asked[p] : Strong(p, e)
    BY DEF AskInv
  <2>2. asked[p] \subseteq Under
    BY DEF GateTypes
  <2>3. CASE asked'[p] = {}
    BY <2>3
  <2>4. CASE asked'[p] # {} /\ asked'[p] = asked[p]
    <3>1. ~(cmd.at = "plan" /\ p = cmd.dir) /\ ~(cmd.at = "write_harness" /\ p = cmd.dir)
      BY <2>1, <2>4 DEF AskInv, Writing
    <3>2. plan'[p].scope = plan[p].scope /\ plan'[p].harness = plan[p].harness
      BY <3>1, PlanIsKept
    <3>3. \A e \in Under : Strong(p, e) => Strong(p, e)'
      BY <3>2, StrongLasts
    <3> QED
      BY <2>1, <2>2, <2>4, <3>2, <3>3 DEF Gated
  <2>5. CASE asked'[p] # asked[p]
    <3>1. /\ Ask /\ cmd.at = "run" /\ p = cmd.dir /\ asked'[p] = asked[p] \cup {Sent}
      BY <2>5, AskedChanges DEF GateTypes
    <3>2. plan'[p].scope = plan[p].scope /\ plan'[p].harness = plan[p].harness
      BY <3>1, PlanIsKept
    <3>3. \A e \in Under : Strong(p, e) => Strong(p, e)'
      BY <3>2, StrongLasts
    <3>4. plan[p].scope # None /\ (Gated(p) => Strong(p, Sent)) /\ Sent \in Under
      BY <3>1, CommandParts DEF AskInv
    <3> QED
      BY <2>1, <2>2, <3>1, <3>2, <3>3, <3>4 DEF Gated
  <2> QED
    BY <2>3, <2>4, <2>5
<1> DEFINE Wrote == Writing => /\ asked[cmd.dir] = {} /\ plan[cmd.dir].harness = None
                               /\ plan[cmd.dir].scope = cmd.scope /\ plan[cmd.dir].data = cmd.data
           Runs == cmd.at = "run" => /\ plan[cmd.dir].scope # None
                                     /\ Gated(cmd.dir) => Strong(cmd.dir, Sent)
<1>2. (cmd.at = "plan" => plan[cmd.dir].scope = None)' /\ Wrote' /\ Runs'
  <2>1. CASE cmd' = cmd /\ (cmd.at = "run" => env'.binary = env.binary)
    <3>1. cmd.at \in {"plan", "write_v1", "write_v2", "write_harness"} => plan' = plan /\ asked' = asked
      <4> SUFFICES ASSUME cmd.at \in {"plan", "write_v1", "write_v2", "write_harness"}
                   PROVE  plan' = plan /\ asked' = asked
        OBVIOUS
      <4>1. cmd \in PlanCommand
        BY CommandIs
      <4>2. ~MakePlan /\ ~WriteV1Sidecar /\ ~WriteV2Sidecar /\ ~WriteHarnessSidecar /\ ~Ask
        BY <2>1, <4>1 DEF MakePlan, WriteV1Sidecar, WriteV2Sidecar, WriteHarnessSidecar, Ask, PlanCommand,
           Scope, Done, NoCommand
      <4>3. \A p \in PlanDir : plan'[p] = plan[p]
        BY <4>2, PlanChanges
      <4>4. plan' = plan
        <5>1. plan \in [PlanDir -> PlanState]
          BY DEF GateTypes
        <5>2. GateTypes'
          BY TypesStep
        <5>3. plan' \in [PlanDir -> PlanState]
          BY <5>2 DEF GateTypes
        <5> QED
          BY <4>3, <5>1, <5>3
      <4> QED
        BY <4>2, <4>4, AskedChanges
    <3>2. (cmd.at = "plan" => plan[cmd.dir].scope = None)' /\ Wrote'
      BY <2>1, <3>1 DEF AskInv, Writing
    <3>3. Runs'
      <4> SUFFICES ASSUME cmd.at = "run"
                   PROVE  /\ plan'[cmd.dir].scope # None
                          /\ Gated(cmd.dir)' => Strong(cmd.dir, Sent)'
        BY <2>1
      <4>1. cmd.dir \in PlanDir /\ Sent \in Under /\ Sent' = Sent
        BY <2>1, CommandParts DEF Sent
      <4>2. plan'[cmd.dir].scope = plan[cmd.dir].scope /\ plan'[cmd.dir].harness = plan[cmd.dir].harness
        BY <4>1, PlanIsKept
      <4>3. \A p \in PlanDir, e \in Under :
              plan'[p].harness = plan[p].harness /\ Strong(p, e) => Strong(p, e)'
        BY StrongLasts
      <4>4. plan[cmd.dir].scope # None /\ (Gated(cmd.dir) => Strong(cmd.dir, Sent))
        BY DEF AskInv
      <4>5. Strong(cmd.dir, Sent) => Strong(cmd.dir, Sent)'
        BY <2>1, <4>1, <4>2, <4>3 DEF Strong, Earned
      <4> QED
        BY <2>1, <4>2, <4>4, <4>5 DEF Gated
    <3> QED
      BY <3>2, <3>3
  <2>2. CASE cmd'.at \in {"idle", "canary_plan", "canary_call"}
    BY <2>2 DEF Writing
  <2>3. CASE \E p \in PlanDir : StartRestPlan(p) \/ \E scope \in Scope : StartPlan(p, scope)
    <3>1. cmd'.at = "plan" /\ plan[cmd'.dir].scope = None /\ plan' = plan
      BY <2>3 DEF StartRestPlan, StartPlan, Fresh
    <3> QED
      BY <3>1 DEF Writing
  <2>4. CASE MakePlan
    <3>1. cmd \in PlanCommand /\ cmd.at = "plan" /\ cmd.dir \in PlanDir
      BY <2>4, CommandIs, CommandParts DEF MakePlan
    <3>2. cmd'.at \in {"write_v1", "write_v2", "write_harness"}
      BY <2>4, <3>1 DEF MakePlan, PlanCommand
    <3>3. cmd'.dir = cmd.dir /\ cmd'.scope = cmd.scope /\ cmd'.data = cmd.data /\ asked' = asked
      BY <2>4, <3>1 DEF MakePlan, PlanCommand
    <3>4. asked[cmd.dir] = {}
      BY <3>1 DEF AskInv
    <3>5. plan'[cmd.dir] = [NoPlan EXCEPT !.scope = cmd.scope, !.version = cmd.version, !.data = cmd.data]
      BY <2>4, <3>1 DEF MakePlan, GateTypes
    <3>6. /\ plan'[cmd.dir].harness = None /\ plan'[cmd.dir].scope = cmd.scope
          /\ plan'[cmd.dir].data = cmd.data
      BY <3>5 DEF NoPlan
    <3> QED
      BY <3>2, <3>3, <3>4, <3>6
  <2>5. CASE WriteV1Sidecar
    <3>1. cmd \in PlanCommand /\ cmd.at = "write_v1" /\ cmd.dir \in PlanDir
      BY <2>5, CommandIs, CommandParts DEF WriteV1Sidecar
    <3>2. cmd'.at = "write_harness" /\ cmd'.dir = cmd.dir /\ cmd'.scope = cmd.scope /\ cmd'.data = cmd.data
      BY <2>5, <3>1 DEF WriteV1Sidecar, PlanCommand
    <3>3. /\ plan'[cmd.dir].scope = plan[cmd.dir].scope /\ plan'[cmd.dir].data = plan[cmd.dir].data
          /\ plan'[cmd.dir].harness = plan[cmd.dir].harness /\ asked' = asked
      BY <2>5, <3>1, PlanIsKept DEF WriteV1Sidecar
    <3> QED
      BY <3>1, <3>2, <3>3 DEF AskInv, Writing
  <2>6. ASSUME NEW p \in PlanDir, StartAsking(p)
        PROVE  (cmd.at = "plan" => plan[cmd.dir].scope = None)' /\ Wrote' /\ Runs'
    <3>1. /\ plan[p].scope # None /\ UNCHANGED <<plan, asked, earned>>
          /\ cmd'.at = "run" /\ cmd'.dir = p
          /\ Gated(p) => Strong(p, Sent')
      BY <2>6, StartsStrong
    <3> QED
      BY <3>1 DEF Writing, Gated, Strong, Earned
  <2>7. CASE /\ cmd.at = "run" /\ cmd'.at = "run" /\ cmd' = [cmd EXCEPT !.replaced = TRUE]
             /\ UNCHANGED <<plan, asked, earned>>
    <3>1. cmd \in RunCommand
      BY <2>7, CommandIs
    <3>2. cmd'.dir = cmd.dir /\ cmd'.tree = cmd.tree /\ cmd'.live = cmd.live /\ cmd'.replaced
      BY <2>7, <3>1 DEF RunCommand
    <3>3. Strong(cmd.dir, Sent) => Strong(cmd.dir, Sent)'
      BY <2>7, <3>2 DEF Strong, Sent, Earned
    <3> QED
      BY <2>7, <3>2, <3>3 DEF AskInv, Writing, Gated
  <2> QED
    BY <2>1, <2>2, <2>3, <2>4, <2>5, <2>6, <2>7, CommandMoves
<1> QED
  BY <1>1, <1>2 DEF AskInv

\* A pilot that passed every gate has passed for good: no command takes back
\* what its ledger, its bank or its audit said.
LEMMA PassedLasts ==
    ASSUME GateTypes, AskInv, [GateNext]_gateVars, NEW p \in PlanDir, NEW data \in Data \cup {None}, Passed(p, data)
    PROVE  Passed(p, data)'
<1>1. plan[p] \in PlanState
  BY DEF GateTypes
<1>2. asked[p] \subseteq asked'[p]
  BY GateGrows
<1>3. plan[p].scope = "pilot" /\ "pilot" # None /\ "passed" # None
  BY NoneAssumption DEF Passed, Scope
<1>4. ~(cmd.at = "plan" /\ p = cmd.dir)
  BY <1>3 DEF AskInv
<1>5. plan[p].done /\ plan[p].audit # None
  BY <1>3 DEF Passed
<1>6. /\ plan'[p].scope = plan[p].scope /\ plan'[p].data = plan[p].data
      /\ plan'[p].first = plan[p].first /\ plan'[p].done /\ plan'[p].bank
      /\ plan'[p].audit = plan[p].audit
  <2>1. plan[p].done = TRUE /\ plan[p].bank = TRUE
    BY <1>1 DEF Passed, PlanState
  <2>2. CASE plan'[p] = plan[p]
    BY <2>1, <2>2
  <2>3. CASE plan'[p] = [plan[p] EXCEPT !.receipt = cmd.receipt]
    BY <1>1, <2>1, <2>3 DEF PlanState
  <2>4. CASE plan'[p] = [plan[p] EXCEPT !.decided = TRUE]
    BY <1>1, <2>1, <2>4 DEF PlanState
  <2>5. CASE plan'[p] = [plan[p] EXCEPT !.harness = cmd.harness]
    BY <1>1, <2>1, <2>5 DEF PlanState
  <2>6. CASE plan'[p] = [plan[p] EXCEPT !.bank = TRUE]
    BY <1>1, <2>1, <2>6 DEF PlanState
  <2> QED
    BY <1>4, <1>5, <2>2, <2>3, <2>4, <2>5, <2>6, PlanChanges
<1> QED
  BY <1>2, <1>6 DEF Passed

\* A receipt that stands for such a pilot does so for good.
LEMMA BackedLasts ==
    ASSUME GateTypes, AskInv, [GateNext]_gateVars,
           NEW r \in Receipt, NEW data \in Data \cup {None}, Backed(r, data)
    PROVE  Backed(r, data)'
<1>1. r.pilot \in PlanDir
  BY DEF Receipt
<1> QED
  BY <1>1, PassedLasts DEF Backed

\* No question of a complete plan without a pilot that passed.
LEMMA PilotStep ==
    GateTypes /\ References /\ AskInv /\ PilotInv /\ [GateNext]_gateVars => PilotInv'
<1> SUFFICES ASSUME GateTypes, References, AskInv, PilotInv, [GateNext]_gateVars PROVE PilotInv'
  OBVIOUS
<1>1. \A r \in Receipt \cup {None}, data \in Data \cup {None} : Backed(r, data) => Backed(r, data)'
  BY BackedLasts DEF Backed
<1>2. ASSUME NEW p \in PlanDir PROVE plan'[p].done => asked'[p] # {}
  <2>1. plan[p] \in PlanState
    BY DEF GateTypes
  <2>2. asked[p] \subseteq asked'[p] /\ (plan[p].done => asked[p] # {})
    BY GateGrows DEF PilotInv
  <2>3. CASE Ask /\ p = cmd.dir
    BY <2>3 DEF Ask, GateTypes
  <2>4. CASE ~(Ask /\ p = cmd.dir)
    <3>1. plan'[p].done => plan[p].done
      BY <2>1, <2>4, PlanChanges DEF PlanState, NoPlan
    <3> QED
      BY <2>2, <3>1
  <2> QED
    BY <2>3, <2>4
<1>3. ASSUME NEW p \in PlanDir, plan'[p].scope = "full", plan'[p].harness # None
      PROVE  Backed(plan[p].receipt, plan[p].data)'
  <2>1. plan[p] \in PlanState
    BY DEF GateTypes
  <2>2. /\ plan[p].scope = "full" /\ plan[p].harness # None => Backed(plan[p].receipt, plan[p].data)
        /\ cmd.at = "write_harness" /\ cmd.scope = "full" => Backed(plan[cmd.dir].receipt, cmd.data)
    BY DEF PilotInv
  <2>3. Backed(plan[p].receipt, plan[p].data)
    <3>1. plan'[p].scope = plan[p].scope
      BY <1>3, PlanIsKept
    <3>2. CASE plan'[p].harness = plan[p].harness
      BY <1>3, <2>2, <3>1, <3>2
    <3>3. CASE cmd.at = "write_harness" /\ p = cmd.dir
      BY <1>3, <2>2, <3>1, <3>3 DEF AskInv, Writing
    <3> QED
      BY <1>3, <3>2, <3>3, PlanIsKept
  <2>4. plan'[p].receipt = plan[p].receipt /\ plan'[p].data = plan[p].data
    <3>1. CASE cmd.at = "plan" /\ p = cmd.dir /\ MakePlan
      BY <1>3, <3>1, PlanChanges, PlanIsKept DEF NoPlan, WriteV1Sidecar, WriteV2Sidecar, WriteHarnessSidecar
    <3>2. CASE cmd.at = "write_v1" /\ p = cmd.dir
      <4>1. plan[p].harness = None
        BY <3>2 DEF AskInv, Writing
      <4> QED
        BY <1>3, <3>2, <4>1, PlanIsKept
    <3>3. CASE ~(cmd.at = "plan" /\ p = cmd.dir) /\ ~(cmd.at = "write_v1" /\ p = cmd.dir)
      BY <2>1, <3>3, PlanChanges DEF PlanState
    <3> QED
      BY <1>3, <2>1, <3>1, <3>2, <3>3, PlanChanges DEF PlanState
  <2>5. plan[p].receipt \in Receipt \cup {None} /\ plan[p].data \in Data \cup {None}
    BY <2>1 DEF PlanState
  <2> QED
    BY <1>1, <2>3, <2>4, <2>5 DEF Backed, Passed
<1> DEFINE Receipted(c) ==
             /\ c.at \in {"plan", "write_v1"} /\ c.scope = "full" => Backed(c.receipt, c.data)
             /\ c.at = "write_harness" /\ c.scope = "full" => Backed(plan[c.dir].receipt, c.data)
<1>4. Receipted(cmd)'
  <2>1. CASE cmd' = cmd
    <3>1. CASE cmd.at \in {"plan", "write_v1"} /\ cmd.scope = "full"
      <4>1. cmd.receipt \in Receipt \cup {None} /\ cmd.data \in Data
        BY <3>1, CommandParts
      <4>2. Backed(cmd.receipt, cmd.data)
        BY <3>1 DEF PilotInv
      <4>3. PICK r \in Receipt \cup {None}, d \in Data : r = cmd.receipt /\ d = cmd.data
        BY <4>1
      <4>4. Backed(r, d)'
        BY <1>1, <4>2, <4>3
      <4>5. r = cmd'.receipt /\ d = cmd'.data
        BY <2>1, <4>3
      <4> QED
        BY <2>1, <3>1, <4>4, <4>5 DEF Backed, Passed
    <3>2. CASE cmd.at = "write_harness" /\ cmd.scope = "full"
      <4>1. cmd.dir \in PlanDir /\ cmd.data \in Data /\ plan[cmd.dir] \in PlanState
        BY <3>2, CommandParts DEF GateTypes
      <4>2. ~WriteHarnessSidecar
        BY <2>1, <3>2 DEF WriteHarnessSidecar, Done, NoCommand
      <4>3. plan'[cmd.dir] = plan[cmd.dir]
        BY <2>1, <3>2, <4>1, <4>2, PlanChanges
      <4>4. plan[cmd.dir].receipt \in Receipt \cup {None}
        BY <4>1 DEF PlanState
      <4>5. Backed(plan[cmd.dir].receipt, cmd.data)
        BY <3>2 DEF PilotInv
      <4>6. PICK r \in Receipt \cup {None}, d \in Data : r = plan[cmd.dir].receipt /\ d = cmd.data
        BY <4>1, <4>4
      <4>7. Backed(r, d)'
        BY <1>1, <4>5, <4>6
      <4>8. r = plan'[cmd'.dir].receipt /\ d = cmd'.data
        BY <2>1, <4>3, <4>6
      <4> QED
        BY <2>1, <3>2, <4>7, <4>8 DEF Backed, Passed
    <3>3. CASE /\ ~(cmd.at \in {"plan", "write_v1"} /\ cmd.scope = "full")
               /\ ~(cmd.at = "write_harness" /\ cmd.scope = "full")
      BY <2>1, <3>3
    <3> QED
      BY <3>1, <3>2, <3>3
  <2>2. CASE cmd'.at \in {"idle", "canary_plan", "canary_call", "run"} \/ \E p \in PlanDir : StartAsking(p)
    BY <2>2 DEF StartAsking
  <2>3. CASE \E p \in PlanDir : StartRestPlan(p)
    <3>1. cmd'.at = "plan" /\ cmd'.scope = "rest"
      BY <2>3 DEF StartRestPlan
    <3> QED
      BY <3>1
  <2>4. CASE \E p \in PlanDir, scope \in Scope : StartPlan(p, scope)
    <3>1. PICK p \in PlanDir, scope \in Scope, r \in replays, l \in lives, receipt \in receipts \cup {None} :
            /\ Piloted(scope, receipt)
            /\ cmd' = [at |-> "plan", dir |-> p, scope |-> scope, version |-> Installed,
                       data |-> env.data, receipt |-> receipt, harness |-> [replay |-> r, live |-> l]]
      BY <2>4 DEF StartPlan
    <3>2. /\ cmd'.at = "plan" /\ cmd'.scope = scope /\ cmd'.receipt = receipt /\ cmd'.data = env.data
      BY <3>1
    <3>3. ASSUME scope = "full" PROVE Backed(receipt, env.data)
      <4>1. receipt # None /\ receipt \in receipts /\ PilotPassed(receipt.pilot)
        BY <3>1, <3>3 DEF Piloted, Verified
      <4>2. receipt \in Receipt
        BY <4>1 DEF GateTypes
      <4>3. receipt.pilot \in PlanDir
        BY <4>2 DEF Receipt
      <4>4. asked[receipt.pilot] # {}
        BY <4>1, <4>3 DEF PilotInv, PilotPassed
      <4> QED
        BY <4>1, <4>4 DEF PilotPassed, ExactPilot, FirstGood, AuditPassed, Backed, Passed
    <3>4. receipt \in Receipt \cup {None} /\ env.data \in Data
      BY DEF GateTypes, Environment
    <3>5. plan' = plan /\ asked' = asked
      BY <2>4 DEF StartPlan
    <3> QED
      BY <3>2, <3>3, <3>5 DEF Backed, Passed
  <2>5. CASE MakePlan
    <3>1. cmd \in PlanCommand /\ cmd.at = "plan" /\ cmd.data \in Data /\ cmd.receipt \in Receipt \cup {None}
      BY <2>5, CommandIs, CommandParts DEF MakePlan
    <3>2. /\ cmd'.receipt = cmd.receipt /\ cmd'.scope = cmd.scope /\ cmd'.data = cmd.data
          /\ cmd'.at = CASE cmd.scope = "full" -> "write_v1"
                         [] cmd.scope = "rest" -> "write_v2"
                         [] OTHER -> "write_harness"
      BY <2>5, <3>1 DEF MakePlan, PlanCommand
    <3>3. cmd.scope = "full" => Backed(cmd.receipt, cmd.data)
      BY <3>1 DEF PilotInv
    <3> QED
      BY <1>1, <3>1, <3>2, <3>3 DEF Backed, Passed
  <2>6. CASE WriteV1Sidecar
    <3>1. /\ cmd \in PlanCommand /\ cmd.at = "write_v1" /\ cmd.dir \in PlanDir /\ cmd.data \in Data
          /\ cmd.receipt \in Receipt \cup {None}
      BY <2>6, CommandIs, CommandParts DEF WriteV1Sidecar
    <3>2. cmd'.at = "write_harness" /\ cmd'.dir = cmd.dir /\ cmd'.scope = cmd.scope /\ cmd'.data = cmd.data
      BY <2>6, <3>1 DEF WriteV1Sidecar, PlanCommand
    <3>3. cmd.scope = "full" => Backed(cmd.receipt, cmd.data)
      BY <3>1 DEF PilotInv
    <3>4. plan'[cmd.dir].receipt = cmd.receipt
      BY <2>6, <3>1 DEF WriteV1Sidecar, GateTypes, PlanState
    <3> QED
      BY <1>1, <3>1, <3>2, <3>3, <3>4 DEF Backed, Passed
  <2> QED
    BY <2>1, <2>2, <2>3, <2>4, <2>5, <2>6, CommandMoves
<1> QED
  BY <1>2, <1>3, <1>4 DEF PilotInv

(***************************************************************************)
(* The gate before the teacher: theorems                                   *)
(***************************************************************************)
\* The inductive invariant of the gate.
GateInv == GateTypes /\ References /\ CanaryInv /\ AskInv /\ PilotInv

\* It holds of the initial states.
LEMMA GateInvInit == GateInit => GateInv
<1> SUFFICES ASSUME GateInit PROVE GateInv
  OBVIOUS
<1>1. GateTypes
  BY TypesInit
<1>2. cmd.at = "idle" /\ cmd \notin PlanCommand
  BY DEF GateInit, NoCommand, PlanCommand
<1>3. /\ \A p \in PlanDir : plan[p] = NoPlan /\ asked[p] = {}
      /\ \A d \in CanaryDir : canary[d] = NoCanary /\ earned[d] = <<>>
  BY DEF GateInit
<1>4. References
  BY <1>2, <1>3 DEF References, OnDisk, NoPlan
<1>5. CanaryInv
  BY <1>2, <1>3, GateAssumption DEF CanaryInv, NoCanary
<1>6. AskInv
  BY <1>2, <1>3 DEF AskInv, Writing
<1>7. PilotInv
  BY <1>2, <1>3, NoneAssumption DEF PilotInv, NoPlan, Scope
<1> QED
  BY <1>1, <1>4, <1>5, <1>6, <1>7 DEF GateInv

\* Every step keeps it.
LEMMA GateInvStep == GateInv /\ [GateNext]_gateVars => GateInv'
BY TypesStep, ReferencesStep, CanaryStep, AskStep, PilotStep DEF GateInv

\* It is an invariant of the gate.
THEOREM GateInvariance == GateSpec => []GateInv
BY GateInvInit, GateInvStep, PTL DEF GateSpec

\* What the gate keeps has its type, and what a plan refers to (its receipt,
\* its reports) is on disk, whatever is killed, edited or lost.
THEOREM GateIsTyped == GateSpec => []GateTypeOK
<1>1. GateInv => GateTypeOK
  <2> SUFFICES ASSUME GateInv PROVE GateTypeOK
    OBVIOUS
  <2>1. ASSUME NEW d \in CanaryDir
        PROVE  canary[d].version \in Version \cup {None} /\ Len(canary[d].answers) \in 0..CanaryChunks
    <3>1. canary[d].answers \in Seq(Answer) /\ Len(earned[d]) \in Nat
      BY DEF GateInv, GateTypes
    <3>2. Len(canary[d].answers) \in Nat /\ CanaryChunks \in Nat
      BY <3>1, GateAssumption
    <3> QED
      BY <3>1, <3>2 DEF GateInv, GateTypes, CanaryInv
  <2>2. ASSUME NEW p \in PlanDir
        PROVE  /\ plan[p].scope \in Scope \cup {None}
               /\ plan[p].receipt \in receipts \cup {None}
               /\ plan[p].harness # None => plan[p].harness.live \in lives /\ plan[p].harness.replay \in replays
    BY DEF GateInv, GateTypes, References, OnDisk, PlanState
  <2> QED
    BY <2>1, <2>2 DEF GateInv, GateTypes, GateTypeOK
<1> QED
  BY <1>1, GateInvariance, PTL

\* A gated plan sends questions only on a canary whose every call was made and
\* succeeded, however reports are edited and whatever changes underneath.
THEOREM AskedOnEarned == GateSpec => []AskedOnEarnedCanary
<1>1. GateInv => AskedOnEarnedCanary
  <2> SUFFICES ASSUME GateInv, NEW p \in PlanDir, Gated(p), NEW e \in asked[p]
               PROVE  /\ e.live # None
                      /\ Len(earned[e.live.dir]) = CanaryChunks
                      /\ \A i \in 1..CanaryChunks : earned[e.live.dir][i].answer = "success"
    BY DEF AskedOnEarnedCanary
  <2>1. Strong(p, e)
    BY DEF GateInv, AskInv
  <2>2. plan[p].harness \in Harness
    BY <2>1 DEF GateInv, GateTypes, PlanState, Strong
  <2>3. e.live = plan[p].harness.live /\ e.live \in Live
    BY <2>1, <2>2 DEF Strong, Harness
  <2> QED
    BY <2>1, <2>3, NoneAssumption DEF Strong, Earned
<1> QED
  BY <1>1, GateInvariance, PTL

\* All questions of a gated plan are sent on the report of one canary, under its
\* tree and, in a run whose executable is not replaced meanwhile, its executable.
THEOREM OneEvidence == GateSpec => []OneEvidencePerPlan
<1>1. GateInv => OneEvidencePerPlan
  <2> SUFFICES ASSUME GateInv, NEW p \in PlanDir, Gated(p), NEW e \in asked[p], NEW f \in asked[p]
               PROVE  /\ e.live = f.live
                      /\ e.tree = e.live.tree
                      /\ e.binary # e.live.binary => e.replaced
    BY DEF OneEvidencePerPlan
  <2>1. Strong(p, e) /\ Strong(p, f)
    BY DEF GateInv, AskInv
  <2> QED
    BY <2>1 DEF Strong
<1> QED
  BY <1>1, GateInvariance, PTL

\* Questions for the complete bank follow a pilot that was complete, good at the
\* first pass, published, audited and passed.
THEOREM FullAfterPilot == GateSpec => []FullFollowsPilot
<1>1. GateInv => FullFollowsPilot
  <2> SUFFICES ASSUME GateInv, NEW p \in PlanDir, plan[p].scope = "full", asked[p] # {}
               PROVE  Backed(plan[p].receipt, plan[p].data)
    BY DEF FullFollowsPilot, Backed, Passed
  <2>1. \A e \in asked[p] : Strong(p, e)
    BY DEF GateInv, AskInv, Gated
  <2>2. plan[p].harness # None
    BY <2>1 DEF Strong
  <2> QED
    BY <2>2 DEF GateInv, PilotInv
<1> QED
  BY <1>1, GateInvariance, PTL
==============================================================================
