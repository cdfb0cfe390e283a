------------------------- MODULE LogicalAuditProofs -------------------------
(***************************************************************************)
(* The logical audit, for any number of operators, samples and attempts.   *)
(* The raw output of an attempt is linked to a new name before anything    *)
(* else: whoever has linked it is the only one in flight, and has seen     *)
(* every record there is, even if the lock was taken from it meanwhile.    *)
(* So the number it records is the next one and no verdict precedes it.    *)
(***************************************************************************)
EXTENDS LogicalAudit, FiniteSetTheorems, TLAPS

(***************************************************************************)
(* The invariant                                                           *)
(***************************************************************************)
\* The places where raw output is linked and no record is, where a command is
\* going to ask, and where it believes it holds the lock.
Flying == {"parsed", "record"}
Asking == {"ask", "evidence"} \cup Flying
Critical == {"decide", "conclude", "publish", "release"} \cup Asking

\* What a command has read is still there, and it asks only if that is open.
Informed(p) ==
    /\ pc[p] \in Asking \cup {"publish"} => call[p].seen \subseteq attempts
    /\ pc[p] \in Asking => ~Terminal(call[p].seen)
    /\ pc[p] = "publish" => Decisive(call[p].seen) # {}

\* A command whose raw output is linked is up to date.
Current(p) == pc[p] \in Flying => call[p].seen = attempts /\ Number(p) \in evidence

\* A readable reply is never recorded as if it had been unreadable.
Announced(p) ==
    /\ pc[p] = "parsed" => call[p].reply # NoVerdict
    /\ pc[p] = "record" /\ call[p].reply # NoVerdict => Number(p) \in parsed

\* The directory of the plan is filled by a command that is at it.
Filling(p) == pc[p] = "fill" => stage \in 1..Layout - 1

\* As long as no live lock was unlinked, the lock excludes.
Held(p) ==
    ~stolen => /\ pc[p] \in Critical => lock = p
               /\ pc[p] \in Asking => call[p].seen = attempts

\* What holds of one command.
ProcInv(p) == Informed(p) /\ Current(p) /\ Announced(p) /\ Filling(p) /\ Held(p)

\* Of two commands, one at most is between raw output and record, and one at
\* most fills the plan.
OneInFlight == \A p, q \in Proc : pc[p] \in Flying /\ pc[q] \in Flying => p = q
OnePlanner == \A p, q \in Proc : pc[p] = "fill" /\ pc[q] = "fill" => p = q

\* The inductive invariant.
IInv ==
    /\ TypeOK
    /\ IsFiniteSet(attempts)
    /\ LedgerReadable
    /\ OneInFlight
    /\ OnePlanner
    /\ \A p \in Proc : ProcInv(p)

(***************************************************************************)
(* Counting                                                                *)
(***************************************************************************)
\* The next number of a command that asks is a number of the audit.
LEMMA Counted ==
    ASSUME IInv, NEW p \in Proc, pc[p] \in Asking
    PROVE  /\ IsFiniteSet(call[p].seen)
           /\ Cardinality(call[p].seen) \in Nat
           /\ Number(p) \in 1..MaxAttempts
           /\ Decisive(call[p].seen) = {}
<1>1. call[p].seen \subseteq attempts /\ ~Terminal(call[p].seen) /\ IsFiniteSet(attempts)
  BY DEF IInv, ProcInv, Informed
<1>2. IsFiniteSet(call[p].seen) /\ Cardinality(call[p].seen) \in Nat
  BY <1>1, FS_Subset, FS_CardinalityType
<1>3. Cardinality(call[p].seen) < MaxAttempts /\ Decisive(call[p].seen) = {}
  BY <1>1, <1>2, AuditAssumption DEF Terminal
<1> QED
  BY <1>2, <1>3, AuditAssumption DEF Number

\* A number without raw output is beyond every record: who is about to link it
\* has seen them all.
LEMMA FreshIsNext ==
    ASSUME IInv, NEW p \in Proc, pc[p] \in Asking, Number(p) \notin evidence
    PROVE  call[p].seen = attempts
<1>1. Cardinality(attempts) \in Nat /\ IsFiniteSet(attempts)
  BY FS_CardinalityType DEF IInv
<1>2. Number(p) \notin 1..Cardinality(attempts)
  BY DEF IInv, LedgerReadable
<1>3. Cardinality(call[p].seen) \in Nat /\ Number(p) = Cardinality(call[p].seen) + 1
  BY Counted DEF Number
<1>4. Cardinality(attempts) <= Cardinality(call[p].seen)
  BY <1>1, <1>2, <1>3
<1>5. call[p].seen \subseteq attempts
  BY DEF IInv, ProcInv, Informed
<1>6. Cardinality(call[p].seen) <= Cardinality(attempts)
  BY <1>1, <1>5, FS_Subset
<1>7. Cardinality(attempts) = Cardinality(call[p].seen)
  BY <1>1, <1>3, <1>4, <1>6
<1> QED
  BY <1>1, <1>5, <1>7, FS_Subset

(***************************************************************************)
(* The initial states and the steps                                        *)
(***************************************************************************)
\* An audit that does not exist yet.
LEMMA InitInvariant == Init => IInv
<1> SUFFICES ASSUME Init PROVE IInv
  OBVIOUS
<1>1. TypeOK
  <2>1. Idle \in Command
    BY DEF Idle, Command, Kind, Reply
  <2>2. pc \in [Proc -> Labels] /\ call \in [Proc -> Command]
    BY <2>1 DEF Init, Labels
  <2>3. stage \in 0..Layout /\ faults \in 0..MaxFaults /\ manifest \in Reply
    BY AuditAssumption DEF Init, Layout, Reply
  <2>4. attempts \subseteq Attempt /\ evidence \subseteq 1..MaxAttempts /\ parsed \subseteq evidence
    BY DEF Init
  <2> QED
    BY <2>2, <2>3, <2>4 DEF Init, TypeOK
<1>2. IsFiniteSet(attempts) /\ Cardinality(attempts) = 0
  BY FS_EmptySet DEF Init
<1>3. LedgerReadable
  <2>1. Decisive(attempts) = {} /\ Numbers(attempts) = {} /\ Numbers(Decisive(attempts)) = {}
    BY DEF Init, Decisive, Numbers
  <2> QED
    BY <1>2, <2>1, FS_EmptySet DEF LedgerReadable
<1>4. OneInFlight /\ OnePlanner /\ \A p \in Proc : ProcInv(p)
  BY DEF Init, OneInFlight, OnePlanner, ProcInv, Informed, Current, Announced, Filling, Held,
         Flying, Asking, Critical
<1> QED
  BY <1>1, <1>2, <1>3, <1>4 DEF IInv

\* The types of what a step assigns.
LEMMA IdleTyped == Idle \in Command
BY DEF Idle, Command, Kind, Reply

\* A command that ends leaves its state as it was before it began.
LEMMA EndTyped ==
    ASSUME TypeOK, NEW p \in Proc, End(p)
    PROVE  pc' \in [Proc -> Labels] /\ call' \in [Proc -> Command]
BY IdleTyped DEF TypeOK, End, Goto, Labels

\* Planning and reading.
LEMMA OutsideType ==
    ASSUME IInv, NEW p \in Proc,
           StartPlan(p) \/ Start(p) \/ Planning(p) \/ Reading(p)
    PROVE  TypeOK'
<1> USE DEF IInv
<1>1. CASE StartPlan(p)
  BY <1>1 DEF StartPlan, TypeOK, Goto, files, Labels, Command, Kind
<1>2. CASE Start(p)
  <2>1. PICK k \in {"run", "finalize", "status"}, r \in BOOLEAN :
          call' = [call EXCEPT ![p] = [Idle EXCEPT !.kind = k, !.recover = r]]
    BY <1>2 DEF Start
  <2>2. [Idle EXCEPT !.kind = k, !.recover = r] \in Command
    BY IdleTyped DEF Command, Kind
  <2>3. call' \in [Proc -> Command]
    BY <2>1, <2>2 DEF TypeOK
  <2> QED
    BY <1>2, <2>3 DEF Start, TypeOK, Goto, files, Labels
<1>3. CASE MakeDirectory(p)
  BY <1>3, EndTyped DEF MakeDirectory, TypeOK, Goto, Labels, Layout
<1>4. CASE FillDirectory(p)
  BY <1>4, EndTyped DEF FillDirectory, TypeOK, ProcInv, Filling, Layout
<1>5. CASE LoadPlan(p)
  BY <1>5, EndTyped DEF LoadPlan, TypeOK, Goto, files, Labels
<1>6. CASE ReadAttempts(p)
  BY <1>6 DEF ReadAttempts, TypeOK, Goto, files, Labels, Command
<1>7. CASE ReadManifest(p)
  BY <1>7, EndTyped DEF ReadManifest, TypeOK, Goto, files, Labels
<1> QED
  BY <1>1, <1>2, <1>3, <1>4, <1>5, <1>6, <1>7 DEF Planning, Reading

\* The lock.
LEMMA LockingType ==
    ASSUME IInv, NEW p \in Proc, Locking(p) \/ Kill(p)
    PROVE  TypeOK'
<1> USE DEF IInv
<1>1. CASE TryLock(p)
  BY <1>1, EndTyped DEF TryLock, TypeOK, Goto, files, Labels
<1>2. CASE Inspect(p)
  BY <1>2, EndTyped DEF Inspect, TypeOK, Goto, files, Labels
<1>3. CASE UnlinkStale(p)
  <2>1. CASE End(p)
    BY <1>3, <2>1, EndTyped DEF UnlinkStale, TypeOK, files
  <2>2. CASE Goto(p, "lock") /\ call' = [call EXCEPT ![p].recover = FALSE]
    <3>1. pc' \in [Proc -> Labels]
      BY <2>2 DEF TypeOK, Goto, Labels
    <3>2. call' \in [Proc -> Command]
      BY <2>2 DEF TypeOK, Command
    <3> QED
      BY <1>3, <3>1, <3>2 DEF UnlinkStale, TypeOK, files
  <2> QED
    BY <1>3, <2>1, <2>2 DEF UnlinkStale
<1>4. CASE Release(p)
  BY <1>4, EndTyped DEF Release, TypeOK, Goto, files, Labels, Command
<1>5. CASE Kill(p)
  BY <1>5, EndTyped, AuditAssumption DEF Kill, TypeOK, files
<1> QED
  BY <1>1, <1>2, <1>3, <1>4, <1>5 DEF Locking

\* What happens under the lock.
LEMMA UnderLockType ==
    ASSUME IInv, NEW p \in Proc, Running(p) \/ Finalizing(p)
    PROVE  TypeOK'
<1> USE DEF IInv
<1>1. CASE Decide(p)
  BY <1>1 DEF Decide, TypeOK, Goto, files, Labels, Command
<1>2. CASE Ask(p)
  BY <1>2 DEF Ask, TypeOK, Goto, files, Labels, Command
<1>3. CASE LinkEvidence(p)
  <2>1. Number(p) \in 1..MaxAttempts
    BY <1>3, Counted DEF LinkEvidence, Asking
  <2> QED
    BY <1>3, <2>1, EndTyped DEF LinkEvidence, RaiseLocked, TypeOK, Goto, Labels
<1>4. CASE LinkParsed(p)
  BY <1>4 DEF LinkParsed, TypeOK, Goto, Labels, ProcInv, Current, Flying
<1>5. CASE LinkRecord(p)
  <2>1. Number(p) \in 1..MaxAttempts
    BY <1>5, Counted DEF LinkRecord, Asking, Flying
  <2>2. call[p].reply \in Reply
    BY DEF TypeOK, Command
  <2>3. attempts' \subseteq Attempt
    BY <1>5, <2>1, <2>2 DEF LinkRecord, TypeOK, Attempt
  <2> QED
    BY <1>5, <2>3 DEF LinkRecord, TypeOK, Goto, Labels
<1>6. CASE Conclude(p)
  BY <1>6 DEF Conclude, TypeOK, Goto, files, Labels, Command
<1>7. CASE Publish(p)
  <2>1. \A a \in Decisive(call[p].seen) : a.verdict \in Reply
    BY DEF TypeOK, Command, Decisive, Attempt
  <2> QED
    BY <1>7, <2>1, EndTyped DEF Publish, RaiseLocked, TypeOK, Goto, Labels
<1> QED
  BY <1>1, <1>2, <1>3, <1>4, <1>5, <1>6, <1>7 DEF Running, Finalizing

\* The invariant without the types, which the lemmas above cover.
Relations ==
    /\ IsFiniteSet(attempts)
    /\ LedgerReadable
    /\ OneInFlight
    /\ OnePlanner
    /\ \A p \in Proc : ProcInv(p)

\* A step that writes no file and begins to publish nothing.
LEMMA OutsideStep ==
    ASSUME IInv, NEW p \in Proc, StartPlan(p) \/ Start(p) \/ Reading(p)
    PROVE  Relations'
<1>1. /\ UNCHANGED <<files, lock, stolen>>
      /\ \A q \in Proc \ {p} : pc'[q] = pc[q] /\ call'[q] = call[q]
      /\ pc'[p] \notin Critical \cup {"fill"}
  BY DEF StartPlan, Start, Reading, LoadPlan, ReadAttempts, ReadManifest, Goto, End, Critical,
         Asking, Flying, IInv, TypeOK
<1>2. OneInFlight' /\ OnePlanner'
  BY <1>1 DEF IInv, OneInFlight, OnePlanner, Critical, Asking
<1>3. ASSUME NEW q \in Proc PROVE ProcInv(q)'
  BY <1>1 DEF IInv, ProcInv, Informed, Current, Announced, Filling, Held, Critical, Asking,
              Flying, files, Number
<1> QED
  BY <1>1, <1>2, <1>3 DEF IInv, Relations, LedgerReadable, files

\* The directory is made once, by the only one that fills it.
LEMMA PlanningStep ==
    ASSUME IInv, NEW p \in Proc, Planning(p)
    PROVE  Relations'
<1>1. /\ UNCHANGED <<attempts, evidence, parsed, manifest, lock, stolen>>
      /\ \A q \in Proc \ {p} : pc'[q] = pc[q] /\ call'[q] = call[q]
      /\ pc'[p] \in {"fill", "idle"}
  BY DEF Planning, MakeDirectory, FillDirectory, Goto, End, IInv, TypeOK
<1>2. /\ pc'[p] = "fill" => stage' \in 1..Layout - 1
      /\ \A q \in Proc \ {p} : pc[q] # "fill" \/ stage' = stage
  <2>1. CASE MakeDirectory(p)
    BY <2>1 DEF MakeDirectory, Goto, End, IInv, TypeOK, ProcInv, Filling, Layout
  <2>2. CASE FillDirectory(p)
    BY <2>2 DEF FillDirectory, Goto, End, IInv, TypeOK, ProcInv, Filling, OnePlanner, Layout
  <2> QED
    BY <2>1, <2>2 DEF Planning
<1>3. pc'[p] = "fill" => \A q \in Proc \ {p} : pc[q] # "fill"
  BY DEF Planning, MakeDirectory, FillDirectory, Goto, End, IInv, TypeOK, ProcInv, Filling,
         OnePlanner, Layout
<1>4. OneInFlight' /\ OnePlanner'
  BY <1>1, <1>3 DEF IInv, OneInFlight, OnePlanner, Flying
<1>5. ASSUME NEW q \in Proc PROVE ProcInv(q)'
  BY <1>1, <1>2 DEF IInv, ProcInv, Informed, Current, Announced, Filling, Held, Critical, Asking,
                    Flying, Number
<1> QED
  BY <1>1, <1>4, <1>5 DEF IInv, Relations, LedgerReadable

\* Who takes a lock that is free is alone under it; a lock that is taken from a
\* live command is remembered.
LEMMA LockingStep ==
    ASSUME IInv, NEW p \in Proc, Locking(p) \/ Kill(p)
    PROVE  Relations'
<1>1. /\ UNCHANGED files
      /\ \A q \in Proc \ {p} : pc'[q] = pc[q] /\ call'[q] = call[q]
      /\ pc'[p] \notin Asking \cup {"publish", "fill"}
  BY DEF Locking, TryLock, Inspect, UnlinkStale, Release, Kill, Goto, End, Asking, Flying, IInv,
         TypeOK
<1>2. /\ ~stolen' => ~stolen
      /\ ~stolen' /\ pc'[p] \in Critical => lock' = p
      /\ ~stolen' => \A q \in Proc \ {p} : lock = q => lock' = q
  <2>1. CASE TryLock(p)
    BY <2>1, AuditAssumption DEF TryLock, Goto, End, IInv, TypeOK, Critical, Asking, Flying
  <2>2. CASE Inspect(p)
    BY <2>2 DEF Inspect, Goto, End, IInv, TypeOK, Critical, Asking, Flying
  <2>3. CASE UnlinkStale(p)
    BY <2>3, AuditAssumption DEF UnlinkStale, Goto, End, IInv, TypeOK, Critical, Asking, Flying
  <2>4. CASE Release(p)
    BY <2>4 DEF Release, Goto, End, IInv, TypeOK, Critical, Asking, Flying
  <2>5. CASE Kill(p)
    BY <2>5 DEF Kill, Goto, End, IInv, TypeOK, Critical, Asking, Flying
  <2> QED
    BY <2>1, <2>2, <2>3, <2>4, <2>5 DEF Locking
<1>3. OneInFlight' /\ OnePlanner'
  BY <1>1 DEF IInv, OneInFlight, OnePlanner, Asking
<1>4. ASSUME NEW q \in Proc PROVE ProcInv(q)'
  BY <1>1, <1>2 DEF IInv, ProcInv, Informed, Current, Announced, Filling, Held, Critical, Asking,
                    Flying, Number, files
<1> QED
  BY <1>1, <1>3, <1>4 DEF IInv, Relations, LedgerReadable, files

\* What is read under the lock is all there is.
LEMMA ReadingStep ==
    ASSUME IInv, NEW p \in Proc, Decide(p) \/ Conclude(p) \/ Ask(p)
    PROVE  Relations'
<1>1. /\ UNCHANGED <<files, lock, stolen>>
      /\ \A q \in Proc \ {p} : pc'[q] = pc[q] /\ call'[q] = call[q]
      /\ pc[p] \in Critical
      /\ pc'[p] \in {"release", "ask", "evidence", "publish"}
  BY DEF Decide, Conclude, Ask, Goto, IInv, TypeOK, Critical, Asking
<1>2. /\ pc'[p] = "ask" => call'[p].seen = attempts /\ ~Terminal(attempts)
      /\ pc'[p] = "publish" => call'[p].seen = attempts /\ Decisive(attempts) # {}
      /\ pc'[p] = "evidence" => pc[p] = "ask" /\ call'[p].seen = call[p].seen
  BY DEF Decide, Conclude, Ask, Goto, IInv, TypeOK, Command
<1>3. OneInFlight' /\ OnePlanner'
  BY <1>1 DEF IInv, OneInFlight, OnePlanner, Flying
<1>4. ASSUME NEW q \in Proc PROVE ProcInv(q)'
  BY <1>1, <1>2 DEF IInv, ProcInv, Informed, Current, Announced, Filling, Held, Critical, Asking,
                    Flying, Number, files
<1> QED
  BY <1>1, <1>3, <1>4 DEF IInv, Relations, LedgerReadable, files

\* Raw output is linked by a command that has seen every record, and only if no
\* other command is in flight.
LEMMA EvidenceStep ==
    ASSUME IInv, NEW p \in Proc, LinkEvidence(p)
    PROVE  Relations'
<1>1. /\ UNCHANGED <<stage, attempts, parsed, manifest, stolen>>
      /\ \A q \in Proc \ {p} : pc'[q] = pc[q] /\ call'[q] = call[q]
      /\ pc[p] = "evidence"
      /\ \A q \in Proc \ {p} : lock = q => lock' = q
  BY DEF LinkEvidence, RaiseLocked, Goto, End, IInv, TypeOK
<1>2. CASE Number(p) \in evidence
  <2>1. evidence' = evidence /\ pc'[p] = "idle"
    BY <1>2 DEF LinkEvidence, RaiseLocked, End, Goto, IInv, TypeOK
  <2>2. OneInFlight' /\ OnePlanner'
    BY <1>1, <2>1 DEF IInv, OneInFlight, OnePlanner, Flying
  <2>3. ASSUME NEW q \in Proc PROVE ProcInv(q)'
    BY <1>1, <2>1 DEF IInv, ProcInv, Informed, Current, Announced, Filling, Held, Critical,
                      Asking, Flying, Number
  <2> QED
    BY <1>1, <2>1, <2>2, <2>3 DEF IInv, Relations, LedgerReadable
<1>3. CASE Number(p) \notin evidence
  <2>1. /\ evidence' = evidence \cup {Number(p)}
        /\ pc'[p] = IF call[p].reply = NoVerdict THEN "record" ELSE "parsed"
        /\ call' = call /\ lock' = lock
    BY <1>3 DEF LinkEvidence, Goto, IInv, TypeOK
  <2>2. call[p].seen = attempts
    BY <1>1, <1>3, FreshIsNext DEF Asking
  <2>3. \A q \in Proc : pc[q] \notin Flying
    BY <1>3, <2>2 DEF IInv, ProcInv, Current, Number
  <2>4. OneInFlight' /\ OnePlanner'
    BY <1>1, <2>1, <2>3 DEF IInv, OneInFlight, OnePlanner
  <2>5. ASSUME NEW q \in Proc PROVE ProcInv(q)'
    BY <1>1, <2>1, <2>2 DEF IInv, ProcInv, Informed, Current, Announced, Filling, Held, Critical,
                            Asking, Flying, Number
  <2> QED
    BY <1>1, <2>1, <2>4, <2>5 DEF IInv, Relations, LedgerReadable
<1> QED
  BY <1>2, <1>3

\* Parsed output is linked before its record.
LEMMA ParsedStep ==
    ASSUME IInv, NEW p \in Proc, LinkParsed(p)
    PROVE  Relations'
<1>1. /\ UNCHANGED <<stage, attempts, evidence, manifest, lock, call, stolen>>
      /\ \A q \in Proc \ {p} : pc'[q] = pc[q]
      /\ pc[p] = "parsed" /\ pc'[p] = "record"
      /\ parsed' = parsed \cup {Number(p)}
  BY DEF LinkParsed, Goto, IInv, TypeOK
<1>2. OneInFlight' /\ OnePlanner'
  BY <1>1 DEF IInv, OneInFlight, OnePlanner, Flying
<1>3. ASSUME NEW q \in Proc PROVE ProcInv(q)'
  BY <1>1 DEF IInv, ProcInv, Informed, Current, Announced, Filling, Held, Critical, Asking,
              Flying, Number
<1> QED
  BY <1>1, <1>2, <1>3 DEF IInv, Relations, LedgerReadable

\* The record of the command in flight continues the ledger, and it is the
\* first that can be read.
LEMMA RecordStep ==
    ASSUME IInv, NEW p \in Proc, LinkRecord(p)
    PROVE  /\ Relations'
           /\ Cardinality(attempts') = Cardinality(attempts) + 1
           /\ ~Terminal(attempts)
           /\ Decisive(attempts') = {a \in attempts' \ attempts : a.verdict # NoVerdict}
           /\ \E a : attempts' = attempts \cup {a} /\ a \notin attempts /\ a.verdict = call[p].reply
<1> DEFINE new == [number |-> Number(p), verdict |-> call[p].reply,
                   effort |-> IF call[p].seen = {} THEN "high" ELSE "xhigh"]
<1>1. /\ UNCHANGED <<stage, evidence, parsed, manifest, lock, call, stolen>>
      /\ \A q \in Proc \ {p} : pc'[q] = pc[q]
      /\ pc[p] = "record" /\ pc'[p] = "release"
      /\ attempts' = attempts \cup {new}
  BY DEF LinkRecord, Goto, IInv, TypeOK
<1>2. /\ call[p].seen = attempts
      /\ Number(p) \in evidence
      /\ call[p].reply # NoVerdict => Number(p) \in parsed
      /\ ~Terminal(attempts)
  BY <1>1 DEF IInv, ProcInv, Current, Announced, Informed, Flying, Asking
<1>3. Cardinality(attempts) \in Nat /\ IsFiniteSet(attempts)
  BY FS_CardinalityType DEF IInv
<1>4. new.number = Cardinality(attempts) + 1 /\ new.verdict = call[p].reply
  BY <1>2 DEF Number
<1>5. new \notin attempts
  BY <1>3, <1>4 DEF IInv, LedgerReadable, Numbers
<1> HIDE DEF new
<1>6. IsFiniteSet(attempts') /\ Cardinality(attempts') = Cardinality(attempts) + 1
  BY <1>1, <1>3, <1>5, FS_AddElement
<1>7. Decisive(attempts) = {}
  BY <1>2 DEF Terminal
<1>8. Decisive(attempts') = {a \in attempts' \ attempts : a.verdict # NoVerdict}
  BY <1>7 DEF Decisive
<1>9. LedgerReadable'
  <2>1. Numbers(attempts') = Numbers(attempts) \cup {Cardinality(attempts) + 1}
    BY <1>1, <1>4 DEF Numbers
  <2>2. Numbers(attempts') = 1..Cardinality(attempts')
    BY <1>3, <1>6, <2>1 DEF IInv, LedgerReadable
  <2>3. Numbers(attempts') \subseteq evidence'
    <3>1. Cardinality(attempts) + 1 \in evidence
      BY <1>2 DEF Number
    <3>2. Numbers(attempts) \subseteq evidence
      BY DEF IInv, LedgerReadable
    <3>3. evidence' = evidence
      BY <1>1
    <3> QED
      BY <2>1, <3>1, <3>2, <3>3
  <2>4. Decisive(attempts') \subseteq {new}
    BY <1>1, <1>8
  <2>5. Cardinality(Decisive(attempts')) <= 1
    <3>1. IsFiniteSet({new}) /\ Cardinality({new}) = 1
      BY FS_Singleton
    <3>2. Decisive(attempts') \in SUBSET {new}
      BY <2>4
    <3> QED
      BY <3>1, <3>2, FS_Subset
  <2>6. Numbers(Decisive(attempts')) \subseteq parsed'
    BY <1>1, <1>2, <1>4, <1>8, <2>4 DEF Numbers, Number
  <2> QED
    BY <2>2, <2>3, <2>5, <2>6 DEF LedgerReadable
<1>10. \A q \in Proc \ {p} : pc[q] \notin Flying
  BY <1>1 DEF IInv, OneInFlight, Flying
<1>11. OneInFlight' /\ OnePlanner'
  BY <1>1 DEF IInv, OneInFlight, OnePlanner, Flying
<1>12. ASSUME NEW q \in Proc PROVE ProcInv(q)'
  <2>1. pc'[q] \in Flying => FALSE
    BY <1>1, <1>10 DEF Flying
  <2>2. Held(q)'
    BY <1>1 DEF IInv, ProcInv, Held, Critical, Asking, Flying
  <2>3. Informed(q)'
    BY <1>1 DEF IInv, ProcInv, Informed, Asking, Flying
  <2>4. Filling(q)'
    BY <1>1 DEF IInv, ProcInv, Filling
  <2> QED
    BY <2>1, <2>2, <2>3, <2>4 DEF ProcInv, Current, Announced, Flying
<1> QED
  BY <1>1, <1>2, <1>4, <1>5, <1>6, <1>8, <1>9, <1>11, <1>12 DEF Relations

\* The manifest states what the finalizer has read.
LEMMA PublishStep ==
    ASSUME IInv, NEW p \in Proc, Publish(p)
    PROVE  Relations'
<1>1. /\ UNCHANGED <<stage, attempts, evidence, parsed, stolen>>
      /\ \A q \in Proc \ {p} : pc'[q] = pc[q] /\ call'[q] = call[q]
      /\ pc[p] = "publish" /\ pc'[p] \in {"release", "idle"}
      /\ \A q \in Proc \ {p} : lock = q => lock' = q
      /\ pc'[p] = "release" => lock' = lock
  BY DEF Publish, RaiseLocked, Goto, End, IInv, TypeOK
<1>2. OneInFlight' /\ OnePlanner'
  BY <1>1 DEF IInv, OneInFlight, OnePlanner, Flying
<1>3. ASSUME NEW q \in Proc PROVE ProcInv(q)'
  BY <1>1 DEF IInv, ProcInv, Informed, Current, Announced, Filling, Held, Critical, Asking,
              Flying, Number
<1> QED
  BY <1>1, <1>2, <1>3 DEF IInv, Relations, LedgerReadable

\* Every step preserves the invariant.
LEMMA InvariantStep == IInv /\ [Next]_vars => IInv'
<1> SUFFICES ASSUME IInv, [Next]_vars PROVE IInv'
  OBVIOUS
<1>1. CASE UNCHANGED vars
  BY <1>1 DEF IInv, vars, files, TypeOK, LedgerReadable, OneInFlight, OnePlanner, ProcInv,
              Informed, Current, Announced, Filling, Held, Number
<1>2. ASSUME NEW p \in Proc, StartPlan(p) \/ Start(p) \/ Planning(p) \/ Reading(p)
      PROVE  IInv'
  BY <1>2, OutsideType, OutsideStep, PlanningStep DEF IInv, Relations
<1>3. ASSUME NEW p \in Proc, Locking(p) \/ Kill(p)
      PROVE  IInv'
  BY <1>3, LockingType, LockingStep DEF IInv, Relations
<1>4. ASSUME NEW p \in Proc, Running(p) \/ Finalizing(p)
      PROVE  IInv'
  <2>1. Relations'
    BY <1>4, ReadingStep, EvidenceStep, ParsedStep, RecordStep, PublishStep DEF Running, Finalizing
  <2> QED
    BY <1>4, <2>1, UnderLockType DEF IInv, Relations
<1> QED
  BY <1>1, <1>2, <1>3, <1>4 DEF Next, Step

(***************************************************************************)
(* The theorems                                                            *)
(***************************************************************************)
\* The invariant holds whatever is killed and whatever lock is taken away.
THEOREM Invariance == Spec => []IInv
BY InitInvariant, InvariantStep, PTL DEF Spec

\* The variables keep their types.
THEOREM TypeCorrect == Spec => []TypeOK
<1>1. IInv => TypeOK
  BY DEF IInv
<1> QED
  BY <1>1, Invariance, PTL

\* The loaders accept every ledger the commands leave
\* (_load_teacher_logical_audit_attempts).
THEOREM LedgerStaysReadable == Spec => []LedgerReadable
<1>1. IInv => LedgerReadable
  BY DEF IInv
<1> QED
  BY <1>1, Invariance, PTL

\* The auditor is asked only while there is no verdict and an attempt left.
THEOREM NoSecondOpinion == Spec => AskedOnlyWhileOpen
<1>1. ASSUME IInv, NEW p \in Proc, pc[p] = "ask"
      PROVE  stolen \/ ~Terminal(attempts)
  BY <1>1 DEF IInv, ProcInv, Informed, Held, Asking
<1>2. IInv => \A p \in Proc : pc[p] = "ask" /\ pc'[p] = "evidence" => stolen \/ ~Terminal(attempts)
  BY <1>1
<1> QED
  BY <1>2, Invariance, PTL DEF AskedOnlyWhileOpen

\* The verdict of a ledger, as the refinement reads it.
Verdict == IF Decisive(attempts) = {} THEN NoVerdict
           ELSE (CHOOSE a \in Decisive(attempts) : TRUE).verdict

\* A readable answer among the records is the verdict: there is one at most.
LEMMA VerdictIsUnique ==
    ASSUME IInv, NEW a \in Decisive(attempts)
    PROVE  Verdict = a.verdict /\ Verdict # NoVerdict
<1> DEFINE b == CHOOSE c \in Decisive(attempts) : TRUE
<1>1. b \in Decisive(attempts)
  OBVIOUS
<1>2. IsFiniteSet(Decisive(attempts)) /\ Cardinality(Decisive(attempts)) <= 1
  BY FS_Subset DEF IInv, LedgerReadable, Decisive
<1>3. Cardinality({a, b}) <= 1
  BY <1>1, <1>2, FS_Subset, FS_CardinalityType
<1>4. a = b
  <2>1. SUFFICES ASSUME a # b PROVE FALSE
    OBVIOUS
  <2>2. IsFiniteSet({a}) /\ Cardinality({a}) = 1
    BY FS_Singleton
  <2>3. Cardinality({a} \cup {b}) = 2
    BY <2>1, <2>2, FS_AddElement
  <2>4. {a} \cup {b} = {a, b}
    OBVIOUS
  <2> QED
    BY <1>3, <2>3, <2>4
<1>5. Verdict = a.verdict
  BY <1>4 DEF Verdict
<1> QED
  BY <1>5 DEF Decisive

\* Every step is one of AuditVerdict or leaves what it speaks of.
LEMMA VerdictStep ==
    ASSUME IInv, IInv', [Next]_vars
    PROVE  [VerdictSpec!Next]_(VerdictSpec!vars)
<1> DEFINE count == Cardinality(attempts)
<1>1. CASE UNCHANGED <<attempts, manifest>>
  BY <1>1 DEF VerdictSpec!vars, Decisive
<1>2. ASSUME NEW p \in Proc, LinkRecord(p)
      PROVE  VerdictSpec!Next
  <2>1. /\ Cardinality(attempts') = count + 1
        /\ ~Terminal(attempts)
        /\ Decisive(attempts') = {a \in attempts' \ attempts : a.verdict # NoVerdict}
        /\ manifest' = manifest
    BY <1>2, RecordStep DEF LinkRecord
  <2>2. PICK a : attempts' = attempts \cup {a} /\ a \notin attempts /\ a.verdict = call[p].reply
    BY <1>2, RecordStep
  <2>3. count \in Nat /\ Decisive(attempts) = {} /\ count < MaxAttempts
    BY <2>1, FS_CardinalityType, AuditAssumption DEF IInv, Terminal
  <2>4. Verdict = NoVerdict
    BY <2>3 DEF Verdict
  <2>5. VerdictSpec!Open
    BY <2>3, <2>4 DEF VerdictSpec!Open, Verdict
  <2>6. CASE call[p].reply = NoVerdict
    <3>1. Decisive(attempts') = {}
      BY <2>1, <2>2, <2>6
    <3>2. Verdict' = NoVerdict
      BY <3>1 DEF Verdict
    <3> QED
      BY <2>1, <2>4, <2>5, <3>2 DEF VerdictSpec!Next, VerdictSpec!Fail, Verdict
  <2>7. CASE call[p].reply # NoVerdict
    <3>1. Decisive(attempts') = {a}
      BY <2>1, <2>2, <2>7
    <3>2. Verdict' = a.verdict
      BY <3>1 DEF Verdict
    <3>3. call[p].reply \in 0..Sample
      BY <2>7 DEF IInv, TypeOK, Command, Reply
    <3> QED
      BY <2>1, <2>2, <2>5, <3>2, <3>3 DEF VerdictSpec!Next, VerdictSpec!Conclude, Verdict
  <2> QED
    BY <2>6, <2>7
<1>3. ASSUME NEW p \in Proc, Publish(p)
      PROVE  [VerdictSpec!Next]_(VerdictSpec!vars)
  <2>1. attempts' = attempts
    BY <1>3 DEF Publish
  <2>2. CASE manifest' = manifest
    BY <1>1, <2>1, <2>2
  <2>3. CASE manifest' # manifest
    <3>1. PICK a \in Decisive(call[p].seen) : manifest = NoVerdict /\ manifest' = a.verdict
      BY <1>3, <2>3 DEF Publish
    <3>2. a \in Decisive(attempts)
      BY <1>3, <3>1 DEF Publish, IInv, ProcInv, Informed, Decisive
    <3>3. Verdict = a.verdict /\ Verdict # NoVerdict
      BY <3>2, VerdictIsUnique
    <3>4. Verdict' = Verdict /\ Cardinality(attempts') = Cardinality(attempts)
      BY <2>1 DEF Verdict, Decisive
    <3> QED
      BY <3>1, <3>3, <3>4 DEF VerdictSpec!Next, VerdictSpec!Publish, Verdict
  <2> QED
    BY <2>2, <2>3
<1>4. ASSUME NEW p \in Proc, ~LinkRecord(p), ~Publish(p),
             StartPlan(p) \/ Start(p) \/ Step(p) \/ Kill(p)
      PROVE  UNCHANGED <<attempts, manifest>>
  BY <1>4 DEF StartPlan, Start, Step, Kill, Planning, Reading, Locking, Running, Finalizing,
     MakeDirectory, FillDirectory, LoadPlan, ReadAttempts, ReadManifest, TryLock, Inspect,
     UnlinkStale, Release, Decide, Ask, LinkEvidence, LinkParsed, Conclude, files
<1> QED
  BY <1>1, <1>2, <1>3, <1>4 DEF Next, vars, files

\* The audit implements AuditVerdict, even while two commands both believe they
\* hold its lock.
THEOREM ImplementsAuditVerdict == Spec => RefinesAuditVerdict
<1>1. Init => VerdictSpec!Init
  <2> SUFFICES ASSUME Init PROVE VerdictSpec!Init
    OBVIOUS
  <2>1. Cardinality(attempts) = 0 /\ Decisive(attempts) = {} /\ manifest = NoVerdict
    BY FS_EmptySet DEF Init, Decisive
  <2> QED
    BY <2>1 DEF VerdictSpec!Init
<1>2. IInv /\ IInv' /\ [Next]_vars => [VerdictSpec!Next]_(VerdictSpec!vars)
  BY VerdictStep
<1> QED
  BY <1>1, <1>2, Invariance, PTL DEF Spec, RefinesAuditVerdict, VerdictSpec!Spec
=============================================================================
