---------------------------- MODULE LogicalAudit ----------------------------
(***************************************************************************)
(* The logical audit of a teacher bank: gate-b-teacher-logical-audit-plan, *)
(* -run, -finalize and -status (cli.py) over the functions of the same     *)
(* names in teacher_rationale.py.  A plan directory is written once; each  *)
(* run asks the auditor for one answer on the whole sample, until one can  *)
(* be read; the finalizer publishes what that answer says.                 *)
(*                                                                         *)
(* Several operators may issue commands; a command is a process and may be *)
(* killed anywhere.  Everything in the directory is published by a hard    *)
(* link to a new name, the lock included.                                  *)
(***************************************************************************)
EXTENDS Naturals, FiniteSets

CONSTANTS
    Proc,           \* operators: each issues one command at a time
    Sample,         \* sample_size
    MinConsistent,  \* min_consistent
    MaxAttempts,    \* max_attempts
    MaxFaults,      \* bound on kills
    NoVerdict

ASSUME AuditAssumption ==
    /\ Sample \in Nat \ {0}
    /\ MinConsistent \in 1..Sample
    /\ MaxAttempts \in Nat \ {0}
    /\ MaxFaults \in Nat
    /\ NoVerdict \notin 0..Sample
    /\ Proc \cap {"free", "stale"} = {}

VARIABLES
    stage,      \* how much of the plan directory is there: 0 to Layout
    attempts,   \* attempt records
    evidence,   \* attempt numbers with raw output files
    parsed,     \* attempt numbers with a parsed-output file
    manifest,   \* the verdict the manifest states, or NoVerdict
    lock,       \* the audit lock: "free", "stale" (dead owner) or its live owner
    pc,         \* where each command is
    call,       \* what each command was started with and has read
    faults,     \* kills so far
    stolen      \* history: the lock of a live command was unlinked by another

files == <<stage, attempts, evidence, parsed, manifest>>
vars == <<files, lock, pc, call, faults, stolen>>

\* Directory, ledger directories, plan, output schema.
Layout == 4

Reply == 0..Sample \cup {NoVerdict}
Attempt == [number : 1..MaxAttempts, verdict : Reply, effort : {"high", "xhigh"}]
Kind == {"none", "plan", "run", "finalize", "status"}
Command == [kind : Kind, recover : BOOLEAN, seen : SUBSET Attempt, reply : Reply, over : BOOLEAN]
Idle == [kind |-> "none", recover |-> FALSE, seen |-> {}, reply |-> NoVerdict, over |-> FALSE]

Labels == {"idle", "plan", "fill", "load", "read_attempts", "read_manifest", "lock", "inspect", "recheck",
           "unlink", "decide", "ask", "evidence", "parsed", "record", "conclude", "publish",
           "release"}

Decisive(S) == {a \in S : a.verdict # NoVerdict}

\* Concluded or exhausted: run_teacher_logical_audit asks no more.
Terminal(S) == Decisive(S) # {} \/ Cardinality(S) >= MaxAttempts

Init ==
    /\ stage = 0
    /\ attempts = {}
    /\ evidence = {}
    /\ parsed = {}
    /\ manifest = NoVerdict
    /\ lock = "free"
    /\ pc = [p \in Proc |-> "idle"]
    /\ call = [p \in Proc |-> Idle]
    /\ faults = 0
    /\ stolen = FALSE

Goto(p, label) == pc' = [pc EXCEPT ![p] = label]

\* The command returns or raises; its process is gone.
End(p) == Goto(p, "idle") /\ call' = [call EXCEPT ![p] = Idle]

(***************************************************************************)
(* gate-b-teacher-logical-audit-plan                                       *)
(***************************************************************************)
\* The bank has been verified; its verification is in RationaleChain.
StartPlan(p) ==
    /\ pc[p] = "idle"
    /\ stage < Layout
    /\ call' = [call EXCEPT ![p].kind = "plan"]
    /\ Goto(p, "plan")
    /\ UNCHANGED <<files, lock, faults, stolen>>

\* _create_new_logical_audit_directory: mkdir, or refuse what is there.
MakeDirectory(p) ==
    /\ pc[p] = "plan"
    /\ \/ stage = 0 /\ stage' = 1 /\ Goto(p, "fill") /\ UNCHANGED call
       \/ stage > 0 /\ End(p) /\ UNCHANGED stage
    /\ UNCHANGED <<attempts, evidence, parsed, manifest, lock, faults, stolen>>

\* The ledger directories, the plan and the output schema, in that order.  What
\* a kill leaves of them is never completed.
FillDirectory(p) ==
    /\ pc[p] = "fill"
    /\ stage' = stage + 1
    /\ IF stage + 1 = Layout THEN End(p) ELSE UNCHANGED <<pc, call>>
    /\ UNCHANGED <<attempts, evidence, parsed, manifest, lock, faults, stolen>>

(***************************************************************************)
(* What every other command reads first                                    *)
(***************************************************************************)
Start(p) ==
    /\ pc[p] = "idle"
    /\ \E k \in {"run", "finalize", "status"}, r \in BOOLEAN :
          /\ k = "status" => ~r
          /\ call' = [call EXCEPT ![p] = [Idle EXCEPT !.kind = k, !.recover = r]]
    /\ Goto(p, "load")
    /\ UNCHANGED <<files, lock, faults, stolen>>

\* _validate_logical_audit_layout: an incomplete directory is refused.
LoadPlan(p) ==
    /\ pc[p] = "load"
    /\ \/ stage < Layout /\ End(p)
       \/ /\ stage = Layout
          /\ Goto(p, IF call[p].kind = "finalize" THEN "lock" ELSE "read_attempts")
          /\ UNCHANGED call
    /\ UNCHANGED <<files, lock, faults, stolen>>

\* teacher_logical_audit_status takes no lock: the attempts ...
ReadAttempts(p) ==
    /\ pc[p] = "read_attempts"
    /\ call' = [call EXCEPT ![p].seen = attempts]
    /\ Goto(p, "read_manifest")
    /\ UNCHANGED <<files, lock, faults, stolen>>

\* ... and then the manifest, which is held against the attempts read before.
\* A run reads the status twice, before it takes the lock and at its end.
ReadManifest(p) ==
    /\ pc[p] = "read_manifest"
    /\ \/ /\ manifest # NoVerdict => Decisive(call[p].seen) # {}
          /\ call[p].kind = "run" /\ ~call[p].over
          /\ Goto(p, "lock")
          /\ UNCHANGED call
       \/ /\ \/ manifest # NoVerdict /\ Decisive(call[p].seen) = {}
             \/ call[p].kind = "status"
             \/ call[p].over
          /\ End(p)
    /\ UNCHANGED <<files, lock, faults, stolen>>

(***************************************************************************)
(* teacher_logical_audit_lock                                              *)
(***************************************************************************)
\* A prepared lock file is linked to the name.
TryLock(p) ==
    /\ pc[p] = "lock"
    /\ \/ /\ lock = "free"
          /\ lock' = p
          /\ Goto(p, IF call[p].kind = "run" THEN "decide" ELSE "conclude")
          /\ UNCHANGED call
       \/ lock # "free" /\ call[p].recover /\ Goto(p, "inspect") /\ UNCHANGED <<lock, call>>
       \/ lock # "free" /\ ~call[p].recover /\ End(p) /\ UNCHANGED lock
    /\ UNCHANGED <<files, faults, stolen>>

\* _logical_audit_lock_status, by the caller and by _remove_stale_logical_audit_lock.
Inspect(p) ==
    /\ pc[p] \in {"inspect", "recheck"}
    /\ \/ /\ lock = "stale"
          /\ Goto(p, IF pc[p] = "inspect" THEN "recheck" ELSE "unlink")
          /\ UNCHANGED call
       \/ lock # "stale" /\ End(p)
    /\ UNCHANGED <<files, lock, faults, stolen>>

\* Mutant: the lock is removed and not acquired.
UnlinkStale_GiveUp(p) ==
    /\ pc[p] = "unlink"
    /\ End(p)
    /\ lock' = "free"
    /\ stolen' = (stolen \/ lock \in Proc)
    /\ UNCHANGED <<files, faults>>

\* The name is unlinked whatever is under it by now; one more try follows.
UnlinkStale(p) ==
    /\ pc[p] = "unlink"
    /\ \/ /\ lock # "free"
          /\ Goto(p, "lock")
          /\ call' = [call EXCEPT ![p].recover = FALSE]
       \/ lock = "free" /\ End(p)
    /\ lock' = "free"
    /\ stolen' = (stolen \/ lock \in Proc)
    /\ UNCHANGED <<files, faults>>

\* The release compares the token; a missing lock file raises.
Release(p) ==
    /\ pc[p] = "release"
    /\ lock' = IF lock = p THEN "free" ELSE lock
    /\ \/ /\ call[p].kind = "run" /\ lock # "free"
          /\ call' = [call EXCEPT ![p].over = TRUE]
          /\ Goto(p, "read_attempts")
       \/ /\ call[p].kind = "finalize" \/ lock = "free"
          /\ End(p)
    /\ UNCHANGED <<files, faults, stolen>>

\* An exception under the lock.
RaiseLocked(p) ==
    /\ lock' = IF lock = p THEN "free" ELSE lock
    /\ End(p)

(***************************************************************************)
(* run_teacher_logical_audit                                               *)
(***************************************************************************)
\* Mutant: the attempts read before the lock decide.
Decide_Stale(p) ==
    /\ pc[p] = "decide"
    /\ Goto(p, IF Terminal(call[p].seen) THEN "release" ELSE "ask")
    /\ UNCHANGED <<files, lock, call, faults, stolen>>

\* Mutant: an answer that fails the bank is asked for again.
Decide_SecondOpinion(p) ==
    /\ pc[p] = "decide"
    /\ call' = [call EXCEPT ![p].seen = attempts]
    /\ Goto(p, IF \/ \E a \in Decisive(attempts) : a.verdict >= MinConsistent
                  \/ Cardinality(attempts) >= MaxAttempts
               THEN "release" ELSE "ask")
    /\ UNCHANGED <<files, lock, faults, stolen>>

Decide(p) ==
    /\ pc[p] = "decide"
    /\ call' = [call EXCEPT ![p].seen = attempts]
    /\ Goto(p, IF Terminal(attempts) THEN "release" ELSE "ask")
    /\ UNCHANGED <<files, lock, faults, stolen>>

Number(p) == Cardinality(call[p].seen) + 1

\* The command runs.  Its answer covers the sample in order, or it is no answer.
Ask(p) ==
    /\ pc[p] = "ask"
    /\ \E r \in Reply : call' = [call EXCEPT ![p].reply = r]
    /\ Goto(p, "evidence")
    /\ UNCHANGED <<files, lock, faults, stolen>>

\* Mutant: raw output of an earlier run is replaced.
LinkEvidence_Replace(p) ==
    /\ pc[p] = "evidence"
    /\ evidence' = evidence \cup {Number(p)}
    /\ Goto(p, IF call[p].reply = NoVerdict THEN "record" ELSE "parsed")
    /\ UNCHANGED <<stage, attempts, parsed, manifest, lock, call, faults, stolen>>

\* Events and stderr are written first, to names that must be new.
LinkEvidence(p) ==
    /\ pc[p] = "evidence"
    /\ \/ /\ Number(p) \notin evidence
          /\ evidence' = evidence \cup {Number(p)}
          /\ Goto(p, IF call[p].reply = NoVerdict THEN "record" ELSE "parsed")
          /\ UNCHANGED <<lock, call>>
       \/ /\ Number(p) \in evidence
          /\ RaiseLocked(p)
          /\ UNCHANGED evidence
    /\ UNCHANGED <<stage, attempts, parsed, manifest, faults, stolen>>

LinkParsed(p) ==
    /\ pc[p] = "parsed"
    /\ parsed' = parsed \cup {Number(p)}
    /\ Goto(p, "record")
    /\ UNCHANGED <<stage, attempts, evidence, manifest, lock, call, faults, stolen>>

\* A first attempt runs at the plan's effort, a later one at the repair effort.
LinkRecord(p) ==
    /\ pc[p] = "record"
    /\ attempts' = attempts \cup
          {[number |-> Number(p), verdict |-> call[p].reply,
            effort |-> IF call[p].seen = {} THEN "high" ELSE "xhigh"]}
    /\ Goto(p, "release")
    /\ UNCHANGED <<stage, evidence, parsed, manifest, lock, call, faults, stolen>>

(***************************************************************************)
(* finalize_teacher_logical_audit                                          *)
(***************************************************************************)
\* A published manifest is reloaded; without an answer there is nothing to
\* publish, or the retries are exhausted.
Conclude(p) ==
    /\ pc[p] = "conclude"
    /\ call' = [call EXCEPT ![p].seen = attempts]
    /\ Goto(p, IF manifest = NoVerdict /\ Decisive(attempts) # {} THEN "publish" ELSE "release")
    /\ UNCHANGED <<files, lock, faults, stolen>>

Publish(p) ==
    /\ pc[p] = "publish"
    /\ \/ /\ manifest = NoVerdict
          /\ \E a \in Decisive(call[p].seen) : manifest' = a.verdict
          /\ Goto(p, "release")
          /\ UNCHANGED <<lock, call>>
       \/ /\ manifest # NoVerdict
          /\ RaiseLocked(p)
          /\ UNCHANGED manifest
    /\ UNCHANGED <<stage, attempts, evidence, parsed, faults, stolen>>

(***************************************************************************)
(* Next                                                                    *)
(***************************************************************************)
Kill(p) ==
    /\ pc[p] # "idle"
    /\ faults < MaxFaults
    /\ faults' = faults + 1
    /\ lock' = IF lock = p THEN "stale" ELSE lock
    /\ End(p)
    /\ UNCHANGED <<files, stolen>>

Planning(p) == MakeDirectory(p) \/ FillDirectory(p)
Reading(p) == LoadPlan(p) \/ ReadAttempts(p) \/ ReadManifest(p)
Locking(p) == TryLock(p) \/ Inspect(p) \/ UnlinkStale(p) \/ Release(p)
Running(p) == Decide(p) \/ Ask(p) \/ LinkEvidence(p) \/ LinkParsed(p) \/ LinkRecord(p)
Finalizing(p) == Conclude(p) \/ Publish(p)

Step(p) == Planning(p) \/ Reading(p) \/ Locking(p) \/ Running(p) \/ Finalizing(p)

Next == \E p \in Proc : StartPlan(p) \/ Start(p) \/ Step(p) \/ Kill(p)

Spec == Init /\ [][Next]_vars

\* A live command keeps executing; nothing obliges an operator to issue one.
Fairness == \A p \in Proc : WF_vars(Step(p))

FairSpec == Spec /\ Fairness

(***************************************************************************)
(* Properties                                                              *)
(***************************************************************************)
TypeOK ==
    /\ stage \in 0..Layout
    /\ attempts \subseteq Attempt
    /\ evidence \subseteq 1..MaxAttempts
    /\ parsed \subseteq evidence
    /\ manifest \in Reply
    /\ lock \in Proc \cup {"free", "stale"}
    /\ pc \in [Proc -> Labels]
    /\ call \in [Proc -> Command]
    /\ faults \in 0..MaxFaults
    /\ stolen \in BOOLEAN

Numbers(S) == {a.number : a \in S}

\* No kill and no stolen lock leaves a ledger the loaders refuse: the records
\* are numbered from one without a gap or a double, each with its raw output, a
\* readable answer with its parsed output, and at most one answer is readable
\* (_load_teacher_logical_audit_attempts).
LedgerReadable ==
    /\ Numbers(attempts) = 1..Cardinality(attempts)
    /\ Numbers(attempts) \subseteq evidence
    /\ Numbers(Decisive(attempts)) \subseteq parsed
    /\ Cardinality(Decisive(attempts)) <= 1

\* A readable answer is a conclusion: once one is recorded, or the attempts are
\* used up, the auditor is not asked again, whatever the command had read before
\* it took the lock (run_teacher_logical_audit).
AskedOnlyWhileOpen ==
    [][\A p \in Proc :
          pc[p] = "ask" /\ pc'[p] = "evidence" => stolen \/ ~Terminal(attempts)]_vars

\* The directory is an audit as AuditVerdict states it, even while two commands
\* both believe they hold the lock: the first readable answer is the verdict, no
\* answer is recorded after it, and the manifest states it for ever.
VerdictSpec ==
    INSTANCE AuditVerdict WITH
        tries <- Cardinality(attempts),
        verdict <- IF Decisive(attempts) = {} THEN NoVerdict
                   ELSE (CHOOSE a \in Decisive(attempts) : TRUE).verdict,
        published <- manifest
RefinesAuditVerdict == VerdictSpec!Spec

Alone(p) == \A q \in Proc \ {p} : pc[q] = "idle"

\* The lock of a killed command does not end the audit: a run with
\* --recover-stale-lock that stays alone records the next answer, unless a kill
\* has left raw output under its number.
LoneRunRecords ==
    \A p \in Proc, n \in 0..MaxAttempts - 1 :
        (/\ pc[p] = "load" /\ call[p].kind = "run" /\ call[p].recover
         /\ stage = Layout
         /\ Alone(p) /\ faults = MaxFaults
         /\ ~Terminal(attempts) /\ Cardinality(attempts) = n
         /\ n + 1 \notin evidence) ~> (Cardinality(attempts) > n \/ ~Alone(p))
=============================================================================
