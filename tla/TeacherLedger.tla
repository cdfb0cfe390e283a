--------------------------- MODULE TeacherLedger ----------------------------
(***************************************************************************)
(* The append-only teacher ledger: gate-b-teacher-run and                  *)
(* gate-b-teacher-finalize (cli.py) over run_teacher_plan and              *)
(* finalize_teacher_bank (teacher_rationale.py).  Runs buy attempts for    *)
(* the problems of a plan, the finalizer grades them against the local     *)
(* answers and publishes a bank once every problem has an accepted row.    *)
(*                                                                         *)
(* Several operators may issue calls; each call is a process and may be    *)
(* killed anywhere.  The plan lock serialises what happens under it, but   *)
(* the profile checks of cli.py read the ledger before the lock is taken   *)
(* and the threshold marker is written after it is released.               *)
(***************************************************************************)
EXTENDS Naturals, Sequences, FiniteSets

CONSTANTS
    Proc,         \* operators: each issues one call at a time
    Chunks,       \* the plan: a sequence of sets of problems
    RepairSize,   \* repair_chunk_size
    MaxAttempts,  \* max_attempts
    MaxWorkers,   \* concurrent commands of one run
    MinAccepted,  \* _V4_INITIAL_MIN_ACCEPTED
    PilotSize,    \* pilot_size of the teacher config
    Profile       \* "v3", "v4" or "v5": the schema of the teacher config

ASSUME PlanAssumption ==
    /\ Chunks \in Seq(SUBSET Nat \ {{}})
    /\ \A c \in DOMAIN Chunks : IsFiniteSet(Chunks[c])
    /\ \A c, d \in DOMAIN Chunks : c # d => Chunks[c] \cap Chunks[d] = {}
ASSUME LimitAssumption ==
    /\ RepairSize \in Nat \ {0}
    /\ MaxAttempts \in Nat \ {0}
    /\ MaxWorkers \in {1, 2}
    /\ MinAccepted \in Nat
    /\ PilotSize \in Nat
    /\ Profile \in {"v3", "v4", "v5"}
ASSUME ProcAssumption == Proc \cap {"free", "stale"} = {}

Chunk == DOMAIN Chunks
Problems == UNION {Chunks[c] : c \in Chunk}
Key == Chunk \X (Nat \ {0})
\* The waves, the retry before grading and the threshold are rules of pilot
\* plans, which the code tells from the full plans by their size alone.
Pilot == Cardinality(Problems) = PilotSize
Limits == 1..Cardinality(Problems)    \* the largest one is as good as none

VARIABLES
    attempts,   \* attempt records
    evidence,   \* keys with a raw event file
    assessed,   \* keys with an assessment file
    marker,     \* the initial threshold failure marker exists
    bank,       \* "none", "source" (no manifest yet) or "published"
    lock,       \* the plan lock: "free", "stale" (dead owner) or its live owner
    pc,         \* where each call is
    call,       \* what each call was started with and has read
    queue,      \* jobs a run has yet to start
    active,     \* jobs whose raw files are written and whose record is not
    aborted,    \* some job of the run raised
    todo,       \* keys the finalizer has yet to assess
    stolen      \* history: the lock of a live call was unlinked by another

ledger == <<attempts, evidence, assessed, marker, bank>>
local == <<call, queue, active, aborted, todo>>
vars == <<ledger, lock, pc, local, stolen>>

Idle == [kind |-> "none", limit |-> 0, recover |-> FALSE, retryable |-> {}, counted |-> 0,
         complete |-> TRUE]

Invocation == [kind : {"none", "run", "finalize"}, limit : Limits \cup {0}, recover : BOOLEAN,
               retryable : SUBSET Chunk, counted : 0..Cardinality(Problems), complete : BOOLEAN]
Job == [chunk : Chunk, number : Nat \ {0}, ids : SUBSET Problems]
Attempt == [chunk : Chunk, number : Nat \ {0}, ids : SUBSET Problems,
            status : {"parsed", "failed", "malformed"}, right : SUBSET Problems]

Labels == {"idle", "wave", "keys", "protocol", "lock", "inspect", "recheck", "unlink", "plan",
           "execute", "load", "assess", "link_source", "link_manifest", "release",
           "marker_check", "marker_link"}

(***************************************************************************)
(* Reading the ledger                                                      *)
(***************************************************************************)
KeyOf(a) == <<a.chunk, a.number>>
KeysOf(jobs) == {KeyOf(j) : j \in jobs}
History(c) == {a \in attempts : a.chunk = c}
Latest(c) == CHOOSE a \in History(c) : \A b \in History(c) : b.number <= a.number

NextNumber(c) == IF History(c) = {} THEN 1 ELSE Latest(c).number + 1

Graded == {a \in attempts : KeyOf(a) \in assessed}

\* Mutant: every graded row counts as accepted.
Accepted_AnyGraded == UNION {a.ids : a \in Graded}

Accepted == UNION {a.right : a \in Graded}
AttemptsOn(i) == Cardinality({a \in attempts : i \in a.ids})
Ungraded == {a \in attempts : a.status = "parsed" /\ KeyOf(a) \notin assessed}
Unassessed == UNION {a.ids : a \in Ungraded}
Open == Problems \ (Accepted \cup Unassessed)

\* Mutant: off by one.
Pending_OneMore == {i \in Open : AttemptsOn(i) <= MaxAttempts}

Pending == {i \in Open : AttemptsOn(i) < MaxAttempts}
Exhausted == Open \ Pending

\* Every loader rejects a ledger in which a row was accepted twice.
LedgerValid == \A a, b \in Graded : a # b => a.right \cap b.right = {}

\* _v5_protocol_retryable_attempt_keys: a sole attempt with a broken structure.
Retryable == {c \in Chunk : Cardinality(History(c)) = 1 /\ Latest(c).status = "malformed"}

Init ==
    /\ attempts = {}
    /\ evidence = {}
    /\ assessed = {}
    /\ marker = FALSE
    /\ bank = "none"
    /\ lock = "free"
    /\ pc = [p \in Proc |-> "idle"]
    /\ call = [p \in Proc |-> Idle]
    /\ queue = [p \in Proc |-> {}]
    /\ active = [p \in Proc |-> {}]
    /\ aborted = [p \in Proc |-> FALSE]
    /\ todo = [p \in Proc |-> {}]
    /\ stolen = FALSE

Goto(p, label) == pc' = [pc EXCEPT ![p] = label]

\* The call returns or raises; its process is gone.
End(p) ==
    /\ Goto(p, "idle")
    /\ call' = [call EXCEPT ![p] = Idle]
    /\ queue' = [queue EXCEPT ![p] = {}]
    /\ active' = [active EXCEPT ![p] = {}]
    /\ aborted' = [aborted EXCEPT ![p] = FALSE]
    /\ todo' = [todo EXCEPT ![p] = {}]

(***************************************************************************)
(* Before the lock: the checks of cli.py                                   *)
(***************************************************************************)
\* _require_v4_initial_threshold_not_failed
ThresholdNotFailed == ~marker

\* gate-b-teacher-run --max-invocations k [--recover-stale-lock]
StartRun(p) ==
    /\ pc[p] = "idle"
    /\ ThresholdNotFailed
    /\ \E k \in Limits, r \in BOOLEAN :
          call' = [call EXCEPT ![p] = [Idle EXCEPT !.kind = "run", !.limit = k, !.recover = r]]
    /\ Goto(p, "wave")
    /\ UNCHANGED <<ledger, lock, queue, active, aborted, todo, stolen>>

\* _require_v4_teacher_run_wave and _require_v5_teacher_run_wave.
Repair(k) == Unassessed = {} /\ k \in {1, 2}

WaveAllowed(k) ==
    LET total == Cardinality(attempts)
        initial == total = 0 /\ k = Len(Chunks)
    IN  CASE Profile = "v3" \/ ~Pilot -> TRUE
          [] Profile = "v4" /\ Pilot -> initial \/ (total > 0 /\ total >= Len(Chunks) /\ Repair(k))
          [] Profile = "v5" /\ Pilot ->
                \/ initial
                \/ /\ \A c \in Chunk : /\ History(c) # {}
                                       /\ Latest(c).status # "parsed" => c \in Retryable
                   /\ IF Retryable # {} THEN k = Cardinality(Retryable) ELSE Repair(k)

CheckWave(p) ==
    /\ pc[p] = "wave"
    /\ LET allowed == (Profile # "v3" /\ Pilot => LedgerValid) /\ WaveAllowed(call[p].limit) IN
         \/ allowed /\ Goto(p, IF Profile = "v5" THEN "keys" ELSE "lock") /\ UNCHANGED local
         \/ ~allowed /\ End(p)
    /\ UNCHANGED <<ledger, lock, stolen>>

\* The retryable keys are an argument of the call that takes the lock.
ReadRetryable(p) ==
    /\ pc[p] = "keys"
    /\ call' = [call EXCEPT ![p].retryable = Retryable]
    /\ Goto(p, "lock")
    /\ UNCHANGED <<ledger, lock, queue, active, aborted, todo, stolen>>

StartFinalize(p) ==
    /\ pc[p] = "idle"
    /\ \E r \in BOOLEAN :
          call' = [call EXCEPT ![p] = [Idle EXCEPT !.kind = "finalize", !.recover = r]]
    /\ Goto(p, "protocol")
    /\ UNCHANGED <<ledger, lock, queue, active, aborted, todo, stolen>>

\* _require_v5_protocol_retry_resolved_before_finalize
ProtocolResolved ==
    Profile = "v5" /\ Pilot => Retryable = {} /\ \A c \in Chunk : History(c) # {}

CheckProtocol(p) ==
    /\ pc[p] = "protocol"
    /\ \/ ProtocolResolved /\ Goto(p, "lock") /\ UNCHANGED local
       \/ ~ProtocolResolved /\ End(p)
    /\ UNCHANGED <<ledger, lock, stolen>>

(***************************************************************************)
(* teacher_plan_lock                                                       *)
(***************************************************************************)
TryLock(p) ==
    /\ pc[p] = "lock"
    /\ \/ /\ lock = "free"
          /\ lock' = p
          /\ Goto(p, IF call[p].kind = "run" THEN "plan" ELSE "load")
          /\ call' = [call EXCEPT ![p].recover = FALSE]
          /\ UNCHANGED <<queue, active, aborted, todo>>
       \/ lock # "free" /\ call[p].recover /\ Goto(p, "inspect") /\ UNCHANGED <<lock, local>>
       \/ lock # "free" /\ ~call[p].recover /\ End(p) /\ UNCHANGED lock
    /\ UNCHANGED <<ledger, stolen>>

\* _lock_status by the caller, then again inside _remove_stale_lock.
Inspect(p) ==
    /\ pc[p] \in {"inspect", "recheck"}
    /\ \/ /\ lock = "stale"
          /\ Goto(p, IF pc[p] = "inspect" THEN "recheck" ELSE "unlink")
          /\ UNCHANGED local
       \/ lock # "stale" /\ End(p)
    /\ UNCHANGED <<ledger, lock, stolen>>

\* The name is unlinked whatever is under it by now; one more try follows.
UnlinkStale(p) ==
    /\ pc[p] = "unlink"
    /\ \/ /\ lock # "free"
          /\ Goto(p, "lock")
          /\ call' = [call EXCEPT ![p].recover = FALSE]
          /\ UNCHANGED <<queue, active, aborted, todo>>
       \/ lock = "free" /\ End(p)
    /\ lock' = "free"
    /\ stolen' = (stolen \/ lock \in Proc)
    /\ UNCHANGED ledger

\* The release compares the token; a finalizer then considers the marker.
Release(p) ==
    /\ pc[p] = "release"
    /\ lock' = IF lock = p THEN "free" ELSE lock
    /\ \/ ~call[p].complete /\ Goto(p, "marker_check") /\ UNCHANGED local
       \/ call[p].complete /\ End(p)
    /\ UNCHANGED <<ledger, stolen>>

(***************************************************************************)
(* run_teacher_plan                                                        *)
(***************************************************************************)
\* The rows of S in order, cut into pieces of RepairSize.
Group(S, g) == {i \in S : Cardinality({j \in S : j < i}) \div RepairSize = g}

Rows(c) == Chunks[c] \cap Pending

Eligible(c) == Chunks[c] \cap Unassessed = {} /\ Rows(c) # {}

\* A chunk whose last answer could not be read, under the v5 profile.
Faulty(c) == Profile = "v5" /\ History(c) # {} /\ Latest(c).status # "parsed"

\* Mutant: the number of attempts is not read again under the lock.
Retries_StaleKeys(p, c) == c \in call[p].retryable

Retries(p, c) == c \in call[p].retryable /\ Cardinality(History(c)) = 1

\* Mutant: a repair asks for the whole chunk again.
Groups_WholeChunk(c) == {<<0, Chunks[c]>>}

\* The groups of a chunk, each with its distance from the next attempt number.
Groups(c) ==
    IF History(c) = {} \/ Faulty(c)
      THEN {<<0, Chunks[c]>>}
      ELSE {<<g, Group(Rows(c), g)>> : g \in 0..((Cardinality(Rows(c)) - 1) \div RepairSize)}

JobsOf(c) ==
    {[chunk |-> c, number |-> NextNumber(c) + g[1], ids |-> g[2]] : g \in Groups(c)}

Jobs == UNION {JobsOf(c) : c \in {d \in Chunk : Eligible(d)}}

Before(j, k) == j[1] < k[1] \/ (j[1] = k[1] /\ j[2] < k[2])
First(S) == CHOOSE k \in S : \A j \in S : ~Before(j, k)

\* The loop over the chunks stops at the invocation limit.
Reached(p, c) == Cardinality({j \in Jobs : j.chunk < c}) < call[p].limit
Planned(p) == {j \in Jobs : Cardinality({i \in Jobs : Before(KeyOf(i), KeyOf(j))}) < call[p].limit}

Refused(p) ==
    \/ ~LedgerValid
    \/ Exhausted # {}
    \/ \E c \in Chunk : Reached(p, c) /\ Eligible(c) /\ Faulty(c) /\ ~Retries(p, c)

PlanJobs(p) ==
    /\ pc[p] = "plan"
    /\ \/ Refused(p) /\ Goto(p, "release") /\ UNCHANGED queue
       \/ /\ ~Refused(p)
          /\ queue' = [queue EXCEPT ![p] = Planned(p)]
          /\ Goto(p, "execute")
    /\ call' = [call EXCEPT ![p] = [Idle EXCEPT !.kind = "run"]]
    /\ UNCHANGED <<ledger, lock, active, aborted, todo, stolen>>

\* Only v5 tells a broken structure from the other failures.
Answers(job) ==
    {[chunk |-> job.chunk, number |-> job.number, ids |-> job.ids, status |-> "parsed",
      right |-> r] : r \in SUBSET job.ids}
    \cup {[chunk |-> job.chunk, number |-> job.number, ids |-> job.ids, status |-> s,
           right |-> {}] : s \in {"failed"} \cup (IF Profile = "v5" THEN {"malformed"} ELSE {})}

\* Mutant: an existing file is replaced.
FreshName_Replace(k) == TRUE

\* _atomic_write_noreplace: a hard link to a new name.
FreshName(k) == k \notin evidence

\* The command has run; its raw files are the first thing written.  A file of
\* that name stops the job: nothing in the ledger is overwritten.
WriteEvidence(p) ==
    /\ pc[p] = "execute"
    /\ Cardinality(active[p]) < MaxWorkers
    /\ aborted[p] => MaxWorkers > 1
    /\ \E job \in queue[p] :
          /\ KeyOf(job) = First(KeysOf(queue[p]))
          /\ queue' = [queue EXCEPT ![p] = @ \ {job}]
          /\ \/ /\ FreshName(KeyOf(job))
                /\ evidence' = evidence \cup {KeyOf(job)}
                /\ \E a \in Answers(job) : active' = [active EXCEPT ![p] = @ \cup {a}]
                /\ UNCHANGED aborted
             \/ /\ ~FreshName(KeyOf(job))
                /\ aborted' = [aborted EXCEPT ![p] = TRUE]
                /\ UNCHANGED <<evidence, active>>
    /\ UNCHANGED <<attempts, assessed, marker, bank, lock, pc, call, todo, stolen>>

WriteAttempt(p) ==
    /\ pc[p] = "execute"
    /\ \E a \in active[p] :
          /\ attempts' = attempts \cup {a}
          /\ active' = [active EXCEPT ![p] = @ \ {a}]
    /\ UNCHANGED <<evidence, assessed, marker, bank, lock, pc, call, queue, aborted, todo, stolen>>

\* An OSError after the raw files: the record is never written.
LoseAttempt(p) ==
    /\ pc[p] = "execute"
    /\ \E a \in active[p] : active' = [active EXCEPT ![p] = @ \ {a}]
    /\ aborted' = [aborted EXCEPT ![p] = TRUE]
    /\ UNCHANGED <<ledger, lock, pc, call, queue, todo, stolen>>

\* The main thread sees the exception and cancels what no worker has taken.
CancelJobs(p) ==
    /\ pc[p] = "execute"
    /\ aborted[p]
    /\ queue[p] # {}
    /\ queue' = [queue EXCEPT ![p] = {}]
    /\ UNCHANGED <<ledger, lock, pc, call, active, aborted, todo, stolen>>

FinishRun(p) ==
    /\ pc[p] = "execute"
    /\ queue[p] = {}
    /\ active[p] = {}
    /\ Goto(p, "release")
    /\ UNCHANGED <<ledger, lock, local, stolen>>

(***************************************************************************)
(* finalize_teacher_bank                                                   *)
(***************************************************************************)
LoadLedger(p) ==
    /\ pc[p] = "load"
    /\ \/ ~LedgerValid /\ Goto(p, "release") /\ UNCHANGED todo
       \/ /\ LedgerValid
          /\ todo' = [todo EXCEPT ![p] = KeysOf(Ungraded)]
          /\ Goto(p, "assess")
    /\ UNCHANGED <<ledger, lock, call, queue, active, aborted, stolen>>

WriteAssessment(p) ==
    /\ pc[p] = "assess"
    /\ todo[p] # {}
    /\ LET k == First(todo[p]) IN
         \/ /\ k \notin assessed
            /\ assessed' = assessed \cup {k}
            /\ todo' = [todo EXCEPT ![p] = @ \ {k}]
            /\ UNCHANGED pc
         \/ /\ k \in assessed
            /\ Goto(p, "release")
            /\ UNCHANGED <<assessed, todo>>
    /\ UNCHANGED <<attempts, evidence, marker, bank, lock, call, queue, active, aborted, stolen>>

\* Exhausted rows fail the call; open ones make it incomplete; otherwise the
\* bank is published to a new pair of names.
Conclude(p) ==
    /\ pc[p] = "assess"
    /\ todo[p] = {}
    /\ \/ (~LedgerValid \/ Exhausted # {}) /\ Goto(p, "release") /\ UNCHANGED call
       \/ /\ LedgerValid /\ Exhausted = {} /\ Pending \cup Unassessed # {}
          /\ call' = [call EXCEPT ![p].complete = FALSE,
                                  ![p].counted = Cardinality(Accepted)]
          /\ Goto(p, "release")
       \/ /\ LedgerValid /\ Problems = Accepted
          /\ Goto(p, IF bank = "none" THEN "link_source" ELSE "release")
          /\ UNCHANGED call
    /\ UNCHANGED <<ledger, lock, queue, active, aborted, todo, stolen>>

LinkSource(p) ==
    /\ pc[p] = "link_source"
    /\ \/ bank = "none" /\ bank' = "source" /\ Goto(p, "link_manifest")
       \/ bank # "none" /\ Goto(p, "release") /\ UNCHANGED bank
    /\ UNCHANGED <<attempts, evidence, assessed, marker, lock, local, stolen>>

\* A failing link of the manifest takes the source back.
LinkManifest(p) ==
    /\ pc[p] = "link_manifest"
    /\ bank' \in {"published", "none"}
    /\ Goto(p, "release")
    /\ UNCHANGED <<attempts, evidence, assessed, marker, lock, local, stolen>>

(***************************************************************************)
(* After the lock: _write_v4_initial_threshold_failure                     *)
(***************************************************************************)
BelowThreshold(p) ==
    /\ Profile # "v3"
    /\ Pilot
    /\ ~marker
    /\ LedgerValid
    /\ call[p].counted < MinAccepted
    /\ Cardinality(Accepted) = call[p].counted
    /\ Cardinality(attempts) >= Len(Chunks)
    /\ Unassessed = {}

CheckThreshold(p) ==
    /\ pc[p] = "marker_check"
    /\ \/ BelowThreshold(p) /\ Goto(p, "marker_link") /\ UNCHANGED local
       \/ ~BelowThreshold(p) /\ End(p)
    /\ UNCHANGED <<ledger, lock, stolen>>

LinkMarker(p) ==
    /\ pc[p] = "marker_link"
    /\ marker' = TRUE
    /\ End(p)
    /\ UNCHANGED <<attempts, evidence, assessed, bank, lock, stolen>>

(***************************************************************************)
(* Next                                                                    *)
(***************************************************************************)
Crash(p) ==
    /\ pc[p] # "idle"
    /\ lock' = IF lock = p THEN "stale" ELSE lock
    /\ End(p)
    /\ UNCHANGED <<ledger, stolen>>

Locking(p) == TryLock(p) \/ Inspect(p) \/ UnlinkStale(p) \/ Release(p)

Running(p) ==
    \/ CheckWave(p) \/ ReadRetryable(p) \/ PlanJobs(p) \/ WriteEvidence(p)
    \/ WriteAttempt(p) \/ LoseAttempt(p) \/ CancelJobs(p) \/ FinishRun(p)

Finalizing(p) ==
    \/ CheckProtocol(p) \/ LoadLedger(p) \/ WriteAssessment(p) \/ Conclude(p)
    \/ LinkSource(p) \/ LinkManifest(p) \/ CheckThreshold(p) \/ LinkMarker(p)

Step(p) == Locking(p) \/ Running(p) \/ Finalizing(p)

Next == \E p \in Proc : StartRun(p) \/ StartFinalize(p) \/ Step(p) \/ Crash(p)

Spec == Init /\ [][Next]_vars

(***************************************************************************)
(* Properties                                                              *)
(***************************************************************************)
TypeOK ==
    /\ attempts \subseteq Attempt
    /\ evidence \subseteq Key
    /\ assessed \subseteq evidence
    /\ marker \in BOOLEAN
    /\ bank \in {"none", "source", "published"}
    /\ lock \in Proc \cup {"free", "stale"}
    /\ pc \in [Proc -> Labels]
    /\ call \in [Proc -> Invocation]
    /\ queue \in [Proc -> SUBSET Job]
    /\ active \in [Proc -> SUBSET Attempt]
    /\ todo \in [Proc -> SUBSET Key]
    /\ aborted \in [Proc -> BOOLEAN]
    /\ stolen \in BOOLEAN

\* An attempt identity names one attempt for ever, even between two runs that
\* both believe they hold the plan lock.
OneRecordPerKey ==
    \A a, b \in attempts : KeyOf(a) = KeyOf(b) => a = b

\* A row that is accepted, or whose answer waits to be graded, is never bought
\* again, by a job planned earlier, another worker or a resumed run.
NeverPaysTwice ==
    [][~stolen' => \A a \in attempts' \ attempts : a.ids \cap (Accepted \cup Unassessed) = {}]_vars

\* No row is tried more than max_attempts times, whatever the groups and
\* crashes of the runs were.
AttemptCap ==
    ~stolen => \A i \in Problems : AttemptsOn(i) <= MaxAttempts

\* A bank, or the source half of one, exists only over a ledger in which every
\* problem has exactly one accepted row.
BankComplete ==
    (~stolen /\ bank # "none") =>
        \A i \in Problems : Cardinality({a \in Graded : i \in a.right}) = 1

\* v5: no answer of a pilot plan is graded before every chunk was tried and
\* every broken structure was retried, although the check is made outside the
\* lock; and in every plan a first answer that could not be read is either
\* final, or retried once as a whole and final if that fails too, even between
\* runs that both believe they hold the plan lock.
ProtocolRetryOnce ==
    Profile = "v5" =>
        /\ Pilot /\ assessed # {} => Retryable = {} /\ \A c \in Chunk : History(c) # {}
        /\ \A a, b \in attempts :
              (a.chunk = b.chunk /\ a.number = 1 /\ a.status # "parsed" /\ b.number > 1) =>
                  /\ a.status = "malformed"
                  /\ b.number = 2 => b.ids = Chunks[b.chunk]
                  /\ b.number > 2 => \E r \in attempts :
                         KeyOf(r) = <<b.chunk, 2>> /\ r.status = "parsed"

\* Evidence of an attempt that was interrupted never stands in the way of a
\* planned one (run_teacher_plan, _execute_teacher_jobs).
PartialGetsNewAttempt ==
    \A p \in Proc :
        (pc[p] = "execute" /\ ~stolen) => KeysOf(queue[p]) \cap evidence = {}
=============================================================================
