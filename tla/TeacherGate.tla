----------------------------- MODULE TeacherGate -----------------------------
(***************************************************************************)
(* What must be on disk before an organizer question may be sent to the    *)
(* teacher: teacher_harness.py (synthetic replay and live canary, their    *)
(* authorization), teacher_pilot_authorization.py (the pilot receipt) and  *)
(* the commands of cli.py that plan, run, finalize, audit and authorize    *)
(* under a harness-gated profile (teacher-pilot-v4 and -v5).               *)
(*                                                                         *)
(* A SHA-256 is modelled by the content it is taken of, so that a report   *)
(* names another one by holding it.  One operator issues one command at a  *)
(* time; a command is several steps and may be killed between them, while  *)
(* the source tree, the Codex binary, the config file and the data         *)
(* contract may change under it.                                           *)
(*                                                                         *)
(* The names of the specification say that they are the gate's (GateInit,  *)
(* GateSpec): the proofs use this module beside TeacherLedger.             *)
(***************************************************************************)
EXTENDS Naturals, Sequences, FiniteSets

CONSTANTS
    Config,     \* versions of the config files
    Tree,       \* versions of the source tree
    Broken,     \* trees whose classifier fails the fault matrix
    Binary,     \* contents of the Codex executable
    Version,    \* what a Codex executable may say it is
    VersionOf,  \* what each of them says: two may say the same
    Data,       \* versions of the data contract (train, exclusions, split, shard), which differ in their ids
    CanaryDir,  \* paths for live canary plans
    PlanDir,    \* paths for teacher plans
    CanaryChunks, \* chunk_count of the harness profile
    MaxDrift,   \* bound on changes of the environment
    MaxFaults,  \* bound on kills and damaged or edited evidence
    None

ASSUME GateAssumption ==
    /\ Broken \subseteq Tree
    /\ VersionOf \in [Binary -> Version]
    /\ CanaryChunks \in Nat \ {0}
    /\ MaxDrift \in Nat
    /\ MaxFaults \in Nat

VARIABLES
    env,         \* what is installed now
    replays,     \* replay reports
    canary,      \* the private plan of each live canary
    lives,       \* live reports
    plan,        \* teacher plans with their sidecars and ledgers
    decisions,   \* data contracts with a positive candidate-probe decision
    receipts,    \* pilot receipts
    cmd,         \* the running command: its place and what it has read; with
                 \* the history of whether its executable was replaced meanwhile
    drifts,
    faults,
    earned,      \* history: answers each canary really got, with their binary
    asked        \* history: what each plan's questions were sent under

world == <<env, drifts>>
reports == <<replays, canary, lives>>
gateVars == <<env, replays, canary, lives, plan, decisions, receipts, cmd, drifts, faults, earned, asked>>

Environment == [config : Config, tree : Tree, binary : Binary, data : Data]
Answer == {"success", "failure"}
Replay == [config : Config, qualified : BOOLEAN]
Live == [config : Config, tree : Tree, binary : Binary, version : Version, dir : CanaryDir,
         answers : UNION {[1..n -> Answer] : n \in 0..CanaryChunks}, qualified : BOOLEAN]
Receipt == [config : Config, data : Data, pilot : PlanDir]
Scope == {"pilot", "full", "rest"}

\* What is absent is told apart from whatever may be there.
ASSUME NoneAssumption ==
    /\ None \notin Version \cup CanaryDir \cup PlanDir \cup Scope \cup {"poor", "good", "passed", "failed"}
    /\ None \notin Live /\ None \notin Receipt /\ None \notin [replay : Replay, live : Live]

NoCanary == [version |-> None, answers |-> <<>>]
NoPlan == [scope |-> None, version |-> None, data |-> None, receipt |-> None, harness |-> None,
           decided |-> FALSE, first |-> None, done |-> FALSE, bank |-> FALSE, audit |-> None]
NoCommand == [at |-> "idle"]

GateInit ==
    /\ env \in Environment
    /\ replays = {}
    /\ canary = [d \in CanaryDir |-> NoCanary]
    /\ lives = {}
    /\ plan = [d \in PlanDir |-> NoPlan]
    /\ decisions = {}
    /\ receipts = {}
    /\ cmd = NoCommand
    /\ drifts = 0
    /\ faults = 0
    /\ earned = [d \in CanaryDir |-> <<>>]
    /\ asked = [d \in PlanDir |-> {}]

Ready == cmd.at = "idle"
Done == cmd' = NoCommand

\* _probe_codex_chatgpt_cli: what the client says it is.
Installed == VersionOf[env.binary]

(***************************************************************************)
(* The synthetic harness                                                   *)
(***************************************************************************)
\* The fault matrix is replayed by the code as it is.
Replayed == env.tree \notin Broken

RunReplay ==
    /\ Ready
    /\ replays' = replays \cup {[config |-> env.config, qualified |-> Replayed]}
    /\ UNCHANGED <<world, canary, lives, plan, decisions, receipts, cmd, faults, earned, asked>>

AllSucceed(answers) == Len(answers) = CanaryChunks /\ \A i \in DOMAIN answers : answers[i] = "success"

\* Both targets must be new; the source manifest is that of the present tree.
StartCanary(d) ==
    /\ Ready
    /\ canary[d].version = None
    /\ cmd' = [at |-> "canary_plan", dir |-> d, config |-> env.config, tree |-> env.tree, version |-> Installed]
    /\ UNCHANGED <<world, reports, plan, decisions, receipts, faults, earned, asked>>

MakeCanary ==
    /\ cmd.at = "canary_plan"
    /\ canary' = [canary EXCEPT ![cmd.dir].version = cmd.version]
    /\ cmd' = [cmd EXCEPT !.at = "canary_call"]
    /\ UNCHANGED <<world, replays, lives, plan, decisions, receipts, faults, earned, asked>>

\* Mutant: a failed chunk is called once more.
CallCanary_Retry ==
    /\ cmd.at = "canary_call"
    /\ LET answers == canary[cmd.dir].answers IN
          Len(answers) < CanaryChunks \/ \E i \in DOMAIN answers : answers[i] = "failure"
    /\ Len(canary[cmd.dir].answers) <= CanaryChunks
    /\ \E a \in Answer :
          /\ canary' = [canary EXCEPT ![cmd.dir].answers = Append(@, a)]
          /\ earned' = [earned EXCEPT ![cmd.dir] = Append(@, [answer |-> a, binary |-> env.binary])]
    /\ UNCHANGED <<world, replays, lives, plan, decisions, receipts, cmd, faults, asked>>

\* Exactly one attempt per chunk, whatever it returns.
CallCanary ==
    /\ cmd.at = "canary_call"
    /\ Len(canary[cmd.dir].answers) < CanaryChunks
    /\ \E a \in Answer :
          /\ canary' = [canary EXCEPT ![cmd.dir].answers = Append(@, a)]
          /\ earned' = [earned EXCEPT ![cmd.dir] = Append(@, [answer |-> a, binary |-> env.binary])]
    /\ UNCHANGED <<world, replays, lives, plan, decisions, receipts, cmd, faults, asked>>

\* The report hashes the executable as it is by now.
ReportCanary ==
    /\ cmd.at = "canary_call"
    /\ LET answers == canary[cmd.dir].answers IN
          /\ Len(answers) = CanaryChunks
          /\ lives' = lives \cup
                {[config |-> cmd.config, tree |-> cmd.tree, binary |-> env.binary, version |-> cmd.version,
                  dir |-> cmd.dir, answers |-> answers, qualified |-> AllSucceed(answers)]}
    /\ Done
    /\ UNCHANGED <<world, replays, canary, plan, decisions, receipts, faults, earned, asked>>

\* Mutant: the live report is believed.
Rederived_Trusted(l) == l.version = canary[l.dir].version /\ l.binary = env.binary

\* _verify_harness_live_plan_evidence: the private plan says what the report says.
Rederived(l) ==
    /\ l.version = canary[l.dir].version
    /\ l.binary = env.binary
    /\ l.answers = canary[l.dir].answers

\* _build_harness_authorization_payload.
Qualified(r, l, tree) ==
    /\ r \in replays /\ l \in lives
    /\ r.config = env.config /\ l.config = env.config
    /\ r.qualified /\ Replayed
    /\ l.qualified /\ AllSucceed(l.answers)
    /\ l.tree = tree
    /\ Rederived(l)

\* require_harness_live_execution_matches.
SameExecution(l, version) == l.binary = env.binary /\ l.version = version

(***************************************************************************)
(* gate-b-teacher-plan, gate-b-teacher-v2-plan                             *)
(***************************************************************************)
Fresh(p) == plan[p].scope = None

ExactPilot(p) == plan[p].scope = "pilot" /\ plan[p].data = env.data

\* 80 percent of the rows are accepted at the first attempt of their chunks.
FirstGood(p) == plan[p].first = "good"

AuditPassed(p) == plan[p].audit = "passed"

\* _verified_payload: every pilot gate, recomputed.
PilotPassed(p) ==
    /\ ExactPilot(p)
    /\ plan[p].done /\ plan[p].bank
    /\ FirstGood(p)
    /\ AuditPassed(p)

\* What the receipt of a pilot binds: the config files and the data contract.
Bound(p) == [config |-> env.config, data |-> env.data, pilot |-> p]

\* verify_teacher_pilot_authorization.
Verified(receipt) ==
    /\ receipt \in receipts
    /\ receipt = Bound(receipt.pilot)
    /\ PilotPassed(receipt.pilot)

\* The receipt is required of a complete plan and refused for a pilot.
Piloted(scope, receipt) ==
    IF scope = "full" THEN receipt # None /\ Verified(receipt) ELSE receipt = None

\* Mutant: a complete plan needs no receipt.
StartPlan_Unpiloted(p, scope) ==
    /\ Ready
    /\ scope \in {"pilot", "full"}
    /\ Fresh(p)
    /\ \E r \in replays, l \in lives :
          /\ Qualified(r, l, env.tree)
          /\ SameExecution(l, Installed)
          /\ cmd' = [at |-> "plan", dir |-> p, scope |-> scope, version |-> Installed,
                     data |-> env.data, receipt |-> None, harness |-> [replay |-> r, live |-> l]]
    /\ UNCHANGED <<world, reports, plan, decisions, receipts, faults, earned, asked>>

\* A complete plan needs the receipt; every gated plan the harness evidence.
StartPlan(p, scope) ==
    /\ Ready
    /\ scope \in {"pilot", "full"}
    /\ Fresh(p)
    /\ \E r \in replays, l \in lives, receipt \in receipts \cup {None} :
          /\ Qualified(r, l, env.tree)
          /\ SameExecution(l, Installed)
          /\ Piloted(scope, receipt)
          /\ cmd' = [at |-> "plan", dir |-> p, scope |-> scope, version |-> Installed,
                     data |-> env.data, receipt |-> receipt, harness |-> [replay |-> r, live |-> l]]
    /\ UNCHANGED <<world, reports, plan, decisions, receipts, faults, earned, asked>>

\* A positive probe decision that follows again from its comparison.
Decided == env.data \in decisions

\* The remaining development rows: a positive probe decision, no harness.
StartRestPlan(p) ==
    /\ Ready
    /\ Fresh(p)
    /\ Decided
    /\ cmd' = [at |-> "plan", dir |-> p, scope |-> "rest", version |-> Installed,
               data |-> env.data, receipt |-> None, harness |-> None]
    /\ UNCHANGED <<world, reports, plan, decisions, receipts, faults, earned, asked>>

MakePlan ==
    /\ cmd.at = "plan"
    /\ plan' = [plan EXCEPT ![cmd.dir] =
                   [NoPlan EXCEPT !.scope = cmd.scope, !.version = cmd.version, !.data = cmd.data]]
    /\ cmd' = [cmd EXCEPT !.at = CASE cmd.scope = "full" -> "write_v1"
                                   [] cmd.scope = "rest" -> "write_v2"
                                   [] OTHER -> "write_harness"]
    /\ UNCHANGED <<world, reports, decisions, receipts, faults, earned, asked>>

WriteV1Sidecar ==
    /\ cmd.at = "write_v1"
    /\ plan' = [plan EXCEPT ![cmd.dir].receipt = cmd.receipt]
    /\ cmd' = [cmd EXCEPT !.at = "write_harness"]
    /\ UNCHANGED <<world, reports, decisions, receipts, faults, earned, asked>>

WriteV2Sidecar ==
    /\ cmd.at = "write_v2"
    /\ plan' = [plan EXCEPT ![cmd.dir].decided = TRUE]
    /\ Done
    /\ UNCHANGED <<world, reports, decisions, receipts, faults, earned, asked>>

\* The evidence is verified again, under the manifest read at the start.
WriteHarnessSidecar ==
    /\ cmd.at = "write_harness"
    /\ LET h == cmd.harness IN
          \/ /\ Qualified(h.replay, h.live, h.live.tree)
             /\ SameExecution(h.live, cmd.version)
             /\ plan' = [plan EXCEPT ![cmd.dir].harness = h]
          \/ /\ ~(Qualified(h.replay, h.live, h.live.tree) /\ SameExecution(h.live, cmd.version))
             /\ UNCHANGED plan
    /\ Done
    /\ UNCHANGED <<world, reports, decisions, receipts, faults, earned, asked>>

(***************************************************************************)
(* What later commands check, and what they do                             *)
(***************************************************************************)
\* Mutant: any qualified evidence will do.
Recheck_AnyEvidence(p, r, l) ==
    /\ plan[p].harness # None
    /\ Qualified(r, l, env.tree)
    /\ SameExecution(l, plan[p].version)

\* verify_harness_authorization: the sidecar is what the named evidence gives now.
Recheck(p, r, l) ==
    /\ plan[p].harness = [replay |-> r, live |-> l]
    /\ Qualified(r, l, env.tree)
    /\ SameExecution(l, plan[p].version)

\* _require_teacher_v2_authorization.
RecheckRest(p) ==
    /\ plan[p].decided
    /\ plan[p].data = env.data
    /\ Decided

\* The canaries on whose report the command may go on; None where no gate is asked for.
Passing(p) ==
    CASE plan[p].scope \in {"pilot", "full"} -> {l \in lives : \E r \in replays : Recheck(p, r, l)}
      [] plan[p].scope = "rest" /\ RecheckRest(p) -> {None}
      [] OTHER -> {}

\* The command line client that is installed is the one the plan names.
CurrentCodex(p) == plan[p].version = Installed

StartAsking(p) ==
    /\ Ready
    /\ CurrentCodex(p)
    /\ \E l \in Passing(p) :
          cmd' = [at |-> "run", dir |-> p, tree |-> env.tree, live |-> l, replaced |-> FALSE]
    /\ UNCHANGED <<world, reports, plan, decisions, receipts, faults, earned, asked>>

\* What a question is sent under: the process goes on with the tree it was
\* loaded from, but each call executes whatever is installed by then, since
\* only the path of the executable is compared.
Sent == [tree |-> cmd.tree, live |-> cmd.live, binary |-> env.binary, replaced |-> cmd.replaced]

\* A question is sent.  The first pass is good at 80 percent; all may be accepted.
Ask ==
    /\ cmd.at = "run"
    /\ LET p == cmd.dir IN
          /\ ~plan[p].done
          /\ \E first \in IF plan[p].first = None THEN {"poor", "good"} ELSE {plan[p].first},
                all \in BOOLEAN :
                /\ plan[p].first = None /\ all => first = "good"
                /\ plan' = [plan EXCEPT ![p].first = first, ![p].done = all]
          /\ asked' = [asked EXCEPT ![p] = @ \cup {Sent}]
    /\ UNCHANGED <<world, reports, decisions, receipts, cmd, faults, earned>>

EndRun ==
    /\ cmd.at = "run"
    /\ Done
    /\ UNCHANGED <<world, reports, plan, decisions, receipts, faults, earned, asked>>

Finalize(p) ==
    /\ Ready
    /\ Passing(p) # {}
    /\ plan[p].data = env.data
    /\ plan[p].done
    /\ plan' = [plan EXCEPT ![p].bank = TRUE]
    /\ UNCHANGED <<world, reports, decisions, receipts, cmd, faults, earned, asked>>

\* The audit of the bank, as AuditVerdict has it: one verdict, once.
Audit(p) ==
    /\ Ready
    /\ plan[p].scope = "pilot" /\ Passing(p) # {}
    /\ plan[p].bank /\ plan[p].audit = None
    /\ \E verdict \in {"passed", "failed"} : plan' = [plan EXCEPT ![p].audit = verdict]
    /\ UNCHANGED <<world, reports, decisions, receipts, cmd, faults, earned, asked>>

\* gate-b-teacher-pilot-authorize.
Authorize(p) ==
    /\ Ready
    /\ Passing(p) # {}
    /\ PilotPassed(p)
    /\ receipts' = receipts \cup {Bound(p)}
    /\ UNCHANGED <<world, reports, plan, decisions, cmd, faults, earned, asked>>

(***************************************************************************)
(* The environment                                                         *)
(***************************************************************************)
\* Somebody edits the config or the source, upgrades Codex or changes the data.
Drift ==
    /\ drifts < MaxDrift
    /\ drifts' = drifts + 1
    /\ \/ \E c \in Config \ {env.config} : env' = [env EXCEPT !.config = c]
       \/ \E t \in Tree \ {env.tree} : env' = [env EXCEPT !.tree = t]
       \/ \E b \in Binary \ {env.binary} : env' = [env EXCEPT !.binary = b]
       \/ \E d \in Data \ {env.data} : env' = [env EXCEPT !.data = d]
    /\ cmd' = IF cmd.at = "run" /\ env'.binary # env.binary THEN [cmd EXCEPT !.replaced = TRUE] ELSE cmd
    /\ UNCHANGED <<reports, plan, decisions, receipts, faults, earned, asked>>

\* A candidate probe on the present data contract came out positive.
Decide ==
    /\ env.data \notin decisions
    /\ decisions' = decisions \cup {env.data}
    /\ UNCHANGED <<world, reports, plan, receipts, cmd, faults, earned, asked>>

\* A report that says the best of a canary appears: edited, or from elsewhere.
Edit ==
    /\ \E d \in CanaryDir :
          /\ canary[d].version # None
          /\ replays' = replays \cup {[config |-> env.config, qualified |-> TRUE]}
          /\ lives' = lives \cup
                {[config |-> env.config, tree |-> env.tree, binary |-> env.binary,
                  version |-> canary[d].version, dir |-> d,
                  answers |-> [i \in 1..CanaryChunks |-> "success"], qualified |-> TRUE]}
    /\ UNCHANGED <<canary, cmd>>

\* An attempt of a private canary plan is lost.
Damage ==
    /\ \E d \in CanaryDir :
          /\ Len(canary[d].answers) > 0
          /\ canary' = [canary EXCEPT ![d].answers = SubSeq(@, 1, Len(@) - 1)]
    /\ cmd.at # "canary_call"
    /\ UNCHANGED <<replays, lives, cmd>>

Kill ==
    /\ ~Ready
    /\ Done
    /\ UNCHANGED reports

Fault ==
    /\ faults < MaxFaults
    /\ faults' = faults + 1
    /\ Edit \/ Damage \/ Kill
    /\ UNCHANGED <<world, plan, decisions, receipts, earned, asked>>

Canary == (\E d \in CanaryDir : StartCanary(d)) \/ MakeCanary \/ CallCanary \/ ReportCanary

Planning ==
    \/ \E p \in PlanDir : StartRestPlan(p) \/ \E scope \in Scope : StartPlan(p, scope)
    \/ MakePlan \/ WriteV1Sidecar \/ WriteV2Sidecar \/ WriteHarnessSidecar

Working ==
    \/ \E p \in PlanDir : StartAsking(p) \/ Finalize(p) \/ Audit(p) \/ Authorize(p)
    \/ Ask \/ EndRun

GateNext == RunReplay \/ Canary \/ Planning \/ Working \/ Drift \/ Decide \/ Fault

GateSpec == GateInit /\ [][GateNext]_gateVars

(***************************************************************************)
(* Properties                                                              *)
(***************************************************************************)
\* Reports, plans, receipts and decisions are of their kind, and a plan names
\* only reports and receipts that exist.
GateTypeOK ==
    /\ env \in Environment
    /\ replays \subseteq Replay
    /\ \A d \in CanaryDir :
          /\ canary[d].version \in Version \cup {None}
          /\ Len(canary[d].answers) \in 0..CanaryChunks
    /\ lives \subseteq Live
    /\ \A p \in PlanDir :
          /\ plan[p].scope \in Scope \cup {None}
          /\ plan[p].receipt \in receipts \cup {None}
          /\ plan[p].harness # None => plan[p].harness.live \in lives /\ plan[p].harness.replay \in replays
    /\ decisions \subseteq Data
    /\ receipts \subseteq Receipt
    /\ drifts \in 0..MaxDrift
    /\ faults \in 0..MaxFaults

Gated(p) == plan[p].scope \in {"pilot", "full"}

\* A gated profile sends questions only on the strength of a canary whose every
\* call was really made and succeeded, whatever the reports on disk say.
AskedOnEarnedCanary ==
    \A p \in PlanDir : Gated(p) =>
        \A e \in asked[p] :
            /\ e.live # None
            /\ Len(earned[e.live.dir]) = CanaryChunks
            /\ \A i \in 1..CanaryChunks : earned[e.live.dir][i].answer = "success"

\* All questions of a gated plan are sent on the report of one canary and under
\* the source tree of that report, however often its run is taken up again, and
\* every run starts with the executable of that report: a question reaches
\* another one only if it was put in its place during that very run, which the
\* calls do not look for.
OneEvidencePerPlan ==
    \A p \in PlanDir : Gated(p) =>
        \A e, f \in asked[p] :
            /\ e.live = f.live
            /\ e.tree = e.live.tree
            /\ e.binary # e.live.binary => e.replaced

\* The complete bank is only ever asked for after a pilot: its receipt names a
\* pilot ledger that is complete, was good at the first pass, is published and
\* has passed its audit.
FullFollowsPilot ==
    \A p \in PlanDir : plan[p].scope = "full" /\ asked[p] # {} =>
        /\ plan[p].receipt # None
        /\ LET pilot == plan[plan[p].receipt.pilot] IN
              /\ pilot.scope = "pilot" /\ pilot.data = plan[p].data
              /\ pilot.first = "good" /\ pilot.done /\ pilot.bank /\ pilot.audit = "passed"
              /\ asked[plan[p].receipt.pilot] # {}
=============================================================================
