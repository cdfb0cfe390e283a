---------------------------- MODULE HoldoutClaim ----------------------------
(***************************************************************************)
(* The one evaluation the locked holdout permits:                          *)
(* evaluate_locked_holdout_once (gate_b_holdout.py) and the claim and      *)
(* receipt of authorize_locked_holdout_once (gate_b_selection.py).         *)
(* Any number of calls may be made, at the same time or after failures;    *)
(* each names a freeze artifact, brings its backends and an output path.   *)
(* A freeze is published under a new name, but anybody may remove its file *)
(* or put another freeze there, and a call opens it five times: once       *)
(* before the claim to check what it was given, then to parse and to hash  *)
(* what it claims, and behind the receipt to parse and to hash it again.   *)
(* The claim, the receipt and the outputs are files published with a hard  *)
(* link to a new name, and nobody replaces them.  A SHA-256 is modelled by *)
(* the content it is taken of.                                             *)
(***************************************************************************)
EXTENDS Naturals

CONSTANTS
    Call,      \* calls of gate-b-locked-holdout-evaluate, each in its process
    Freeze,    \* contents of freeze artifacts
    FreezePath,  \* where freeze artifacts are
    Method,    \* what a label may stand for
    Checkpoint,
    Path,      \* output paths
    Records,   \* eligible holdout records
    MaxSwaps,  \* bound on replaced freeze files
    None       \* no file, no fallback

Methods == [primary : Method, fallback : Method \cup {None}]

CONSTANTS
    Frozen,          \* the methods each freeze froze
    CheckpointOf     \* the checkpoint of a method

ASSUME FrozenAssumption ==
    /\ Frozen \in [Freeze -> Methods]
    /\ CheckpointOf \in [Method -> Checkpoint]
    /\ MaxSwaps \in Nat
ASSUME NoneAssumption == None \notin Freeze \cup Method \cup Checkpoint

VARIABLES
    file,       \* the freeze under each path, or None
    claim,      \* the freeze named by the claim file of this split
    receipt,    \* what its receipt says: the freeze, its path and its methods
    output,     \* the published result under each path
    pc,         \* where each call is
    arg,        \* what each call was started with
    methods,    \* the methods each call checked its backends against
    parsed,     \* the freeze each call has parsed last
    digest,     \* the freeze each call has hashed for its claim
    todo,       \* records each call has yet to generate an answer for
    invalid,    \* records whose primary answer did not parse
    rescued,    \* those of them whose fallback answer parsed
    opened,     \* history: calls that loaded the holdout records
    swaps,      \* freeze files replaced so far
    torn        \* history: calls whose freeze was replaced between two of their
                \* readings, and before which of them

vars == <<file, claim, receipt, output, pc, arg, methods, parsed, digest, todo, invalid, rescued,
          opened, swaps, torn>>
freezes == <<file, swaps, torn>>
readings == <<methods, parsed, digest>>
generation == <<todo, invalid, rescued, opened>>

\* Between the claim and the loading of the records.
Claimed == {"receipt", "validate", "rehash", "load"}
Generating == {"primary", "fallback", "publish"}
Labels == Claimed \cup Generating \cup {"idle", "static", "authorize", "hash", "claim", "stopped", "done"}

\* A reading at one of these must be of the file an earlier one was of.
Rereading == {"authorize", "hash", "rehash"}

Backends == [primary : Checkpoint, fallback : Checkpoint \cup {None}]
Arg == [freeze : FreezePath, backends : Backends, path : Path]
Receipt == [freeze : Freeze, path : FreezePath, methods : Methods]
Result == [freeze : Freeze, invalid : SUBSET Records, rescued : SUBSET Records]

ASSUME ResultAssumption == None \notin Result \cup Receipt \cup Methods

TypeOK ==
    /\ file \in [FreezePath -> Freeze \cup {None}]
    /\ claim \in Freeze \cup {None}
    /\ receipt \in Receipt \cup {None}
    /\ output \in [Path -> Result \cup {None}]
    /\ pc \in [Call -> Labels]
    /\ arg \in [Call -> Arg]
    /\ methods \in [Call -> Methods \cup {None}]
    /\ parsed \in [Call -> Freeze \cup {None}]
    /\ digest \in [Call -> Freeze \cup {None}]
    /\ todo \in [Call -> SUBSET Records]
    /\ invalid \in [Call -> SUBSET Records]
    /\ rescued \in [Call -> SUBSET Records]
    /\ opened \subseteq Call
    /\ swaps \in 0..MaxSwaps
    /\ torn \subseteq Call \X Rereading

Init ==
    /\ file \in [FreezePath -> Freeze]
    /\ claim = None
    /\ receipt = None
    /\ output = [f \in Path |-> None]
    /\ pc = [p \in Call |-> "idle"]
    /\ arg \in [Call -> Arg]
    /\ methods = [p \in Call |-> None]
    /\ parsed = [p \in Call |-> None]
    /\ digest = [p \in Call |-> None]
    /\ todo = [p \in Call |-> {}]
    /\ invalid = [p \in Call |-> {}]
    /\ rescued = [p \in Call |-> {}]
    /\ opened = {}
    /\ swaps = 0
    /\ torn = {}

Goto(p, label) == pc' = [pc EXCEPT ![p] = label]

\* What is in the freeze file that a call was started with.
Here(p) == file[arg[p].freeze]

(***************************************************************************)
(* Before the claim                                                        *)
(***************************************************************************)
Start(p) ==
    /\ pc[p] = "idle"
    /\ Goto(p, "static")
    /\ UNCHANGED <<freezes, claim, receipt, output, arg, readings, generation>>

\* validate_frozen_selection_methods and _require_backend_checkpoint: of a method,
\* a backend only knows its checkpoint.
BackendsMatch(backends, frozen) ==
    /\ backends.primary = CheckpointOf[frozen.primary]
    /\ backends.fallback = IF frozen.fallback = None THEN None ELSE CheckpointOf[frozen.fallback]

\* Everything that can fail for a static reason fails here.
StaticOK(p) == output[arg[p].path] = None /\ Here(p) # None /\ BackendsMatch(arg[p].backends, Frozen[Here(p)])

CheckStatic(p) ==
    /\ pc[p] = "static"
    /\ \/ StaticOK(p) /\ methods' = [methods EXCEPT ![p] = Frozen[Here(p)]] /\ Goto(p, "authorize")
       \/ ~StaticOK(p) /\ Goto(p, "stopped") /\ UNCHANGED methods
    /\ UNCHANGED <<freezes, claim, receipt, output, arg, parsed, digest, generation>>

\* authorize_locked_holdout_once and, behind the receipt, validate_locked_holdout_access:
\* the freeze is parsed, then its file is opened again for its digest.
Parse(p) ==
    /\ Here(p) # None
    /\ parsed' = [parsed EXCEPT ![p] = Here(p)]

Authorize(p) ==
    /\ pc[p] = "authorize"
    /\ \/ Parse(p) /\ Goto(p, "hash")
       \/ Here(p) = None /\ Goto(p, "stopped") /\ UNCHANGED parsed
    /\ UNCHANGED <<freezes, claim, receipt, output, arg, methods, digest, generation>>

HashFreeze(p) ==
    /\ pc[p] = "hash"
    /\ \/ Here(p) # None /\ receipt = None /\ digest' = [digest EXCEPT ![p] = Here(p)] /\ Goto(p, "claim")
       \/ (Here(p) = None \/ receipt # None) /\ Goto(p, "stopped") /\ UNCHANGED digest
    /\ UNCHANGED <<freezes, claim, receipt, output, arg, methods, parsed, generation>>

(***************************************************************************)
(* Claim and receipt                                                       *)
(***************************************************************************)
\* Mutant: an existing file is replaced.
NewName_Replace(existing) == TRUE

\* _write_hashed_json_noreplace: a hard link fails on an existing name.
NewName(existing) == existing = None

LinkClaim(p) ==
    /\ pc[p] = "claim"
    /\ claim' = IF NewName(claim) THEN digest[p] ELSE claim
    /\ Goto(p, IF NewName(claim) THEN "receipt" ELSE "stopped")
    /\ UNCHANGED <<freezes, receipt, output, arg, readings, generation>>

\* The receipt copies the methods of the freeze that was parsed.
ReceiptOf(p) == [freeze |-> digest[p], path |-> arg[p].freeze, methods |-> Frozen[parsed[p]]]

LinkReceipt(p) ==
    /\ pc[p] = "receipt"
    /\ receipt' = IF NewName(receipt) THEN ReceiptOf(p) ELSE receipt
    /\ Goto(p, IF NewName(receipt) THEN "validate" ELSE "stopped")
    /\ UNCHANGED <<freezes, claim, output, arg, readings, generation>>

ParseAgain(p) ==
    /\ pc[p] = "validate"
    /\ \/ Parse(p) /\ Goto(p, "rehash")
       \/ Here(p) = None /\ Goto(p, "stopped") /\ UNCHANGED parsed
    /\ UNCHANGED <<freezes, claim, receipt, output, arg, methods, digest, generation>>

\* validate_locked_holdout_access: receipt and claim are of the file that is there,
\* and the receipt has the methods that were parsed again.
AccessValid(p) ==
    /\ Here(p) # None
    /\ receipt.freeze = Here(p) /\ receipt.path = arg[p].freeze
    /\ claim = Here(p)
    /\ receipt.methods = Frozen[parsed[p]]

\* Mutant: "receipt/freeze validation already proves this".
PolicyKept_Trusted(p) == TRUE

\* evaluate_locked_holdout_once: they are the methods the backends were checked against.
PolicyKept(p) == Frozen[parsed[p]] = methods[p]

ValidateAccess(p) ==
    /\ pc[p] = "rehash"
    /\ Goto(p, IF AccessValid(p) /\ PolicyKept(p) THEN "load" ELSE "stopped")
    /\ UNCHANGED <<freezes, claim, receipt, output, arg, readings, generation>>

(***************************************************************************)
(* Evaluation                                                              *)
(***************************************************************************)
LoadRecords(p) ==
    /\ pc[p] = "load"
    /\ opened' = opened \cup {p}
    /\ todo' = [todo EXCEPT ![p] = Records]
    /\ Goto(p, "primary")
    /\ UNCHANGED <<freezes, claim, receipt, output, arg, readings, invalid, rescued>>

GeneratePrimary(p) ==
    /\ pc[p] = "primary"
    /\ \E r \in todo[p] :
          /\ todo' = [todo EXCEPT ![p] = @ \ {r}]
          /\ \/ UNCHANGED invalid
             \/ invalid' = [invalid EXCEPT ![p] = @ \cup {r}]
    /\ UNCHANGED <<freezes, claim, receipt, output, pc, arg, readings, rescued, opened>>

\* Mutant: the fallback answers every record again.
FallbackTodo_All(p) == Records

FallbackTodo(p) == invalid[p]

\* The primary backend is closed before the fallback generates anything.
FinishPrimary(p) ==
    /\ pc[p] = "primary"
    /\ todo[p] = {}
    /\ \/ /\ invalid[p] # {} /\ methods[p].fallback # None
          /\ todo' = [todo EXCEPT ![p] = FallbackTodo(p)]
          /\ Goto(p, "fallback")
       \/ /\ invalid[p] = {} \/ methods[p].fallback = None
          /\ Goto(p, "publish")
          /\ UNCHANGED todo
    /\ UNCHANGED <<freezes, claim, receipt, output, arg, readings, invalid, rescued, opened>>

GenerateFallback(p) ==
    /\ pc[p] = "fallback"
    /\ \E r \in todo[p] :
          /\ todo' = [todo EXCEPT ![p] = @ \ {r}]
          /\ \/ UNCHANGED rescued
             \/ rescued' = [rescued EXCEPT ![p] = @ \cup {r}]
    /\ UNCHANGED <<freezes, claim, receipt, output, pc, arg, readings, invalid, opened>>

FinishFallback(p) ==
    /\ pc[p] = "fallback"
    /\ todo[p] = {}
    /\ Goto(p, "publish")
    /\ UNCHANGED <<freezes, claim, receipt, output, arg, readings, generation>>

ResultOf(p) == [freeze |-> digest[p], invalid |-> invalid[p], rescued |-> rescued[p]]

Publish(p) ==
    /\ pc[p] = "publish"
    /\ output' = [output EXCEPT ![arg[p].path] = IF NewName(@) THEN ResultOf(p) ELSE @]
    /\ Goto(p, IF NewName(output[arg[p].path]) THEN "done" ELSE "stopped")
    /\ UNCHANGED <<freezes, claim, receipt, arg, readings, generation>>

\* The bug of a call that takes its claim back when it fails.
Stop_Releases(p) ==
    /\ pc[p] \notin {"idle", "done", "stopped"}
    /\ claim' = IF pc[p] \in Claimed THEN None ELSE claim
    /\ Goto(p, "stopped")
    /\ UNCHANGED <<freezes, receipt, output, arg, readings, generation>>

\* An exception (a loader, a backend, a full disk) or a kill: nothing is undone.
Stop(p) ==
    /\ pc[p] \notin {"idle", "stopped", "done"}
    /\ Goto(p, "stopped")
    /\ UNCHANGED <<freezes, claim, receipt, output, arg, readings, generation>>

\* Somebody removes the freeze under a path or puts another one there.
ReplaceFreeze ==
    /\ swaps < MaxSwaps
    /\ swaps' = swaps + 1
    /\ \E f \in FreezePath, content \in Freeze \cup {None} :
          /\ content # file[f]
          /\ file' = [file EXCEPT ![f] = content]
          /\ torn' = torn \cup {<<p, pc[p]>> : p \in {q \in Call : arg[q].freeze = f /\ pc[q] \in Rereading}}
    /\ UNCHANGED <<claim, receipt, output, pc, arg, readings, generation>>

Gate(p) ==
    \/ CheckStatic(p) \/ Authorize(p) \/ HashFreeze(p)
    \/ LinkClaim(p) \/ LinkReceipt(p) \/ ParseAgain(p) \/ ValidateAccess(p)

Evaluate(p) ==
    \/ LoadRecords(p) \/ GeneratePrimary(p) \/ FinishPrimary(p)
    \/ GenerateFallback(p) \/ FinishFallback(p) \/ Publish(p)

Next == ReplaceFreeze \/ \E p \in Call : Start(p) \/ Gate(p) \/ Evaluate(p) \/ Stop(p)

Spec == Init /\ [][Next]_vars

(***************************************************************************)
(* Properties                                                              *)
(***************************************************************************)
\* The holdout records are loaded by one call at most, whatever the calls,
\* their paths and freezes are and wherever they fail.
OpenedOnce ==
    \A p, q \in opened : p = q

\* Records are loaded only by a call whose backends are those of the methods that
\* the receipt names for the claimed freeze.  They are the methods that this freeze
\* froze, unless its file was replaced both times between parsing and hashing.
OpenedAsClaimed ==
    \A p \in opened :
        /\ receipt.freeze = claim /\ receipt.methods = methods[p]
        /\ BackendsMatch(arg[p].backends, methods[p])
        /\ {<<p, "hash">>, <<p, "rehash">>} \subseteq torn \/ Frozen[claim] = methods[p]

\* A claim is consumed by a call whose static inputs were right, and never by
\* one that had to fail before it (test_holdout_static_errors_do_not_consume_claim);
\* and for the freeze they were right for, unless its file was replaced since.
ClaimedByMatchingCall ==
    claim # None =>
        \E p \in Call :
            /\ digest[p] = claim /\ methods[p] # None /\ BackendsMatch(arg[p].backends, methods[p])
            /\ <<p, "authorize">> \in torn \/ <<p, "hash">> \in torn \/ Frozen[claim] = methods[p]

\* The claim binds: what is claimed and what is then opened are the methods of a
\* call that passed its static checks, although the freeze is opened five times
\* and may be another one each time.
ClaimBinds == ClaimedByMatchingCall /\ OpenedAsClaimed

\* A claim whose call stopped before the records were loaded stays consumed:
\* no later call ever takes it up.
Abandoned ==
    claim # None /\ opened = {} /\ \A p \in Call : pc[p] \notin Claimed

FailureConsumesClaim == [][Abandoned => Abandoned']_vars

\* At most one result is published, and for the claimed freeze; a fallback answer
\* replaces a primary one only where the primary did not parse.
ResultFollowsPolicy ==
    \A f \in Path : output[f] # None =>
        /\ output[f].freeze = claim
        /\ output[f].rescued \subseteq output[f].invalid
        /\ \A g \in Path : output[g] # None => f = g

\* How far the one evaluation is: a claim is pursued by a call behind it, an
\* opened holdout by the call that generates.
Pursued(labels) == \E p \in Call : pc[p] \in labels
Results == {output[f] : f \in Path} \ {None}
Stage ==
    CASE claim = None -> "closed"
      [] claim # None /\ Results # {} -> "published"
      [] claim # None /\ Results = {} /\ opened = {} /\ Pursued(Claimed) -> "claimed"
      [] claim # None /\ Results = {} /\ opened # {} /\ Pursued(Generating) -> "open"
      [] OTHER -> "lost"

Shot == INSTANCE OneShot WITH Nothing <- None, stage <- Stage, used <- claim, results <- Results

\* Whatever calls there are, concurrent ones and those that stop anywhere
\* included, together they are one evaluation: claimed, opened and published
\* once each, and lost for good when the call that has it stops.
RefinesOneShot == Shot!Spec

(***************************************************************************)
(* The inductive invariant                                                 *)
(***************************************************************************)
\* A call goes on with the methods its backends were checked against.
Matched(p) == methods[p] \in Methods /\ BackendsMatch(arg[p].backends, methods[p])

\* What was hashed is what was parsed, and what the backends were checked against,
\* but for what was replaced in between.
Torn(p, place) == <<p, place>> \in torn
ReadAsChecked(p, content) == Frozen[content] = methods[p] \/ Torn(p, "authorize")

\* What a call at each place has read, and what it relies on.
ReadingInv(p) ==
    /\ pc[p] \notin {"idle", "static", "stopped"} => Matched(p)
    /\ pc[p] \in {"idle", "static", "authorize", "hash"} => digest[p] = None
    /\ pc[p] = "authorize" => Torn(p, "authorize") \/ (Here(p) \in Freeze /\ Frozen[Here(p)] = methods[p])
    /\ pc[p] \in {"hash", "claim", "receipt"} => parsed[p] \in Freeze /\ ReadAsChecked(p, parsed[p])
    /\ pc[p] = "hash" => Torn(p, "hash") \/ Here(p) = parsed[p]
    /\ pc[p] \in {"claim", "receipt"} => digest[p] \in Freeze /\ (Torn(p, "hash") \/ digest[p] = parsed[p])
    /\ pc[p] \in {"validate", "rehash", "load"} =>
          /\ receipt \in Receipt /\ receipt.freeze = claim
          /\ Torn(p, "hash") \/ Frozen[claim] = receipt.methods
    /\ pc[p] = "rehash" => parsed[p] \in Freeze /\ (Torn(p, "rehash") \/ Here(p) = parsed[p])
    /\ pc[p] = "load" => /\ receipt.methods = methods[p]
                         /\ Torn(p, "rehash") \/ Frozen[claim] = methods[p]

\* What the evaluation relies on.
CallInv(p) ==
    /\ pc[p] \in Claimed => opened = {} /\ claim # None /\ claim = digest[p]
    /\ pc[p] \in Generating => p \in opened
    /\ p \in opened => pc[p] \in Generating \cup {"stopped", "done"} /\ claim = digest[p]
    /\ pc[p] = "fallback" => todo[p] \subseteq invalid[p]
    /\ rescued[p] \subseteq invalid[p]
    /\ p \notin opened => invalid[p] = {} /\ rescued[p] = {}

\* A call that has the claim, and one that opened the records, are the same.
ClaimantInv ==
    /\ \A p, q \in Call : pc[p] \in Claimed /\ pc[q] \in Claimed => p = q
    /\ claim = None => receipt = None /\ opened = {}
    /\ ClaimedByMatchingCall

OutputInv ==
    \A f \in Path : output[f] # None =>
        /\ output[f].rescued \subseteq output[f].invalid
        /\ \E p \in opened : pc[p] = "done" /\ arg[p].path = f /\ output[f].freeze = claim

Inv ==
    /\ TypeOK
    /\ \A p \in Call : ReadingInv(p) /\ CallInv(p)
    /\ ClaimantInv
    /\ OpenedOnce
    /\ OpenedAsClaimed
    /\ OutputInv
=============================================================================
