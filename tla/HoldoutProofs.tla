---------------------------- MODULE HoldoutProofs ----------------------------
(***************************************************************************)
(* The holdout gate opens once: for any number of calls, freezes, paths    *)
(* and records.  Inv, which TLC checks on a small instance, is inductive;  *)
(* the properties follow from it, and that all calls are one OneShot.      *)
(*                                                                         *)
(* And the way to the freeze that it is opened with, for any number of     *)
(* folds, labels, runs and adapters and however often files are replaced:  *)
(*   - evidence is worth what it says: the rows whose digest it records    *)
(*     were valid, no run or adapter is counted twice, and every run of a  *)
(*     label is by one method, with an adapter trained without its fold;   *)
(*   - a freeze holds such evidence of every fold;                         *)
(*   - when it is published, and when the holdout is entered with it, the  *)
(*     files it goes by are as they were compared: what a command has      *)
(*     opened again goes on standing, or was replaced since it began, and  *)
(*     the list of what it must open visits all of them.                   *)
(* The two specifications share no variable: each theorem is about one.    *)
(***************************************************************************)
EXTENDS HoldoutClaim, SelectionFlow, SequenceTheorems, TLAPS

(***************************************************************************)
(* The holdout gate                                                        *)
(***************************************************************************)
\* Variables keep their types.
LEMMA TypeStep == Inv /\ [Next]_vars => TypeOK'
<1> SUFFICES ASSUME Inv, [Next]_vars PROVE TypeOK'
  OBVIOUS
<1>0. TypeOK
  BY DEF Inv
<1> USE <1>0
<1> USE FrozenAssumption, NoneAssumption DEF TypeOK, Labels, Claimed, Generating, Arg, freezes, readings, generation
<1>1. ASSUME NEW p \in Call, Start(p) \/ Gate(p) \/ Stop(p)
      PROVE  TypeOK'
  <2>1. Here(p) \in Freeze \cup {None} /\ (Here(p) # None => Frozen[Here(p)] \in Methods)
    BY DEF Here
  <2>2. CASE Start(p) \/ Stop(p) \/ ValidateAccess(p)
    BY <2>2 DEF Start, Stop, ValidateAccess, Goto
  <2>3. CASE CheckStatic(p)
    BY <2>1, <2>3 DEF CheckStatic, StaticOK, Goto
  <2>4. CASE Authorize(p) \/ ParseAgain(p)
    <3>1. parsed' \in [Call -> Freeze \cup {None}]
      BY <2>1, <2>4 DEF Authorize, ParseAgain, Parse
    <3>2. pc' \in [Call -> Labels]
      BY <2>4 DEF Authorize, ParseAgain, Goto
    <3> QED
      BY <2>4, <3>1, <3>2 DEF Authorize, ParseAgain
  <2>5. CASE HashFreeze(p)
    <3>1. digest' \in [Call -> Freeze \cup {None}]
      BY <2>1, <2>5 DEF HashFreeze
    <3>2. pc' \in [Call -> Labels]
      BY <2>5 DEF HashFreeze, Goto
    <3> QED
      BY <2>5, <3>1, <3>2 DEF HashFreeze
  <2>6. CASE LinkClaim(p)
    BY <2>6 DEF LinkClaim, Goto
  <2>7. CASE LinkReceipt(p)
    <3>1. digest[p] \in Freeze /\ parsed[p] \in Freeze
      BY <2>7 DEF LinkReceipt, Inv, ReadingInv
    <3>2. ReceiptOf(p) \in Receipt
      BY <3>1 DEF ReceiptOf, Receipt
    <3> QED
      BY <2>7, <3>2 DEF LinkReceipt, Goto
  <2> QED
    BY <1>1, <2>2, <2>3, <2>4, <2>5, <2>6, <2>7 DEF Gate
<1>2. ASSUME NEW p \in Call, Evaluate(p)
      PROVE  TypeOK'
  <2>1. CASE LoadRecords(p)
    BY <2>1 DEF LoadRecords, Goto
  <2>2. CASE GeneratePrimary(p)
    <3>1. PICK r \in todo[p] : /\ todo' = [todo EXCEPT ![p] = @ \ {r}]
                               /\ \/ invalid' = invalid
                                  \/ invalid' = [invalid EXCEPT ![p] = @ \cup {r}]
      BY <2>2 DEF GeneratePrimary
    <3>2. r \in Records
      OBVIOUS
    <3>3. todo' \in [Call -> SUBSET Records]
      BY <3>1
    <3>4. invalid' \in [Call -> SUBSET Records]
      <4>1. invalid[p] \cup {r} \in SUBSET Records
        BY <3>2
      <4> QED
        BY <3>1, <4>1
    <3>5. UNCHANGED <<freezes, claim, receipt, output, pc, arg, readings, rescued, opened>>
      BY <2>2 DEF GeneratePrimary
    <3> QED
      BY <3>3, <3>4, <3>5
  <2>3. CASE FinishPrimary(p)
    BY <2>3 DEF FinishPrimary, FallbackTodo, Goto
  <2>4. CASE GenerateFallback(p)
    <3>1. PICK r \in todo[p] : /\ todo' = [todo EXCEPT ![p] = @ \ {r}]
                               /\ \/ rescued' = rescued
                                  \/ rescued' = [rescued EXCEPT ![p] = @ \cup {r}]
      BY <2>4 DEF GenerateFallback
    <3>2. r \in Records
      OBVIOUS
    <3>3. todo' \in [Call -> SUBSET Records]
      BY <3>1
    <3>4. rescued' \in [Call -> SUBSET Records]
      <4>1. rescued[p] \cup {r} \in SUBSET Records
        BY <3>2
      <4> QED
        BY <3>1, <4>1
    <3>5. UNCHANGED <<freezes, claim, receipt, output, pc, arg, readings, invalid, opened>>
      BY <2>4 DEF GenerateFallback
    <3> QED
      BY <3>3, <3>4, <3>5
  <2>5. CASE FinishFallback(p)
    BY <2>5 DEF FinishFallback, Goto
  <2>6. CASE Publish(p)
    <3>0. digest[p] \in Freeze
      BY <2>6 DEF Publish, Inv, CallInv, ClaimantInv
    <3>1. ResultOf(p) \in Result
      BY <3>0 DEF ResultOf, Result
    <3> QED
      BY <2>6, <3>1 DEF Publish, Goto
  <2> QED
    BY <1>2, <2>1, <2>2, <2>3, <2>4, <2>5, <2>6 DEF Evaluate
<1>3. CASE ReplaceFreeze
  <2>1. PICK f \in FreezePath, content \in Freeze \cup {None} :
          /\ file' = [file EXCEPT ![f] = content]
          /\ torn' = torn \cup {<<p, pc[p]>> : p \in {q \in Call : arg[q].freeze = f /\ pc[q] \in Rereading}}
    BY <1>3 DEF ReplaceFreeze
  <2>2. torn' \subseteq Call \X Rereading
    BY <2>1
  <2>3. swaps' \in 0..MaxSwaps
    BY <1>3 DEF ReplaceFreeze
  <2>4. file' \in [FreezePath -> Freeze \cup {None}]
    BY <2>1
  <2> QED
    BY <1>3, <2>2, <2>3, <2>4 DEF ReplaceFreeze
<1>4. CASE UNCHANGED vars
  BY <1>4 DEF vars
<1> QED
  BY <1>1, <1>2, <1>3, <1>4 DEF Next

\* The inductive invariant holds initially.
LEMMA InvInit == Init => Inv
<1> SUFFICES ASSUME Init PROVE Inv
  OBVIOUS
<1> USE FrozenAssumption DEF Init, Labels, Claimed, Generating
<1>1. TypeOK
  BY DEF TypeOK
<1>2. \A p \in Call : CallInv(p) /\ ReadingInv(p)
  BY DEF CallInv, ReadingInv
<1>3. ClaimantInv
  BY DEF ClaimantInv, ClaimedByMatchingCall
<1>4. OpenedOnce /\ OpenedAsClaimed /\ OutputInv
  BY DEF OpenedOnce, OpenedAsClaimed, OutputInv
<1> QED
  BY <1>1, <1>2, <1>3, <1>4 DEF Inv

\* What a call has read stays as it is while nobody replaces a freeze.
LEMMA ReadingKept ==
    ASSUME NEW q \in Call, ReadingInv(q), UNCHANGED <<file, torn, arg>>, pc'[q] = pc[q],
           methods'[q] = methods[q], parsed'[q] = parsed[q], digest'[q] = digest[q],
           pc[q] \in {"validate", "rehash", "load"} => receipt' = receipt /\ claim' = claim
    PROVE  ReadingInv(q)'
BY DEF ReadingInv, Matched, ReadAsChecked, Torn, Here

\* A step of one call leaves what the others have read.
LEMMA OthersKept ==
    ASSUME Inv, NEW p \in Call, Start(p) \/ Gate(p) \/ Evaluate(p) \/ Stop(p)
    PROVE  /\ UNCHANGED <<file, torn, arg, swaps>>
           /\ \A q \in Call : q # p => /\ pc'[q] = pc[q] /\ methods'[q] = methods[q]
                                       /\ parsed'[q] = parsed[q] /\ digest'[q] = digest[q]
                                       /\ ReadingInv(q)'
<1> USE DEF freezes, readings, generation
<1>0. TypeOK
  BY DEF Inv
<1>1. /\ UNCHANGED <<file, torn, arg, swaps>>
      /\ \A q \in Call : q # p => /\ pc'[q] = pc[q] /\ methods'[q] = methods[q]
                                  /\ parsed'[q] = parsed[q] /\ digest'[q] = digest[q]
  <2>1. CASE Start(p) \/ Stop(p)
    BY <1>0, <2>1 DEF TypeOK, Start, Stop, Goto
  <2>2. CASE Gate(p)
    BY <1>0, <2>2 DEF TypeOK, Gate, CheckStatic, Authorize, HashFreeze, LinkClaim, LinkReceipt, ParseAgain,
       ValidateAccess, Parse, Goto
  <2>3. CASE Evaluate(p)
    BY <1>0, <2>3 DEF TypeOK, Evaluate, LoadRecords, GeneratePrimary, FinishPrimary, GenerateFallback,
       FinishFallback, Publish, Goto
  <2> QED
    BY <2>1, <2>2, <2>3
<1>2. /\ claim' # claim => claim = None
      /\ receipt' # receipt => pc[p] \in Claimed
  BY DEF Start, Stop, Gate, CheckStatic, Authorize, HashFreeze, LinkClaim, LinkReceipt, ParseAgain, ValidateAccess,
     Evaluate, LoadRecords, GeneratePrimary, FinishPrimary, GenerateFallback, FinishFallback, Publish, NewName, Claimed
<1>3. ASSUME NEW q \in Call, q # p
      PROVE  ReadingInv(q)'
  <2>1. pc[q] \in {"validate", "rehash", "load"} => receipt' = receipt /\ claim' = claim
    BY <1>2, <1>3 DEF Inv, CallInv, ClaimantInv, Claimed
  <2>2. ReadingInv(q)
    BY DEF Inv
  <2> QED
    BY <1>1, <1>3, <2>1, <2>2, ReadingKept
<1> QED
  BY <1>1, <1>3

\* A step of the gate: what the call has read itself.
LEMMA ReadingStep ==
    ASSUME Inv, TypeOK', NEW p \in Call, Start(p) \/ Gate(p) \/ Evaluate(p) \/ Stop(p)
    PROVE  ReadingInv(p)'
<1> USE FrozenAssumption, NoneAssumption DEF freezes, readings, generation, Matched, ReadAsChecked, Torn, Here
<1>0. TypeOK /\ ReadingInv(p) /\ CallInv(p) /\ arg' = arg /\ torn' = torn /\ file' = file /\ arg[p].freeze \in FreezePath
  BY OthersKept DEF Inv, TypeOK, Arg
<1>1. CASE Start(p) \/ Stop(p)
  BY <1>0, <1>1 DEF TypeOK, ReadingInv, Start, Stop, Goto
<1>2. CASE CheckStatic(p)
  BY <1>0, <1>2 DEF TypeOK, ReadingInv, CheckStatic, StaticOK, Goto
<1>3. CASE Authorize(p)
  BY <1>0, <1>3 DEF TypeOK, ReadingInv, Authorize, Parse, Goto
<1>4. CASE HashFreeze(p)
  BY <1>0, <1>4 DEF TypeOK, ReadingInv, HashFreeze, Goto
<1>5. CASE LinkClaim(p)
  BY <1>0, <1>5 DEF TypeOK, ReadingInv, LinkClaim, NewName, Goto
<1>6. CASE LinkReceipt(p)
  <2>1. pc[p] = "receipt" /\ digest[p] = claim /\ Matched(p)
    BY <1>0, <1>6 DEF LinkReceipt, CallInv, ReadingInv, Claimed
  <2>2. CASE receipt # None
    <3>1. pc'[p] = "stopped"
      BY <1>0, <1>6, <2>2 DEF LinkReceipt, NewName, Goto, TypeOK
    <3> QED
      BY <3>1 DEF ReadingInv
  <2>3. CASE receipt = None
    <3>1. pc'[p] = "validate" /\ receipt' = ReceiptOf(p) /\ UNCHANGED <<claim, methods, digest>>
      BY <1>0, <1>6, <2>3 DEF LinkReceipt, NewName, Goto, TypeOK
    <3>2. receipt' \in Receipt
      <4>1. digest[p] \in Freeze /\ parsed[p] \in Freeze
        BY <1>0, <2>1 DEF ReadingInv
      <4> QED
        BY <1>0, <3>1, <4>1 DEF ReceiptOf, Receipt
    <3>3. receipt'.freeze = digest[p] /\ receipt'.methods = Frozen[parsed[p]]
      BY <3>1 DEF ReceiptOf
    <3>4. Torn(p, "hash") \/ Frozen[claim] = receipt'.methods
      BY <1>0, <2>1, <3>3 DEF ReadingInv
    <3> QED
      BY <1>0, <2>1, <3>1, <3>2, <3>3, <3>4 DEF ReadingInv
  <2> QED
    BY <2>2, <2>3
<1>7. CASE ParseAgain(p)
  BY <1>0, <1>7 DEF TypeOK, ReadingInv, ParseAgain, Parse, Goto
<1>8. CASE ValidateAccess(p)
  BY <1>0, <1>8 DEF TypeOK, ReadingInv, ValidateAccess, AccessValid, PolicyKept, Goto
<1>9. CASE Evaluate(p)
  <2>1. pc[p] \in {"load"} \cup Generating /\ pc'[p] \in Generating \cup {"done", "stopped"}
    BY <1>0, <1>9 DEF TypeOK, Evaluate, LoadRecords, GeneratePrimary, FinishPrimary, GenerateFallback,
       FinishFallback, Publish, Goto, Generating
  <2>2. methods' = methods
    BY <1>9 DEF Evaluate, LoadRecords, GeneratePrimary, FinishPrimary, GenerateFallback, FinishFallback, Publish
  <2> QED
    BY <1>0, <2>1, <2>2 DEF ReadingInv, Generating
<1> QED
  BY <1>1, <1>2, <1>3, <1>4, <1>5, <1>6, <1>7, <1>8, <1>9 DEF Gate

\* A freeze that is replaced is torn between the readings of every call there.
LEMMA ReadingReplaced ==
    ASSUME Inv, ReplaceFreeze, NEW p \in Call
    PROVE  ReadingInv(p)'
<1> DEFINE at(f) == {q \in Call : arg[q].freeze = f /\ pc[q] \in Rereading}
<1>1. PICK f \in FreezePath, content \in Freeze \cup {None} :
        file' = [file EXCEPT ![f] = content] /\ torn' = torn \cup {<<q, pc[q]>> : q \in at(f)}
  BY DEF ReplaceFreeze
<1>2. UNCHANGED <<claim, receipt, pc, arg, methods, parsed, digest>>
  BY DEF ReplaceFreeze, readings
<1>3. TypeOK /\ ReadingInv(p) /\ arg[p].freeze \in FreezePath
  BY DEF Inv, TypeOK, Arg
<1>4. \A place : Torn(p, place) => Torn(p, place)'
  BY <1>1 DEF Torn
<1>5. Here(p)' = Here(p) \/ (pc[p] \in Rereading => Torn(p, pc[p])')
  <2>1. CASE arg[p].freeze # f
    BY <1>1, <1>2, <1>3, <2>1 DEF Here, TypeOK
  <2>2. CASE arg[p].freeze = f
    <3> SUFFICES ASSUME pc[p] \in Rereading PROVE <<p, pc'[p]>> \in torn'
      BY DEF Torn
    <3>1. p \in at(f)
      BY <2>2
    <3>2. <<p, pc[p]>> \in {<<q, pc[q]>> : q \in at(f)}
      BY <3>1
    <3> QED
      BY <1>1, <1>2, <3>2
  <2> QED
    BY <2>1, <2>2
<1> QED
  BY <1>2, <1>3, <1>4, <1>5 DEF ReadingInv, Matched, ReadAsChecked, Rereading

\* Every step, a replaced file, an exception or a kill included, preserves it.
LEMMA InvStep == Inv /\ [Next]_vars => Inv'
<1> SUFFICES ASSUME Inv, [Next]_vars PROVE Inv'
  OBVIOUS
<1>1. TypeOK /\ TypeOK'
  BY TypeStep DEF Inv
<1> USE <1>1, FrozenAssumption, NoneAssumption DEF Claimed, Generating, freezes, readings, generation
<1>2. \A q \in Call : ReadingInv(q)'
  <2>1. CASE ReplaceFreeze
    BY <2>1, ReadingReplaced
  <2>2. ASSUME NEW p \in Call, Start(p) \/ Gate(p) \/ Evaluate(p) \/ Stop(p)
        PROVE  \A q \in Call : ReadingInv(q)'
    BY <2>2, OthersKept, ReadingStep
  <2>3. CASE UNCHANGED vars
    BY <2>3 DEF vars, Inv, ReadingInv, Matched, ReadAsChecked, Torn, Here
  <2> QED
    BY <2>1, <2>2, <2>3 DEF Next
<1>3. ASSUME NEW p \in Call, Start(p) \/ CheckStatic(p) \/ Authorize(p) \/ HashFreeze(p) \/ Stop(p)
      PROVE  Inv'
  <2>1. /\ UNCHANGED <<claim, receipt, output, arg, torn, todo, invalid, rescued, opened>>
        /\ \A q \in Call : q # p => pc'[q] = pc[q] /\ methods'[q] = methods[q] /\ digest'[q] = digest[q]
        /\ pc'[p] \in {"static", "authorize", "hash", "claim", "stopped"}
        /\ pc[p] # "done"
        /\ p \in opened => pc'[p] = "stopped"
    BY <1>3, OthersKept DEF Inv, TypeOK, CallInv, Start, CheckStatic, Authorize, HashFreeze, Stop, Goto, Gate
  <2>2. p \in opened \/ digest[p] # None => methods'[p] = methods[p] /\ digest'[p] = digest[p]
    BY <1>3 DEF Inv, TypeOK, CallInv, ReadingInv, Start, CheckStatic, Authorize, HashFreeze, Stop
  <2>3. \A q \in Call : CallInv(q)'
    BY <2>1, <2>2 DEF Inv, TypeOK, CallInv
  <2>4. ClaimantInv'
    BY <2>1, <2>2 DEF Inv, TypeOK, ClaimantInv, ClaimedByMatchingCall
  <2>5. OpenedOnce' /\ OpenedAsClaimed' /\ OutputInv'
    BY <2>1, <2>2 DEF Inv, TypeOK, OpenedOnce, OpenedAsClaimed, OutputInv
  <2> QED
    BY <1>2, <2>3, <2>4, <2>5 DEF Inv
<1>4. ASSUME NEW p \in Call, LinkClaim(p)
      PROVE  Inv'
  <2>1. /\ UNCHANGED <<receipt, output, arg, torn, methods, digest, todo, invalid, rescued, opened>>
        /\ \A q \in Call : q # p => pc'[q] = pc[q]
        /\ pc[p] = "claim"
        /\ \/ claim = None /\ claim' = digest[p] /\ pc'[p] = "receipt"
           \/ claim # None /\ claim' = claim /\ pc'[p] = "stopped"
        /\ claim = None => receipt = None /\ opened = {} /\ \A q \in Call : pc[q] \notin Claimed
        /\ p \notin opened
    BY <1>4 DEF Inv, TypeOK, CallInv, LinkClaim, Goto, NewName, ClaimantInv
  <2>2. digest[p] \in Freeze /\ Matched(p) /\ (Torn(p, "authorize") \/ Torn(p, "hash") \/ Frozen[digest[p]] = methods[p])
    BY <2>1 DEF Inv, ReadingInv, ReadAsChecked
  <2>3. \A q \in Call : CallInv(q)'
    BY <2>1, <2>2 DEF Inv, TypeOK, CallInv
  <2>4. ClaimantInv'
    <3>1. CASE claim = None
      <4>1. methods[p] # None /\ claim' = digest[p] /\ claim' # None
        BY <2>1, <2>2, <3>1, ResultAssumption DEF Matched
      <4>2. ClaimedByMatchingCall'
        BY <2>1, <2>2, <4>1 DEF ClaimedByMatchingCall, Matched, Torn, BackendsMatch
      <4> QED
        BY <2>1, <3>1, <4>1, <4>2 DEF ClaimantInv
    <3>2. CASE claim # None
      BY <2>1, <3>2 DEF Inv, TypeOK, ClaimantInv, ClaimedByMatchingCall
    <3> QED
      BY <3>1, <3>2
  <2>5. OpenedOnce' /\ OpenedAsClaimed' /\ OutputInv'
    BY <2>1 DEF Inv, TypeOK, OpenedOnce, OpenedAsClaimed, OutputInv, ClaimantInv
  <2> QED
    BY <1>2, <2>3, <2>4, <2>5 DEF Inv
<1>5. ASSUME NEW p \in Call, LinkReceipt(p) \/ ParseAgain(p) \/ ValidateAccess(p)
      PROVE  Inv'
  <2>1. /\ UNCHANGED <<claim, output, arg, torn, methods, digest, todo, invalid, rescued, opened>>
        /\ \A q \in Call : q # p => pc'[q] = pc[q] /\ pc[q] \notin Claimed
        /\ pc[p] \in Claimed
        /\ pc'[p] \in {"validate", "rehash", "load", "stopped"}
        /\ opened = {}
        /\ claim # None
    BY <1>5 DEF Inv, TypeOK, CallInv, ClaimantInv, LinkReceipt, ParseAgain, ValidateAccess, Goto
  <2>2. \A q \in Call : CallInv(q)'
    BY <2>1 DEF Inv, TypeOK, CallInv
  <2>3. ClaimantInv'
    BY <2>1 DEF Inv, TypeOK, ClaimantInv, ClaimedByMatchingCall
  <2>4. OpenedOnce' /\ OpenedAsClaimed' /\ OutputInv'
    BY <2>1 DEF Inv, TypeOK, OpenedOnce, OpenedAsClaimed, OutputInv
  <2> QED
    BY <1>2, <2>2, <2>3, <2>4 DEF Inv
<1>6. ASSUME NEW p \in Call, LoadRecords(p)
      PROVE  Inv'
  <2>1. /\ UNCHANGED <<claim, receipt, output, arg, torn, methods, digest, invalid, rescued>>
        /\ \A q \in Call : q # p => pc'[q] = pc[q] /\ todo'[q] = todo[q] /\ pc[q] \notin Claimed
        /\ pc'[p] = "primary"
        /\ opened' = {p}
        /\ opened = {}
        /\ claim # None /\ claim = digest[p]
        /\ invalid[p] = {} /\ rescued[p] = {}
    BY <1>6 DEF Inv, TypeOK, CallInv, ClaimantInv, LoadRecords, Goto
  <2>2. /\ receipt.freeze = claim /\ receipt.methods = methods[p] /\ BackendsMatch(arg[p].backends, methods[p])
        /\ Torn(p, "rehash") \/ Frozen[claim] = methods[p]
        /\ Torn(p, "hash") \/ Frozen[claim] = methods[p]
    BY <1>6 DEF Inv, ReadingInv, Matched, LoadRecords
  <2>3. \A q \in Call : CallInv(q)'
    BY <2>1 DEF Inv, TypeOK, CallInv
  <2>4. ClaimantInv'
    BY <2>1 DEF Inv, TypeOK, ClaimantInv, ClaimedByMatchingCall
  <2>5. OpenedAsClaimed'
    BY <2>1, <2>2 DEF OpenedAsClaimed, Torn, BackendsMatch
  <2>6. OpenedOnce' /\ OutputInv'
    BY <2>1 DEF Inv, TypeOK, OpenedOnce, OutputInv
  <2> QED
    BY <1>2, <2>3, <2>4, <2>5, <2>6 DEF Inv
<1>7. ASSUME NEW p \in Call,
             \/ GeneratePrimary(p) \/ FinishPrimary(p)
             \/ GenerateFallback(p) \/ FinishFallback(p)
      PROVE  Inv'
  <2>1. /\ UNCHANGED <<claim, receipt, output, arg, torn, methods, digest, opened>>
        /\ \A q \in Call : q # p => /\ pc'[q] = pc[q] /\ todo'[q] = todo[q]
                                    /\ invalid'[q] = invalid[q] /\ rescued'[q] = rescued[q]
        /\ pc[p] \in Generating
        /\ pc'[p] \in Generating
        /\ p \in opened
    BY <1>7 DEF Inv, TypeOK, CallInv, GeneratePrimary, FinishPrimary, GenerateFallback,
       FinishFallback, Goto
  <2>2. rescued'[p] \subseteq invalid'[p] /\ (pc'[p] = "fallback" => todo'[p] \subseteq invalid'[p])
    BY <1>7 DEF Inv, TypeOK, CallInv, GeneratePrimary, FinishPrimary, GenerateFallback,
       FinishFallback, FallbackTodo, Goto
  <2>3. \A q \in Call : CallInv(q)'
    BY <2>1, <2>2 DEF Inv, TypeOK, CallInv
  <2>4. ClaimantInv'
    BY <2>1 DEF Inv, TypeOK, ClaimantInv, ClaimedByMatchingCall
  <2>5. OpenedOnce' /\ OpenedAsClaimed' /\ OutputInv'
    BY <2>1 DEF Inv, TypeOK, OpenedOnce, OpenedAsClaimed, OutputInv
  <2> QED
    BY <1>2, <2>3, <2>4, <2>5 DEF Inv
<1>8. ASSUME NEW p \in Call, Publish(p)
      PROVE  Inv'
  <2>1. /\ UNCHANGED <<claim, receipt, arg, torn, methods, digest, todo, invalid, rescued, opened>>
        /\ \A q \in Call : q # p => pc'[q] = pc[q]
        /\ pc'[p] \in {"done", "stopped"}
        /\ pc[p] = "publish"
        /\ p \in opened /\ claim = digest[p]
        /\ rescued[p] \subseteq invalid[p]
    BY <1>8 DEF Inv, TypeOK, CallInv, Publish, Goto
  <2>2. \A q \in Call : CallInv(q)'
    BY <2>1 DEF Inv, TypeOK, CallInv
  <2>3. ClaimantInv'
    BY <2>1 DEF Inv, TypeOK, ClaimantInv, ClaimedByMatchingCall
  <2>4. OpenedOnce' /\ OpenedAsClaimed'
    BY <2>1 DEF Inv, TypeOK, OpenedOnce, OpenedAsClaimed
  <2>5. \A f \in Path : output[f] = None
    BY <2>1 DEF Inv, OutputInv, OpenedOnce
  <2>6. OutputInv'
    <3>1. output' = [output EXCEPT ![arg[p].path] = ResultOf(p)] /\ pc'[p] = "done"
      BY <1>8, <2>5 DEF Publish, NewName, TypeOK, Arg, Goto
    <3>2. \A f \in Path : output'[f] # None => f = arg[p].path /\ output'[f] = ResultOf(p)
      BY <3>1, <2>5 DEF TypeOK
    <3> QED
      BY <3>1, <3>2, <2>1 DEF OutputInv, ResultOf
  <2> QED
    BY <1>2, <2>2, <2>3, <2>4, <2>6 DEF Inv
<1>9. CASE ReplaceFreeze
  <2>1. UNCHANGED <<claim, receipt, output, pc, arg, methods, digest, todo, invalid, rescued, opened>> /\ torn \subseteq torn'
    BY <1>9 DEF ReplaceFreeze
  <2>2. (\A q \in Call : CallInv(q)') /\ OpenedOnce' /\ OutputInv'
    BY <2>1 DEF Inv, CallInv, OpenedOnce, OutputInv
  <2>3. OpenedAsClaimed' /\ ClaimantInv'
    BY <2>1 DEF Inv, OpenedAsClaimed, ClaimantInv, ClaimedByMatchingCall
  <2> QED
    BY <1>2, <2>2, <2>3 DEF Inv
<1>10. CASE UNCHANGED vars
  <2>1. (\A q \in Call : CallInv(q)') /\ OpenedOnce' /\ OutputInv'
    BY <1>10 DEF vars, Inv, CallInv, OpenedOnce, OutputInv
  <2>2. OpenedAsClaimed' /\ ClaimantInv'
    BY <1>10 DEF vars, Inv, OpenedAsClaimed, ClaimantInv, ClaimedByMatchingCall
  <2> QED
    BY <1>2, <2>1, <2>2 DEF Inv
<1> QED
  BY <1>3, <1>4, <1>5, <1>6, <1>7, <1>8, <1>9, <1>10 DEF Next, Gate, Evaluate

\* The inductive invariant holds in every reachable state.
THEOREM Invariance == Spec => []Inv
  BY InvInit, InvStep, PTL DEF Spec

\* At most one call ever loads the holdout records.
THEOREM GateOpensOnce == Spec => []OpenedOnce
<1>1. Inv => OpenedOnce
  BY DEF Inv
<1> QED
  BY <1>1, Invariance, PTL

\* The call that loads them runs the methods claim and receipt name.
THEOREM OpenedByClaimant == Spec => []OpenedAsClaimed
<1>1. Inv => OpenedAsClaimed
  BY DEF Inv
<1> QED
  BY <1>1, Invariance, PTL

\* A claim is consumed only by a call that passed its static checks.
THEOREM ClaimedAfterChecks == Spec => []ClaimedByMatchingCall
<1>1. Inv => ClaimedByMatchingCall
  BY DEF Inv, ClaimantInv
<1> QED
  BY <1>1, Invariance, PTL

\* Claim, receipt and evaluation are those of one checked call.
THEOREM ClaimIsBinding == Spec => []ClaimBinds
BY ClaimedAfterChecks, OpenedByClaimant, PTL DEF ClaimBinds

\* The published result is the only one and follows the frozen routing policy.
THEOREM PolicyFollowed == Spec => []ResultFollowsPolicy
<1>1. Inv => ResultFollowsPolicy
  BY DEF Inv, TypeOK, OutputInv, OpenedOnce, OpenedAsClaimed, ResultFollowsPolicy
<1> QED
  BY <1>1, Invariance, PTL

\* No later call takes an abandoned claim up.
LEMMA AbandonedStep == Inv /\ Inv' /\ [Next]_vars => (Abandoned => Abandoned')
<1> SUFFICES ASSUME Inv, Inv', [Next]_vars, Abandoned PROVE Abandoned'
  OBVIOUS
<1> USE DEF Inv, TypeOK, Abandoned, Claimed, generation
<1>1. ASSUME NEW p \in Call, Start(p) \/ CheckStatic(p) \/ Authorize(p) \/ HashFreeze(p) \/ Stop(p)
      PROVE  Abandoned'
  BY <1>1 DEF Start, CheckStatic, Authorize, HashFreeze, Stop, Goto
<1>2. ASSUME NEW p \in Call, LinkClaim(p)
      PROVE  Abandoned'
  BY <1>2 DEF LinkClaim, NewName, Goto
<1>3. ASSUME NEW p \in Call, LinkReceipt(p) \/ ParseAgain(p) \/ ValidateAccess(p) \/ LoadRecords(p)
      PROVE  FALSE
  BY <1>3 DEF LinkReceipt, ParseAgain, ValidateAccess, LoadRecords
<1>4. ASSUME NEW p \in Call,
             \/ GeneratePrimary(p) \/ FinishPrimary(p)
             \/ GenerateFallback(p) \/ FinishFallback(p) \/ Publish(p)
      PROVE  FALSE
  BY <1>4 DEF GeneratePrimary, FinishPrimary, GenerateFallback, FinishFallback, Publish, CallInv,
     Generating
<1>5. CASE ReplaceFreeze \/ UNCHANGED vars
  BY <1>5 DEF ReplaceFreeze, vars, generation
<1> QED
  BY <1>1, <1>2, <1>3, <1>4, <1>5 DEF Next, Gate, Evaluate

\* A failure after the claim consumes the one evaluation.
THEOREM FailureConsumes == Spec => FailureConsumesClaim
<1>1. Inv /\ Inv' /\ [Next]_vars => [Abandoned => Abandoned']_vars
  BY AbandonedStep
<1> QED
  BY <1>1, Invariance, PTL DEF Spec, FailureConsumesClaim

(***************************************************************************)
(* The holdout gate: one evaluation                                        *)
(***************************************************************************)
\* Where a call is says how far the evaluation is: a call behind the claim is the
\* only one, and so is a call that generates; nothing is published yet.
LEMMA StageIs ==
    ASSUME Inv, NEW p \in Call
    PROVE  /\ pc[p] \in Claimed => /\ claim # None /\ opened = {} /\ Results = {} /\ Stage = "claimed"
                                   /\ \A q \in Call : pc[q] \in Claimed => q = p
           /\ pc[p] \in Generating => /\ claim # None /\ opened = {p} /\ Results = {} /\ Stage = "open"
                                      /\ \A q \in Call : pc[q] \in Generating => q = p
<1>1. ASSUME pc[p] \in Claimed
      PROVE  /\ claim # None /\ opened = {} /\ Results = {} /\ Stage = "claimed"
             /\ \A q \in Call : pc[q] \in Claimed => q = p
  <2>1. opened = {} /\ \A q \in Call : pc[q] \in Claimed => q = p
    BY <1>1 DEF Inv, CallInv, ClaimantInv
  <2>2. claim # None
    BY <1>1 DEF Inv, CallInv
  <2>3. Results = {}
    BY <2>1 DEF Inv, OutputInv, Results
  <2>4. Pursued(Claimed)
    BY <1>1 DEF Pursued
  <2> QED
    BY <2>1, <2>2, <2>3, <2>4 DEF Stage
<1>2. ASSUME pc[p] \in Generating
      PROVE  /\ claim # None /\ opened = {p} /\ Results = {} /\ Stage = "open"
             /\ \A q \in Call : pc[q] \in Generating => q = p
  <2>1. \A q \in Call : pc[q] \in Generating => q \in opened
    BY DEF Inv, CallInv
  <2>2. opened = {p}
    BY <1>2, <2>1 DEF Inv, OpenedOnce, TypeOK
  <2>3. claim # None
    BY <2>2 DEF Inv, ClaimantInv
  <2>4. pc[p] # "done"
    BY <1>2 DEF Generating
  <2>5. Results = {}
    BY <2>2, <2>4 DEF Inv, OutputInv, Results
  <2>6. Pursued(Generating)
    BY <1>2 DEF Pursued
  <2> QED
    BY <2>1, <2>2, <2>3, <2>5, <2>6 DEF Stage
<1> QED
  BY <1>1, <1>2

\* What changes neither files nor who pursues them is no step of the evaluation.
LEMMA StageKept ==
    ASSUME UNCHANGED <<claim, output, opened>>,
           Pursued(Claimed)' <=> Pursued(Claimed), Pursued(Generating)' <=> Pursued(Generating)
    PROVE  UNCHANGED Shot!vars
<1>1. Results' = Results
  BY DEF Results
<1> QED
  BY <1>1 DEF Shot!vars, Stage

\* A call that moves within its phase leaves who pursues what.
LEMMA PursuitKept ==
    ASSUME Inv, NEW p \in Call, NEW label, Goto(p, label),
           pc[p] \in Claimed <=> label \in Claimed, pc[p] \in Generating <=> label \in Generating
    PROVE  (Pursued(Claimed)' <=> Pursued(Claimed)) /\ (Pursued(Generating)' <=> Pursued(Generating))
<1>1. pc'[p] = label /\ \A q \in Call : q # p => pc'[q] = pc[q]
  BY DEF Inv, TypeOK, Goto
<1> QED
  BY <1>1 DEF Pursued

\* A call that has the claim or generates, and stops, loses the evaluation.
LEMMA StoppingLoses ==
    ASSUME Inv, NEW p \in Call, Goto(p, "stopped"), UNCHANGED <<claim, output, opened>>
    PROVE  [Shot!Next]_(Shot!vars)
<1>1. pc'[p] = "stopped" /\ \A q \in Call : q # p => pc'[q] = pc[q]
  BY DEF Inv, TypeOK, Goto
<1>2. Results' = Results
  BY DEF Results
<1>3. CASE pc[p] \in Claimed
  <2>1. /\ claim # None /\ opened = {} /\ Results = {} /\ Stage = "claimed"
        /\ \A q \in Call : pc[q] \in Claimed => q = p
    BY <1>3, StageIs
  <2>2. ~Pursued(Claimed)'
    BY <1>1, <2>1 DEF Pursued, Claimed
  <2>3. Stage' = "lost"
    BY <1>2, <2>1, <2>2 DEF Stage
  <2> QED
    BY <1>2, <2>1, <2>3 DEF Shot!Next, Shot!Lose
<1>4. CASE pc[p] \in Generating
  <2>1. /\ claim # None /\ opened = {p} /\ Results = {} /\ Stage = "open"
        /\ \A q \in Call : pc[q] \in Generating => q = p
    BY <1>4, StageIs
  <2>2. ~Pursued(Generating)'
    BY <1>1, <2>1 DEF Pursued, Generating
  <2>3. Stage' = "lost"
    BY <1>2, <2>1, <2>2 DEF Stage
  <2> QED
    BY <1>2, <2>1, <2>3 DEF Shot!Next, Shot!Lose
<1>5. CASE pc[p] \notin Claimed \cup Generating
  <2>1. "stopped" \notin Claimed \cup Generating
    BY DEF Claimed, Generating
  <2> QED
    BY <1>5, <2>1, PursuitKept, StageKept
<1> QED
  BY <1>3, <1>4, <1>5

\* Every step of a call is a step of the one evaluation, or none.
LEMMA ShotStep ==
    ASSUME Inv, Next
    PROVE  [Shot!Next]_(Shot!vars)
<1> USE DEF generation
<1>0. CASE ReplaceFreeze
  <2>1. UNCHANGED <<claim, output, opened, pc>>
    BY <1>0 DEF ReplaceFreeze
  <2>2. (Pursued(Claimed)' <=> Pursued(Claimed)) /\ (Pursued(Generating)' <=> Pursued(Generating))
    BY <2>1 DEF Pursued
  <2> QED
    BY <2>1, <2>2, StageKept
<1> SUFFICES ASSUME NEW p \in Call, Start(p) \/ Gate(p) \/ Evaluate(p) \/ Stop(p)
             PROVE  [Shot!Next]_(Shot!vars)
  BY <1>0 DEF Next
<1>1. CASE Start(p)
  <2>1. Goto(p, "static") /\ pc[p] = "idle" /\ UNCHANGED <<claim, output, opened>>
    BY <1>1 DEF Start
  <2>2. "static" \notin Claimed \cup Generating /\ "idle" \notin Claimed \cup Generating
    BY DEF Claimed, Generating
  <2> QED
    BY <2>1, <2>2, PursuitKept, StageKept
<1>2. CASE CheckStatic(p) \/ Authorize(p) \/ HashFreeze(p)
  <2>1. PICK label \in {"authorize", "hash", "claim", "stopped"} :
          Goto(p, label) /\ pc[p] \in {"static", "authorize", "hash"} /\ UNCHANGED <<claim, output, opened>>
    BY <1>2 DEF CheckStatic, Authorize, HashFreeze
  <2>2. label \notin Claimed \cup Generating /\ pc[p] \notin Claimed \cup Generating
    BY <2>1 DEF Claimed, Generating
  <2> QED
    BY <2>1, <2>2, PursuitKept, StageKept
<1>3. CASE LinkClaim(p)
  <2>1. CASE claim # None
    BY <1>3, <2>1, StoppingLoses DEF LinkClaim, NewName
  <2>2. CASE claim = None
    <3>1. claim' = digest[p] /\ Goto(p, "receipt") /\ UNCHANGED <<output, opened>> /\ pc[p] = "claim"
      BY <1>3, <2>2 DEF LinkClaim, NewName
    <3>2. claim' \in Freeze /\ claim' # None
      BY <3>1, NoneAssumption DEF Inv, ReadingInv
    <3>3. pc'[p] = "receipt"
      BY <3>1 DEF Inv, TypeOK, Goto
    <3>4. Pursued(Claimed)'
      BY <3>3 DEF Pursued, Claimed
    <3>5. opened = {} /\ Results = {} /\ Results' = {}
      BY <2>2, <3>1 DEF Inv, ClaimantInv, OutputInv, Results
    <3>6. Stage = "closed" /\ Stage' = "claimed"
      BY <2>2, <3>1, <3>2, <3>4, <3>5 DEF Stage
    <3> QED
      BY <3>2, <3>5, <3>6 DEF Shot!Next, Shot!Claim
  <2> QED
    BY <2>1, <2>2
<1>4. CASE LinkReceipt(p) \/ ParseAgain(p) \/ ValidateAccess(p)
  <2>1. PICK label \in {"validate", "rehash", "load", "stopped"} :
          Goto(p, label) /\ pc[p] \in {"receipt", "validate", "rehash"} /\ UNCHANGED <<claim, output, opened>>
    BY <1>4 DEF LinkReceipt, ParseAgain, ValidateAccess
  <2>2. CASE label = "stopped"
    BY <2>1, <2>2, StoppingLoses
  <2>3. CASE label # "stopped"
    <3>1. label \in Claimed /\ label \notin Generating /\ pc[p] \in Claimed /\ pc[p] \notin Generating
      BY <2>1, <2>3 DEF Claimed, Generating
    <3> QED
      BY <2>1, <3>1, PursuitKept, StageKept
  <2> QED
    BY <2>2, <2>3
<1>5. CASE LoadRecords(p)
  <2>1. /\ pc[p] = "load" /\ opened' = opened \cup {p} /\ Goto(p, "primary")
        /\ UNCHANGED <<claim, output>>
    BY <1>5 DEF LoadRecords
  <2>2. claim # None /\ opened = {} /\ Results = {} /\ Stage = "claimed"
    BY <2>1, StageIs DEF Claimed
  <2>3. pc'[p] = "primary"
    BY <2>1 DEF Inv, TypeOK, Goto
  <2>4. Pursued(Generating)'
    BY <2>3 DEF Pursued, Generating
  <2>5. Results' = Results
    BY <2>1 DEF Results
  <2>6. Stage' = "open"
    BY <2>1, <2>2, <2>4, <2>5 DEF Stage
  <2> QED
    BY <2>1, <2>2, <2>5, <2>6 DEF Shot!Next, Shot!Open
<1>6. CASE GeneratePrimary(p) \/ GenerateFallback(p)
  <2>1. UNCHANGED <<claim, output, opened, pc>>
    BY <1>6 DEF GeneratePrimary, GenerateFallback
  <2>2. (Pursued(Claimed)' <=> Pursued(Claimed)) /\ (Pursued(Generating)' <=> Pursued(Generating))
    BY <2>1 DEF Pursued
  <2> QED
    BY <2>1, <2>2, StageKept
<1>7. CASE FinishPrimary(p) \/ FinishFallback(p)
  <2>1. PICK label \in {"fallback", "publish"} :
          Goto(p, label) /\ pc[p] \in {"primary", "fallback"} /\ UNCHANGED <<claim, output, opened>>
    BY <1>7 DEF FinishPrimary, FinishFallback
  <2>2. label \in Generating /\ label \notin Claimed /\ pc[p] \in Generating /\ pc[p] \notin Claimed
    BY <2>1 DEF Claimed, Generating
  <2> QED
    BY <2>1, <2>2, PursuitKept, StageKept
<1>8. CASE Publish(p)
  <2>1. pc[p] = "publish" /\ pc[p] \in Generating
    BY <1>8 DEF Publish, Generating
  <2>2. claim # None /\ opened = {p} /\ Results = {} /\ Stage = "open"
    BY <2>1, StageIs
  <2>3. \A f \in Path : output[f] = None
    BY <2>2 DEF Results
  <2>4. arg[p].path \in Path /\ digest[p] = claim
    BY <2>2 DEF Inv, TypeOK, Arg, CallInv
  <2>5. output' = [output EXCEPT ![arg[p].path] = ResultOf(p)] /\ UNCHANGED <<claim, opened>>
    BY <1>8, <2>3, <2>4 DEF Publish, NewName, Inv, TypeOK
  <2>6. /\ ResultOf(p) = [freeze |-> claim, invalid |-> invalid[p], rescued |-> rescued[p]]
        /\ invalid[p] \in SUBSET Records /\ rescued[p] \in SUBSET invalid[p]
    BY <2>4 DEF ResultOf, Inv, TypeOK, CallInv
  <2>7. ResultOf(p) # None
    <3>1. claim \in Freeze
      BY <2>2 DEF Inv, TypeOK
    <3>2. rescued[p] \in SUBSET Records
      BY <2>6
    <3>3. ResultOf(p) \in Result
      BY <2>6, <3>1, <3>2 DEF Result
    <3> QED
      BY <3>3, ResultAssumption
  <2>8. Results' = {ResultOf(p)}
    BY <2>3, <2>4, <2>5, <2>7 DEF Results, Inv, TypeOK
  <2>9. Stage' = "published"
    BY <2>2, <2>5, <2>8 DEF Stage
  <2> QED
    BY <2>2, <2>5, <2>6, <2>8, <2>9 DEF Shot!Next, Shot!Publish
<1>9. CASE Stop(p)
  BY <1>9, StoppingLoses DEF Stop
<1> QED
  BY <1>1, <1>2, <1>3, <1>4, <1>5, <1>6, <1>7, <1>8, <1>9 DEF Gate, Evaluate

\* The calls together are one evaluation: every behaviour of the flow is one of
\* the abstract specification, whatever the calls, files and records are.
THEOREM ImplementsOneShot == Spec => RefinesOneShot
<1>1. Init => Shot!Init
  <2> SUFFICES ASSUME Init PROVE Shot!Init
    OBVIOUS
  <2>1. claim = None /\ Results = {}
    BY DEF Init, Results
  <2> QED
    BY <2>1 DEF Shot!Init, Stage
<1>2. Inv /\ [Next]_vars => [Shot!Next]_(Shot!vars)
  <2> SUFFICES ASSUME Inv, [Next]_vars PROVE [Shot!Next]_(Shot!vars)
    OBVIOUS
  <2>1. CASE UNCHANGED vars
    <3>1. (Pursued(Claimed)' <=> Pursued(Claimed)) /\ (Pursued(Generating)' <=> Pursued(Generating))
      BY <2>1 DEF vars, Pursued
    <3> QED
      BY <2>1, <3>1, StageKept DEF vars
  <2> QED
    BY <2>1, ShotStep
<1> QED
  BY <1>1, <1>2, Invariance, PTL DEF Spec, RefinesOneShot, Shot!Spec


(***************************************************************************)
(* The way to the freeze: what evidence is worth                           *)
(***************************************************************************)
\* The rows recorded of a run are of its fold and carry the checkpoint it names.
SoundEntry(entry, key) == entry.rows.fold = key[1] /\ entry.checkpoint = entry.rows.checkpoint

\* The base runs the pinned checkpoint; a candidate of a comparison runs an
\* adapter that was trained without the fold, by the method recorded.
Provenance(entry, key, a) ==
    /\ key[2] = Base => entry.method = Pinned /\ entry.bundle = Nothing
    /\ key[2] # Base /\ a.schema = "cross" =>
          /\ entry.adapter \in AdapterBytes /\ entry.adapter.fold = key[1]
          /\ entry.adapter.contract = a.contract /\ entry.adapter.method = entry.method
    /\ a.schema = "cross" => entry.exec = Nothing
    /\ a.schema = "base" => key[2] = Base

\* Two runs of a comparison share neither their files nor their adapter.
Distinct(e, g) ==
    /\ <<e.rows, e.manifest>> # <<g.rows, g.manifest>>
    /\ e.adapter # Nothing => e.adapter # g.adapter

\* Evidence as far as it has been collected.
GoodEvidence(a) ==
    /\ EvidenceOK(a)
    /\ \A key \in DOMAIN a.got : SoundEntry(a.got[key], key)
    /\ a.schema \in {"cross", "base"} =>
          /\ \A key \in DOMAIN a.got : Provenance(a.got[key], key, a)
          /\ \A k, l \in DOMAIN a.got : k # l => Distinct(a.got[k], a.got[l])

\* Evidence that was concluded and written.
GoodSource(a) ==
    /\ a.schema \in {"cross", "base", "probe"} /\ GoodEvidence(a)
    /\ a.schema = "cross" => DOMAIN a.got = Key /\ OneMethod(a.got)
    /\ a.schema = "base" => DOMAIN a.got = Fold \X {Base} /\ OneProvenance(a.got)

\* Who may be frozen: a label, perhaps another one after it; of the base, none.
Chosen(kind, primary, fallback) ==
    /\ primary \in Range(Label) /\ fallback \in (Range(Label) \ {primary}) \cup {Nothing}
    /\ kind = "freezeBase" => primary = Base /\ fallback = Nothing

\* A freeze holds the evidence it was made from.
GoodFreeze(f) ==
    /\ f.schema \in {"freeze", "freezeBase"} /\ f.from \in OutPath
    /\ GoodSource(f.payload) /\ f.payload.schema \in Schemas(f.schema) /\ f.contract = f.payload.contract
    /\ f.digest.schema \in {"cross", "base", "probe", "freeze", "freezeBase"}
    /\ Chosen(f.schema, f.primary, f.fallback)

\* An artifact is one or the other.
GoodFile(x) == IF x.schema \in {"freeze", "freezeBase"} THEN GoodFreeze(x) ELSE GoodSource(x)

(***************************************************************************)
(* The way to the freeze: what a command knows                             *)
(***************************************************************************)
\* The two kinds of command, by what they keep.
ReadFields == {"at", "kind", "contract", "target", "todo", "got", "given", "manifest", "rows", "read"}
FreezeFields ==
    {"at", "kind", "from", "target", "contract", "primary", "fallback", "frozen", "source", "digest",
     "todo", "touched"}

\* What a command that reads runs has collected.
Collected(c) == [schema |-> c.kind, contract |-> c.contract, got |-> c.got]

\* Runs are collected one by one; the run at hand is the one its manifest names.
ReadInv(c) ==
    /\ DOMAIN c = ReadFields
    /\ c.at \in {"manifest", "hash", "rows", "record"} /\ c.kind \in {"cross", "base", "probe", "require"}
    /\ c.contract \in Contract /\ c.target \in OutPath /\ c.todo \in Seq(Key)
    /\ GoodEvidence(Collected(c))
    /\ c.kind = "cross" => DOMAIN c.got \cup Range(c.todo) = Key
    /\ c.kind = "base" => DOMAIN c.got \cup Range(c.todo) = Fold \X {Base}
    /\ c.at # "manifest" => /\ c.todo # <<>> /\ c.manifest \in Manifest
                            /\ c.given \in RunPath \X (AdapterPath \cup {Nothing})
    /\ c.at \in {"rows", "record"} => c.rows = c.manifest.of
    /\ c.at = "record" => /\ c.read \in RowBytes /\ AddUp(c.manifest, c.read)
                          /\ RowsValid(c.read, Head(c.todo)[1], c.contract)

\* What is opened again before a freeze and at an entry.
RecheckItem == [key : Key, deployed : BOOLEAN]

\* An entry reads the evidence of a base again, not that of a comparison.
Skips(c) == c.kind = "enter" /\ c.frozen.schema = "freeze"

\* A command about a freeze: what it is about, and what it has read.
FreezeInv(c) ==
    /\ DOMAIN c = FreezeFields
    /\ c.kind \in {"freeze", "freezeBase", "enter"}
    /\ c.at \in {"parse", "digest", "method", "rehash", "remanifest", "reread", "finish"}
    /\ c.kind # "enter" => c.target \in OutPath /\ Chosen(c.kind, c.primary, c.fallback)
    /\ c.kind = "enter" => GoodFreeze(c.frozen) /\ c.from = c.frozen.from
    /\ c.from \in OutPath
    /\ Skips(c) => c.at = "finish"
    /\ c.at # "parse" /\ ~Skips(c) => GoodSource(c.source) /\ c.source.schema \in Schemas(c.kind)
    /\ c.at \notin {"parse", "digest"} /\ ~Skips(c) =>
          /\ c.digest.schema \in {"cross", "base", "probe", "freeze", "freezeBase"}
          /\ c.todo \in Seq(RecheckItem)
          /\ \A i \in DOMAIN c.todo : c.todo[i].key \in DOMAIN c.source.got
          /\ c.at = "finish" <=> c.todo = <<>>

(***************************************************************************)
(* The way to the freeze: sequences                                        *)
(***************************************************************************)
\* The quotient and the remainder of a number below m * n.
LEMMA Quotient ==
    ASSUME NEW m \in Nat, NEW n \in Nat \ {0}, NEW x \in 0..(m * n - 1)
    PROVE  x \div n \in 0..(m - 1) /\ x % n \in 0..(n - 1)
<1> DEFINE q == x \div n
           r == x % n
<1>1. q \in Int /\ r \in 0..(n - 1) /\ x = n * q + r
  OBVIOUS
<1> HIDE DEF q, r
<1>2. q >= 0
  BY <1>1
<1>3. q < m
  BY <1>1
<1> QED
  BY <1>1, <1>2, <1>3 DEF q, r

\* Every pair is the quotient and the remainder of one number.
LEMMA Composite ==
    ASSUME NEW m \in Nat, NEW n \in Nat \ {0}, NEW i \in 0..(m - 1), NEW j \in 0..(n - 1)
    PROVE  \E x \in 0..(m * n - 1) : x \div n = i /\ x % n = j
<1> DEFINE x == n * i + j
<1>1. x \in 0..(m * n - 1)
  BY SMTT(30)
<1>2. x \div n = i /\ x % n = j
  BY SMTT(30)
<1> QED
  BY <1>1, <1>2

\* A grid visits every pair of a fold and a label, and no other.
LEMMA GridVisits ==
    ASSUME NEW folds \in Seq(Fold), NEW labels \in Seq(Range(Label)), labels # <<>>
    PROVE  /\ Grid(folds, labels) \in Seq(Key)
           /\ Range(Grid(folds, labels)) = Range(folds) \X Range(labels)
<1> DEFINE S == Fold
           T == Range(Label)
           m == Len(folds)
           n == Len(labels)
           g == Grid(folds, labels)
<1>0. folds \in Seq(S) /\ labels \in Seq(T) /\ Key = S \X T
  BY DEF Key
<1> HIDE DEF S, T
<1>1. m \in Nat /\ n \in Nat \ {0} /\ m * n \in Nat
  BY <1>0
<1>2. /\ folds = [i \in 1..m |-> folds[i]] /\ \A i \in 1..m : folds[i] \in S
      /\ labels = [i \in 1..n |-> labels[i]] /\ \A i \in 1..n : labels[i] \in T
      /\ DOMAIN folds = 1..m /\ DOMAIN labels = 1..n
  BY <1>0
<1> DEFINE cell(i) == <<folds[((i - 1) \div n) + 1], labels[((i - 1) % n) + 1]>>
<1>3. g = [i \in 1..(m * n) |-> cell(i)]
  BY DEF Grid
<1>4. ASSUME NEW i \in 1..(m * n)
      PROVE  ((i - 1) \div n) + 1 \in 1..m /\ ((i - 1) % n) + 1 \in 1..n
  <2>1. i - 1 \in 0..(m * n - 1)
    BY <1>1
  <2> HIDE DEF m, n
  <2>2. (i - 1) \div n \in 0..(m - 1) /\ (i - 1) % n \in 0..(n - 1)
    BY <1>1, <2>1, Quotient
  <2> QED
    BY <1>1, <2>2
<1>5. \A i \in 1..(m * n) : cell(i) \in Range(folds) \X Range(labels) /\ cell(i) \in S \X T
  <2> SUFFICES ASSUME NEW i \in 1..(m * n)
               PROVE  cell(i) \in Range(folds) \X Range(labels) /\ cell(i) \in S \X T
    OBVIOUS
  <2> HIDE DEF m, n
  <2> QED
    BY <1>2, <1>4 DEF Range
<1>6. g \in Seq(S \X T)
  <2> HIDE DEF m, n, g, cell
  <2> QED
    BY <1>1, <1>3, <1>5
<1>7. ASSUME NEW c \in Range(folds) \X Range(labels) PROVE c \in Range(g)
  <2>1. PICK i \in 1..m, j \in 1..n : c = <<folds[i], labels[j]>>
    BY <1>2 DEF Range
  <2> HIDE DEF m, n
  <2>2. i - 1 \in 0..(m - 1) /\ j - 1 \in 0..(n - 1)
    BY <1>1
  <2>3. PICK x \in 0..(m * n - 1) : x \div n = i - 1 /\ x % n = j - 1
    <3>1. \A a \in 0..(m - 1), b \in 0..(n - 1) : \E x \in 0..(m * n - 1) : x \div n = a /\ x % n = b
      BY <1>1, Composite
    <3> QED
      BY <2>2, <3>1
  <2>4. x + 1 \in 1..(m * n) /\ (x + 1) - 1 = x
    BY <1>1
  <2>5. cell(x + 1) = c
    BY <1>1, <2>1, <2>3, <2>4
  <2> HIDE DEF g, cell
  <2> QED
    BY <1>3, <2>4, <2>5 DEF Range
<1>8. Range(g) \subseteq Range(folds) \X Range(labels)
  <2> HIDE DEF m, n, g, cell
  <2> QED
    BY <1>3, <1>5 DEF Range
<1> QED
  BY <1>0, <1>6, <1>7, <1>8

\* The first of a sequence, and the others.
LEMMA HeadAndTail ==
    ASSUME NEW S, NEW s \in Seq(S), s # <<>>
    PROVE  /\ Head(s) \in S /\ Tail(s) \in Seq(S)
           /\ Range(s) = {Head(s)} \cup Range(Tail(s))
<1>1. /\ Len(s) \in Nat \ {0} /\ DOMAIN s = 1..Len(s) /\ Head(s) = s[1] /\ Head(s) \in S
      /\ Tail(s) \in Seq(S) /\ Len(Tail(s)) = Len(s) - 1 /\ DOMAIN Tail(s) = 1..(Len(s) - 1)
      /\ \A i \in 1..(Len(s) - 1) : Tail(s)[i] = s[i + 1]
  OBVIOUS
<1> DEFINE t == Tail(s)
<1> HIDE DEF t
<1>2. ASSUME NEW x \in Range(s) PROVE x \in {Head(s)} \cup Range(t)
  <2>1. PICK i \in 1..Len(s) : x = s[i]
    BY <1>1 DEF Range
  <2>2. CASE i = 1
    BY <1>1, <2>1, <2>2
  <2>3. CASE i # 1
    <3>1. i - 1 \in 1..(Len(s) - 1) /\ (i - 1) + 1 = i
      BY <1>1, <2>3
    <3>2. t[i - 1] = x /\ i - 1 \in DOMAIN t
      BY <1>1, <2>1, <3>1 DEF t
    <3> QED
      BY <3>2 DEF Range
  <2> QED
    BY <2>2, <2>3
<1>3. ASSUME NEW x \in Range(t) PROVE x \in Range(s)
  <2>1. PICK i \in 1..(Len(s) - 1) : x = t[i]
    BY <1>1 DEF Range, t
  <2>2. i + 1 \in 1..Len(s) /\ s[i + 1] = x
    BY <1>1, <2>1 DEF t
  <2> QED
    BY <1>1, <2>2 DEF Range
<1>4. Head(s) \in Range(s)
  BY <1>1 DEF Range
<1> QED
  BY <1>1, <1>2, <1>3, <1>4 DEF t

\* The labels and the folds.
LEMMA LabelsAndFolds ==
    /\ Base \in Range(Label) /\ Label \in Seq(Range(Label)) /\ Label # <<>>
    /\ <<Base>> \in Seq(Range(Label)) /\ Range(<<Base>>) = {Base}
    /\ Folds \in Seq(Fold) /\ Range(Folds) = Fold
    /\ NFolds \in Nat \ {0} /\ Key = Fold \X Range(Label)
<1>1. Label \in Seq(STRING) /\ Label # <<>> /\ NFolds \in Nat \ {0}
  BY SelectionAssumption
<1>2. /\ Len(Label) \in Nat \ {0} /\ DOMAIN Label = 1..Len(Label)
      /\ Label = [i \in 1..Len(Label) |-> Label[i]] /\ Base = Label[1]
  BY <1>1 DEF Base
<1>3. Base \in Range(Label) /\ \A i \in 1..Len(Label) : Label[i] \in Range(Label)
  BY <1>2 DEF Range
<1>4. Label \in Seq(Range(Label))
  BY <1>2, <1>3
<1>5. Folds \in Seq(Fold)
  BY <1>1 DEF Folds, Fold
<1>6. Range(Folds) = Fold
  <2>1. \A f \in Fold : f + 1 \in 1..NFolds /\ (f + 1) - 1 = f
    BY <1>1 DEF Fold
  <2>2. \A i \in 1..NFolds : i - 1 \in Fold
    BY <1>1 DEF Fold
  <2> QED
    BY <2>1, <2>2 DEF Range, Folds
<1>7. <<Base>> \in Seq(Range(Label)) /\ Range(<<Base>>) = {Base}
  <2> DEFINE b == Base
  <2>1. b \in Range(Label)
    BY <1>3
  <2> HIDE DEF b
  <2>2. <<b>> \in Seq(Range(Label))
    BY <2>1
  <2>3. DOMAIN <<b>> = {1} /\ <<b>>[1] = b
    OBVIOUS
  <2>4. Range(<<b>>) = {b}
    BY <2>3 DEF Range
  <2> QED
    BY <2>2, <2>4 DEF b
<1> QED
  BY <1>1, <1>3, <1>4, <1>5, <1>6, <1>7 DEF Key

\* The runs a command reads: of a comparison all, of a qualification the base's.
LEMMA KeysVisited ==
    ASSUME NEW kind \in {"cross", "base", "probe", "require"}, NEW fold \in Fold
    PROVE  /\ KeysOf(kind, fold) \in Seq(Key)
           /\ kind = "cross" => Range(KeysOf(kind, fold)) = Key
           /\ kind = "base" => Range(KeysOf(kind, fold)) = Fold \X {Base}
<1>0. /\ Label \in Seq(Range(Label)) /\ Label # <<>> /\ <<Base>> \in Seq(Range(Label)) /\ Folds \in Seq(Fold)
  BY LabelsAndFolds
<1>1. <<fold>> \in Seq(Fold) /\ <<Base>> # <<>>
  OBVIOUS
<1> DEFINE F == Fold
           T == Range(Label)
           L == Label
           B == <<Base>>
           G == Folds
           O == <<fold>>
<1>a. Key = F \X T /\ Range(G) = F /\ Range(B) = {Base}
  BY LabelsAndFolds
<1>b. L \in Seq(T) /\ L # <<>> /\ B \in Seq(T) /\ B # <<>> /\ G \in Seq(F) /\ O \in Seq(F)
  BY <1>0, <1>1
<1> HIDE DEF F, T, L, B, G, O
<1>2. /\ Grid(G, L) \in Seq(Key) /\ Range(Grid(G, L)) = Range(G) \X Range(L)
      /\ Grid(G, B) \in Seq(Key) /\ Range(Grid(G, B)) = Range(G) \X Range(B)
      /\ Grid(O, L) \in Seq(Key) /\ Grid(O, B) \in Seq(Key)
  <2>1. \A g \in Seq(F), l \in Seq(T) : l # <<>> =>
          Grid(g, l) \in Seq(Key) /\ Range(Grid(g, l)) = Range(g) \X Range(l)
    BY GridVisits DEF F, T
  <2> QED
    BY <1>b, <2>1
<1>3. /\ KeysOf("cross", fold) = Grid(G, L) /\ KeysOf("base", fold) = Grid(G, B)
      /\ KeysOf("probe", fold) = Grid(O, L) /\ KeysOf("require", fold) = Grid(O, B)
  BY DEF KeysOf, BaseKeys, ProbeKeys, G, L, B, O
<1>4. Range(L) = T /\ F = Fold
  BY DEF L, T, F
<1> QED
  BY <1>a, <1>2, <1>3, <1>4

\* The runs that are opened again: those deployed by a freeze of a comparison,
\* and those of all folds whenever the base is frozen or entered with.
LEMMA RechecksVisit ==
    ASSUME NEW kind \in {"freeze", "freezeBase", "enter"}, NEW primary, NEW fallback,
           kind # "enter" => Chosen(kind, primary, fallback)
    PROVE  LET s == Rechecks(kind, primary, fallback) IN
           /\ s \in Seq(RecheckItem)
           /\ kind # "freeze" => /\ \A i \in DOMAIN s : s[i].key \in Fold \X {Base}
                                 /\ \A f \in Fold : [key |-> <<f, Base>>, deployed |-> FALSE] \in Range(s)
           /\ kind = "freeze" => \A label \in {primary, fallback} \ {Nothing} :
                                    [key |-> <<Deployment, label>>, deployed |-> TRUE] \in Range(s)
<1> DEFINE item(label) == [key |-> <<Deployment, label>>, deployed |-> TRUE]
           folds == [i \in 1..NFolds |-> [key |-> BaseKeys[i], deployed |-> FALSE]]
<1>1. Deployment \in Fold /\ NFolds \in Nat \ {0} /\ Base \in Range(Label)
  BY SelectionAssumption, LabelsAndFolds
<1>2. \A i \in 1..NFolds : BaseKeys[i] = <<i - 1, Base>>
  <2>1. Len(Folds) = NFolds /\ Len(<<Base>>) = 1 /\ NFolds * 1 = NFolds
    BY <1>1 DEF Folds
  <2>2. BaseKeys = [i \in 1..NFolds |-> <<Folds[((i - 1) \div 1) + 1], <<Base>>[((i - 1) % 1) + 1]>>]
    BY <2>1 DEF BaseKeys, Grid
  <2>3. \A i \in 1..NFolds : ((i - 1) \div 1) + 1 = i /\ ((i - 1) % 1) + 1 = 1
    BY <1>1
  <2>4. \A i \in 1..NFolds : Folds[i] = i - 1
    BY DEF Folds
  <2> QED
    BY <2>2, <2>3, <2>4
<1>3. \A label \in Range(Label) : item(label) \in RecheckItem
  BY <1>1 DEF RecheckItem, Key
<1>4. \A i \in 1..NFolds : /\ [key |-> BaseKeys[i], deployed |-> FALSE] \in RecheckItem
                           /\ BaseKeys[i] \in Fold \X {Base}
  BY <1>1, <1>2 DEF RecheckItem, Key, Fold
<1>5. folds \in Seq(RecheckItem) /\ Len(folds) = NFolds
  BY <1>1, <1>4
<1>6. ASSUME NEW f \in Fold
      PROVE  f + 1 \in 1..NFolds /\ folds[f + 1] = [key |-> <<f, Base>>, deployed |-> FALSE]
  <2>1. f + 1 \in 1..NFolds /\ (f + 1) - 1 = f
    BY <1>1 DEF Fold
  <2> QED
    BY <1>2, <2>1
<1>7. CASE kind = "freeze"
  <2>1. CASE fallback = Nothing
    <3>1. Rechecks(kind, primary, fallback) = <<item(primary)>>
      BY <1>7, <2>1 DEF Rechecks
    <3>2. item(primary) \in RecheckItem
      BY <1>3, <1>7 DEF Chosen
    <3> HIDE DEF item
    <3>3. <<item(primary)>> \in Seq(RecheckItem) /\ item(primary) \in Range(<<item(primary)>>)
      BY <3>2 DEF Range
    <3> QED
      BY <1>7, <2>1, <3>1, <3>3 DEF item
  <2>2. CASE fallback # Nothing
    <3>1. Rechecks(kind, primary, fallback) = <<item(primary), item(fallback)>>
      BY <1>7, <2>2 DEF Rechecks
    <3>2. item(primary) \in RecheckItem /\ item(fallback) \in RecheckItem
      BY <1>3, <1>7, <2>2 DEF Chosen
    <3> DEFINE s == <<item(primary), item(fallback)>>
    <3> HIDE DEF item
    <3>3. s \in Seq(RecheckItem) /\ DOMAIN s = 1..2 /\ s[1] = item(primary) /\ s[2] = item(fallback)
      BY <3>2
    <3> HIDE DEF s
    <3>4. item(primary) \in Range(s) /\ item(fallback) \in Range(s)
      BY <3>3 DEF Range
    <3> QED
      BY <1>7, <3>1, <3>3, <3>4 DEF item, s
  <2> QED
    BY <2>1, <2>2
<1>8. CASE kind = "enter"
  <2>1. Rechecks(kind, primary, fallback) = folds
    BY <1>8 DEF Rechecks
  <2>2. \A i \in DOMAIN folds : folds[i].key \in Fold \X {Base}
    BY <1>4
  <2>3. \A f \in Fold : [key |-> <<f, Base>>, deployed |-> FALSE] \in Range(folds)
    BY <1>6 DEF Range
  <2> QED
    BY <1>5, <1>8, <2>1, <2>2, <2>3
<1>9. CASE kind = "freezeBase"
  <2> DEFINE s == Append(folds, item(Base))
  <2>1. Rechecks(kind, primary, fallback) = s
    BY <1>9 DEF Rechecks
  <2>2. item(Base) \in RecheckItem /\ item(Base).key \in Fold \X {Base}
    BY <1>1, <1>3
  <2> DEFINE last == item(Base)
  <2>3. last \in RecheckItem /\ last.key \in Fold \X {Base}
    BY <2>2
  <2> HIDE DEF last, folds
  <2>4. s = Append(folds, last)
    BY DEF last
  <2> HIDE DEF s
  <2>5. s \in Seq(RecheckItem) /\ Len(s) = NFolds + 1
    BY <1>1, <1>5, <2>3, <2>4
  <2>6. DOMAIN s = 1..(NFolds + 1)
    BY <1>1, <2>5
  <2>7. (\A i \in 1..NFolds : s[i] = folds[i]) /\ s[NFolds + 1] = last
    BY <1>1, <1>5, <2>3, <2>4
  <2>8. \A i \in 1..NFolds : folds[i].key \in Fold \X {Base}
    BY <1>4 DEF folds
  <2>9. \A i \in 1..(NFolds + 1) : i \in 1..NFolds \/ i = NFolds + 1
    BY <1>1
  <2>10. \A i \in DOMAIN s : s[i].key \in Fold \X {Base}
    BY <2>3, <2>6, <2>7, <2>8, <2>9
  <2>11. ASSUME NEW f \in Fold PROVE [key |-> <<f, Base>>, deployed |-> FALSE] \in Range(s)
    <3>1. f + 1 \in 1..NFolds /\ folds[f + 1] = [key |-> <<f, Base>>, deployed |-> FALSE]
      BY <1>6
    <3>2. f + 1 \in DOMAIN s
      BY <1>1, <2>6, <3>1
    <3>3. s[f + 1] = folds[f + 1]
      BY <2>7, <3>1
    <3>4. folds[f + 1] \in Range(s)
      BY <3>2, <3>3 DEF Range
    <3> QED
      BY <3>1, <3>4
  <2> QED
    BY <1>9, <2>1, <2>5, <2>10, <2>11
<1> QED
  BY <1>7, <1>8, <1>9

\* Evidence stays good with one run more that is valid, was made as it says and
\* shares nothing with those before it.
LEMMA GoodWithOneMore ==
    ASSUME NEW a, GoodEvidence(a), NEW key \in Key, NEW entry \in EntryOf(a.schema),
           SoundEntry(entry, key),
           a.schema \in {"cross", "base"} => /\ Provenance(entry, key, a)
                                             /\ \A k \in DOMAIN a.got : Distinct(a.got[k], entry),
           NEW b, b.schema = a.schema, b.contract = a.contract, b.got = With(a.got, key, entry)
    PROVE  GoodEvidence(b)
<1>1. /\ DOMAIN b.got = DOMAIN a.got \cup {key} /\ b.got[key] = entry
      /\ \A k \in DOMAIN a.got : k # key => b.got[k] = a.got[k]
  BY DEF With
<1>2. EvidenceOK(b)
  BY <1>1 DEF GoodEvidence, EvidenceOK
<1>3. \A k \in DOMAIN b.got : SoundEntry(b.got[k], k)
  BY <1>1 DEF GoodEvidence
<1>4. ASSUME b.schema \in {"cross", "base"}
      PROVE  /\ \A k \in DOMAIN b.got : Provenance(b.got[k], k, b)
             /\ \A k, l \in DOMAIN b.got : k # l => Distinct(b.got[k], b.got[l])
  <2>1. \A k \in DOMAIN b.got : Provenance(b.got[k], k, a)
    BY <1>1, <1>4 DEF GoodEvidence
  <2>2. \A k \in DOMAIN b.got : Provenance(b.got[k], k, b)
    BY <2>1 DEF Provenance
  <2>3. \A e, g : Distinct(e, g) => Distinct(g, e)
    BY DEF Distinct
  <2>4. ASSUME NEW k \in DOMAIN b.got, NEW l \in DOMAIN b.got, k # l PROVE Distinct(b.got[k], b.got[l])
    <3>1. CASE k = key
      BY <1>1, <1>4, <2>3, <2>4, <3>1
    <3>2. CASE l = key
      BY <1>1, <1>4, <2>4, <3>2
    <3>3. CASE k # key /\ l # key
      BY <1>1, <1>4, <2>4, <3>3 DEF GoodEvidence
    <3> QED
      BY <3>1, <3>2, <3>3
  <2> QED
    BY <2>2, <2>4
<1> QED
  BY <1>2, <1>3, <1>4 DEF GoodEvidence

(***************************************************************************)
(* The way to the freeze: types and evidence are kept                      *)
(***************************************************************************)
\* The files, the sources and the contract are of their kind.
WorldInv ==
    /\ now \in Contract /\ stands \subseteq Exec /\ faults \in 0..MaxFaults
    /\ rows \in [RunPath -> RowBytes \cup {Nothing}]
    /\ manifest \in [RunPath -> Manifest \cup {Nothing}]
    /\ adapter \in [AdapterPath -> AdapterBytes \cup {Nothing}]
    /\ swapped \subseteq RunPath \X RowBytes

\* Every artifact is good evidence or holds it.
FileInv ==
    /\ DOMAIN out = OutPath
    /\ \A p \in OutPath : out[p] # Nothing => GoodFile(out[p])
    /\ entered # Nothing => GoodFreeze(entered)

\* One command runs, or none.
CmdInv == cmd = Idle \/ ReadInv(cmd) \/ FreezeInv(cmd)

\* Where a command is says which one it is.
LEMMA PlaceIs ==
    ASSUME CmdInv
    PROVE  /\ cmd.at \in {"manifest", "hash", "rows", "record"} => ReadInv(cmd)
           /\ cmd.at \in {"parse", "digest", "method", "rehash", "remanifest", "reread", "finish"} =>
                 FreezeInv(cmd)
BY DEF CmdInv, Idle, ReadInv, FreezeInv

\* A command that starts to read runs.
LEMMA StartsReading ==
    ASSUME WorldInv, StartRead
    PROVE  ReadInv(cmd')
<1>1. PICK kind \in {"cross", "base", "probe", "require"}, fold \in Fold : \E target \in Name[kind] :
        cmd' = [at |-> "manifest", kind |-> kind, contract |-> now, target |-> target,
                todo |-> KeysOf(kind, fold), got |-> <<>>,
                given |-> Nothing, manifest |-> Nothing, rows |-> Nothing, read |-> Nothing]
  BY DEF StartRead
<1>2. PICK target \in Name[kind] :
        cmd' = [at |-> "manifest", kind |-> kind, contract |-> now, target |-> target,
                todo |-> KeysOf(kind, fold), got |-> <<>>,
                given |-> Nothing, manifest |-> Nothing, rows |-> Nothing, read |-> Nothing]
  BY <1>1
<1>3. target \in OutPath
  BY <1>2, SelectionAssumption
<1>4. /\ KeysOf(kind, fold) \in Seq(Key)
      /\ kind = "cross" => Range(KeysOf(kind, fold)) = Key
      /\ kind = "base" => Range(KeysOf(kind, fold)) = Fold \X {Base}
  BY KeysVisited
<1> DEFINE todo0 == KeysOf(kind, fold)
<1> HIDE DEF todo0
<1>5. /\ DOMAIN cmd' = ReadFields
      /\ cmd'.at = "manifest" /\ cmd'.kind = kind /\ cmd'.contract = now /\ cmd'.target = target
      /\ cmd'.todo = todo0 /\ cmd'.got = <<>>
  BY <1>2 DEF ReadFields, todo0
<1>6. DOMAIN cmd'.got = {}
  BY <1>5
<1>7. GoodEvidence(Collected(cmd'))
  <2>1. Collected(cmd').schema = kind /\ Collected(cmd').contract = now /\ DOMAIN Collected(cmd').got = {}
    BY <1>5, <1>6 DEF Collected
  <2> QED
    BY <2>1 DEF GoodEvidence, EvidenceOK, WorldInv
<1> QED
  BY <1>3, <1>4, <1>5, <1>6, <1>7 DEF ReadInv, WorldInv, todo0

\* The steps that read one run leave what was collected.
LEMMA ReadsRun ==
    ASSUME WorldInv, CmdInv, ReadManifest \/ HashRows \/ ReadRows
    PROVE  cmd' = Idle \/ ReadInv(cmd')
<1> SUFFICES ASSUME cmd' # Idle PROVE ReadInv(cmd')
  OBVIOUS
<1>1. ReadInv(cmd) /\ cmd.todo # <<>>
  BY PlaceIs DEF ReadManifest, HashRows, ReadRows, Reading
<1>2. DOMAIN cmd = ReadFields
  BY <1>1 DEF ReadInv
<1>3. /\ DOMAIN cmd' = ReadFields /\ cmd'.kind = cmd.kind /\ cmd'.contract = cmd.contract
      /\ cmd'.target = cmd.target /\ cmd'.todo = cmd.todo /\ cmd'.got = cmd.got
  BY <1>2 DEF ReadManifest, HashRows, ReadRows, Continue, Refuse, End, ReadFields
<1>4. Collected(cmd') = Collected(cmd)
  BY <1>3 DEF Collected
<1>5. /\ cmd'.at \in {"hash", "rows", "record"}
      /\ cmd'.manifest \in Manifest /\ cmd'.given \in RunPath \X (AdapterPath \cup {Nothing})
      /\ cmd'.at \in {"rows", "record"} => cmd'.rows = cmd'.manifest.of
      /\ cmd'.at = "record" => /\ cmd'.read \in RowBytes /\ AddUp(cmd'.manifest, cmd'.read)
                               /\ RowsValid(cmd'.read, Head(cmd'.todo)[1], cmd'.contract)
  <2>1. CASE ReadManifest
    <3>1. PICK given \in Offer[CurrentKey] :
            /\ manifest[given[1]] # Nothing
            /\ cmd' = [cmd EXCEPT !.at = "hash", !.given = given, !.manifest = manifest[given[1]]]
      BY <2>1 DEF ReadManifest, Continue, Refuse, End
    <3>2. CurrentKey \in Key
      BY <1>1, HeadAndTail DEF ReadInv, CurrentKey
    <3>3. given \in RunPath \X (AdapterPath \cup {Nothing})
      BY <3>1, <3>2, SelectionAssumption
    <3>4. manifest[given[1]] \in Manifest
      BY <3>1, <3>3 DEF WorldInv
    <3>5. cmd'.at = "hash" /\ cmd'.given = given /\ cmd'.manifest = manifest[given[1]]
      BY <1>2, <3>1 DEF ReadFields
    <3> QED
      BY <3>3, <3>4, <3>5
  <2>2. CASE HashRows
    <3>1. /\ cmd.at = "hash" /\ rows[CurrentRun] = cmd.manifest.of
          /\ cmd' = [cmd EXCEPT !.at = "rows", !.rows = rows[CurrentRun]]
      BY <2>2 DEF HashRows, Reading, Summarised, Continue, Refuse, End
    <3>2. /\ cmd'.at = "rows" /\ cmd'.rows = rows[CurrentRun] /\ cmd'.manifest = cmd.manifest
          /\ cmd'.given = cmd.given
      BY <1>2, <3>1 DEF ReadFields
    <3> QED
      BY <1>1, <3>1, <3>2 DEF ReadInv
  <2>3. CASE ReadRows
    <3>1. /\ cmd.at = "rows" /\ rows[CurrentRun] # Nothing /\ AddUp(cmd.manifest, rows[CurrentRun])
          /\ RowsValid(rows[CurrentRun], CurrentKey[1], cmd.contract)
          /\ cmd' = [cmd EXCEPT !.at = "record", !.read = rows[CurrentRun]]
      BY <2>3 DEF ReadRows, Reading, Continue, Refuse, End
    <3>2. /\ cmd'.at = "record" /\ cmd'.read = rows[CurrentRun] /\ cmd'.manifest = cmd.manifest
          /\ cmd'.given = cmd.given /\ cmd'.rows = cmd.rows
      BY <1>2, <3>1 DEF ReadFields
    <3>3. rows[CurrentRun] \in RowBytes
      BY <1>1, <3>1 DEF ReadInv, CurrentRun, WorldInv
    <3> QED
      BY <1>1, <1>3, <3>1, <3>2, <3>3 DEF ReadInv, CurrentKey
  <2> QED
    BY <2>1, <2>2, <2>3
<1> QED
  BY <1>1, <1>3, <1>4, <1>5 DEF ReadInv

\* The entry of a run: of its kind, valid, made as it says, new.
LEMMA EntryIsGood ==
    ASSUME WorldInv, ReadInv(cmd), cmd.at = "record", Entry(CurrentKey).manifest # Nothing,
           Usable(Entry(CurrentKey))
    PROVE  /\ CurrentKey \in Key
           /\ Entry(CurrentKey) \in EntryOf(cmd.kind)
           /\ SoundEntry(Entry(CurrentKey), CurrentKey)
           /\ cmd.kind \in {"cross", "base"} =>
                 /\ Provenance(Entry(CurrentKey), CurrentKey, Collected(cmd))
                 /\ \A k \in DOMAIN cmd.got : Distinct(cmd.got[k], Entry(CurrentKey))
<1> DEFINE key == CurrentKey
           e == Entry(key)
<1>1. key \in Key /\ key \in Range(cmd.todo)
  BY HeadAndTail DEF ReadInv, CurrentKey
<1>2. /\ e.path = CurrentRun /\ e.rows = cmd.rows /\ e.manifest = manifest[CurrentRun]
      /\ e.checkpoint = cmd.read.checkpoint
      /\ e.method = IF cmd.kind = "probe" THEN Nothing ELSE MethodOf(key, cmd.read, CurrentAdapter)
      /\ e.bundle = IF cmd.kind = "cross" THEN CurrentAdapter ELSE Nothing
      /\ e.adapter = IF cmd.kind = "cross" /\ key[2] # Base THEN cmd.read.checkpoint ELSE Nothing
      /\ e.exec = IF cmd.kind = "base" THEN cmd.manifest.exec ELSE Nothing
  BY DEF Entry
<1>3. /\ e = [path |-> e.path, rows |-> e.rows, manifest |-> e.manifest, checkpoint |-> e.checkpoint,
              method |-> e.method, bundle |-> e.bundle, adapter |-> e.adapter, exec |-> e.exec]
  BY DEF Entry
<1>4. /\ CurrentRun \in RunPath /\ CurrentAdapter \in AdapterPath \cup {Nothing}
      /\ cmd.manifest \in Manifest /\ cmd.rows = cmd.manifest.of
      /\ cmd.read \in RowBytes /\ AddUp(cmd.manifest, cmd.read)
      /\ RowsValid(cmd.read, key[1], cmd.contract) /\ cmd.kind \in {"cross", "base", "probe", "require"}
  BY DEF ReadInv, CurrentRun, CurrentAdapter, CurrentKey
<1>5. /\ cmd.manifest.of \in RowBytes /\ cmd.manifest.exec \in Exec
      /\ cmd.read.checkpoint \in AdapterBytes \cup {Pinned}
  BY <1>4, SelectionAssumption DEF Manifest
<1> HIDE DEF e
<1> DEFINE method == MethodOf(key, cmd.read, CurrentAdapter)
<1>6. method # Nothing =>
        IF key[2] = Base THEN method = Pinned /\ CurrentAdapter = Nothing /\ cmd.read.checkpoint = Pinned
        ELSE /\ cmd.read.checkpoint \in AdapterBytes /\ cmd.read.checkpoint.fold = key[1]
             /\ cmd.read.checkpoint.contract = cmd.contract /\ cmd.read.checkpoint.method = method
             /\ CurrentAdapter # Nothing
  <2>1. CASE key[2] = Base
    BY <2>1 DEF MethodOf
  <2>2. CASE key[2] # Base /\ CurrentAdapter = Nothing
    BY <2>2 DEF MethodOf
  <2>3. CASE key[2] # Base /\ CurrentAdapter # Nothing
    <3>1. adapter[CurrentAdapter] \in AdapterBytes \cup {Nothing}
      BY <1>4, <2>3 DEF WorldInv
    <3> QED
      BY <2>3, <3>1 DEF MethodOf, Fingerprint
  <2> QED
    BY <2>1, <2>2, <2>3
<1>7. method \in TrainingMethods \cup {Nothing}
  BY <1>6 DEF TrainingMethods
<1> HIDE DEF method, key
<1>8. cmd.kind \in {"cross", "base"} => method # Nothing /\ ~Reused(e)
  BY <1>2 DEF Usable, e, method, key
<1>9. e.manifest \in Manifest
  BY <1>2, <1>4 DEF WorldInv, e, key
<1>10. e \in EntryOf(cmd.kind)
  <2>1. e.method \in IF cmd.kind \in {"cross", "base"} THEN TrainingMethods ELSE TrainingMethods \cup {Nothing}
    BY <1>2, <1>7, <1>8 DEF method
  <2>2. e.bundle \in AdapterPath \cup {Nothing}
    BY <1>2, <1>4
  <2>3. e.adapter \in AdapterBytes \cup {Nothing}
    BY <1>2, <1>6, <1>8
  <2>4. e.exec \in IF cmd.kind = "base" THEN Exec ELSE {Nothing}
    BY <1>2, <1>5
  <2>5. e.path \in RunPath /\ e.rows \in RowBytes /\ e.checkpoint \in AdapterBytes \cup {Pinned}
    BY <1>2, <1>4, <1>5
  <2> QED
    BY <1>3, <1>9, <2>1, <2>2, <2>3, <2>4, <2>5 DEF EntryOf
<1>11. SoundEntry(e, key)
  BY <1>2, <1>4 DEF SoundEntry, AddUp, RowsValid
<1>12. ASSUME cmd.kind \in {"cross", "base"}
       PROVE  /\ Provenance(e, key, Collected(cmd))
              /\ \A k \in DOMAIN cmd.got : Distinct(cmd.got[k], e)
  <2>1. cmd.kind = "base" => key[2] = Base
    BY <1>1 DEF ReadInv, key
  <2>2. Collected(cmd).schema = cmd.kind /\ Collected(cmd).contract = cmd.contract
    BY DEF Collected
  <2>3. Provenance(e, key, Collected(cmd))
    BY <1>2, <1>6, <1>8, <1>12, <2>1, <2>2 DEF Provenance, method
  <2> QED
    BY <1>8, <1>12, <2>3 DEF Reused, Distinct
<1> QED
  BY <1>1, <1>10, <1>11, <1>12 DEF e, key

\* What is written is good evidence; what is there is not replaced.
LEMMA WritesFile ==
    ASSUME FileInv, NEW target \in OutPath, NEW content, GoodFile(content), Write(target, content),
           UNCHANGED entered
    PROVE  FileInv'
BY DEF FileInv, Write

\* One run more has been collected.
LEMMA RecordsRun ==
    ASSUME WorldInv, CmdInv, RecordRun
    PROVE  cmd' = Idle \/ ReadInv(cmd')
<1> SUFFICES ASSUME cmd' # Idle PROVE ReadInv(cmd')
  OBVIOUS
<1>1. ReadInv(cmd) /\ cmd.todo # <<>> /\ cmd.at = "record"
  BY PlaceIs DEF RecordRun, Reading
<1> DEFINE k0 == CurrentKey
           e0 == Entry(k0)
<1>2. /\ e0.manifest # Nothing /\ Usable(e0)
      /\ cmd' = [cmd EXCEPT !.at = "manifest", !.todo = Tail(@), !.given = Nothing, !.manifest = Nothing,
                            !.rows = Nothing, !.read = Nothing, !.got = With(@, k0, e0)]
  BY DEF RecordRun, Continue, Refuse, End
<1>3. DOMAIN cmd = ReadFields
  BY <1>1 DEF ReadInv
<1>4. /\ k0 \in Key /\ e0 \in EntryOf(cmd.kind) /\ SoundEntry(e0, k0)
      /\ cmd.kind \in {"cross", "base"} => /\ Provenance(e0, k0, Collected(cmd))
                                           /\ \A k \in DOMAIN cmd.got : Distinct(cmd.got[k], e0)
  BY <1>1, <1>2, EntryIsGood
<1>5. /\ Head(cmd.todo) = k0 /\ Tail(cmd.todo) \in Seq(Key)
      /\ Range(cmd.todo) = {k0} \cup Range(Tail(cmd.todo))
  BY <1>1, HeadAndTail DEF ReadInv, CurrentKey
<1> HIDE DEF k0, e0
<1>6. /\ DOMAIN cmd' = ReadFields /\ cmd'.at = "manifest" /\ cmd'.kind = cmd.kind
      /\ cmd'.contract = cmd.contract /\ cmd'.target = cmd.target /\ cmd'.todo = Tail(cmd.todo)
      /\ cmd'.got = With(cmd.got, k0, e0)
  BY <1>2, <1>3 DEF ReadFields
<1>7. GoodEvidence(Collected(cmd'))
  <2>1. PICK a, b : a = Collected(cmd) /\ b = Collected(cmd')
    OBVIOUS
  <2>2. /\ a.schema = cmd.kind /\ a.contract = cmd.contract /\ a.got = cmd.got
        /\ b.schema = cmd.kind /\ b.contract = cmd.contract /\ b.got = With(cmd.got, k0, e0)
    BY <1>6, <2>1 DEF Collected
  <2>3. PICK k \in Key, e \in EntryOf(a.schema) : k = k0 /\ e = e0
    BY <1>4, <2>2
  <2>4. /\ GoodEvidence(a) /\ SoundEntry(e, k)
        /\ a.schema \in {"cross", "base"} => /\ Provenance(e, k, a)
                                             /\ \A l \in DOMAIN a.got : Distinct(a.got[l], e)
    BY <1>1, <1>4, <2>1, <2>2, <2>3 DEF ReadInv
  <2>5. b.schema = a.schema /\ b.contract = a.contract /\ b.got = With(a.got, k, e)
    BY <2>2, <2>3
  <2>6. GoodEvidence(b)
    BY <2>4, <2>5, GoodWithOneMore
  <2> QED
    BY <2>1, <2>6
<1>8. DOMAIN cmd'.got = DOMAIN cmd.got \cup {k0}
  BY <1>6 DEF With
<1> QED
  BY <1>1, <1>5, <1>6, <1>7, <1>8 DEF ReadInv

\* What is concluded is good evidence.
LEMMA ConcludesGood ==
    ASSUME WorldInv, FileInv, CmdInv, Conclude
    PROVE  FileInv' /\ cmd' = Idle
<1>1. ReadInv(cmd) /\ cmd.todo = <<>>
  BY PlaceIs DEF Conclude
<1>2. cmd' = Idle
  BY DEF Conclude, Write, Refuse, End
<1>3. CASE out' = out /\ entered' = entered
  BY <1>2, <1>3 DEF FileInv
<1>4. CASE ~(out' = out /\ entered' = entered)
  <2>1. /\ Consistent(cmd.got, cmd.kind) /\ cmd.kind # "require" /\ UNCHANGED entered
        /\ Write(cmd.target, Artifact(cmd.got))
    BY <1>4 DEF Conclude, Refuse
  <2>2. PICK a : a = Artifact(cmd.got)
    OBVIOUS
  <2>3. a = Collected(cmd) /\ a.schema = cmd.kind /\ a.got = cmd.got
    BY <2>2 DEF Artifact, Collected
  <2>4. Range(cmd.todo) = {}
    BY <1>1 DEF Range
  <2>5. /\ cmd.kind = "cross" => DOMAIN cmd.got = Key
        /\ cmd.kind = "base" => DOMAIN cmd.got = Fold \X {Base}
    BY <1>1, <2>4 DEF ReadInv
  <2>6. GoodSource(a)
    BY <1>1, <2>1, <2>3, <2>5 DEF ReadInv, GoodSource, Consistent
  <2>7. GoodFile(a)
    BY <2>6 DEF GoodFile, GoodSource
  <2>8. PICK t \in OutPath : t = cmd.target
    BY <1>1 DEF ReadInv
  <2>9. Write(t, a) /\ UNCHANGED entered
    BY <2>1, <2>2, <2>8
  <2>10. FileInv'
    BY <2>7, <2>9, WritesFile
  <2> QED
    BY <1>2, <2>10
<1> QED
  BY <1>2, <1>3, <1>4

\* A command about a freeze starts.
LEMMA StartsFreeze ==
    ASSUME WorldInv, FileInv, StartFreeze \/ StartEnter
    PROVE  FreezeInv(cmd') /\ FileInv'
<1>1. CASE StartFreeze
  <2>1. PICK kind \in {"freeze", "freezeBase"}, from \in OutPath, target \in OutPath,
             primary \in Range(Label), fallback \in Range(Label) \cup {Nothing} :
          /\ target \in Name[kind]
          /\ fallback # primary
          /\ kind = "freezeBase" => primary = Base /\ fallback = Nothing
          /\ cmd' = [at |-> "parse", kind |-> kind, from |-> from, target |-> target, contract |-> Nothing,
                     primary |-> primary, fallback |-> fallback, frozen |-> Nothing,
                     source |-> Nothing, digest |-> Nothing, todo |-> <<>>, touched |-> {}]
    BY <1>1 DEF StartFreeze
  <2>2. /\ DOMAIN cmd' = FreezeFields /\ cmd'.at = "parse" /\ cmd'.kind = kind /\ cmd'.from = from
        /\ cmd'.target = target /\ cmd'.primary = primary /\ cmd'.fallback = fallback
    BY <2>1 DEF FreezeFields
  <2>3. Chosen(kind, primary, fallback)
    BY <2>1 DEF Chosen
  <2>4. FileInv'
    BY <1>1 DEF StartFreeze, FileInv
  <2> QED
    BY <2>2, <2>3, <2>4 DEF FreezeInv, Skips
<1>2. CASE StartEnter
  <2>1. PICK from \in OutPath :
          /\ out[from] # Nothing /\ out[from].schema \in {"freeze", "freezeBase"}
          /\ cmd' = [at |-> IF out[from].schema = "freeze" THEN "finish" ELSE "parse",
                     kind |-> "enter", from |-> out[from].from, target |-> Nothing, contract |-> now,
                     primary |-> out[from].primary, fallback |-> out[from].fallback, frozen |-> out[from],
                     source |-> Nothing, digest |-> Nothing, todo |-> <<>>, touched |-> {}]
    BY <1>2 DEF StartEnter
  <2>2. PICK f : f = out[from]
    OBVIOUS
  <2>3. GoodFreeze(f)
    BY <2>1, <2>2 DEF FileInv, GoodFile
  <2>4. /\ DOMAIN cmd' = FreezeFields /\ cmd'.kind = "enter" /\ cmd'.frozen = f /\ cmd'.from = f.from
        /\ cmd'.at = IF f.schema = "freeze" THEN "finish" ELSE "parse"
    BY <2>1, <2>2 DEF FreezeFields
  <2>5. f.from \in OutPath
    BY <2>3 DEF GoodFreeze
  <2>6. FileInv'
    BY <1>2 DEF StartEnter, FileInv
  <2> QED
    BY <2>3, <2>4, <2>5, <2>6 DEF FreezeInv, Skips
<1> QED
  BY <1>1, <1>2

\* The source of a freeze is parsed, and opened again for its digest.
LEMMA ReadsSource ==
    ASSUME WorldInv, FileInv, CmdInv, ParseSource \/ DigestSource
    PROVE  (cmd' = Idle \/ FreezeInv(cmd')) /\ FileInv'
<1>1. FileInv'
  BY DEF ParseSource, DigestSource, Continue, Refuse, FileInv
<1> SUFFICES ASSUME cmd' # Idle PROVE FreezeInv(cmd')
  BY <1>1
<1>2. FreezeInv(cmd) /\ ~Skips(cmd) /\ cmd.kind \in {"freeze", "freezeBase", "enter"}
  BY PlaceIs DEF ParseSource, DigestSource, FreezeInv
<1>3. DOMAIN cmd = FreezeFields /\ cmd.from \in OutPath
  BY <1>2 DEF FreezeInv
<1>4. CASE ParseSource
  <2>1. PICK a : /\ a = out[cmd.from] /\ a # Nothing /\ a.schema \in Schemas(cmd.kind)
                 /\ cmd' = [cmd EXCEPT !.at = "digest", !.source = a]
    BY <1>4 DEF ParseSource, Continue, Refuse, End
  <2>2. GoodSource(a)
    BY <1>3, <2>1 DEF FileInv, GoodFile, Schemas
  <2>3. /\ DOMAIN cmd' = FreezeFields /\ cmd'.at = "digest" /\ cmd'.kind = cmd.kind /\ cmd'.from = cmd.from
        /\ cmd'.target = cmd.target /\ cmd'.primary = cmd.primary /\ cmd'.fallback = cmd.fallback
        /\ cmd'.frozen = cmd.frozen /\ cmd'.source = a
    BY <1>3, <2>1 DEF FreezeFields
  <2> QED
    BY <1>2, <2>1, <2>2, <2>3 DEF FreezeInv, Skips
<1>5. CASE DigestSource
  <2> DEFINE t0 == Rechecks(cmd.kind, cmd.primary, cmd.fallback)
  <2>1. PICK a : /\ a = out[cmd.from] /\ a # Nothing /\ cmd.at = "digest"
                 /\ cmd' = [cmd EXCEPT !.at = Opening(t0), !.digest = a, !.todo = t0]
    BY <1>5 DEF DigestSource, Continue, Refuse, End
  <2>2. a.schema \in {"cross", "base", "probe", "freeze", "freezeBase"}
    BY <1>3, <2>1 DEF FileInv, GoodFile, GoodFreeze, GoodSource
  <2>3. PICK kind \in {"freeze", "freezeBase", "enter"} : kind = cmd.kind
    BY <1>2
  <2>a. PICK primary, fallback : primary = cmd.primary /\ fallback = cmd.fallback
    OBVIOUS
  <2>4. kind # "enter" => Chosen(kind, primary, fallback)
    BY <1>2, <2>3, <2>a DEF FreezeInv
  <2>5. /\ t0 \in Seq(RecheckItem)
        /\ cmd.kind # "freeze" => \A i \in DOMAIN t0 : t0[i].key \in Fold \X {Base}
    BY <2>3, <2>a, <2>4, RechecksVisit
  <2>6. /\ GoodSource(cmd.source) /\ cmd.source.schema \in Schemas(cmd.kind)
    BY <1>2, <2>1 DEF FreezeInv
  <2> HIDE DEF t0
  <2>7. \A i \in DOMAIN t0 : t0[i].key \in DOMAIN cmd.source.got
    <3>1. CASE cmd.kind = "freeze"
      <4>1. DOMAIN cmd.source.got = Key
        BY <2>6, <3>1 DEF GoodSource, Schemas
      <4>2. \A i \in DOMAIN t0 : t0[i] \in RecheckItem
        BY <2>5
      <4> QED
        BY <4>1, <4>2 DEF RecheckItem
    <3>2. CASE cmd.kind # "freeze"
      BY <2>5, <2>6, <3>2 DEF GoodSource, Schemas
    <3> QED
      BY <3>1, <3>2
  <2>8. /\ DOMAIN cmd' = FreezeFields /\ cmd'.at = Opening(t0) /\ cmd'.kind = cmd.kind /\ cmd'.from = cmd.from
        /\ cmd'.target = cmd.target /\ cmd'.primary = cmd.primary /\ cmd'.fallback = cmd.fallback
        /\ cmd'.frozen = cmd.frozen /\ cmd'.source = cmd.source /\ cmd'.digest = a /\ cmd'.todo = t0
    BY <1>3, <2>1 DEF FreezeFields
  <2>9. /\ Opening(t0) \in {"finish", "method", "rehash"}
        /\ Opening(t0) = "finish" <=> t0 = <<>>
    BY DEF Opening
  <2> QED
    BY <1>2, <2>2, <2>5, <2>6, <2>7, <2>8, <2>9 DEF FreezeInv, Skips
<1> QED
  BY <1>4, <1>5

\* What is opened again is checked off one by one.
LEMMA OpensAgain ==
    ASSUME FileInv, CmdInv, RecheckMethod \/ RecheckRows \/ RecheckManifest \/ RereadManifest
    PROVE  (cmd' = Idle \/ FreezeInv(cmd')) /\ FileInv'
<1>1. FileInv'
  BY DEF RecheckMethod, RecheckRows, RecheckManifest, RereadManifest, Continue, Refuse, FileInv
<1> SUFFICES ASSUME cmd' # Idle PROVE FreezeInv(cmd')
  BY <1>1
<1>2. /\ FreezeInv(cmd) /\ ~Skips(cmd) /\ cmd.at \in {"method", "rehash", "remanifest", "reread"}
      /\ cmd.todo # <<>>
  BY PlaceIs DEF RecheckMethod, RecheckRows, RecheckManifest, RereadManifest, Reading, FreezeInv
<1>3. DOMAIN cmd = FreezeFields /\ cmd.todo \in Seq(RecheckItem)
  BY <1>2 DEF FreezeInv
<1>4. PICK at : \/ /\ cmd' = [cmd EXCEPT !.at = at, !.todo = @]
                   /\ at \in {"rehash", "remanifest", "reread"}
                \/ /\ cmd' = [cmd EXCEPT !.at = at, !.todo = Tail(@)]
                   /\ at = Opening(Tail(cmd.todo))
  <2>1. CASE RecheckMethod
    <3>1. cmd' = [cmd EXCEPT !.at = "rehash"]
      BY <2>1 DEF RecheckMethod, Continue, Refuse, End
    <3>2. cmd' = [cmd EXCEPT !.at = "rehash", !.todo = @]
      BY <1>3, <3>1 DEF FreezeFields
    <3> QED
      BY <3>2
  <2>2. CASE RecheckRows
    <3>1. cmd' = [cmd EXCEPT !.at = "remanifest"]
      BY <2>2 DEF RecheckRows, Continue, Refuse, End
    <3>2. cmd' = [cmd EXCEPT !.at = "remanifest", !.todo = @]
      BY <1>3, <3>1 DEF FreezeFields
    <3> QED
      BY <3>2
  <2>3. CASE RecheckManifest
    <3>1. cmd' = [cmd EXCEPT !.at = "reread"]
      BY <2>3 DEF RecheckManifest, Continue, Refuse, End
    <3>2. cmd' = [cmd EXCEPT !.at = "reread", !.todo = @]
      BY <1>3, <3>1 DEF FreezeFields
    <3> QED
      BY <3>2
  <2>4. CASE RereadManifest
    <3>1. cmd' = [cmd EXCEPT !.at = Opening(Tail(cmd.todo)), !.todo = Tail(@)]
      BY <2>4 DEF RereadManifest, Continue, Refuse, End
    <3> QED
      BY <3>1
  <2> QED
    BY <2>1, <2>2, <2>3, <2>4
<1>5. PICK todo0 : todo0 = cmd'.todo
  OBVIOUS
<1>6. /\ DOMAIN cmd' = FreezeFields /\ cmd'.at = at /\ cmd'.kind = cmd.kind /\ cmd'.from = cmd.from
      /\ cmd'.target = cmd.target /\ cmd'.primary = cmd.primary /\ cmd'.fallback = cmd.fallback
      /\ cmd'.frozen = cmd.frozen /\ cmd'.source = cmd.source /\ cmd'.digest = cmd.digest
      /\ \/ todo0 = cmd.todo /\ at \in {"rehash", "remanifest", "reread"}
         \/ todo0 = Tail(cmd.todo) /\ at = Opening(todo0)
  BY <1>3, <1>4, <1>5 DEF FreezeFields
<1>7. /\ Opening(todo0) \in {"finish", "method", "rehash"}
      /\ (Opening(todo0) = "finish") <=> (todo0 = <<>>)
  BY DEF Opening
<1>8. /\ todo0 \in Seq(RecheckItem) /\ \A i \in DOMAIN todo0 : todo0[i].key \in DOMAIN cmd.source.got
  <2>1. \A i \in DOMAIN cmd.todo : cmd.todo[i].key \in DOMAIN cmd.source.got
    BY <1>2 DEF FreezeInv
  <2>2. CASE todo0 = cmd.todo
    BY <1>3, <2>1, <2>2
  <2>3. CASE todo0 = Tail(cmd.todo)
    <3>1. PICK s \in Seq(RecheckItem) : s = cmd.todo /\ s # <<>>
      BY <1>2, <1>3
    <3>2. /\ Tail(s) \in Seq(RecheckItem) /\ DOMAIN s = 1..Len(s) /\ Len(s) \in Nat
          /\ DOMAIN Tail(s) = 1..(Len(s) - 1) /\ \A i \in 1..(Len(s) - 1) : Tail(s)[i] = s[i + 1]
      BY <3>1
    <3>3. \A i \in 1..(Len(s) - 1) : i + 1 \in 1..Len(s)
      BY <3>2
    <3> QED
      BY <2>1, <2>3, <3>1, <3>2, <3>3
  <2> QED
    BY <1>6, <2>2, <2>3
<1>9. at \in {"method", "rehash", "remanifest", "reread", "finish"} /\ (at = "finish" <=> todo0 = <<>>)
  BY <1>2, <1>6, <1>7
<1> QED
  BY <1>2, <1>5, <1>6, <1>8, <1>9 DEF FreezeInv, Skips

\* A freeze is published with the evidence it was made from; an entry goes on
\* with a freeze that was there.
LEMMA Finishes ==
    ASSUME FileInv, CmdInv, PublishFreeze \/ Enter
    PROVE  FileInv' /\ cmd' = Idle
<1>1. FreezeInv(cmd) /\ cmd.at = "finish"
  BY PlaceIs DEF PublishFreeze, Enter
<1>2. CASE PublishFreeze
  <2>1. /\ cmd.kind # "enter" /\ ~Skips(cmd) /\ UNCHANGED entered
        /\ Write(cmd.target, FreezeArtifact)
    BY <1>2 DEF PublishFreeze, Skips
  <2>2. PICK f : f = FreezeArtifact
    OBVIOUS
  <2>3. /\ f.schema = cmd.kind /\ f.from = cmd.from /\ f.digest = cmd.digest /\ f.payload = cmd.source
        /\ f.contract = cmd.source.contract /\ f.primary = cmd.primary /\ f.fallback = cmd.fallback
    BY <2>2 DEF FreezeArtifact
  <2>4. GoodFreeze(f)
    BY <1>1, <2>1, <2>3 DEF FreezeInv, GoodFreeze
  <2>5. GoodFile(f)
    BY <2>4 DEF GoodFile, GoodFreeze
  <2>6. PICK t \in OutPath : t = cmd.target
    BY <1>1, <2>1 DEF FreezeInv
  <2>7. Write(t, f) /\ UNCHANGED entered
    BY <2>1, <2>2, <2>6
  <2>8. FileInv'
    BY <2>5, <2>7, WritesFile
  <2> QED
    BY <2>1, <2>8 DEF Write, End
<1>3. CASE Enter
  <2>1. cmd' = Idle /\ out' = out /\ (entered' = entered \/ entered' = cmd.frozen)
    BY <1>3 DEF Enter, Refuse, End
  <2>2. GoodFreeze(cmd.frozen)
    BY <1>1, <1>3 DEF FreezeInv, Enter
  <2> QED
    BY <2>1, <2>2 DEF FileInv
<1> QED
  BY <1>2, <1>3

\* Commands change nothing they read.
LEMMA WorldKept ==
    ASSUME WorldInv, UNCHANGED world
    PROVE  WorldInv'
BY DEF WorldInv, world

\* A replaced file is noted by a command about a freeze and by no other.
LEMMA TouchKeepsCmd ==
    ASSUME CmdInv, NEW what, Touch(what)
    PROVE  CmdInv'
<1>1. CASE "touched" \notin DOMAIN cmd
  <2>1. cmd' = cmd
    BY <1>1 DEF Touch
  <2> QED
    BY <2>1 DEF CmdInv
<1>2. CASE "touched" \in DOMAIN cmd
  <2>1. FreezeInv(cmd)
    BY <1>2 DEF CmdInv, Idle, ReadInv, ReadFields
  <2>2. cmd' = [cmd EXCEPT !.touched = @ \cup {what}] /\ DOMAIN cmd = FreezeFields
    BY <1>2, <2>1 DEF Touch, FreezeInv
  <2>3. PICK d : d = cmd'
    OBVIOUS
  <2>4. /\ DOMAIN d = FreezeFields /\ d.at = cmd.at /\ d.kind = cmd.kind /\ d.from = cmd.from
        /\ d.target = cmd.target /\ d.primary = cmd.primary /\ d.fallback = cmd.fallback
        /\ d.frozen = cmd.frozen /\ d.source = cmd.source /\ d.digest = cmd.digest /\ d.todo = cmd.todo
    BY <2>2, <2>3 DEF FreezeFields
  <2>5. FreezeInv(d)
    BY <2>1, <2>4 DEF FreezeInv, Skips
  <2>6. FreezeInv(cmd')
    BY <2>3, <2>5
  <2> QED
    BY <2>6 DEF CmdInv
<1> QED
  BY <1>1, <1>2

\* What happens around a command leaves files of their kind and good evidence.
LEMMA WorldSteps ==
    ASSUME WorldInv, FileInv, CmdInv,
           ReplaceRun \/ ReplaceAdapter \/ ChangeSources \/ ReplaceArtifact \/ ChangeContract
    PROVE  WorldInv' /\ FileInv' /\ CmdInv'
<1>1. PICK what : Touch(what)
  BY DEF ReplaceRun, ReplaceAdapter, ChangeSources, ReplaceArtifact, ChangeContract
<1>2. CmdInv'
  BY <1>1, TouchKeepsCmd
<1>3. faults' \in 0..MaxFaults /\ entered' = entered
  BY <1>1, SelectionAssumption DEF Touch, WorldInv
<1>4. CASE ReplaceRun
  <2>1. PICK r \in Replacement :
        /\ \/ /\ r[1] = "rows" /\ rows' = [rows EXCEPT ![r[2]] = r[3]] /\ UNCHANGED manifest
              /\ swapped' = swapped \cup {h \in Hashed : h[1] = r[2]}
           \/ r[1] = "manifest" /\ manifest' = [manifest EXCEPT ![r[2]] = r[3]] /\ UNCHANGED <<rows, swapped>>
        /\ UNCHANGED <<now, adapter, stands, out>>
    BY <1>4 DEF ReplaceRun
  <2>5. Hashed \subseteq RunPath \X RowBytes
    <3>1. cmd.at = "rows" => CurrentRun \in RunPath /\ cmd.rows \in RowBytes
      BY PlaceIs DEF ReadInv, CurrentRun, Manifest
    <3> QED
      BY <3>1 DEF Hashed
  <2>6. swapped' \subseteq RunPath \X RowBytes
    BY <2>1, <2>5 DEF WorldInv
  <2>2. (r[1] = "rows" => r[3] \in RowBytes \cup {Nothing}) /\ (r[1] = "manifest" => r[3] \in Manifest \cup {Nothing})
    BY FilesAssumption
  <2>3. rows' \in [RunPath -> RowBytes \cup {Nothing}]
    BY <2>1, <2>2 DEF WorldInv
  <2>4. manifest' \in [RunPath -> Manifest \cup {Nothing}]
    BY <2>1, <2>2 DEF WorldInv
  <2> QED
    BY <1>2, <1>3, <2>1, <2>3, <2>4, <2>6 DEF WorldInv, FileInv
<1>5. CASE ReplaceAdapter
  <2>1. PICK r \in Replacement : /\ r[1] = "adapter" /\ adapter' = [adapter EXCEPT ![r[2]] = r[3]]
                                 /\ UNCHANGED <<now, rows, manifest, stands, out, swapped>>
    BY <1>5 DEF ReplaceAdapter
  <2>2. r[3] \in AdapterBytes \cup {Nothing}
    BY <2>1, FilesAssumption
  <2>3. adapter' \in [AdapterPath -> AdapterBytes \cup {Nothing}]
    BY <2>1, <2>2 DEF WorldInv
  <2> QED
    BY <1>2, <1>3, <2>1, <2>3 DEF WorldInv, FileInv
<1>6. CASE ChangeSources
  BY <1>2, <1>3, <1>6 DEF ChangeSources, WorldInv, FileInv
<1>7. CASE ReplaceArtifact
  <2>1. PICK path \in OutPath, content \in Range(out) \cup {Nothing} :
        out' = [out EXCEPT ![path] = content] /\ UNCHANGED <<now, rows, manifest, adapter, stands, swapped>>
    BY <1>7 DEF ReplaceArtifact
  <2>2. content # Nothing => GoodFile(content)
    BY <2>1 DEF Range, FileInv
  <2>3. FileInv'
    BY <1>3, <2>1, <2>2 DEF FileInv
  <2> QED
    BY <1>2, <1>3, <2>1, <2>3 DEF WorldInv
<1>8. CASE ChangeContract
  BY <1>2, <1>3, <1>8 DEF ChangeContract, WorldInv, FileInv
<1> QED
  BY <1>4, <1>5, <1>6, <1>7, <1>8

(***************************************************************************)
(* The way to the freeze: what was opened again stands                     *)
(***************************************************************************)
\* The rows and the manifest of an entry, as long as nobody replaced them since
\* the command began.
RowsStand(entry) == Untouched(<<"run", entry.path>>) => rows[entry.path] = entry.rows
ManifestStands(entry) == Untouched(<<"run", entry.path>>) => manifest[entry.path] = entry.manifest

\* What the check of one item establishes.
ItemStands(item) ==
    LET entry == cmd.source.got[item.key]
    IN /\ RowsStand(entry) /\ ManifestStands(entry)
       /\ IF item.deployed THEN BundleStands(entry) ELSE SourcesOf(entry)

\* Every item is still to do or stands.
ItemsInv ==
    \A item \in Range(Rechecks(cmd.kind, cmd.primary, cmd.fallback)) :
        item \in Range(cmd.todo) \/ ItemStands(item)

\* What the check of the first item has established so far.
HeadInv ==
    /\ cmd.at \in {"rehash", "remanifest", "reread"} /\ Item.deployed => BundleStands(Recorded)
    /\ cmd.at \in {"remanifest", "reread"} => RowsStand(Recorded)
    /\ cmd.at = "reread" => ManifestStands(Recorded)

\* An entry has parsed and hashed the file that is there.
ParsedInv == cmd.at # "parse" => (Untouched(<<"out", cmd.from>>) => out[cmd.from] = cmd.source)
HashedInv == cmd.at \notin {"parse", "digest"} => (Untouched(<<"out", cmd.from>>) => cmd.digest = cmd.source)

\* What a command about a freeze knows of the files.
StandsInv ==
    DOMAIN cmd = FreezeFields /\ ~Skips(cmd) =>
        /\ cmd.at \notin {"parse", "digest"} => ItemsInv /\ HeadInv
        /\ cmd.kind = "enter" => ParsedInv /\ HashedInv

\* An entry of a run that is well placed.
Placed(entry) == entry.path \in RunPath /\ entry.bundle \in AdapterPath \cup {Nothing}

\* What goes on around a command.
Around == ReplaceRun \/ ReplaceAdapter \/ ChangeSources \/ ReplaceArtifact \/ ChangeContract

\* What stands goes on standing, or was replaced.
LEMMA StaysFresh ==
    ASSUME WorldInv, DOMAIN cmd = FreezeFields, Around, NEW e, Placed(e)
    PROVE  /\ RowsStand(e) => RowsStand(e)'
           /\ ManifestStands(e) => ManifestStands(e)'
           /\ BundleStands(e) => BundleStands(e)'
           /\ SourcesOf(e) => SourcesOf(e)'
<1>1. PICK what : Touch(what)
  BY DEF Around, ReplaceRun, ReplaceAdapter, ChangeSources, ReplaceArtifact, ChangeContract
<1>2. \A w : Touch(w) => cmd'.touched = cmd.touched \cup {w}
  BY DEF Touch, FreezeFields
<1>3. cmd.touched \subseteq cmd'.touched
  BY <1>1, <1>2
<1>4. ASSUME rows'[e.path] # rows[e.path] \/ manifest'[e.path] # manifest[e.path]
      PROVE  ReplaceRun
  BY <1>4 DEF Around, ReplaceAdapter, ChangeSources, ReplaceArtifact, ChangeContract
<1>5. ASSUME rows'[e.path] # rows[e.path] \/ manifest'[e.path] # manifest[e.path]
      PROVE  <<"run", e.path>> \in cmd'.touched
  <2>1. PICK r \in Replacement :
        /\ \/ r[1] = "rows" /\ rows' = [rows EXCEPT ![r[2]] = r[3]] /\ UNCHANGED manifest
           \/ r[1] = "manifest" /\ manifest' = [manifest EXCEPT ![r[2]] = r[3]] /\ UNCHANGED rows
        /\ Touch(<<"run", r[2]>>)
    BY <1>4, <1>5 DEF ReplaceRun
  <2>2. r[2] = e.path
    BY <1>5, <2>1 DEF WorldInv, Placed
  <2> QED
    BY <1>2, <2>1, <2>2
<1>6. ASSUME e.bundle # Nothing, adapter'[e.bundle] # adapter[e.bundle]
      PROVE  <<"adapter", e.bundle>> \in cmd'.touched
  <2>1. PICK r \in Replacement : /\ adapter' = [adapter EXCEPT ![r[2]] = r[3]]
                                 /\ Touch(<<"adapter", r[2]>>)
    BY <1>6 DEF Around, ReplaceRun, ReplaceAdapter, ChangeSources, ReplaceArtifact, ChangeContract
  <2>2. r[2] = e.bundle
    BY <1>6, <2>1 DEF WorldInv, Placed
  <2> QED
    BY <1>2, <2>1, <2>2
<1>7. ASSUME e.exec \in stands, e.exec \notin stands' PROVE <<"sources", e.exec>> \in cmd'.touched
  <2>1. PICK x \in stands : stands' = stands \ {x} /\ Touch(<<"sources", x>>)
    BY <1>7 DEF Around, ReplaceRun, ReplaceAdapter, ChangeSources, ReplaceArtifact, ChangeContract
  <2>2. x = e.exec
    BY <1>7, <2>1
  <2> QED
    BY <1>2, <2>1, <2>2
<1>8. RowsStand(e) => RowsStand(e)'
  BY <1>3, <1>5 DEF RowsStand, Untouched
<1>9. ManifestStands(e) => ManifestStands(e)'
  BY <1>3, <1>5 DEF ManifestStands, Untouched
<1>10. BundleStands(e) => BundleStands(e)'
  BY <1>3, <1>6 DEF BundleStands, Untouched
<1>11. SourcesOf(e) => SourcesOf(e)'
  BY <1>3, <1>7 DEF SourcesOf, Untouched
<1> QED
  BY <1>8, <1>9, <1>10, <1>11

\* The artifact an entry read stays, or was replaced.
LEMMA ArtifactStays ==
    ASSUME FileInv, DOMAIN cmd = FreezeFields, Around, NEW p \in OutPath
    PROVE  Untouched(<<"out", p>>)' => Untouched(<<"out", p>>) /\ out'[p] = out[p]
<1>1. PICK what : Touch(what)
  BY DEF Around, ReplaceRun, ReplaceAdapter, ChangeSources, ReplaceArtifact, ChangeContract
<1>2. \A w : Touch(w) => cmd'.touched = cmd.touched \cup {w}
  BY DEF Touch, FreezeFields
<1>3. ASSUME out'[p] # out[p] PROVE <<"out", p>> \in cmd'.touched
  <2>1. PICK path \in OutPath, content \in Range(out) \cup {Nothing} :
        out' = [out EXCEPT ![path] = content] /\ Touch(<<"out", path>>)
    BY <1>3 DEF Around, ReplaceRun, ReplaceAdapter, ChangeSources, ReplaceArtifact, ChangeContract
  <2>2. path = p
    BY <1>3, <2>1 DEF FileInv
  <2> QED
    BY <1>2, <2>1, <2>2
<1> QED
  BY <1>1, <1>2, <1>3 DEF Untouched

\* What a command checks is recorded in the evidence it parsed.
LEMMA ItemsRecorded ==
    ASSUME FreezeInv(cmd), ~Skips(cmd), cmd.at \notin {"parse", "digest"}
    PROVE  /\ \A item \in Range(Rechecks(cmd.kind, cmd.primary, cmd.fallback)) :
                 item.key \in DOMAIN cmd.source.got
           /\ \A key \in DOMAIN cmd.source.got :
                 /\ Placed(cmd.source.got[key])
                 /\ Provenance(cmd.source.got[key], key, cmd.source)
<1>1. GoodSource(cmd.source) /\ cmd.source.schema \in Schemas(cmd.kind) /\ cmd.at # "parse"
  BY DEF FreezeInv
<1>2. ASSUME NEW key \in DOMAIN cmd.source.got
      PROVE  Placed(cmd.source.got[key]) /\ Provenance(cmd.source.got[key], key, cmd.source)
  <2>1. cmd.source.got[key] \in EntryOf(cmd.source.schema)
    BY <1>1 DEF GoodSource, GoodEvidence, EvidenceOK
  <2>2. Placed(cmd.source.got[key])
    BY <2>1 DEF EntryOf, Placed
  <2>3. cmd.source.schema \in {"cross", "base"}
    BY <1>1 DEF Schemas
  <2> QED
    BY <1>1, <2>2, <2>3 DEF GoodSource, GoodEvidence
<1>3. PICK kind \in {"freeze", "freezeBase", "enter"} : kind = cmd.kind
  BY DEF FreezeInv
<1>4. PICK primary, fallback : primary = cmd.primary /\ fallback = cmd.fallback
  OBVIOUS
<1>5. kind # "enter" => Chosen(kind, primary, fallback)
  BY <1>3, <1>4 DEF FreezeInv
<1> DEFINE s == Rechecks(kind, primary, fallback)
<1>6. s \in Seq(RecheckItem) /\ (kind # "freeze" => \A i \in DOMAIN s : s[i].key \in Fold \X {Base})
  BY <1>5, RechecksVisit
<1>7. s = Rechecks(cmd.kind, cmd.primary, cmd.fallback)
  BY <1>3, <1>4
<1> HIDE DEF s
<1>8. ASSUME NEW item \in Range(s) PROVE item.key \in DOMAIN cmd.source.got
  <2>1. PICK i \in DOMAIN s : s[i] = item
    BY DEF Range
  <2>2. CASE kind = "freeze"
    <3>1. DOMAIN cmd.source.got = Key
      BY <1>1, <1>3, <2>2 DEF GoodSource, Schemas
    <3>2. item \in RecheckItem
      BY <1>6, <2>1
    <3> QED
      BY <3>1, <3>2 DEF RecheckItem
  <2>3. CASE kind # "freeze"
    BY <1>1, <1>3, <1>6, <2>1, <2>3 DEF GoodSource, Schemas
  <2> QED
    BY <2>2, <2>3
<1> QED
  BY <1>2, <1>7, <1>8

\* What was opened again stands whatever goes on around the command.
LEMMA AroundStands ==
    ASSUME WorldInv, FileInv, CmdInv, StandsInv, Around
    PROVE  StandsInv'
<1> SUFFICES ASSUME DOMAIN cmd' = FreezeFields, ~Skips(cmd')
             PROVE  /\ cmd'.at \notin {"parse", "digest"} => ItemsInv' /\ HeadInv'
                    /\ cmd'.kind = "enter" => ParsedInv' /\ HashedInv'
  BY DEF StandsInv
<1>1. PICK what : Touch(what)
  BY DEF Around, ReplaceRun, ReplaceAdapter, ChangeSources, ReplaceArtifact, ChangeContract
<1>2. FreezeInv(cmd) /\ DOMAIN cmd = FreezeFields
  BY <1>1 DEF Touch, CmdInv, Idle, ReadInv, ReadFields, FreezeFields, FreezeInv
<1>3. cmd' = [cmd EXCEPT !.touched = @ \cup {what}]
  BY <1>1, <1>2 DEF Touch, FreezeFields
<1>4. /\ cmd'.at = cmd.at /\ cmd'.kind = cmd.kind /\ cmd'.from = cmd.from
      /\ cmd'.primary = cmd.primary /\ cmd'.fallback = cmd.fallback
      /\ cmd'.frozen = cmd.frozen /\ cmd'.source = cmd.source /\ cmd'.digest = cmd.digest
      /\ cmd'.todo = cmd.todo
  BY <1>2, <1>3 DEF FreezeFields
<1>5. ~Skips(cmd)
  BY <1>4 DEF Skips
<1>6. ASSUME cmd.at \notin {"parse", "digest"} PROVE ItemsInv'
  <2> SUFFICES ASSUME NEW item \in Range(Rechecks(cmd'.kind, cmd'.primary, cmd'.fallback)),
                      item \notin Range(cmd'.todo)
               PROVE  ItemStands(item)'
    BY DEF ItemsInv
  <2>1. item \in Range(Rechecks(cmd.kind, cmd.primary, cmd.fallback)) /\ item \notin Range(cmd.todo)
    BY <1>4
  <2>2. ItemStands(item)
    BY <1>2, <1>5, <1>6, <2>1 DEF StandsInv, ItemsInv
  <2>3. PICK e : e = cmd.source.got[item.key]
    OBVIOUS
  <2>4. Placed(e)
    BY <1>2, <1>5, <1>6, <2>1, <2>3, ItemsRecorded
  <2>5. /\ RowsStand(e)' /\ ManifestStands(e)'
        /\ IF item.deployed THEN BundleStands(e)' ELSE SourcesOf(e)'
    BY <1>2, <2>2, <2>3, <2>4, StaysFresh DEF ItemStands
  <2>6. e = cmd'.source.got[item.key]
    BY <1>4, <2>3
  <2> QED
    BY <2>5, <2>6 DEF ItemStands
<1>7. ASSUME cmd.at \notin {"parse", "digest"} PROVE HeadInv'
  <2>1. HeadInv
    BY <1>2, <1>5, <1>7 DEF StandsInv
  <2>2. Item' = Item /\ Recorded' = Recorded
    BY <1>4 DEF Item, Recorded
  <2>3. ASSUME cmd.at \in {"rehash", "remanifest", "reread"}
        PROVE  /\ BundleStands(Recorded) => BundleStands(Recorded)'
               /\ RowsStand(Recorded) => RowsStand(Recorded)'
               /\ ManifestStands(Recorded) => ManifestStands(Recorded)'
    <3>1. PICK e : e = Recorded
      OBVIOUS
    <3>2. cmd.todo \in Seq(RecheckItem) /\ cmd.todo # <<>>
      BY <1>2, <1>5, <1>7, <2>3 DEF FreezeInv
    <3>3. 1 \in DOMAIN cmd.todo /\ Head(cmd.todo) = cmd.todo[1]
      BY <3>2
    <3>4. Item.key \in DOMAIN cmd.source.got
      BY <1>2, <1>5, <1>7, <3>3 DEF FreezeInv, Item
    <3>5. Placed(e)
      BY <1>2, <1>5, <1>7, <3>1, <3>4, ItemsRecorded DEF Recorded
    <3>6. e = Recorded'
      BY <2>2, <3>1
    <3>7. /\ BundleStands(e) => BundleStands(e)'
          /\ RowsStand(e) => RowsStand(e)'
          /\ ManifestStands(e) => ManifestStands(e)'
      BY <1>2, <3>5, StaysFresh
    <3>8. BundleStands(Recorded) => BundleStands(Recorded)'
      BY <3>1, <3>6, <3>7 DEF BundleStands
    <3>9. RowsStand(Recorded) => RowsStand(Recorded)'
      BY <3>1, <3>6, <3>7 DEF RowsStand
    <3>10. ManifestStands(Recorded) => ManifestStands(Recorded)'
      BY <3>1, <3>6, <3>7 DEF ManifestStands
    <3> QED
      BY <3>8, <3>9, <3>10
  <2> QED
    BY <1>4, <2>1, <2>2, <2>3 DEF HeadInv
<1>8. ASSUME cmd.kind = "enter" PROVE ParsedInv' /\ HashedInv'
  <2>1. ParsedInv /\ HashedInv
    BY <1>2, <1>5, <1>8 DEF StandsInv
  <2>2. PICK p \in OutPath : p = cmd.from /\ p = cmd'.from
    BY <1>2, <1>4 DEF FreezeInv
  <2>3. Untouched(<<"out", p>>)' => Untouched(<<"out", p>>) /\ out'[p] = out[p]
    BY <1>2, ArtifactStays
  <2> QED
    BY <1>4, <2>1, <2>2, <2>3 DEF ParsedInv, HashedInv, Untouched
<1> QED
  BY <1>4, <1>6, <1>7, <1>8

\* The steps of the commands change no file that is checked.
LEMMA CommandSteps ==
    ASSUME UNCHANGED world, NEW e, cmd'.touched = cmd.touched
    PROVE  /\ RowsStand(e) => RowsStand(e)'
           /\ ManifestStands(e) => ManifestStands(e)'
           /\ BundleStands(e) => BundleStands(e)'
           /\ SourcesOf(e) => SourcesOf(e)'
BY DEF world, RowsStand, ManifestStands, BundleStands, SourcesOf, Untouched

\* The source of an entry is the file that is there.
LEMMA ReadingStands ==
    ASSUME FileInv, CmdInv, StandsInv, ParseSource \/ DigestSource
    PROVE  StandsInv'
<1> SUFFICES ASSUME DOMAIN cmd' = FreezeFields, ~Skips(cmd')
             PROVE  /\ cmd'.at \notin {"parse", "digest"} => ItemsInv' /\ HeadInv'
                    /\ cmd'.kind = "enter" => ParsedInv' /\ HashedInv'
  BY DEF StandsInv
<1>1. FreezeInv(cmd) /\ ~Skips(cmd) /\ cmd.kind \in {"freeze", "freezeBase", "enter"}
  BY PlaceIs DEF ParseSource, DigestSource, FreezeInv
<1>2. DOMAIN cmd = FreezeFields /\ cmd' # Idle
  BY <1>1 DEF FreezeInv, Idle, FreezeFields
<1>3. CASE ParseSource
  <2>1. PICK a : /\ a = out[cmd.from] /\ out' = out
                 /\ cmd' = [cmd EXCEPT !.at = "digest", !.source = a]
    BY <1>2, <1>3 DEF ParseSource, Continue, Refuse, End
  <2>2. cmd'.at = "digest" /\ cmd'.kind = cmd.kind /\ cmd'.from = cmd.from /\ cmd'.source = a
    BY <1>2, <2>1 DEF FreezeFields
  <2> QED
    BY <2>1, <2>2 DEF ParsedInv, HashedInv
<1>4. CASE DigestSource
  <2> DEFINE t0 == Rechecks(cmd.kind, cmd.primary, cmd.fallback)
  <2>1. PICK a : /\ a = out[cmd.from] /\ cmd.at = "digest" /\ out' = out
                 /\ cmd' = [cmd EXCEPT !.at = Opening(t0), !.digest = a, !.todo = t0]
    BY <1>2, <1>4 DEF DigestSource, Continue, Refuse, End
  <2>2. t0 = Rechecks(cmd.kind, cmd.primary, cmd.fallback)
    OBVIOUS
  <2> HIDE DEF t0
  <2>3. /\ cmd'.at = Opening(t0) /\ cmd'.kind = cmd.kind /\ cmd'.from = cmd.from
        /\ cmd'.primary = cmd.primary /\ cmd'.fallback = cmd.fallback
        /\ cmd'.source = cmd.source /\ cmd'.digest = a /\ cmd'.todo = t0 /\ cmd'.touched = cmd.touched
    BY <1>2, <2>1 DEF FreezeFields
  <2>4. ItemsInv'
    BY <2>2, <2>3 DEF ItemsInv
  <2>5. HeadInv'
    <3>1. Opening(t0) \in {"finish", "method", "rehash"} /\ (Opening(t0) = "rehash" => ~Head(t0).deployed)
      BY DEF Opening
    <3> QED
      BY <2>3, <3>1 DEF HeadInv, Item
  <2>6. ASSUME cmd.kind = "enter" PROVE ParsedInv' /\ HashedInv'
    <3>1. Untouched(<<"out", cmd.from>>) => out[cmd.from] = cmd.source
      BY <1>1, <1>2, <2>1, <2>6 DEF StandsInv, ParsedInv
    <3> QED
      BY <2>1, <2>3, <3>1 DEF ParsedInv, HashedInv, Untouched
  <2> QED
    BY <2>3, <2>4, <2>5, <2>6
<1> QED
  BY <1>3, <1>4

\* The bundle of a run that is deployed is the one it was compared with; the
\* base has none.
LEMMA BundleChecked ==
    ASSUME NEW e, NEW key, NEW a, Provenance(e, key, a), a.schema \in {"cross", "base"}, MethodStands(e)
    PROVE  BundleStands(e)
<1>1. CASE key[2] = Base
  BY <1>1 DEF Provenance, BundleStands
<1>2. CASE key[2] # Base
  <2>1. e.adapter \in AdapterBytes /\ e.adapter.method = e.method
    BY <1>2 DEF Provenance
  <2>2. e.method # Pinned
    BY <2>1, SelectionAssumption
  <2> QED
    BY <2>2 DEF MethodStands, BundleStands
<1> QED
  BY <1>1, <1>2

\* Each check of an item adds to what stands.
LEMMA RecheckingStands ==
    ASSUME CmdInv, StandsInv, RecheckMethod \/ RecheckRows \/ RecheckManifest \/ RereadManifest
    PROVE  StandsInv'
<1> SUFFICES ASSUME DOMAIN cmd' = FreezeFields, ~Skips(cmd')
             PROVE  /\ cmd'.at \notin {"parse", "digest"} => ItemsInv' /\ HeadInv'
                    /\ cmd'.kind = "enter" => ParsedInv' /\ HashedInv'
  BY DEF StandsInv
<1>1. /\ FreezeInv(cmd) /\ ~Skips(cmd) /\ cmd.at \in {"method", "rehash", "remanifest", "reread"}
      /\ cmd.todo # <<>>
  BY PlaceIs DEF RecheckMethod, RecheckRows, RecheckManifest, RereadManifest, Reading, FreezeInv
<1>2. DOMAIN cmd = FreezeFields /\ cmd' # Idle /\ cmd.todo \in Seq(RecheckItem)
  BY <1>1 DEF FreezeInv, Idle, FreezeFields
<1>3. PICK todo0 : /\ \/ todo0 = cmd.todo /\ ~RereadManifest
                      \/ todo0 = Tail(cmd.todo) /\ RereadManifest
                   /\ cmd' = [cmd EXCEPT !.at = cmd'.at, !.todo = todo0]
  <2>1. CASE RecheckMethod
    <3>1. cmd' = [cmd EXCEPT !.at = "rehash"] /\ cmd.at = "method"
      BY <1>2, <2>1 DEF RecheckMethod, Continue, Refuse, End, Reading
    <3>2. cmd' = [cmd EXCEPT !.at = cmd'.at, !.todo = cmd.todo] /\ ~RereadManifest
      BY <1>2, <3>1 DEF FreezeFields, RereadManifest, Reading
    <3> QED
      BY <3>2
  <2>2. CASE RecheckRows
    <3>1. cmd' = [cmd EXCEPT !.at = "remanifest"] /\ cmd.at = "rehash"
      BY <1>2, <2>2 DEF RecheckRows, Continue, Refuse, End, Reading
    <3>2. cmd' = [cmd EXCEPT !.at = cmd'.at, !.todo = cmd.todo] /\ ~RereadManifest
      BY <1>2, <3>1 DEF FreezeFields, RereadManifest, Reading
    <3> QED
      BY <3>2
  <2>3. CASE RecheckManifest
    <3>1. cmd' = [cmd EXCEPT !.at = "reread"] /\ cmd.at = "remanifest"
      BY <1>2, <2>3 DEF RecheckManifest, Continue, Refuse, End, Reading
    <3>2. cmd' = [cmd EXCEPT !.at = cmd'.at, !.todo = cmd.todo] /\ ~RereadManifest
      BY <1>2, <3>1 DEF FreezeFields, RereadManifest, Reading
    <3> QED
      BY <3>2
  <2>4. CASE RereadManifest
    <3>1. cmd' = [cmd EXCEPT !.at = Opening(Tail(cmd.todo)), !.todo = Tail(@)]
      BY <1>2, <2>4 DEF RereadManifest, Continue, Refuse, End
    <3>2. cmd' = [cmd EXCEPT !.at = cmd'.at, !.todo = Tail(cmd.todo)]
      BY <1>2, <3>1 DEF FreezeFields
    <3> QED
      BY <2>4, <3>2
  <2> QED
    BY <2>1, <2>2, <2>3, <2>4
<1>4. /\ cmd'.kind = cmd.kind /\ cmd'.from = cmd.from
      /\ cmd'.primary = cmd.primary /\ cmd'.fallback = cmd.fallback
      /\ cmd'.source = cmd.source /\ cmd'.digest = cmd.digest /\ cmd'.todo = todo0
      /\ cmd'.touched = cmd.touched
  BY <1>2, <1>3 DEF FreezeFields
<1>5. UNCHANGED world /\ out' = out
  BY <1>2 DEF RecheckMethod, RecheckRows, RecheckManifest, RereadManifest, Continue, Refuse
<1>6. ItemsInv /\ HeadInv
  BY <1>1, <1>2 DEF StandsInv
<1>7. ASSUME NEW item, ItemStands(item) PROVE ItemStands(item)'
  <2>1. PICK e : e = cmd.source.got[item.key] /\ e = cmd'.source.got[item.key]
    BY <1>4
  <2>2. /\ RowsStand(e)' /\ ManifestStands(e)'
        /\ IF item.deployed THEN BundleStands(e)' ELSE SourcesOf(e)'
    BY <1>4, <1>5, <1>7, <2>1, CommandSteps DEF ItemStands
  <2> QED
    BY <2>1, <2>2 DEF ItemStands
<1>8. PICK item0 \in RecheckItem : /\ item0 = Item /\ Range(cmd.todo) = {item0} \cup Range(Tail(cmd.todo))
                                   /\ item0.key \in DOMAIN cmd.source.got
  <2>1. Head(cmd.todo) \in RecheckItem /\ Range(cmd.todo) = {Head(cmd.todo)} \cup Range(Tail(cmd.todo))
    BY <1>1, <1>2, HeadAndTail
  <2>2. 1 \in DOMAIN cmd.todo /\ Head(cmd.todo) = cmd.todo[1]
    BY <1>1, <1>2
  <2>3. Head(cmd.todo).key \in DOMAIN cmd.source.got
    BY <1>1, <2>2 DEF FreezeInv
  <2> QED
    BY <2>1, <2>3 DEF Item
<1>9. PICK e : e = Recorded
  OBVIOUS
<1>10. e = cmd.source.got[item0.key] /\ item0.deployed \in BOOLEAN
  BY <1>8, <1>9 DEF Recorded, RecheckItem
<1>11. RereadManifest => ItemStands(item0)
  <2> SUFFICES ASSUME RereadManifest PROVE ItemStands(item0)
    OBVIOUS
  <2>1. cmd.at = "reread" /\ manifest[e.path] # Nothing /\ Bound(manifest[e.path])
    BY <1>2, <1>9 DEF RereadManifest, Reading, Refuse, End
  <2>2. RowsStand(e) /\ ManifestStands(e) /\ (item0.deployed => BundleStands(e))
    BY <1>6, <1>8, <1>9, <2>1 DEF HeadInv
  <2>3. ~item0.deployed => SourcesOf(e)
    BY <1>8, <1>9, <2>1 DEF Bound, SourcesStand, SourcesOf
  <2> QED
    BY <1>10, <2>2, <2>3 DEF ItemStands
<1>12. ItemsInv'
  <2> SUFFICES ASSUME NEW item \in Range(Rechecks(cmd'.kind, cmd'.primary, cmd'.fallback)),
                      item \notin Range(cmd'.todo)
               PROVE  ItemStands(item)'
    BY DEF ItemsInv
  <2>1. item \in Range(Rechecks(cmd.kind, cmd.primary, cmd.fallback))
    BY <1>4
  <2>2. CASE item \notin Range(cmd.todo)
    BY <1>6, <1>7, <2>1, <2>2 DEF ItemsInv
  <2>3. CASE item \in Range(cmd.todo)
    <3>1. RereadManifest /\ item = item0
      BY <1>3, <1>4, <1>8, <2>3
    <3> QED
      BY <1>7, <1>11, <3>1
  <2> QED
    BY <2>2, <2>3
<1>13. HeadInv'
  <2>1. /\ BundleStands(e) => BundleStands(e)'
        /\ RowsStand(e) => RowsStand(e)'
        /\ ManifestStands(e) => ManifestStands(e)'
    BY <1>4, <1>5, CommandSteps
  <2>2. CASE RereadManifest
    <3>1. cmd'.at = Opening(Tail(cmd.todo)) /\ cmd'.todo = Tail(cmd.todo)
      BY <1>2, <2>2 DEF RereadManifest, Continue, Refuse, End, FreezeFields
    <3>2. PICK rest : rest = Tail(cmd.todo)
      OBVIOUS
    <3>3. Opening(rest) \in {"finish", "method", "rehash"} /\ (Opening(rest) = "rehash" => ~Head(rest).deployed)
      BY DEF Opening
    <3> QED
      BY <3>1, <3>2, <3>3 DEF HeadInv, Item
  <2>3. CASE ~RereadManifest
    <3>1. Item' = Item /\ Recorded' = Recorded
      BY <1>3, <1>4, <2>3 DEF Item, Recorded
    <3>2. e = Recorded'
      BY <1>9, <3>1
    <3>3. CASE RecheckMethod
      <4>1. cmd'.at = "rehash" /\ MethodStands(e)
        BY <1>2, <1>9, <3>3 DEF RecheckMethod, Continue, Refuse, End, FreezeFields
      <4>2. PICK a : a = cmd.source
        OBVIOUS
      <4>3. Provenance(e, item0.key, a)
        BY <1>1, <1>8, <1>10, <4>2, ItemsRecorded
      <4>4. a.schema \in {"cross", "base"}
        BY <1>1, <4>2 DEF FreezeInv, Schemas
      <4>5. BundleStands(e)
        BY <4>1, <4>3, <4>4, BundleChecked
      <4>6. BundleStands(Recorded)'
        BY <2>1, <3>2, <4>5 DEF BundleStands
      <4> QED
        BY <4>1, <4>6 DEF HeadInv
    <3>4. CASE RecheckRows
      <4>1. cmd'.at = "remanifest" /\ cmd.at = "rehash" /\ RowsStand(e)
        BY <1>2, <1>9, <3>4 DEF RecheckRows, Continue, Refuse, End, Reading, FreezeFields, RowsStand
      <4>2. RowsStand(Recorded)'
        BY <2>1, <3>2, <4>1 DEF RowsStand
      <4>3. Item'.deployed => BundleStands(Recorded)'
        BY <1>6, <1>9, <2>1, <3>1, <3>2, <4>1 DEF HeadInv, BundleStands
      <4> QED
        BY <4>1, <4>2, <4>3 DEF HeadInv
    <3>5. CASE RecheckManifest
      <4>1. cmd'.at = "reread" /\ cmd.at = "remanifest" /\ ManifestStands(e)
        BY <1>2, <1>9, <3>5 DEF RecheckManifest, Continue, Refuse, End, Reading, FreezeFields, ManifestStands
      <4>2. ManifestStands(Recorded)'
        BY <2>1, <3>2, <4>1 DEF ManifestStands
      <4>3. Item'.deployed => BundleStands(Recorded)'
        BY <1>6, <1>9, <2>1, <3>1, <3>2, <4>1 DEF HeadInv, BundleStands
      <4>4. RowsStand(Recorded)'
        BY <1>6, <1>9, <2>1, <3>2, <4>1 DEF HeadInv, RowsStand
      <4> QED
        BY <4>1, <4>2, <4>3, <4>4 DEF HeadInv
    <3> QED
      BY <2>3, <3>3, <3>4, <3>5
  <2> QED
    BY <2>2, <2>3
<1>14. cmd.kind = "enter" => ParsedInv' /\ HashedInv'
  <2>1. cmd.kind = "enter" => ParsedInv /\ HashedInv
    BY <1>1, <1>2 DEF StandsInv
  <2> QED
    BY <1>1, <1>4, <1>5, <2>1 DEF ParsedInv, HashedInv, Untouched
<1> QED
  BY <1>4, <1>12, <1>13, <1>14

(***************************************************************************)
(* The way to the freeze: theorems                                         *)
(***************************************************************************)
\* Types, good evidence, and what has been opened again: inductive.
SelectionInv == WorldInv /\ FileInv /\ CmdInv /\ StandsInv

\* It holds before the first command.
LEMMA SelectionStarts == ASSUME SelectionInit PROVE SelectionInv
<1>1. WorldInv
  BY SelectionAssumption, FilesAssumption DEF SelectionInit, WorldInv
<1>2. FileInv
  BY DEF SelectionInit, FileInv
<1>3. CmdInv /\ StandsInv
  BY DEF SelectionInit, CmdInv, StandsInv, Idle, FreezeFields
<1> QED
  BY <1>1, <1>2, <1>3 DEF SelectionInv

\* A command about no freeze knows nothing of the files.
LEMMA OtherwiseStands ==
    ASSUME cmd' = Idle \/ ReadInv(cmd')
    PROVE  StandsInv'
BY DEF StandsInv, Idle, ReadInv, ReadFields, FreezeFields

\* Every step of a command, and whatever goes on around it, keeps it.
LEMMA SelectionSteps == ASSUME SelectionInv, SelectionNext PROVE SelectionInv'
<1> USE DEF SelectionInv
<1>1. CASE StartRead
  <2>1. WorldInv' /\ FileInv'
    BY <1>1, WorldKept DEF StartRead, FileInv
  <2> QED
    BY <1>1, <2>1, StartsReading, OtherwiseStands DEF CmdInv
<1>2. CASE ReadManifest \/ HashRows \/ ReadRows
  <2>1. UNCHANGED world /\ out' = out /\ entered' = entered
    BY <1>2 DEF ReadManifest, HashRows, ReadRows, Continue, Refuse
  <2>2. WorldInv' /\ FileInv'
    BY <2>1, WorldKept DEF FileInv
  <2> QED
    BY <1>2, <2>2, ReadsRun, OtherwiseStands DEF CmdInv
<1>3. CASE RecordRun
  <2>1. UNCHANGED world /\ out' = out /\ entered' = entered
    BY <1>3 DEF RecordRun, Continue, Refuse
  <2>2. WorldInv' /\ FileInv'
    BY <2>1, WorldKept DEF FileInv
  <2> QED
    BY <1>3, <2>2, RecordsRun, OtherwiseStands DEF CmdInv
<1>4. CASE Conclude
  <2>1. UNCHANGED world
    BY <1>4 DEF Conclude, Refuse
  <2> QED
    BY <1>4, <2>1, WorldKept, ConcludesGood, OtherwiseStands DEF CmdInv
<1>5. CASE StartFreeze \/ StartEnter
  <2>1. UNCHANGED world
    BY <1>5 DEF StartFreeze, StartEnter
  <2>2. FreezeInv(cmd') /\ FileInv'
    BY <1>5, StartsFreeze
  <2>3. cmd'.at = "parse" \/ Skips(cmd')
    <3>1. CASE StartFreeze
      <4>1. cmd'.at = "parse"
        BY <3>1 DEF StartFreeze
      <4> QED
        BY <4>1
    <3>2. CASE StartEnter
      <4>1. PICK from \in OutPath :
            /\ out[from].schema \in {"freeze", "freezeBase"}
            /\ cmd' = [at |-> IF out[from].schema = "freeze" THEN "finish" ELSE "parse",
                       kind |-> "enter", from |-> out[from].from, target |-> Nothing, contract |-> now,
                       primary |-> out[from].primary, fallback |-> out[from].fallback, frozen |-> out[from],
                       source |-> Nothing, digest |-> Nothing, todo |-> <<>>, touched |-> {}]
        BY <3>2 DEF StartEnter
      <4>2. /\ cmd'.at = IF out[from].schema = "freeze" THEN "finish" ELSE "parse"
            /\ cmd'.kind = "enter" /\ cmd'.frozen = out[from]
        BY <4>1
      <4> QED
        BY <4>1, <4>2 DEF Skips
    <3> QED
      BY <1>5, <3>1, <3>2
  <2>4. StandsInv'
    BY <2>3 DEF StandsInv, ParsedInv, HashedInv
  <2> QED
    BY <2>1, <2>2, <2>4, WorldKept DEF CmdInv
<1>6. CASE ParseSource \/ DigestSource
  <2>1. UNCHANGED world
    BY <1>6 DEF ParseSource, DigestSource, Continue, Refuse
  <2> QED
    BY <1>6, <2>1, WorldKept, ReadsSource, ReadingStands DEF CmdInv
<1>7. CASE RecheckMethod \/ RecheckRows \/ RecheckManifest \/ RereadManifest
  <2>1. UNCHANGED world
    BY <1>7 DEF RecheckMethod, RecheckRows, RecheckManifest, RereadManifest, Continue, Refuse
  <2> QED
    BY <1>7, <2>1, WorldKept, OpensAgain, RecheckingStands DEF CmdInv
<1>8. CASE PublishFreeze \/ Enter
  <2>1. UNCHANGED world
    BY <1>8 DEF PublishFreeze, Enter, Refuse
  <2> QED
    BY <1>8, <2>1, WorldKept, Finishes, OtherwiseStands DEF CmdInv
<1>9. CASE Around
  BY <1>9, WorldSteps, AroundStands DEF Around
<1> QED
  BY <1>1, <1>2, <1>3, <1>4, <1>5, <1>6, <1>7, <1>8, <1>9 DEF SelectionNext, Around

\* It speaks of the variables of the selection alone.
LEMMA SelectionStutters == ASSUME SelectionInv, UNCHANGED selectionVars PROVE SelectionInv'
<1>1. WorldInv'
  BY WorldKept DEF SelectionInv, selectionVars, world
<1>2. FileInv' /\ CmdInv'
  BY DEF SelectionInv, selectionVars, FileInv, CmdInv
<1>3. StandsInv'
  BY DEF SelectionInv, selectionVars, StandsInv, ItemsInv, ItemStands, HeadInv, ParsedInv, HashedInv, RowsStand,
         ManifestStands, BundleStands, SourcesOf, Untouched, Item, Recorded
<1> QED
  BY <1>1, <1>2, <1>3 DEF SelectionInv

\* The inductive invariant of the way from the runs to the freeze.
THEOREM SelectionInvariance == SelectionSpec => []SelectionInv
BY SelectionStarts, SelectionSteps, SelectionStutters, PTL DEF SelectionSpec

\* The evidence of a freeze, an artifact or a running command is good.
LEMMA EvidenceIsGood ==
    ASSUME SelectionInv
    PROVE  /\ \A a \in Evidence : GoodEvidence(a)
           /\ \A f \in Freezes \cup ({entered} \ {Nothing}) : GoodFreeze(f)
<1>1. \A a \in Artifacts : GoodFile(a)
  BY DEF SelectionInv, FileInv, Artifacts
<1>2. \A f \in Freezes : GoodFreeze(f)
  BY <1>1 DEF Freezes, GoodFile
<1>3. \A a \in Artifacts \ Freezes : GoodEvidence(a)
  BY <1>1 DEF Freezes, GoodFile, GoodSource
<1>4. \A f \in Freezes : GoodEvidence(f.payload)
  BY <1>2 DEF GoodFreeze, GoodSource
<1>5. "got" \in DOMAIN cmd => GoodEvidence(Artifact(cmd.got))
  <2>1. "got" \in DOMAIN cmd => ReadInv(cmd)
    BY DEF SelectionInv, CmdInv, Idle, FreezeInv, FreezeFields
  <2>2. Artifact(cmd.got) = Collected(cmd)
    BY DEF Artifact, Collected
  <2> QED
    BY <2>1, <2>2 DEF ReadInv
<1>6. \A a \in Evidence : GoodEvidence(a)
  BY <1>3, <1>4, <1>5 DEF Evidence
<1>7. entered # Nothing => GoodFreeze(entered)
  BY DEF SelectionInv, FileInv
<1> QED
  BY <1>2, <1>6, <1>7

\* Files stay of their kind, and evidence is complete: a run of a comparison or a
\* qualification has the method it was made by (SelectionTypeOK).
THEOREM SelectionIsTyped == SelectionSpec => []SelectionTypeOK
<1>1. ASSUME SelectionInv PROVE SelectionTypeOK
  <2>1. \A a \in Evidence : EvidenceOK(a)
    BY <1>1, EvidenceIsGood DEF GoodEvidence
  <2>2. ASSUME NEW f \in Freezes \cup ({entered} \ {Nothing})
        PROVE  /\ EvidenceOK(f.payload) /\ f.digest.schema \in {"cross", "base", "probe", "freeze", "freezeBase"}
               /\ f.primary \in Range(Label) /\ f.fallback \in (Range(Label) \ {f.primary}) \cup {Nothing}
    <3>1. GoodFreeze(f)
      BY <1>1, EvidenceIsGood
    <3> QED
      BY <3>1 DEF GoodFreeze, GoodSource, GoodEvidence, Chosen
  <2> QED
    BY <1>1, <2>1, <2>2 DEF SelectionInv, WorldInv, SelectionTypeOK
<1> QED
  BY <1>1, SelectionInvariance, PTL

\* Evidence whose rows are valid, or were taken out of their file between the
\* digest and the second reading.
Accounted(a, sw) ==
    \A key \in DOMAIN a.got :
        LET entry == a.got[key]
        IN (entry.rows.sound /\ entry.rows.contract = a.contract) \/ <<entry.path, entry.rows>> \in sw

\* The evidence that an artifact is or holds.
EvidenceIn(x) == IF x.schema \in {"freeze", "freezeBase"} THEN x.payload ELSE x

\* All evidence is accounted for, and so is the run that is being read.
SwapInv ==
    /\ \A p \in OutPath : out[p] # Nothing => Accounted(EvidenceIn(out[p]), swapped)
    /\ DOMAIN cmd = ReadFields =>
          /\ Accounted(Collected(cmd), swapped)
          /\ cmd.at = "rows" => rows[CurrentRun] = cmd.rows \/ <<CurrentRun, cmd.rows>> \in swapped
          /\ cmd.at = "record" => \/ cmd.rows.sound /\ cmd.rows.contract = cmd.contract
                                 \/ <<CurrentRun, cmd.rows>> \in swapped
    /\ DOMAIN cmd = FreezeFields /\ cmd.at # "parse" /\ ~Skips(cmd) => Accounted(cmd.source, swapped)

\* It is accounted for with more swapped.
LEMMA StaysAccounted ==
    ASSUME NEW a, NEW sw, NEW more, sw \subseteq more, Accounted(a, sw)
    PROVE  Accounted(a, more)
BY DEF Accounted

\* What goes on around a command leaves all accounted for.
LEMMA AroundAccounted ==
    ASSUME SelectionInv, SwapInv, Around
    PROVE  SwapInv'
<1>1. swapped \subseteq swapped'
  BY DEF Around, ReplaceRun, ReplaceAdapter, ChangeSources, ReplaceArtifact, ChangeContract
<1>2. \A p \in OutPath : out'[p] # Nothing => \E q \in OutPath : out[q] # Nothing /\ out'[p] = out[q]
  <2>1. DOMAIN out = OutPath
    BY DEF SelectionInv, FileInv
  <2>2. CASE out' = out
    BY <2>2
  <2>3. CASE ReplaceArtifact
    <3>1. PICK path \in OutPath, content \in Range(out) \cup {Nothing} : out' = [out EXCEPT ![path] = content]
      BY <2>3 DEF ReplaceArtifact
    <3> QED
      BY <2>1, <3>1 DEF Range
  <2> QED
    BY <2>2, <2>3 DEF Around, ReplaceRun, ReplaceAdapter, ChangeSources, ChangeContract
<1>3. \A p \in OutPath : out'[p] # Nothing => Accounted(EvidenceIn(out'[p]), swapped')
  <2>1. \A q \in OutPath : out[q] # Nothing => Accounted(EvidenceIn(out[q]), swapped')
    BY <1>1, StaysAccounted DEF SwapInv
  <2> QED
    BY <1>2, <2>1
<1>4. PICK what : Touch(what)
  BY DEF Around, ReplaceRun, ReplaceAdapter, ChangeSources, ReplaceArtifact, ChangeContract
<1>5. CASE DOMAIN cmd = ReadFields
  <2>1. cmd' = cmd
    BY <1>4, <1>5 DEF Touch, ReadFields
  <2>2. ReadFields # FreezeFields
    BY DEF ReadFields, FreezeFields
  <2>3. cmd.at = "rows" => rows'[CurrentRun] = rows[CurrentRun] \/ <<CurrentRun, cmd.rows>> \in swapped'
    <3> SUFFICES ASSUME cmd.at = "rows", rows'[CurrentRun] # rows[CurrentRun]
                 PROVE  <<CurrentRun, cmd.rows>> \in swapped'
      OBVIOUS
    <3>1. PICK r \in Replacement : /\ rows' = [rows EXCEPT ![r[2]] = r[3]]
                                   /\ swapped' = swapped \cup {h \in Hashed : h[1] = r[2]}
      BY DEF Around, ReplaceRun, ReplaceAdapter, ChangeSources, ReplaceArtifact, ChangeContract
    <3>2. CurrentRun = r[2]
      BY <3>1 DEF SelectionInv, WorldInv
    <3> QED
      BY <3>1, <3>2 DEF Hashed
  <2>4. Accounted(Collected(cmd), swapped')
    BY <1>1, <1>5, StaysAccounted DEF SwapInv
  <2> QED
    BY <1>1, <1>3, <1>5, <2>1, <2>2, <2>3, <2>4 DEF SwapInv, CurrentRun, Collected
<1>6. CASE DOMAIN cmd = FreezeFields
  <2>1. cmd' = [cmd EXCEPT !.touched = @ \cup {what}]
    BY <1>4, <1>6 DEF Touch, FreezeFields
  <2>2. /\ DOMAIN cmd' = FreezeFields /\ cmd'.at = cmd.at /\ cmd'.kind = cmd.kind
        /\ cmd'.frozen = cmd.frozen /\ cmd'.source = cmd.source
    BY <1>6, <2>1 DEF FreezeFields
  <2>3. ReadFields # FreezeFields
    BY DEF ReadFields, FreezeFields
  <2>4. cmd.at # "parse" /\ ~Skips(cmd) => Accounted(cmd.source, swapped')
    BY <1>1, <1>6, StaysAccounted DEF SwapInv
  <2> QED
    BY <1>3, <2>2, <2>3, <2>4 DEF SwapInv, Skips
<1>7. CASE cmd = Idle
  <2>1. cmd' = Idle
    BY <1>4, <1>7 DEF Touch, Idle
  <2> QED
    BY <1>3, <2>1 DEF SwapInv, Idle, ReadFields, FreezeFields
<1> QED
  BY <1>5, <1>6, <1>7 DEF SelectionInv, CmdInv, ReadInv, FreezeInv

\* Reading a run: what is read is what was hashed, unless the file was replaced.
LEMMA ReadingAccounted ==
    ASSUME SelectionInv, SwapInv, StartRead \/ ReadManifest \/ HashRows \/ ReadRows \/ RecordRun
    PROVE  SwapInv'
<1>1. UNCHANGED <<rows, out, swapped>>
  BY DEF StartRead, ReadManifest, HashRows, ReadRows, RecordRun, Continue, Refuse, world
<1>2. \A p \in OutPath : out'[p] # Nothing => Accounted(EvidenceIn(out'[p]), swapped')
  BY <1>1 DEF SwapInv
<1>3. CASE cmd' = Idle
  BY <1>2, <1>3 DEF SwapInv, Idle, ReadFields, FreezeFields
<1>4. ASSUME DOMAIN cmd' = ReadFields, Accounted(Collected(cmd'), swapped),
             cmd'.at = "rows" => rows[cmd'.given[1]] = cmd'.rows,
             cmd'.at = "record" => \/ cmd'.rows.sound /\ cmd'.rows.contract = cmd'.contract
                                  \/ <<cmd'.given[1], cmd'.rows>> \in swapped
      PROVE  SwapInv'
  <2>1. ReadFields # FreezeFields
    BY DEF ReadFields, FreezeFields
  <2> QED
    BY <1>1, <1>2, <1>4, <2>1 DEF SwapInv, CurrentRun, Collected
<1>5. CASE StartRead
  <2>1. DOMAIN cmd' = ReadFields /\ cmd'.at = "manifest" /\ cmd'.got = <<>>
    BY <1>5 DEF StartRead, ReadFields
  <2>2. Accounted(Collected(cmd'), swapped)
    BY <2>1 DEF Accounted, Collected
  <2> QED
    BY <1>4, <2>1, <2>2
<1>6. ASSUME ~StartRead, cmd' # Idle
      PROVE  ReadInv(cmd) /\ DOMAIN cmd = ReadFields /\ Accounted(Collected(cmd), swapped)
  BY <1>6, PlaceIs DEF ReadManifest, HashRows, ReadRows, RecordRun, Reading, SelectionInv, ReadInv, SwapInv
<1>7. CASE ReadManifest /\ cmd' # Idle
  <2>1. PICK given : cmd' = [cmd EXCEPT !.at = "hash", !.given = given, !.manifest = manifest[given[1]]]
    BY <1>7 DEF ReadManifest, Continue, Refuse, End
  <2>2. /\ DOMAIN cmd' = ReadFields /\ cmd'.at = "hash" /\ cmd'.got = cmd.got /\ cmd'.kind = cmd.kind
        /\ cmd'.contract = cmd.contract
    BY <1>6, <1>7, <2>1 DEF ReadFields, StartRead, Reading, ReadManifest, Idle
  <2>3. Collected(cmd') = Collected(cmd)
    BY <2>2 DEF Collected
  <2>4. Accounted(Collected(cmd), swapped)
    <3>1. ~StartRead
      <4>1. cmd.at = "manifest"
        BY <1>7 DEF ReadManifest, Reading
      <4>2. cmd # Idle
        BY <4>1 DEF Idle
      <4> QED
        BY <4>2 DEF StartRead
    <3> QED
      BY <1>6, <1>7, <3>1
  <2>5. Accounted(Collected(cmd'), swapped)
    BY <2>3, <2>4
  <2> QED
    BY <1>4, <2>2, <2>5
<1>8. CASE HashRows /\ cmd' # Idle
  <2>1. cmd' = [cmd EXCEPT !.at = "rows", !.rows = rows[CurrentRun]]
    BY <1>8 DEF HashRows, Continue, Refuse, End
  <2>2. /\ DOMAIN cmd' = ReadFields /\ cmd'.at = "rows" /\ cmd'.got = cmd.got /\ cmd'.kind = cmd.kind
        /\ cmd'.contract = cmd.contract /\ cmd'.given = cmd.given /\ cmd'.rows = rows[cmd.given[1]]
    BY <1>6, <1>8, <2>1 DEF ReadFields, StartRead, Reading, HashRows, Idle, CurrentRun
  <2>3. Accounted(Collected(cmd'), swapped)
    BY <1>6, <1>8, <2>2 DEF Collected, StartRead, Reading, HashRows, Idle
  <2> QED
    BY <1>4, <2>2, <2>3
<1>9. CASE ReadRows /\ cmd' # Idle
  <2>1. /\ cmd.at = "rows" /\ RowsValid(rows[CurrentRun], CurrentKey[1], cmd.contract)
        /\ cmd' = [cmd EXCEPT !.at = "record", !.read = rows[CurrentRun]]
    BY <1>9 DEF ReadRows, Reading, Continue, Refuse, End
  <2>2. /\ DOMAIN cmd' = ReadFields /\ cmd'.at = "record" /\ cmd'.got = cmd.got /\ cmd'.kind = cmd.kind
        /\ cmd'.contract = cmd.contract /\ cmd'.given = cmd.given /\ cmd'.rows = cmd.rows
    BY <1>6, <1>9, <2>1 DEF ReadFields, StartRead, Idle
  <2>3. Accounted(Collected(cmd'), swapped)
    BY <1>6, <1>9, <2>1, <2>2 DEF Collected, StartRead, Idle
  <2>4. rows[CurrentRun] = cmd.rows \/ <<CurrentRun, cmd.rows>> \in swapped
    BY <1>6, <1>9, <2>1 DEF SwapInv, StartRead, Idle
  <2> QED
    BY <1>4, <2>1, <2>2, <2>3, <2>4 DEF RowsValid, CurrentRun
<1>10. CASE RecordRun /\ cmd' # Idle
  <2> DEFINE k0 == CurrentKey
             e0 == Entry(k0)
  <2>1. /\ cmd.at = "record"
        /\ cmd' = [cmd EXCEPT !.at = "manifest", !.todo = Tail(@), !.given = Nothing, !.manifest = Nothing,
                              !.rows = Nothing, !.read = Nothing, !.got = With(@, k0, e0)]
    BY <1>10 DEF RecordRun, Reading, Continue, Refuse, End
  <2>2. e0.path = CurrentRun /\ e0.rows = cmd.rows
    BY DEF Entry
  <2>3. DOMAIN cmd = ReadFields /\ Accounted(Collected(cmd), swapped)
    BY <1>6, <1>10, <2>1 DEF StartRead, Idle
  <2> HIDE DEF k0, e0
  <2>4. /\ DOMAIN cmd' = ReadFields /\ cmd'.at = "manifest" /\ cmd'.got = With(cmd.got, k0, e0)
        /\ cmd'.contract = cmd.contract
    BY <2>1, <2>3 DEF ReadFields
  <2>5. \/ e0.rows.sound /\ e0.rows.contract = cmd.contract
        \/ <<e0.path, e0.rows>> \in swapped
    BY <2>1, <2>2, <2>3 DEF SwapInv
  <2>6. Accounted(Collected(cmd'), swapped)
    BY <2>3, <2>4, <2>5 DEF Accounted, Collected, With
  <2> QED
    BY <1>4, <2>4, <2>6
<1> QED
  BY <1>3, <1>5, <1>7, <1>8, <1>9, <1>10

\* What is written was accounted for, and so is what a freeze was made from.
LEMMA WritingAccounted ==
    ASSUME SelectionInv, SwapInv, Conclude \/ PublishFreeze \/ Enter
    PROVE  SwapInv'
<1>1. cmd' = Idle /\ swapped' = swapped
  BY DEF Conclude, PublishFreeze, Enter, Write, Refuse, End, world
<1>2. CASE out' = out
  BY <1>1, <1>2 DEF SwapInv, Idle, ReadFields, FreezeFields
<1>3. ASSUME NEW x, Accounted(EvidenceIn(x), swapped), out' # out, Write(cmd.target, x)
      PROVE  SwapInv'
  <2>1. out' = [out EXCEPT ![cmd.target] = x] /\ DOMAIN out = OutPath
    BY <1>3 DEF Write, SelectionInv, FileInv
  <2>2. \A p \in OutPath : out'[p] # Nothing => Accounted(EvidenceIn(out'[p]), swapped')
    BY <1>1, <1>3, <2>1 DEF SwapInv
  <2> QED
    BY <1>1, <2>2 DEF SwapInv, Idle, ReadFields, FreezeFields
<1>4. CASE Conclude /\ out' # out
  <2>1. /\ ReadInv(cmd) /\ Write(cmd.target, Artifact(cmd.got))
    BY <1>4, PlaceIs DEF Conclude, Refuse, SelectionInv
  <2> DEFINE a == Artifact(cmd.got)
  <2>2. a = Collected(cmd) /\ a.schema = cmd.kind
    BY DEF Artifact, Collected
  <2> HIDE DEF a
  <2>3. Accounted(a, swapped) /\ EvidenceIn(a) = a
    BY <2>1, <2>2 DEF ReadInv, SwapInv, EvidenceIn
  <2>4. Write(cmd.target, a)
    BY <2>1 DEF a
  <2> QED
    BY <1>3, <1>4, <2>3, <2>4
<1>5. CASE PublishFreeze /\ out' # out
  <2>1. FreezeInv(cmd) /\ cmd.at = "finish" /\ cmd.kind # "enter" /\ Write(cmd.target, FreezeArtifact)
    BY <1>5, PlaceIs DEF PublishFreeze, SelectionInv
  <2> DEFINE f == FreezeArtifact
  <2>2. f.schema = cmd.kind /\ f.payload = cmd.source
    BY DEF FreezeArtifact
  <2>5. Write(cmd.target, f)
    BY <2>1
  <2> HIDE DEF f
  <2>3. EvidenceIn(f) = cmd.source
    BY <2>1, <2>2 DEF EvidenceIn, FreezeInv
  <2>4. Accounted(cmd.source, swapped)
    BY <2>1 DEF FreezeInv, Skips, SwapInv
  <2> QED
    BY <1>3, <1>5, <2>3, <2>4, <2>5
<1>6. CASE Enter
  BY <1>1, <1>2, <1>6 DEF Enter, Refuse
<1> QED
  BY <1>2, <1>4, <1>5, <1>6

\* A freeze or an entry reads the source from an artifact.
LEMMA FreezingAccounted ==
    ASSUME SelectionInv, SwapInv,
           StartFreeze \/ StartEnter \/ ParseSource \/ DigestSource
             \/ RecheckMethod \/ RecheckRows \/ RecheckManifest \/ RereadManifest
    PROVE  SwapInv'
<1>1. UNCHANGED <<out, swapped>>
  BY DEF StartFreeze, StartEnter, ParseSource, DigestSource, RecheckMethod, RecheckRows, RecheckManifest,
         RereadManifest, Continue, Refuse, world
<1>2. \A p \in OutPath : out'[p] # Nothing => Accounted(EvidenceIn(out'[p]), swapped')
  BY <1>1 DEF SwapInv
<1>3. CASE cmd' = Idle
  BY <1>2, <1>3 DEF SwapInv, Idle, ReadFields, FreezeFields
<1>4. ASSUME DOMAIN cmd' = FreezeFields, cmd'.at # "parse" /\ ~Skips(cmd') => Accounted(cmd'.source, swapped)
      PROVE  SwapInv'
  <2>1. ReadFields # FreezeFields
    BY DEF ReadFields, FreezeFields
  <2> QED
    BY <1>1, <1>2, <1>4, <2>1 DEF SwapInv, Skips
<1>5. CASE StartFreeze
  <2>1. DOMAIN cmd' = FreezeFields /\ cmd'.at = "parse"
    BY <1>5 DEF StartFreeze, FreezeFields
  <2> QED
    BY <1>4, <2>1
<1>6. CASE StartEnter
  <2>1. PICK from \in OutPath :
          cmd' = [at |-> IF out[from].schema = "freeze" THEN "finish" ELSE "parse",
                  kind |-> "enter", from |-> out[from].from, target |-> Nothing, contract |-> now,
                  primary |-> out[from].primary, fallback |-> out[from].fallback, frozen |-> out[from],
                  source |-> Nothing, digest |-> Nothing, todo |-> <<>>, touched |-> {}]
    BY <1>6 DEF StartEnter
  <2>2. PICK f : f = out[from]
    OBVIOUS
  <2>3. /\ DOMAIN cmd' = FreezeFields /\ cmd'.kind = "enter" /\ cmd'.frozen = f
        /\ cmd'.at = IF f.schema = "freeze" THEN "finish" ELSE "parse"
    BY <2>1, <2>2 DEF FreezeFields
  <2> QED
    BY <1>4, <2>3 DEF Skips
<1>7. ASSUME ~StartFreeze, ~StartEnter, cmd' # Idle
      PROVE  FreezeInv(cmd) /\ DOMAIN cmd = FreezeFields
  BY <1>7, PlaceIs DEF ParseSource, DigestSource, RecheckMethod, RecheckRows, RecheckManifest, RereadManifest,
     Reading, SelectionInv, FreezeInv
<1>8. CASE ParseSource /\ cmd' # Idle
  <2>1. PICK a : /\ a = out[cmd.from] /\ a # Nothing /\ a.schema \in Schemas(cmd.kind) /\ cmd.at = "parse"
                 /\ cmd' = [cmd EXCEPT !.at = "digest", !.source = a]
    BY <1>8 DEF ParseSource, Continue, Refuse, End
  <2>2. FreezeInv(cmd) /\ DOMAIN cmd = FreezeFields
    BY <1>7, <1>8, <2>1 DEF StartFreeze, StartEnter, Idle
  <2>3. DOMAIN cmd' = FreezeFields /\ cmd'.source = a
    BY <2>1, <2>2 DEF FreezeFields
  <2>4. EvidenceIn(a) = a /\ cmd.from \in OutPath
    BY <2>1, <2>2 DEF EvidenceIn, Schemas, FreezeInv
  <2>5. Accounted(a, swapped)
    BY <2>1, <2>4 DEF SwapInv
  <2> QED
    BY <1>4, <2>3, <2>5
<1>9. CASE ~ParseSource /\ ~StartFreeze /\ ~StartEnter /\ cmd' # Idle
  <2>1. FreezeInv(cmd) /\ DOMAIN cmd = FreezeFields /\ cmd.at # "parse"
    BY <1>7, <1>9 DEF DigestSource, RecheckMethod, RecheckRows, RecheckManifest, RereadManifest, Reading
  <2>2. \E at, d, t : cmd' = [cmd EXCEPT !.at = at, !.digest = d, !.todo = t]
    <3>1. CASE DigestSource
      <4> DEFINE t == Rechecks(cmd.kind, cmd.primary, cmd.fallback)
      <4>1. cmd' = [cmd EXCEPT !.at = Opening(t), !.digest = out[cmd.from], !.todo = t]
        BY <1>9, <3>1 DEF DigestSource, Continue, Refuse, End
      <4> HIDE DEF t
      <4> QED
        BY <4>1
    <3>2. CASE RereadManifest
      <4>1. PICK at, t : cmd' = [cmd EXCEPT !.at = at, !.todo = t]
        BY <1>9, <3>2 DEF RereadManifest, Continue, Refuse, End
      <4>2. cmd' = [cmd EXCEPT !.at = at, !.digest = cmd.digest, !.todo = t]
        BY <2>1, <4>1 DEF FreezeFields
      <4> QED
        BY <4>2
    <3>3. CASE RecheckMethod \/ RecheckRows \/ RecheckManifest
      <4>1. PICK at : cmd' = [cmd EXCEPT !.at = at]
        BY <1>9, <3>3 DEF RecheckMethod, RecheckRows, RecheckManifest, Continue, Refuse, End
      <4>2. cmd' = [cmd EXCEPT !.at = at, !.digest = cmd.digest, !.todo = cmd.todo]
        BY <2>1, <4>1 DEF FreezeFields
      <4> QED
        BY <4>2
    <3> QED
      BY <1>9, <3>1, <3>2, <3>3
  <2>3. /\ DOMAIN cmd' = FreezeFields /\ cmd'.kind = cmd.kind /\ cmd'.frozen = cmd.frozen
        /\ cmd'.source = cmd.source
    BY <2>1, <2>2 DEF FreezeFields
  <2> QED
    BY <1>4, <2>1, <2>3 DEF SwapInv, Skips
<1> QED
  BY <1>3, <1>5, <1>6, <1>8, <1>9

\* All evidence is accounted for.
THEOREM RowsAccounted == SelectionSpec => []SwapInv
<1>1. SelectionInit => SwapInv
  BY DEF SelectionInit, SwapInv, Idle, ReadFields, FreezeFields
<1>2. SelectionInv /\ SwapInv /\ [SelectionNext]_selectionVars => SwapInv'
  <2> SUFFICES ASSUME SelectionInv, SwapInv, [SelectionNext]_selectionVars PROVE SwapInv'
    OBVIOUS
  <2>1. CASE UNCHANGED selectionVars
    BY <2>1 DEF selectionVars, SwapInv, CurrentRun
  <2> QED
    BY <2>1, AroundAccounted, ReadingAccounted, WritingAccounted, FreezingAccounted DEF SelectionNext, Around
<1> QED
  BY <1>1, <1>2, SelectionInvariance, PTL DEF SelectionSpec

\* The rows whose digest evidence records are of the fold and the checkpoint, and
\* valid unless they were taken out of their file between the digest and the
\* second reading (_load_development_run, RecordedRowsAreValid).
THEOREM RowsAreValid == SelectionSpec => []RecordedRowsAreValid
<1>1. ASSUME SelectionInv, SwapInv PROVE RecordedRowsAreValid
  <2>1. \A a \in Evidence : Accounted(a, swapped)
    <3>1. \A a \in Artifacts : Accounted(EvidenceIn(a), swapped)
      BY <1>1 DEF SwapInv, Artifacts
    <3>2. \A a \in Artifacts \ Freezes : Accounted(a, swapped)
      BY <3>1 DEF Freezes, EvidenceIn
    <3>3. \A f \in Freezes : Accounted(f.payload, swapped)
      BY <3>1 DEF Freezes, EvidenceIn
    <3>4. "got" \in DOMAIN cmd => Accounted(Artifact(cmd.got), swapped)
      <4>1. "got" \in DOMAIN cmd => DOMAIN cmd = ReadFields
        BY <1>1 DEF SelectionInv, CmdInv, Idle, FreezeInv, FreezeFields, ReadInv
      <4>2. Artifact(cmd.got) = Collected(cmd)
        BY DEF Artifact, Collected
      <4> QED
        BY <1>1, <4>1, <4>2 DEF SwapInv
    <3> QED
      BY <3>2, <3>3, <3>4 DEF Evidence
  <2>2. \A a \in Evidence : GoodEvidence(a)
    BY <1>1, EvidenceIsGood
  <2> QED
    BY <2>1, <2>2 DEF GoodEvidence, SoundEntry, Accounted, RecordedRowsAreValid
<1> QED
  BY <1>1, SelectionInvariance, RowsAccounted, PTL

\* No run and no adapter stands for two folds or two labels
\* (compare_cross_fold_development_runs, NothingCountedTwice).
THEOREM CountedOnce == SelectionSpec => []NothingCountedTwice
<1>1. ASSUME SelectionInv PROVE NothingCountedTwice
  BY <1>1, EvidenceIsGood DEF GoodEvidence, Distinct, NothingCountedTwice
<1> QED
  BY <1>1, SelectionInvariance, PTL

\* What is frozen has run on every fold, by one method, each time with an adapter
\* trained without the fold (FrozenFromAllFolds).
THEOREM FromAllFolds == SelectionSpec => []FrozenFromAllFolds
<1>1. ASSUME SelectionInv PROVE FrozenFromAllFolds
  <2> SUFFICES ASSUME NEW f \in Freezes, NEW label \in {f.primary, f.fallback} \ {Nothing}, NEW fold \in Fold
               PROVE  LET got == f.payload.got IN
                      /\ <<fold, label>> \in DOMAIN got
                      /\ got[<<fold, label>>].method = got[<<Deployment, label>>].method
                      /\ got[<<fold, label>>].exec = got[<<Deployment, label>>].exec
                      /\ label # Base =>
                            LET a == got[<<fold, label>>].adapter
                            IN a.fold = fold /\ a.contract = f.contract /\ a.method = got[<<fold, label>>].method
    BY DEF FrozenFromAllFolds
  <2>1. GoodFreeze(f)
    BY <1>1, EvidenceIsGood
  <2>2. PICK a : a = f.payload
    OBVIOUS
  <2>3. /\ GoodSource(a) /\ GoodEvidence(a) /\ a.schema \in Schemas(f.schema) /\ f.contract = a.contract
        /\ Chosen(f.schema, f.primary, f.fallback) /\ f.schema \in {"freeze", "freezeBase"}
    BY <2>1, <2>2 DEF GoodFreeze, GoodSource
  <2>4. Deployment \in Fold
    BY SelectionAssumption
  <2>5. label \in Range(Label)
    BY <2>3 DEF Chosen
  <2>6. CASE f.schema = "freeze"
    <3>1. a.schema = "cross" /\ DOMAIN a.got = Key /\ OneMethod(a.got)
      BY <2>3, <2>6 DEF Schemas, GoodSource
    <3>2. PICK k \in DOMAIN a.got, l \in DOMAIN a.got : k = <<fold, label>> /\ l = <<Deployment, label>>
      BY <2>4, <2>5, <3>1 DEF Key
    <3>3. a.got[k].method = a.got[l].method
      BY <3>1, <3>2 DEF OneMethod
    <3>4. Provenance(a.got[k], k, a) /\ Provenance(a.got[l], l, a)
      BY <2>3, <3>1 DEF GoodEvidence
    <3>5. a.got[k].exec = Nothing /\ a.got[l].exec = Nothing
      BY <3>1, <3>4 DEF Provenance
    <3>6. label # Base => /\ a.got[k].adapter.fold = fold /\ a.got[k].adapter.contract = a.contract
                          /\ a.got[k].adapter.method = a.got[k].method
      BY <3>1, <3>2, <3>4 DEF Provenance
    <3> QED
      BY <2>2, <2>3, <3>2, <3>3, <3>5, <3>6
  <2>7. CASE f.schema = "freezeBase"
    <3>1. a.schema = "base" /\ DOMAIN a.got = Fold \X {Base} /\ OneProvenance(a.got) /\ label = Base
      BY <2>3, <2>7 DEF Schemas, GoodSource, Chosen
    <3>2. PICK k \in DOMAIN a.got, l \in DOMAIN a.got : k = <<fold, label>> /\ l = <<Deployment, label>>
      BY <2>4, <3>1
    <3>3. a.got[k].exec = a.got[l].exec
      BY <3>1, <3>2 DEF OneProvenance
    <3>4. Provenance(a.got[k], k, a) /\ Provenance(a.got[l], l, a)
      BY <2>3, <3>1 DEF GoodEvidence
    <3>5. a.got[k].method = Pinned /\ a.got[l].method = Pinned
      BY <3>1, <3>2, <3>4 DEF Provenance
    <3> QED
      BY <2>2, <3>1, <3>2, <3>3, <3>5
  <2> QED
    BY <2>3, <2>6, <2>7
<1> QED
  BY <1>1, SelectionInvariance, PTL

\* Whatever a freeze goes by stands when it is published, or was replaced since
\* the command began (freeze_development_selection, FreezeSeesChanges).
THEOREM FreezeIsFresh == SelectionSpec => FreezeSeesChanges
<1>1. ASSUME SelectionInv, SelectionNext, NEW p \in OutPath, FreezeAt(p)
      PROVE  UsedStand(out'[p])
  <2>1. out' # out /\ faults' = faults /\ out'[p].schema \in {"freeze", "freezeBase"}
        /\ out[p] = Nothing /\ out'[p] # Nothing
    BY <1>1 DEF FreezeAt, Published
  <2>2. ~Around
    <3>1. faults \in Nat
      BY <1>1, SelectionAssumption DEF SelectionInv, WorldInv
    <3>2. \A what : ~Touch(what)
      BY <2>1, <3>1 DEF Touch
    <3> QED
      BY <3>2 DEF Around, ReplaceRun, ReplaceAdapter, ChangeSources, ReplaceArtifact, ChangeContract
  <2>3. ~Conclude
    <3> SUFFICES ASSUME Conclude PROVE FALSE
      OBVIOUS
    <3>1. ReadInv(cmd)
      BY <1>1, PlaceIs DEF Conclude, SelectionInv
    <3>2. out'[p] = Artifact(cmd.got)
      BY <1>1, <2>1, <3>1 DEF Conclude, Write, Refuse, SelectionInv, FileInv, ReadInv
    <3>3. out'[p].schema = cmd.kind
      BY <3>2 DEF Artifact
    <3> QED
      BY <2>1, <3>1, <3>3 DEF ReadInv
  <2>4. PublishFreeze
    BY <1>1, <2>1, <2>2, <2>3 DEF SelectionNext, Around, StartRead, ReadManifest, HashRows, ReadRows, RecordRun,
      StartFreeze, StartEnter, ParseSource, DigestSource, RecheckMethod, RecheckRows, RecheckManifest,
      RereadManifest, Enter, Continue, Refuse
  <2>5. /\ FreezeInv(cmd) /\ cmd.at = "finish" /\ cmd.kind # "enter" /\ ~Skips(cmd) /\ StandsInv
        /\ DOMAIN cmd = FreezeFields
    BY <1>1, <2>4, PlaceIs DEF PublishFreeze, SelectionInv, Skips, FreezeInv
  <2>6. PICK f : f = out'[p] /\ f = FreezeArtifact
    BY <1>1, <2>1, <2>4, <2>5 DEF PublishFreeze, Write, SelectionInv, FileInv, FreezeInv
  <2>7. /\ f.schema = cmd.kind /\ f.payload = cmd.source /\ f.primary = cmd.primary /\ f.fallback = cmd.fallback
    BY <2>6 DEF FreezeArtifact
  <2>8. /\ ItemsInv /\ cmd.todo = <<>> /\ Chosen(cmd.kind, cmd.primary, cmd.fallback)
        /\ cmd.source.schema \in Schemas(cmd.kind) /\ cmd.kind \in {"freeze", "freezeBase"}
    BY <2>5 DEF StandsInv, FreezeInv
  <2>9. \A item \in Range(Rechecks(cmd.kind, cmd.primary, cmd.fallback)) : ItemStands(item)
    BY <2>8 DEF ItemsInv, Range
  <2>10. PICK kind \in {"freeze", "freezeBase", "enter"} : kind = cmd.kind
    BY <2>8
  <2>11. PICK primary, fallback : primary = cmd.primary /\ fallback = cmd.fallback
    OBVIOUS
  <2> DEFINE s == Rechecks(kind, primary, fallback)
  <2>12. /\ kind # "freeze" => \A fold \in Fold : [key |-> <<fold, Base>>, deployed |-> FALSE] \in Range(s)
         /\ kind = "freeze" => \A label \in {primary, fallback} \ {Nothing} :
                                  [key |-> <<Deployment, label>>, deployed |-> TRUE] \in Range(s)
    BY <2>8, <2>10, <2>11, RechecksVisit
  <2>13. \A item \in Range(s) : ItemStands(item)
    BY <2>9, <2>10, <2>11
  <2> HIDE DEF s
  <2>14. ASSUME NEW key \in UsedBy(f)
         PROVE  RunStands(f.payload.got[key]) /\ BundleStands(f.payload.got[key])
    <3>1. PICK e : e = f.payload.got[key] /\ e = cmd.source.got[key]
      BY <2>7
    <3>2. CASE kind = "freeze"
      <4>1. PICK label \in {primary, fallback} \ {Nothing} : key = <<Deployment, label>>
        BY <2>7, <2>10, <2>11, <3>2 DEF UsedBy
      <4>2. PICK item \in Range(s) : item = [key |-> key, deployed |-> TRUE]
        BY <2>12, <3>2, <4>1
      <4>3. RowsStand(e) /\ ManifestStands(e) /\ BundleStands(e)
        BY <2>13, <3>1, <4>2 DEF ItemStands
      <4> QED
        BY <3>1, <4>3 DEF RowsStand, ManifestStands, RunStands
    <3>3. CASE kind # "freeze"
      <4>1. PICK fold \in Fold : key = <<fold, Base>>
        BY <2>7, <2>10, <3>3 DEF UsedBy
      <4>2. PICK item \in Range(s) : item = [key |-> key, deployed |-> FALSE]
        BY <2>12, <3>3, <4>1
      <4>3. RowsStand(e) /\ ManifestStands(e)
        BY <2>13, <3>1, <4>2 DEF ItemStands
      <4>4. key \in DOMAIN cmd.source.got
        <5>1. item.key \in DOMAIN cmd.source.got
          BY <2>5, <2>10, <2>11, ItemsRecorded DEF s
        <5> QED
          BY <4>2, <5>1
      <4>5. Provenance(cmd.source.got[key], key, cmd.source)
        BY <2>5, <4>4, ItemsRecorded
      <4>6. e.bundle = Nothing
        BY <3>1, <4>1, <4>5 DEF Provenance
      <4> QED
        BY <3>1, <4>3, <4>6 DEF RowsStand, ManifestStands, RunStands, BundleStands
    <3> QED
      BY <3>2, <3>3
  <2> QED
    BY <2>6, <2>14 DEF UsedStand
<1>2. SelectionInv /\ [SelectionNext]_selectionVars =>
        [\A p \in OutPath : FreezeAt(p) => UsedStand(out'[p])]_selectionVars
  BY <1>1
<1> QED
  BY <1>2, SelectionInvariance, PTL DEF SelectionSpec, FreezeSeesChanges

\* Whatever the base was qualified by stands at the entry to the holdout, or was
\* replaced since it began (validate_locked_holdout_access, EntrySeesChanges).
THEOREM EntryIsFresh == SelectionSpec => EntrySeesChanges
<1>1. ASSUME SelectionInv, SelectionNext, entered' # entered, entered' # Nothing, entered'.schema = "freezeBase"
      PROVE  BaseStands(entered')
  <2>1. Enter
    BY <1>1 DEF SelectionNext, StartRead, ReadManifest, HashRows, ReadRows, RecordRun, Conclude,
      StartFreeze, StartEnter, ParseSource, DigestSource, RecheckMethod, RecheckRows, RecheckManifest,
      RereadManifest, PublishFreeze, Continue, Refuse,
      ReplaceRun, ReplaceAdapter, ChangeSources, ReplaceArtifact, ChangeContract, Touch
  <2>2. PICK f : /\ f = entered' /\ f = cmd.frozen /\ f.schema = "freezeBase"
                 /\ f.digest = cmd.digest /\ f.payload = cmd.source
    BY <1>1, <2>1 DEF Enter, Refuse, NamesSource
  <2>3. /\ FreezeInv(cmd) /\ cmd.at = "finish" /\ cmd.kind = "enter" /\ ~Skips(cmd) /\ StandsInv
        /\ DOMAIN cmd = FreezeFields
    BY <1>1, <2>1, <2>2, PlaceIs DEF Enter, SelectionInv, Skips, FreezeInv
  <2>4. /\ ItemsInv /\ cmd.todo = <<>> /\ ParsedInv /\ HashedInv /\ cmd.from = f.from
    BY <2>2, <2>3 DEF StandsInv, FreezeInv
  <2>5. \A item \in Range(Rechecks(cmd.kind, cmd.primary, cmd.fallback)) : ItemStands(item)
    BY <2>4 DEF ItemsInv, Range
  <2>6. PICK kind \in {"freeze", "freezeBase", "enter"} : kind = cmd.kind
    BY <2>3
  <2>7. PICK primary, fallback : primary = cmd.primary /\ fallback = cmd.fallback
    OBVIOUS
  <2>8. \A fold \in Fold : [key |-> <<fold, Base>>, deployed |-> FALSE] \in Range(Rechecks(kind, primary, fallback))
    BY <2>3, <2>6, RechecksVisit
  <2>9. ASSUME NEW key \in Fold \X {Base}
        PROVE  RunStands(f.payload.got[key]) /\ SourcesOf(f.payload.got[key])
    <3>1. PICK e : e = f.payload.got[key] /\ e = cmd.source.got[key]
      BY <2>2
    <3>2. PICK fold \in Fold : key = <<fold, Base>>
      OBVIOUS
    <3>3. PICK item : item = [key |-> key, deployed |-> FALSE] /\ ItemStands(item)
      BY <2>5, <2>6, <2>7, <2>8, <3>2
    <3>4. RowsStand(e) /\ ManifestStands(e) /\ SourcesOf(e)
      BY <3>1, <3>3 DEF ItemStands
    <3> QED
      BY <3>1, <3>4 DEF RowsStand, ManifestStands, RunStands
  <2>10. Untouched(<<"out", f.from>>) => f.digest = f.payload /\ out[f.from] = f.payload
    BY <2>2, <2>3, <2>4 DEF ParsedInv, HashedInv
  <2> QED
    BY <2>2, <2>9, <2>10 DEF BaseStands
<1>2. SelectionInv /\ [SelectionNext]_selectionVars =>
        [entered' # entered /\ entered' # Nothing /\ entered'.schema = "freezeBase" => BaseStands(entered')]_selectionVars
  BY <1>1
<1> QED
  BY <1>2, SelectionInvariance, PTL DEF SelectionSpec, EntrySeesChanges
=============================================================================
