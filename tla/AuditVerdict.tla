---------------------------- MODULE AuditVerdict ----------------------------
(***************************************************************************)
(* What a logical audit promises whoever relies on its manifest: at most   *)
(* MaxAttempts answers are recorded, the first readable one is the verdict *)
(* and ends the audit, and the manifest states that verdict for ever.      *)
(***************************************************************************)
EXTENDS Naturals

CONSTANTS Sample, MaxAttempts, NoVerdict

VARIABLES
    tries,      \* answers recorded so far
    verdict,    \* items found consistent, or NoVerdict
    published   \* what the manifest states, or NoVerdict

vars == <<tries, verdict, published>>

Init ==
    /\ tries = 0
    /\ verdict = NoVerdict
    /\ published = NoVerdict

Open == verdict = NoVerdict /\ tries < MaxAttempts

Fail ==
    /\ Open
    /\ tries' = tries + 1
    /\ UNCHANGED <<verdict, published>>

Conclude ==
    /\ Open
    /\ tries' = tries + 1
    /\ verdict' \in 0..Sample
    /\ UNCHANGED published

Publish ==
    /\ verdict # NoVerdict
    /\ published = NoVerdict
    /\ published' = verdict
    /\ UNCHANGED <<tries, verdict>>

Next == Fail \/ Conclude \/ Publish

Spec == Init /\ [][Next]_vars
=============================================================================
