------------------------------ MODULE OneShot -------------------------------
(***************************************************************************)
(* What the locked holdout promises whoever relies on a result: it is      *)
(* claimed for one freeze, opened once, and yields one result of that      *)
(* freeze, in which a fallback answers only what the primary could not.  A *)
(* claim that comes to nothing is lost: the holdout is used up.            *)
(***************************************************************************)
CONSTANTS Freeze, Records, Nothing

VARIABLES
    stage,      \* "closed", "claimed", "open", "published" or "lost"
    used,       \* the freeze the holdout was claimed for, or Nothing
    results     \* what was published: at most one result

vars == <<stage, used, results>>

Init ==
    /\ stage = "closed"
    /\ used = Nothing
    /\ results = {}

Claim ==
    /\ stage = "closed"
    /\ stage' = "claimed"
    /\ used' \in Freeze
    /\ UNCHANGED results

Open ==
    /\ stage = "claimed"
    /\ stage' = "open"
    /\ UNCHANGED <<used, results>>

Publish ==
    /\ stage = "open"
    /\ stage' = "published"
    /\ \E invalid \in SUBSET Records : \E rescued \in SUBSET invalid :
          results' = {[freeze |-> used, invalid |-> invalid, rescued |-> rescued]}
    /\ UNCHANGED used

Lose ==
    /\ stage \in {"claimed", "open"}
    /\ stage' = "lost"
    /\ UNCHANGED <<used, results>>

Next == Claim \/ Open \/ Publish \/ Lose

Spec == Init /\ [][Next]_vars
=============================================================================
