----------------------------- MODULE PairCommit -----------------------------
(***************************************************************************)
(* What publishing one records/manifest pair promises, whoever publishes   *)
(* it and whatever crashes: the pair appears at once, is replaced by       *)
(* nothing, and may disappear again only before a writer was told that it  *)
(* is committed.  ArtifactPair implements this with two hard links, a lock *)
(* file and a rollback.                                                    *)
(*                                                                         *)
(* The promise rests on the lock: once a live writer has lost its lock the *)
(* promise is void, and nothing is said of what follows.                   *)
(***************************************************************************)
CONSTANTS
    Bytes,    \* contents a writer may publish
    NoFile    \* nothing under the name

VARIABLES
    pair,     \* the committed contents, or NoFile
    acked,    \* whether some writer passed the point of no return
    void      \* whether a live writer has lost its lock

vars == <<pair, acked, void>>

Init ==
    /\ pair = NoFile
    /\ acked = FALSE
    /\ void = FALSE

Commit(b) ==
    /\ pair = NoFile
    /\ pair' = b
    /\ UNCHANGED <<acked, void>>

\* The rollback after a failed directory fsync: the caller was told nothing.
Retract ==
    /\ pair # NoFile
    /\ ~acked
    /\ pair' = NoFile
    /\ UNCHANGED <<acked, void>>

Acknowledge ==
    /\ pair # NoFile
    /\ acked' = TRUE
    /\ UNCHANGED <<pair, void>>

Breach ==
    /\ void' = TRUE
    /\ pair' \in Bytes \cup {NoFile}
    /\ acked' \in BOOLEAN

Next ==
    \/ ~void /\ ((\E b \in Bytes : Commit(b)) \/ Retract \/ Acknowledge)
    \/ Breach

Spec == Init /\ [][Next]_vars
=============================================================================
