----------------------------- MODULE TrainingJob -----------------------------
(***************************************************************************)
(* What one training workspace of gate_b_runtime.py promises: it is bound  *)
(* to one contract before it trains, training is begun before it publishes *)
(* an adapter, an adapter is never replaced, and the completion marker is  *)
(* written once, for an adapter of the workspace's own contract.           *)
(***************************************************************************)
CONSTANTS Contract, Output, Absent

VARIABLES contract, started, adapter, completion

vars == <<contract, started, adapter, completion>>

Init ==
    /\ contract = Absent
    /\ started = FALSE
    /\ adapter = [o \in Output |-> Absent]
    /\ completion = Absent

Bind(c) ==
    /\ contract = Absent
    /\ contract' = c
    /\ UNCHANGED <<started, adapter, completion>>

Begin ==
    /\ contract # Absent
    /\ started' = TRUE
    /\ UNCHANGED <<contract, adapter, completion>>

\* An adapter of the workspace, or of a run that keeps no workspace.
Publish(o, c) ==
    /\ adapter[o] = Absent
    /\ \E own \in BOOLEAN :
          /\ own => started /\ c = contract
          /\ adapter' = [adapter EXCEPT ![o] = [contract |-> c, own |-> own]]
    /\ UNCHANGED <<contract, started, completion>>

Complete(o) ==
    /\ started
    /\ completion = Absent
    /\ adapter[o] # Absent
    /\ adapter[o].contract = contract
    /\ completion' = o
    /\ UNCHANGED <<contract, started, adapter>>

Next ==
    \/ \E c \in Contract : Bind(c)
    \/ Begin
    \/ \E o \in Output, c \in Contract : Publish(o, c)
    \/ \E o \in Output : Complete(o)

Spec == Init /\ [][Next]_vars
=============================================================================
