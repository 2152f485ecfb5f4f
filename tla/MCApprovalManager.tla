------------------------- MODULE MCApprovalManager -------------------------
(* Small instances of ApprovalManager for TLC: tasks of one agent, which   *)
(* race for the same limit.                                                *)
EXTENDS ApprovalManager

CONSTANT a1

OneAgent == [t \in Tasks |-> a1]

AllPolicies == [gated : BOOLEAN, auto : BOOLEAN]

=============================================================================
