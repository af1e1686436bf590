----------------------------- MODULE MCPlanGraph -----------------------------
(* Small instances of PlanGraph for TLC. *)
EXTENDS PlanGraph, TLC

RunSymmetry == Permutations(Runs \ Forgetful)
=============================================================================
