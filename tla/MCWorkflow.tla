----------------------------- MODULE MCWorkflow -----------------------------
(* A small instance of Workflow: one workflow whose pinned plan is as long   *)
(* as Length, driven by interchangeable executors.  The rows of different    *)
(* workflows are never touched by one command of this module.                *)
EXTENDS WorkflowLifecycle, TLC

CONSTANT Length     \* bound: plan_length of every workflow

MCPlanLength == [w \in Workflows |-> Length]

Symmetry == Permutations(Executors)
=============================================================================
