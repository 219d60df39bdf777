-------------------------------- MODULE MCViz --------------------------------
(* The tree of MCWorkflowCall, observed. *)
EXTENDS Viz, TLC

CONSTANTS root, mid, leaf, LeafSteps

LengthOf == (root :> 1) @@ (mid :> 1) @@ (leaf :> LeafSteps)

CallsAt(n, c) == [s \in Steps |-> IF s = n THEN c ELSE NoCallee]
CalleeOf ==
    (root :> CallsAt(1, mid)) @@ (mid :> CallsAt(1, leaf)) @@ (leaf :> CallsAt(0, leaf))

Ample == {[maxDepth |-> 2, script |-> [w \in Workflows |-> w]]}
=============================================================================
