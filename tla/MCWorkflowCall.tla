---------------------------- MODULE MCWorkflowCall ----------------------------
(* A tree of three workflows: root calls mid, as its step RootCalls; mid     *)
(* calls leaf, then does an operation of its own.                            *)
EXTENDS WorkflowCall, TLC

CONSTANTS root, mid, leaf, RootCalls

LengthOf == (root :> 2) @@ (mid :> 2) @@ (leaf :> 1)

CallsAt(n, c) == [s \in Steps |-> IF s = n THEN c ELSE NoCallee]
CalleeOf ==
    (root :> CallsAt(RootCalls, mid)) @@ (mid :> CallsAt(1, leaf)) @@ (leaf :> CallsAt(0, leaf))

OwnScripts == [w \in Workflows |-> w]
Ample == [maxDepth |-> 2, script |-> OwnScripts]
Shallow == [maxDepth |-> 1, script |-> OwnScripts]
Circular == [maxDepth |-> 2, script |-> [OwnScripts EXCEPT ![leaf] = root]]

AmpleOnly == {Ample}
RefusingToo == {Ample, Shallow, Circular}
Refusing == {Shallow, Circular}

AnyExecutor == Permutations(Executors)
===============================================================================
