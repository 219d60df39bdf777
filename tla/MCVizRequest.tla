---------------------------- MODULE MCVizRequest ----------------------------
(* Three workflows that call each other in any way, in any state, one of     *)
(* them perhaps missing.                                                     *)
EXTENDS VizRequest, TLC

CONSTANTS w1, w2, w3

Calling(children) == {[seq |-> i, child |-> children[i]] : i \in DOMAIN children}

ABit(state) ==
    [state |-> state, leased |-> FALSE, lapsed |-> FALSE, due |-> TRUE, calls |-> {},
     operations |-> {}, checkpoints |-> {}]

Redispatched == {[timer |-> "redispatch", settled |-> FALSE]}
Reconciled == {[timer |-> "reconcile", settled |-> TRUE]}

RootRows ==
    {[ABit(s) EXCEPT !.calls = Calling(k)] : s \in {"forward", "completed"},
        k \in {<<>>, <<w2>>, <<w2, w3>>, <<w3, w2>>, <<w1, w3>>}}
    \cup {[ABit("forward") EXCEPT !.leased = TRUE, !.calls = Calling(<<w2>>)],
          [ABit("absent") EXCEPT !.calls = Calling(<<w2>>)]}

BranchRows ==
    {[ABit(s) EXCEPT !.calls = Calling(k)] : s \in {"absent", "reversing", "completed"}, k \in {<<>>, <<w1>>, <<w3>>}}
    \cup {[ABit("blocked") EXCEPT !.calls = Calling(<<w3>>)],
          [ABit("forward") EXCEPT !.operations = Reconciled, !.calls = Calling(<<w3>>)]}

LeafRows ==
    {[ABit(s) EXCEPT !.calls = Calling(k)] : s \in {"absent", "forward", "failed"}, k \in {<<>>, <<w2>>}}
    \cup {[ABit("reversing") EXCEPT !.checkpoints = Redispatched, !.due = FALSE],
          [ABit("forward") EXCEPT !.leased = TRUE, !.lapsed = TRUE, !.due = FALSE]}

AnyCalls == {(w1 :> x) @@ (w2 :> y) @@ (w3 :> z) : x \in RootRows, y \in BranchRows, z \in LeafRows}
=============================================================================
