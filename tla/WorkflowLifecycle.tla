-------------------------- MODULE WorkflowLifecycle --------------------------
(***************************************************************************)
(* The procedures of module Workflow write the lifecycle state themselves; *)
(* the authority of module Lifecycle is a Drift function none of them can  *)
(* call.  This module states what the two have to do with each other.      *)
(***************************************************************************)
EXTENDS Workflow, Lifecycle

At(state, direction, disposition) ==
    [state |-> state, direction |-> direction, disposition |-> disposition]

Position(row) == At(row.state, row.direction, row.disposition)

(* The authority has a rule that leads from p to exactly q: the state, the  *)
(* direction and the disposition.                                           *)
LegalMove(p, q) == \E r \in RulesFor(p) : After(p, r) = q

Submission(p, q) == p.state = "absent" /\ q = At("forward", "forward", "none")

(* Three moves of the procedures are no move of the authority.  A forward   *)
(* workflow gives up before anything was committed: it fails at once,       *)
(* without reversing.                                                       *)
TrivialFailure(w, p, q) ==
    p.state = "forward" /\ q = At("failed", "reverse", "failed") /\ Active(w) = {}

(* The single-operation driver's failure blocks the workflow as failed;     *)
(* what the authority blocks is indeterminate, and a failure reverses.      *)
ParkedAsFailed(w, p, q) ==
    /\ p.state = "forward"
    /\ q = At("blocked", "forward", "failed")
    /\ \E s \in Steps : op[w][s] # "none"
    /\ missed'[w] = missed[w]

(* A compensation nobody knows the outcome of blocks the unwind as          *)
(* indeterminate; the authority keeps the disposition the unwind has.       *)
UnsureUnwind(w, p, q) ==
    /\ p.state = "reversing"
    /\ q = At("blocked", "reverse", "indeterminate")
    /\ \E s \in Steps : IsTop(w, s) /\ cp'[w][s] = "unresolved"

(* Whatever the procedures do to the state, the direction or the            *)
(* disposition of a workflow, the row stays one the package can represent,  *)
(* and they do what the lifecycle authority decides in that position for    *)
(* some cause, but for the three moves above.                               *)
FollowsLifecycle ==
    [][\A w \in Workflows :
          LET p == Position(wf[w])
              q == Position(wf'[w])
          IN  p # q =>
                 /\ Representable(q)
                 /\ \/ Submission(p, q)
                    \/ LegalMove(p, q)
                    \/ TrivialFailure(w, p, q)
                    \/ ParkedAsFailed(w, p, q)
                    \/ UnsureUnwind(w, p, q)]_vars

=============================================================================
