------------------------------ MODULE Lifecycle ------------------------------
(***************************************************************************)
(* The lifecycle authority of the microflows package: which state, in      *)
(* which direction, may turn into which other, for which cause, and with   *)
(* which disposition (state.drift).  Optional results are sets of at most  *)
(* one element.                                                            *)
(***************************************************************************)

Lifecycles == {"forward", "reversing", "blocked", "completed", "reversed", "failed",
               "resolved_exception"}

DirectionsOf(state) ==
    CASE state \in {"forward", "completed"}           -> {"forward"}
      [] state \in {"reversing", "reversed", "failed"} -> {"reverse"}
      [] OTHER                                        -> {"forward", "reverse"}

DispositionsOf(state) ==
    CASE state = "forward"                             -> {"none"}
      [] state = "completed"                           -> {"completed"}
      [] state \in {"reversing", "reversed", "failed"} -> {"failed", "cancelled"}
      [] OTHER                             -> {"failed", "cancelled", "indeterminate"}

Representable(p) ==
    p.direction \in DirectionsOf(p.state) /\ p.disposition \in DispositionsOf(p.state)

(* The moves, by cause.  A resolution depends on the direction in which the *)
(* workflow was blocked.                                                    *)
Rule(cause, from, directions, to) ==
    [cause |-> cause, from |-> from, directions |-> directions, to |-> to]

Rules == {
    Rule("ForwardComplete",         "forward",   {"forward"},            "completed"),
    Rule("OperationFailure",        "forward",   {"forward"},            "reversing"),
    Rule("ForwardIndeterminate",    "forward",   {"forward"},            "blocked"),
    Rule("Cancellation",            "forward",   {"forward"},            "reversing"),
    Rule("UnwindComplete",          "reversing", {"reverse"},            "reversed"),
    Rule("ReverseBlocked",          "reversing", {"reverse"},            "blocked"),
    Rule("ResolveForwardSuccess",   "blocked",   {"forward"},            "forward"),
    Rule("ResolveForwardFailed",    "blocked",   {"forward"},            "reversing"),
    Rule("ResolveReversalContinue", "blocked",   {"reverse"},            "reversing"),
    Rule("ResolveAcceptException",  "blocked",   {"forward", "reverse"}, "resolved_exception")}

(* No move is legal from a position whose direction does not fit its state. *)
RulesFor(p) ==
    {r \in Rules : /\ r.from = p.state
                   /\ p.direction \in r.directions \cap DirectionsOf(p.state)}

(* The next direction follows from the next state; a workflow that blocks,  *)
(* or whose block is accepted, keeps the direction it had.                  *)
DerivedDirection(to, incoming) ==
    CASE to \in {"forward", "completed"}           -> "forward"
      [] to \in {"reversing", "reversed", "failed"} -> "reverse"
      [] OTHER                                     -> incoming

(* What a cause declares; the others keep the disposition there was. *)
Declared(cause, current) ==
    CASE cause = "ForwardComplete"                               -> "completed"
      [] cause \in {"OperationFailure", "ResolveForwardFailed"}  -> "failed"
      [] cause = "ForwardIndeterminate"                          -> "indeterminate"
      [] cause = "Cancellation"                                  -> "cancelled"
      [] cause = "ResolveForwardSuccess"                         -> "none"
      [] OTHER                                                   -> current

After(p, r) == [state |-> r.to,
                direction |-> DerivedDirection(r.to, p.direction),
                disposition |-> Declared(r.cause, p.disposition)]
=============================================================================
