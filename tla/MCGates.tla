------------------------------- MODULE MCGates ------------------------------
(* Two invocations at a time: every pair of gates that share the lock in a   *)
(* way of their own, and direct runs of the Singular binding beside each     *)
(* other and beside the gates that hold the lock.                            *)
EXTENDS Gates

CONSTANTS g1, g2

MCGatesSet == {g1, g2}
MCSingularUnit == <<"lease">>
MCMicroflowsUnit == <<"state">>
MCRunnerUnit == <<"ir">>
MCSingularLive == <<"gateway", "malformed">>
MCMicroflowsLive == <<"reversal">>

MCSchemasOf ==
    [t \in {"gateway", "malformed", "reversal"} |->
        CASE t = "gateway" -> {"singular"}
          [] t = "malformed" -> {"malformed"}
          [] OTHER -> {"microflows", "fixtures"}]

Strict ==
    [driftc |-> "meets", certify |-> FALSE, lock |-> {"external", "library"},
     cli |-> "absent", emitted |-> {}, synced |-> TRUE]

Certify ==
    [Strict EXCEPT !.certify = TRUE, !.lock = {}, !.cli = "flags",
                   !.emitted = {"library"}]

\* The two lanes with one thing wrong.
Deviations ==
    {[Strict EXCEPT !.synced = FALSE]}
    \cup {[Strict EXCEPT !.driftc = d] : d \in {"absent", "dying", "unreadable", "below"}}
    \cup {[Strict EXCEPT !.lock = l] : l \in {{}, {"library"}}}
    \cup {[Certify EXCEPT !.cli = c] : c \in {"absent", "fails", "dangling"}}
    \cup {[Certify EXCEPT !.emitted = {}]}

World(k, l, env, shape, recorded) ==
    [kind |-> [g \in Gates |-> IF g = g1 THEN k ELSE l],
     env |-> env,
     db |-> [s \in Schemas |-> shape],
     baseline |-> [t \in Suites |-> [readable |-> TRUE, cost |-> recorded]]]

\* A direct run, on schemas loaded by hand, beside a gate that resets them,
\* and beside one that does not.
DirectBesideLocked ==
    { World("direct", "singular", Strict, "product", 0),
      World("direct", "microflows", Strict, "product", 0) }

\* The locked gates start on what a gate killed in a reset has left.
MCWorlds ==
    { World("root", "integration", Strict, "torn", 0),
      World("microflows", "singular", Strict, "torn", 0),
      World("cycles", "cycles-update", Strict, "torn", 0),
      World("drive", "drive-update", Certify, "torn", 0),
      World("drive", "drive-update", Certify, "torn", 1),
      World("direct", "direct", Certify, "product", 0) }
    \cup DirectBesideLocked
    \cup {World("root", "integration", e, "torn", 0) : e \in Deviations}
    \cup {World("singular", "drive", e, "torn", 1) : e \in Deviations}
=============================================================================
