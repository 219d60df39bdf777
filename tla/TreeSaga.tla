------------------------------ MODULE TreeSaga ------------------------------
(***************************************************************************)
(* What a workflow that calls other workflows promises its client: the     *)
(* same as one that calls none.  The effects of the whole tree of calls    *)
(* are made one after the other, as if its plans were one plan; when       *)
(* anything in the tree gives up, the effects that stand are taken back in *)
(* the opposite order, whichever workflow they belong to; and a person is  *)
(* needed as soon as any workflow of the tree is stuck.                    *)
(***************************************************************************)
CONSTANTS
    Roots,      \* the trees
    Effects,    \* the effects each plans for
    Earlier     \* the effects that are planned before each

VARIABLES
    phase,      \* where the saga of each tree stands
    standing    \* the effects that stand

vars == <<phase, standing>>

Phases == {"new", "forward", "unwinding", "completed", "failed", "stuck"}

Init ==
    /\ phase = [t \in Roots |-> "new"]
    /\ standing = [t \in Roots |-> {}]

Move(t, from, to) == phase[t] = from /\ phase' = [phase EXCEPT ![t] = to]
Now(t, effects) == standing' = [standing EXCEPT ![t] = effects]

Begin(t) == Move(t, "new", "forward") /\ UNCHANGED standing

Do(t, e) ==
    /\ e \notin standing[t]
    /\ standing[t] = Earlier[e]
    /\ Now(t, standing[t] \cup {e})
    /\ \/ Move(t, "forward", "forward")
       \/ standing[t] \cup {e} = Effects[t] /\ Move(t, "forward", "completed")

Complete(t) ==
    /\ standing[t] = Effects[t]
    /\ Move(t, "forward", "completed")
    /\ UNCHANGED standing

GiveUp(t) ==
    /\ \/ Move(t, "forward", "unwinding")
       \/ standing[t] = {} /\ Move(t, "forward", "failed")
    /\ UNCHANGED standing

Undo(t, e) ==
    /\ e \in standing[t]
    /\ standing[t] \ {e} = Earlier[e]
    /\ Now(t, standing[t] \ {e})
    /\ \/ Move(t, "unwinding", "unwinding")
       \/ standing[t] = {e} /\ Move(t, "unwinding", "failed")

Fail(t) ==
    /\ standing[t] = {}
    /\ Move(t, "unwinding", "failed")
    /\ UNCHANGED standing

Stick(t) ==
    /\ Move(t, "forward", "stuck") \/ Move(t, "unwinding", "stuck")
    /\ UNCHANGED standing

Next ==
    \E t \in Roots :
        \/ Begin(t) \/ Complete(t) \/ GiveUp(t) \/ Fail(t) \/ Stick(t)
        \/ \E e \in Effects[t] : Do(t, e) \/ Undo(t, e)

Spec == Init /\ [][Next]_vars
=============================================================================
