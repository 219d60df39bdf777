-------------------------------- MODULE Saga --------------------------------
(***************************************************************************)
(* What a Microflows workflow promises the client that submits it: its     *)
(* steps take effect one after the other; when it gives up, the effects    *)
(* are taken back in the opposite order; and it ends with every effect in  *)
(* place, with every effect taken back, with no effect ever made, or in    *)
(* the hands of a person.  No lease, executor or message appears here.     *)
(***************************************************************************)
EXTENDS Integers

CONSTANTS Workflows, Steps, PlanLength

VARIABLES
    phase,      \* where the saga of each workflow stands
    done,       \* the steps whose effect stands
    undone      \* the steps whose effect was made and taken back

vars == <<phase, done, undone>>

Phases == {"new", "forward", "unwinding", "completed", "compensated", "failed", "stuck"}

Init ==
    /\ phase = [w \in Workflows |-> "new"]
    /\ done = [w \in Workflows |-> {}]
    /\ undone = [w \in Workflows |-> {}]

Move(w, from, to) == phase[w] = from /\ phase' = [phase EXCEPT ![w] = to]

Begin(w) == Move(w, "new", "forward") /\ UNCHANGED <<done, undone>>

(* The next step of the plan takes effect; the last one may complete it. *)
Do(w, s) ==
    /\ \/ Move(w, "forward", "forward")
       \/ s = PlanLength[w] /\ Move(w, "forward", "completed")
    /\ s <= PlanLength[w]
    /\ done[w] = 1 .. s - 1
    /\ done' = [done EXCEPT ![w] = @ \cup {s}]
    /\ UNCHANGED undone

GiveUp(w) ==
    /\ \/ done[w] = {} /\ Move(w, "forward", "failed")
       \/ done[w] # {} /\ Move(w, "forward", "unwinding")
    /\ UNCHANGED <<done, undone>>

(* The latest effect that stands is the next to be taken back. *)
Undo(w, s) ==
    /\ done[w] = 1 .. s
    /\ done' = [done EXCEPT ![w] = @ \ {s}]
    /\ undone' = [undone EXCEPT ![w] = @ \cup {s}]
    /\ \/ s > 1 /\ Move(w, "unwinding", "unwinding")
       \/ s = 1 /\ Move(w, "unwinding", "compensated")

Stick(w) ==
    /\ Move(w, "forward", "stuck") \/ Move(w, "unwinding", "stuck")
    /\ UNCHANGED <<done, undone>>

Next ==
    \E w \in Workflows :
        \/ Begin(w)
        \/ GiveUp(w)
        \/ Stick(w)
        \/ \E s \in Steps : Do(w, s) \/ Undo(w, s)

Spec == Init /\ [][Next]_vars
=============================================================================
