-------------------------- MODULE SingularRegister --------------------------
(***************************************************************************)
(* What the Singular store promises its callers (the outcomes granted,     *)
(* settled, terminal and token_stale of the gateway): per key, a value     *)
(* that is decided at most once, by the last worker admitted to the key.   *)
(* A worker is admitted at most once per key and each admission displaces  *)
(* the worker before it.                                                   *)
(***************************************************************************)
CONSTANTS Keys, Workers, Outcomes, Nobody

VARIABLES
    holder,     \* the worker entitled to decide, or Nobody
    winner,     \* the worker that decided, or Nobody
    claimed,    \* the workers ever admitted
    decided,    \* {} or the singleton of the outcome
    known       \* the outcomes callers have learnt

vars == <<holder, winner, claimed, decided, known>>

Init ==
    /\ holder = [k \in Keys |-> Nobody]
    /\ winner = [k \in Keys |-> Nobody]
    /\ claimed = [k \in Keys |-> {}]
    /\ decided = [k \in Keys |-> {}]
    /\ known = [k \in Keys |-> {}]

(* Start or reclaim: a worker never admitted before takes over. *)
Admit(k, w) ==
    /\ decided[k] = {}
    /\ w \notin claimed[k]
    /\ holder' = [holder EXCEPT ![k] = w]
    /\ claimed' = [claimed EXCEPT ![k] = @ \cup {w}]
    /\ UNCHANGED <<winner, decided, known>>

(* The worker admitted last decides, once, and learns what it decided. *)
Decide(k, o) ==
    /\ decided[k] = {}
    /\ holder[k] \in claimed[k]
    /\ winner' = [winner EXCEPT ![k] = holder[k]]
    /\ holder' = [holder EXCEPT ![k] = Nobody]
    /\ decided' = [decided EXCEPT ![k] = {o}]
    /\ known' = [known EXCEPT ![k] = @ \cup {o}]
    /\ UNCHANGED claimed

Learn(k) ==
    /\ decided[k] # {}
    /\ known' = [known EXCEPT ![k] = @ \cup decided[k]]
    /\ UNCHANGED <<holder, winner, claimed, decided>>

Next ==
    \E k \in Keys :
        \/ \E w \in Workers : Admit(k, w)
        \/ \E o \in Outcomes : Decide(k, o)
        \/ Learn(k)

Spec == Init /\ [][Next]_vars
=============================================================================
