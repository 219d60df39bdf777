--------------------------------- MODULE Viz ---------------------------------
(***************************************************************************)
(* The observer at work: a request of VizRequest answered while the        *)
(* workflows of WorkflowCall go on.  The engine may take any number of     *)
(* steps between two reads.                                                *)
(*                                                                         *)
(* The engine keeps the counters of the route-404 budget (missed) and not  *)
(* those of the re-dispatch timer, so no row here carries the latter.      *)
(***************************************************************************)
EXTENDS WorkflowCall, Sequences

CONSTANTS
    Subjects,   \* the workflows that are asked about
    Views,      \* the endpoints that are asked for
    Depths      \* the values of max_depth asked for

VARIABLES
    server, h,      \* see VizRequest
    blockedThen     \* what was blocked when the request came (for checking only)

(* A row of tb_mf_call is written with the request of its operation. *)
CallRows(w) ==
    {[seq |-> s, child |-> Callee[w][s]] : s \in {t \in Plan(w) : IsCall(w, t) /\ op[w][t] # "none"}}

(* No procedure takes a counter back when its row is settled. *)
Counts(w, what) == {s \in Steps : missed[w][s][what] > 0}
Carried(settled) == [timer |-> "reconcile", settled |-> settled]

Stored ==
    [w \in Workflows |->
        [state |-> wf[w].state, leased |-> wf[w].owner # NoExecutor, lapsed |-> wf[w].lapsed,
         due |-> wf[w].due, calls |-> CallRows(w),
         operations |-> {Carried(op[w][s] = "succeeded") : s \in Counts(w, "op")},
         checkpoints |-> {Carried(s \notin Active(w)) : s \in Counts(w, "cp")}]]

Viewer == INSTANCE VizRequest WITH
    Ids <- Workflows, Matching <- Workflows, Spellings <- {"lower"}, Stores <- {}, store <- Stored

viewing == <<server, h, blockedThen>>

Ask(q) ==
    /\ server = "serving" /\ h.at = "waiting"
    /\ q.key[1] \in Subjects
    /\ h' = Viewer!Asked(q)
    /\ blockedThen' = {w \in Workflows : wf[w].state = "blocked"}
    /\ UNCHANGED <<everything, server>>

Answer == h.at # "waiting" /\ UNCHANGED <<everything, blockedThen>> /\ Viewer!Handles

VizInit ==
    /\ CallInit
    /\ server = "serving"
    /\ h = Viewer!Waiting
    /\ blockedThen = {}

VizNext ==
    \/ CallNext /\ UNCHANGED viewing
    \/ \E q \in Viewer!Requests : Ask(q)
    \/ Answer

VizSpec == VizInit /\ [][VizNext]_<<everything, viewing>>

-----------------------------------------------------------------------------
(* Properties *)

Verdict == h.answer.verdict
LineOf(answer) == [i \in 1 .. Len(answer.line) |-> answer.line[i][1]]
On(line) == {line[i] : i \in 1 .. Len(line)}
Stuck == Viewer!Answered({"stuck"})

(* What needs a person is found: when a workflow was blocked before the      *)
(* question was asked, a verdict about it or about anything above it names   *)
(* it, unless somebody holds the lease of one of those above.                *)
BlockIsFound ==
    \A b \in blockedThen :
        Stuck /\ h.q.key[1] \in Line[b] =>
            LET line == LineOf(h.answer)
            IN  /\ On(line) \subseteq Line[b]
                /\ IF line[Len(line)] = b THEN Verdict = "blocked_resolution"
                                          ELSE Verdict = "running_under_lease"

(* A verdict that nothing will move stays true: the submitted workflow has   *)
(* ended for good; the blocked one is still blocked, and all on the path     *)
(* that leads to it wait for it.                                             *)
VerdictsThatStay ==
    Stuck =>
        LET line == LineOf(h.answer)
            last == line[Len(line)]
        IN  /\ Verdict = "terminal" /\ last \in Roots => wf[last].state \in Ended
            /\ Verdict = "blocked_resolution" =>
                  /\ wf[last].state = "blocked"
                  /\ \A i \in 1 .. Len(line) - 1 : WaitsAt(line[i], CallStep(line[i + 1]))

(* An answer is put together from rows read one after the other, and still   *)
(* tells one story: shown that the submitted workflow completed, everything  *)
(* shown below it has; shown that it reversed or failed, nothing below       *)
(* stands.                                                                   *)
StateShown(w) == {s.state : s \in {t \in h.shown : t.line[Len(t.line)][1] = w}}

TreeTellsOneOutcome ==
    Viewer!Answered({"inspect", "tree", "timeline"}) /\ h.q.key[1] \in Roots =>
        LET below == (UNION {StateShown(w) : w \in Workflows}) \ {"truncated"}
            top == StateShown(h.q.key[1])
        IN  /\ top = {"completed"} => below = {"completed"}
            /\ top \cap {"reversed", "failed"} # {} => below \subseteq {"reversed", "failed"}

(* "the bounded durable reconcile budget is being spent ... when it runs out *)
(* the workflow parks as blocked for an operator": the detail dbq.py gives   *)
(* with the verdict.  A budget is spent for an operation or a compensation   *)
(* that has not been settled.                                                *)
BudgetIsBeingSpent ==
    Stuck /\ Verdict = "reconcile_pending" => \E carrier \in h.answer.carriers : ~ carrier.settled
=============================================================================
