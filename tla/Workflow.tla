------------------------------ MODULE Workflow ------------------------------
(***************************************************************************)
(* The durable workflow engine of Microflows: the sp_mf_* procedures over  *)
(* tb_mf_workflow, tb_mf_operation and tb_mf_workflow_checkpoint.  A       *)
(* procedure locks the workflow row FOR UPDATE and runs in one             *)
(* transaction: a call is one step.                                        *)
(*                                                                         *)
(* The callers are open: at any moment any executor may issue any command  *)
(* under any fencing token handed out so far, so a process that is slow,   *)
(* restarted, or repeats a command whose answer was lost is covered.       *)
(* Command identities (operation ids, reverse ids) are functions of the    *)
(* workflow and the step; a command that answers not_found, *_conflict,    *)
(* *_mismatch, plan_violation, fence_lost, event_time_skew, out_of_order,  *)
(* already_* or exists writes nothing and is a stuttering step.            *)
(*                                                                         *)
(* Time is abstracted to its effects: a lease may run out and a back-off   *)
(* may come due at any moment, and a time-based budget may or may not be   *)
(* used up.  A workflow without a plan row (the single-operation driver)   *)
(* is one whose plan has length 1.                                         *)
(***************************************************************************)
EXTENDS Integers, FiniteSets

CONSTANTS
    Workflows,      \* workflow ids
    Executors,      \* executor ids
    NoExecutor,     \* lease_owner NULL
    MaxSteps,       \* the longest plan
    PlanLength,     \* plan_length of each workflow's pinned plan
    MinAttempts,    \* arg_min_attempts of the route-404 budget
    MaxClaims       \* bound: claims per workflow

Steps == 1 .. MaxSteps

ASSUME WorkflowAssumption ==
    /\ MaxSteps \in Nat \ {0}
    /\ PlanLength \in [Workflows -> Steps]
    /\ MinAttempts \in Nat \ {0}
    /\ MaxClaims \in Nat
    /\ NoExecutor \notin Executors

VARIABLES
    wf,         \* tb_mf_workflow
    op,         \* tb_mf_operation.status per step
    cp,         \* tb_mf_workflow_checkpoint.reversal_state and reverse binding per step
    missed,     \* reconcile_attempts of the operation and checkpoint rows
    published   \* the fencing token of the last publication (for checking only)

rows == <<op, cp, missed>>
vars == <<wf, op, cp, missed, published>>

-----------------------------------------------------------------------------
(* The rows *)

States == {"absent", "forward", "reversing", "blocked", "completed", "reversed", "failed"}
(* The states the claim scan looks for. *)
Claimable == {"forward", "reversing"}
NoTrigger == 0
FailNode == MaxSteps + 1    \* reversal_trigger_operation_id of an authored fail

Row == [state: States,
        direction: {"forward", "reverse"},
        disposition: {"none", "completed", "failed", "indeterminate"},
        owner: Executors \cup {NoExecutor},
        lapsed: BOOLEAN,        \* lease_expires_at < db_now
        fence: 0 .. MaxClaims,
        due: BOOLEAN,           \* next_attempt_at <= db_now
        trigger: {NoTrigger, FailNode} \cup Steps]

NoRow == [state |-> "absent", direction |-> "forward", disposition |-> "none",
          owner |-> NoExecutor, lapsed |-> FALSE, fence |-> 0, due |-> FALSE,
          trigger |-> NoTrigger]

(* reversal_state 1 is split by whether reverse_invocation_id is bound. *)
CheckpointStates == {"none", "active", "dispatched", "reversed", "unresolved"}

TypeOK ==
    /\ wf \in [Workflows -> Row]
    /\ op \in [Workflows -> [Steps -> {"none", "requested", "succeeded"}]]
    /\ cp \in [Workflows -> [Steps -> CheckpointStates]]
    /\ missed \in [Workflows -> [Steps -> [{"op", "cp"} -> 0 .. MinAttempts]]]
    /\ published \in [Workflows -> 0 .. MaxClaims]

(* Checkpoints still to be compensated (reversal_state = 1); the highest is *)
(* the only one the unwind may touch.                                       *)
Active(w) == {s \in Steps : cp[w][s] \in {"active", "dispatched"}}

IsTop(w, s) == s \in Active(w) /\ \A r \in Active(w) : r <= s

(* The fence every publication compares: owner, token and lifecycle state.  *)
(* Deviation: an executor is known by its id, whichever claim it holds.     *)
HoldsByName(w, x, n, states) == wf[w].owner = x /\ n <= wf[w].fence /\ wf[w].state \in states
Holds(w, x, n, states) == wf[w].owner = x /\ wf[w].fence = n /\ wf[w].state \in states

Publish(w, n) == published' = [published EXCEPT ![w] = n]

TakeLease(row, x) == [row EXCEPT !.owner = x, !.lapsed = FALSE, !.fence = @ + 1]
ClearLease(row) == [row EXCEPT !.owner = NoExecutor, !.lapsed = FALSE]

(* Clear the lease and schedule the next attempt, now or later. *)
Unlease(w, due) == wf' = [wf EXCEPT ![w] = [ClearLease(@) EXCEPT !.due = due]]

(* Deviation: the row is parked as resolved_exception, a state no procedure *)
(* of the repository writes.                                                *)
BlockAsResolved(w, direction, disposition) ==
    wf' = [wf EXCEPT ![w] = [ClearLease(@) EXCEPT !.state = "resolved_exception",
                             !.direction = direction, !.disposition = disposition]]

(* Deviation: whatever blocks a workflow is written as a failure. *)
BlockAsFailed(w, direction, disposition) ==
    wf' = [wf EXCEPT ![w] = [ClearLease(@) EXCEPT !.state = "blocked",
                             !.direction = direction, !.disposition = "failed"]]

Block(w, direction, disposition) ==
    wf' = [wf EXCEPT ![w] = [ClearLease(@) EXCEPT !.state = "blocked",
                             !.direction = direction, !.disposition = disposition]]

SetOperation(w, s, status) == op' = [op EXCEPT ![w][s] = status]
SetCheckpoint(w, s, status) == cp' = [cp EXCEPT ![w][s] = status]

(* One more confirmed route-404, counted up to the floor it is compared to. *)
OneMore(n) == IF n < MinAttempts THEN n + 1 ELSE n
CountMiss(w, s, what) == missed' = [missed EXCEPT ![w][s][what] = OneMore(@)]

-----------------------------------------------------------------------------
(* Submission and the lease *)

Create(w) ==
    /\ wf[w].state = "absent"
    /\ wf' = [wf EXCEPT ![w] = [NoRow EXCEPT !.state = "forward", !.due = TRUE]]
    /\ UNCHANGED <<rows, published>>

MayClaim(w) ==
    /\ wf[w].state \in Claimable
    /\ wf[w].due
    /\ wf[w].owner = NoExecutor \/ wf[w].lapsed

Claim(w, x) ==
    /\ MayClaim(w)
    /\ wf[w].fence < MaxClaims
    /\ wf' = [wf EXCEPT ![w] = TakeLease(@, x)]
    /\ UNCHANGED <<rows, published>>

(* The deadline extended is judged by the caller's reading of the database  *)
(* clock, which may be older than the moment the lease ran out.             *)
Heartbeat(w, x, n) ==
    /\ Holds(w, x, n, Claimable)
    /\ wf' = [wf EXCEPT ![w].lapsed = FALSE]
    /\ UNCHANGED <<rows, published>>

Release(w, x, n, due) ==
    /\ Holds(w, x, n, Claimable)
    /\ Unlease(w, due)
    /\ UNCHANGED <<rows, published>>

-----------------------------------------------------------------------------
(* Going forward *)

OperationRequest(w, x, n, s) ==
    /\ Holds(w, x, n, {"forward"})
    /\ s <= PlanLength[w]
    /\ s > 1 => op[w][s - 1] = "succeeded"
    /\ op[w][s] = "none"
    /\ SetOperation(w, s, "requested")
    /\ Publish(w, n)
    /\ UNCHANGED <<wf, cp, missed>>

(* A settled step earns its checkpoint in the same transaction; the final   *)
(* settle completes the workflow.                                           *)
Settled(w, s, final) ==
    /\ SetOperation(w, s, "succeeded")
    /\ SetCheckpoint(w, s, "active")
    /\ IF final
       THEN wf' = [wf EXCEPT ![w] = [ClearLease(@) EXCEPT !.state = "completed",
                                     !.disposition = "completed"]]
       ELSE UNCHANGED wf

(* Only the last step of the plan may be final.  Deviation: any may. *)
MayFinishEarly(w, s, final) == s <= PlanLength[w]
MayFinish(w, s, final) == s <= PlanLength[w] /\ (final => s = PlanLength[w])

OperationSettle(w, x, n, s, final) ==
    /\ MayFinish(w, s, final)
    /\ op[w][s] = "requested"
    /\ Holds(w, x, n, {"forward"})
    /\ Settled(w, s, final)
    /\ Publish(w, n)
    /\ UNCHANGED missed

(* The single-operation driver's failure: no unwind, a person decides. *)
OperationFail(w, x, n, s) ==
    /\ op[w][s] # "none"
    /\ Holds(w, x, n, {"forward"})
    /\ Block(w, "forward", "failed")
    /\ Publish(w, n)
    /\ UNCHANGED rows

(* Nothing committed: the workflow has failed.  Otherwise the holder keeps  *)
(* the lease and unwinds.                                                   *)
StartUnwind(w, trigger) ==
    wf' = [wf EXCEPT ![w] =
              IF Active(w) = {}
              THEN [ClearLease(@) EXCEPT !.state = "failed", !.direction = "reverse",
                                         !.disposition = "failed", !.trigger = trigger]
              ELSE [@ EXCEPT !.state = "reversing", !.direction = "reverse",
                             !.disposition = "failed", !.trigger = trigger]]

(* Only a step still unsettled starts a reversal. *)
MayTrigger(w, s) == op[w][s] = "requested"

BeginReversal(w, x, n, s) ==
    /\ wf[w].trigger = NoTrigger
    /\ MayTrigger(w, s)
    /\ Holds(w, x, n, {"forward"})
    /\ StartUnwind(w, s)
    /\ Publish(w, n)
    /\ UNCHANGED rows

AuthoredFail(w, x, n) ==
    /\ wf[w].trigger = NoTrigger
    /\ Holds(w, x, n, {"forward"})
    /\ StartUnwind(w, FailNode)
    /\ Publish(w, n)
    /\ UNCHANGED rows

-----------------------------------------------------------------------------
(* Unwinding *)

(* The compensation is bound to the checkpoint before it is sent. *)
ReverseRequest(w, x, n, s) ==
    /\ cp[w][s] = "active"
    /\ Holds(w, x, n, {"reversing"})
    /\ IsTop(w, s)
    /\ SetCheckpoint(w, s, "dispatched")
    /\ Publish(w, n)
    /\ UNCHANGED <<wf, op, missed>>

(* The last compensation ends the unwind.  Deviation: each one does. *)
NothingLeft(w, s) == TRUE
IsLastActive(w, s) == Active(w) = {s}

ReverseSettle(w, x, n, s) ==
    /\ cp[w][s] = "dispatched"
    /\ Holds(w, x, n, {"reversing"})
    /\ IsTop(w, s)
    /\ SetCheckpoint(w, s, "reversed")
    /\ IF IsLastActive(w, s)
       THEN wf' = [wf EXCEPT ![w] = [ClearLease(@) EXCEPT !.state = "reversed"]]
       ELSE UNCHANGED wf
    /\ Publish(w, n)
    /\ UNCHANGED <<op, missed>>

ReverseBlock(w, x, n, s, disposition) ==
    /\ cp[w][s] = "dispatched"
    /\ Holds(w, x, n, {"reversing"})
    /\ IsTop(w, s)
    /\ SetCheckpoint(w, s, "unresolved")
    /\ Block(w, wf[w].direction, disposition)
    /\ Publish(w, n)
    /\ UNCHANGED <<op, missed>>

-----------------------------------------------------------------------------
(* Deferrals *)

DispatchDefer(w, x, n) ==
    /\ Holds(w, x, n, Claimable)
    /\ Unlease(w, FALSE)
    /\ Publish(w, n)
    /\ UNCHANGED rows

(* A participant that is still working: wait (the lease is given up), or,   *)
(* once the interval has passed, re-arm the timer and keep the lease, which *)
(* changes nothing here but who published last.                             *)
OperationPendingDefer(w, x, n, s) ==
    /\ Holds(w, x, n, {"forward"})
    /\ op[w][s] = "requested"
    /\ Unlease(w, FALSE) \/ UNCHANGED wf
    /\ Publish(w, n)
    /\ UNCHANGED rows

CheckpointPendingDefer(w, x, n, s) ==
    /\ cp[w][s] = "dispatched"
    /\ Holds(w, x, n, {"reversing"})
    /\ IsTop(w, s)
    /\ Unlease(w, FALSE) \/ UNCHANGED wf
    /\ Publish(w, n)
    /\ UNCHANGED rows

(* Enough attempts were counted, this one included. *)
BudgetSpent(w, s, what) == OneMore(missed[w][s][what]) >= MinAttempts

(* A participant that does not know the operation: count it and wait, or,   *)
(* when the budget of attempts and of time is spent, leave it to a person.  *)
WorkflowReconcileDefer(w, x, n, s) ==
    /\ Holds(w, x, n, {"forward"})
    /\ op[w][s] = "requested"
    /\ CountMiss(w, s, "op")
    /\ \/ Unlease(w, FALSE)
       \/ BudgetSpent(w, s, "op") /\ Block(w, "forward", "indeterminate")
    /\ Publish(w, n)
    /\ UNCHANGED <<op, cp>>

CheckpointReconcileDefer(w, x, n, s) ==
    /\ cp[w][s] = "dispatched"
    /\ Holds(w, x, n, {"reversing"})
    /\ IsTop(w, s)
    /\ CountMiss(w, s, "cp")
    /\ \/ Unlease(w, FALSE) /\ UNCHANGED cp
       \/ /\ BudgetSpent(w, s, "cp")
          /\ SetCheckpoint(w, s, "unresolved")
          /\ Block(w, wf[w].direction, "indeterminate")
    /\ Publish(w, n)
    /\ UNCHANGED op

-----------------------------------------------------------------------------
(* The clock *)

LeaseLapses(w) ==
    /\ wf[w].owner # NoExecutor
    /\ ~ wf[w].lapsed
    /\ wf' = [wf EXCEPT ![w].lapsed = TRUE]
    /\ UNCHANGED <<rows, published>>

ComesDue(w) ==
    /\ wf[w].state \in Claimable
    /\ ~ wf[w].due
    /\ wf' = [wf EXCEPT ![w].due = TRUE]
    /\ UNCHANGED <<rows, published>>

-----------------------------------------------------------------------------
Init ==
    /\ wf = [w \in Workflows |-> NoRow]
    /\ op = [w \in Workflows |-> [s \in Steps |-> "none"]]
    /\ cp = [w \in Workflows |-> [s \in Steps |-> "none"]]
    /\ missed = [w \in Workflows |-> [s \in Steps |-> [what \in {"op", "cp"} |-> 0]]]
    /\ published = [w \in Workflows |-> 0]

(* A command of an executor that works, or believes it works, on w. *)
Command(w, x, n) ==
    \/ Heartbeat(w, x, n)
    \/ \E due \in BOOLEAN : Release(w, x, n, due)
    \/ AuthoredFail(w, x, n)
    \/ DispatchDefer(w, x, n)
    \/ \E s \in Steps :
          \/ OperationRequest(w, x, n, s)
          \/ \E final \in BOOLEAN : OperationSettle(w, x, n, s, final)
          \/ OperationFail(w, x, n, s)
          \/ BeginReversal(w, x, n, s)
          \/ ReverseRequest(w, x, n, s)
          \/ ReverseSettle(w, x, n, s)
          \/ \E d \in {"failed", "indeterminate"} : ReverseBlock(w, x, n, s, d)
          \/ OperationPendingDefer(w, x, n, s)
          \/ CheckpointPendingDefer(w, x, n, s)
          \/ WorkflowReconcileDefer(w, x, n, s)
          \/ CheckpointReconcileDefer(w, x, n, s)

Next ==
    \E w \in Workflows :
        \/ Create(w)
        \/ LeaseLapses(w)
        \/ ComesDue(w)
        \/ \E x \in Executors :
              \/ Claim(w, x)
              \/ \E n \in 1 .. wf[w].fence : Command(w, x, n)

Spec == Init /\ [][Next]_vars

-----------------------------------------------------------------------------
(* Properties *)

Standing(w) == {s \in Steps : cp[w][s] \in {"active", "dispatched", "unresolved"}}
Reversed(w) == {s \in Steps : cp[w][s] = "reversed"}
Plan(w) == 1 .. PlanLength[w]
Final == {"blocked", "completed", "reversed", "failed"}

RowFits(w) ==
    LET row == wf[w]
    IN  /\ row.state \in {"absent", "forward"} =>
               row.disposition = "none" /\ row.direction = "forward"
        /\ row.state \in {"reversing", "reversed", "failed"} =>
               row.disposition = "failed" /\ row.direction = "reverse"
        /\ row.state = "completed" =>
               row.disposition = "completed" /\ row.direction = "forward"
        /\ row.state = "blocked" => row.disposition \in {"failed", "indeterminate"}
        /\ row.state \notin Claimable => row.owner = NoExecutor

FollowsPlan(w) ==
    \A s \in Steps :
        /\ op[w][s] # "none" => s <= PlanLength[w]
        /\ op[w][s] # "none" => \A r \in Steps : r < s => op[w][r] = "succeeded"
        /\ cp[w][s] # "none" <=> op[w][s] = "succeeded"

UnwindsInOrder(w) ==
    \A r, s \in Steps :
        (r < s /\ cp[w][r] \in {"dispatched", "reversed", "unresolved"} /\ cp[w][s] # "none")
            => cp[w][s] = "reversed"

MeansItsState(w) ==
    LET row == wf[w]
    IN  /\ row.state = "completed" => Active(w) = Plan(w)
        /\ row.state = "reversed" => Reversed(w) # {} /\ Standing(w) = {}
        /\ row.state = "failed" => Reversed(w) = {} /\ Standing(w) = {}
        /\ row.state = "reversing" => Active(w) # {} /\ Standing(w) = Active(w)
        /\ row.state = "forward" => Reversed(w) = {} /\ Standing(w) = Active(w)
        /\ row.state = "blocked" =>
               \/ row.direction = "forward" /\ Standing(w) = Active(w) /\ Reversed(w) = {}
               \/ \E s \in Steps : row.direction = "reverse" /\ Standing(w) \ Active(w) = {s}

TriggerFailed(w) ==
    \A s \in Steps : wf[w].trigger = s => op[w][s] = "requested" /\ cp[w][s] = "none"

BudgetUsed(w) ==
    (wf[w].state = "blocked" /\ wf[w].direction = "forward" /\ wf[w].disposition = "indeterminate")
        => \E s \in Steps : op[w][s] = "requested" /\ missed[w][s]["op"] >= MinAttempts

(* No procedure writes a row that the CHECK constraints of tb_mf_workflow    *)
(* refuse: the disposition and the direction fit the lifecycle state; and a  *)
(* workflow nobody may claim is not left with a lease.                       *)
RowsRepresentable == \A w \in Workflows : RowFits(w)

(* Whoever drives the workflow, and however often it changes hands, the      *)
(* steps of the pinned plan are requested one at a time and in order, and a  *)
(* checkpoint stands for exactly the steps that succeeded.                   *)
PlanOrder == \A w \in Workflows : FollowsPlan(w)

(* A compensation is bound, settled or given up only after the compensations *)
(* of all later steps have succeeded.                                        *)
UnwindOrder == \A w \in Workflows : UnwindsInOrder(w)

(* The lifecycle state the client is shown says what became of the effects:  *)
(* completed, all of them stand; reversed, there were some and all are taken *)
(* back; failed, there never were any; blocked in an unwind, exactly one     *)
(* compensation is unresolved.                                               *)
OutcomeMeaning == \A w \in Workflows : MeansItsState(w)

(* The operation a reversal is blamed on never succeeded: a step whose       *)
(* success is recorded cannot, by a late or repeated command, start one.     *)
TriggerNeverSucceeded == \A w \in Workflows : TriggerFailed(w)

(* A forward step is declared indeterminate only when the participant has    *)
(* disowned one requested step at least MinAttempts times.                   *)
BudgetBeforeBlock == \A w \in Workflows : BudgetUsed(w)

(* A superseded executor can compute but not publish: whatever changes the   *)
(* lifecycle state or a step's row carries the token of the latest claim.    *)
OnlyLatestClaimPublishes ==
    [][\A w \in Workflows :
          (wf[w].state # "absent"
              /\ <<wf'[w].state, op'[w], cp'[w], missed'[w]>> # <<wf[w].state, op[w], cp[w], missed[w]>>)
          => published'[w] = wf[w].fence]_vars

(* No command, however late, changes a workflow that ended or that waits for *)
(* a person.                                                                 *)
FinalRowsStay ==
    [][\A w \in Workflows : wf[w].state \in Final =>
          <<wf'[w], op'[w], cp'[w], missed'[w]>> = <<wf[w], op[w], cp[w], missed[w]>>]_vars

-----------------------------------------------------------------------------
(* The promise: a workflow row is a saga. *)

PhaseOf(state) ==
    CASE state = "absent"    -> "new"
      [] state = "forward"   -> "forward"
      [] state = "reversing" -> "unwinding"
      [] state = "blocked"   -> "stuck"
      [] state = "completed" -> "completed"
      [] state = "reversed"  -> "compensated"
      [] state = "failed"    -> "failed"

Promise == INSTANCE Saga WITH
    phase <- [w \in Workflows |-> PhaseOf(wf[w].state)],
    done <- [w \in Workflows |-> Standing(w)],
    undone <- [w \in Workflows |-> Reversed(w)]

ImplementsSaga == Promise!Spec
=============================================================================
