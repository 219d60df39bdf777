--------------------------- MODULE WorkflowProofs ---------------------------
(***************************************************************************)
(* Safety of the workflow engine for every set of workflows and executors, *)
(* every plan length, every budget and every bound on claims.  Each step   *)
(* of Next leaves all workflows but one alone and does one of nine things  *)
(* to that one: it moves the lease, creates, requests, settles, parks,     *)
(* gives up, dispatches a compensation, takes a step back, or gets stuck.  *)
(* What the invariant says is shown per workflow, move by move; and from    *)
(* the same moves, that the engine implements Saga and obeys the lifecycle  *)
(* authority.                                                               *)
(***************************************************************************)
EXTENDS WorkflowLifecycle, TLAPS

(* Strengthening: before the unwind no compensation is bound and no trigger *)
(* is recorded, and a workflow that was not submitted has no operations.    *)
NotUnwinding(w) ==
    /\ wf[w].state \in {"absent", "forward"} =>
           wf[w].trigger = NoTrigger /\ \A s \in Steps : cp[w][s] \in {"none", "active"}
    /\ wf[w].state = "absent" => \A s \in Steps : op[w][s] = "none"

LInv(w) ==
    /\ RowFits(w)
    /\ FollowsPlan(w)
    /\ UnwindsInOrder(w)
    /\ MeansItsState(w)
    /\ TriggerFailed(w)
    /\ BudgetUsed(w)
    /\ NotUnwinding(w)

IInv == TypeOK /\ \A w \in Workflows : LInv(w)

-----------------------------------------------------------------------------
(* The moves. *)

Same(v) ==
    /\ wf'[v] = wf[v]
    /\ op'[v] = op[v]
    /\ cp'[v] = cp[v]
    /\ missed'[v] = missed[v]

SameLife(w) ==
    /\ wf'[w].state = wf[w].state
    /\ wf'[w].direction = wf[w].direction
    /\ wf'[w].disposition = wf[w].disposition
    /\ wf'[w].trigger = wf[w].trigger

Becomes(w, state, direction, disposition, trigger) ==
    /\ wf'[w].state = state
    /\ wf'[w].direction = direction
    /\ wf'[w].disposition = disposition
    /\ wf'[w].trigger = trigger

SameRows(w) == op'[w] = op[w] /\ cp'[w] = cp[w]

LeaseMove(w) == wf[w].state \in Claimable /\ SameLife(w) /\ SameRows(w)

CreateMove(w) ==
    /\ wf[w].state = "absent"
    /\ Becomes(w, "forward", "forward", "none", NoTrigger)
    /\ SameRows(w)

RequestMove(w, s) ==
    /\ wf[w].state = "forward"
    /\ s <= PlanLength[w]
    /\ s > 1 => op[w][s - 1] = "succeeded"
    /\ op[w][s] = "none"
    /\ op'[w] = [op[w] EXCEPT ![s] = "requested"]
    /\ cp'[w] = cp[w]
    /\ SameLife(w)

SettleMove(w, s) ==
    /\ wf[w].state = "forward"
    /\ s <= PlanLength[w]
    /\ op[w][s] = "requested"
    /\ op'[w] = [op[w] EXCEPT ![s] = "succeeded"]
    /\ cp'[w] = [cp[w] EXCEPT ![s] = "active"]
    /\ \/ SameLife(w)
       \/ /\ s = PlanLength[w]
          /\ Becomes(w, "completed", wf[w].direction, "completed", wf[w].trigger)
          /\ wf'[w].owner = NoExecutor

ParkMove(w) ==
    /\ wf[w].state = "forward"
    /\ \/ /\ Becomes(w, "blocked", "forward", "failed", wf[w].trigger)
          /\ \E s \in Steps : op[w][s] # "none"
          /\ missed'[w] = missed[w]
       \/ /\ Becomes(w, "blocked", "forward", "indeterminate", wf[w].trigger)
          /\ \E s \in Steps : op[w][s] = "requested" /\ missed'[w][s]["op"] >= MinAttempts
    /\ wf'[w].owner = NoExecutor
    /\ SameRows(w)

GiveUpMove(w) ==
    /\ wf[w].state = "forward"
    /\ \E t \in {FailNode} \cup {s \in Steps : op[w][s] = "requested"} :
          \/ Active(w) = {} /\ Becomes(w, "failed", "reverse", "failed", t) /\ wf'[w].owner = NoExecutor
          \/ Active(w) # {} /\ Becomes(w, "reversing", "reverse", "failed", t)
    /\ SameRows(w)

BindMove(w, s) ==
    /\ wf[w].state = "reversing"
    /\ IsTop(w, s)
    /\ cp'[w] = [cp[w] EXCEPT ![s] = "dispatched"]
    /\ op'[w] = op[w]
    /\ SameLife(w)

UndoMove(w, s) ==
    /\ wf[w].state = "reversing"
    /\ IsTop(w, s)
    /\ cp'[w] = [cp[w] EXCEPT ![s] = "reversed"]
    /\ op'[w] = op[w]
    /\ \/ Active(w) # {s} /\ SameLife(w)
       \/ /\ Active(w) = {s}
          /\ Becomes(w, "reversed", wf[w].direction, wf[w].disposition, wf[w].trigger)
          /\ wf'[w].owner = NoExecutor

StickMove(w, s) ==
    /\ wf[w].state = "reversing"
    /\ IsTop(w, s)
    /\ cp'[w] = [cp[w] EXCEPT ![s] = "unresolved"]
    /\ op'[w] = op[w]
    /\ \E d \in {"failed", "indeterminate"} :
          Becomes(w, "blocked", wf[w].direction, d, wf[w].trigger)
    /\ wf'[w].owner = NoExecutor

Move(w) ==
    \/ LeaseMove(w)
    \/ CreateMove(w)
    \/ ParkMove(w)
    \/ GiveUpMove(w)
    \/ \E s \in Steps :
          \/ RequestMove(w, s)
          \/ SettleMove(w, s)
          \/ BindMove(w, s)
          \/ UndoMove(w, s)
          \/ StickMove(w, s)

Shape(w) ==
    /\ TypeOK'
    /\ \A v \in Workflows \ {w} : Same(v)
    /\ Move(w)

-----------------------------------------------------------------------------
LEMMA StepFacts == /\ MaxSteps \in Nat
                   /\ \A s \in Steps : s \in Nat /\ s >= 1 /\ s <= MaxSteps
                   /\ \A w \in Workflows : PlanLength[w] \in Steps
                   /\ NoTrigger \notin Steps /\ FailNode \notin Steps
                   /\ MinAttempts \in Nat
BY WorkflowAssumption DEF Steps, NoTrigger, FailNode

(* A row is written in one place. *)
LEMMA WriteRow ==
    ASSUME TypeOK, NEW w \in Workflows, NEW r \in Row, wf' = [wf EXCEPT ![w] = r]
    PROVE  /\ wf' \in [Workflows -> Row]
           /\ wf'[w] = r
           /\ \A v \in Workflows \ {w} : wf'[v] = wf[v]
BY DEF TypeOK

LEMMA KeepRow ==
    ASSUME TypeOK, NEW w \in Workflows, UNCHANGED wf
    PROVE  /\ wf' \in [Workflows -> Row]
           /\ \A v \in Workflows \ {w} : wf'[v] = wf[v]
           /\ SameLife(w)
BY DEF TypeOK, SameLife

LEMMA PublishType ==
    ASSUME TypeOK, NEW w \in Workflows, NEW n \in 0 .. wf[w].fence, Publish(w, n)
    PROVE  published' \in [Workflows -> 0 .. MaxClaims]
<1>1. wf[w].fence \in 0 .. MaxClaims
  BY DEF TypeOK, Row
<1>2. n \in 0 .. MaxClaims
  BY <1>1, WorkflowAssumption
<1> QED
  BY <1>2 DEF Publish, TypeOK

LEMMA SetOperationFacts ==
    ASSUME TypeOK, NEW w \in Workflows, NEW s \in Steps, NEW status \in {"requested", "succeeded"},
           SetOperation(w, s, status)
    PROVE  /\ op' \in [Workflows -> [Steps -> {"none", "requested", "succeeded"}]]
           /\ op'[w] = [op[w] EXCEPT ![s] = status]
           /\ \A v \in Workflows \ {w} : op'[v] = op[v]
BY DEF TypeOK, SetOperation

LEMMA SetCheckpointFacts ==
    ASSUME TypeOK, NEW w \in Workflows, NEW s \in Steps, NEW status \in CheckpointStates,
           SetCheckpoint(w, s, status)
    PROVE  /\ cp' \in [Workflows -> [Steps -> CheckpointStates]]
           /\ cp'[w] = [cp[w] EXCEPT ![s] = status]
           /\ \A v \in Workflows \ {w} : cp'[v] = cp[v]
BY DEF TypeOK, SetCheckpoint

LEMMA CountMissFacts ==
    ASSUME TypeOK, NEW w \in Workflows, NEW s \in Steps, NEW what \in {"op", "cp"},
           CountMiss(w, s, what)
    PROVE  /\ missed' \in [Workflows -> [Steps -> [{"op", "cp"} -> 0 .. MinAttempts]]]
           /\ missed'[w][s][what] = OneMore(missed[w][s][what])
           /\ \A v \in Workflows \ {w} : missed'[v] = missed[v]
<1>1. missed[w][s][what] \in 0 .. MinAttempts
  BY DEF TypeOK
<1>2. OneMore(missed[w][s][what]) \in 0 .. MinAttempts
  BY <1>1, WorkflowAssumption DEF OneMore
<1> DEFINE m == OneMore(missed[w][s][what])
<1>3. missed' = [missed EXCEPT ![w][s][what] = m]
  BY DEF CountMiss
<1> HIDE DEF m
<1>4. m \in 0 .. MinAttempts
  BY <1>2 DEF m
<1>5. missed' \in [Workflows -> [Steps -> [{"op", "cp"} -> 0 .. MinAttempts]]]
  BY <1>3, <1>4 DEF TypeOK
<1>6. missed'[w][s][what] = m /\ \A v \in Workflows \ {w} : missed'[v] = missed[v]
  BY <1>3 DEF TypeOK
<1> QED
  BY <1>5, <1>6 DEF m

-----------------------------------------------------------------------------
(* Writes to the workflow row, one lemma per way of writing it. *)

LEMMA UnleaseFacts ==
    ASSUME TypeOK, NEW w \in Workflows, NEW due \in BOOLEAN, Unlease(w, due)
    PROVE  /\ wf' \in [Workflows -> Row]
           /\ \A v \in Workflows \ {w} : wf'[v] = wf[v]
           /\ SameLife(w)
<1> DEFINE r == [ClearLease(wf[w]) EXCEPT !.due = due]
<1>1. wf[w] \in Row
  BY DEF TypeOK
<1>2. r \in Row /\ r.state = wf[w].state /\ r.direction = wf[w].direction
                /\ r.disposition = wf[w].disposition /\ r.trigger = wf[w].trigger
  BY <1>1 DEF Row, ClearLease
<1>3. wf' = [wf EXCEPT ![w] = r]
  BY DEF Unlease
<1> QED
  BY <1>2, <1>3, WriteRow DEF SameLife

LEMMA BlockFacts ==
    ASSUME TypeOK, NEW w \in Workflows, NEW direction \in {"forward", "reverse"},
           NEW disposition \in {"failed", "indeterminate"}, Block(w, direction, disposition)
    PROVE  /\ wf' \in [Workflows -> Row]
           /\ \A v \in Workflows \ {w} : wf'[v] = wf[v]
           /\ Becomes(w, "blocked", direction, disposition, wf[w].trigger)
           /\ wf'[w].owner = NoExecutor
<1> DEFINE r == [ClearLease(wf[w]) EXCEPT !.state = "blocked", !.direction = direction,
                                          !.disposition = disposition]
<1>1. wf[w] \in Row
  BY DEF TypeOK
<1>2. r \in Row /\ r.state = "blocked" /\ r.direction = direction /\ r.disposition = disposition
                /\ r.trigger = wf[w].trigger /\ r.owner = NoExecutor
  BY <1>1 DEF Row, ClearLease, States
<1>3. wf' = [wf EXCEPT ![w] = r]
  BY DEF Block
<1> QED
  BY <1>2, <1>3, WriteRow DEF Becomes

LEMMA StartUnwindFacts ==
    ASSUME TypeOK, NEW w \in Workflows, NEW t \in {FailNode} \cup Steps, StartUnwind(w, t)
    PROVE  /\ wf' \in [Workflows -> Row]
           /\ \A v \in Workflows \ {w} : wf'[v] = wf[v]
           /\ \/ /\ Active(w) = {}
                 /\ Becomes(w, "failed", "reverse", "failed", t)
                 /\ wf'[w].owner = NoExecutor
              \/ Active(w) # {} /\ Becomes(w, "reversing", "reverse", "failed", t)
<1>1. wf[w] \in Row
  BY DEF TypeOK
<1>2. CASE Active(w) = {}
  <2> DEFINE r == [ClearLease(wf[w]) EXCEPT !.state = "failed", !.direction = "reverse",
                                            !.disposition = "failed", !.trigger = t]
  <2>1. r \in Row /\ r.state = "failed" /\ r.direction = "reverse" /\ r.disposition = "failed"
                  /\ r.trigger = t /\ r.owner = NoExecutor
    BY <1>1 DEF Row, ClearLease, States
  <2>2. wf' = [wf EXCEPT ![w] = r]
    BY <1>2 DEF StartUnwind
  <2> QED
    BY <1>2, <2>1, <2>2, WriteRow DEF Becomes
<1>3. CASE Active(w) # {}
  <2> DEFINE r == [wf[w] EXCEPT !.state = "reversing", !.direction = "reverse",
                                !.disposition = "failed", !.trigger = t]
  <2>1. r \in Row /\ r.state = "reversing" /\ r.direction = "reverse" /\ r.disposition = "failed"
                  /\ r.trigger = t
    BY <1>1 DEF Row, States
  <2>2. wf' = [wf EXCEPT ![w] = r]
    BY <1>3 DEF StartUnwind
  <2> QED
    BY <1>3, <2>1, <2>2, WriteRow DEF Becomes
<1> QED
  BY <1>2, <1>3

-----------------------------------------------------------------------------
(* Every action of the module is one of the moves on the workflow it names. *)

LEMMA CreateShape ==
    ASSUME TypeOK, NEW w \in Workflows, Create(w)
    PROVE  Shape(w)
<1> DEFINE r == [NoRow EXCEPT !.state = "forward", !.due = TRUE]
<1>1. 0 \in 0 .. MaxClaims
  BY WorkflowAssumption
<1>2. r \in Row /\ r.state = "forward" /\ r.direction = "forward" /\ r.disposition = "none"
                /\ r.trigger = NoTrigger
  BY <1>1 DEF Row, NoRow, States
<1>3. wf' = [wf EXCEPT ![w] = r]
  BY DEF Create
<1>4. CreateMove(w)
  BY <1>2, <1>3, WriteRow DEF Create, rows, CreateMove, Becomes, SameRows
<1> QED
  BY <1>2, <1>3, <1>4, WriteRow DEF Create, rows, TypeOK, Shape, Same, Move

LEMMA ClaimShape ==
    ASSUME TypeOK, NEW w \in Workflows, NEW x \in Executors, Claim(w, x)
    PROVE  Shape(w)
<1> DEFINE r == TakeLease(wf[w], x)
<1>1. wf[w] \in Row
  BY DEF TypeOK
<1>2. wf[w].fence + 1 \in 0 .. MaxClaims
  BY <1>1, WorkflowAssumption DEF Row, Claim, MayClaim
<1>3. r \in Row /\ r.state = wf[w].state /\ r.direction = wf[w].direction
                /\ r.disposition = wf[w].disposition /\ r.trigger = wf[w].trigger
  BY <1>1, <1>2 DEF Row, TakeLease
<1>4. wf' = [wf EXCEPT ![w] = r]
  BY DEF Claim, MayClaim
<1>5. LeaseMove(w)
  BY <1>3, <1>4, WriteRow DEF Claim, MayClaim, rows, LeaseMove, SameLife, SameRows
<1> QED
  BY <1>3, <1>4, <1>5, WriteRow DEF Claim, MayClaim, rows, TypeOK, Shape, Same, Move

(* A change of one flag of a claimable row that is not part of its life. *)
LEMMA FlagShape ==
    ASSUME TypeOK, NEW w \in Workflows, wf[w].state \in Claimable, NEW b \in BOOLEAN,
           wf' = [wf EXCEPT ![w].lapsed = b] \/ wf' = [wf EXCEPT ![w].due = b],
           UNCHANGED <<rows, published>>
    PROVE  Shape(w)
<1>1. wf[w] \in Row
  BY DEF TypeOK
<1>2. PICK r \in Row : /\ wf' = [wf EXCEPT ![w] = r]
                       /\ r.state = wf[w].state /\ r.direction = wf[w].direction
                       /\ r.disposition = wf[w].disposition /\ r.trigger = wf[w].trigger
  <2>1. CASE wf' = [wf EXCEPT ![w].lapsed = b]
    <3> DEFINE r == [wf[w] EXCEPT !.lapsed = b]
    <3>1. r \in Row /\ r.state = wf[w].state /\ r.direction = wf[w].direction
                    /\ r.disposition = wf[w].disposition /\ r.trigger = wf[w].trigger
      BY <1>1 DEF Row
    <3>2. wf' = [wf EXCEPT ![w] = r]
      BY <2>1
    <3> QED
      BY <3>1, <3>2
  <2>2. CASE wf' = [wf EXCEPT ![w].due = b]
    <3> DEFINE r == [wf[w] EXCEPT !.due = b]
    <3>1. r \in Row /\ r.state = wf[w].state /\ r.direction = wf[w].direction
                    /\ r.disposition = wf[w].disposition /\ r.trigger = wf[w].trigger
      BY <1>1 DEF Row
    <3>2. wf' = [wf EXCEPT ![w] = r]
      BY <2>2
    <3> QED
      BY <3>1, <3>2
  <2> QED
    BY <2>1, <2>2
<1>3. LeaseMove(w)
  BY <1>2, WriteRow DEF rows, LeaseMove, SameLife, SameRows
<1> QED
  BY <1>2, <1>3, WriteRow DEF rows, TypeOK, Shape, Same, Move

LEMMA HeartbeatShape ==
    ASSUME TypeOK, NEW w \in Workflows, NEW x \in Executors, NEW n \in 0 .. wf[w].fence,
           Heartbeat(w, x, n)
    PROVE  Shape(w)
BY FlagShape DEF Heartbeat, Holds

(* A lease is only ever held on a claimable row. *)
LEMMA LapseShape ==
    ASSUME IInv, NEW w \in Workflows, LeaseLapses(w)
    PROVE  Shape(w)
<1>1. wf[w].state \in Claimable
  BY DEF IInv, LInv, RowFits, LeaseLapses
<1> QED
  BY <1>1, FlagShape DEF LeaseLapses, IInv

LEMMA DueShape ==
    ASSUME TypeOK, NEW w \in Workflows, ComesDue(w)
    PROVE  Shape(w)
BY FlagShape DEF ComesDue

LEMMA ReleaseShape ==
    ASSUME TypeOK, NEW w \in Workflows, NEW x \in Executors, NEW n \in 0 .. wf[w].fence,
           NEW due \in BOOLEAN, Release(w, x, n, due)
    PROVE  Shape(w)
<1>1. Unlease(w, due) /\ wf[w].state \in Claimable
  BY DEF Release, Holds
<1> QED
  BY <1>1, UnleaseFacts DEF Release, rows, TypeOK, Shape, Same, Move, LeaseMove, SameRows

LEMMA DispatchDeferShape ==
    ASSUME TypeOK, NEW w \in Workflows, NEW x \in Executors, NEW n \in 0 .. wf[w].fence,
           DispatchDefer(w, x, n)
    PROVE  Shape(w)
<1>1. Unlease(w, FALSE) /\ wf[w].state \in Claimable
  BY DEF DispatchDefer, Holds
<1>2. published' \in [Workflows -> 0 .. MaxClaims]
  BY PublishType DEF DispatchDefer
<1> QED
  BY <1>1, <1>2, UnleaseFacts DEF DispatchDefer, rows, TypeOK, Shape, Same, Move, LeaseMove, SameRows

LEMMA OperationRequestShape ==
    ASSUME TypeOK, NEW w \in Workflows, NEW x \in Executors, NEW n \in 0 .. wf[w].fence,
           NEW s \in Steps, OperationRequest(w, x, n, s)
    PROVE  Shape(w)
<1>1. SetOperation(w, s, "requested") /\ UNCHANGED <<wf, cp, missed>>
  BY DEF OperationRequest
<1>2. published' \in [Workflows -> 0 .. MaxClaims]
  BY PublishType DEF OperationRequest
<1>3. RequestMove(w, s)
  BY <1>1, SetOperationFacts DEF OperationRequest, Holds, RequestMove, SameLife
<1> QED
  BY <1>1, <1>2, <1>3, SetOperationFacts DEF TypeOK, Shape, Same, Move

LEMMA OperationSettleShape ==
    ASSUME TypeOK, NEW w \in Workflows, NEW x \in Executors, NEW n \in 0 .. wf[w].fence,
           NEW s \in Steps, NEW final \in BOOLEAN, OperationSettle(w, x, n, s, final)
    PROVE  Shape(w)
<1>1. /\ SetOperation(w, s, "succeeded")
      /\ SetCheckpoint(w, s, "active")
      /\ UNCHANGED missed
  BY DEF OperationSettle, Settled
<1>2. published' \in [Workflows -> 0 .. MaxClaims]
  BY PublishType DEF OperationSettle
<1>3. "active" \in CheckpointStates
  BY DEF CheckpointStates
<1>4. /\ wf' \in [Workflows -> Row]
      /\ \A v \in Workflows \ {w} : wf'[v] = wf[v]
      /\ \/ SameLife(w)
         \/ /\ s = PlanLength[w]
            /\ Becomes(w, "completed", wf[w].direction, "completed", wf[w].trigger)
            /\ wf'[w].owner = NoExecutor
  <2>1. CASE final
    <3> DEFINE r == [ClearLease(wf[w]) EXCEPT !.state = "completed", !.disposition = "completed"]
    <3>1. wf[w] \in Row
      BY DEF TypeOK
    <3>2. r \in Row /\ r.state = "completed" /\ r.direction = wf[w].direction
                    /\ r.disposition = "completed" /\ r.trigger = wf[w].trigger
                    /\ r.owner = NoExecutor
      BY <3>1 DEF Row, ClearLease, States
    <3>3. wf' = [wf EXCEPT ![w] = r]
      BY <2>1 DEF OperationSettle, Settled
    <3>4. s = PlanLength[w]
      BY <2>1 DEF OperationSettle, MayFinish
    <3> QED
      BY <3>2, <3>3, <3>4, WriteRow DEF Becomes
  <2>2. CASE ~ final
    BY <2>2, KeepRow DEF OperationSettle, Settled
  <2> QED
    BY <2>1, <2>2
<1>5. wf[w].state = "forward" /\ s <= PlanLength[w] /\ op[w][s] = "requested"
  BY DEF OperationSettle, MayFinish, Holds
<1>6. op'[w] = [op[w] EXCEPT ![s] = "succeeded"] /\ cp'[w] = [cp[w] EXCEPT ![s] = "active"]
  <2>1. op'[w] = [op[w] EXCEPT ![s] = "succeeded"]
    BY <1>1, SetOperationFacts
  <2>2. cp'[w] = [cp[w] EXCEPT ![s] = "active"]
    BY <1>1, <1>3, SetCheckpointFacts
  <2> QED
    BY <2>1, <2>2
<1>7. SettleMove(w, s)
  BY <1>4, <1>5, <1>6 DEF SettleMove
<1> QED
  BY <1>1, <1>2, <1>3, <1>4, <1>7, SetOperationFacts, SetCheckpointFacts
  DEF TypeOK, Shape, Same, Move

LEMMA OperationFailShape ==
    ASSUME TypeOK, NEW w \in Workflows, NEW x \in Executors, NEW n \in 0 .. wf[w].fence,
           NEW s \in Steps, OperationFail(w, x, n, s)
    PROVE  Shape(w)
<1>1. Block(w, "forward", "failed") /\ wf[w].state = "forward" /\ UNCHANGED rows
  BY DEF OperationFail, Holds
<1>2. published' \in [Workflows -> 0 .. MaxClaims]
  BY PublishType DEF OperationFail
<1>3. (\E r \in Steps : op[w][r] # "none") /\ missed'[w] = missed[w]
  BY <1>1 DEF OperationFail, rows
<1>4. ParkMove(w)
  BY <1>1, <1>3, BlockFacts DEF rows, ParkMove, SameRows
<1> QED
  BY <1>1, <1>2, <1>4, BlockFacts DEF rows, TypeOK, Shape, Same, Move

LEMMA BeginReversalShape ==
    ASSUME TypeOK, NEW w \in Workflows, NEW x \in Executors, NEW n \in 0 .. wf[w].fence,
           NEW s \in Steps, BeginReversal(w, x, n, s)
    PROVE  Shape(w)
<1>1. /\ StartUnwind(w, s) /\ wf[w].state = "forward" /\ op[w][s] = "requested"
      /\ UNCHANGED rows
  BY DEF BeginReversal, Holds, MayTrigger
<1>2. published' \in [Workflows -> 0 .. MaxClaims]
  BY PublishType DEF BeginReversal
<1> QED
  BY <1>1, <1>2, StartUnwindFacts DEF rows, TypeOK, Shape, Same, Move, GiveUpMove, SameRows

LEMMA AuthoredFailShape ==
    ASSUME TypeOK, NEW w \in Workflows, NEW x \in Executors, NEW n \in 0 .. wf[w].fence,
           AuthoredFail(w, x, n)
    PROVE  Shape(w)
<1>1. StartUnwind(w, FailNode) /\ wf[w].state = "forward" /\ UNCHANGED rows
  BY DEF AuthoredFail, Holds
<1>2. published' \in [Workflows -> 0 .. MaxClaims]
  BY PublishType DEF AuthoredFail
<1> QED
  BY <1>1, <1>2, StartUnwindFacts DEF rows, TypeOK, Shape, Same, Move, GiveUpMove, SameRows

LEMMA ReverseRequestShape ==
    ASSUME TypeOK, NEW w \in Workflows, NEW x \in Executors, NEW n \in 0 .. wf[w].fence,
           NEW s \in Steps, ReverseRequest(w, x, n, s)
    PROVE  Shape(w)
<1>1. SetCheckpoint(w, s, "dispatched") /\ UNCHANGED <<wf, op, missed>>
  BY DEF ReverseRequest
<1>2. published' \in [Workflows -> 0 .. MaxClaims]
  BY PublishType DEF ReverseRequest
<1>3. "dispatched" \in CheckpointStates
  BY DEF CheckpointStates
<1>4. BindMove(w, s)
  BY <1>1, <1>3, SetCheckpointFacts DEF ReverseRequest, Holds, BindMove, SameLife
<1> QED
  BY <1>1, <1>2, <1>3, <1>4, SetCheckpointFacts DEF TypeOK, Shape, Same, Move

LEMMA ReverseSettleShape ==
    ASSUME TypeOK, NEW w \in Workflows, NEW x \in Executors, NEW n \in 0 .. wf[w].fence,
           NEW s \in Steps, ReverseSettle(w, x, n, s)
    PROVE  Shape(w)
<1>1. SetCheckpoint(w, s, "reversed") /\ UNCHANGED <<op, missed>>
  BY DEF ReverseSettle
<1>2. published' \in [Workflows -> 0 .. MaxClaims]
  BY PublishType DEF ReverseSettle
<1>3. "reversed" \in CheckpointStates
  BY DEF CheckpointStates
<1>4. wf[w].state = "reversing" /\ IsTop(w, s)
  BY DEF ReverseSettle, Holds
<1>5. /\ wf' \in [Workflows -> Row]
      /\ \A v \in Workflows \ {w} : wf'[v] = wf[v]
      /\ \/ Active(w) # {s} /\ SameLife(w)
         \/ /\ Active(w) = {s}
            /\ Becomes(w, "reversed", wf[w].direction, wf[w].disposition, wf[w].trigger)
            /\ wf'[w].owner = NoExecutor
  <2>1. CASE Active(w) = {s}
    <3> DEFINE r == [ClearLease(wf[w]) EXCEPT !.state = "reversed"]
    <3>1. wf[w] \in Row
      BY DEF TypeOK
    <3>2. r \in Row /\ r.state = "reversed" /\ r.direction = wf[w].direction
                    /\ r.disposition = wf[w].disposition /\ r.trigger = wf[w].trigger
                    /\ r.owner = NoExecutor
      BY <3>1 DEF Row, ClearLease, States
    <3>3. wf' = [wf EXCEPT ![w] = r]
      BY <2>1 DEF ReverseSettle, IsLastActive
    <3> QED
      BY <2>1, <3>2, <3>3, WriteRow DEF Becomes
  <2>2. CASE Active(w) # {s}
    BY <2>2, KeepRow DEF ReverseSettle, IsLastActive
  <2> QED
    BY <2>1, <2>2
<1>6. op'[w] = op[w] /\ cp'[w] = [cp[w] EXCEPT ![s] = "reversed"]
  BY <1>1, <1>3, SetCheckpointFacts
<1>7. UndoMove(w, s)
  BY <1>4, <1>5, <1>6 DEF UndoMove
<1> QED
  BY <1>1, <1>2, <1>3, <1>5, <1>7, SetCheckpointFacts DEF TypeOK, Shape, Same, Move

(* Both ways of giving up a compensation. *)
LEMMA StickShape ==
    ASSUME TypeOK, NEW w \in Workflows, NEW s \in Steps, NEW d \in {"failed", "indeterminate"},
           wf[w].state = "reversing", IsTop(w, s),
           SetCheckpoint(w, s, "unresolved"), Block(w, wf[w].direction, d), op' = op,
           missed' \in [Workflows -> [Steps -> [{"op", "cp"} -> 0 .. MinAttempts]]],
           \A v \in Workflows \ {w} : missed'[v] = missed[v],
           published' \in [Workflows -> 0 .. MaxClaims]
    PROVE  Shape(w)
<1>1. "unresolved" \in CheckpointStates
  BY DEF CheckpointStates
<1>2. wf[w].direction \in {"forward", "reverse"}
  BY DEF TypeOK, Row
<1>3. cp'[w] = [cp[w] EXCEPT ![s] = "unresolved"]
  BY <1>1, SetCheckpointFacts
<1>4. StickMove(w, s)
  BY <1>2, <1>3, BlockFacts DEF StickMove
<1>5. /\ wf' \in [Workflows -> Row]
      /\ \A v \in Workflows \ {w} : wf'[v] = wf[v]
  BY <1>2, BlockFacts
<1>6. /\ cp' \in [Workflows -> [Steps -> CheckpointStates]]
      /\ \A v \in Workflows \ {w} : cp'[v] = cp[v]
  BY <1>1, SetCheckpointFacts
<1> QED
  BY <1>4, <1>5, <1>6 DEF TypeOK, Shape, Same, Move

LEMMA ReverseBlockShape ==
    ASSUME TypeOK, NEW w \in Workflows, NEW x \in Executors, NEW n \in 0 .. wf[w].fence,
           NEW s \in Steps, NEW d \in {"failed", "indeterminate"}, ReverseBlock(w, x, n, s, d)
    PROVE  Shape(w)
<1>1. published' \in [Workflows -> 0 .. MaxClaims]
  BY PublishType DEF ReverseBlock
<1> QED
  BY <1>1, StickShape DEF ReverseBlock, Holds, TypeOK

(* A deferral that gives up the lease, or leaves the row alone. *)
LEMMA DeferShape ==
    ASSUME TypeOK, NEW w \in Workflows, wf[w].state \in Claimable,
           Unlease(w, FALSE) \/ UNCHANGED wf, UNCHANGED <<op, cp>>,
           missed' \in [Workflows -> [Steps -> [{"op", "cp"} -> 0 .. MinAttempts]]],
           \A v \in Workflows \ {w} : missed'[v] = missed[v],
           published' \in [Workflows -> 0 .. MaxClaims]
    PROVE  Shape(w)
<1>1. /\ wf' \in [Workflows -> Row]
      /\ \A v \in Workflows \ {w} : wf'[v] = wf[v]
      /\ SameLife(w)
  BY UnleaseFacts, KeepRow
<1> QED
  BY <1>1 DEF TypeOK, Shape, Same, Move, LeaseMove, SameRows

LEMMA OperationPendingDeferShape ==
    ASSUME TypeOK, NEW w \in Workflows, NEW x \in Executors, NEW n \in 0 .. wf[w].fence,
           NEW s \in Steps, OperationPendingDefer(w, x, n, s)
    PROVE  Shape(w)
<1>1. published' \in [Workflows -> 0 .. MaxClaims]
  BY PublishType DEF OperationPendingDefer
<1>2. wf[w].state \in Claimable
  BY DEF OperationPendingDefer, Holds, Claimable
<1> QED
  BY <1>1, <1>2, DeferShape DEF OperationPendingDefer, rows, TypeOK

LEMMA CheckpointPendingDeferShape ==
    ASSUME TypeOK, NEW w \in Workflows, NEW x \in Executors, NEW n \in 0 .. wf[w].fence,
           NEW s \in Steps, CheckpointPendingDefer(w, x, n, s)
    PROVE  Shape(w)
<1>1. published' \in [Workflows -> 0 .. MaxClaims]
  BY PublishType DEF CheckpointPendingDefer
<1>2. wf[w].state \in Claimable
  BY DEF CheckpointPendingDefer, Holds, Claimable
<1> QED
  BY <1>1, <1>2, DeferShape DEF CheckpointPendingDefer, rows, TypeOK

LEMMA WorkflowReconcileDeferShape ==
    ASSUME TypeOK, NEW w \in Workflows, NEW x \in Executors, NEW n \in 0 .. wf[w].fence,
           NEW s \in Steps, WorkflowReconcileDefer(w, x, n, s)
    PROVE  Shape(w)
<1>1. published' \in [Workflows -> 0 .. MaxClaims]
  BY PublishType DEF WorkflowReconcileDefer
<1>2. /\ wf[w].state = "forward" /\ op[w][s] = "requested" /\ UNCHANGED <<op, cp>>
      /\ CountMiss(w, s, "op")
  BY DEF WorkflowReconcileDefer, Holds
<1>3. CASE Unlease(w, FALSE)
  BY <1>1, <1>2, <1>3, CountMissFacts, DeferShape DEF Claimable
<1>4. CASE BudgetSpent(w, s, "op") /\ Block(w, "forward", "indeterminate")
  <2>1. missed'[w][s]["op"] >= MinAttempts
    BY <1>2, <1>4, CountMissFacts DEF BudgetSpent
  <2>2. ParkMove(w)
    BY <1>2, <1>4, <2>1, BlockFacts DEF ParkMove, SameRows
  <2> QED
    BY <1>1, <1>2, <1>4, <2>2, CountMissFacts, BlockFacts DEF TypeOK, Shape, Same, Move
<1> QED
  BY <1>3, <1>4 DEF WorkflowReconcileDefer

LEMMA CheckpointReconcileDeferShape ==
    ASSUME TypeOK, NEW w \in Workflows, NEW x \in Executors, NEW n \in 0 .. wf[w].fence,
           NEW s \in Steps, CheckpointReconcileDefer(w, x, n, s)
    PROVE  Shape(w)
<1>1. published' \in [Workflows -> 0 .. MaxClaims]
  BY PublishType DEF CheckpointReconcileDefer
<1>2. /\ wf[w].state = "reversing" /\ IsTop(w, s) /\ op' = op
      /\ CountMiss(w, s, "cp")
  BY DEF CheckpointReconcileDefer, Holds
<1>3. CASE Unlease(w, FALSE) /\ UNCHANGED cp
  BY <1>1, <1>2, <1>3, CountMissFacts, DeferShape DEF Claimable
<1>4. CASE SetCheckpoint(w, s, "unresolved") /\ Block(w, wf[w].direction, "indeterminate")
  BY <1>1, <1>2, <1>4, CountMissFacts, StickShape
<1> QED
  BY <1>3, <1>4 DEF CheckpointReconcileDefer

StepOf(w) ==
    \/ Create(w)
    \/ LeaseLapses(w)
    \/ ComesDue(w)
    \/ \E x \in Executors : Claim(w, x) \/ \E n \in 1 .. wf[w].fence : Command(w, x, n)

LEMMA OneMove ==
    ASSUME IInv, NEW w \in Workflows, StepOf(w)
    PROVE  Shape(w)
<1>1. TypeOK
  BY DEF IInv
<1>3. CASE Create(w) \/ LeaseLapses(w) \/ ComesDue(w)
  BY <1>1, <1>3, CreateShape, LapseShape, DueShape
<1>4. CASE \E x \in Executors : Claim(w, x)
  BY <1>1, <1>4, ClaimShape
<1>5. ASSUME NEW x \in Executors, NEW n \in 1 .. wf[w].fence, Command(w, x, n)
      PROVE  Shape(w)
  <2>1. n \in 0 .. wf[w].fence
    BY <1>1 DEF TypeOK, Row
  <2> QED
    BY <1>1, <1>5, <2>1, HeartbeatShape, ReleaseShape, AuthoredFailShape, DispatchDeferShape,
       OperationRequestShape, OperationSettleShape, OperationFailShape, BeginReversalShape,
       ReverseRequestShape, ReverseSettleShape, ReverseBlockShape, OperationPendingDeferShape,
       CheckpointPendingDeferShape, WorkflowReconcileDeferShape, CheckpointReconcileDeferShape
    DEF Command
<1> QED
  BY <1>3, <1>4, <1>5 DEF StepOf

LEMMA StepShape ==
    ASSUME IInv, Next
    PROVE  \E w \in Workflows : StepOf(w) /\ Shape(w)
<1>1. PICK w \in Workflows : StepOf(w)
  BY DEF Next, StepOf
<1> QED
  BY <1>1, OneMove

-----------------------------------------------------------------------------
(* The invariant survives each move.  Sets of steps are compared by what    *)
(* the columns say of each step.                                            *)

LEMMA CheckpointIsOne ==
    ASSUME TypeOK, NEW w \in Workflows, NEW s \in Steps
    PROVE  cp[w][s] \in CheckpointStates /\ op[w][s] \in {"none", "requested", "succeeded"}
BY DEF TypeOK

LEMMA SameKeeps ==
    ASSUME NEW v \in Workflows, LInv(v), Same(v)
    PROVE  LInv(v)'
BY DEF Same, LInv, RowFits, FollowsPlan, UnwindsInOrder, MeansItsState, TriggerFailed, BudgetUsed,
       NotUnwinding, Active, Standing, Reversed, Plan

(* A state or a row that stays. *)
LEMMA LeaseKeeps ==
    ASSUME TypeOK, NEW w \in Workflows, LInv(w), LeaseMove(w)
    PROVE  LInv(w)'
<1>1. RowFits(w)' /\ BudgetUsed(w)' /\ TriggerFailed(w)'
  BY DEF LeaseMove, SameLife, SameRows, LInv, RowFits, BudgetUsed, TriggerFailed, Claimable
<1>2. FollowsPlan(w)' /\ UnwindsInOrder(w)' /\ NotUnwinding(w)'
  BY DEF LeaseMove, SameLife, SameRows, LInv, FollowsPlan, UnwindsInOrder, NotUnwinding
<1>3. MeansItsState(w)'
  BY DEF LeaseMove, SameLife, SameRows, LInv, MeansItsState, Active, Standing, Reversed, Plan, Claimable
<1> QED
  BY <1>1, <1>2, <1>3 DEF LInv

LEMMA CreateKeeps ==
    ASSUME TypeOK, NEW w \in Workflows, LInv(w), CreateMove(w)
    PROVE  LInv(w)'
<1>1. /\ wf[w].state = "absent"
      /\ op'[w] = op[w] /\ cp'[w] = cp[w]
      /\ wf'[w].state = "forward" /\ wf'[w].direction = "forward"
      /\ wf'[w].disposition = "none" /\ wf'[w].trigger = NoTrigger
  BY DEF CreateMove, Becomes, SameRows
<1>2. \A s \in Steps : op[w][s] = "none" /\ cp[w][s] \in {"none", "active"}
  BY <1>1 DEF LInv, NotUnwinding
<1>3. \A s \in Steps : s # NoTrigger
  BY StepFacts
<1>4. RowFits(w)' /\ BudgetUsed(w)' /\ TriggerFailed(w)' /\ NotUnwinding(w)'
  BY <1>1, <1>2, <1>3 DEF LInv, RowFits, BudgetUsed, TriggerFailed, NotUnwinding, Claimable
<1>5. FollowsPlan(w)' /\ UnwindsInOrder(w)'
  BY <1>1 DEF LInv, FollowsPlan, UnwindsInOrder
<1>6. MeansItsState(w)'
  BY <1>1, <1>2 DEF MeansItsState, Active, Standing, Reversed
<1> QED
  BY <1>4, <1>5, <1>6 DEF LInv

LEMMA RequestKeeps ==
    ASSUME TypeOK, TypeOK', NEW w \in Workflows, NEW s \in Steps, LInv(w), RequestMove(w, s)
    PROVE  LInv(w)'
<1>1. /\ wf[w].state = "forward" /\ SameLife(w)
      /\ s <= PlanLength[w] /\ op[w][s] = "none" /\ cp'[w] = cp[w]
      /\ op'[w][s] = "requested"
      /\ \A r \in Steps \ {s} : op'[w][r] = op[w][r]
  BY DEF RequestMove, TypeOK
<1>2. /\ wf[w].trigger = NoTrigger
      /\ FollowsPlan(w)
  BY <1>1 DEF LInv, NotUnwinding
<1>3. \A r \in Steps : r # NoTrigger
  BY StepFacts
<1>4. RowFits(w)' /\ BudgetUsed(w)' /\ TriggerFailed(w)' /\ NotUnwinding(w)'
  BY <1>1, <1>2, <1>3 DEF SameLife, LInv, RowFits, BudgetUsed, TriggerFailed, NotUnwinding, Claimable
<1>5. \A r \in Steps : r < s => op[w][r] = "succeeded"
  <2> SUFFICES ASSUME NEW r \in Steps, r < s
               PROVE  op[w][r] = "succeeded"
    OBVIOUS
  <2>1. s > 1 /\ s - 1 \in Steps /\ (r < s - 1 \/ r = s - 1)
    BY StepFacts DEF Steps
  <2>2. op[w][s - 1] = "succeeded"
    BY <2>1 DEF RequestMove
  <2> QED
    BY <1>2, <2>1, <2>2 DEF FollowsPlan
<1>6. FollowsPlan(w)'
  <2>1. ASSUME NEW q \in Steps, op'[w][q] # "none", NEW r \in Steps, r < q
        PROVE  op'[w][r] = "succeeded"
    <3>1. r # s
      BY <1>1, <1>2, <2>1, StepFacts DEF FollowsPlan
    <3> QED
      BY <1>1, <1>2, <1>5, <2>1, <3>1 DEF FollowsPlan
  <2>2. ASSUME NEW q \in Steps, op'[w][q] # "none"
        PROVE  q <= PlanLength[w]
    BY <1>1, <1>2, <2>2 DEF FollowsPlan
  <2>3. ASSUME NEW q \in Steps
        PROVE  cp'[w][q] # "none" <=> op'[w][q] = "succeeded"
    BY <1>1, <1>2 DEF FollowsPlan
  <2> QED
    BY <2>1, <2>2, <2>3 DEF FollowsPlan
<1>7. UnwindsInOrder(w)' /\ MeansItsState(w)'
  BY <1>1 DEF SameLife, LInv, UnwindsInOrder, MeansItsState, Active, Standing, Reversed, Plan
<1> QED
  BY <1>4, <1>6, <1>7 DEF LInv

LEMMA SettleKeeps ==
    ASSUME TypeOK, TypeOK', NEW w \in Workflows, NEW s \in Steps, LInv(w), SettleMove(w, s)
    PROVE  LInv(w)'
<1>1. /\ wf[w].state = "forward"
      /\ s <= PlanLength[w] /\ op[w][s] = "requested"
      /\ op'[w][s] = "succeeded" /\ cp'[w][s] = "active"
      /\ \A r \in Steps \ {s} : op'[w][r] = op[w][r] /\ cp'[w][r] = cp[w][r]
  BY DEF SettleMove, TypeOK
<1>2. /\ wf'[w].direction = wf[w].direction /\ wf'[w].trigger = NoTrigger
      /\ \/ wf'[w].state = "forward" /\ wf'[w].disposition = wf[w].disposition
         \/ /\ wf'[w].state = "completed" /\ wf'[w].disposition = "completed"
            /\ wf'[w].owner = NoExecutor /\ s = PlanLength[w]
  BY <1>1 DEF SettleMove, SameLife, Becomes, LInv, NotUnwinding
<1>3. \A r \in Steps : r # NoTrigger
  BY StepFacts
<1>4. /\ FollowsPlan(w)
      /\ \A r \in Steps : cp[w][r] \in {"none", "active"}
  BY <1>1 DEF LInv, NotUnwinding
<1>5. \A r \in Steps : cp'[w][r] \in {"none", "active"}
  BY <1>1, <1>4
<1>6. RowFits(w)' /\ BudgetUsed(w)' /\ TriggerFailed(w)' /\ NotUnwinding(w)'
  BY <1>1, <1>2, <1>3, <1>5 DEF LInv, RowFits, BudgetUsed, TriggerFailed, NotUnwinding, Claimable
<1>7. FollowsPlan(w)'
  BY <1>1, <1>4, StepFacts DEF FollowsPlan
<1>8. UnwindsInOrder(w)'
  BY <1>5 DEF UnwindsInOrder
<1>9. MeansItsState(w)'
  <2>1. Reversed(w)' = {} /\ Standing(w)' = Active(w)'
    BY <1>5 DEF Reversed, Standing, Active
  <2>2. ASSUME wf'[w].state = "completed"
        PROVE  Active(w)' = Plan(w)
    <3>1. s = PlanLength[w]
      BY <1>2, <2>2
    <3>2. \A r \in Steps : cp'[w][r] # "none" <=> r <= s
      BY <1>1, <1>4, <3>1, StepFacts DEF FollowsPlan
    <3>3. \A r : r \in Plan(w) <=> r \in Steps /\ r <= s
      BY <3>1, StepFacts DEF Plan, Steps
    <3>4. \A r \in Steps : cp'[w][r] # "none" <=> cp'[w][r] \in {"active", "dispatched"}
      BY <1>5
    <3> QED
      BY <3>2, <3>3, <3>4 DEF Active
  <2> QED
    BY <1>2, <2>1, <2>2 DEF MeansItsState, Plan
<1> QED
  BY <1>6, <1>7, <1>8, <1>9 DEF LInv

LEMMA ParkKeeps ==
    ASSUME TypeOK, NEW w \in Workflows, LInv(w), ParkMove(w)
    PROVE  LInv(w)'
<1>1. /\ wf[w].state = "forward"
      /\ op'[w] = op[w] /\ cp'[w] = cp[w]
      /\ wf'[w].state = "blocked" /\ wf'[w].direction = "forward" /\ wf'[w].trigger = wf[w].trigger
      /\ wf'[w].owner = NoExecutor
      /\ \/ wf'[w].disposition = "failed"
         \/ /\ wf'[w].disposition = "indeterminate"
            /\ \E s \in Steps : op[w][s] = "requested" /\ missed'[w][s]["op"] >= MinAttempts
  BY DEF ParkMove, Becomes, SameRows
<1>2. RowFits(w)' /\ BudgetUsed(w)' /\ TriggerFailed(w)' /\ NotUnwinding(w)'
  BY <1>1 DEF LInv, RowFits, BudgetUsed, TriggerFailed, NotUnwinding, Claimable
<1>3. FollowsPlan(w)' /\ UnwindsInOrder(w)'
  BY <1>1 DEF LInv, FollowsPlan, UnwindsInOrder
<1>4. MeansItsState(w)'
  BY <1>1 DEF LInv, MeansItsState, Active, Standing, Reversed
<1> QED
  BY <1>2, <1>3, <1>4 DEF LInv

LEMMA GiveUpKeeps ==
    ASSUME TypeOK, NEW w \in Workflows, LInv(w), GiveUpMove(w)
    PROVE  LInv(w)'
<1>1. PICK t \in {FailNode} \cup {s \in Steps : op[w][s] = "requested"} :
         \/ Active(w) = {} /\ Becomes(w, "failed", "reverse", "failed", t) /\ wf'[w].owner = NoExecutor
         \/ Active(w) # {} /\ Becomes(w, "reversing", "reverse", "failed", t)
  BY DEF GiveUpMove
<1>2. /\ wf[w].state = "forward" /\ op'[w] = op[w] /\ cp'[w] = cp[w]
      /\ wf'[w].direction = "reverse" /\ wf'[w].disposition = "failed" /\ wf'[w].trigger = t
      /\ \/ Active(w) = {} /\ wf'[w].state = "failed" /\ wf'[w].owner = NoExecutor
         \/ Active(w) # {} /\ wf'[w].state = "reversing"
  BY <1>1 DEF GiveUpMove, Becomes, SameRows
<1>3. TriggerFailed(w)'
  <2> SUFFICES ASSUME NEW s \in Steps, t = s
               PROVE  op[w][s] = "requested" /\ cp[w][s] = "none"
    BY <1>2 DEF TriggerFailed
  <2>1. op[w][s] = "requested"
    BY <1>1, StepFacts
  <2> QED
    BY <2>1 DEF LInv, FollowsPlan
<1>4. RowFits(w)' /\ BudgetUsed(w)' /\ NotUnwinding(w)'
  BY <1>2 DEF LInv, RowFits, BudgetUsed, NotUnwinding, Claimable
<1>5. FollowsPlan(w)' /\ UnwindsInOrder(w)'
  BY <1>2 DEF LInv, FollowsPlan, UnwindsInOrder
<1>6. MeansItsState(w)'
  BY <1>2 DEF LInv, MeansItsState, Active, Standing, Reversed
<1> QED
  BY <1>3, <1>4, <1>5, <1>6 DEF LInv

(* The top active checkpoint changes its column: every later one is reversed, *)
(* and every earlier one is still active and unbound.                         *)
LEMMA TopIsBoundary ==
    ASSUME TypeOK, NEW w \in Workflows, NEW s \in Steps, LInv(w),
           wf[w].state = "reversing", IsTop(w, s)
    PROVE  /\ cp[w][s] \in {"active", "dispatched"}
           /\ \A r \in Steps : r < s => cp[w][r] = "active"
           /\ \A r \in Steps : r > s => cp[w][r] \in {"none", "reversed"}
<1>1. cp[w][s] \in {"active", "dispatched"} /\ op[w][s] = "succeeded"
  BY DEF IsTop, Active, LInv, FollowsPlan
<1>2. Standing(w) = Active(w)
  BY DEF LInv, MeansItsState
<1>3. ASSUME NEW r \in Steps, r < s
      PROVE  cp[w][r] = "active"
  <2>1. cp[w][r] # "none"
    BY <1>1, <1>3 DEF LInv, FollowsPlan
  <2>2. cp[w][r] \notin {"dispatched", "reversed", "unresolved"}
    BY <1>1, <1>3 DEF LInv, UnwindsInOrder
  <2> QED
    BY <2>1, <2>2, CheckpointIsOne DEF CheckpointStates
<1>4. ASSUME NEW r \in Steps, r > s
      PROVE  cp[w][r] \in {"none", "reversed"}
  <2>1. r \notin Active(w)
    BY <1>4, StepFacts DEF IsTop
  <2>2. cp[w][r] \notin {"active", "dispatched", "unresolved"}
    BY <1>2, <2>1 DEF Standing, Active
  <2> QED
    BY <2>2, CheckpointIsOne DEF CheckpointStates
<1> QED
  BY <1>1, <1>3, <1>4

LEMMA TopChangeKeepsOrder ==
    ASSUME TypeOK, TypeOK', NEW w \in Workflows, NEW s \in Steps, LInv(w),
           wf[w].state = "reversing", IsTop(w, s),
           NEW c \in {"dispatched", "reversed", "unresolved"},
           cp'[w] = [cp[w] EXCEPT ![s] = c], op'[w] = op[w]
    PROVE  /\ FollowsPlan(w)' /\ UnwindsInOrder(w)'
           /\ cp'[w][s] = c
           /\ \A r \in Steps : r # s => cp'[w][r] = cp[w][r]
<1>1. cp'[w][s] = c /\ \A r \in Steps : r # s => cp'[w][r] = cp[w][r]
  BY DEF TypeOK
<1>2. /\ cp[w][s] \in {"active", "dispatched"}
      /\ \A r \in Steps : r < s => cp[w][r] = "active"
      /\ \A r \in Steps : r > s => cp[w][r] \in {"none", "reversed"}
  BY TopIsBoundary
<1>3. FollowsPlan(w)'
  BY <1>1, <1>2 DEF LInv, FollowsPlan
<1>4. ASSUME NEW q \in Steps, NEW r \in Steps, q < r, cp'[w][r] # "none",
             cp'[w][q] \in {"dispatched", "reversed", "unresolved"}
      PROVE  cp'[w][r] = "reversed"
  <2>1. q >= s
    BY <1>1, <1>2, <1>4, StepFacts
  <2>2. r > s
    BY <1>4, <2>1, StepFacts
  <2> QED
    BY <1>1, <1>2, <1>4, <2>2
<1> QED
  BY <1>1, <1>3, <1>4 DEF UnwindsInOrder

(* The operation a reversal is blamed on has no checkpoint, hence is not the top. *)
LEMMA TopIsNotTrigger ==
    ASSUME TypeOK, NEW w \in Workflows, NEW s \in Steps, LInv(w), IsTop(w, s)
    PROVE  wf[w].trigger # s
BY DEF IsTop, Active, LInv, TriggerFailed

LEMMA BindKeeps ==
    ASSUME TypeOK, TypeOK', NEW w \in Workflows, NEW s \in Steps, LInv(w), BindMove(w, s)
    PROVE  LInv(w)'
<1>1. /\ wf[w].state = "reversing" /\ IsTop(w, s) /\ SameLife(w) /\ op'[w] = op[w]
      /\ cp'[w] = [cp[w] EXCEPT ![s] = "dispatched"]
  BY DEF BindMove
<1>2. /\ FollowsPlan(w)' /\ UnwindsInOrder(w)'
      /\ cp'[w][s] = "dispatched"
      /\ \A r \in Steps : r # s => cp'[w][r] = cp[w][r]
  BY <1>1, TopChangeKeepsOrder
<1>3. RowFits(w)' /\ BudgetUsed(w)' /\ TriggerFailed(w)' /\ NotUnwinding(w)'
  BY <1>1, <1>2, TopIsNotTrigger
  DEF SameLife, LInv, RowFits, BudgetUsed, TriggerFailed, NotUnwinding, Claimable
<1>4. cp[w][s] \in {"active", "dispatched"}
  BY <1>1 DEF IsTop, Active
<1>5. Active(w)' = Active(w) /\ Standing(w)' = Standing(w)
  BY <1>2, <1>4 DEF Active, Standing
<1>6. MeansItsState(w)'
  BY <1>1, <1>5 DEF SameLife, LInv, MeansItsState
<1> QED
  BY <1>2, <1>3, <1>6 DEF LInv

LEMMA UndoKeeps ==
    ASSUME TypeOK, TypeOK', NEW w \in Workflows, NEW s \in Steps, LInv(w), UndoMove(w, s)
    PROVE  LInv(w)'
<1>1. /\ wf[w].state = "reversing" /\ IsTop(w, s) /\ op'[w] = op[w]
      /\ cp'[w] = [cp[w] EXCEPT ![s] = "reversed"]
      /\ wf'[w].direction = wf[w].direction /\ wf'[w].disposition = wf[w].disposition
      /\ wf'[w].trigger = wf[w].trigger
      /\ \/ Active(w) # {s} /\ wf'[w].state = "reversing"
         \/ Active(w) = {s} /\ wf'[w].state = "reversed" /\ wf'[w].owner = NoExecutor
  BY DEF UndoMove, SameLife, Becomes
<1>2. /\ FollowsPlan(w)' /\ UnwindsInOrder(w)'
      /\ cp'[w][s] = "reversed"
      /\ \A r \in Steps : r # s => cp'[w][r] = cp[w][r]
  BY <1>1, TopChangeKeepsOrder
<1>3. RowFits(w)' /\ BudgetUsed(w)' /\ TriggerFailed(w)' /\ NotUnwinding(w)'
  BY <1>1, <1>2, TopIsNotTrigger
  DEF LInv, RowFits, BudgetUsed, TriggerFailed, NotUnwinding, Claimable
<1>4. Standing(w) = Active(w) /\ s \in Active(w)
  BY <1>1 DEF LInv, MeansItsState, IsTop
<1>5. Active(w)' = Active(w) \ {s} /\ Standing(w)' = Standing(w) \ {s} /\ s \in Reversed(w)'
  BY <1>2 DEF Active, Standing, Reversed
<1>6. MeansItsState(w)'
  BY <1>1, <1>4, <1>5 DEF MeansItsState
<1> QED
  BY <1>2, <1>3, <1>6 DEF LInv

LEMMA StickKeeps ==
    ASSUME TypeOK, TypeOK', NEW w \in Workflows, NEW s \in Steps, LInv(w), StickMove(w, s)
    PROVE  LInv(w)'
<1>1. /\ wf[w].state = "reversing" /\ IsTop(w, s) /\ op'[w] = op[w]
      /\ cp'[w] = [cp[w] EXCEPT ![s] = "unresolved"]
      /\ wf'[w].direction = wf[w].direction /\ wf'[w].disposition \in {"failed", "indeterminate"}
      /\ wf'[w].trigger = wf[w].trigger
      /\ wf'[w].state = "blocked" /\ wf'[w].owner = NoExecutor
  BY DEF StickMove, Becomes
<1>2. /\ FollowsPlan(w)' /\ UnwindsInOrder(w)'
      /\ cp'[w][s] = "unresolved"
      /\ \A r \in Steps : r # s => cp'[w][r] = cp[w][r]
  BY <1>1, TopChangeKeepsOrder
<1>3. wf[w].direction = "reverse"
  BY <1>1 DEF LInv, RowFits
<1>4. RowFits(w)' /\ BudgetUsed(w)' /\ TriggerFailed(w)' /\ NotUnwinding(w)'
  BY <1>1, <1>2, <1>3, TopIsNotTrigger
  DEF LInv, RowFits, BudgetUsed, TriggerFailed, NotUnwinding, Claimable
<1>5. Standing(w) = Active(w) /\ s \in Active(w)
  BY <1>1 DEF LInv, MeansItsState, IsTop
<1>6. Active(w)' = Active(w) \ {s} /\ Standing(w)' = Standing(w)
  BY <1>2, <1>5 DEF Active, Standing
<1>7. Standing(w)' \ Active(w)' = {s}
  BY <1>5, <1>6
<1>8. MeansItsState(w)'
  BY <1>1, <1>3, <1>7 DEF MeansItsState
<1> QED
  BY <1>2, <1>4, <1>8 DEF LInv

LEMMA MoveKeeps ==
    ASSUME IInv, NEW w \in Workflows, Shape(w)
    PROVE  IInv'
<1>1. TypeOK /\ TypeOK' /\ LInv(w)
  BY DEF IInv, Shape
<1>2. LInv(w)'
  BY <1>1, LeaseKeeps, CreateKeeps, RequestKeeps, SettleKeeps, ParkKeeps, GiveUpKeeps, BindKeeps,
     UndoKeeps, StickKeeps
  DEF Shape, Move
<1>3. ASSUME NEW v \in Workflows \ {w}
      PROVE  LInv(v)'
  BY SameKeeps DEF Shape, IInv
<1> QED
  BY <1>1, <1>2, <1>3 DEF IInv

LEMMA InitInv == Init => IInv
<1> SUFFICES ASSUME Init PROVE IInv
  OBVIOUS
<1>1. 0 \in 0 .. MaxClaims /\ 0 \in 0 .. MinAttempts
  BY WorkflowAssumption
<1>2. NoRow \in Row
  BY <1>1 DEF NoRow, Row, States
<1>3. TypeOK
  BY <1>1, <1>2 DEF Init, TypeOK, CheckpointStates
<1>4. ASSUME NEW w \in Workflows
      PROVE  LInv(w)
  <2>1. wf[w] = NoRow /\ \A s \in Steps : op[w][s] = "none" /\ cp[w][s] = "none"
    BY DEF Init
  <2>2. RowFits(w) /\ BudgetUsed(w) /\ TriggerFailed(w) /\ NotUnwinding(w)
    BY <2>1, StepFacts DEF NoRow, RowFits, BudgetUsed, TriggerFailed, NotUnwinding
  <2>3. FollowsPlan(w) /\ UnwindsInOrder(w)
    BY <2>1 DEF FollowsPlan, UnwindsInOrder
  <2>4. MeansItsState(w)
    BY <2>1 DEF NoRow, MeansItsState
  <2> QED
    BY <2>2, <2>3, <2>4 DEF LInv
<1> QED
  BY <1>3, <1>4 DEF IInv

LEMMA UnchangedKeeps == IInv /\ UNCHANGED vars => IInv'
<1> SUFFICES ASSUME IInv, UNCHANGED vars PROVE IInv'
  OBVIOUS
<1>1. TypeOK'
  BY DEF IInv, TypeOK, vars
<1>2. ASSUME NEW v \in Workflows
      PROVE  LInv(v)'
  BY SameKeeps DEF IInv, Same, vars
<1> QED
  BY <1>1, <1>2 DEF IInv

-----------------------------------------------------------------------------
(* The strengthened invariant holds in every reachable state. *)
THEOREM Invariance == Spec => []IInv
<1>1. IInv /\ [Next]_vars => IInv'
  BY StepShape, MoveKeeps, UnchangedKeeps
<1> QED
  BY InitInv, <1>1, PTL DEF Spec

(* Every row of the engine keeps its type. *)
THEOREM TypeCorrect == Spec => []TypeOK
<1>1. IInv => TypeOK
  BY DEF IInv
<1> QED
  BY <1>1, Invariance, PTL

(* No procedure writes a workflow row the schema's CHECK constraints refuse. *)
THEOREM RowsStayRepresentable == Spec => []RowsRepresentable
<1>1. IInv => RowsRepresentable
  BY DEF IInv, LInv, RowsRepresentable
<1> QED
  BY <1>1, Invariance, PTL

(* The pinned plan is followed, whoever drives the workflow. *)
THEOREM PlanIsFollowed == Spec => []PlanOrder
<1>1. IInv => PlanOrder
  BY DEF IInv, LInv, PlanOrder
<1> QED
  BY <1>1, Invariance, PTL

(* Compensation runs strictly from the last committed step to the first. *)
THEOREM UnwindIsOrdered == Spec => []UnwindOrder
<1>1. IInv => UnwindOrder
  BY DEF IInv, LInv, UnwindOrder
<1> QED
  BY <1>1, Invariance, PTL

(* A lifecycle state says what became of the effects of the steps. *)
THEOREM StatesAreMeant == Spec => []OutcomeMeaning
<1>1. IInv => OutcomeMeaning
  BY DEF IInv, LInv, OutcomeMeaning
<1> QED
  BY <1>1, Invariance, PTL

(* The operation a reversal is blamed on never succeeded. *)
THEOREM TriggerIsUnsettled == Spec => []TriggerNeverSucceeded
<1>1. IInv => TriggerNeverSucceeded
  BY DEF IInv, LInv, TriggerNeverSucceeded
<1> QED
  BY <1>1, Invariance, PTL

(* A step is declared indeterminate only after its budget of attempts. *)
THEOREM BudgetIsSpent == Spec => []BudgetBeforeBlock
<1>1. IInv => BudgetBeforeBlock
  BY DEF IInv, LInv, BudgetBeforeBlock
<1> QED
  BY <1>1, Invariance, PTL

-----------------------------------------------------------------------------
(* What a step may never do. *)

LEMMA MoveLeavesFinal ==
    ASSUME NEW w \in Workflows, Shape(w)
    PROVE  wf[w].state \notin Final
BY DEF Shape, Move, LeaseMove, CreateMove, RequestMove, SettleMove, ParkMove, GiveUpMove,
       BindMove, UndoMove, StickMove, Claimable, Final

(* A workflow that ended, or that waits for a person, is never touched. *)
THEOREM FinalRowsAreLeft == Spec => FinalRowsStay
<1>1. IInv /\ [Next]_vars =>
         [\A w \in Workflows : wf[w].state \in Final =>
             <<wf'[w], op'[w], cp'[w], missed'[w]>> = <<wf[w], op[w], cp[w], missed[w]>>]_vars
  <2> SUFFICES ASSUME IInv, Next, NEW v \in Workflows, wf[v].state \in Final
               PROVE  <<wf'[v], op'[v], cp'[v], missed'[v]>> = <<wf[v], op[v], cp[v], missed[v]>>
    OBVIOUS
  <2>1. PICK w \in Workflows : Shape(w)
    BY StepShape
  <2>2. v # w
    BY <2>1, MoveLeavesFinal
  <2> QED
    BY <2>1, <2>2 DEF Shape, Same
<1> QED
  BY <1>1, Invariance, PTL DEF Spec, FinalRowsStay

(* Whatever a command other than the heartbeat and the release writes, it   *)
(* writes under the token of the latest claim.                              *)
LEMMA CommandPublishes ==
    ASSUME TypeOK, NEW w \in Workflows, NEW x \in Executors, NEW n \in 1 .. wf[w].fence,
           Command(w, x, n)
    PROVE  \/ published'[w] = wf[w].fence
           \/ Heartbeat(w, x, n)
           \/ \E due \in BOOLEAN : Release(w, x, n, due)
<1>1. \/ wf[w].fence = n /\ Publish(w, n)
      \/ Heartbeat(w, x, n)
      \/ \E due \in BOOLEAN : Release(w, x, n, due)
  BY DEF Command, AuthoredFail, DispatchDefer, OperationRequest, OperationSettle, OperationFail,
         BeginReversal, ReverseRequest, ReverseSettle, ReverseBlock, OperationPendingDefer,
         CheckpointPendingDefer, WorkflowReconcileDefer, CheckpointReconcileDefer, Holds
<1> QED
  BY <1>1 DEF Publish, TypeOK

(* The steps that publish nothing leave the lifecycle and the rows alone. *)
LEMMA QuietSteps ==
    ASSUME TypeOK, NEW w \in Workflows,
           \/ LeaseLapses(w)
           \/ ComesDue(w)
           \/ \E x \in Executors :
                 \/ Claim(w, x)
                 \/ \E n \in 1 .. wf[w].fence :
                       Heartbeat(w, x, n) \/ \E due \in BOOLEAN : Release(w, x, n, due)
    PROVE  wf'[w].state = wf[w].state /\ UNCHANGED rows
<1>1. wf[w] \in Row
  BY DEF TypeOK
<1>2. CASE LeaseLapses(w)
  BY <1>1, <1>2 DEF LeaseLapses, TypeOK, Row
<1>3. CASE ComesDue(w)
  BY <1>1, <1>3 DEF ComesDue, TypeOK, Row
<1>4. CASE \E x \in Executors : Claim(w, x)
  <2>1. PICK x \in Executors : Claim(w, x)
    BY <1>4
  <2>2. TakeLease(wf[w], x).state = wf[w].state
    BY <1>1 DEF TakeLease, Row
  <2>3. wf'[w] = TakeLease(wf[w], x)
    BY <2>1 DEF Claim, MayClaim, TypeOK
  <2> QED
    BY <2>1, <2>2, <2>3 DEF Claim, MayClaim
<1>5. CASE \E x \in Executors : \E n \in 1 .. wf[w].fence : Heartbeat(w, x, n)
  BY <1>1, <1>5 DEF Heartbeat, TypeOK, Row
<1>6. CASE \E x \in Executors : \E n \in 1 .. wf[w].fence : \E due \in BOOLEAN : Release(w, x, n, due)
  BY <1>6, UnleaseFacts DEF Release, SameLife
<1> QED
  BY <1>2, <1>3, <1>4, <1>5, <1>6

(* A superseded executor publishes nothing. *)
THEOREM FencingOfClaims == Spec => OnlyLatestClaimPublishes
<1>1. IInv /\ [Next]_vars =>
         [\A w \in Workflows :
             (wf[w].state # "absent"
                 /\ <<wf'[w].state, op'[w], cp'[w], missed'[w]>> # <<wf[w].state, op[w], cp[w], missed[w]>>)
             => published'[w] = wf[w].fence]_vars
  <2> SUFFICES ASSUME IInv, Next, NEW v \in Workflows, wf[v].state # "absent",
                      <<wf'[v].state, op'[v], cp'[v], missed'[v]>> # <<wf[v].state, op[v], cp[v], missed[v]>>
               PROVE  published'[v] = wf[v].fence
    OBVIOUS
  <2>1. TypeOK
    BY DEF IInv
  <2>2. PICK w \in Workflows : StepOf(w) /\ Shape(w)
    BY StepShape
  <2>3. v = w
    BY <2>2 DEF Shape, Same
  <2>4. ~ Create(w)
    BY <2>3 DEF Create
  <2>5. ~ (wf'[w].state = wf[w].state /\ UNCHANGED rows)
    BY <2>3 DEF rows
  <2>6. PICK x \in Executors, n \in 1 .. wf[w].fence :
           /\ Command(w, x, n)
           /\ ~ Heartbeat(w, x, n)
           /\ ~ \E due \in BOOLEAN : Release(w, x, n, due)
    BY <2>1, <2>2, <2>4, <2>5, QuietSteps DEF StepOf
  <2> QED
    BY <2>1, <2>3, <2>6, CommandPublishes
<1> QED
  BY <1>1, Invariance, PTL DEF Spec, OnlyLatestClaimPublishes

-----------------------------------------------------------------------------
(* The saga: leasing, requesting and binding a compensation change nothing  *)
(* the client is promised; the other moves each are one action of Saga.      *)

SagaPhase == [v \in Workflows |-> PhaseOf(wf[v].state)]
SagaDone == [v \in Workflows |-> Standing(v)]
SagaUndone == [v \in Workflows |-> Reversed(v)]

(* A step on one workflow writes one entry of each mapped variable. *)
LEMMA MappedWrite ==
    ASSUME NEW w \in Workflows, \A v \in Workflows \ {w} : Same(v)
    PROVE  /\ SagaPhase' = [SagaPhase EXCEPT ![w] = PhaseOf(wf'[w].state)]
           /\ SagaDone' = [SagaDone EXCEPT ![w] = Standing(w)']
           /\ SagaUndone' = [SagaUndone EXCEPT ![w] = Reversed(w)']
<1>1. \A v \in Workflows \ {w} : wf'[v].state = wf[v].state
  BY DEF Same
<1>2. \A v \in Workflows \ {w} : Standing(v)' = Standing(v) /\ Reversed(v)' = Reversed(v)
  BY DEF Same, Standing, Reversed
<1>3. SagaPhase' = [SagaPhase EXCEPT ![w] = PhaseOf(wf'[w].state)]
  BY <1>1 DEF SagaPhase
<1>4. SagaDone' = [SagaDone EXCEPT ![w] = Standing(w)']
  BY <1>2 DEF SagaDone
<1>5. SagaUndone' = [SagaUndone EXCEPT ![w] = Reversed(w)']
  BY <1>2 DEF SagaUndone
<1> QED
  BY <1>3, <1>4, <1>5

LEMMA MappedKeep ==
    ASSUME NEW w \in Workflows, \A v \in Workflows \ {w} : Same(v),
           Standing(w)' = Standing(w), Reversed(w)' = Reversed(w)
    PROVE  /\ SagaDone' = SagaDone /\ SagaUndone' = SagaUndone
           /\ wf'[w].state = wf[w].state => SagaPhase' = SagaPhase
<1>1. \A v \in Workflows : Standing(v)' = Standing(v) /\ Reversed(v)' = Reversed(v)
  BY DEF Same, Standing, Reversed
<1>2. SagaDone' = SagaDone /\ SagaUndone' = SagaUndone
  BY <1>1 DEF SagaDone, SagaUndone
<1>3. ASSUME wf'[w].state = wf[w].state
      PROVE  SagaPhase' = SagaPhase
  <2>1. \A v \in Workflows : wf'[v].state = wf[v].state
    BY <1>3 DEF Same
  <2> QED
    BY <2>1 DEF SagaPhase
<1> QED
  BY <1>2, <1>3

(* A change of the lifecycle state that leaves the effects alone. *)
LEMMA PhaseStep ==
    ASSUME NEW w \in Workflows, \A v \in Workflows \ {w} : Same(v),
           NEW from, NEW to, PhaseOf(wf[w].state) = from, PhaseOf(wf'[w].state) = to
    PROVE  Promise!Move(w, from, to)
BY MappedWrite DEF Promise!Move, SagaPhase

-----------------------------------------------------------------------------
LEMMA StutterMoves ==
    ASSUME NEW w \in Workflows, NEW s \in Steps, TypeOK, LInv(w),
           \A v \in Workflows \ {w} : Same(v),
           LeaseMove(w) \/ RequestMove(w, s) \/ BindMove(w, s)
    PROVE  UNCHANGED Promise!vars
<1>1. wf'[w].state = wf[w].state
  BY DEF LeaseMove, RequestMove, BindMove, SameLife
<1>2. Standing(w)' = Standing(w) /\ Reversed(w)' = Reversed(w)
  <2>1. CASE cp'[w] = cp[w]
    BY <2>1 DEF Standing, Reversed
  <2>2. CASE BindMove(w, s)
    <3>1. cp[w][s] \in {"active", "dispatched"} /\ cp'[w][s] = "dispatched"
      BY <2>2 DEF BindMove, IsTop, Active, TypeOK
    <3>2. \A r \in Steps \ {s} : cp'[w][r] = cp[w][r]
      BY <2>2 DEF BindMove, TypeOK
    <3> QED
      BY <3>1, <3>2 DEF Standing, Reversed
  <2> QED
    BY <2>1, <2>2 DEF LeaseMove, RequestMove, SameRows
<1> QED
  BY <1>1, <1>2, MappedKeep DEF Promise!vars, SagaPhase, SagaDone, SagaUndone

LEMMA CreateBegins ==
    ASSUME NEW w \in Workflows, \A v \in Workflows \ {w} : Same(v), CreateMove(w)
    PROVE  Promise!Begin(w)
<1>1. wf[w].state = "absent" /\ wf'[w].state = "forward"
  BY DEF CreateMove, Becomes
<1>2. Standing(w)' = Standing(w) /\ Reversed(w)' = Reversed(w)
  BY DEF CreateMove, SameRows, Standing, Reversed
<1>3. Promise!Move(w, "new", "forward")
  BY <1>1, PhaseStep DEF PhaseOf
<1> QED
  BY <1>2, <1>3, MappedKeep DEF Promise!Begin, SagaDone, SagaUndone

LEMMA ParkSticks ==
    ASSUME NEW w \in Workflows, \A v \in Workflows \ {w} : Same(v), ParkMove(w)
    PROVE  Promise!Stick(w)
<1>1. wf[w].state = "forward" /\ wf'[w].state = "blocked"
  BY DEF ParkMove, Becomes
<1>2. Standing(w)' = Standing(w) /\ Reversed(w)' = Reversed(w)
  BY DEF ParkMove, SameRows, Standing, Reversed
<1>3. Promise!Move(w, "forward", "stuck")
  BY <1>1, PhaseStep DEF PhaseOf
<1> QED
  BY <1>2, <1>3, MappedKeep DEF Promise!Stick, SagaDone, SagaUndone

LEMMA GiveUpGivesUp ==
    ASSUME NEW w \in Workflows, \A v \in Workflows \ {w} : Same(v), LInv(w), GiveUpMove(w)
    PROVE  Promise!GiveUp(w)
<1>1. /\ wf[w].state = "forward"
      /\ \/ Active(w) = {} /\ wf'[w].state = "failed"
         \/ Active(w) # {} /\ wf'[w].state = "reversing"
  BY DEF GiveUpMove, Becomes
<1>2. Standing(w) = Active(w)
  BY <1>1 DEF LInv, MeansItsState
<1>3. Standing(w)' = Standing(w) /\ Reversed(w)' = Reversed(w)
  BY DEF GiveUpMove, SameRows, Standing, Reversed
<1>4. \/ Standing(w) = {} /\ Promise!Move(w, "forward", "failed")
      \/ Standing(w) # {} /\ Promise!Move(w, "forward", "unwinding")
  BY <1>1, <1>2, PhaseStep DEF PhaseOf
<1> QED
  BY <1>3, <1>4, MappedKeep DEF Promise!GiveUp, SagaDone, SagaUndone

LEMMA StickSticks ==
    ASSUME NEW w \in Workflows, NEW s \in Steps, TypeOK,
           \A v \in Workflows \ {w} : Same(v), StickMove(w, s)
    PROVE  Promise!Stick(w)
<1>1. wf[w].state = "reversing" /\ wf'[w].state = "blocked"
  BY DEF StickMove, Becomes
<1>2. cp[w][s] \in {"active", "dispatched"} /\ cp'[w][s] = "unresolved"
  BY DEF StickMove, IsTop, Active, TypeOK
<1>3. \A r \in Steps \ {s} : cp'[w][r] = cp[w][r]
  BY DEF StickMove, TypeOK
<1>4. Standing(w)' = Standing(w) /\ Reversed(w)' = Reversed(w)
  BY <1>2, <1>3 DEF Standing, Reversed
<1>5. Promise!Move(w, "unwinding", "stuck")
  BY <1>1, PhaseStep DEF PhaseOf
<1> QED
  BY <1>4, <1>5, MappedKeep DEF Promise!Stick, SagaDone, SagaUndone

LEMMA SettleDoes ==
    ASSUME NEW w \in Workflows, NEW s \in Steps, TypeOK, LInv(w),
           \A v \in Workflows \ {w} : Same(v), SettleMove(w, s)
    PROVE  Promise!Do(w, s)
<1>1. /\ wf[w].state = "forward" /\ s <= PlanLength[w] /\ op[w][s] = "requested"
      /\ cp'[w][s] = "active"
      /\ \A r \in Steps \ {s} : cp'[w][r] = cp[w][r]
      /\ \/ wf'[w].state = "forward"
         \/ s = PlanLength[w] /\ wf'[w].state = "completed"
  BY DEF SettleMove, SameLife, Becomes, TypeOK
<1>2. /\ FollowsPlan(w)
      /\ \A r \in Steps : cp[w][r] \in {"none", "active"}
  BY <1>1 DEF LInv, NotUnwinding
<1>3. \A r \in Steps : r < s => cp[w][r] = "active"
  BY <1>1, <1>2 DEF FollowsPlan
<1>4. cp[w][s] = "none"
  BY <1>1, <1>2 DEF FollowsPlan
<1>5. \A r \in Steps : r > s => cp[w][r] = "none"
  BY <1>1, <1>2, StepFacts DEF FollowsPlan
<1>6. Standing(w) = 1 .. s - 1
  BY <1>3, <1>4, <1>5, StepFacts DEF Standing, Steps
<1>7. Standing(w)' = Standing(w) \cup {s} /\ Reversed(w)' = Reversed(w)
  BY <1>1, <1>4 DEF Standing, Reversed
<1>8. \/ Promise!Move(w, "forward", "forward")
      \/ s = PlanLength[w] /\ Promise!Move(w, "forward", "completed")
  BY <1>1, PhaseStep DEF PhaseOf
<1>9. SagaDone' = [SagaDone EXCEPT ![w] = @ \cup {s}] /\ SagaUndone' = SagaUndone
  <2>1. SagaDone' = [SagaDone EXCEPT ![w] = @ \cup {s}]
    BY <1>7, MappedWrite DEF SagaDone
  <2>2. \A v \in Workflows : Reversed(v)' = Reversed(v)
    BY <1>7 DEF Same, Reversed
  <2> QED
    BY <2>1, <2>2 DEF SagaUndone
<1> QED
  BY <1>1, <1>6, <1>8, <1>9 DEF Promise!Do, SagaDone, SagaUndone

LEMMA UndoUndoes ==
    ASSUME NEW w \in Workflows, NEW s \in Steps, TypeOK, LInv(w),
           \A v \in Workflows \ {w} : Same(v), UndoMove(w, s)
    PROVE  Promise!Undo(w, s)
<1>1. /\ wf[w].state = "reversing" /\ IsTop(w, s)
      /\ cp'[w][s] = "reversed"
      /\ \A r \in Steps \ {s} : cp'[w][r] = cp[w][r]
      /\ \/ Active(w) # {s} /\ wf'[w].state = "reversing"
         \/ Active(w) = {s} /\ wf'[w].state = "reversed"
  BY DEF UndoMove, SameLife, Becomes, TypeOK
<1>2. /\ cp[w][s] \in {"active", "dispatched"}
      /\ \A r \in Steps : r < s => cp[w][r] = "active"
      /\ \A r \in Steps : r > s => cp[w][r] \in {"none", "reversed"}
  BY <1>1, TopIsBoundary
<1>3. Standing(w) = 1 .. s
  BY <1>2, StepFacts DEF Standing, Steps
<1>4. Active(w) = {s} <=> s = 1
  <2>1. \A r \in Steps : r \in Active(w) <=> r <= s
    BY <1>2, StepFacts DEF Active
  <2>2. 1 \in Steps /\ s >= 1
    BY StepFacts DEF Steps
  <2>3. CASE s = 1
    <3>1. \A r \in Steps : r <= s <=> r = s
      BY <2>3, StepFacts
    <3>2. \A r : r \in Active(w) => r \in Steps
      BY DEF Active
    <3> QED
      BY <2>1, <2>3, <3>1, <3>2
  <2>4. CASE s # 1
    BY <2>1, <2>2, <2>4
  <2> QED
    BY <2>3, <2>4
<1>5. Standing(w)' = Standing(w) \ {s} /\ Reversed(w)' = Reversed(w) \cup {s}
  BY <1>1, <1>2 DEF Standing, Reversed
<1>6. \/ s > 1 /\ Promise!Move(w, "unwinding", "unwinding")
      \/ s = 1 /\ Promise!Move(w, "unwinding", "compensated")
  <2>1. s = 1 \/ s > 1
    BY StepFacts
  <2> QED
    BY <1>1, <1>4, <2>1, PhaseStep DEF PhaseOf
<1>7. SagaDone' = [SagaDone EXCEPT ![w] = @ \ {s}]
  BY <1>5, MappedWrite DEF SagaDone
<1>8. SagaUndone' = [SagaUndone EXCEPT ![w] = @ \cup {s}]
  BY <1>5, MappedWrite DEF SagaUndone
<1> QED
  BY <1>3, <1>6, <1>7, <1>8 DEF Promise!Undo, SagaDone, SagaUndone

-----------------------------------------------------------------------------
(* A workflow's effects are made in plan order and taken back in the        *)
(* opposite order, and its final state says which of the two happened,      *)
(* whatever the executors that drive it do.                                 *)
THEOREM EngineIsASaga == Spec => ImplementsSaga
<1>1. Init => Promise!Init
  <2> SUFFICES ASSUME Init
               PROVE  Promise!Init
    OBVIOUS
  <2>1. \A w \in Workflows : wf[w].state = "absent" /\ Standing(w) = {} /\ Reversed(w) = {}
    BY DEF Init, NoRow, Standing, Reversed
  <2> QED
    BY <2>1 DEF Promise!Init, PhaseOf
<1>2. IInv /\ [Next]_vars => [Promise!Next]_(Promise!vars)
  <2> SUFFICES ASSUME IInv, [Next]_vars
               PROVE  Promise!Next \/ UNCHANGED Promise!vars
    OBVIOUS
  <2>1. CASE UNCHANGED vars
    BY <2>1 DEF vars, Promise!vars, PhaseOf, Standing, Reversed
  <2>2. CASE Next
    <3>1. PICK w \in Workflows : Shape(w)
      BY <2>2, StepShape
    <3>2. /\ TypeOK /\ LInv(w)
          /\ \A v \in Workflows \ {w} : Same(v)
      BY <3>1 DEF Shape, IInv
    <3>3. 1 \in Steps
      BY StepFacts DEF Steps
    <3>4. CASE LeaseMove(w)
      BY <3>2, <3>3, <3>4, StutterMoves
    <3>5. CASE CreateMove(w) \/ ParkMove(w) \/ GiveUpMove(w)
      BY <3>2, <3>5, CreateBegins, ParkSticks, GiveUpGivesUp DEF Promise!Next
    <3>6. ASSUME NEW s \in Steps,
                 \/ RequestMove(w, s) \/ SettleMove(w, s) \/ BindMove(w, s)
                 \/ UndoMove(w, s) \/ StickMove(w, s)
          PROVE  Promise!Next \/ UNCHANGED Promise!vars
      BY <3>2, <3>6, StutterMoves, SettleDoes, UndoUndoes, StickSticks DEF Promise!Next
    <3> QED
      BY <3>1, <3>4, <3>5, <3>6 DEF Shape, Move
  <2> QED
    BY <2>1, <2>2
<1> QED
  BY <1>1, <1>2, Invariance, PTL DEF Spec, ImplementsSaga, Promise!Spec

-----------------------------------------------------------------------------
(* The lifecycle: the moves that change the position of a workflow fall     *)
(* into nine kinds.  Five of them are the application of a rule.            *)

Completes(p, q) ==
    p = At("forward", "forward", "none") /\ q = At("completed", "forward", "completed")
Unwinds(p, q) ==
    p = At("forward", "forward", "none") /\ q = At("reversing", "reverse", "failed")
Parks(p, q) ==
    p = At("forward", "forward", "none") /\ q = At("blocked", "forward", "indeterminate")
Unwound(p, q) ==
    p = At("reversing", "reverse", "failed") /\ q = At("reversed", "reverse", "failed")
Sticks(p, q) ==
    p = At("reversing", "reverse", "failed") /\ q = At("blocked", "reverse", "failed")

LEMMA MovesAreLegal ==
    ASSUME NEW p, NEW q,
           \/ Completes(p, q) \/ Unwinds(p, q) \/ Parks(p, q)
           \/ Unwound(p, q)  \/ Sticks(p, q)
    PROVE  LegalMove(p, q)
<1> USE DEF LegalMove, At
<1>1. CASE Completes(p, q)
  <2> DEFINE r == Rule("ForwardComplete", "forward", {"forward"}, "completed")
  <2>1. r \in Rules
    BY DEF Rules
  <2>2. r \in RulesFor(p)
    BY <1>1, <2>1 DEF Completes, RulesFor, DirectionsOf, Rule
  <2>3. After(p, r) = q
    BY <1>1 DEF Completes, After, DerivedDirection, Declared, Rule
  <2> QED
    BY <2>2, <2>3
<1>2. CASE Unwinds(p, q)
  <2> DEFINE r == Rule("OperationFailure", "forward", {"forward"}, "reversing")
  <2>1. r \in Rules
    BY DEF Rules
  <2>2. r \in RulesFor(p)
    BY <1>2, <2>1 DEF Unwinds, RulesFor, DirectionsOf, Rule
  <2>3. After(p, r) = q
    BY <1>2 DEF Unwinds, After, DerivedDirection, Declared, Rule
  <2> QED
    BY <2>2, <2>3
<1>3. CASE Parks(p, q)
  <2> DEFINE r == Rule("ForwardIndeterminate", "forward", {"forward"}, "blocked")
  <2>1. r \in Rules
    BY DEF Rules
  <2>2. r \in RulesFor(p)
    BY <1>3, <2>1 DEF Parks, RulesFor, DirectionsOf, Rule
  <2>3. After(p, r) = q
    BY <1>3 DEF Parks, After, DerivedDirection, Declared, Rule
  <2> QED
    BY <2>2, <2>3
<1>4. CASE Unwound(p, q)
  <2> DEFINE r == Rule("UnwindComplete", "reversing", {"reverse"}, "reversed")
  <2>1. r \in Rules
    BY DEF Rules
  <2>2. r \in RulesFor(p)
    BY <1>4, <2>1 DEF Unwound, RulesFor, DirectionsOf, Rule
  <2>3. After(p, r) = q
    BY <1>4 DEF Unwound, After, DerivedDirection, Declared, Rule
  <2> QED
    BY <2>2, <2>3
<1>5. CASE Sticks(p, q)
  <2> DEFINE r == Rule("ReverseBlocked", "reversing", {"reverse"}, "blocked")
  <2>1. r \in Rules
    BY DEF Rules
  <2>2. r \in RulesFor(p)
    BY <1>5, <2>1 DEF Sticks, RulesFor, DirectionsOf, Rule
  <2>3. After(p, r) = q
    BY <1>5 DEF Sticks, After, DerivedDirection, Declared, Rule
  <2> QED
    BY <2>2, <2>3
<1> QED
  BY <1>1, <1>2, <1>3, <1>4, <1>5

(* One step of the lifecycle of a workflow, with the three moves no rule is  *)
(* for.                                                                     *)
LifeStep(w, p, q) ==
    \/ p = q
    \/ Submission(p, q)
    \/ Completes(p, q) \/ Unwinds(p, q) \/ Parks(p, q)
    \/ Unwound(p, q)  \/ Sticks(p, q)
    \/ TrivialFailure(w, p, q) \/ ParkedAsFailed(w, p, q) \/ UnsureUnwind(w, p, q)

LEMMA MoveKinds ==
    ASSUME NEW w \in Workflows, TypeOK, RowFits(w), Move(w)
    PROVE  LifeStep(w, Position(wf[w]), Position(wf'[w]))
<1> USE DEF LifeStep, Position, At, RowFits, Becomes, SameLife
<1>1. CASE LeaseMove(w) \/ CreateMove(w)
  BY <1>1 DEF LeaseMove, CreateMove, Submission
<1>2. CASE ParkMove(w)
  BY <1>2 DEF ParkMove, Parks, ParkedAsFailed
<1>3. CASE GiveUpMove(w)
  BY <1>3 DEF GiveUpMove, Unwinds, TrivialFailure
<1>4. ASSUME NEW s \in Steps, RequestMove(w, s) \/ SettleMove(w, s)
      PROVE  LifeStep(w, Position(wf[w]), Position(wf'[w]))
  BY <1>4 DEF RequestMove, SettleMove, Completes
<1>5. ASSUME NEW s \in Steps, BindMove(w, s) \/ UndoMove(w, s)
      PROVE  LifeStep(w, Position(wf[w]), Position(wf'[w]))
  BY <1>5 DEF BindMove, UndoMove, Unwound
<1>6. ASSUME NEW s \in Steps, StickMove(w, s)
      PROVE  LifeStep(w, Position(wf[w]), Position(wf'[w]))
  <2>1. cp'[w][s] = "unresolved"
    BY <1>6 DEF StickMove, TypeOK
  <2> QED
    BY <1>6, <2>1 DEF StickMove, Sticks, UnsureUnwind
<1> QED
  BY <1>1, <1>2, <1>3, <1>4, <1>5, <1>6 DEF Move

(* Where a step leads, the package can represent the row. *)
LEMMA LifeStepsRepresent ==
    ASSUME NEW w, NEW p, NEW q, p # q, LifeStep(w, p, q)
    PROVE  Representable(q)
BY DEF LifeStep, At, Representable, DirectionsOf, DispositionsOf, Submission, Completes, Unwinds,
       Parks, Unwound, Sticks, TrivialFailure, ParkedAsFailed, UnsureUnwind

(* Whatever the procedures do to the state, the direction or the            *)
(* disposition of a workflow is representable and is what the authority     *)
(* decides, but for three moves: the failure with nothing to compensate,    *)
(* the single-operation driver's failure, and the unwind blocked unsure.    *)
THEOREM LifecycleIsFollowed == Spec => FollowsLifecycle
<1>1. IInv /\ [Next]_vars =>
         [\A w \in Workflows :
             LET p == Position(wf[w])
                 q == Position(wf'[w])
             IN  p # q =>
                    /\ Representable(q)
                    /\ \/ Submission(p, q)
                       \/ LegalMove(p, q)
                       \/ TrivialFailure(w, p, q)
                       \/ ParkedAsFailed(w, p, q)
                       \/ UnsureUnwind(w, p, q)]_vars
  <2> SUFFICES ASSUME IInv, Next, NEW v \in Workflows, NEW p, NEW q,
                      p = Position(wf[v]), q = Position(wf'[v]), p # q
               PROVE  /\ Representable(q)
                      /\ \/ Submission(p, q) \/ LegalMove(p, q)
                         \/ TrivialFailure(v, p, q)
                         \/ ParkedAsFailed(v, p, q)
                         \/ UnsureUnwind(v, p, q)
    OBVIOUS
  <2>1. PICK w \in Workflows : Shape(w)
    BY StepShape
  <2>2. v = w
    BY <2>1 DEF Shape, Same
  <2>3. TypeOK /\ RowFits(v)
    BY DEF IInv, LInv
  <2>4. LifeStep(v, p, q)
    BY <2>1, <2>2, <2>3, MoveKinds DEF Shape
  <2> QED
    BY <2>4, MovesAreLegal, LifeStepsRepresent DEF LifeStep
<1> QED
  BY <1>1, Invariance, PTL DEF Spec, FollowsLifecycle
=============================================================================
