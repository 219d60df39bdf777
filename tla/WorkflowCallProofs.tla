-------------------------- MODULE WorkflowCallProofs --------------------------
(***************************************************************************)
(* Safety of workflows that call workflows, for every tree of calls, every *)
(* set of drivers, every deployment and every bound on faults.             *)
(*                                                                         *)
(* A step moves one workflow, by one of the moves of WorkflowProofs, or a  *)
(* caller and its child together (a call is submitted), or turns a         *)
(* completed child round (it is reopened).  What ties a caller to a child  *)
(* is shown call by call: seen from a call, a step moves the child on, or  *)
(* moves the caller, and a caller is moved past a call only by a driver    *)
(* that has seen how the child ended (Honest).                             *)
(*                                                                         *)
(* The second half is about a whole tree of calls: its outcome is that of  *)
(* all that was called, at any depth, nothing of it changes once its root  *)
(* has ended, and it is one saga.  What the invariant says of a call is    *)
(* carried along a line of calls by induction: Line[w] is the least set    *)
(* that has w and all callers, so any set shown to have them contains it.  *)
(***************************************************************************)
EXTENDS WorkflowCall, WorkflowProofs

AllDone(w) == \A s \in Plan(w) : op[w][s] = "succeeded"

(* What the caller w says of its call at s fits the child.  The child does  *)
(* not exist before the call; nothing is ever dispatched for a call.        *)
Linked(w, s) ==
    LET c == Callee[w][s]
    IN  /\ op[w][s] = "none" => wf[c].state = "absent"
        /\ cp[w][s] \notin {"dispatched", "unresolved"}
        /\ op[w][s] = "succeeded" /\ cp[w][s] = "active" =>
               wf[c].state = "completed" \/ (WaitsAt(w, s) /\ HasTurned(c))
        /\ cp[w][s] = "reversed" => wf[c].state = "reversed"
        /\ wf[w].trigger = s => wf[c].state \in {"reversed", "failed"}
        /\ wf[c].state \in {"forward", "reversing", "blocked"} => WaitsAt(w, s)

(* A step that was under way when the workflow turned round is the one to   *)
(* blame.                                                                   *)
Blamed(w) ==
    wf[w].state \in {"reversing", "reversed", "failed"} =>
        \A s \in Steps : op[w][s] = "requested" => wf[w].trigger = s

(* A driver under way, and what its stage says of the world. *)
Busy == [at: {"choose", "bind", "submit", "reopen", "inspect", "act", "fail"},
         w: Workflows, dir: {"forward", "reverse"}, s: Steps,
         got: {"none", "done", "rejected", "pending", "unknown"}]

SawChild(d) ==
    LET c == Callee[d.w][d.s]
    IN  /\ d.got # "unknown"
        /\ d.got = "rejected" => d.dir = "forward" /\ wf[c].state \in {"reversed", "failed"}
        /\ d.got = "done" /\ d.dir = "forward" =>
               wf[c].state = "completed" \/ op[d.w][d.s] = "succeeded"

Honest(d) ==
    /\ d.s <= PlanLength[d.w]
    /\ d.at = "bind" => ~ IsCall(d.w, d.s)
    /\ d.at \in {"submit", "reopen", "inspect"} => IsCall(d.w, d.s)
    /\ d.at = "act" /\ IsCall(d.w, d.s) => SawChild(d)
    /\ d.at = "fail" => AllDone(d.w)

DriversTyped == drv \in [Executors -> Busy \cup {Idle}]
DriversHonest == \A x \in Executors, d \in Busy : drv[x] = d => Honest(d)

AllBlamed == \A w \in Workflows : Blamed(w)
AllLinked == \A p \in Calls : Linked(p[1], p[2])

CInv ==
    /\ IInv
    /\ AllBlamed
    /\ AllLinked
    /\ DriversTyped
    /\ DriversHonest

-----------------------------------------------------------------------------
(* The tree of calls *)

LEMMA PlaceFacts ==
    ASSUME NEW w, NEW s
    PROVE  <<w, s>> \in Planned <=> w \in Workflows /\ s \in Steps /\ s <= PlanLength[w]
BY StepFacts DEF Planned, Plan, Steps

LEMMA CallFacts ==
    ASSUME NEW p \in Calls
    PROVE  /\ p[1] \in Workflows /\ p[2] \in Steps /\ p = <<p[1], p[2]>>
           /\ p[2] <= PlanLength[p[1]] /\ IsCall(p[1], p[2])
           /\ Callee[p[1]][p[2]] \in Workflows \ {p[1]}
<1>1. p = <<p[1], p[2]>> /\ p \in Planned /\ IsCall(p[1], p[2])
  BY DEF Calls, Planned
<1>2. p[1] \in Workflows /\ p[2] \in Steps /\ p[2] <= PlanLength[p[1]]
  BY <1>1, PlaceFacts
<1> QED
  BY <1>1, <1>2, CallAssumption DEF IsCall

LEMMA CallIs ==
    ASSUME NEW w \in Workflows, NEW s \in Steps, s <= PlanLength[w], IsCall(w, s)
    PROVE  <<w, s>> \in Calls
BY PlaceFacts DEF Calls

LEMMA OneCaller ==
    ASSUME NEW p \in Calls, NEW q \in Calls, Callee[p[1]][p[2]] = Callee[q[1]][q[2]]
    PROVE  p = q
BY CallAssumption

LEMMA ChildHasCaller ==
    ASSUME NEW c \in Workflows \ Roots
    PROVE  CallOf(c) \in Calls /\ Callee[Caller(c)][CallStep(c)] = c
<1>1. \E p \in Calls : Callee[p[1]][p[2]] = c
  BY DEF Roots
<1> QED
  BY <1>1 DEF CallOf, Caller, CallStep

LEMMA RootIsNotCalled ==
    ASSUME NEW r \in Roots, NEW p \in Calls
    PROVE  Callee[p[1]][p[2]] # r
BY DEF Roots

-----------------------------------------------------------------------------
(* One workflow *)

(* At most one operation is under way, and at most one checkpoint on top. *)
LEMMA OneRequested ==
    ASSUME IInv, NEW w \in Workflows, NEW r \in Steps, NEW s \in Steps,
           op[w][r] = "requested", op[w][s] = "requested"
    PROVE  r = s
<1>1. FollowsPlan(w)
  BY DEF IInv, LInv
<1>2. ~ (r < s) /\ ~ (s < r)
  BY <1>1 DEF FollowsPlan
<1> QED
  BY <1>2, StepFacts

LEMMA OneTop ==
    ASSUME NEW w \in Workflows, NEW r \in Steps, NEW s \in Steps, IsTop(w, r), IsTop(w, s)
    PROVE  r = s
BY StepFacts DEF IsTop

LEMMA TopIsDone ==
    ASSUME IInv, NEW w \in Workflows, NEW s \in Steps, IsTop(w, s)
    PROVE  op[w][s] = "succeeded" /\ s <= PlanLength[w]
BY DEF IInv, LInv, FollowsPlan, IsTop, Active

LEMMA CompletedIsDone ==
    ASSUME IInv, NEW w \in Workflows, NEW s \in Steps, wf[w].state = "completed"
    PROVE  op[w][s] # "requested" /\ cp[w][s] \in {"none", "active", "dispatched"}
<1>1. FollowsPlan(w) /\ Active(w) = Plan(w)
  BY DEF IInv, LInv, MeansItsState
<1>2. cp[w][s] # "none" \/ op[w][s] # "none" => s \in Active(w)
  BY <1>1, StepFacts DEF FollowsPlan, Plan, Steps
<1> QED
  BY <1>1, <1>2 DEF FollowsPlan, Active

(* A row that is not moved by a procedure of its own. *)
LEMMA IInvByRows ==
    ASSUME TypeOK', \A v \in Workflows : LInv(v)'
    PROVE  IInv'
BY DEF IInv

(* A checkpoint stays on top, and the unwind goes on, until it is written. *)
LEMMA TopStays ==
    ASSUME IInv, NEW w \in Workflows, NEW s \in Steps, Shape(w),
           wf[w].state = "reversing", IsTop(w, s), cp'[w][s] = "active"
    PROVE  wf'[w].state = "reversing" /\ IsTop(w, s)'
<1>1. TypeOK /\ TypeOK'
  BY DEF IInv, Shape
<1>2. CASE LeaseMove(w)
  BY <1>2 DEF LeaseMove, SameLife, SameRows, IsTop, Active
<1>3. CASE \E t \in Steps : BindMove(w, t) \/ UndoMove(w, t) \/ StickMove(w, t)
  <2>1. PICK t \in Steps, c \in {"dispatched", "reversed", "unresolved"} :
           IsTop(w, t) /\ cp'[w] = [cp[w] EXCEPT ![t] = c]
    BY <1>3 DEF BindMove, UndoMove, StickMove
  <2>2. t = s
    BY <2>1, OneTop
  <2> QED
    BY <1>1, <2>1, <2>2 DEF TypeOK
<1> QED
  BY <1>2, <1>3 DEF Shape, Move, CreateMove, RequestMove, SettleMove, ParkMove, GiveUpMove

-----------------------------------------------------------------------------
(* Steps of the store *)

Open == {"forward", "reversing", "blocked"}

(* A step of w alone takes it past none of its calls before the child has   *)
(* come to what the step records.                                           *)
Awaits(w) ==
    /\ \A s \in Steps : <<w, s>> \in Calls =>
          LET c == Callee[w][s]
          IN  /\ op'[w][s] # op[w][s] => op'[w][s] = "succeeded" /\ wf[c].state = "completed"
              /\ cp'[w][s] # cp[w][s] =>
                     \/ cp'[w][s] = "active" /\ op[w][s] = "requested"
                     \/ cp'[w][s] = "reversed" /\ wf[c].state = "reversed"
              /\ wf'[w].trigger = s => wf[w].trigger = s \/ wf[c].state \in {"reversed", "failed"}
              /\ op[w][s] = "requested" /\ wf'[w].state # wf[w].state => wf[c].state \notin Open
    /\ wf[w].state = "forward" => Blamed(w)'

Alone(w) == wf[w].state # "absent" /\ Shape(w) /\ Awaits(w)

(* The root of a tree is submitted. *)
Born(w) == w \in Roots /\ Shape(w) /\ CreateMove(w)

(* A call is submitted: the caller records it and the child exists. *)
Called(w, s) ==
    LET c == Callee[w][s]
    IN  /\ TypeOK'
        /\ RequestMove(w, s)
        /\ CreateMove(c)
        /\ \A v \in Workflows \ {w, c} : Same(v)

(* A completed child turns round. *)
Reopened(w, s) ==
    LET c == Callee[w][s]
    IN  /\ TypeOK'
        /\ wf[w].state = "reversing" /\ IsTop(w, s)
        /\ wf[c].state = "completed" /\ Active(c) # {}
        /\ Becomes(c, "reversing", "reverse", "failed", wf[c].trigger)
        /\ SameRows(c)
        /\ \A v \in Workflows \ {c} : Same(v)

(* Only who holds the lease, when a workflow is due, or who published last. *)
Rests(w) ==
    /\ SameLife(w) /\ SameRows(w)
    /\ wf'[w].owner = wf[w].owner
    /\ missed'[w] = missed[w]

Idles == TypeOK' /\ \A w \in Workflows : Rests(w)

StoreStep ==
    \/ Idles
    \/ \E w \in Workflows : Alone(w) \/ Born(w)
    \/ \E p \in Calls : Called(p[1], p[2]) \/ Reopened(p[1], p[2])

LEMMA IdleKeeps ==
    ASSUME NEW w \in Workflows, LInv(w), Rests(w)
    PROVE  LInv(w)'
<1>1. RowFits(w)' /\ BudgetUsed(w)' /\ TriggerFailed(w)'
  BY DEF Rests, SameLife, SameRows, LInv, RowFits, BudgetUsed, TriggerFailed
<1>2. FollowsPlan(w)' /\ UnwindsInOrder(w)' /\ NotUnwinding(w)'
  BY DEF Rests, SameLife, SameRows, LInv, FollowsPlan, UnwindsInOrder, NotUnwinding
<1>3. MeansItsState(w)'
  BY DEF Rests, SameLife, SameRows, LInv, MeansItsState, Active, Standing, Reversed, Plan
<1> QED
  BY <1>1, <1>2, <1>3 DEF LInv

LEMMA ReopenKeeps ==
    ASSUME IInv, NEW w \in Workflows, NEW s \in Steps, Callee[w][s] \in Workflows, Reopened(w, s)
    PROVE  LInv(Callee[w][s])' /\ Blamed(Callee[w][s])'
<1> DEFINE c == Callee[w][s]
<1>1. /\ wf[c].state = "completed" /\ Active(c) # {}
      /\ wf'[c].state = "reversing" /\ wf'[c].direction = "reverse"
      /\ wf'[c].disposition = "failed" /\ wf'[c].trigger = wf[c].trigger
      /\ op'[c] = op[c] /\ cp'[c] = cp[c]
  BY DEF Reopened, Becomes, SameRows
<1>2. LInv(c) /\ c \in Workflows
  BY DEF IInv
<1>3. \A t \in Steps : op[c][t] # "requested" /\ cp[c][t] \in {"none", "active", "dispatched"}
  BY <1>1, <1>2, CompletedIsDone
<1> HIDE DEF c
<1>4. RowFits(c)' /\ BudgetUsed(c)' /\ TriggerFailed(c)' /\ NotUnwinding(c)'
  BY <1>1, <1>2 DEF LInv, RowFits, BudgetUsed, TriggerFailed, NotUnwinding, Claimable
<1>5. FollowsPlan(c)' /\ UnwindsInOrder(c)'
  BY <1>1, <1>2 DEF LInv, FollowsPlan, UnwindsInOrder
<1>6. Active(c)' = Active(c) /\ Standing(c)' = Active(c)
  BY <1>1, <1>3 DEF Active, Standing
<1>7. MeansItsState(c)'
  BY <1>1, <1>6 DEF MeansItsState
<1>8. Blamed(c)'
  BY <1>1, <1>3 DEF Blamed
<1> QED
  BY <1>4, <1>5, <1>7, <1>8 DEF LInv, c

(* The invariant of the procedures survives calls. *)
LEMMA StoreKeepsIInv ==
    ASSUME IInv, StoreStep
    PROVE  IInv'
<1>1. CASE Idles
  BY <1>1, IdleKeeps, IInvByRows DEF Idles, IInv
<1>2. CASE \E w \in Workflows : Alone(w) \/ Born(w)
  BY <1>2, MoveKeeps DEF Alone, Born
<1>3. ASSUME NEW p \in Calls, Called(p[1], p[2])
      PROVE  IInv'
  <2> DEFINE w == p[1]  s == p[2]  c == Callee[w][s]
  <2>1. w \in Workflows /\ s \in Steps /\ c \in Workflows \ {w}
    BY CallFacts
  <2>2. TypeOK /\ TypeOK' /\ \A v \in Workflows : LInv(v)
    BY <1>3 DEF IInv, Called
  <2>3. LInv(w)'
    BY <1>3, <2>1, <2>2, RequestKeeps DEF Called
  <2>4. LInv(c)'
    BY <1>3, <2>1, <2>2, CreateKeeps DEF Called
  <2>5. \A v \in Workflows \ {w, c} : LInv(v)'
    BY <1>3, <2>2, SameKeeps DEF Called
  <2> QED
    BY <2>2, <2>3, <2>4, <2>5, IInvByRows
<1>4. ASSUME NEW p \in Calls, Reopened(p[1], p[2])
      PROVE  IInv'
  <2> DEFINE w == p[1]  s == p[2]  c == Callee[w][s]
  <2>1. w \in Workflows /\ s \in Steps /\ c \in Workflows
    BY CallFacts
  <2>2. LInv(c)' /\ TypeOK'
    BY <1>4, <2>1, ReopenKeeps DEF Reopened
  <2>3. \A v \in Workflows \ {c} : LInv(v)'
    BY <1>4, SameKeeps DEF IInv, Reopened
  <2> QED
    BY <2>2, <2>3, IInvByRows
<1> QED
  BY <1>1, <1>2, <1>3, <1>4 DEF StoreStep

-----------------------------------------------------------------------------
(* Caller and child *)

(* A child goes on towards its end, and what it ended as is kept. *)
GoesOn(c) ==
    \/ wf'[c].state = wf[c].state
    \/ wf[c].state = "forward" /\ wf'[c].state \in {"reversing", "blocked", "completed", "failed"}
    \/ wf[c].state = "reversing" /\ wf'[c].state \in {"blocked", "reversed"}

LEMMA AloneGoesOn ==
    ASSUME NEW w \in Workflows, Alone(w)
    PROVE  GoesOn(w)
BY DEF Alone, Shape, Move, LeaseMove, CreateMove, RequestMove, SettleMove, ParkMove, GiveUpMove,
       BindMove, UndoMove, StickMove, SameLife, Becomes, GoesOn

SameRecord(w) == SameLife(w) /\ SameRows(w)

LEMMA SameIsSameRecord ==
    ASSUME NEW v \in Workflows, Same(v)
    PROVE  SameRecord(v) /\ GoesOn(v)
BY DEF Same, SameRecord, SameLife, SameRows, GoesOn

(* The caller rests while the child goes on. *)
LEMMA ChildMoves ==
    ASSUME NEW w \in Workflows, NEW s \in Steps, Linked(w, s), SameRecord(w), GoesOn(Callee[w][s])
    PROVE  Linked(w, s)'
<1> DEFINE c == Callee[w][s]
<1>1. /\ wf'[w].state = wf[w].state /\ wf'[w].trigger = wf[w].trigger
      /\ op'[w] = op[w] /\ cp'[w] = cp[w]
  BY DEF SameRecord, SameLife, SameRows
<1>2. WaitsAt(w, s)' <=> WaitsAt(w, s)
  BY <1>1 DEF WaitsAt, IsTop, Active
<1>3. /\ wf[c].state = "absent" => wf'[c].state = "absent"
      /\ wf[c].state = "completed" => wf'[c].state = "completed"
      /\ wf[c].state = "reversed" => wf'[c].state = "reversed"
      /\ wf[c].state \in {"reversed", "failed"} => wf'[c].state \in {"reversed", "failed"}
      /\ HasTurned(c) => HasTurned(c)'
      /\ wf'[c].state \in {"forward", "reversing", "blocked"} =>
             wf[c].state \in {"forward", "reversing", "blocked"}
  BY DEF GoesOn, HasTurned
<1> HIDE DEF c
<1>4. /\ op[w][s] = "none" => wf[c].state = "absent"
      /\ cp[w][s] \notin {"dispatched", "unresolved"}
      /\ op[w][s] = "succeeded" /\ cp[w][s] = "active" =>
             wf[c].state = "completed" \/ (WaitsAt(w, s) /\ HasTurned(c))
      /\ cp[w][s] = "reversed" => wf[c].state = "reversed"
      /\ wf[w].trigger = s => wf[c].state \in {"reversed", "failed"}
      /\ wf[c].state \in {"forward", "reversing", "blocked"} => WaitsAt(w, s)
  BY DEF Linked, c
<1>5. /\ op'[w][s] = "none" => wf'[c].state = "absent"
      /\ cp'[w][s] \notin {"dispatched", "unresolved"}
      /\ op'[w][s] = "succeeded" /\ cp'[w][s] = "active" =>
             wf'[c].state = "completed" \/ (WaitsAt(w, s)' /\ HasTurned(c)')
      /\ cp'[w][s] = "reversed" => wf'[c].state = "reversed"
      /\ wf'[w].trigger = s => wf'[c].state \in {"reversed", "failed"}
      /\ wf'[c].state \in {"forward", "reversing", "blocked"} => WaitsAt(w, s)'
  BY <1>1, <1>2, <1>3, <1>4
<1> QED
  BY <1>5 DEF Linked, c

(* The caller moves, past the call only with the child's outcome. *)
LEMMA CallerMoves ==
    ASSUME IInv, NEW w \in Workflows, NEW s \in Steps, <<w, s>> \in Calls, Linked(w, s),
           Alone(w), Same(Callee[w][s])
    PROVE  Linked(w, s)'
<1> DEFINE c == Callee[w][s]
<1>1. wf'[c].state = wf[c].state
  BY DEF Same
<1>2. Shape(w) /\ TypeOK
  BY DEF Alone, IInv
<1> HIDE DEF c
<1>3. /\ op'[w][s] # op[w][s] => op'[w][s] = "succeeded" /\ wf[c].state = "completed"
      /\ cp'[w][s] # cp[w][s] =>
             \/ cp'[w][s] = "active" /\ op[w][s] = "requested"
             \/ cp'[w][s] = "reversed" /\ wf[c].state = "reversed"
      /\ wf'[w].trigger = s => wf[w].trigger = s \/ wf[c].state \in {"reversed", "failed"}
      /\ op[w][s] = "requested" /\ wf'[w].state # wf[w].state => wf[c].state \notin Open
  BY DEF Alone, Awaits, c
<1>4. /\ op[w][s] = "none" => wf[c].state = "absent"
      /\ cp[w][s] \notin {"dispatched", "unresolved"}
      /\ op[w][s] = "succeeded" /\ cp[w][s] = "active" =>
             wf[c].state = "completed" \/ (WaitsAt(w, s) /\ HasTurned(c))
      /\ cp[w][s] = "reversed" => wf[c].state = "reversed"
      /\ wf[w].trigger = s => wf[c].state \in {"reversed", "failed"}
      /\ wf[c].state \in {"forward", "reversing", "blocked"} => WaitsAt(w, s)
  BY DEF Linked, c
<1>5. ASSUME wf[w].state = "reversing", IsTop(w, s), wf[c].state # "reversed"
      PROVE  WaitsAt(w, s)'
  <2>1. cp[w][s] = "active" /\ op[w][s] = "succeeded"
    BY <1>4, <1>5, TopIsDone DEF IsTop, Active
  <2>2. cp'[w][s] = "active"
    BY <1>3, <1>5, <2>1
  <2> QED
    BY <1>2, <1>5, <2>2, TopStays DEF WaitsAt
<1>6. ASSUME wf[c].state \in Open
      PROVE  WaitsAt(w, s)'
  <2>1. CASE wf[w].state = "forward" /\ op[w][s] = "requested"
    <3>1. wf'[w].state = "forward" /\ op'[w][s] = "requested"
      BY <1>3, <1>6, <2>1 DEF Open
    <3> QED
      BY <3>1 DEF WaitsAt
  <2>2. CASE wf[w].state = "reversing" /\ IsTop(w, s)
    BY <1>5, <1>6, <2>2 DEF Open
  <2> QED
    BY <1>4, <1>6, <2>1, <2>2 DEF WaitsAt, Open
<1>7. ASSUME op'[w][s] = "succeeded", cp'[w][s] = "active", wf[c].state # "completed"
      PROVE  WaitsAt(w, s)' /\ HasTurned(c)
  <2>1. op[w][s] = "succeeded" /\ cp[w][s] = "active"
    BY <1>3, <1>7
  <2>2. WaitsAt(w, s) /\ HasTurned(c)
    BY <1>4, <1>7, <2>1
  <2>3. wf[w].state = "reversing" /\ IsTop(w, s)
    BY <2>1, <2>2 DEF WaitsAt
  <2>4. wf'[w].state = "reversing" /\ IsTop(w, s)'
    BY <1>2, <1>7, <2>3, TopStays
  <2> QED
    BY <2>2, <2>4 DEF WaitsAt
<1>8. /\ op'[w][s] = "none" => wf'[c].state = "absent"
      /\ cp'[w][s] \notin {"dispatched", "unresolved"}
      /\ cp'[w][s] = "reversed" => wf'[c].state = "reversed"
      /\ wf'[w].trigger = s => wf'[c].state \in {"reversed", "failed"}
  BY <1>1, <1>3, <1>4
<1>9. HasTurned(c) => HasTurned(c)'
  BY <1>1 DEF HasTurned
<1> QED
  BY <1>1, <1>6, <1>7, <1>8, <1>9 DEF Linked, Open, c

LEMMA BornLinked ==
    ASSUME IInv, NEW w \in Workflows, NEW s \in Steps, Linked(w, s),
           CreateMove(w), Same(Callee[w][s])
    PROVE  Linked(w, s)'
<1>1. /\ op[w][s] = "none" /\ cp[w][s] = "none"
      /\ op'[w] = op[w] /\ cp'[w] = cp[w] /\ wf'[w].trigger = NoTrigger
  BY DEF CreateMove, Becomes, SameRows, IInv, LInv, NotUnwinding, FollowsPlan
<1>2. wf[Callee[w][s]].state = "absent" /\ wf'[Callee[w][s]].state = "absent"
  BY <1>1 DEF Linked, Same
<1>3. s # NoTrigger
  BY StepFacts
<1> QED
  BY <1>1, <1>2, <1>3 DEF Linked

(* A call is submitted, seen from the call. *)
LEMMA CalledLinked ==
    ASSUME IInv, IInv', NEW w \in Workflows, NEW s \in Steps, <<w, s>> \in Calls, Called(w, s)
    PROVE  Linked(w, s)'
<1> DEFINE c == Callee[w][s]
<1>1. /\ wf[w].state = "forward" /\ wf'[w].state = "forward" /\ wf'[w].trigger = wf[w].trigger
      /\ op'[w][s] = "requested"
      /\ wf'[c].state = "forward"
  BY DEF Called, RequestMove, CreateMove, Becomes, SameLife, IInv, TypeOK
<1>2. wf[w].trigger = NoTrigger /\ s # NoTrigger
  BY <1>1, StepFacts DEF IInv, LInv, NotUnwinding
<1>3. cp'[w][s] = "none"
  BY <1>1 DEF IInv, LInv, FollowsPlan
<1> QED
  BY <1>1, <1>2, <1>3 DEF Linked, WaitsAt

(* Seen from another call of the same workflow. *)
LEMMA OtherCallLinked ==
    ASSUME IInv, NEW w \in Workflows, NEW s \in Steps, NEW t \in Steps, t # s, Linked(w, t),
           Called(w, s), Same(Callee[w][t])
    PROVE  Linked(w, t)'
<1>1. /\ wf[w].state = "forward" /\ wf'[w].state = "forward" /\ wf'[w].trigger = wf[w].trigger
      /\ op'[w][t] = op[w][t] /\ cp'[w] = cp[w]
      /\ op[w][s] = "none"
  BY DEF Called, RequestMove, SameLife, IInv, TypeOK
<1>2. wf'[Callee[w][t]].state = wf[Callee[w][t]].state
  BY DEF Same
<1> QED
  BY <1>1, <1>2 DEF Linked, WaitsAt, HasTurned

LEMMA ReopenedLinked ==
    ASSUME IInv, NEW w \in Workflows, NEW s \in Steps, <<w, s>> \in Calls, Linked(w, s), Reopened(w, s)
    PROVE  Linked(w, s)'
<1> DEFINE c == Callee[w][s]
<1>1. c \in Workflows \ {w} /\ wf[c].state = "completed" /\ wf'[c].state = "reversing"
  BY CallFacts DEF Reopened, Becomes
<1>2. Same(w)
  BY <1>1, CallFacts DEF Reopened
<1>3. op[w][s] = "succeeded" /\ wf[w].state = "reversing" /\ IsTop(w, s)
  BY TopIsDone DEF Reopened
<1>4. WaitsAt(w, s)'
  BY <1>2, <1>3 DEF WaitsAt, IsTop, Active, Same
<1> QED
  BY <1>1, <1>2, <1>3, <1>4 DEF Linked, Same, HasTurned

(* Seen from a call of the child that is reopened: it waited nowhere. *)
LEMMA ReopenedCallerLinked ==
    ASSUME IInv, NEW v \in Workflows, NEW t \in Steps, Linked(v, t), wf[v].state = "completed",
           Becomes(v, "reversing", "reverse", "failed", wf[v].trigger), SameRows(v),
           Same(Callee[v][t])
    PROVE  Linked(v, t)'
<1>1. /\ ~ WaitsAt(v, t) /\ op'[v] = op[v] /\ cp'[v] = cp[v] /\ wf'[v].trigger = wf[v].trigger
      /\ wf'[Callee[v][t]].state = wf[Callee[v][t]].state
  BY DEF WaitsAt, Becomes, SameRows, Same
<1> QED
  BY <1>1 DEF Linked

-----------------------------------------------------------------------------
(* Every step of the store keeps all of them *)

LEMMA OthersLinked ==
    ASSUME NEW q \in Calls, Linked(q[1], q[2]), Same(q[1]), GoesOn(Callee[q[1]][q[2]])
    PROVE  Linked(q[1], q[2])'
BY CallFacts, SameIsSameRecord, ChildMoves

LEMMA AloneLinked ==
    ASSUME IInv, AllLinked, NEW w \in Workflows, Alone(w) \/ Born(w), NEW q \in Calls
    PROVE  Linked(q[1], q[2])'
<1>1. Linked(q[1], q[2]) /\ \A v \in Workflows \ {w} : Same(v)
  BY DEF AllLinked, Alone, Born, Shape
<1>2. /\ q[1] \in Workflows /\ q[2] \in Steps /\ <<q[1], q[2]>> \in Calls
      /\ Callee[q[1]][q[2]] \in Workflows \ {q[1]}
  BY CallFacts
<1>3. CASE q[1] = w /\ Alone(w)
  BY <1>1, <1>2, <1>3, CallerMoves
<1>4. CASE q[1] = w /\ Born(w)
  BY <1>1, <1>2, <1>4, BornLinked DEF Born
<1>5. CASE q[1] # w
  <2>1. Same(q[1])
    BY <1>1, <1>2, <1>5
  <2>2. GoesOn(Callee[q[1]][q[2]])
    <3>1. CASE Callee[q[1]][q[2]] = w
      <4>1. Alone(w)
        BY <3>1, RootIsNotCalled DEF Born
      <4> QED
        BY <3>1, <4>1, AloneGoesOn
    <3>2. CASE Callee[q[1]][q[2]] # w
      BY <1>1, <1>2, <3>2, SameIsSameRecord
    <3> QED
      BY <3>1, <3>2
  <2> QED
    BY <1>1, <2>1, <2>2, OthersLinked
<1> QED
  BY <1>3, <1>4, <1>5

LEMMA AllCalledLinked ==
    ASSUME IInv, IInv', AllLinked, NEW p \in Calls, Called(p[1], p[2]), NEW q \in Calls
    PROVE  Linked(q[1], q[2])'
<1> DEFINE w == p[1]  s == p[2]  c == Callee[w][s]
           v == q[1]  t == q[2]  e == Callee[v][t]
<1>1. /\ w \in Workflows /\ s \in Steps /\ p = <<w, s>> /\ c \in Workflows \ {w}
      /\ v \in Workflows /\ t \in Steps /\ q = <<v, t>> /\ e \in Workflows \ {v}
  BY CallFacts
<1>2. /\ Linked(v, t)
      /\ RequestMove(w, s) /\ CreateMove(c)
      /\ \A u \in Workflows \ {w, c} : Same(u)
  BY DEF AllLinked, Called
<1>3. CASE q = p
  BY <1>1, <1>3, CalledLinked
<1>4. CASE q # p
  <2>1. e # c
    BY <1>4, OneCaller
  <2>2. CASE v = w
    <3>1. t # s /\ Same(e)
      BY <1>1, <1>2, <1>4, <2>1, <2>2
    <3> QED
      BY <1>1, <1>2, <2>2, <3>1, OtherCallLinked
  <2>3. CASE v = c
    <3>1. e # w
      <4>1. wf[w].state = "forward" /\ wf[v].state = "absent"
        BY <1>2, <2>3 DEF RequestMove, CreateMove
      <4>2. op[v][t] = "none"
        BY <1>1, <4>1 DEF IInv, LInv, NotUnwinding
      <4>3. wf[e].state = "absent"
        BY <1>2, <4>2 DEF Linked
      <4> QED
        BY <4>1, <4>3
    <3>2. Same(e) /\ CreateMove(v)
      BY <1>1, <1>2, <2>1, <2>3, <3>1
    <3> QED
      BY <1>1, <1>2, <3>2, BornLinked
  <2>4. CASE v \notin {w, c}
    <3>1. Same(v)
      BY <1>1, <1>2, <2>4
    <3>2. GoesOn(e)
      <4>1. CASE e = w
        BY <1>2, <4>1 DEF RequestMove, SameLife, GoesOn
      <4>2. CASE e # w
        BY <1>1, <1>2, <2>1, <4>2, SameIsSameRecord
      <4> QED
        BY <4>1, <4>2
    <3> QED
      BY <1>2, <3>1, <3>2, OthersLinked
  <2> QED
    BY <2>2, <2>3, <2>4
<1> QED
  BY <1>3, <1>4

LEMMA AllReopenedLinked ==
    ASSUME IInv, AllLinked, NEW p \in Calls, Reopened(p[1], p[2]), NEW q \in Calls
    PROVE  Linked(q[1], q[2])'
<1> DEFINE w == p[1]  s == p[2]  c == Callee[w][s]
           v == q[1]  t == q[2]  e == Callee[v][t]
<1>1. /\ w \in Workflows /\ s \in Steps /\ p = <<w, s>> /\ c \in Workflows \ {w}
      /\ v \in Workflows /\ t \in Steps /\ q = <<v, t>> /\ e \in Workflows \ {v}
  BY CallFacts
<1>2. /\ Linked(v, t)
      /\ wf[c].state = "completed"
      /\ Becomes(c, "reversing", "reverse", "failed", wf[c].trigger)
      /\ SameRows(c)
      /\ \A u \in Workflows \ {c} : Same(u)
  BY DEF AllLinked, Reopened
<1>3. CASE q = p
  BY <1>1, <1>2, <1>3, ReopenedLinked
<1>4. CASE q # p
  <2>1. e # c
    BY <1>4, OneCaller
  <2>2. Same(e)
    BY <1>1, <1>2, <2>1
  <2>3. CASE v = c
    BY <1>1, <1>2, <2>2, <2>3, ReopenedCallerLinked
  <2>4. CASE v # c
    BY <1>1, <1>2, <2>2, <2>4, SameIsSameRecord, OthersLinked
  <2> QED
    BY <2>3, <2>4
<1> QED
  BY <1>3, <1>4

LEMMA RestsGoesOn ==
    ASSUME NEW v \in Workflows, Rests(v)
    PROVE  SameRecord(v) /\ GoesOn(v)
BY DEF Rests, SameRecord, SameLife, GoesOn

LEMMA StoreKeepsLinks ==
    ASSUME IInv, IInv', AllLinked, StoreStep
    PROVE  AllLinked'
<1> SUFFICES ASSUME NEW q \in Calls
             PROVE  Linked(q[1], q[2])'
  BY DEF AllLinked
<1>1. CASE Idles
  <2>1. Linked(q[1], q[2]) /\ q[1] \in Workflows /\ q[2] \in Steps /\ Callee[q[1]][q[2]] \in Workflows
    BY CallFacts DEF AllLinked
  <2>2. Rests(q[1]) /\ Rests(Callee[q[1]][q[2]])
    BY <1>1, <2>1 DEF Idles
  <2> QED
    BY <2>1, <2>2, RestsGoesOn, ChildMoves
<1> QED
  BY <1>1, AloneLinked, AllCalledLinked, AllReopenedLinked DEF StoreStep

(* Who is to blame is decided when a workflow turns round. *)
LEMMA BlamedLasts ==
    ASSUME NEW w \in Workflows, Blamed(w), SameRecord(w)
    PROVE  Blamed(w)'
BY DEF Blamed, SameRecord, SameLife, SameRows

LEMMA AloneBlamed ==
    ASSUME IInv, NEW w \in Workflows, Blamed(w), Alone(w)
    PROVE  Blamed(w)'
<1>1. CASE wf[w].state = "forward"
  BY <1>1 DEF Alone, Awaits
<1>2. CASE wf[w].state # "forward"
  <2>1. LeaseMove(w) \/ \E s \in Steps : BindMove(w, s) \/ UndoMove(w, s) \/ StickMove(w, s)
    BY <1>2 DEF Alone, Shape, Move, CreateMove, RequestMove, SettleMove, ParkMove, GiveUpMove
  <2>2. op'[w] = op[w] /\ wf'[w].trigger = wf[w].trigger
        /\ (wf'[w].state \in {"reversing", "reversed", "failed"} =>
                wf[w].state \in {"reversing", "reversed", "failed"})
    BY <2>1, <1>2
    DEF LeaseMove, BindMove, UndoMove, StickMove, SameLife, SameRows, Becomes, Claimable
  <2> QED
    BY <2>2 DEF Blamed
<1> QED
  BY <1>1, <1>2

LEMMA StoreKeepsBlame ==
    ASSUME IInv, AllBlamed, StoreStep
    PROVE  AllBlamed'
<1> SUFFICES ASSUME NEW v \in Workflows
             PROVE  Blamed(v)'
  BY DEF AllBlamed
<1>0. Blamed(v)
  BY DEF AllBlamed
<1>1. CASE Idles
  BY <1>0, <1>1, RestsGoesOn, BlamedLasts DEF Idles
<1>2. ASSUME NEW w \in Workflows, Alone(w) \/ Born(w)
      PROVE  Blamed(v)'
  <2>1. CASE v # w
    BY <1>0, <1>2, <2>1, SameIsSameRecord, BlamedLasts DEF Alone, Born, Shape
  <2>2. CASE v = w /\ Alone(w)
    BY <1>0, <2>2, AloneBlamed
  <2>3. CASE v = w /\ Born(w)
    BY <2>3 DEF Born, CreateMove, Becomes, Blamed
  <2> QED
    BY <1>2, <2>1, <2>2, <2>3
<1>3. ASSUME NEW p \in Calls, Called(p[1], p[2])
      PROVE  Blamed(v)'
  <2>1. CASE v \notin {p[1], Callee[p[1]][p[2]]}
    BY <1>0, <1>3, <2>1, SameIsSameRecord, BlamedLasts DEF Called
  <2>2. CASE v \in {p[1], Callee[p[1]][p[2]]}
    BY <1>3, <2>2 DEF Called, RequestMove, CreateMove, SameLife, Becomes, Blamed
  <2> QED
    BY <2>1, <2>2
<1>4. ASSUME NEW p \in Calls, Reopened(p[1], p[2])
      PROVE  Blamed(v)'
  <2>1. CASE v # Callee[p[1]][p[2]]
    BY <1>0, <1>4, <2>1, SameIsSameRecord, BlamedLasts DEF Reopened
  <2>2. CASE v = Callee[p[1]][p[2]]
    BY <1>4, <2>2, CallFacts, ReopenKeeps
  <2> QED
    BY <2>1, <2>2
<1> QED
  BY <1>1, <1>2, <1>3, <1>4 DEF StoreStep

-----------------------------------------------------------------------------
(* What a driver has seen lasts *)

Lasting ==
    /\ \A w \in Workflows, s \in Steps : op[w][s] = "succeeded" => op'[w][s] = "succeeded"
    /\ \A w \in Workflows : wf[w].state \in {"reversed", "failed"} => wf'[w].state = wf[w].state
    /\ \A p \in Calls : wf[Callee[p[1]][p[2]]].state = "completed" =>
           wf'[Callee[p[1]][p[2]]].state = "completed" \/ op'[p[1]][p[2]] = "succeeded"

(* One workflow's share of it. *)
KeepsResults(v) ==
    /\ \A s \in Steps : op[v][s] = "succeeded" => op'[v][s] = "succeeded"
    /\ wf[v].state \in {"reversed", "failed"} => wf'[v].state = wf[v].state

Finishes(v) == wf[v].state = "completed" => wf'[v].state = "completed"

LEMMA GoesOnFinishes ==
    ASSUME NEW v \in Workflows, GoesOn(v)
    PROVE  Finishes(v) /\ (wf[v].state \in {"reversed", "failed"} => wf'[v].state = wf[v].state)
BY DEF GoesOn, Finishes

LEMMA SameRecordKeepsResults ==
    ASSUME NEW v \in Workflows, SameRecord(v)
    PROVE  KeepsResults(v) /\ Finishes(v)
BY DEF SameRecord, SameLife, SameRows, KeepsResults, Finishes

LEMMA ShapeKeepsResults ==
    ASSUME IInv, NEW w \in Workflows, Shape(w)
    PROVE  \A s \in Steps : op[w][s] = "succeeded" => op'[w][s] = "succeeded"
BY DEF Shape, Move, LeaseMove, CreateMove, RequestMove, SettleMove, ParkMove, GiveUpMove,
       BindMove, UndoMove, StickMove, SameRows, IInv, TypeOK

LEMMA LastingByRows ==
    ASSUME \A v \in Workflows : KeepsResults(v), \A v \in Workflows : Finishes(v)
    PROVE  Lasting
BY CallFacts DEF KeepsResults, Finishes, Lasting

LEMMA StoreLasts ==
    ASSUME IInv, StoreStep
    PROVE  Lasting
<1>1. CASE Idles
  BY <1>1, RestsGoesOn, SameRecordKeepsResults, LastingByRows DEF Idles
<1>2. ASSUME NEW w \in Workflows, Alone(w) \/ Born(w)
      PROVE  Lasting
  <2>1. \A v \in Workflows \ {w} : KeepsResults(v) /\ Finishes(v)
    BY <1>2, SameIsSameRecord, SameRecordKeepsResults DEF Alone, Born, Shape
  <2>2. KeepsResults(w) /\ Finishes(w)
    <3>1. CASE Alone(w)
      BY <3>1, AloneGoesOn, GoesOnFinishes, ShapeKeepsResults DEF Alone, KeepsResults
    <3>2. CASE Born(w)
      BY <3>2 DEF Born, CreateMove, SameRows, KeepsResults, Finishes
    <3> QED
      BY <1>2, <3>1, <3>2
  <2> QED
    BY <2>1, <2>2, LastingByRows
<1>3. ASSUME NEW p \in Calls, Called(p[1], p[2])
      PROVE  Lasting
  <2> DEFINE w == p[1]  s == p[2]  c == Callee[w][s]
  <2>1. w \in Workflows /\ s \in Steps /\ c \in Workflows \ {w}
    BY CallFacts
  <2>2. \A v \in Workflows \ {w, c} : KeepsResults(v) /\ Finishes(v)
    BY <1>3, SameIsSameRecord, SameRecordKeepsResults DEF Called
  <2>3. KeepsResults(w) /\ Finishes(w)
    BY <1>3, <2>1 DEF Called, RequestMove, SameLife, KeepsResults, Finishes, IInv, TypeOK
  <2>4. KeepsResults(c) /\ Finishes(c)
    BY <1>3 DEF Called, CreateMove, SameRows, KeepsResults, Finishes
  <2> QED
    BY <2>1, <2>2, <2>3, <2>4, LastingByRows
<1>4. ASSUME NEW p \in Calls, Reopened(p[1], p[2])
      PROVE  Lasting
  <2> DEFINE w == p[1]  s == p[2]  c == Callee[w][s]
  <2>1. w \in Workflows /\ s \in Steps /\ c \in Workflows \ {w}
    BY CallFacts
  <2>2. \A v \in Workflows \ {c} : KeepsResults(v) /\ Finishes(v)
    BY <1>4, SameIsSameRecord, SameRecordKeepsResults DEF Reopened
  <2>3. KeepsResults(c)
    BY <1>4 DEF Reopened, SameRows, KeepsResults
  <2>4. op'[w][s] = "succeeded"
    <3>1. op[w][s] = "succeeded"
      BY <1>4, <2>1, TopIsDone DEF Reopened
    <3> QED
      BY <2>1, <2>2, <3>1 DEF KeepsResults
  <2>5. ASSUME NEW q \in Calls, wf[Callee[q[1]][q[2]]].state = "completed"
        PROVE  wf'[Callee[q[1]][q[2]]].state = "completed" \/ op'[q[1]][q[2]] = "succeeded"
    <3>1. CASE q = p
      BY <2>4, <3>1
    <3>2. CASE q # p
      <4>1. Callee[q[1]][q[2]] \in Workflows \ {c}
        BY <3>2, OneCaller, CallFacts
      <4> QED
        BY <2>2, <2>5, <4>1 DEF Finishes
    <3> QED
      BY <3>1, <3>2
  <2> QED
    BY <2>2, <2>3, <2>5 DEF KeepsResults, Lasting
<1> QED
  BY <1>1, <1>2, <1>3, <1>4 DEF StoreStep

-----------------------------------------------------------------------------
(* The procedures are steps of the store *)

LEMMA CurrentFence ==
    ASSUME IInv, NEW w \in Workflows
    PROVE  TypeOK /\ wf[w].fence \in 0 .. wf[w].fence
BY WorkflowAssumption DEF IInv, TypeOK, Row

LEMMA QuietAwaits ==
    ASSUME NEW w \in Workflows, Blamed(w), SameRecord(w)
    PROVE  Awaits(w)
<1>1. Blamed(w)'
  BY BlamedLasts
<1> QED
  BY <1>1 DEF SameRecord, SameLife, SameRows, Awaits

(* The lease, and nothing else. *)
LEMMA LeaseStep ==
    ASSUME NEW w \in Workflows, Blamed(w), wf[w].state # "absent", Shape(w), SameRecord(w)
    PROVE  Alone(w)
BY QuietAwaits DEF Alone

LEMMA StartDriveStep ==
    ASSUME IInv, AllBlamed, NEW w \in Workflows, NEW x \in Executors, StartDrive(x, w)
    PROVE  Alone(w)
<1> DEFINE r == [wf[w] EXCEPT !.owner = x, !.lapsed = FALSE]
<1>1. TypeOK /\ wf[w] \in Row /\ wf[w].state \in Claimable
  BY DEF IInv, TypeOK, StartDrive, MayClaim
<1>2. r \in Row /\ r.state = wf[w].state /\ r.direction = wf[w].direction
                /\ r.disposition = wf[w].disposition /\ r.trigger = wf[w].trigger
  BY <1>1 DEF Row
<1>3. wf' = [wf EXCEPT ![w] = r]
  BY DEF StartDrive
<1> HIDE DEF r
<1>4. wf' \in [Workflows -> Row] /\ wf'[w] = r /\ \A v \in Workflows \ {w} : wf'[v] = wf[v]
  BY <1>1, <1>2, <1>3, WriteRow
<1>5. UNCHANGED rows /\ UNCHANGED published
  BY DEF StartDrive
<1>6. LeaseMove(w)
  BY <1>1, <1>2, <1>4, <1>5 DEF rows, LeaseMove, SameLife, SameRows
<1>7. Shape(w)
  BY <1>1, <1>4, <1>5, <1>6 DEF rows, TypeOK, Shape, Same, Move
<1> QED
  BY <1>1, <1>6, <1>7, LeaseStep DEF LeaseMove, SameRecord, AllBlamed, Claimable

LEMMA ReleaseStep ==
    ASSUME IInv, AllBlamed, NEW w \in Workflows, NEW x \in Executors, NEW due \in BOOLEAN,
           Release(w, x, wf[w].fence, due)
    PROVE  Alone(w)
<1>1. Shape(w)
  BY CurrentFence, ReleaseShape
<1>2. SameRecord(w)
  BY CurrentFence, UnleaseFacts DEF Release, SameRecord, SameRows, rows
<1>3. wf[w].state # "absent"
  BY DEF Release, Holds, Claimable
<1> QED
  BY <1>1, <1>2, <1>3, LeaseStep DEF AllBlamed

LEMMA LapseStep ==
    ASSUME IInv, AllBlamed, NEW w \in Workflows, LeaseLapses(w)
    PROVE  Alone(w)
<1>1. Shape(w)
  BY LapseShape
<1>2. SameRecord(w)
  BY DEF LeaseLapses, rows, SameRecord, SameLife, SameRows, IInv, TypeOK, Row
<1>3. wf[w].state # "absent"
  BY DEF LeaseLapses, IInv, LInv, RowFits, Claimable
<1> QED
  BY <1>1, <1>2, <1>3, LeaseStep DEF AllBlamed

LEMMA DueStep ==
    ASSUME IInv, AllBlamed, NEW w \in Workflows, ComesDue(w)
    PROVE  Alone(w)
<1>1. Shape(w)
  BY DueShape DEF IInv
<1>2. SameRecord(w)
  BY DEF ComesDue, rows, SameRecord, SameLife, SameRows, IInv, TypeOK, Row
<1>3. wf[w].state # "absent"
  BY DEF ComesDue, Claimable
<1> QED
  BY <1>1, <1>2, <1>3, LeaseStep DEF AllBlamed

LEMMA NotifyStep ==
    ASSUME IInv, NEW c \in Workflows, TerminalNotify(c)
    PROVE  Idles
<1>1. Caller(c) \in Workflows
  BY ChildHasCaller, CallFacts DEF TerminalNotify, Caller
<1> DEFINE v == Caller(c)
           r == [wf[v] EXCEPT !.due = TRUE]
<1>2. TypeOK /\ wf[v] \in Row
  BY <1>1 DEF IInv, TypeOK
<1>3. /\ r \in Row /\ r.state = wf[v].state /\ r.direction = wf[v].direction
      /\ r.disposition = wf[v].disposition /\ r.trigger = wf[v].trigger /\ r.owner = wf[v].owner
  BY <1>2 DEF Row
<1>4. wf' = [wf EXCEPT ![v] = r] /\ UNCHANGED <<rows, published>>
  BY DEF TerminalNotify
<1> HIDE DEF r, v
<1>5. wf' \in [Workflows -> Row] /\ wf'[v] = r /\ \A u \in Workflows \ {v} : wf'[u] = wf[u]
  BY <1>1, <1>2, <1>3, <1>4, WriteRow DEF v
<1>6. TypeOK'
  BY <1>2, <1>4, <1>5 DEF TypeOK, rows
<1>7. ASSUME NEW u \in Workflows
      PROVE  Rests(u)
  BY <1>3, <1>4, <1>5 DEF Rests, SameLife, SameRows, rows
<1> QED
  BY <1>6, <1>7 DEF Idles

LEMMA OperationRequestStep ==
    ASSUME IInv, NEW w \in Workflows, NEW x \in Executors, NEW t \in Steps,
           OperationRequest(w, x, wf[w].fence, t), ~ IsCall(w, t)
    PROVE  Alone(w)
<1>1. Shape(w)
  BY CurrentFence, OperationRequestShape
<1>2. wf[w].state = "forward" /\ UNCHANGED <<wf, cp>> /\ op' = [op EXCEPT ![w][t] = "requested"]
  BY DEF OperationRequest, Holds, SetOperation
<1>3. \A s \in Steps : s # t => op'[w][s] = op[w][s]
  BY <1>2, CurrentFence DEF TypeOK
<1>4. Blamed(w)'
  BY <1>2 DEF Blamed
<1> QED
  BY <1>1, <1>2, <1>3, <1>4, CallFacts DEF Alone, Awaits

LEMMA OperationSettleStep ==
    ASSUME IInv, NEW w \in Workflows, NEW x \in Executors, NEW t \in Steps, NEW final \in BOOLEAN,
           OperationSettle(w, x, wf[w].fence, t, final),
           IsCall(w, t) => wf[Callee[w][t]].state = "completed"
    PROVE  Alone(w)
<1>1. Shape(w)
  BY CurrentFence, OperationSettleShape
<1>2. /\ wf[w].state = "forward" /\ op[w][t] = "requested"
      /\ op' = [op EXCEPT ![w][t] = "succeeded"]
      /\ cp' = [cp EXCEPT ![w][t] = "active"]
  BY DEF OperationSettle, Holds, Settled, SetOperation, SetCheckpoint
<1>3. /\ op'[w][t] = "succeeded" /\ cp'[w][t] = "active"
      /\ \A s \in Steps : s # t => op'[w][s] = op[w][s] /\ cp'[w][s] = cp[w][s]
  BY <1>2, CurrentFence DEF TypeOK
<1>4. wf'[w].trigger = wf[w].trigger /\ wf'[w].state \in {"forward", "completed"}
  <2>1. CASE final
    <3> DEFINE r == [ClearLease(wf[w]) EXCEPT !.state = "completed", !.disposition = "completed"]
    <3>1. r.trigger = wf[w].trigger /\ r.state = "completed"
      BY CurrentFence DEF TypeOK, Row, ClearLease
    <3>2. wf' = [wf EXCEPT ![w] = r]
      BY <2>1 DEF OperationSettle, Settled
    <3> QED
      BY <3>1, <3>2, CurrentFence DEF TypeOK
  <2>2. CASE ~ final
    BY <1>2, <2>2 DEF OperationSettle, Settled
  <2> QED
    BY <2>1, <2>2
<1>5. Blamed(w)'
  BY <1>4 DEF Blamed
<1>6. \A s \in Steps : op[w][s] = "requested" => s = t
  BY <1>2, OneRequested
<1>7. \A s \in Steps : <<w, s>> \in Calls => IsCall(w, s)
  BY CallFacts
<1>8. "completed" \notin Open
  BY DEF Open
<1> QED
  BY <1>1, <1>2, <1>3, <1>4, <1>5, <1>6, <1>7, <1>8 DEF Alone, Awaits

(* Turning round: on the step that was under way, or on none. *)
LEMMA TurnStep ==
    ASSUME IInv, NEW w \in Workflows, NEW t \in {FailNode} \cup Steps, Shape(w),
           wf[w].state = "forward", wf'[w].trigger = t, UNCHANGED <<op, cp>>,
           \A s \in Steps : op[w][s] = "requested" => s = t,
           \A s \in Steps : s = t /\ IsCall(w, s) => wf[Callee[w][s]].state \in {"reversed", "failed"}
    PROVE  Alone(w)
<1>1. Blamed(w)'
  BY DEF Blamed
<1>2. \A s \in Steps : <<w, s>> \in Calls => IsCall(w, s)
  BY CallFacts
<1>3. "reversed" \notin Open /\ "failed" \notin Open
  BY DEF Open
<1> QED
  BY <1>1, <1>2, <1>3 DEF Alone, Awaits

LEMMA BeginReversalStep ==
    ASSUME IInv, NEW w \in Workflows, NEW x \in Executors, NEW t \in Steps,
           BeginReversal(w, x, wf[w].fence, t),
           IsCall(w, t) => wf[Callee[w][t]].state \in {"reversed", "failed"}
    PROVE  Alone(w)
<1>1. Shape(w)
  BY CurrentFence, BeginReversalShape
<1>2. wf'[w].trigger = t
  BY CurrentFence, StartUnwindFacts DEF BeginReversal, Becomes
<1>3. wf[w].state = "forward" /\ op[w][t] = "requested" /\ UNCHANGED <<op, cp>>
  BY DEF BeginReversal, Holds, MayTrigger, rows
<1>4. \A s \in Steps : op[w][s] = "requested" => s = t
  BY <1>3, OneRequested
<1> QED
  BY <1>1, <1>2, <1>3, <1>4, TurnStep

LEMMA AuthoredFailStep ==
    ASSUME IInv, NEW w \in Workflows, NEW x \in Executors,
           AuthoredFail(w, x, wf[w].fence), AllDone(w)
    PROVE  Alone(w)
<1>1. Shape(w)
  BY CurrentFence, AuthoredFailShape
<1>2. wf'[w].trigger = FailNode
  BY CurrentFence, StartUnwindFacts DEF AuthoredFail, Becomes
<1>3. wf[w].state = "forward" /\ UNCHANGED <<op, cp>>
  BY DEF AuthoredFail, Holds, rows
<1>4. \A s \in Steps : op[w][s] # "requested"
  <2>1. \A s \in Steps : op[w][s] # "none" => s \in Plan(w)
    BY StepFacts DEF IInv, LInv, FollowsPlan, Plan, Steps
  <2> QED
    BY <2>1 DEF AllDone
<1>5. FailNode \notin Steps
  BY StepFacts
<1> QED
  BY <1>1, <1>2, <1>3, <1>4, <1>5, TurnStep

(* Writing one checkpoint of an unwind. *)
LEMMA UnwindStep ==
    ASSUME IInv, NEW w \in Workflows, NEW t \in Steps,
           NEW status \in {"dispatched", "reversed", "unresolved"}, Shape(w),
           wf[w].state = "reversing", wf'[w].trigger = wf[w].trigger, UNCHANGED op,
           UNCHANGED cp \/ cp' = [cp EXCEPT ![w][t] = status], op[w][t] = "succeeded",
           IsCall(w, t) => status = "reversed" /\ wf[Callee[w][t]].state = "reversed",
           \A s \in Steps : <<w, s>> \in Calls /\ op[w][s] = "requested" =>
               wf[Callee[w][s]].state \notin Open
    PROVE  Alone(w)
<1>1. \A s \in Steps : cp'[w][s] # cp[w][s] => s = t /\ cp'[w][s] = status
  BY CurrentFence DEF TypeOK
<1>2. \A s \in Steps : <<w, s>> \in Calls => IsCall(w, s)
  BY CallFacts
<1> QED
  BY <1>1, <1>2 DEF Alone, Awaits

(* A call that was under way when its workflow turned round is settled.     *)
LEMMA NothingUnderWay ==
    ASSUME IInv, AllBlamed, AllLinked, NEW w \in Workflows, wf[w].state = "reversing",
           NEW s \in Steps, <<w, s>> \in Calls, op[w][s] = "requested"
    PROVE  wf[Callee[w][s]].state \notin Open
<1>1. wf[w].trigger = s
  BY DEF AllBlamed, Blamed
<1>2. Linked(w, s)
  <2>1. PICK p \in Calls : p = <<w, s>>
    OBVIOUS
  <2> QED
    BY <2>1 DEF AllLinked
<1> QED
  BY <1>1, <1>2 DEF Linked, Open

LEMMA ReverseRequestStep ==
    ASSUME IInv, AllBlamed, AllLinked, NEW w \in Workflows, NEW x \in Executors, NEW t \in Steps,
           ReverseRequest(w, x, wf[w].fence, t), ~ IsCall(w, t)
    PROVE  Alone(w)
<1>1. Shape(w)
  BY CurrentFence, ReverseRequestShape
<1>2. /\ wf[w].state = "reversing" /\ IsTop(w, t) /\ UNCHANGED <<wf, op>>
      /\ cp' = [cp EXCEPT ![w][t] = "dispatched"]
  BY DEF ReverseRequest, Holds, SetCheckpoint
<1>3. op[w][t] = "succeeded"
  BY <1>2, TopIsDone
<1> QED
  BY <1>1, <1>2, <1>3, NothingUnderWay, UnwindStep

LEMMA UndoFacts ==
    ASSUME IInv, NEW w \in Workflows, NEW t \in Steps, wf[w].state = "reversing", IsTop(w, t),
           SetCheckpoint(w, t, "reversed"), op' = op, missed' = missed,
           published' \in [Workflows -> 0 .. MaxClaims],
           IF IsLastActive(w, t)
           THEN wf' = [wf EXCEPT ![w] = [ClearLease(@) EXCEPT !.state = "reversed"]]
           ELSE UNCHANGED wf
    PROVE  Shape(w) /\ wf'[w].trigger = wf[w].trigger
<1>1. TypeOK /\ "reversed" \in CheckpointStates
  BY DEF IInv, CheckpointStates
<1>2. /\ wf' \in [Workflows -> Row]
      /\ \A v \in Workflows \ {w} : wf'[v] = wf[v]
      /\ wf'[w].trigger = wf[w].trigger
      /\ \/ Active(w) # {t} /\ SameLife(w)
         \/ /\ Active(w) = {t}
            /\ Becomes(w, "reversed", wf[w].direction, wf[w].disposition, wf[w].trigger)
            /\ wf'[w].owner = NoExecutor
  <2>1. CASE Active(w) = {t}
    <3> DEFINE r == [ClearLease(wf[w]) EXCEPT !.state = "reversed"]
    <3>1. wf[w] \in Row
      BY <1>1 DEF TypeOK
    <3>2. r \in Row /\ r.state = "reversed" /\ r.direction = wf[w].direction
                    /\ r.disposition = wf[w].disposition /\ r.trigger = wf[w].trigger
                    /\ r.owner = NoExecutor
      BY <3>1 DEF Row, ClearLease, States
    <3>3. wf' = [wf EXCEPT ![w] = r]
      BY <2>1 DEF IsLastActive
    <3> QED
      BY <1>1, <2>1, <3>2, <3>3, WriteRow DEF Becomes
  <2>2. CASE Active(w) # {t}
    BY <1>1, <2>2, KeepRow DEF IsLastActive, SameLife
  <2> QED
    BY <2>1, <2>2
<1>3. op'[w] = op[w] /\ cp'[w] = [cp[w] EXCEPT ![t] = "reversed"]
  BY <1>1, SetCheckpointFacts
<1>4. UndoMove(w, t)
  BY <1>2, <1>3 DEF UndoMove
<1> QED
  BY <1>1, <1>2, <1>4, SetCheckpointFacts DEF TypeOK, Shape, Same, Move

LEMMA ReverseSettleStep ==
    ASSUME IInv, AllBlamed, AllLinked, NEW w \in Workflows, NEW x \in Executors, NEW t \in Steps,
           \/ ReverseSettle(w, x, wf[w].fence, t) /\ ~ IsCall(w, t)
           \/ ChildSettle(w, x, wf[w].fence, t)
    PROVE  Alone(w)
<1>1. /\ wf[w].state = "reversing" /\ IsTop(w, t) /\ SetCheckpoint(w, t, "reversed")
      /\ op' = op /\ missed' = missed /\ Publish(w, wf[w].fence)
      /\ IF IsLastActive(w, t)
         THEN wf' = [wf EXCEPT ![w] = [ClearLease(@) EXCEPT !.state = "reversed"]]
         ELSE UNCHANGED wf
      /\ IsCall(w, t) => wf[Callee[w][t]].state = "reversed"
  BY DEF ReverseSettle, ChildSettle, Holds, HasCompensated
<1>2. published' \in [Workflows -> 0 .. MaxClaims]
  BY <1>1, CurrentFence, PublishType
<1>3. Shape(w) /\ wf'[w].trigger = wf[w].trigger
  BY <1>1, <1>2, UndoFacts
<1>4. op[w][t] = "succeeded" /\ cp' = [cp EXCEPT ![w][t] = "reversed"]
  BY <1>1, TopIsDone DEF SetCheckpoint
<1> QED
  BY <1>1, <1>3, <1>4, NothingUnderWay, UnwindStep

LEMMA ReverseBlockStep ==
    ASSUME IInv, AllBlamed, AllLinked, NEW w \in Workflows, NEW x \in Executors, NEW t \in Steps,
           ReverseBlock(w, x, wf[w].fence, t, "failed"), ~ IsCall(w, t)
    PROVE  Alone(w)
<1>1. Shape(w)
  BY CurrentFence, ReverseBlockShape
<1>2. /\ wf[w].state = "reversing" /\ IsTop(w, t) /\ UNCHANGED op
      /\ cp' = [cp EXCEPT ![w][t] = "unresolved"]
      /\ Block(w, wf[w].direction, "failed")
  BY DEF ReverseBlock, Holds, SetCheckpoint
<1>3. wf'[w].trigger = wf[w].trigger
  BY <1>2, CurrentFence DEF Block, ClearLease, TypeOK, Row
<1>4. op[w][t] = "succeeded"
  BY <1>2, TopIsDone
<1> QED
  BY <1>1, <1>2, <1>3, <1>4, NothingUnderWay, UnwindStep

LEMMA CheckpointReconcileDeferStep ==
    ASSUME IInv, AllBlamed, AllLinked, NEW w \in Workflows, NEW x \in Executors, NEW t \in Steps,
           CheckpointReconcileDefer(w, x, wf[w].fence, t), ~ IsCall(w, t)
    PROVE  Alone(w)
<1>1. Shape(w)
  BY CurrentFence, CheckpointReconcileDeferShape
<1>2. /\ wf[w].state = "reversing" /\ IsTop(w, t) /\ UNCHANGED op
      /\ UNCHANGED cp \/ cp' = [cp EXCEPT ![w][t] = "unresolved"]
      /\ Unlease(w, FALSE) \/ Block(w, wf[w].direction, "indeterminate")
  BY DEF CheckpointReconcileDefer, Holds, SetCheckpoint
<1>3. wf'[w].trigger = wf[w].trigger
  <2>1. wf[w].direction \in {"forward", "reverse"}
    BY CurrentFence DEF TypeOK, Row
  <2>2. SameLife(w) \/ Becomes(w, "blocked", wf[w].direction, "indeterminate", wf[w].trigger)
    BY <1>2, <2>1, CurrentFence, UnleaseFacts, BlockFacts
  <2> QED
    BY <2>2 DEF SameLife, Becomes
<1>4. op[w][t] = "succeeded"
  BY <1>2, TopIsDone
<1> QED
  BY <1>1, <1>2, <1>3, <1>4, NothingUnderWay, UnwindStep

LEMMA WorkflowReconcileDeferStep ==
    ASSUME IInv, NEW w \in Workflows, NEW x \in Executors, NEW t \in Steps,
           WorkflowReconcileDefer(w, x, wf[w].fence, t), ~ IsCall(w, t)
    PROVE  Alone(w)
<1>1. Shape(w)
  BY CurrentFence, WorkflowReconcileDeferShape
<1>2. /\ wf[w].state = "forward" /\ op[w][t] = "requested" /\ UNCHANGED <<op, cp>>
      /\ Unlease(w, FALSE) \/ Block(w, "forward", "indeterminate")
  BY DEF WorkflowReconcileDefer, Holds
<1>3. wf'[w].trigger = wf[w].trigger /\ wf'[w].state \in {"forward", "blocked"}
  <2>1. SameLife(w) \/ Becomes(w, "blocked", "forward", "indeterminate", wf[w].trigger)
    BY <1>2, CurrentFence, UnleaseFacts, BlockFacts
  <2> QED
    BY <1>2, <2>1 DEF SameLife, Becomes
<1>4. Blamed(w)'
  BY <1>3 DEF Blamed
<1>5. \A s \in Steps : <<w, s>> \in Calls => op[w][s] # "requested"
  BY <1>2, OneRequested, CallFacts
<1> QED
  BY <1>1, <1>2, <1>3, <1>4, <1>5 DEF Alone, Awaits

LEMMA CreateStep ==
    ASSUME IInv, NEW w \in Roots, Create(w)
    PROVE  Born(w)
<1>1. w \in Workflows
  BY DEF Roots
<1>2. Shape(w) /\ wf[w].state = "absent"
  BY <1>1, CreateShape DEF IInv, Create
<1> QED
  BY <1>2
  DEF Born, Shape, Move, LeaseMove, RequestMove, SettleMove, ParkMove, GiveUpMove, BindMove,
      UndoMove, StickMove, Claimable

LEMMA CallSubmitStep ==
    ASSUME IInv, AllLinked, NEW w \in Workflows, NEW s \in Steps, <<w, s>> \in Calls,
           NEW x \in Executors, CallSubmit(w, x, wf[w].fence, s)
    PROVE  Called(w, s)
<1> DEFINE c == Callee[w][s]
           r == [NoRow EXCEPT !.state = "forward", !.due = TRUE]
<1>1. TypeOK /\ c \in Workflows \ {w} /\ 0 \in 0 .. MaxClaims
  BY CallFacts, WorkflowAssumption DEF IInv
<1>2. /\ r \in Row /\ r.state = "forward" /\ r.direction = "forward" /\ r.disposition = "none"
      /\ r.trigger = NoTrigger
  BY <1>1 DEF Row, NoRow, States
<1>3. /\ wf' = [wf EXCEPT ![c] = r] /\ UNCHANGED <<cp, missed>>
      /\ SetOperation(w, s, "requested") /\ Publish(w, wf[w].fence)
      /\ wf[w].state = "forward" /\ op[w][s] = "none" /\ s <= PlanLength[w]
      /\ s > 1 => op[w][s - 1] = "succeeded"
  BY DEF CallSubmit, Holds
<1>4. wf[c].state = "absent"
  <2>1. PICK p \in Calls : p = <<w, s>>
    OBVIOUS
  <2>2. Linked(w, s)
    BY <2>1 DEF AllLinked
  <2> QED
    BY <1>3, <2>2 DEF Linked
<1> HIDE DEF r, c
<1>5. wf' \in [Workflows -> Row] /\ wf'[c] = r /\ \A v \in Workflows \ {c} : wf'[v] = wf[v]
  BY <1>1, <1>2, <1>3, WriteRow
<1>6. published' \in [Workflows -> 0 .. MaxClaims]
  BY <1>3, CurrentFence, PublishType
<1>7. /\ op' \in [Workflows -> [Steps -> {"none", "requested", "succeeded"}]]
      /\ op'[w] = [op[w] EXCEPT ![s] = "requested"]
      /\ \A v \in Workflows \ {w} : op'[v] = op[v]
  BY <1>1, <1>3, SetOperationFacts
<1>8. TypeOK'
  BY <1>1, <1>3, <1>5, <1>6, <1>7 DEF TypeOK
<1>9. RequestMove(w, s)
  BY <1>1, <1>3, <1>5, <1>7 DEF RequestMove, SameLife
<1>10. CreateMove(c)
  BY <1>1, <1>2, <1>3, <1>4, <1>5, <1>7 DEF CreateMove, Becomes, SameRows
<1>11. \A v \in Workflows \ {w, c} : Same(v)
  BY <1>3, <1>5, <1>7 DEF Same
<1> QED
  BY <1>8, <1>9, <1>10, <1>11 DEF Called, c

LEMMA ChildReopenStep ==
    ASSUME IInv, NEW w \in Workflows, NEW s \in Steps, <<w, s>> \in Calls,
           NEW x \in Executors, ChildReopen(w, x, wf[w].fence, s)
    PROVE  Reopened(w, s)
<1> DEFINE c == Callee[w][s]
           r == [wf[c] EXCEPT !.state = "reversing", !.direction = "reverse",
                              !.disposition = "failed", !.due = TRUE]
<1>1. TypeOK /\ c \in Workflows \ {w} /\ wf[c] \in Row
  BY CallFacts DEF IInv, TypeOK
<1>2. /\ r \in Row /\ r.state = "reversing" /\ r.direction = "reverse" /\ r.disposition = "failed"
      /\ r.trigger = wf[c].trigger
  BY <1>1 DEF Row, States
<1>3. /\ wf' = [wf EXCEPT ![c] = r] /\ UNCHANGED rows /\ Publish(w, wf[w].fence)
      /\ wf[w].state = "reversing" /\ IsTop(w, s)
      /\ wf[c].state = "completed" /\ Active(c) # {}
  BY DEF ChildReopen, Holds
<1> HIDE DEF r, c
<1>4. wf' \in [Workflows -> Row] /\ wf'[c] = r /\ \A v \in Workflows \ {c} : wf'[v] = wf[v]
  BY <1>1, <1>2, <1>3, WriteRow
<1>5. published' \in [Workflows -> 0 .. MaxClaims]
  BY <1>3, CurrentFence, PublishType
<1>6. TypeOK'
  BY <1>1, <1>3, <1>4, <1>5 DEF TypeOK, rows
<1>7. Becomes(c, "reversing", "reverse", "failed", wf[c].trigger) /\ SameRows(c)
  BY <1>2, <1>3, <1>4 DEF Becomes, SameRows, rows
<1>8. \A v \in Workflows \ {c} : Same(v)
  BY <1>3, <1>4 DEF Same, rows
<1> QED
  BY <1>3, <1>6, <1>7, <1>8 DEF Reopened, c

LEMMA UnchangedIdles ==
    ASSUME IInv, UNCHANGED engine
    PROVE  Idles
BY DEF engine, vars, IInv, TypeOK, Idles, Rests, SameLife, SameRows

-----------------------------------------------------------------------------
(* Drivers *)

(* A driver that is not idle is under way. *)
LEMMA BusyDriver ==
    ASSUME CInv, NEW x \in Executors, drv[x].at # "idle"
    PROVE  drv[x] \in Busy /\ Honest(drv[x]) /\ drv[x].w \in Workflows /\ drv[x].s \in Steps
<1>1. drv[x] \in Busy
  BY DEF CInv, DriversTyped, Idle
<1>2. \E d \in Busy : drv[x] = d /\ Honest(d)
  BY <1>1 DEF CInv, DriversHonest
<1> QED
  BY <1>1, <1>2 DEF Busy

(* What a driver has seen stays true while it rests. *)
LEMMA HonestLasts ==
    ASSUME Lasting, NEW d \in Busy, Honest(d)
    PROVE  Honest(d)'
<1>1. d.w \in Workflows /\ d.s \in Steps
  BY DEF Busy
<1>2. ASSUME AllDone(d.w)
      PROVE  AllDone(d.w)'
  <2>1. Plan(d.w) \subseteq Steps
    BY <1>1, StepFacts DEF Plan, Steps
  <2> QED
    BY <1>1, <1>2, <2>1 DEF AllDone, Lasting
<1>3. ASSUME IsCall(d.w, d.s), SawChild(d)
      PROVE  SawChild(d)'
  <2>1. PICK p \in Calls : p = <<d.w, d.s>>
    BY <1>1, <1>3, CallIs DEF Honest
  <2>2. Callee[d.w][d.s] \in Workflows
    BY <2>1, CallFacts
  <2>3. wf[Callee[d.w][d.s]].state = "completed" =>
           wf'[Callee[d.w][d.s]].state = "completed" \/ op'[d.w][d.s] = "succeeded"
    BY <2>1 DEF Lasting
  <2> QED
    BY <1>1, <1>3, <2>2, <2>3 DEF SawChild, Lasting
<1> QED
  BY <1>2, <1>3 DEF Honest

LEMMA OneDriverMoves ==
    ASSUME CInv, Lasting, NEW x \in Executors, NEW e \in Busy \cup {Idle},
           Goes(x, e), e \in Busy => Honest(e)'
    PROVE  DriversTyped' /\ DriversHonest'
<1>1. DriversTyped'
  BY DEF CInv, DriversTyped, Goes
<1>2. ASSUME NEW y \in Executors, NEW d \in Busy, drv'[y] = d
      PROVE  Honest(d)'
  <2>1. CASE y = x
    BY <1>2, <2>1 DEF CInv, DriversTyped, Goes
  <2>2. CASE y # x
    <3>1. drv[y] = d
      BY <1>2, <2>2 DEF CInv, DriversTyped, Goes
    <3> QED
      BY <3>1, HonestLasts DEF CInv, DriversHonest
  <2> QED
    BY <2>1, <2>2
<1> QED
  BY <1>1, <1>2 DEF DriversHonest

LEMMA NoDriverMoves ==
    ASSUME CInv, Lasting, UNCHANGED drv
    PROVE  DriversTyped' /\ DriversHonest'
<1>1. DriversTyped'
  BY DEF CInv, DriversTyped
<1>2. ASSUME NEW y \in Executors, NEW d \in Busy, drv'[y] = d
      PROVE  Honest(d)'
  BY <1>2, HonestLasts DEF CInv, DriversHonest
<1> QED
  BY <1>1, <1>2 DEF DriversHonest

LEMMA StoreKeeps ==
    ASSUME CInv, StoreStep, DriversTyped', DriversHonest'
    PROVE  CInv'
<1>1. IInv' /\ AllBlamed'
  BY StoreKeepsIInv, StoreKeepsBlame DEF CInv
<1>2. AllLinked'
  BY <1>1, StoreKeepsLinks DEF CInv
<1> QED
  BY <1>1, <1>2 DEF CInv

(* A step of the store that no driver takes. *)
LEMMA QuietKeeps ==
    ASSUME CInv, StoreStep, UNCHANGED drv
    PROVE  CInv'
BY StoreKeeps, StoreLasts, NoDriverMoves DEF CInv

(* A step of a driver, and what it knows afterwards. *)
LEMMA DriverKeeps ==
    ASSUME CInv, StoreStep, NEW x \in Executors, NEW e \in Busy \cup {Idle},
           Goes(x, e), e \in Busy => Honest(e)'
    PROVE  CInv'
BY StoreKeeps, StoreLasts, OneDriverMoves DEF CInv

LEMMA DriverStops ==
    ASSUME CInv, StoreStep, NEW x \in Executors, Stops(x)
    PROVE  CInv'
BY DriverKeeps DEF Stops, Idle, Busy

LEMMA NothingIsAStep ==
    ASSUME CInv, UNCHANGED engine
    PROVE  StoreStep
BY UnchangedIdles DEF CInv, StoreStep

LEMMA ChoosingIsHonest ==
    ASSUME NEW d, d.w \in Workflows, NEW dir \in {"forward", "reverse"}
    PROVE  Choosing(d, dir) \in Busy /\ Honest(Choosing(d, dir))'
<1> DEFINE e == Choosing(d, dir)
<1>1. 1 \in Steps /\ 1 <= PlanLength[d.w]
  BY StepFacts, WorkflowAssumption DEF Steps
<1>2. e \in Busy /\ e.at = "choose" /\ e.s = 1 /\ e.w = d.w
  BY <1>1 DEF Choosing, Idle, Busy
<1> QED
  BY <1>1, <1>2 DEF Honest

LEMMA ChoosingKeeps ==
    ASSUME CInv, StoreStep, NEW x \in Executors, NEW d, d.w \in Workflows,
           NEW dir \in {"forward", "reverse"}, Goes(x, Choosing(d, dir))
    PROVE  CInv'
BY ChoosingIsHonest, DriverKeeps

(* A driver takes what it has learned; of a call, it has seen the child. *)
LEMMA ActingKeeps ==
    ASSUME CInv, StoreStep, NEW x \in Executors, NEW d \in Busy, Honest(d),
           NEW got \in {"done", "rejected", "pending", "unknown"}, Goes(x, Acting(d, got)),
           IsCall(d.w, d.s) =>
               /\ got # "unknown"
               /\ got = "rejected" =>
                      d.dir = "forward" /\ wf'[Callee[d.w][d.s]].state \in {"reversed", "failed"}
               /\ got = "done" /\ d.dir = "forward" => wf'[Callee[d.w][d.s]].state = "completed"
    PROVE  CInv'
<1> DEFINE e == Acting(d, got)
<1>1. /\ e \in Busy /\ e.at = "act" /\ e.got = got
      /\ e.w = d.w /\ e.s = d.s /\ e.dir = d.dir
  BY DEF Acting, Busy
<1>2. IsCall(e.w, e.s) => SawChild(e)'
  BY <1>1 DEF SawChild
<1>3. Honest(e)'
  BY <1>1, <1>2 DEF Honest
<1> QED
  BY <1>1, <1>3, DriverKeeps

-----------------------------------------------------------------------------
(* The steps of the drives are steps of the store *)

LEMMA BindOperationStores ==
    ASSUME CInv, NEW x \in Executors, BindOperation(x)
    PROVE  StoreStep
<1>1. PICK d \in Busy : d = drv[x]
  BY BusyDriver DEF BindOperation
<1>2. d.w \in Workflows /\ d.s \in Steps /\ ~ IsCall(d.w, d.s)
  BY <1>1, BusyDriver DEF BindOperation, Honest
<1> QED
  BY <1>1, <1>2, OperationRequestStep, NothingIsAStep DEF BindOperation, CInv, StoreStep

LEMMA BindCompensationStores ==
    ASSUME CInv, NEW x \in Executors, BindCompensation(x)
    PROVE  StoreStep
<1>1. PICK d \in Busy : d = drv[x]
  BY BusyDriver DEF BindCompensation
<1>2. d.w \in Workflows /\ d.s \in Steps /\ ~ IsCall(d.w, d.s)
  BY <1>1, BusyDriver DEF BindCompensation, Honest
<1>3. ReverseRequest(d.w, x, wf[d.w].fence, d.s) \/ UNCHANGED engine
  BY <1>1 DEF BindCompensation
<1> QED
  BY <1>2, <1>3, ReverseRequestStep, NothingIsAStep DEF CInv, StoreStep

LEMMA SubmitCallStores ==
    ASSUME CInv, NEW x \in Executors, SubmitCall(x)
    PROVE  StoreStep
<1>1. PICK d \in Busy : d = drv[x]
  BY BusyDriver DEF SubmitCall
<1>2. Honest(d) /\ IsCall(d.w, d.s) /\ d.w \in Workflows /\ d.s \in Steps
  BY <1>1, BusyDriver DEF SubmitCall, Honest
<1>3. PICK p \in Calls : p = <<d.w, d.s>>
  BY <1>2, CallIs DEF Honest
<1>4. CASE CallSubmit(d.w, x, wf[d.w].fence, d.s)
  <2>1. Called(p[1], p[2])
    BY <1>2, <1>3, <1>4, CallSubmitStep DEF CInv
  <2> QED
    BY <2>1 DEF StoreStep
<1>5. CASE UNCHANGED engine
  BY <1>5, NothingIsAStep
<1> QED
  BY <1>1, <1>4, <1>5 DEF SubmitCall

LEMMA ReopenChildStores ==
    ASSUME CInv, NEW x \in Executors, ReopenChild(x)
    PROVE  StoreStep
<1>1. PICK d \in Busy : d = drv[x]
  BY BusyDriver DEF ReopenChild
<1>2. Honest(d) /\ IsCall(d.w, d.s) /\ d.w \in Workflows /\ d.s \in Steps
  BY <1>1, BusyDriver DEF ReopenChild, Honest
<1>3. PICK p \in Calls : p = <<d.w, d.s>>
  BY <1>2, CallIs DEF Honest
<1>4. CASE ChildReopen(d.w, x, wf[d.w].fence, d.s)
  <2>1. Reopened(p[1], p[2])
    BY <1>2, <1>3, <1>4, ChildReopenStep DEF CInv
  <2> QED
    BY <2>1 DEF StoreStep
<1>5. CASE UNCHANGED engine
  BY <1>5, NothingIsAStep
<1> QED
  BY <1>1, <1>4, <1>5 DEF ReopenChild

LEMMA SettleStores ==
    ASSUME CInv, NEW x \in Executors, Settle(x)
    PROVE  StoreStep
<1>1. PICK d \in Busy : d = drv[x]
  BY BusyDriver DEF Settle, Acts
<1>2. Honest(d) /\ d.w \in Workflows /\ d.s \in Steps
  BY <1>1, BusyDriver DEF Settle, Acts
<1>3. CASE UNCHANGED engine
  BY <1>3, NothingIsAStep
<1>4. ASSUME NEW final \in BOOLEAN, OperationSettle(d.w, x, wf[d.w].fence, d.s, final)
      PROVE  StoreStep
  <2>1. op[d.w][d.s] = "requested"
    BY <1>4 DEF OperationSettle
  <2>2. IsCall(d.w, d.s) => wf[Callee[d.w][d.s]].state = "completed"
    BY <1>1, <1>2, <2>1 DEF Settle, Acts, Honest, SawChild
  <2> QED
    BY <1>2, <1>4, <2>2, OperationSettleStep DEF CInv, StoreStep
<1>5. (d.s = PlanLength[d.w] /\ ending[d.w] = "return") \in BOOLEAN
  OBVIOUS
<1> QED
  BY <1>1, <1>3, <1>4, <1>5 DEF Settle

LEMMA RejectStores ==
    ASSUME CInv, NEW x \in Executors, Reject(x)
    PROVE  StoreStep
<1>1. PICK d \in Busy : d = drv[x]
  BY BusyDriver DEF Reject, Acts
<1>2. Honest(d) /\ d.w \in Workflows /\ d.s \in Steps
  BY <1>1, BusyDriver DEF Reject, Acts
<1>3. CASE UNCHANGED engine
  BY <1>3, NothingIsAStep
<1>4. CASE BeginReversal(d.w, x, wf[d.w].fence, d.s)
  <2>1. IsCall(d.w, d.s) => wf[Callee[d.w][d.s]].state \in {"reversed", "failed"}
    BY <1>1, <1>2 DEF Reject, Acts, Honest, SawChild
  <2> QED
    BY <1>2, <1>4, <2>1, BeginReversalStep DEF CInv, StoreStep
<1> QED
  BY <1>1, <1>3, <1>4 DEF Reject

LEMMA FailStepStores ==
    ASSUME CInv, NEW x \in Executors, FailStep(x)
    PROVE  StoreStep
<1>1. PICK d \in Busy : d = drv[x]
  BY BusyDriver DEF FailStep
<1>2. AllDone(d.w) /\ d.w \in Workflows
  BY <1>1, BusyDriver DEF FailStep, Honest
<1> QED
  BY <1>1, <1>2, AuthoredFailStep, NothingIsAStep DEF FailStep, CInv, StoreStep

LEMMA SettleReverseStores ==
    ASSUME CInv, NEW x \in Executors, SettleReverse(x)
    PROVE  StoreStep
<1>1. PICK d \in Busy : d = drv[x]
  BY BusyDriver DEF SettleReverse, Acts
<1>2. d.w \in Workflows /\ d.s \in Steps
  BY <1>1, BusyDriver DEF SettleReverse, Acts
<1>3. CASE UNCHANGED engine
  BY <1>3, NothingIsAStep
<1>4. CASE \/ ~ IsCall(d.w, d.s) /\ ReverseSettle(d.w, x, wf[d.w].fence, d.s)
           \/ ChildSettle(d.w, x, wf[d.w].fence, d.s)
  BY <1>2, <1>4, ReverseSettleStep DEF CInv, StoreStep
<1> QED
  BY <1>1, <1>3, <1>4 DEF SettleReverse, OnCall

LEMMA BlockStepStores ==
    ASSUME CInv, NEW x \in Executors, BlockStep(x)
    PROVE  StoreStep
<1>1. PICK d \in Busy : d = drv[x]
  BY BusyDriver DEF BlockStep, Acts
<1>2. d.w \in Workflows /\ d.s \in Steps /\ ~ IsCall(d.w, d.s)
  BY <1>1, BusyDriver DEF BlockStep, Acts, Honest, SawChild
<1> QED
  BY <1>1, <1>2, ReverseBlockStep DEF BlockStep, CInv, StoreStep

LEMMA MissStores ==
    ASSUME CInv, NEW x \in Executors, Miss(x)
    PROVE  StoreStep
<1>1. PICK d \in Busy : d = drv[x]
  BY BusyDriver DEF Miss
<1>2. d.w \in Workflows /\ d.s \in Steps /\ ~ IsCall(d.w, d.s)
  BY <1>1, BusyDriver DEF Miss, Honest, SawChild
<1>3. \/ WorkflowReconcileDefer(d.w, x, wf[d.w].fence, d.s)
      \/ CheckpointReconcileDefer(d.w, x, wf[d.w].fence, d.s)
  BY <1>1 DEF Miss
<1> QED
  BY <1>2, <1>3, WorkflowReconcileDeferStep, CheckpointReconcileDeferStep
  DEF CInv, StoreStep

LEMMA DeferStores ==
    ASSUME CInv, NEW x \in Executors, Defer(x)
    PROVE  StoreStep
<1>1. PICK d \in Busy : d = drv[x]
  BY BusyDriver DEF Defer
<1>2. d.w \in Workflows
  BY <1>1, BusyDriver DEF Defer
<1>3. PICK due \in BOOLEAN : Release(d.w, x, wf[d.w].fence, due)
  BY <1>1 DEF Defer
<1> QED
  BY <1>2, <1>3, ReleaseStep DEF CInv, StoreStep

LEMMA StoreAloneStores ==
    ASSUME CInv, NEW w \in Workflows, Submit(w) \/ BackOffEnds(w) \/ Lapses(w) \/ Notify(w)
    PROVE  StoreStep
BY CreateStep, DueStep, LapseStep, NotifyStep
DEF Submit, BackOffEnds, Lapses, Notify, CInv, StoreStep

(* Every step of the system is one of them. *)
LEMMA CallStepStores == CInv /\ [CallNext]_everything => StoreStep
<1> SUFFICES ASSUME CInv, [CallNext]_everything PROVE StoreStep
  OBVIOUS
<1>1. CASE \E w \in Workflows : Submit(w) \/ BackOffEnds(w) \/ Lapses(w) \/ Notify(w)
  BY <1>1, StoreAloneStores
<1>2. CASE \E x \in Executors, w \in Workflows : StartDrive(x, w)
  BY <1>2, StartDriveStep DEF CInv, StoreStep
<1>3. ASSUME NEW x \in Executors,
             ChooseForward(x) \/ ChooseReverse(x) \/ InspectChild(x) \/ CallRejected(x)
                 \/ FenceLost(x) \/ Crash(x)
      PROVE  StoreStep
  BY <1>3, NothingIsAStep
  DEF ChooseForward, ChooseReverse, InspectChild, CallRejected, FenceLost, Crash
<1>4. ASSUME NEW x \in Executors, Drives(x) \/ Crash(x)
      PROVE  StoreStep
  BY <1>3, <1>4, BindOperationStores, BindCompensationStores, SubmitCallStores, ReopenChildStores,
     SettleStores, RejectStores, FailStepStores, SettleReverseStores, BlockStepStores, MissStores,
     DeferStores
  DEF Drives
<1>5. CASE UNCHANGED everything
  BY <1>5, NothingIsAStep DEF everything
<1> QED
  BY <1>1, <1>2, <1>4, <1>5 DEF CallNext

-----------------------------------------------------------------------------
(* The steps of a drive *)

LEMMA StartDriveKeeps ==
    ASSUME CInv, NEW x \in Executors, NEW w \in Workflows, StartDrive(x, w)
    PROVE  CInv'
<1>1. StoreStep
  BY StartDriveStep DEF CInv, StoreStep
<1>2. PICK dir \in {"forward", "reverse"} : Goes(x, Choosing([Idle EXCEPT !.w = w], dir))
  BY DEF StartDrive
<1>3. [Idle EXCEPT !.w = w].w \in Workflows
  BY DEF Idle
<1> QED
  BY <1>1, <1>2, <1>3, ChoosingKeeps

LEMMA ChooseForwardKeeps ==
    ASSUME CInv, NEW x \in Executors, ChooseForward(x)
    PROVE  CInv'
<1>1. PICK d \in Busy : d = drv[x]
  BY BusyDriver DEF ChooseForward
<1>2. d.w \in Workflows /\ Honest(d) /\ UNCHANGED engine /\ StoreStep
  BY <1>1, BusyDriver, NothingIsAStep DEF ChooseForward
<1>3. ASSUME NEW s \in NextStep(d.w),
             Goes(x, [d EXCEPT !.at = IF IsCall(d.w, s) THEN "submit" ELSE "bind", !.s = s])
      PROVE  CInv'
  <2> DEFINE e == [d EXCEPT !.at = IF IsCall(d.w, s) THEN "submit" ELSE "bind", !.s = s]
  <2>1. s \in Steps /\ s <= PlanLength[d.w]
    BY <1>2, StepFacts DEF NextStep, Unsettled, Plan, Steps
  <2>2. /\ e \in Busy /\ e.w = d.w /\ e.s = s
        /\ e.at = IF IsCall(d.w, s) THEN "submit" ELSE "bind"
    BY <2>1 DEF Busy
  <2>3. Honest(e)'
    BY <2>1, <2>2 DEF Honest
  <2> QED
    BY <1>2, <1>3, <2>2, <2>3, DriverKeeps
<1>4. CASE Unsettled(d.w) = {} /\ Goes(x, [d EXCEPT !.at = "fail"])
  <2> DEFINE e == [d EXCEPT !.at = "fail"]
  <2>1. e \in Busy /\ e.w = d.w /\ e.s = d.s /\ e.at = "fail"
    BY DEF Busy
  <2>2. AllDone(d.w)'
    BY <1>2, <1>4 DEF Unsettled, AllDone, engine, vars
  <2>3. Honest(e)'
    BY <1>2, <2>1, <2>2 DEF Honest
  <2> QED
    BY <1>2, <1>4, <2>1, <2>3, DriverKeeps
<1>5. CASE Goes(x, Idle)
  BY <1>2, <1>5, DriverStops DEF Stops
<1> QED
  BY <1>1, <1>3, <1>4, <1>5 DEF ChooseForward

LEMMA ChooseReverseKeeps ==
    ASSUME CInv, NEW x \in Executors, ChooseReverse(x)
    PROVE  CInv'
<1>1. PICK d \in Busy : d = drv[x]
  BY BusyDriver DEF ChooseReverse
<1>2. d.w \in Workflows /\ Honest(d) /\ UNCHANGED engine /\ StoreStep
  BY <1>1, BusyDriver, NothingIsAStep DEF ChooseReverse
<1>3. CASE Goes(x, Acting(d, "pending"))
  BY <1>2, <1>3, ActingKeeps
<1>4. ASSUME NEW s \in ReverseHead(d.w),
             Goes(x, [d EXCEPT !.at = IF IsCall(d.w, s) THEN "reopen" ELSE "bind", !.s = s])
      PROVE  CInv'
  <2> DEFINE e == [d EXCEPT !.at = IF IsCall(d.w, s) THEN "reopen" ELSE "bind", !.s = s]
  <2>1. s \in Steps /\ s <= PlanLength[d.w]
    BY <1>2, TopIsDone DEF ReverseHead, CInv
  <2>2. /\ e \in Busy /\ e.w = d.w /\ e.s = s
        /\ e.at = IF IsCall(d.w, s) THEN "reopen" ELSE "bind"
    BY <2>1 DEF Busy
  <2>3. Honest(e)'
    BY <2>1, <2>2 DEF Honest
  <2> QED
    BY <1>2, <1>4, <2>2, <2>3, DriverKeeps
<1> QED
  BY <1>1, <1>3, <1>4 DEF ChooseReverse

LEMMA BindOperationKeeps ==
    ASSUME CInv, NEW x \in Executors, BindOperation(x)
    PROVE  CInv'
<1>1. PICK d \in Busy : d = drv[x]
  BY BusyDriver DEF BindOperation
<1>2. d.w \in Workflows /\ d.s \in Steps /\ Honest(d) /\ ~ IsCall(d.w, d.s)
  BY <1>1, BusyDriver DEF BindOperation, Honest
<1>3. StoreStep
  BY BindOperationStores
<1>4. PICK got \in {"done", "rejected", "pending", "unknown"} : Goes(x, Acting(d, got))
  BY <1>1 DEF BindOperation, Asks
<1> QED
  BY <1>2, <1>3, <1>4, ActingKeeps

LEMMA BindCompensationKeeps ==
    ASSUME CInv, NEW x \in Executors, BindCompensation(x)
    PROVE  CInv'
<1>1. PICK d \in Busy : d = drv[x]
  BY BusyDriver DEF BindCompensation
<1>2. d.w \in Workflows /\ d.s \in Steps /\ Honest(d) /\ ~ IsCall(d.w, d.s)
  BY <1>1, BusyDriver DEF BindCompensation, Honest
<1>3. StoreStep
  BY BindCompensationStores
<1>4. \/ Goes(x, Choosing(d, "reverse"))
      \/ \E got \in {"done", "rejected", "pending", "unknown"} : Goes(x, Acting(d, got))
  BY <1>1 DEF BindCompensation, Asks
<1> QED
  BY <1>2, <1>3, <1>4, ActingKeeps, ChoosingKeeps

(* A driver goes on to look at the child. *)
LEMMA InspectingKeeps ==
    ASSUME CInv, StoreStep, NEW x \in Executors, NEW d \in Busy, Honest(d), IsCall(d.w, d.s),
           Goes(x, [d EXCEPT !.at = "inspect"])
    PROVE  CInv'
<1> DEFINE e == [d EXCEPT !.at = "inspect"]
<1>1. e \in Busy /\ e.w = d.w /\ e.s = d.s /\ e.at = "inspect"
  BY DEF Busy
<1>2. Honest(e)'
  BY <1>1 DEF Honest
<1> QED
  BY <1>1, <1>2, DriverKeeps

LEMMA SubmitCallKeeps ==
    ASSUME CInv, NEW x \in Executors, SubmitCall(x)
    PROVE  CInv'
<1>1. PICK d \in Busy : d = drv[x]
  BY BusyDriver DEF SubmitCall
<1>2. Honest(d) /\ IsCall(d.w, d.s) /\ d.w \in Workflows /\ d.s \in Steps
  BY <1>1, BusyDriver DEF SubmitCall, Honest
<1>3. Goes(x, [d EXCEPT !.at = "inspect"])
  BY <1>1 DEF SubmitCall
<1> QED
  BY <1>2, <1>3, SubmitCallStores, InspectingKeeps

LEMMA ReopenChildKeeps ==
    ASSUME CInv, NEW x \in Executors, ReopenChild(x)
    PROVE  CInv'
<1>1. PICK d \in Busy : d = drv[x]
  BY BusyDriver DEF ReopenChild
<1>2. Honest(d) /\ IsCall(d.w, d.s) /\ d.w \in Workflows /\ d.s \in Steps
  BY <1>1, BusyDriver DEF ReopenChild, Honest
<1>3. Goes(x, [d EXCEPT !.at = "inspect"])
  BY <1>1 DEF ReopenChild
<1> QED
  BY <1>2, <1>3, ReopenChildStores, InspectingKeeps

LEMMA InspectChildKeeps ==
    ASSUME CInv, NEW x \in Executors, InspectChild(x)
    PROVE  CInv'
<1>1. PICK d \in Busy : d = drv[x]
  BY BusyDriver DEF InspectChild
<1>2. Honest(d) /\ UNCHANGED wf /\ StoreStep
  BY <1>1, BusyDriver, NothingIsAStep DEF InspectChild, engine, vars
<1> DEFINE got == IF d.dir = "forward" THEN SeenForward(d) ELSE SeenReverse(d)
<1>3. Goes(x, Acting(d, got))
  BY <1>1 DEF InspectChild
<1>4. /\ got \in {"done", "rejected", "pending"}
      /\ got = "rejected" => d.dir = "forward" /\ wf[Callee[d.w][d.s]].state \in {"reversed", "failed"}
      /\ got = "done" /\ d.dir = "forward" => wf[Callee[d.w][d.s]].state = "completed"
  BY DEF SeenForward, SeenReverse
<1> HIDE DEF got
<1> QED
  BY <1>2, <1>3, <1>4, ActingKeeps

LEMMA SettleKept ==
    ASSUME CInv, NEW x \in Executors, Settle(x)
    PROVE  CInv'
<1>1. PICK d \in Busy : d = drv[x]
  BY BusyDriver DEF Settle, Acts
<1>2. Honest(d) /\ d.w \in Workflows /\ d.s \in Steps
  BY <1>1, BusyDriver DEF Settle, Acts
<1>3. StoreStep
  BY SettleStores
<1>4. Goes(x, Choosing(d, "forward"))
  BY <1>1 DEF Settle
<1> QED
  BY <1>2, <1>3, <1>4, ChoosingKeeps

LEMMA AfterUnwindKeeps ==
    ASSUME CInv, StoreStep, NEW x \in Executors, drv[x].w \in Workflows, AfterUnwindBegan(x, drv[x].w)
    PROVE  CInv'
BY ChoosingKeeps, DriverStops DEF AfterUnwindBegan

LEMMA RejectKeeps ==
    ASSUME CInv, NEW x \in Executors, Reject(x)
    PROVE  CInv'
<1>1. PICK d \in Busy : d = drv[x]
  BY BusyDriver DEF Reject, Acts
<1>2. d.w \in Workflows
  BY <1>1, BusyDriver DEF Reject, Acts
<1> QED
  BY <1>1, <1>2, RejectStores, AfterUnwindKeeps DEF Reject

LEMMA FailStepKeeps ==
    ASSUME CInv, NEW x \in Executors, FailStep(x)
    PROVE  CInv'
<1>1. PICK d \in Busy : d = drv[x]
  BY BusyDriver DEF FailStep
<1>2. d.w \in Workflows
  BY <1>1, BusyDriver DEF FailStep
<1> QED
  BY <1>1, <1>2, FailStepStores, AfterUnwindKeeps DEF FailStep

LEMMA SettleReverseKeeps ==
    ASSUME CInv, NEW x \in Executors, SettleReverse(x)
    PROVE  CInv'
<1>1. PICK d \in Busy : d = drv[x]
  BY BusyDriver DEF SettleReverse, Acts
<1>2. d.w \in Workflows
  BY <1>1, BusyDriver DEF SettleReverse, Acts
<1>3. Stops(x) \/ Goes(x, Choosing(d, "reverse"))
  BY <1>1 DEF SettleReverse
<1> QED
  BY <1>2, <1>3, SettleReverseStores, ChoosingKeeps, DriverStops

LEMMA BlockStepKeeps ==
    ASSUME CInv, NEW x \in Executors, BlockStep(x)
    PROVE  CInv'
BY BlockStepStores, DriverStops DEF BlockStep

LEMMA MissKeeps ==
    ASSUME CInv, NEW x \in Executors, Miss(x)
    PROVE  CInv'
BY MissStores, DriverStops DEF Miss

LEMMA DeferKeeps ==
    ASSUME CInv, NEW x \in Executors, Defer(x)
    PROVE  CInv'
BY DeferStores, DriverStops DEF Defer

LEMMA GivesUpKeeps ==
    ASSUME CInv, NEW x \in Executors, CallRejected(x) \/ FenceLost(x) \/ Crash(x)
    PROVE  CInv'
BY NothingIsAStep, DriverStops DEF CallRejected, FenceLost, Crash

LEMMA StoreAloneKeeps ==
    ASSUME CInv, NEW w \in Workflows, Submit(w) \/ BackOffEnds(w) \/ Lapses(w) \/ Notify(w)
    PROVE  CInv'
<1>1. UNCHANGED drv
  BY DEF Submit, BackOffEnds, Lapses, Notify
<1> QED
  BY <1>1, StoreAloneStores, QuietKeeps

-----------------------------------------------------------------------------
(* The invariant *)

LEMMA CallInitInv == CallInit => CInv
<1> SUFFICES ASSUME CallInit PROVE CInv
  OBVIOUS
<1>1. IInv
  BY InitInv DEF CallInit
<1>2. ASSUME NEW w \in Workflows
      PROVE  /\ wf[w].state = "absent" /\ wf[w].trigger = NoTrigger
             /\ \A s \in Steps : op[w][s] = "none" /\ cp[w][s] = "none"
  BY <1>2 DEF CallInit, Init, NoRow
<1>3. \A w \in Workflows : Blamed(w)
  BY <1>2 DEF Blamed
<1>4. ASSUME NEW p \in Calls
      PROVE  Linked(p[1], p[2])
  BY <1>2, CallFacts, StepFacts DEF Linked
<1>5. DriversTyped
  BY DEF CallInit, DriversTyped
<1>6. DriversHonest
  BY DEF CallInit, DriversHonest, Busy, Idle
<1> QED
  BY <1>1, <1>3, <1>4, <1>5, <1>6 DEF CInv, AllBlamed, AllLinked

LEMMA CallStepKeeps == CInv /\ [CallNext]_everything => CInv'
<1> SUFFICES ASSUME CInv, [CallNext]_everything PROVE CInv'
  OBVIOUS
<1>1. CASE \E w \in Workflows : Submit(w) \/ BackOffEnds(w) \/ Lapses(w) \/ Notify(w)
  BY <1>1, StoreAloneKeeps
<1>2. CASE \E x \in Executors, w \in Workflows : StartDrive(x, w)
  BY <1>2, StartDriveKeeps
<1>3. ASSUME NEW x \in Executors, Drives(x) \/ Crash(x)
      PROVE  CInv'
  BY <1>3, ChooseForwardKeeps, ChooseReverseKeeps, BindOperationKeeps, BindCompensationKeeps,
     SubmitCallKeeps, ReopenChildKeeps, InspectChildKeeps, SettleKept, RejectKeeps, FailStepKeeps,
     SettleReverseKeeps, BlockStepKeeps, MissKeeps, DeferKeeps, GivesUpKeeps
  DEF Drives
<1>4. CASE UNCHANGED everything
  BY <1>4, NothingIsAStep, QuietKeeps DEF everything
<1> QED
  BY <1>1, <1>2, <1>3, <1>4 DEF CallNext

(* The strengthened invariant holds in every reachable state. *)
THEOREM CallInvariance == CallSpec => []CInv
BY CallInitInv, CallStepKeeps, PTL DEF CallSpec

(* Calls leave the invariant of the procedures alone, though a call writes  *)
(* two rows and a reopening turns round a row that had ended: everything    *)
(* proved of one workflow holds of every workflow of a tree.                *)
THEOREM CallsKeepTheEngine == CallSpec => []IInv
<1>1. CInv => IInv
  BY DEF CInv
<1> QED
  BY <1>1, CallInvariance, PTL

(* However late a drive publishes what it saw, the record of a call fits    *)
(* what the child came to.                                                  *)
THEOREM CallsAgree == CallSpec => []CallAgreesWithChild
<1>1. CInv => CallAgreesWithChild
  BY DEF CInv, AllLinked, Linked, CallAgreesWithChild
<1> QED
  BY <1>1, CallInvariance, PTL

(* A called workflow that has not ended has a caller that waits for it.     *)
THEOREM NobodyIsOrphaned == CallSpec => []NoOrphans
<1>1. CInv => NoOrphans
  <2> SUFFICES ASSUME CInv, NEW c \in Workflows \ Roots, wf[c].state \in {"forward", "reversing", "blocked"}
               PROVE  WaitsAt(Caller(c), CallStep(c))
    BY DEF NoOrphans
  <2>1. PICK p \in Calls : p = CallOf(c)
    BY ChildHasCaller
  <2>2. Callee[Caller(c)][CallStep(c)] = c
    BY ChildHasCaller
  <2>3. Linked(Caller(c), CallStep(c))
    BY <2>1 DEF CInv, AllLinked, Caller, CallStep
  <2> QED
    BY <2>2, <2>3 DEF Linked
<1> QED
  BY <1>1, CallInvariance, PTL

(* What a caller came to is what its children came to: all completed, or    *)
(* none of which anything stands.                                           *)
OutcomeOfCalls ==
    \A p \in Calls :
        LET w == p[1]  c == Callee[w][p[2]]
        IN  /\ wf[w].state = "completed" => wf[c].state = "completed"
            /\ wf[w].state \in {"reversed", "failed"} => wf[c].state \in {"absent", "reversed", "failed"}

LEMMA OutcomeByInv == CInv => OutcomeOfCalls
<1> SUFFICES ASSUME CInv, NEW p \in Calls
             PROVE  LET w == p[1]  c == Callee[w][p[2]]
                    IN  /\ wf[w].state = "completed" => wf[c].state = "completed"
                        /\ wf[w].state \in {"reversed", "failed"} =>
                               wf[c].state \in {"absent", "reversed", "failed"}
  BY DEF OutcomeOfCalls
<1> DEFINE w == p[1]  s == p[2]  c == Callee[w][s]
<1>1. w \in Workflows /\ s \in Steps /\ s <= PlanLength[w]
  BY CallFacts
<1>2. FollowsPlan(w) /\ MeansItsState(w) /\ Blamed(w) /\ Linked(w, s) /\ TypeOK
  BY <1>1 DEF CInv, AllBlamed, AllLinked, IInv, LInv
<1>3. CASE wf[w].state = "completed"
  <2>1. s \in Active(w)
    BY <1>1, <1>2, <1>3, StepFacts DEF MeansItsState, Plan, Steps
  <2>2. op[w][s] = "succeeded" /\ cp[w][s] = "active"
    BY <1>1, <1>2, <2>1 DEF FollowsPlan, Active, Linked
  <2>3. ~ WaitsAt(w, s)
    BY <1>3 DEF WaitsAt
  <2> QED
    BY <1>2, <1>3, <2>2, <2>3 DEF Linked
<1>4. CASE wf[w].state \in {"reversed", "failed"}
  <2>1. cp[w][s] \in {"none", "reversed"}
    BY <1>1, <1>2, <1>4 DEF MeansItsState, Standing, TypeOK, CheckpointStates
  <2>2. cp[w][s] = "none" => op[w][s] \in {"none", "requested"}
    BY <1>1, <1>2 DEF FollowsPlan, TypeOK
  <2>3. op[w][s] = "requested" => wf[w].trigger = s
    BY <1>1, <1>2, <1>4 DEF Blamed
  <2> QED
    BY <1>2, <1>4, <2>1, <2>2, <2>3 DEF Linked
<1> QED
  BY <1>3, <1>4

(* Completed, and every child has completed; reversed or failed, and no     *)
(* child has an effect of its own that stands.                              *)
THEOREM CallsSettleTheOutcome == CallSpec => []OutcomeOfCalls
BY OutcomeByInv, CallInvariance, PTL

-----------------------------------------------------------------------------
(* Lines and trees *)

LEMMA LineIs ==
    ASSUME NEW w \in Workflows, NEW v
    PROVE  v \in Line[w] <=>
               /\ v \in Workflows
               /\ \A S \in SUBSET Workflows : w \in S /\ HasCallers(S) => v \in S
BY DEF Line

(* Induction along a line. *)
LEMMA LineBy ==
    ASSUME NEW w \in Workflows, NEW S \in SUBSET Workflows, w \in S, HasCallers(S)
    PROVE  Line[w] \subseteq S
BY LineIs

LEMMA LineStarts ==
    ASSUME NEW w \in Workflows
    PROVE  w \in Line[w] /\ Line[w] \in SUBSET Workflows
BY LineIs

LEMMA LineUp ==
    ASSUME NEW w \in Workflows, NEW p \in Calls, Callee[p[1]][p[2]] \in Line[w]
    PROVE  p[1] \in Line[w]
BY LineIs, CallFacts DEF HasCallers

LEMMA LineHasCallers ==
    ASSUME NEW w \in Workflows
    PROVE  HasCallers(Line[w])
BY LineUp DEF HasCallers

LEMMA LineTrans ==
    ASSUME NEW w \in Workflows, NEW v \in Line[w]
    PROVE  v \in Workflows /\ Line[v] \subseteq Line[w]
BY LineStarts, LineHasCallers, LineBy

(* Above a child is its caller, and what is above that. *)
LEMMA LineOfChild ==
    ASSUME NEW p \in Calls, NEW v \in Line[Callee[p[1]][p[2]]], v # Callee[p[1]][p[2]]
    PROVE  v \in Line[p[1]]
<1> DEFINE c == Callee[p[1]][p[2]]
           S == {c} \cup Line[p[1]]
<1>1. c \in Workflows /\ p[1] \in Workflows
  BY CallFacts
<1>2. S \in SUBSET Workflows /\ c \in S /\ p[1] \in S
  BY <1>1, LineStarts
<1>3. ASSUME NEW q \in Calls, Callee[q[1]][q[2]] \in S
      PROVE  q[1] \in S
  <2>1. CASE Callee[q[1]][q[2]] = c
    BY <1>2, <2>1, OneCaller
  <2>2. CASE Callee[q[1]][q[2]] \in Line[p[1]]
    BY <1>1, <2>2, LineUp
  <2> QED
    BY <1>3, <2>1, <2>2
<1>4. HasCallers(S)
  BY <1>3 DEF HasCallers
<1> QED
  BY <1>1, <1>2, <1>4, LineBy

LEMMA LineOfRoot ==
    ASSUME NEW r \in Roots
    PROVE  r \in Workflows /\ Line[r] = {r}
<1>1. r \in Workflows /\ {r} \in SUBSET Workflows
  BY DEF Roots
<1>2. HasCallers({r})
  BY RootIsNotCalled DEF HasCallers
<1> QED
  BY <1>1, <1>2, LineBy, LineStarts

(* Whoever is above w calls its way down to w. *)
LEMMA LineDown ==
    ASSUME NEW w \in Workflows, NEW v \in Line[w], v # w
    PROVE  \E q \in Calls : q[1] = v /\ Callee[q[1]][q[2]] \in Line[w]
<1> DEFINE S == {x \in Line[w] : x = w \/ \E q \in Calls : q[1] = x /\ Callee[q[1]][q[2]] \in Line[w]}
<1>1. S \in SUBSET Workflows /\ w \in S
  BY LineStarts
<1>2. HasCallers(S)
  BY LineUp DEF HasCallers
<1> QED
  BY <1>1, <1>2, LineBy

LEMMA TreeFacts ==
    ASSUME NEW r \in Roots
    PROVE  /\ r \in Workflows /\ r \in Tree[r]
           /\ \A w : w \in Tree[r] <=> w \in Workflows /\ r \in Line[w]
BY LineOfRoot DEF Tree

(* Induction from anywhere in a tree up to its root. *)
LEMMA TreeBy ==
    ASSUME NEW r \in Roots, NEW w \in Tree[r], NEW S \in SUBSET Workflows, w \in S, HasCallers(S)
    PROVE  r \in S
BY TreeFacts, LineBy

(* A caller is in the tree of its child, and the other way round. *)
LEMMA CallerInTree ==
    ASSUME NEW r \in Roots, NEW p \in Calls
    PROVE  p[1] \in Tree[r] <=> Callee[p[1]][p[2]] \in Tree[r]
<1> DEFINE c == Callee[p[1]][p[2]]
<1>1. c \in Workflows /\ p[1] \in Workflows /\ r # c
  BY CallFacts, RootIsNotCalled
<1>2. r \in Line[c] => r \in Line[p[1]]
  BY <1>1, LineOfChild
<1>3. r \in Line[p[1]] => r \in Line[c]
  BY <1>1, LineStarts, LineUp, LineTrans
<1> QED
  BY <1>1, <1>2, <1>3, TreeFacts

LEMMA TreeHasCallers ==
    ASSUME NEW r \in Roots
    PROVE  Tree[r] \in SUBSET Workflows /\ HasCallers(Tree[r])
BY TreeFacts, CallerInTree DEF HasCallers

LEMMA LineInTree ==
    ASSUME NEW r \in Roots, NEW w \in Tree[r]
    PROVE  w \in Workflows /\ Line[w] \subseteq Tree[r]
BY TreeFacts, TreeHasCallers, LineBy

LEMMA OneTree ==
    ASSUME NEW r \in Roots, NEW q \in Roots, NEW w \in Tree[r], w \in Tree[q]
    PROVE  r = q
<1>1. q \in Tree[r]
  BY TreeHasCallers, TreeBy
<1> QED
  BY <1>1, TreeFacts, LineOfRoot

(* Where the line of v leaves that of w. *)
LEMMA Branches ==
    ASSUME NEW r \in Roots, NEW w \in Tree[r], NEW v \in Tree[r], v \notin Line[w]
    PROVE  \E q \in Calls : /\ q[1] \in Line[w]
                            /\ Callee[q[1]][q[2]] \in Line[v]
                            /\ Callee[q[1]][q[2]] \notin Line[w]
<1> DEFINE S == {x \in Line[v] : x \notin Line[w]}
<1>1. v \in Workflows /\ w \in Workflows /\ r \in Line[w]
  BY TreeFacts
<1>2. S \in SUBSET Workflows /\ v \in S /\ r \notin S
  BY <1>1, LineStarts
<1>3. ~ HasCallers(S)
  BY <1>2, TreeBy
<1>4. PICK q \in Calls : Callee[q[1]][q[2]] \in S /\ q[1] \notin S
  BY <1>3 DEF HasCallers
<1> QED
  BY <1>1, <1>4, LineUp

-----------------------------------------------------------------------------
(* The order of the effects of a tree *)

LEMMA EffectFacts ==
    ASSUME NEW r \in Roots, NEW e
    PROVE  e \in Effects[r] <=> e \in Operations /\ e[1] \in Tree[r]
<1>1. e \in Operations => e[1] \in Workflows
  BY PlaceFacts DEF Operations, Planned
<1> QED
  BY <1>1, TreeFacts DEF Effects

LEMMA OperationFacts ==
    ASSUME NEW e \in Operations
    PROVE  /\ e = <<e[1], e[2]>> /\ e[1] \in Workflows /\ e[2] \in Steps
           /\ e[2] <= PlanLength[e[1]] /\ ~ IsCall(e[1], e[2])
<1>1. e = <<e[1], e[2]>> /\ e \in Planned /\ ~ IsCall(e[1], e[2])
  BY DEF Operations, Planned
<1> QED
  BY <1>1, PlaceFacts

LEMMA OperationIs ==
    ASSUME NEW w \in Workflows, NEW s \in Steps, s <= PlanLength[w], ~ IsCall(w, s)
    PROVE  <<w, s>> \in Operations
BY PlaceFacts DEF Operations

LEMMA UnderFacts ==
    ASSUME NEW u \in Workflows, NEW i \in Plan(u), NEW e \in Under(u, i)
    PROVE  /\ e \in Operations /\ i \in Steps /\ i <= PlanLength[u]
           /\ u \in Line[e[1]]
           /\ \/ ~ IsCall(u, i) /\ e = <<u, i>>
              \/ <<u, i>> \in Calls /\ Callee[u][i] \in Line[e[1]]
<1>1. e \in Operations /\ i \in Steps /\ i <= PlanLength[u]
  BY StepFacts DEF Under, Plan, Steps
<1>2. CASE IsCall(u, i)
  <2>1. PICK p \in Calls : p = <<u, i>>
    BY <1>1, <1>2, CallIs
  <2>2. Callee[u][i] \in Line[e[1]]
    BY <1>2 DEF Under
  <2> QED
    BY <1>1, <2>1, <2>2, OperationFacts, LineUp
<1>3. CASE ~ IsCall(u, i)
  <2>1. e = <<u, i>>
    BY <1>3 DEF Under
  <2> QED
    BY <1>1, <1>3, <2>1, LineStarts
<1> QED
  BY <1>2, <1>3

(* An effect below u is an effect within some step of u. *)
LEMMA UnderSome ==
    ASSUME NEW e \in Operations, NEW u \in Line[e[1]]
    PROVE  \E i \in Plan(u) : e \in Under(u, i)
<1>1. e = <<e[1], e[2]>> /\ e[1] \in Workflows /\ e[2] \in Plan(e[1]) /\ ~ IsCall(e[1], e[2])
  BY OperationFacts, StepFacts DEF Plan, Steps
<1>2. CASE u = e[1]
  BY <1>1, <1>2 DEF Under
<1>3. CASE u # e[1]
  <2>1. PICK q \in Calls : q[1] = u /\ Callee[q[1]][q[2]] \in Line[e[1]]
    BY <1>1, <1>3, LineDown
  <2>2. q[2] \in Plan(u) /\ IsCall(u, q[2])
    BY <2>1, CallFacts, StepFacts DEF Plan, Steps
  <2> QED
    BY <2>1, <2>2 DEF Under
<1> QED
  BY <1>2, <1>3

(* Any two effects of a tree come under different steps of some workflow.   *)
LEMMA Compared ==
    ASSUME NEW r \in Roots, NEW e \in Effects[r], NEW f \in Effects[r], e # f
    PROVE  \E u \in Workflows : \E i, j \in Plan(u) : i # j /\ f \in Under(u, i) /\ e \in Under(u, j)
<1>1. /\ e \in Operations /\ e[1] \in Tree[r] /\ e[1] \in Workflows
      /\ f \in Operations /\ f[1] \in Tree[r] /\ f[1] \in Workflows
  BY EffectFacts, OperationFacts
<1>2. CASE f[1] \in Line[e[1]]
  <2>1. PICK j \in Plan(f[1]) : e \in Under(f[1], j)
    BY <1>1, <1>2, UnderSome
  <2>2. f = <<f[1], f[2]>> /\ f[2] \in Plan(f[1]) /\ ~ IsCall(f[1], f[2])
    BY <1>1, OperationFacts, StepFacts DEF Plan, Steps
  <2>3. f \in Under(f[1], f[2])
    BY <1>1, <2>2 DEF Under
  <2>4. j # f[2]
    BY <2>1, <2>2 DEF Under
  <2> QED
    BY <1>1, <2>1, <2>2, <2>3, <2>4
<1>3. CASE f[1] \notin Line[e[1]]
  <2>1. PICK q \in Calls : /\ q[1] \in Line[e[1]]
                           /\ Callee[q[1]][q[2]] \in Line[f[1]]
                           /\ Callee[q[1]][q[2]] \notin Line[e[1]]
    BY <1>1, <1>3, Branches
  <2>2. q[1] \in Workflows /\ q[2] \in Plan(q[1]) /\ IsCall(q[1], q[2])
    BY CallFacts, StepFacts DEF Plan, Steps
  <2>3. f \in Under(q[1], q[2])
    BY <1>1, <2>1, <2>2 DEF Under
  <2>4. PICK j \in Plan(q[1]) : e \in Under(q[1], j)
    BY <1>1, <2>1, UnderSome
  <2>5. j # q[2]
    BY <2>1, <2>2, <2>4 DEF Under
  <2> QED
    BY <2>2, <2>3, <2>4, <2>5
<1> QED
  BY <1>2, <1>3

LEMMA EarlierIs ==
    ASSUME NEW e \in Operations, NEW f
    PROVE  f \in Earlier[e] <=>
               \E u \in Workflows : \E i, j \in Plan(u) : i < j /\ f \in Under(u, i) /\ e \in Under(u, j)
BY DEF Earlier, Under

(* What is planned before an effect is in the same tree. *)
LEMMA EarlierInTree ==
    ASSUME NEW r \in Roots, NEW e \in Effects[r], NEW f \in Earlier[e]
    PROVE  f \in Effects[r]
<1>1. e \in Operations /\ e[1] \in Tree[r]
  BY EffectFacts
<1>2. PICK u \in Workflows : \E i, j \in Plan(u) : f \in Under(u, i) /\ e \in Under(u, j)
  BY <1>1, EarlierIs
<1>3. u \in Line[e[1]] /\ u \in Line[f[1]] /\ f \in Operations
  BY <1>2, UnderFacts
<1>4. u \in Tree[r]
  BY <1>1, <1>3, LineInTree
<1>5. f[1] \in Workflows /\ r \in Line[f[1]]
  BY <1>3, <1>4, TreeFacts, OperationFacts, LineTrans
<1> QED
  BY <1>3, <1>5, TreeFacts, EffectFacts

-----------------------------------------------------------------------------
(* What the invariant says of a line *)

(* Nothing at all has been written of a workflow that does not exist. *)
LEMMA AbsentIsBare ==
    ASSUME IInv, NEW w \in Workflows, wf[w].state = "absent", NEW s \in Steps
    PROVE  op[w][s] = "none" /\ cp[w][s] = "none"
BY DEF IInv, LInv, NotUnwinding, FollowsPlan

LEMMA CallIsLinked ==
    ASSUME CInv, NEW p \in Calls
    PROVE  Linked(p[1], p[2])
BY DEF CInv, AllLinked

LEMMA AbsentCaller ==
    ASSUME CInv, NEW p \in Calls, wf[p[1]].state = "absent"
    PROVE  wf[Callee[p[1]][p[2]]].state = "absent"
<1>1. op[p[1]][p[2]] = "none"
  BY CallFacts, AbsentIsBare DEF CInv
<1> QED
  BY <1>1, CallIsLinked DEF Linked

(* Below a workflow that completed, all have; below one that ended without  *)
(* effect, or never was, nothing stands.                                    *)
Nothing == {"absent", "reversed", "failed"}

LEMMA BelowCompleted ==
    ASSUME CInv, NEW w \in Workflows, NEW v \in Line[w], wf[v].state = "completed"
    PROVE  wf[w].state = "completed"
<1> DEFINE S == {x \in Workflows : wf[x].state # "completed"}
<1>1. HasCallers(S)
  BY OutcomeByInv, CallFacts DEF HasCallers, OutcomeOfCalls
<1> QED
  BY <1>1, LineBy

LEMMA BelowNothing ==
    ASSUME CInv, NEW w \in Workflows, NEW v \in Line[w], wf[v].state \in Nothing
    PROVE  wf[w].state \in Nothing
<1> DEFINE S == {x \in Workflows : wf[x].state \notin Nothing}
<1>1. ASSUME NEW p \in Calls, wf[p[1]].state \in Nothing
      PROVE  wf[Callee[p[1]][p[2]]].state \in Nothing
  BY <1>1, OutcomeByInv, AbsentCaller DEF Nothing, OutcomeOfCalls
<1>2. HasCallers(S)
  BY <1>1, CallFacts DEF HasCallers
<1> QED
  BY <1>2, LineBy

LEMMA BelowAbsent ==
    ASSUME CInv, NEW w \in Workflows, NEW v \in Line[w], wf[v].state = "absent"
    PROVE  wf[w].state = "absent"
<1> DEFINE S == {x \in Workflows : wf[x].state # "absent"}
<1>1. HasCallers(S)
  BY AbsentCaller, CallFacts DEF HasCallers
<1> QED
  BY <1>1, LineBy

(* Above an open workflow all are open, and wait for it. *)
LEMMA OpenChild ==
    ASSUME CInv, NEW p \in Calls, wf[Callee[p[1]][p[2]]].state \in Open
    PROVE  WaitsAt(p[1], p[2]) /\ wf[p[1]].state \in {"forward", "reversing"}
BY CallIsLinked DEF Linked, Open, WaitsAt

LEMMA OpenLine ==
    ASSUME CInv, NEW w \in Workflows, wf[w].state \in Open, NEW v \in Line[w]
    PROVE  /\ wf[v].state \in Open
           /\ v # w => wf[v].state \in {"forward", "reversing"}
<1> DEFINE S == {x \in Workflows : wf[x].state \in Open}
<1>1. HasCallers(S)
  BY OpenChild, CallFacts DEF HasCallers, Open
<1>2. Line[w] \subseteq S
  BY <1>1, LineBy
<1>3. ASSUME v # w
      PROVE  wf[v].state \in {"forward", "reversing"}
  <2>1. PICK q \in Calls : q[1] = v /\ Callee[q[1]][q[2]] \in Line[w]
    BY <1>3, LineDown
  <2> QED
    BY <1>2, <2>1, OpenChild
<1> QED
  BY <1>2, <1>3

(* A workflow goes forward under workflows that all go forward. *)
LEMMA ForwardLine ==
    ASSUME CInv, NEW w \in Workflows, wf[w].state = "forward", NEW v \in Line[w]
    PROVE  wf[v].state = "forward"
<1> DEFINE S == {x \in Workflows : wf[x].state = "forward"}
<1>1. ASSUME NEW p \in Calls, wf[Callee[p[1]][p[2]]].state = "forward"
      PROVE  wf[p[1]].state = "forward"
  <2>1. WaitsAt(p[1], p[2])
    BY <1>1, OpenChild DEF Open
  <2>2. CASE wf[p[1]].state = "reversing" /\ IsTop(p[1], p[2])
    <3>1. op[p[1]][p[2]] = "succeeded"
      BY <2>2, CallFacts, TopIsDone DEF CInv
    <3>2. cp[p[1]][p[2]] = "active"
      BY <2>2, CallIsLinked DEF Linked, IsTop, Active
    <3> QED
      BY <1>1, <3>1, <3>2, CallIsLinked DEF Linked, HasTurned
  <2> QED
    BY <2>1, <2>2 DEF WaitsAt
<1>2. HasCallers(S)
  BY <1>1, CallFacts DEF HasCallers
<1> QED
  BY <1>2, LineBy

-----------------------------------------------------------------------------
(* How a tree ends *)

LEMMA OutcomeByTree == CInv => OutcomeOfTheTree
<1> SUFFICES ASSUME CInv, NEW r \in Roots, NEW w \in Tree[r]
             PROVE  /\ wf[r].state = "completed" => wf[w].state = "completed"
                    /\ wf[r].state \in {"reversed", "failed"} =>
                           wf[w].state \in {"absent", "reversed", "failed"}
  BY DEF OutcomeOfTheTree
<1>1. w \in Workflows /\ r \in Line[w]
  BY TreeFacts
<1> QED
  BY <1>1, BelowCompleted, BelowNothing DEF Nothing

(* The outcome of a submitted workflow is the outcome of everything it      *)
(* called, at any depth.                                                    *)
THEOREM TreeSettlesTheOutcome == CallSpec => []OutcomeOfTheTree
BY OutcomeByTree, CallInvariance, PTL

(* No workflow of a tree is open once the root has ended, or is blocked     *)
(* itself.                                                                  *)
LEMMA EndedTree ==
    ASSUME CInv, NEW r \in Roots, wf[r].state \in Final, NEW w \in Tree[r]
    PROVE  w \in Workflows /\ wf[w].state \notin {"forward", "reversing"}
<1>1. w \in Workflows /\ r \in Line[w] /\ r \in Workflows
  BY TreeFacts
<1> QED
  BY <1>1, OpenLine DEF Open, Final

LEMMA EndedTreeStays ==
    ASSUME CInv, StoreStep, NEW r \in Roots, wf[r].state \in Final, NEW w \in Tree[r]
    PROVE  SameRecord(w)
<1>1. w \in Workflows /\ wf[w].state \notin {"forward", "reversing"} /\ r \in Workflows /\ r \in Tree[r]
  BY EndedTree, TreeFacts
<1>2. CASE Idles
  BY <1>1, <1>2 DEF Idles, Rests, SameRecord
<1>3. ASSUME NEW v \in Workflows, Alone(v)
      PROVE  SameRecord(w)
  <2>1. CASE v = w
    BY <1>1, <1>3, <2>1 DEF Alone, Shape, Move, LeaseMove, CreateMove, RequestMove, SettleMove,
       ParkMove, GiveUpMove, BindMove, UndoMove, StickMove, Claimable
  <2>2. CASE v # w
    BY <1>1, <1>3, <2>2, SameIsSameRecord DEF Alone, Shape
  <2> QED
    BY <2>1, <2>2
<1>4. ASSUME NEW v \in Workflows, Born(v)
      PROVE  SameRecord(w)
  <2>1. v \in Roots /\ wf[v].state = "absent"
    BY <1>4 DEF Born, CreateMove
  <2>2. v # w
    <3>1. ASSUME v = w
          PROVE  v = r
      BY <2>1, <3>1, TreeFacts, OneTree
    <3> QED
      BY <2>1, <3>1 DEF Final
  <2> QED
    BY <1>1, <1>4, <2>2, SameIsSameRecord DEF Born, Shape
<1>5. ASSUME NEW p \in Calls, Called(p[1], p[2])
      PROVE  SameRecord(w)
  <2>1. wf[p[1]].state = "forward"
    BY <1>5 DEF Called, RequestMove
  <2>2. p[1] \notin Tree[r]
    BY <2>1, EndedTree
  <2>3. w # p[1] /\ w # Callee[p[1]][p[2]]
    BY <2>2, CallerInTree
  <2> QED
    BY <1>1, <1>5, <2>3, SameIsSameRecord DEF Called
<1>6. ASSUME NEW p \in Calls, Reopened(p[1], p[2])
      PROVE  SameRecord(w)
  <2>1. wf[p[1]].state = "reversing"
    BY <1>6 DEF Reopened
  <2>2. p[1] \notin Tree[r]
    BY <2>1, EndedTree
  <2>3. w # Callee[p[1]][p[2]]
    BY <2>2, CallerInTree
  <2> QED
    BY <1>1, <1>6, <2>3, SameIsSameRecord DEF Reopened
<1> QED
  BY <1>2, <1>3, <1>4, <1>5, <1>6 DEF StoreStep

(* Once the submitted workflow has ended or waits for a person, nothing     *)
(* that any workflow of its tree came to is changed.                        *)
THEOREM EndedTreesAreLeft == CallSpec => TreeStays
<1>1. CInv /\ [CallNext]_everything =>
         [\A r \in Roots : wf[r].state \in Final =>
             \A w \in Tree[r] :
                 <<wf'[w].state, op'[w], cp'[w]>> = <<wf[w].state, op[w], cp[w]>>]_everything
  BY CallStepStores, EndedTreeStays DEF SameRecord, SameLife, SameRows
<1> QED
  BY <1>1, CallInvariance, PTL DEF CallSpec, TreeStays

-----------------------------------------------------------------------------
(* What stands of the effects of a tree *)

Stands(r) == {e \in Effects[r] : e[2] \in Standing(e[1])}

LEMMA OneWait ==
    ASSUME CInv, NEW w \in Workflows, NEW i \in Steps, NEW j \in Steps, WaitsAt(w, i), WaitsAt(w, j)
    PROVE  i = j
BY OneRequested, OneTop DEF WaitsAt, CInv

LEMMA NothingStands ==
    ASSUME CInv, NEW w \in Workflows, wf[w].state \in Nothing
    PROVE  Standing(w) = {}
<1>1. MeansItsState(w)
  BY DEF CInv, IInv, LInv
<1>2. wf[w].state = "absent" => Standing(w) = {}
  BY AbsentIsBare DEF CInv, Standing
<1> QED
  BY <1>1, <1>2 DEF MeansItsState, Nothing

LEMMA AllStands ==
    ASSUME CInv, NEW e \in Operations, wf[e[1]].state = "completed"
    PROVE  e[2] \in Standing(e[1])
<1>1. e[1] \in Workflows /\ e[2] \in Steps /\ e[2] \in Plan(e[1])
  BY OperationFacts, StepFacts DEF Plan, Steps
<1>2. Active(e[1]) = Plan(e[1])
  BY <1>1 DEF CInv, IInv, LInv, MeansItsState
<1> QED
  BY <1>1, <1>2 DEF Active, Standing

(* Where a workflow waits for an operation, those above wait for it too. *)
LEMMA WaitsOnTheWay ==
    ASSUME CInv, NEW e \in Operations, WaitsAt(e[1], e[2]),
           NEW u \in Workflows, NEW j \in Plan(u), e \in Under(u, j)
    PROVE  WaitsAt(u, j)
<1>1. e[1] \in Workflows
  BY OperationFacts
<1>2. \/ ~ IsCall(u, j) /\ e = <<u, j>>
      \/ <<u, j>> \in Calls /\ Callee[u][j] \in Line[e[1]]
  BY UnderFacts
<1>3. CASE e = <<u, j>>
  BY <1>3
<1>4. ASSUME NEW p \in Calls, p = <<u, j>>, Callee[p[1]][p[2]] \in Line[e[1]]
      PROVE  WaitsAt(u, j)
  <2>1. wf[Callee[p[1]][p[2]]].state \in Open
    BY <1>1, <1>4, OpenLine DEF WaitsAt, Open
  <2> QED
    BY <1>4, <2>1, OpenChild
<1> QED
  BY <1>2, <1>3, <1>4

(* Of a workflow that waits, what comes before stands, what comes after     *)
(* does not.                                                                *)
LEMMA SidesOfTheWait ==
    ASSUME CInv, NEW w \in Workflows, NEW j \in Steps, WaitsAt(w, j)
    PROVE  /\ \A i \in Steps : i < j => op[w][i] = "succeeded" /\ cp[w][i] = "active"
           /\ \A i \in Steps : i > j =>
                  \/ op[w][i] = "none" /\ cp[w][i] = "none"
                  \/ op[w][i] = "requested" /\ cp[w][i] = "none" /\ wf[w].trigger = i
                  \/ op[w][i] = "succeeded" /\ cp[w][i] = "reversed"
<1>1. LInv(w) /\ FollowsPlan(w) /\ Blamed(w) /\ TypeOK
  BY DEF CInv, IInv, LInv, AllBlamed
<1>2. \A i \in Steps : op[w][i] \in {"none", "requested", "succeeded"}
  BY <1>1 DEF TypeOK
<1>3. CASE wf[w].state = "forward" /\ op[w][j] = "requested"
  <2>1. \A i \in Steps : cp[w][i] \in {"none", "active"}
    BY <1>1, <1>3 DEF LInv, NotUnwinding
  <2> QED
    BY <1>1, <1>3, <2>1 DEF FollowsPlan
<1>4. CASE wf[w].state = "reversing" /\ IsTop(w, j)
  <2>1. /\ \A r \in Steps : r < j => cp[w][r] = "active"
        /\ \A r \in Steps : r > j => cp[w][r] \in {"none", "reversed"}
    BY <1>1, <1>4, TopIsBoundary
  <2> QED
    BY <1>1, <1>2, <1>4, <2>1 DEF FollowsPlan, Blamed
<1> QED
  BY <1>3, <1>4 DEF WaitsAt

LEMMA BeforeTheWait ==
    ASSUME CInv, NEW w \in Workflows, NEW i \in Plan(w), NEW j \in Steps, i < j, WaitsAt(w, j)
    PROVE  /\ \A e \in Under(w, i) : e[2] \in Standing(e[1])
           /\ <<w, i>> \in Calls => wf[Callee[w][i]].state = "completed"
<1>1. i \in Steps
  BY StepFacts DEF Plan, Steps
<1>2. op[w][i] = "succeeded" /\ cp[w][i] = "active"
  BY <1>1, SidesOfTheWait
<1>3. ASSUME NEW p \in Calls, p = <<w, i>>
      PROVE  wf[Callee[w][i]].state = "completed"
  <2>1. Linked(w, i)
    BY <1>3, CallIsLinked
  <2>2. ~ WaitsAt(w, i)
    BY <1>1, OneWait, StepFacts
  <2> QED
    BY <1>2, <2>1, <2>2 DEF Linked
<1>4. ASSUME NEW e \in Under(w, i)
      PROVE  e[2] \in Standing(e[1])
  <2>1. /\ e \in Operations /\ e[1] \in Workflows
        /\ e = <<w, i>> \/ (<<w, i>> \in Calls /\ Callee[w][i] \in Line[e[1]])
    BY <1>4, UnderFacts, OperationFacts
  <2>2. CASE e = <<w, i>>
    BY <1>1, <1>2, <2>2 DEF Standing
  <2>3. CASE <<w, i>> \in Calls /\ Callee[w][i] \in Line[e[1]]
    BY <1>3, <2>1, <2>3, BelowCompleted, AllStands
  <2> QED
    BY <2>1, <2>2, <2>3
<1> QED
  BY <1>3, <1>4

LEMMA AfterTheWait ==
    ASSUME CInv, NEW w \in Workflows, NEW i \in Plan(w), NEW j \in Steps, i > j, WaitsAt(w, j)
    PROVE  /\ \A e \in Under(w, i) : e[2] \notin Standing(e[1])
           /\ wf[w].state = "forward" /\ <<w, i>> \in Calls => wf[Callee[w][i]].state = "absent"
<1>1. i \in Steps
  BY StepFacts DEF Plan, Steps
<1>2. \/ op[w][i] = "none" /\ cp[w][i] = "none"
      \/ op[w][i] = "requested" /\ cp[w][i] = "none" /\ wf[w].trigger = i
      \/ op[w][i] = "succeeded" /\ cp[w][i] = "reversed"
  BY <1>1, SidesOfTheWait
<1>3. ASSUME NEW p \in Calls, p = <<w, i>>
      PROVE  /\ wf[Callee[w][i]].state \in Nothing
             /\ wf[w].state = "forward" => wf[Callee[w][i]].state = "absent"
  <2>1. Linked(w, i)
    BY <1>3, CallIsLinked
  <2>2. wf[w].state = "forward" => wf[w].trigger # i /\ cp[w][i] # "reversed"
    BY <1>1, StepFacts DEF CInv, IInv, LInv, NotUnwinding
  <2> QED
    BY <1>2, <2>1, <2>2 DEF Linked, Nothing
<1>4. ASSUME NEW e \in Under(w, i)
      PROVE  e[2] \notin Standing(e[1])
  <2>1. /\ e \in Operations /\ e[1] \in Workflows
        /\ e = <<w, i>> \/ (<<w, i>> \in Calls /\ Callee[w][i] \in Line[e[1]])
    BY <1>4, UnderFacts, OperationFacts
  <2>2. CASE e = <<w, i>>
    BY <1>1, <1>2, <2>2 DEF Standing
  <2>3. CASE <<w, i>> \in Calls /\ Callee[w][i] \in Line[e[1]]
    BY <1>3, <2>1, <2>3, BelowNothing, NothingStands
  <2> QED
    BY <2>1, <2>2, <2>3
<1> QED
  BY <1>3, <1>4

(* When an operation is waited for, what is planned before it stands, and   *)
(* nothing else does.                                                       *)
LEMMA StandsAtTheWait ==
    ASSUME CInv, NEW r \in Roots, NEW e \in Effects[r], WaitsAt(e[1], e[2])
    PROVE  Stands(r) \ {e} = Earlier[e] /\ e \notin Earlier[e]
<1>1. e \in Operations
  BY EffectFacts
<1>2. ASSUME NEW u \in Workflows, NEW j \in Plan(u)
      PROVE  j \in Steps /\ (e \in Under(u, j) => WaitsAt(u, j))
  BY <1>1, <1>2, WaitsOnTheWay, StepFacts DEF Plan, Steps
<1>3. ASSUME NEW f \in Earlier[e]
      PROVE  f \in Stands(r) /\ f # e
  <2>1. PICK u \in Workflows : \E i, j \in Plan(u) : i < j /\ f \in Under(u, i) /\ e \in Under(u, j)
    BY <1>1, <1>3, EarlierIs
  <2>2. PICK i \in Plan(u), j \in Plan(u) : i < j /\ f \in Under(u, i) /\ e \in Under(u, j)
    BY <2>1
  <2>3. f[2] \in Standing(f[1])
    BY <1>2, <2>2, BeforeTheWait
  <2>4. f # e
    BY <1>2, <2>2, OneWait, StepFacts
  <2> QED
    BY <1>3, <2>3, <2>4, EarlierInTree DEF Stands
<1>4. ASSUME NEW f \in Stands(r), f # e
      PROVE  f \in Earlier[e]
  <2>1. f \in Effects[r] /\ f[2] \in Standing(f[1])
    BY DEF Stands
  <2>2. PICK u \in Workflows : \E i, j \in Plan(u) : i # j /\ f \in Under(u, i) /\ e \in Under(u, j)
    BY <1>4, <2>1, Compared
  <2>3. PICK i \in Plan(u), j \in Plan(u) : i # j /\ f \in Under(u, i) /\ e \in Under(u, j)
    BY <2>2
  <2>4. i \in Steps /\ j \in Steps /\ WaitsAt(u, j)
    BY <1>2, <2>3
  <2>5. ~ (i > j)
    BY <2>1, <2>3, <2>4, AfterTheWait
  <2>6. i < j
    BY <2>3, <2>4, <2>5, StepFacts
  <2> QED
    BY <1>1, <2>3, <2>6, EarlierIs
<1> QED
  BY <1>3, <1>4

(* What an ended tree has in place: everything, or nothing. *)
EndsMean ==
    \A r \in Roots :
        /\ wf[r].state = "completed" => Stands(r) = Effects[r]
        /\ wf[r].state \in {"reversed", "failed"} => Stands(r) = {}

LEMMA EndsMeanByInv == CInv => EndsMean
<1> SUFFICES ASSUME CInv, NEW r \in Roots
             PROVE  /\ wf[r].state = "completed" => Stands(r) = Effects[r]
                    /\ wf[r].state \in {"reversed", "failed"} => Stands(r) = {}
  BY DEF EndsMean
<1>1. ASSUME NEW e \in Effects[r]
      PROVE  e \in Operations /\ e[1] \in Tree[r] /\ e[1] \in Workflows
  BY EffectFacts, OperationFacts
<1>2. \A e \in Effects[r] :
         /\ wf[r].state = "completed" => wf[e[1]].state = "completed"
         /\ wf[r].state \in {"reversed", "failed"} => wf[e[1]].state \in Nothing
  BY <1>1, OutcomeByTree DEF OutcomeOfTheTree, Nothing
<1> QED
  BY <1>1, <1>2, AllStands, NothingStands DEF Stands

LEMMA EndsMeanNext == CInv' => EndsMean'
BY EndsMeanByInv, PTL

-----------------------------------------------------------------------------
(* Where the tree is at work *)

(* A workflow that goes on waits for no child any more. *)
LEMMA NoOpenChild ==
    ASSUME CInv, NEW w \in Workflows, Alone(w), NEW s \in Steps,
           \/ wf[w].state = "forward" /\ wf'[w].state # "forward"
           \/ SettleMove(w, s) \/ UndoMove(w, s) \/ StickMove(w, s),
           NEW p \in Calls, p[1] = w
    PROVE  wf[Callee[p[1]][p[2]]].state \notin Open
<1> DEFINE i == p[2]
<1> SUFFICES ASSUME wf[Callee[w][i]].state \in Open PROVE FALSE
  OBVIOUS
<1>1. i \in Steps /\ <<w, i>> \in Calls /\ TypeOK
  BY CallFacts DEF CInv, IInv
<1>2. WaitsAt(w, i)
  BY OpenChild
<1>3. /\ op'[w][i] # op[w][i] => wf[Callee[w][i]].state = "completed"
      /\ cp'[w][i] # cp[w][i] =>
             \/ cp'[w][i] = "active" /\ op[w][i] = "requested"
             \/ cp'[w][i] = "reversed" /\ wf[Callee[w][i]].state = "reversed"
      /\ op[w][i] = "requested" /\ wf'[w].state # wf[w].state => wf[Callee[w][i]].state \notin Open
  BY <1>1 DEF Alone, Awaits
<1>4. CASE wf[w].state = "forward" /\ wf'[w].state # "forward"
  BY <1>2, <1>3, <1>4 DEF WaitsAt
<1>5. CASE SettleMove(w, s)
  <2>1. i = s
    BY <1>1, <1>2, <1>5, OneRequested DEF SettleMove, WaitsAt, CInv
  <2>2. op'[w][i] = "succeeded" /\ op[w][i] = "requested"
    BY <1>1, <1>5, <2>1 DEF SettleMove, TypeOK
  <2> QED
    BY <1>3, <2>2 DEF Open
<1>6. CASE UndoMove(w, s) \/ StickMove(w, s)
  <2>1. i = s /\ cp[w][i] \in {"active", "dispatched"}
    BY <1>1, <1>2, <1>6, OneTop DEF UndoMove, StickMove, WaitsAt, IsTop, Active
  <2>2. cp[w] \in [Steps -> CheckpointStates]
    BY <1>1 DEF TypeOK
  <2>3. cp'[w][s] \in {"reversed", "unresolved"}
    BY <1>6, <2>2 DEF UndoMove, StickMove
  <2> QED
    BY <1>3, <2>1, <2>3 DEF Open
<1> QED
  BY <1>4, <1>5, <1>6

(* If nothing below w is open, all that is open in the tree is above w.     *)
LEMMA Deepest ==
    ASSUME CInv, NEW r \in Roots, NEW w \in Tree[r], wf[w].state \in Open,
           \A p \in Calls : p[1] = w => wf[Callee[p[1]][p[2]]].state \notin Open,
           NEW x \in Tree[r], wf[x].state \in Open
    PROVE  x \in Line[w] /\ (wf[x].state = "blocked" => x = w)
<1>1. w \in Workflows /\ x \in Workflows
  BY TreeFacts
<1>2. ASSUME x \notin Line[w]
      PROVE  FALSE
  <2>1. PICK q \in Calls : /\ q[1] \in Line[w]
                           /\ Callee[q[1]][q[2]] \in Line[x]
                           /\ Callee[q[1]][q[2]] \notin Line[w]
    BY <1>2, Branches
  <2>2. wf[Callee[q[1]][q[2]]].state \in Open
    BY <1>1, <2>1, OpenLine
  <2>3. q[1] # w
    BY <2>2
  <2>4. PICK q2 \in Calls : q2[1] = q[1] /\ Callee[q2[1]][q2[2]] \in Line[w]
    BY <1>1, <2>1, <2>3, LineDown
  <2>5. wf[Callee[q2[1]][q2[2]]].state \in Open
    BY <1>1, <2>4, OpenLine
  <2>6. WaitsAt(q[1], q[2]) /\ WaitsAt(q[1], q2[2])
    BY <2>2, <2>4, <2>5, OpenChild
  <2>7. q[2] = q2[2]
    BY <2>4, <2>6, CallFacts, OneWait
  <2> QED
    BY <2>1, <2>4, <2>7
<1> QED
  BY <1>1, <1>2, OpenLine

(* While a workflow goes forward, only within the step it is at can         *)
(* anything have turned round or be stuck.                                  *)
LEMMA AroundForward ==
    ASSUME CInv, NEW r \in Roots, NEW w \in Tree[r], wf[w].state = "forward",
           NEW x \in Tree[r], wf[x].state \notin {"absent", "forward", "completed"}
    PROVE  \E p \in Calls : p[1] = w /\ op[w][p[2]] = "requested" /\ Callee[p[1]][p[2]] \in Line[x]
<1>1. w \in Workflows /\ x \in Workflows
  BY TreeFacts
<1>2. x \notin Line[w]
  BY <1>1, ForwardLine
<1>3. PICK q \in Calls : /\ q[1] \in Line[w]
                         /\ Callee[q[1]][q[2]] \in Line[x]
                         /\ Callee[q[1]][q[2]] \notin Line[w]
  BY <1>2, Branches
<1>4. /\ wf[q[1]].state = "forward" /\ q[1] \in Workflows
      /\ wf[Callee[q[1]][q[2]]].state \notin {"absent", "completed"}
  BY <1>1, <1>3, ForwardLine, BelowAbsent, BelowCompleted, CallFacts
<1>5. CASE q[1] = w
  <2>1. Linked(q[1], q[2]) /\ q[2] \in Steps /\ IInv
    BY CallIsLinked, CallFacts DEF CInv
  <2>2. op[q[1]][q[2]] # "none"
    BY <1>4, <2>1 DEF Linked
  <2>3. op[q[1]][q[2]] # "succeeded"
    <3>1. ASSUME op[q[1]][q[2]] = "succeeded"
          PROVE  cp[q[1]][q[2]] = "active"
      BY <1>4, <2>1, <3>1 DEF IInv, LInv, FollowsPlan, NotUnwinding
    <3>2. ~ (op[q[1]][q[2]] = "succeeded" /\ WaitsAt(q[1], q[2]))
      BY <1>4 DEF WaitsAt
    <3> QED
      BY <1>4, <2>1, <3>1, <3>2 DEF Linked
  <2>4. op[q[1]][q[2]] = "requested"
    BY <1>4, <2>1, <2>2, <2>3 DEF IInv, TypeOK
  <2> QED
    BY <1>3, <1>5, <2>4
<1>6. CASE q[1] # w
  <2>1. PICK q2 \in Calls : q2[1] = q[1] /\ Callee[q2[1]][q2[2]] \in Line[w]
    BY <1>1, <1>3, <1>6, LineDown
  <2>2. WaitsAt(q[1], q2[2])
    BY <1>1, <2>1, ForwardLine, OpenChild DEF Open
  <2>3. /\ q[2] \in Plan(q[1]) /\ q[2] \in Steps /\ q2[2] \in Steps
        /\ <<q[1], q[2]>> \in Calls
    BY CallFacts, StepFacts DEF Plan, Steps
  <2>4. q[2] # q2[2]
    BY <1>3, <2>1
  <2>5. ~ (q[2] < q2[2])
    BY <1>4, <2>2, <2>3, BeforeTheWait
  <2>6. ~ (q[2] > q2[2])
    BY <1>4, <2>2, <2>3, AfterTheWait
  <2> QED
    BY <2>3, <2>4, <2>5, <2>6, StepFacts
<1> QED
  BY <1>5, <1>6

-----------------------------------------------------------------------------
(* What the saga of a tree sees of a step *)

Phase == [r \in Roots |-> TreePhase(r)]
Done == [r \in Roots |-> Stands(r)]

Kept(v) == wf'[v].state = wf[v].state /\ Standing(v)' = Standing(v)

LEMMA SameIsKept ==
    ASSUME NEW v \in Workflows, SameRecord(v)
    PROVE  Kept(v)
BY DEF SameRecord, SameLife, SameRows, Kept, Standing

LEMMA TreeKept ==
    ASSUME NEW r \in Roots, \A v \in Tree[r] : Kept(v)
    PROVE  TreePhase(r)' = TreePhase(r) /\ Stands(r)' = Stands(r)
<1>1. r \in Tree[r]
  BY TreeFacts
<1>2. \A states : SomeIn(r, states)' <=> SomeIn(r, states)
  BY DEF SomeIn, Kept
<1>3. TreePhase(r)' = TreePhase(r)
  BY <1>1, <1>2 DEF TreePhase, Kept
<1>4. \A e \in Effects[r] : e[1] \in Tree[r]
  BY EffectFacts
<1> QED
  BY <1>3, <1>4 DEF Stands, Kept

(* Nothing that a tree shows has changed. *)
LEMMA TreesRest ==
    ASSUME \A r \in Roots : \A v \in Tree[r] : Kept(v)
    PROVE  UNCHANGED TreePromise!vars
<1>1. \A r \in Roots : TreePhase(r)' = TreePhase(r) /\ Stands(r)' = Stands(r)
  BY TreeKept
<1> QED
  BY <1>1 DEF TreePromise!vars, Stands

(* A step within one tree writes the entries of that tree. *)
LEMMA TreeWrite ==
    ASSUME NEW r \in Roots, \A v \in Workflows \ Tree[r] : Kept(v)
    PROVE  /\ Phase' = [Phase EXCEPT ![r] = TreePhase(r)']
           /\ Done' = [Done EXCEPT ![r] = Stands(r)']
<1>1. ASSUME NEW q \in Roots, q # r
      PROVE  TreePhase(q)' = TreePhase(q) /\ Stands(q)' = Stands(q)
  <2>1. \A v \in Tree[q] : v \in Workflows \ Tree[r]
    BY <1>1, OneTree, TreeFacts
  <2> QED
    BY <2>1, TreeKept
<1> QED
  BY <1>1 DEF Phase, Done

LEMMA TreeMove ==
    ASSUME NEW r \in Roots, \A v \in Workflows \ Tree[r] : Kept(v),
           NEW from, NEW to, TreePhase(r) = from, TreePhase(r)' = to
    PROVE  TreePromise!Move(r, from, to)
BY TreeWrite DEF TreePromise!Move, Phase

LEMMA DoneKept ==
    ASSUME NEW r \in Roots, \A v \in Workflows \ Tree[r] : Kept(v), Stands(r)' = Stands(r)
    PROVE  Done' = Done
BY TreeWrite DEF Done

(* The phase of a tree whose root is under way. *)
LEMMA PhaseOpen ==
    ASSUME NEW r \in Roots, wf[r].state \in Open
    PROVE  /\ (\E x \in Tree[r] : wf[x].state = "blocked") => TreePhase(r) = "stuck"
           /\ (\A x \in Tree[r] : wf[x].state # "blocked") =>
                  /\ (\E x \in Tree[r] : wf[x].state \in {"reversing", "reversed", "failed"}) =>
                        TreePhase(r) = "unwinding"
                  /\ (\A x \in Tree[r] : wf[x].state \notin {"reversing", "reversed", "failed"}) =>
                        TreePhase(r) = "forward"
BY DEF TreePhase, SomeIn, Open

LEMMA PhaseOpenNext ==
    ASSUME NEW r \in Roots, wf'[r].state \in Open
    PROVE  /\ (\E x \in Tree[r] : wf'[x].state = "blocked") => TreePhase(r)' = "stuck"
           /\ (\A x \in Tree[r] : wf'[x].state # "blocked") =>
                  /\ (\E x \in Tree[r] : wf'[x].state \in {"reversing", "reversed", "failed"}) =>
                        TreePhase(r)' = "unwinding"
                  /\ (\A x \in Tree[r] : wf'[x].state \notin {"reversing", "reversed", "failed"}) =>
                        TreePhase(r)' = "forward"
BY DEF TreePhase, SomeIn, Open

(* A workflow of the tree goes on, and no child of it is open: the tree is  *)
(* not stuck.                                                               *)
LEMMA AtWork ==
    ASSUME CInv, NEW r \in Roots, NEW w \in Tree[r], wf[w].state \in {"forward", "reversing"},
           \A p \in Calls : p[1] = w => wf[Callee[p[1]][p[2]]].state \notin Open
    PROVE  /\ wf[r].state \in {"forward", "reversing"}
           /\ \A x \in Tree[r] : wf[x].state # "blocked"
           /\ TreePhase(r) \in {"forward", "unwinding"}
           /\ wf[w].state = "forward" => wf[r].state = "forward"
           /\ wf[w].state = "reversing" => TreePhase(r) = "unwinding"
<1>1. w \in Workflows /\ r \in Line[w]
  BY TreeFacts
<1>2. wf[r].state \in Open /\ (r # w => wf[r].state \in {"forward", "reversing"})
  BY <1>1, OpenLine DEF Open
<1>3. \A x \in Tree[r] : wf[x].state # "blocked"
  BY Deepest DEF Open
<1>4. wf[w].state = "forward" => wf[r].state = "forward"
  BY <1>1, ForwardLine
<1> QED
  BY <1>2, <1>3, <1>4, PhaseOpen

-----------------------------------------------------------------------------
(* The moves of a workflow, as steps of its tree *)

LEMMA QuietMoves ==
    ASSUME CInv, NEW w \in Workflows, NEW s \in Steps, LeaseMove(w) \/ RequestMove(w, s) \/ BindMove(w, s)
    PROVE  Kept(w)
<1>1. wf'[w].state = wf[w].state
  BY DEF LeaseMove, RequestMove, BindMove, SameLife
<1>2. cp[w] \in [Steps -> CheckpointStates]
  BY DEF CInv, IInv, TypeOK
<1>3. CASE LeaseMove(w) \/ RequestMove(w, s)
  BY <1>1, <1>3 DEF LeaseMove, RequestMove, SameRows, Kept, Standing
<1>4. CASE BindMove(w, s)
  <2>1. cp[w][s] \in {"active", "dispatched"} /\ cp'[w][s] = "dispatched"
    BY <1>2, <1>4 DEF BindMove, IsTop, Active
  <2>2. \A t \in Steps \ {s} : cp'[w][t] = cp[w][t]
    BY <1>2, <1>4 DEF BindMove
  <2> QED
    BY <1>1, <2>1, <2>2 DEF Kept, Standing
<1> QED
  BY <1>3, <1>4

LEMMA OthersAreKept ==
    ASSUME NEW w \in Workflows, Shape(w)
    PROVE  \A v \in Workflows \ {w} : Kept(v) /\ wf'[v].state = wf[v].state
BY SameIsSameRecord, SameIsKept DEF Shape, Kept

LEMMA BornBegins ==
    ASSUME CInv, NEW w \in Workflows, Born(w)
    PROVE  TreePromise!Begin(w)
<1>1. /\ w \in Roots /\ w \in Tree[w] /\ wf[w].state = "absent" /\ wf'[w].state = "forward"
      /\ Shape(w) /\ Standing(w)' = Standing(w)
  BY TreeFacts DEF Born, CreateMove, Becomes, SameRows, Standing
<1>2. \A x \in Tree[w] \ {w} : wf'[x].state = "absent"
  BY <1>1, TreeFacts, BelowAbsent, OthersAreKept
<1>3. TreePhase(w) = "new"
  BY <1>1 DEF TreePhase
<1>4. TreePhase(w)' = "forward"
  BY <1>1, <1>2, PhaseOpenNext DEF Open
<1>5. Stands(w)' = Stands(w)
  BY <1>1, EffectFacts, TreeFacts, OthersAreKept DEF Stands, Kept
<1>6. \A v \in Workflows \ Tree[w] : Kept(v)
  BY <1>1, OthersAreKept
<1>7. TreePromise!Move(w, "new", "forward") /\ Done' = Done
  BY <1>1, <1>3, <1>4, <1>5, <1>6, TreeMove, DoneKept
<1> QED
  BY <1>7 DEF TreePromise!Begin, Done, Stands

(* The child that a call creates is not seen yet. *)
LEMMA CalledIsQuiet ==
    ASSUME CInv, NEW p \in Calls, Called(p[1], p[2]), NEW r \in Roots
    PROVE  TreePhase(r)' = TreePhase(r) /\ Stands(r)' = Stands(r)
<1> DEFINE w == p[1]  c == Callee[p[1]][p[2]]
<1>1. w \in Workflows /\ c \in Workflows \ {w} /\ c # r /\ r \in Tree[r] /\ r \in Workflows
  BY CallFacts, RootIsNotCalled, TreeFacts
<1>2. /\ wf'[w].state = wf[w].state /\ wf[c].state = "absent" /\ wf'[c].state = "forward"
      /\ cp'[w] = cp[w] /\ cp'[c] = cp[c]
      /\ \A v \in Workflows \ {w, c} : Same(v)
  BY DEF Called, RequestMove, CreateMove, Becomes, SameLife, SameRows
<1> HIDE DEF w, c
<1>3. \A v \in Workflows : cp'[v] = cp[v] /\ (v # c => wf'[v].state = wf[v].state)
  BY <1>2 DEF Same
<1>4. \A x \in Tree[r] : x \in Workflows
  BY TreeFacts
<1>5. /\ SomeIn(r, {"blocked"})' <=> SomeIn(r, {"blocked"})
      /\ SomeIn(r, {"reversing", "reversed", "failed"})' <=> SomeIn(r, {"reversing", "reversed", "failed"})
  BY <1>2, <1>3, <1>4 DEF SomeIn
<1>6. TreePhase(r)' = TreePhase(r)
  BY <1>1, <1>3, <1>5 DEF TreePhase
<1>7. \A e \in Effects[r] : Standing(e[1])' = Standing(e[1])
  BY <1>3, <1>4, EffectFacts DEF Standing
<1> QED
  BY <1>6, <1>7 DEF Stands

(* A child turns round in a tree that unwinds already. *)
LEMMA ReopenedIsQuiet ==
    ASSUME CInv, NEW p \in Calls, Reopened(p[1], p[2]), NEW r \in Roots
    PROVE  TreePhase(r)' = TreePhase(r) /\ Stands(r)' = Stands(r)
<1> DEFINE w == p[1]  c == Callee[p[1]][p[2]]
<1>1. w \in Workflows /\ c \in Workflows \ {w} /\ c # r /\ r \in Tree[r] /\ r \in Workflows
  BY CallFacts, RootIsNotCalled, TreeFacts
<1>2. /\ wf[w].state = "reversing" /\ wf[c].state = "completed" /\ wf'[c].state = "reversing"
      /\ cp'[c] = cp[c]
      /\ \A v \in Workflows \ {c} : Same(v)
  BY DEF Reopened, Becomes, SameRows
<1>3. w \in Tree[r] <=> c \in Tree[r]
  BY CallerInTree
<1> HIDE DEF w, c
<1>4. \A v \in Workflows : cp'[v] = cp[v] /\ (v # c => wf'[v].state = wf[v].state)
  BY <1>2 DEF Same
<1>5. \A x \in Tree[r] : x \in Workflows
  BY TreeFacts
<1>6. SomeIn(r, {"blocked"})' <=> SomeIn(r, {"blocked"})
  BY <1>2, <1>4, <1>5 DEF SomeIn
<1>7. SomeIn(r, {"reversing", "reversed", "failed"})' <=> SomeIn(r, {"reversing", "reversed", "failed"})
  BY <1>1, <1>2, <1>3, <1>4, <1>5 DEF SomeIn
<1>8. TreePhase(r)' = TreePhase(r)
  BY <1>1, <1>4, <1>6, <1>7 DEF TreePhase
<1>9. \A e \in Effects[r] : Standing(e[1])' = Standing(e[1])
  BY <1>4, <1>5, EffectFacts DEF Standing
<1> QED
  BY <1>8, <1>9 DEF Stands

(* Workflow w of tree r moves alone. *)
LEMMA AloneInTree ==
    ASSUME CInv, NEW r \in Roots, NEW w \in Tree[r], Alone(w)
    PROVE  /\ w \in Workflows /\ r \in Workflows /\ r \in Tree[r] /\ TypeOK /\ TypeOK' /\ LInv(w)
           /\ \A v \in Workflows \ {w} : Kept(v) /\ wf'[v].state = wf[v].state
           /\ \A v \in Workflows \ Tree[r] : Kept(v)
           /\ \A x \in Tree[r] : x \in Workflows
<1>1. w \in Workflows /\ r \in Workflows /\ r \in Tree[r] /\ \A x \in Tree[r] : x \in Workflows
  BY TreeFacts
<1>2. Shape(w) /\ TypeOK' /\ TypeOK /\ LInv(w)
  BY <1>1 DEF Alone, Shape, CInv, IInv
<1> QED
  BY <1>1, <1>2, OthersAreKept

LEMMA SameStanding ==
    ASSUME NEW r \in Roots, \A x \in Tree[r] : Standing(x)' = Standing(x)
    PROVE  Stands(r)' = Stands(r)
BY EffectFacts DEF Stands

LEMMA ParkSticksTree ==
    ASSUME CInv, NEW r \in Roots, NEW w \in Tree[r], Alone(w), ParkMove(w)
    PROVE  TreePromise!Stick(r)
<1>1. /\ w \in Workflows /\ r \in Workflows /\ r \in Tree[r]
      /\ \A v \in Workflows \ {w} : Kept(v) /\ wf'[v].state = wf[v].state
      /\ \A v \in Workflows \ Tree[r] : Kept(v)
      /\ \A x \in Tree[r] : x \in Workflows
  BY AloneInTree
<1>2. wf[w].state = "forward" /\ wf'[w].state = "blocked" /\ Standing(w)' = Standing(w)
  BY DEF ParkMove, Becomes, SameRows, Standing
<1>3. 1 \in Steps
  BY <1>1, StepFacts DEF Steps
<1>4. \A p \in Calls : p[1] = w => wf[Callee[p[1]][p[2]]].state \notin Open
  BY <1>1, <1>2, <1>3, NoOpenChild
<1>5. TreePhase(r) \in {"forward", "unwinding"} /\ wf[r].state = "forward"
  BY <1>2, <1>4, AtWork
<1>6. TreePhase(r)' = "stuck"
  <2>1. wf'[r].state \in Open
    BY <1>1, <1>2, <1>5 DEF Open
  <2> QED
    BY <1>2, <2>1, PhaseOpenNext
<1>7. Stands(r)' = Stands(r)
  BY <1>1, <1>2, SameStanding DEF Kept
<1>8. Done' = Done
  BY <1>1, <1>7, DoneKept
<1>9. TreePromise!Move(r, "forward", "stuck") \/ TreePromise!Move(r, "unwinding", "stuck")
  BY <1>1, <1>5, <1>6, TreeMove
<1> QED
  BY <1>8, <1>9 DEF TreePromise!Stick, Done, Stands

LEMMA StickSticksTree ==
    ASSUME CInv, NEW r \in Roots, NEW w \in Tree[r], Alone(w), NEW s \in Steps, StickMove(w, s)
    PROVE  TreePromise!Stick(r)
<1>1. /\ w \in Workflows /\ r \in Workflows /\ r \in Tree[r] /\ TypeOK
      /\ \A v \in Workflows \ {w} : Kept(v) /\ wf'[v].state = wf[v].state
      /\ \A v \in Workflows \ Tree[r] : Kept(v)
      /\ \A x \in Tree[r] : x \in Workflows
  BY AloneInTree
<1>2. wf[w].state = "reversing" /\ wf'[w].state = "blocked"
  BY DEF StickMove, Becomes
<1>3. Standing(w)' = Standing(w)
  <2>1. cp[w] \in [Steps -> CheckpointStates]
    BY <1>1 DEF TypeOK
  <2>2. cp[w][s] \in {"active", "dispatched"} /\ cp'[w][s] = "unresolved"
    BY <2>1 DEF StickMove, IsTop, Active
  <2>3. \A t \in Steps \ {s} : cp'[w][t] = cp[w][t]
    BY <2>1 DEF StickMove
  <2> QED
    BY <2>2, <2>3 DEF Standing
<1>4. \A p \in Calls : p[1] = w => wf[Callee[p[1]][p[2]]].state \notin Open
  BY <1>1, NoOpenChild
<1>5. TreePhase(r) = "unwinding" /\ wf[r].state \in {"forward", "reversing"}
  BY <1>2, <1>4, AtWork
<1>6. TreePhase(r)' = "stuck"
  <2>1. wf'[r].state \in Open
    BY <1>1, <1>2, <1>5 DEF Open
  <2> QED
    BY <1>2, <2>1, PhaseOpenNext
<1>7. Stands(r)' = Stands(r)
  BY <1>1, <1>3, SameStanding DEF Kept
<1>8. Done' = Done
  BY <1>1, <1>7, DoneKept
<1>9. TreePromise!Move(r, "unwinding", "stuck")
  BY <1>1, <1>5, <1>6, TreeMove
<1> QED
  BY <1>8, <1>9 DEF TreePromise!Stick, Done, Stands

(* Giving up: the first workflow of the tree to do so turns the whole tree  *)
(* round; a caller that follows its failed child changes nothing, unless it *)
(* is the root and nothing is left.                                         *)
LEMMA GiveUpGivesUpTree ==
    ASSUME CInv, CInv', NEW r \in Roots, NEW w \in Tree[r], Alone(w), GiveUpMove(w)
    PROVE  TreePromise!GiveUp(r) \/ TreePromise!Fail(r) \/ UNCHANGED TreePromise!vars
<1>1. /\ w \in Workflows /\ r \in Workflows /\ r \in Tree[r]
      /\ \A v \in Workflows \ {w} : Kept(v) /\ wf'[v].state = wf[v].state
      /\ \A v \in Workflows \ Tree[r] : Kept(v)
      /\ \A x \in Tree[r] : x \in Workflows
  BY AloneInTree
<1>2. wf[w].state = "forward" /\ wf'[w].state \in {"reversing", "failed"} /\ Standing(w)' = Standing(w)
  BY DEF GiveUpMove, Becomes, SameRows, Standing
<1>3. 1 \in Steps
  BY <1>1, StepFacts DEF Steps
<1>4. \A p \in Calls : p[1] = w => wf[Callee[p[1]][p[2]]].state \notin Open
  BY <1>1, <1>2, <1>3, NoOpenChild
<1>5. /\ TreePhase(r) \in {"forward", "unwinding"} /\ wf[r].state = "forward"
      /\ \A x \in Tree[r] : wf[x].state # "blocked"
  BY <1>2, <1>4, AtWork
<1>6. Stands(r)' = Stands(r)
  BY <1>1, <1>2, SameStanding DEF Kept
<1>7. Done' = Done
  BY <1>1, <1>6, DoneKept
<1>8. CASE r = w /\ wf'[w].state = "failed"
  <2>1. TreePhase(r)' = "failed"
    BY <1>8 DEF TreePhase
  <2>2. Stands(r) = {}
    BY <1>6, <1>8, EndsMeanNext DEF EndsMean
  <2>3. TreePromise!Move(r, "forward", "failed") \/ TreePromise!Move(r, "unwinding", "failed")
    BY <1>1, <1>5, <2>1, TreeMove
  <2> QED
    BY <1>7, <2>2, <2>3 DEF TreePromise!GiveUp, TreePromise!Fail, Done, Stands
<1>9. CASE ~ (r = w /\ wf'[w].state = "failed")
  <2>1. wf'[r].state \in Open
    BY <1>1, <1>2, <1>5, <1>9 DEF Open
  <2>2. \A x \in Tree[r] : wf'[x].state # "blocked"
    BY <1>1, <1>2, <1>5
  <2>3. TreePhase(r)' = "unwinding"
    BY <1>2, <2>1, <2>2, PhaseOpenNext
  <2>4. CASE TreePhase(r) = "forward"
    <3>1. TreePromise!Move(r, "forward", "unwinding")
      BY <1>1, <2>3, <2>4, TreeMove
    <3> QED
      BY <1>7, <3>1 DEF TreePromise!GiveUp, Done, Stands
  <2>5. CASE TreePhase(r) = "unwinding"
    <3>1. Phase' = Phase
      BY <1>1, <2>3, <2>5, TreeWrite DEF Phase
    <3> QED
      BY <1>7, <3>1 DEF TreePromise!vars, Phase, Done, Stands
  <2> QED
    BY <1>5, <2>4, <2>5
<1> QED
  BY <1>8, <1>9

(* One checkpoint is written: of the effects of the tree, at most one        *)
(* changes, and none if the step is a call.                                  *)
LEMMA OneEffect ==
    ASSUME NEW r \in Roots, NEW w \in Tree[r], NEW s \in Steps, s <= PlanLength[w],
           \A v \in Workflows \ {w} : Kept(v),
           \A t \in Steps \ {s} : t \in Standing(w)' <=> t \in Standing(w)
    PROVE  /\ IsCall(w, s) => Stands(r)' = Stands(r)
           /\ ~ IsCall(w, s) =>
                  /\ <<w, s>> \in Effects[r]
                  /\ <<w, s>> \in Stands(r) <=> s \in Standing(w)
                  /\ s \in Standing(w)' => Stands(r)' = Stands(r) \cup {<<w, s>>}
                  /\ s \notin Standing(w)' => Stands(r)' = Stands(r) \ {<<w, s>>}
<1> DEFINE e == <<w, s>>
<1>1. w \in Workflows /\ e[1] = w /\ e[2] = s
  BY TreeFacts
<1>2. ASSUME NEW f \in Effects[r]
      PROVE  f = <<f[1], f[2]>> /\ f[1] \in Workflows /\ f[2] \in Steps /\ ~ IsCall(f[1], f[2])
  BY EffectFacts, OperationFacts
<1>3. ~ IsCall(w, s) => e \in Effects[r]
  BY <1>1, OperationIs, EffectFacts
<1>4. IsCall(w, s) => e \notin Effects[r]
  BY <1>1, <1>2
<1> HIDE DEF e
<1>5. ASSUME NEW f \in Effects[r], f # e
      PROVE  f \in Stands(r)' <=> f \in Stands(r)
  <2>1. CASE f[1] # w
    BY <1>2, <2>1 DEF Stands, Kept
  <2>2. CASE f[1] = w
    <3>1. f[2] \in Steps \ {s}
      BY <1>2, <1>5, <2>2 DEF e
    <3> QED
      BY <2>2, <3>1 DEF Stands
  <2> QED
    BY <2>1, <2>2
<1>6. /\ e \in Stands(r) <=> e \in Effects[r] /\ s \in Standing(w)
      /\ e \in Stands(r)' <=> e \in Effects[r] /\ s \in Standing(w)'
  BY <1>1 DEF Stands
<1>7. \A f : (f \in Stands(r) => f \in Effects[r]) /\ (f \in Stands(r)' => f \in Effects[r])
  BY DEF Stands
<1>8. IsCall(w, s) => Stands(r)' = Stands(r)
  BY <1>4, <1>5, <1>7
<1>9. s \in Standing(w)' /\ e \in Effects[r] => Stands(r)' = Stands(r) \cup {e}
  BY <1>5, <1>6, <1>7
<1>10. s \notin Standing(w)' => Stands(r)' = Stands(r) \ {e}
  BY <1>5, <1>6, <1>7
<1> QED
  BY <1>3, <1>6, <1>8, <1>9, <1>10 DEF e

LEMMA SettleMovesTree ==
    ASSUME CInv, CInv', NEW r \in Roots, NEW w \in Tree[r], Alone(w), NEW s \in Steps, SettleMove(w, s)
    PROVE  TreePromise!Next \/ UNCHANGED TreePromise!vars
<1>1. /\ w \in Workflows /\ r \in Workflows /\ r \in Tree[r] /\ TypeOK /\ LInv(w)
      /\ \A v \in Workflows \ {w} : Kept(v) /\ wf'[v].state = wf[v].state
      /\ \A v \in Workflows \ Tree[r] : Kept(v)
      /\ \A x \in Tree[r] : x \in Workflows
  BY AloneInTree
<1>2. /\ wf[w].state = "forward" /\ wf'[w].state \in {"forward", "completed"}
      /\ op[w][s] = "requested" /\ s <= PlanLength[w]
  BY DEF SettleMove, SameLife, Becomes
<1>3. /\ s \notin Standing(w) /\ s \in Standing(w)'
      /\ \A t \in Steps \ {s} : t \in Standing(w)' <=> t \in Standing(w)
  <2>1. cp[w] \in [Steps -> CheckpointStates] /\ cp[w][s] = "none"
    BY <1>1, <1>2 DEF TypeOK, LInv, FollowsPlan
  <2>2. cp'[w][s] = "active" /\ \A t \in Steps \ {s} : cp'[w][t] = cp[w][t]
    BY <2>1 DEF SettleMove
  <2> QED
    BY <2>1, <2>2 DEF Standing
<1>4. \A p \in Calls : p[1] = w => wf[Callee[p[1]][p[2]]].state \notin Open
  BY <1>1, NoOpenChild
<1>5. wf[r].state = "forward" /\ \A x \in Tree[r] : wf[x].state # "blocked"
  BY <1>2, <1>4, AtWork
<1>6. ASSUME NEW p \in Calls, p[1] = w, op[w][p[2]] = "requested"
      PROVE  wf[Callee[p[1]][p[2]]].state = "completed"
  <2>1. p[2] = s /\ p = <<w, s>>
    BY <1>1, <1>2, <1>6, CallFacts, OneRequested DEF CInv
  <2>2. op'[w][s] = "succeeded" /\ op[w][s] = "requested"
    BY <1>1, <1>2 DEF SettleMove, TypeOK
  <2> QED
    BY <2>1, <2>2 DEF Alone, Awaits
<1>7. ASSUME NEW x \in Tree[r]
      PROVE  wf[x].state \notin {"reversing", "reversed", "failed"}
  <2> SUFFICES ASSUME wf[x].state \in {"reversing", "reversed", "failed"} PROVE FALSE
    OBVIOUS
  <2>1. PICK p \in Calls : p[1] = w /\ op[w][p[2]] = "requested" /\ Callee[p[1]][p[2]] \in Line[x]
    BY <1>2, AroundForward
  <2> QED
    BY <1>1, <1>6, <2>1, BelowCompleted
<1>8. TreePhase(r) = "forward"
  BY <1>5, <1>7, PhaseOpen DEF Open
<1>9. /\ r # w \/ wf'[w].state = "forward" => TreePhase(r)' = "forward"
      /\ r = w /\ wf'[w].state = "completed" => TreePhase(r)' = "completed"
  <2>1. \A x \in Tree[r] : wf'[x].state \notin {"blocked", "reversing", "reversed", "failed"}
    BY <1>1, <1>2, <1>5, <1>7
  <2>2. r # w \/ wf'[w].state = "forward" => wf'[r].state = "forward"
    BY <1>1, <1>5
  <2>3. wf'[r].state = "forward" => TreePhase(r)' = "forward"
    BY <2>1, PhaseOpenNext DEF Open
  <2>4. wf'[r].state = "completed" => TreePhase(r)' = "completed"
    BY DEF TreePhase
  <2> QED
    BY <2>2, <2>3, <2>4
<1>10. \/ TreePromise!Move(r, "forward", "forward") /\ Phase' = Phase
       \/ Stands(r)' = Effects[r] /\ TreePromise!Move(r, "forward", "completed")
  <2>1. CASE r # w \/ wf'[w].state = "forward"
    <3>1. Phase' = Phase
      BY <1>1, <1>8, <1>9, <2>1, TreeWrite DEF Phase
    <3> QED
      BY <1>1, <1>8, <1>9, <2>1, <3>1, TreeMove
  <2>2. CASE r = w /\ wf'[w].state = "completed"
    <3>1. Stands(r)' = Effects[r]
      BY <2>2, EndsMeanNext DEF EndsMean
    <3> QED
      BY <1>1, <1>8, <1>9, <2>2, <3>1, TreeMove
  <2> QED
    BY <1>2, <2>1, <2>2
<1>11. CASE IsCall(w, s)
  <2>1. Stands(r)' = Stands(r)
    BY <1>1, <1>2, <1>3, <1>11, OneEffect
  <2>2. Done' = Done
    BY <1>1, <2>1, DoneKept
  <2>3. CASE Phase' = Phase
    BY <2>2, <2>3 DEF TreePromise!vars, Phase, Done, Stands
  <2>4. CASE Stands(r)' = Effects[r] /\ TreePromise!Move(r, "forward", "completed")
    <3>1. TreePromise!Complete(r)
      BY <2>1, <2>2, <2>4 DEF TreePromise!Complete, Done, Stands
    <3> QED
      BY <3>1 DEF TreePromise!Next
  <2> QED
    BY <1>10, <2>3, <2>4
<1>12. CASE ~ IsCall(w, s)
  <2> DEFINE e == <<w, s>>
  <2>1. e \in Effects[r] /\ e \notin Stands(r) /\ Stands(r)' = Stands(r) \cup {e}
    BY <1>1, <1>2, <1>3, <1>12, OneEffect
  <2>2. Stands(r) = Earlier[e]
    <3>1. WaitsAt(e[1], e[2])
      BY <1>2 DEF WaitsAt
    <3>2. Stands(r) \ {e} = Earlier[e]
      BY <2>1, <3>1, StandsAtTheWait
    <3> QED
      BY <2>1, <3>2
  <2> HIDE DEF e
  <2>3. Done' = [Done EXCEPT ![r] = Stands(r) \cup {e}]
    BY <1>1, <2>1, TreeWrite
  <2>4. TreePromise!Do(r, e)
    BY <1>10, <2>1, <2>2, <2>3 DEF TreePromise!Do, TreePromise!Now, Done, Stands
  <2> QED
    BY <2>1, <2>4 DEF TreePromise!Next
<1> QED
  BY <1>11, <1>12

LEMMA UndoMovesTree ==
    ASSUME CInv, CInv', NEW r \in Roots, NEW w \in Tree[r], Alone(w), NEW s \in Steps, UndoMove(w, s)
    PROVE  TreePromise!Next \/ UNCHANGED TreePromise!vars
<1>1. /\ w \in Workflows /\ r \in Workflows /\ r \in Tree[r] /\ TypeOK /\ LInv(w)
      /\ \A v \in Workflows \ {w} : Kept(v) /\ wf'[v].state = wf[v].state
      /\ \A v \in Workflows \ Tree[r] : Kept(v)
      /\ \A x \in Tree[r] : x \in Workflows
  BY AloneInTree
<1>2. /\ wf[w].state = "reversing" /\ wf'[w].state \in {"reversing", "reversed"}
      /\ IsTop(w, s) /\ s <= PlanLength[w]
  BY <1>1, TopIsDone DEF UndoMove, SameLife, Becomes, CInv
<1>3. /\ s \in Standing(w) /\ s \notin Standing(w)'
      /\ \A t \in Steps \ {s} : t \in Standing(w)' <=> t \in Standing(w)
  <2>1. cp[w] \in [Steps -> CheckpointStates] /\ cp[w][s] \in {"active", "dispatched"}
    BY <1>1, <1>2 DEF TypeOK, IsTop, Active
  <2>2. cp'[w][s] = "reversed" /\ \A t \in Steps \ {s} : cp'[w][t] = cp[w][t]
    BY <2>1 DEF UndoMove
  <2> QED
    BY <2>1, <2>2 DEF Standing
<1>4. \A p \in Calls : p[1] = w => wf[Callee[p[1]][p[2]]].state \notin Open
  BY <1>1, NoOpenChild
<1>5. /\ wf[r].state \in {"forward", "reversing"} /\ TreePhase(r) = "unwinding"
      /\ \A x \in Tree[r] : wf[x].state # "blocked"
  BY <1>2, <1>4, AtWork
<1>6. /\ r # w \/ wf'[w].state = "reversing" => TreePhase(r)' = "unwinding"
      /\ r = w /\ wf'[w].state = "reversed" => TreePhase(r)' = "failed"
  <2>1. \A x \in Tree[r] : wf'[x].state # "blocked"
    BY <1>1, <1>2, <1>5
  <2>2. r # w \/ wf'[w].state = "reversing" => wf'[r].state \in {"forward", "reversing"}
    BY <1>1, <1>5
  <2>3. wf'[r].state \in {"forward", "reversing"} => TreePhase(r)' = "unwinding"
    BY <1>2, <2>1, PhaseOpenNext DEF Open
  <2>4. wf'[r].state = "reversed" => TreePhase(r)' = "failed"
    BY DEF TreePhase
  <2> QED
    BY <2>2, <2>3, <2>4
<1>7. \/ TreePromise!Move(r, "unwinding", "unwinding") /\ Phase' = Phase
      \/ Stands(r)' = {} /\ TreePromise!Move(r, "unwinding", "failed")
  <2>1. CASE r # w \/ wf'[w].state = "reversing"
    <3>1. Phase' = Phase
      BY <1>1, <1>5, <1>6, <2>1, TreeWrite DEF Phase
    <3> QED
      BY <1>1, <1>5, <1>6, <2>1, <3>1, TreeMove
  <2>2. CASE r = w /\ wf'[w].state = "reversed"
    <3>1. Stands(r)' = {}
      BY <2>2, EndsMeanNext DEF EndsMean
    <3> QED
      BY <1>1, <1>5, <1>6, <2>2, <3>1, TreeMove
  <2> QED
    BY <1>2, <2>1, <2>2
<1>8. CASE IsCall(w, s)
  <2>1. Stands(r)' = Stands(r)
    BY <1>1, <1>2, <1>3, <1>8, OneEffect
  <2>2. Done' = Done
    BY <1>1, <2>1, DoneKept
  <2>3. CASE Phase' = Phase
    BY <2>2, <2>3 DEF TreePromise!vars, Phase, Done, Stands
  <2>4. CASE Stands(r)' = {} /\ TreePromise!Move(r, "unwinding", "failed")
    <3>1. TreePromise!Fail(r)
      BY <2>1, <2>2, <2>4 DEF TreePromise!Fail, Done, Stands
    <3> QED
      BY <3>1 DEF TreePromise!Next
  <2> QED
    BY <1>7, <2>3, <2>4
<1>9. CASE ~ IsCall(w, s)
  <2> DEFINE e == <<w, s>>
  <2>1. e \in Effects[r] /\ e \in Stands(r) /\ Stands(r)' = Stands(r) \ {e}
    BY <1>1, <1>2, <1>3, <1>9, OneEffect
  <2>2. Stands(r) \ {e} = Earlier[e]
    <3>1. WaitsAt(e[1], e[2])
      BY <1>2 DEF WaitsAt
    <3> QED
      BY <2>1, <3>1, StandsAtTheWait
  <2> HIDE DEF e
  <2>3. Done' = [Done EXCEPT ![r] = Stands(r) \ {e}]
    BY <1>1, <2>1, TreeWrite
  <2>4. Stands(r)' = {} => Stands(r) = {e}
    BY <2>1
  <2>5. TreePromise!Undo(r, e)
    BY <1>7, <2>1, <2>2, <2>3, <2>4 DEF TreePromise!Undo, TreePromise!Now, Done, Stands
  <2> QED
    BY <2>1, <2>5 DEF TreePromise!Next
<1> QED
  BY <1>8, <1>9

LEMMA AloneMovesTree ==
    ASSUME CInv, CInv', NEW w \in Workflows, Alone(w)
    PROVE  TreePromise!Next \/ UNCHANGED TreePromise!vars
<1>1. Shape(w) /\ wf[w].state # "absent" /\ \A v \in Workflows \ {w} : Kept(v)
  BY OthersAreKept DEF Alone
<1>2. ASSUME Kept(w)
      PROVE  UNCHANGED TreePromise!vars
  BY <1>1, <1>2, TreesRest, TreeFacts
<1>3. CASE \A r \in Roots : w \notin Tree[r]
  <2>1. \A r \in Roots : \A v \in Tree[r] : Kept(v)
    BY <1>1, <1>3, TreeFacts
  <2> QED
    BY <2>1, TreesRest
<1>4. ASSUME NEW r \in Roots, w \in Tree[r]
      PROVE  TreePromise!Next \/ UNCHANGED TreePromise!vars
  <2>1. CASE ParkMove(w) \/ \E s \in Steps : StickMove(w, s)
    BY <1>4, <2>1, ParkSticksTree, StickSticksTree DEF TreePromise!Next
  <2>2. CASE GiveUpMove(w)
    BY <1>4, <2>2, GiveUpGivesUpTree DEF TreePromise!Next
  <2>3. CASE LeaseMove(w) \/ \E s \in Steps : RequestMove(w, s) \/ BindMove(w, s)
    <3>1. 1 \in Steps
      BY StepFacts DEF Steps
    <3> QED
      BY <1>2, <2>3, <3>1, QuietMoves
  <2>4. CASE \E s \in Steps : SettleMove(w, s) \/ UndoMove(w, s)
    BY <1>4, <2>4, SettleMovesTree, UndoMovesTree
  <2>5. ~ CreateMove(w)
    BY <1>1 DEF CreateMove
  <2> QED
    BY <1>1, <2>1, <2>2, <2>3, <2>4, <2>5 DEF Shape, Move
<1> QED
  BY <1>3, <1>4

(* Whatever workflow of a tree is driven, and by whom, the tree is one saga: *)
(* its operations are done in the order of the plans, as if the calls were   *)
(* written out, and undone in the opposite order across all its workflows.   *)
THEOREM TreeIsASaga == CallSpec => ImplementsTreeSaga
<1>1. CallInit => TreePromise!Init
  <2> SUFFICES ASSUME CallInit
               PROVE  TreePromise!Init
    OBVIOUS
  <2>1. \A w \in Workflows : wf[w].state = "absent" /\ Standing(w) = {}
    BY DEF CallInit, Init, NoRow, Standing
  <2>2. \A r \in Roots : r \in Workflows /\ TreePhase(r) = "new"
    BY <2>1, TreeFacts DEF TreePhase
  <2>3. \A r \in Roots : {e \in Effects[r] : e[2] \in Standing(e[1])} = {}
    BY <2>1, EffectFacts, OperationFacts
  <2> QED
    BY <2>2, <2>3 DEF TreePromise!Init
<1>2. CInv /\ CInv' /\ [CallNext]_everything => [TreePromise!Next]_(TreePromise!vars)
  <2> SUFFICES ASSUME CInv, CInv', [CallNext]_everything
               PROVE  TreePromise!Next \/ UNCHANGED TreePromise!vars
    OBVIOUS
  <2>1. StoreStep
    BY CallStepStores
  <2>2. CASE Idles
    <3>1. \A r \in Roots : \A v \in Tree[r] : Kept(v)
      BY <2>2, SameIsKept, TreeFacts DEF Idles, Rests, SameRecord
    <3> QED
      BY <3>1, TreesRest
  <2>3. CASE \E w \in Workflows : Alone(w)
    BY <2>3, AloneMovesTree
  <2>4. CASE \E w \in Workflows : Born(w)
    <3>1. PICK w \in Workflows : Born(w)
      BY <2>4
    <3>2. w \in Roots /\ TreePromise!Begin(w)
      BY <3>1, BornBegins DEF Born
    <3> QED
      BY <3>2 DEF TreePromise!Next
  <2>5. CASE \E p \in Calls : Called(p[1], p[2]) \/ Reopened(p[1], p[2])
    <3>1. \A r \in Roots : TreePhase(r)' = TreePhase(r) /\ Stands(r)' = Stands(r)
      BY <2>5, CalledIsQuiet, ReopenedIsQuiet
    <3> QED
      BY <3>1 DEF TreePromise!vars, Stands
  <2> QED
    BY <2>1, <2>2, <2>3, <2>4, <2>5 DEF StoreStep
<1> QED
  BY <1>1, <1>2, CallInvariance, PTL DEF CallSpec, ImplementsTreeSaga, TreePromise!Spec
=============================================================================
