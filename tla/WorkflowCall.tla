---------------------------- MODULE WorkflowCall ----------------------------
(***************************************************************************)
(* Workflows that call workflows: the sp_mf_call_* and *_child_* procedures*)
(* and the drives of runner.drift that use them.                           *)
(*                                                                         *)
(* A step of a plan is a participant operation or a call.  A call creates  *)
(* its child in the transaction that records the request; from then on the *)
(* child is a workflow like any other, claimed and driven by itself, and   *)
(* its caller only looks at it: waits, takes its completion for a result   *)
(* and its failure for a rejection.  When the caller unwinds, it reopens   *)
(* the completed child, which then compensates itself.                     *)
(*                                                                         *)
(* As in Drive, a driver stands for one claim, so that comparing owners    *)
(* decides what comparing tokens decides and no token is counted, neither  *)
(* by a claim nor by a reopening.  Here a participant just answers; how    *)
(* its answer is obtained is the matter of Drive.  The identity of a child *)
(* is a function of its call site, hence the fixed tree.                   *)
(***************************************************************************)
EXTENDS Workflow

CONSTANTS
    Callee,         \* the workflow each step calls, if it is a call
    NoCallee,       \* what a participant operation calls
    Deployments,    \* max_call_depth, and the plan identity of each workflow
    MaxFaults       \* bound: faults per behaviour

IsCall(w, s) == Callee[w][s] # NoCallee
Planned == UNION {{<<w, s>> : s \in Plan(w)} : w \in Workflows}
Calls == {p \in Planned : IsCall(p[1], p[2])}
Roots == {w \in Workflows : \A p \in Calls : Callee[p[1]][p[2]] # w}
CallOf(c) == CHOOSE p \in Calls : Callee[p[1]][p[2]] = c
Caller(c) == CallOf(c)[1]
CallStep(c) == CallOf(c)[2]

(* No workflow has two callers, and none calls itself.  Nor do calls run in  *)
(* circles, for the identity of a child is a digest of its caller's; but     *)
(* nothing rests on that: no workflow of a circle would ever be created.     *)
ASSUME CallAssumption ==
    /\ NoCallee \notin Workflows
    /\ Callee \in [Workflows -> [Steps -> Workflows \cup {NoCallee}]]
    /\ \A p, q \in Calls : Callee[p[1]][p[2]] = Callee[q[1]][q[2]] => p = q
    /\ \A p \in Calls : Callee[p[1]][p[2]] # p[1]
    /\ \A dep \in Deployments : dep.maxDepth \in Nat \ {0}
    /\ MaxFaults \in Nat

(* A workflow and those above it: what any set that has it, and with a       *)
(* workflow its caller, has.                                                 *)
HasCallers(S) == \A p \in Calls : Callee[p[1]][p[2]] \in S => p[1] \in S
Line == [w \in Workflows |->
            {v \in Workflows : \A S \in SUBSET Workflows : w \in S /\ HasCallers(S) => v \in S}]
Tree == [r \in Roots |-> {w \in Workflows : r \in Line[w]}]

VARIABLES
    drv,        \* what each driver is doing
    ending,     \* how each workflow's plan ends: "return" or "fail"
    deployment, \* the one of Deployments the workflows run in
    faults      \* faults so far

engine == vars
world == <<ending, deployment>>
everything == <<engine, drv, world, faults>>

(* A driver.  at: idle, choose, bind, submit, reopen, inspect, act or fail.  *)
(* w, s, dir: the step it works on, and in which direction.                  *)
(* got: what it has learned: done, rejected, pending or unknown.             *)
Idle == [at |-> "idle", w |-> CHOOSE w \in Workflows : TRUE, dir |-> "forward", s |-> 1,
         got |-> "none"]

-----------------------------------------------------------------------------
(* The procedures *)

(* The recursion guard: too deep, or the callee's plan is under way above.   *)
TooDeep(w) == Cardinality(Line[w]) > deployment.maxDepth
Cycles(w, s) == \E v \in Line[w] : deployment.script[v] = deployment.script[Callee[w][s]]
Refused(w, s) == TooDeep(w) \/ Cycles(w, s)

CallSubmit(w, x, n, s) ==
    /\ Holds(w, x, n, {"forward"})
    /\ s <= PlanLength[w]
    /\ s > 1 => op[w][s - 1] = "succeeded"
    /\ op[w][s] = "none"
    /\ ~ Refused(w, s)
    /\ SetOperation(w, s, "requested")
    /\ wf' = [wf EXCEPT ![Callee[w][s]] = [NoRow EXCEPT !.state = "forward", !.due = TRUE]]
    /\ Publish(w, n)
    /\ UNCHANGED <<cp, missed>>

(* The completed child turns round and is due at once; its caller only       *)
(* records it.                                                              *)
ChildReopen(w, x, n, s) ==
    /\ wf[Callee[w][s]].state = "completed"
    /\ Holds(w, x, n, {"reversing"})
    /\ IsTop(w, s)
    /\ Active(Callee[w][s]) # {}
    /\ wf' = [wf EXCEPT ![Callee[w][s]] = [@ EXCEPT !.state = "reversing", !.direction = "reverse",
                                           !.disposition = "failed", !.due = TRUE]]
    /\ Publish(w, n)
    /\ UNCHANGED rows

(* What the child came to is read again in the transaction that settles:     *)
(* that it has turned round, all that a reopening asks for, is not enough.   *)
HasTurned(c) == wf[c].state \in {"reversing", "blocked", "reversed"}
HasCompensated(c) == wf[c].state = "reversed"

ChildSettle(w, x, n, s) ==
    /\ cp[w][s] = "active"
    /\ Holds(w, x, n, {"reversing"})
    /\ IsTop(w, s)
    /\ HasCompensated(Callee[w][s])
    /\ SetCheckpoint(w, s, "reversed")
    /\ IF IsLastActive(w, s)
       THEN wf' = [wf EXCEPT ![w] = [ClearLease(@) EXCEPT !.state = "reversed"]]
       ELSE UNCHANGED wf
    /\ Publish(w, n)
    /\ UNCHANGED <<op, missed>>

(* Whenever a drive reports that a child has ended, its caller becomes due.  *)
(* No fence: the report may be repeated, or come when all has changed.       *)
Reported(c) ==
    \/ wf[c].state \in {"completed", "reversed", "failed"}
    \/ op[Caller(c)][CallStep(c)] = "succeeded"

TerminalNotify(c) ==
    /\ c \notin Roots
    /\ Reported(c)
    /\ ~ wf[Caller(c)].due
    /\ wf' = [wf EXCEPT ![Caller(c)].due = TRUE]
    /\ UNCHANGED <<rows, published>>

-----------------------------------------------------------------------------
(* A drive *)

Goes(x, d) == drv' = [drv EXCEPT ![x] = d]
Stops(x) == Goes(x, Idle)
Mine(x) == Holds(drv[x].w, x, wf[drv[x].w].fence, Claimable)
Acts(x, dir, got) == drv[x].at = "act" /\ drv[x].dir = dir /\ drv[x].got = got
Choosing(d, dir) == [Idle EXCEPT !.at = "choose", !.w = d.w, !.dir = dir]
Acting(d, got) == [d EXCEPT !.at = "act", !.got = got]
OnCall(x) == IsCall(drv[x].w, drv[x].s)

Fault == faults < MaxFaults /\ faults' = faults + 1

StartDrive(x, w) ==
    /\ drv[x].at = "idle"
    /\ MayClaim(w)
    /\ wf' = [wf EXCEPT ![w].owner = x, ![w].lapsed = FALSE]
    /\ Goes(x, Choosing([Idle EXCEPT !.w = w],
                        IF wf[w].state = "reversing" THEN "reverse" ELSE "forward"))
    /\ UNCHANGED <<rows, published, world, faults>>

(* Replay past the settled steps to the first that is not. *)
Unsettled(w) == {s \in Plan(w) : op[w][s] # "succeeded"}
NextStep(w) == {s \in Unsettled(w) : \A r \in Unsettled(w) : s <= r}

ChooseForward(x) ==
    LET d == drv[x] IN
        /\ d.at = "choose" /\ d.dir = "forward"
        /\ \/ \E s \in NextStep(d.w) :
                 Goes(x, [d EXCEPT !.at = IF IsCall(d.w, s) THEN "submit" ELSE "bind", !.s = s])
           \/ /\ Unsettled(d.w) = {}
              /\ Goes(x, IF ending[d.w] = "fail" THEN [d EXCEPT !.at = "fail"] ELSE Idle)
        /\ UNCHANGED <<engine, world, faults>>

ReverseHead(w) == {s \in Steps : IsTop(w, s)}

ChooseReverse(x) ==
    LET d == drv[x] IN
        /\ d.at = "choose" /\ d.dir = "reverse"
        /\ \/ Active(d.w) = {} /\ Goes(x, Acting(d, "pending"))
           \/ \E s \in ReverseHead(d.w) :
                 Goes(x, [d EXCEPT !.at = IF IsCall(d.w, s) THEN "reopen" ELSE "bind", !.s = s])
        /\ UNCHANGED <<engine, world, faults>>

(* The participant answers; that it is not ready, or not to be found, is a   *)
(* fault.                                                                    *)
Asks(x) ==
    \/ \E got \in {"done", "rejected"} : Goes(x, Acting(drv[x], got)) /\ UNCHANGED faults
    \/ \E got \in {"pending", "unknown"} : Goes(x, Acting(drv[x], got)) /\ Fault

BindOperation(x) ==
    LET d == drv[x] IN
        /\ d.at = "bind" /\ d.dir = "forward"
        /\ \/ OperationRequest(d.w, x, wf[d.w].fence, d.s)
           \/ Mine(x) /\ op[d.w][d.s] # "none" /\ UNCHANGED engine
        /\ Asks(x)
        /\ UNCHANGED world

BindCompensation(x) ==
    LET d == drv[x] IN
        /\ d.at = "bind" /\ d.dir = "reverse"
        /\ \/ ReverseRequest(d.w, x, wf[d.w].fence, d.s) /\ Asks(x)
           \/ cp[d.w][d.s] = "dispatched" /\ UNCHANGED engine /\ Asks(x)
           \/ /\ cp[d.w][d.s] \in {"reversed", "unresolved"}
              /\ Goes(x, Choosing(d, "reverse"))
              /\ UNCHANGED <<engine, faults>>
        /\ UNCHANGED world

(* Every pass submits the call, the first one in effect, and looks at the    *)
(* child.                                                                    *)
SubmitCall(x) ==
    LET d == drv[x] IN
        /\ d.at = "submit"
        /\ \/ CallSubmit(d.w, x, wf[d.w].fence, d.s)
           \/ Mine(x) /\ op[d.w][d.s] # "none" /\ UNCHANGED engine
        /\ Goes(x, [d EXCEPT !.at = "inspect"])
        /\ UNCHANGED <<world, faults>>

(* A refused call left no operation begin_reversal could blame: the drive    *)
(* aborts and keeps the lease.                                               *)
CallRejected(x) ==
    LET d == drv[x] IN
        /\ d.at = "submit"
        /\ Mine(x) /\ op[d.w][d.s] = "none" /\ Refused(d.w, d.s)
        /\ ~ MayTrigger(d.w, d.s)
        /\ Stops(x)
        /\ UNCHANGED <<engine, world, faults>>

(* Every pass asks the child to compensate, the first one in effect.         *)
ReopenChild(x) ==
    LET d == drv[x] IN
        /\ d.at = "reopen"
        /\ \/ ChildReopen(d.w, x, wf[d.w].fence, d.s)
           \/ HasTurned(Callee[d.w][d.s]) /\ UNCHANGED engine
        /\ Goes(x, [d EXCEPT !.at = "inspect"])
        /\ UNCHANGED <<world, faults>>

(* Deviation: a child that runs is as good as one that completed.            *)
RunningIsDone(d) ==
    IF wf[Callee[d.w][d.s]].state \in {"reversed", "failed"} THEN "rejected" ELSE "done"

(* Deviation: only a child that completed has ended.                         *)
OnlyCompleted(d) == IF wf[Callee[d.w][d.s]].state = "completed" THEN "done" ELSE "pending"

(* A child that has not ended is waited for, a blocked one like any other.   *)
SeenForward(d) ==
    CASE wf[Callee[d.w][d.s]].state = "completed" -> "done"
      [] wf[Callee[d.w][d.s]].state \in {"reversed", "failed"} -> "rejected"
      [] OTHER -> "pending"
SeenReverse(d) ==
    IF wf[Callee[d.w][d.s]].state \in {"completed", "reversed", "failed"} THEN "done" ELSE "pending"

InspectChild(x) ==
    LET d == drv[x] IN
        /\ d.at = "inspect"
        /\ Goes(x, Acting(d, IF d.dir = "forward" THEN SeenForward(d) ELSE SeenReverse(d)))
        /\ UNCHANGED <<engine, world, faults>>

(* What is answered before the fence is looked at: see Drive. *)
Replayed(d) ==
    CASE d.at = "bind" /\ d.dir = "reverse" -> cp[d.w][d.s] # "active"
      [] d.at = "reopen" -> HasTurned(Callee[d.w][d.s])
      [] d.at = "act" /\ d.dir = "forward" /\ d.got = "done" -> op[d.w][d.s] = "succeeded"
      [] d.at = "act" /\ d.dir = "forward" /\ d.got = "rejected" -> wf[d.w].trigger = d.s
      [] d.at = "fail" -> wf[d.w].trigger = FailNode
      [] d.at = "act" /\ d.dir = "reverse" /\ d.got = "done" -> cp[d.w][d.s] = "reversed"
      [] OTHER -> FALSE

(* The result, of the operation or of the call, is final when replaying with *)
(* it returns.                                                               *)
Settle(x) ==
    LET d == drv[x] IN
        /\ Acts(x, "forward", "done")
        /\ \/ OperationSettle(d.w, x, wf[d.w].fence, d.s,
                              d.s = PlanLength[d.w] /\ ending[d.w] = "return")
           \/ Replayed(d) /\ UNCHANGED engine
        /\ Goes(x, Choosing(d, "forward"))
        /\ UNCHANGED <<world, faults>>

AfterUnwindBegan(x, w) ==
    IF wf'[w].state = "reversing" THEN Goes(x, Choosing(drv[x], "reverse")) ELSE Stops(x)

Reject(x) ==
    LET d == drv[x] IN
        /\ Acts(x, "forward", "rejected")
        /\ \/ BeginReversal(d.w, x, wf[d.w].fence, d.s)
           \/ Replayed(d) /\ UNCHANGED engine
        /\ AfterUnwindBegan(x, d.w)
        /\ UNCHANGED <<world, faults>>

FailStep(x) ==
    LET d == drv[x] IN
        /\ d.at = "fail"
        /\ \/ AuthoredFail(d.w, x, wf[d.w].fence)
           \/ Replayed(d) /\ UNCHANGED engine
        /\ AfterUnwindBegan(x, d.w)
        /\ UNCHANGED <<world, faults>>

SettleReverse(x) ==
    LET d == drv[x] IN
        /\ Acts(x, "reverse", "done")
        /\ \/ ~ OnCall(x) /\ ReverseSettle(d.w, x, wf[d.w].fence, d.s)
           \/ OnCall(x) /\ ChildSettle(d.w, x, wf[d.w].fence, d.s)
           \/ Replayed(d) /\ UNCHANGED engine
        /\ IF ~ Replayed(d) /\ wf'[d.w].state = "reversed"
           THEN Stops(x) ELSE Goes(x, Choosing(d, "reverse"))
        /\ UNCHANGED <<world, faults>>

BlockStep(x) ==
    LET d == drv[x] IN
        /\ Acts(x, "reverse", "rejected")
        /\ ReverseBlock(d.w, x, wf[d.w].fence, d.s, "failed")
        /\ Stops(x)
        /\ UNCHANGED <<world, faults>>

Miss(x) ==
    LET d == drv[x] IN
        /\ d.at = "act" /\ d.got = "unknown"
        /\ IF d.dir = "forward" THEN WorkflowReconcileDefer(d.w, x, wf[d.w].fence, d.s)
                                ELSE CheckpointReconcileDefer(d.w, x, wf[d.w].fence, d.s)
        /\ Stops(x)
        /\ UNCHANGED <<world, faults>>

(* Wait, for a participant or for a child: the lease is given up.            *)
Defer(x) ==
    LET d == drv[x] IN
        /\ d.at = "act" /\ d.got = "pending"
        /\ \E due \in BOOLEAN : Release(d.w, x, wf[d.w].fence, due)
        /\ Stops(x)
        /\ UNCHANGED <<world, faults>>

FenceLost(x) ==
    LET d == drv[x] IN
        /\ d.at \in {"bind", "submit", "reopen", "act", "fail"}
        /\ ~ Mine(x) /\ ~ Replayed(d)
        /\ Stops(x)
        /\ UNCHANGED <<engine, world, faults>>

-----------------------------------------------------------------------------
Crash(x) == drv[x].at # "idle" /\ Fault /\ Stops(x) /\ UNCHANGED <<engine, world>>

Driven(w) == \E x \in Executors : wf[w].owner = x /\ drv[x].at # "idle" /\ drv[x].w = w

Lapses(w) ==
    /\ LeaseLapses(w)
    /\ IF Driven(w) THEN Fault ELSE UNCHANGED faults
    /\ UNCHANGED <<drv, world>>

(* Children are created by their callers only. *)
Submit(w) == w \in Roots /\ Create(w) /\ UNCHANGED <<drv, world, faults>>
BackOffEnds(w) == ComesDue(w) /\ UNCHANGED <<drv, world, faults>>
Notify(c) == TerminalNotify(c) /\ UNCHANGED <<drv, world, faults>>

Drives(x) ==
    \/ ChooseForward(x) \/ ChooseReverse(x)
    \/ BindOperation(x) \/ BindCompensation(x)
    \/ SubmitCall(x) \/ CallRejected(x) \/ ReopenChild(x) \/ InspectChild(x)
    \/ Settle(x) \/ Reject(x) \/ FailStep(x) \/ SettleReverse(x) \/ BlockStep(x)
    \/ Miss(x) \/ Defer(x) \/ FenceLost(x)

CallInit ==
    /\ Init
    /\ drv = [x \in Executors |-> Idle]
    /\ ending \in [Workflows -> {"return", "fail"}]
    /\ deployment \in Deployments
    /\ faults = 0

CallNext ==
    \/ \E w \in Workflows : Submit(w) \/ BackOffEnds(w) \/ Lapses(w) \/ Notify(w)
    \/ \E x \in Executors :
          \/ \E w \in Workflows : StartDrive(x, w)
          \/ Drives(x) \/ Crash(x)

(* No drive of a caller drives the child, and the runner looks for no work   *)
(* by itself: whoever learns that a workflow is pending asks for it again,   *)
(* for the child that is waited for as well, and there is a runner free for  *)
(* it again and again.  Being told of an ending early is not relied on.      *)
Fairness ==
    /\ \A w \in Workflows :
          /\ SF_everything(\E x \in Executors : StartDrive(x, w))
          /\ WF_everything(BackOffEnds(w))
          /\ WF_everything(~ Driven(w) /\ Lapses(w))
    /\ \A x \in Executors : WF_everything(Drives(x))

CallSpec == CallInit /\ [][CallNext]_everything
FairCallSpec == CallSpec /\ Fairness

-----------------------------------------------------------------------------
(* Properties *)

Ended == {"completed", "reversed", "failed"}

(* The step that keeps w from going on is its call at s. *)
WaitsAt(w, s) ==
    \/ wf[w].state = "forward" /\ op[w][s] = "requested"
    \/ wf[w].state = "reversing" /\ IsTop(w, s)

(* A caller's record of a call agrees with the child, however late a drive   *)
(* publishes what it saw: a call that succeeded is a child that completed,   *)
(* until the caller's unwind has come to that very call; a checkpoint taken  *)
(* back is a child that compensated; and a call blamed for a reversal is a   *)
(* child of which nothing stands.                                            *)
CallAgreesWithChild ==
    \A p \in Calls :
        LET w == p[1]  s == p[2]  c == Callee[w][s]
        IN  /\ op[w][s] = "succeeded" /\ cp[w][s] = "active" =>
                   wf[c].state = "completed" \/ (WaitsAt(w, s) /\ HasTurned(c))
            /\ cp[w][s] = "reversed" => wf[c].state = "reversed"
            /\ wf[w].trigger = s => wf[c].state \in {"reversed", "failed"}

(* A called workflow that has not ended is never forgotten: its caller is    *)
(* waiting at that call, and is not blocked with it.                         *)
NoOrphans ==
    \A c \in Workflows :
        c \notin Roots /\ wf[c].state \in {"forward", "reversing", "blocked"} =>
            WaitsAt(Caller(c), CallStep(c))

(* The outcome of a submitted workflow is the outcome of everything it       *)
(* called, at any depth: completed, and all of it has completed; reversed or *)
(* failed, and no effect of any of it stands.                                *)
OutcomeOfTheTree ==
    \A r \in Roots : \A w \in Tree[r] :
        /\ wf[r].state = "completed" => wf[w].state = "completed"
        /\ wf[r].state \in {"reversed", "failed"} => wf[w].state \in {"absent", "reversed", "failed"}

(* Once the submitted workflow has ended or waits for a person, no late      *)
(* drive and no late report changes what any workflow it called came to.     *)
TreeStays ==
    [][\A r \in Roots : wf[r].state \in Final =>
          \A w \in Tree[r] : <<wf'[w].state, op'[w], cp'[w]>> = <<wf[w].state, op[w], cp[w]>>]_everything

(* A submitted workflow ends, or some workflow of its tree is left to a      *)
(* person.                                                                   *)
TreeEnds ==
    \A r \in Roots :
        wf[r].state = "forward" ~> (wf[r].state \in Ended \/ \E w \in Tree[r] : wf[w].state = "blocked")

(* "A rejected call IS a rejected forward step, same as a definite           *)
(* participant rejection -> reversal": the comment in runner.drift where a   *)
(* call is refused.                                                          *)
RejectedCallUnwinds ==
    \A p \in Calls :
        (wf[p[1]].state = "forward" /\ p[2] \in NextStep(p[1]) /\ Refused(p[1], p[2]))
            ~> wf[p[1]].state \in {"reversing", "reversed", "failed"}

-----------------------------------------------------------------------------
(* The promise: a tree of calls is one saga. *)

Operations == {p \in Planned : ~ IsCall(p[1], p[2])}
Effects == [r \in Roots |-> {e \in Operations : r \in Line[e[1]]}]

(* What is done within a step: the operation, or all that the call leads to. *)
Under(u, i) == {e \in Operations : IF IsCall(u, i) THEN Callee[u][i] \in Line[e[1]] ELSE e = <<u, i>>}

(* A plan is run from front to back, a call before anything that follows it. *)
Earlier ==
    [e \in Operations |->
        {f \in Operations : \E u \in Workflows : \E i, j \in Plan(u) :
            i < j /\ f \in Under(u, i) /\ e \in Under(u, j)}]

SomeIn(r, states) == \E w \in Tree[r] : wf[w].state \in states

TreePhase(r) ==
    CASE wf[r].state = "absent" -> "new"
      [] wf[r].state = "completed" -> "completed"
      [] wf[r].state \in {"reversed", "failed"} -> "failed"
      [] OTHER -> IF SomeIn(r, {"blocked"}) THEN "stuck"
                  ELSE IF SomeIn(r, {"reversing", "reversed", "failed"}) THEN "unwinding"
                  ELSE "forward"

TreePromise == INSTANCE TreeSaga WITH
    phase <- [r \in Roots |-> TreePhase(r)],
    standing <- [r \in Roots |-> {e \in Effects[r] : e[2] \in Standing(e[1])}]

ImplementsTreeSaga == TreePromise!Spec
=============================================================================
