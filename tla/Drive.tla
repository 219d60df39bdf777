-------------------------------- MODULE Drive --------------------------------
(***************************************************************************)
(* Runners driving workflows against participants: runner.drift over the   *)
(* procedures of module Workflow and the services of module Participant.   *)
(*                                                                         *)
(* A driver is one drive of one workflow by a runner process: it claims    *)
(* the workflow, takes it step by step as far as it can, and stops.  The   *)
(* store and the participant are reached by separate calls, between which  *)
(* anything may happen: the driver dies, its lease lapses and another      *)
(* driver claims the workflow, a PUT is delivered late or never, an answer *)
(* is lost, a request handler dies, a route is unknown for a while.        *)
(*                                                                         *)
(* A driver stands for one claim, that is for an executor id together with *)
(* the fencing token of the claim; its name is free again only when its    *)
(* drive is over.  The comparison of owners in Holds therefore decides     *)
(* what the comparison of tokens decides in the code, and the token itself *)
(* is not counted here.                                                    *)
(*                                                                         *)
(* The plan is a straight line of participant operations that ends by      *)
(* returning or by an authored fail.                                       *)
(***************************************************************************)
EXTENDS Workflow

CONSTANTS
    Scenarios,      \* verdicts of the participant and endings of the plans
    MaxAttempts,    \* bound: attempts per operation
    MaxOrphans,     \* bound: PUTs of one operation nobody waits for any more
    MaxFaults       \* bound: faults per behaviour

ASSUME DriveAssumption ==
    /\ MaxAttempts \in Nat \ {0}
    /\ MaxOrphans \in Nat
    /\ MaxFaults \in Nat

Ops == Workflows \X Steps \X {"op", "cp"}

VARIABLES
    drv,        \* what each driver is doing
    ending,     \* how each workflow's plan ends: "return" or "fail"
    orphans,    \* PUTs still under way whose sender is gone, per operation
    routed,     \* whether requests find the participant's route
    faults,     \* faults so far
    verdict, item, handler, effects     \* the participant's

P == INSTANCE Participant

ASSUME ScenarioAssumption == \A sc \in Scenarios : sc.verdict \in [Ops -> P!Verdicts]

engine == vars
world == <<ending, orphans, routed, faults>>
service == <<verdict, item, handler, effects>>
everything == <<engine, drv, world, service>>

(* A driver.  at: idle, choose, bind, wait, get, poll, act or fail.          *)
(* w, s, dir: the step it works on, and in which direction.                 *)
(* again: the step's request was found in the store (recovered).            *)
(* resend: the PUT under way, or last sent, follows a 404.                  *)
(* by: the handler its PUT has reached, 0 while none.                       *)
(* got: the DispatchResult it acts on: done, pending, rejected or unknown.   *)
Idle == [at |-> "idle", w |-> CHOOSE w \in Workflows : TRUE, dir |-> "forward", s |-> 1,
         again |-> FALSE, resend |-> FALSE, by |-> 0, got |-> "none"]

Goes(x, d) == drv' = [drv EXCEPT ![x] = d]
Stops(x) == Goes(x, Idle)

OpOf(d) == <<d.w, d.s, IF d.dir = "forward" THEN "op" ELSE "cp">>
Mine(x) == Holds(drv[x].w, x, wf[drv[x].w].fence, Claimable)
Acts(x, dir, got) == drv[x].at = "act" /\ drv[x].dir = dir /\ drv[x].got = got

Choosing(w, dir) == [Idle EXCEPT !.at = "choose", !.w = w, !.dir = dir]
Sending(d, resend) == [d EXCEPT !.at = "wait", !.resend = resend, !.by = 0]
Acting(d, got) ==
    [d EXCEPT !.at = "act", !.got = got, !.again = FALSE, !.resend = FALSE, !.by = 0]

-----------------------------------------------------------------------------
(* Claiming, and finding the next thing to do *)

(* The drive goes the way the claimed state says. *)
StartDrive(x, w) ==
    /\ drv[x].at = "idle"
    /\ MayClaim(w)
    /\ wf' = [wf EXCEPT ![w].owner = x, ![w].lapsed = FALSE]
    /\ Goes(x, Choosing(w, IF wf[w].state = "reversing" THEN "reverse" ELSE "forward"))
    /\ UNCHANGED <<rows, published, world, service>>

(* Replay past the settled steps to the first that is not.  Reading takes   *)
(* no fence.                                                                *)
Unsettled(w) == {s \in Plan(w) : op[w][s] # "succeeded"}
NextStep(w) == {s \in Unsettled(w) : \A r \in Unsettled(w) : s <= r}

ChooseForward(x) ==
    LET d == drv[x] IN
        /\ d.at = "choose" /\ d.dir = "forward"
        /\ \/ \E s \in NextStep(d.w) :
                 Goes(x, [d EXCEPT !.at = "bind", !.s = s, !.again = (op[d.w][s] = "requested")])
           \/ /\ Unsettled(d.w) = {}
              /\ Goes(x, IF ending[d.w] = "fail" THEN [d EXCEPT !.at = "fail"] ELSE Idle)
        /\ UNCHANGED <<engine, world, service>>

(* The checkpoint stack says what to compensate next: a binding not yet     *)
(* made is made, one found dispatched is recovered.  An empty stack defers. *)
ReverseHead(w) == {s \in Steps : IsTop(w, s)}

ChooseReverse(x) ==
    LET d == drv[x] IN
        /\ d.at = "choose" /\ d.dir = "reverse"
        /\ \/ Active(d.w) = {} /\ Goes(x, Acting(d, "pending"))
           \/ \E s \in ReverseHead(d.w) :
                 Goes(x, IF cp[d.w][s] = "active"
                         THEN [d EXCEPT !.at = "bind", !.s = s]
                         ELSE [d EXCEPT !.at = "get", !.s = s, !.again = TRUE])
        /\ UNCHANGED <<engine, world, service>>

(* The request is durable before it is sent: a new one goes out by PUT, a    *)
(* recovered one is looked up by GET first.                                  *)
BindOperation(x) ==
    LET d == drv[x] IN
        /\ d.at = "bind" /\ d.dir = "forward"
        /\ \/ OperationRequest(d.w, x, wf[d.w].fence, d.s)
           \/ Mine(x) /\ op[d.w][d.s] # "none" /\ UNCHANGED engine
        /\ Goes(x, IF d.again THEN [d EXCEPT !.at = "get"] ELSE Sending(d, FALSE))
        /\ UNCHANGED <<world, service>>

BindCompensation(x) ==
    LET d == drv[x] IN
        /\ d.at = "bind" /\ d.dir = "reverse"
        /\ ReverseRequest(d.w, x, wf[d.w].fence, d.s)
        /\ Goes(x, Sending(d, FALSE))
        /\ UNCHANGED <<world, service>>

(* What the procedures answer before they look at the fence: the command was *)
(* carried out already, by whomever.  A driver that lost its claim then goes *)
(* on as far as another one has come.                                        *)
Replayed(d) ==
    CASE d.at = "bind" /\ d.dir = "reverse" -> cp[d.w][d.s] # "active"
      [] d.at = "act" /\ d.dir = "forward" /\ d.got = "done" -> op[d.w][d.s] = "succeeded"
      [] d.at = "act" /\ d.dir = "forward" /\ d.got = "rejected" -> wf[d.w].trigger = d.s
      [] d.at = "fail" -> wf[d.w].trigger = FailNode
      [] d.at = "act" /\ d.dir = "reverse" /\ d.got = "done" -> cp[d.w][d.s] = "reversed"
      [] OTHER -> FALSE

(* A binding made meanwhile is sent, a checkpoint done with is passed over.  *)
FindBinding(x) ==
    LET d == drv[x] IN
        /\ d.at = "bind" /\ d.dir = "reverse" /\ Replayed(d)
        /\ Goes(x, IF cp[d.w][d.s] = "dispatched" THEN Sending(d, FALSE)
                   ELSE Choosing(d.w, "reverse"))
        /\ UNCHANGED <<engine, world, service>>

-----------------------------------------------------------------------------
(* Reading the answers *)

(* A 202 counts towards sending a recovered request again; a new request     *)
(* that is pending just waits.                                               *)
Observed(d, st) ==
    CASE st = "result" -> Acting(d, "done")
      [] st \in {"malformed", "refused"} -> Acting(d, "rejected")
      [] st = "pending" /\ d.again -> [d EXCEPT !.at = "poll", !.resend = FALSE, !.by = 0]
      [] st = "pending" /\ ~ d.again -> Acting(d, "pending")

(* A PUT that got no usable answer is followed by a GET; a 404 that answers  *)
(* the second PUT is final.  Deviation: a 404 is taken for a rejection.      *)
Route404IsRejection(d, st) ==
    CASE st \in {"result", "malformed", "refused", "pending"} -> Observed(d, st)
      [] st = "unknown" -> Acting(d, "rejected")
      [] st = "error" -> [d EXCEPT !.at = "get", !.by = 0]
PutAnswered(d, st) ==
    CASE st \in {"result", "malformed", "refused", "pending"} -> Observed(d, st)
      [] st = "unknown" /\ d.resend -> Acting(d, "unknown")
      [] OTHER -> [d EXCEPT !.at = "get", !.by = 0]

(* A GET that finds no record resends the PUT, once.  One that fails leaves  *)
(* the outcome open.  Deviation: what is still working is taken as done.     *)
PendingIsDone(d, st) ==
    CASE st \in {"result", "pending"} -> Acting(d, "done")
      [] st = "malformed" -> Observed(d, st)
      [] st = "unknown" -> IF d.resend THEN Acting(d, "unknown") ELSE Sending(d, TRUE)
      [] st = "error" -> Acting(d, "pending")
GetAnswered(d, st) ==
    CASE st \in {"result", "malformed", "pending"} -> Observed(d, st)
      [] st = "unknown" /\ ~ d.resend -> Sending(d, TRUE)
      [] st = "unknown" /\ d.resend -> Acting(d, "unknown")
      [] st = "error" -> Acting(d, "pending")

-----------------------------------------------------------------------------
(* The requests reach the participant *)

InFlight(x) == drv[x].at = "wait" /\ drv[x].by = 0
Reached(x, a) == drv[x].at = "wait" /\ drv[x].by = a

(* Those who wait for the handler of attempt a get its answer. *)
Answer(o, a, st) ==
    drv' = [x \in Executors |->
               IF Reached(x, a) /\ OpOf(drv[x]) = o THEN PutAnswered(drv[x], st) ELSE drv[x]]

Arrive(x) ==
    LET d == drv[x]
        o == OpOf(d)
    IN  /\ InFlight(x)
        /\ \/ ~ routed /\ Goes(x, PutAnswered(d, "unknown")) /\ UNCHANGED service
           \/ /\ routed
              /\ \E st \in P!PutReplies(o) : Goes(x, PutAnswered(d, st))
              /\ UNCHANGED service
           \/ /\ routed
              /\ P!Accept(o)
              /\ Goes(x, [d EXCEPT !.by = item'[o].attempt])
        /\ UNCHANGED <<engine, world>>

OrphanArrives(o) ==
    /\ orphans[o] > 0
    /\ orphans' = [orphans EXCEPT ![o] = @ - 1]
    /\ (routed /\ P!Accept(o)) \/ UNCHANGED service
    /\ UNCHANGED <<engine, drv, ending, routed, faults>>

Get(x) ==
    LET d == drv[x] IN
        /\ d.at = "get"
        /\ Goes(x, GetAnswered(d, IF routed THEN P!GetReply(OpOf(d)) ELSE "unknown"))
        /\ UNCHANGED <<engine, world, service>>

Apply(o, a) == P!Apply(o, a) /\ UNCHANGED <<engine, drv, world>>

Complete(o, a) ==
    /\ P!Complete(o, a)
    /\ Answer(o, a, P!Terminal(o))
    /\ UNCHANGED <<engine, world>>

CompleteStale(o, a) ==
    /\ P!CompleteStale(o, a)
    /\ Answer(o, a, "error")
    /\ UNCHANGED <<engine, world>>

(* Nobody is left to answer. *)
HangUp(x) ==
    LET d == drv[x] IN
        /\ d.at = "wait" /\ d.by # 0
        /\ ~ P!Alive(OpOf(d), d.by)
        /\ Goes(x, PutAnswered(d, "error"))
        /\ UNCHANGED <<engine, world, service>>

-----------------------------------------------------------------------------
(* Publishing what was learnt *)

AfterUnwindBegan(x, w) ==
    IF wf'[w].state = "reversing" THEN Goes(x, Choosing(w, "reverse")) ELSE Stops(x)

(* The result is final when replaying with it returns. *)
Settle(x) ==
    LET d == drv[x] IN
        /\ Acts(x, "forward", "done")
        /\ \/ OperationSettle(d.w, x, wf[d.w].fence, d.s,
                              d.s = PlanLength[d.w] /\ ending[d.w] = "return")
           \/ Replayed(d) /\ UNCHANGED engine
        /\ Goes(x, Choosing(d.w, "forward"))
        /\ UNCHANGED <<world, service>>

Reject(x) ==
    LET d == drv[x] IN
        /\ Acts(x, "forward", "rejected")
        /\ \/ BeginReversal(d.w, x, wf[d.w].fence, d.s)
           \/ Replayed(d) /\ UNCHANGED engine
        /\ AfterUnwindBegan(x, d.w)
        /\ UNCHANGED <<world, service>>

FailStep(x) ==
    LET d == drv[x] IN
        /\ d.at = "fail"
        /\ \/ AuthoredFail(d.w, x, wf[d.w].fence)
           \/ Replayed(d) /\ UNCHANGED engine
        /\ AfterUnwindBegan(x, d.w)
        /\ UNCHANGED <<world, service>>

SettleCompensation(x) ==
    LET d == drv[x] IN
        /\ Acts(x, "reverse", "done")
        /\ \/ ReverseSettle(d.w, x, wf[d.w].fence, d.s)
           \/ Replayed(d) /\ UNCHANGED engine
        /\ IF ~ Replayed(d) /\ wf'[d.w].state = "reversed"
           THEN Stops(x) ELSE Goes(x, Choosing(d.w, "reverse"))
        /\ UNCHANGED <<world, service>>

(* The rejected compensation is left to a person. *)
BlockStep(x) ==
    LET d == drv[x] IN
        /\ Acts(x, "reverse", "rejected")
        /\ ReverseBlock(d.w, x, wf[d.w].fence, d.s, "failed")
        /\ Stops(x)
        /\ UNCHANGED <<world, service>>

(* Deferring releases the lease until the next attempt is due; a draining    *)
(* runner releases it at once.                                               *)
Defer(x) ==
    LET d == drv[x] IN
        /\ d.at = "act" /\ d.got = "pending"
        /\ \E due \in BOOLEAN : Release(d.w, x, wf[d.w].fence, due)
        /\ Stops(x)
        /\ UNCHANGED <<world, service>>

(* The reconcile budget: wait, or give up when it is spent. *)
Miss(x) ==
    LET d == drv[x] IN
        /\ d.at = "act" /\ d.got = "unknown"
        /\ IF d.dir = "forward" THEN WorkflowReconcileDefer(d.w, x, wf[d.w].fence, d.s)
                                ELSE CheckpointReconcileDefer(d.w, x, wf[d.w].fence, d.s)
        /\ Stops(x)
        /\ UNCHANGED <<world, service>>

(* The redispatch timer: wait, or send the identical PUT under the lease.    *)
(* Deviation: there is no sending again.                                     *)
NeverAgain(x) == UNCHANGED drv
SendAgain(x) ==
    Goes(x, Sending([drv[x] EXCEPT !.again = FALSE], FALSE))

PendingDefer(x) ==
    LET d == drv[x] IN
        /\ d.at = "poll"
        /\ IF d.dir = "forward" THEN OperationPendingDefer(d.w, x, wf[d.w].fence, d.s)
                                ELSE CheckpointPendingDefer(d.w, x, wf[d.w].fence, d.s)
        /\ UNCHANGED <<world, service>>

Redispatch(x) == PendingDefer(x) /\ wf' = wf /\ SendAgain(x)

PollLater(x) == PendingDefer(x) /\ wf'[drv[x].w].owner = NoExecutor /\ Stops(x)

PollDrained(x) ==
    LET d == drv[x] IN
        /\ d.at = "poll"
        /\ Release(d.w, x, wf[d.w].fence, TRUE)
        /\ Stops(x)
        /\ UNCHANGED <<world, service>>

(* Fence lost: the drive is over. *)
FenceLost(x) ==
    LET d == drv[x] IN
        /\ d.at \in {"bind", "poll", "act", "fail"}
        /\ ~ Mine(x) /\ ~ Replayed(d)
        /\ Stops(x)
        /\ UNCHANGED <<engine, world, service>>

-----------------------------------------------------------------------------
(* Faults *)

Fault == faults < MaxFaults /\ faults' = faults + 1

(* The sender of d's PUT is gone: if it is under way it is lost, or arrives  *)
(* some time.                                                                *)
LeavesBehind(d) ==
    \/ UNCHANGED orphans
    \/ /\ d.at = "wait" /\ d.by = 0 /\ orphans[OpOf(d)] < MaxOrphans
       /\ orphans' = [orphans EXCEPT ![OpOf(d)] = @ + 1]

Crash(x) ==
    /\ drv[x].at # "idle"
    /\ Fault
    /\ LeavesBehind(drv[x])
    /\ Stops(x)
    /\ UNCHANGED <<engine, ending, routed, service>>

(* No answer in time, to a PUT or to a GET. *)
TimeOut(x) ==
    LET d == drv[x] IN
        /\ d.at \in {"wait", "get"}
        /\ Fault
        /\ LeavesBehind(d)
        /\ Goes(x, IF d.at = "wait" THEN PutAnswered(d, "error") ELSE GetAnswered(d, "error"))
        /\ UNCHANGED <<engine, ending, routed, service>>

(* The store cannot be reached, finds the event time too early, or the       *)
(* operation is not configured: the drive is put off.                        *)
PutOff(x) ==
    LET d == drv[x] IN
        /\ d.at \in {"choose", "bind", "act", "fail"}
        /\ Fault
        /\ \E due \in BOOLEAN : Release(d.w, x, wf[d.w].fence, due)
        /\ Stops(x)
        /\ UNCHANGED <<ending, orphans, routed, service>>

RouteLost ==
    /\ routed /\ Fault
    /\ routed' = FALSE
    /\ UNCHANGED <<engine, drv, ending, orphans, service>>

RouteBack ==
    /\ ~ routed
    /\ routed' = TRUE
    /\ UNCHANGED <<engine, drv, ending, orphans, faults, service>>

Die(o, a) == P!Die(o, a) /\ Fault /\ UNCHANGED <<engine, drv, ending, orphans, routed>>

(* A lease that runs out under a live holder is a fault; one that nobody     *)
(* minds runs out by itself.                                                 *)
Driven(w) == \E x \in Executors : wf[w].owner = x /\ drv[x].at # "idle" /\ drv[x].w = w

Lapses(w) ==
    /\ LeaseLapses(w)
    /\ IF Driven(w) THEN Fault ELSE UNCHANGED faults
    /\ UNCHANGED <<drv, ending, orphans, routed, service>>

ItemLapses(o) ==
    /\ P!LeaseExpires(o)
    /\ IF P!Abandoned(o) THEN UNCHANGED faults ELSE Fault
    /\ UNCHANGED <<engine, drv, ending, orphans, routed>>

-----------------------------------------------------------------------------
Submit(w) == Create(w) /\ UNCHANGED <<drv, world, service>>
BackOffEnds(w) == ComesDue(w) /\ UNCHANGED <<drv, world, service>>

Drives(x) ==
    \/ ChooseForward(x) \/ ChooseReverse(x)
    \/ BindOperation(x) \/ BindCompensation(x) \/ FindBinding(x)
    \/ Arrive(x) \/ Get(x) \/ HangUp(x)
    \/ Settle(x) \/ Reject(x) \/ FailStep(x) \/ SettleCompensation(x) \/ BlockStep(x)
    \/ Defer(x) \/ Miss(x) \/ PollLater(x) \/ PollDrained(x) \/ Redispatch(x)
    \/ FenceLost(x)

Serves(o, a) == Apply(o, a) \/ Complete(o, a) \/ CompleteStale(o, a)

DriveInit ==
    /\ Init /\ P!Init
    /\ \E sc \in Scenarios : verdict = sc.verdict /\ ending = sc.ending
    /\ drv = [x \in Executors |-> Idle]
    /\ orphans = [o \in Ops |-> 0]
    /\ routed = TRUE
    /\ faults = 0

DriveNext ==
    \/ \E w \in Workflows : Submit(w) \/ BackOffEnds(w) \/ Lapses(w)
    \/ \E x \in Executors :
          \/ \E w \in Workflows : StartDrive(x, w)
          \/ Drives(x) \/ Crash(x) \/ TimeOut(x) \/ PutOff(x)
    \/ \E o \in Ops :
          \/ OrphanArrives(o) \/ ItemLapses(o)
          \/ \E a \in P!Attempts : Serves(o, a) \/ Die(o, a)
    \/ RouteLost \/ RouteBack

(* A runner drives on request: the caller of a pending workflow asks again   *)
(* until it ends.  A handler that does not die finishes; the clock goes on;  *)
(* an outage ends.                                                           *)
(* Once the redispatch interval has passed, a poll sends again: a workflow   *)
(* polled over and over is not polled for ever within the interval.          *)
Fairness ==
    /\ WF_everything(\E x \in Executors, w \in Workflows : StartDrive(x, w))
    /\ \A x \in Executors : WF_everything(Drives(x)) /\ SF_everything(Redispatch(x))
    /\ \A o \in Ops, a \in P!Attempts : WF_everything(Serves(o, a))
    /\ \A o \in Ops : WF_everything(P!Abandoned(o) /\ ItemLapses(o))
    /\ \A w \in Workflows : WF_everything(BackOffEnds(w)) /\ WF_everything(~ Driven(w) /\ Lapses(w))
    /\ WF_everything(RouteBack)

DriveSpec == DriveInit /\ [][DriveNext]_everything
FairDriveSpec == DriveSpec /\ Fairness

-----------------------------------------------------------------------------
(* Properties: what the store says against what the participant did *)

OpEffects(w, s) == effects[<<w, s, "op">>]
CpEffects(w, s) == effects[<<w, s, "cp">>]
Gives(w, s, what, how) == verdict[<<w, s, what>>] = how
DoneBy(w, s, what) ==
    item[<<w, s, what>>].state = "done" /\ effects[<<w, s, what>>] = 1 /\ Gives(w, s, what, "result")

(* A 200 without a result: executed, yet rejected.  The contract has such an *)
(* effect stay (uflowsd_participant_contract, 4.1).                          *)
Stranded(w, s) == wf[w].trigger = s /\ Gives(w, s, "op", "malformed")

(* Whatever was lost, delayed, repeated or taken over on the way, the store  *)
(* never runs ahead of the participant: an operation recorded as succeeded   *)
(* and a checkpoint recorded as reversed were carried out, exactly once, and *)
(* their result is durable at the participant.                               *)
CheckpointIsBacked ==
    \A w \in Workflows, s \in Steps :
        /\ op[w][s] = "succeeded" => DoneBy(w, s, "op")
        /\ cp[w][s] = "reversed" => DoneBy(w, s, "cp")

(* What the client is told is what happened: completed, every effect once    *)
(* and none compensated; reversed or failed, every effect has been           *)
(* compensated.  This includes PUTs and handlers that come late.             *)
OutcomeIsTrue ==
    \A w \in Workflows, s \in Steps :
        /\ wf[w].state = "completed" /\ s \in Plan(w) =>
               OpEffects(w, s) = 1 /\ CpEffects(w, s) = 0
        /\ wf[w].state \in {"reversed", "failed"} /\ ~ Stranded(w, s) =>
               OpEffects(w, s) = CpEffects(w, s)

(* No compensation is executed while a later effect still stands.            *)
CompensatedInReverse ==
    \A w \in Workflows : \A r, s \in Steps :
        r < s /\ CpEffects(w, r) > 0 /\ ~ Stranded(w, s) => OpEffects(w, s) = CpEffects(w, s)

(* A crash, a time-out, a lost route or a race is never taken for a          *)
(* rejection: only a step the participant does reject starts an unwind, and  *)
(* only a compensation it does reject is blocked as failed.                  *)
FailedForCause ==
    \A w \in Workflows, s \in Steps :
        /\ wf[w].trigger = s => ~ Gives(w, s, "op", "result")
        /\ wf[w].state = "blocked" /\ wf[w].direction = "reverse" /\ cp[w][s] = "unresolved" =>
               missed[w][s]["cp"] >= MinAttempts \/ ~ Gives(w, s, "cp", "result")

(* Once a workflow has turned round or ended, no handler, delayed PUT or     *)
(* stale driver executes a forward operation any more.                       *)
NoLateEffect ==
    [][\A w \in Workflows, s \in Steps :
          wf[w].state \in {"reversing", "reversed", "failed", "completed"} =>
              OpEffects(w, s)' = OpEffects(w, s)]_everything

(* A participant's item keeps the promise of Singular's register.            *)
ServiceIsARegister == P!ImplementsRegister

(* A submitted workflow ends, or is left to a person: no combination of      *)
(* faults has it wait for ever.                                              *)
EventuallyEnds == \A w \in Workflows : wf[w].state = "forward" ~> wf[w].state \in Final

=============================================================================
