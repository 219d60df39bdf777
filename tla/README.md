# A verification of Singular and Microflows

This directory holds TLA+ models of the two systems of this repository and of
the tools around them, the TLC configurations that check them on small
instances, and theorems about them with proofs for TLAPS.

* **Singular** is an idempotency store: a *work item* per key, leased to one
  worker at a time and settled once.
* **Microflows** runs durable workflows: a plan of steps, each carried out by a
  *participant* service, compensated in the opposite order when a step is
  rejected. Its participants use Singular to carry out each operation once.

Around them stand an **observer** of running workflows (`microflows-viz`), the
builder of its one-file executable, and the **gates**: recipes that emit test
plans, take a host-wide lock and run tests and benchmarks against one MariaDB.

Two places carry the weight. The stored procedures of each system
(`sp_singular_*`, `sp_mf_*`) are short transactions under a row lock which any
process may call at any time with stale knowledge. And between a workflow's
store and its participants lie separate calls, between which anything can
happen. The tools have hazards of the same kind: a recursive read of rows that
change meanwhile, a file replaced under its readers, schemas replaced under
running tests.

## 1. Inventory

| component | state it keeps | operations | hard behaviour | correct when | modelled |
|---|---|---|---|---|---|
| Singular store: `src/singular/db/procs`, `schema` | a projection row per key, a history row per event | start, resume, extend_lease, complete, fail, inspect | superseded and late workers, times chosen by callers, lost answers | one outcome per item, agreed by all; a superseded token writes nothing; a lease excludes until its deadline | `Singular`, `SingularRegister` |
| Singular gateway: `gateway.drift` | none | the same, with outcomes as variants; lease tokens; retries | commit of unknown result | answers are those of the store | through the store's answers only |
| Workflow procedures: `src/microflows/db/procs` | `tb_mf_workflow`, `_operation`, `_checkpoint` | create, claim, heartbeat, release, request, settle, fail, begin_reversal, authored_fail, reverse_request / settle / block, defer | executors that lost their lease, repeated commands, the ends of plan, stack and budget | steps in plan order, compensations in reverse, a final state that means what it says, fencing | `Workflow`, `Saga` |
| Workflow composition: `sp_mf_call_*`, `sp_mf_child_*`, `sp_mf_checkpoint_reverse_child_*` | child workflows, `tb_mf_workflow_operation_call` | submit a call, wake the parent, reopen and settle a child | two rows per transaction, an unfenced wake-up, a child seen before it is settled | a caller's record agrees with the child; no child is forgotten; the tree of calls ends as one | `WorkflowCall`, `TreeSaga` |
| Lifecycle authority: `state.drift` | none (functions) | transition, cause_disposition, the validity predicates | written a second time in SQL | the two agree on every move; they do but for three | `Lifecycle`, `WorkflowLifecycle` |
| Host: `host.drift` | a connection | one method per procedure, `*_checked` retries | a retried command | as the procedures | as commands that may be repeated |
| Runner: `runner.drift` | none that lasts | drive, dispatch, reconcile, unwind, defer | crash between request, PUT and settle; late and lost answers; lost routes | the store never runs ahead of the participant; every workflow ends | `Drive` |
| Reference participant: `participant-stub/src/app.drift` | a Singular item per operation, what it has applied | PUT, GET | handlers that die or are overtaken | the body runs once | `Participant` |
| Script IR and parser: `ir.drift`, `parser.drift` | none | lower, validate, advance | branching graphs, the bounds of loops | advance visits what the graph says | not yet (IR), no (parser) |
| Observer: `microflows-viz/src/mfviz` (server, queries, command) | a connection per request | health, search, inspect, tree, timeline, stuck, static files | an answer is put together from SELECTs at several moments; calls in circles, missing children | an answer covers the tree asked for; what is blocked is found; a verdict that nothing moves stays true | `VizRequest`, `Viz` (not the browser pages) |
| Builder of the executable: `microflows-viz/tools/build_zipapp.py` | a temporary file, the artifact | build | failure, interrupt or kill at any point, two builds at once, readers | the artifact under its name is whole; same inputs, same bytes | `Zipapp` |
| Test plans: `tools/cert_deps.py`, four `emit_test_plan.py` | none | toolchain floor, resolution in two lanes, one plan per gate | order of resets and tests on shared schemas | no job works on a schema not reset for it | `TestPlan` (not `one`, `compile`, `stress`) |
| Gates: four `justfile`s, `perf_gate.py`, `perf.py` | the lock, the schemas, recorded baselines | test and performance recipes | two gates at once, failed jobs, killed gates | a pass is earned; gates wait but never for ever | `Gates` (not the instance's start and stop, resilience and stress recipes) |
| Stress harness `stress.py`, `export_events.py` | none | load generation; print one workflow | | | no |

The parts interact thus. A client submits a workflow to a runner, which writes
it with `create_planned` and *claims* it: a claim is a lease and a fencing
token. The runner takes each step in three calls: `operation_request` makes the
intention durable, a PUT at the participant carries it out, `operation_settle`
records the result together with the checkpoint that a later unwind needs. The
participant's PUT handler starts a Singular item under the operation's id, runs
the body, and completes the item. When the runner does not learn the outcome,
or a new runner recovers the request, it asks with GET. If a step is rejected,
`begin_reversal` turns the workflow round and each checkpoint, newest first, is
compensated by the same three calls.

A step of a plan may also call another workflow. `call_submit` creates the child
in the transaction that records the step; the child is then claimed and driven
like any workflow, and its caller polls it with `call_inspect`, taking its
completion for the step's result and its failure for a rejection. When the
caller unwinds past a call, `checkpoint_reverse_child_reopen` turns the completed
child round, and `..._child_settle` waits until it has compensated itself.

The observer reads the workflow tables and writes nothing. The gates reset the
schemas of both systems and run their tests; the executor that runs a plan's
jobs belongs to the toolchain and is external.

## 2. Modules

| module | what it models |
|---|---|
| `SingularRegister` | what the store promises: a value per key decided at most once, by the last worker admitted |
| `Singular` | the procedures of the store; implements `SingularRegister` |
| `SingularProofs` | theorems about `Singular` |
| `Saga` | what a workflow promises its client |
| `Workflow` | the workflow procedures under open callers; implements `Saga` |
| `WorkflowProofs` | theorems about `Workflow`, and that it implements the saga and follows the lifecycle |
| `Lifecycle`, `WorkflowLifecycle` | `state.drift`, and its relation to the procedures |
| `Participant` | the reference participant; its items implement `SingularRegister` |
| `Drive` | composes `Workflow` and `Participant` with runners and faults |
| `DriveProofs` | theorems about `Drive` |
| `TreeSaga` | what a workflow that calls others promises its client: one saga over the whole tree |
| `WorkflowCall` | workflows that call workflows: the call procedures and the drives that use them; implements `TreeSaga` |
| `WorkflowCallProofs` | theorems about `WorkflowCall`: of a caller and its child, and of whole trees |
| `VizRequest` | one request to the observer, its reads one by one, over rows of any shape |
| `Viz` | the same request over the rows of `WorkflowCall`, which go on changing |
| `VizRequestProofs` | theorems about `VizRequest`: what answers are worth over rows of any shape |
| `VizProofs` | theorems about `Viz`: what answers are worth in any tree of calls |
| `Zipapp`, `ZipappProofs` | builds of the executable and their readers; theorems about them |
| `TestPlan` | the emitters: the toolchain floor, dependency resolution, and the plans |
| `Gates` | gates that share an instance, a lock and baselines; uses `TestPlan` |
| `GatesProofs` | theorems about `Gates`: any number of gates of any kinds over any tests |
| `MCSingular`, `MCWorkflow`, `MCDrive`, `MCWorkflowCall`, `MCVizRequest`, `MCViz`, `MCGates`, `MCZipapp` | instances for TLC |

Definitions whose comment says *Deviation* are plausible errors of the code
(a guard dropped, a comparison off by one). No action uses them: each is put in
the place of the definition it precedes to show that a property notices the
error.

### Singular

`head`, `current`, `terminal` are the columns `current_event_ts`,
`current_lease_token`, `terminal_lease_token` of the projection row, `history`
the history rows of a key. Each procedure is one action since it locks its
projection row and runs in one transaction. A call that only reports
(`exists`, `active`, `token_stale`, an error) changes nothing and is a
stuttering step. There are no workers: any call may come at any time, with any
token and any time, so a crashed, paused or repeating worker, or one whose clock
is wrong, needs no action of its own. `told` and `grants` record what callers
have been answered; no guard reads them.

The one condition on callers is that of `resume`: a recovery token is fresh for
its item (the comment at `sp_singular_resume.sql:32` leaves this to the
caller, and the gateway draws a new UUID).

### Workflow

`wf` is the row of `tb_mf_workflow`, `op` and `cp` the status of a step's
operation and checkpoint. `reversal_state` 1 is `active` or `dispatched`
according to `reverse_invocation_id`. Callers are open here too: any
executor issues any command under any token handed out so far.

Time is abstracted to what it does: a lease lapses, a back-off comes due, the
time part of a budget may or may not be used up, all at any moment. This adds
behaviours and removes none. `missed` counts the confirmed 404s only up to the
number they are compared to. `published` records the token of the last
publication; no guard reads it.

### Lifecycle

`state.drift` describes itself as the authority on transitions, but no procedure
can call it. `Lifecycle` transcribes its tables; `WorkflowLifecycle` says what
the procedures have to do with them. A move is compared in all three columns, state,
direction and disposition, and three moves of the procedures have no rule in the
table: a forward workflow with nothing to compensate fails at once
(`TrivialFailure`); a workflow of a single operation that failed is blocked as
failed (`ParkedAsFailed`), where the authority blocks as indeterminate only and
reverses what failed; an unwind is blocked as indeterminate (`UnsureUnwind`), where
the authority keeps the disposition. `FollowsLifecycle` names these three,
each under the condition the code makes them in, and allows no other.

### Participant and Drive

A `Participant` handler is granted an item, applies the body, completes the
item. It may die between any two steps, and go on after its sender is gone.
Not modelled: a participant that answers 202 before it asks Singular, and the
409 for a different input under the same id, since a runner always sends the
input it has stored.

A *driver* of `Drive` is one drive of one workflow: claim, choose the next step
from the store, bind it, send, read answers, publish, stop. Its name stands for
the executor and the fencing token of its claim together (in the code, all
drives of one service share an executor id and differ by their token). That is
why its `MaxClaims` is 0: tokens are not counted, the owner decides in `Holds`
what the token decides in the code. The faults are: a crash, a time-out, a PUT
that arrives after its sender is gone (`orphans`), a handler's death, a lease
that lapses under its holder, a lost route, a store out of reach (`PutOff`).

Two shortcuts of the procedures matter here. The replays of settle,
begin_reversal, authored_fail and reverse_settle answer *before* the fence is
compared, and `reverse_request` says `already_requested` to anyone: a driver
that lost its claim may go on as far as another one has come, and may send the
PUT of a compensation (`Replayed`, `FindBinding`). The procedure for a forward
request compares the fence first.

### WorkflowCall and TreeSaga

`WorkflowCall` extends `Workflow` with the procedures for calls and with drivers
as in `Drive`. A participant here just answers `done`, `rejected`, `pending` or
`unknown`; how that answer is obtained is the matter of `Drive`, and leaving it out
is what makes three workflows affordable. `Callee` says which step calls which
workflow. A child's identity is a function of its caller and its call site
(`_child_workflow_id_node`), so the tree is fixed, and `call_submit` repeated finds the
same child. `deployment` stands for the configured `max_call_depth` and for the
plan identities the recursion guard compares.

`CallSubmit`, `ChildReopen` and `ChildSettle` touch two workflows in one action
because the procedures lock and write both rows in one transaction.
`InspectChild` is an action of its own: what it reads may be out of date when
the drive publishes it, which the properties are about. `Notify` is the wake-up
by a child that ended; it holds no fence and may come at any time and any number
of times, or never. A refused call leaves no operation row, which is why
`CallRejected` does nothing but end the drive (see the disagreements).

`Line` is a workflow with everything above it, what the recursive query of the
recursion guard collects; it is written as the least set that is closed under
callers, since no recursive function can be proved about. `Tree` is everything a
root reaches.

`TreeSaga` sees no workflows, only the participant operations of the tree
(`Effects`) in the order in which the plans, calls spelled out, make them: `Earlier`
says of each which come before it. An effect is made when exactly those before it
stand, and taken back when exactly those before it are left.

### VizRequest and Viz

`h` is one request: the step its handler is at, its connection (`unchecked` when the
check for UTC itself raised, in which case nobody closes it), the reads that
are left (`todo`), what has been put in the answer (`shown`, `answer`). A
request runs in its own thread with its own connection and shares nothing with
others, so one is enough. Connections run in autocommit mode: every SELECT is an
action of its own and sees the rows of its own moment. The recursive walks of
`dbq.py` are the stack `todo`: reading the calls of a node leaves its children to be
visited after the node's other tables, and each child visited, in the order of
`operation_seq`, puts its own reads in front of the rest, as the Python recursion does.
Ids carry the spelling in which Python compares them, since the id of the request
is not normalised and those read from the database are. The clock that judges leases and
schedules is that of the first node read, so a verdict on a child may use a clock that
is out of date, in one direction only (`JudgedLive`, `JudgedDue`).

`VizRequest` leaves the rows alone: `MCVizRequest` has it answer over any of a
set of databases, corrupted ones included. `Viz` makes the rows those of
`WorkflowCall` and lets the engine take any number of steps between two reads.

### TestPlan and Gates

`TestPlan` holds what is computed once: whether an emitter gets past the floor and
the resolution (`Emits...`), and each plan as its build, unit and live
jobs. A job is reduced to the binaries it needs, the schemas it wants and gives, its
place in the order of its group, and the lane of its fixture namespace. `Gates`
runs the scripts: `Script` lists the steps of each recipe, `Plan` the plan it
emits, `gate` how far each invocation is. `key` is who holds which lock, `db` the
shape of each schema, `rows` what live tests leave behind. A reset makes a
schema `torn` until it ends. The executor is external; it is modelled by
what the plans rely on: one live job of a group at a time, in order, under the
group's lock, jobs without their binary skipped, going on or stopping after a
failure. A kill takes the script and what it started, since `flocker` and the
executor are in its process group.

### Zipapp

An inode with a name is modelled as such: `artifact` is the inode under the
target's name, `heap` what is in each, `pending` the temporary names. Each step of
`build_zipapp.py` that can fail by itself is an action; `Raise` is an exception or an
interrupt anywhere, `Kill` a kill. `Edit` changes sources, version or virtual
environment under a running build. A build interrupted between `mkstemp` and the
`try` leaves its temporary file behind (`Unlinked`), which no property forbids: the
artifact is not affected.

## 3. Runs

| run | instance | shows |
|---|---|---|
| `singular` | 1 key, 3 tokens, 2 documents, times 1 to 6 | the store's history, fencing, leases and answers, and that it implements the register |
| `workflow` | 1 workflow, 2 executors, a plan of 3 steps of at most 4, budget of 2 attempts, 5 claims; 25 000 states | what final states mean, fencing, agreement with the lifecycle authority but for three moves, and that the procedures implement the saga |
| `drive` | 1 workflow, 2 drivers, 2 steps, 5 scenarios, 2 faults, no symmetry; 171 000 states | the store against the participant; the participant's items are a register; every workflow ends |
| `calls` | 3 workflows in a chain of calls, 2 drivers, 2 faults, 3 deployments; 713 000 states | callers against children, and that a tree of calls implements one saga |
| `calls_end` | the same, calls never refused, 1 fault; 187 000 states | every tree of calls ends |
| `viz` | the chain of 3 workflows, 1 driver, 1 fault, observed by `tree` and `stuck` requests about the root | answers put together while the engine moves |
| `viz_walk` | 3 workflows with any of 1056 sets of rows, every endpoint, depths 0 to 2, both spellings; 691 000 states | walks are whole, descents get to the end, every request is answered |
| `gates` | 2 gates, 30 worlds, 1 failing job, 1 kill; 234 000 states | schemas under tests, earned passes, fixture isolation, gates end |
| `zipapp` | 2 builds, 1 reader, 2 revisions, 1 edit; 1 275 000 states | the artifact is whole, and the same for the same inputs |
| `call_rejected`, `viz_stuck_stale` | `calls` and `viz` with one property | disagreements, below |
| `gates_direct` | the two worlds of `gates` with a direct run beside a recipe | a disagreement, below |

*Why these bounds.* But for calls, items and workflows do not interact: a
procedure reads and writes the rows of one key. One of each is enough. Three
tokens give a claim, a claim that supersedes it and one more; six times let an
item be claimed, extended, superseded and settled with every order of the
deadlines. Three steps have a first, a middle and a last, and a fourth step of
the model lies beyond the plan. Five claims allow a superseded holder at every
phase. In `drive`, every attempt of an operation beyond the first costs a fault,
so `MaxAttempts = MaxFaults + 1` cuts nothing off; two faults are
a crash or a lapse and something that goes wrong because of it, and the safety properties
are proved for any number (section 4); `MinAttempts = 1` is the
least the configuration accepts and makes the block reachable within the faults.
The five scenarios are a plan that returns, one that ends in an authored fail, a
last step that is refused, one that answers 200 without a result, and a
compensation that is refused.

In `calls` the root calls `mid` as its second step, so that it has an effect of
its own to compensate after the child; `mid` calls `leaf` first and then does an
operation, so that it may fail with a completed child beneath it. A workflow in
the middle of the chain is caller and child at once. The three deployments are
one that admits the chain, one whose depth limit refuses the second call, and
one in which `leaf` is the root's own script, so that the call is refused. Two
drivers allow a superseded drive beside a current one, for each workflow and
across two.

In `viz`, with three levels, a verdict may be the root's own, handed up by a
child, or handed up through one; one fault suffices to block a workflow
(`MinAttempts = 1`). Observers do not write, so one request at a time loses
nothing. In `viz_walk` the rows have circles of length one to three, one child
called from two places, children that are missing and each cause of each verdict;
depths 0 to 2 lie before, at and beyond the ends of the chains. In `gates` the pairs
are the ones that share the lock in different ways: a combined gate
with the one that resets for the coordinator; two that reset different
systems; two performance gates on one baseline; two direct runs, which hold no
lock around the recipe and rely on the executor's key alone; and a direct run beside
a recipe, one that resets the same schema and one that does not. The surroundings are each lane, and each lane
with one thing wrong. Costs 1, 3 and 4 are the record, the limit and beyond it.
Two builds race for the same name in `zipapp`; the reader may open and read
at any two moments.

All runs disable the deadlock check: workflows, requests, gates and builds end,
and tokens, times and claims are finite.

*Properties.* `Singular`: `AnswersAgree` (one outcome, the same for all),
`Fenced`, `ExclusiveUntilDeadline`, `ProjectionSummarisesHistory`,
`AttemptsAreNumbered`, `ImplementsRegister`. `Workflow`: `OutcomeMeaning`,
`OnlyLatestClaimPublishes`, `FollowsLifecycle`, `ImplementsSaga`. Invariants of
these two modules that are proved and that no run needs to repeat are
`OutcomeIsLast`, `TerminalIsImmutable`, `RowsRepresentable`, `PlanOrder`,
`UnwindOrder`, `TriggerNeverSucceeded`, `BudgetBeforeBlock`, `FinalRowsStay`.
`Drive`:

* `CheckpointIsBacked`: what the store records as done was done, exactly once,
  and the participant remembers it.
* `OutcomeIsTrue`: a completed workflow has every effect once, a reversed or
  failed one has none that is not compensated.
* `CompensatedInReverse`, `NoLateEffect`: no compensation while a later effect
  stands; no forward effect after the workflow has turned round.
* `FailedForCause`: only the participant's rejection starts an unwind.
* `EventuallyEnds`: no combination of faults makes a workflow wait for ever.

`WorkflowCall`:

* `CallAgreesWithChild`: a call that counts as done is a child that completed,
  until the unwind comes to it; a call taken back is a child that compensated; a
  call blamed for a reversal is a child of which nothing stands.
* `NoOrphans`: a child that has not ended has a caller waiting at that very call.
* `OutcomeOfTheTree`, `ImplementsTreeSaga`: the outcome of the submitted workflow is
  the outcome of everything beneath it, and effects are taken back in the
  opposite order across workflows.
* `TreeStays`: after the end, no late drive and no late report changes the tree.
* `TreeEnds`: a tree of calls ends, or one of its workflows is left to a person.

`Viz` and `VizRequest`:

* `BlockIsFound`: what was blocked before the question is named by every verdict
  about it or anything above it, unless somebody holds a lease on the way.
* `VerdictsThatStay`: `terminal` for a root and `blocked_resolution` are still
  true when the answer arrives, however old the reads.
* `TreeTellsOneOutcome`: rows read one after the other still tell one outcome.
  It rests on reading a caller before its children: when the caller has ended, what
  is beneath it has too, and a row read later cannot disagree.
* `WalkIsWhole`: over rows that stand still, a walk shows every chain of calls to the
  depth asked for, and stubs where it stops; a circle or a missing row cuts only its own branch.
* `DescendsToTheEnd`: the descent for a verdict ends at a workflow below which nothing is unfinished.
* `RequestEnds`: circles do not keep a handler busy for ever.

`Gates`: `RunsOnItsSchema` (no job's schemas are replaced under it, and they were
put in place by its own gate; a direct run resets nothing and takes another lock, so for
its jobs this lasts only until a recipe that resets the schema gets the lock), `NamespacesAreVirgin` (no live test meets its own
earlier rows, which Singular would answer from), `OutcomeIsEarned` (a pass
has run everything required without a fault, against a recorded cost that a
person asked to record; a failure has a cause), `GatesEnd`. `Zipapp`:
`ArtifactIsWhole`, `SameInputsSameArchive`.

`HasCompensated`, the check of the settling procedure, is a second line of
defence: the drive does not ask to settle before it has seen the child end.
Weakening that check alone breaks no property.

`NoLateEffect` holds although PUTs arrive late because a workflow turns round
only on the step's own definite answer, after which its item is settled or was
refused. A 200 without a result counts as a rejection although the
body ran; the participant contract (4.1) has that effect stay, and the
properties exempt it (`Stranded`).

*Fairness.* In `drive` and `calls_end`, a pending workflow is driven again: the user
guide (section 8) has the caller re-invoke with the same id. A driver, and a
handler that does not die, take their next step. The clock goes on: leases of
the dead lapse, back-offs come due. An outage ends. Strong fairness of
`Redispatch` says that the redispatch interval passes: a workflow that is
polled again and again is not always polled within the interval. Faults are
bounded and never required. In `calls_end` someone asks again for every pending
workflow, the child included: no drive of a caller drives its child, the outcome
`Pending` names the child for this purpose, and the runner does not look for
work by itself. There it is strong fairness of `StartDrive` for each workflow,
since with two drivers and three workflows a runner is not free all the time.
Nothing is assumed of `Notify`: polling suffices, as `sp_mf_child_terminal_notify.sql`
claims of itself. `RequestEnds` assumes that a request's thread runs and that each
call of the database driver returns or raises: the observer sets no time-out for
reads, so a server that neither answers nor drops the connection holds its thread. It
does not assume that the database can be reached. `GatesEnd` assumes that a started script runs on, and that
what it starts ends; a gate that waits for a lock is not enabled, so that nothing is
assumed of the lock being fair: there are finitely many gates and each gives its locks back.

### Disagreements between text and code

Each of these runs checks one sentence of the repository and finds a
behaviour of the code that contradicts it.

| run | the text | the code |
|---|---|---|
| `call_rejected` | `runner.drift:2458-2459`: a rejected call is a rejected forward step, and leads to reversal | the refused call has no operation row, `begin_reversal` finds none, the drive aborts with its lease held, and so does every later one |
| `gates_direct` | `singular/drift/tools/emit_test_plan.py:13-15`: one database access at a time across this gate and any concurrent lane; `singular/drift/justfile:28-29`: the umbrella recipe holds that key | the recipes hold `drift-workflows-mdb` (`tools/cert-env.sh:34`), a direct run serialises on `mariadb-mdb114-a`: a recipe resets the schema under a running live test |
| `viz_stuck_stale` | the detail of the verdict `reconcile_pending` in `dbq.py`: the budget "is being spent" | the query does not ask whether the row that carries the counter is settled; after a recovery that succeeded the verdict is given for the rest of the workflow, and hides `claimable_now` and `scheduled_retry` |

Found while reading, with no run of their own. About the engine:

* `singular-protocol.md:260`: extend_lease "advances" expiry. Any deadline after the
  event time is stored, also an earlier one.
* `tb_mf_workflow.sql:43-45`: every publication re-validates the unexpired lease. Only
  the heartbeat compares the deadline; publications compare owner, token and state.
* `state.drift:241`: the single authority for the lifecycle machine. The procedures make
  three moves it has no rule for, which `FollowsLifecycle` names (section 2, Lifecycle):
  `sp_mf_workflow_begin_reversal.sql:137` and `sp_mf_workflow_authored_fail.sql:106` go
  from forward to failed; `sp_mf_operation_fail.sql:104-108` blocks a failed forward workflow
  as failed (`state.drift:303-314`, `368`: reversing, or blocked as indeterminate);
  `sp_mf_checkpoint_reverse_block.sql:143` and `..._reconcile_defer.sql:168` block
  an unwind as indeterminate (`state.drift:371`: the disposition stays).
* `tb_mf_workflow.sql:116-117`: a blocked row carries the cause of its reversal, or a
  forward indeterminate. After those last two procedures the cause is lost; the CHECK
  below the comment does not compare the direction, so the row is stored.
* `state.drift:102`: a workflow blocked in reverse can go on reversing. One whose
  disposition is indeterminate would become a row that the schema refuses; no
  procedure resolves blocks yet.
* `microflows_design.md:464`: a step blocked as indeterminate never executed. It may
  have, if its answer was lost before its route was.
* The header of `sp_mf_workflow_begin_reversal.sql` (lines 13-14) has a
  reversal with nothing to compensate go "straight to reversed"; the procedure makes
  the workflow failed. `0001_terminal_failed_state.sql:15` explains that state
  as "nothing unwound", written before there were calls: a caller whose first step is
  a call to a child that fails and compensates itself ends in it too.
* `singular-protocol.md` section 6.1 has `start` on a settled item replay its outcome;
  the procedure answers `exists` and leaves the replay to `resume` or `inspect`. Its
  section 5 has the backend be the source of time; event times come from the callers.

About the tools:

* A timeline asked for with upper-case hex digits fails with a 502: `server.py:55`
  lets the spelling through, `dbq.py:400` looks rows up under the lower-case one.
* The comment at `dbq.py:295-297` on `reversal_state` does not fit the schema's
  values; the detail of `blocked_resolution` speaks of a reversal also when the
  block was met going forward.
* `integration/.../README.md:73` names the lock of the recipes differently again.
* `dbq.connect` closes a connection whose clock is not UTC, but not one on which the
  check raises (`dbq.py:109`, `118`): the handler's `finally` is not reached, and the
  connection is left to the garbage collector.
* The root `justfile:34-47` sets its `EXIT` trap and then `exec`s, so the trap, which is to restore
  the entry state, does not run. Lines 145-149 explain this for another recipe.
* `--update-baseline` cannot repair a baseline file that was torn: it is loaded
  first (`perf_gate.py:63`).
* `export_events.py` uses `seq` before any definition.

## 4. Proofs

All theorems hold for every value of the constants that meets the assumptions
in the modules: any keys, tokens, documents and times; any workflows, executors,
plan lengths, budgets and number of claims; any drivers, verdicts of the
participants, endings of the plans, attempts, late PUTs and faults; any trees of
calls and deployments; any requests about them; any builds, readers, revisions and edits;
any gates at once, of any kinds, with any tests, costs, failing jobs and kills.

**Singular.** `IInv` strengthens the checked invariants by what the procedures
rely on: the history is finite, a working event has a deadline, an answer has a
document, and every event was written by the token of a claim at or before it
(`EveryEventIsClaimed`). The last is what makes `Fenced` inductive: a new
event of the current token is then covered by the current claim, which is the
latest. `StepShape` reduces every action to one of two shapes, handing out a
document (`Hands`) or appending one event under stated conditions (`Writes`);
the conjuncts are then proved preserved by the shapes, not by the
procedures. `AttemptsAreNumbered` needs that a claim hands out the number of the
claims already made, and that no other step makes a claim. `Refinement` maps each shape to a step of the register or a
stutter. A lease extension maps to a stutter.

**Workflow.** `WorkflowProofs` describes each procedure by the move it makes on
the row of its workflow (`Shape`: nine moves such as `SettleMove`, `UndoMove`,
`GiveUpMove`), proves each procedure an instance of its move, and proves the
invariant for the moves. The checked invariants are inductive together but for
one gap, which `NotUnwinding` closes: before a workflow turns round it has no
trigger and no compensation is bound, and before it is submitted it has no
operations. Without it `begin_reversal` could start from a state in which a
checkpoint is dispatched already. The same moves give
`ImplementsSaga` and `FollowsLifecycle`. For the latter each kind of move is given the
rule of the authority's table that yields its state, direction and disposition
(`MovesAreLegal`), except giving up with nothing to compensate, parking a failed single
operation, and getting stuck without knowing the outcome; that these are the only ones
is what the theorem says.

**Drive.** `DriveProofs` proves what the runs of `Drive` check in every state:
`CheckpointIsBacked`, `OutcomeIsTrue`, `CompensatedInReverse`, `FailedForCause`,
`NoLateEffect` and `ServiceIsARegister`. None of them is inductive, for each
relates the store to a participant, and what connects the two is in the hands of
a driver: an answer read before, published later, perhaps by a driver that has
lost its claim. The invariant `DInv` follows that evidence. What a participant
has recorded is final (`DoneOp`, `Refuted`, from `Sound`); a driver carries only
answers the participant would give again (`Truthful`); the store records only
what a driver carries (`Caused`). In the other direction, nothing is sent or
executed whose request the store has not recorded (`Bound`, and `Truthful` for a
PUT under way). `Turned` says what the direction of a workflow tells of its
rows, and `IInv` of `WorkflowProofs` is a part, so that its moves can be used
again: each action of `Drive` writes the store or a participant, never both, and
those that write the store are a procedure of `Workflow` and a change of one
driver. `NoLateEffect` then follows because a workflow turns round only at a
refuted operation, after every earlier one is done and before any later one is
sent.

**WorkflowCall.** `WorkflowCallProofs` proves `CallAgreesWithChild` and `NoOrphans`,
and that every workflow of a tree keeps the invariant of `WorkflowProofs`
(`CallsKeepTheEngine`). That is no matter of course: a call writes two rows, and a
reopening turns round a row that had ended, which none of the nine moves does.
Seen from the store a step is one workflow's move (`Alone`, `Born`), a caller's and
its child's together (`Called`), a child turned round (`Reopened`), or nothing but
a wake-up (`Idles`). The invariant `CInv` has three parts besides `IInv`.
`Linked` says of one call what the caller's rows and the child's state may be together. It
adds to the two checked invariants that no child exists before its call and that
nothing is dispatched for one. `Blamed` says that a step under way when a workflow
turned round is the one it is blamed on; without it an unwind might
leave a call behind that still runs. `Honest` says what a driver has seen of a
child, which lasts until it publishes: `reversed` and `failed` are final, and a
child that completed is not reopened before its call has been settled. Each link is kept
because a step moves only the child on (`GoesOn`) or moves only the caller, and a caller
past a call only with the child's outcome (`Awaits`). Two things are assumed of the
tree: nobody has two callers, and nobody calls itself. `CallsSettleTheOutcome`
is `OutcomeOfTheTree` for one call.

**Trees.** The second half of `WorkflowCallProofs` carries what `CInv` says of one call to any depth. No new invariant
is needed: each fact about a tree is shown in every state by an induction along a
line of calls. The induction is the definition of `Line`: a set that has a workflow
and is closed under callers contains all above it (`LineBy`), so it is enough
to show that the workflows of which the fact holds, or the complement of them, are such
a set. `TreeSettlesTheOutcome` is `OutcomeOfTheTree`: below a completed
workflow all is completed (`BelowCompleted`), below one that reversed or failed
nothing stands. `EndedTreesAreLeft` is `TreeStays`: a step on a workflow below the root
needs a caller that waits at the call, hence one that has not ended, and so on
up to the root. `TreeIsASaga` is `ImplementsTreeSaga`, the refinement. Its core is
`StandsAtTheWait`: while the root has not ended, the workflows under way form one line,
each waiting at its call for the next (`NoOpenChild`, `Deepest`), so that the effects
that stand are exactly those planned before the step at which the deepest waits. Each move
of `WorkflowProofs` at the deepest workflow is then a step of the saga, and the steps
that join caller and child (a call submitted, a child reopened or settled) are
stutters.

**Zipapp.** `Inv` is `ZipTypeOK`, `Progress` and `HoldsWholes`. That the
artifact is whole is not inductive: it says nothing of an inode before it gets its
name. `Progress` says how far each build has come: once staged nothing is missing,
what is staged and not yet written together with what is written is all of the
archive, a finished build's inode is whole and executable, and the inode of the committed executable
never changes. `HoldsWholes` says that a name, or a program, only ever holds
the committed inode or that of a finished build; since no step writes to either,
what a program reads later is whole too. `Reproducible` adds the contents, for
`SameInputsSameArchive`: what has been staged follows from the inputs the build began
with (`StagedAsBegun`), which are the present ones as long as none has changed under it
(`BeganWith`), and each entry written lies at the position that the number of entries before
it in sorted order gives it (`SortedArchive`). Two complete archives of the same entries
are then equal position by position. This needs that no two entries have the same
rank, which the entries' paths, being distinct, give.

**Viz.** `VizProofs` proves `BlockIsFound`, `VerdictsThatStay` and `TreeTellsOneOutcome`
for requests to a live engine: any tree of calls, any depth, any number of
steps between two reads. `VInv` is the engine's invariant and what the handler holds.
An answer is true of no one moment, so `HandlerInv` keeps of each read only
what no step takes back: that a workflow exists, that a call was made, that one is
blocked, that a submitted one has ended (`Lasts`, `MadeCalls`). `Later` says
this of two moments of the store, and `HandlerLater` that all of `HandlerInv`
survives it; what is left is one lemma for each read, at one moment.
For a walk, `Told` and `OneStory` say what has been shown and that it fits the
state shown of the root: when that has ended, so has all beneath
(`BelowCompleted`, `BelowNothing` of `WorkflowCallProofs`), also what is read later. For a
descent, `Descends` says, read by read, that every blocked
workflow that was to be found is still at or below the node (`AllBelow`), or below one of the
calls left to look at. It is not passed over, since on the way to something blocked
exactly one call of each workflow is open (`OneWayDown`), its child exists
(`ChildrenExist`), and no line of calls returns to itself (`NoCircles`): the guard against
circles never fires over the rows of the engine. The read of the calls is one of several in an
`inspect`, and `WalkTasks` keeps that the reads which come after it are still to be made.

**VizRequest.** `VizRequestProofs` proves `VizTypeOK`, `WalkIsWhole` and
`DescendsToTheEnd` for any set of rows that stands still: no engine is assumed, so
there may be circles of calls, calls of missing workflows, several callers of one.
The invariant `RInv` says what a handler still owes. In a walk, every wanted line has been shown
or a read that is left will come to it (`Owed`): the row of the workflow asked
for, the calls of a workflow on the line, or a child not yet visited of one
(`Awaited`). What has been shown is wanted and has the right state or stub
(`ShownRightly`). When nothing is left to read the two make the answer whole, and the
argument holds for any depth without an induction, since each read hands its debts
on to the reads it adds: a row to its calls, the calls to the children, a child to its
own calls, while a stub has nothing beneath it (`StopsThere`). In a
descent, the line so far follows the first unfinished call of each workflow
(`Follows`), and every unfinished call of the node is among those left to look at
(`Descends`). When the first of these is unfinished it is the first unfinished one;
when none is left, nothing below is unfinished. `StandsStill` takes the invariant
from the rows as they are to the rows after the step, once for all steps; what remains is
one lemma for each read, about the handler alone. The invariant was model-checked
in `viz_walk` before it was proved.

**Gates.** `GatesProofs` proves `GatesTypeOK`, `RunsOnItsSchema`, `OutcomeIsEarned` and
`NamespacesAreVirgin` for any number of gates at once. The first part of the module is about the
plans, without any state: each is a chain of jobs in one group (`Chain`), each job reads the
schemas of its component or is one of the resets (`LiveFits`), the combined plan has them
in order (`RootJob`), the jobs of a plan cover what its gate is there to run
(`PlansCover`), and each script takes its steps in the order its steps rely on (`Orders`).
The invariant `GInv` says what of this a running gate has behind it. `StepsDone`: each step
before the present one has attempted all it is there for, and what was
attempted and did not run is a fault or lacks the binary of one (`Accounted`); a gate at
its last step without a fault has run all that is required. `InPlace`: once a
reset is behind a gate, the schemas it loaded are as it left them. This is not
inductive for one gate, since another might reset them; `LocksInv` closes the gap, as
every script that resets holds the lock from before its first reset to its end (`SchemasMove`).
In the combined chain the coordinator's schemas replace the product's halfway;
`InOrder` says that all other tests have been attempted by then. `RowsInv` says whose rows
there are: rows of a gate that still runs are those of jobs it has attempted, and an
attempted job is not started again. `BaselineInv` says that a recorded cost is the first one or one
measured by a gate that was asked to record, and that a missing one was missing or torn
by a kill. Each action is then one lemma. One assumption is about the surroundings: the live
tests of a component work on the schemas that its reset loads. Nothing is assumed about which
gates run together. A direct run holds no lock that the recipes respect, so `SchemasInv`
says of all schemas that one has its first shape until a gate that resets it has had
the lock (`Disturbed`), and that is all `JobsRunOnTheirSchemas` promises to the jobs of a
direct run; to those of the recipes it promises the whole, also beside direct runs,
which reset nothing.

**Only model-checked.** Liveness (`EventuallyEnds`, `TreeEnds`, `RequestEnds`, `GatesEnd`),
which is out of the prover's reach.

## 5. Not modelled, and the plan

Not modelled: the hint `child_status` that calls keep for display, the IR and the
parser, the gateway's and host's handling of connections and malformed answers,
configuration, admission and service loops, wall-clock arithmetic (budgets by
elapsed time, event-time skew). Of the tools: the browser pages, the formatting of
answers, the stress harness and the event export, the plans of `one`,
`compile` and `stress`, starting and stopping the database instance. The
reference participant's memory of applied operations does not survive its
process; that restart is not modelled, since a participant is to make its effect
durable itself.

What would come next:

1. `Timers`: the procedures' arithmetic on event times, `defer_until`, the
   redispatch timer and the elapsed-time budget with an explicit clock, under
   readings that are out of date.
2. `Advance`: the IR's graph, its checks and its advance function against a
   reference definition over small graphs.
3. `Gateway`: outcomes of a commit whose acknowledgement is lost, and of
   retries after a deadlock, against `SingularRegister`.
