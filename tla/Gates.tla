------------------------------- MODULE Gates -------------------------------
(* Test and performance gates that run at the same time against the one      *)
(* MariaDB instance.  A gate is a shell script: it takes the host-wide lock, *)
(* resets schemas, emits a plan, lets the executor run it, and works on the  *)
(* database itself.  The executor belongs to the toolchain and is external:  *)
(* it runs a group's live jobs one at a time in their order, each under the  *)
(* lock named by the group, skips a job whose binary is missing, and after a *)
(* failure goes on or stops.  Any job may fail and any gate may be killed.   *)
EXTENDS TestPlan

CONSTANTS
    Gates,          \* invocations
    Worlds,         \* [kind : the gate of each invocation, env : what the
                    \*  emitters find, db : the schemas found at the start,
                    \*  baseline : the recorded costs]
    DbLock,         \* DB_LOCK, held around setup and tests
    NoGate,
    Costs,          \* measured costs
    MaxFaults,      \* bound: jobs that fail by themselves
    MaxKills        \* bound: gates killed

Kinds == {"root", "singular", "microflows", "integration", "direct",
          "cycles", "cycles-update", "drive", "drive-update"}

Suites == {"cycles", "drive"}

\* The gate of a suite with --update-baseline.
Update == [suite \in Suites |-> IF suite = "cycles" THEN "cycles-update" ELSE "drive-update"]

Updates == Range(Update)

\* A machine's baseline file: 0 is no record, a torn file does not load.
Torn == [readable |-> FALSE, cost |-> 0]

Baselines == [readable : {TRUE}, cost : Costs \cup {0}] \cup {Torn}

ASSUME GatesAssumption ==
    /\ NoGate \notin Gates
    /\ DbLock \notin {SharedKey, HeldKey}
    /\ Costs \subseteq Nat \ {0}
    /\ Worlds \subseteq [kind : [Gates -> Kinds], env : Surroundings,
                         db : [Schemas -> Shapes], baseline : [Suites -> Baselines]]
    /\ MaxFaults \in Nat /\ MaxKills \in Nat

VARIABLES
    world,      \* the world, chosen once
    db,         \* the shape each schema is in
    rows,       \* what earlier live jobs left: <<schema, test, namespace>>
    key,        \* the gate holding each lock
    baseline,   \* the recorded cost of each performance scenario
    gate        \* each invocation

vars == <<world, db, rows, key, baseline, gate>>

NoJob == [id |-> <<>>]

Kind(g) == world.kind[g]

-----------------------------------------------------------------------------
(* The scripts.                                                              *)

Script ==
  [kind \in Kinds |->
    CASE kind = "root" ->
            <<"lock", "emit", "build", "unit", "live", "reset-microflows", "viz">>
      [] kind = "singular" ->
            <<"lock", "reset-singular", "emit", "build", "unit", "live">>
      [] kind = "microflows" ->
            <<"runner", "lock", "reset-microflows", "emit", "build", "unit", "live",
              "sp-operation", "sp-call", "call-integration">>
      [] kind = "integration" ->
            <<"emit", "build", "lock", "reset-coordinator", "harness">>
      [] kind = "direct" -> <<"emit", "build", "unit", "live">>
      [] kind \in {"cycles", "cycles-update"} ->
            <<"lock", "reset-singular", "emit", "build", "cycles">>
      [] OTHER -> <<"emit", "build", "lock", "reset-coordinator", "drive">>]

Step(g) == Script[Kind(g)][gate[g].at]

\* Deviation: the Singular gate hands its own lock to its jobs.
PlanOnTheLock == [kind \in Kinds |-> SingularPlan(DbLock)]

\* The plan a gate emits: one that holds the lock passes the held key on.
Plan ==
  [kind \in Kinds |->
    CASE kind = "root" -> CombinedPlan
      [] kind = "singular" -> SingularPlan(HeldKey)
      [] kind = "microflows" -> MicroflowsPlan(HeldKey)
      [] kind = "direct" -> SingularPlan(SharedKey)
      [] kind \in {"cycles", "cycles-update"} -> PerfPlan
      [] OTHER -> IntegrationPlan]

\* What an emitter finds before it writes a plan: the floor, by itself and
\* again with each resolution, and the two declared versions of uflowsd.
Emits(kind, e) ==
    CASE kind = "root" -> EmitsCombined(e)
      [] kind \in {"singular", "direct", "cycles", "cycles-update"} -> EmitsSingular(e)
      [] kind = "microflows" -> EmitsMicroflows(e)
      [] OTHER -> EmitsIntegration(e)

\* The steps of a script that work on the database outside the plan.
DbSteps ==
    {ResetSingular, ResetMicroflows, ResetCoordinator, CoordinatorHarness}
    \cup Range(SpRegressions)
    \cup {DbJob(<<"viz">>, {}, On({"microflows"}, "product"), NoSchema),
          DbJob(<<"cycles">>, {<<"singular-perf">>}, On({"singular"}, "product"), NoSchema),
          DbJob(<<"drive">>, {<<"participant-stub">>, <<"uflowsd">>},
                ResetCoordinator.gives, NoSchema)}

DbStep == [step \in {j.id[1] : j \in DbSteps} |->
              CHOOSE j \in DbSteps : j.id = <<step>>]

IsDbStep(g) == Step(g) \in DOMAIN DbStep

\* Deviation: the nonce of the invocation is dropped.
LaneNamespace(g, job) == <<job.lane>>

\* What tells one job's rows from another's: the invocation and the lane.
Namespace(g, job) == <<g, job.lane>>

Leaves(g, job) ==
    IF job.lane = "none" THEN {}
    ELSE {<<s, job.id[1], Namespace(g, job)>> : s \in DOMAIN job.wants}

-----------------------------------------------------------------------------
Init ==
    \E w \in Worlds :
        /\ world = w
        /\ db = w.db
        /\ baseline = w.baseline
        /\ rows = {}
        /\ key = [k \in {DbLock, SharedKey, HeldKey} |-> NoGate]
        /\ gate = [g \in Gates |->
                      [state |-> "idle", at |-> 1, job |-> NoJob, cost |-> 0,
                       tried |-> {}, ran |-> {}, faults |-> {}]]

Released(g, keys) == [k \in DOMAIN keys |-> IF keys[k] = g THEN NoGate ELSE keys[k]]

\* The gate after a step: at the next one, or done when there is none.
Advanced(r, kind) ==
    IF r.at = Len(Script[kind]) THEN [r EXCEPT !.state = "passed", !.job = NoJob]
    ELSE [r EXCEPT !.at = @ + 1, !.job = NoJob]

\* Deviation: the lock outlives the script.
ProceedHolding(g, r) ==
    gate' = [gate EXCEPT ![g] = Advanced(r, Kind(g))] /\ key' = key

\* g moves on from its step with record r; a script's end drops its locks.
Proceed(g, r) ==
    LET after == Advanced(r, Kind(g))
    IN  /\ gate' = [gate EXCEPT ![g] = after]
        /\ key' = IF after.state = "passed" THEN Released(g, key) ELSE key

\* `set -e`: the first failing command ends the script and drops its locks.
Abort(g, r) ==
    /\ gate' = [gate EXCEPT ![g] = [r EXCEPT !.state = "failed", !.job = NoJob]]
    /\ key' = Released(g, key)

At(g, steps) ==
    gate[g].state = "running" /\ gate[g].job = NoJob /\ Step(g) \in steps

Start(g) ==
    /\ gate[g].state = "idle"
    /\ gate' = [gate EXCEPT ![g].state = "running"]
    /\ UNCHANGED <<world, db, rows, key, baseline>>

\* flocker: not re-entrant.
TakeLock(g) ==
    /\ At(g, {"lock"})
    /\ gate[g].tried = gate[g].ran
    /\ key[DbLock] = NoGate
    /\ gate' = [gate EXCEPT ![g] = Advanced(@, Kind(g))]
    /\ key' = [key EXCEPT ![DbLock] = g]
    /\ UNCHANGED <<world, db, rows, baseline>>

\* The runner's own tests and build, before the lock; --check-floor first.
TestRunner(g) ==
    /\ At(g, {"runner"})
    /\ IF MeetsFloor(world.env)
       THEN Proceed(g, [gate[g] EXCEPT !.tried = @ \cup {<<"microflows-runner">>},
                                       !.ran = @ \cup {<<"microflows-runner">>}])
       ELSE Abort(g, gate[g])
    /\ UNCHANGED <<world, db, rows, baseline>>

Emit(g) ==
    /\ At(g, {"emit"})
    /\ IF Emits(Kind(g), world.env) THEN Proceed(g, gate[g]) ELSE Abort(g, gate[g])
    /\ UNCHANGED <<world, db, rows, baseline>>

-----------------------------------------------------------------------------
(* The executor.                                                             *)

MayFail == Cardinality({g \in Gates : gate[g].faults # {}}) < MaxFaults

\* Some of the jobs fail: none of them, or one.
Failing(ids) == {{}} \cup (IF MayFail THEN {{i} : i \in ids} ELSE {})

Attempted(r, ids, bad, skipped) ==
    [r EXCEPT !.tried = @ \cup ids, !.ran = @ \cup (ids \ (bad \cup skipped)),
              !.faults = @ \cup bad]

RunBuild(g) ==
    /\ At(g, {"build"})
    /\ \E bad \in Failing(Plan[Kind(g)].build) :
          Proceed(g, Attempted(gate[g], Plan[Kind(g)].build, bad, {}))
    /\ UNCHANGED <<world, db, rows, baseline>>

RunUnit(g) ==
    LET jobs == Plan[Kind(g)].unit
        skipped == {j.id : j \in {u \in jobs : ~(u.needs \subseteq gate[g].ran)}}
        runnable == {j.id : j \in jobs} \ skipped
    IN  /\ At(g, {"unit"})
        /\ \E bad \in Failing(runnable) :
              Proceed(g, Attempted(gate[g], runnable \cup skipped, bad, skipped))
        /\ UNCHANGED <<world, db, rows, baseline>>

\* The live jobs not yet attempted that no pending job of the group precedes.
Ready(g) ==
    LET pending == {j \in Range(Plan[Kind(g)].live) : j.id \notin gate[g].tried}
    IN  {j \in pending :
            \A k \in pending : k.group = j.group => j.order <= k.order}

SkipLive(g) ==
    /\ At(g, {"live"})
    /\ \E j \in Ready(g) :
          /\ ~(j.needs \subseteq gate[g].ran)
          /\ gate' = [gate EXCEPT ![g] = Attempted(@, {j.id}, {}, {j.id})]
    /\ UNCHANGED <<world, db, rows, key, baseline>>

\* A job starts on the schemas: a reset drops what it replaces.
BeginJob(g, j) ==
    /\ gate' = [gate EXCEPT ![g].job = j]
    /\ db' = [s \in Schemas |-> IF s \in DOMAIN j.gives THEN "torn" ELSE db[s]]
    /\ rows' = {r \in rows : r[1] \notin DOMAIN j.gives} \cup Leaves(g, j)
    /\ UNCHANGED <<world, baseline>>

\* The executor takes the lock its group names, around each job.
BeginLive(g) ==
    /\ At(g, {"live"})
    /\ \E j \in Ready(g) :
          /\ j.needs \subseteq gate[g].ran
          /\ key[j.group] = NoGate
          /\ key' = [key EXCEPT ![j.group] = g]
          /\ BeginJob(g, j)

Loaded(j) == [s \in Schemas |-> IF s \in DOMAIN j.gives THEN j.gives[s] ELSE db[s]]

EndLive(g) ==
    /\ gate[g].state = "running" /\ Step(g) = "live" /\ gate[g].job # NoJob
    /\ LET j == gate[g].job
       IN  /\ \E bad \in Failing({j.id}) :
                 /\ gate' = [gate EXCEPT ![g] =
                                [Attempted(@, {j.id}, bad, {}) EXCEPT !.job = NoJob]]
                 /\ db' = IF bad = {} THEN Loaded(j) ELSE db
           /\ key' = [key EXCEPT ![j.group] = NoGate]
    /\ UNCHANGED <<world, rows, baseline>>

\* All live jobs attempted: the executor's status is that of its jobs.
EndPlan(g) ==
    /\ At(g, {"live"}) /\ Ready(g) = {}
    /\ IF gate[g].tried = gate[g].ran THEN Proceed(g, gate[g]) ELSE Abort(g, gate[g])
    /\ UNCHANGED <<world, db, rows, baseline>>

\* After a failure the executor may stop at once, and has no phase after the
\* last one.
StopPlan(g) ==
    /\ gate[g].state = "running" /\ gate[g].job = NoJob
    /\ gate[g].tried # gate[g].ran
    /\ Abort(g, gate[g])
    /\ UNCHANGED <<world, db, rows, baseline>>

-----------------------------------------------------------------------------
(* The steps of the script on the database.                                  *)

BeginDbStep(g) ==
    /\ gate[g].state = "running" /\ gate[g].job = NoJob /\ IsDbStep(g)
    /\ gate[g].tried = gate[g].ran
    /\ BeginJob(g, DbStep[Step(g)])
    /\ UNCHANGED key

EndDbStep(g) ==
    /\ gate[g].state = "running" /\ gate[g].job # NoJob
    /\ IsDbStep(g) /\ Step(g) \notin {"cycles", "drive"}
    /\ LET j == gate[g].job
       IN  \E bad \in Failing({j.id}) :
              IF bad = {} /\ j.needs \subseteq gate[g].ran
              THEN /\ Proceed(g, Attempted(gate[g], {j.id}, {}, {}))
                   /\ db' = Loaded(j)
              ELSE /\ Abort(g, Attempted(gate[g], {j.id}, bad, {j.id}))
                   /\ db' = db
    /\ UNCHANGED <<world, rows, baseline>>

Measuring(g, suite) ==
    gate[g].state = "running" /\ gate[g].job # NoJob /\ Step(g) = suite

\* The limit is three times the recorded cost; no record, no verdict.
WithinBaseline(suite, cost) ==
    /\ baseline[suite].readable /\ baseline[suite].cost # 0
    /\ cost <= 3 * baseline[suite].cost

\* Deviation: a gate without a record makes its own.
JudgeMinting(g, suite, cost) ==
    LET r == [Attempted(gate[g], {<<suite>>}, {}, {}) EXCEPT !.cost = cost]
    IN  IF baseline[suite].cost = 0
        THEN Proceed(g, r) /\ baseline' = [baseline EXCEPT ![suite].cost = cost]
        ELSE Abort(g, r) /\ UNCHANGED baseline

\* The verdict on a scenario that ran: only --update-baseline writes a
\* record, and not over one that cannot be read.
Judge(g, suite, cost) ==
    LET r == [Attempted(gate[g], {<<suite>>}, {}, {}) EXCEPT !.cost = cost]
    IN  IF Kind(g) \in Updates /\ baseline[suite].readable
        THEN Proceed(g, r) /\ baseline' = [baseline EXCEPT ![suite].cost = cost]
        ELSE /\ IF Kind(g) \notin Updates /\ WithinBaseline(suite, cost)
                THEN Proceed(g, r) ELSE Abort(g, r)
             /\ UNCHANGED baseline

\* The scenario fails, or a cycle does not complete.
Broke(g, suite) ==
    /\ MayFail
    /\ Abort(g, Attempted(gate[g], {<<suite>>}, {<<suite>>}, {}))
    /\ UNCHANGED baseline

\* perf_gate.py: the binary exits in failure or prints its metric.
MeasureCycles(g) ==
    /\ Measuring(g, "cycles")
    /\ Broke(g, "cycles") \/ \E c \in Costs : Judge(g, "cycles", c)
    /\ UNCHANGED <<world, db, rows>>

\* perf.py: the stub or the service never gets ready, a submission does not
\* end completed, or the cost is judged.
MeasureDrive(g) ==
    /\ Measuring(g, "drive")
    /\ Broke(g, "drive") \/ \E c \in Costs : Judge(g, "drive", c)
    /\ UNCHANGED <<world, db, rows>>

-----------------------------------------------------------------------------
Killed == {g \in Gates : gate[g].state = "killed"}

\* The script and what it started die: locks are dropped, a schema in the
\* middle of a reset and a record in the middle of a write stay as they are.
Kill(g) ==
    /\ gate[g].state = "running"
    /\ Cardinality(Killed) < MaxKills
    /\ gate' = [gate EXCEPT ![g].state = "killed", ![g].job = NoJob]
    /\ key' = Released(g, key)
    /\ baseline' \in {baseline} \cup
          {[baseline EXCEPT ![t] = Torn] :
              t \in {u \in Suites : Kind(g) \in Updates /\ Measuring(g, u)}}
    /\ UNCHANGED <<world, db, rows>>

Continue(g) ==
    \/ TakeLock(g) \/ TestRunner(g) \/ Emit(g) \/ RunBuild(g) \/ RunUnit(g)
    \/ SkipLive(g) \/ BeginLive(g) \/ EndLive(g) \/ EndPlan(g) \/ StopPlan(g)
    \/ BeginDbStep(g) \/ EndDbStep(g) \/ MeasureCycles(g) \/ MeasureDrive(g)

Next == \E g \in Gates : Start(g) \/ Continue(g) \/ Kill(g)

\* A started script runs on by itself.
Fairness == \A g \in Gates : WF_vars(Continue(g))

Spec == Init /\ [][Next]_vars /\ Fairness

-----------------------------------------------------------------------------
(* Properties.                                                               *)

\* Every variable keeps its type; a lock is held by a gate that still runs;
\* a job is attempted before it counts as run.
GatesTypeOK ==
    /\ db \in [Schemas -> Shapes]
    /\ baseline \in [Suites -> Baselines]
    /\ DOMAIN key = {DbLock, SharedKey, HeldKey}
    /\ \A k \in DOMAIN key :
          key[k] \in {g \in Gates : gate[g].state = "running"} \cup {NoGate}
    /\ \A g \in Gates :
          /\ gate[g].state \in {"idle", "running", "passed", "failed", "killed"}
          /\ gate[g].at \in 1..Len(Script[Kind(g)])
          /\ gate[g].ran \cup gate[g].faults \subseteq gate[g].tried
          /\ gate[g].cost \in Costs \cup {0}

\* The gate's own reset of the schema failed and the executor went on.
Spoilt(g, s) ==
    \E j \in {ResetSingular, ResetMicroflows, ResetCoordinator} :
        j.id \in gate[g].faults /\ s \in DOMAIN j.gives

\* The schemas that a gate of a kind resets, by its plan or by its script.
ResetBy(kind) ==
    UNION {DOMAIN j.gives :
              j \in Range(Plan[kind].live)
                    \cup {DbStep[s] : s \in Range(Script[kind]) \cap DOMAIN DbStep}}

\* A gate that resets s has had the lock of the recipes.
Disturbed(s) ==
    \E u \in Gates :
        /\ s \in ResetBy(Kind(u))
        /\ \E i \in 1 .. gate[u].at - 1 : Script[Kind(u)][i] = "lock"

\* A job works on the schemas it was written for from its start to its end:
\* nobody resets, drops or replaces them meanwhile, and its own gate has put
\* them in place before (the shared lock of the recipes, and the order of the
\* combined run-live chain, whose coordinator reset must come last).  A direct
\* run resets nothing and is outside that lock: it works on what it found, and
\* that lasts only until a recipe that resets the schema gets the lock.
RunsOnItsSchema ==
    \A g \in Gates : gate[g].job # NoJob =>
        \A s \in DOMAIN gate[g].job.wants :
            \/ db[s] = gate[g].job.wants[s]
            \/ Spoilt(g, s)
            \/ Kind(g) = "direct" /\ (world.db[s] # "product" \/ Disturbed(s))

\* The emitter promises one database access at a time, across a gate and any
\* other lane on the host.
DbAccessIsSerialized ==
    \A g, u \in Gates : gate[g].job # NoJob /\ gate[u].job # NoJob => g = u

\* A live test never meets rows of the same test in its namespace: Singular's
\* completed keys stay completed, so a second lane or a second invocation on
\* the same rows would see AlreadyDone (the emitters' fixture isolation).
NamespacesAreVirgin ==
    [][\A g \in Gates :
          gate'[g].job # gate[g].job /\ gate'[g].job # NoJob
             => Leaves(g, gate'[g].job)
                  \cap {r \in rows : r[1] \notin DOMAIN gate'[g].job.gives} = {}]_vars

LiveIds(tests) == {<<t, "run", l>> : t \in Range(tests), l \in {"base", "asan", "memcheck"}}

\* What a passed gate of a kind must have run.
Required(kind) ==
    LET singular == LiveIds(SingularUnit \o SingularLive) \cup {<<"sp-invariants">>}
        microflows == LiveIds(MicroflowsUnit \o MicroflowsLive)
                      \cup {<<"sp-operation">>, <<"sp-call">>, <<"call-integration">>}
    IN  CASE kind = "root" -> singular \cup microflows \cup {<<"harness">>, <<"viz">>}
          [] kind \in {"singular", "direct"} -> singular
          [] kind = "microflows" -> microflows
          [] kind = "integration" -> {<<"harness">>}
          [] OTHER -> {}

Sound(kind, e) ==
    /\ e.driftc = "meets"
    /\ kind = "root" => e.synced
    /\ IF e.certify THEN e.cli = "flags" /\ e.emitted # {}
       ELSE \/ "external" \in e.lock
            \/ "library" \in e.lock /\ kind \in {"singular", "microflows", "direct",
                                                "cycles", "cycles-update"}

\* The costs a gate of the suite may have been held to.
Updaters(suite, state) ==
    {u \in Gates : Kind(u) = Update[suite] /\ gate[u].state = state}

Records(suite) ==
    ({world.baseline[suite].cost} \cup {gate[u].cost : u \in Updaters(suite, "passed")})
        \ {0}

\* A gate passes only when the toolchain is at the floor, the dependencies
\* come from the lane's authority and every live and unit test ran in every
\* lane without a fault; a performance gate only against a cost recorded by
\* hand.  And it fails only when something it checks is wrong.
OutcomeIsEarned ==
    \A g \in Gates :
        /\ gate[g].state = "passed" =>
              /\ Sound(Kind(g), world.env)
              /\ gate[g].faults = {}
              /\ Required(Kind(g)) \subseteq gate[g].ran
              /\ Kind(g) \in Suites =>
                    \E r \in Records(Kind(g)) : gate[g].cost <= 3 * r
        /\ gate[g].state = "failed" =>
              \/ gate[g].faults # {}
              \/ ~Sound(Kind(g), world.env)
              \/ \E t \in Suites : /\ Kind(g) \in {t, Update[t]}
                                  /\ gate[g].cost # 0
                                  /\ \/ world.baseline[t].cost = 0
                                     \/ Updaters(t, "killed") # {}
                                     \/ \E r \in Records(t) : gate[g].cost > 3 * r

\* A started gate ends: no job waits for a lock its own gate holds, no job is
\* left that the plan never lets run.
GatesEnd ==
    \A g \in Gates :
        gate[g].state = "running" ~> gate[g].state \in {"passed", "failed", "killed"}

=============================================================================
