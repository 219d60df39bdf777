------------------------------ MODULE TestPlan ------------------------------
(* The plans that the test-plan emitters hand to the toolchain's executor,   *)
(* and the two checks every emission makes first: the toolchain floor and    *)
(* the resolution of the external dependencies (tools/cert_deps.py).         *)
(*                                                                           *)
(* A plan has three phases: build jobs that name the binary they produce,    *)
(* unit jobs that need no database, and live jobs that the executor runs one *)
(* at a time per group, in the order of their `order`.  A job is a record;   *)
(* a command line is reduced to what it touches: the schemas it expects      *)
(* (`wants`), the schemas it replaces (`gives`) and the lane of the fixture  *)
(* namespace it is given (`lane`).                                           *)
EXTENDS Naturals, Sequences, FiniteSets, SequencesExt

CONSTANTS
    SingularUnit, MicroflowsUnit,   \* the unit tests found under UNIT_ROOT
    RunnerUnit,                     \* the runner's stand-alone unit tests
    SingularLive, MicroflowsLive,   \* LIVE_TESTS, in their order
    SchemasOf,                      \* the schemas a live test works on
    SharedKey,                      \* DB_GROUP: the emitters' default key
    HeldKey                         \* DB_HELD_GROUP, passed by a locked recipe

Schemas == {"singular", "malformed", "microflows", "fixtures"}
Shapes == {"none", "torn", "product", "coordinator"}

\* The live tests of a component work on the schemas that its reset loads.
ASSUME TestPlanAssumption ==
    /\ SharedKey # HeldKey
    /\ {SingularUnit, MicroflowsUnit, RunnerUnit, SingularLive, MicroflowsLive}
          \subseteq Seq(STRING)
    /\ \A t \in Range(SingularLive) : SchemasOf[t] \subseteq {"singular", "malformed"}
    /\ \A t \in Range(MicroflowsLive) : SchemasOf[t] \subseteq {"microflows", "fixtures"}

-----------------------------------------------------------------------------
(* tools/cert_deps.py                                                        *)

\* An invocation's surroundings: what driftc answers, the lane, what the lock
\* and the drift CLI resolve, whether the two declared versions agree.
Surroundings ==
    [driftc : {"absent", "dying", "unreadable", "below", "meets"},
     certify : BOOLEAN,
     lock : SUBSET {"external", "library"},
     cli : {"absent", "fails", "dangling", "flags"},
     emitted : SUBSET {"external", "library"},
     synced : BOOLEAN]

MeetsFloor(e) == e.driftc = "meets"

\* Strict: the committed lock, which must leave something after exclusion.
StrictVersions(e, exclude) == e.lock \ exclude # {}

\* Certify: one answer of the toolchain; all of it may be excluded.
CertifyVersions(e) == e.cli = "flags" /\ e.emitted # {}

Resolves(e, exclude) ==
    /\ MeetsFloor(e)
    /\ IF e.certify THEN CertifyVersions(e) ELSE StrictVersions(e, exclude)

-----------------------------------------------------------------------------
(* Jobs.                                                                     *)

Lanes == <<"base", "asan", "memcheck">>

On(schemas, shape) == [s \in schemas |-> shape]

NoSchema == On({}, "none")

SrcBuild(test, variant) == <<test, variant>>

\* memcheck wraps the base binary; only asan has one of its own.
Binary(test, lane) == SrcBuild(test, IF lane = "asan" THEN "asan" ELSE "base")

Builds(tests) == {SrcBuild(t, v) : t \in Range(tests), v \in {"base", "asan"}}

UnitJobs(tests) ==
    {[id |-> <<t, "run", l>>, needs |-> {Binary(t, l)}] :
        t \in Range(tests), l \in Range(Lanes)}

LiveJob(test, lane, group, order) ==
    [id |-> <<test, "run", lane>>, needs |-> {Binary(test, lane)},
     group |-> group, order |-> order, lane |-> lane,
     wants |-> On(SchemasOf[test], "product"), gives |-> NoSchema]

OneLane(tests, lane, group, start) ==
    [i \in 1..Len(tests) |-> LiveJob(tests[i], lane, group, start + i - 1)]

\* Every test of the base lane, then of the asan lane, then of memcheck.
LaneJobs(tests, group) ==
    LET n == Len(tests)
    IN  OneLane(tests, "base", group, 0) \o OneLane(tests, "asan", group, n)
        \o OneLane(tests, "memcheck", group, 2 * n)

\* A job with a schema to work on and no fixture namespace from the plan.
DbJob(id, needs, wants, gives) ==
    [id |-> id, needs |-> needs, group |-> HeldKey, order |-> 0, lane |-> "none",
     wants |-> wants, gives |-> gives]

-----------------------------------------------------------------------------
(* singular/drift/tools/emit_test_plan.py                                    *)

SpInvariants(group) ==
    [DbJob(<<"sp-invariants">>, {}, On({"singular"}, "product"), NoSchema)
        EXCEPT !.group = group, !.order = Len(Lanes) * Len(SingularLive)]

SingularPlan(group) ==
    [build |-> Builds(SingularUnit) \cup Builds(SingularLive),
     unit |-> UnitJobs(SingularUnit),
     live |-> Append(LaneJobs(SingularLive, group), SpInvariants(group))]

\* The performance scenario: built here, measured by perf_gate.py.
PerfPlan == [build |-> {<<"singular-perf">>}, unit |-> {}, live |-> <<>>]

EmitsSingular(e) == MeetsFloor(e) /\ Resolves(e, {})

(* microflows/tools/emit_test_plan.py                                        *)

MicroflowsPlan(group) ==
    [build |-> Builds(MicroflowsUnit) \cup Builds(MicroflowsLive),
     unit |-> UnitJobs(MicroflowsUnit),
     live |-> LaneJobs(MicroflowsLive, group)]

EmitsMicroflows(e) == MeetsFloor(e) /\ Resolves(e, {})

(* integration/coordinator-singular/tools/emit_test_plan.py                  *)

\* The three apps, each compiled with a local library from source.
Apps == {"participant-stub", "microflows-runner", "uflowsd"}

IntegrationPlan ==
    [build |-> {<<a>> : a \in Apps}, unit |-> {}, live |-> <<>>]

\* The local library of each app is not among its external dependencies.
EmitsIntegration(e) == MeetsFloor(e) /\ Resolves(e, {"library"})

-----------------------------------------------------------------------------
(* tools/emit_test_plan.py: the combined plan of the root gate.              *)

RunnerIrBuilds == Builds(RunnerUnit)

RunnerIrJobs ==
    {[id |-> <<t, "run", v>>, needs |-> {SrcBuild(t, v)}] :
        t \in Range(RunnerUnit), v \in {"base", "asan"}}

RunnerFixtureJobs ==
    {[id |-> <<f>>, needs |-> {<<"microflows-runner">>}] :
        f \in {"parser-fixtures", "manifest-fixtures"}}

ResetSingular ==
    DbJob(<<"reset-singular">>, {}, NoSchema, On({"singular", "malformed"}, "product"))

ResetMicroflows ==
    DbJob(<<"reset-microflows">>, {}, NoSchema, On({"microflows", "fixtures"}, "product"))

\* Overwrites both product schemas with the coordinator's scenario.
ResetCoordinator ==
    DbJob(<<"reset-coordinator">>, {}, NoSchema,
          [s \in {"singular", "microflows"} |->
              IF s = "singular" THEN "product" ELSE "coordinator"])

SpRegressions ==
    << DbJob(<<"sp-operation">>, {}, On({"microflows"}, "product"), NoSchema),
       DbJob(<<"sp-call">>, {}, On({"microflows"}, "product"), NoSchema),
       DbJob(<<"call-integration">>, {<<"microflows-runner">>},
             On({"microflows"}, "product"), NoSchema) >>

CoordinatorHarness ==
    DbJob(<<"harness">>,
          {<<"participant-stub">>, <<"microflows-runner">>, <<"uflowsd">>},
          ResetCoordinator.gives, NoSchema)

\* Deviation: the chain starts over with each component.
ReorderedFromZero(jobs, start) ==
    [i \in DOMAIN jobs |-> [jobs[i] EXCEPT !.group = HeldKey, !.order = i - 1]]

\* A component's live jobs, moved into the one chain from `start` on.
Reordered(jobs, start) ==
    [i \in DOMAIN jobs |->
        [jobs[i] EXCEPT !.group = HeldKey, !.order = start + i - 1]]

CombinedLive ==
    LET singular == SingularPlan(SharedKey).live
        microflows == MicroflowsPlan(SharedKey).live
        resets == <<ResetSingular, ResetMicroflows>>
        tail == SpRegressions \o <<ResetCoordinator, CoordinatorHarness>>
    IN  Reordered(resets, 0)
        \o Reordered(singular, Len(resets))
        \o Reordered(microflows, Len(resets) + Len(singular))
        \o Reordered(tail, Len(resets) + Len(singular) + Len(microflows))

CombinedPlan ==
    [build |-> SingularPlan(SharedKey).build \cup MicroflowsPlan(SharedKey).build
               \cup IntegrationPlan.build \cup RunnerIrBuilds,
     unit |-> SingularPlan(SharedKey).unit \cup MicroflowsPlan(SharedKey).unit
              \cup RunnerIrJobs \cup RunnerFixtureJobs
              \cup {[id |-> <<"cert-deps-floor">>, needs |-> {}]},
     live |-> CombinedLive]

\* The versions of uflowsd in the root manifest and in runner.drift agree, and
\* each of the three plans merged here can be emitted.
EmitsCombined(e) ==
    /\ MeetsFloor(e) /\ e.synced
    /\ Resolves(e, {}) /\ Resolves(e, {"library"})

=============================================================================
