----------------------------- MODULE GatesProofs -----------------------------
(***************************************************************************)
(* What holds of gates that share an instance, for any number of them, any *)
(* tests, any costs, faults and kills.                                     *)
(*                                                                         *)
(* A gate's record says which steps of its script are behind it and which  *)
(* job it is at; the lock says that nobody else touches the schemas that   *)
(* these steps have put in place.                                          *)
(***************************************************************************)
EXTENDS Gates, SequenceTheorems, WellFoundedInduction, TLAPS

Keys == {DbLock, SharedKey, HeldKey}
GateFields == {"state", "at", "job", "cost", "tried", "ran", "faults"}

(* The step s comes before the position i of a script. *)
Before(kind, i, s) == \E k \in 1 .. i - 1 : Script[kind][k] = s

BuildIds(kind) == Plan[kind].build
UnitIds(kind) == {j.id : j \in Plan[kind].unit}
Live(kind) == Range(Plan[kind].live)

-----------------------------------------------------------------------------
(* What the record of a gate says of the steps behind it *)

Fields(kind, r) ==
    /\ r = [x \in GateFields |-> r[x]]
    /\ r.state \in {"idle", "running", "passed", "failed", "killed"}
    /\ r.at \in 1 .. Len(Script[kind])
    /\ r.cost \in Costs \cup {0}
    /\ r.ran \subseteq r.tried /\ r.faults \subseteq r.tried

(* A step that is done has attempted what it is there for. *)
Done(kind, env, r, s) ==
    /\ s = "emit" => Emits(kind, env)
    /\ s = "runner" => <<"microflows-runner">> \in r.tried
    /\ s = "build" => BuildIds(kind) \subseteq r.tried
    /\ s = "unit" => UnitIds(kind) \subseteq r.tried
    /\ s = "live" => \A j \in Live(kind) : j.id \in r.tried
    /\ s \in DOMAIN DbStep \ Suites => <<s>> \in r.tried

(* Only a job at fault, or one that lacks the binary of such a job, did not run. *)
Accounted(r) ==
    /\ r.faults \cap r.ran = {}
    /\ r.faults = {} => r.tried = r.ran

Coordinator == <<"reset-coordinator">>
Coordinating(r) == Coordinator \in r.tried \/ r.job.id = Coordinator

(* In the chain of the root gate the coordinator's schemas come after all other tests. *)
InOrder(kind, r) ==
    kind = "root" /\ Coordinating(r) =>
        \A k \in Live("root") : k.id \notin {Coordinator, <<"harness">>} => k.id \in r.tried

StepsDone(kind, env, r) ==
    /\ Accounted(r)
    /\ r.at = 1 => r.tried = {}
    /\ \A s \in Range(Script[kind]) : Before(kind, r.at, s) => Done(kind, env, r, s)
    /\ ~ Before(kind, r.at, "build") => r.tried \cap BuildIds(kind) = {}
    /\ ~ Before(kind, r.at, "unit") => r.tried \cap UnitIds(kind) = {}
    /\ InOrder(kind, r)

(* The job a gate is at: a step of its own, or the next of its chain. *)
AtWork(kind, r) ==
    LET s == Script[kind][r.at]
    IN  /\ r.state = "running"
        /\ \/ s \in DOMAIN DbStep /\ r.job = DbStep[s] /\ r.tried = r.ran
           \/ /\ s = "live" /\ r.job \in Live(kind) /\ r.job.id \notin r.tried
              /\ \A k \in Live(kind) :
                    k.group = r.job.group /\ k.order < r.job.order => k.id \in r.tried

RecordInv(kind, env, r) ==
    /\ Fields(kind, r)
    /\ r.state = "idle" =>
          /\ r.at = 1 /\ r.job = NoJob /\ r.tried = {} /\ r.ran = {} /\ r.faults = {}
    /\ r.state = "running" => StepsDone(kind, env, r)
    /\ r.job # NoJob => AtWork(kind, r)

-----------------------------------------------------------------------------
(* The schemas that a gate has put in place *)

Resets == {ResetSingular, ResetMicroflows, ResetCoordinator}
SpoiltBy(r, s) == \E j \in Resets : j.id \in r.faults /\ s \in DOMAIN j.gives

(* By the chain of the root gate, *)
InTheChain(r, d) ==
    /\ <<"reset-singular">> \in r.tried /\ ~ Coordinating(r) =>
          \A s \in {"singular", "malformed"} : d[s] = "product" \/ SpoiltBy(r, s)
    /\ <<"reset-microflows">> \in r.tried /\ ~ Coordinating(r) =>
          \A s \in {"microflows", "fixtures"} : d[s] = "product" \/ SpoiltBy(r, s)
    /\ Coordinator \in r.tried =>
          /\ d["singular"] = "product" \/ SpoiltBy(r, "singular")
          /\ d["microflows"] = "coordinator" \/ SpoiltBy(r, "microflows")

(* and by the steps of a script. *)
InPlace(kind, r, d) ==
    /\ Before(kind, r.at, "reset-singular") =>
          d["singular"] = "product" /\ d["malformed"] = "product"
    /\ Before(kind, r.at, "reset-microflows") =>
          d["microflows"] = "product" /\ d["fixtures"] = "product"
    /\ Before(kind, r.at, "reset-coordinator") =>
          d["singular"] = "product" /\ d["microflows"] = "coordinator"
    /\ kind = "root" /\ ~ Before(kind, r.at, "live") => InTheChain(r, d)

-----------------------------------------------------------------------------
(* All gates *)

SchemasInv ==
    /\ db \in [Schemas -> Shapes]
    /\ \A g \in Gates : gate[g].state = "running" => InPlace(Kind(g), gate[g], db)
    /\ \A s \in Schemas : db[s] = world.db[s] \/ Disturbed(s)

LocksInv ==
    /\ key \in [Keys -> Gates \cup {NoGate}]
    /\ \A k \in Keys : key[k] # NoGate => gate[key[k]].state = "running"
    /\ \A g \in Gates :
          gate[g].state = "running" /\ Before(Kind(g), gate[g].at, "lock") => key[DbLock] = g

(* Rows of a gate that still runs are those of the jobs it has attempted. *)
LeftBy(row, s, t, l, g, r) ==
    /\ row = <<s, t, <<g, l>>>>
    /\ r.state # "idle"
    /\ r.state = "running" => <<t, "run", l>> \in r.tried \/ r.job.id = <<t, "run", l>>

RowsInv ==
    \A row \in rows : \E s, t, l : \E g \in Gates : LeftBy(row, s, t, l, g, gate[g])

BaselineInv ==
    \A t \in Suites :
        /\ baseline[t] \in Baselines
        /\ baseline[t].cost # 0 => baseline[t].cost \in Records(t)
        /\ ~ baseline[t].readable \/ baseline[t].cost = 0 =>
              world.baseline[t].cost = 0 \/ Updaters(t, "killed") # {}

GInv ==
    /\ world \in Worlds
    /\ gate = [g \in Gates |-> gate[g]]
    /\ baseline = [t \in Suites |-> baseline[t]]
    /\ \A g \in Gates : RecordInv(Kind(g), world.env, gate[g])
    /\ SchemasInv
    /\ LocksInv
    /\ RowsInv
    /\ BaselineInv
    /\ OutcomeIsEarned

-----------------------------------------------------------------------------
(* The scripts *)

LEMMA Scripts ==
    /\ Script["root"] = <<"lock", "emit", "build", "unit", "live", "reset-microflows", "viz">>
    /\ Script["singular"] = <<"lock", "reset-singular", "emit", "build", "unit", "live">>
    /\ Script["microflows"] = <<"runner", "lock", "reset-microflows", "emit", "build", "unit",
                                "live", "sp-operation", "sp-call", "call-integration">>
    /\ Script["integration"] = <<"emit", "build", "lock", "reset-coordinator", "harness">>
    /\ Script["direct"] = <<"emit", "build", "unit", "live">>
    /\ Script["cycles"] = <<"lock", "reset-singular", "emit", "build", "cycles">>
    /\ Script["cycles-update"] = Script["cycles"]
    /\ Script["drive"] = <<"emit", "build", "lock", "reset-coordinator", "drive">>
    /\ Script["drive-update"] = Script["drive"]
BY DEF Script, Kinds

(* Which steps are behind a position, one step after the other. *)
LEMMA BeforeGoesOn ==
    ASSUME NEW kind, NEW i \in Nat \ {0}, NEW s
    PROVE  /\ ~ Before(kind, 1, s)
           /\ Before(kind, i + 1, s) <=> Before(kind, i, s) \/ Script[kind][i] = s
BY DEF Before

Orders(kind, i) ==
    LET s == Script[kind][i]
    IN  /\ ~ Before(kind, i, s)
        /\ s \in {"viz", "live", "call-integration", "harness", "cycles", "drive"}
              => Before(kind, i, "build") /\ Before(kind, i, "emit")
        /\ s \in {"reset-singular", "reset-microflows", "reset-coordinator", "harness",
                  "sp-operation", "sp-call", "call-integration", "viz", "cycles", "drive"}
              => Before(kind, i, "lock")
        /\ s = "live" => kind = "direct" \/ Before(kind, i, "lock")
        /\ s = "lock" => ~ Before(kind, i, "live") /\ ~ Before(kind, i, "unit")
        /\ s = "unit" => Before(kind, i, "build")
        /\ s = "live" => /\ Before(kind, i, "unit")
                         /\ kind \in {"root", "singular", "microflows", "direct"}
                         /\ kind = "singular" => Before(kind, i, "reset-singular")
                         /\ kind = "microflows" => Before(kind, i, "reset-microflows")
        /\ s \in {"viz", "sp-operation", "sp-call", "call-integration"}
              => Before(kind, i, "reset-microflows")
        /\ s = "call-integration" => Before(kind, i, "runner")
        /\ s \in {"harness", "drive"} => Before(kind, i, "reset-coordinator")
        /\ s = "cycles" => Before(kind, i, "reset-singular")
        /\ s = "runner" => /\ kind = "microflows" /\ i = 1
                         /\ ~ Before(kind, i, "build") /\ ~ Before(kind, i, "unit")
        /\ s = "build" => ~ Before(kind, i, "unit")
        /\ kind = "root" /\ s = "reset-microflows" => Before(kind, i, "live")
        /\ kind = "root" /\ i # 1 => Before(kind, i, "lock")
        /\ s = "harness" => kind = "integration"
        /\ s \in {"cycles", "drive"} => kind \in {s, Update[s]} /\ i = Len(Script[kind])
        /\ Before(kind, i, "reset-singular") \/ s = "reset-singular"
              => kind \in {"singular", "cycles", "cycles-update"}
        /\ Before(kind, i, "reset-microflows") \/ s = "reset-microflows"
              => kind \in {"root", "microflows"}
        /\ Before(kind, i, "reset-coordinator") \/ s = "reset-coordinator"
              => kind \in {"integration", "drive", "drive-update"}
        /\ Before(kind, i, "reset-singular") \/ Before(kind, i, "reset-microflows")
              \/ Before(kind, i, "reset-coordinator") => Before(kind, i, "lock")
        /\ i = Len(Script[kind])
              => /\ s \in {"viz", "live", "call-integration", "harness", "cycles", "drive"}
                 /\ \A x \in Range(Script[kind]) : x = s \/ Before(kind, i, x)
                 /\ kind \in Suites => s = kind

StepNames == {"lock", "emit", "runner", "build", "unit", "live", "reset-singular",
              "reset-microflows", "reset-coordinator", "harness", "sp-operation", "sp-call",
              "call-integration", "viz", "cycles", "drive"}

LEMMA ScriptFacts ==
    ASSUME NEW kind \in Kinds
    PROVE  /\ Len(Script[kind]) \in Nat \ {0}
           /\ Script[kind] \in Seq(StepNames)
           /\ "emit" \in Range(Script[kind])
           /\ \A i \in 1 .. Len(Script[kind]) : Orders(kind, i)
<1>1. CASE kind = "root"
    <2>1. Script[kind] = <<"lock", "emit", "build", "unit", "live", "reset-microflows", "viz">>
        BY <1>1, Scripts
    <2>2. ASSUME NEW i \in 1 .. 7, NEW s
          PROVE  Before(kind, i, s) <=> \/ i > 1 /\ s = "lock"
                                        \/ i > 2 /\ s = "emit"
                                        \/ i > 3 /\ s = "build"
                                        \/ i > 4 /\ s = "unit"
                                        \/ i > 5 /\ s = "live"
                                        \/ i > 6 /\ s = "reset-microflows"
        BY <2>1 DEF Before
    <2>3. ASSUME NEW i \in 1 .. 7
          PROVE  Orders(kind, i)
        BY <1>1, <2>1, <2>2 DEF Orders, Range, Update, Suites
    <2> QED
        BY <2>1, <2>3 DEF Range, StepNames
<1>2. CASE kind = "singular"
    <2>1. Script[kind] = <<"lock", "reset-singular", "emit", "build", "unit", "live">>
        BY <1>2, Scripts
    <2>2. ASSUME NEW i \in 1 .. 6, NEW s
          PROVE  Before(kind, i, s) <=> \/ i > 1 /\ s = "lock"
                                        \/ i > 2 /\ s = "reset-singular"
                                        \/ i > 3 /\ s = "emit"
                                        \/ i > 4 /\ s = "build"
                                        \/ i > 5 /\ s = "unit"
        BY <2>1 DEF Before
    <2>3. ASSUME NEW i \in 1 .. 6
          PROVE  Orders(kind, i)
        BY <1>2, <2>1, <2>2 DEF Orders, Range, Update, Suites
    <2> QED
        BY <2>1, <2>3 DEF Range, StepNames
<1>3. CASE kind = "microflows"
    <2>1. Script[kind] = <<"runner", "lock", "reset-microflows", "emit", "build", "unit",
                         "live", "sp-operation", "sp-call", "call-integration">>
        BY <1>3, Scripts
    <2>2. ASSUME NEW i \in 1 .. 10, NEW s
          PROVE  Before(kind, i, s) <=> \/ i > 1 /\ s = "runner"
                                        \/ i > 2 /\ s = "lock"
                                        \/ i > 3 /\ s = "reset-microflows"
                                        \/ i > 4 /\ s = "emit"
                                        \/ i > 5 /\ s = "build"
                                        \/ i > 6 /\ s = "unit"
                                        \/ i > 7 /\ s = "live"
                                        \/ i > 8 /\ s = "sp-operation"
                                        \/ i > 9 /\ s = "sp-call"
        BY <2>1 DEF Before
    <2>3. ASSUME NEW i \in 1 .. 10
          PROVE  Orders(kind, i)
        BY <1>3, <2>1, <2>2 DEF Orders, Range, Update, Suites
    <2> QED
        BY <2>1, <2>3 DEF Range, StepNames
<1>4. CASE kind = "integration"
    <2>1. Script[kind] = <<"emit", "build", "lock", "reset-coordinator", "harness">>
        BY <1>4, Scripts
    <2>2. ASSUME NEW i \in 1 .. 5, NEW s
          PROVE  Before(kind, i, s) <=> \/ i > 1 /\ s = "emit"
                                        \/ i > 2 /\ s = "build"
                                        \/ i > 3 /\ s = "lock"
                                        \/ i > 4 /\ s = "reset-coordinator"
        BY <2>1 DEF Before
    <2>3. ASSUME NEW i \in 1 .. 5
          PROVE  Orders(kind, i)
        BY <1>4, <2>1, <2>2 DEF Orders, Range, Update, Suites
    <2> QED
        BY <2>1, <2>3 DEF Range, StepNames
<1>5. CASE kind = "direct"
    <2>1. Script[kind] = <<"emit", "build", "unit", "live">>
        BY <1>5, Scripts
    <2>2. ASSUME NEW i \in 1 .. 4, NEW s
          PROVE  Before(kind, i, s) <=> \/ i > 1 /\ s = "emit"
                                        \/ i > 2 /\ s = "build"
                                        \/ i > 3 /\ s = "unit"
        BY <2>1 DEF Before
    <2>3. ASSUME NEW i \in 1 .. 4
          PROVE  Orders(kind, i)
        BY <1>5, <2>1, <2>2 DEF Orders, Range, Update, Suites
    <2> QED
        BY <2>1, <2>3 DEF Range, StepNames
<1>6. CASE kind \in {"cycles", "cycles-update"}
    <2>1. Script[kind] = <<"lock", "reset-singular", "emit", "build", "cycles">>
        BY <1>6, Scripts
    <2>2. ASSUME NEW i \in 1 .. 5, NEW s
          PROVE  Before(kind, i, s) <=> \/ i > 1 /\ s = "lock"
                                        \/ i > 2 /\ s = "reset-singular"
                                        \/ i > 3 /\ s = "emit"
                                        \/ i > 4 /\ s = "build"
        BY <2>1 DEF Before
    <2>3. ASSUME NEW i \in 1 .. 5
          PROVE  Orders(kind, i)
        BY <1>6, <2>1, <2>2 DEF Orders, Range, Update, Suites
    <2> QED
        BY <2>1, <2>3 DEF Range, StepNames
<1>7. CASE kind \in {"drive", "drive-update"}
    <2>1. Script[kind] = <<"emit", "build", "lock", "reset-coordinator", "drive">>
        BY <1>7, Scripts
    <2>2. ASSUME NEW i \in 1 .. 5, NEW s
          PROVE  Before(kind, i, s) <=> \/ i > 1 /\ s = "emit"
                                        \/ i > 2 /\ s = "build"
                                        \/ i > 3 /\ s = "lock"
                                        \/ i > 4 /\ s = "reset-coordinator"
        BY <2>1 DEF Before
    <2>3. ASSUME NEW i \in 1 .. 5
          PROVE  Orders(kind, i)
        BY <1>7, <2>1, <2>2 DEF Orders, Range, Update, Suites
    <2> QED
        BY <2>1, <2>3 DEF Range, StepNames
<1> QED
    BY <1>1, <1>2, <1>3, <1>4, <1>5, <1>6, <1>7 DEF Kinds

-----------------------------------------------------------------------------
(* The jobs of the scripts *)

DbNames == {"reset-singular", "reset-microflows", "reset-coordinator", "harness", "sp-operation",
            "sp-call", "call-integration", "viz", "cycles", "drive"}

CoordinatorSchemas ==
    [s \in {"singular", "microflows"} |-> IF s = "singular" THEN "product" ELSE "coordinator"]

Viz == DbJob(<<"viz">>, {}, On({"microflows"}, "product"), NoSchema)
Cycles == DbJob(<<"cycles">>, {<<"singular-perf">>}, On({"singular"}, "product"), NoSchema)
Drives == DbJob(<<"drive">>, {<<"participant-stub">>, <<"uflowsd">>}, ResetCoordinator.gives, NoSchema)
SpOperation == DbJob(<<"sp-operation">>, {}, On({"microflows"}, "product"), NoSchema)
SpCall == DbJob(<<"sp-call">>, {}, On({"microflows"}, "product"), NoSchema)
CallIntegration ==
    DbJob(<<"call-integration">>, {<<"microflows-runner">>}, On({"microflows"}, "product"), NoSchema)

(* Of a job with a name of its own: what the executor and the schemas see of it. *)
IsDbJob(j, id, needs, wants, gives) ==
    /\ j.id = id /\ j.needs = needs /\ j.lane = "none" /\ j.wants = wants /\ j.gives = gives
    /\ j # NoJob

Named(j, name) ==
    \/ name = "reset-singular"
       /\ IsDbJob(j, <<name>>, {}, NoSchema, On({"singular", "malformed"}, "product"))
    \/ name = "reset-microflows"
       /\ IsDbJob(j, <<name>>, {}, NoSchema, On({"microflows", "fixtures"}, "product"))
    \/ name = "reset-coordinator" /\ IsDbJob(j, <<name>>, {}, NoSchema, CoordinatorSchemas)
    \/ /\ name = "harness"
       /\ IsDbJob(j, <<name>>, {<<"participant-stub">>, <<"microflows-runner">>, <<"uflowsd">>},
                  CoordinatorSchemas, NoSchema)
    \/ /\ name \in {"sp-operation", "sp-call", "viz"}
       /\ IsDbJob(j, <<name>>, {}, On({"microflows"}, "product"), NoSchema)
    \/ /\ name = "call-integration"
       /\ IsDbJob(j, <<name>>, {<<"microflows-runner">>}, On({"microflows"}, "product"), NoSchema)
    \/ /\ name = "cycles"
       /\ IsDbJob(j, <<name>>, {<<"singular-perf">>}, On({"singular"}, "product"), NoSchema)
    \/ /\ name = "drive"
       /\ IsDbJob(j, <<name>>, {<<"participant-stub">>, <<"uflowsd">>}, CoordinatorSchemas, NoSchema)

LEMMA IdsDiffer ==
    /\ \A a : <<a>> # <<>>
    /\ \A a, b : <<a>> = <<b>> => a = b
    /\ \A a, b, c : <<a>> # <<b, c>>
    /\ \A a, b, c, d : <<a>> # <<b, c, d>>
    /\ \A a, b, c, d, e : <<a, b>> # <<c, d, e>>
    /\ \A b, c, d : <<b, c, d>> # <<>>
    /\ \A a, b, c, d, e, f : <<a, b, c>> = <<d, e, f>> => a = d /\ b = e /\ c = f
OBVIOUS

LEMMA DbJobFacts ==
    ASSUME NEW name, NEW needs, NEW wants, NEW gives
    PROVE  LET j == DbJob(<<name>>, needs, wants, gives)
           IN  IsDbJob(j, <<name>>, needs, wants, gives) /\ j.group = HeldKey /\ j.order = 0
<1> DEFINE j == DbJob(<<name>>, needs, wants, gives)
<1>1. j.id = <<name>> /\ j.needs = needs /\ j.lane = "none" /\ j.wants = wants /\ j.gives = gives
      /\ j.group = HeldKey /\ j.order = 0
    BY DEF DbJob
<1>2. NoJob.id = <<>>
    BY DEF NoJob
<1> HIDE DEF j
<1>3. j # NoJob
    BY <1>1, <1>2, IdsDiffer
<1> QED
    BY <1>1, <1>3 DEF IsDbJob, j

LEMMA NamedJobs ==
    /\ Named(ResetSingular, "reset-singular") /\ Named(ResetMicroflows, "reset-microflows")
    /\ Named(ResetCoordinator, "reset-coordinator") /\ Named(CoordinatorHarness, "harness")
    /\ Named(SpOperation, "sp-operation") /\ Named(SpCall, "sp-call")
    /\ Named(CallIntegration, "call-integration")
    /\ Named(Viz, "viz") /\ Named(Cycles, "cycles") /\ Named(Drives, "drive")
    /\ ResetCoordinator.gives = CoordinatorSchemas
<1>1. /\ Named(ResetSingular, "reset-singular") /\ Named(ResetMicroflows, "reset-microflows")
      /\ Named(SpOperation, "sp-operation") /\ Named(SpCall, "sp-call")
      /\ Named(CallIntegration, "call-integration")
      /\ Named(Viz, "viz") /\ Named(Cycles, "cycles")
    BY DbJobFacts DEF Named, ResetSingular, ResetMicroflows, SpOperation, SpCall, CallIntegration,
                      Viz, Cycles
<1>2. ResetCoordinator = DbJob(<<"reset-coordinator">>, {}, NoSchema, CoordinatorSchemas)
    BY DEF ResetCoordinator, CoordinatorSchemas
<1>3. Named(ResetCoordinator, "reset-coordinator") /\ ResetCoordinator.gives = CoordinatorSchemas
    BY <1>2, DbJobFacts DEF Named, IsDbJob
<1>4. Named(CoordinatorHarness, "harness") /\ Named(Drives, "drive")
    BY <1>3, DbJobFacts DEF Named, CoordinatorHarness, Drives
<1> QED
    BY <1>1, <1>3, <1>4

LEMMA SpRegressionsAre ==
    /\ SpRegressions = <<SpOperation, SpCall, CallIntegration>>
    /\ Range(SpRegressions) = {SpOperation, SpCall, CallIntegration}
<1>1. SpRegressions = <<SpOperation, SpCall, CallIntegration>>
    BY DEF SpRegressions, SpOperation, SpCall, CallIntegration
<1> HIDE DEF SpOperation, SpCall, CallIntegration
<1>2. \A a, b, c : Range(<<a, b, c>>) = {a, b, c}
    BY DEF Range
<1> QED
    BY <1>1, <1>2

LEMMA DbStepFacts ==
    /\ DOMAIN DbStep = DbNames
    /\ \A s \in DbNames : Named(DbStep[s], s)
<1>1. DbSteps = {ResetSingular, ResetMicroflows, ResetCoordinator, CoordinatorHarness, SpOperation,
                 SpCall, CallIntegration, Viz, Cycles, Drives}
    BY SpRegressionsAre DEF DbSteps, Viz, Cycles, Drives
<1>2. ASSUME NEW j \in DbSteps
      PROVE  \E s \in DbNames : Named(j, s)
    BY <1>1, NamedJobs DEF DbNames
<1>3. ASSUME NEW s \in DbNames
      PROVE  \E j \in DbSteps : Named(j, s)
    BY <1>1, NamedJobs DEF DbNames
<1>4. ASSUME NEW j, NEW s, Named(j, s)
      PROVE  j.id = <<s>> /\ j.id[1] = s
    <2>1. j.id = <<s>>
        BY <1>4 DEF Named, IsDbJob
    <2> QED
        BY <2>1
<1>5. {j.id[1] : j \in DbSteps} = DbNames
    BY <1>2, <1>3, <1>4
<1>6. DOMAIN DbStep = DbNames
    BY <1>5 DEF DbStep
<1>7. ASSUME NEW s \in DbNames
      PROVE  Named(DbStep[s], s)
    <2>1. DbStep[s] = CHOOSE j \in DbSteps : j.id = <<s>>
        BY <1>5 DEF DbStep
    <2>2. \E j \in DbSteps : j.id = <<s>>
        BY <1>3, <1>4
    <2>3. DbStep[s] \in DbSteps /\ DbStep[s].id = <<s>>
        BY <2>1, <2>2
    <2>4. PICK x \in DbNames : Named(DbStep[s], x)
        BY <1>2, <2>3
    <2>5. x = s
        BY <1>4, <2>3, <2>4
    <2> QED
        BY <2>4, <2>5
<1> QED
    BY <1>6, <1>7

-----------------------------------------------------------------------------
(* The plans *)

JobFields == {"id", "needs", "group", "order", "lane", "wants", "gives"}

TestJob(j, tests) ==
    \E t \in Range(tests), l \in {"base", "asan", "memcheck"} :
        /\ j.id = <<t, "run", l>> /\ j.needs = {Binary(t, l)} /\ j.lane = l
        /\ j.wants = On(SchemasOf[t], "product") /\ j.gives = NoSchema

SpInvariantsJob(j) ==
    /\ j.id = <<"sp-invariants">> /\ j.needs = {} /\ j.lane = "none"
    /\ j.wants = On({"singular"}, "product") /\ j.gives = NoSchema

SingularJob(j) == TestJob(j, SingularLive) \/ SpInvariantsJob(j)

(* A chain of live jobs, as far as the executor is concerned. *)
Chain(jobs, group) ==
    /\ jobs \in Seq(Range(jobs))
    /\ \A j \in Range(jobs) :
          /\ j = [x \in JobFields |-> j[x]]
          /\ j.group = group /\ j.order \in Nat

LEMMA RangeOfFunction ==
    ASSUME NEW n \in Nat, NEW f, f = [i \in 1 .. n |-> f[i]]
    PROVE  /\ f \in Seq(Range(f)) /\ Len(f) = n
           /\ Range(f) = {f[i] : i \in 1 .. n}
<1>1. Range(f) = {f[i] : i \in 1 .. n}
    BY DEF Range
<1>2. f \in [1 .. n -> Range(f)]
    BY <1>1
<1> HIDE DEF Range
<1>3. f \in Seq(Range(f))
    BY <1>2, SeqDef
<1>4. Len(f) = n
    BY <1>2, <1>3, LenProperties
<1> QED
    BY <1>1, <1>3, <1>4

LEMMA ChainsJoin ==
    ASSUME NEW a, NEW b, NEW group, Chain(a, group), Chain(b, group)
    PROVE  Chain(a \o b, group) /\ Range(a \o b) = Range(a) \cup Range(b)
           /\ Len(a \o b) = Len(a) + Len(b)
<1> DEFINE S == Range(a) \cup Range(b)
<1>1. a \in Seq(S) /\ b \in Seq(S)
    <2>1. a \in Seq(Range(a)) /\ b \in Seq(Range(b))
        BY DEF Chain
    <2>2. Range(a) \subseteq S /\ Range(b) \subseteq S
        OBVIOUS
    <2> QED
        BY <2>1, <2>2, SeqMonotonic
<1>2. Range(a \o b) = S
    BY <1>1, RangeConcatenation
<1>3. a \o b \in Seq(S) /\ Len(a \o b) = Len(a) + Len(b)
    BY <1>1, ConcatProperties
<1> QED
    BY <1>2, <1>3 DEF Chain

LaneIs(jobs, tests, lane, group) ==
    /\ Chain(jobs, group) /\ \A j \in Range(jobs) : TestJob(j, tests)
    /\ \A t \in Range(tests) : \E j \in Range(jobs) : j.id = <<t, "run", lane>>

LEMMA OneLaneFacts ==
    ASSUME NEW tests \in Seq(STRING), NEW lane \in {"base", "asan", "memcheck"}, NEW group,
           NEW start \in Nat
    PROVE  LaneIs(OneLane(tests, lane, group, start), tests, lane, group)
<1> DEFINE jobs == OneLane(tests, lane, group, start)  n == Len(tests)
<1>1. n \in Nat /\ Range(tests) = {tests[i] : i \in 1 .. n}
    BY RangeEquality
<1>2. jobs = [i \in 1 .. n |-> LiveJob(tests[i], lane, group, start + i - 1)]
    BY DEF OneLane
<1> HIDE DEF jobs, n
<1>3. jobs = [i \in 1 .. n |-> jobs[i]]
    BY <1>2
<1>4. jobs \in Seq(Range(jobs)) /\ Len(jobs) = n /\ Range(jobs) = {jobs[i] : i \in 1 .. n}
    BY <1>1, <1>3, RangeOfFunction
<1>5. ASSUME NEW i \in 1 .. n
      PROVE  /\ jobs[i] = [x \in JobFields |-> jobs[i][x]]
             /\ jobs[i].group = group /\ jobs[i].order \in Nat
             /\ TestJob(jobs[i], tests) /\ jobs[i].id = <<tests[i], "run", lane>>
    <2> DEFINE t == tests[i]  order == start + i - 1
    <2>1. order \in Nat /\ t \in Range(tests)
        BY <1>1
    <2>2. jobs[i] = LiveJob(t, lane, group, order)
        BY <1>2
    <2>3. jobs[i].id = <<t, "run", lane>>
        BY <2>2 DEF LiveJob
    <2> HIDE DEF t, order
    <2> DEFINE j == LiveJob(t, lane, group, order)
    <2>4. /\ j.id = <<t, "run", lane>> /\ j.needs = {Binary(t, lane)} /\ j.lane = lane
          /\ j.wants = On(SchemasOf[t], "product") /\ j.gives = NoSchema
          /\ j.group = group /\ j.order = order
        BY DEF LiveJob
    <2>5. j = [x \in JobFields |-> j[x]]
        BY DEF LiveJob, JobFields
    <2> HIDE DEF j
    <2>6. TestJob(j, tests)
        BY <2>1, <2>4 DEF TestJob
    <2> QED
        BY <2>1, <2>2, <2>3, <2>4, <2>5, <2>6 DEF t, j
<1>6. ASSUME NEW t \in Range(tests)
      PROVE  \E j \in Range(jobs) : j.id = <<t, "run", lane>>
    <2>1. PICK i \in 1 .. n : t = tests[i]
        BY <1>1
    <2>2. jobs[i] \in Range(jobs)
        BY <1>4
    <2> QED
        BY <1>5, <2>1, <2>2
<1> QED
    BY <1>4, <1>5, <1>6 DEF LaneIs, Chain, jobs, n

LEMMA LaneJobsFacts ==
    ASSUME NEW tests \in Seq(STRING), NEW group
    PROVE  LET jobs == LaneJobs(tests, group)
           IN  /\ Chain(jobs, group)
               /\ \A j \in Range(jobs) : TestJob(j, tests)
               /\ \A id \in LiveIds(tests) : \E j \in Range(jobs) : j.id = id
<1> DEFINE n == Len(tests)  a == OneLane(tests, "base", group, 0)
           b == OneLane(tests, "asan", group, n)  c == OneLane(tests, "memcheck", group, 2 * n)
           ab == a \o b
<1>1. n \in Nat /\ 2 * n \in Nat
    OBVIOUS
<1>2. LaneIs(a, tests, "base", group)
    BY OneLaneFacts
<1>3. LaneIs(b, tests, "asan", group)
    <2> HIDE DEF n
    <2> QED
        BY <1>1, OneLaneFacts
<1>4. LaneIs(c, tests, "memcheck", group)
    <2> DEFINE m == 2 * n
    <2>1. m \in Nat
        BY <1>1
    <2> HIDE DEF m
    <2> QED
        BY <2>1, OneLaneFacts DEF m
<1>5. LaneJobs(tests, group) = ab \o c
    BY DEF LaneJobs
<1> HIDE DEF a, b, c
<1>6. Chain(ab, group) /\ Range(ab) = Range(a) \cup Range(b)
    BY <1>2, <1>3, ChainsJoin DEF LaneIs
<1> HIDE DEF ab
<1>7. Chain(ab \o c, group) /\ Range(ab \o c) = Range(ab) \cup Range(c)
    BY <1>4, <1>6, ChainsJoin DEF LaneIs
<1>8. ASSUME NEW id \in LiveIds(tests)
      PROVE  \E j \in Range(ab \o c) : j.id = id
    <2>1. PICK t \in Range(tests), l \in {"base", "asan", "memcheck"} : id = <<t, "run", l>>
        BY DEF LiveIds
    <2> QED
        BY <1>2, <1>3, <1>4, <1>6, <1>7, <2>1 DEF LaneIs
<1> QED
    BY <1>2, <1>3, <1>4, <1>5, <1>6, <1>7, <1>8 DEF LaneIs

LEMMA SpInvariantsFacts ==
    ASSUME NEW group
    PROVE  LET j == SpInvariants(group)
           IN  /\ SpInvariantsJob(j) /\ j = [x \in JobFields |-> j[x]]
               /\ j.group = group /\ j.order \in Nat
<1> DEFINE order == Len(Lanes) * Len(SingularLive)
           d == DbJob(<<"sp-invariants">>, {}, On({"singular"}, "product"), NoSchema)
           j == [d EXCEPT !.group = group, !.order = order]
<1>1. order \in Nat
    <2>1. SingularLive \in Seq(STRING)
        BY TestPlanAssumption
    <2>2. Len(SingularLive) \in Nat /\ Len(Lanes) = 3
        BY <2>1 DEF Lanes
    <2> HIDE DEF order
    <2> QED
        BY <2>2 DEF order
<1>2. SpInvariants(group) = j
    BY DEF SpInvariants
<1> HIDE DEF order
<1>3. /\ d = [x \in JobFields |-> d[x]]
      /\ d.id = <<"sp-invariants">> /\ d.needs = {} /\ d.lane = "none"
      /\ d.wants = On({"singular"}, "product") /\ d.gives = NoSchema
    BY DEF DbJob, JobFields
<1> HIDE DEF d
<1>4. /\ j = [x \in JobFields |-> j[x]]
      /\ j.id = d.id /\ j.needs = d.needs /\ j.lane = d.lane
      /\ j.wants = d.wants /\ j.gives = d.gives /\ j.group = group /\ j.order = order
    BY <1>3 DEF JobFields
<1> HIDE DEF j
<1> QED
    BY <1>1, <1>2, <1>3, <1>4 DEF SpInvariantsJob

LEMMA OneJobChain ==
    ASSUME NEW j, NEW group, j = [x \in JobFields |-> j[x]], j.group = group, j.order \in Nat
    PROVE  Chain(<<j>>, group) /\ Range(<<j>>) = {j} /\ Len(<<j>>) = 1
<1>1. Range(<<j>>) = {j} /\ Len(<<j>>) = 1
    BY DEF Range
<1>2. <<j>> \in Seq({j})
    OBVIOUS
<1> QED
    BY <1>1, <1>2 DEF Chain

LEMMA SingularPlanFacts ==
    ASSUME NEW group
    PROVE  LET jobs == SingularPlan(group).live
           IN  /\ Chain(jobs, group)
               /\ \A j \in Range(jobs) : SingularJob(j)
               /\ \A id \in LiveIds(SingularLive) \cup {<<"sp-invariants">>} :
                     \E j \in Range(jobs) : j.id = id
               /\ SingularPlan(group).build = Builds(SingularUnit) \cup Builds(SingularLive)
               /\ SingularPlan(group).unit = UnitJobs(SingularUnit)
<1> DEFINE a == LaneJobs(SingularLive, group)  sp == SpInvariants(group)
           jobs == SingularPlan(group).live
<1>1. /\ jobs = Append(a, sp)
      /\ SingularPlan(group).build = Builds(SingularUnit) \cup Builds(SingularLive)
      /\ SingularPlan(group).unit = UnitJobs(SingularUnit)
    BY DEF SingularPlan
<1>2. /\ Chain(a, group) /\ \A j \in Range(a) : TestJob(j, SingularLive)
      /\ \A id \in LiveIds(SingularLive) : \E j \in Range(a) : j.id = id
    BY TestPlanAssumption, LaneJobsFacts
<1>3. SpInvariantsJob(sp) /\ Chain(<<sp>>, group) /\ Range(<<sp>>) = {sp}
    BY SpInvariantsFacts, OneJobChain
<1> HIDE DEF a, sp, jobs
<1>4. jobs = a \o <<sp>>
    <2> DEFINE S == Range(a) \cup {sp}
    <2>1. a \in Seq(Range(a)) /\ Range(a) \subseteq S /\ sp \in S
        BY <1>2 DEF Chain
    <2> HIDE DEF S
    <2>2. a \in Seq(S)
        BY <2>1, SeqMonotonic
    <2> QED
        BY <1>1, <2>1, <2>2, AppendIsConcat
<1>5. Chain(jobs, group) /\ Range(jobs) = Range(a) \cup {sp}
    BY <1>2, <1>3, <1>4, ChainsJoin
<1>6. \A j \in Range(jobs) : SingularJob(j)
    BY <1>2, <1>3, <1>5 DEF SingularJob
<1>7. sp.id = <<"sp-invariants">>
    BY <1>3 DEF SpInvariantsJob
<1> QED
    BY <1>1, <1>2, <1>5, <1>6, <1>7 DEF jobs

LEMMA MicroflowsPlanFacts ==
    ASSUME NEW group
    PROVE  LET jobs == MicroflowsPlan(group).live
           IN  /\ Chain(jobs, group)
               /\ \A j \in Range(jobs) : TestJob(j, MicroflowsLive)
               /\ \A id \in LiveIds(MicroflowsLive) : \E j \in Range(jobs) : j.id = id
               /\ MicroflowsPlan(group).build = Builds(MicroflowsUnit) \cup Builds(MicroflowsLive)
               /\ MicroflowsPlan(group).unit = UnitJobs(MicroflowsUnit)
<1>1. /\ MicroflowsPlan(group).live = LaneJobs(MicroflowsLive, group)
      /\ MicroflowsPlan(group).build = Builds(MicroflowsUnit) \cup Builds(MicroflowsLive)
      /\ MicroflowsPlan(group).unit = UnitJobs(MicroflowsUnit)
    BY DEF MicroflowsPlan
<1> QED
    BY <1>1, TestPlanAssumption, LaneJobsFacts

(* What a job does, wherever in a chain it stands. *)
SameWork(j, k) ==
    j.id = k.id /\ j.needs = k.needs /\ j.lane = k.lane /\ j.wants = k.wants /\ j.gives = k.gives

LEMMA ReorderedFacts ==
    ASSUME NEW jobs, jobs \in Seq(Range(jobs)), NEW start \in Nat,
           \A j \in Range(jobs) : j = [x \in JobFields |-> j[x]]
    PROVE  LET moved == Reordered(jobs, start)
           IN  /\ Chain(moved, HeldKey)
               /\ \A j \in Range(moved) :
                     /\ start <= j.order /\ j.order < start + Len(jobs)
                     /\ \E k \in Range(jobs) : SameWork(j, k)
               /\ \A k \in Range(jobs) : \E j \in Range(moved) : SameWork(j, k)
               /\ \A i \in 1 .. Len(jobs) :
                     /\ moved[i] \in Range(moved) /\ SameWork(moved[i], jobs[i])
                     /\ moved[i].order = start + i - 1
               /\ \A j \in Range(moved) : \E i \in 1 .. Len(jobs) : j = moved[i]
<1> DEFINE moved == Reordered(jobs, start)  n == Len(jobs)
<1>1. n \in Nat /\ DOMAIN jobs = 1 .. n /\ Range(jobs) = {jobs[i] : i \in 1 .. n}
    BY LenProperties, RangeEquality
<1>2. moved = [i \in 1 .. n |-> [jobs[i] EXCEPT !.group = HeldKey, !.order = start + i - 1]]
    BY <1>1 DEF Reordered
<1> HIDE DEF moved, n
<1>3. moved = [i \in 1 .. n |-> moved[i]]
    BY <1>2
<1>4. moved \in Seq(Range(moved)) /\ Range(moved) = {moved[i] : i \in 1 .. n}
    BY <1>1, <1>3, RangeOfFunction
<1>5. ASSUME NEW i \in 1 .. n
      PROVE  /\ jobs[i] \in Range(jobs) /\ SameWork(moved[i], jobs[i])
             /\ moved[i] = [x \in JobFields |-> moved[i][x]]
             /\ moved[i].group = HeldKey /\ moved[i].order = start + i - 1
             /\ moved[i].order \in Nat
             /\ start <= moved[i].order /\ moved[i].order < start + n
    <2> DEFINE k == jobs[i]  order == start + i - 1
               j == [k EXCEPT !.group = HeldKey, !.order = order]
    <2>1. k \in Range(jobs) /\ order \in Nat /\ start <= order /\ order < start + n
        BY <1>1
    <2>2. k = [x \in JobFields |-> k[x]]
        BY <2>1
    <2>3. moved[i] = j
        BY <1>2
    <2> HIDE DEF k, order
    <2>4. /\ j = [x \in JobFields |-> j[x]] /\ j.group = HeldKey /\ j.order = order
          /\ SameWork(j, k)
        BY <2>2 DEF JobFields, SameWork
    <2> HIDE DEF j
    <2> QED
        BY <2>1, <2>3, <2>4 DEF k, order
<1>6. ASSUME NEW j \in Range(moved)
      PROVE  \E i \in 1 .. n : j = moved[i]
    BY <1>4
<1>7. ASSUME NEW k \in Range(jobs)
      PROVE  \E j \in Range(moved) : SameWork(j, k)
    <2>1. PICK i \in 1 .. n : k = jobs[i]
        BY <1>1
    <2>2. moved[i] \in Range(moved)
        BY <1>4
    <2> QED
        BY <1>5, <2>1, <2>2
<1>8. \A j \in Range(moved) :
          /\ start <= j.order /\ j.order < start + n
          /\ \E k \in Range(jobs) : SameWork(j, k)
          /\ j = [x \in JobFields |-> j[x]]
          /\ j.group = HeldKey /\ j.order \in Nat
    <2> TAKE j \in Range(moved)
    <2>1. PICK i \in 1 .. n : j = moved[i]
        BY <1>6
    <2> QED
        BY <1>5, <2>1
<1>9. \A i \in 1 .. n : moved[i] \in Range(moved)
    BY <1>4
<1> QED
    BY <1>4, <1>5, <1>6, <1>7, <1>8, <1>9 DEF Chain, moved, n

(* A job keeps what it is when it is moved in a chain. *)
LEMMA WorkStays ==
    ASSUME NEW j, NEW k, SameWork(j, k)
    PROVE  /\ \A tests : TestJob(k, tests) => TestJob(j, tests)
           /\ SpInvariantsJob(k) => SpInvariantsJob(j)
           /\ SingularJob(k) => SingularJob(j)
           /\ \A s : Named(k, s) => Named(j, s)
<1>1. \A tests : TestJob(k, tests) => TestJob(j, tests)
    BY DEF SameWork, TestJob
<1>2. SpInvariantsJob(k) => SpInvariantsJob(j)
    BY DEF SameWork, SpInvariantsJob
<1>3. ASSUME NEW id, NEW needs, NEW wants, NEW gives, IsDbJob(k, id, needs, wants, gives), id # <<>>
      PROVE  IsDbJob(j, id, needs, wants, gives)
    <2>1. j.id # NoJob.id
        BY <1>3 DEF SameWork, IsDbJob, NoJob
    <2> QED
        BY <1>3, <2>1 DEF SameWork, IsDbJob
<1>4. ASSUME NEW s, Named(k, s)
      PROVE  Named(j, s)
    <2>1. <<s>> # <<>>
        BY IdsDiffer
    <2> QED
        BY <1>3, <1>4, <2>1 DEF Named
<1> QED
    BY <1>1, <1>2, <1>4 DEF SingularJob

LEMMA DbJobIsRecord ==
    ASSUME NEW id, NEW needs, NEW wants, NEW gives
    PROVE  DbJob(id, needs, wants, gives) = [x \in JobFields |-> DbJob(id, needs, wants, gives)[x]]
BY DEF DbJob, JobFields

LEMMA NamedAreRecords ==
    \A j \in {ResetSingular, ResetMicroflows, ResetCoordinator, CoordinatorHarness, SpOperation,
              SpCall, CallIntegration} : j = [x \in JobFields |-> j[x]]
<1>1. ResetSingular = [x \in JobFields |-> ResetSingular[x]]
    BY DbJobIsRecord DEF ResetSingular
<1>2. ResetMicroflows = [x \in JobFields |-> ResetMicroflows[x]]
    BY DbJobIsRecord DEF ResetMicroflows
<1>3. ResetCoordinator = [x \in JobFields |-> ResetCoordinator[x]]
    BY DbJobIsRecord DEF ResetCoordinator
<1>4. CoordinatorHarness = [x \in JobFields |-> CoordinatorHarness[x]]
    BY DbJobIsRecord DEF CoordinatorHarness
<1>5. SpOperation = [x \in JobFields |-> SpOperation[x]]
    BY DbJobIsRecord DEF SpOperation
<1>6. SpCall = [x \in JobFields |-> SpCall[x]]
    BY DbJobIsRecord DEF SpCall
<1>7. CallIntegration = [x \in JobFields |-> CallIntegration[x]]
    BY DbJobIsRecord DEF CallIntegration
<1> QED
    BY <1>1, <1>2, <1>3, <1>4, <1>5, <1>6, <1>7

(* A job of the root gate's chain, when the coordinator's reset stands at `place`. *)
RootJob(j, place) ==
    \/ Named(j, "reset-singular") /\ j.order = 0
    \/ Named(j, "reset-microflows") /\ j.order = 1
    \/ /\ \/ SingularJob(j) \/ TestJob(j, MicroflowsLive)
          \/ \E s \in {"sp-operation", "sp-call", "call-integration"} : Named(j, s)
       /\ 1 < j.order /\ j.order < place
    \/ Named(j, "reset-coordinator") /\ j.order = place
    \/ Named(j, "harness") /\ j.order = place + 1

LEMMA TheResets ==
    LET jobs == Reordered(<<ResetSingular, ResetMicroflows>>, 0)
    IN  /\ Chain(jobs, HeldKey)
        /\ \A place \in Nat : \A j \in Range(jobs) : RootJob(j, place)
        /\ \A s \in {"reset-singular", "reset-microflows"} : \E j \in Range(jobs) : Named(j, s)
<1> DEFINE two == <<ResetSingular, ResetMicroflows>>  jobs == Reordered(two, 0)
<1>1. /\ Range(two) = {ResetSingular, ResetMicroflows} /\ Len(two) = 2
      /\ two[1] = ResetSingular /\ two[2] = ResetMicroflows
    <2> HIDE DEF ResetSingular, ResetMicroflows
    <2> QED
        BY DEF Range
<1>2. two \in Seq(Range(two))
    BY <1>1
<1>3. \A j \in Range(two) : j = [x \in JobFields |-> j[x]]
    BY <1>1, NamedAreRecords
<1> HIDE DEF two
<1> DEFINE n == Len(two)
<1>4. n = 2
    BY <1>1
<1> HIDE DEF n
<1>5. /\ Chain(jobs, HeldKey)
      /\ \A i \in 1 .. n : /\ jobs[i] \in Range(jobs) /\ SameWork(jobs[i], two[i])
                           /\ jobs[i].order = 0 + i - 1
      /\ \A j \in Range(jobs) : \E i \in 1 .. n : j = jobs[i]
    BY <1>2, <1>3, ReorderedFacts DEF n
<1> HIDE DEF jobs
<1>6. /\ Chain(jobs, HeldKey)
      /\ \A i \in 1 .. 2 : /\ jobs[i] \in Range(jobs) /\ SameWork(jobs[i], two[i])
                           /\ jobs[i].order = 0 + i - 1
      /\ \A j \in Range(jobs) : \E i \in 1 .. 2 : j = jobs[i]
    BY <1>5, <1>4
<1>7. /\ Named(jobs[1], "reset-singular") /\ jobs[1].order = 0 /\ jobs[1] \in Range(jobs)
      /\ Named(jobs[2], "reset-microflows") /\ jobs[2].order = 1 /\ jobs[2] \in Range(jobs)
    <2>1. SameWork(jobs[1], ResetSingular) /\ SameWork(jobs[2], ResetMicroflows)
        BY <1>1, <1>6
    <2>2. Named(jobs[1], "reset-singular") /\ Named(jobs[2], "reset-microflows")
        BY <2>1, NamedJobs, WorkStays
    <2> QED
        BY <1>6, <2>2
<1>8. \A j \in Range(jobs) : j = jobs[1] \/ j = jobs[2]
    BY <1>6
<1> QED
    BY <1>6, <1>7, <1>8 DEF RootJob, jobs, two

(* What comes last: the regressions of the procedures, then the coordinator. *)
LEMMA TheTail ==
    ASSUME NEW start \in Nat, start > 1
    PROVE  LET jobs == Reordered(SpRegressions \o <<ResetCoordinator, CoordinatorHarness>>, start)
           IN  /\ Chain(jobs, HeldKey)
               /\ \A j \in Range(jobs) : RootJob(j, start + 3)
               /\ \A s \in {"sp-operation", "sp-call", "call-integration", "reset-coordinator",
                            "harness"} : \E j \in Range(jobs) : Named(j, s)
<1> DEFINE five == SpRegressions \o <<ResetCoordinator, CoordinatorHarness>>
           jobs == Reordered(five, start)
<1> DEFINE S == {SpOperation, SpCall, CallIntegration, ResetCoordinator, CoordinatorHarness}
           a == <<SpOperation, SpCall, CallIntegration>>
           b == <<ResetCoordinator, CoordinatorHarness>>
<1>1. /\ a \in Seq(S) /\ Len(a) = 3 /\ a[1] = SpOperation /\ a[2] = SpCall
      /\ a[3] = CallIntegration
      /\ b \in Seq(S) /\ Len(b) = 2 /\ b[1] = ResetCoordinator /\ b[2] = CoordinatorHarness
      /\ five = a \o b
    BY SpRegressionsAre
<1>2. Range(a) = {SpOperation, SpCall, CallIntegration}
    BY DEF Range
<1>3. Range(b) = {ResetCoordinator, CoordinatorHarness}
    BY DEF Range
<1> HIDE DEF five, a, b
<1>4. five \in Seq(S) /\ Range(five) = S
    <2>1. five \in Seq(S)
        BY <1>1, ConcatProperties
    <2>2. Range(five) = Range(a) \cup Range(b)
        BY <1>1, RangeConcatenation
    <2> QED
        BY <2>1, <2>2, <1>2, <1>3
<1>5. /\ Len(five) = 5 /\ Range(five) = S
      /\ five[1] = SpOperation /\ five[2] = SpCall /\ five[3] = CallIntegration
      /\ five[4] = ResetCoordinator /\ five[5] = CoordinatorHarness
    <2> HIDE DEF S
    <2>1. /\ Len(a \o b) = Len(a) + Len(b)
          /\ \A i \in 1 .. Len(a) + Len(b) :
                (a \o b)[i] = IF i <= Len(a) THEN a[i] ELSE b[i - Len(a)]
        <3>1. a \in Seq(S) /\ b \in Seq(S)
            BY <1>1
        <3> QED
            BY <3>1, ConcatProperties
    <2>2. /\ Len(five) = 5
          /\ \A i \in 1 .. 5 : five[i] = IF i <= 3 THEN a[i] ELSE b[i - 3]
        BY <1>1, <2>1
    <2>3. /\ five[1] = a[1] /\ five[2] = a[2] /\ five[3] = a[3]
          /\ five[4] = b[1] /\ five[5] = b[2]
        BY <2>2
    <2> QED
        BY <1>1, <1>4, <2>2, <2>3
<1>6. five \in Seq(Range(five))
    BY <1>4
<1>7. \A j \in Range(five) : j = [x \in JobFields |-> j[x]]
    BY <1>5, NamedAreRecords
<1> DEFINE n == Len(five)
<1>8. n = 5
    BY <1>5
<1> HIDE DEF n
<1>9. /\ Chain(jobs, HeldKey)
      /\ \A i \in 1 .. n : /\ jobs[i] \in Range(jobs) /\ SameWork(jobs[i], five[i])
                           /\ jobs[i].order = start + i - 1
      /\ \A j \in Range(jobs) : \E i \in 1 .. n : j = jobs[i]
    BY <1>6, <1>7, ReorderedFacts DEF n
<1> HIDE DEF jobs
<1>10. /\ Chain(jobs, HeldKey)
       /\ \A i \in 1 .. 5 : /\ jobs[i] \in Range(jobs) /\ SameWork(jobs[i], five[i])
                            /\ jobs[i].order = start + i - 1
       /\ \A j \in Range(jobs) : \E i \in 1 .. 5 : j = jobs[i]
    BY <1>9, <1>8
<1>11. /\ Named(jobs[1], "sp-operation") /\ Named(jobs[2], "sp-call")
       /\ Named(jobs[3], "call-integration") /\ Named(jobs[4], "reset-coordinator")
       /\ Named(jobs[5], "harness")
    <2>1. /\ SameWork(jobs[1], SpOperation) /\ SameWork(jobs[2], SpCall)
          /\ SameWork(jobs[3], CallIntegration) /\ SameWork(jobs[4], ResetCoordinator)
          /\ SameWork(jobs[5], CoordinatorHarness)
        BY <1>5, <1>10
    <2> QED
        BY <2>1, NamedJobs, WorkStays
<1>12. /\ jobs[1].order = start /\ jobs[2].order = start + 1 /\ jobs[3].order = start + 2
       /\ jobs[4].order = start + 3 /\ jobs[5].order = start + 4
    BY <1>10
<1>13. ASSUME NEW j \in Range(jobs)
       PROVE  RootJob(j, start + 3)
    <2>1. PICK i \in 1 .. 5 : j = jobs[i]
        BY <1>10
    <2>2. \/ i = 1 \/ i = 2 \/ i = 3 \/ i = 4 \/ i = 5
        OBVIOUS
    <2>3. CASE i \in {1, 2, 3}
        <3>1. \E s \in {"sp-operation", "sp-call", "call-integration"} : Named(j, s)
            BY <1>11, <2>1, <2>3
        <3>2. 1 < j.order /\ j.order < start + 3
            BY <1>12, <2>1, <2>3
        <3> QED
            BY <3>1, <3>2 DEF RootJob
    <2>4. CASE i = 4
        BY <1>11, <1>12, <2>1, <2>4 DEF RootJob
    <2>5. CASE i = 5
        <3>1. Named(j, "harness") /\ j.order = (start + 3) + 1
            BY <1>11, <1>12, <2>1, <2>5
        <3> QED
            BY <3>1 DEF RootJob
    <2> QED
        BY <2>2, <2>3, <2>4, <2>5
<1>14. \A s \in {"sp-operation", "sp-call", "call-integration", "reset-coordinator", "harness"} :
           \E j \in Range(jobs) : Named(j, s)
    BY <1>10, <1>11
<1> QED
    BY <1>10, <1>13, <1>14 DEF jobs, five

LEMMA CombinedFacts ==
    /\ Chain(CombinedLive, HeldKey)
    /\ \E place \in Nat : \A j \in Range(CombinedLive) : RootJob(j, place)
    /\ \A s \in {"reset-singular", "reset-microflows", "sp-operation", "sp-call",
                 "call-integration", "reset-coordinator", "harness"} :
          \E j \in Range(CombinedLive) : Named(j, s)
    /\ \A id \in LiveIds(SingularLive) \cup LiveIds(MicroflowsLive) \cup {<<"sp-invariants">>} :
          \E j \in Range(CombinedLive) : j.id = id
<1> DEFINE singular == SingularPlan(SharedKey).live
           microflows == MicroflowsPlan(SharedKey).live
           resets == <<ResetSingular, ResetMicroflows>>
           last == SpRegressions \o <<ResetCoordinator, CoordinatorHarness>>
           n == Len(singular)
           m == Len(microflows)
           place == 2 + n + m + 3
           a == Reordered(resets, 0)
           b == Reordered(singular, 2)
           c == Reordered(microflows, 2 + n)
           d == Reordered(last, 2 + n + m)
           ab == a \o b
           abc == ab \o c
<1>1. /\ Chain(singular, SharedKey) /\ \A j \in Range(singular) : SingularJob(j)
      /\ \A id \in LiveIds(SingularLive) \cup {<<"sp-invariants">>} :
            \E j \in Range(singular) : j.id = id
    BY SingularPlanFacts
<1>2. /\ Chain(microflows, SharedKey) /\ \A j \in Range(microflows) : TestJob(j, MicroflowsLive)
      /\ \A id \in LiveIds(MicroflowsLive) : \E j \in Range(microflows) : j.id = id
    BY MicroflowsPlanFacts
<1>3. CombinedLive = abc \o d
    <2>1. Len(resets) = 2
        OBVIOUS
    <2> QED
        BY <2>1 DEF CombinedLive
<1> HIDE DEF singular, microflows
<1>4. n \in Nat /\ m \in Nat
    <2>1. singular \in Seq(Range(singular)) /\ microflows \in Seq(Range(microflows))
        BY <1>1, <1>2 DEF Chain
    <2> QED
        BY <2>1, LenProperties
<1> HIDE DEF n, m
<1>5. /\ place \in Nat /\ 2 + n \in Nat /\ 2 + n + m \in Nat /\ 2 + n + m > 1
      /\ 2 + n <= place /\ 2 + n + m <= place /\ place = (2 + n + m) + 3
    BY <1>4
<1>6. /\ Chain(a, HeldKey) /\ \A j \in Range(a) : RootJob(j, place)
      /\ \A s \in {"reset-singular", "reset-microflows"} : \E j \in Range(a) : Named(j, s)
    <2> HIDE DEF place
    <2> QED
        BY <1>5, TheResets
<1>7. /\ Chain(b, HeldKey) /\ \A j \in Range(b) : RootJob(j, place)
      /\ \A id \in LiveIds(SingularLive) \cup {<<"sp-invariants">>} :
            \E j \in Range(b) : j.id = id
    <2>1. singular \in Seq(Range(singular)) /\ \A j \in Range(singular) : j = [x \in JobFields |-> j[x]]
        BY <1>1 DEF Chain
    <2>2. /\ Chain(b, HeldKey)
          /\ \A j \in Range(b) : /\ 2 <= j.order /\ j.order < 2 + n
                                 /\ \E k \in Range(singular) : SameWork(j, k)
          /\ \A k \in Range(singular) : \E j \in Range(b) : SameWork(j, k)
        BY <2>1, ReorderedFacts DEF n
    <2> HIDE DEF b, place
    <2>3. ASSUME NEW j \in Range(b)
          PROVE  RootJob(j, place)
        <3>1. PICK k \in Range(singular) : SameWork(j, k)
            BY <2>2
        <3>2. SingularJob(j)
            BY <1>1, <3>1, WorkStays
        <3>3. j.order \in Nat
            BY <2>2 DEF Chain
        <3>4. 1 < j.order /\ j.order < place
            BY <1>4, <1>5, <2>2, <3>3
        <3> QED
            BY <3>2, <3>4 DEF RootJob
    <2>4. ASSUME NEW id \in LiveIds(SingularLive) \cup {<<"sp-invariants">>}
          PROVE  \E j \in Range(b) : j.id = id
        <3>1. PICK k \in Range(singular) : k.id = id
            BY <1>1
        <3>2. PICK j \in Range(b) : SameWork(j, k)
            BY <2>2
        <3> QED
            BY <3>1, <3>2 DEF SameWork
    <2> QED
        BY <2>2, <2>3, <2>4
<1>8. /\ Chain(c, HeldKey) /\ \A j \in Range(c) : RootJob(j, place)
      /\ \A id \in LiveIds(MicroflowsLive) : \E j \in Range(c) : j.id = id
    <2> DEFINE start == 2 + n
    <2>1. /\ microflows \in Seq(Range(microflows))
          /\ \A j \in Range(microflows) : j = [x \in JobFields |-> j[x]]
        BY <1>2 DEF Chain
    <2>2. start \in Nat /\ 1 < start /\ start + m <= place
        BY <1>4
    <2> HIDE DEF start
    <2>3. /\ Chain(Reordered(microflows, start), HeldKey)
          /\ \A j \in Range(Reordered(microflows, start)) :
                /\ start <= j.order /\ j.order < start + m
                /\ \E k \in Range(microflows) : SameWork(j, k)
          /\ \A k \in Range(microflows) : \E j \in Range(Reordered(microflows, start)) : SameWork(j, k)
        BY <2>1, <2>2, ReorderedFacts DEF m
    <2>4. c = Reordered(microflows, start)
        BY DEF start
    <2> HIDE DEF c, place
    <2>5. ASSUME NEW j \in Range(c)
          PROVE  RootJob(j, place)
        <3>1. PICK k \in Range(microflows) : SameWork(j, k)
            BY <2>3, <2>4
        <3>2. TestJob(j, MicroflowsLive)
            BY <1>2, <3>1, WorkStays
        <3>3. j.order \in Nat
            BY <2>3, <2>4 DEF Chain
        <3>4. start <= j.order /\ j.order < start + m
            BY <2>3, <2>4
        <3>5. 1 < j.order /\ j.order < place
            BY <1>4, <1>5, <2>2, <3>3, <3>4
        <3> QED
            BY <3>2, <3>5 DEF RootJob
    <2>6. ASSUME NEW id \in LiveIds(MicroflowsLive)
          PROVE  \E j \in Range(c) : j.id = id
        <3>1. PICK k \in Range(microflows) : k.id = id
            BY <1>2
        <3>2. PICK j \in Range(c) : SameWork(j, k)
            BY <2>3, <2>4
        <3> QED
            BY <3>1, <3>2 DEF SameWork
    <2> QED
        BY <2>3, <2>5, <2>6, <2>4
<1>9. /\ Chain(d, HeldKey) /\ \A j \in Range(d) : RootJob(j, place)
      /\ \A s \in {"sp-operation", "sp-call", "call-integration", "reset-coordinator", "harness"} :
            \E j \in Range(d) : Named(j, s)
    <2> DEFINE start == 2 + n + m
    <2>1. start \in Nat /\ start > 1
        BY <1>5
    <2>2. place = start + 3
        BY <1>5
    <2> HIDE DEF start, place
    <2>3. /\ Chain(Reordered(last, start), HeldKey)
          /\ \A j \in Range(Reordered(last, start)) : RootJob(j, place)
          /\ \A s \in {"sp-operation", "sp-call", "call-integration", "reset-coordinator",
                       "harness"} : \E j \in Range(Reordered(last, start)) : Named(j, s)
        BY <2>1, <2>2, TheTail
    <2> QED
        BY <2>3 DEF start
<1> HIDE DEF a, b, c, d, place
<1>10. Chain(ab, HeldKey) /\ Range(ab) = Range(a) \cup Range(b)
    BY <1>6, <1>7, ChainsJoin
<1> HIDE DEF ab
<1>11. Chain(abc, HeldKey) /\ Range(abc) = Range(ab) \cup Range(c)
    BY <1>8, <1>10, ChainsJoin
<1> HIDE DEF abc
<1>12. Chain(abc \o d, HeldKey) /\ Range(abc \o d) = Range(abc) \cup Range(d)
    BY <1>9, <1>11, ChainsJoin
<1>13. Range(CombinedLive) = Range(a) \cup Range(b) \cup Range(c) \cup Range(d)
    BY <1>3, <1>10, <1>11, <1>12
<1>14. \A j \in Range(CombinedLive) : RootJob(j, place)
    BY <1>6, <1>7, <1>8, <1>9, <1>13
<1>15. \A s \in {"reset-singular", "reset-microflows", "sp-operation", "sp-call",
                 "call-integration", "reset-coordinator", "harness"} :
           \E j \in Range(CombinedLive) : Named(j, s)
    BY <1>6, <1>9, <1>13
<1>16. \A id \in LiveIds(SingularLive) \cup LiveIds(MicroflowsLive) \cup {<<"sp-invariants">>} :
           \E j \in Range(CombinedLive) : j.id = id
    BY <1>7, <1>8, <1>13
<1> QED
    BY <1>3, <1>5, <1>12, <1>14, <1>15, <1>16

-----------------------------------------------------------------------------
(* What a gate finds in its plan *)

Product(j, schemas) ==
    DOMAIN j.wants \subseteq schemas /\ \A s \in DOMAIN j.wants : j.wants[s] = "product"

(* A job that only reads the schemas of its component. *)
Reader(j, schemas, tests) ==
    /\ Product(j, schemas) /\ DOMAIN j.gives = {} /\ j.gives = NoSchema
    /\ j.id # <<>> /\ \A a : j.id = <<a>> => a = "sp-invariants"
    /\ j.lane # "none" => \E t : j.id = <<t, "run", j.lane>>
    /\ j.needs \subseteq Builds(tests)

LEMMA TestsRead ==
    ASSUME NEW tests, NEW schemas, \A t \in Range(tests) : SchemasOf[t] \subseteq schemas,
           NEW j, TestJob(j, tests)
    PROVE  Reader(j, schemas, tests)
<1>1. PICK t \in Range(tests), l \in {"base", "asan", "memcheck"} :
          /\ j.id = <<t, "run", l>> /\ j.needs = {Binary(t, l)} /\ j.lane = l
          /\ j.wants = On(SchemasOf[t], "product") /\ j.gives = NoSchema
    BY DEF TestJob
<1>2. Product(j, schemas) /\ DOMAIN j.gives = {}
    BY <1>1 DEF Product, On, NoSchema
<1>3. Binary(t, l) \in Builds(tests)
    BY DEF Builds, Binary
<1>4. j.id # <<>> /\ \A a : j.id # <<a>>
    BY <1>1, IdsDiffer
<1> QED
    BY <1>1, <1>2, <1>3, <1>4 DEF Reader

LEMMA SingularReads ==
    ASSUME NEW j, SingularJob(j)
    PROVE  Reader(j, {"singular", "malformed"}, SingularLive)
<1>1. CASE TestJob(j, SingularLive)
    BY <1>1, TestPlanAssumption, TestsRead
<1>2. CASE SpInvariantsJob(j)
    <2>1. Product(j, {"singular", "malformed"}) /\ DOMAIN j.gives = {}
        BY <1>2 DEF SpInvariantsJob, Product, On, NoSchema
    <2>2. j.id # <<>> /\ \A a : j.id = <<a>> => a = "sp-invariants"
        BY <1>2, IdsDiffer DEF SpInvariantsJob
    <2> QED
        BY <1>2, <2>1, <2>2 DEF SpInvariantsJob, Reader
<1> QED
    BY <1>1, <1>2 DEF SingularJob

LEMMA MicroflowsReads ==
    ASSUME NEW j, TestJob(j, MicroflowsLive)
    PROVE  Reader(j, {"microflows", "fixtures"}, MicroflowsLive)
BY TestPlanAssumption, TestsRead

LEMMA PlanIs ==
    /\ Plan["root"] = CombinedPlan
    /\ Plan["singular"] = SingularPlan(HeldKey) /\ Plan["direct"] = SingularPlan(SharedKey)
    /\ Plan["microflows"] = MicroflowsPlan(HeldKey)
    /\ Plan["cycles"] = PerfPlan /\ Plan["cycles-update"] = PerfPlan
    /\ Plan["integration"] = IntegrationPlan
    /\ Plan["drive"] = IntegrationPlan /\ Plan["drive-update"] = IntegrationPlan
BY DEF Plan, Kinds

LEMMA CombinedPlanIs ==
    /\ CombinedPlan.build = Builds(SingularUnit) \cup Builds(SingularLive)
                            \cup Builds(MicroflowsUnit) \cup Builds(MicroflowsLive)
                            \cup {<<a>> : a \in Apps} \cup Builds(RunnerUnit)
    /\ CombinedPlan.unit = UnitJobs(SingularUnit) \cup UnitJobs(MicroflowsUnit) \cup RunnerIrJobs
                           \cup RunnerFixtureJobs \cup {[id |-> <<"cert-deps-floor">>, needs |-> {}]}
    /\ CombinedPlan.live = CombinedLive
<1>1. /\ SingularPlan(SharedKey).build = Builds(SingularUnit) \cup Builds(SingularLive)
      /\ SingularPlan(SharedKey).unit = UnitJobs(SingularUnit)
    BY SingularPlanFacts
<1>2. /\ MicroflowsPlan(SharedKey).build = Builds(MicroflowsUnit) \cup Builds(MicroflowsLive)
      /\ MicroflowsPlan(SharedKey).unit = UnitJobs(MicroflowsUnit)
    BY MicroflowsPlanFacts
<1>3. IntegrationPlan.build = {<<a>> : a \in Apps}
    BY DEF IntegrationPlan
<1>4. /\ CombinedPlan.build = SingularPlan(SharedKey).build \cup MicroflowsPlan(SharedKey).build
                              \cup IntegrationPlan.build \cup RunnerIrBuilds
      /\ CombinedPlan.unit = SingularPlan(SharedKey).unit \cup MicroflowsPlan(SharedKey).unit
                             \cup RunnerIrJobs \cup RunnerFixtureJobs
                             \cup {[id |-> <<"cert-deps-floor">>, needs |-> {}]}
      /\ CombinedPlan.live = CombinedLive
    BY DEF CombinedPlan
<1> QED
    BY <1>1, <1>2, <1>3, <1>4 DEF RunnerIrBuilds

(* Binaries are named by test and variant, or by app; tests by their lane. *)
LEMMA BuildNames ==
    ASSUME NEW tests
    PROVE  \A id \in Builds(tests) : \E a, b : id = <<a, b>>
BY DEF Builds, SrcBuild

UnitJob(test, lane) == [id |-> <<test, "run", lane>>, needs |-> {Binary(test, lane)}]

LEMMA UnitJobFacts ==
    ASSUME NEW tests
    PROVE  /\ \A j \in UnitJobs(tests) : j.needs \subseteq Builds(tests)
           /\ \A j \in UnitJobs(tests) : \E a, b, c : j.id = <<a, b, c>>
           /\ LiveIds(tests) \subseteq {j.id : j \in UnitJobs(tests)}
<1>1. Range(Lanes) = {"base", "asan", "memcheck"}
    BY DEF Lanes, Range
<1>2. ASSUME NEW j \in UnitJobs(tests)
      PROVE  j.needs \subseteq Builds(tests) /\ \E a, b, c : j.id = <<a, b, c>>
    <2>1. PICK t \in Range(tests), l \in Range(Lanes) :
              j = [id |-> <<t, "run", l>>, needs |-> {Binary(t, l)}]
        BY DEF UnitJobs
    <2>2. Binary(t, l) \in Builds(tests)
        BY DEF Builds, Binary
    <2> QED
        BY <2>1, <2>2
<1>3. ASSUME NEW id \in LiveIds(tests)
      PROVE  \E j \in UnitJobs(tests) : j.id = id
    <2>1. PICK t \in Range(tests), l \in {"base", "asan", "memcheck"} : id = <<t, "run", l>>
        BY DEF LiveIds
    <2>2. l \in Range(Lanes)
        BY <1>1
    <2>3. UnitJobs(tests) = {UnitJob(x, y) : x \in Range(tests), y \in Range(Lanes)}
        BY DEF UnitJobs, UnitJob
    <2>4. UnitJob(t, l) \in UnitJobs(tests)
        BY <2>2, <2>3
    <2>5. UnitJob(t, l).id = id
        BY <2>1 DEF UnitJob
    <2> QED
        BY <2>4, <2>5
<1> QED
    BY <1>2, <1>3

LEMMA RunnerJobFacts ==
    /\ \A j \in RunnerIrJobs : j.needs \subseteq Builds(RunnerUnit) /\ \E a, b, c : j.id = <<a, b, c>>
    /\ \A j \in RunnerFixtureJobs :
          /\ j.needs = {<<"microflows-runner">>}
          /\ j.id = <<"parser-fixtures">> \/ j.id = <<"manifest-fixtures">>
<1>1. ASSUME NEW j \in RunnerIrJobs
      PROVE  j.needs \subseteq Builds(RunnerUnit) /\ \E a, b, c : j.id = <<a, b, c>>
    <2>1. PICK t \in Range(RunnerUnit), v \in {"base", "asan"} :
              j = [id |-> <<t, "run", v>>, needs |-> {SrcBuild(t, v)}]
        BY DEF RunnerIrJobs
    <2>2. SrcBuild(t, v) \in Builds(RunnerUnit)
        BY DEF Builds
    <2> QED
        BY <2>1, <2>2
<1> QED
    BY <1>1 DEF RunnerFixtureJobs

UnitName(id) ==
    \/ \E a, b, c : id = <<a, b, c>>
    \/ \E s \in {"parser-fixtures", "manifest-fixtures", "cert-deps-floor"} : id = <<s>>

BuildName(id) ==
    \/ \E a, b : id = <<a, b>>
    \/ \E s \in {"participant-stub", "microflows-runner", "uflowsd", "singular-perf"} : id = <<s>>

LiveFits(kind, j) ==
    /\ j.group \in {SharedKey, HeldKey} /\ j.order \in Nat
    /\ j.id # <<>> /\ j.needs \subseteq BuildIds(kind)
    /\ j.lane # "none" => \E t : j.id = <<t, "run", j.lane>>
    /\ kind # "root" => j.gives = NoSchema /\ DOMAIN j.gives = {}
    /\ kind \in {"singular", "direct"} => Product(j, {"singular", "malformed"})
    /\ kind = "microflows" => Product(j, {"microflows", "fixtures"})

PlanFits(kind) ==
    /\ \A id \in BuildIds(kind) : BuildName(id)
    /\ kind = "microflows" => <<"microflows-runner">> \notin BuildIds(kind)
    /\ \A id \in UnitIds(kind) : UnitName(id)
    /\ \A j \in Plan[kind].unit : j.needs \subseteq BuildIds(kind)
    /\ \A j \in Live(kind) : LiveFits(kind, j)
    /\ kind \notin {"root", "singular", "direct", "microflows"} => Live(kind) = {}

LEMMA SingularPlanFits ==
    ASSUME NEW kind \in {"singular", "direct"}
    PROVE  PlanFits(kind)
<1> DEFINE group == IF kind = "singular" THEN HeldKey ELSE SharedKey
<1>1. Plan[kind] = SingularPlan(group)
    BY PlanIs
<1>2. group \in {SharedKey, HeldKey}
    OBVIOUS
<1> HIDE DEF group
<1>3. /\ Chain(Plan[kind].live, group)
      /\ \A j \in Live(kind) : SingularJob(j)
      /\ BuildIds(kind) = Builds(SingularUnit) \cup Builds(SingularLive)
      /\ Plan[kind].unit = UnitJobs(SingularUnit)
    BY <1>1, SingularPlanFacts DEF Live, BuildIds
<1>4. \A id \in BuildIds(kind) : BuildName(id)
    BY <1>3, BuildNames DEF BuildName
<1>5. \A id \in UnitIds(kind) : UnitName(id)
    <2>1. \A j \in Plan[kind].unit : \E a, b, c : j.id = <<a, b, c>>
        BY <1>3, UnitJobFacts
    <2> QED
        BY <2>1 DEF UnitIds, UnitName
<1>6. \A j \in Plan[kind].unit : j.needs \subseteq BuildIds(kind)
    BY <1>3, UnitJobFacts
<1>7. ASSUME NEW j \in Live(kind)
      PROVE  LiveFits(kind, j)
    <2>1. Reader(j, {"singular", "malformed"}, SingularLive)
        BY <1>3, SingularReads
    <2>2. j.group \in {SharedKey, HeldKey} /\ j.order \in Nat
        BY <1>2, <1>3 DEF Chain, Live
    <2> QED
        BY <1>3, <2>1, <2>2 DEF LiveFits, Reader
<1> QED
    BY <1>4, <1>5, <1>6, <1>7 DEF PlanFits

LEMMA MicroflowsPlanFits == PlanFits("microflows")
<1> DEFINE kind == "microflows"
<1>1. Plan[kind] = MicroflowsPlan(HeldKey)
    BY PlanIs
<1>2. /\ Chain(Plan[kind].live, HeldKey)
      /\ \A j \in Live(kind) : TestJob(j, MicroflowsLive)
      /\ BuildIds(kind) = Builds(MicroflowsUnit) \cup Builds(MicroflowsLive)
      /\ Plan[kind].unit = UnitJobs(MicroflowsUnit)
    BY <1>1, MicroflowsPlanFacts DEF Live, BuildIds
<1>3. \A id \in BuildIds(kind) : \E a, b : id = <<a, b>>
    BY <1>2, BuildNames
<1>4. \A id \in BuildIds(kind) : BuildName(id)
    BY <1>3 DEF BuildName
<1>5. <<"microflows-runner">> \notin BuildIds(kind)
    BY <1>3, IdsDiffer
<1>6. \A id \in UnitIds(kind) : UnitName(id)
    <2>1. \A j \in Plan[kind].unit : \E a, b, c : j.id = <<a, b, c>>
        BY <1>2, UnitJobFacts
    <2> QED
        BY <2>1 DEF UnitIds, UnitName
<1>7. \A j \in Plan[kind].unit : j.needs \subseteq BuildIds(kind)
    BY <1>2, UnitJobFacts
<1>8. ASSUME NEW j \in Live(kind)
      PROVE  LiveFits(kind, j)
    <2>1. Reader(j, {"microflows", "fixtures"}, MicroflowsLive)
        BY <1>2, MicroflowsReads
    <2>2. j.group \in {SharedKey, HeldKey} /\ j.order \in Nat
        BY <1>2 DEF Chain, Live
    <2> QED
        BY <1>2, <2>1, <2>2 DEF LiveFits, Reader
<1> QED
    BY <1>4, <1>6, <1>7, <1>8, <1>5 DEF PlanFits

LEMMA NoLivePlanFits ==
    ASSUME NEW kind \in {"integration", "cycles", "cycles-update", "drive", "drive-update"}
    PROVE  PlanFits(kind)
<1>1. Range(<<>>) = {}
    BY DEF Range
<1>2. /\ Plan[kind].unit = {} /\ Plan[kind].live = <<>>
      /\ BuildIds(kind) \subseteq {<<"participant-stub">>, <<"microflows-runner">>, <<"uflowsd">>,
                                   <<"singular-perf">>}
    BY PlanIs DEF BuildIds, PerfPlan, IntegrationPlan, Apps
<1>3. UnitIds(kind) = {} /\ Live(kind) = {}
    BY <1>1, <1>2 DEF UnitIds, Live
<1>4. \A id \in BuildIds(kind) : BuildName(id)
    BY <1>2 DEF BuildName
<1> QED
    BY <1>2, <1>3, <1>4 DEF PlanFits

LEMMA RootJobFits ==
    ASSUME NEW j, NEW place, RootJob(j, place), j.group = HeldKey, j.order \in Nat
    PROVE  LiveFits("root", j)
<1>1. /\ Builds(SingularLive) \subseteq BuildIds("root")
      /\ Builds(MicroflowsLive) \subseteq BuildIds("root")
      /\ {<<"participant-stub">>, <<"microflows-runner">>, <<"uflowsd">>} \subseteq BuildIds("root")
    BY PlanIs, CombinedPlanIs DEF BuildIds, Apps
<1>2. CASE SingularJob(j)
    BY <1>1, <1>2, SingularReads DEF Reader, LiveFits
<1>3. CASE TestJob(j, MicroflowsLive)
    BY <1>1, <1>3, MicroflowsReads DEF Reader, LiveFits
<1>4. ASSUME NEW s, Named(j, s), s \notin {"cycles", "drive"}
      PROVE  LiveFits("root", j)
    <2>1. j.id = <<s>> /\ j.lane = "none"
        BY <1>4 DEF Named, IsDbJob
    <2>2. j.needs \subseteq {<<"participant-stub">>, <<"microflows-runner">>, <<"uflowsd">>}
        BY <1>4 DEF Named, IsDbJob
    <2>3. j.id # <<>>
        BY <2>1, IdsDiffer
    <2> QED
        BY <1>1, <2>1, <2>2, <2>3 DEF LiveFits
<1> QED
    BY <1>2, <1>3, <1>4 DEF RootJob

LEMMA RootPlanFits == PlanFits("root")
<1>1. /\ BuildIds("root") = Builds(SingularUnit) \cup Builds(SingularLive)
                            \cup Builds(MicroflowsUnit) \cup Builds(MicroflowsLive)
                            \cup {<<"participant-stub">>, <<"microflows-runner">>, <<"uflowsd">>}
                            \cup Builds(RunnerUnit)
      /\ Plan["root"].unit = UnitJobs(SingularUnit) \cup UnitJobs(MicroflowsUnit) \cup RunnerIrJobs
                           \cup RunnerFixtureJobs \cup {[id |-> <<"cert-deps-floor">>, needs |-> {}]}
      /\ Live("root") = Range(CombinedLive)
    BY PlanIs, CombinedPlanIs DEF BuildIds, Live, Apps
<1>2. \A id \in BuildIds("root") : BuildName(id)
    BY <1>1, BuildNames DEF BuildName
<1>3. ASSUME NEW j \in Plan["root"].unit
      PROVE  UnitName(j.id) /\ j.needs \subseteq BuildIds("root")
    <2>1. CASE j \in UnitJobs(SingularUnit)
        BY <1>1, <2>1, UnitJobFacts DEF UnitName
    <2>2. CASE j \in UnitJobs(MicroflowsUnit)
        BY <1>1, <2>2, UnitJobFacts DEF UnitName
    <2>3. CASE j \in RunnerIrJobs
        BY <1>1, <2>3, RunnerJobFacts DEF UnitName
    <2>4. CASE j \in RunnerFixtureJobs
        BY <1>1, <2>4, RunnerJobFacts DEF UnitName
    <2>5. CASE j = [id |-> <<"cert-deps-floor">>, needs |-> {}]
        BY <2>5 DEF UnitName
    <2> QED
        BY <1>1, <2>1, <2>2, <2>3, <2>4, <2>5
<1>4. \A id \in UnitIds("root") : UnitName(id)
    BY <1>3 DEF UnitIds
<1>5. ASSUME NEW j \in Live("root")
      PROVE  LiveFits("root", j)
    <2>1. PICK place \in Nat : \A k \in Range(CombinedLive) : RootJob(k, place)
        BY CombinedFacts
    <2>2. j.group = HeldKey /\ j.order \in Nat
        BY <1>1, CombinedFacts DEF Chain
    <2> QED
        BY <1>1, <2>1, <2>2, RootJobFits
<1> QED
    BY <1>2, <1>3, <1>4, <1>5 DEF PlanFits

LEMMA PlansFit ==
    ASSUME NEW kind \in Kinds
    PROVE  PlanFits(kind)
BY SingularPlanFits, MicroflowsPlanFits, NoLivePlanFits, RootPlanFits DEF Kinds

(* A name says which phase a job belongs to. *)
LEMMA NamesDiffer ==
    ASSUME NEW kind \in Kinds
    PROVE  /\ BuildIds(kind) \cap UnitIds(kind) = {}
           /\ \A s \in DbNames : <<s>> \notin BuildIds(kind) /\ <<s>> \notin UnitIds(kind)
           /\ <<"microflows-runner">> \notin UnitIds(kind)
<1>1. \A id : ~ (BuildName(id) /\ UnitName(id))
    BY IdsDiffer DEF BuildName, UnitName
<1>2. \A s \in DbNames : ~ BuildName(<<s>>) /\ ~ UnitName(<<s>>)
    BY IdsDiffer DEF BuildName, UnitName, DbNames
<1>3. ~ UnitName(<<"microflows-runner">>)
    BY IdsDiffer DEF UnitName
<1> QED
    BY <1>1, <1>2, <1>3, PlansFit DEF PlanFits

-----------------------------------------------------------------------------
(* What a script has done when all its steps are behind it *)

LEMMA LiveIdsJoin ==
    ASSUME NEW a \in Seq(STRING), NEW b \in Seq(STRING)
    PROVE  LiveIds(a \o b) = LiveIds(a) \cup LiveIds(b)
<1>1. Range(a \o b) = Range(a) \cup Range(b)
    BY RangeConcatenation
<1> QED
    BY <1>1 DEF LiveIds

LEMMA LiveIdsOf ==
    /\ LiveIds(SingularUnit \o SingularLive) = LiveIds(SingularUnit) \cup LiveIds(SingularLive)
    /\ LiveIds(MicroflowsUnit \o MicroflowsLive) = LiveIds(MicroflowsUnit) \cup LiveIds(MicroflowsLive)
BY TestPlanAssumption, LiveIdsJoin

(* The live jobs and the unit jobs cover what the gates are there to run. *)
LEMMA PlansCover ==
    /\ \A kind \in {"singular", "direct"} :
          /\ LiveIds(SingularUnit) \subseteq UnitIds(kind)
          /\ \A id \in LiveIds(SingularLive) \cup {<<"sp-invariants">>} : \E j \in Live(kind) : j.id = id
    /\ LiveIds(MicroflowsUnit) \subseteq UnitIds("microflows")
    /\ \A id \in LiveIds(MicroflowsLive) : \E j \in Live("microflows") : j.id = id
    /\ LiveIds(SingularUnit) \cup LiveIds(MicroflowsUnit) \subseteq UnitIds("root")
    /\ \A id \in LiveIds(SingularLive) \cup {<<"sp-invariants">>} \cup LiveIds(MicroflowsLive)
                 \cup {<<"sp-operation">>, <<"sp-call">>, <<"call-integration">>, <<"harness">>} :
          \E j \in Live("root") : j.id = id
<1>1. ASSUME NEW kind \in {"singular", "direct"}
      PROVE  /\ LiveIds(SingularUnit) \subseteq UnitIds(kind)
             /\ \A id \in LiveIds(SingularLive) \cup {<<"sp-invariants">>} :
                   \E j \in Live(kind) : j.id = id
    <2> DEFINE group == IF kind = "singular" THEN HeldKey ELSE SharedKey
    <2>1. Plan[kind] = SingularPlan(group)
        BY PlanIs
    <2> HIDE DEF group
    <2> QED
        BY <2>1, SingularPlanFacts, UnitJobFacts DEF UnitIds, Live
<1>2. /\ LiveIds(MicroflowsUnit) \subseteq UnitIds("microflows")
      /\ \A id \in LiveIds(MicroflowsLive) : \E j \in Live("microflows") : j.id = id
    <2>1. Plan["microflows"] = MicroflowsPlan(HeldKey)
        BY PlanIs
    <2> QED
        BY <2>1, MicroflowsPlanFacts, UnitJobFacts DEF UnitIds, Live
<1>3. LiveIds(SingularUnit) \cup LiveIds(MicroflowsUnit) \subseteq UnitIds("root")
    <2>1. UnitJobs(SingularUnit) \cup UnitJobs(MicroflowsUnit) \subseteq Plan["root"].unit
        BY PlanIs, CombinedPlanIs
    <2>2. /\ LiveIds(SingularUnit) \subseteq {j.id : j \in UnitJobs(SingularUnit)}
          /\ LiveIds(MicroflowsUnit) \subseteq {j.id : j \in UnitJobs(MicroflowsUnit)}
        BY UnitJobFacts
    <2> QED
        BY <2>1, <2>2 DEF UnitIds
<1>4. ASSUME NEW id \in LiveIds(SingularLive) \cup {<<"sp-invariants">>} \cup LiveIds(MicroflowsLive)
                        \cup {<<"sp-operation">>, <<"sp-call">>, <<"call-integration">>, <<"harness">>}
      PROVE  \E j \in Live("root") : j.id = id
    <2>1. Live("root") = Range(CombinedLive)
        BY PlanIs, CombinedPlanIs DEF Live
    <2>2. ASSUME NEW s \in {"sp-operation", "sp-call", "call-integration", "harness"}, id = <<s>>
          PROVE  \E j \in Live("root") : j.id = id
        <3>1. PICK j \in Range(CombinedLive) : Named(j, s)
            BY CombinedFacts
        <3> QED
            BY <2>1, <2>2, <3>1 DEF Named, IsDbJob
    <2> QED
        BY <2>1, <2>2, CombinedFacts
<1> QED
    BY <1>1, <1>2, <1>3, <1>4

LEMMA AllDone ==
    ASSUME NEW kind \in Kinds, NEW env, NEW r,
           \A s \in Range(Script[kind]) : Done(kind, env, r, s)
    PROVE  Required(kind) \subseteq r.tried /\ Emits(kind, env)
<1>1. Emits(kind, env)
    BY ScriptFacts DEF Done
<1>2. /\ "unit" \in Range(Script[kind]) => UnitIds(kind) \subseteq r.tried
      /\ "live" \in Range(Script[kind]) => \A j \in Live(kind) : j.id \in r.tried
      /\ \A s \in Range(Script[kind]) : s \in DbNames \ Suites => <<s>> \in r.tried
    BY DbStepFacts DEF Done
<1>3. CASE kind = "root"
    <2>1. {"unit", "live", "viz"} \subseteq Range(Script[kind])
        BY <1>3, Scripts DEF Range
    <2>2. <<"viz">> \in r.tried
        BY <1>2, <2>1 DEF DbNames, Suites
    <2>3. \A id \in LiveIds(SingularLive) \cup {<<"sp-invariants">>} \cup LiveIds(MicroflowsLive)
                    \cup {<<"sp-operation">>, <<"sp-call">>, <<"call-integration">>, <<"harness">>} :
              id \in r.tried
        BY <1>2, <1>3, <2>1, PlansCover
    <2>4. LiveIds(SingularUnit) \cup LiveIds(MicroflowsUnit) \subseteq r.tried
        BY <1>2, <1>3, <2>1, PlansCover
    <2>5. Required(kind) = LiveIds(SingularUnit \o SingularLive) \cup {<<"sp-invariants">>}
                           \cup LiveIds(MicroflowsUnit \o MicroflowsLive)
                           \cup {<<"sp-operation">>, <<"sp-call">>, <<"call-integration">>}
                           \cup {<<"harness">>, <<"viz">>}
        BY <1>3 DEF Required
    <2> QED
        BY <1>1, <2>2, <2>3, <2>4, <2>5, LiveIdsOf
<1>4. CASE kind \in {"singular", "direct"}
    <2>1. {"unit", "live"} \subseteq Range(Script[kind])
        BY <1>4, Scripts DEF Range
    <2>2. \A id \in LiveIds(SingularLive) \cup {<<"sp-invariants">>} : id \in r.tried
        BY <1>2, <1>4, <2>1, PlansCover
    <2>3. LiveIds(SingularUnit) \subseteq r.tried
        BY <1>2, <1>4, <2>1, PlansCover
    <2>4. Required(kind) = LiveIds(SingularUnit \o SingularLive) \cup {<<"sp-invariants">>}
        BY <1>4 DEF Required
    <2> QED
        BY <1>1, <2>2, <2>3, <2>4, LiveIdsOf
<1>5. CASE kind = "microflows"
    <2>1. {"unit", "live", "sp-operation", "sp-call", "call-integration"} \subseteq Range(Script[kind])
        BY <1>5, Scripts DEF Range
    <2>2. {<<"sp-operation">>, <<"sp-call">>, <<"call-integration">>} \subseteq r.tried
        BY <1>2, <2>1 DEF DbNames, Suites
    <2>3. \A id \in LiveIds(MicroflowsLive) : id \in r.tried
        BY <1>2, <1>5, <2>1, PlansCover
    <2>4. LiveIds(MicroflowsUnit) \subseteq r.tried
        BY <1>2, <1>5, <2>1, PlansCover
    <2>5. Required(kind) = LiveIds(MicroflowsUnit \o MicroflowsLive)
                           \cup {<<"sp-operation">>, <<"sp-call">>, <<"call-integration">>}
        BY <1>5 DEF Required
    <2> QED
        BY <1>1, <2>2, <2>3, <2>4, <2>5, LiveIdsOf
<1>6. CASE kind = "integration"
    <2>1. "harness" \in Range(Script[kind])
        BY <1>6, Scripts DEF Range
    <2>2. Required(kind) = {<<"harness">>}
        BY <1>6 DEF Required
    <2> QED
        BY <1>1, <1>2, <2>1, <2>2 DEF DbNames, Suites
<1>7. CASE kind \in {"cycles", "cycles-update", "drive", "drive-update"}
    BY <1>1, <1>7 DEF Required
<1> QED
    BY <1>3, <1>4, <1>5, <1>6, <1>7 DEF Kinds

(* What the step of a script on the database needs was built or tested before. *)
LEMMA StepNeeds ==
    ASSUME NEW kind \in Kinds, NEW s \in Range(Script[kind]), s \in DbNames
    PROVE  DbStep[s].needs \subseteq BuildIds(kind)
                                     \cup (IF kind = "microflows" THEN {<<"microflows-runner">>} ELSE {})
<1>1. Named(DbStep[s], s)
    BY DbStepFacts
<1>2. CASE s \notin {"harness", "cycles", "drive", "call-integration"}
    BY <1>1, <1>2 DEF Named, IsDbJob
<1>3. CASE s = "call-integration"
    <2>1. kind = "microflows"
        BY <1>3, Scripts DEF Kinds, Range
    <2> QED
        BY <1>1, <1>3, <2>1 DEF Named, IsDbJob
<1>4. CASE s = "harness"
    <2>1. kind = "integration"
        BY <1>4, Scripts DEF Kinds, Range
    <2> QED
        BY <1>1, <1>4, <2>1, PlanIs DEF Named, IsDbJob, BuildIds, IntegrationPlan, Apps
<1>5. CASE s = "cycles"
    <2>1. kind \in {"cycles", "cycles-update"}
        BY <1>5, Scripts DEF Kinds, Range
    <2> QED
        BY <1>1, <1>5, <2>1, PlanIs DEF Named, IsDbJob, BuildIds, PerfPlan
<1>6. CASE s = "drive"
    <2>1. kind \in {"drive", "drive-update"}
        BY <1>6, Scripts DEF Kinds, Range
    <2> QED
        BY <1>1, <1>6, <2>1, PlanIs DEF Named, IsDbJob, BuildIds, IntegrationPlan, Apps
<1> QED
    BY <1>2, <1>3, <1>4, <1>5, <1>6

(* An emitter writes a plan just when the surroundings are sound. *)
LEMMA EmitsWhenSound ==
    ASSUME NEW kind \in Kinds, NEW env \in Surroundings
    PROVE  /\ Emits(kind, env) <=> Sound(kind, env)
           /\ ~ MeetsFloor(env) => ~ Sound(kind, env)
<1>1. env.lock \subseteq {"external", "library"} /\ env.emitted \subseteq {"external", "library"}
    BY DEF Surroundings
<1>2. /\ StrictVersions(env, {}) <=> "external" \in env.lock \/ "library" \in env.lock
      /\ StrictVersions(env, {"library"}) <=> "external" \in env.lock
    BY <1>1 DEF StrictVersions
<1>3. CASE kind = "root"
    BY <1>2, <1>3 DEF Emits, EmitsCombined, Resolves, CertifyVersions, MeetsFloor, Sound
<1>4. CASE kind \in {"singular", "direct", "cycles", "cycles-update"}
    BY <1>2, <1>4 DEF Emits, EmitsSingular, Resolves, CertifyVersions, MeetsFloor, Sound
<1>5. CASE kind = "microflows"
    BY <1>2, <1>5 DEF Emits, EmitsMicroflows, Resolves, CertifyVersions, MeetsFloor, Sound
<1>6. CASE kind \in {"integration", "drive", "drive-update"}
    BY <1>2, <1>6 DEF Emits, EmitsIntegration, Resolves, CertifyVersions, MeetsFloor, Sound
<1> QED
    BY <1>3, <1>4, <1>5, <1>6 DEF Kinds, MeetsFloor, Sound

-----------------------------------------------------------------------------
(* Records *)

IsRecord(r) == r = [x \in GateFields |-> r[x]]

Aborted(r) == [r EXCEPT !.state = "failed", !.job = NoJob]
AtJob(r, j) == [r EXCEPT !.job = j]
Costing(r, cost) == [r EXCEPT !.cost = cost]

LEMMA AttemptedFacts ==
    ASSUME NEW r, IsRecord(r), NEW ids, NEW bad, NEW skipped
    PROVE  /\ IsRecord(Attempted(r, ids, bad, skipped))
           /\ Attempted(r, ids, bad, skipped).state = r.state
           /\ Attempted(r, ids, bad, skipped).at = r.at
           /\ Attempted(r, ids, bad, skipped).job = r.job
           /\ Attempted(r, ids, bad, skipped).cost = r.cost
           /\ Attempted(r, ids, bad, skipped).tried = r.tried \cup ids
           /\ Attempted(r, ids, bad, skipped).ran = r.ran \cup (ids \ (bad \cup skipped))
           /\ Attempted(r, ids, bad, skipped).faults = r.faults \cup bad
<1> DEFINE y == Attempted(r, ids, bad, skipped)
<1>1. IsRecord(y)
    BY DEF IsRecord, Attempted
<1>2. y.state = r.state /\ y.at = r.at /\ y.job = r.job /\ y.cost = r.cost
    BY DEF IsRecord, GateFields, Attempted
<1>3. y.tried = r.tried \cup ids /\ y.faults = r.faults \cup bad
    BY DEF IsRecord, GateFields, Attempted
<1>4. y.ran = r.ran \cup (ids \ (bad \cup skipped))
    BY DEF IsRecord, GateFields, Attempted
<1> QED
    BY <1>1, <1>2, <1>3, <1>4

LEMMA AdvancedFacts ==
    ASSUME NEW r, IsRecord(r), NEW kind
    PROVE  /\ IsRecord(Advanced(r, kind))
           /\ Advanced(r, kind).job = NoJob /\ Advanced(r, kind).cost = r.cost
           /\ Advanced(r, kind).tried = r.tried /\ Advanced(r, kind).ran = r.ran
           /\ Advanced(r, kind).faults = r.faults
           /\ r.at = Len(Script[kind]) =>
                 Advanced(r, kind).state = "passed" /\ Advanced(r, kind).at = r.at
           /\ r.at # Len(Script[kind]) =>
                 Advanced(r, kind).state = r.state /\ Advanced(r, kind).at = r.at + 1
<1>1. CASE r.at = Len(Script[kind])
    <2> DEFINE y == [r EXCEPT !.state = "passed", !.job = NoJob]
    <2>1. Advanced(r, kind) = y
        BY <1>1 DEF Advanced
    <2>2. IsRecord(y)
        BY DEF IsRecord
    <2>3. /\ y.job = NoJob /\ y.cost = r.cost /\ y.tried = r.tried /\ y.ran = r.ran
          /\ y.faults = r.faults /\ y.state = "passed" /\ y.at = r.at
        BY DEF IsRecord, GateFields
    <2> QED
        BY <1>1, <2>1, <2>2, <2>3
<1>2. CASE r.at # Len(Script[kind])
    <2> DEFINE y == [r EXCEPT !.at = @ + 1, !.job = NoJob]
    <2>1. Advanced(r, kind) = y
        BY <1>2 DEF Advanced
    <2>2. IsRecord(y)
        BY DEF IsRecord
    <2>3. /\ y.job = NoJob /\ y.cost = r.cost /\ y.tried = r.tried /\ y.ran = r.ran
          /\ y.faults = r.faults /\ y.state = r.state /\ y.at = r.at + 1
        BY DEF IsRecord, GateFields
    <2> QED
        BY <1>2, <2>1, <2>2, <2>3
<1> QED
    BY <1>1, <1>2

LEMMA AbortedFacts ==
    ASSUME NEW r, IsRecord(r)
    PROVE  /\ IsRecord(Aborted(r))
           /\ Aborted(r).job = NoJob /\ Aborted(r).state = "failed" /\ Aborted(r).at = r.at
           /\ Aborted(r).cost = r.cost /\ Aborted(r).tried = r.tried /\ Aborted(r).ran = r.ran
           /\ Aborted(r).faults = r.faults
<1>1. IsRecord(Aborted(r))
    BY DEF IsRecord, Aborted
<1>2. /\ Aborted(r).job = NoJob /\ Aborted(r).state = "failed" /\ Aborted(r).at = r.at
      /\ Aborted(r).cost = r.cost /\ Aborted(r).tried = r.tried /\ Aborted(r).ran = r.ran
      /\ Aborted(r).faults = r.faults
    BY DEF IsRecord, GateFields, Aborted
<1> QED
    BY <1>1, <1>2

LEMMA AtJobFacts ==
    ASSUME NEW r, IsRecord(r), NEW j
    PROVE  /\ IsRecord(AtJob(r, j))
           /\ AtJob(r, j).job = j /\ AtJob(r, j).state = r.state /\ AtJob(r, j).at = r.at
           /\ AtJob(r, j).cost = r.cost /\ AtJob(r, j).tried = r.tried /\ AtJob(r, j).ran = r.ran
           /\ AtJob(r, j).faults = r.faults
<1>1. IsRecord(AtJob(r, j))
    BY DEF IsRecord, AtJob
<1>2. /\ AtJob(r, j).job = j /\ AtJob(r, j).state = r.state /\ AtJob(r, j).at = r.at
      /\ AtJob(r, j).cost = r.cost /\ AtJob(r, j).tried = r.tried /\ AtJob(r, j).ran = r.ran
      /\ AtJob(r, j).faults = r.faults
    BY DEF IsRecord, GateFields, AtJob
<1> QED
    BY <1>1, <1>2

LEMMA CostingFacts ==
    ASSUME NEW r, IsRecord(r), NEW cost
    PROVE  /\ IsRecord(Costing(r, cost))
           /\ Costing(r, cost).job = r.job /\ Costing(r, cost).state = r.state
           /\ Costing(r, cost).at = r.at /\ Costing(r, cost).cost = cost
           /\ Costing(r, cost).tried = r.tried /\ Costing(r, cost).ran = r.ran
           /\ Costing(r, cost).faults = r.faults
<1>1. IsRecord(Costing(r, cost))
    BY DEF IsRecord, Costing
<1>2. /\ Costing(r, cost).job = r.job /\ Costing(r, cost).state = r.state
      /\ Costing(r, cost).at = r.at /\ Costing(r, cost).cost = cost
      /\ Costing(r, cost).tried = r.tried /\ Costing(r, cost).ran = r.ran
      /\ Costing(r, cost).faults = r.faults
    BY DEF IsRecord, GateFields, Costing
<1> QED
    BY <1>1, <1>2

(* A reading of the fields of a record that the invariant needs. *)
LEMMA FieldsAre ==
    ASSUME NEW kind, NEW r, Fields(kind, r)
    PROVE  /\ IsRecord(r)
           /\ r.at \in 1 .. Len(Script[kind]) /\ r.cost \in Costs \cup {0}
           /\ r.ran \subseteq r.tried /\ r.faults \subseteq r.tried
BY DEF Fields, IsRecord

LEMMA FieldsKept ==
    ASSUME NEW kind, NEW y, IsRecord(y),
           y.state \in {"idle", "running", "passed", "failed", "killed"},
           y.at \in 1 .. Len(Script[kind]), y.cost \in Costs \cup {0},
           y.ran \subseteq y.tried, y.faults \subseteq y.tried
    PROVE  Fields(kind, y)
BY DEF Fields, IsRecord

LEMMA AttemptedFields ==
    ASSUME NEW kind, NEW r, Fields(kind, r), NEW ids, NEW bad \in SUBSET ids, NEW skipped
    PROVE  Fields(kind, Attempted(r, ids, bad, skipped))
<1> DEFINE y == Attempted(r, ids, bad, skipped)
<1>1. /\ IsRecord(y) /\ y.state = r.state /\ y.at = r.at /\ y.cost = r.cost
      /\ y.tried = r.tried \cup ids /\ y.ran = r.ran \cup (ids \ (bad \cup skipped))
      /\ y.faults = r.faults \cup bad
    BY FieldsAre, AttemptedFacts
<1> HIDE DEF y
<1>2. y.ran \subseteq y.tried /\ y.faults \subseteq y.tried
    BY <1>1, FieldsAre
<1>3. /\ y.state \in {"idle", "running", "passed", "failed", "killed"}
      /\ y.at \in 1 .. Len(Script[kind]) /\ y.cost \in Costs \cup {0}
    BY <1>1 DEF Fields
<1> QED
    BY <1>1, <1>2, <1>3, FieldsKept DEF y

(* Jobs not attempted before keep the account: something is missing only after a fault. *)
LEMMA AttemptedAccounts ==
    ASSUME NEW r, IsRecord(r), Accounted(r), r.faults \subseteq r.tried, r.ran \subseteq r.tried,
           NEW ids, ids \cap r.tried = {}, NEW bad \in SUBSET ids, NEW skipped \in SUBSET ids,
           r.faults = {} => skipped = {}
    PROVE  Accounted(Attempted(r, ids, bad, skipped))
<1> DEFINE y == Attempted(r, ids, bad, skipped)
<1>1. /\ y.tried = r.tried \cup ids /\ y.ran = r.ran \cup (ids \ (bad \cup skipped))
      /\ y.faults = r.faults \cup bad
    BY AttemptedFacts
<1> HIDE DEF y
<1>2. y.faults \cap y.ran = {}
    BY <1>1 DEF Accounted
<1>3. ASSUME y.faults = {}
      PROVE  y.tried = y.ran
    BY <1>1, <1>3 DEF Accounted
<1> QED
    BY <1>2, <1>3 DEF Accounted, y

LEMMA AbortedIsGood ==
    ASSUME NEW kind, NEW env, NEW r, Fields(kind, r)
    PROVE  RecordInv(kind, env, Aborted(r))
<1> DEFINE y == Aborted(r)
<1>1. /\ IsRecord(y) /\ y.job = NoJob /\ y.state = "failed" /\ y.at = r.at /\ y.cost = r.cost
      /\ y.tried = r.tried /\ y.ran = r.ran /\ y.faults = r.faults
    BY FieldsAre, AbortedFacts
<1> HIDE DEF y
<1>2. Fields(kind, y)
    BY <1>1, FieldsAre, FieldsKept
<1> QED
    BY <1>1, <1>2 DEF RecordInv, y

-----------------------------------------------------------------------------
(* A step comes to its end *)

(* The step that a script is at is done, and nothing is missing at the last one. *)
Finished(kind, env, x) ==
    /\ Fields(kind, x) /\ x.state = "running" /\ Accounted(x)
    /\ \A s \in Range(Script[kind]) :
          Before(kind, x.at, s) \/ Script[kind][x.at] = s => Done(kind, env, x, s)
    /\ ~ Before(kind, x.at, "build") /\ Script[kind][x.at] # "build"
          => x.tried \cap BuildIds(kind) = {}
    /\ ~ Before(kind, x.at, "unit") /\ Script[kind][x.at] # "unit"
          => x.tried \cap UnitIds(kind) = {}
    /\ kind = "root" /\ Coordinator \in x.tried =>
          \A k \in Live("root") : k.id \notin {Coordinator, <<"harness">>} => k.id \in x.tried
    /\ x.at = Len(Script[kind]) => x.tried = x.ran

LEMMA DoneGrows ==
    ASSUME NEW kind, NEW env, NEW r, NEW y, r.tried \subseteq y.tried, NEW s, Done(kind, env, r, s)
    PROVE  Done(kind, env, y, s)
BY DEF Done

(* What a gate earns with a pass. *)
Passes(kind, env, y) ==
    Sound(kind, env) /\ y.faults = {} /\ Required(kind) \subseteq y.ran

LEMMA AdvancedIsGood ==
    ASSUME NEW kind \in Kinds, NEW env \in Surroundings, NEW x, Finished(kind, env, x)
    PROVE  /\ RecordInv(kind, env, Advanced(x, kind))
           /\ Advanced(x, kind).state \in {"running", "passed"}
           /\ Advanced(x, kind).state = "passed" =>
                 x.at = Len(Script[kind]) /\ Passes(kind, env, Advanced(x, kind))
           /\ Advanced(x, kind).state = "running" => Advanced(x, kind).at = x.at + 1
<1> DEFINE y == Advanced(x, kind)
<1>1. IsRecord(x) /\ x.at \in 1 .. Len(Script[kind]) /\ x.state = "running"
    BY FieldsAre DEF Finished
<1>2. /\ IsRecord(y) /\ y.job = NoJob /\ y.cost = x.cost /\ y.tried = x.tried /\ y.ran = x.ran
      /\ y.faults = x.faults
      /\ x.at = Len(Script[kind]) => y.state = "passed" /\ y.at = x.at
      /\ x.at # Len(Script[kind]) => y.state = x.state /\ y.at = x.at + 1
    BY <1>1, AdvancedFacts
<1> HIDE DEF y
<1>3. Len(Script[kind]) \in Nat \ {0} /\ Orders(kind, x.at)
    BY <1>1, ScriptFacts
<1>4. Fields(kind, y)
    <2>1. y.at \in 1 .. Len(Script[kind])
        BY <1>1, <1>2, <1>3
    <2>2. y.state \in {"idle", "running", "passed", "failed", "killed"}
        BY <1>1, <1>2
    <2>3. y.cost \in Costs \cup {0} /\ y.ran \subseteq y.tried /\ y.faults \subseteq y.tried
        BY <1>2, FieldsAre DEF Finished
    <2> QED
        BY <1>2, <2>1, <2>2, <2>3, FieldsKept
<1>5. ASSUME x.at = Len(Script[kind])
      PROVE  RecordInv(kind, env, y) /\ Passes(kind, env, y) /\ y.state = "passed"
    <2>1. y.state = "passed"
        BY <1>2, <1>5
    <2>2. \A s \in Range(Script[kind]) : Done(kind, env, x, s)
        BY <1>3, <1>5 DEF Orders, Finished
    <2>3. Required(kind) \subseteq x.tried /\ Emits(kind, env)
        BY <2>2, AllDone
    <2>4. x.tried = x.ran /\ x.faults = {}
        BY <1>5, FieldsAre DEF Finished, Accounted
    <2>5. Passes(kind, env, y)
        BY <1>2, <2>3, <2>4, EmitsWhenSound DEF Passes
    <2> QED
        BY <1>2, <1>4, <2>1, <2>5 DEF RecordInv
<1>6. ASSUME x.at # Len(Script[kind])
      PROVE  RecordInv(kind, env, y) /\ y.state = "running" /\ y.at = x.at + 1
    <2>1. y.state = "running" /\ y.at = x.at + 1
        BY <1>1, <1>2, <1>6
    <2>2. \A s : Before(kind, y.at, s) <=> Before(kind, x.at, s) \/ Script[kind][x.at] = s
        BY <1>1, <2>1, BeforeGoesOn
    <2>3. Accounted(y)
        BY <1>2 DEF Finished, Accounted
    <2>4. \A s \in Range(Script[kind]) : Before(kind, y.at, s) => Done(kind, env, y, s)
        BY <1>2, <2>2, DoneGrows DEF Finished
    <2>5. /\ ~ Before(kind, y.at, "build") => y.tried \cap BuildIds(kind) = {}
          /\ ~ Before(kind, y.at, "unit") => y.tried \cap UnitIds(kind) = {}
        BY <1>2, <2>2 DEF Finished
    <2>6. NoJob.id # Coordinator
        BY IdsDiffer DEF NoJob, Coordinator
    <2>7. InOrder(kind, y)
        BY <1>2, <2>6 DEF Finished, InOrder, Coordinating
    <2>8. y.at # 1
        BY <1>1, <2>1
    <2>9. StepsDone(kind, env, y)
        BY <2>3, <2>4, <2>5, <2>7, <2>8 DEF StepsDone
    <2> QED
        BY <1>2, <1>4, <2>1, <2>9 DEF RecordInv
<1> QED
    BY <1>5, <1>6 DEF y

(* A step that attempts nothing, or something of its own, is finished. *)
LEMMA StepFinishes ==
    ASSUME NEW kind \in Kinds, NEW env, NEW r, RecordInv(kind, env, r), r.state = "running",
           NEW x, Fields(kind, x), x.state = "running", Accounted(x), x.at = r.at,
           r.tried \subseteq x.tried,
           Done(kind, env, x, Script[kind][r.at]),
           ~ Before(kind, r.at, "build") /\ Script[kind][r.at] # "build"
              => (x.tried \ r.tried) \cap BuildIds(kind) = {},
           ~ Before(kind, r.at, "unit") /\ Script[kind][r.at] # "unit"
              => (x.tried \ r.tried) \cap UnitIds(kind) = {},
           kind = "root" => Coordinator \notin x.tried \ r.tried,
           r.at = Len(Script[kind]) => x.tried = x.ran
    PROVE  Finished(kind, env, x)
<1>1. StepsDone(kind, env, r)
    BY DEF RecordInv
<1>2. \A s \in Range(Script[kind]) :
          Before(kind, x.at, s) \/ Script[kind][x.at] = s => Done(kind, env, x, s)
    BY <1>1, DoneGrows DEF StepsDone
<1>3. /\ ~ Before(kind, x.at, "build") /\ Script[kind][x.at] # "build"
            => x.tried \cap BuildIds(kind) = {}
      /\ ~ Before(kind, x.at, "unit") /\ Script[kind][x.at] # "unit"
            => x.tried \cap UnitIds(kind) = {}
    BY <1>1 DEF StepsDone
<1>4. ASSUME kind = "root", Coordinator \in x.tried
      PROVE  \A k \in Live("root") : k.id \notin {Coordinator, <<"harness">>} => k.id \in x.tried
    BY <1>1, <1>4 DEF StepsDone, InOrder, Coordinating
<1> QED
    BY <1>2, <1>3, <1>4 DEF Finished

-----------------------------------------------------------------------------
(* One gate takes a step *)

Moves(g, y) == world' = world /\ gate' = [gate EXCEPT ![g] = y]

Unmet(g, y) ==
    \E t \in Suites :
        /\ Kind(g) \in {t, Update[t]} /\ y.cost # 0
        /\ \/ world.baseline[t].cost = 0 \/ Updaters(t, "killed") # {}
           \/ \E r \in Records(t) : y.cost > 3 * r

(* The record y may come after that of g. *)
Follows(g, y) ==
    /\ RecordInv(Kind(g), world.env, y)
    /\ gate[g].state \in {"idle", "running"} /\ y.state # "idle"
    /\ gate[g].at <= y.at
    /\ y.state = "passed" =>
          /\ Passes(Kind(g), world.env, y)
          /\ Kind(g) \in Suites => \E r \in Records(Kind(g)) : y.cost <= 3 * r
    /\ y.state = "failed" => y.faults # {} \/ ~ Sound(Kind(g), world.env) \/ Unmet(g, y)
    /\ y.state = "running" =>
          /\ gate[g].tried \subseteq y.tried
          /\ \A t, l : gate[g].job.id = <<t, "run", l>> =>
                y.job.id = <<t, "run", l>> \/ <<t, "run", l>> \in y.tried

LEMMA TheWorld ==
    ASSUME world \in Worlds
    PROVE  /\ world.env \in Surroundings /\ \A g \in Gates : Kind(g) \in Kinds
           /\ world.db \in [Schemas -> Shapes] /\ world.baseline \in [Suites -> Baselines]
<1>1. world \in [kind : [Gates -> Kinds], env : Surroundings, db : [Schemas -> Shapes],
                 baseline : [Suites -> Baselines]]
    BY GatesAssumption
<1> QED
    BY <1>1 DEF Kind

LEMMA OneMoves ==
    ASSUME gate = [u \in Gates |-> gate[u]], NEW g \in Gates, NEW y, Moves(g, y)
    PROVE  /\ gate' = [u \in Gates |-> gate'[u]] /\ gate'[g] = y
           /\ \A u \in Gates \ {g} : gate'[u] = gate[u]
           /\ \A u : Kind(u)' = Kind(u)
BY DEF Moves, Kind

LEMMA RecordsMove ==
    ASSUME GInv, NEW g \in Gates, NEW y, Moves(g, y), Follows(g, y)
    PROVE  \A u \in Gates : RecordInv(Kind(u), world.env, gate[u])'
<1>1. /\ gate'[g] = y /\ \A u \in Gates \ {g} : gate'[u] = gate[u]
      /\ \A u : Kind(u)' = Kind(u)
    BY OneMoves DEF GInv
<1>2. world' = world
    BY DEF Moves
<1> SUFFICES ASSUME NEW u \in Gates
             PROVE  RecordInv(Kind(u), world.env, gate[u])'
    OBVIOUS
<1>3. RecordInv(Kind(u), world.env, gate'[u])
    BY <1>1 DEF Follows, GInv
<1> QED
    BY <1>1, <1>2, <1>3

(* The records of a suite, of a world and its gates. *)
Recorded(suite, w, gates) ==
    ({w.baseline[suite].cost}
     \cup {gates[u].cost : u \in {v \in Gates : w.kind[v] = Update[suite] /\ gates[v].state = "passed"}})
    \ {0}

LEMMA RecordsAre ==
    /\ \A t : Records(t) = Recorded(t, world, gate) /\ Records(t)' = Recorded(t, world', gate')
    /\ \A u : Records(Kind(u))' = Recorded(Kind(u)', world', gate')
BY DEF Records, Recorded, Updaters, Kind

(* Costs recorded and updates killed stay so. *)
LEMMA VerdictsStand ==
    ASSUME GInv, NEW g \in Gates, NEW y, Moves(g, y), Follows(g, y)
    PROVE  /\ \A t \in Suites : /\ Records(t) \subseteq Records(t)'
                                /\ Updaters(t, "killed") \subseteq Updaters(t, "killed")'
           /\ OutcomeIsEarned'
<1>1. /\ gate'[g] = y /\ \A u \in Gates \ {g} : gate'[u] = gate[u]
      /\ \A u : Kind(u)' = Kind(u)
    BY OneMoves DEF GInv
<1>2. world' = world
    BY DEF Moves
<1>3. gate[g].state \in {"idle", "running"}
    BY DEF Follows
<1>4. ASSUME NEW t \in Suites, NEW state \in {"passed", "killed"}
      PROVE  \A u \in Updaters(t, state) : u \in Updaters(t, state)' /\ gate'[u] = gate[u]
    BY <1>1, <1>3, <1>4 DEF Updaters
<1>5. ASSUME NEW t \in Suites
      PROVE  /\ Records(t) \subseteq Records(t)'
             /\ Updaters(t, "killed") \subseteq Updaters(t, "killed")'
    <2>1. Updaters(t, "killed") \subseteq Updaters(t, "killed")'
        BY <1>4
    <2>2. ASSUME NEW r \in Records(t)
          PROVE  r \in Records(t)'
        <3>1. r # 0 /\ (r = world.baseline[t].cost
                          \/ \E u \in Updaters(t, "passed") : r = gate[u].cost)
            BY DEF Records
        <3>2. CASE r = world.baseline[t].cost
            BY <1>2, <3>1, <3>2 DEF Records
        <3>3. CASE \E u \in Updaters(t, "passed") : r = gate[u].cost
            <4>1. PICK u \in Updaters(t, "passed") : r = gate[u].cost
                BY <3>3
            <4>2. u \in Updaters(t, "passed")' /\ r = gate'[u].cost
                BY <1>4, <4>1
            <4> QED
                BY <3>1, <4>2 DEF Records
        <3> QED
            BY <3>1, <3>2, <3>3
    <2> QED
        BY <2>1, <2>2
<1>6. \A t \in Suites : Recorded(t, world, gate) \subseteq Recorded(t, world', gate')
    BY <1>5, RecordsAre
<1>7. ASSUME NEW u \in Gates, gate'[u].state = "passed"
      PROVE  /\ Sound(Kind(u), world.env) /\ gate'[u].faults = {}
             /\ Required(Kind(u)) \subseteq gate'[u].ran
             /\ Kind(u) \in Suites =>
                   \E r \in Recorded(Kind(u), world', gate') : gate'[u].cost <= 3 * r
    <2>1. CASE u = g
        <3>1. Passes(Kind(g), world.env, y)
            BY <1>1, <1>7, <2>1 DEF Follows
        <3>2. Kind(g) \in Suites => \E r \in Records(Kind(g)) : y.cost <= 3 * r
            BY <1>1, <1>7, <2>1 DEF Follows
        <3>3. Kind(g) \in Suites => \E r \in Recorded(Kind(g), world', gate') : y.cost <= 3 * r
            BY <1>6, <3>2, RecordsAre
        <3> QED
            BY <1>1, <2>1, <3>1, <3>3 DEF Passes
    <2>2. CASE u # g
        <3>1. gate'[u] = gate[u] /\ OutcomeIsEarned
            BY <1>1, <2>2 DEF GInv
        <3> QED
            BY <1>7, <1>6, <3>1, RecordsAre DEF OutcomeIsEarned
    <2> QED
        BY <2>1, <2>2
<1>8. ASSUME NEW u \in Gates, gate'[u].state = "failed"
      PROVE  \/ gate'[u].faults # {} \/ ~ Sound(Kind(u), world.env)
             \/ \E t \in Suites :
                    /\ Kind(u) \in {t, Update[t]} /\ gate'[u].cost # 0
                    /\ \/ world.baseline[t].cost = 0 \/ Updaters(t, "killed")' # {}
                       \/ \E r \in Records(t)' : gate'[u].cost > 3 * r
    <2>1. CASE u = g
        BY <1>1, <1>5, <1>8, <2>1 DEF Follows, Unmet
    <2>2. CASE u # g
        <3>1. gate'[u] = gate[u] /\ OutcomeIsEarned
            BY <1>1, <2>2 DEF GInv
        <3> QED
            BY <1>5, <1>8, <3>1 DEF OutcomeIsEarned
    <2> QED
        BY <2>1, <2>2
<1>9. OutcomeIsEarned'
    BY <1>1, <1>2, <1>7, <1>8, RecordsAre DEF OutcomeIsEarned
<1> QED
    BY <1>5, <1>9

LEMMA RowsMove ==
    ASSUME GInv, NEW g \in Gates, NEW y, Moves(g, y), Follows(g, y),
           \A row \in rows' : \/ row \in rows
                              \/ \E s, t, l : /\ row = <<s, t, <<g, l>>>>
                                              /\ y.job.id = <<t, "run", l>>
    PROVE  RowsInv'
<1>1. /\ gate'[g] = y /\ \A u \in Gates \ {g} : gate'[u] = gate[u]
    BY OneMoves DEF GInv
<1>2. ASSUME NEW row \in rows'
      PROVE  \E s, t, l : \E u \in Gates : LeftBy(row, s, t, l, u, gate'[u])
    <2>1. CASE \E s, t, l : row = <<s, t, <<g, l>>>> /\ y.job.id = <<t, "run", l>>
        <3>1. PICK s, t, l : row = <<s, t, <<g, l>>>> /\ y.job.id = <<t, "run", l>>
            BY <2>1
        <3>2. LeftBy(row, s, t, l, g, y)
            BY <3>1 DEF Follows, LeftBy
        <3> QED
            BY <1>1, <3>2
    <2>2. CASE row \in rows
        <3>1. PICK s, t, l, v : v \in Gates /\ LeftBy(row, s, t, l, v, gate[v])
            <4>1. RowsInv
                BY DEF GInv
            <4> QED
                BY <2>2, <4>1 DEF RowsInv
        <3>2. CASE v = g
            <4>1. LeftBy(row, s, t, l, g, gate[g])
                BY <3>1, <3>2
            <4>2. gate[g].state = "running"
                BY <4>1 DEF Follows, LeftBy
            <4>3. LeftBy(row, s, t, l, g, y)
                BY <4>1, <4>2 DEF Follows, LeftBy
            <4> QED
                BY <1>1, <4>3
        <3>3. CASE v # g
            BY <1>1, <3>1, <3>3
        <3> QED
            BY <3>2, <3>3
    <2> QED
        BY <2>1, <2>2
<1> QED
    BY <1>2, Zenon DEF RowsInv

-----------------------------------------------------------------------------
(* What a step leaves of the locks, the schemas and the records *)

LEMMA Runs ==
    ASSUME GInv, NEW g \in Gates, gate[g].state = "running"
    PROVE  /\ Kind(g) \in Kinds /\ world.env \in Surroundings
           /\ RecordInv(Kind(g), world.env, gate[g])
           /\ Fields(Kind(g), gate[g]) /\ IsRecord(gate[g])
           /\ StepsDone(Kind(g), world.env, gate[g])
           /\ gate[g].at \in 1 .. Len(Script[Kind(g)]) /\ Len(Script[Kind(g)]) \in Nat \ {0}
           /\ Orders(Kind(g), gate[g].at)
           /\ Step(g) \in Range(Script[Kind(g)]) /\ Step(g) = Script[Kind(g)][gate[g].at]
           /\ InPlace(Kind(g), gate[g], db)
<1>1. Kind(g) \in Kinds /\ world.env \in Surroundings
    BY TheWorld DEF GInv
<1>2. RecordInv(Kind(g), world.env, gate[g])
    BY DEF GInv
<1>3. Fields(Kind(g), gate[g]) /\ StepsDone(Kind(g), world.env, gate[g])
    BY <1>2 DEF RecordInv
<1>4. IsRecord(gate[g]) /\ gate[g].at \in 1 .. Len(Script[Kind(g)])
    BY <1>3, FieldsAre
<1>5. /\ Len(Script[Kind(g)]) \in Nat \ {0} /\ Script[Kind(g)] \in Seq(StepNames)
      /\ Orders(Kind(g), gate[g].at)
    BY <1>1, <1>4, ScriptFacts
<1>6. Script[Kind(g)][gate[g].at] \in Range(Script[Kind(g)])
    BY <1>4, <1>5, RangeEquality
<1>7. InPlace(Kind(g), gate[g], db)
    BY DEF GInv, SchemasInv
<1> QED
    BY <1>1, <1>2, <1>3, <1>4, <1>5, <1>6, <1>7 DEF Step

LEMMA LocksMove ==
    ASSUME GInv, NEW g \in Gates, NEW y, Moves(g, y),
           key' \in [Keys -> Gates \cup {NoGate}],
           \A k \in Keys : key'[k] = g => y.state = "running",
           \A k \in Keys : key'[k] \notin {g, NoGate} => key'[k] = key[k],
           key[DbLock] \notin {g, NoGate} => key'[DbLock] = key[DbLock],
           y.state = "running" /\ Before(Kind(g), y.at, "lock") => key'[DbLock] = g
    PROVE  LocksInv'
<1>1. /\ gate'[g] = y /\ \A u \in Gates \ {g} : gate'[u] = gate[u]
      /\ \A u : Kind(u)' = Kind(u)
    BY OneMoves DEF GInv
<1>2. LocksInv
    BY DEF GInv
<1>3. ASSUME NEW k \in Keys, key'[k] # NoGate
      PROVE  gate'[key'[k]].state = "running"
    <2>1. CASE key'[k] = g
        BY <1>1, <2>1
    <2>2. CASE key'[k] # g
        <3>1. key'[k] = key[k] /\ key[k] \in Gates \ {g}
            BY <1>3, <2>2
        <3> QED
            BY <1>1, <1>2, <1>3, <3>1 DEF LocksInv
    <2> QED
        BY <2>1, <2>2
<1>4. ASSUME NEW u \in Gates, gate'[u].state = "running", Before(Kind(u)', gate'[u].at, "lock")
      PROVE  key'[DbLock] = u
    <2>1. CASE u = g
        BY <1>1, <1>4, <2>1
    <2>2. CASE u # g
        <3>1. gate[u].state = "running" /\ Before(Kind(u), gate[u].at, "lock")
            BY <1>1, <1>4, <2>2
        <3>2. key[DbLock] = u
            BY <1>2, <3>1 DEF LocksInv
        <3> QED
            BY <2>2, <3>2, GatesAssumption
    <2> QED
        BY <2>1, <2>2
<1> QED
    BY <1>3, <1>4 DEF LocksInv

(* A step that leaves the locks alone, or drops its own at the end. *)
LEMMA LocksStay ==
    ASSUME GInv, NEW g \in Gates, NEW y, Moves(g, y),
           key' = IF y.state = "running" THEN key ELSE Released(g, key),
           y.state = "running" /\ Before(Kind(g), y.at, "lock") => key[DbLock] = g
    PROVE  LocksInv'
<1>1. key \in [Keys -> Gates \cup {NoGate}]
    BY DEF GInv, LocksInv
<1>2. CASE y.state = "running"
    <2>1. key' = key
        BY <1>2
    <2> QED
        BY <1>1, <1>2, <2>1, LocksMove
<1>3. CASE y.state # "running"
    <2>1. key' = [k \in Keys |-> IF key[k] = g THEN NoGate ELSE key[k]]
        BY <1>1, <1>3 DEF Released
    <2>2. key' \in [Keys -> Gates \cup {NoGate}]
        BY <1>1, <2>1
    <2>3. DbLock \in Keys
        BY DEF Keys
    <2>4. /\ \A k \in Keys : key'[k] # g
          /\ \A k \in Keys : key'[k] \notin {g, NoGate} => key'[k] = key[k]
          /\ key[DbLock] \notin {g, NoGate} => key'[DbLock] = key[DbLock]
        BY <2>1, <2>3, GatesAssumption
    <2> QED
        BY <1>3, <2>2, <2>4, LocksMove
<1> QED
    BY <1>2, <1>3

(* A live job takes and returns the lock of its group. *)
LEMMA GroupLocks ==
    ASSUME GInv, NEW g \in Gates, NEW y, Moves(g, y), y.state = "running",
           NEW group \in {SharedKey, HeldKey}, NEW holder \in {g, NoGate},
           key' = [key EXCEPT ![group] = holder],
           Before(Kind(g), y.at, "lock") => key[DbLock] = g
    PROVE  LocksInv'
<1>1. key \in [Keys -> Gates \cup {NoGate}]
    BY DEF GInv, LocksInv
<1>2. group \in Keys /\ DbLock \in Keys /\ group # DbLock
    BY GatesAssumption DEF Keys
<1>3. key' \in [Keys -> Gates \cup {NoGate}]
    BY <1>1
<1>4. /\ key'[DbLock] = key[DbLock]
      /\ \A k \in Keys : key'[k] \notin {g, NoGate} => key'[k] = key[k]
    BY <1>1, <1>2
<1> QED
    BY <1>3, <1>4, LocksMove

LEMMA BaselinesMove ==
    ASSUME GInv, NEW g \in Gates, NEW y, Moves(g, y), Follows(g, y),
           \A t \in Suites :
               \/ baseline'[t] = baseline[t]
               \/ /\ baseline'[t] = [readable |-> TRUE, cost |-> y.cost] /\ y.cost \in Costs
                  /\ Kind(g) = Update[t] /\ y.state = "passed"
               \/ baseline'[t] = Torn /\ Kind(g) = Update[t] /\ y.state = "killed"
    PROVE  BaselineInv'
<1>1. gate'[g] = y /\ (\A u : Kind(u)' = Kind(u)) /\ world' = world
    BY OneMoves DEF GInv, Moves
<1>2. /\ \A t \in Suites : Records(t) \subseteq Records(t)'
      /\ \A t \in Suites : Updaters(t, "killed") \subseteq Updaters(t, "killed")'
    BY VerdictsStand
<1>3. Costs \subseteq Nat \ {0}
    BY GatesAssumption
<1> SUFFICES ASSUME NEW t \in Suites
             PROVE  /\ baseline'[t] \in Baselines
                    /\ baseline'[t].cost # 0 => baseline'[t].cost \in Records(t)'
                    /\ ~ baseline'[t].readable \/ baseline'[t].cost = 0 =>
                          world.baseline[t].cost = 0 \/ Updaters(t, "killed")' # {}
    BY <1>1 DEF BaselineInv
<1>4. CASE baseline'[t] = baseline[t]
    BY <1>2, <1>4 DEF GInv, BaselineInv
<1>5. CASE /\ baseline'[t] = [readable |-> TRUE, cost |-> y.cost] /\ y.cost \in Costs
           /\ Kind(g) = Update[t] /\ y.state = "passed"
    <2>1. baseline'[t] \in Baselines /\ baseline'[t].cost = y.cost /\ baseline'[t].readable = TRUE
        BY <1>5 DEF Baselines
    <2>2. y.cost # 0
        BY <1>3, <1>5
    <2>3. g \in Updaters(t, "passed")'
        BY <1>1, <1>5 DEF Updaters
    <2>4. y.cost \in Records(t)'
        BY <1>1, <2>2, <2>3 DEF Records
    <2> QED
        BY <2>1, <2>2, <2>4
<1>6. CASE baseline'[t] = Torn /\ Kind(g) = Update[t] /\ y.state = "killed"
    <2>1. baseline'[t] \in Baselines /\ baseline'[t].cost = 0
        BY <1>6 DEF Baselines, Torn
    <2>2. g \in Updaters(t, "killed")'
        BY <1>1, <1>6 DEF Updaters
    <2> QED
        BY <2>1, <2>2
<1> QED
    BY <1>4, <1>5, <1>6

(* Without a reset behind it, and before its chain, a gate has put nothing in place. *)
LEMMA NothingInPlace ==
    ASSUME NEW g \in Gates, GInv, gate[g].state = "running",
           ~ Before(Kind(g), gate[g].at, "lock"), NEW d
    PROVE  InPlace(Kind(g), gate[g], d)
<1>1. Orders(Kind(g), gate[g].at) /\ StepsDone(Kind(g), world.env, gate[g])
    BY Runs
<1>2. /\ ~ Before(Kind(g), gate[g].at, "reset-singular")
      /\ ~ Before(Kind(g), gate[g].at, "reset-microflows")
      /\ ~ Before(Kind(g), gate[g].at, "reset-coordinator")
    BY <1>1 DEF Orders
<1>3. ASSUME Kind(g) = "root"
      PROVE  InTheChain(gate[g], d)
    <2>1. gate[g].at = 1
        BY <1>1, <1>3 DEF Orders
    <2>2. gate[g].tried = {}
        BY <1>1, <2>1 DEF StepsDone
    <2> QED
        BY <2>2 DEF InTheChain
<1> QED
    BY <1>2, <1>3 DEF InPlace

(* The schemas that a live job or a step resets are among those of its gate. *)
LEMMA LiveResets ==
    ASSUME NEW kind, NEW j \in Live(kind)
    PROVE  DOMAIN j.gives \subseteq ResetBy(kind)
BY DEF Live, ResetBy

LEMMA StepResets ==
    ASSUME GInv, NEW g \in Gates, gate[g].state = "running", IsDbStep(g)
    PROVE  DOMAIN DbStep[Step(g)].gives \subseteq ResetBy(Kind(g))
<1>1. Step(g) \in Range(Script[Kind(g)]) \cap DOMAIN DbStep
    BY Runs DEF IsDbStep
<1> QED
    BY <1>1 DEF ResetBy

LEMMA SchemasMove ==
    ASSUME GInv, NEW g \in Gates, NEW y, Moves(g, y), Follows(g, y),
           db' \in [Schemas -> Shapes],
           db' = db \/ (gate[g].state = "running" /\ Before(Kind(g), gate[g].at, "lock")),
           \A s \in Schemas : db'[s] = db[s] \/ s \in ResetBy(Kind(g)),
           y.state = "running" => InPlace(Kind(g), y, db')
    PROVE  SchemasInv'
<1>1. /\ gate'[g] = y /\ \A u \in Gates \ {g} : gate'[u] = gate[u]
      /\ \A u : Kind(u)' = Kind(u)
    BY OneMoves DEF GInv
<1>2. SchemasInv /\ LocksInv /\ world \in Worlds
    BY DEF GInv
<1>3. ASSUME NEW u \in Gates, gate'[u].state = "running"
      PROVE  InPlace(Kind(u), gate'[u], db')
    <2>1. CASE u = g
        BY <1>1, <1>3, <2>1
    <2>2. CASE u # g
        <3>1. gate'[u] = gate[u] /\ gate[u].state = "running"
            BY <1>1, <1>3, <2>2
        <3>2. CASE db' = db
            BY <1>2, <3>1, <3>2 DEF SchemasInv
        <3>3. CASE gate[g].state = "running" /\ Before(Kind(g), gate[g].at, "lock")
            <4>1. key[DbLock] = g
                BY <1>2, <3>3 DEF LocksInv
            <4>2. ~ Before(Kind(u), gate[u].at, "lock")
                BY <1>2, <2>2, <3>1, <4>1 DEF LocksInv
            <4> QED
                BY <3>1, <4>2, NothingInPlace
        <3> QED
            BY <3>2, <3>3
    <2> QED
        BY <2>1, <2>2
<1>4. ASSUME NEW u \in Gates, NEW k, Before(Kind(u), gate[u].at, k)
      PROVE  Before(Kind(u), gate'[u].at, k)
    <2>1. CASE u = g
        <3>1. y.at \in 1 .. Len(Script[Kind(g)]) /\ Len(Script[Kind(g)]) \in Nat
            BY <1>2, TheWorld, ScriptFacts DEF Follows, RecordInv, Fields
        <3>2. gate[g].at \in 1 .. Len(Script[Kind(g)]) /\ gate[g].at <= y.at
            BY DEF GInv, Follows, RecordInv, Fields
        <3>3. 1 .. gate[g].at - 1 \subseteq 1 .. y.at - 1
            BY <3>1, <3>2
        <3> QED
            BY <1>1, <1>4, <2>1, <3>3 DEF Before
    <2>2. CASE u # g
        BY <1>1, <1>4, <2>2
    <2> QED
        BY <2>1, <2>2
<1>5. \A s : Disturbed(s) => Disturbed(s)'
    <2>1. SUFFICES ASSUME NEW s, NEW u \in Gates, s \in ResetBy(Kind(u)),
                          Before(Kind(u), gate[u].at, "lock")
                   PROVE  s \in ResetBy(Kind(u)') /\ Before(Kind(u)', gate'[u].at, "lock")
        BY DEF Disturbed, Before
    <2> QED
        BY <1>1, <1>4, <2>1
<1>6. ASSUME NEW s \in Schemas
      PROVE  db'[s] = world.db[s] \/ Disturbed(s)'
    <2>1. CASE db'[s] = db[s]
        BY <1>2, <1>5, <2>1 DEF SchemasInv
    <2>2. CASE db'[s] # db[s]
        <3>1. s \in ResetBy(Kind(g)) /\ Before(Kind(g), gate[g].at, "lock")
            BY <2>2
        <3>2. Before(Kind(g), gate'[g].at, "lock")
            BY <1>4, <3>1
        <3>3. s \in ResetBy(Kind(g)') /\ Before(Kind(g)', gate'[g].at, "lock")
            BY <1>1, <3>1, <3>2
        <3> QED
            BY <3>3 DEF Disturbed, Before
    <2> QED
        BY <2>1, <2>2
<1>7. \A s \in Schemas : db'[s] = world'.db[s] \/ Disturbed(s)'
    BY <1>6 DEF Moves
<1>8. (\A u \in Gates : gate'[u].state = "running" => InPlace(Kind(u), gate[u], db)')
    BY <1>1, <1>3
<1> QED
    BY <1>7, <1>8 DEF SchemasInv

(* What a gate has put in place stays while it attempts other things. *)
LEMMA InPlaceStays ==
    ASSUME NEW kind, NEW r, NEW y, NEW d, InPlace(kind, r, d), r.at \in Nat \ {0},
           \/ y.at = r.at
           \/ /\ y.at = r.at + 1
              /\ Script[kind][r.at] \notin {"reset-singular", "reset-microflows", "reset-coordinator"},
           r.faults \subseteq y.faults,
           kind = "root" =>
              /\ \A j \in Resets : j.id \in y.tried => j.id \in r.tried
              /\ Coordinating(r) => Coordinating(y)
    PROVE  InPlace(kind, y, d)
<1>1. /\ Before(kind, y.at, "reset-singular") => Before(kind, r.at, "reset-singular")
      /\ Before(kind, y.at, "reset-microflows") => Before(kind, r.at, "reset-microflows")
      /\ Before(kind, y.at, "reset-coordinator") => Before(kind, r.at, "reset-coordinator")
      /\ Before(kind, r.at, "live") => Before(kind, y.at, "live")
    BY BeforeGoesOn
<1>2. ASSUME kind = "root", ~ Before(kind, y.at, "live")
      PROVE  InTheChain(y, d)
    <2>1. InTheChain(r, d)
        BY <1>1, <1>2 DEF InPlace
    <2>2. \A s : SpoiltBy(r, s) => SpoiltBy(y, s)
        BY DEF SpoiltBy
    <2>3. /\ ResetSingular.id = <<"reset-singular">> /\ ResetMicroflows.id = <<"reset-microflows">>
          /\ ResetCoordinator.id = Coordinator
        BY NamedJobs DEF Named, IsDbJob, Coordinator
    <2>4. \A id \in {<<"reset-singular">>, <<"reset-microflows">>, Coordinator} :
              id \in y.tried => id \in r.tried
        BY <1>2, <2>3 DEF Resets
    <2>5. Coordinating(r) => Coordinating(y)
        BY <1>2
    <2> HIDE DEF Coordinating
    <2> QED
        BY <2>1, <2>2, <2>4, <2>5 DEF InTheChain
<1> QED
    BY <1>1, <1>2 DEF InPlace

(* The parts of the invariant after a step of one gate. *)
LEMMA StepKeeps ==
    ASSUME GInv, NEW g \in Gates, NEW y, Moves(g, y), Follows(g, y),
           RowsInv', SchemasInv', LocksInv',
           baseline' = [t \in Suites |-> baseline'[t]], BaselineInv'
    PROVE  GInv'
<1>1. /\ world' \in Worlds /\ gate' = [u \in Gates |-> gate'[u]]
    BY OneMoves DEF GInv, Moves
<1>2. (\A u \in Gates : RecordInv(Kind(u), world.env, gate[u])') /\ OutcomeIsEarned'
    BY RecordsMove, VerdictsStand
<1> QED
    BY <1>1, <1>2 DEF GInv

LEMMA QuietStep ==
    ASSUME GInv, NEW g \in Gates, NEW y, Moves(g, y), Follows(g, y),
           UNCHANGED <<db, rows, baseline>>,
           key' = IF y.state = "running" THEN key ELSE Released(g, key),
           y.state = "running" =>
              InPlace(Kind(g), y, db) /\ (Before(Kind(g), y.at, "lock") => key[DbLock] = g)
    PROVE  GInv'
<1>1. RowsInv'
    BY RowsMove
<1>2. SchemasInv'
    <2>1. db' = db
        OBVIOUS
    <2>2. db' \in [Schemas -> Shapes]
        BY <2>1 DEF GInv, SchemasInv
    <2>3. y.state = "running" => InPlace(Kind(g), y, db')
        BY <2>1
    <2> QED
        BY <2>1, <2>2, <2>3, SchemasMove
<1>3. LocksInv'
    BY LocksStay
<1>4. baseline' = [t \in Suites |-> baseline'[t]]
    BY DEF GInv
<1>5. BaselineInv'
    BY BaselinesMove
<1> QED
    BY <1>1, <1>2, <1>3, <1>4, <1>5, StepKeeps

LEMMA AbortHolds ==
    ASSUME GInv, NEW g \in Gates, gate[g].state = "running", NEW x, Fields(Kind(g), x), x.at = gate[g].at,
           x.faults # {} \/ ~ Sound(Kind(g), world.env) \/ Unmet(g, x),
           Abort(g, x), UNCHANGED <<world, db, rows, baseline>>
    PROVE  GInv'
<1> DEFINE y == Aborted(x)
<1>1. /\ y.job = NoJob /\ y.state = "failed" /\ y.cost = x.cost /\ y.faults = x.faults
      /\ y.at = x.at
    BY FieldsAre, AbortedFacts
<1>2. RecordInv(Kind(g), world.env, y)
    BY AbortedIsGood
<1>3. Moves(g, y) /\ key' = Released(g, key)
    BY DEF Moves, Abort, Aborted
<1> HIDE DEF y
<1>4. Unmet(g, x) => Unmet(g, y)
    BY <1>1 DEF Unmet
<1>5. gate[g].at \in Nat
    BY Runs
<1>6. Follows(g, y)
    BY <1>1, <1>2, <1>4, <1>5 DEF Follows
<1> QED
    BY <1>1, <1>3, <1>6, QuietStep

ResetSteps == {"reset-singular", "reset-microflows", "reset-coordinator"}

(* The record of a gate that moves on follows the one before, if its verdict is earned. *)
LEMMA ProceedFollows ==
    ASSUME GInv, NEW g \in Gates, gate[g].state = "running",
           NEW x, Finished(Kind(g), world.env, x), x.at = gate[g].at,
           gate[g].tried \subseteq x.tried,
           \A t, l : gate[g].job.id = <<t, "run", l>> => <<t, "run", l>> \in x.tried,
           x.at = Len(Script[Kind(g)]) /\ Kind(g) \in Suites =>
              \E r \in Records(Kind(g)) : x.cost <= 3 * r
    PROVE  Follows(g, Advanced(x, Kind(g)))
<1> DEFINE y == Advanced(x, Kind(g))
<1>1. Kind(g) \in Kinds /\ world.env \in Surroundings
    BY Runs
<1>2. /\ RecordInv(Kind(g), world.env, y) /\ y.state \in {"running", "passed"}
      /\ y.state = "passed" => x.at = Len(Script[Kind(g)]) /\ Passes(Kind(g), world.env, y)
    BY <1>1, AdvancedIsGood
<1>3. /\ y.tried = x.tried /\ y.cost = x.cost
      /\ y.at = x.at \/ y.at = x.at + 1
    BY FieldsAre, AdvancedFacts DEF Finished
<1> HIDE DEF y
<1>4. y.state = "passed" /\ Kind(g) \in Suites => \E r \in Records(Kind(g)) : y.cost <= 3 * r
    BY <1>2, <1>3
<1>5. gate[g].at \in Nat
    BY Runs
<1> QED
    BY <1>2, <1>3, <1>4, <1>5 DEF Follows, y

LEMMA ProceedHolds ==
    ASSUME GInv, NEW g \in Gates, gate[g].state = "running",
           NEW x, Finished(Kind(g), world.env, x), x.at = gate[g].at,
           gate[g].tried \subseteq x.tried, gate[g].faults \subseteq x.faults,
           \A t, l : gate[g].job.id = <<t, "run", l>> => <<t, "run", l>> \in x.tried,
           Step(g) \notin ResetSteps \cup Suites \cup {"lock"},
           Kind(g) = "root" =>
              /\ \A j \in Resets : j.id \in x.tried => j.id \in gate[g].tried
              /\ Coordinating(gate[g]) => Coordinator \in x.tried,
           Proceed(g, x), UNCHANGED <<world, db, rows, baseline>>
    PROVE  GInv'
<1> DEFINE y == Advanced(x, Kind(g))
<1>1. /\ Kind(g) \in Kinds /\ world.env \in Surroundings
      /\ gate[g].at \in Nat \ {0} /\ Orders(Kind(g), gate[g].at)
      /\ Step(g) = Script[Kind(g)][gate[g].at] /\ InPlace(Kind(g), gate[g], db)
    BY Runs
<1>2. /\ y.state \in {"running", "passed"}
      /\ y.state = "running" => y.at = x.at + 1
    BY <1>1, AdvancedIsGood
<1>3. /\ y.tried = x.tried /\ y.faults = x.faults /\ y.cost = x.cost
    BY FieldsAre, AdvancedFacts DEF Finished
<1>4. ~ (x.at = Len(Script[Kind(g)]) /\ Kind(g) \in Suites)
    BY <1>1 DEF Orders
<1>5. Follows(g, y)
    BY <1>4, ProceedFollows
<1>6. /\ Moves(g, y)
      /\ key' = IF y.state = "running" THEN key ELSE Released(g, key)
    BY <1>2 DEF Proceed, Moves
<1> HIDE DEF y
<1>7. ASSUME y.state = "running"
      PROVE  InPlace(Kind(g), y, db) /\ (Before(Kind(g), y.at, "lock") => key[DbLock] = g)
    <2>1. y.at = gate[g].at + 1
        BY <1>2, <1>7
    <2>2. Kind(g) = "root" =>
              /\ \A j \in Resets : j.id \in y.tried => j.id \in gate[g].tried
              /\ Coordinating(gate[g]) => Coordinating(y)
        BY <1>3 DEF Coordinating
    <2>3. InPlace(Kind(g), y, db)
        BY <1>1, <1>3, <2>1, <2>2, InPlaceStays DEF ResetSteps
    <2>4. Before(Kind(g), y.at, "lock") => Before(Kind(g), gate[g].at, "lock")
        BY <1>1, <2>1, BeforeGoesOn
    <2> QED
        BY <2>3, <2>4 DEF GInv, LocksInv
<1> QED
    BY <1>5, <1>6, <1>7, QuietStep

-----------------------------------------------------------------------------
(* The actions *)

(* Nothing is at work, so nothing is left of it. *)
LEMMA NothingAtWork ==
    /\ NoJob.id = <<>> /\ NoJob.id # Coordinator
    /\ \A t, l : NoJob.id # <<t, "run", l>>
BY IdsDiffer DEF NoJob, Coordinator

LEMMA ResetIds ==
    \A j \in Resets : j.id \in {<<s>> : s \in ResetSteps}
BY NamedJobs DEF Resets, Named, IsDbJob, ResetSteps

LEMMA StartHolds ==
    ASSUME GInv, NEW g \in Gates, Start(g)
    PROVE  GInv'
<1> DEFINE y == [gate[g] EXCEPT !.state = "running"]
<1>1. /\ Fields(Kind(g), gate[g]) /\ gate[g].state = "idle"
      /\ gate[g].at = 1 /\ gate[g].job = NoJob /\ gate[g].tried = {} /\ gate[g].ran = {}
      /\ gate[g].faults = {}
    BY DEF GInv, RecordInv, Start
<1>2. IsRecord(gate[g])
    BY <1>1, FieldsAre
<1>3. IsRecord(y)
    BY <1>2 DEF IsRecord
<1>4. /\ y.state = "running" /\ y.at = 1 /\ y.job = NoJob /\ y.tried = {} /\ y.ran = {}
      /\ y.faults = {} /\ y.cost = gate[g].cost
    BY <1>1, <1>2 DEF IsRecord, GateFields
<1>5. Moves(g, y)
    BY DEF Start, Moves
<1> HIDE DEF y
<1>6. Fields(Kind(g), y)
    BY <1>1, <1>3, <1>4, FieldsAre, FieldsKept
<1>7. \A s : ~ Before(Kind(g), y.at, s)
    BY <1>4 DEF Before
<1>8. ~ Coordinating(y)
    BY <1>4, NothingAtWork DEF Coordinating
<1>9. RecordInv(Kind(g), world.env, y)
    BY <1>4, <1>6, <1>7, <1>8 DEF RecordInv, StepsDone, Accounted, InOrder
<1>10. Follows(g, y)
    BY <1>1, <1>4, <1>9, NothingAtWork DEF Follows
<1>11. InPlace(Kind(g), y, db)
    BY <1>4, <1>7 DEF InPlace, InTheChain
<1>12. UNCHANGED <<db, rows, baseline>> /\ key' = key
    BY DEF Start
<1> QED
    BY <1>4, <1>5, <1>7, <1>10, <1>11, <1>12, QuietStep

LEMMA TakeLockHolds ==
    ASSUME GInv, NEW g \in Gates, TakeLock(g)
    PROVE  GInv'
<1> DEFINE x == gate[g]  y == Advanced(x, Kind(g))
<1>1. gate[g].state = "running" /\ gate[g].job = NoJob /\ Step(g) = "lock" /\ x.tried = x.ran
    BY DEF TakeLock, At
<1>2. /\ Kind(g) \in Kinds /\ world.env \in Surroundings /\ RecordInv(Kind(g), world.env, x)
      /\ Fields(Kind(g), x) /\ IsRecord(x) /\ StepsDone(Kind(g), world.env, x)
      /\ x.at \in 1 .. Len(Script[Kind(g)]) /\ Len(Script[Kind(g)]) \in Nat \ {0}
      /\ Orders(Kind(g), x.at) /\ Step(g) = Script[Kind(g)][x.at] /\ InPlace(Kind(g), x, db)
    BY <1>1, Runs
<1>3. Done(Kind(g), world.env, x, "lock") /\ Accounted(x)
    BY <1>2, DbStepFacts DEF Done, DbNames, StepsDone
<1> HIDE DEF x
<1>4. Finished(Kind(g), world.env, x)
    BY <1>1, <1>2, <1>3, StepFinishes DEF x
<1>5. x.at # Len(Script[Kind(g)])
    BY <1>1, <1>2 DEF Orders
<1>6. /\ y.state = "running" /\ y.at = x.at + 1 /\ y.tried = x.tried /\ y.faults = x.faults
      /\ y.job = NoJob
    BY <1>1, <1>2, <1>5, AdvancedFacts DEF x
<1>7. Follows(g, y)
    <2>1. x.state = "running" /\ x.job = NoJob
        BY <1>1 DEF x
    <2>2. \A t, l : gate[g].job.id # <<t, "run", l>>
        BY <1>1, NothingAtWork
    <2> QED
        BY <1>1, <1>4, <1>5, <2>1, <2>2, ProceedFollows DEF x
<1>8. Moves(g, y)
    BY DEF TakeLock, Moves, x
<1> HIDE DEF y
<1>9. Coordinating(x) => Coordinating(y)
    BY <1>1, <1>6, NothingAtWork DEF Coordinating, x
<1>10. InPlace(Kind(g), y, db)
    BY <1>1, <1>2, <1>6, <1>9, InPlaceStays
<1>11. key \in [Keys -> Gates \cup {NoGate}] /\ db \in [Schemas -> Shapes]
    BY DEF GInv, LocksInv, SchemasInv
<1>12. LocksInv'
    <2>1. key' = [key EXCEPT ![DbLock] = g] /\ key[DbLock] = NoGate /\ DbLock \in Keys
        BY DEF TakeLock, Keys
    <2>2. /\ key' \in [Keys -> Gates \cup {NoGate}] /\ key'[DbLock] = g
          /\ \A k \in Keys : key'[k] \notin {g, NoGate} => key'[k] = key[k]
        BY <1>11, <2>1
    <2> QED
        BY <1>6, <1>8, <2>1, <2>2, LocksMove
<1>13. db' = db /\ rows' = rows /\ baseline' = baseline
    BY DEF TakeLock
<1>14. RowsInv' /\ BaselineInv'
    BY <1>7, <1>8, <1>13, RowsMove, BaselinesMove
<1>15. SchemasInv'
    BY <1>7, <1>8, <1>10, <1>11, <1>13, SchemasMove
<1>16. baseline' = [t \in Suites |-> baseline'[t]]
    BY <1>13 DEF GInv
<1> QED
    BY <1>7, <1>8, <1>12, <1>14, <1>15, <1>16, StepKeeps

(* Names of things that are not resets. *)
LEMMA NotResets ==
    ASSUME NEW kind \in Kinds
    PROVE  /\ \A j \in Resets : j.id \notin BuildIds(kind) /\ j.id \notin UnitIds(kind)
           /\ Coordinator \notin BuildIds(kind) /\ Coordinator \notin UnitIds(kind)
BY ResetIds, NamesDiffer DEF ResetSteps, DbNames, Coordinator

Built(r, id) == [r EXCEPT !.tried = @ \cup {id}, !.ran = @ \cup {id}]

LEMMA RecordsStay ==
    ASSUME NEW r, IsRecord(r), NEW field \in GateFields, NEW value
    PROVE  IsRecord([r EXCEPT ![field] = value])
BY DEF IsRecord

LEMMA BuiltFacts ==
    ASSUME NEW r, IsRecord(r), NEW id
    PROVE  /\ IsRecord(Built(r, id))
           /\ Built(r, id).state = r.state /\ Built(r, id).at = r.at /\ Built(r, id).job = r.job
           /\ Built(r, id).cost = r.cost /\ Built(r, id).faults = r.faults
           /\ Built(r, id).tried = r.tried \cup {id} /\ Built(r, id).ran = r.ran \cup {id}
<1>1. IsRecord(Built(r, id))
    <2> DEFINE a == [r EXCEPT !.tried = @ \cup {id}]
               b == [a EXCEPT !.ran = @ \cup {id}]
    <2>1. Built(r, id) = b
        BY DEF Built
    <2>2. IsRecord(a)
        BY RecordsStay DEF GateFields
    <2> HIDE DEF a
    <2>3. IsRecord(b)
        BY <2>2, RecordsStay DEF GateFields
    <2> QED
        BY <2>1, <2>3
<1>2. /\ Built(r, id).state = r.state /\ Built(r, id).at = r.at /\ Built(r, id).job = r.job
      /\ Built(r, id).cost = r.cost /\ Built(r, id).faults = r.faults
    BY DEF IsRecord, GateFields, Built
<1>3. Built(r, id).tried = r.tried \cup {id} /\ Built(r, id).ran = r.ran \cup {id}
    BY DEF IsRecord, GateFields, Built
<1> QED
    BY <1>1, <1>2, <1>3

LEMMA TestRunnerHolds ==
    ASSUME GInv, NEW g \in Gates, TestRunner(g)
    PROVE  GInv'
<1> DEFINE name == <<"microflows-runner">>
           x == Built(gate[g], name)
           r == gate[g]
<1>1. r.state = "running" /\ r.job = NoJob /\ Step(g) = "runner"
    BY DEF TestRunner, At
<1>2. /\ Kind(g) \in Kinds /\ world.env \in Surroundings /\ RecordInv(Kind(g), world.env, r)
      /\ Fields(Kind(g), r) /\ IsRecord(r) /\ StepsDone(Kind(g), world.env, r)
      /\ Orders(Kind(g), r.at) /\ Step(g) = Script[Kind(g)][r.at]
      /\ r.at \in 1 .. Len(Script[Kind(g)])
    BY <1>1, Runs
<1>3. UNCHANGED <<world, db, rows, baseline>>
    BY DEF TestRunner
<1>4. CASE ~ MeetsFloor(world.env)
    <2>1. ~ Sound(Kind(g), world.env)
        BY <1>2, <1>4, EmitsWhenSound
    <2>2. Abort(g, r)
        BY <1>4 DEF TestRunner
    <2> QED
        BY <1>1, <1>2, <1>3, <2>1, <2>2, AbortHolds
<1>5. CASE MeetsFloor(world.env)
    <2>1. Proceed(g, x)
        BY <1>5 DEF TestRunner, Built
    <2>2. Kind(g) = "microflows" /\ r.tried = {} /\ r.ran = {} /\ r.faults = {}
        BY <1>1, <1>2, FieldsAre DEF Orders, StepsDone
    <2>3. IsRecord(x)
        BY <1>2, BuiltFacts
    <2>4. /\ x.state = r.state /\ x.at = r.at /\ x.job = r.job /\ x.cost = r.cost
          /\ x.faults = r.faults
        BY <1>2, BuiltFacts
    <2>5. x.tried = r.tried \cup {name} /\ x.ran = r.ran \cup {name}
        BY <1>2, BuiltFacts
    <2> HIDE DEF x, r
    <2>6. Fields(Kind(g), x) /\ Accounted(x)
        <3>1. x.ran \subseteq x.tried /\ x.faults \subseteq x.tried /\ Accounted(x)
            BY <2>2, <2>4, <2>5 DEF Accounted
        <3> QED
            BY <1>1, <1>2, <2>3, <2>4, <3>1, FieldsAre, FieldsKept
    <2>7. Done(Kind(g), world.env, x, "runner")
        BY <2>5, DbStepFacts DEF Done, DbNames
    <2>8. name \notin BuildIds(Kind(g)) /\ name \notin UnitIds(Kind(g))
        BY <1>2, <2>2, PlansFit, NamesDiffer DEF PlanFits
    <2>9. Finished(Kind(g), world.env, x)
        BY <1>1, <1>2, <2>2, <2>4, <2>6, <2>7, <2>8, <2>5, StepFinishes
    <2>10. Step(g) \notin ResetSteps \cup Suites \cup {"lock"}
        BY <1>1 DEF ResetSteps, Suites
    <2>11. \A t, l : gate[g].job.id # <<t, "run", l>>
        BY <1>1, NothingAtWork DEF r
    <2> QED
        BY <1>1, <1>3, <2>1, <2>2, <2>4, <2>9, <2>5, <2>10, <2>11, ProceedHolds DEF r
<1> QED
    BY <1>4, <1>5

LEMMA EmitHolds ==
    ASSUME GInv, NEW g \in Gates, Emit(g)
    PROVE  GInv'
<1> DEFINE r == gate[g]
<1>1. r.state = "running" /\ r.job = NoJob /\ Step(g) = "emit"
    BY DEF Emit, At
<1>2. /\ Kind(g) \in Kinds /\ world.env \in Surroundings /\ RecordInv(Kind(g), world.env, r)
      /\ Fields(Kind(g), r) /\ StepsDone(Kind(g), world.env, r)
      /\ Orders(Kind(g), r.at) /\ Step(g) = Script[Kind(g)][r.at]
    BY <1>1, Runs
<1>3. UNCHANGED <<world, db, rows, baseline>>
    BY DEF Emit
<1>4. CASE ~ Emits(Kind(g), world.env)
    <2>1. ~ Sound(Kind(g), world.env)
        BY <1>2, <1>4, EmitsWhenSound
    <2>2. Abort(g, r)
        BY <1>4 DEF Emit
    <2> QED
        BY <1>1, <1>2, <1>3, <2>1, <2>2, AbortHolds
<1>5. CASE Emits(Kind(g), world.env)
    <2>1. Proceed(g, r)
        BY <1>5 DEF Emit
    <2> HIDE DEF r
    <2>2. Done(Kind(g), world.env, r, "emit") /\ Accounted(r)
        BY <1>2, <1>5, DbStepFacts DEF Done, DbNames, StepsDone
    <2>3. r.at # Len(Script[Kind(g)])
        BY <1>1, <1>2 DEF Orders
    <2>4. Finished(Kind(g), world.env, r)
        BY <1>1, <1>2, <2>2, <2>3, StepFinishes
    <2>5. Step(g) \notin ResetSteps \cup Suites \cup {"lock"}
        BY <1>1 DEF ResetSteps, Suites
    <2>6. \A t, l : gate[g].job.id # <<t, "run", l>>
        BY <1>1, NothingAtWork DEF r
    <2>7. Coordinating(r) => Coordinator \in r.tried
        BY <1>1, NothingAtWork DEF Coordinating
    <2> QED
        BY <1>1, <1>3, <2>1, <2>4, <2>5, <2>6, <2>7, ProceedHolds DEF r
<1> QED
    BY <1>4, <1>5

(* The executor *)

LEMMA FailingFacts ==
    ASSUME NEW ids, NEW bad \in Failing(ids)
    PROVE  bad \subseteq ids
BY DEF Failing

LEMMA RunBuildHolds ==
    ASSUME GInv, NEW g \in Gates, RunBuild(g)
    PROVE  GInv'
<1> DEFINE r == gate[g]  ids == BuildIds(Kind(g))
<1>1. r.state = "running" /\ r.job = NoJob /\ Step(g) = "build"
    BY DEF RunBuild, At
<1>2. /\ Kind(g) \in Kinds /\ world.env \in Surroundings /\ RecordInv(Kind(g), world.env, r)
      /\ Fields(Kind(g), r) /\ IsRecord(r) /\ StepsDone(Kind(g), world.env, r)
      /\ Orders(Kind(g), r.at) /\ Step(g) = Script[Kind(g)][r.at]
    BY <1>1, Runs
<1>3. UNCHANGED <<world, db, rows, baseline>>
    BY DEF RunBuild
<1>4. PICK bad \in Failing(ids) : Proceed(g, Attempted(r, ids, bad, {}))
    BY DEF RunBuild, BuildIds
<1>5. bad \in SUBSET ids
    BY <1>4, FailingFacts
<1> DEFINE x == Attempted(r, ids, bad, {})
<1>6. /\ IsRecord(x) /\ x.state = r.state /\ x.at = r.at /\ x.job = r.job
      /\ x.tried = r.tried \cup ids /\ x.faults = r.faults \cup bad
    BY <1>2, AttemptedFacts
<1>7. Fields(Kind(g), x)
    BY <1>2, <1>5, AttemptedFields
<1>8. Proceed(g, x)
    BY <1>4
<1>9. /\ r.tried \cap ids = {} /\ Accounted(r)
      /\ r.faults \subseteq r.tried /\ r.ran \subseteq r.tried
    BY <1>1, <1>2, FieldsAre DEF Orders, StepsDone
<1> HIDE DEF r
<1>10. Accounted(x)
    BY <1>2, <1>5, <1>9, AttemptedAccounts
<1> HIDE DEF x
<1>11. Done(Kind(g), world.env, x, "build")
    BY <1>6, DbStepFacts DEF Done, DbNames
<1>12. r.at # Len(Script[Kind(g)])
    BY <1>1, <1>2 DEF Orders
<1>13. ids \cap UnitIds(Kind(g)) = {} /\ Coordinator \notin ids /\ \A j \in Resets : j.id \notin ids
    BY <1>2, NamesDiffer, NotResets
<1> HIDE DEF ids
<1>14. Finished(Kind(g), world.env, x)
    BY <1>1, <1>2, <1>6, <1>7, <1>10, <1>11, <1>12, <1>13, StepFinishes
<1>15. Step(g) \notin ResetSteps \cup Suites \cup {"lock"}
    BY <1>1 DEF ResetSteps, Suites
<1>16. \A t, l : gate[g].job.id # <<t, "run", l>>
    BY <1>1, NothingAtWork DEF r
<1>17. Coordinating(r) => Coordinator \in x.tried
    BY <1>1, <1>6, NothingAtWork DEF Coordinating
<1>18. /\ gate[g].state = "running" /\ x.at = gate[g].at /\ gate[g].tried \subseteq x.tried
       /\ gate[g].faults \subseteq x.faults
       /\ Coordinating(gate[g]) => Coordinator \in x.tried
       /\ \A j \in Resets : j.id \in x.tried => j.id \in gate[g].tried
    BY <1>1, <1>6, <1>13, <1>17 DEF r
<1> QED
    BY <1>3, <1>8, <1>14, <1>15, <1>16, <1>18, ProceedHolds

(* Once everything was built, a gate lacks a binary only after a fault. *)
LEMMA NeedsBuilt ==
    ASSUME GInv, NEW g \in Gates, gate[g].state = "running",
           Before(Kind(g), gate[g].at, "build"), gate[g].faults = {}
    PROVE  BuildIds(Kind(g)) \subseteq gate[g].ran
<1>1. StepsDone(Kind(g), world.env, gate[g])
    BY Runs
<1>2. "build" \in Range(Script[Kind(g)])
    <2>1. /\ gate[g].at \in 1 .. Len(Script[Kind(g)]) /\ Len(Script[Kind(g)]) \in Nat
          /\ Kind(g) \in Kinds
        BY Runs
    <2>2. Script[Kind(g)] \in Seq(StepNames)
        BY <2>1, ScriptFacts
    <2>3. PICK k \in 1 .. gate[g].at - 1 : Script[Kind(g)][k] = "build"
        BY DEF Before
    <2> QED
        BY <2>1, <2>2, <2>3, RangeEquality
<1>3. BuildIds(Kind(g)) \subseteq gate[g].tried
    BY <1>1, <1>2 DEF StepsDone, Done
<1> QED
    BY <1>1, <1>3 DEF StepsDone, Accounted

LEMMA RunUnitHolds ==
    ASSUME GInv, NEW g \in Gates, RunUnit(g)
    PROVE  GInv'
<1> DEFINE r == gate[g]  ids == UnitIds(Kind(g))  jobs == Plan[Kind(g)].unit
           skipped == {j.id : j \in {u \in jobs : ~ (u.needs \subseteq r.ran)}}
           runnable == {j.id : j \in jobs} \ skipped
<1>1. r.state = "running" /\ r.job = NoJob /\ Step(g) = "unit"
    BY DEF RunUnit, At
<1>2. /\ Kind(g) \in Kinds /\ world.env \in Surroundings /\ RecordInv(Kind(g), world.env, r)
      /\ Fields(Kind(g), r) /\ IsRecord(r) /\ StepsDone(Kind(g), world.env, r)
      /\ Orders(Kind(g), r.at) /\ Step(g) = Script[Kind(g)][r.at]
    BY <1>1, Runs
<1>3. UNCHANGED <<world, db, rows, baseline>>
    BY DEF RunUnit
<1>4. PICK bad \in Failing(runnable) :
          Proceed(g, Attempted(r, runnable \cup skipped, bad, skipped))
    BY DEF RunUnit
<1>5. runnable \cup skipped = ids /\ skipped \subseteq ids
    BY DEF UnitIds
<1>6. r.faults = {} => skipped = {}
    <2>1. SUFFICES ASSUME r.faults = {}
                   PROVE  \A u \in jobs : u.needs \subseteq r.ran
        OBVIOUS
    <2>2. BuildIds(Kind(g)) \subseteq r.ran
        BY <1>1, <1>2, <2>1, NeedsBuilt DEF Orders
    <2> QED
        BY <1>2, <2>2, PlansFit DEF PlanFits
<1> HIDE DEF skipped
<1>7. bad \in SUBSET ids
    BY <1>4, <1>5, FailingFacts
<1> HIDE DEF runnable, jobs
<1> DEFINE x == Attempted(r, ids, bad, skipped)
<1>8. Proceed(g, x)
    BY <1>4, <1>5
<1>9. /\ IsRecord(x) /\ x.state = r.state /\ x.at = r.at /\ x.job = r.job
      /\ x.tried = r.tried \cup ids /\ x.faults = r.faults \cup bad
    BY <1>2, AttemptedFacts
<1>10. Fields(Kind(g), x)
    BY <1>2, <1>7, AttemptedFields
<1>11. /\ ids \cap r.tried = {} /\ Accounted(r)
       /\ r.faults \subseteq r.tried /\ r.ran \subseteq r.tried
    BY <1>1, <1>2, FieldsAre DEF Orders, StepsDone
<1> HIDE DEF r, ids
<1>12. Accounted(x)
    BY <1>2, <1>5, <1>11, <1>6, <1>7, AttemptedAccounts
<1> HIDE DEF x
<1>13. Done(Kind(g), world.env, x, "unit")
    BY <1>9, DbStepFacts DEF Done, DbNames, ids
<1>14. r.at # Len(Script[Kind(g)]) /\ Before(Kind(g), r.at, "build")
    BY <1>1, <1>2 DEF Orders
<1>15. Coordinator \notin ids /\ \A j \in Resets : j.id \notin ids
    BY <1>2, NotResets DEF ids
<1>16. Finished(Kind(g), world.env, x)
    BY <1>1, <1>2, <1>9, <1>10, <1>12, <1>13, <1>14, <1>15, StepFinishes
<1>17. Step(g) \notin ResetSteps \cup Suites \cup {"lock"}
    BY <1>1 DEF ResetSteps, Suites
<1>18. \A t, l : gate[g].job.id # <<t, "run", l>>
    BY <1>1, NothingAtWork DEF r
<1>19. Coordinating(r) => Coordinator \in x.tried
    BY <1>1, <1>9, NothingAtWork DEF Coordinating
<1>20. /\ gate[g].state = "running" /\ x.at = gate[g].at /\ gate[g].tried \subseteq x.tried
       /\ gate[g].faults \subseteq x.faults
       /\ Coordinating(gate[g]) => Coordinator \in x.tried
       /\ \A j \in Resets : j.id \in x.tried => j.id \in gate[g].tried
    BY <1>1, <1>9, <1>15, <1>19 DEF r
<1> QED
    BY <1>3, <1>8, <1>16, <1>17, <1>18, <1>20, ProceedHolds

(* The live jobs *)

LEMMA LeastOf ==
    ASSUME NEW S \in SUBSET Nat, S # {}
    PROVE  \E m \in S : \A n \in S : m <= n
<1> DEFINE R == {ss \in Nat \X Nat : ss[1] < ss[2]}
<1>1. IsWellFoundedOn(R, Nat)
    BY NatLessThanWellFounded DEF OpToRel
<1>2. \A x, y \in Nat : <<x, y>> \in R <=> x < y
    OBVIOUS
<1> HIDE DEF R
<1>3. PICK m \in S : \A n \in S : ~ (<<n, m>> \in R)
    BY <1>1, WFMin
<1>4. m \in Nat /\ \A n \in S : n \in Nat /\ ~ (n < m)
    BY <1>2, <1>3
<1> QED
    BY <1>4

(* While a live job is pending, one of them is ready. *)
LEMMA SomethingReady ==
    ASSUME NEW g \in Gates, Kind(g) \in Kinds, Ready(g) = {}
    PROVE  \A j \in Live(Kind(g)) : j.id \in gate[g].tried
<1> DEFINE pending == {j \in Live(Kind(g)) : j.id \notin gate[g].tried}
<1>1. Ready(g) = {j \in pending : \A k \in pending : k.group = j.group => j.order <= k.order}
    BY DEF Ready, Live
<1>2. \A j \in pending : j.order \in Nat
    BY PlansFit DEF PlanFits, LiveFits
<1> SUFFICES ASSUME NEW x \in pending
             PROVE  FALSE
    OBVIOUS
<1> HIDE DEF pending
<1> DEFINE same == {j \in pending : j.group = x.group}
           orders == {j.order : j \in same}
<1>3. orders \in SUBSET Nat /\ orders # {}
    BY <1>2
<1>4. PICK m \in orders : \A n \in orders : m <= n
    BY <1>3, LeastOf
<1>5. PICK j \in same : j.order = m
    BY <1>4
<1>6. j \in pending /\ \A k \in pending : k.group = j.group => j.order <= k.order
    BY <1>4, <1>5
<1> QED
    BY <1>1, <1>6

LEMMA EndPlanHolds ==
    ASSUME GInv, NEW g \in Gates, EndPlan(g)
    PROVE  GInv'
<1> DEFINE r == gate[g]
<1>1. r.state = "running" /\ r.job = NoJob /\ Step(g) = "live" /\ Ready(g) = {}
    BY DEF EndPlan, At
<1>2. /\ Kind(g) \in Kinds /\ world.env \in Surroundings /\ RecordInv(Kind(g), world.env, r)
      /\ Fields(Kind(g), r) /\ StepsDone(Kind(g), world.env, r)
      /\ Orders(Kind(g), r.at) /\ Step(g) = Script[Kind(g)][r.at]
    BY <1>1, Runs
<1>3. UNCHANGED <<world, db, rows, baseline>>
    BY DEF EndPlan
<1>4. CASE r.tried # r.ran
    <2>1. r.faults # {}
        BY <1>2, <1>4 DEF StepsDone, Accounted
    <2>2. Abort(g, r)
        BY <1>4 DEF EndPlan
    <2> QED
        BY <1>1, <1>2, <1>3, <2>1, <2>2, AbortHolds
<1>5. CASE r.tried = r.ran
    <2>1. Proceed(g, r)
        BY <1>5 DEF EndPlan
    <2>2. \A j \in Live(Kind(g)) : j.id \in r.tried
        BY <1>1, <1>2, SomethingReady
    <2> HIDE DEF r
    <2>3. Done(Kind(g), world.env, r, "live") /\ Accounted(r)
        BY <1>2, <2>2, DbStepFacts DEF Done, DbNames, StepsDone
    <2>4. Finished(Kind(g), world.env, r)
        BY <1>1, <1>2, <1>5, <2>3, StepFinishes
    <2>5. Step(g) \notin ResetSteps \cup Suites \cup {"lock"}
        BY <1>1 DEF ResetSteps, Suites
    <2>6. \A t, l : gate[g].job.id # <<t, "run", l>>
        BY <1>1, NothingAtWork DEF r
    <2>7. Coordinating(r) => Coordinator \in r.tried
        BY <1>1, NothingAtWork DEF Coordinating
    <2> QED
        BY <1>1, <1>3, <2>1, <2>4, <2>5, <2>6, <2>7, ProceedHolds DEF r
<1> QED
    BY <1>4, <1>5

LEMMA StopPlanHolds ==
    ASSUME GInv, NEW g \in Gates, StopPlan(g)
    PROVE  GInv'
<1>1. gate[g].state = "running" /\ gate[g].tried # gate[g].ran
    BY DEF StopPlan
<1>2. Fields(Kind(g), gate[g]) /\ StepsDone(Kind(g), world.env, gate[g])
    BY <1>1, Runs
<1>3. gate[g].faults # {}
    BY <1>1, <1>2 DEF StepsDone, Accounted
<1>4. Abort(g, gate[g]) /\ UNCHANGED <<world, db, rows, baseline>>
    BY DEF StopPlan
<1> QED
    BY <1>1, <1>2, <1>3, <1>4, AbortHolds

LEMMA RootChain ==
    \E place \in Nat : \A j \in Live("root") :
        RootJob(j, place) /\ j.group = HeldKey /\ j.order \in Nat
<1>1. Live("root") = Range(CombinedLive)
    BY PlanIs, CombinedPlanIs DEF Live
<1>2. PICK place \in Nat : \A j \in Range(CombinedLive) : RootJob(j, place)
    BY CombinedFacts
<1>3. \A j \in Range(CombinedLive) : j.group = HeldKey /\ j.order \in Nat
    BY CombinedFacts DEF Chain
<1> QED
    BY <1>1, <1>2, <1>3

(* A job of the chain is a reset, or replaces no schema and has another name. *)
IsReset(j) == \E s \in ResetSteps : Named(j, s)
IsOther(j) == DOMAIN j.gives = {} /\ \A s \in ResetSteps : j.id # <<s>>

LEMMA RootJobs ==
    ASSUME NEW j \in Live("root")
    PROVE  IsReset(j) \/ IsOther(j)
<1>1. PICK place \in Nat : RootJob(j, place)
    BY RootChain
<1>2. CASE \E s \in ResetSteps : Named(j, s)
    BY <1>2 DEF IsReset
<1>3. CASE SingularJob(j) \/ TestJob(j, MicroflowsLive)
    <2>1. DOMAIN j.gives = {} /\ \A a : j.id = <<a>> => a = "sp-invariants"
        BY <1>3, SingularReads, MicroflowsReads DEF Reader
    <2> QED
        BY <2>1 DEF IsOther, ResetSteps
<1>4. CASE \E s \in {"sp-operation", "sp-call", "call-integration", "harness"} : Named(j, s)
    <2>1. PICK s \in {"sp-operation", "sp-call", "call-integration", "harness"} : Named(j, s)
        BY <1>4
    <2>2. j.id = <<s>> /\ j.gives = NoSchema
        BY <2>1 DEF Named, IsDbJob
    <2>3. \A x \in ResetSteps : <<s>> # <<x>>
        BY <2>1, IdsDiffer DEF ResetSteps
    <2> QED
        BY <2>2, <2>3 DEF IsOther, NoSchema, On
<1> QED
    BY <1>1, <1>2, <1>3, <1>4 DEF RootJob, ResetSteps

LEMMA ResetFacts ==
    /\ \A j : Named(j, "reset-singular") =>
          j.id = <<"reset-singular">> /\ j.needs = {} /\ DOMAIN j.gives = {"singular", "malformed"}
          /\ \A s \in DOMAIN j.gives : j.gives[s] = "product"
    /\ \A j : Named(j, "reset-microflows") =>
          j.id = <<"reset-microflows">> /\ j.needs = {}
          /\ DOMAIN j.gives = {"microflows", "fixtures"}
          /\ \A s \in DOMAIN j.gives : j.gives[s] = "product"
    /\ \A j : Named(j, "reset-coordinator") =>
          j.id = Coordinator /\ j.needs = {} /\ DOMAIN j.gives = {"singular", "microflows"}
          /\ j.gives["singular"] = "product" /\ j.gives["microflows"] = "coordinator"
BY DEF Named, IsDbJob, On, CoordinatorSchemas, Coordinator

LEMMA ResetsNeedNothing ==
    ASSUME NEW j, IsReset(j)
    PROVE  j.needs = {} /\ \E s \in ResetSteps : j.id = <<s>>
BY ResetFacts DEF IsReset, ResetSteps, Coordinator

AtLive(g) == gate[g].state = "running" /\ Step(g) = "live"

LEMMA LiveFacts ==
    ASSUME GInv, NEW g \in Gates, AtLive(g)
    PROVE  /\ Before(Kind(g), gate[g].at, "build") /\ Before(Kind(g), gate[g].at, "unit")
           /\ gate[g].at # 1
           /\ Kind(g) = "direct" \/ Before(Kind(g), gate[g].at, "lock")
           /\ Kind(g) = "root" =>
                 \A s \in ResetSteps \cup {"live"} : ~ Before("root", gate[g].at, s)
<1>1. /\ Orders(Kind(g), gate[g].at) /\ Step(g) = Script[Kind(g)][gate[g].at] /\ Step(g) = "live"
      /\ gate[g].at \in 1 .. Len(Script[Kind(g)])
    BY Runs DEF AtLive
<1>2. Before(Kind(g), gate[g].at, "build") /\ Before(Kind(g), gate[g].at, "unit")
    BY <1>1 DEF Orders
<1>3. gate[g].at # 1
    BY <1>2, BeforeGoesOn DEF Before
<1>4. ASSUME Kind(g) = "root", NEW s \in ResetSteps \cup {"live"}
      PROVE  ~ Before("root", gate[g].at, s)
    <2> DEFINE i == gate[g].at
    <2>1. Script["root"] = <<"lock", "emit", "build", "unit", "live", "reset-microflows", "viz">>
        BY Scripts
    <2>2. i \in 1 .. Len(Script["root"]) /\ Script["root"][i] = "live"
        BY <1>1, <1>4
    <2>3. Len(Script["root"]) = 7
        BY <2>1
    <2> HIDE DEF i
    <2>4. i = 5
        BY <2>1, <2>2, <2>3
    <2>5. ~ Before("root", i, s)
        BY <2>1, <2>4 DEF Before, ResetSteps
    <2> QED
        BY <2>5 DEF i
<1> QED
    BY <1>1, <1>2, <1>3, <1>4 DEF Orders

(* A record of a gate that stays in its live phase. *)
LEMMA LiveFollows ==
    ASSUME GInv, NEW g \in Gates, AtLive(g),
           NEW y, Fields(Kind(g), y), y.state = "running", y.at = gate[g].at, Accounted(y),
           gate[g].tried \subseteq y.tried, InOrder(Kind(g), y),
           y.job = NoJob \/ AtWork(Kind(g), y),
           \A t, l : gate[g].job.id = <<t, "run", l>> =>
              y.job.id = <<t, "run", l>> \/ <<t, "run", l>> \in y.tried
    PROVE  Follows(g, y)
<1>1. StepsDone(Kind(g), world.env, gate[g]) /\ gate[g].state = "running"
    BY Runs DEF AtLive
<1>2. /\ Before(Kind(g), y.at, "build") /\ Before(Kind(g), y.at, "unit") /\ y.at # 1
    BY LiveFacts
<1>3. \A s \in Range(Script[Kind(g)]) :
          Before(Kind(g), y.at, s) => Done(Kind(g), world.env, y, s)
    BY <1>1, DoneGrows DEF StepsDone
<1>4. StepsDone(Kind(g), world.env, y)
    BY <1>2, <1>3 DEF StepsDone
<1>5. RecordInv(Kind(g), world.env, y)
    BY <1>4 DEF RecordInv
<1>6. gate[g].at \in Nat
    BY <1>1, Runs
<1> QED
    BY <1>1, <1>5, <1>6 DEF Follows

(* A gate in its live phase has put in place what it had, if the chain agrees. *)
LEMMA LiveInPlace ==
    ASSUME GInv, NEW g \in Gates, AtLive(g), NEW y, y.at = gate[g].at, NEW d,
           Kind(g) = "root" => InTheChain(y, d),
           Kind(g) # "root" => d = db
    PROVE  InPlace(Kind(g), y, d)
<1>1. InPlace(Kind(g), gate[g], db)
    BY Runs DEF AtLive
<1>2. CASE Kind(g) = "root"
    BY <1>2, LiveFacts DEF InPlace, ResetSteps
<1>3. CASE Kind(g) # "root"
    BY <1>1, <1>3 DEF InPlace
<1> QED
    BY <1>2, <1>3

LEMMA SkippedFacts ==
    ASSUME NEW r, IsRecord(r), NEW ids
    PROVE  /\ IsRecord(Attempted(r, ids, {}, ids))
           /\ Attempted(r, ids, {}, ids).state = r.state /\ Attempted(r, ids, {}, ids).at = r.at
           /\ Attempted(r, ids, {}, ids).job = r.job
           /\ Attempted(r, ids, {}, ids).tried = r.tried \cup ids
           /\ r.faults \subseteq Attempted(r, ids, {}, ids).faults
<1> DEFINE none == {}
<1> HIDE DEF none
<1> DEFINE y == Attempted(r, ids, none, ids)
<1>1. /\ IsRecord(y) /\ y.state = r.state /\ y.at = r.at /\ y.job = r.job
      /\ y.tried = r.tried \cup ids /\ y.faults = r.faults \cup none
    BY AttemptedFacts
<1> HIDE DEF y
<1>2. r.faults \subseteq y.faults
    BY <1>1
<1> QED
    BY <1>1, <1>2 DEF y, none

(* A job lacks a binary only after a fault, and a reset never does. *)
LEMMA SkipLiveHolds ==
    ASSUME GInv, NEW g \in Gates, SkipLive(g)
    PROVE  GInv'
<1> DEFINE r == gate[g]  kind == Kind(g)
<1>1. AtLive(g) /\ r.state = "running" /\ r.job = NoJob
    BY DEF SkipLive, At, AtLive
<1>2. /\ kind \in Kinds /\ Fields(kind, r) /\ IsRecord(r) /\ StepsDone(kind, world.env, r)
      /\ InPlace(kind, r, db) /\ r.at \in Nat \ {0}
    BY <1>1, Runs
<1>3. PICK j \in Ready(g) : /\ ~ (j.needs \subseteq r.ran)
                            /\ gate' = [gate EXCEPT ![g] = Attempted(@, {j.id}, {}, {j.id})]
    BY DEF SkipLive
<1>4. j \in Live(kind) /\ j.id \notin r.tried
    BY <1>3 DEF Ready, Live
<1> DEFINE y == Attempted(r, {j.id}, {}, {j.id})
<1>5. Moves(g, y) /\ UNCHANGED <<db, rows, baseline>> /\ key' = key
    BY <1>3 DEF Moves, SkipLive
<1>6. /\ IsRecord(y) /\ y.state = r.state /\ y.at = r.at /\ y.job = r.job
      /\ y.tried = r.tried \cup {j.id} /\ r.faults \subseteq y.faults
    BY <1>2, SkippedFacts
<1>7. Fields(kind, y)
    BY <1>2, AttemptedFields
<1>8. r.faults # {}
    <2>1. j.needs \subseteq BuildIds(kind)
        BY <1>2, <1>4, PlansFit DEF PlanFits, LiveFits
    <2> QED
        BY <1>1, <1>3, <2>1, LiveFacts, NeedsBuilt
<1>9. Accounted(r) /\ r.faults \subseteq r.tried /\ r.ran \subseteq r.tried
    BY <1>2, FieldsAre DEF StepsDone
<1> HIDE DEF r
<1>10. Accounted(y)
    BY <1>2, <1>4, <1>8, <1>9, AttemptedAccounts
<1>11. kind = "root" => \A s \in ResetSteps : j.id # <<s>>
    BY <1>3, <1>4, RootJobs, ResetsNeedNothing DEF IsOther
<1> HIDE DEF y, kind
<1>12. kind = "root" => j.id # Coordinator
    BY <1>11 DEF ResetSteps, Coordinator
<1>13. Coordinating(r) => Coordinating(y)
    BY <1>6 DEF Coordinating
<1>14. InOrder(kind, y)
    BY <1>2, <1>6, <1>12 DEF StepsDone, InOrder, Coordinating
<1>15. Follows(g, y)
    BY <1>1, <1>6, <1>7, <1>10, <1>14, LiveFollows, NothingAtWork DEF r, kind
<1>16. InPlace(kind, y, db)
    <2>1. kind = "root" => \A k \in Resets : k.id \in y.tried => k.id \in r.tried
        BY <1>6, <1>11, ResetIds
    <2> QED
        BY <1>2, <1>6, <1>13, <2>1, InPlaceStays
<1>17. Before(kind, y.at, "lock") => key[DbLock] = g
    BY <1>1, <1>6 DEF GInv, LocksInv, kind, r
<1> QED
    BY <1>1, <1>5, <1>6, <1>15, <1>16, <1>17, QuietStep DEF kind

(* The coordinator's reset is the last of the chain but for its harness. *)
LEMMA CoordinatorIsLast ==
    ASSUME NEW j \in Live("root"), j.id = Coordinator, NEW tried,
           \A k \in Live("root") : k.group = j.group /\ k.order < j.order => k.id \in tried
    PROVE  \A k \in Live("root") : k.id \notin {Coordinator, <<"harness">>} => k.id \in tried
<1>1. PICK place \in Nat : \A k \in Live("root") :
          RootJob(k, place) /\ k.group = HeldKey /\ k.order \in Nat
    BY RootChain
<1>2. \A k, s : Named(k, s) => k.id = <<s>>
    BY DEF Named, IsDbJob
<1>3. j.order = place
    <2>1. ~ (SingularJob(j) \/ TestJob(j, MicroflowsLive))
        <3>1. SingularJob(j) \/ TestJob(j, MicroflowsLive) =>
                  \A a : j.id = <<a>> => a = "sp-invariants"
            BY SingularReads, MicroflowsReads DEF Reader
        <3> QED
            BY <3>1 DEF Coordinator
    <2>2. \A s : Named(j, s) => s = "reset-coordinator"
        BY <1>2, IdsDiffer DEF Coordinator
    <2> QED
        BY <1>1, <2>1, <2>2 DEF RootJob
<1> SUFFICES ASSUME NEW k \in Live("root"), k.id \notin {Coordinator, <<"harness">>}
             PROVE  k.order < place
    BY <1>1, <1>3
<1>4. ~ Named(k, "reset-coordinator") /\ ~ Named(k, "harness")
    BY <1>2 DEF Coordinator
<1>5. place > 1
    <2>1. PICK x \in Live("root") : Named(x, "sp-call")
        BY CombinedFacts, PlanIs, CombinedPlanIs DEF Live
    <2>2. x.id = <<"sp-call">>
        BY <1>2, <2>1
    <2>3. \A s : Named(x, s) => s = "sp-call"
        BY <1>2, <2>2, IdsDiffer
    <2> QED
        BY <1>1, <2>3 DEF RootJob
<1> QED
    BY <1>1, <1>4, <1>5 DEF RootJob

LEMMA CoordinatorsTurn ==
    ASSUME NEW r, InOrder("root", r), NEW j \in Live("root"), IsReset(j), j.id \notin r.tried
    PROVE  /\ Coordinator \notin r.tried
           /\ r.job.id = Coordinator => j.id = Coordinator
<1>1. j.id = Coordinator \/ j.id \notin {Coordinator, <<"harness">>}
    <2>1. PICK s \in ResetSteps : j.id = <<s>>
        BY ResetsNeedNothing
    <2>2. <<s>> # <<"harness">>
        BY IdsDiffer DEF ResetSteps
    <2> QED
        BY <2>1, <2>2
<1> QED
    BY <1>1 DEF InOrder, Coordinating

SameSchemas(d, e, except) == \A s \in Schemas \ except : e[s] = d[s]

LEMMA ChainTorn ==
    ASSUME NEW r, InOrder("root", r), NEW j \in Live("root"), IsReset(j), j.id \notin r.tried,
           r.job = NoJob, NEW d, InTheChain(r, d),
           NEW y, y.tried = r.tried, y.faults = r.faults, y.job = j,
           NEW e, SameSchemas(d, e, DOMAIN j.gives)
    PROVE  InTheChain(y, e)
<1>1. Coordinator \notin r.tried /\ ~ Coordinating(r)
    BY CoordinatorsTurn, NothingAtWork DEF Coordinating
<1>2. \A s : SpoiltBy(r, s) => SpoiltBy(y, s)
    BY DEF SpoiltBy
<1>3. CASE Named(j, "reset-singular")
    <2>1. e["microflows"] = d["microflows"] /\ e["fixtures"] = d["fixtures"]
        BY <1>3, ResetFacts DEF SameSchemas, Schemas
    <2> QED
        BY <1>1, <1>2, <1>3, <2>1, ResetFacts DEF InTheChain
<1>4. CASE Named(j, "reset-microflows")
    <2>1. e["singular"] = d["singular"] /\ e["malformed"] = d["malformed"]
        BY <1>4, ResetFacts DEF SameSchemas, Schemas
    <2> QED
        BY <1>1, <1>2, <1>4, <2>1, ResetFacts DEF InTheChain
<1>5. CASE Named(j, "reset-coordinator")
    <2>1. Coordinating(y)
        BY <1>5, ResetFacts DEF Coordinating
    <2> QED
        BY <1>1, <2>1 DEF InTheChain
<1> QED
    BY <1>3, <1>4, <1>5 DEF IsReset, ResetSteps

LEMMA ChainLoaded ==
    ASSUME NEW r, InOrder("root", r), NEW j \in Live("root"), IsReset(j), j.id \notin r.tried,
           r.job = j, NEW d, InTheChain(r, d),
           NEW y, y.tried = r.tried \cup {j.id}, r.faults \subseteq y.faults, y.job = NoJob,
           NEW e, SameSchemas(d, e, DOMAIN j.gives),
           j.id \in y.faults \/ \A s \in DOMAIN j.gives : e[s] = j.gives[s]
    PROVE  InTheChain(y, e)
<1>1. Coordinator \notin r.tried
    BY CoordinatorsTurn
<1>2. \A s : SpoiltBy(r, s) => SpoiltBy(y, s)
    BY DEF SpoiltBy
<1>3. /\ Named(ResetSingular, "reset-singular") /\ Named(ResetMicroflows, "reset-microflows")
      /\ Named(ResetCoordinator, "reset-coordinator")
    BY NamedJobs
<1>4. CASE Named(j, "reset-singular")
    <2>1. e["microflows"] = d["microflows"] /\ e["fixtures"] = d["fixtures"]
        BY <1>4, ResetFacts DEF SameSchemas, Schemas
    <2>2. j.id = <<"reset-singular">> /\ j.id # Coordinator
        BY <1>4, ResetFacts, IdsDiffer DEF Coordinator
    <2>3. \A s \in {"singular", "malformed"} : e[s] = "product" \/ SpoiltBy(y, s)
        <3>1. j.id \in y.faults => \A s \in {"singular", "malformed"} : SpoiltBy(y, s)
            BY <1>3, <2>2, ResetFacts DEF SpoiltBy, Resets
        <3> QED
            BY <1>4, <3>1, ResetFacts
    <2>4. ~ Coordinating(r) /\ Coordinator \notin y.tried
        BY <1>1, <2>2 DEF Coordinating
    <2>5. <<"reset-microflows">> \in y.tried => <<"reset-microflows">> \in r.tried
        BY <2>2
    <2> QED
        BY <1>2, <2>1, <2>3, <2>4, <2>5 DEF InTheChain
<1>5. CASE Named(j, "reset-microflows")
    <2>1. e["singular"] = d["singular"] /\ e["malformed"] = d["malformed"]
        BY <1>5, ResetFacts DEF SameSchemas, Schemas
    <2>2. j.id = <<"reset-microflows">> /\ j.id # Coordinator
        BY <1>5, ResetFacts, IdsDiffer DEF Coordinator
    <2>3. \A s \in {"microflows", "fixtures"} : e[s] = "product" \/ SpoiltBy(y, s)
        <3>1. j.id \in y.faults => \A s \in {"microflows", "fixtures"} : SpoiltBy(y, s)
            BY <1>3, <2>2, ResetFacts DEF SpoiltBy, Resets
        <3> QED
            BY <1>5, <3>1, ResetFacts
    <2>4. ~ Coordinating(r) /\ Coordinator \notin y.tried
        BY <1>1, <2>2 DEF Coordinating
    <2>5. <<"reset-singular">> \in y.tried => <<"reset-singular">> \in r.tried
        BY <2>2
    <2> QED
        BY <1>2, <2>1, <2>3, <2>4, <2>5 DEF InTheChain
<1>6. CASE Named(j, "reset-coordinator")
    <2>1. j.id = Coordinator
        BY <1>6, ResetFacts
    <2>2. Coordinating(y)
        BY <2>1 DEF Coordinating
    <2>3. j.id \in y.faults => SpoiltBy(y, "singular") /\ SpoiltBy(y, "microflows")
        BY <1>3, <2>1, ResetFacts DEF SpoiltBy, Resets
    <2>4. /\ e["singular"] = "product" \/ SpoiltBy(y, "singular")
          /\ e["microflows"] = "coordinator" \/ SpoiltBy(y, "microflows")
        BY <1>6, <2>3, ResetFacts
    <2> QED
        BY <2>2, <2>4 DEF InTheChain
<1> QED
    BY <1>4, <1>5, <1>6 DEF IsReset, ResetSteps

(* What the start of a job leaves of the rows and the schemas *)

BeginRows(g, j) ==
    /\ db' = [s \in Schemas |-> IF s \in DOMAIN j.gives THEN "torn" ELSE db[s]]
    /\ rows' = {r \in rows : r[1] \notin DOMAIN j.gives} \cup Leaves(g, j)

LEMMA BeginsOn ==
    ASSUME GInv, NEW g \in Gates, NEW j, BeginRows(g, j)
    PROVE  /\ db' \in [Schemas -> Shapes] /\ SameSchemas(db, db', DOMAIN j.gives)
           /\ DOMAIN j.gives = {} => db' = db
           /\ (j.lane # "none" => \E t : j.id = <<t, "run", j.lane>>)
              => \A row \in rows' : \/ row \in rows
                                    \/ \E s, t, l : /\ row = <<s, t, <<g, l>>>>
                                                    /\ j.id = <<t, "run", l>>
<1>1. db \in [Schemas -> Shapes]
    BY DEF GInv, SchemasInv
<1>2. db' = [s \in Schemas |-> IF s \in DOMAIN j.gives THEN "torn" ELSE db[s]]
    BY DEF BeginRows
<1>3. db' \in [Schemas -> Shapes] /\ SameSchemas(db, db', DOMAIN j.gives)
    BY <1>1, <1>2 DEF Shapes, SameSchemas
<1>4. ASSUME DOMAIN j.gives = {}
      PROVE  db' = db
    <2>1. \A s \in Schemas : db'[s] = db[s]
        BY <1>2, <1>4
    <2> QED
        BY <1>1, <1>3, <2>1
<1>5. ASSUME (j.lane # "none" => \E t : j.id = <<t, "run", j.lane>>), NEW row \in rows'
      PROVE  row \in rows \/ \E s, t, l : row = <<s, t, <<g, l>>>> /\ j.id = <<t, "run", l>>
    <2>1. CASE row \in Leaves(g, j)
        <3>1. j.lane # "none" /\ \E s : row = <<s, j.id[1], <<g, j.lane>>>>
            BY <2>1 DEF Leaves, Namespace
        <3>2. PICK t : j.id = <<t, "run", j.lane>>
            BY <1>5, <3>1
        <3>3. j.id[1] = t
            BY <3>2
        <3> QED
            BY <3>1, <3>2, <3>3
    <2> QED
        BY <2>1 DEF BeginRows
<1> QED
    BY <1>3, <1>4, <1>5

LEMMA BeginLiveHolds ==
    ASSUME GInv, NEW g \in Gates, BeginLive(g)
    PROVE  GInv'
<1> DEFINE r == gate[g]  kind == Kind(g)
<1>1. AtLive(g) /\ r.state = "running" /\ r.job = NoJob
    BY DEF BeginLive, At, AtLive
<1>2. /\ kind \in Kinds /\ Fields(kind, r) /\ IsRecord(r) /\ StepsDone(kind, world.env, r)
      /\ InPlace(kind, r, db) /\ r.at \in Nat \ {0} /\ Step(g) = Script[kind][r.at]
    BY <1>1, Runs
<1>3. PICK j \in Ready(g) : /\ key[j.group] = NoGate /\ key' = [key EXCEPT ![j.group] = g]
                            /\ BeginJob(g, j)
    BY DEF BeginLive
<1>4. /\ j \in Live(kind) /\ j.id \notin r.tried
      /\ \A k \in Live(kind) : k.id \notin r.tried /\ k.group = j.group => j.order <= k.order
    BY <1>3 DEF Ready, Live
<1>5. /\ LiveFits(kind, j) /\ \A k \in Live(kind) : k.order \in Nat
    BY <1>2, <1>4, PlansFit DEF PlanFits, LiveFits
<1>6. \A k \in Live(kind) : k.group = j.group /\ k.order < j.order => k.id \in r.tried
    BY <1>4, <1>5 DEF LiveFits
<1> DEFINE y == AtJob(r, j)
<1>7. Moves(g, y) /\ BeginRows(g, j) /\ baseline' = baseline
    BY <1>3 DEF Moves, BeginJob, BeginRows, AtJob
<1>8. /\ IsRecord(y) /\ y.job = j /\ y.state = r.state /\ y.at = r.at /\ y.cost = r.cost
      /\ y.tried = r.tried /\ y.ran = r.ran /\ y.faults = r.faults
    BY <1>2, AtJobFacts
<1> HIDE DEF r, y, kind
<1>9. Fields(kind, y) /\ Accounted(y)
    <2>1. Accounted(r)
        BY <1>2 DEF StepsDone
    <2>2. Fields(kind, y)
        BY <1>1, <1>2, <1>8, FieldsAre, FieldsKept
    <2> QED
        BY <1>8, <2>1, <2>2 DEF Accounted
<1>10. AtWork(kind, y)
    BY <1>1, <1>2, <1>4, <1>6, <1>8 DEF AtWork, AtLive
<1>11. InOrder(kind, y)
    <2>1. SUFFICES ASSUME kind = "root", Coordinating(y)
                   PROVE  \A k \in Live("root") :
                              k.id \notin {Coordinator, <<"harness">>} => k.id \in r.tried
        BY <1>8 DEF InOrder
    <2>2. CASE Coordinator \in r.tried
        BY <1>2, <2>1, <2>2 DEF StepsDone, InOrder, Coordinating
    <2>3. CASE j.id = Coordinator
        BY <1>4, <1>6, <2>1, <2>3, CoordinatorIsLast
    <2> QED
        BY <1>8, <2>1, <2>2, <2>3 DEF Coordinating
<1>12. \A t, l : gate[g].job.id # <<t, "run", l>>
    BY <1>1, NothingAtWork DEF r
<1>13. Follows(g, y)
    BY <1>1, <1>8, <1>9, <1>10, <1>11, <1>12, LiveFollows DEF r, kind
<1>14. /\ db' \in [Schemas -> Shapes] /\ SameSchemas(db, db', DOMAIN j.gives)
       /\ DOMAIN j.gives = {} => db' = db
       /\ \A row \in rows' : \/ row \in rows
                             \/ \E s, t, l : row = <<s, t, <<g, l>>>> /\ j.id = <<t, "run", l>>
    BY <1>5, <1>7, BeginsOn DEF LiveFits
<1>15. RowsInv'
    BY <1>7, <1>8, <1>13, <1>14, RowsMove
<1>16. kind # "root" => db' = db
    BY <1>5, <1>14 DEF LiveFits
<1>17. InPlace(kind, y, db')
    <2>1. ASSUME kind = "root"
          PROVE  InTheChain(y, db')
        <3>1. InTheChain(r, db) /\ InOrder("root", r)
            BY <1>1, <1>2, <2>1, LiveFacts DEF InPlace, StepsDone, r, kind
        <3>2. CASE IsReset(j)
            <4>1. j \in Live("root") /\ r.job = NoJob
                BY <1>1, <1>4, <2>1
            <4> QED
                BY <1>4, <1>8, <1>14, <3>1, <3>2, <4>1, ChainTorn
        <3>3. CASE IsOther(j)
            <4>1. db' = db
                BY <1>14, <3>3 DEF IsOther
            <4>2. \A s : SpoiltBy(r, s) <=> SpoiltBy(y, s)
                BY <1>8 DEF SpoiltBy
            <4>3. Coordinating(r) => Coordinating(y)
                BY <1>1, <1>8, NothingAtWork DEF Coordinating
            <4> QED
                BY <1>8, <3>1, <4>1, <4>2, <4>3 DEF InTheChain
        <3> QED
            BY <1>4, <2>1, <3>2, <3>3, RootJobs
    <2> QED
        BY <1>1, <1>8, <1>16, <2>1, LiveInPlace DEF r, kind
<1>18. SchemasInv'
    <2>1. db' = db \/ (gate[g].state = "running" /\ Before(Kind(g), gate[g].at, "lock"))
        BY <1>1, <1>16, LiveFacts DEF r, kind
    <2> QED
        BY <1>4, <1>7, <1>13, <1>14, <1>17, <2>1, LiveResets, SchemasMove DEF kind, SameSchemas
<1>19. LocksInv'
    <2>1. Before(Kind(g), y.at, "lock") => key[DbLock] = g
        BY <1>1, <1>8 DEF GInv, LocksInv, r
    <2> QED
        BY <1>1, <1>3, <1>5, <1>7, <1>8, <2>1, GroupLocks DEF LiveFits
<1>20. baseline' = [t \in Suites |-> baseline'[t]] /\ BaselineInv'
    BY <1>7, <1>13, BaselinesMove DEF GInv
<1> QED
    BY <1>7, <1>13, <1>15, <1>18, <1>19, <1>20, StepKeeps

LEMMA EndLiveHolds ==
    ASSUME GInv, NEW g \in Gates, EndLive(g)
    PROVE  GInv'
<1> DEFINE r == gate[g]  kind == Kind(g)  j == r.job
<1>1. AtLive(g) /\ r.state = "running" /\ j # NoJob
    BY DEF EndLive, AtLive
<1>2. /\ kind \in Kinds /\ RecordInv(kind, world.env, r) /\ Fields(kind, r) /\ IsRecord(r)
      /\ StepsDone(kind, world.env, r)
      /\ InPlace(kind, r, db) /\ r.at \in Nat \ {0} /\ Step(g) = Script[kind][r.at]
    BY <1>1, Runs
<1>3. j \in Live(kind) /\ j.id \notin r.tried
    <2>1. AtWork(kind, r)
        BY <1>1, <1>2 DEF RecordInv
    <2>2. Script[kind][r.at] = "live" /\ "live" \notin DOMAIN DbStep
        BY <1>1, <1>2, DbStepFacts DEF AtLive, DbNames
    <2> QED
        BY <2>1, <2>2 DEF AtWork
<1>4. LiveFits(kind, j)
    BY <1>2, <1>3, PlansFit DEF PlanFits
<1>5. PICK bad \in Failing({j.id}) :
          /\ gate' = [gate EXCEPT ![g] = [Attempted(@, {j.id}, bad, {}) EXCEPT !.job = NoJob]]
          /\ db' = IF bad = {} THEN Loaded(j) ELSE db
    BY DEF EndLive
<1>6. /\ key' = [key EXCEPT ![j.group] = NoGate]
      /\ world' = world /\ rows' = rows /\ baseline' = baseline
    BY DEF EndLive
<1> DEFINE ids == {j.id}  x == Attempted(r, ids, bad, {})  y == AtJob(x, NoJob)
<1>7. Moves(g, y)
    BY <1>5, <1>6 DEF Moves, AtJob
<1>8. bad \in SUBSET ids
    BY <1>5, FailingFacts
<1>9. Fields(kind, x)
    BY <1>2, <1>8, AttemptedFields
<1>10. /\ IsRecord(x) /\ x.state = r.state /\ x.at = r.at /\ x.cost = r.cost
       /\ x.tried = r.tried \cup ids /\ x.faults = r.faults \cup bad
    BY <1>2, AttemptedFacts
<1>11. Accounted(r) /\ r.faults \subseteq r.tried /\ r.ran \subseteq r.tried
    BY <1>2, FieldsAre DEF StepsDone
<1>12. ids \cap r.tried = {} /\ j.id \in ids /\ (bad = {} \/ j.id \in bad)
    BY <1>3, <1>8
<1>13. LocksInv /\ SchemasInv
    BY DEF GInv
<1> HIDE DEF r, j, ids, kind
<1>14. Accounted(x)
    BY <1>2, <1>8, <1>11, <1>12, AttemptedAccounts
<1> HIDE DEF x
<1>15. /\ IsRecord(y) /\ y.job = NoJob /\ y.state = x.state /\ y.at = x.at /\ y.cost = x.cost
       /\ y.tried = x.tried /\ y.ran = x.ran /\ y.faults = x.faults
    BY <1>10, AtJobFacts
<1> HIDE DEF y
<1>16. Fields(kind, y) /\ Accounted(y)
    <2>1. Accounted(y)
        BY <1>15, <1>14 DEF Accounted
    <2>2. Fields(kind, y)
        BY <1>1, <1>10, <1>15, <1>9, FieldsAre, FieldsKept
    <2> QED
        BY <2>1, <2>2
<1>17. /\ y.state = "running" /\ y.at = r.at /\ y.tried = r.tried \cup ids
       /\ y.faults = r.faults \cup bad
    BY <1>1, <1>10, <1>15
<1>18. InOrder(kind, y)
    <2>1. Coordinating(y) => Coordinating(r)
        BY <1>15, <1>17, NothingAtWork DEF Coordinating, ids, j
    <2> QED
        BY <1>2, <1>17, <2>1 DEF StepsDone, InOrder
<1>19. Follows(g, y)
    <2>1. \A t, l : gate[g].job.id = <<t, "run", l>> => <<t, "run", l>> \in y.tried
        BY <1>12, <1>17 DEF r, j
    <2>2. gate[g].tried \subseteq y.tried
        BY <1>17 DEF r
    <2> QED
        BY <1>1, <1>15, <1>16, <1>18, <1>17, <2>1, <2>2, LiveFollows DEF r, kind
<1>20. db' = db \/ (bad = {} /\ db' = Loaded(j))
    BY <1>5
<1>21. SameSchemas(db, db', DOMAIN j.gives)
    BY <1>20 DEF SameSchemas, Loaded
<1>22. db \in [Schemas -> Shapes]
    BY <1>13 DEF SchemasInv
<1>23. DOMAIN j.gives = {} => db' = db
    <2>1. SUFFICES ASSUME DOMAIN j.gives = {}, db' = Loaded(j)
                   PROVE  db' = db
        BY <1>20
    <2>2. db' = [s \in Schemas |-> db[s]]
        BY <2>1 DEF Loaded
    <2> QED
        BY <1>22, <2>2
<1>24. db' \in [Schemas -> Shapes]
    <2>1. CASE DOMAIN j.gives = {}
        BY <1>22, <1>23, <2>1
    <2>2. CASE DOMAIN j.gives # {}
        <3>1. j \in Live("root")
            BY <1>3, <1>4, <2>2 DEF LiveFits
        <3>2. IsReset(j)
            BY <2>2, <3>1, RootJobs DEF IsOther
        <3>3. \A s \in DOMAIN j.gives : j.gives[s] \in Shapes
            BY <3>2, ResetFacts DEF IsReset, ResetSteps, Shapes
        <3> QED
            BY <1>20, <1>22, <3>3 DEF Loaded
    <2> QED
        BY <2>1, <2>2
<1>25. kind # "root" => db' = db
    BY <1>4, <1>23 DEF LiveFits
<1>26. InPlace(kind, y, db')
    <2>1. ASSUME kind = "root"
          PROVE  InTheChain(y, db')
        <3>1. InTheChain(r, db) /\ InOrder("root", r)
            BY <1>1, <1>2, <2>1, LiveFacts DEF InPlace, StepsDone, r, kind
        <3>2. CASE IsReset(j)
            <4>1. j \in Live("root") /\ r.job = j /\ y.tried = r.tried \cup {j.id}
                BY <1>3, <1>17, <2>1 DEF j, ids
            <4>2. r.faults \subseteq y.faults
                BY <1>17
            <4>3. \A s \in DOMAIN j.gives : s \in Schemas
                BY <3>2, ResetFacts DEF IsReset, ResetSteps, Schemas
            <4>4. j.id \in y.faults \/ \A s \in DOMAIN j.gives : db'[s] = j.gives[s]
                <5>1. CASE bad = {}
                    BY <1>5, <4>3, <5>1 DEF Loaded
                <5>2. CASE j.id \in bad
                    BY <1>17, <5>2
                <5> QED
                    BY <1>12, <5>1, <5>2
            <4> QED
                BY <1>3, <1>15, <1>21, <3>1, <3>2, <4>1, <4>2, <4>4, ChainLoaded
        <3>3. CASE IsOther(j)
            <4>1. db' = db
                BY <1>23, <3>3 DEF IsOther
            <4>2. \A s : SpoiltBy(r, s) => SpoiltBy(y, s)
                BY <1>17 DEF SpoiltBy
            <4>3. Coordinating(r) => Coordinating(y)
                BY <1>17 DEF Coordinating, ids, j
            <4>4. \A s \in ResetSteps : <<s>> \in y.tried => <<s>> \in r.tried
                BY <1>17, <3>3 DEF IsOther, ids
            <4> HIDE DEF Coordinating
            <4> QED
                BY <3>1, <4>1, <4>2, <4>3, <4>4 DEF InTheChain, ResetSteps, Coordinator
        <3> QED
            BY <1>3, <2>1, <3>2, <3>3, RootJobs
    <2> QED
        BY <1>1, <1>25, <1>17, <2>1, LiveInPlace DEF r, kind
<1>27. SchemasInv'
    <2>1. db' = db \/ (gate[g].state = "running" /\ Before(Kind(g), gate[g].at, "lock"))
        BY <1>1, <1>25, LiveFacts DEF r, kind
    <2> QED
        BY <1>3, <1>7, <1>19, <1>21, <1>24, <1>26, <2>1, LiveResets, SchemasMove DEF kind, SameSchemas
<1>28. LocksInv'
    <2>1. Before(Kind(g), y.at, "lock") => key[DbLock] = g
        BY <1>1, <1>17, <1>13 DEF LocksInv, r
    <2> QED
        BY <1>4, <1>6, <1>7, <1>17, <2>1, GroupLocks DEF LiveFits
<1>29. RowsInv'
    BY <1>6, <1>7, <1>19, RowsMove
<1>30. baseline' = [t \in Suites |-> baseline'[t]] /\ BaselineInv'
    BY <1>6, <1>7, <1>19, BaselinesMove DEF GInv
<1> QED
    BY <1>7, <1>19, <1>27, <1>28, <1>29, <1>30, StepKeeps

-----------------------------------------------------------------------------
(* The steps of the script on the database *)

LEMMA NamedFacts ==
    ASSUME NEW j, NEW s \in DbNames, Named(j, s)
    PROVE  /\ j.id = <<s>> /\ j.lane = "none" /\ j # NoJob
           /\ s \notin ResetSteps => DOMAIN j.gives = {}
           /\ s \notin {"harness", "call-integration", "cycles", "drive"} => j.needs = {}
           /\ \A x \in DOMAIN j.gives : j.gives[x] \in Shapes
           /\ j.id = Coordinator => s = "reset-coordinator"
<1>1. /\ j.id = <<s>> /\ j.lane = "none" /\ j # NoJob
      /\ s \notin {"harness", "call-integration", "cycles", "drive"} => j.needs = {}
    BY DEF Named, IsDbJob
<1>2. s \notin ResetSteps => DOMAIN j.gives = {}
    BY DEF Named, IsDbJob, ResetSteps, NoSchema, On
<1>3. s \in ResetSteps => \A x \in DOMAIN j.gives : j.gives[x] \in Shapes
    BY ResetFacts DEF ResetSteps, Shapes
<1>4. j.id = Coordinator => s = "reset-coordinator"
    BY <1>1, IdsDiffer DEF Coordinator
<1> QED
    BY <1>1, <1>2, <1>3, <1>4

LEMMA DbStepIs ==
    ASSUME GInv, NEW g \in Gates, gate[g].state = "running", IsDbStep(g)
    PROVE  /\ Step(g) \in DbNames /\ Named(DbStep[Step(g)], Step(g))
           /\ Before(Kind(g), gate[g].at, "lock")
           /\ Kind(g) = "root" => Step(g) # "reset-coordinator"
           /\ gate[g].job # NoJob =>
                 gate[g].job = DbStep[Step(g)] /\ gate[g].tried = gate[g].ran
           /\ gate[g].tried = gate[g].ran => gate[g].faults = {}
<1>1. Step(g) \in DbNames /\ Named(DbStep[Step(g)], Step(g))
    BY DbStepFacts DEF IsDbStep
<1>2. /\ Orders(Kind(g), gate[g].at) /\ Step(g) = Script[Kind(g)][gate[g].at]
      /\ RecordInv(Kind(g), world.env, gate[g]) /\ StepsDone(Kind(g), world.env, gate[g])
      /\ gate[g].faults \subseteq gate[g].tried
    BY Runs, FieldsAre
<1>3. Before(Kind(g), gate[g].at, "lock")
    BY <1>1, <1>2 DEF Orders, DbNames
<1>4. Kind(g) = "root" => Step(g) # "reset-coordinator"
    BY <1>2 DEF Orders
<1>5. ASSUME gate[g].job # NoJob
      PROVE  gate[g].job = DbStep[Step(g)] /\ gate[g].tried = gate[g].ran
    <2>1. AtWork(Kind(g), gate[g])
        BY <1>2, <1>5 DEF RecordInv
    <2>2. Step(g) # "live"
        BY <1>1 DEF DbNames
    <2> QED
        BY <1>2, <2>1, <2>2 DEF AtWork
<1>6. gate[g].tried = gate[g].ran => gate[g].faults = {}
    BY <1>2 DEF StepsDone, Accounted
<1> QED
    BY <1>1, <1>3, <1>4, <1>5, <1>6

(* Of the resets a script has only one, but for the root gate's after its chain. *)
LEMMA ResetStepIs ==
    ASSUME NEW kind, NEW i, Orders(kind, i), Script[kind][i] \in ResetSteps
    PROVE  /\ \A s \in ResetSteps : ~ Before(kind, i, s)
           /\ kind = "root" => Before(kind, i, "live")
           /\ i # Len(Script[kind])
BY DEF Orders, ResetSteps

LEMMA BeginDbStepHolds ==
    ASSUME GInv, NEW g \in Gates, BeginDbStep(g)
    PROVE  GInv'
<1> DEFINE r == gate[g]  kind == Kind(g)  s == Step(g)  j == DbStep[s]
<1>1. r.state = "running" /\ r.job = NoJob /\ IsDbStep(g) /\ r.tried = r.ran
    BY DEF BeginDbStep
<1>2. /\ kind \in Kinds /\ Fields(kind, r) /\ IsRecord(r) /\ StepsDone(kind, world.env, r)
      /\ InPlace(kind, r, db) /\ r.at \in Nat \ {0} /\ s = Script[kind][r.at]
      /\ Orders(kind, r.at)
    BY <1>1, Runs
<1>3. /\ s \in DbNames /\ Named(j, s) /\ Before(kind, r.at, "lock") /\ s \in DOMAIN DbStep
      /\ kind = "root" => s # "reset-coordinator"
    BY <1>1, DbStepIs DEF IsDbStep
<1>4. /\ j.lane = "none" /\ j # NoJob
      /\ s \notin ResetSteps => DOMAIN j.gives = {}
      /\ j.id = Coordinator => s = "reset-coordinator"
    BY <1>3, NamedFacts
<1> DEFINE y == AtJob(r, j)
<1>5. Moves(g, y) /\ BeginRows(g, j) /\ baseline' = baseline /\ key' = key
    BY DEF Moves, BeginDbStep, BeginJob, BeginRows, AtJob
<1>6. /\ IsRecord(y) /\ y.job = j /\ y.state = r.state /\ y.at = r.at /\ y.cost = r.cost
      /\ y.tried = r.tried /\ y.ran = r.ran /\ y.faults = r.faults
    BY <1>2, AtJobFacts
<1>7. LocksInv
    BY DEF GInv
<1>8. /\ j.id = <<s>>
    BY <1>3, NamedFacts
<1>9. \A t, l : gate[g].job.id # <<t, "run", l>>
    BY <1>1, NothingAtWork
<1> HIDE DEF r, y, kind, s
<1>10. RecordInv(kind, world.env, y)
    <2>1. Fields(kind, y)
        BY <1>1, <1>2, <1>6, FieldsAre, FieldsKept
    <2>2. Coordinating(y) => Coordinating(r) \/ kind # "root"
        BY <1>3, <1>4, <1>6 DEF Coordinating
    <2>3. StepsDone(kind, world.env, y)
        <3>1. Accounted(y) /\ InOrder(kind, y)
            BY <1>2, <1>6, <2>2 DEF StepsDone, Accounted, InOrder
        <3>2. \A x \in Range(Script[kind]) : Before(kind, y.at, x) => Done(kind, world.env, y, x)
            BY <1>2, <1>6, DoneGrows DEF StepsDone
        <3> QED
            BY <1>2, <1>6, <3>1, <3>2 DEF StepsDone
    <2>4. AtWork(kind, y)
        BY <1>1, <1>2, <1>3, <1>6 DEF AtWork
    <2> QED
        BY <1>1, <1>6, <2>1, <2>3, <2>4 DEF RecordInv
<1>11. Follows(g, y)
    BY <1>1, <1>2, <1>6, <1>10, <1>9 DEF Follows, r, kind
<1>12. /\ db' \in [Schemas -> Shapes] /\ SameSchemas(db, db', DOMAIN j.gives)
       /\ DOMAIN j.gives = {} => db' = db
       /\ \A row \in rows' : \/ row \in rows
                             \/ \E x, t, l : row = <<x, t, <<g, l>>>> /\ j.id = <<t, "run", l>>
    BY <1>4, <1>5, BeginsOn
<1>13. RowsInv'
    BY <1>5, <1>6, <1>11, <1>12, RowsMove
<1>14. InPlace(kind, y, db')
    <2>1. CASE s \notin ResetSteps
        <3>1. db' = db
            BY <1>4, <1>12, <2>1
        <3>2. Coordinating(r) => Coordinating(y)
            BY <1>1, <1>6, NothingAtWork DEF Coordinating
        <3> QED
            BY <1>2, <1>6, <3>1, <3>2, InPlaceStays
    <2>2. CASE s \in ResetSteps
        <3>1. /\ \A x \in ResetSteps : ~ Before(kind, y.at, x)
              /\ kind = "root" => Before(kind, y.at, "live")
            BY <1>2, <1>6, <2>2, ResetStepIs
        <3> QED
            BY <3>1 DEF InPlace, ResetSteps
    <2> QED
        BY <2>1, <2>2
<1>15. SchemasInv'
    <2>1. DOMAIN j.gives \subseteq ResetBy(Kind(g))
        BY <1>1, StepResets DEF r, s
    <2> QED
        BY <1>1, <1>3, <1>5, <1>11, <1>12, <1>14, <2>1, SchemasMove DEF r, kind, SameSchemas
<1>16. LocksInv'
    <2>1. y.state = "running" /\ (Before(Kind(g), y.at, "lock") => key[DbLock] = g)
        BY <1>1, <1>6, <1>7 DEF LocksInv, r, kind
    <2> QED
        BY <1>5, <2>1, LocksStay
<1>17. baseline' = [t \in Suites |-> baseline'[t]] /\ BaselineInv'
    BY <1>5, <1>11, BaselinesMove DEF GInv
<1> QED
    BY <1>5, <1>11, <1>13, <1>15, <1>16, <1>17, StepKeeps

(* A step on the database finds what it needs, unless a fault was seen before it. *)
LEMMA NeedsMet ==
    ASSUME GInv, NEW g \in Gates, gate[g].state = "running", IsDbStep(g),
           gate[g].tried = gate[g].ran
    PROVE  DbStep[Step(g)].needs \subseteq gate[g].ran
<1> DEFINE kind == Kind(g)  s == Step(g)  j == DbStep[s]
<1>1. /\ kind \in Kinds /\ StepsDone(kind, world.env, gate[g]) /\ Orders(kind, gate[g].at)
      /\ s = Script[kind][gate[g].at] /\ s \in Range(Script[kind])
    BY Runs
<1>2. s \in DbNames /\ Named(j, s) /\ gate[g].faults = {}
    BY DbStepIs
<1>3. CASE s \notin {"harness", "call-integration", "cycles", "drive"}
    BY <1>2, <1>3, NamedFacts
<1>4. CASE s \in {"harness", "call-integration", "cycles", "drive"}
    <2>1. BuildIds(kind) \subseteq gate[g].ran
        BY <1>1, <1>2, <1>4, NeedsBuilt DEF Orders
    <2>2. CASE s # "call-integration"
        <3>1. j.needs \subseteq BuildIds(kind) \/ kind = "microflows"
            BY <1>1, <1>2, StepNeeds
        <3>2. kind # "microflows"
            BY <1>1, <1>4, <2>2 DEF Orders, Update, Suites
        <3> QED
            BY <2>1, <3>1, <3>2
    <2>3. CASE s = "call-integration"
        <3>1. Before(kind, gate[g].at, "runner")
            BY <1>1, <2>3 DEF Orders
        <3>2. "runner" \in Range(Script[kind])
            <4>1. /\ gate[g].at \in 1 .. Len(Script[kind]) /\ Len(Script[kind]) \in Nat
                BY Runs
            <4>2. Script[kind] \in Seq(StepNames)
                BY <1>1, ScriptFacts
            <4>3. PICK k \in 1 .. gate[g].at - 1 : Script[kind][k] = "runner"
                BY <3>1 DEF Before
            <4> QED
                BY <4>1, <4>2, <4>3, RangeEquality
        <3>3. <<"microflows-runner">> \in gate[g].ran
            BY <1>1, <3>1, <3>2 DEF StepsDone, Done
        <3>4. j.needs = {<<"microflows-runner">>}
            BY <1>2, <2>3 DEF Named, IsDbJob
        <3> QED
            BY <3>3, <3>4
    <2> QED
        BY <2>2, <2>3
<1> QED
    BY <1>3, <1>4

(* The schemas when a step of the script on the database has ended. *)
LEMMA StepLoads ==
    ASSUME NEW kind, NEW r, r.at \in Nat \ {0}, Orders(kind, r.at),
           Script[kind][r.at] \in ResetSteps, NEW j, Named(j, Script[kind][r.at]),
           NEW y, y.at = r.at + 1,
           NEW d, \A s \in DOMAIN j.gives : d[s] = j.gives[s]
    PROVE  InPlace(kind, y, d)
<1> DEFINE s == Script[kind][r.at]
<1>1. /\ \A x \in ResetSteps : ~ Before(kind, r.at, x)
      /\ kind = "root" => Before(kind, r.at, "live")
    BY ResetStepIs
<1>2. \A x : Before(kind, y.at, x) <=> Before(kind, r.at, x) \/ x = s
    BY BeforeGoesOn
<1>3. kind = "root" => Before(kind, y.at, "live")
    BY <1>1, <1>2
<1>4. \A x \in ResetSteps : Before(kind, y.at, x) => x = s
    BY <1>1, <1>2
<1> HIDE DEF s
<1>5. CASE s = "reset-singular"
    <2>1. d["singular"] = "product" /\ d["malformed"] = "product"
        BY <1>5, ResetFacts DEF s
    <2> QED
        BY <1>3, <1>4, <1>5, <2>1 DEF InPlace, ResetSteps
<1>6. CASE s = "reset-microflows"
    <2>1. d["microflows"] = "product" /\ d["fixtures"] = "product"
        BY <1>6, ResetFacts DEF s
    <2> QED
        BY <1>3, <1>4, <1>6, <2>1 DEF InPlace, ResetSteps
<1>7. CASE s = "reset-coordinator"
    <2>1. d["singular"] = "product" /\ d["microflows"] = "coordinator"
        BY <1>7, ResetFacts DEF s
    <2> QED
        BY <1>3, <1>4, <1>7, <2>1 DEF InPlace, ResetSteps
<1> QED
    BY <1>5, <1>6, <1>7 DEF ResetSteps, s

(* A step on the database that ran is finished. *)
LEMMA DbStepFinishes ==
    ASSUME GInv, NEW g \in Gates, gate[g].state = "running", IsDbStep(g), gate[g].job # NoJob,
           NEW x, IsRecord(x), x.state = gate[g].state, x.at = gate[g].at,
           x.cost \in Costs \cup {0},
           x.tried = gate[g].tried \cup {<<Step(g)>>},
           x.ran = gate[g].ran \cup {<<Step(g)>>}, x.faults = gate[g].faults
    PROVE  Finished(Kind(g), world.env, x)
<1> DEFINE r == gate[g]  kind == Kind(g)  s == Step(g)
<1>1. /\ kind \in Kinds /\ RecordInv(kind, world.env, r) /\ Fields(kind, r)
      /\ s = Script[kind][r.at] /\ r.state = "running"
    BY Runs
<1>2. /\ s \in DbNames /\ r.tried = r.ran /\ r.faults = {}
      /\ kind = "root" => s # "reset-coordinator"
    BY DbStepIs
<1> HIDE DEF r, kind, s
<1>3. /\ x.state = r.state /\ x.at = r.at /\ x.tried = r.tried \cup {<<s>>}
      /\ x.ran = r.ran \cup {<<s>>} /\ x.faults = r.faults
    BY DEF r, s
<1>4. x.ran = x.tried /\ x.faults = {}
    BY <1>2, <1>3
<1>5. Fields(kind, x) /\ Accounted(x)
    BY <1>1, <1>3, <1>4, FieldsAre, FieldsKept DEF Accounted
<1>6. Done(kind, world.env, x, s)
    BY <1>2, <1>3 DEF Done, DbNames
<1>7. <<s>> \notin BuildIds(kind) /\ <<s>> \notin UnitIds(kind)
    BY <1>1, <1>2, NamesDiffer
<1>8. kind = "root" => Coordinator # <<s>>
    BY <1>2, IdsDiffer DEF Coordinator
<1>9. /\ r.tried \subseteq x.tried /\ x.at = r.at /\ x.state = "running" /\ x.tried = x.ran
      /\ (x.tried \ r.tried) \cap BuildIds(kind) = {}
      /\ (x.tried \ r.tried) \cap UnitIds(kind) = {}
      /\ kind = "root" => Coordinator \notin x.tried \ r.tried
    BY <1>1, <1>3, <1>4, <1>7, <1>8
<1>10. Done(kind, world.env, x, Script[kind][r.at])
    BY <1>1, <1>6
<1>11. Finished(kind, world.env, x)
    BY <1>1, <1>5, <1>9, <1>10, StepFinishes
<1> QED
    BY <1>11 DEF kind

LEMMA RanFacts ==
    ASSUME NEW r, IsRecord(r), NEW id
    PROVE  /\ IsRecord(Attempted(r, {id}, {}, {})) /\ Attempted(r, {id}, {}, {}).state = r.state
           /\ Attempted(r, {id}, {}, {}).at = r.at /\ Attempted(r, {id}, {}, {}).job = r.job
           /\ Attempted(r, {id}, {}, {}).cost = r.cost
           /\ Attempted(r, {id}, {}, {}).tried = r.tried \cup {id}
           /\ Attempted(r, {id}, {}, {}).ran = r.ran \cup {id}
           /\ Attempted(r, {id}, {}, {}).faults = r.faults
<1> DEFINE ids == {id}  none == {}
<1> HIDE DEF ids, none
<1> DEFINE y == Attempted(r, ids, none, none)
<1>1. /\ IsRecord(y) /\ y.state = r.state /\ y.at = r.at /\ y.job = r.job /\ y.cost = r.cost
      /\ y.tried = r.tried \cup ids /\ y.ran = r.ran \cup (ids \ (none \cup none))
      /\ y.faults = r.faults \cup none
    BY AttemptedFacts
<1> HIDE DEF y
<1>2. y.ran = r.ran \cup ids /\ y.faults = r.faults
    BY <1>1 DEF none
<1> QED
    BY <1>1, <1>2 DEF y, ids, none

(* A gate comes to its end: it drops its locks and touches no schema. *)
LEMMA LastStep ==
    ASSUME GInv, NEW g \in Gates, NEW y, Moves(g, y), Follows(g, y), y.state # "running",
           UNCHANGED <<db, rows>>, key' = Released(g, key),
           baseline' = [t \in Suites |-> baseline'[t]], BaselineInv'
    PROVE  GInv'
<1>1. db' = db /\ rows' = rows
    OBVIOUS
<1>2. RowsInv' /\ LocksInv'
    BY <1>1, RowsMove, LocksStay
<1>3. db' \in [Schemas -> Shapes]
    BY <1>1 DEF GInv, SchemasInv
<1>4. SchemasInv'
    BY <1>1, <1>3, SchemasMove
<1> QED
    BY <1>2, <1>4, StepKeeps

LEMMA ResetEnds ==
    ASSUME GInv, NEW g \in Gates, gate[g].state = "running", IsDbStep(g), gate[g].job # NoJob,
           Step(g) \in ResetSteps,
           NEW x, x.at = gate[g].at, gate[g].tried \subseteq x.tried,
           Finished(Kind(g), world.env, x), gate[g].job.id = <<Step(g)>>,
           Proceed(g, x), db' = Loaded(gate[g].job), UNCHANGED <<world, rows, baseline>>
    PROVE  GInv'
<1> DEFINE r == gate[g]  kind == Kind(g)  s == Step(g)  j == r.job  y == Advanced(x, kind)
<1>1. /\ kind \in Kinds /\ world.env \in Surroundings /\ Orders(kind, r.at)
      /\ s = Script[kind][r.at] /\ r.at \in Nat \ {0}
    BY Runs
<1>2. Named(j, s) /\ s \in DbNames /\ Before(kind, r.at, "lock")
    BY DbStepIs
<1>3. r.at # Len(Script[kind])
    BY <1>1, ResetStepIs
<1>4. /\ y.state \in {"running", "passed"}
      /\ y.state = "passed" => x.at = Len(Script[kind])
      /\ y.state = "running" => y.at = x.at + 1
    BY <1>1, AdvancedIsGood
<1>5. y.state = "running" /\ y.at = r.at + 1
    BY <1>3, <1>4
<1>6. Follows(g, y)
    <2>1. \A t, l : r.job.id # <<t, "run", l>>
        BY IdsDiffer
    <2> QED
        BY <1>3, <2>1, ProceedFollows
<1>7. Moves(g, y) /\ key' = key
    BY <1>5 DEF Moves, Proceed
<1>8. db \in [Schemas -> Shapes] /\ LocksInv
    BY DEF GInv, SchemasInv
<1>9. \A z \in DOMAIN j.gives : z \in Schemas /\ j.gives[z] \in Shapes
    BY <1>2, ResetFacts DEF ResetSteps, Schemas, Shapes
<1> HIDE DEF y, j
<1>10. /\ db' \in [Schemas -> Shapes]
       /\ \A z \in DOMAIN j.gives : db'[z] = j.gives[z]
    BY <1>8, <1>9 DEF Loaded, j
<1>11. InPlace(kind, y, db')
    BY <1>1, <1>2, <1>5, <1>10, StepLoads
<1>12. SchemasInv'
    <2>1. DOMAIN j.gives \subseteq ResetBy(Kind(g))
        BY DbStepIs, StepResets DEF j
    <2>2. \A z \in Schemas : db'[z] = db[z] \/ z \in ResetBy(Kind(g))
        BY <2>1 DEF Loaded, j
    <2> QED
        BY <1>2, <1>6, <1>7, <1>10, <1>11, <2>2, SchemasMove
<1>13. LocksInv'
    BY <1>2, <1>5, <1>7, <1>8, LocksStay DEF LocksInv
<1>14. RowsInv' /\ BaselineInv' /\ baseline' = [t \in Suites |-> baseline'[t]]
    BY <1>6, <1>7, RowsMove, BaselinesMove DEF GInv
<1> QED
    BY <1>6, <1>7, <1>12, <1>13, <1>14, StepKeeps

LEMMA EndDbStepHolds ==
    ASSUME GInv, NEW g \in Gates, EndDbStep(g)
    PROVE  GInv'
<1> DEFINE r == gate[g]  kind == Kind(g)  s == Step(g)  j == r.job
<1>1. /\ r.state = "running" /\ j # NoJob /\ IsDbStep(g) /\ s \notin Suites
      /\ UNCHANGED <<world, rows, baseline>>
    BY DEF EndDbStep, Suites
<1>2. /\ s \in DbNames /\ Named(j, s) /\ r.tried = r.ran /\ j = DbStep[s]
      /\ kind = "root" => s # "reset-coordinator"
    BY <1>1, DbStepIs
<1>3. /\ Fields(kind, r) /\ IsRecord(r) /\ r.cost \in Costs \cup {0}
    BY <1>1, Runs, FieldsAre
<1>4. /\ j.id = <<s>>
      /\ s \notin ResetSteps => DOMAIN j.gives = {}
    BY <1>2, NamedFacts
<1>5. j.needs \subseteq r.ran
    BY <1>1, <1>2, NeedsMet
<1>6. PICK bad \in Failing({j.id}) :
          IF bad = {} /\ j.needs \subseteq r.ran
          THEN Proceed(g, Attempted(r, {j.id}, {}, {})) /\ db' = Loaded(j)
          ELSE Abort(g, Attempted(r, {j.id}, bad, {j.id})) /\ db' = db
    BY DEF EndDbStep
<1>7. bad \in SUBSET {j.id}
    BY <1>6, FailingFacts
<1>8. CASE bad = {}
    <2> DEFINE x == Attempted(r, {<<s>>}, {}, {})
    <2>1. Proceed(g, x) /\ db' = Loaded(j)
        BY <1>4, <1>5, <1>6, <1>8
    <2>2. /\ IsRecord(x) /\ x.state = r.state /\ x.at = r.at /\ x.cost = r.cost
          /\ x.tried = r.tried \cup {<<s>>} /\ x.ran = r.ran \cup {<<s>>} /\ x.faults = r.faults
        BY <1>3, RanFacts
    <2> HIDE DEF x
    <2>3. Finished(kind, world.env, x)
        BY <1>1, <1>3, <2>2, DbStepFinishes
    <2>4. CASE s \in ResetSteps
        BY <1>1, <1>4, <2>1, <2>2, <2>3, <2>4, ResetEnds
    <2>5. CASE s \notin ResetSteps
        <3>1. db' = db
            <4>1. db' = [z \in Schemas |-> db[z]]
                BY <1>4, <2>1, <2>5 DEF Loaded
            <4>2. db \in [Schemas -> Shapes]
                BY DEF GInv, SchemasInv
            <4> QED
                BY <4>1, <4>2
        <3>2. s \notin ResetSteps \cup Suites \cup {"lock"}
            BY <1>1, <1>2, <2>5 DEF DbNames
        <3>3. \A t, l : r.job.id # <<t, "run", l>>
            BY <1>4, IdsDiffer
        <3>4. \A k \in Resets : k.id # <<s>>
            BY <2>5, ResetIds, IdsDiffer
        <3>5. Coordinating(r) => Coordinator \in x.tried
            BY <1>4, <2>2 DEF Coordinating
        <3>6. \A k \in Resets : k.id \in x.tried => k.id \in r.tried
            BY <2>2, <3>4
        <3> QED
            BY <1>1, <2>1, <2>2, <2>3, <3>1, <3>2, <3>3, <3>5, <3>6, ProceedHolds
    <2> QED
        BY <2>4, <2>5
<1>9. CASE bad # {}
    <2> DEFINE x == Attempted(r, {j.id}, bad, {j.id})
    <2>1. Abort(g, x) /\ db' = db
        BY <1>6, <1>9
    <2>2. Fields(kind, x)
        BY <1>3, <1>7, AttemptedFields
    <2>3. x.faults = r.faults \cup bad /\ x.at = r.at
        BY <1>3, AttemptedFacts
    <2>4. x.faults # {}
        BY <1>9, <2>3
    <2> HIDE DEF x
    <2> QED
        BY <1>1, <2>1, <2>2, <2>3, <2>4, AbortHolds
<1> QED
    BY <1>8, <1>9

-----------------------------------------------------------------------------
(* The verdict on a performance scenario *)

LEMMA MeasuringIs ==
    ASSUME GInv, NEW g \in Gates, NEW suite \in Suites, Measuring(g, suite)
    PROVE  /\ gate[g].state = "running" /\ gate[g].job # NoJob /\ IsDbStep(g)
           /\ Step(g) = suite /\ gate[g].job.id = <<suite>>
           /\ gate[g].at = Len(Script[Kind(g)])
           /\ Kind(g) \in {suite, Update[suite]}
<1>1. gate[g].state = "running" /\ gate[g].job # NoJob /\ Step(g) = suite
    BY DEF Measuring
<1>2. suite \in DbNames
    BY DEF Suites, DbNames
<1>3. IsDbStep(g)
    BY <1>1, <1>2, DbStepFacts DEF IsDbStep
<1>4. gate[g].job.id = <<suite>>
    BY <1>1, <1>2, <1>3, DbStepIs, NamedFacts
<1>5. Orders(Kind(g), gate[g].at) /\ Script[Kind(g)][gate[g].at] = suite
    BY <1>1, Runs
<1>6. gate[g].at = Len(Script[Kind(g)]) /\ Kind(g) \in {suite, Update[suite]}
    BY <1>5 DEF Orders, Suites
<1> QED
    BY <1>1, <1>3, <1>4, <1>6

LEMMA UpdateFacts ==
    ASSUME NEW suite \in Suites
    PROVE  /\ Update[suite] \notin Suites /\ Update[suite] \in Updates
           /\ suite \notin Updates /\ suite # Update[suite]
           /\ \A t \in Suites : Update[t] = Update[suite] => t = suite
<1>1. /\ Update["cycles"] = "cycles-update" /\ Update["drive"] = "drive-update"
      /\ DOMAIN Update = {"cycles", "drive"}
    BY DEF Update, Suites
<1>2. Updates = {"cycles-update", "drive-update"}
    BY <1>1 DEF Updates, Range
<1> QED
    BY <1>1, <1>2 DEF Suites

LEMMA BrokeHolds ==
    ASSUME GInv, NEW g \in Gates, NEW suite \in Suites, Measuring(g, suite),
           Broke(g, suite), UNCHANGED <<world, db, rows>>
    PROVE  GInv'
<1> DEFINE r == gate[g]  ids == {<<suite>>}  x == Attempted(r, ids, ids, {})
<1>1. Abort(g, x) /\ UNCHANGED <<world, db, rows, baseline>>
    BY DEF Broke
<1>2. r.state = "running" /\ Fields(Kind(g), r) /\ IsRecord(r)
    BY Runs DEF Measuring
<1>3. ids \in SUBSET ids /\ ids # {}
    OBVIOUS
<1> HIDE DEF ids
<1>4. Fields(Kind(g), x) /\ x.faults = r.faults \cup ids /\ x.at = r.at
    BY <1>2, <1>3, AttemptedFields, AttemptedFacts
<1>5. x.faults # {}
    BY <1>3, <1>4
<1> HIDE DEF x
<1> QED
    BY <1>1, <1>2, <1>4, <1>5, AbortHolds

(* A scenario with its cost, before the verdict. *)
Measured(g, suite, cost) == Costing(Attempted(gate[g], {<<suite>>}, {}, {}), cost)

LEMMA MeasuredFacts ==
    ASSUME GInv, NEW g \in Gates, NEW suite \in Suites, Measuring(g, suite), NEW cost \in Costs
    PROVE  /\ Finished(Kind(g), world.env, Measured(g, suite, cost))
           /\ Fields(Kind(g), Measured(g, suite, cost))
           /\ Measured(g, suite, cost).cost = cost
           /\ Measured(g, suite, cost).at = Len(Script[Kind(g)])
           /\ gate[g].tried \subseteq Measured(g, suite, cost).tried
<1> DEFINE r == gate[g]  x == Attempted(r, {<<suite>>}, {}, {})  y == Costing(x, cost)
<1>1. /\ r.state = "running" /\ r.job # NoJob /\ IsDbStep(g) /\ Step(g) = suite
      /\ r.at = Len(Script[Kind(g)])
    BY MeasuringIs
<1>2. IsRecord(r)
    BY <1>1, Runs
<1>3. /\ IsRecord(x) /\ x.state = r.state /\ x.at = r.at
      /\ x.tried = r.tried \cup {<<suite>>} /\ x.ran = r.ran \cup {<<suite>>}
      /\ x.faults = r.faults
    BY <1>2, RanFacts
<1> HIDE DEF x
<1>4. /\ IsRecord(y) /\ y.state = x.state /\ y.at = x.at /\ y.cost = cost
      /\ y.tried = x.tried /\ y.ran = x.ran /\ y.faults = x.faults
    BY <1>3, CostingFacts
<1> HIDE DEF y
<1>5. Finished(Kind(g), world.env, y)
    <2>1. y.cost \in Costs \cup {0}
        BY <1>4
    <2>2. y.state = r.state /\ y.at = r.at /\ y.faults = r.faults
        BY <1>3, <1>4
    <2>3. y.tried = r.tried \cup {<<Step(g)>>} /\ y.ran = r.ran \cup {<<Step(g)>>}
        BY <1>1, <1>3, <1>4
    <2> QED
        BY <1>1, <1>4, <2>1, <2>2, <2>3, DbStepFinishes
<1>6. Fields(Kind(g), y)
    BY <1>5 DEF Finished
<1> QED
    BY <1>1, <1>3, <1>4, <1>5, <1>6 DEF x, y, Measured

LEMMA BaselineFacts ==
    ASSUME NEW b \in Baselines
    PROVE  /\ b.cost \in Nat
           /\ ~ b.readable => b.cost = 0
           /\ b.readable => \A c : [b EXCEPT !.cost = c] = [readable |-> TRUE, cost |-> c]
<1>1. Costs \subseteq Nat
    BY GatesAssumption
<1>2. CASE b \in [readable : {TRUE}, cost : Costs \cup {0}]
    <2>1. PICK n \in Costs \cup {0} : b = [readable |-> TRUE, cost |-> n]
        BY <1>2
    <2>2. b.cost = n
        BY <2>1
    <2>3. \A k \in Costs \cup {0} : k \in Nat
        BY <1>1
    <2>4. ASSUME NEW c
          PROVE  [b EXCEPT !.cost = c] = [readable |-> TRUE, cost |-> c]
        <3> DEFINE readable == TRUE
        <3>1. b = [readable |-> readable, cost |-> n]
            BY <2>1
        <3> HIDE DEF readable
        <3>2. [b EXCEPT !.cost = c] = [readable |-> readable, cost |-> c]
            BY <3>1
        <3> QED
            BY <3>2 DEF readable
    <2>5. b.readable = TRUE
        BY <2>1
    <2> QED
        BY <2>2, <2>3, <2>4, <2>5
<1>3. CASE b = Torn
    BY <1>3 DEF Torn
<1> QED
    BY <1>2, <1>3 DEF Baselines

(* A gate is held to what its baseline says, and that is a cost on record. *)
LEMMA VerdictsAreMet ==
    ASSUME GInv, NEW g \in Gates, NEW suite \in Suites, Kind(g) \in {suite, Update[suite]},
           NEW cost \in Costs
    PROVE  /\ WithinBaseline(suite, cost) => \E r \in Records(suite) : cost <= 3 * r
           /\ ~ (Kind(g) \in Updates /\ baseline[suite].readable)
              /\ ~ (Kind(g) \notin Updates /\ WithinBaseline(suite, cost))
              => \A y : y.cost = cost => Unmet(g, y)
<1>1. cost \in Nat \ {0}
    BY GatesAssumption
<1>2. /\ baseline[suite] \in Baselines
      /\ baseline[suite].cost # 0 => baseline[suite].cost \in Records(suite)
      /\ ~ baseline[suite].readable \/ baseline[suite].cost = 0 =>
            world.baseline[suite].cost = 0 \/ Updaters(suite, "killed") # {}
    BY DEF GInv, BaselineInv
<1>3. baseline[suite].cost \in Nat
    BY <1>2, BaselineFacts
<1>4. WithinBaseline(suite, cost) => \E r \in Records(suite) : cost <= 3 * r
    BY <1>2 DEF WithinBaseline
<1>5. ASSUME ~ (Kind(g) \in Updates /\ baseline[suite].readable),
             ~ (Kind(g) \notin Updates /\ WithinBaseline(suite, cost)),
             NEW y, y.cost = cost
      PROVE  Unmet(g, y)
    <2>1. \/ ~ baseline[suite].readable \/ baseline[suite].cost = 0
          \/ cost > 3 * baseline[suite].cost
        BY <1>1, <1>3, <1>5 DEF WithinBaseline
    <2>2. CASE ~ baseline[suite].readable \/ baseline[suite].cost = 0
        BY <1>1, <1>2, <1>5, <2>2 DEF Unmet
    <2>3. CASE baseline[suite].cost # 0 /\ cost > 3 * baseline[suite].cost
        <3>1. baseline[suite].cost \in Records(suite) /\ y.cost > 3 * baseline[suite].cost
            BY <1>2, <1>5, <2>3
        <3> QED
            BY <1>1, <1>5, <3>1 DEF Unmet
    <2> QED
        BY <2>1, <2>2, <2>3
<1> QED
    BY <1>4, <1>5

(* A gate that passes with its verdict; one with --update-baseline records the cost. *)
LEMMA VerdictPasses ==
    ASSUME GInv, NEW g \in Gates, NEW suite \in Suites, Measuring(g, suite), NEW cost \in Costs,
           Proceed(g, Measured(g, suite, cost)), UNCHANGED <<world, db, rows>>,
           \/ Kind(g) = Update[suite] /\ baseline' = [baseline EXCEPT ![suite].cost = cost]
              /\ baseline[suite].readable
           \/ Kind(g) # Update[suite] /\ UNCHANGED baseline /\ WithinBaseline(suite, cost)
    PROVE  GInv'
<1> DEFINE x == Measured(g, suite, cost)  kind == Kind(g)  y == Advanced(x, kind)
<1>1. /\ gate[g].state = "running" /\ gate[g].job.id = <<suite>>
      /\ kind \in {suite, Update[suite]}
    BY MeasuringIs
<1>2. /\ Finished(kind, world.env, x) /\ Fields(kind, x) /\ x.cost = cost
      /\ x.at = Len(Script[kind]) /\ gate[g].tried \subseteq x.tried
    BY MeasuredFacts
<1>3. \A t, l : gate[g].job.id # <<t, "run", l>>
    BY <1>1, IdsDiffer
<1>4. Kind(g) \in Suites => \E r \in Records(Kind(g)) : x.cost <= 3 * r
    <2>1. Kind(g) \in Suites => Kind(g) = suite /\ WithinBaseline(suite, cost)
        BY <1>1, UpdateFacts
    <2> QED
        BY <1>1, <1>2, <2>1, VerdictsAreMet
<1>5. Follows(g, y)
    <2>1. x.at = gate[g].at
        BY <1>2, MeasuringIs
    <2> QED
        BY <1>1, <1>2, <1>3, <1>4, <2>1, ProceedFollows
<1>6. y.state = "passed" /\ y.cost = cost
    BY <1>2, FieldsAre, AdvancedFacts
<1>7. Moves(g, y) /\ key' = Released(g, key)
    BY <1>6 DEF Moves, Proceed
<1>8. baseline = [t \in Suites |-> baseline[t]] /\ baseline[suite] \in Baselines
    BY DEF GInv, BaselineInv
<1> HIDE DEF y, x
<1>9. baseline' = [t \in Suites |-> baseline'[t]]
    BY <1>8
<1>10. \A t \in Suites :
          \/ baseline'[t] = baseline[t]
          \/ /\ baseline'[t] = [readable |-> TRUE, cost |-> y.cost] /\ y.cost \in Costs
             /\ Kind(g) = Update[t] /\ y.state = "passed"
    <2>1. CASE UNCHANGED baseline
        BY <2>1
    <2>2. CASE Kind(g) = Update[suite] /\ baseline' = [baseline EXCEPT ![suite].cost = cost]
               /\ baseline[suite].readable
        <3>1. \A t \in Suites \ {suite} : baseline'[t] = baseline[t]
            BY <1>8, <2>2
        <3>2. baseline'[suite] = [baseline[suite] EXCEPT !.cost = cost]
            BY <1>8, <2>2
        <3>3. baseline'[suite] = [readable |-> TRUE, cost |-> cost]
            BY <1>8, <2>2, <3>2, BaselineFacts
        <3> QED
            BY <1>6, <2>2, <3>1, <3>3
    <2> QED
        BY <2>1, <2>2
<1>11. BaselineInv'
    BY <1>5, <1>7, <1>10, BaselinesMove
<1> QED
    BY <1>5, <1>6, <1>7, <1>9, <1>11, LastStep

LEMMA JudgeHolds ==
    ASSUME GInv, NEW g \in Gates, NEW suite \in Suites, Measuring(g, suite), NEW cost \in Costs,
           Judge(g, suite, cost), UNCHANGED <<world, db, rows>>
    PROVE  GInv'
<1> DEFINE x == Measured(g, suite, cost)
           recorded == Kind(g) \in Updates /\ baseline[suite].readable
           within == Kind(g) \notin Updates /\ WithinBaseline(suite, cost)
<1>1. /\ recorded => Proceed(g, x) /\ baseline' = [baseline EXCEPT ![suite].cost = cost]
      /\ ~ recorded => baseline' = baseline
      /\ ~ recorded /\ within => Proceed(g, x)
      /\ ~ recorded /\ ~ within => Abort(g, x)
    BY DEF Judge, Measured, Costing
<1>2. gate[g].state = "running" /\ Kind(g) \in {suite, Update[suite]}
    BY MeasuringIs
<1>3. Kind(g) \in Updates <=> Kind(g) = Update[suite]
    BY <1>2, UpdateFacts
<1>4. CASE recorded
    BY <1>1, <1>3, <1>4, VerdictPasses
<1>5. CASE ~ recorded /\ within
    BY <1>1, <1>3, <1>5, VerdictPasses
<1>6. CASE ~ recorded /\ ~ within
    <2>1. Fields(Kind(g), x) /\ x.cost = cost /\ x.at = gate[g].at
        BY MeasuredFacts, MeasuringIs
    <2>2. Unmet(g, x)
        BY <1>2, <1>6, <2>1, VerdictsAreMet
    <2> HIDE DEF x
    <2>3. Abort(g, x) /\ UNCHANGED <<world, db, rows, baseline>>
        BY <1>1, <1>6
    <2> QED
        BY <1>2, <2>1, <2>2, <2>3, AbortHolds
<1> QED
    BY <1>4, <1>5, <1>6

LEMMA MeasureHolds ==
    ASSUME GInv, NEW g \in Gates, MeasureCycles(g) \/ MeasureDrive(g)
    PROVE  GInv'
<1>1. PICK suite \in Suites :
          /\ Measuring(g, suite)
          /\ Broke(g, suite) \/ \E c \in Costs : Judge(g, suite, c)
          /\ UNCHANGED <<world, db, rows>>
    BY DEF MeasureCycles, MeasureDrive, Suites
<1> QED
    BY <1>1, BrokeHolds, JudgeHolds

-----------------------------------------------------------------------------
(* A gate is killed. *)

Dead(r) == [r EXCEPT !.state = "killed", !.job = NoJob]

LEMMA DeadFacts ==
    ASSUME NEW r, IsRecord(r)
    PROVE  /\ IsRecord(Dead(r)) /\ Dead(r).job = NoJob /\ Dead(r).state = "killed"
           /\ Dead(r).at = r.at /\ Dead(r).cost = r.cost /\ Dead(r).tried = r.tried
           /\ Dead(r).ran = r.ran /\ Dead(r).faults = r.faults
<1>1. IsRecord(Dead(r))
    <2> DEFINE x == [r EXCEPT !["state"] = "killed"]
    <2>1. IsRecord(x)
        BY RecordsStay DEF GateFields
    <2> HIDE DEF x
    <2>2. IsRecord([x EXCEPT !["job"] = NoJob])
        BY <2>1, RecordsStay DEF GateFields
    <2> QED
        BY <2>2 DEF Dead, x
<1>2. /\ Dead(r).job = NoJob /\ Dead(r).state = "killed"
      /\ Dead(r).at = r.at /\ Dead(r).cost = r.cost /\ Dead(r).tried = r.tried
      /\ Dead(r).ran = r.ran /\ Dead(r).faults = r.faults
    BY DEF IsRecord, GateFields, Dead
<1> QED
    BY <1>1, <1>2

LEMMA KillHolds ==
    ASSUME GInv, NEW g \in Gates, Kill(g)
    PROVE  GInv'
<1> DEFINE r == gate[g]  kind == Kind(g)  y == Dead(r)
<1>1. /\ r.state = "running" /\ key' = Released(g, key) /\ UNCHANGED <<world, db, rows>>
      /\ gate' = [gate EXCEPT ![g].state = "killed", ![g].job = NoJob]
    BY DEF Kill
<1>2. Fields(kind, r) /\ IsRecord(r)
    BY <1>1, Runs
<1>3. gate = [u \in Gates |-> gate[u]] /\ baseline = [t \in Suites |-> baseline[t]]
    BY DEF GInv
<1>4. Moves(g, y)
    <2>1. gate' = [gate EXCEPT ![g] = y]
        BY <1>1, <1>3 DEF Dead
    <2> QED
        BY <1>1, <2>1 DEF Moves
<1>5. /\ IsRecord(y) /\ y.job = NoJob /\ y.state = "killed" /\ y.at = r.at /\ y.cost = r.cost
      /\ y.tried = r.tried /\ y.ran = r.ran /\ y.faults = r.faults
    BY <1>2, DeadFacts
<1> HIDE DEF y
<1>6. Fields(kind, y)
    BY <1>2, <1>5, FieldsAre, FieldsKept
<1>7. RecordInv(kind, world.env, y)
    BY <1>5, <1>6 DEF RecordInv
<1>8. Follows(g, y)
    BY <1>1, <1>2, <1>5, <1>7 DEF Follows, Fields
<1>9. \A t \in Suites : Kind(g) \in Updates /\ Measuring(g, t) => Kind(g) = Update[t]
    BY MeasuringIs, UpdateFacts
<1>10. \/ baseline' = baseline
       \/ \E t \in Suites : Kind(g) = Update[t] /\ baseline' = [baseline EXCEPT ![t] = Torn]
    BY <1>9 DEF Kill
<1>11. baseline' = [t \in Suites |-> baseline'[t]]
    BY <1>3, <1>10
<1>12. \A t \in Suites :
          \/ baseline'[t] = baseline[t]
          \/ baseline'[t] = Torn /\ Kind(g) = Update[t] /\ y.state = "killed"
    BY <1>3, <1>5, <1>10
<1>13. BaselineInv'
    BY <1>4, <1>8, <1>12, BaselinesMove
<1> QED
    BY <1>1, <1>4, <1>5, <1>8, <1>11, <1>13, LastStep

-----------------------------------------------------------------------------
(* The invariant *)

LEMMA InitHolds ==
    ASSUME Init
    PROVE  GInv
<1> DEFINE idle == [state |-> "idle", at |-> 1, job |-> NoJob, cost |-> 0,
                    tried |-> {}, ran |-> {}, faults |-> {}]
<1>1. /\ world \in Worlds /\ db = world.db /\ baseline = world.baseline /\ rows = {}
      /\ key = [k \in {DbLock, SharedKey, HeldKey} |-> NoGate] /\ gate = [g \in Gates |-> idle]
    BY DEF Init
<1>2. /\ \A g \in Gates : Kind(g) \in Kinds
      /\ world.db \in [Schemas -> Shapes] /\ world.baseline \in [Suites -> Baselines]
    BY <1>1, TheWorld
<1>3. /\ idle.state = "idle" /\ idle.at = 1 /\ idle.job = NoJob /\ idle.cost = 0
      /\ idle.tried = {} /\ idle.ran = {} /\ idle.faults = {}
    OBVIOUS
<1>4. IsRecord(idle)
    BY DEF IsRecord, GateFields
<1> HIDE DEF idle
<1>5. \A g \in Gates : gate[g] = idle
    BY <1>1
<1>6. ASSUME NEW kind \in Kinds
      PROVE  RecordInv(kind, world.env, idle)
    <2>1. 1 \in 1 .. Len(Script[kind])
        BY ScriptFacts
    <2>2. Fields(kind, idle)
        BY <1>3, <1>4, <2>1, FieldsKept
    <2> QED
        BY <1>3, <2>2 DEF RecordInv
<1>7. \A g \in Gates : RecordInv(Kind(g), world.env, gate[g])
    BY <1>2, <1>5, <1>6
<1>8. \A g \in Gates : gate[g].state = "idle"
    BY <1>3, <1>5
<1>9. gate = [g \in Gates |-> gate[g]] /\ baseline = [t \in Suites |-> baseline[t]]
    BY <1>1, <1>2
<1>10. SchemasInv
    BY <1>1, <1>2, <1>8 DEF SchemasInv
<1>11. LocksInv
    BY <1>1, <1>8 DEF LocksInv, Keys
<1>12. RowsInv
    BY <1>1 DEF RowsInv
<1>13. BaselineInv
    <2>1. SUFFICES ASSUME NEW t \in Suites
                   PROVE  /\ baseline[t] \in Baselines
                          /\ baseline[t].cost # 0 => baseline[t].cost \in Records(t)
                          /\ ~ baseline[t].readable \/ baseline[t].cost = 0 =>
                                world.baseline[t].cost = 0 \/ Updaters(t, "killed") # {}
        BY DEF BaselineInv
    <2>2. baseline[t] \in Baselines /\ baseline[t] = world.baseline[t]
        BY <1>1, <1>2
    <2>3. ~ baseline[t].readable => baseline[t].cost = 0
        BY <2>2, BaselineFacts
    <2>4. baseline[t].cost # 0 => baseline[t].cost \in Records(t)
        BY <2>2 DEF Records
    <2> QED
        BY <2>2, <2>3, <2>4
<1>14. OutcomeIsEarned
    BY <1>8 DEF OutcomeIsEarned
<1> QED
    BY <1>1, <1>7, <1>9, <1>10, <1>11, <1>12, <1>13, <1>14 DEF GInv

LEMMA StutterHolds ==
    ASSUME GInv, UNCHANGED vars
    PROVE  GInv'
<1>1. world' = world /\ db' = db /\ rows' = rows /\ key' = key /\ baseline' = baseline /\ gate' = gate
    BY DEF vars
<1>2. SchemasInv' /\ LocksInv' /\ RowsInv'
    BY <1>1 DEF GInv, SchemasInv, LocksInv, RowsInv, Kind, Disturbed
<1>3. \A t, s : Updaters(t, s)' = Updaters(t, s)
    BY <1>1 DEF Updaters, Kind
<1>4. \A u : Kind(u)' = Kind(u)
    BY <1>1 DEF Kind
<1>5. /\ \A t : Records(t)' = Records(t)
      /\ \A u : Records(Kind(u))' = Records(Kind(u))
    BY <1>1, <1>4, RecordsAre
<1>6. BaselineInv'
    BY <1>1, <1>3, <1>5 DEF GInv, BaselineInv
<1>7. OutcomeIsEarned'
    BY <1>1, <1>3, <1>4, <1>5 DEF GInv, OutcomeIsEarned
<1> QED
    BY <1>1, <1>2, <1>6, <1>7 DEF GInv, Kind

LEMMA NextHolds ==
    ASSUME GInv, [Next]_vars
    PROVE  GInv'
<1>1. ASSUME NEW g \in Gates, Start(g) \/ Continue(g) \/ Kill(g)
      PROVE  GInv'
    <2>1. CASE Start(g)
        BY <2>1, StartHolds
    <2>2. CASE TakeLock(g)
        BY <2>2, TakeLockHolds
    <2>3. CASE TestRunner(g)
        BY <2>3, TestRunnerHolds
    <2>4. CASE Emit(g)
        BY <2>4, EmitHolds
    <2>5. CASE RunBuild(g)
        BY <2>5, RunBuildHolds
    <2>6. CASE RunUnit(g)
        BY <2>6, RunUnitHolds
    <2>7. CASE SkipLive(g)
        BY <2>7, SkipLiveHolds
    <2>8. CASE BeginLive(g)
        BY <2>8, BeginLiveHolds
    <2>9. CASE EndLive(g)
        BY <2>9, EndLiveHolds
    <2>10. CASE EndPlan(g)
        BY <2>10, EndPlanHolds
    <2>11. CASE StopPlan(g)
        BY <2>11, StopPlanHolds
    <2>12. CASE BeginDbStep(g)
        BY <2>12, BeginDbStepHolds
    <2>13. CASE EndDbStep(g)
        BY <2>13, EndDbStepHolds
    <2>14. CASE MeasureCycles(g) \/ MeasureDrive(g)
        BY <2>14, MeasureHolds
    <2>15. CASE Kill(g)
        BY <2>15, KillHolds
    <2> QED
        BY <1>1, <2>1, <2>2, <2>3, <2>4, <2>5, <2>6, <2>7, <2>8, <2>9, <2>10, <2>11, <2>12,
           <2>13, <2>14, <2>15 DEF Continue
<1> QED
    BY <1>1, StutterHolds DEF Next

(* What the runs check is an invariant for any number of gates. *)
LEMMA GatesKeep == Spec => []GInv
<1>1. Init => GInv
    BY InitHolds
<1>2. GInv /\ [Next]_vars => GInv'
    BY NextHolds
<1> QED
    BY <1>1, <1>2, PTL DEF Spec

-----------------------------------------------------------------------------
(* The schemas a job works on *)

(* The lock makes a gate's resets last; what a job needs of them is in place. *)
LEMMA DbStepFinds ==
    ASSUME GInv, NEW g \in Gates, gate[g].state = "running", IsDbStep(g),
           NEW s \in DOMAIN DbStep[Step(g)].wants
    PROVE  db[s] = DbStep[Step(g)].wants[s]
<1> DEFINE step == Step(g)  j == DbStep[step]
<1>1. step \in DbNames /\ Named(j, step)
    BY DbStepIs
<1>2. /\ InPlace(Kind(g), gate[g], db) /\ Orders(Kind(g), gate[g].at)
      /\ step = Script[Kind(g)][gate[g].at]
    BY Runs
<1> HIDE DEF j, step
<1>3. CASE step \in ResetSteps
    <2>1. j.wants = NoSchema
        BY <1>1, <1>3 DEF Named, IsDbJob, ResetSteps
    <2> QED
        BY <2>1 DEF NoSchema, On, j, step
<1>4. CASE step \in {"sp-operation", "sp-call", "viz", "call-integration"}
    <2>1. j.wants = On({"microflows"}, "product")
        BY <1>1, <1>4 DEF Named, IsDbJob
    <2>2. db["microflows"] = "product"
        BY <1>2, <1>4 DEF Orders, InPlace
    <2> QED
        BY <2>1, <2>2 DEF On, j, step
<1>5. CASE step = "cycles"
    <2>1. j.wants = On({"singular"}, "product")
        BY <1>1, <1>5 DEF Named, IsDbJob
    <2>2. db["singular"] = "product"
        BY <1>2, <1>5 DEF Orders, InPlace
    <2> QED
        BY <2>1, <2>2 DEF On, j, step
<1>6. CASE step \in {"harness", "drive"}
    <2>1. j.wants = CoordinatorSchemas
        BY <1>1, <1>6 DEF Named, IsDbJob
    <2>2. db["singular"] = "product" /\ db["microflows"] = "coordinator"
        BY <1>2, <1>6 DEF Orders, InPlace
    <2>3. /\ DOMAIN CoordinatorSchemas = {"singular", "microflows"}
          /\ CoordinatorSchemas["singular"] = "product"
          /\ CoordinatorSchemas["microflows"] = "coordinator"
        BY DEF CoordinatorSchemas
    <2> QED
        BY <2>1, <2>2, <2>3 DEF j, step
<1> QED
    BY <1>1, <1>3, <1>4, <1>5, <1>6 DEF DbNames, ResetSteps

(* A job of the root chain that is no reset comes after the resets it needs. *)
LEMMA ChainFinds ==
    ASSUME GInv, NEW g \in Gates, AtLive(g), Kind(g) = "root",
           NEW j \in Live("root"), j.id \notin gate[g].tried,
           gate[g].job = j,
           \A k \in Live("root") :
              k.group = j.group /\ k.order < j.order => k.id \in gate[g].tried,
           NEW s \in DOMAIN j.wants
    PROVE  db[s] = j.wants[s] \/ SpoiltBy(gate[g], s)
<1> DEFINE r == gate[g]
<1>1. InTheChain(r, db) /\ InOrder("root", r)
    BY Runs, LiveFacts DEF InPlace, StepsDone, AtLive
<1>2. PICK place \in Nat : \A k \in Live("root") :
          RootJob(k, place) /\ k.group = HeldKey /\ k.order \in Nat
    BY RootChain
<1>3. \A k, n : Named(k, n) => k.id = <<n>>
    BY DEF Named, IsDbJob
<1>4. \A n \in ResetSteps : \E k \in Live("root") : Named(k, n) /\ k.id = <<n>>
    BY <1>3, CombinedFacts, PlanIs, CombinedPlanIs DEF Live, ResetSteps
<1>5. CASE \E n \in ResetSteps : Named(j, n)
    <2>1. j.wants = NoSchema
        BY <1>5 DEF Named, IsDbJob, ResetSteps
    <2> QED
        BY <2>1 DEF NoSchema, On
<1>6. ASSUME 1 < j.order, j.id # Coordinator, j.id # <<"harness">>
      PROVE  /\ ~ Coordinating(r)
             /\ <<"reset-singular">> \in r.tried /\ <<"reset-microflows">> \in r.tried
    <2>1. ~ Coordinating(r)
        BY <1>1, <1>6 DEF InOrder
    <2>2. ASSUME NEW n \in {"reset-singular", "reset-microflows"}
          PROVE  <<n>> \in r.tried
        <3>1. PICK k \in Live("root") : Named(k, n) /\ k.id = <<n>>
            BY <1>4 DEF ResetSteps
        <3>2. k.order <= 1
            <4>1. /\ ~ Named(k, "reset-coordinator") /\ ~ Named(k, "harness")
                  /\ \A m \in {"sp-operation", "sp-call", "call-integration"} : ~ Named(k, m)
                BY <1>3, <3>1, IdsDiffer
            <4>2. ~ SingularJob(k) /\ ~ TestJob(k, MicroflowsLive)
                <5>1. SingularJob(k) \/ TestJob(k, MicroflowsLive) =>
                          \A a : k.id = <<a>> => a = "sp-invariants"
                    BY SingularReads, MicroflowsReads DEF Reader
                <5> QED
                    BY <3>1, <5>1
            <4> QED
                BY <1>2, <4>1, <4>2 DEF RootJob
        <3> QED
            BY <1>2, <1>6, <3>1, <3>2
    <2> QED
        BY <2>1, <2>2
<1>7. CASE SingularJob(j) \/ TestJob(j, MicroflowsLive)
    <2>1. /\ SingularJob(j) => Reader(j, {"singular", "malformed"}, SingularLive)
          /\ TestJob(j, MicroflowsLive) => Reader(j, {"microflows", "fixtures"}, MicroflowsLive)
        BY SingularReads, MicroflowsReads
    <2>2. \A a : j.id = <<a>> => a = "sp-invariants"
        BY <1>7, <2>1 DEF Reader
    <2>3. j.id # Coordinator /\ j.id # <<"harness">>
        BY <2>2 DEF Coordinator
    <2>4. \A n \in DbNames : ~ Named(j, n)
        BY <1>3, <2>2 DEF DbNames
    <2>5. 1 < j.order
        BY <1>2, <2>4 DEF RootJob, DbNames
    <2>6. \A x \in {"singular", "malformed", "microflows", "fixtures"} :
              db[x] = "product" \/ SpoiltBy(r, x)
        BY <1>1, <1>6, <2>3, <2>5 DEF InTheChain
    <2> QED
        BY <1>7, <2>1, <2>6 DEF Reader, Product
<1>8. CASE \E n \in {"sp-operation", "sp-call", "call-integration"} : Named(j, n)
    <2>1. PICK n \in {"sp-operation", "sp-call", "call-integration"} : Named(j, n)
        BY <1>8
    <2>2. j.id = <<n>> /\ j.wants = On({"microflows"}, "product")
        BY <2>1 DEF Named, IsDbJob
    <2>3. \A m : Named(j, m) => m = n
        BY <1>3, <2>2, IdsDiffer
    <2>4. j.id # Coordinator /\ j.id # <<"harness">>
        BY <2>2 DEF Coordinator
    <2>5. ~ Named(j, "reset-singular") /\ ~ Named(j, "reset-microflows")
          /\ ~ Named(j, "reset-coordinator") /\ ~ Named(j, "harness")
        BY <2>3
    <2>6. 1 < j.order
        BY <1>2, <2>5 DEF RootJob
    <2>7. db["microflows"] = "product" \/ SpoiltBy(r, "microflows")
        BY <1>1, <1>6, <2>4, <2>6 DEF InTheChain
    <2> QED
        BY <2>2, <2>7 DEF On
<1>9. CASE Named(j, "harness")
    <2>1. j.id = <<"harness">> /\ j.wants = CoordinatorSchemas
        BY <1>9 DEF Named, IsDbJob
    <2>2. PICK k \in Live("root") : Named(k, "reset-coordinator") /\ k.id = Coordinator
        BY <1>4 DEF ResetSteps, Coordinator
    <2>3. ~ SingularJob(j) /\ ~ TestJob(j, MicroflowsLive)
        <3>1. SingularJob(j) \/ TestJob(j, MicroflowsLive) =>
                  \A a : j.id = <<a>> => a = "sp-invariants"
            BY SingularReads, MicroflowsReads DEF Reader
        <3> QED
            BY <2>1, <3>1
    <2>4. \A m : Named(j, m) => m = "harness"
        BY <1>3, <2>1, IdsDiffer
    <2>5. j.order = place + 1
        BY <1>2, <2>3, <2>4 DEF RootJob
    <2>6. ~ SingularJob(k) /\ ~ TestJob(k, MicroflowsLive)
        <3>1. SingularJob(k) \/ TestJob(k, MicroflowsLive) =>
                  \A a : k.id = <<a>> => a = "sp-invariants"
            BY SingularReads, MicroflowsReads DEF Reader
        <3> QED
            BY <2>2, <3>1 DEF Coordinator
    <2>7. \A m : Named(k, m) => m = "reset-coordinator"
        BY <1>3, <2>2, IdsDiffer DEF Coordinator
    <2>8. k.order = place
        BY <1>2, <2>6, <2>7 DEF RootJob
    <2>9. Coordinator \in r.tried
        BY <1>2, <2>2, <2>5, <2>8
    <2>10. /\ db["singular"] = "product" \/ SpoiltBy(r, "singular")
           /\ db["microflows"] = "coordinator" \/ SpoiltBy(r, "microflows")
        BY <1>1, <2>9 DEF InTheChain
    <2>11. /\ DOMAIN CoordinatorSchemas = {"singular", "microflows"}
           /\ CoordinatorSchemas["singular"] = "product"
           /\ CoordinatorSchemas["microflows"] = "coordinator"
        BY DEF CoordinatorSchemas
    <2> QED
        BY <2>1, <2>10, <2>11
<1> QED
    BY <1>2, <1>5, <1>7, <1>8, <1>9 DEF RootJob, ResetSteps

LEMMA SchemasFit ==
    ASSUME GInv
    PROVE  RunsOnItsSchema
<1> SUFFICES ASSUME NEW g \in Gates, gate[g].job # NoJob, NEW s \in DOMAIN gate[g].job.wants
             PROVE  \/ db[s] = gate[g].job.wants[s]
                    \/ SpoiltBy(gate[g], s)
                    \/ Kind(g) = "direct" /\ (world.db[s] # "product" \/ Disturbed(s))
    BY DEF RunsOnItsSchema, Spoilt, SpoiltBy, Resets
<1> DEFINE r == gate[g]  kind == Kind(g)  j == r.job
<1>1. AtWork(kind, r)
    BY DEF GInv, RecordInv
<1>2. r.state = "running" /\ Step(g) = Script[kind][r.at]
    BY <1>1 DEF AtWork, Step
<1>3. InPlace(kind, r, db) /\ Orders(kind, r.at) /\ kind \in Kinds
    BY <1>2, Runs
<1>4. CASE Step(g) \in DOMAIN DbStep /\ j = DbStep[Step(g)]
    BY <1>2, <1>4, DbStepFinds DEF IsDbStep
<1>5. CASE /\ Step(g) = "live" /\ j \in Live(kind) /\ j.id \notin r.tried
           /\ \A k \in Live(kind) : k.group = j.group /\ k.order < j.order => k.id \in r.tried
    <2>1. LiveFits(kind, j)
        BY <1>3, <1>5, PlansFit DEF PlanFits
    <2>2. CASE kind = "root"
        BY <1>2, <1>5, <2>2, ChainFinds DEF AtLive
    <2>3. CASE kind = "singular"
        BY <1>2, <1>3, <1>5, <2>1, <2>3 DEF Orders, InPlace, LiveFits, Product
    <2>4. CASE kind = "microflows"
        BY <1>2, <1>3, <1>5, <2>1, <2>4 DEF Orders, InPlace, LiveFits, Product
    <2>5. CASE kind = "direct"
        <3>1. s \in {"singular", "malformed"} /\ j.wants[s] = "product"
            BY <2>1, <2>5 DEF LiveFits, Product
        <3>2. db[s] = world.db[s] \/ Disturbed(s)
            BY <3>1 DEF GInv, SchemasInv, Schemas
        <3> QED
            BY <2>5, <3>1, <3>2
    <2> QED
        BY <1>2, <1>3, <1>5, <2>2, <2>3, <2>4, <2>5 DEF Orders
<1> QED
    BY <1>1, <1>2, <1>4, <1>5 DEF AtWork

-----------------------------------------------------------------------------
(* The job that a step starts *)

(* The gate u starts no job. *)
StartsNone(u) == gate'[u].job \in {gate[u].job, NoJob}

LEMMA QuietJobs ==
    ASSUME GInv, NEW g \in Gates, NEW y, gate' = [gate EXCEPT ![g] = y],
           y.job \in {gate[g].job, NoJob}
    PROVE  \A u \in Gates : StartsNone(u)
<1>1. gate = [u \in Gates |-> gate[u]]
    BY DEF GInv
<1>2. gate'[g] = y /\ \A u \in Gates \ {g} : gate'[u] = gate[u]
    BY <1>1
<1> QED
    BY <1>2 DEF StartsNone

LEMMA EndingJobs ==
    ASSUME GInv, NEW g \in Gates, NEW x, IsRecord(x), Proceed(g, x) \/ Abort(g, x)
    PROVE  \A u \in Gates : StartsNone(u)
<1>1. CASE Proceed(g, x)
    <2>1. Advanced(x, Kind(g)).job = NoJob
        BY AdvancedFacts
    <2> QED
        BY <1>1, <2>1, QuietJobs DEF Proceed
<1>2. CASE Abort(g, x)
    <2>1. Aborted(x).job = NoJob
        BY AbortedFacts
    <2>2. gate' = [gate EXCEPT ![g] = Aborted(x)]
        BY <1>2 DEF Abort, Aborted
    <2> QED
        BY <2>1, <2>2, QuietJobs
<1> QED
    BY <1>1, <1>2

LEMMA StepsStartNone ==
    ASSUME GInv, NEW g \in Gates,
           \/ Start(g) \/ TakeLock(g) \/ TestRunner(g) \/ Emit(g) \/ RunBuild(g) \/ RunUnit(g)
           \/ SkipLive(g) \/ EndLive(g) \/ EndPlan(g) \/ StopPlan(g)
           \/ EndDbStep(g) \/ MeasureCycles(g) \/ MeasureDrive(g) \/ Kill(g)
    PROVE  \A u \in Gates : StartsNone(u)
<1> DEFINE r == gate[g]
<1>1. IsRecord(r)
    BY FieldsAre DEF GInv, RecordInv
<1>2. gate = [u \in Gates |-> gate[u]]
    BY DEF GInv
<1>3. \A ids, bad, skipped : /\ IsRecord(Attempted(r, ids, bad, skipped))
                             /\ Attempted(r, ids, bad, skipped).job = r.job
    BY <1>1, AttemptedFacts
<1>4. CASE Start(g)
    <2> DEFINE y == [r EXCEPT !.state = "running"]
    <2>1. gate' = [gate EXCEPT ![g] = y]
        BY <1>4 DEF Start
    <2>2. y.job = r.job
        BY <1>1 DEF IsRecord, GateFields
    <2> QED
        BY <2>1, <2>2, QuietJobs
<1>5. CASE TakeLock(g)
    <2>1. gate' = [gate EXCEPT ![g] = Advanced(r, Kind(g))]
        BY <1>5 DEF TakeLock
    <2>2. Advanced(r, Kind(g)).job = NoJob
        BY <1>1, AdvancedFacts
    <2> QED
        BY <2>1, <2>2, QuietJobs
<1>6. CASE TestRunner(g)
    <2>1. IsRecord(Built(r, <<"microflows-runner">>))
        BY <1>1, BuiltFacts
    <2>2. Proceed(g, Built(r, <<"microflows-runner">>)) \/ Abort(g, r)
        BY <1>6 DEF TestRunner, Built
    <2> QED
        BY <1>1, <2>1, <2>2, EndingJobs
<1>7. CASE Emit(g)
    BY <1>1, <1>7, EndingJobs DEF Emit
<1>8. CASE RunBuild(g)
    <2>1. \E ids, bad : Proceed(g, Attempted(r, ids, bad, {}))
        BY <1>8 DEF RunBuild
    <2> QED
        BY <1>3, <2>1, EndingJobs
<1>9. CASE RunUnit(g)
    <2>1. \E ids, bad, skipped : Proceed(g, Attempted(r, ids, bad, skipped))
        BY <1>9 DEF RunUnit
    <2> QED
        BY <1>3, <2>1, EndingJobs
<1>10. CASE SkipLive(g)
    <2>1. PICK ids : gate' = [gate EXCEPT ![g] = Attempted(r, ids, {}, ids)]
        BY <1>10 DEF SkipLive
    <2> QED
        BY <1>3, <2>1, QuietJobs
<1>11. CASE EndLive(g)
    <2>1. PICK x : IsRecord(x) /\ gate' = [gate EXCEPT ![g] = AtJob(x, NoJob)]
        BY <1>3, <1>11 DEF EndLive, AtJob
    <2>2. AtJob(x, NoJob).job = NoJob
        BY <2>1, AtJobFacts
    <2> QED
        BY <2>1, <2>2, QuietJobs
<1>12. CASE EndPlan(g)
    BY <1>1, <1>12, EndingJobs DEF EndPlan
<1>13. CASE StopPlan(g)
    BY <1>1, <1>13, EndingJobs DEF StopPlan
<1>14. CASE EndDbStep(g)
    <2>1. \E ids, bad, skipped : \/ Proceed(g, Attempted(r, ids, bad, skipped))
                                 \/ Abort(g, Attempted(r, ids, bad, skipped))
        BY <1>14 DEF EndDbStep
    <2> QED
        BY <1>3, <2>1, EndingJobs
<1>15. CASE MeasureCycles(g) \/ MeasureDrive(g)
    <2>1. PICK suite : Broke(g, suite) \/ \E c \in Costs : Judge(g, suite, c)
        BY <1>15 DEF MeasureCycles, MeasureDrive
    <2>2. CASE Broke(g, suite)
        BY <1>3, <2>2, EndingJobs DEF Broke
    <2>3. CASE \E c \in Costs : Judge(g, suite, c)
        <3>1. PICK c : Judge(g, suite, c)
            BY <2>3
        <3>2. Proceed(g, Measured(g, suite, c)) \/ Abort(g, Measured(g, suite, c))
            BY <3>1 DEF Judge, Measured, Costing
        <3>3. IsRecord(Measured(g, suite, c))
            BY <1>3, CostingFacts DEF Measured
        <3> QED
            BY <3>2, <3>3, EndingJobs
    <2> QED
        BY <2>1, <2>2, <2>3
<1>16. CASE Kill(g)
    <2>1. gate' = [gate EXCEPT ![g] = Dead(r)]
        BY <1>2, <1>16 DEF Kill, Dead
    <2>2. Dead(r).job = NoJob
        BY <1>1, DeadFacts
    <2> QED
        BY <2>1, <2>2, QuietJobs
<1> QED
    BY <1>4, <1>5, <1>6, <1>7, <1>8, <1>9, <1>10, <1>11, <1>12, <1>13, <1>14, <1>15, <1>16

(* What the gate u leaves when it starts job, none of its rows is there before. *)
Fresh(u, job) == Leaves(u, job) \cap {row \in rows : row[1] \notin DOMAIN job.gives} = {}

LEMMA StartedJobsAreFresh ==
    ASSUME GInv, NEW g \in Gates, BeginLive(g) \/ BeginDbStep(g)
    PROVE  \A u \in Gates : StartsNone(u) \/ Fresh(u, gate'[u].job)
<1> DEFINE r == gate[g]
<1>1. r.state = "running" /\ r.job = NoJob
    BY DEF BeginLive, BeginDbStep, At
<1>2. IsRecord(r) /\ Kind(g) \in Kinds
    BY <1>1, Runs
<1>3. gate = [u \in Gates |-> gate[u]]
    BY DEF GInv
<1>4. ASSUME NEW j, BeginJob(g, j), Fresh(g, j)
      PROVE  \A u \in Gates : StartsNone(u) \/ Fresh(u, gate'[u].job)
    <2>1. gate' = [gate EXCEPT ![g] = AtJob(r, j)]
        BY <1>3, <1>4 DEF BeginJob, AtJob
    <2>2. AtJob(r, j).job = j
        BY <1>2, AtJobFacts
    <2>3. gate'[g].job = j /\ \A u \in Gates \ {g} : gate'[u] = gate[u]
        BY <1>3, <2>1, <2>2
    <2> QED
        BY <1>4, <2>3 DEF StartsNone
<1>5. CASE BeginLive(g)
    <2>1. PICK j \in Ready(g) : BeginJob(g, j)
        BY <1>5 DEF BeginLive
    <2>2. j \in Live(Kind(g)) /\ j.id \notin r.tried
        BY <2>1 DEF Ready, Live
    <2>3. LiveFits(Kind(g), j)
        BY <1>2, <2>2, PlansFit DEF PlanFits
    <2>4. ASSUME NEW row \in Leaves(g, j), row \in rows
          PROVE  FALSE
        <3>1. PICK s : j.lane # "none" /\ row = <<s, j.id[1], <<g, j.lane>>>>
            BY <2>4 DEF Leaves, Namespace
        <3>2. PICK t : j.id = <<t, "run", j.lane>>
            BY <2>3, <3>1 DEF LiveFits
        <3>3. row = <<s, t, <<g, j.lane>>>>
            BY <3>1, <3>2
        <3>4. PICK s1, t1, l1 : \E u \in Gates : LeftBy(row, s1, t1, l1, u, gate[u])
            BY <2>4 DEF GInv, RowsInv
        <3>5. PICK u \in Gates : LeftBy(row, s1, t1, l1, u, gate[u])
            BY <3>4
        <3>6. u = g /\ t1 = t /\ l1 = j.lane
            BY <3>3, <3>5 DEF LeftBy
        <3>7. <<t, "run", j.lane>> \in r.tried \/ r.job.id = <<t, "run", j.lane>>
            BY <1>1, <3>5, <3>6 DEF LeftBy
        <3> QED
            BY <1>1, <2>2, <3>2, <3>7, NothingAtWork
    <2>5. Fresh(g, j)
        BY <2>4 DEF Fresh
    <2> QED
        BY <1>4, <2>1, <2>5
<1>6. CASE BeginDbStep(g)
    <2>1. IsDbStep(g) /\ BeginJob(g, DbStep[Step(g)])
        BY <1>6 DEF BeginDbStep
    <2>2. DbStep[Step(g)].lane = "none"
        BY <1>1, <2>1, DbStepIs, NamedFacts
    <2>3. Fresh(g, DbStep[Step(g)])
        BY <2>2 DEF Fresh, Leaves
    <2> QED
        BY <1>4, <2>1, <2>3
<1> QED
    BY <1>5, <1>6

LEMMA RowsAreFresh ==
    ASSUME GInv, [Next]_vars
    PROVE  [\A g \in Gates :
              gate'[g].job # gate[g].job /\ gate'[g].job # NoJob
                 => Leaves(g, gate'[g].job)
                      \cap {r \in rows : r[1] \notin DOMAIN gate'[g].job.gives} = {}]_vars
<1>1. ASSUME Next
      PROVE  \A u \in Gates : StartsNone(u) \/ Fresh(u, gate'[u].job)
    <2>1. PICK g \in Gates : Start(g) \/ Continue(g) \/ Kill(g)
        BY <1>1 DEF Next
    <2>2. CASE BeginLive(g) \/ BeginDbStep(g)
        BY <2>2, StartedJobsAreFresh
    <2>3. CASE ~ (BeginLive(g) \/ BeginDbStep(g))
        BY <2>1, <2>3, StepsStartNone DEF Continue
    <2> QED
        BY <2>2, <2>3
<1>2. CASE Next
    BY <1>1, <1>2 DEF StartsNone, Fresh
<1> QED
    BY <1>2

-----------------------------------------------------------------------------
(* For any number of gates of any kinds, any tests, costs, faults and kills. *)

LEMMA GatesAreTyped ==
    ASSUME GInv
    PROVE  GatesTypeOK
<1>1. db \in [Schemas -> Shapes]
    BY DEF GInv, SchemasInv
<1>2. baseline \in [Suites -> Baselines]
    <2>1. \A t \in Suites : baseline[t] \in Baselines
        BY DEF GInv, BaselineInv
    <2>2. baseline = [t \in Suites |-> baseline[t]]
        BY DEF GInv
    <2> QED
        BY <2>1, <2>2
<1>3. /\ DOMAIN key = {DbLock, SharedKey, HeldKey}
      /\ \A k \in DOMAIN key :
            key[k] \in {g \in Gates : gate[g].state = "running"} \cup {NoGate}
    BY DEF GInv, LocksInv, Keys
<1>4. ASSUME NEW g \in Gates
      PROVE  /\ gate[g].state \in {"idle", "running", "passed", "failed", "killed"}
             /\ gate[g].at \in 1..Len(Script[Kind(g)])
             /\ gate[g].ran \cup gate[g].faults \subseteq gate[g].tried
             /\ gate[g].cost \in Costs \cup {0}
    <2>1. Fields(Kind(g), gate[g])
        BY DEF GInv, RecordInv
    <2> QED
        BY <2>1 DEF Fields
<1> QED
    BY <1>1, <1>2, <1>3, <1>4 DEF GatesTypeOK

(* Every variable keeps its type, a lock is held by a gate that runs, and a  *)
(* job is attempted before it counts as run.                                 *)
THEOREM GatesKeepTheirTypes == Spec => []GatesTypeOK
<1>1. GInv => GatesTypeOK
    BY GatesAreTyped
<1> QED
    BY <1>1, GatesKeep, PTL

(* Whatever gates run beside it, direct runs among them, a job of a recipe   *)
(* works on the schemas it was written for, and its own gate has put them in *)
(* place before: the shared lock of the recipes and the order of the         *)
(* combined chain.  A direct run, which takes another lock, works on what it *)
(* found until a recipe that resets the schema gets the lock, and no longer. *)
THEOREM JobsRunOnTheirSchemas == Spec => []RunsOnItsSchema
<1>1. GInv => RunsOnItsSchema
    BY SchemasFit
<1> QED
    BY <1>1, GatesKeep, PTL

(* A gate passes only when every test it is there for ran without a fault,   *)
(* and a performance gate only against a cost recorded by hand; a gate fails *)
(* only when something it checks is wrong.                                   *)
THEOREM OutcomesAreEarned == Spec => []OutcomeIsEarned
<1>1. GInv => OutcomeIsEarned
    BY DEF GInv
<1> QED
    BY <1>1, GatesKeep, PTL

(* A live test never meets rows that the same test has left in its           *)
(* namespace: what tells the lanes and the invocations apart is enough.      *)
THEOREM NamespacesStayVirgin == Spec => NamespacesAreVirgin
<1>1. GInv /\ [Next]_vars =>
          [\A g \in Gates :
              gate'[g].job # gate[g].job /\ gate'[g].job # NoJob
                 => Leaves(g, gate'[g].job)
                      \cap {r \in rows : r[1] \notin DOMAIN gate'[g].job.gives} = {}]_vars
    BY RowsAreFresh
<1> QED
    BY <1>1, GatesKeep, PTL DEF Spec, NamespacesAreVirgin

=============================================================================
