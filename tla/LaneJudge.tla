------------------------------ MODULE LaneJudge ------------------------------
(***************************************************************************)
(* From the evidence of a lane's cases to its verdict, against a subject    *)
(* that is the reference subject, possibly spoilt to fail one gate in some  *)
(* of the cases, or a production Core, scheduler, server or persistent      *)
(* runtime driven by the lane's own runner.                                 *)
(*                                                                         *)
(* A job says which lane is run, on which cases, and what the subject gets  *)
(* wrong.  Transport and collectors are EvidenceLane's; here a case is its  *)
(* steps, its closing and its analysis.                                     *)
(***************************************************************************)
EXTENDS NativeLanes, ProductionCases, PersistenceFault

CONSTANTS
    FixtureLanes,    \* the lanes the reference subject runs
    Parameters(_),   \* per lane: the parameters its cases can have
    CaseCounts(_),   \* per lane: how many cases the reference subject gets
    SpoiltSets(_),   \* of n cases: the sets of cases it may spoil
    ModelCounts,     \* runnable_models of the scheduler Snapshots
    ClientViews,     \* what a Data Plane client saw: lifecycle and outputs
    Traces,          \* what the production trace says: the same
    FfiPlans,        \* orders of the C++ Direct cases: a key and a boundary each
    ReceiptLists     \* receipts of a cross-model production trace

VARIABLES
    job,         \* lane, boundary, cases and the subject's defect
    phase,       \* open, oracle, steps, close, metrics, done
    case,        \* index of the current case
    step,        \* operations done in this case
    records,     \* the raw records of this case
    executions,  \* the Core's executions in this case
    baselines,   \* C++ Direct results by key
    observed,    \* observations of the cases so far
    artifact,    \* artifact_by_id, for the lane's required artifact
    failed,      \* IDs of the failed gates
    status       \* running, passed, gate_failed, refused, unsupported,
                 \* environment_unavailable

jvars == <<job, phase, case, step, records, executions, baselines, observed, artifact, failed,
           status>>
judgeVars == <<jvars, fvars>>

\* How many operations the lane's suite has.
OperationsOf(lane) ==
    CASE lane \in {"certification-envelopes", "observability-qualification"} -> 4
      [] lane \in {"mlx-native-correctness", "persistence-and-recovery",
                   "protocol-and-owner-lifecycle", "residency-and-memory-governor"} -> 3
      [] lane = "scheduler-performance" -> 1
      [] OTHER -> 2

\* Where the reference subject departs from its protocol, beside its record,
\* or the frozen thresholds from the lane's gates.
Quirks == {"none", "no_record", "two_records", "malformed_record", "close_observations",
           "no_artifact", "reused_artifact", "other_thresholds"}

FixtureJobs ==
    UNION {UNION {[lane : {lane}, boundary : {"fixture"}, cases : [1..n -> Parameters(lane)],
                   gate : {g.id : g \in Gates(lane)}, spoilt : SpoiltSets(n), quirk : {"none"}]
                  : n \in CaseCounts(lane)}
           \cup [lane : {lane}, boundary : {"fixture"},
                 cases : {[i \in 1..2 |-> CHOOSE p \in Parameters(lane) : TRUE]},
                 gate : {"none"}, spoilt : {{}},
                 quirk : {q \in Quirks : q = "two_records" => OperationsOf(lane) > 1}]
           : lane \in FixtureLanes}

CoreJobs ==
    [lane : {"core-event-replay"}, boundary : {"core"},
     cases : [1..1 -> [result : CoreResults, sequence_relation : CoreRelations]],
     defect : CoreDefects]

\* Wrong plans, or a measurement outside its contract.
PlanDefects == {"first_candidate", "ignores_urgency"}
MeasurementDefects == {"other_input", "reordered", "lost_plan", "debug_build", "no_warmup",
                       "few_iterations", "wall_clock", "with_transport", "lost_samples",
                       "more_operations"}
SchedulerDefects == {"none"} \cup PlanDefects \cup MeasurementDefects

SchedulerJobs ==
    [lane : {"scheduler-performance"}, boundary : {"scheduler"},
     cases : [1..1 -> [runnable_models : ModelCounts, urgency_mix : {"none", "mixed"},
                       resource_mode : {"normal", "guarded", "stop_admission", "critical"}]],
     defect : SchedulerDefects]

RequestJobs ==
    [lane : {"request-serving-lifecycle"}, boundary : {"request"},
     cases : {<<[client_event |-> "none"]>>},
     direct : ClientViews, trace : Traces]

PersistenceJobs ==
    [lane : {"persistence-and-recovery"}, boundary : {"persistence"},
     cases : [1..1 -> [fault : Faults]], staged : Stages]

\* A native lane: what is wrong, and in which cases.
MlxJobs ==
    [lane : {"mlx-native-correctness"}, boundary : {"mlx"},
     cases : {<<[key |-> "a"], [key |-> "b"]>>},
     defect : {"none"} \cup MlxOracleDefects \cup MlxCandidateDefects, spoilt : SUBSET (1..2),
     inputs : BOOLEAN]    \* are the external inputs of the oracle there?

FfiJobs ==
    UNION {[lane : {"bounded-turn-and-ffi"}, boundary : {"ffi"}, cases : {plan},
            defect : {"none"} \cup FfiOracleDefects \cup FfiCandidateDefects,
            spoilt : SUBSET DOMAIN plan, inputs : BOOLEAN] : plan \in FfiPlans}

\* What the subject claims of the gate is right or wrong; what the benchmark
\* collected is another matter.
CollectedGate(lane) ==
    IF lane = "residency-and-memory-governor" THEN "peak-memory-bound" ELSE "instruments-capture"

CollectedJobs ==
    UNION {[lane : {lane}, boundary : {"collected"}, cases : [1..1 -> Parameters(lane)],
            gate : {"none", CollectedGate(lane)}, collected : Collections(lane)]
           : lane \in {"residency-and-memory-governor", "observability-qualification"}}

SharedJobs ==
    [lane : {"cross-model-serving"}, boundary : {"shared"},
     cases : [1..1 -> Parameters("cross-model-serving")],
     observed : {"same", "different"}, receipts : ReceiptLists]

JudgeInit ==
    /\ job \in FixtureJobs \cup CoreJobs \cup SchedulerJobs \cup RequestJobs \cup PersistenceJobs
               \cup MlxJobs \cup FfiJobs \cup CollectedJobs \cup SharedJobs
    /\ phase = "open" /\ case = 1 /\ step = 0 /\ records = <<>> /\ executions = <<>>
    /\ baselines = <<>> /\ observed = <<>> /\ artifact = "none" /\ failed = {} /\ status = "running"
    /\ FaultIdle

Par == job.cases[case]
End(how) == phase' = "done" /\ status' = how
Refuse == End("refused")
NextCase == IF case = Len(job.cases) THEN phase' = "metrics" /\ UNCHANGED case
            ELSE phase' = "open" /\ case' = case + 1

-----------------------------------------------------------------------------
(* The steps of a case *)

case_open ==
    /\ phase = "open" /\ job.boundary \notin {"mlx", "ffi"}
    /\ phase' = "steps" /\ step' = 0 /\ records' = <<>> /\ executions' = <<>>
    /\ UNCHANGED <<job, case, baselines, observed, artifact, failed, status, fvars>>

\* The reference subject gives its record with the first step it is asked.
FixtureStep ==
    /\ phase = "steps" /\ job.boundary = "fixture" /\ step < OperationsOf(job.lane)
    /\ step' = step + 1
    /\ records' =
          LET record == IF job.quirk = "malformed_record" THEN Malformed
                        ELSE SubjectRecord(job.lane, Par, job.gate, case \in job.spoilt)
          IN  IF \/ step = 0 /\ job.quirk # "no_record"
                 \/ step = 1 /\ job.quirk = "two_records"
              THEN Append(records, record) ELSE records
    /\ phase' = IF step' = OperationsOf(job.lane) THEN "close" ELSE phase
    /\ UNCHANGED <<job, case, executions, baselines, observed, artifact, failed, status, fvars>>

\* replay-event-stream, then replay-identical-stream.
CoreStep ==
    /\ phase = "steps" /\ job.boundary = "core"
    /\ LET in == _core_event_case_input(Par)
           from == IF step = 0 THEN in.initial_state ELSE ReplayFrom(job.defect, in, executions[1])
           x == Execution(job.defect, from, in)
       IN  /\ step' = step + 1 /\ executions' = Append(executions, x)
           /\ \/ execution_refused(x) /\ Refuse /\ UNCHANGED records
              \/ /\ ~execution_refused(x) /\ step = 0
                 /\ UNCHANGED <<phase, status, records>>
              \/ /\ ~execution_refused(x) /\ step = 1 /\ phase' = "close" /\ UNCHANGED status
                 /\ records' = <<core_record(executions', in)>>
    /\ UNCHANGED <<job, case, baselines, observed, artifact, failed, fvars>>

\* What a scheduler Core with a defect returns for measure-release-core.
Measurement(defect, par) ==
    LET expected == _scheduler_performance_case_input(par)
        admits == par.resource_mode \in {"normal", "guarded"}
        n == IF defect = "few_iterations" THEN MinIterations - 1 ELSE MinIterations
    IN  [input |-> IF defect = "other_input" THEN "other" ELSE "benchmark",
         snapshots |-> IF defect = "reordered" THEN <<1, 0, 2, 3>> ELSE <<0, 1, 2, 3>>,
         plans |-> CASE defect = "first_candidate" -> [s \in 1..4 |-> IF admits THEN 0 ELSE NoPlan]
                     [] defect = "ignores_urgency" ->
                            _scheduler_performance_case_input([par EXCEPT !.urgency_mix = "none"])
                     [] defect = "lost_plan" -> Front(expected)
                     [] OTHER -> expected,
         warmup_iterations |-> IF defect = "no_warmup" THEN 0 ELSE Warmup,
         timer |-> IF defect = "wall_clock" THEN "wall" ELSE "monotonic",
         measured_region |-> IF defect = "with_transport" THEN "transport" ELSE "scheduler_core_only",
         build_mode |-> IF defect = "debug_build" THEN "debug" ELSE "release",
         iterations |-> n,
         latency |-> [i \in 1..(IF defect = "lost_samples" THEN n - 1 ELSE n) |-> 10],
         operations |-> IF defect = "more_operations" THEN n + 1 ELSE n,
         seconds |-> 1, driver_ipc |-> FALSE]

SchedulerStep ==
    /\ phase = "steps" /\ job.boundary = "scheduler" /\ step' = step + 1
    /\ LET m == Measurement(job.defect, Par)
       IN  \/ measurement_refused(m) /\ Refuse /\ UNCHANGED records
           \/ /\ ~measurement_refused(m) /\ phase' = "close" /\ UNCHANGED status
              /\ records' = <<performance_record(m, _scheduler_performance_case_input(Par))>>
    /\ UNCHANGED <<job, case, executions, baselines, observed, artifact, failed, fvars>>

\* prepare-data-plane-case, the client's request, collect-production-trace.
RequestStep ==
    /\ phase = "steps" /\ job.boundary = "request" /\ step' = 2
    /\ \/ trace_refused(job.direct, job.trace) /\ Refuse /\ UNCHANGED records
       \/ /\ ~trace_refused(job.direct, job.trace) /\ phase' = "close" /\ UNCHANGED status
          /\ records' = <<merge_production_trace(Par, job.direct, job.trace)>>
    /\ UNCHANGED <<job, case, executions, baselines, observed, artifact, failed, fvars>>

\* stage-runtime-root, then the fault.
StageStep ==
    /\ phase = "steps" /\ job.boundary = "persistence" /\ step = 0 /\ step' = 1
    /\ StageRuntime(Par.fault, job.staged)
    /\ UNCHANGED <<job, phase, case, records, executions, baselines, observed, artifact, failed,
                   status>>

InjectStep == phase = "steps" /\ step = 1 /\ Inject /\ UNCHANGED jvars
WorldStep == phase = "steps" /\ step = 1 /\ World /\ UNCHANGED jvars

\* observe-benchmark-fault is acknowledged or not; restart-and-inspect gives
\* the record.
RecoverStep ==
    /\ phase = "steps" /\ job.boundary = "persistence" /\ step = 1
    /\ fpc \in {"returned", "raised"}
    /\ \/ Refuse /\ UNCHANGED <<step, records>>
       \/ /\ fpc = "returned" /\ step' = 3 /\ phase' = "close" /\ UNCHANGED status
          /\ records' = <<SubjectRecord(job.lane, Par, "none", FALSE)>>
    /\ UNCHANGED <<job, case, executions, baselines, observed, artifact, failed, fvars>>

\* The steps, with the sampler or xctrace beside them.
CollectedStep ==
    /\ phase = "steps" /\ job.boundary = "collected" /\ step' = OperationsOf(job.lane)
    /\ \/ job.collected = "unavailable" /\ End("environment_unavailable") /\ UNCHANGED records
       \/ collection_refused(job.collected) /\ Refuse /\ UNCHANGED records
       \/ /\ job.collected # "unavailable" /\ ~collection_refused(job.collected)
          /\ phase' = "close" /\ UNCHANGED status
          /\ records' = <<collected_record(job.lane, job.collected,
                              SubjectRecord(job.lane, Par, job.gate, job.gate # "none"))>>
    /\ UNCHANGED <<job, case, executions, baselines, observed, artifact, failed, fvars>>

\* prepare-data-plane-case, the concurrent requests, collect-production-trace.
SharedStep ==
    /\ phase = "steps" /\ job.boundary = "shared" /\ step' = 2
    /\ \/ receipts_refused(job.receipts) /\ Refuse /\ UNCHANGED records
       \/ /\ ~receipts_refused(job.receipts) /\ phase' = "close" /\ UNCHANGED status
          /\ records' = <<merge_receipts([ServingRecord(Par) EXCEPT !.outputs = <<Pair(job.observed)>>],
                                         job.receipts)>>
    /\ UNCHANGED <<job, case, executions, baselines, observed, artifact, failed, fvars>>

-----------------------------------------------------------------------------
(* The native lanes: a case is run, compared and counted by the runner *)

Defect == IF case \in job.spoilt THEN job.defect ELSE "none"

\* The lane's artifacts are the runner's own.
Compared(observations) ==
    observed' = Append(observed, observations) /\ artifact' = "first" /\ NextCase /\ UNCHANGED status

\* The oracle is started, if its inputs are there.
StartOracle ==
    /\ phase = "open" /\ job.boundary = "mlx"
    /\ \/ ~job.inputs /\ End("environment_unavailable")
       \/ job.inputs /\ phase' = "oracle" /\ UNCHANGED status
    /\ UNCHANGED <<job, case, step, records, executions, baselines, observed, artifact, failed, fvars>>

\* The oracle's process has ended, which nothing bounds; then the candidate's
\* case.
MlxStep ==
    /\ phase = "oracle" /\ Defect # "oracle_hangs"
    /\ LET c == MlxCandidate(Defect, Par.key)
           ran == Defect \notin MlxOracleDefects
           over == UNCHANGED <<case, observed, artifact>>
       IN  \/ Defect = "oracle_fails" /\ End("environment_unavailable") /\ over
           \/ Defect = "oracle_diagnostic" /\ Refuse /\ over
           \/ ran /\ c.open_status # "ready" /\ End(c.open_status) /\ over
           \/ ran /\ c.open_status = "ready" /\ mlx_refused(c) /\ Refuse /\ over
           \/ /\ ran /\ c.open_status = "ready" /\ ~mlx_refused(c)
              /\ Compared(mlx_comparison(c, Par.key))
    /\ UNCHANGED <<job, step, records, executions, baselines, failed, fvars>>

\* A C++ Direct case, run with a deadline: its result is the baseline of its key.
FfiOracleStep ==
    /\ phase = "open" /\ job.boundary = "ffi" /\ job.inputs /\ Par.boundary = "cpp_direct_oracle"
    /\ LET o == OracleOutput(Defect, Par.key)
           ran == Defect \notin {"oracle_fails", "oracle_hangs"}
           refused == oracle_refused(o) \/ Par.key \in DOMAIN baselines
           over == UNCHANGED <<case, baselines>>
       IN  \/ ~ran /\ End("environment_unavailable") /\ over
           \/ ran /\ refused /\ Refuse /\ over
           \/ /\ ran /\ ~refused /\ NextCase /\ UNCHANGED status
              /\ baselines' = [k \in DOMAIN baselines \cup {Par.key} |->
                                  IF k = Par.key THEN o ELSE baselines[k]]
    /\ UNCHANGED <<job, step, records, executions, observed, artifact, failed, fvars>>

\* Without the build, the models or the source there is no case to run.
FfiUnavailable ==
    /\ phase = "open" /\ job.boundary = "ffi" /\ ~job.inputs /\ End("environment_unavailable")
    /\ UNCHANGED <<job, case, step, records, executions, baselines, observed, artifact, failed, fvars>>

\* A candidate: judged against the baseline of its key.
FfiCandidateStep ==
    /\ phase = "open" /\ job.boundary = "ffi" /\ job.inputs
    /\ Par.boundary = "implementation_candidate"
    /\ LET c == FfiCandidate(Defect, Par.key)
           paired == Par.key \in DOMAIN baselines
           refused == IF paired THEN ffi_refused(c, baselines[Par.key]) ELSE TRUE
           over == UNCHANGED <<case, observed, artifact>>
       IN  \/ paired /\ c.open_status # "ready" /\ End(c.open_status) /\ over
           \/ (paired => c.open_status = "ready") /\ refused /\ Refuse /\ over
           \/ /\ paired /\ c.open_status = "ready" /\ ~refused
              /\ Compared(ffi_comparison(c, baselines[Par.key]))
    /\ UNCHANGED <<job, step, records, executions, baselines, failed, fvars>>

-----------------------------------------------------------------------------
(* Analysis *)

\* Exactly one record across the steps of a case.
_record_refused(rs) == Len(rs) # 1

\* The evidence for the required artifact that case_close declares: with the
\* first case, and not again.
Declared ==
    CASE job.boundary = "fixture" /\ job.quirk = "no_artifact" -> "none"
      [] job.boundary = "fixture" /\ job.quirk = "reused_artifact" /\ case > 1 -> "other"
      [] OTHER -> IF case = 1 THEN "first" ELSE "none"

case_close ==
    /\ phase = "close"
    /\ LET refused == IF _record_refused(records) THEN TRUE
                      ELSE \/ job.boundary = "fixture" /\ job.quirk = "close_observations"
                           \/ Refused(job.lane, Par, records[1])
                           \/ artifact # "none" /\ Declared \notin {"none", artifact}
       IN  \/ refused /\ Refuse /\ UNCHANGED <<case, observed, artifact>>
           \/ /\ ~refused /\ UNCHANGED status
              /\ observed' = Append(observed, analyze_lane_evidence(job.lane, Par, records[1]))
              /\ artifact' = IF Declared = "none" THEN artifact ELSE Declared
              /\ NextCase
    /\ UNCHANGED <<job, step, records, executions, baselines, failed, fvars>>

\* The thresholds in the lane's context.
Frozen == {g.id : g \in Gates(job.lane)}
          \ IF job.quirk = "other_thresholds" THEN {CHOOSE id \in {g.id : g \in Gates(job.lane)} : TRUE}
            ELSE {}

\* The required artifacts, the reducers, the gates and the verdict.
Judge ==
    /\ phase = "metrics"
    /\ LET refused == \/ artifact = "none"
                      \/ job.boundary = "fixture" /\ thresholds_refused(job.lane, Frozen)
                      \/ job.boundary = "ffi" /\ pairing_incomplete(baselines, case, Len(job.cases))
                      \/ \E g \in Gates(job.lane) :
                            Unreducible(g.reducer, Values(observed, g.source))
       IN  \/ refused /\ Refuse /\ UNCHANGED failed
           \/ /\ ~refused /\ phase' = "done"
              /\ failed' = evaluate_gates(job.lane, observed)
              /\ status' = IF failed' = {} THEN "passed" ELSE "gate_failed"
    /\ UNCHANGED <<job, case, step, records, executions, baselines, observed, artifact, fvars>>

BenchmarkNext ==
    \/ case_open \/ FixtureStep \/ CoreStep \/ SchedulerStep \/ RequestStep
    \/ StageStep \/ InjectStep \/ RecoverStep \/ CollectedStep \/ SharedStep
    \/ StartOracle \/ MlxStep \/ FfiUnavailable \/ FfiOracleStep \/ FfiCandidateStep \/ case_close \/ Judge

\* A read or a ps of the injection never returns.
BlockStep == phase = "steps" /\ step = 1 /\ FaultBlocks /\ UNCHANGED jvars

JudgeNext == BenchmarkNext \/ WorldStep \/ BlockStep

\* The benchmark goes on: subjects answer within their deadlines or end the
\* lane (EvidenceLane).  Its own waits have deadlines, save the one for the MLX
\* oracle (StartOracle without MlxStep) and the reads and ps of a fault
\* (FaultBlocks).
JudgeSpec == JudgeInit /\ [][JudgeNext]_judgeVars /\ WF_judgeVars(BenchmarkNext)

-----------------------------------------------------------------------------
(* Properties *)

Done == phase = "done"
AllCases == 1..Len(job.cases)

\* In which cases the reference subject's defect for a gate is one: a shared
\* turn may start and nothing is recertified where the record applies.
Biting == {i \in job.spoilt : job.gate \in {"uncertified-start", "explicit-recertification"}
                              => ~expected_applicable(job.cases[i])}

\* A shared turn without an applicable record is also a wrong admission, and
\* the two calibration gates read the same samples.
WithOthers(gate) ==
    CASE gate = "uncertified-start" -> {gate, "applicability-exact"}
      [] gate \in {"calibration-median", "calibration-p95"} -> {"calibration-median", "calibration-p95"}
      [] OTHER -> {gate}

\* The cases with something wrong for gate g.
WrongFor(g) == IF g.id \in WithOthers(job.gate) THEN Biting ELSE {}

Rank == [p50 |-> 50, p95 |-> 95, p99 |-> 99]
Ranked(g) == g.reducer \in DOMAIN Rank
OverLimit(g, i) == Count(observed[i][g.source], LAMBDA x : x > g.expected)

\* What a good case has over the frozen rate, and what a spoilt one lacks of it.
Surplus(gate) == IF gate = "decision-throughput" THEN 9990 ELSE 900
Deficit == 1000

\* When a gate fails: a percentile tolerates the samples over the limit that
\* rank above it, in whichever cases they are; a rate is over all cases
\* together, and good ones make up for others; a sum, a maximum, a minimum and
\* an any tolerate nothing.
Fails(g) ==
    CASE Ranked(g) ->
            100 * Total([i \in AllCases |-> OverLimit(g, i)])
            > (100 - Rank[g.reducer]) * (Total([i \in AllCases |-> Len(observed[i][g.source])]) - 1)
      [] g.reducer = "rate" ->
            Deficit * Cardinality(WrongFor(g)) > Surplus(g.id) * Cardinality(AllCases \ WrongFor(g))
      [] OTHER -> WrongFor(g) # {}

\* A case's samples are over a limit exactly if the subject spoilt that case for
\* that gate, and over all cases each gate fails exactly when its reducer does
\* not tolerate what is wrong: with the expectation's 36 cases calibration-p95
\* passes with one spoilt case and fails with two.  A case without exactly one
\* well-formed record, or with observations of the subject's own, is refused,
\* and so is a lane whose artifact is missing or declared again as another, or
\* whose thresholds are not those of its gates.
\* Code: the analyzers, reduce_observations, _percentile, evaluate_gates, _record.
GatesAreExact ==
    Done /\ job.boundary = "fixture" =>
        /\ (status = "refused") = (job.quirk # "none")
        /\ status # "refused" =>
              /\ \A g \in Gates(job.lane), i \in AllCases :
                    Ranked(g) => (OverLimit(g, i) > 0) = (i \in WrongFor(g))
              /\ failed = {g.id : g \in {h \in Gates(job.lane) : Fails(h)}}

\* What a Core without a defect does on this case.
Faithful == LET in == _core_event_case_input(Par) IN Execution("none", in.initial_state, in)

\* A Core passes only if both replays are what a faithful Core does, or if the
\* first committed nothing and published nothing.
\* Code: _normalize_core_execution, CoreEventReplayLaneRunner, core_event_replay.
CorePassIsFaithful ==
    /\ status = "passed" => \/ executions = <<Faithful, Faithful>>
                            \/ /\ ~executions[1].transition_committed
                               /\ executions[1].published_effects = <<>>
    /\ job.defect = "none" => status = "passed"

Policy == INSTANCE SchedulerOracle
    WITH Models <- 1..Max(ModelCounts), MaxCharge <- 1,
         Weights <- [m \in 1..Max(ModelCounts) |-> 1], Scale <- 1

\* The policy numbers models from 1, and 0 is no model.
PolicyPlan(snap) ==
    LET n == Par.runnable_models
        scheduler == [ledgers |-> [m \in 1..n |-> SnapshotLedger(n, snap, m - 1)]]
        cands == {[id |-> m, model |-> m, eligible |-> SnapshotSafe(Par.resource_mode, m - 1),
                   slack |-> SnapshotStart(Par.urgency_mix, m - 1), service |-> 1] : m \in 1..n}
    IN  Policy!select(scheduler, cands).model - 1

\* A scheduler Core passes exactly if it was measured under the contract and
\* its plans are those the exact policy selects: the closed form the performance
\* lane uses and the oracle of the policy lane are one policy.
\* Code: _scheduler_performance_case_input, SchedulerOracle.
SchedulerPassIsPolicy ==
    status = "passed" <=>
        /\ job.defect \notin MeasurementDefects
        /\ Measurement(job.defect, Par).plans = [s \in 1..4 |-> PolicyPlan(s - 1)]

Embeds(small, large) ==
    \E at \in [DOMAIN small -> DOMAIN large] :
        /\ \A i \in DOMAIN small : large[at[i]] = small[i]
        /\ \A i, j \in DOMAIN small : i < j => at[i] < at[j]

LegalLifecycle(l) ==
    /\ l # <<>> /\ l[1] = "accepted"
    /\ \A i \in DOMAIN l : Position(l[i]) # 0
    /\ \A i, j \in DOMAIN l : i < j => Position(l[i]) <= Position(l[j])
    /\ \A j \in DOMAIN l : l[j] = "materialized" => \E i \in 1..(j - 1) : l[i] = "admitted"

\* A request passes exactly if the production trace is of that request, holds
\* what the client saw in the order the client saw it, is a legal lifecycle
\* with a terminal status, and publishes every output once and reserved.
\* Code: merge_production_trace, _is_subsequence, request_serving.
RequestPassIsClean ==
    status = "passed" <=>
        LET t == job.trace
            d == job.direct
        IN  /\ t.request_id = d.request_id
            /\ Embeds(d.lifecycle, t.lifecycle) /\ Embeds(d.outputs, t.outputs)
            /\ LegalLifecycle(t.lifecycle) /\ "terminal" \in Range(t.lifecycle)
            /\ \A i, j \in DOMAIN t.outputs :
                  Publication(t.outputs[i]) = Publication(t.outputs[j]) => i = j
            /\ \A o \in Range(t.outputs) : o.reserved

\* The cases a native defect is one of.
Spoils(i) ==
    /\ i \in job.spoilt /\ job.defect # "none"
    /\ job.boundary = "ffi" =>
          (job.defect \in FfiOracleDefects) = (job.cases[i].boundary = "cpp_direct_oracle")

\* A native lane passes exactly if its inputs are there, nothing is wrong in any
\* of its cases, every candidate comes after the C++ Direct case of its key, and
\* every C++ Direct case has its candidate.
\* Code: MlxNativeCorrectnessLaneRunner.run, BoundedTurnAndFfiLaneRunner.run.
NativePassIsFaithful ==
    status = "passed" <=>
        /\ job.inputs /\ \A i \in AllCases : ~Spoils(i)
        /\ job.boundary = "ffi" =>
              \A i \in AllCases :
                 LET pair(boundary) == [key |-> job.cases[i].key, boundary |-> boundary]
                 IN  /\ job.cases[i].boundary = "implementation_candidate" =>
                           \E o \in 1..(i - 1) : job.cases[o] = pair("cpp_direct_oracle")
                     /\ job.cases[i].boundary = "cpp_direct_oracle" =>
                           \E c \in AllCases : job.cases[c] = pair("implementation_candidate")

\* What the benchmark measured decides, whatever the subject claims of it.
\* Code: analyze_case of the residency and observability lanes.
CollectedPassIsMeasured == status = "passed" <=> job.collected = "good"

\* The models of a cross-model case pass exactly if both were served, with the
\* weights of the case and in their proportion, and the outputs are right.
\* Code: CrossModelServingLaneRunner.merge_production_trace, cross_model_serving.
Weight(model) == IF model = "beta" /\ Par.model_weights = "1_to_3" THEN 3 ELSE 1
Service(model) == Total([i \in DOMAIN job.receipts |->
                           IF job.receipts[i].model = model THEN job.receipts[i].engine_service_us
                           ELSE 0])
SharedPassIsShared ==
    status = "passed" <=>
        /\ job.observed = "same"
        /\ {r.model : r \in Range(job.receipts)} = {"alpha", "beta"}
        /\ \A r \in Range(job.receipts) : r.engine_service_us > 0 /\ r.weight = Weight(r.model)
        /\ Service("alpha") * Weight("beta") = Service("beta") * Weight("alpha")

\* A production subject passes a lane only by doing what the lane is about.
PassIsEarned ==
    Done =>
        /\ job.boundary = "core" => CorePassIsFaithful
        /\ job.boundary = "scheduler" => SchedulerPassIsPolicy
        /\ job.boundary = "request" => RequestPassIsClean
        /\ job.boundary \in {"mlx", "ffi"} => NativePassIsFaithful
        /\ job.boundary = "collected" => CollectedPassIsMeasured
        /\ job.boundary = "shared" => SharedPassIsShared
        /\ job.boundary = "persistence" /\ status = "passed" => fpc = "returned"

\* Every lane comes to a verdict, whatever the staged process and the reader
\* thread do and however long the C++ Direct oracle runs, unless the benchmark
\* waits for good in one of its waits without a deadline: for the MLX oracle, or
\* in a read of the fault's files or a ps.
\* Code: the deadlines of apply_persistence_fault and of FfiOracleStep.
WaitsForGood == fpc = "blocked" \/ (phase = "oracle" /\ Defect = "oracle_hangs")
VerdictComes == <>(Done \/ WaitsForGood)

\* docs/BENCHMARK-DESIGN.md:94-97: the benchmark derives receipt applicability,
\* atomic failure, invariant preservation and the suppression of invalid
\* results from the raw executions; a Core of which one of them is derived to
\* be broken does not pass.
BrokenInvariantFails ==
    Done /\ job.boundary = "core" /\ records # <<>> /\ status = "passed" =>
        \A k \in 1..5 : records[1].invariants[k]
=============================================================================
