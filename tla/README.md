# TLA+ models of TurnVector Benchmark

TurnVector Benchmark judges inference subjects and serving engines. It launches
processes it does not trust, talks to them over pipes and sockets, measures them, and
writes evidence that either is claimable or says why it is not. What can go wrong in
such a program is seldom a formula: it is an answer that arrives late, a process that
outlives its attempt, an append that fails half-way, a selection changed while a lane
runs. The modules in this directory model the parts of the Benchmark that keep state
while something else is running, TLC checks them on small instances, and TLAPS proves
the central safety properties for every size.

Paths below are relative to `src/`; `tvb/` stands for `turnvector_benchmark/`.

## 1. The system

### Components, their state and what is hard about them

| component | source | state it keeps | operations | what is hard |
|---|---|---|---|---|
| Lane controller | `tvb/controller.py`, `tvb/fixture_provenance.py` | taint and fixture IDs, frozen provenance, lane results, git identities | `run_all`, `run_lane`, taint interlock, revalidation, manifest, report | runners can change the fixture seam behind its back; a late taint must reach both artifacts; one lane's failure must not hide another |
| Subject session | `tvb/subject.py` | process, response queue, transcript | enter, `request`, `finish`, `__exit__` | one deadline for write and read; answers left over from earlier requests; exit escalation; threads blocked in a pipe |
| Lane runners | `tvb/lane_runner.py` | case loop, artifact registry, collectors | open / step / close each case, analyse, reduce | collectors run beside the steps and must stop on every path; two errors at once |
| System collectors | `tvb/system_collectors.py` | sampler thread, xctrace process | start, stop | a thread that does not join, a process that does not attach |
| Data Plane client | `tvb/data_plane.py` | connection, event stream, barrier | connect, submit, cancel, stream, cross-model pool | events read while waiting for a cancellation; one of two clients failing at the barrier |
| Engine lifecycle | `tvb/cross_engine/lifecycle.py`, `adapters/cross_engine/runtime.py` | two copies of one state machine, the target process | hello ... shutdown, close | client deadlines shorter than the adapter's work, late answers, processes that outlive an attempt |
| Campaign and ledger | `tvb/cross_engine/controller.py`, `tvb/cross_engine/campaign.py` | attempt records in memory and on disk, cell results | preflight, attempt, append, retry | appends that fail before, during or after the write; retries decided in two places; interruption |
| Serving publication | `tvb/cli.py` | published statuses | derive statuses from cells | the statuses must be backed by the ledger on disk |
| Baseline promotion | `tvb/cross_engine/baseline.py` | registry directory, lock file, staging directories | `promote_baseline` | several promoters, a kill between any two file operations |
| Serving executor and OpenAI client | `tvb/cross_engine/serving.py`, `openai.py`, `metrics.py` | request pools, SSE streams, trial metrics | warm-up, sequential, closed and open loop, reduce | workers failing beside each other, streams cut anywhere, requests that drop out of the metrics |
| Cross-engine collectors | `tvb/cross_engine/collectors.py` | sampling threads | start, stop | threads beside an attempt |
| Compiler authority and permit | `tvb/authority/` | phase, arena, counters, permit | consume, the compile phases, limits, failure envelope | a permit raced by threads and forks, an arena at its limit, allocations that fail between others, closed formulas |
| Scheduler core, runner, driver | `tvb/core.py`, `runner.py`, `driver.py` | ledgers, pending selection, driver process | schedule, receipt, close, compare turn by turn | long legal sequences of arrivals and departures; a driver that is late, wrong or gone |
| Lane oracles and gates | `tvb/lane_oracles.py`, `tvb/lane_runner.py` | observations, metrics | analyse, reduce, evaluate gates, the production cases | one bad case among good ones; what a subject claims against what was observed |
| Persistence faults | `tvb/lane_runner.py` | staged process, target file, reader thread | `apply_persistence_fault` | a process and a file that go on changing between check and injection |
| Owner lifecycle fixture | `tvb/owner_lifecycle_fixture.py` | simulated executor | outcomes | used by tests only |
| Gateway validation | `tvb/gateway_validation/` | event lifecycle | validate | order of events |
| Source verification | `tvb/source_verification.py` and the obligation catalogs | git child process | bounded read of a child | two pipes, one deadline |
| Artifact sealing | `tvb/cross_engine/artifacts.py`, `tvb/evidence.py` | create-only files | seal, verify | files changing while hashed |
| Pure reducers | `cross_engine/regression.py`, `determinism.py`, `comparison.py`, `tvb/performance.py`, ... | none | statistics, comparisons | boundaries and missing values |
| Contracts and canonical JSON | `tvb/cross_engine/contracts.py`, `canonical.py`, `external.py` | none | parse, canonicalise | - |
| Reference driver, subject, MLX oracle | `drivers/`, `oracles/` | the driver's own scheduler | fixtures | a second implementation of the policy |

### How they interact

`LaneController._run` visits the selected lanes in order. For each it opens a
`SubjectSession` and hands it to a lane runner, which drives cases over the session,
starts and stops a collector around the steps of each, and in the direct lanes speaks
to the production Data Plane itself. Whatever a runner raises becomes a lane status; the
statuses are aggregated into the report. The fixture seam is shared, mutable module
state between the controller and the code a runner runs.

What a case produced is one raw record per case. An analyzer of `lane_oracles.py` turns
it into observations, the reducers combine the observations of all cases, and the gates
over the metrics decide the lane. For a production subject the runner itself makes the
inputs and derives the record: from two executions of a Core, from the plans of a
scheduler, from the client's view and the production trace of a request, from the
oracle's artifacts, or from a fault it injected. The scheduler-policy lane and the older
`BenchmarkRunner` both ask the subject turn by turn and compare with `SchedulerOracle`.

The cross-engine side is a second stack: the CLI builds a `CrossEngineController`,
which per cell checks the preflight, runs attempts (each an `EngineLifecycleClient`
with an adapter process of its own, which starts and stops the engine), appends every
attempt to the `AttemptLedger` and retries as the frozen campaign allows. The
publication derives its statuses from the cell results. A published run can be promoted
to a baseline, and later candidate runs ask whether the baseline applies to them. Inside
an attempt, `CommonServingExecutor` issues the requests and reduces a trial's metrics.

The coverage compiler stands apart: a permit issued by the controller side admits one
call, which compiles five documents into a coverage plan or a failure envelope.

### What makes each part correct

* Lane controller: a claimable report was earned by every required lane, against an
  implementation, without any fixture; taint is absorbing and reaches both artifacts; a
  selection changed late costs the run its status; every selected lane is reported.
* Subject session and runners: a measured lane has the complete transcript of its plan;
  leftover lines never count as answers; collectors and subject are stopped on all
  paths; recorded artifacts are stable; lanes end.
* Data Plane: the recorded stream is well-formed whichever loop read its events;
  concurrent requests start together; the root cause is reported and sockets closed.
* Engine lifecycle: the controller's cleanup is always legal; client and adapter agree
  whenever a usable client is idle; what the record calls clean left no group leader.
* Campaign: attempts are numbered without gaps, only frozen reasons are retried, the
  first attempt that counts settles its cell, publishable evidence is on file.
* Baselines: one winner, complete; promoters never all turn each other away; nothing
  left behind but by a kill.
* Serving: the parser accepts exactly the dialect; a trial accounts for every planned
  request and counts only completions that were earned; no request outlives its cell.
* Scheduler: the oracle is weighted-fair and banks no credit for idle models; a verdict
  is what the answers deserve; no driver outlives its repetition, unless the run itself
  ends over it.
* Lane verdicts: each gate is failed by its own defect, in as many cases as its reducer
  does not rank away or make up for, and by nothing else; a production subject passes only
  by doing what the lane is about; a reported fault really happened.
* Compiler: a permit compiles once; a plan enforces every required obligation and its
  counters are real; the arena balances and a failure reports where it happened.

The hazards, each at its line and with the properties aimed at it, are listed in
`PROJECT.json`.

## 2. Modules and the code they model

| module | models | extends / uses |
|---|---|---|
| `LaneController` | `LaneController._run` and what it calls | - |
| `LaneProofs` | theorems about it and about `PersistenceFault` | `LaneController`, `LaneJudge` |
| `EvidenceLane` | `_run_one_lane`, `EvidenceLaneRunner.run`, `SubjectSession`, collectors | - |
| `EvidenceLaneProofs` | theorems about it | `EvidenceLane` |
| `DataPlane` | `run_generation`, `run_cross_model_case`, the event stream | - |
| `DataPlaneProofs` | theorems about it | `DataPlane` |
| `EngineLifecycle` | `_run_attempt`, `EngineLifecycleClient`, `LifecycleRuntime`, the target | - |
| `EngineLifecycleProofs` | theorems about it | `EngineLifecycle` |
| `CrossEngineCampaign` | `CrossEngineController.run`, `AttemptLedger`, the publication's statuses | instantiates `AttemptCustody` |
| `CrossEngineCampaignProofs` | theorems about it, the refinement of `AttemptCustody` | `CrossEngineCampaign` |
| `AttemptCustody` | abstract: what the ledger promises | - |
| `BaselinePromotion` | `promote_baseline` | - |
| `AuthorityProofs` | theorems about it and about `CoverageCompiler` | `BaselinePromotion`, `CoverageCompiler` |
| `StreamDialect` | `SSEParser`, the metrics of one request | - |
| `ServingExecutor` | `CommonServingExecutor.run`, `OpenAIHTTPClient.complete`, `reduce_trial_metrics` | `StreamDialect` |
| `ServingExecutorProofs` | theorems about it and about the parser | `ServingExecutor` |
| `SchedulerModels` | models, weights and ledgers of a scenario | - |
| `SchedulerPolicy` | abstract: what the policy promises of the ledgers | `SchedulerModels` |
| `SchedulerOracle` | `core.SchedulerOracle`, the reference driver's scheduler, `runner.py`'s tallies | `SchedulerModels` |
| `SchedulerRun` | `BenchmarkRunner`, `DriverSession`, the scheduler-policy lane | `SchedulerOracle`; instantiates `SchedulerPolicy` |
| `SchedulerRunProofs` | theorems about it, the refinement of `SchedulerPolicy` | `SchedulerRun` |
| `LaneOracles` | analyzers, reducers and gates | - |
| `ReferenceSubject` | `drivers/reference_subject.py` with its gate faults | `LaneOracles` |
| `ProductionCases` | Core replay, scheduler Snapshots and request traces of production subjects | `LaneOracles` |
| `NativeLanes` | the MLX and C++ Direct lanes, collected evidence, cross-model receipts | `ReferenceSubject` |
| `PersistenceFault` | `apply_persistence_fault`, the staged process, the reader thread | - |
| `LaneJudge` | a lane's cases from their steps to the verdict | the three above and `PersistenceFault`; instantiates `SchedulerOracle` |
| `CoverageRelations` | `compiler_relations.py`: the sweep, derivation and streams of a ledger | - |
| `AuthorityStages` | the stages that compare the five documents | `CoverageRelations` |
| `CoverageCompiler` | `CompilePermit`, the phases of `compiler.py`, the arena | `AuthorityStages` |
| `MC*` | the instance TLC checks | the module of the same name |

Operators named `Mutation: ...` in a comment are wrong variants of the definition below
them. They belong to no specification; they exist so that every property can be seen to
fail when the code is wrong in a plausible way (`mutants` in `PROJECT.json`).

**LaneController.** State: `pc` for where `_run` is, the seam and its frozen snapshot,
taint and fixture IDs, the results, the two repositories' heads before and after, and
the two artifacts. A run is constructed (provenance resolved and applied, or refused),
then loops over lanes: preflight, session, dispatch to a runner, revalidation in the
`finally` clause, result. While a runner is active it may rewrite the seam of any lane,
and the repositories may change at any time. Lane results are arbitrary statuses;
how a lane gets its status is the subject of `EvidenceLane`.

**EvidenceLane.** One lane from `Popen` to the closed streams. Three actors: the
Benchmark thread (`pc`, `waiting`, position in the plan, the exception under way), the
subject (emits any line at any time, exits at any time, may fork), and the stdout reader
thread. A response is abstracted to what it answers (kind, case, step) and the one field
the lane branches on. The four runner families differ in what they run beside the steps
and in which exceptions they turn into `environment_unavailable` (`Absorbed`). A collector
that fails while it stops may be left running: a sampler thread that did not join, an
xctrace that did not end (`stuck`). Reducing may fail over the Benchmark's own artifacts,
one recorded twice with other bytes, changed or not written.

**DataPlane.** Each client is a thread in `run_generation`. Frames are abstracted to
kind, status version or output sequence, token count and soundness. The cancellation
path sets events aside and replays them (`SetAside`, `DrainEvent`), the main loop
appends them directly (`ReceiveEvent`); both go through `Accepts`. The two receive
bounds of the code (100,000 and 10,000) are one shared budget `MaxReceive`, which is the
weaker promise for either loop. `threading.Barrier` is external and modelled with its
three states.

**EngineLifecycle.** A sequence of attempts on one port. Client and adapter hold separate
copies of the same table of transitions. The client's deadline may pass whenever a
request is outstanding; the adapter may die, answer late, or answer with an error or
with something malformed, at every request. A target is a process group: the leader,
which the adapter spawns, signals with its group and waits for, and workers, which share
the leader's socket and may outlive it. Both start, bind the port or exit on their own,
and a stranger may listen on the port as well: the probe takes whoever answers.

**CrossEngineCampaign.** The loop over cells and attempts. An append can fail before
writing, after a short write, or in `fsync` after the complete line is in the file; only
a successful one reaches the in-memory records. `attempts.jsonl` is the sequence of its
lines, including fragments and lines glued to fragments. One attempt is one step here;
its inside is `EngineLifecycle`.

**AttemptCustody** is the abstract specification: ordinals without gaps, at most `Limit`
attempts per cell, and the first attempt that counts settles the cell for good. The
refinement mapping takes `next` from the length of the records and `tries` and `primary`
from counting them.

**BaselinePromotion.** Each promoter makes its receipt, stages three files, takes the
create-only lock, checks, renames, unlocks and cleans up; each step may fail, and a
promoter may be killed between any two. `lost` are the promoters that were turned away,
by the lock or by the target, as against those that failed for a reason of their own.

**StreamDialect, ServingExecutor.** A stream is a sequence of pieces (an event with its
blank line, a comment, a malformed line, a cut). `feed` is the parser's step; `Grammar` is
the dialect written down on its own, as a reference the parser is compared with. A request
is a thread: connect, read up to `ReadSize` pieces at a time, end by length, end of
stream, refusal, timeout or a connection that breaks in the middle of the body. Then the
tokens are counted, which may fail, and under the authority `both` the server's counts of
input and output are compared with the benchmark's. Three arrival modes and the warm-up
decide when a request may start; leaving the pool's `with` block joins every worker.
`reduce_trial` is what the metrics count.

**SchedulerPolicy, SchedulerOracle, SchedulerRun.** `SchedulerOracle` is the code's
computation on integers (ledgers are fractions in the code; here they are counted in
units of a common denominator, and a turn's times are offsets from the turn). `SchedulerRun`
puts it beside a driver that is the reference scheduler with one fault: a wrong
selection, a wrong ledger in a plan or a receipt, ledgers of the wrong models, a garbled
or doubled line, an exit, silence, deafness to the end of its input and to `terminate`, a
fork that inherits its stdout. `__exit__` is its steps: close stdin, wait, terminate, wait,
kill, wait, close the streams. Closing stdin may raise (`broken`), the wait after the kill
may run out, and either error ends the run (`aborted`); closing the streams waits for as
long as a fork holds stdout (`held`). `PolicyKept` maps
the oracle's state to `SchedulerPolicy`; `SchedulerRunProofs` proves it, and with it what
the policy promises of the oracle's ledgers. `CasesAssumption` is what the loader
(`_parse_candidate`, `_parse_segment`) admits: at least one turn, known models, positive
service, candidate IDs that differ, one candidate per model. Models are numbered in the
order of their IDs, by which ties are broken.

**LaneOracles, ReferenceSubject, ProductionCases, NativeLanes, PersistenceFault,
LaneJudge.** Records keep the fields the analyzers read; a record whose shape they would
refuse is `Malformed`. A job of `LaneJudge` is a lane, a boundary (the reference subject
or one kind of production subject), its cases and what the subject gets wrong in which
of them; each case is its steps, its closing and its analysis; `Judge` reduces and
evaluates the gates. What a gate, a trace or a plan should be is written down
independently in the properties (`WrongFor`, `Fails`, `Embeds`, `LegalLifecycle`,
`PolicyPlan`). Inputs of a native lane may be missing, its artifacts may repeat, and the
oracle is a phase of its own: the C++ Direct oracle has a deadline, the MLX oracle has none.
In `PersistenceFault` the process may exit, its PID may be reused and it may rewrite the
target between any two steps of the Benchmark; the Benchmark's own reads of the target and
its `ps` may block for good (`FaultBlocks`).

**CoverageRelations, AuthorityStages, CoverageCompiler.** A ledger is a record of the
arrays the compiler joins, under the code's names; the literals of the accepted design
(12 lanes, 46 obligations, ...) are the sizes of the constant `Accepted`. Stages are
predicates named as the failures they report, asked in the code's order; the declared
cardinalities are all 27 fields. The pipeline is one action per phase step; every charge of
the arena may exceed the maximum or meet a `MemoryError`. What an input gets wrong in ways
the arrays do not show is its defect: lengths whose sum leaves 64 bits
(`length_overflow`), a product of dimensions that does (`product_overflow`), a plan that
its own constructor refuses (`plan_rejected`). The `ValueError` of the private key encoder
(`authority/compiler.py:1141`) is left out: stage 4 has refused every identifier that would
raise it.

## 3. What TLC checks

| run | instance | distinct states | shows |
|---|---|---|---|
| `lane_controller` | 2 lanes, one known and one unknown selection | about 416,000 | claimability and revalidation; runs end with every lane reported and both artifacts bound to one taint |
| `evidence_lane` | 4 runner families, 2 cases x 2 steps, 1 line ahead, the direct lane's subject may fork | about 1.7 million | complete transcripts, own answers, collectors and subject stopped; lanes end unless a forked process holds the pipe for ever |
| `data_plane` | 2 clients without events, or 1 client under every event; 3 receives | about 256,000 | joint start; well-formed streams, terminal returns, root cause and closed sockets (`CaseSettled`); cases end |
| `engine_lifecycle` | 3 attempts, groups with workers, a stranger | about 898,000 | agreement, clean attempts, foreign leaders only as recorded leftovers; attempts end |
| `campaign` | 2 cells, 3 attempts each, 2 reason codes | about 34,000 | state roots, results and retries; refinement of `AttemptCustody`; campaigns end, with publishable evidence backed by the file |
| `baseline_promotion` | 3 interchangeable promoters | about 8,200 | cleanup, one winner, a race is never lost by all |
| `serving_executor` | 1 request with any 5 pieces in 2 dialects and 3 authorities, 2 to 3 requests in each mode | about 387,000 | exact parser, earned completions, reconciled trials, joined pools; runs end |
| `scheduler_run` | 3 models of weights 2, 1, 1; 2 repetitions; every fault at every request; all 512 scenarios of 3 turns over 8 candidate sets | about 817,000 | exact verdicts and metrics, no driver left, refinement of `SchedulerPolicy`; runs end unless a fork holds stdout |
| `lane_judge` | 11 lanes x 3 cases on the reference subject, 2 of them also with 36 and 40; every production boundary with one defect | about 249,000 | exact gates, earned passes, real faults; verdicts come unless a wait without a deadline never ends |
| `coverage_compiler` | 2 threads and a fork; a design of 2 lanes and every edit of one entry of it, some of two; 10 arena sizes | about 296,000 | one compilation per permit, balanced arena, real counters, enforced obligations, exact failures |

**Bounds.** Two lanes are enough for one lane to change another's selection and for the
revalidation to stop at the first of two disagreeing lanes. Two cases let a second case
read what the first left in the queue and declare its artifact again; two steps let a
step read another's answer and let a direct lane fail between them. Three attempts let a
leftover of the first meet a second that cleans up and a third that measures. Two cells
let what one leaves in the ledger meet the next; three attempts per cell make chains of
retries (the controller's default is two). Three receives, versions and sequences let a
stream be cut in the middle and be refused for a gap, an overlap and a stale version.
Two promoters give the race for the lock, a third can be turned away by a promoter that
then fails; the proofs cover any number. Six pieces are one
more than the response bound, so that streams reach and exceed it, and five hold every
kind of complete response with one thing too much; reads of two pieces split a response
inside and between events. Three turns let a model leave and come back, two repetitions
let one repetition's driver outlive it. With three cases per lane a median ranks one bad
case away and fails with two, and rates make up for one or for two; a 95th percentile tolerates
a case only among many, so that observability qualification and scheduler performance also
run with 36 and 40 cases, with as many of them bad as their percentiles and rates tolerate
and with one more. A sum, a maximum, a minimum and an any tolerate none.
A gate's own samples differ by far more than rounding. Edits of the
design remove, add or replace each entry of each array, with and without the declared
cardinalities following; the arena sizes fall into every phase that charges, for the
design and for a ledger with one context artifact fewer, which Phase D refuses.

**Deadlock.** The runs of `LaneController`, `EvidenceLane`, `DataPlane`,
`EngineLifecycle`, `CrossEngineCampaign` and `BaselinePromotion` check for deadlock: each
of these modules has a stuttering action for its final states, so that a state in which
nobody can go on is reported. `ServingExecutor`, `SchedulerRun`, `LaneJudge` and
`CoverageCompiler` stop when the result is there, and their runs say
`CHECK_DEADLOCK FALSE`; that the first three do not stop earlier is `RunEnds` and
`VerdictComes`, and the pipeline of a compilation is sequential.

**Fairness.** Weak fairness is assumed only of the Benchmark's own threads, whose waits
have deadlines but for the ones named below: `request`, `finish` and `__exit__` in the
session, socket time-outs and `Barrier(timeout)` in the Data Plane client, the client
deadlines in the lifecycle. So are a request's thread in `ServingExecutor`, whose socket
has a time-out, the benchmark's side of `SchedulerRun`, whose reads of the response queue
have one, and the steps of `apply_persistence_fault`; the server, the driver, the staged
process and the concurrent reader are not fair. Waits without a deadline are steps that
need never be taken, and the liveness properties say what they except: closing a stream
that a forked process holds (`subject.py:407`, `driver.py:149-151`) in
`LaneEndsUnlessHeld` and in `RunEnds` of `SchedulerRun`, the MLX oracle
(`lane_runner.py:2087-2092`, `subprocess.run` without a timeout) and the main thread's
reads of a fault target and `ps` (lines 3103, 3123, 3368, 3392) in `VerdictComes`. The
stdout reader thread returns once the pipe has no writer. Promoters run on; their failures
and kills are not fair. Nothing is assumed of subjects, adapters, engines or servers.
`RunEnds` additionally takes lane runners to return, which is what `EvidenceLane`
examines.

### Where documentation and code disagree

Two runs state a sentence of the documentation (or a docstring) as a property and show
a behaviour of the code that contradicts it; `findings` in `PROJECT.json` quotes them.

| run | what the counterexample shows |
|---|---|
| `inherited_pipe` | the subject exits but a process it forked keeps stdout open; `stream.close()` waits for the reader thread without a deadline |
| `masked_invariants` | invariants derived from a Core's executions count only if the first execution says `transition_committed`; a Core that never applies a current failed result passes |

The same models show further differences, for which no run is kept. In the lanes and the
cross-engine side:

* a known fixture selected late does not taint the run when an earlier lane of the
  snapshot disagrees first (`controller.py:779`); `docs/D0-AUTHORITY-DESIGN.md:214-215`:
  "an attempted late selection is a contract failure and also leaves the run
  `fixture_tainted`". It is `contract_failed`, as `LateSelectionFailsRun` proves;
* the readiness probe accepts any listener on the port
  (`adapters/cross_engine/runtime.py:160`), so a leftover of an earlier attempt may be
  measured; `docs/CROSS-ENGINE-OPENAI-SERVING-BENCHMARK-DESIGN.md:101`: "The controller
  verifies that the listener belongs to a returned PID". So may a worker of an earlier
  group or a stranger; `ForeignLeadersAreLeftovers` is about the leaders alone;
* `stop_target` waits for the group leader and reports no surviving process and no
  surviving listener, as constants (`adapters/cross_engine/runtime.py:245-246`); line 131
  of the same document: "surviving PID/listener arrays (both required empty for success)".
  `CleanAttemptLeavesNoTarget` is therefore about the leader;
* an `fsync` that fails after the line was written makes the handler append a second line
  with the same ordinal (`cross_engine/controller.py:465`); the same document, line 223:
  "Every launched attempt receives a monotone ordinal";
* a receipt's time is the caller's if one is given (`cli.py:1153`, `1239`), and otherwise
  taken before staging, lock and rename (`cross_engine/baseline.py:153`), so a baseline
  published after a candidate began can carry an earlier time (times are not modelled);
  the same document, line 455: "A baseline promoted after candidate execution begins is
  inapplicable.";
* an attempt that fails while its target starts is not followed by `stop_target`
  (`cross_engine/controller.py:377`), although the design lists it as start-up cleanup;
* a cleanup failure beside a measurement failure is lost
  (`cross_engine/controller.py:390`): this is why `CleanAttemptLeavesNoTarget` is about
  completed attempts;
* an interrupt leaves a launched attempt without a ledger line, and the status
  `interrupted` is never written (`cross_engine/controller.py:463`);
* the publication's contract and capability statuses are constants, not projections of
  the cells (`cli.py:705`);
* a collector that cannot start leaves an opened case without `case_close` before
  `shutdown` (`lane_runner.py:653`);
* collector failures can end as `environment_unavailable` or `contract_failed` instead
  of `infrastructure_failed` (`lane_runner.py:2932`).

In serving and scheduling:

* closing a driver's stdout waits for the reader thread as long as a process forked by the
  driver holds the pipe (`driver.py:149-151`), the shape of `inherited_pipe`; the docstring
  at `driver.py:15`: "One bounded JSONL session". A driver that closed its stdin before a
  request makes `stdin.close()` raise (`driver.py:139`), and the wait after a kill may run
  out; both errors leave `BenchmarkRunner` without a report (`aborted`);
* `response.read(16 * 1024)` blocks until it has that much or the stream ends
  (`cross_engine/openai.py:972`), so the arrival time of first content can be that of a
  later piece;
* under the token authority `server_usage` a failed request has no count and reducing the
  trial raises (`cross_engine/metrics.py:199`);
* a model that leaves the runnable set and returns is realigned, below its own ledger if
  it was ahead (`core.py:436`); `docs/AX-TURNVECTOR-SCHEDULER-THEORY-V1.md:151`: "Every
  completed Turn remains charged to the Model Ledger". `FairSpread` is therefore about
  models that are runnable together, and two models that alternate can keep a continuously
  runnable one with a greater ID from being selected.

In the verdicts of lanes (`lane_runner.py`, `lane_oracles.py`):

* empty `process_samples_bytes` raise `ValueError` and a null `publication_sequence` an
  `AssertionError` rather than a contract error;
* between the identity check and `SIGTERM` the PID can be given to another process
  (lines 3260 to 3268): `FaultIsReal` promises that the staged process is gone, not whom
  the signal reached;
* a byte flip writes back what was read, over anything the process wrote in between
  (`wrote` in `FaultIsReal`, which says nothing of what is then in the file), and
  `concurrent_read_sha256` is compared with nothing;
* rate gates over all cases can pass with a slow case among fast ones, and a percentile gate
  with cases over its limit (`Fails`); with 36 cases `calibration-p95` passes with one;
* the closed form of the scheduler performance lane expects candidate 000 whenever the
  urgency mix is `mixed`, which its Snapshots make right;
* the pairing check of the C++ Direct lane counts baselines, `2 * |baselines| = executed`;
  which baseline a candidate meets is decided by its key alone.

In the compiler:

* Phase A multiplies the dimensions of a case plan unchecked and finds no case if one is
  empty; Phase B's checked product may leave 64 bits on its way to the empty dimension and
  then fails on arithmetic (`product_overflow`, `authority/compiler.py:1043-1048`);
* sections whose ends precede their starts can sum to a negative byte count, which raises
  a `ContractError` past the failure envelope (`authority/compiler.py:953-961`);
* a ledger with another number of artifact types than the design's fails as
  `CompilerInternalError` (`authority/compiler_relations.py:861-863`), and a resource
  failure before that point counts the design's types, not its own
  (`authority/compiler.py:122`): `FailureIsExact` bounds counters where a plan is possible;
* stage 22 is asked after stages 23 to 26.

## 4. What is proved

Every theorem is checked by TLAPS for all values of the constants that satisfy the named
assumptions. The pattern is the same in the eight proof modules: an inductive invariant
`IndInv`, `Init => IndInv`, one lemma or case per action, and `PTL` for the temporal step.

**LaneProofs** (of the controller; assumes `LaneAssumption`: a number of lanes and a
nonempty set of required ones; `FixtureAssumption`: known, unknown and absent selections
are distinct). Claimability is not inductive: the report is computed at the end from facts
established lanes earlier. `IndInv` therefore carries `FreshInv` (nothing happened before
construction), `FrozenInv` (frozen fixtures are bound), `SessionInv` and `PassedInv` (what
a passed lane went through), `ProgressInv` (results are exactly those of finished lanes),
`SeamInv` (outside a runner the seam agrees with the snapshot or a lane has paid with
`contract_failed`) and `ArtifactInv` (what the artifacts bind). Theorems: `TypeCorrect`,
`TaintConsistent`, `TaintIsAbsorbing`, `ClaimableSound`, `LateSelectionFails`.
`AggregateLemma` is about the priority order of `_status_for_results`. Of the persistence
faults `FaultReal` is proved, without any assumption on the jobs. That reported evidence
is of a fault that happened depends on what nobody did between the check and the fault:
`FaultInv` says that the evidence is of the checked target (`EvidenceInv`), which kinds of
fault each label belongs to (`PlaceInv`), that only the staged process changes the checked
target before the fault does, which then is on record in `wrote` (`TargetInv`), and that
the concurrent reader runs from its start to its join and sees the file before or after
the whole replacement (`ReaderInv`). The other steps of `LaneJudge` leave these variables
alone or start a fault afresh (`JudgeTouches`, `FaultStarts`).

**EngineLifecycleProofs** (assumes `AttemptAssumption`: at least one attempt). `IndInv`
adds `PcInv` and `StartedInv` (which client state each step of `_run_attempt` implies),
`ChannelInv` (what request, reply and adapter phase can be together), `TrackInv` (the
adapter is at the client's state, or one table transition ahead with the answer under
way), `HistoryInv` and `StoppedInv`. Theorems: `TypeCorrect`, `RequestsLegal`,
`ClientAndAdapterAgree`, `CleanAttempts`, `ForeignLeaders` (that a leader whose attempt
ended well is gone before anybody else is measured).

**AuthorityProofs**, promotion (assumes `PromoterAssumption`: `NoOne` is no
promoter). `IndInv` adds `StagingFilled` (how many files are staged where),
`CommitMeansTarget` and `TurnedAway` (if somebody was turned
away, a baseline is published or somebody who was not is past the lock). Theorems:
`TypeCorrect`, `LockIsExclusive`, `FailuresCleanUp`, `NeverPartial`, `OneWinner`,
`RaceIsWon`.

**AuthorityProofs**, compiler (assumes `CallersAssumption`: nobody is no caller;
`ChargesAssumption`: the charges are natural numbers; `InputsAssumption`: the arrays of a
parsed document are sequences, its maximum and its numbers of plans natural numbers).
`PermitInv` follows who holds the permit of a process: one caller of each at most, and only
one of the issuing process ran. `ArenaInv` is the balance itself with the types it needs and
which hash charges are live in which phase (`LiveInv`); after parsing, what is live is the
slab, the lasting charges `Kept` and the hash charges (`LiveIs`), so that each charge is
shown against one of them. It rests on what is finite in a ledger (`PathsFinite`,
`EvidenceFinite`), on what `FlattenSeq` returns (`FlattenIs`, `FlattenType`) and on there
being a stream to digest, without which the digest state given back was never taken.
`PlanInv` says that nothing gets behind the sweep of Phase B unless the ledger passed it;
what passing means is `SweepPasses`, and `Enforced` and `OwnJudge` derive from the stages
that a required obligation has a path in every case of its lane and that judges and
obligations correspond. `ReportInv` with `ArenaInv` gives what a failure reports of the
arena; the stages must be seen to have other names (`StagesNamed` and its like). Theorems:
`PermitOnce`, `ArenaExact`, `PlanEnforces`, `FailureArena`.

**SchedulerRunProofs** (assumes `CasesAssumption`, `ModelsAssumption`, `ChargeAssumption`,
`WeightsAssumption`, `RepetitionsAssumption`). The policy asks for a least ledger, the
oracle computes it by a
minimum over candidates in a lexicographic order; so the proof first shows that a finite
nonempty set has a minimum of such an order (`Minimal`, `LeastExists`, `FirstExists`: the
element below which the fewest lie), then what selection, alignment and charge return
(`Selects`, `Syncs`, `Schedules`, `Charges`). `IndInv` adds to the types that a receipt is
outstanding only between a selection and its charge (`PendingInv`), without which the
oracle might schedule while the policy may not, and how far the escalation of `__exit__`
got wherever a driver is still running (`ExitInv`). `PolicyInv` adds to the promises of the
policy that the outstanding selection was fair when it was made (`SelectedIsFair`): its
ledger exceeds no runnable one by more than the urgent selections so far allow. Without it
the charge of a receipt could widen the spread beyond any bound.

`MetricsInv` says that the tallies are those of the records so far; a longest stretch is a
maximum over the lengths of intervals, and a new record either lengthens the last interval
by one or ends it (`TurnWithin`, `TurnOutside`). For the verdict, `PlaceInv` and `CountInv`
say what each harness has counted where, `ChannelInv` what can be in the response queue
(nothing, a right or wrong answer, a doubled or a stray one) and that whatever is wrong in
it has been noted in `struck`, and `TraceInv` that the records of a repetition without a
strike are the history of the scenario (`HistoryExists`), so that the repetitions agree.
Theorems: `Invariance`, `DriversAreEnded`, `OracleKeepsPolicy` (the refinement: initial
states and every step, of the Benchmark or of the driver), `OracleIsFair`,
`OracleBaseline`, `OracleBanksNoCredit`, `MetricsAreOfTrace`, `VerdictsAreExact`.

**ServingExecutorProofs** (assumes `PlansAssumption`: the known modes, authorities and
dialects, at least one request and one worker, reads of at least one piece;
`BoundsAssumption`: the required output is positive). `IndInv` carries that the warm-ups
come one after another, each after a good one, and so do the measured requests of a
sequential run after ended ones (`InOrder`), and that a returned trial is the reduction of
requests that are all done (`TrialInv`); `TotalIs` and `TotalCovers` are about sums over
finite sets. That the parser accepts exactly the dialect is about streams of every length
and every division into chunks. `FeedIs` shows what the fold over a chunk computes;
`Follows` relates a parser to the stream it has read (what it counted, and which event it
is at), `StepFollows` is one piece, and `RefusalIsRight` and `TakingIsRight` say that a
refused piece leaves no way to a response of the dialect and a taken one leaves it open.
`FinishIsGrammar` closes the stream. `ReadInv` carries this through the requests, each of
which reads, ends, or is cut off by a timeout. Theorems: `NothingOutlives`,
`TrialsReconcile`, `DialectAccepted`, `ValidEarned`.

**CrossEngineCampaignProofs** (assumes `CampaignAssumption`: at least one cell, at least
one attempt, the reasons a campaign knows). Neither custody nor the results are inductive.
`LedgerInv` relates the loop of `run()` to the list of records: nothing is recorded of
the cells ahead (`LedgerFollowsLoop`), every record but the last of a cell is a frozen
retry (`RetriesAreFrozen`), in the retry loop the next append is admitted
(`LoopIsAdmitted`) and after it the ending is the last record's (`EndingIsRecorded`).
`FileKept` says that the file mirrors the records or that something happened that keeps
the campaign from being publishable. Lemmas on `RecordsFor` (finite, grows by one position
with an append) carry the cardinalities. Theorems: `TypeCorrect`, `RootsNameRecords`,
`ResultsAgree`, `AppendIsNeverRefused`, `PublishedIsBacked`, `LedgerKeepsCustody` (the
refinement of `AttemptCustody`).

**DataPlaneProofs** (assumes `ClientAssumption`: finitely many clients, the known client
events). `BarrierInv` ties who waits at the barrier to who has negotiated; the barrier
opens when the waiting are all, by cardinality, so no submit can precede it. `ThreadsInv`
ties sockets and exceptions to the thread and the main thread to all of them, `EventInv`
says what a finished request has recorded for its client event, and `StreamIsWellFormed`
is shown inductive by lemmas on what `_append_event` does to the versions and the output
sequences. Theorems: `TypeCorrect`, `StartTogether`, `SettledCases`.

**EvidenceLaneProofs** (assumes `LanePlanAssumption`: at least one case and one step, the
known kinds of lane). That a measured lane has the whole transcript of its plan depends on
every earlier step. `TranscriptInv` is the strengthening: while nothing failed the
transcript has exactly the entries of the plan up to the current exchange (`Division`
relates an exchange to its case and step). `ControlInv`, `PlanInv` and `RequestInv` say
what each place of the Benchmark thread implies, `ProcessInv` and `CollectorInv` what the
process, its reader and the collectors can be doing there, and `AnswersInv` that only the
last response may be a wrong one, in a lane that is failing. Theorems: `Invariance`,
`TypeCorrect`, `NothingOutlives`, `OwnAnswers`, `MeasuredIsComplete`.

**Proved and not run.** Type correctness of the component models, `TaintMatchesIds` and
`TaintAbsorbs` (`LaneController`), `RequestsAreLegal` (`EngineLifecycle`),
`LockSerialises` and `PublishedIsComplete` (`BaselinePromotion`), `FairSpread`,
`BaselineIsLeast` and `NoBankedCredit` (`SchedulerPolicy`, of the oracle), `NeverRefused`
and `PublishableIsBacked` (`CrossEngineCampaign`; the second is the safety half of
`CampaignEnds`): the proofs say more than an instance would.

**Only model-checked.** All liveness properties: fairness and `ENABLED` are beyond the
prover. Of `CoverageCompiler`, `PlanCountsAreReal` and the half of `FailureIsExact` that is
about counters: they equate closed formulas (sums over lanes of products) with the sizes
of joins over the arrays of the ledger, and need every array of the accepted design to be
as consistent as the sweep makes those of an input. Of `LaneJudge`, `GatesAreExact` and
`PassIsEarned`: they compare folds over the samples of all cases with the defect of one
lane after another, a case distinction that TLC goes through and a proof would only repeat.

## 5. What is not modelled

* Contents of messages, contracts and catalogs: schema checks and canonical JSON have no
  state of their own; where control depends on their verdict it is a nondeterministic
  choice or an input (`defects` in `CoverageCompiler`, `Malformed` in `LaneOracles`).
* Floating-point statistics (percentiles of serving metrics, confidence intervals,
  regression gates, determinism, comparison, performance publication): out of TLC's reach.
* Reports, formatting, logging, argument parsing, host inspection.
* `reset_state` of the lifecycle: no code requests it.
* `inspect()` of the lane controller: it changes nothing.
* The simulated executor of `owner_lifecycle_fixture.py`: only its tests run it. The
  numerics of the MLX oracle.
* Collectors of the cross-engine side, sealing of artifacts, the git child process of the
  source verification and the gateway validator: see the plan.

## 6. Plan

Done: the core of both stacks, serving, scheduling, verdicts and the compiler, and the
proofs of section 4. Left, in
order of importance:

1. Proofs: `PlanCountsAreReal`, for which the sums over lanes must be shown to be sizes of
   disjoint unions, and lane by lane the gates of `LaneJudge`.
2. `BoundedChild`: the git subprocess of `source_verification.py`, two pipes and one
   deadline.
3. `GatewayLifecycle` (`gateway_validation/`): an event-by-event validator.
4. Sealing of artifacts, and the cross-engine collectors beside an attempt.
