--------------------------- MODULE LaneController ---------------------------
(***************************************************************************)
(* One qualification run of turnvector_benchmark.controller.LaneController: *)
(* the absorbing fixture-taint interlock, the lane loop that turns every    *)
(* failure into a lane status, and the claimability decision.               *)
(*                                                                         *)
(* Lanes are numbered in expectation order, the order `_run' visits them    *)
(* in.  A fixture selection is what FIXTURE_SELECTION_SEAM holds for a      *)
(* lane: NoFixture (no entry), a known fixture ID, or anything else (an     *)
(* unknown ID or a non-string).  The seam is a module-level mapping that    *)
(* the code running inside a lane runner can change at any time.            *)
(***************************************************************************)
EXTENDS Naturals

CONSTANTS
    LaneCount,   \* lanes of the expectation
    Required,    \* the lanes the expectation marks required
    Known,       \* known_fixture_ids()
    Unknown,     \* selections no fixture descriptor answers to
    NoFixture    \* FIXTURE_SELECTION_SEAM.get(lane_id) is None

Lanes == 1..LaneCount

ASSUME LaneAssumption ==
    /\ LaneCount \in Nat
    /\ Required \subseteq Lanes
    /\ Required # {}

ASSUME FixtureAssumption ==
    /\ Known \cap Unknown = {}
    /\ NoFixture \notin Known \cup Unknown

Repos == {"benchmark", "target"}

LaneStatus == {"passed", "gate_failed", "unsupported", "environment_unavailable",
               "contract_failed", "infrastructure_failed"}

SubjectKinds == {"implementation", "fixture"}

Seams == [Lanes -> Known \cup Unknown \cup {NoFixture}]

VARIABLES
    pc,                 \* where `_run' is
    selected,           \* the requested lane_ids
    pending,            \* selected lanes the loop has not finished
    lane,               \* the lane `_run_one_lane' works on
    seam,               \* FIXTURE_SELECTION_SEAM
    frozen,             \* _frozen_provenance: the pre-run selection per lane
    taint,              \* run_fixture_taint
    fixtureIds,         \* fixture_ids, as a set
    started,            \* CaseStartMonitor._started_lanes
    thresholdFailures,  \* lanes whose threshold snapshot is incomplete
    subjectKind,        \* subject manifest's kind, or "none" without manifest
    presented,          \* kind each lane's subject presented in hello_ack
    certError,          \* certification_contract_error is set
    sourceMatches,      \* source_contract.matches is True
    heads,              \* revision and status of the two repositories
    headsBefore,        \* the identities recorded before the lanes
    evidenceValid,
    results,            \* lane statuses so far
    manifest,           \* the manifest.json written: at most one record
    report              \* the report.json written: at most one record

taintVars == <<taint, fixtureIds>>
repoVars  == <<heads, headsBefore, evidenceValid>>
inputVars == <<subjectKind, certError, sourceMatches>>
outVars   == <<manifest, report>>
vars == <<pc, selected, pending, lane, seam, frozen, taintVars, started,
          thresholdFailures, presented, results, inputVars, repoVars, outVars>>

-----------------------------------------------------------------------------
(* Provenance and taint. *)

\* _resolve_lane_provenance raises for a selection no descriptor answers to.
Resolvable(l) == seam[l] \in Known \cup {NoFixture}

\* _apply_fixture_provenance for every provenance in a set of selections: the
\* only transition is clean -> fixture_tainted.
ApplyFixtureProvenance(selections) ==
    LET ids == selections \cap Known IN
    /\ fixtureIds' = fixtureIds \cup ids
    /\ taint' = IF ids = {} THEN taint ELSE "fixture_tainted"

\* validate_fixture_taint_state: clean binds no ID, tainted at least one.
ValidTaintState(t, ids) ==
    /\ t \in {"clean", "fixture_tainted"}
    /\ ids \subseteq Known
    /\ (t = "clean") <=> (ids = {})

\* _revalidate_frozen_provenance walks the lanes in order and stops at the
\* first that disagrees with the snapshot (its bind step raises).
Disagreeing == {l \in selected : seam[l] # frozen[l]}
Revalidated == {l \in selected : \A d \in Disagreeing : l <= d}

\* _status_for_results: the worst status of the lanes, in a fixed priority.
StatusForResults(statuses) ==
    LET priority == <<"infrastructure_failed", "contract_failed", "gate_failed",
                      "environment_unavailable", "unsupported">>
        present == {i \in 1..5 : priority[i] \in statuses}
    IN IF present = {} THEN "passed"
       ELSE priority[CHOOSE i \in present : \A j \in present : i <= j]

\* Mutation: the lane selection is not looked at.
FullStatusOfAnySelection(t, fixtureSubject, allRequired, status, valid, matches) ==
    IF t = "fixture_tainted" \/ fixtureSubject THEN "not_claimable_fixture"
    ELSE IF status = "passed" /\ valid /\ matches THEN "passed" ELSE "failed"

\* resolve_full_implementation_status: taint first, then subject kind, then
\* lane selection, then the conjunction of everything else.
FullImplementationStatus(t, fixtureSubject, allRequired, status, valid, matches) ==
    CASE t = "fixture_tainted" \/ fixtureSubject -> "not_claimable_fixture"
      [] ~(t = "fixture_tainted" \/ fixtureSubject) /\ ~allRequired -> "not_evaluated"
      [] ~(t = "fixture_tainted" \/ fixtureSubject) /\ allRequired ->
           IF status = "passed" /\ valid /\ matches THEN "passed" ELSE "failed"

-----------------------------------------------------------------------------
Init ==
    /\ pc = "constructed"
    /\ selected = {} /\ pending = {} /\ lane = 0
    /\ seam \in Seams
    /\ frozen = [l \in Lanes |-> NoFixture]
    /\ taint = "clean" /\ fixtureIds = {}
    /\ started = {} /\ thresholdFailures = {}
    /\ subjectKind \in SubjectKinds \cup {"none"}
    /\ presented = [l \in Lanes |-> "none"]
    /\ certError \in BOOLEAN /\ sourceMatches \in BOOLEAN
    /\ heads = [r \in Repos |-> 0] /\ headsBefore = heads /\ evidenceValid = FALSE
    /\ results = [l \in Lanes |-> "none"]
    /\ manifest = {} /\ report = {}

(* `_run' up to the lane loop: reset the taint state, record the repository  *)
(* identities, resolve and apply the provenance of every selected lane in    *)
(* order, freeze the snapshot, and resolve the thresholds.  run_lane selects *)
(* any one lane, run_all the required ones.                                  *)
BeginRun(lanes, failures) ==
    /\ pc = "constructed"
    /\ lanes = Required \/ \E l \in Lanes : lanes = {l}
    /\ selected' = lanes /\ pending' = lanes
    /\ \A l \in lanes : Resolvable(l)
    /\ failures \subseteq lanes
    /\ thresholdFailures' = failures
    /\ ApplyFixtureProvenance({seam[l] : l \in lanes})
    /\ frozen' = [l \in Lanes |-> IF l \in lanes THEN seam[l] ELSE NoFixture]
    /\ headsBefore' = heads
    /\ pc' = "lanes"
    /\ UNCHANGED <<lane, seam, started, presented, results, inputVars, heads,
                   evidenceValid, outVars>>

(* An unresolvable selection raises out of `_run' before any lane work: the  *)
(* lanes before it have been applied, nothing is frozen and no artifact is   *)
(* written.                                                                  *)
BeginRunRefused(lanes) ==
    /\ pc = "constructed"
    /\ lanes = Required \/ \E l \in Lanes : lanes = {l}
    /\ selected' = lanes
    /\ \E bad \in lanes :
         /\ ~Resolvable(bad)
         /\ \A l \in lanes : l < bad => Resolvable(l)
         /\ ApplyFixtureProvenance({seam[l] : l \in {k \in lanes : k < bad}})
    /\ headsBefore' = heads
    /\ pc' = "aborted"
    /\ UNCHANGED <<pending, lane, seam, frozen, started, thresholdFailures, presented,
                   results, inputVars, heads, evidenceValid, outVars>>

-----------------------------------------------------------------------------
(* The lane loop. *)

NextLane(l) == l \in pending /\ \A m \in pending : l <= m

\* Mutation: an infrastructure failure is tried again.
FinishLaneOrRetry(l, status) ==
    /\ results' = [results EXCEPT ![l] = status]
    /\ pending' = IF status = "infrastructure_failed" THEN pending ELSE pending \ {l}
    /\ pc' = "lanes"

\* Every way out of `_run_one_lane' records one result and goes on.
FinishLane(l, status) ==
    /\ results' = [results EXCEPT ![l] = status]
    /\ pending' = pending \ {l}
    /\ pc' = "lanes"

\* A ContractError inside the session, unless leaving the session raises in its
\* place.
SessionFailures == {"contract_failed", "infrastructure_failed"}

\* What `_run_one_lane' can decide before it launches a subject.  A missing
\* adapter precedes a category mismatch, which precedes the external inputs
\* that only an implementation needs.
PreflightOutcomes(l) ==
    IF certError \/ l \in thresholdFailures THEN {"contract_failed"}
    ELSE {"unsupported"}
         \cup IF subjectKind = "none" THEN {} ELSE {"contract_failed", "ready"}
         \cup IF subjectKind = "implementation" THEN {"environment_unavailable"} ELSE {}

RefuseLane(l, status) ==
    /\ pc = "lanes" /\ NextLane(l)
    /\ status \in PreflightOutcomes(l) \ {"ready"}
    /\ lane' = l
    /\ FinishLane(l, status)
    /\ UNCHANGED <<selected, seam, frozen, taintVars, started, thresholdFailures,
                   presented, inputVars, repoVars, outVars>>

OpenSession(l) ==
    /\ pc = "lanes" /\ NextLane(l)
    /\ "ready" \in PreflightOutcomes(l)
    /\ lane' = l
    /\ pc' = "session"
    /\ UNCHANGED <<selected, pending, seam, frozen, taintVars, started,
                   thresholdFailures, presented, results, inputVars, repoVars, outVars>>

\* SubjectSession or hello fails: launch error, deadline, malformed ack.
SessionFails(status) ==
    /\ pc = "session"
    /\ status \in SessionFailures
    /\ FinishLane(lane, status)
    /\ UNCHANGED <<selected, lane, seam, frozen, taintVars, started, thresholdFailures,
                   presented, inputVars, repoVars, outVars>>

\* _validate_hello refuses a kind that differs from the manifest's.
HelloKindMismatch(kind) ==
    /\ pc = "session"
    /\ kind \in SubjectKinds
    /\ kind # subjectKind
    /\ presented' = [presented EXCEPT ![lane] = kind]
    /\ \E status \in SessionFailures : FinishLane(lane, status)
    /\ UNCHANGED <<selected, lane, seam, frozen, taintVars, started, thresholdFailures,
                   inputVars, repoVars, outVars>>

\* hello does not support the lane, or speaks another lane protocol.  The
\* session is still finished, and a failing shutdown replaces the status.
HelloUnsupported(status) ==
    /\ pc = "session"
    /\ status \in {"unsupported"} \cup SessionFailures
    /\ presented' = [presented EXCEPT ![lane] = subjectKind]
    /\ FinishLane(lane, status)
    /\ UNCHANGED <<selected, lane, seam, frozen, taintVars, started, thresholdFailures,
                   inputVars, repoVars, outVars>>

\* An accepted hello: descriptor and certification identity are valid, the
\* LaneContext is bound and _bind_and_revalidate_provenance runs.
BindLaneContext ==
    /\ pc = "session"
    /\ presented' = [presented EXCEPT ![lane] = subjectKind]
    /\ ApplyFixtureProvenance({seam[lane]})
    /\ IF seam[lane] = frozen[lane]
         THEN pc' = "dispatch" /\ UNCHANGED <<results, pending>>
         ELSE \E status \in SessionFailures : FinishLane(lane, status)
    /\ UNCHANGED <<selected, lane, seam, frozen, started, thresholdFailures, inputVars,
                   repoVars, outVars>>

-----------------------------------------------------------------------------
(* The lane runner, while the controller is inside runner.run(). *)

\* The runner marks its lane when it issues the first CasePlan START.
RunnerStartsCase ==
    /\ pc = "dispatch" /\ lane \notin started
    /\ started' = started \cup {lane}
    /\ UNCHANGED <<pc, selected, pending, lane, seam, frozen, taintVars,
                   thresholdFailures, presented, results, inputVars, repoVars, outVars>>

\* Code under the runner rebinds the selection of any lane.
RunnerSelectsFixture(l, f) ==
    /\ pc = "dispatch" /\ seam[l] # f
    /\ seam' = [seam EXCEPT ![l] = f]
    /\ UNCHANGED <<pc, selected, pending, lane, frozen, taintVars, started,
                   thresholdFailures, presented, results, inputVars, repoVars, outVars>>

\* Mutation: only the runner's own lane is revalidated.
RunnerEndsOwnLane(status) ==
    /\ pc = "dispatch"
    /\ status \in LaneStatus
    /\ status \in {"passed", "gate_failed"} => lane \in started
    /\ lane \in Disagreeing => status \in SessionFailures
    /\ ApplyFixtureProvenance({seam[lane]})
    /\ FinishLane(lane, status)
    /\ UNCHANGED <<selected, lane, seam, frozen, started, thresholdFailures, presented,
                   inputVars, repoVars, outVars>>

(* The runner returns or raises; the finally clause revalidates every frozen *)
(* selection, and only if nothing raised is the session finished.  A runner  *)
(* returns passed or gate_failed only after it started its cases; any status *)
(* may be replaced by a failing shutdown or cleanup.                         *)
RunnerEnds(status) ==
    /\ pc = "dispatch"
    /\ status \in LaneStatus
    /\ status \in {"passed", "gate_failed"} => lane \in started
    /\ Disagreeing # {} => status \in SessionFailures
    /\ ApplyFixtureProvenance({seam[l] : l \in Revalidated})
    /\ FinishLane(lane, status)
    /\ UNCHANGED <<selected, lane, seam, frozen, started, thresholdFailures, presented,
                   inputVars, repoVars, outVars>>

\* Someone commits to, or edits, one of the two repositories during the run.
RepositoryMoves(r) ==
    /\ pc \in {"lanes", "session", "dispatch"} /\ heads[r] = 0
    /\ heads' = [heads EXCEPT ![r] = 1]
    /\ UNCHANGED <<pc, selected, pending, lane, seam, frozen, taintVars, started,
                   thresholdFailures, presented, results, inputVars, headsBefore,
                   evidenceValid, outVars>>

-----------------------------------------------------------------------------
(* After the loop: git identities again, the taint assertion, manifest, report. *)

WriteManifest ==
    /\ pc = "lanes" /\ pending = {}
    /\ evidenceValid' = (heads = headsBefore)
    /\ IF ValidTaintState(taint, fixtureIds)
         THEN /\ manifest' = {[taint |-> taint, fixtureIds |-> fixtureIds]}
              /\ pc' = "report"
         ELSE /\ pc' = "aborted"
              /\ UNCHANGED manifest
    /\ UNCHANGED <<selected, pending, lane, seam, frozen, taintVars, started,
                   thresholdFailures, presented, results, inputVars, heads, headsBefore,
                   report>>

AggregateStatus ==
    IF evidenceValid THEN StatusForResults({results[l] : l \in selected})
    ELSE "infrastructure_failed"

WriteReport ==
    /\ pc = "report"
    /\ report' = {[taint |-> taint, fixtureIds |-> fixtureIds,
                  status |-> AggregateStatus,
                  full |-> FullImplementationStatus(taint, subjectKind = "fixture",
                             selected = Required, AggregateStatus, evidenceValid,
                             sourceMatches)]}
    /\ pc' = "done"
    /\ UNCHANGED <<selected, pending, lane, seam, frozen, taintVars, started,
                   thresholdFailures, presented, results, inputVars, repoVars, manifest>>

\* A directory, artifact or git command fails outside _run_one_lane's try
\* block: the exception leaves `_run' with whatever is on disk by then.
RunRaises ==
    /\ pc \in {"lanes", "report"}
    /\ pc' = "aborted"
    /\ UNCHANGED <<selected, pending, lane, seam, frozen, taintVars, started,
                   thresholdFailures, presented, results, inputVars, repoVars, outVars>>

Terminated == pc \in {"done", "aborted"} /\ UNCHANGED vars

-----------------------------------------------------------------------------
ControllerStep ==
    \/ \E lanes \in SUBSET Lanes, failures \in SUBSET Lanes : BeginRun(lanes, failures)
    \/ \E lanes \in SUBSET Lanes : BeginRunRefused(lanes)
    \/ \E l \in Lanes, status \in LaneStatus : RefuseLane(l, status)
    \/ \E l \in Lanes : OpenSession(l)
    \/ \E status \in LaneStatus : SessionFails(status)
    \/ \E kind \in SubjectKinds : HelloKindMismatch(kind)
    \/ \E status \in LaneStatus : HelloUnsupported(status)
    \/ BindLaneContext
    \/ \E status \in LaneStatus : RunnerEnds(status)
    \/ WriteManifest
    \/ WriteReport

Next ==
    \/ ControllerStep
    \/ RunnerStartsCase
    \/ \E l \in Lanes, f \in Known \cup Unknown \cup {NoFixture} :
         RunnerSelectsFixture(l, f)
    \/ \E r \in Repos : RepositoryMoves(r)
    \/ RunRaises
    \/ Terminated

\* The controller is one thread whose waits on a subject all carry deadlines.
Spec == Init /\ [][Next]_vars /\ WF_vars(ControllerStep)

-----------------------------------------------------------------------------
(* Properties. *)

\* Every variable of the run keeps the type the controller gives it.
TypeOK ==
    /\ pc \in {"constructed", "lanes", "session", "dispatch", "report", "done", "aborted"}
    /\ selected \subseteq Lanes /\ pending \subseteq selected
    /\ lane \in Lanes \cup {0}
    /\ pc \in {"session", "dispatch"} => lane \in pending
    /\ seam \in Seams
    /\ frozen \in [Lanes -> Known \cup {NoFixture}]
    /\ taint \in {"clean", "fixture_tainted"}
    /\ fixtureIds \subseteq Known
    /\ started \subseteq Lanes /\ thresholdFailures \subseteq Lanes
    /\ subjectKind \in SubjectKinds \cup {"none"}
    /\ presented \in [Lanes -> SubjectKinds \cup {"none"}]
    /\ certError \in BOOLEAN /\ sourceMatches \in BOOLEAN /\ evidenceValid \in BOOLEAN
    /\ heads \in [Repos -> {0, 1}] /\ headsBefore \in [Repos -> {0, 1}]
    /\ results \in [Lanes -> LaneStatus \cup {"none"}]
    /\ manifest \subseteq [taint : {"clean", "fixture_tainted"}, fixtureIds : SUBSET Known]
    /\ report \subseteq
         [taint : {"clean", "fixture_tainted"}, fixtureIds : SUBSET Known,
          status : LaneStatus,
          full : {"not_claimable_fixture", "not_evaluated", "passed", "failed"}]

\* The taint assertion before the manifest can never abort a finished run:
\* along every path of selections, clean runs carry no fixture ID and tainted
\* runs at least one (_assert_fixture_taint_invariant).
TaintMatchesIds == (taint = "clean") <=> (fixtureIds = {})

\* "No transition returns to clean": once tainted a run stays tainted and
\* never forgets a fixture ID, whatever the lanes and the seam do next.
TaintAbsorbs ==
    [][taint = "fixture_tainted" =>
         taint' = "fixture_tainted" /\ fixtureIds \subseteq fixtureIds']_vars

\* A claimable report (full_implementation_status passed) means: every required
\* lane ran its cases and passed, every subject presented itself as an
\* implementation, no lane was or is served by a fixture, and neither
\* repository changed between the two git inspections.
ClaimableIsEarned ==
    \A r \in report : r.full = "passed" =>
        /\ selected = Required
        /\ \A l \in Required :
             /\ results[l] = "passed" /\ l \in started
             /\ presented[l] = "implementation"
             /\ frozen[l] = NoFixture /\ seam[l] = NoFixture
             /\ l \notin thresholdFailures
        /\ fixtureIds = {} /\ sourceMatches /\ ~certError
        /\ heads = headsBefore

\* A selection rebound while a runner was active, of its own lane or of any
\* other selected lane, never survives into a run whose status is better than
\* contract_failed (post-run revalidation in the finally clause).
LateSelectionFailsRun ==
    \A r \in report : Disagreeing # {} =>
        r.status \in {"contract_failed", "infrastructure_failed"}

\* manifest.json and report.json bind the same final taint and fixture IDs,
\* although lanes may taint the run until the last one ends.
ArtifactsBindSameTaint ==
    \A r \in report :
        /\ manifest = {[taint |-> r.taint, fixtureIds |-> r.fixtureIds]}
        /\ r.taint = taint /\ r.fixtureIds = fixtureIds

\* A failing lane never hides another: a reported run has one status for
\* exactly the selected lanes, and the aggregate is passed only if all are.
EveryLaneReported ==
    \A r \in report :
        /\ \A l \in Lanes : (results[l] # "none") <=> (l \in selected)
        /\ r.status = "passed" => \A l \in selected : results[l] = "passed"

\* As long as its runners return, every run ends: refused, or reported with one
\* status for each selected lane and the same taint in both artifacts.
RunEnds ==
    <>(\/ pc = "aborted"
       \/ pc = "done" /\ report # {} /\ EveryLaneReported /\ ArtifactsBindSameTaint)
=============================================================================
