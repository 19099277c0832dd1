----------------------------- MODULE LaneProofs -----------------------------
(***************************************************************************)
(* Proofs about the lanes of a run.  For any number of lanes and any       *)
(* fixtures the controller's taint is consistent and absorbing and a       *)
(* claimable report is earned; for any cases of any lane the custody       *)
(* evidence of a persistence fault is of a fault that happened.            *)
(***************************************************************************)
EXTENDS LaneController, LaneJudge, TLAPS

USE DEF Lanes, Repos, LaneStatus, SubjectKinds, Seams

\* Before the lanes: nothing is written, started or decided.
FreshInv ==
    pc = "constructed" => /\ pending = {} /\ started = {} /\ fixtureIds = {}
                          /\ results = [l \in Lanes |-> "none"]

\* The frozen snapshot is bound into the taint before anything else happens.
FrozenInv ==
    pc \notin {"constructed", "aborted"} =>
        \A l \in selected : frozen[l] \in Known => frozen[l] \in fixtureIds

\* A lane that reached its subject passed the preflight, and a dispatched one
\* heard the kind its manifest declares.
SessionInv ==
    /\ pc \in {"session", "dispatch"} =>
         ~certError /\ lane \notin thresholdFailures /\ subjectKind # "none"
    /\ pc = "dispatch" => presented[lane] = subjectKind

\* What a passed result stands for.
PassedInv ==
    \A l \in Lanes : results[l] = "passed" =>
        /\ l \in started /\ l \notin thresholdFailures /\ ~certError
        /\ presented[l] = subjectKind /\ subjectKind # "none"

\* Pending lanes have no result, finished ones have.
ProgressInv ==
    /\ pc \in {"lanes", "session", "dispatch", "report", "done"} =>
         \A l \in Lanes : (results[l] # "none") <=> (l \in selected \ pending)
    /\ pc \in {"report", "done"} => pending = {}

\* Outside a runner the seam agrees with the snapshot, or a lane has paid.
SeamInv ==
    pc \in {"lanes", "session", "report", "done"} =>
        \/ \A l \in selected : seam[l] = frozen[l]
        \/ \E l \in selected : results[l] \in SessionFailures

\* What the two artifacts bind.
ArtifactInv ==
    /\ pc \in {"report", "done"} => /\ evidenceValid = (heads = headsBefore)
                                    /\ manifest = {[taint |-> taint, fixtureIds |-> fixtureIds]}
    /\ pc # "done" => report = {}
    /\ \A r \in report :
         /\ r.taint = taint /\ r.fixtureIds = fixtureIds
         /\ r.status = AggregateStatus
         /\ r.full = FullImplementationStatus(taint, subjectKind = "fixture",
                        selected = Required, AggregateStatus, evidenceValid, sourceMatches)

IndInv == /\ TypeOK /\ TaintMatchesIds /\ FreshInv /\ FrozenInv /\ SessionInv
          /\ PassedInv /\ ProgressInv /\ SeamInv /\ ArtifactInv

-----------------------------------------------------------------------------
\* _status_for_results yields one of the lane statuses, and yields passed only
\* when no lane has another status.
LEMMA AggregateLemma ==
    ASSUME NEW statuses \in SUBSET LaneStatus
    PROVE  /\ StatusForResults(statuses) \in LaneStatus
           /\ StatusForResults(statuses) = "passed" => statuses \subseteq {"passed"}
           /\ statuses \cap SessionFailures # {} =>
                StatusForResults(statuses) \in SessionFailures
<1> DEFINE priority == <<"infrastructure_failed", "contract_failed", "gate_failed",
                         "environment_unavailable", "unsupported">>
           present == {i \in 1..5 : priority[i] \in statuses}
           least(i) == i \in present /\ \A j \in present : i <= j
<1>1. CASE present = {}
  <2>1. \A i \in 1..5 : priority[i] \notin statuses
    BY <1>1
  <2>2. statuses \subseteq {"passed"}
    BY <2>1
  <2> QED BY <1>1, <2>2 DEF StatusForResults
<1>2. CASE present # {}
  <2>1. \E i \in present : \A j \in present : i <= j
    <3>1. CASE 1 \in present  BY <3>1
    <3>2. CASE 1 \notin present /\ 2 \in present  BY <3>2
    <3>3. CASE 1 \notin present /\ 2 \notin present /\ 3 \in present  BY <3>3
    <3>4. CASE 1 \notin present /\ 2 \notin present /\ 3 \notin present /\ 4 \in present
      BY <3>4
    <3>5. CASE 1 \notin present /\ 2 \notin present /\ 3 \notin present /\ 4 \notin present
      BY <3>5, <1>2
    <3> QED BY <3>1, <3>2, <3>3, <3>4, <3>5
  <2> DEFINE k == CHOOSE i \in present : \A j \in present : i <= j
  <2>2. k \in present /\ \A j \in present : k <= j
    BY <2>1
  <2>3. StatusForResults(statuses) = priority[k]
    BY <1>2 DEF StatusForResults
  <2>4. k \in 1..5 /\ priority[k] \in statuses
    BY <2>2
  <2> HIDE DEF k
  <2>5. priority[k] \in LaneStatus /\ priority[k] # "passed"
    BY <2>4
  <2>6. ASSUME statuses \cap SessionFailures # {}
        PROVE  priority[k] \in SessionFailures
    <3> USE DEF SessionFailures
    <3>1. 1 \in present \/ 2 \in present  BY <2>6
    <3>2. k <= 2  BY <3>1, <2>2
    <3>3. k = 1 \/ k = 2  BY <3>2, <2>4
    <3> QED BY <3>3
  <2> QED BY <2>3, <2>5, <2>6
<1> QED BY <1>1, <1>2

\* Applying provenance keeps the taint binding and never loses an ID.
LEMMA ApplyLemma ==
    ASSUME TypeOK, TaintMatchesIds, NEW s, ApplyFixtureProvenance(s)
    PROVE  /\ taint' \in {"clean", "fixture_tainted"}
           /\ fixtureIds' \subseteq Known
           /\ TaintMatchesIds'
           /\ fixtureIds \subseteq fixtureIds'
           /\ s \cap Known \subseteq fixtureIds'
           /\ taint = "fixture_tainted" => taint' = "fixture_tainted"
BY DEF TypeOK, TaintMatchesIds, ApplyFixtureProvenance

-----------------------------------------------------------------------------
\* When the report is about to be written every selected lane has a status.
LEMMA ReportedStatuses ==
    ASSUME TypeOK, ProgressInv, pc \in {"report", "done"}
    PROVE  /\ {results[l] : l \in selected} \in SUBSET LaneStatus
           /\ AggregateStatus \in LaneStatus
<1>1. {results[l] : l \in selected} \in SUBSET LaneStatus
  BY DEF TypeOK, ProgressInv
<1> QED BY <1>1, AggregateLemma DEF AggregateStatus

\* The type invariant is preserved.
LEMMA TypeStep ==
    ASSUME IndInv, [Next]_vars
    PROVE  TypeOK'
<1> USE DEF IndInv, TypeOK, taintVars, repoVars, inputVars, outVars
<1>1. ASSUME NEW lanes \in SUBSET Lanes, NEW failures \in SUBSET Lanes, BeginRun(lanes, failures)
      PROVE  TypeOK'
  BY <1>1 DEF BeginRun, ApplyFixtureProvenance, Resolvable
<1>2. ASSUME NEW lanes \in SUBSET Lanes, BeginRunRefused(lanes)
      PROVE  TypeOK'
  BY <1>2 DEF BeginRunRefused, ApplyFixtureProvenance, Resolvable, FreshInv
<1>3. ASSUME NEW l \in Lanes, NEW how \in LaneStatus, RefuseLane(l, how)
      PROVE  TypeOK'
  BY <1>3 DEF RefuseLane, FinishLane, NextLane, PreflightOutcomes
<1>4. ASSUME NEW l \in Lanes, OpenSession(l)
      PROVE  TypeOK'
  BY <1>4 DEF OpenSession, NextLane, PreflightOutcomes
<1>5. ASSUME NEW how \in LaneStatus, SessionFails(how)
      PROVE  TypeOK'
  BY <1>5 DEF SessionFails, FinishLane, SessionFailures
<1>6. ASSUME NEW kind \in SubjectKinds, HelloKindMismatch(kind)
      PROVE  TypeOK'
  BY <1>6 DEF HelloKindMismatch, FinishLane, SessionFailures
<1>7. ASSUME NEW how \in LaneStatus, HelloUnsupported(how)
      PROVE  TypeOK'
  BY <1>7 DEF HelloUnsupported, FinishLane, SessionFailures
<1>8. ASSUME BindLaneContext
      PROVE  TypeOK'
  BY <1>8 DEF BindLaneContext, FinishLane, SessionFailures, ApplyFixtureProvenance
<1>9. ASSUME NEW how \in LaneStatus, RunnerEnds(how)
      PROVE  TypeOK'
  BY <1>9 DEF RunnerEnds, FinishLane, SessionFailures, ApplyFixtureProvenance
<1>10. ASSUME WriteManifest
      PROVE  TypeOK'
  BY <1>10 DEF WriteManifest
<1>11. ASSUME WriteReport
      PROVE  TypeOK'
  <2>1. AggregateStatus \in LaneStatus
    BY <1>11, ReportedStatuses DEF WriteReport
  <2>2. \A r \in report' :
          r \in [taint : {"clean", "fixture_tainted"}, fixtureIds : SUBSET Known,
                status : LaneStatus,
                full : {"not_claimable_fixture", "not_evaluated", "passed", "failed"}]
    BY <1>11, <2>1 DEF WriteReport, FullImplementationStatus
  <2> QED BY <1>11, <2>2 DEF WriteReport
<1>12. ASSUME RunnerStartsCase
      PROVE  TypeOK'
  BY <1>12 DEF RunnerStartsCase
<1>13. ASSUME NEW l \in Lanes, NEW f \in Known \cup Unknown \cup {NoFixture}, RunnerSelectsFixture(l, f)
      PROVE  TypeOK'
  BY <1>13 DEF RunnerSelectsFixture
<1>14. ASSUME NEW r \in Repos, RepositoryMoves(r)
      PROVE  TypeOK'
  BY <1>14 DEF RepositoryMoves
<1>15. ASSUME Terminated \/ UNCHANGED vars
      PROVE  TypeOK'
  BY <1>15, ZenonT(40) DEF Terminated, vars
<1>16. ASSUME RunRaises
      PROVE  TypeOK'
  BY <1>16 DEF RunRaises
<1> QED
  BY <1>1, <1>2, <1>3, <1>4, <1>5, <1>6, <1>7, <1>8,
     <1>9, <1>10, <1>11, <1>12, <1>13, <1>14, <1>15, <1>16
  DEF Next, ControllerStep

\* The taint binding and the binding of the snapshot are preserved.
LEMMA TaintStep ==
    ASSUME IndInv, [Next]_vars
    PROVE  TaintMatchesIds' /\ FrozenInv' /\ FreshInv'
<1> USE DEF IndInv, TypeOK, TaintMatchesIds, FrozenInv, FreshInv, taintVars, repoVars, inputVars, outVars
<1>1. ASSUME NEW lanes \in SUBSET Lanes, NEW failures \in SUBSET Lanes, BeginRun(lanes, failures)
      PROVE  TaintMatchesIds' /\ FrozenInv' /\ FreshInv'
  BY <1>1 DEF BeginRun, ApplyFixtureProvenance, Resolvable
<1>2. ASSUME NEW lanes \in SUBSET Lanes, BeginRunRefused(lanes)
      PROVE  TaintMatchesIds' /\ FrozenInv' /\ FreshInv'
  BY <1>2 DEF BeginRunRefused, ApplyFixtureProvenance, Resolvable
<1>3. ASSUME NEW l \in Lanes, NEW how \in LaneStatus, RefuseLane(l, how)
      PROVE  TaintMatchesIds' /\ FrozenInv' /\ FreshInv'
  BY <1>3 DEF RefuseLane, FinishLane, NextLane, PreflightOutcomes
<1>4. ASSUME NEW l \in Lanes, OpenSession(l)
      PROVE  TaintMatchesIds' /\ FrozenInv' /\ FreshInv'
  BY <1>4 DEF OpenSession, NextLane, PreflightOutcomes
<1>5. ASSUME NEW how \in LaneStatus, SessionFails(how)
      PROVE  TaintMatchesIds' /\ FrozenInv' /\ FreshInv'
  BY <1>5 DEF SessionFails, FinishLane, SessionFailures
<1>6. ASSUME NEW kind \in SubjectKinds, HelloKindMismatch(kind)
      PROVE  TaintMatchesIds' /\ FrozenInv' /\ FreshInv'
  BY <1>6 DEF HelloKindMismatch, FinishLane, SessionFailures
<1>7. ASSUME NEW how \in LaneStatus, HelloUnsupported(how)
      PROVE  TaintMatchesIds' /\ FrozenInv' /\ FreshInv'
  BY <1>7 DEF HelloUnsupported, FinishLane, SessionFailures
<1>8. ASSUME BindLaneContext
      PROVE  TaintMatchesIds' /\ FrozenInv' /\ FreshInv'
  BY <1>8 DEF BindLaneContext, FinishLane, SessionFailures, ApplyFixtureProvenance
<1>9. ASSUME NEW how \in LaneStatus, RunnerEnds(how)
      PROVE  TaintMatchesIds' /\ FrozenInv' /\ FreshInv'
  BY <1>9 DEF RunnerEnds, FinishLane, SessionFailures, ApplyFixtureProvenance
<1>10. ASSUME WriteManifest
      PROVE  TaintMatchesIds' /\ FrozenInv' /\ FreshInv'
  BY <1>10 DEF WriteManifest
<1>11. ASSUME WriteReport
      PROVE  TaintMatchesIds' /\ FrozenInv' /\ FreshInv'
  BY <1>11 DEF WriteReport
<1>12. ASSUME RunnerStartsCase
      PROVE  TaintMatchesIds' /\ FrozenInv' /\ FreshInv'
  BY <1>12 DEF RunnerStartsCase
<1>13. ASSUME NEW l \in Lanes, NEW f \in Known \cup Unknown \cup {NoFixture}, RunnerSelectsFixture(l, f)
      PROVE  TaintMatchesIds' /\ FrozenInv' /\ FreshInv'
  BY <1>13 DEF RunnerSelectsFixture
<1>14. ASSUME NEW r \in Repos, RepositoryMoves(r)
      PROVE  TaintMatchesIds' /\ FrozenInv' /\ FreshInv'
  BY <1>14 DEF RepositoryMoves
<1>15. ASSUME Terminated \/ UNCHANGED vars
      PROVE  TaintMatchesIds' /\ FrozenInv' /\ FreshInv'
  BY <1>15 DEF Terminated, vars
<1>16. ASSUME RunRaises
      PROVE  TaintMatchesIds' /\ FrozenInv' /\ FreshInv'
  BY <1>16 DEF RunRaises
<1> QED
  BY <1>1, <1>2, <1>3, <1>4, <1>5, <1>6, <1>7, <1>8,
     <1>9, <1>10, <1>11, <1>12, <1>13, <1>14, <1>15, <1>16
  DEF Next, ControllerStep

\* What sessions, passed results and progress stand for is preserved.
LEMMA LaneStep ==
    ASSUME IndInv, [Next]_vars
    PROVE  SessionInv' /\ PassedInv' /\ ProgressInv'
<1> USE DEF IndInv, TypeOK, FreshInv, SessionInv, PassedInv, ProgressInv, taintVars, repoVars, inputVars, outVars
<1>1. ASSUME NEW lanes \in SUBSET Lanes, NEW failures \in SUBSET Lanes, BeginRun(lanes, failures)
      PROVE  SessionInv' /\ PassedInv' /\ ProgressInv'
  BY <1>1 DEF BeginRun, ApplyFixtureProvenance, Resolvable
<1>2. ASSUME NEW lanes \in SUBSET Lanes, BeginRunRefused(lanes)
      PROVE  SessionInv' /\ PassedInv' /\ ProgressInv'
  BY <1>2 DEF BeginRunRefused, ApplyFixtureProvenance, Resolvable
<1>3. ASSUME NEW l \in Lanes, NEW how \in LaneStatus, RefuseLane(l, how)
      PROVE  SessionInv' /\ PassedInv' /\ ProgressInv'
  BY <1>3 DEF RefuseLane, FinishLane, NextLane, PreflightOutcomes
<1>4. ASSUME NEW l \in Lanes, OpenSession(l)
      PROVE  SessionInv' /\ PassedInv' /\ ProgressInv'
  BY <1>4 DEF OpenSession, NextLane, PreflightOutcomes
<1>5. ASSUME NEW how \in LaneStatus, SessionFails(how)
      PROVE  SessionInv' /\ PassedInv' /\ ProgressInv'
  BY <1>5 DEF SessionFails, FinishLane, SessionFailures
<1>6. ASSUME NEW kind \in SubjectKinds, HelloKindMismatch(kind)
      PROVE  SessionInv' /\ PassedInv' /\ ProgressInv'
  BY <1>6 DEF HelloKindMismatch, FinishLane, SessionFailures
<1>7. ASSUME NEW how \in LaneStatus, HelloUnsupported(how)
      PROVE  SessionInv' /\ PassedInv' /\ ProgressInv'
  BY <1>7 DEF HelloUnsupported, FinishLane, SessionFailures
<1>8. ASSUME BindLaneContext
      PROVE  SessionInv' /\ PassedInv' /\ ProgressInv'
  BY <1>8, ZenonT(40) DEF BindLaneContext, FinishLane, SessionFailures, ApplyFixtureProvenance
<1>9. ASSUME NEW how \in LaneStatus, RunnerEnds(how)
      PROVE  SessionInv' /\ PassedInv' /\ ProgressInv'
  BY <1>9 DEF RunnerEnds, FinishLane, SessionFailures, ApplyFixtureProvenance
<1>10. ASSUME WriteManifest
      PROVE  SessionInv' /\ PassedInv' /\ ProgressInv'
  BY <1>10 DEF WriteManifest
<1>11. ASSUME WriteReport
      PROVE  SessionInv' /\ PassedInv' /\ ProgressInv'
  BY <1>11 DEF WriteReport
<1>12. ASSUME RunnerStartsCase
      PROVE  SessionInv' /\ PassedInv' /\ ProgressInv'
  BY <1>12 DEF RunnerStartsCase
<1>13. ASSUME NEW l \in Lanes, NEW f \in Known \cup Unknown \cup {NoFixture}, RunnerSelectsFixture(l, f)
      PROVE  SessionInv' /\ PassedInv' /\ ProgressInv'
  BY <1>13 DEF RunnerSelectsFixture
<1>14. ASSUME NEW r \in Repos, RepositoryMoves(r)
      PROVE  SessionInv' /\ PassedInv' /\ ProgressInv'
  BY <1>14 DEF RepositoryMoves
<1>15. ASSUME Terminated \/ UNCHANGED vars
      PROVE  SessionInv' /\ PassedInv' /\ ProgressInv'
  <2>1. UNCHANGED vars  BY <1>15 DEF Terminated
  <2>2. SessionInv'  BY <2>1 DEF vars
  <2>3. PassedInv'  BY <2>1 DEF vars
  <2>4. ProgressInv'  BY <2>1 DEF vars
  <2> QED BY <2>2, <2>3, <2>4
<1>16. ASSUME RunRaises
      PROVE  SessionInv' /\ PassedInv' /\ ProgressInv'
  BY <1>16 DEF RunRaises
<1> QED
  BY <1>1, <1>2, <1>3, <1>4, <1>5, <1>6, <1>7, <1>8,
     <1>9, <1>10, <1>11, <1>12, <1>13, <1>14, <1>15, <1>16
  DEF Next, ControllerStep

\* The agreement of seam and snapshot, and the artifacts, are preserved.
LEMMA ArtifactStep ==
    ASSUME IndInv, [Next]_vars
    PROVE  SeamInv' /\ ArtifactInv'
<1> USE DEF IndInv, TypeOK, ProgressInv, SeamInv, ArtifactInv, AggregateStatus, taintVars, repoVars, inputVars, outVars
<1>1. ASSUME NEW lanes \in SUBSET Lanes, NEW failures \in SUBSET Lanes, BeginRun(lanes, failures)
      PROVE  SeamInv' /\ ArtifactInv'
  BY <1>1 DEF BeginRun, ApplyFixtureProvenance, Resolvable
<1>2. ASSUME NEW lanes \in SUBSET Lanes, BeginRunRefused(lanes)
      PROVE  SeamInv' /\ ArtifactInv'
  BY <1>2 DEF BeginRunRefused, ApplyFixtureProvenance, Resolvable
<1>3. ASSUME NEW l \in Lanes, NEW how \in LaneStatus, RefuseLane(l, how)
      PROVE  SeamInv' /\ ArtifactInv'
  BY <1>3 DEF RefuseLane, FinishLane, NextLane, PreflightOutcomes, SessionFailures
<1>4. ASSUME NEW l \in Lanes, OpenSession(l)
      PROVE  SeamInv' /\ ArtifactInv'
  BY <1>4 DEF OpenSession, NextLane, PreflightOutcomes
<1>5. ASSUME NEW how \in LaneStatus, SessionFails(how)
      PROVE  SeamInv' /\ ArtifactInv'
  BY <1>5 DEF SessionFails, FinishLane, SessionFailures
<1>6. ASSUME NEW kind \in SubjectKinds, HelloKindMismatch(kind)
      PROVE  SeamInv' /\ ArtifactInv'
  BY <1>6 DEF HelloKindMismatch, FinishLane, SessionFailures
<1>7. ASSUME NEW how \in LaneStatus, HelloUnsupported(how)
      PROVE  SeamInv' /\ ArtifactInv'
  BY <1>7 DEF HelloUnsupported, FinishLane, SessionFailures
<1>8. ASSUME BindLaneContext
      PROVE  SeamInv' /\ ArtifactInv'
  BY <1>8 DEF BindLaneContext, FinishLane, SessionFailures, ApplyFixtureProvenance
<1>9. ASSUME NEW how \in LaneStatus, RunnerEnds(how)
      PROVE  SeamInv' /\ ArtifactInv'
  BY <1>9 DEF RunnerEnds, FinishLane, SessionFailures, ApplyFixtureProvenance, Disagreeing
<1>10. ASSUME WriteManifest
      PROVE  SeamInv' /\ ArtifactInv'
  BY <1>10 DEF WriteManifest
<1>11. ASSUME WriteReport
      PROVE  SeamInv' /\ ArtifactInv'
  BY <1>11 DEF WriteReport
<1>12. ASSUME RunnerStartsCase
      PROVE  SeamInv' /\ ArtifactInv'
  BY <1>12 DEF RunnerStartsCase
<1>13. ASSUME NEW l \in Lanes, NEW f \in Known \cup Unknown \cup {NoFixture}, RunnerSelectsFixture(l, f)
      PROVE  SeamInv' /\ ArtifactInv'
  BY <1>13 DEF RunnerSelectsFixture
<1>14. ASSUME NEW r \in Repos, RepositoryMoves(r)
      PROVE  SeamInv' /\ ArtifactInv'
  BY <1>14 DEF RepositoryMoves
<1>15. ASSUME Terminated \/ UNCHANGED vars
      PROVE  SeamInv' /\ ArtifactInv'
  <2>1. UNCHANGED vars  BY <1>15 DEF Terminated
  <2>2. SeamInv'  BY <2>1 DEF vars
  <2>3. ArtifactInv'  BY <2>1 DEF vars
  <2> QED BY <2>2, <2>3
<1>16. ASSUME RunRaises
      PROVE  SeamInv' /\ ArtifactInv'
  BY <1>16 DEF RunRaises
<1> QED
  BY <1>1, <1>2, <1>3, <1>4, <1>5, <1>6, <1>7, <1>8,
     <1>9, <1>10, <1>11, <1>12, <1>13, <1>14, <1>15, <1>16
  DEF Next, ControllerStep

-----------------------------------------------------------------------------
\* The strengthened invariant holds in every reachable state of a run.
THEOREM InductiveInvariant == Spec => []IndInv
<1>1. Init => IndInv
  <2> SUFFICES ASSUME Init PROVE IndInv
    OBVIOUS
  <2>1. TypeOK
    BY LaneAssumption DEF Init, TypeOK
  <2>2. TaintMatchesIds /\ FreshInv /\ FrozenInv /\ SessionInv /\ ProgressInv /\ SeamInv
    BY DEF Init, TaintMatchesIds, FreshInv, FrozenInv, SessionInv, ProgressInv, SeamInv
  <2>3. PassedInv
    BY DEF Init, PassedInv
  <2>4. ArtifactInv
    BY DEF Init, ArtifactInv
  <2> QED BY <2>1, <2>2, <2>3, <2>4 DEF IndInv
<1>2. IndInv /\ [Next]_vars => IndInv'
  BY TypeStep, TaintStep, LaneStep, ArtifactStep DEF IndInv
<1> QED BY <1>1, <1>2, PTL DEF Spec

\* Every state of a run is well typed.
THEOREM TypeCorrect == Spec => []TypeOK
<1>1. IndInv => TypeOK  BY DEF IndInv
<1> QED BY <1>1, InductiveInvariant, PTL

\* The taint assertion before manifest.json can never fail.
THEOREM TaintConsistent == Spec => []TaintMatchesIds
<1>1. IndInv => TaintMatchesIds  BY DEF IndInv
<1> QED BY <1>1, InductiveInvariant, PTL

\* No step of any actor returns a tainted run to clean or drops a fixture ID.
THEOREM TaintIsAbsorbing == Spec => TaintAbsorbs
<1>1. ASSUME IndInv, [Next]_vars, taint = "fixture_tainted"
      PROVE  taint' = "fixture_tainted" /\ fixtureIds \subseteq fixtureIds'
  <2> DEFINE Goal == taint' = "fixture_tainted" /\ fixtureIds \subseteq fixtureIds'
  <2>1. ASSUME NEW s, ApplyFixtureProvenance(s)  PROVE Goal
    BY <1>1, <2>1, ApplyLemma DEF IndInv
  <2>2. ASSUME UNCHANGED taintVars  PROVE Goal
    BY <1>1, <2>2 DEF taintVars
  <2>3. \/ \E ss : ApplyFixtureProvenance(ss)
        \/ UNCHANGED taintVars
    <3>1. CASE ControllerStep
      BY <3>1 DEF ControllerStep, BeginRun, BeginRunRefused, RefuseLane, OpenSession,
                  SessionFails, HelloKindMismatch, HelloUnsupported, BindLaneContext,
                  RunnerEnds, WriteManifest, WriteReport
    <3>2. CASE RunnerStartsCase \/ RunRaises \/ UNCHANGED vars \/ Terminated
      BY <3>2 DEF RunnerStartsCase, RunRaises, Terminated, vars
    <3>3. CASE \E l \in Lanes, f \in Known \cup Unknown \cup {NoFixture} :
                 RunnerSelectsFixture(l, f)
      BY <3>3 DEF RunnerSelectsFixture
    <3>4. CASE \E rep \in Repos : RepositoryMoves(rep)
      BY <3>4 DEF RepositoryMoves
    <3> QED BY <1>1, <3>1, <3>2, <3>3, <3>4 DEF Next
  <2> QED BY <2>1, <2>2, <2>3
<1>2. [Next]_vars /\ IndInv =>
        [taint = "fixture_tainted" =>
           taint' = "fixture_tainted" /\ fixtureIds \subseteq fixtureIds']_vars
  BY <1>1
<1> QED BY <1>2, InductiveInvariant, PTL DEF Spec, TaintAbsorbs

\* A claimable report is earned: all required lanes passed with cases run
\* against implementations, no fixture anywhere, both repositories unmoved.
THEOREM ClaimableSound == Spec => []ClaimableIsEarned
<1>1. ASSUME IndInv, NEW r \in report, r.full = "passed"
      PROVE  /\ selected = Required
             /\ \A l \in Required :
                  /\ results[l] = "passed" /\ l \in started
                  /\ presented[l] = "implementation"
                  /\ frozen[l] = NoFixture /\ seam[l] = NoFixture
                  /\ l \notin thresholdFailures
             /\ fixtureIds = {} /\ sourceMatches /\ ~certError
             /\ heads = headsBefore
  <2>1. pc = "done"
    BY <1>1 DEF IndInv, ArtifactInv
  <2>2. /\ taint # "fixture_tainted" /\ subjectKind # "fixture" /\ selected = Required
        /\ AggregateStatus = "passed" /\ evidenceValid /\ sourceMatches
    BY <1>1, <2>1 DEF IndInv, ArtifactInv, FullImplementationStatus
  <2>3. fixtureIds = {}
    BY <1>1, <2>2 DEF IndInv, TypeOK, TaintMatchesIds
  <2>4. \A l \in selected : results[l] = "passed"
    <3>1. {results[l] : l \in selected} \in SUBSET LaneStatus
      BY <1>1, <2>1, ReportedStatuses DEF IndInv
    <3> QED BY <3>1, <2>2, AggregateLemma DEF AggregateStatus
  <2>5. \A l \in selected : l \in Lanes
    BY <1>1 DEF IndInv, TypeOK
  <2>6. \A l \in selected : /\ l \in started /\ l \notin thresholdFailures /\ ~certError
                            /\ presented[l] = "implementation"
    BY <1>1, <2>2, <2>4, <2>5 DEF IndInv, TypeOK, PassedInv
  <2>7. \A l \in selected : seam[l] = frozen[l]
    BY <1>1, <2>1, <2>4 DEF IndInv, SeamInv, SessionFailures
  <2>8. \A l \in selected : frozen[l] = NoFixture
    BY <1>1, <2>1, <2>3, <2>5 DEF IndInv, TypeOK, FrozenInv
  <2>9. heads = headsBefore
    BY <1>1, <2>1, <2>2 DEF IndInv, ArtifactInv
  <2> QED
    BY <2>2, <2>3, <2>4, <2>6, <2>7, <2>8, <2>9, LaneAssumption
<1>2. IndInv => ClaimableIsEarned
  BY <1>1 DEF ClaimableIsEarned
<1> QED BY <1>2, InductiveInvariant, PTL

\* A selection rebound behind a runner's back always costs the run its status.
THEOREM LateSelectionFails == Spec => []LateSelectionFailsRun
<1>1. ASSUME IndInv, NEW r \in report, Disagreeing # {}
      PROVE  r.status \in {"contract_failed", "infrastructure_failed"}
  <2>1. pc = "done" /\ r.status = AggregateStatus
    BY <1>1 DEF IndInv, ArtifactInv
  <2>2. {results[l] : l \in selected} \cap SessionFailures # {}
    BY <1>1, <2>1 DEF IndInv, SeamInv, Disagreeing
  <2>3. {results[l] : l \in selected} \in SUBSET LaneStatus
    BY <1>1, <2>1, ReportedStatuses DEF IndInv
  <2> QED BY <2>1, <2>2, <2>3, AggregateLemma DEF AggregateStatus, SessionFailures
<1>2. IndInv => LateSelectionFailsRun
  BY <1>1 DEF LateSelectionFailsRun
<1> QED BY <1>2, InductiveInvariant, PTL

-----------------------------------------------------------------------------
(* The persistence fault, whatever lane and case it is injected for *)

\* The whole replacement.
Replaced == Content("replacement", "whole")

\* The labels at which the target's content has been checked and not replaced.
Untouched == {"reader", "first", "replace", "read", "mutate"}

\* The evidence is a record, of the target that was checked.
EvidenceInv ==
    evidence = [action |-> evidence.action, terminated |-> evidence.terminated,
                before |-> Staged, after |-> evidence.after, reads |-> evidence.reads]

\* A label belongs to some kinds of fault.
PlaceInv ==
    /\ fpc \in {"recheck", "kill", "await"} => fault \in ProcessFaults
    /\ fpc \in {"reader", "first", "join"} => fault = "concurrent_reader_writer"
    /\ fpc = "replace" => fault \in ReplacementFaults
    /\ fpc = "read" => fault = "corruption"
    /\ fpc = "mutate" => fault \notin ReplacementFaults \cup ProcessFaults \cup {"none"}
    /\ fpc = "after" => fault \notin ProcessFaults \cup {"none"}
    /\ fpc = "await" => hit # "none"

\* Nobody but the staged process changes the checked target before the fault
\* does, and the byte flip is of the checked bytes.
TargetInv ==
    /\ fpc \in Untouched => wrote \/ target = Staged
    /\ fpc = "mutate" /\ fault = "corruption" => wrote \/ bytes = Staged
    /\ fpc = "join" => wrote \/ target = Replaced
    /\ fpc = "after" => wrote \/ target = Intended

\* The reader runs for one fault, from its start to its join, and sees the
\* checked file or the whole replacement.
ReaderInv ==
    /\ fpc \in {"first", "join"} => reader # "off"
    /\ fpc = "replace" => (reader # "off") = (fault = "concurrent_reader_writer")
    /\ fpc \notin {"first", "replace", "join", "raised", "blocked"} => reader \in {"off", "done"}
    /\ fpc \in {"process", "files", "reader", "read", "mutate"} => reader = "off"
    /\ fpc \in {"process", "files", "reader"} => reads = {}
    /\ fpc \in {"first", "replace"} => wrote \/ reads \subseteq {Staged}
    /\ fpc = "join" => wrote \/ reads \subseteq {Staged, Replaced}
    /\ fpc \notin {"after", "returned", "raised", "blocked"} => evidence.reads = {}
    /\ fpc = "after" => /\ wrote \/ evidence.reads \subseteq {Staged, Replaced}
                        /\ fault = "concurrent_reader_writer" => evidence.reads # {}
                        /\ fault # "concurrent_reader_writer" => evidence.reads = {}

FaultInv == EvidenceInv /\ PlaceInv /\ TargetInv /\ ReaderInv /\ FaultIsReal

\* The invariant holds before a fault is staged.
LEMMA FaultStarts == FaultIdle => FaultInv
BY DEF FaultIdle, FaultInv, EvidenceInv, PlaceInv, TargetInv, ReaderInv, FaultIsReal,
     NoEvidence, Untouched

\* Staging the files and the process of a case starts it anew.
LEMMA FaultStaged == ASSUME NEW f, NEW s, StageRuntime(f, s) PROVE FaultInv'
BY DEF StageRuntime, FaultInv, EvidenceInv, PlaceInv, TargetInv, ReaderInv, FaultIsReal,
     NoEvidence, Untouched

\* What a fault is meant to leave depends on the fault only.
LEMMA IntendedKept == fault' = fault => Intended' = Intended
BY DEF Intended, Mutated

\* Every step of the injection and of the staged process keeps the invariant.
LEMMA FaultInvariance == ASSUME FaultInv, Inject \/ World \/ FaultBlocks PROVE FaultInv'
<1> USE DEF Goto, Raise
<1>1. fault' = fault /\ Intended' = Intended
  BY IntendedKept DEF Inject, World, CheckProcess, CheckFiles, RecheckProcess, Terminate,
       AwaitStopped, StartReader, FirstRead, Replace, ReplaceFails, JoinReader, ReadTarget,
       Mutate, InspectTarget, ReaderReads, ProcessExits, PidRecycled, StrangerExits,
       ProcessWrites, FaultBlocks
<1>2. CASE CheckProcess
  BY <1>2 DEF CheckProcess, FaultInv, EvidenceInv, PlaceInv, TargetInv, ReaderInv,
       FaultIsReal, Untouched
<1>3. CASE CheckFiles
  BY <1>3 DEF CheckFiles, FilesRefused, NextPc, FaultInv, EvidenceInv, PlaceInv, TargetInv,
       ReaderInv, FaultIsReal, Untouched, ProcessFaults, ReplacementFaults, MutationFaults
<1>4. CASE RecheckProcess
  BY <1>4 DEF RecheckProcess, FaultInv, EvidenceInv, PlaceInv, TargetInv, ReaderInv,
       FaultIsReal, Untouched
<1>5. CASE Terminate
  BY <1>5 DEF Terminate, FaultInv, EvidenceInv, PlaceInv, TargetInv, ReaderInv, FaultIsReal,
       Untouched
<1>6. CASE AwaitStopped
  <2>1. CASE proc # "gone"
    BY <1>6, <2>1 DEF AwaitStopped, FaultInv, EvidenceInv, PlaceInv, TargetInv, ReaderInv,
         FaultIsReal, Untouched
  <2>2. CASE proc = "gone"
    <3> PICK a, t, b, r :
          evidence = [action |-> a, terminated |-> t, before |-> Staged, after |-> b, reads |-> r]
      BY DEF FaultInv, EvidenceInv
    <3>0. evidence' = [evidence EXCEPT !.action = "sigterm", !.terminated = TRUE]
      BY <1>6, <2>2 DEF AwaitStopped
    <3>1. /\ fpc = "await" /\ fpc' = "returned" /\ proc' = "gone" /\ hit' = hit /\ reader' = reader
          /\ evidence' = [action |-> "sigterm", terminated |-> TRUE, before |-> Staged,
                          after |-> b, reads |-> r]
      BY <1>6, <2>2, <3>0 DEF AwaitStopped
    <3>2. evidence'.terminated = TRUE
      BY <3>1
    <3>3. evidence'.terminated
      BY <3>2, Zenon
    <3>4. FaultIsReal'
      BY <3>3, <1>1, <3>1 DEF FaultInv, PlaceInv, FaultIsReal, ProcessFaults,
           ReplacementFaults, MutationFaults
    <3> QED BY <1>1, <3>1, <3>4 DEF FaultInv, EvidenceInv, PlaceInv, TargetInv, ReaderInv, Untouched
  <2> QED BY <2>1, <2>2
<1>7. CASE StartReader
  BY <1>7 DEF StartReader, FaultInv, EvidenceInv, PlaceInv, TargetInv, ReaderInv,
       FaultIsReal, Untouched, ReplacementFaults
<1>8. CASE FirstRead
  BY <1>8 DEF FirstRead, FaultInv, EvidenceInv, PlaceInv, TargetInv, ReaderInv, FaultIsReal,
       Untouched, ReplacementFaults
<1>9. CASE Replace
  BY <1>9 DEF Replace, FaultInv, EvidenceInv, PlaceInv, TargetInv, ReaderInv, FaultIsReal,
       Untouched, ReplacementFaults, ProcessFaults, Replaced, Intended
<1>10. CASE ReplaceFails
  BY <1>10 DEF ReplaceFails, FaultInv, EvidenceInv, PlaceInv, TargetInv, ReaderInv,
       FaultIsReal, Untouched
<1>11. CASE JoinReader
  BY <1>11 DEF JoinReader, FaultInv, EvidenceInv, PlaceInv, TargetInv, ReaderInv,
       FaultIsReal, Untouched, ReplacementFaults, ProcessFaults, Replaced, Intended
<1>12. CASE ReadTarget
  BY <1>12 DEF ReadTarget, FaultInv, EvidenceInv, PlaceInv, TargetInv, ReaderInv,
       FaultIsReal, Untouched, ReplacementFaults, ProcessFaults
<1>13. CASE Mutate
  <2>1. wrote \/ target' = Intended
    BY <1>13 DEF Mutate, FaultInv, PlaceInv, TargetInv, Untouched, Intended
  <2> QED
    BY <1>1, <1>13, <2>1 DEF Mutate, FaultInv, EvidenceInv, PlaceInv, TargetInv,
         ReaderInv, FaultIsReal, Untouched, ReplacementFaults, ProcessFaults
<1>14. CASE InspectTarget
  <2>1. /\ fpc = "after" /\ fpc' \in {"raised", "returned"}
        /\ evidence' = [action |-> evidence.action, terminated |-> evidence.terminated,
                        before |-> Staged, after |-> target, reads |-> evidence.reads]
        /\ fpc' = "returned" => target # Staged
        /\ wrote' = wrote /\ reader' = reader
    BY <1>14 DEF InspectTarget, FaultInv, EvidenceInv
  <2>2. fault = "concurrent_reader_writer" => Intended = Replaced
    BY DEF Intended, Replaced, ReplacementFaults
  <2>3. /\ evidence'.after = target /\ evidence'.before = Staged
        /\ evidence'.reads = evidence.reads
    BY <2>1
  <2>4. FaultIsReal'
    BY <1>1, <2>1, <2>2, <2>3, Zenon DEF FaultInv, PlaceInv, TargetInv, ReaderInv, FaultIsReal
  <2> QED
    BY <1>1, <2>1, <2>3, <2>4 DEF FaultInv, EvidenceInv, PlaceInv, TargetInv, ReaderInv,
         Untouched
<1>15. CASE ReaderReads
  BY <1>15 DEF ReaderReads, FaultInv, EvidenceInv, PlaceInv, TargetInv, ReaderInv,
       FaultIsReal, Untouched, ReplacementFaults, Replaced
<1>16. CASE ProcessExits \/ PidRecycled \/ StrangerExits
  BY <1>1, <1>16 DEF ProcessExits, PidRecycled, StrangerExits, Injecting, FaultInv,
       EvidenceInv, PlaceInv, TargetInv, ReaderInv, FaultIsReal, Untouched
<1>17. CASE ProcessWrites
  BY <1>17 DEF ProcessWrites, Injecting, FaultInv, EvidenceInv, PlaceInv, TargetInv,
       ReaderInv, FaultIsReal, Untouched
<1>18. CASE FaultBlocks
  <2>1. fpc' = "blocked" /\ evidence' = evidence /\ reader' = reader
    BY <1>18 DEF FaultBlocks
  <2>2. EvidenceInv' /\ PlaceInv' /\ TargetInv' /\ FaultIsReal'
    BY <2>1 DEF FaultInv, EvidenceInv, PlaceInv, TargetInv, FaultIsReal, Untouched
  <2> QED BY <2>1, <2>2 DEF FaultInv, ReaderInv
<1> QED
  BY <1>2, <1>3, <1>4, <1>5, <1>6, <1>7, <1>8, <1>9, <1>10, <1>11, <1>12, <1>13, <1>14,
       <1>15, <1>16, <1>17, <1>18 DEF Inject, World

\* So does every step that leaves the fault's state alone.
LEMMA FaultStutters == ASSUME FaultInv, UNCHANGED fvars PROVE FaultInv'
BY IntendedKept DEF fvars, FaultInv, EvidenceInv, PlaceInv, TargetInv, ReaderInv, FaultIsReal,
     Untouched

\* Of a lane's steps only the staging, the injection and the staged process
\* with its system touch the fault's state.
LEMMA JudgeTouches ==
    ASSUME [JudgeNext]_judgeVars
    PROVE  (\E f, s : StageRuntime(f, s)) \/ Inject \/ World \/ FaultBlocks \/ UNCHANGED fvars
<1>1. CASE StageStep
  BY <1>1 DEF StageStep
<1>2. CASE InjectStep \/ WorldStep \/ BlockStep
  BY <1>2 DEF InjectStep, WorldStep, BlockStep
<1>3. CASE case_open \/ FixtureStep \/ CoreStep
  BY <1>3 DEF case_open, FixtureStep, CoreStep
<1>4. CASE SchedulerStep \/ RequestStep \/ RecoverStep
  BY <1>4 DEF SchedulerStep, RequestStep, RecoverStep
<1>5. CASE CollectedStep \/ SharedStep \/ StartOracle \/ MlxStep
  BY <1>5 DEF CollectedStep, SharedStep, StartOracle, MlxStep
<1>6. CASE FfiUnavailable \/ FfiOracleStep \/ FfiCandidateStep
  BY <1>6 DEF FfiUnavailable, FfiOracleStep, FfiCandidateStep
<1>7. CASE case_close \/ Judge
  BY <1>7 DEF case_close, Judge
<1>8. CASE UNCHANGED judgeVars
  BY <1>8 DEF judgeVars
<1> QED
  BY <1>1, <1>2, <1>3, <1>4, <1>5, <1>6, <1>7, <1>8 DEF JudgeNext, BenchmarkNext

\* The custody evidence apply_persistence_fault returns is of a fault that
\* happened: in every lane, whenever the staged process exits, its PID is given
\* away, it rewrites its file, or the reader is stuck.
THEOREM FaultReal == JudgeSpec => []FaultIsReal
<1>1. JudgeInit => FaultInv
  BY FaultStarts DEF JudgeInit
<1>2. FaultInv /\ [JudgeNext]_judgeVars => FaultInv'
  BY JudgeTouches, FaultStaged, FaultInvariance, FaultStutters
<1>3. FaultInv => FaultIsReal
  BY DEF FaultInv
<1> QED BY <1>1, <1>2, <1>3, PTL DEF JudgeSpec
=============================================================================
