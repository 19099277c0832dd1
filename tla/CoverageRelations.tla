--------------------------- MODULE CoverageRelations ---------------------------
(***************************************************************************)
(* Phases B to E of the coverage compiler on one traceability ledger: the   *)
(* validation-only sweep (stages 29 to 40), the derivation of the           *)
(* enforcement paths, the streams that are digested and the expected keys.  *)
(*                                                                         *)
(* A ledger l is a record of the arrays the compiler joins: the lanes of    *)
(* the expectation, the obligations of the catalog, and the entity arrays   *)
(* of the ledger, whose names are the code's.  Accepted is the ledger whose *)
(* sizes the code holds as literals (12 lanes, 46 obligations, 58 gates...);*)
(* every such literal is a size of Accepted here.                           *)
(***************************************************************************)
EXTENDS Naturals, Sequences, FiniteSets, FiniteSetsExt, SequencesExt

CONSTANTS
    Accepted,   \* the ledger of the accepted design
    Caps        \* the degree and count caps of CompileLimits

None == "absent"

-----------------------------------------------------------------------------
(* Reading the ledger *)

Count(s, P(_)) == Cardinality({i \in DOMAIN s : P(s[i])})

\* The value a dict built from a sequence of pairs holds for k: the last one.
Lookup(s, k) ==
    LET hits == {i \in DOMAIN s : s[i][1] = k}
    IN  IF hits = {} THEN None ELSE s[Max(hits)][2]

LaneIds(l)     == {n.id : n \in ToSet(l.lanes)}
Required(l)    == SelectSeq(l.obligations, LAMBDA o : o.required)
RequiredIds(l) == {o.id : o \in ToSet(Required(l))}
GateIds(l)     == {g[2] : g \in ToSet(l.gates)}

\* The case plans a lane's matrices expand to.
CaseIds(n) == {<<n.id, k>> : k \in 1..n.plans}

PairsOf(l, lane)   == {p \in ToSet(l.obligation_gate_pairs) : p[1] = lane}
BundlesOf(l, lane) == {b \in ToSet(l.evidence_bundles) : b[1] = lane}
Degree(l, lane) ==
    Count(l.evidence_bundle_memberships,
          LAMBDA r : <<lane, r[1]>> \in ToSet(l.evidence_bundles))

-----------------------------------------------------------------------------
(* Stages 29 and 30: references and complete-record duplicates *)

unknown_entity(l) ==
    \/ \E o \in ToSet(l.obligations) :
          ~ \E n \in ToSet(l.lanes) : n.id = o.lane /\ o.case \in ToSet(n.cases)
    \/ \E r \in ToSet(l.obligation_to_judge) :
          r[1] \notin RequiredIds(l) \/ r[2] \notin ToSet(l.judge_ids)
    \/ \E r \in ToSet(l.evidence_bundle_memberships) :
          \/ \A b \in ToSet(l.evidence_bundles) : b[2] # r[1]
          \/ r[2] \notin ToSet(l.evidence_source_ids)
    \/ \E f \in {"evidence_bundles", "lane_contexts", "post_gate_outputs", "gates"} :
          \E r \in ToSet(l[f]) : r[1] \notin LaneIds(l)
    \/ \E p \in ToSet(l.obligation_gate_pairs) :
          \/ p[1] \notin LaneIds(l)
          \/ p[2] \notin RequiredIds(l)
          \/ p[3] \notin GateIds(l)
    \/ \E t \in ToSet(l.judge_negative_tests) : t[1] \notin RequiredIds(l)
    \/ \E t \in ToSet(l.aggregate_negative_tests) \cup ToSet(l.plumbing_negative_tests) :
          t[1] \notin GateIds(l)

duplicate_entity(l) ==
    \E f \in {"obligation_to_judge", "evidence_bundles", "evidence_bundle_memberships",
              "lane_contexts", "post_gate_outputs", "gates", "obligation_gate_pairs"} :
        ~IsInjective(l[f])

-----------------------------------------------------------------------------
(* Stages 31 to 36: nothing is orphaned; an empty base set skips its stage *)

\* Mutation: an obligation that has a judge needs no gate.
orphan_obligation_JudgeOnly(l) ==
    /\ Required(l) # <<>> /\ l.judge_ids # <<>> /\ l.gates # <<>>
    /\ \E o \in RequiredIds(l) : \A r \in ToSet(l.obligation_to_judge) : r[1] # o

orphan_obligation(l) ==
    /\ Required(l) # <<>> /\ l.judge_ids # <<>> /\ l.gates # <<>>
    /\ \E o \in RequiredIds(l) :
          \/ \A r \in ToSet(l.obligation_to_judge) : r[1] # o
          \/ \A p \in ToSet(l.obligation_gate_pairs) : p[2] # o

orphan_case(l) ==
    /\ Required(l) # <<>>
    /\ \E n \in ToSet(l.lanes) : \E c \in ToSet(n.cases) :
          \A o \in ToSet(Required(l)) : <<o.lane, o.case>> # <<n.id, c>>

orphan_judge(l) ==
    \E j \in ToSet(l.judge_ids) : \A r \in ToSet(l.obligation_to_judge) : r[2] # j

orphan_bundle(l) ==
    /\ l.evidence_bundles # <<>>
    /\ \/ \E b \in ToSet(l.evidence_bundles) :
             \A r \in ToSet(l.evidence_bundle_memberships) : r[1] # b[2]
       \/ \E n \in LaneIds(l) : BundlesOf(l, n) = {}

orphan_gate(l) ==
    \E g \in GateIds(l) : \A p \in ToSet(l.obligation_gate_pairs) : p[3] # g

orphan_evidence(l) ==
    \E e \in ToSet(l.evidence_source_ids) :
        \A r \in ToSet(l.evidence_bundle_memberships) : r[2] # e

-----------------------------------------------------------------------------
(* The counters of the sweep, and stage 37: relations and counts *)

PairCount(l) == MapThenSumSet(LAMBDA n : Count(l.obligation_gate_pairs, LAMBDA p : p[1] = n.id),
                              ToSet(l.lanes))
PathCount(l) == MapThenSumSet(LAMBDA n : n.plans * Count(l.obligation_gate_pairs,
                                                         LAMBDA p : p[1] = n.id),
                              ToSet(l.lanes))
PathEvidenceCount(l) ==
    MapThenSumSet(LAMBDA n : n.plans * Count(l.obligation_gate_pairs, LAMBDA p : p[1] = n.id)
                                     * Degree(l, n.id),
                  ToSet(l.lanes))
PlanTotal(l) == MapThenSumSet(LAMBDA n : n.plans, ToSet(l.lanes))

\* The frozen part of each total: what does not depend on pairs and paths.
FixedRelations == Len(Required(Accepted)) + Len(Accepted.obligation_to_judge)
                + Len(Accepted.evidence_bundles) + Len(Accepted.evidence_bundle_memberships)
                + Len(Accepted.lane_contexts) + Len(Accepted.post_gate_outputs)
GateNegatives == 2 * Len(Accepted.gates)

KeyCountExec(l) ==
    PlanTotal(Accepted) + Len(l.lane_contexts) + Len(l.post_gate_outputs)
    + 4 * Len(l.gates) + PathEvidenceCount(l) + 3 * PathCount(l)

PerLane(l, f) == [i \in DOMAIN l.lanes |-> Count(l[f], LAMBDA r : r[1] = l.lanes[i].id)]
LaneCounts(l) ==
    [obligations |-> [i \in DOMAIN l.lanes |->
                        Count(Required(l), LAMBDA o : o.lane = l.lanes[i].id)],
     plans       |-> [i \in DOMAIN l.lanes |-> l.lanes[i].plans],
     gates       |-> PerLane(l, "gates"),
     raw         |-> [i \in DOMAIN l.lanes |-> Degree(l, l.lanes[i].id)],
     contexts    |-> PerLane(l, "lane_contexts"),
     outputs     |-> PerLane(l, "post_gate_outputs")]

\* The arrays whose lengths are declared.
DeclaredArrays ==
    {"lanes", "gates", "judge_ids", "evidence_bundles", "evidence_source_ids", "lane_contexts",
     "post_gate_outputs", "judge_negative_tests", "aggregate_negative_tests",
     "plumbing_negative_tests", "evidence_bundle_memberships"}

Kinds(l, f) == Cardinality({r[2] : r \in ToSet(l[f])})

EntityCount(l) ==
    Len(l.lanes) + MapThenSumSet(LAMBDA n : Len(n.cases), ToSet(l.lanes)) + PlanTotal(l)
    + Len(Required(l)) + Kinds(l, "lane_contexts") + Kinds(l, "post_gate_outputs")
    + MapThenSumSet(LAMBDA f : Len(l[f]),
                    DeclaredArrays \ {"lanes", "lane_contexts", "post_gate_outputs",
                                      "evidence_bundle_memberships"})
    + PathCount(l)

\* The 27 cardinalities a ledger declares when it declares them truthfully.
Cardinalities(l) ==
    LET m == PairCount(l)
        h == PathCount(l)
        r == PathEvidenceCount(l)
    IN  [lengths |-> [f \in DeclaredArrays |-> Len(l[f])], lane_counts |-> LaneCounts(l),
         case_plan_count |-> PlanTotal(l), obligation_count |-> Len(Required(l)),
         artifact_membership_total |-> Len(l.evidence_bundle_memberships)
                                       + Len(l.lane_contexts) + Len(l.post_gate_outputs),
         obligation_gate_pair_count |-> m, enforcement_path_count |-> h,
         path_evidence_record_count |-> r,
         endpoint_reference_count |-> 11 * h + 2 * r + 2 * m
                                      + 2 * (FixedRelations + GateNegatives),
         relation_record_count |-> 4 * h + r + m + FixedRelations + GateNegatives,
         entity_record_count |-> EntityCount(l), key_count_exec |-> KeyCountExec(l)]

LaneOrder(l) == [i \in DOMAIN l.lanes |-> l.lanes[i].id]

relation_mismatch(l) ==
    \/ ~IsInjective([i \in DOMAIN l.obligations |->
                        <<l.obligations[i].lane, l.obligations[i].case>>])
    \/ \E p \in ToSet(l.obligation_gate_pairs) :
          \/ \E o \in ToSet(Required(l)) : o.id = p[2] /\ o.lane # p[1]
          \/ Lookup([i \in DOMAIN l.gates |-> <<l.gates[i][2], l.gates[i][1]>>], p[3]) # p[1]
    \/ l.cardinalities # Cardinalities(l)
    \/ Len(l.obligation_to_judge) # Len(Accepted.obligation_to_judge)
    \/ Len(l.judge_ids) # Len(Accepted.judge_ids)
    \/ Len(Required(l)) # Len(Required(Accepted))
    \/ \E o \in RequiredIds(l) : Count(l.obligation_to_judge, LAMBDA r : r[1] = o) # 1
    \/ \E j \in ToSet(l.judge_ids) : Count(l.obligation_to_judge, LAMBDA r : r[2] = j) # 1
    \/ LaneOrder(l) # LaneOrder(Accepted) \/ LaneCounts(l) # LaneCounts(Accepted)
    \/ \E n \in ToSet(l.lanes) :
          \/ ToSet(n.gates) # {g[2] : g \in {x \in ToSet(l.gates) : x[1] = n.id}}
          \/ Cardinality(BundlesOf(l, n.id)) # 1
          \/ LET kinds(f) == {r[2] : r \in {x \in ToSet(l[f]) : x[1] = n.id}}
                 used == kinds("lane_contexts") \cup kinds("post_gate_outputs")
             IN  \/ ~(used \subseteq n.required_artifacts)
                 \/ Cardinality(n.required_artifacts \ used) # Degree(l, n.id)

-----------------------------------------------------------------------------
(* Stages 38 to 40: degree caps, empty required sets, negative tests *)

\* The paths through an obligation (field 2 of a pair) or a gate (field 3).
PathsOf(l, field, x) ==
    MapThenSumSet(LAMBDA n : n.plans * Count(l.obligation_gate_pairs,
                                 LAMBDA p : p[1] = n.id /\ p[field] = x),
                  ToSet(l.lanes))

degree_cap_exceeded(l) ==
    \/ \E r \in ToSet(l.evidence_bundle_memberships) :
          Count(l.evidence_bundle_memberships, LAMBDA x : x[1] = r[1]) > Caps.evidence
    \/ \E n \in LaneIds(l) :
          \/ Count(l.lane_contexts, LAMBDA r : r[1] = n) > Caps.contexts
          \/ Count(l.post_gate_outputs, LAMBDA r : r[1] = n) > Caps.outputs
    \/ PlanTotal(l) > Caps.plans
    \/ \E f \in {"judge_ids", "evidence_bundles", "evidence_source_ids", "gates",
                 "judge_negative_tests", "aggregate_negative_tests",
                 "plumbing_negative_tests"} : Len(l[f]) > Caps.entities
    \/ Len(Required(l)) > Caps.entities
    \/ PathCount(l) > Caps.paths
    \/ \E o \in RequiredIds(l) : PathsOf(l, 2, o) > Caps.paths_per_obligation
    \/ \E g \in GateIds(l) : PathsOf(l, 3, g) > Caps.paths_per_gate
    \/ \E n \in ToSet(l.lanes) :
          n.plans > 0 /\ Count(l.obligation_gate_pairs, LAMBDA p : p[1] = n.id)
                            > Caps.paths_per_case

empty_required_set(l) ==
    \/ Required(l) = <<>>
    \/ \E f \in {"lanes", "judge_ids", "gates", "evidence_bundles", "evidence_source_ids",
                 "lane_contexts", "post_gate_outputs"} : l[f] = <<>>
    \/ \E n \in ToSet(l.lanes) : n.cases = <<>> \/ n.plans = 0

negative_test_coverage_missing(l) ==
    LET Owned(f, owner) == Count(l[f], LAMBDA t : t[1] = owner)
    IN  \/ \E f \in {"judge_negative_tests", "aggregate_negative_tests",
                     "plumbing_negative_tests"} : Len(l[f]) # Len(Accepted[f])
        \/ \E p \in ToSet(l.obligation_gate_pairs) : Owned("judge_negative_tests", p[2]) # 1
        \/ \E g \in GateIds(l) :
              \/ Owned("aggregate_negative_tests", g) # 1
              \/ Owned("plumbing_negative_tests", g) # 1

\* Phase B: the first stage that fails; stage 37 is asked only when none of
\* the stages 38 to 40 fails.
Sweep(l) ==
    << <<"traceability_unknown_entity", unknown_entity(l)>>,
       <<"traceability_duplicate_entity", duplicate_entity(l)>>,
       <<"traceability_orphan_obligation", orphan_obligation(l)>>,
       <<"traceability_orphan_case", orphan_case(l)>>,
       <<"traceability_orphan_judge", orphan_judge(l)>>,
       <<"traceability_orphan_bundle", orphan_bundle(l)>>,
       <<"traceability_orphan_gate", orphan_gate(l)>>,
       <<"traceability_orphan_evidence", orphan_evidence(l)>>,
       <<"traceability_degree_cap_exceeded", degree_cap_exceeded(l)>>,
       <<"traceability_empty_required_set", empty_required_set(l)>>,
       <<"traceability_negative_test_coverage_missing", negative_test_coverage_missing(l)>>,
       <<"traceability_relation_mismatch", relation_mismatch(l)>> >>

validate_relations(l) ==
    LET first == SelectInSeq(Sweep(l), LAMBDA stage : stage[2])
    IN  IF first = 0 THEN "valid" ELSE Sweep(l)[first][1]

-----------------------------------------------------------------------------
(* Phase C: what is derived from a validated ledger *)

Judge(l, o)     == Lookup(l.obligation_to_judge, o)
Bundle(l, lane) == Lookup(l.evidence_bundles, lane)

enforcement_paths(l) ==
    UNION {{[obligation |-> p[2], case |-> c, judge |-> Judge(l, p[2]),
             bundle |-> Bundle(l, n.id), gate |-> p[3]] :
                p \in PairsOf(l, n.id), c \in CaseIds(n)} : n \in ToSet(l.lanes)}

EvidenceOf(l, h) == {r[2] : r \in {x \in ToSet(l.evidence_bundle_memberships) :
                                        x[1] = h.bundle}}
path_evidence(l) == UNION {{<<h, e>> : e \in EvidenceOf(l, h)} : h \in enforcement_paths(l)}

\* A dict of the derivation has no entry for a key it is asked for.
lookup_missing(l) ==
    \/ \E g \in GateIds(l) : \/ Lookup(l.aggregate_negative_tests, g) = None
                             \/ Lookup(l.plumbing_negative_tests, g) = None
    \/ \E n \in LaneIds(l) : Bundle(l, n) = None
    \/ \E h \in enforcement_paths(l) :
          h.judge = None \/ Lookup(l.judge_negative_tests, h.obligation) = None

\* The records in the order they are retained, by their allocation labels.
derive_relations(l) ==
    LET paths == SetToSeq(enforcement_paths(l))
    IN  FlattenSeq([i \in DOMAIN l.gates |->
                        <<"gate_aggregate_negative", "gate_plumbing_negative">>])
        \o FlattenSeq([i \in DOMAIN paths |->
              <<"enforcement_path", "path_case", "path_gate", "path_judge_negative">>
              \o [e \in 1..Cardinality(EvidenceOf(l, paths[i])) |-> "path_evidence"]])

-----------------------------------------------------------------------------
(* Phases D and E: the digested streams and the expected keys *)

Sizes(l, fields) == [i \in DOMAIN fields |-> Len(l[fields[i]])]

\* How many records each of the 14 entity streams has.
EntityStreams(l) ==
    <<Len(l.lanes), MapThenSumSet(LAMBDA n : Len(n.cases), ToSet(l.lanes)), PlanTotal(l),
      Len(Required(l)), Kinds(l, "lane_contexts"), Kinds(l, "post_gate_outputs")>>
    \o Sizes(l, <<"judge_ids", "evidence_bundles", "evidence_source_ids", "gates",
                  "judge_negative_tests", "aggregate_negative_tests",
                  "plumbing_negative_tests">>)
    \o <<Cardinality(enforcement_paths(l))>>

\* How many records each of the 13 relation streams has.
RelationStreams(l) ==
    <<Len(Required(l))>>
    \o Sizes(l, <<"obligation_to_judge", "evidence_bundles", "obligation_gate_pairs",
                  "evidence_bundle_memberships", "lane_contexts", "post_gate_outputs",
                  "gates", "gates">>)
    \o LET h == Cardinality(enforcement_paths(l))
       IN  <<h, h, h, Cardinality(path_evidence(l))>>

digest_relations(l) == EntityStreams(l) \o RelationStreams(l)

\* The execution keys as the code lists them: family and members, in order.
ExecutionKeys(l) ==
    LET Tagged(tag, S) == {<<tag, x>> : x \in S}
        h == enforcement_paths(l)
        gates == [i \in DOMAIN l.gates |-> l.gates[i][2]]
    IN  [names |-> Tagged("case", UNION {CaseIds(n) : n \in ToSet(l.lanes)})
                   \cup Tagged("lane-context", ToSet(l.lane_contexts))
                   \cup Tagged("lane-output", ToSet(l.post_gate_outputs))
                   \cup Tagged("evidence", path_evidence(l))
                   \cup Tagged("bundle", h) \cup Tagged("judge", h)
                   \cup Tagged("judge-negative", h)
                   \cup UNION {Tagged(t, ToSet(gates)) :
                          t \in {"gate-input", "gate-result", "gate-negative",
                                 "plumbing-negative"}},
         listed |-> PlanTotal(l) + Len(l.lane_contexts) + Len(l.post_gate_outputs)
                    + Cardinality(path_evidence(l)) + 3 * Cardinality(h) + 4 * Len(gates)]

enumerate_expected_keys(l) ==
    LET keys == ExecutionKeys(l)
    IN  IF keys.listed # Cardinality(keys.names) \/ keys.listed # KeyCountExec(l)
        THEN "traceability_relation_mismatch" ELSE "valid"

=============================================================================
