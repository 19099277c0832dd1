--------------------------- MODULE MCCoverageCompiler ---------------------------
(***************************************************************************)
(* Two lanes, three case plans, three gates; three callers: two threads of  *)
(* the issuing process, one of them perhaps at the test entry, and a fork.  *)
(***************************************************************************)
EXTENDS CoverageCompiler

Record(id, lane, case, path, start, end) ==
    [id |-> id, lane |-> lane, case |-> case, required |-> TRUE, path |-> path,
     sha |-> "sha", start |-> start, end |-> end, section_sha |-> "section",
     gate_revision |-> "r1", status_typed |-> TRUE]

\* The ledger the literals of the small instance describe.
Design ==
    [lanes |-> << [id |-> "L1", cases |-> <<"b1">>, plans |-> 1, matrices |-> <<"m1">>,
                   gates |-> <<"g1">>,
                   required_artifacts |-> {"manifest", "report", "raw1"}],
                  [id |-> "L2", cases |-> <<"b2", "b3">>, plans |-> 2, matrices |-> <<"m1", "m2">>,
                   gates |-> <<"g2", "g3">>,
                   required_artifacts |-> {"manifest", "report", "raw1", "raw2"}] >>,
     obligations |-> << Record("o1", "L1", "b1", <<"a">>, 0, 2),
                        Record("o2", "L2", "b2", <<"a">>, 2, 3),
                        Record("o3", "L2", "b3", <<"b">>, 0, 3) >>,
     judge_ids |-> <<"j1", "j2", "j3">>,
     obligation_to_judge |-> << <<"o1", "j1">>, <<"o2", "j2">>, <<"o3", "j3">> >>,
     evidence_bundles |-> << <<"L1", "d1">>, <<"L2", "d2">> >>,
     evidence_source_ids |-> <<"e1", "e2">>,
     evidence_bundle_memberships |-> << <<"d1", "e1">>, <<"d2", "e1">>, <<"d2", "e2">> >>,
     lane_contexts |-> << <<"L1", "manifest">>, <<"L2", "raw1">> >>,
     post_gate_outputs |-> << <<"L1", "report">>, <<"L2", "report">> >>,
     gates |-> << <<"L1", "g1">>, <<"L2", "g2">>, <<"L2", "g3">> >>,
     obligation_gate_pairs |-> << <<"L1", "o1", "g1">>, <<"L2", "o2", "g2">>,
                                  <<"L2", "o3", "g3">> >>,
     judge_negative_tests |-> << <<"o1", "n1">>, <<"o2", "n2">>, <<"o3", "n3">> >>,
     aggregate_negative_tests |-> << <<"g1", "a1">>, <<"g2", "a2">>, <<"g3", "a3">> >>,
     plumbing_negative_tests |-> << <<"g1", "p1">>, <<"g2", "p2">>, <<"g3", "p3">> >>]

SmallCaps == [evidence |-> 2, contexts |-> 1, outputs |-> 1, plans |-> 4, entities |-> 4,
              paths |-> 6, paths_per_obligation |-> 5, paths_per_case |-> 3,
              paths_per_gate |-> 4]

Declaring(l, cards) == [f \in DOMAIN l \cup {"cardinalities"} |->
                            IF f = "cardinalities" THEN cards ELSE l[f]]
Honest(l) == Declaring(l, Cardinalities(l))
Base == Honest(Design)

\* The records an edit may add to an array of the ledger.
Candidates ==
    [judge_ids |-> {"j4"},
     obligation_to_judge |-> {<<"o1", "j2">>, <<"o2", "j3">>, <<"o2", "j4">>},
     evidence_bundles |-> {<<"L1", "d2">>, <<"L2", "d1">>, <<"L1", "d1">>},
     evidence_source_ids |-> {"e3"},
     evidence_bundle_memberships |-> {<<"d1", "e2">>, <<"d2", "e3">>, <<"d1", "e1">>},
     lane_contexts |-> {<<"L1", "raw1">>, <<"L2", "manifest">>},
     post_gate_outputs |-> {<<"L2", "raw2">>},
     gates |-> {<<"L1", "g2">>, <<"L1", "g3">>, <<"L2", "g4">>},
     obligation_gate_pairs |-> {<<"L1", "o1", "g2">>, <<"L2", "o1", "g2">>,
                                <<"L2", "o2", "g1">>, <<"L2", "o2", "g2">>,
                                <<"L2", "o2", "g3">>},
     judge_negative_tests |-> {<<"o1", "n4">>, <<"o2", "n1">>},
     aggregate_negative_tests |-> {<<"g1", "a4">>, <<"g3", "a1">>},
     plumbing_negative_tests |-> {<<"g2", "p4">>, <<"g4", "p1">>}]

Edit(l) ==
    UNION {{[l EXCEPT ![f] = RemoveAt(@, i)] : i \in DOMAIN l[f]}
           \cup {[l EXCEPT ![f] = Append(@, x)] : x \in Candidates[f]}
           \cup {[l EXCEPT ![f] = ReplaceAt(@, i, x)] : i \in DOMAIN l[f], x \in Candidates[f]}
              : f \in DOMAIN Candidates}
    \cup {[l EXCEPT !.obligations = Append(@, [o EXCEPT !.id = x, !.required = r])] :
            o \in ToSet(l.obligations), x \in {"o1", "o4"}, r \in BOOLEAN}
    \cup {[l EXCEPT !.obligations[2].required = FALSE],
          [l EXCEPT !.obligations[3].status_typed = FALSE],
          [l EXCEPT !.lanes[1].plans = 0], [l EXCEPT !.lanes[2].plans = 1],
          [l EXCEPT !.lanes[1].cases = Append(@, "b4")],
          [l EXCEPT !.lanes[2].gates = <<"g2">>], [l EXCEPT !.lanes[2].gates[2] = "g2"],
          [l EXCEPT !.lanes[2].matrices[2] = "m1"]}

EditedLedgers ==
    {Honest(l) : l \in Edit(Design)}
    \cup {Declaring(l, Cardinalities(Design)) : l \in Edit(Design)}
    \cup {Declaring(Design, [Cardinalities(Design) EXCEPT ![f] = @ + 1]) :
            f \in DOMAIN Cardinalities(Design) \ {"lengths", "lane_counts"}}
    \cup {Honest([l EXCEPT !.obligation_gate_pairs = Append(@, x)]) :
            l \in Edit(Design), x \in {<<"L2", "o2", "g1">>, <<"L2", "o2", "g3">>}}

CleanDocs ==
    [files |-> << [path |-> <<"a">>, type |-> "regular", bytes |-> 3, sha |-> "sha", size |-> 3],
                  [path |-> <<"b">>, type |-> "regular", bytes |-> 4, sha |-> "sha", size |-> 4] >>,
     sections |-> [i \in 1..3 |->
        [path |-> Design.obligations[i].path, start |-> Design.obligations[i].start,
         end |-> Design.obligations[i].end, sha |-> Design.obligations[i].section_sha]],
     historical |-> << [revision |-> "v1", path |-> <<"a">>, type |-> "blob", sha |-> "old"],
                       [revision |-> "v2", path |-> <<"a">>, type |-> "blob", sha |-> "new"] >>,
     mappings |-> << [old |-> [revision |-> "v1", path |-> <<"a">>, sha |-> "old"],
                      current |-> [revision |-> "v2", path |-> <<"a">>, sha |-> "new"]] >>,
     snapshot |-> [repository |-> "tv", clean_required |-> TRUE, revision |-> "v2", head |-> "v2",
                   relation |-> "exact", ancestry |-> FALSE, clean |-> TRUE],
     target |-> [repository |-> "tv", clean_required |-> TRUE, revision |-> "v2"],
     contract |-> [repository |-> "tv", clean_required |-> TRUE, revision |-> "v2"],
     control |-> [head |-> "v2", clean |-> TRUE, qualified |-> TRUE],
     header |-> [id |-> "catalog", gate_revision |-> "r1", predecessor |-> None, record_count |-> 4,
                 expectation |-> "E", custody |-> [lineage |-> "D0", domain |-> "K", policy |-> "P"]],
     binds |-> [gate_revision |-> "r1", predecessor |-> None, catalog |-> "C",
                expectation |-> "E", reconciliation |-> "R", policy |-> "P", domain |-> "K"],
     expectation_binds |-> [reconciliation |-> "R"],
     payload |-> [custody |-> [lineage |-> "D0", domain |-> "K", policy |-> "P"]],
     digests |-> [catalog |-> "C", expectation |-> "E", reconciliation |-> "R"]]

SmallLimits == [files |-> 3, file_bytes |-> 5, total_bytes |-> 8, sections |-> 4,
                section_bytes |-> 7, records |-> 5]

\* One document is not what another says of it.
EditedDocs ==
    LET d == CleanDocs IN
    {[d EXCEPT !.files[1].path = p] : p \in {<<"", "a">>, <<"a", "..">>, <<"c">>, <<"b">>}}
    \cup {[d EXCEPT !.files[2].type = t] : t \in {"symlink", "directory"}}
    \cup {[d EXCEPT !.files[1].bytes = n] : n \in {2, 5, 6}}
    \cup {[d EXCEPT !.files = Append(@, [@[1] EXCEPT !.path = <<"c">>, !.bytes = 1, !.size = 1])],
          [d EXCEPT !.files[1].sha = "other"], [d EXCEPT !.files[1].size = 4],
          [d EXCEPT !.sections = Tail(@)], [d EXCEPT !.sections[1].sha = "other"],
          [d EXCEPT !.sections = Append(@, @[1])],
          [d EXCEPT !.historical = Tail(@)], [d EXCEPT !.historical[1].type = "tree"],
          [d EXCEPT !.historical = Append(@, @[1])], [d EXCEPT !.historical[1].sha = "other"],
          [d EXCEPT !.snapshot.repository = "fork"], [d EXCEPT !.target.clean_required = FALSE],
          [d EXCEPT !.snapshot.head = "v3"], [d EXCEPT !.target.revision = "v1"],
          [d EXCEPT !.snapshot.head = "v3", !.snapshot.relation = "descendant",
                    !.snapshot.ancestry = TRUE, !.control.head = "v3"],
          [d EXCEPT !.snapshot.clean = FALSE], [d EXCEPT !.control.qualified = FALSE],
          [d EXCEPT !.expectation_binds.reconciliation = "S"],
          [d EXCEPT !.binds.catalog = "S"], [d EXCEPT !.binds.gate_revision = "r2"],
          [d EXCEPT !.header.predecessor = "D0", !.binds.predecessor = "D0"],
          [d EXCEPT !.header.predecessor = "C0", !.binds.predecessor = "C0"],
          [d EXCEPT !.header.predecessor = "C0"], [d EXCEPT !.header.record_count = 5],
          [d EXCEPT !.header.custody.lineage = "D1"], [d EXCEPT !.header.expectation = "S"],
          [d EXCEPT !.header.custody.lineage = "D1", !.header.record_count = 5],
          [d EXCEPT !.header.id = "o1"], [d EXCEPT !.binds.domain = "S"],
          [d EXCEPT !.binds.policy = "Q"], [d EXCEPT !.binds.reconciliation = "S"]}

\* The arena holds the whole compilation, or it overflows in the derivation,
\* when the buffer is reserved again, or already while parsing.
Roomy == 100

CleanInput ==
    [token |-> "production", entry |-> [c \in Callers |-> "production"],
     identity |-> TRUE, digests |-> TRUE, x_max |-> Roomy, defects |-> {}, docs |-> CleanDocs,
     values |-> << <<"id1">>, Scalar, <<"id1">> >>, alias |-> [x \in {} |-> x], ledger |-> Base]

\* The header counts the records the ledger's catalog really has, and the
\* snapshot has their sections.
WithLedger(l) ==
    [CleanInput EXCEPT !.ledger = l, !.docs.header.record_count = Len(l.obligations) + 1]

Defects == {x[1] : x \in ToSet(BeforeIds)}
           \cup {"not_canonical", "length_overflow", "resource_input_cap_exceeded",
                 "plan_rejected", "resource_output_cap_exceeded"}

\* Sections the wrong way round: their sum stays positive, or becomes negative.
DisorderedSections ==
    {WithLedger(Honest([Design EXCEPT !.obligations[1].start = 2, !.obligations[1].end = 0])),
     WithLedger(Honest([Design EXCEPT !.obligations[1].start = 9])),
     WithLedger(Honest([Design EXCEPT !.obligations[1].end = 6]))}

\* The lanes have one context artifact where the design has two.
OneKind == Honest([Design EXCEPT !.lane_contexts[2] = <<"L2", "manifest">>])

MCInputs ==
    {WithLedger(l) : l \in EditedLedgers} \cup DisorderedSections
    \cup {[CleanInput EXCEPT !.docs = d] : d \in EditedDocs}
    \cup {[CleanInput EXCEPT !.x_max = x, !.alias = a] :
            x \in {10, 14, 18, 20, 30, 40, 46, 50, 54, Roomy},
            a \in {[x \in {} |-> x], (<<"L2", 1>> :> <<"id1">>)}}
    \cup {[WithLedger(OneKind) EXCEPT !.x_max = x] : x \in {50, 54}}
    \cup {[CleanInput EXCEPT !.defects = {s}] : s \in Defects}
    \cup {[CleanInput EXCEPT !.defects = {"duplicate_key", s}] : s \in Defects}
    \cup {[WithLedger(Honest([Design EXCEPT !.lanes[1].plans = 0]))
             EXCEPT !.defects = {"product_overflow"}]}
    \cup {[CleanInput EXCEPT !.token = t, !.entry["rival"] = "test"] :
            t \in {"production", "test"}}
    \cup {[CleanInput EXCEPT !.identity = FALSE], [CleanInput EXCEPT !.digests = FALSE]}

MCIssuer(c) == c # "fork"

=============================================================================
