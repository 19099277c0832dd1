---------------------------- MODULE AuthorityStages ----------------------------
(***************************************************************************)
(* The stages of the coverage compiler that compare the five documents with *)
(* each other: identifiers used twice (5), the admission caps (43, 44) and  *)
(* stages 7 to 28.  d holds what the stages read of the authority snapshot, *)
(* the source reconciliation, the expectation, the catalog header, the      *)
(* ledger's bindings and the permit's payload; l is the ledger of           *)
(* CoverageRelations, whose obligations are the catalog's records.  A path  *)
(* is the sequence of its components; a digest is any value.                *)
(***************************************************************************)
EXTENDS CoverageRelations, Integers

CONSTANT Limits   \* the admission caps of CompileLimits

Fields(s, f) == [i \in DOMAIN s |-> s[i][f]]
SumOf(s, Op(_)) == FoldSeq(+, 0, [i \in DOMAIN s |-> Op(s[i])])

\* Stage 5: the closed domains in which an identifier occurs once.
duplicate_identifier(l, d) ==
    \/ ~IsInjective(<<d.header.id>> \o Fields(l.obligations, "id"))
    \/ ~IsInjective(Fields(l.lanes, "id"))
    \/ \E n \in ToSet(l.lanes), f \in {"cases", "gates", "matrices"} : ~IsInjective(n[f])
    \/ \E f \in {"judge_ids", "evidence_source_ids"} : ~IsInjective(l[f])
    \/ \E f \in {"judge_negative_tests", "aggregate_negative_tests",
                 "plumbing_negative_tests"} : ~IsInjective(Fields(l[f], 2))
    \/ ~IsInjective(Fields(d.files, "path"))

-----------------------------------------------------------------------------
(* Admission: the caps are met by the first prefix that exceeds one *)

source_cap_exceeded(d) ==
    \/ Len(d.files) > Limits.files
    \/ \E f \in ToSet(d.files) : f.bytes > Limits.file_bytes
    \/ SumOf(d.files, LAMBDA f : f.bytes) > Limits.total_bytes

\* A range that is the wrong way round adds nothing here.
section_cap_exceeded(l) ==
    \/ Len(l.obligations) > Limits.sections
    \/ SumOf(l.obligations, LAMBDA o : Max({0, o.end - o.start})) > Limits.section_bytes

\* The structural counters, which sum every range, are built before that: a
\* negative sum is no u64 and the constructor of Accounting raises.
negative_section_sum(l) == SumOf(l.obligations, LAMBDA o : o.end - o.start) < 0

-----------------------------------------------------------------------------
(* Stages 7 to 12: paths, file types, sources, historical objects *)

Paths(l, d) ==
    ToSet(Fields(d.files, "path")) \cup ToSet(Fields(d.sections, "path"))
    \cup ToSet(Fields(d.historical, "path")) \cup ToSet(Fields(l.obligations, "path"))
    \cup UNION {{m.old.path, m.current.path} : m \in ToSet(d.mappings)}

absolute_path(l, d)  == \E p \in Paths(l, d) : Len(p) > 1 /\ p[1] = ""
path_traversal(l, d) == \E p \in Paths(l, d) : ToSet(p) \cap {"", ".", ".."} # {}

symlink(d) == \E f \in ToSet(d.files \o d.historical) : f.type = "symlink"
non_regular_file(d) ==
    \/ \E f \in ToSet(d.files) : f.type \notin {"regular", "symlink"}
    \/ \E h \in ToSet(d.historical) : h.type \notin {"blob", "symlink"}

missing_source(l, d) ==
    \E o \in ToSet(l.obligations) : o.path \notin ToSet(Fields(d.files, "path"))

Sides(d) == FlattenSeq([i \in DOMAIN d.mappings |-> <<d.mappings[i].old, d.mappings[i].current>>])
Located(s) == [i \in DOMAIN s |-> <<s[i].revision, s[i].path>>]

\* Compared as sorted lists: every side has one object and no object is left.
missing_historical_object(d) ==
    LET sides == Located(Sides(d))  objects == Located(d.historical)
    IN  \E x \in ToSet(sides) \cup ToSet(objects) :
           Count(sides, LAMBDA s : s = x) # Count(objects, LAMBDA s : s = x)

-----------------------------------------------------------------------------
(* Stages 13 to 19: repository, revision, digests, sections, control *)

repository_mismatch(d) ==
    \/ Cardinality({d.snapshot.repository, d.target.repository, d.contract.repository}) # 1
    \/ Cardinality({d.snapshot.clean_required, d.target.clean_required,
                    d.contract.clean_required}) # 1

revision_mismatch(d) ==
    LET s == d.snapshot IN
    \/ ~ \/ s.relation = "exact" /\ s.head = s.revision /\ ~s.ancestry
         \/ s.relation = "descendant" /\ s.head # s.revision /\ s.ancestry
    \/ s.revision # d.target.revision
    \/ s.revision # d.contract.revision

dirty_repository(d) == ~d.snapshot.clean

file_digest_mismatch(l, d) ==
    \/ \E o \in ToSet(l.obligations) : \E f \in ToSet(d.files) : f.path = o.path /\ f.sha # o.sha
    \/ LET objects == [i \in DOMAIN d.historical |->
                          <<Located(d.historical)[i], d.historical[i].sha>>]
       IN  \E s \in ToSet(Sides(d)) : Lookup(objects, <<s.revision, s.path>>) # s.sha
    \/ d.expectation_binds.reconciliation # d.digests.reconciliation

Range3(x) == <<x.path, x.start, x.end>>
invalid_section_range(l, d) ==
    \/ ~IsInjective([i \in DOMAIN d.sections |-> Range3(d.sections[i])])
    \/ \E o \in ToSet(l.obligations) :
          o.start >= o.end \/ \E f \in ToSet(d.files) : f.path = o.path /\ o.end > f.bytes
    \/ {Range3(x) : x \in ToSet(d.sections)} # {Range3(o) : o \in ToSet(l.obligations)}

section_digest_mismatch(l, d) ==
    \E o \in ToSet(l.obligations) : \E x \in ToSet(d.sections) :
        Range3(x) = Range3(o) /\ x.sha # o.section_sha

repository_control_unsupported(d) ==
    \/ d.control.head # d.snapshot.head
    \/ d.control.clean # d.snapshot.clean
    \/ ~d.control.qualified
    \/ \E f \in ToSet(d.files) : f.size # f.bytes

-----------------------------------------------------------------------------
(* Stages 20 to 28: the catalog, and what the payload adds *)

predecessor_mismatch(d) ==
    \/ d.header.predecessor # d.binds.predecessor
    \/ d.header.predecessor # None /\ d.header.predecessor = d.header.custody.lineage

InputStages(l, d) ==
    << <<"authority_absolute_path", absolute_path(l, d)>>,
       <<"authority_path_traversal", path_traversal(l, d)>>,
       <<"authority_symlink", symlink(d)>>,
       <<"authority_non_regular_file", non_regular_file(d)>>,
       <<"authority_missing_source", missing_source(l, d)>>,
       <<"authority_missing_historical_object", missing_historical_object(d)>>,
       <<"authority_repository_mismatch", repository_mismatch(d)>>,
       <<"authority_revision_mismatch", revision_mismatch(d)>>,
       <<"authority_dirty_repository", dirty_repository(d)>>,
       <<"authority_file_digest_mismatch", file_digest_mismatch(l, d)>>,
       <<"authority_invalid_section_range", invalid_section_range(l, d)>>,
       <<"authority_section_digest_mismatch", section_digest_mismatch(l, d)>>,
       <<"authority_repository_control_unsupported", repository_control_unsupported(d)>> >>

CatalogStages(l, d) ==
    << <<"catalog_digest_mismatch", d.binds.catalog # d.digests.catalog>>,
       <<"catalog_gate_revision_mismatch",
          \/ d.header.gate_revision # d.binds.gate_revision
          \/ \E o \in ToSet(l.obligations) : o.gate_revision # d.header.gate_revision>>,
       <<"catalog_predecessor_mismatch", predecessor_mismatch(d)>>,
       <<"catalog_record_limit_exceeded",
          \/ Len(l.obligations) + 1 > Limits.records
          \/ d.header.record_count # Len(l.obligations) + 1>>,
       <<"catalog_orphan_source",
          ~(ToSet(Fields(d.files, "path")) \subseteq ToSet(Fields(l.obligations, "path")))>>,
       <<"catalog_invalid_status", \E o \in ToSet(l.obligations) : ~o.status_typed>> >>

\* Stages 22, 27 and 28 need the consumed payload and come after stage 26.
PayloadStages(d) ==
    << <<"catalog_lineage_mismatch", d.header.custody # d.payload.custody>>,
       <<"expectation_digest_mismatch",
          \/ d.header.expectation # d.digests.expectation
          \/ d.binds.expectation # d.digests.expectation>>,
       <<"traceability_digest_mismatch",
          \/ d.binds.reconciliation # d.digests.reconciliation
          \/ d.binds.policy # d.payload.custody.policy
          \/ d.binds.domain # d.payload.custody.domain>> >>

validate_stages_7_28(l, d) ==
    LET stages == InputStages(l, d) \o CatalogStages(l, d) \o PayloadStages(d)
        first  == SelectInSeq(stages, LAMBDA s : s[2])
    IN  IF first = 0 THEN "valid" ELSE stages[first][1]

=============================================================================
