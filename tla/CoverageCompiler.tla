---------------------------- MODULE CoverageCompiler ----------------------------
(***************************************************************************)
(* One compile permit and the compiler pipeline it admits.  Callers, in the *)
(* process that issued the permit or in a forked copy of it, call compile   *)
(* or its test mirror; consuming the permit is atomic in one process.  The  *)
(* admitted call runs the six phases: it hashes the five inputs, parses and *)
(* charges them, asks the stages in their order, validates the relations,   *)
(* derives and digests the records and builds the plan.  Every retained     *)
(* byte is charged to an arena; a charge can exceed the arena's maximum or  *)
(* meet a MemoryError, and each failure reports the counters at that point. *)
(*                                                                         *)
(* What is wrong with a document's text is an input here (defects); what    *)
(* the documents say of each other is computed (AuthorityStages), and so    *)
(* are the relations of the ledger (CoverageRelations).                     *)
(***************************************************************************)
EXTENDS AuthorityStages

CONSTANTS
    Callers,
    InIssuer(_),     \* whether a caller runs in the process that issued the permit
    Inputs,          \* what the compiler may be given
    W_B, SHA256_STATE_CHARGE, HASH_BUFFER_CHARGE,   \* the fixed charges
    INTERN_CHARGE, REFERENCE_CHARGE, RECORD_CHARGE, PATH_CHARGE

BufferCount == 5
NoCaller == "nobody"
Scalar == <<>>   \* a parsed value that is no identifier; an identifier is a 1-tuple

\* What can be wrong with the text of a document, in the order it is looked
\* for; stage 4 can still find a field of stage 2 missing, further inside.
BeforeIds == << <<"invalid_json", "authority_invalid_canonical_json">>,
                <<"outer_field", "authority_unknown_field">>,
                <<"duplicate_key", "authority_duplicate_key">>,
                <<"inner_field", "authority_unknown_field">>,
                <<"invalid_identifier", "authority_invalid_identifier">> >>

\* Callers are told from nobody, and a caller runs in the issuer or does not.
ASSUME CallersAssumption ==
    /\ NoCaller \notin Callers
    /\ \A c \in Callers : InIssuer(c) \in BOOLEAN

ASSUME ChargesAssumption ==
    /\ W_B \in Nat /\ SHA256_STATE_CHARGE \in Nat /\ HASH_BUFFER_CHARGE \in Nat
    /\ INTERN_CHARGE \in Nat /\ REFERENCE_CHARGE \in Nat
    /\ RECORD_CHARGE \in Nat /\ PATH_CHARGE \in Nat

\* An array of a parsed document is a sequence, a maximum and a number of case
\* plans are natural numbers; nothing else is asked of an input.
IsArray(s) == s \in Seq(ToSet(s))

LedgerArrays ==
    {"lanes", "obligations", "judge_ids", "obligation_to_judge", "evidence_bundles",
     "evidence_source_ids", "evidence_bundle_memberships", "lane_contexts",
     "post_gate_outputs", "gates", "obligation_gate_pairs", "judge_negative_tests",
     "aggregate_negative_tests", "plumbing_negative_tests"}

ASSUME InputsAssumption ==
    \A i \in Inputs :
        /\ i.x_max \in Nat /\ IsArray(i.values)
        /\ \A f \in LedgerArrays : IsArray(i.ledger[f])
        /\ \A n \in ToSet(i.ledger.lanes) : n.plans \in Nat

Labels == {"gate_aggregate_negative", "gate_plumbing_negative", "enforcement_path",
           "path_case", "path_gate", "path_judge_negative", "path_evidence"}

VARIABLES
    input,      \* the envelopes, limits and permit of this compilation, and for each
                \* caller its entry: "production" (compile) or "test" (_compile_test)
    consumed,   \* whether the permit is consumed, in the issuer and in a fork
    call,       \* per caller: "idle", "consumed", "running" or "returned"
    outcome,    \* per caller: what the call returned or raised
    owner,      \* the caller whose pipeline runs, or NoCaller
    phase,      \* the pipeline's next step
    step,       \* and its position in that step's loop
    used,       \* the arena's retained charge
    high,       \* the arena's high water mark
    interned,   \* identifiers and case ids interned so far
    admitted,   \* per label: derived records retained so far
    hashLive,   \* whether the shared hash buffer is logically live
    digestLive  \* whether a digest state is retained

callVars  == <<input, consumed>>
arenaVars == <<used, high>>
liveVars  == <<interned, admitted, hashLive, digestLive>>
compilerVars == <<callVars, call, outcome, owner, phase, step, arenaVars, liveVars>>

NoCounts == [entities |-> 0, relations |-> 0, endpoints |-> 0, paths |-> 0]
NoOutcome == [kind |-> "none", name |-> "none", arena |-> 0, counts |-> NoCounts]

CompilerInit ==
    /\ input \in Inputs
    /\ consumed = [issuer \in BOOLEAN |-> FALSE]
    /\ call = [c \in Callers |-> "idle"]
    /\ outcome = [c \in Callers |-> NoOutcome]
    /\ owner = NoCaller /\ phase = "entry" /\ step = 1
    /\ used = 0 /\ high = 0
    /\ interned = {} /\ admitted = [x \in Labels |-> 0]
    /\ hashLive = FALSE /\ digestLive = FALSE

-----------------------------------------------------------------------------
(* The permit *)

Return(c, r) ==
    /\ outcome' = [outcome EXCEPT ![c] = r]
    /\ call' = [call EXCEPT ![c] = "returned"]

Raised(error) == [NoOutcome EXCEPT !.kind = "raised", !.name = error]

\* A fork has its own copy of the permit, consumed or not.
Consume(c) ==
    /\ call[c] = "idle"
    /\ IF consumed[InIssuer(c)]
       THEN Return(c, Raised("permit_reuse")) /\ UNCHANGED consumed
       ELSE /\ consumed' = [consumed EXCEPT ![InIssuer(c)] = TRUE]
            /\ call' = [call EXCEPT ![c] = "consumed"]
            /\ UNCHANGED outcome
    /\ UNCHANGED <<input, owner, phase, step, arenaVars, liveVars>>

\* Mutation: the permit's process is not compared.
Admitted_AnyProcess(c) == input.entry[c] = input.token

\* The process and the entry are checked after the permit is gone.
Admitted(c) == InIssuer(c) /\ input.entry[c] = input.token

CheckEntry(c) ==
    /\ call[c] = "consumed"
    /\ IF Admitted(c)
       THEN /\ call' = [call EXCEPT ![c] = "running"]
            /\ owner' = c
            /\ UNCHANGED outcome
       ELSE /\ Return(c, Raised(IF InIssuer(c) /\ input.entry[c] = "production"
                                THEN "compiler_identity_mismatch"
                                ELSE "CompilerInternalError"))
            /\ UNCHANGED owner
    /\ UNCHANGED <<callVars, phase, step, arenaVars, liveVars>>

-----------------------------------------------------------------------------
(* The arena and the two ways a charge fails *)

At(p)   == owner # NoCaller /\ phase = p
Proceed(p) == /\ phase' = p /\ step' = 1
              /\ UNCHANGED <<call, outcome>>
Repeat  == /\ step' = step + 1
           /\ UNCHANGED <<phase, call, outcome>>

Stop(r) == /\ Return(owner, r)
           /\ phase' = "done"
           /\ UNCHANGED step
Raise(error) == Stop(Raised(error))
Fail(variant, arena, counts) ==
    Stop([kind |-> "failure", name |-> variant, arena |-> arena, counts |-> counts])

CanHold(base, n) == base + n <= input.x_max

\* The candidate exceeds the arena's maximum: it is reported, and not charged.
IndexCap(base, n, counts) ==
    /\ ~CanHold(base, n)
    /\ Fail("resource_index_cap_exceeded", base + n, counts)
    /\ used' = base
    /\ high' = Max({high, base + n})

\* Mutation: the failed charge is reported as if it were held.
AllocationFailed_AfterCharge(base, n, counts) ==
    /\ CanHold(base, n)
    /\ Fail("resource_allocation_failed", base + n, counts)
    /\ used' = base
    /\ UNCHANGED high

\* The allocation itself fails, injected or real: the charge is not taken.
AllocationFailed(base, n, counts) ==
    /\ CanHold(base, n)
    /\ Fail("resource_allocation_failed", base, counts)
    /\ used' = base
    /\ UNCHANGED high

Retain(base, n) ==
    /\ CanHold(base, n)
    /\ used' = base + n
    /\ high' = Max({high, base + n})

\* Retained and released again before anything else is charged.
Borrow(base, n) ==
    /\ CanHold(base, n)
    /\ used' = base
    /\ high' = Max({high, base + n})

-----------------------------------------------------------------------------
(* Entry and Phase A *)

EntryPreflight ==
    /\ At("entry")
    /\ IF ~input.identity THEN Raise("input_identity_mismatch")
       ELSE IF "length_overflow" \in input.defects
       THEN Fail("resource_checked_arithmetic_overflow", 0, NoCounts)
       ELSE IF "resource_input_cap_exceeded" \in input.defects
       THEN Fail("resource_input_cap_exceeded", 0, NoCounts)
       ELSE Proceed("hash")
    /\ UNCHANGED <<callVars, owner, arenaVars, liveVars>>

HashInput ==
    /\ At("hash") /\ step <= BufferCount
    /\ \/ IndexCap(used, SHA256_STATE_CHARGE, NoCounts)
       \/ AllocationFailed(used, SHA256_STATE_CHARGE, NoCounts)
       \/ Borrow(used, SHA256_STATE_CHARGE) /\ Repeat
    /\ UNCHANGED <<callVars, owner, liveVars>>

CompareDigests ==
    /\ At("hash") /\ step > BufferCount
    /\ IF input.digests THEN Proceed("slab") ELSE Raise("input_identity_mismatch")
    /\ UNCHANGED <<callVars, owner, arenaVars, liveVars>>

AllocateScratch ==
    /\ At("slab")
    /\ \/ IndexCap(used, W_B, NoCounts)
       \/ AllocationFailed(used, W_B, NoCounts)
       \/ Retain(used, W_B) /\ Proceed("parse")
    /\ UNCHANGED <<callVars, owner, liveVars>>

Parsing ==
    LET Found(x) == x[1] \in input.defects
        stages == [i \in DOMAIN BeforeIds |-> <<BeforeIds[i][2], Found(BeforeIds[i])>>]
                  \o << <<"authority_duplicate_identifier",
                          duplicate_identifier(input.ledger, input.docs)>>,
                       <<"authority_order_violation", "not_canonical" \in input.defects>> >>
        first == SelectInSeq(stages, LAMBDA s : s[2])
    IN  IF first = 0 THEN "valid" ELSE stages[first][1]

PassOr(verdict, arena, next) ==
    IF verdict = "valid" THEN Proceed(next) ELSE Fail(verdict, arena, NoCounts)

ParsePhaseA ==
    /\ At("parse")
    /\ PassOr(Parsing, high, "admission")
    /\ UNCHANGED <<callVars, owner, arenaVars, liveVars>>

Admission ==
    /\ At("admission")
    /\ IF negative_section_sum(input.ledger) THEN Raise("ContractError")
       ELSE IF source_cap_exceeded(input.docs)
       THEN Fail("resource_source_cap_exceeded", 0, NoCounts)
       ELSE IF section_cap_exceeded(input.ledger)
       THEN Fail("resource_section_cap_exceeded", 0, NoCounts)
       ELSE Proceed("charge")
    /\ UNCHANGED <<callVars, owner, arenaVars, liveVars>>

\* A value of a parsed document; an identifier is interned when first met.
ChargeParsed ==
    /\ At("charge") /\ step <= Len(input.values)
    /\ LET value == input.values[step]
           miss  == value # Scalar /\ value \notin interned
           n     == IF miss THEN INTERN_CHARGE ELSE REFERENCE_CHARGE
       IN  \/ IndexCap(used, n, NoCounts) /\ UNCHANGED interned
           \/ AllocationFailed(used, n, NoCounts) /\ UNCHANGED interned
           \/ /\ Retain(used, n)
              /\ IF miss THEN /\ interned' = interned \cup {value}
                              /\ UNCHANGED <<step, phase, call, outcome>>
                 ELSE Repeat /\ UNCHANGED interned
    /\ UNCHANGED <<callVars, owner, admitted, hashLive, digestLive>>

ParsedAll ==
    /\ At("charge") /\ step > Len(input.values)
    /\ Proceed("cases")
    /\ UNCHANGED <<callVars, owner, arenaVars, liveVars>>

\* The case plans of the expectation in order; input.alias says which of them
\* has the name of an identifier the documents already hold.
case_ids == FlattenSeq([i \in DOMAIN input.ledger.lanes |->
                [k \in 1..input.ledger.lanes[i].plans |->
                    LET id == <<input.ledger.lanes[i].id, k>>
                    IN  IF id \in DOMAIN input.alias THEN input.alias[id] ELSE id]])

VisitCaseId ==
    /\ At("cases") /\ step <= Len(case_ids)
    /\ \/ /\ case_ids[step] \in interned
          /\ Repeat /\ UNCHANGED <<arenaVars, interned>>
       \/ /\ case_ids[step] \notin interned
          /\ \/ IndexCap(used, INTERN_CHARGE, NoCounts) /\ UNCHANGED interned
             \/ AllocationFailed(used, INTERN_CHARGE, NoCounts) /\ UNCHANGED interned
             \/ /\ Retain(used, INTERN_CHARGE) /\ Repeat
                /\ interned' = interned \cup {case_ids[step]}
    /\ UNCHANGED <<callVars, owner, admitted, hashLive, digestLive>>

ValidateStages ==
    /\ At("cases") /\ step > Len(case_ids)
    /\ PassOr(validate_stages_7_28(input.ledger, input.docs), high, "buffer")
    /\ UNCHANGED <<callVars, owner, arenaVars, liveVars>>

SourceCommitments ==
    /\ At("buffer")
    /\ \/ IndexCap(used, HASH_BUFFER_CHARGE, NoCounts)
       \/ AllocationFailed(used, HASH_BUFFER_CHARGE, NoCounts)
       \/ Borrow(used, HASH_BUFFER_CHARGE) /\ Proceed("relations")
    /\ UNCHANGED <<callVars, owner, liveVars>>

-----------------------------------------------------------------------------
(* Phases B and C *)

\* 852 entities, 199 relations and 398 endpoints of the accepted design.
FixedEntities == FoldSeq(+, 0, EntityStreams(Accepted)) - Cardinality(enforcement_paths(Accepted))

K2 == [NoCounts EXCEPT !.entities  = FixedEntities,
                       !.relations = FixedRelations + Len(input.ledger.obligation_gate_pairs),
                       !.endpoints = 2 * (FixedRelations
                                          + Len(input.ledger.obligation_gate_pairs))]

\* A case-plan product can leave u64 on its way to an empty dimension, where
\* Phase A, which multiplies without a check, has found no case at all.
PhaseB == IF "product_overflow" \in input.defects
          THEN "resource_checked_arithmetic_overflow"
          ELSE validate_relations(input.ledger)

\* Mutation: the slab stays charged after Phase B.
ValidateRelations_KeepSlab ==
    /\ At("relations")
    /\ LET verdict == PhaseB
       IN  IF verdict = "valid" THEN Proceed("derive") ELSE Fail(verdict, used, K2)
    /\ UNCHANGED <<callVars, owner, arenaVars, liveVars>>

\* Phase B holds nothing beyond the slab, which is released when it passes.
ValidateRelations ==
    /\ At("relations")
    /\ LET verdict == PhaseB
       IN  IF verdict = "valid"
           THEN Proceed("derive") /\ used' = used - W_B
           ELSE Fail(verdict, used, K2) /\ UNCHANGED used
    /\ UNCHANGED <<callVars, owner, high, liveVars>>

\* The derived pairs retained so far.
admitted_pairs ==
    admitted["gate_aggregate_negative"] + admitted["gate_plumbing_negative"]
    + admitted["path_case"] + admitted["path_gate"]
    + admitted["path_judge_negative"] + admitted["path_evidence"]

\* The partial counters of _DerivedCounters.
K3 ==
    LET m == PairCount(input.ledger)
        pairs == admitted_pairs
        h == admitted["enforcement_path"]
    IN  [entities  |-> FixedEntities + h,
         relations |-> FixedRelations + m + pairs + h,
         endpoints |-> 2 * (FixedRelations + m + pairs) + 5 * h,
         paths     |-> h]

\* Mutation: the closed form forgets one record of every path.
K4_ThreePerPath ==
    LET m == PairCount(input.ledger)
        h == PathCount(input.ledger)
        r == PathEvidenceCount(input.ledger)
    IN  [entities  |-> FixedEntities + h,
         relations |-> 3 * h + r + m + FixedRelations + GateNegatives,
         endpoints |-> 11 * h + 2 * r + 2 * m + 2 * (FixedRelations + GateNegatives),
         paths     |-> h]

\* The closed form the plan and every later failure report.
K4 ==
    LET m == PairCount(input.ledger)
        h == PathCount(input.ledger)
        r == PathEvidenceCount(input.ledger)
    IN  [entities  |-> FixedEntities + h,
         relations |-> 4 * h + r + m + FixedRelations + GateNegatives,
         endpoints |-> 11 * h + 2 * r + 2 * m + 2 * (FixedRelations + GateNegatives),
         paths     |-> h]

Derivation == derive_relations(input.ledger)

RetainDerived ==
    /\ At("derive") /\ step <= Len(Derivation)
    /\ LET label == Derivation[step]
           n == IF label = "enforcement_path" THEN PATH_CHARGE ELSE RECORD_CHARGE
       IN  IF lookup_missing(input.ledger)
           THEN Raise("KeyError") /\ UNCHANGED <<arenaVars, admitted>>
           ELSE \/ IndexCap(used, n, K3) /\ UNCHANGED admitted
                \/ AllocationFailed(used, n, K3) /\ UNCHANGED admitted
                \/ /\ Retain(used, n) /\ Repeat
                   /\ admitted' = [admitted EXCEPT ![label] = @ + 1]
    /\ UNCHANGED <<callVars, owner, interned, hashLive, digestLive>>

DerivedAll ==
    /\ At("derive") /\ step > Len(Derivation)
    /\ IF /\ admitted["enforcement_path"] = PathCount(input.ledger)
          /\ admitted["path_evidence"] = PathEvidenceCount(input.ledger)
       THEN Proceed("reserve") ELSE Raise("CompilerInternalError")
    /\ UNCHANGED <<callVars, owner, arenaVars, liveVars>>

-----------------------------------------------------------------------------
(* Phases D, E and F *)

\* The one buffer is reserved again; nothing is allocated for it.
ReserveHashBuffer ==
    /\ At("reserve")
    /\ \/ IndexCap(used, HASH_BUFFER_CHARGE, K4) /\ UNCHANGED hashLive
       \/ Retain(used, HASH_BUFFER_CHARGE) /\ Proceed("digest") /\ hashLive' = TRUE
    /\ UNCHANGED <<callVars, owner, interned, admitted, digestLive>>

\* Each stream's state replaces the one before; a failure leaves none retained.
DigestStream ==
    /\ At("digest") /\ step <= Len(digest_relations(input.ledger))
    /\ LET base == used - IF digestLive THEN SHA256_STATE_CHARGE ELSE 0
       IN  \/ IndexCap(base, SHA256_STATE_CHARGE, K4) /\ digestLive' = FALSE
           \/ AllocationFailed(base, SHA256_STATE_CHARGE, K4) /\ digestLive' = FALSE
           \/ Retain(base, SHA256_STATE_CHARGE) /\ Repeat /\ digestLive' = TRUE
    /\ UNCHANGED <<callVars, owner, interned, admitted, hashLive>>

\* The bytes of the streams must come to what the fixed counts foretell.  The
\* numbers of artifact types are fixed too, and no stage has compared them.
DigestedAll ==
    /\ At("digest") /\ step > Len(digest_relations(input.ledger))
    /\ digestLive' = FALSE
    /\ IF FoldSeq(+, 0, EntityStreams(input.ledger)) = FixedEntities + PathCount(input.ledger)
       THEN /\ Proceed("keys")
            /\ used' = used - SHA256_STATE_CHARGE - HASH_BUFFER_CHARGE
            /\ hashLive' = FALSE
       ELSE /\ Raise("CompilerInternalError")
            /\ used' = used - SHA256_STATE_CHARGE
            /\ UNCHANGED hashLive
    /\ UNCHANGED <<callVars, owner, high, interned, admitted>>

EnumerateKeys ==
    /\ At("keys")
    /\ LET verdict == enumerate_expected_keys(input.ledger)
       IN  IF verdict = "valid" THEN Proceed("output") ELSE Fail(verdict, used, K4)
    /\ UNCHANGED <<callVars, owner, arenaVars, liveVars>>

\* The plan's own constructor may still refuse what no stage has compared.  The
\* output cap is asked before the only output allocation.
BuildPlan ==
    /\ At("output")
    /\ IF "plan_rejected" \in input.defects THEN Raise("CompilerInternalError")
       ELSE IF "resource_output_cap_exceeded" \in input.defects
       THEN Fail("resource_output_cap_exceeded", used, K4)
       ELSE \/ Fail("resource_allocation_failed", used, K4)
            \/ Stop([kind |-> "plan", name |-> "CoveragePlan", arena |-> high, counts |-> K4])
    /\ UNCHANGED <<callVars, owner, arenaVars, liveVars>>

-----------------------------------------------------------------------------

Pipeline ==
    \/ EntryPreflight \/ HashInput \/ CompareDigests \/ AllocateScratch \/ ParsePhaseA
    \/ Admission \/ ChargeParsed \/ ParsedAll \/ VisitCaseId \/ ValidateStages
    \/ SourceCommitments \/ ValidateRelations \/ RetainDerived \/ DerivedAll
    \/ ReserveHashBuffer \/ DigestStream \/ DigestedAll \/ EnumerateKeys \/ BuildPlan

CompilerNext == Pipeline \/ \E c \in Callers : Consume(c) \/ CheckEntry(c)

CompilerSpec == CompilerInit /\ [][CompilerNext]_compilerVars

-----------------------------------------------------------------------------
(* What a compilation promises *)

Ran(c) == call[c] = "running" \/ outcome[c].kind \in {"plan", "failure"}

\* However the callers race for the permit, and although a fork holds a copy
\* that is not consumed, one call at most gets as far as the pipeline.
PermitRunsOnce == \A c, d \in Callers : Ran(c) /\ Ran(d) => c = d

\* The arena's counter is what is live: the slab until Phase B has passed, the
\* values charged, the ids interned, the records derived, and the two hash
\* charges while they are held.  Nothing is leaked or released twice.
LiveCharge ==
    LET slab == phase \in {"parse", "admission", "charge", "cases", "buffer", "relations"}
        values == IF phase = "charge" THEN step - 1
                  ELSE IF phase \in {"entry", "hash", "slab", "parse", "admission"} THEN 0
                  ELSE Len(input.values)
    IN  (IF slab THEN W_B ELSE 0) + REFERENCE_CHARGE * values
        + INTERN_CHARGE * Cardinality(interned)
        + RECORD_CHARGE * admitted_pairs + PATH_CHARGE * admitted["enforcement_path"]
        + (IF hashLive THEN HASH_BUFFER_CHARGE ELSE 0)
        + (IF digestLive THEN SHA256_STATE_CHARGE ELSE 0)

ArenaIsExact == phase # "done" => used = LiveCharge /\ used <= high /\ high <= input.x_max

\* The counters of the streams that a valid ledger really gives.
StreamedCounts(l) ==
    LET relations == FoldSeq(+, 0, RelationStreams(l))
        h == Cardinality(enforcement_paths(l))
    IN  [entities  |-> FoldSeq(+, 0, EntityStreams(l)),
         relations |-> relations + h,
         endpoints |-> 2 * relations + 5 * h,
         paths     |-> h]

\* A plan's closed-form counters are the numbers of records it digests, its
\* keys are distinct, and there is one for every record that needs one.
PlanCountsAreReal ==
    \A c \in Callers : outcome[c].kind = "plan" =>
        LET keys == ExecutionKeys(input.ledger)
        IN  /\ outcome[c].counts = StreamedCounts(input.ledger)
            /\ Cardinality(keys.names) = input.ledger.cardinalities.key_count_exec

\* A plan enforces what the catalog requires: every required obligation, in
\* every case plan of its lane, has a path to a gate of that lane with its own
\* judge and with evidence, and no path is judged by another's judge.
PlanEnforcesObligations ==
    \A c \in Callers : outcome[c].kind = "plan" =>
        LET l == input.ledger IN
        /\ \A o \in ToSet(Required(l)) : \A n \in ToSet(l.lanes) : n.id = o.lane =>
              \A k \in CaseIds(n) : \E h \in enforcement_paths(l) :
                 /\ h.obligation = o.id /\ h.case = k /\ h.gate \in ToSet(n.gates)
                 /\ EvidenceOf(l, h) # {}
        /\ \A g, h \in enforcement_paths(l) :
              g.judge = h.judge <=> g.obligation = h.obligation

\* Phase D can digest the ledger: its entities come to the fixed number.
Digestible(l) ==
    /\ validate_relations(l) = "valid"
    /\ FoldSeq(+, 0, EntityStreams(l)) = FixedEntities + PathCount(l)

\* What a resource failure reports of the arena is the state it happened in:
\* a cap failure the first candidate above the maximum, an allocation failure
\* the charge held before the attempt.
ReportsArena(r) ==
    /\ r.name = "resource_index_cap_exceeded" => r.arena > input.x_max /\ used <= input.x_max
    /\ r.name = "resource_allocation_failed" => r.arena = used /\ used <= input.x_max

\* A failure reports the arena as it is, and never more records than the plan
\* would have, if there could have been one.
FailureIsExact ==
    \A c \in Callers : outcome[c].kind = "failure" =>
        /\ ReportsArena(outcome[c])
        /\ Digestible(input.ledger) =>
              \A f \in DOMAIN NoCounts :
                 outcome[c].counts[f] <= StreamedCounts(input.ledger)[f]
=============================================================================
