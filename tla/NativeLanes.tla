----------------------------- MODULE NativeLanes -----------------------------
(***************************************************************************)
(* The native lanes of a production subject: its candidate artifacts are    *)
(* compared with what the benchmark's own oracle wrote for the same case    *)
(* (MLX), or for the paired case of the same architecture, phase, batch and *)
(* shape (C++ Direct).  The two lanes whose evidence the benchmark collects *)
(* beside the subject, and the receipts of cross-model serving, are here    *)
(* too.                                                                    *)
(*                                                                         *)
(* A hash is the key of the case the bytes belong to, or "other".           *)
(***************************************************************************)
EXTENDS ReferenceSubject

-----------------------------------------------------------------------------
(* MLX: oracle, candidate artifacts, owner-thread trace *)

MlxOracleDefects == {"oracle_fails", "oracle_hangs", "oracle_diagnostic"}
MlxCandidateDefects ==
    {"unsupported", "claims", "missing_artifact", "repeated_artifact", "wrong_output", "wrong_logits", "wrong_kv",
     "no_cross_attempt", "cross_accepted", "wrong_thread", "own_rejected"}

MlxArtifacts == {"candidate_output", "candidate_logits", "candidate_kv", "owner_thread_trace"}

Operation(thread, cross, accepted) ==
    [owner_thread_id |-> 1, execution_thread_id |-> thread, cross_thread_attempt |-> cross,
     accepted |-> accepted]

MlxCandidate(defect, key) ==
    LET hash(d) == IF defect = d THEN "other" ELSE key
        own == CASE defect = "wrong_thread" -> Operation(2, FALSE, TRUE)
                 [] defect = "own_rejected" -> Operation(1, FALSE, FALSE)
                 [] OTHER -> Operation(1, FALSE, TRUE)
        cross == Operation(2, TRUE, defect = "cross_accepted")
    IN  [open_status |-> IF defect = "unsupported" THEN "unsupported" ELSE "ready",
         observations |-> defect = "claims",
         artifacts |-> CASE defect = "missing_artifact" ->
                                SetToSeq(MlxArtifacts \ {"candidate_kv"})
                         [] defect = "repeated_artifact" ->
                                Append(SetToSeq(MlxArtifacts), "candidate_kv")
                         [] OTHER -> SetToSeq(MlxArtifacts),
         output |-> hash("wrong_output"), logits |-> hash("wrong_logits"), kv |-> hash("wrong_kv"),
         trace |-> IF defect = "no_cross_attempt" THEN <<own>> ELSE <<own, cross>>]

\* The declared artifacts are the expected ones, each once.
Exactly(artifacts, expected) ==
    Range(artifacts) = expected /\ Len(artifacts) = Cardinality(expected)

\* A cross-thread attempt must be rejected; an operation of the owner must be
\* accepted and run on the owner's thread.
owner_violations(trace) ==
    Count(trace, LAMBDA r : IF r.cross_thread_attempt THEN r.accepted
                            ELSE ~r.accepted \/ r.execution_thread_id # r.owner_thread_id)

mlx_refused(c) ==
    \/ c.observations \/ ~Exactly(c.artifacts, MlxArtifacts)
    \/ c.trace = <<>> \/ ~\E r \in Range(c.trace) : r.cross_thread_attempt

mlx_comparison(c, key) ==
    [output_mismatches |-> If(c.output # key),
     complete_logits_mismatches |-> If(c.logits # key),
     kv_state_mismatches |-> If(c.kv # key),
     owner_thread_violations |-> owner_violations(c.trace)]

-----------------------------------------------------------------------------
(* C++ Direct: baselines and paired candidates *)

FfiOracleDefects == {"oracle_fails", "oracle_hangs", "oracle_omits_output", "oracle_short"}
FfiCandidateDefects ==
    {"unsupported", "claims", "extra_artifact", "repeated_artifact", "paired_with_other", "wrong_kv", "slow_service",
     "slow_wall", "fewer_samples", "zero_sample", "other_receipt", "unbounded", "never_cancelled",
     "other_cleanup", "cleanup_omits_cancelled", "unclean"}

Iterations == 2        \* bundle["iterations"]
FfiArtifacts == {"candidate_logits", "candidate_kv", "candidate_latency", "turn_receipt",
                 "candidate_cleanup"}

OracleOutput(defect, key) ==
    [outputs |-> IF defect = "oracle_omits_output" THEN {"csv", "logits"} ELSE {"csv", "logits", "kv"},
     wall_us |-> [i \in 1..(IF defect = "oracle_short" THEN Iterations - 1 ELSE Iterations) |-> 100],
     logits |-> key, kv |-> key]

oracle_refused(o) == o.outputs # {"csv", "logits", "kv"} \/ Len(o.wall_us) # Iterations

FfiCandidate(defect, key) ==
    LET n == IF defect = "fewer_samples" THEN Iterations - 1 ELSE Iterations
        wall == CASE defect = "slow_wall" -> 200 [] defect = "zero_sample" -> 0 [] OTHER -> 100
        cancelled == IF defect = "never_cancelled" THEN "completed" ELSE "cancelled"
    IN  [open_status |-> IF defect = "unsupported" THEN "unsupported" ELSE "ready",
         observations |-> defect = "claims",
         artifacts |-> SetToSeq(FfiArtifacts) \o CASE defect = "extra_artifact" -> <<"claim">>
                                                  [] defect = "repeated_artifact" -> <<"turn_receipt">>
                                                  [] OTHER -> <<>>,
         wall_us |-> [i \in 1..n |-> wall],
         engine_service_us |-> [i \in 1..n |-> IF defect = "slow_service" THEN Huge ELSE 100],
         logits |-> IF defect = "paired_with_other" THEN "other" ELSE key,
         kv |-> IF defect = "wrong_kv" THEN "other" ELSE key,
         receipt |-> [own |-> defect # "other_receipt",
                      outcomes |-> <<[terminal |-> "completed", bounded |-> defect # "unbounded"],
                                     [terminal |-> cancelled, bounded |-> TRUE]>>],
         cleanup |-> [own |-> defect # "other_cleanup",
                      outcomes |-> <<[terminal |-> IF defect = "cleanup_omits_cancelled"
                                                   THEN "failed" ELSE "cancelled",
                                      cleaned |-> defect # "unclean"]>>]]

Terminals(evidence) == {o.terminal : o \in Range(evidence.outcomes)}

ffi_refused(c, baseline) ==
    \/ c.observations \/ ~Exactly(c.artifacts, FfiArtifacts)
    \/ ~AllPositive(c.wall_us) \/ ~AllPositive(c.engine_service_us)
    \/ Len(c.wall_us) # Len(baseline.wall_us)
    \/ ~c.receipt.own \/ \E o \in Range(c.receipt.outcomes) : ~o.bounded
    \/ ~({"completed", "cancelled"} \subseteq Terminals(c.receipt))
    \/ ~c.cleanup.own \/ "cancelled" \notin Terminals(c.cleanup)

ffi_comparison(c, baseline) ==
    [turn_service_samples_us |-> c.engine_service_us,
     ffi_output_mismatches |-> If(c.logits # baseline.logits) + If(c.kv # baseline.kv),
     ffi_latency_regression_samples_percent |->
        [i \in DOMAIN c.wall_us |->
            ((c.wall_us[i] - baseline.wall_us[i]) * 100) \div baseline.wall_us[i]],
     unclean_native_outcomes |-> Count(c.cleanup.outcomes, LAMBDA o : ~o.cleaned)]

\* Every case executed, and half of them baselines.
pairing_incomplete(baselines, executed, planned) ==
    executed # planned \/ 2 * Cardinality(DOMAIN baselines) # executed

-----------------------------------------------------------------------------
(* Evidence the benchmark collects itself *)

\* What the sampler or xctrace brought: good, over the limit, no sample, or
\* the collector could not be had.
Collections(lane) == IF lane = "residency-and-memory-governor" THEN {"good", "bad", "none"}
                     ELSE {"good", "unavailable"}

\* No sample, or no capture; XctraceCollector.stop raises rather than return
\* without one, so only the sampler brings none.
collection_refused(collected) == collected = "none"

\* The benchmark's samples and capture take the place of the subject's claim.
collected_record(lane, collected, record) ==
    IF lane = "residency-and-memory-governor"
    THEN [record EXCEPT !.process_samples_bytes = IF collected = "bad" THEN <<1024, Huge>>
                                                  ELSE <<1024>>]
    ELSE [record EXCEPT !.instruments_capture_present = TRUE]

-----------------------------------------------------------------------------
(* Cross-model serving: the receipts of the production trace *)

receipts_refused(receipts) ==
    \/ receipts = <<>>
    \/ \E r \in Range(receipts) : \/ r.model \notin {"alpha", "beta"}
                                  \/ r.engine_service_us <= 0 \/ r.weight <= 0

\* Progress, timing, latency, throughput and outputs are the client's.
merge_receipts(direct, receipts) == [direct EXCEPT !.receipts = receipts]
=============================================================================
