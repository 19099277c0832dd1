------------------------------ MODULE LaneOracles ------------------------------
(***************************************************************************)
(* How a lane is judged: the analyzer that turns the one raw record of a    *)
(* case into observations, the reducers that turn the observations of all   *)
(* cases into metrics, and the gates over the metrics.                      *)
(*                                                                         *)
(* Records keep the fields the analyzers read.  A hash, a token or an       *)
(* output is a value to compare; seconds are counted in thousandths and     *)
(* percentages are rounded down.  A record whose shape or types the         *)
(* analyzers' _keys, _list, _number and _boolean refuse is Malformed.       *)
(***************************************************************************)
EXTENDS Integers, Sequences, FiniteSets, SequencesExt, FiniteSetsExt

Malformed == [malformed |-> TRUE]
Null == 0          \* None, where a sequence number is positive

Count(s, Test(_)) == Cardinality({i \in DOMAIN s : Test(s[i])})
Total(s) == FoldLeft(LAMBDA x, y : x + y, 0, s)
If(b) == IF b THEN 1 ELSE 0
Abs(n) == IF n < 0 THEN -n ELSE n
MaxOr(s, default) == IF s = <<>> THEN default ELSE Max(Range(s))
Mismatches(pairs) == Count(pairs, LAMBDA p : p.expected # p.observed)
AllPositive(s) == s # <<>> /\ \A x \in Range(s) : x > 0

-----------------------------------------------------------------------------
(* The analyzers.  Each is total on the records it does not refuse: see     *)
(* Refused below.                                                           *)

core_event_replay(v) ==
    [replay_hash_mismatches |-> If(v.first_state_hash # v.replay_state_hash),
     committed_invariant_violations |->
        Count(v.invariants, LAMBDA holds : v.transition_committed /\ ~holds),
     failed_transition_effects |-> IF v.transition_committed THEN 0 ELSE Len(v.effects)]

scheduler_performance(v) ==
    [performance_plan_mismatches |-> Mismatches(v.plan_pairs),
     decision_latency_samples_us |-> v.decision_latency_us,
     decision_work |-> v.decision_work,
     driver_ipc_observed |-> v.driver_ipc_included]

LifecycleStates == <<"accepted", "preparing", "warming", "admitted", "materialized", "queued",
                     "running", "terminal">>
Position(state) == LET at == {i \in DOMAIN LifecycleStates : LifecycleStates[i] = state}
                   IN  IF at = {} THEN 0 ELSE Max(at)

\* A state is out of order when it comes before one already counted; only a
\* state in order moves the mark.
OutOfOrder(lifecycle) ==
    FoldLeft(LAMBDA acc, state :
                LET p == Position(state)
                IN  IF p = 0 \/ p < acc.previous THEN [acc EXCEPT !.illegal = @ + 1]
                    ELSE [acc EXCEPT !.previous = p],
             [illegal |-> 0, previous |-> 0], lifecycle).illegal

FirstIndex(s, x) == Min({i \in DOMAIN s : s[i] = x})

illegal_transitions(lifecycle) ==
    If(lifecycle = <<>> \/ lifecycle[1] # "accepted") + OutOfOrder(lifecycle)
    + If(/\ "materialized" \in Range(lifecycle)
         /\ \/ "admitted" \notin Range(lifecycle)
            \/ FirstIndex(lifecycle, "materialized") < FirstIndex(lifecycle, "admitted"))

\* What the client event of the case requires of the commit sequences.
event_violated(v) ==
    LET cancellation == v.cancellation_commit_sequence
        receipt == v.receipt_commit_sequence
    IN  CASE v.client_event = "none" ->
                cancellation # Null \/ v.disconnect_observed \/ v.backpressure_timeout_observed
          [] v.client_event = "cancel_before_receipt" ->
                \/ cancellation = Null \/ (receipt # Null /\ cancellation >= receipt)
                \/ v.disconnect_observed \/ v.backpressure_timeout_observed
          [] v.client_event = "cancel_after_receipt" ->
                \/ cancellation = Null \/ receipt = Null \/ cancellation <= receipt
                \/ v.disconnect_observed \/ v.backpressure_timeout_observed
          [] v.client_event = "disconnect" ->
                cancellation = Null \/ ~v.disconnect_observed \/ v.backpressure_timeout_observed
          [] v.client_event = "backpressure_timeout" ->
                cancellation = Null \/ ~v.disconnect_observed \/ ~v.backpressure_timeout_observed

Publication(output) == <<output.publication_id, output.sequence>>

duplicates(outputs) == Len(outputs) - Cardinality({Publication(o) : o \in Range(outputs)})

request_serving(v) ==
    [illegal_lifecycle_transitions |->
        illegal_transitions(v.lifecycle) + If(v.acceptance_reserved)
        + If(v.acceptance_backend_handle),
     duplicate_output_publications |-> duplicates(v.outputs),
     unreserved_output_publications |-> Count(v.outputs, LAMBDA o : ~o.reserved),
     missing_terminal_status |->
        If(~v.terminal_status_emitted \/ "terminal" \notin Range(v.lifecycle)),
     client_event_violations |-> If(event_violated(v))]

mlx_fixture(v) ==
    LET mismatched(kind) ==
            Count(v.parity, LAMBDA p : p.kind = kind /\ p.expected_sha256 # p.observed_sha256)
    IN  [output_mismatches |-> mismatched("output"),
         complete_logits_mismatches |-> mismatched("logits"),
         kv_state_mismatches |-> mismatched("kv"),
         owner_thread_violations |->
            Count(v.execution_thread_ids, LAMBDA t : t # v.owner_thread_id)
            + If(~v.cross_thread_rejected)]

bounded_turn(v) ==
    [turn_service_samples_us |-> v.turn_service_us,
     ffi_output_mismatches |-> Mismatches(v.ffi_pairs),
     ffi_latency_regression_samples_percent |->
        [i \in DOMAIN v.ffi_baseline_us |->
            ((v.ffi_candidate_us[i] - v.ffi_baseline_us[i]) * 100) \div v.ffi_baseline_us[i]],
     unclean_native_outcomes |-> Count(v.native_outcomes, LAMBDA o : ~o.cleaned)]

memory_governor(par, v) ==
    [unsafe_admissions |->
        Count(v.governor_decisions, LAMBDA d : d.admitted /\ ~d.resource_safe),
     lease_unsafe_unloads |->
        Count(v.lease_checks, LAMBDA c : (c.busy \/ c.loading \/ c.lease_count > 0)
                                         /\ c.selected_for_unload),
     resource_mode_order_violations |->
        Count(v.governor_decisions,
              LAMBDA d : \/ d.observed_resource_mode # par.resource_mode
                         \/ d.safety_filter_sequence >= d.schedule_sequence),
     reservation_accounting_error_bytes |->
        MaxOr([i \in DOMAIN v.reservations |->
                 LET r == v.reservations[i]
                 IN  Abs(r.reserved - (r.allocated + r.pending_reclaim + r.released))], 0),
     premature_reclaim_releases |->
        Count(v.pending_reclaim, LAMBDA p : ~(p.process_reclaimed /\ p.backend_reclaimed)
                                            /\ ~p.reservation_held),
     observed_peak_memory_bytes |-> Max(Range(v.process_samples_bytes)),
     reclaim_convergence_samples_us |-> v.reclaim_us]

ReceiptsOf(v, model) == SelectSeq(v.receipts, LAMBDA r : r.model = model)
Ledger(v, model) ==
    Total([i \in DOMAIN ReceiptsOf(v, model) |->
             ReceiptsOf(v, model)[i].engine_service_us \div ReceiptsOf(v, model)[i].weight])

service_error(par, v) ==
    LET alpha == Ledger(v, "alpha")
        beta == Ledger(v, "beta")
        spread == IF alpha + beta = 0 THEN 0 ELSE (Abs(alpha - beta) * 200) \div (alpha + beta)
        weights_match ==
            \A r \in Range(v.receipts) :
                r.weight = IF r.model = "beta" /\ par.model_weights = "1_to_3" THEN 3 ELSE 1
    IN  IF weights_match THEN spread ELSE Max({spread, 100})

cross_model_serving(par, v) ==
    [progress_samples_us |-> v.progress_us,
     timing_samples_us |-> v.timing_us,
     weighted_service_error_percent |-> service_error(par, v),
     ttft_samples_us |-> [i \in DOMAIN v.latency_samples |-> v.latency_samples[i].ttft_us],
     tpot_samples_us |-> [i \in DOMAIN v.latency_samples |-> v.latency_samples[i].tpot_us],
     throughput_work |-> [operations |-> v.throughput.tokens, seconds |-> v.throughput.seconds],
     serving_output_mismatches |-> Mismatches(v.outputs)]

observability(v) ==
    LET stamped == Count(v.command_buffers,
                         LAMBDA b : b.gpu_start_ns > 0 /\ b.gpu_end_ns >= b.gpu_start_ns)
        errors == [i \in DOMAIN v.instruments_pairs |->
                     LET p == v.instruments_pairs[i]
                     IN  (Abs(p.measured_us - p.instruments_us) * 100) \div p.instruments_us]
        t == v.telemetry
    IN  [instruments_capture_missing |-> If(~v.instruments_capture_present),
         timestamp_coverage_percent |->
            IF v.command_buffers = <<>> THEN 100
            ELSE (stamped * 100) \div Len(v.command_buffers),
         attribution_errors |->
            Count(v.command_buffers, LAMBDA b : \/ b.turn_id \notin Range(v.turn_ids)
                                                \/ b.status \notin {"completed", "error"}),
         instruments_relative_error_samples_percent |-> errors,
         instruments_relative_error_p95_samples_percent |-> errors,
         telemetry_throughput_regression_percent |->
            Max({0, ((t.off_throughput - t.on_throughput) * 100) \div t.off_throughput}),
         telemetry_tpot_p95_regression_percent |->
            Max({0, ((t.on_tpot_p95_us - t.off_tpot_p95_us) * 100) \div t.off_tpot_p95_us})]

persistence(v) ==
    [snapshot_roundtrip_mismatches |-> Mismatches(v.snapshots),
     invalid_snapshot_restores |->
        Count(v.invalid_restore_attempts, LAMBDA a : ~a.valid /\ a.restored),
     authoritative_state_divergences |-> Mismatches(v.authorities),
     replayed_external_effects |->
        Total([i \in DOMAIN v.effects |-> Max({0, v.effects[i].executions - 1})])]

owner_lifecycle(v) ==
    [simultaneous_device_owner_count |-> Cardinality(Range(v.daemon.owners)),
     backend_calls_before_initialization_count |-> v.daemon.backend_calls_before_initialization,
     successful_receipt_after_daemon_loss_count |-> v.daemon.successful_receipts_after_daemon_loss,
     client_transport_max_frame_bytes |-> MaxOr(v.client_transport.frame_bytes, 0),
     client_transport_latency_samples_us |-> v.client_transport.latency_us]

expected_applicable(par) == par.changed_identity = "none" /\ par.record_state = "applicable"

certification(par, v) ==
    LET applicable == expected_applicable(par)
        r == v.recertification
    IN  [certification_applicability_mismatches |->
            Count(v.admissions, LAMBDA a : \/ a.observed_record_applicable # applicable
                                           \/ a.shared_turn_started # applicable),
         uncertified_shared_turns |->
            Count(v.admissions, LAMBDA a : ~applicable /\ a.shared_turn_started),
         certification_scope_leaks |-> Count(v.scope_uses, LAMBDA u : u.certified # u.used),
         turns_after_bound_violation |->
            Count(v.quarantine.turn_start_sequences,
                  LAMBDA t : t > v.quarantine.bound_violation_sequence),
         explicit_recertification_failures |->
            If(\/ r.required = applicable \/ r.completed = applicable
               \/ r.new_record_applied = applicable \/ r.shared_turn_started_after = applicable)]

\* The values, beside malformed ones, that make an analyzer raise.
Refused(lane, par, v) ==
    CASE v = Malformed -> TRUE
      [] lane = "request-serving-lifecycle" -> v.client_event # par.client_event
      [] lane = "mlx-native-correctness" ->
            \E p \in Range(v.parity) : p.kind \notin {"output", "logits", "kv"}
      [] lane = "bounded-turn-and-ffi" ->
            \/ Len(v.ffi_baseline_us) # Len(v.ffi_candidate_us) \/ ~AllPositive(v.ffi_baseline_us)
      [] lane = "residency-and-memory-governor" ->
            \/ v.lease_checks = <<>> \/ \E c \in Range(v.lease_checks) : c.lease_count < 0
            \/ v.pending_reclaim = <<>> \/ v.process_samples_bytes = <<>>
      [] lane = "cross-model-serving" ->
            \/ ~AllPositive(v.progress_us) \/ ~AllPositive(v.timing_us)
            \/ {r.model : r \in Range(v.receipts)} # {"alpha", "beta"}
            \/ \E r \in Range(v.receipts) : r.weight <= 0
            \/ \E r, q \in Range(v.receipts) : r.model = q.model /\ r.weight # q.weight
            \/ v.latency_samples = <<>>
            \/ \E s \in Range(v.latency_samples) : s.ttft_us <= 0 \/ s.tpot_us <= 0
            \/ v.throughput.tokens < 0 \/ v.throughput.seconds <= 0
      [] lane = "observability-qualification" ->
            \/ v.instruments_pairs = <<>>
            \/ \E p \in Range(v.instruments_pairs) : p.instruments_us <= 0
            \/ v.telemetry.off_throughput <= 0 \/ v.telemetry.off_tpot_p95_us <= 0
      [] lane = "protocol-and-owner-lifecycle" ->
            \/ ~AllPositive(v.client_transport.latency_us)
            \/ \E b \in Range(v.client_transport.frame_bytes) : b < 0
            \/ v.daemon.backend_calls_before_initialization < 0
            \/ v.daemon.successful_receipts_after_daemon_loss < 0
      [] OTHER -> FALSE

analyze_lane_evidence(lane, par, v) ==
    CASE lane = "core-event-replay" -> core_event_replay(v)
      [] lane = "scheduler-performance" -> scheduler_performance(v)
      [] lane = "request-serving-lifecycle" -> request_serving(v)
      [] lane = "mlx-native-correctness" -> mlx_fixture(v)
      [] lane = "bounded-turn-and-ffi" -> bounded_turn(v)
      [] lane = "residency-and-memory-governor" -> memory_governor(par, v)
      [] lane = "cross-model-serving" -> cross_model_serving(par, v)
      [] lane = "observability-qualification" -> observability(v)
      [] lane = "persistence-and-recovery" -> persistence(v)
      [] lane = "protocol-and-owner-lifecycle" -> owner_lifecycle(v)
      [] lane = "certification-envelopes" -> certification(par, v)

-----------------------------------------------------------------------------
(* Metrics and gates.  A metric is a fraction num/den; a Boolean  *)
(* one is 0 or 1.                                                           *)

\* Mutation: the sample below the position, without interpolation.
_percentile_Lower(samples, p) ==
    [num |-> 100 * SortSeq(samples, <)[((Len(samples) - 1) * p) \div 100 + 1], den |-> 100]

\* The interpolated percentile p of 100: between the samples around (n-1)*p/100.
_percentile(samples, p) ==
    LET ordered == SortSeq(samples, <)
        position == (Len(samples) - 1) * p
        lower == position \div 100
        weight == position % 100
    IN  [num |-> ordered[lower + 1] * (100 - weight)
                 + IF weight = 0 THEN 0 ELSE ordered[lower + 2] * weight,
         den |-> 100]

reduce_observations(reducer, values) ==
    CASE reducer = "any" -> [num |-> If(\E b \in Range(values) : b), den |-> 1]
      [] reducer = "rate" ->
            [num |-> 1000 * Total([i \in DOMAIN values |-> values[i].operations]),
             den |-> Total([i \in DOMAIN values |-> values[i].seconds])]
      [] reducer = "p50" -> _percentile(FlattenSeq(values), 50)
      [] reducer = "p95" -> _percentile(FlattenSeq(values), 95)
      [] reducer = "p99" -> _percentile(FlattenSeq(values), 99)
      [] reducer = "sum" -> [num |-> Total(values), den |-> 1]
      [] reducer = "max" -> [num |-> Max(Range(values)), den |-> 1]
      [] reducer = "min" -> [num |-> Min(Range(values)), den |-> 1]

\* The observations a reducer raises on.
Unreducible(reducer, values) ==
    \/ values = <<>>
    \/ /\ reducer = "rate"
       /\ \/ Total([i \in DOMAIN values |-> values[i].operations]) < 0
          \/ Total([i \in DOMAIN values |-> values[i].seconds]) <= 0
    \/ reducer \in {"p50", "p95", "p99"} /\ \E v \in Range(values) : v = <<>>

\* A reduced metric is never None, so it is present.
_gate_passed(operator, observed, expected) ==
    CASE operator = "present" -> TRUE
      [] operator = "eq" -> observed.num = expected * observed.den
      [] operator = "lte" -> observed.num <= expected * observed.den
      [] operator = "gte" -> observed.num >= expected * observed.den

Gate(id, source, reducer, operator, expected) ==
    [id |-> id, source |-> source, reducer |-> reducer, operator |-> operator,
     expected |-> expected]
ZeroGate(id, source) == Gate(id, source, "sum", "eq", 0)

Bound == 200           \* the frozen limit of every bounded metric
RateBound == 1000      \* and of every rate

\* The gates of a lane with the reducers its suite gives their metrics.
Gates(lane) ==
    CASE lane = "core-event-replay" ->
            {ZeroGate("replay-hash", "replay_hash_mismatches"),
             ZeroGate("invariant-safety", "committed_invariant_violations"),
             ZeroGate("failed-transition-effects", "failed_transition_effects")}
      [] lane = "scheduler-performance" ->
            {ZeroGate("oracle-equivalence", "performance_plan_mismatches"),
             Gate("decision-latency", "decision_latency_samples_us", "p99", "lte", Bound),
             Gate("decision-throughput", "decision_work", "rate", "gte", RateBound),
             Gate("measurement-boundary", "driver_ipc_observed", "any", "eq", 0)}
      [] lane = "request-serving-lifecycle" ->
            {ZeroGate("lifecycle-order", "illegal_lifecycle_transitions"),
             ZeroGate("output-at-most-once", "duplicate_output_publications"),
             ZeroGate("capacity-bound", "unreserved_output_publications"),
             ZeroGate("terminal-status", "missing_terminal_status"),
             ZeroGate("client-event-semantics", "client_event_violations")}
      [] lane = "mlx-native-correctness" ->
            {ZeroGate("output-parity", "output_mismatches"),
             ZeroGate("logits-parity", "complete_logits_mismatches"),
             ZeroGate("kv-parity", "kv_state_mismatches"),
             ZeroGate("owner-violation", "owner_thread_violations")}
      [] lane = "bounded-turn-and-ffi" ->
            {Gate("turn-bound", "turn_service_samples_us", "p99", "lte", Bound),
             ZeroGate("ffi-output-parity", "ffi_output_mismatches"),
             Gate("ffi-latency", "ffi_latency_regression_samples_percent", "p95", "lte", 5),
             ZeroGate("cleanup", "unclean_native_outcomes")}
      [] lane = "residency-and-memory-governor" ->
            {ZeroGate("unsafe-admission", "unsafe_admissions"),
             ZeroGate("lease-safe-unload", "lease_unsafe_unloads"),
             ZeroGate("resource-mode-order", "resource_mode_order_violations"),
             Gate("reservation-conservation", "reservation_accounting_error_bytes", "max", "eq", 0),
             ZeroGate("pending-reclaim-retention", "premature_reclaim_releases"),
             Gate("peak-memory-bound", "observed_peak_memory_bytes", "max", "lte", 2048),
             Gate("reclaim-bound", "reclaim_convergence_samples_us", "p99", "lte", Bound)}
      [] lane = "cross-model-serving" ->
            {Gate("progress-bound", "progress_samples_us", "p99", "lte", Bound),
             Gate("timing-commitment", "timing_samples_us", "p99", "lte", Bound),
             Gate("service-share", "weighted_service_error_percent", "max", "lte", 5),
             Gate("ttft-bound", "ttft_samples_us", "p95", "lte", Bound),
             Gate("tpot-bound", "tpot_samples_us", "p95", "lte", Bound),
             Gate("throughput-bound", "throughput_work", "rate", "gte", RateBound),
             ZeroGate("output-correctness", "serving_output_mismatches")}
      [] lane = "observability-qualification" ->
            {ZeroGate("instruments-capture", "instruments_capture_missing"),
             Gate("timestamp-coverage", "timestamp_coverage_percent", "min", "eq", 100),
             ZeroGate("attribution-errors", "attribution_errors"),
             Gate("calibration-median", "instruments_relative_error_samples_percent", "p50", "lte", 5),
             Gate("calibration-p95", "instruments_relative_error_p95_samples_percent", "p95", "lte", 5),
             Gate("telemetry-throughput", "telemetry_throughput_regression_percent", "max", "lte", 5),
             Gate("telemetry-tpot", "telemetry_tpot_p95_regression_percent", "max", "lte", 5)}
      [] lane = "persistence-and-recovery" ->
            {ZeroGate("snapshot-parity", "snapshot_roundtrip_mismatches"),
             ZeroGate("invalid-snapshot-use", "invalid_snapshot_restores"),
             ZeroGate("authority-divergence", "authoritative_state_divergences"),
             ZeroGate("effect-replay", "replayed_external_effects")}
      [] lane = "protocol-and-owner-lifecycle" ->
            {Gate("multiple-owner", "simultaneous_device_owner_count", "max", "lte", 1),
             ZeroGate("unnegotiated-execution", "backend_calls_before_initialization_count"),
             ZeroGate("fabricated-receipt", "successful_receipt_after_daemon_loss_count"),
             Gate("bound-compliance", "client_transport_max_frame_bytes", "max", "lte", 1024),
             Gate("transport-latency", "client_transport_latency_samples_us", "p99", "lte", Bound)}
      [] lane = "certification-envelopes" ->
            {ZeroGate("applicability-exact", "certification_applicability_mismatches"),
             ZeroGate("uncertified-start", "uncertified_shared_turns"),
             ZeroGate("scope-leak", "certification_scope_leaks"),
             ZeroGate("quarantine-delay", "turns_after_bound_violation"),
             ZeroGate("explicit-recertification", "explicit_recertification_failures")}

\* The frozen thresholds are those of the lane's gates, no more and no fewer.
thresholds_refused(lane, frozen) == frozen # {g.id : g \in Gates(lane)}

\* The IDs of the gates that fail on the observations of all cases.
Values(observed, source) == [i \in DOMAIN observed |-> observed[i][source]]

evaluate_gates(lane, observed) ==
    {g.id : g \in {h \in Gates(lane) :
        ~_gate_passed(h.operator, reduce_observations(h.reducer, Values(observed, h.source)),
                      h.expected)}}
=============================================================================
