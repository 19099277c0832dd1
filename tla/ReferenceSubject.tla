--------------------------- MODULE ReferenceSubject ---------------------------
(***************************************************************************)
(* The reference subject: the raw record it gives for a case of a lane, and *)
(* the one defect it puts into the record to make one gate fail.            *)
(***************************************************************************)
EXTENDS LaneOracles

Huge == 100000         \* a sample far above every limit

Pair(x) == [expected |-> "same", observed |-> x]

OwnerRecord(par) ==
    LET accepted == par.client_protocol_relation \in {"exact", "compatible"}
        initialized == accepted /\ par.daemon_outcome # "failure_before_backend_initialization"
        frames == CASE ~accepted -> <<>>
                    [] par.daemon_outcome \in {"normal", "duplicate_client_command"} -> <<128, 256>>
                    [] par.daemon_outcome \in {"failure_during_turn", "safe_point_timeout"} -> <<128>>
                    [] OTHER -> <<>>
    IN  [daemon |-> [owners |-> IF initialized THEN <<"daemon-1">> ELSE <<>>,
                     backend_calls_before_initialization |-> 0,
                     successful_receipts_after_daemon_loss |-> 0],
         client_transport |-> [frame_bytes |-> frames, latency_us |-> <<10, 12>>]]

RequestRecord(event) ==
    [lifecycle |-> <<"accepted", "preparing", "admitted", "materialized", "queued", "terminal">>,
     outputs |-> <<[publication_id |-> "publication-1", sequence |-> 0, reserved |-> TRUE]>>,
     client_event |-> event,
     acceptance_reserved |-> FALSE,
     acceptance_backend_handle |-> FALSE,
     cancellation_commit_sequence |->
        CASE event = "none" -> Null [] event = "cancel_before_receipt" -> 9
          [] event = "cancel_after_receipt" -> 11 [] OTHER -> 10,
     receipt_commit_sequence |->
        IF event \in {"disconnect", "backpressure_timeout"} THEN Null ELSE 10,
     disconnect_observed |-> event \in {"disconnect", "backpressure_timeout"},
     backpressure_timeout_observed |-> event = "backpressure_timeout",
     terminal_status_emitted |-> TRUE]

GovernorRecord(par) ==
    [governor_decisions |->
        <<[resource_safe |-> TRUE, admitted |-> TRUE,
           observed_resource_mode |-> par.resource_mode,
           safety_filter_sequence |-> 1, schedule_sequence |-> 2]>>,
     lease_checks |->
        <<[busy |-> TRUE, loading |-> FALSE, lease_count |-> 1, selected_for_unload |-> FALSE]>>,
     reservations |->
        <<[reserved |-> 1024, allocated |-> 512, pending_reclaim |-> 0, released |-> 512]>>,
     pending_reclaim |->
        <<[process_reclaimed |-> FALSE, backend_reclaimed |-> FALSE, reservation_held |-> TRUE]>>,
     process_samples_bytes |-> <<1024>>,
     reclaim_us |-> <<100, 110, 120>>]

ServingRecord(par) ==
    LET weight == IF par.model_weights = "1_to_3" THEN 3 ELSE 1
    IN  [progress_us |-> <<10, 11>>, timing_us |-> <<10, 11>>,
         receipts |-> <<[model |-> "alpha", engine_service_us |-> 100, weight |-> 1],
                        [model |-> "beta", engine_service_us |-> 100 * weight, weight |-> weight]>>,
         latency_samples |-> <<[ttft_us |-> 100, tpot_us |-> 10], [ttft_us |-> 110, tpot_us |-> 11]>>,
         throughput |-> [tokens |-> 1000, seconds |-> 100],
         outputs |-> <<Pair("same")>>]

CertificationRecord(par) ==
    LET applicable == expected_applicable(par)
    IN  [admissions |-> <<[observed_record_applicable |-> applicable,
                           shared_turn_started |-> applicable]>>,
         scope_uses |-> <<[certified |-> "scope-1", used |-> "scope-1"]>>,
         quarantine |-> [bound_violation_sequence |-> 10, turn_start_sequences |-> <<>>],
         recertification |-> [required |-> ~applicable, completed |-> ~applicable,
                              new_record_applied |-> ~applicable,
                              shared_turn_started_after |-> ~applicable]]

_case_record(lane, par) ==
    CASE lane = "core-event-replay" ->
            [first_state_hash |-> "state-1", replay_state_hash |-> "state-1",
             invariants |-> <<TRUE>>, transition_committed |-> par.result # "failed",
             effects |-> <<>>]
      [] lane = "scheduler-performance" ->
            [plan_pairs |-> <<Pair("same")>>, decision_latency_us |-> <<10, 11, 12>>,
             decision_work |-> [operations |-> 10000, seconds |-> 10],
             driver_ipc_included |-> FALSE]
      [] lane = "request-serving-lifecycle" -> RequestRecord(par.client_event)
      [] lane = "mlx-native-correctness" ->
            [parity |-> <<[kind |-> "output", expected_sha256 |-> "same", observed_sha256 |-> "same"],
                          [kind |-> "logits", expected_sha256 |-> "same", observed_sha256 |-> "same"],
                          [kind |-> "kv", expected_sha256 |-> "same", observed_sha256 |-> "same"]>>,
             owner_thread_id |-> 1, execution_thread_ids |-> <<1>>, cross_thread_rejected |-> TRUE]
      [] lane = "bounded-turn-and-ffi" ->
            [turn_service_us |-> <<100, 110, 120>>, ffi_pairs |-> <<Pair("same")>>,
             ffi_baseline_us |-> <<100, 100, 100>>, ffi_candidate_us |-> <<100, 100, 100>>,
             native_outcomes |-> <<[terminal |-> "completed", cleaned |-> TRUE]>>]
      [] lane = "residency-and-memory-governor" -> GovernorRecord(par)
      [] lane = "cross-model-serving" -> ServingRecord(par)
      [] lane = "observability-qualification" ->
            [instruments_capture_present |-> TRUE, turn_ids |-> <<1, 2>>,
             command_buffers |->
                <<[turn_id |-> 1, gpu_start_ns |-> 100, gpu_end_ns |-> 200, status |-> "completed"],
                  [turn_id |-> 2, gpu_start_ns |-> 300, gpu_end_ns |-> 400, status |-> "completed"]>>,
             instruments_pairs |-> <<[measured_us |-> 100, instruments_us |-> 100],
                                     [measured_us |-> 100, instruments_us |-> 100]>>,
             telemetry |-> [off_throughput |-> 100, on_throughput |-> 100,
                            off_tpot_p95_us |-> 10, on_tpot_p95_us |-> 10]]
      [] lane = "persistence-and-recovery" ->
            [snapshots |-> <<Pair("same")>>,
             invalid_restore_attempts |-> <<[valid |-> FALSE, restored |-> FALSE]>>,
             authorities |-> <<Pair("same")>>,
             effects |-> <<[id |-> "effect-1", executions |-> 1]>>]
      [] lane = "protocol-and-owner-lifecycle" -> OwnerRecord(par)
      [] lane = "certification-envelopes" -> CertificationRecord(par)

-----------------------------------------------------------------------------
(* One defect per gate *)

InjectClientEvent(r) ==
    CASE r.client_event = "none" -> [r EXCEPT !.disconnect_observed = TRUE]
      [] r.client_event = "cancel_before_receipt" -> [r EXCEPT !.cancellation_commit_sequence = 11]
      [] r.client_event = "cancel_after_receipt" -> [r EXCEPT !.cancellation_commit_sequence = Null]
      [] r.client_event = "disconnect" -> [r EXCEPT !.disconnect_observed = FALSE]
      [] r.client_event = "backpressure_timeout" -> [r EXCEPT !.backpressure_timeout_observed = FALSE]

Slow == <<[measured_us |-> 200, instruments_us |-> 100], [measured_us |-> 200, instruments_us |-> 100]>>

_inject_raw_failure(gate, r) ==
    CASE gate = "replay-hash" -> [r EXCEPT !.replay_state_hash = "different"]
      [] gate = "invariant-safety" ->
            [r EXCEPT !.transition_committed = TRUE, !.invariants = <<FALSE>>]
      [] gate = "failed-transition-effects" ->
            [r EXCEPT !.transition_committed = FALSE, !.effects = <<"leaked-effect">>]
      [] gate = "oracle-equivalence" -> [r EXCEPT !.plan_pairs[1].observed = "different"]
      [] gate = "decision-latency" -> [r EXCEPT !.decision_latency_us = <<Huge>>]
      [] gate = "decision-throughput" ->
            [r EXCEPT !.decision_work = [operations |-> 0, seconds |-> 1000]]
      [] gate = "measurement-boundary" -> [r EXCEPT !.driver_ipc_included = TRUE]
      [] gate = "lifecycle-order" ->
            [r EXCEPT !.lifecycle = <<"accepted", "materialized", "admitted", "terminal">>]
      [] gate = "output-at-most-once" -> [r EXCEPT !.outputs = Append(@, Head(@))]
      [] gate = "capacity-bound" -> [r EXCEPT !.outputs[1].reserved = FALSE]
      [] gate = "terminal-status" -> [r EXCEPT !.terminal_status_emitted = FALSE]
      [] gate = "client-event-semantics" -> InjectClientEvent(r)
      [] gate = "output-parity" -> [r EXCEPT !.parity[1].observed_sha256 = "different"]
      [] gate = "logits-parity" -> [r EXCEPT !.parity[2].observed_sha256 = "different"]
      [] gate = "kv-parity" -> [r EXCEPT !.parity[3].observed_sha256 = "different"]
      [] gate = "owner-violation" -> [r EXCEPT !.execution_thread_ids = <<2>>]
      [] gate = "turn-bound" -> [r EXCEPT !.turn_service_us = <<Huge>>]
      [] gate = "ffi-output-parity" -> [r EXCEPT !.ffi_pairs[1].observed = "different"]
      [] gate = "ffi-latency" -> [r EXCEPT !.ffi_candidate_us = <<200, 200, 200>>]
      [] gate = "cleanup" -> [r EXCEPT !.native_outcomes[1].cleaned = FALSE]
      [] gate = "unsafe-admission" -> [r EXCEPT !.governor_decisions[1].resource_safe = FALSE]
      [] gate = "lease-safe-unload" -> [r EXCEPT !.lease_checks[1].selected_for_unload = TRUE]
      [] gate = "resource-mode-order" ->
            [r EXCEPT !.governor_decisions[1].safety_filter_sequence = 3]
      [] gate = "reservation-conservation" -> [r EXCEPT !.reservations[1].released = 511]
      [] gate = "pending-reclaim-retention" -> [r EXCEPT !.pending_reclaim[1].reservation_held = FALSE]
      [] gate = "peak-memory-bound" -> [r EXCEPT !.process_samples_bytes = <<Huge>>]
      [] gate = "reclaim-bound" -> [r EXCEPT !.reclaim_us = <<Huge>>]
      [] gate = "progress-bound" -> [r EXCEPT !.progress_us = <<Huge>>]
      [] gate = "timing-commitment" -> [r EXCEPT !.timing_us = <<Huge>>]
      [] gate = "service-share" -> [r EXCEPT !.receipts[2].engine_service_us = @ * 2]
      [] gate = "ttft-bound" -> [r EXCEPT !.latency_samples[1].ttft_us = Huge]
      [] gate = "tpot-bound" -> [r EXCEPT !.latency_samples[1].tpot_us = Huge]
      [] gate = "throughput-bound" -> [r EXCEPT !.throughput = [tokens |-> 0, seconds |-> 1000]]
      [] gate = "output-correctness" -> [r EXCEPT !.outputs[1].observed = "different"]
      [] gate = "instruments-capture" -> [r EXCEPT !.instruments_capture_present = FALSE]
      [] gate = "timestamp-coverage" -> [r EXCEPT !.command_buffers[1].gpu_start_ns = 0]
      [] gate = "attribution-errors" -> [r EXCEPT !.command_buffers[1].turn_id = 999]
      [] gate \in {"calibration-median", "calibration-p95"} -> [r EXCEPT !.instruments_pairs = Slow]
      [] gate = "telemetry-throughput" -> [r EXCEPT !.telemetry.on_throughput = 50]
      [] gate = "telemetry-tpot" -> [r EXCEPT !.telemetry.on_tpot_p95_us = 20]
      [] gate = "snapshot-parity" -> [r EXCEPT !.snapshots[1].observed = "different"]
      [] gate = "invalid-snapshot-use" -> [r EXCEPT !.invalid_restore_attempts[1].restored = TRUE]
      [] gate = "authority-divergence" -> [r EXCEPT !.authorities[1].observed = "different"]
      [] gate = "effect-replay" -> [r EXCEPT !.effects[1].executions = 2]
      [] gate = "multiple-owner" -> [r EXCEPT !.daemon.owners = <<"daemon-1", "daemon-2">>]
      [] gate = "unnegotiated-execution" ->
            [r EXCEPT !.daemon.backend_calls_before_initialization = 1]
      [] gate = "fabricated-receipt" ->
            [r EXCEPT !.daemon.successful_receipts_after_daemon_loss = 1]
      [] gate = "bound-compliance" -> [r EXCEPT !.client_transport.frame_bytes = <<Huge>>]
      [] gate = "transport-latency" -> [r EXCEPT !.client_transport.latency_us = <<Huge>>]
      [] gate = "applicability-exact" ->
            [r EXCEPT !.admissions[1].observed_record_applicable = ~@]
      [] gate = "uncertified-start" -> [r EXCEPT !.admissions[1].shared_turn_started = TRUE]
      [] gate = "scope-leak" -> [r EXCEPT !.scope_uses[1].used = "other-scope"]
      [] gate = "quarantine-delay" -> [r EXCEPT !.quarantine.turn_start_sequences = <<11>>]
      [] gate = "explicit-recertification" -> [r EXCEPT !.recertification.new_record_applied = FALSE]

\* The subject's record for a case: spoilt or not.
SubjectRecord(lane, par, gate, spoilt) ==
    IF spoilt THEN _inject_raw_failure(gate, _case_record(lane, par)) ELSE _case_record(lane, par)
=============================================================================
