----------------------------- MODULE MCLaneJudge -----------------------------
(* LaneJudge on three cases per fixture lane, and on as many as the         *)
(* expectation has in two lanes whose percentiles rank samples; production  *)
(* lanes have one case, the native ones a few.                              *)
EXTENDS LaneJudge

MCFixtureLanes ==
    {"core-event-replay", "scheduler-performance", "request-serving-lifecycle",
     "mlx-native-correctness", "bounded-turn-and-ffi", "residency-and-memory-governor",
     "cross-model-serving", "observability-qualification", "persistence-and-recovery",
     "protocol-and-owner-lifecycle", "certification-envelopes"}

MCParameters(lane) ==
    CASE lane = "core-event-replay" -> [result : {"completed", "failed"}]
      [] lane = "request-serving-lifecycle" ->
            [client_event : {"none", "cancel_before_receipt", "cancel_after_receipt", "disconnect",
                             "backpressure_timeout"}]
      [] lane = "residency-and-memory-governor" -> [resource_mode : {"normal", "critical"}]
      [] lane = "cross-model-serving" -> [model_weights : {"1_to_1", "1_to_3"}]
      [] lane = "protocol-and-owner-lifecycle" ->
            [daemon_outcome : {"normal", "failure_before_backend_initialization",
                               "failure_during_turn"},
             client_protocol_relation : {"exact"}]
            \cup [daemon_outcome : {"normal"}, client_protocol_relation : {"incompatible"}]
      [] lane = "certification-envelopes" ->
            [changed_identity : {"none", "mlx_build"}, record_state : {"applicable", "stale_evidence"}]
      [] OTHER -> {[none |-> TRUE]}

\* 36 and 40 are the expectation's case counts of the two lanes.
MCCaseCounts(lane) ==
    CASE lane = "observability-qualification" -> {3, 36}
      [] lane = "scheduler-performance" -> {3, 40}
      [] OTHER -> {3}

\* Every set of three cases; of more, prefixes on both sides of what the
\* percentiles and the rates tolerate.
MCSpoiltSets(n) ==
    IF n = 3 THEN SUBSET (1..n) \ {{}}
    ELSE {1..k : k \in {1, 2, n \div 2 - 1, n \div 2, n - 4, n - 3, n}}

MCModelCounts == {1, 2, 8}

States == {"accepted", "admitted", "materialized", "terminal", "bogus"}
Output(id, reserved) == [publication_id |-> id, sequence |-> 0, reserved |-> reserved]
Outputs == {Output("a", TRUE), Output("a", FALSE), Output("b", TRUE)}
Clean == <<"accepted", "admitted", "materialized", "terminal">>

View(lifecycle, outputs) ==
    [request_id |-> 1, lifecycle |-> lifecycle, outputs |-> outputs,
     reservation_created |-> FALSE, backend_handle_created |-> FALSE]
Trace(id, lifecycle, outputs) ==
    [request_id |-> id, lifecycle |-> lifecycle, outputs |-> outputs,
     cancellation_commit_sequence |-> Null, receipt_commit_sequence |-> 10,
     disconnect_observed |-> FALSE, backpressure_timeout_observed |-> FALSE,
     terminal_status_emitted |-> TRUE]

\* Either the lifecycles vary or the outputs do.
MCClientViews ==
    {View(l, <<>>) : l \in {<<>>, <<"accepted", "terminal">>, <<"terminal", "accepted">>,
                            <<"accepted", "materialized">>, <<"accepted", "accepted">>}}
    \cup {View(<<>>, os) : os \in UNION {[1..n -> Outputs] : n \in 0..2}}
MCTraces ==
    {Trace(1, l, <<>>) : l \in UNION {[1..n -> States] : n \in 0..4}}
    \cup {Trace(id, Clean, os) : id \in {1, 2}, os \in UNION {[1..n -> Outputs] : n \in 0..3}}

\* The C++ Direct cases of two keys: boundary the innermost axis, as in the
\* expectations, the outermost, the innermost with the candidate first, or one
\* candidate missing.
Oracle(k) == [key |-> k, boundary |-> "cpp_direct_oracle"]
Candidate(k) == [key |-> k, boundary |-> "implementation_candidate"]
MCFfiPlans ==
    {<<Oracle("a"), Candidate("a"), Oracle("b"), Candidate("b")>>,
     <<Oracle("a"), Oracle("b"), Candidate("a"), Candidate("b")>>,
     <<Candidate("a"), Oracle("a"), Candidate("b"), Oracle("b")>>,
     <<Oracle("a"), Oracle("b"), Candidate("a")>>}

\* The services are in proportion or far from it.
Receipts == [model : {"alpha", "beta", "gamma"}, engine_service_us : {0, 300, 900}, weight : {0, 1, 3}]
MCReceiptLists ==
    UNION {[1..n -> Receipts] : n \in 0..2}
    \cup {<<a, b, c>> : a, b, c \in {r \in Receipts : r.model # "gamma" /\ r.weight # 0
                                                      /\ r.engine_service_us = 300}}
=============================================================================
