--------------------------- MODULE ProductionCases ---------------------------
(***************************************************************************)
(* The cases the benchmark drives itself when the subject is not a fixture: *)
(* the event stream replayed against a Core, the Snapshots a scheduler Core *)
(* is measured on, and the trace of a request that is merged with what the  *)
(* Data Plane client saw.                                                   *)
(***************************************************************************)
EXTENDS LaneOracles

-----------------------------------------------------------------------------
(* Core event replay: the input *)

CoreResults == {"completed", "failed", "cancelled", "indeterminate"}
CoreRelations == {"current", "duplicate", "late", "unknown", "stale_generation"}

_core_event_case_input(par) ==
    LET relation == par.sequence_relation
    IN  [initial_state |->
            [generation |-> 7, last_effect_sequence |-> 40,
             pending |-> IF relation \in {"duplicate", "unknown"} THEN {} ELSE {"effect"},
             seen |-> IF relation = "duplicate" THEN {"effect"} ELSE {}],
         effect_id |-> IF relation = "unknown" THEN "unknown-effect" ELSE "effect",
         generation |-> IF relation = "stale_generation" THEN 6 ELSE 7,
         sequence |-> CASE relation = "duplicate" -> 40 [] relation = "late" -> 39 [] OTHER -> 41,
         result |-> par.result,
         relation |-> relation,
         cancellation |-> IF par.result = "cancelled" THEN 42 ELSE Null]

-----------------------------------------------------------------------------
(* A Core under test, with at most one defect *)

CoreDefects == {"none", "reapplies", "reapplies_quietly", "never_applies", "leaks_on_failure",
                "commits_failure", "keeps_state", "publishes_twice", "publishes_late",
                "skips_cancellation", "misnames_relation", "other_input", "torn_state"}

\* How a Core without a defect classifies the result it is given.
Classified(s, in) ==
    CASE in.effect_id \in s.seen -> "duplicate"
      [] in.effect_id \notin s.seen \cup s.pending -> "unknown"
      [] in.effect_id \in s.pending /\ in.generation # s.generation -> "stale_generation"
      [] in.effect_id \in s.pending /\ in.generation = s.generation
         /\ in.sequence <= s.last_effect_sequence -> "late"
      [] OTHER -> "current"

Execution(defect, s, in) ==
    LET class == Classified(s, in)
        applies == CASE defect \in {"reapplies", "reapplies_quietly"} -> TRUE
                     [] defect = "never_applies" -> FALSE
                     [] OTHER -> class = "current"
        commits == applies /\ (in.result # "failed" \/ defect = "commits_failure")
        after == IF commits THEN [s EXCEPT !.pending = @ \ {in.effect_id},
                                           !.seen = @ \cup {in.effect_id},
                                           !.last_effect_sequence = @ + 1]
                 ELSE s
        quiet == defect = "reapplies_quietly" /\ class # "current"
        publishes == commits \/ (applies /\ defect = "leaks_on_failure")
        effect == [effect_id |-> "next-effect",
                   publication_sequence |-> IF defect = "publishes_late" /\ in.result = "cancelled"
                                             THEN 43 ELSE 41]
        cancels == applies /\ in.result = "cancelled" /\ ~quiet /\ defect # "skips_cancellation"
    IN  [input |-> IF defect = "other_input" THEN "other" ELSE "benchmark",
         final_state |-> IF defect = "torn_state" THEN [after EXCEPT !.generation = 8] ELSE after,
         sequence_relation |-> IF defect = "misnames_relation" THEN "late" ELSE class,
         applied |-> applies /\ ~quiet,
         transition_committed |-> commits /\ ~quiet,
         before |-> s,
         after |-> after,
         published_effects |-> CASE ~publishes \/ quiet -> <<>>
                                 [] defect = "publishes_twice" -> <<effect, effect>>
                                 [] OTHER -> <<effect>>,
         cancel_commit |-> IF cancels THEN in.cancellation ELSE Null,
         cancel_terminal |-> IF cancels THEN in.cancellation + 1 ELSE Null]

\* The state the second replay starts from: pristine, or what the first left.
ReplayFrom(defect, in, first) == IF defect = "keeps_state" THEN first.after ELSE in.initial_state

-----------------------------------------------------------------------------
(* Core event replay: what the benchmark derives *)

execution_refused(x) == x.input # "benchmark" \/ x.final_state # x.after

_normalize_core_execution(x, in) ==
    LET should_apply == in.relation = "current"
        should_commit == should_apply /\ in.result # "failed"
        unique == Cardinality({e.effect_id : e \in Range(x.published_effects)})
                  = Len(x.published_effects)
        changed == x.before # x.after
        failed_atomic == in.result = "failed"
                         => ~x.transition_committed /\ ~changed /\ x.published_effects = <<>>
        ordered == IF in.result = "cancelled" /\ should_apply
                   THEN /\ x.cancel_commit # Null /\ x.cancel_terminal # Null
                        /\ x.cancel_commit <= x.cancel_terminal
                        /\ \A e \in Range(x.published_effects) :
                              e.publication_sequence < x.cancel_commit
                   ELSE x.cancel_commit = Null /\ x.cancel_terminal = Null
    IN  <<x.sequence_relation = in.relation,
          x.applied = should_apply,
          x.transition_committed = should_commit /\ changed = should_commit /\ failed_atomic,
          unique /\ (should_commit \/ x.published_effects = <<>>),
          ordered>>

core_record(xs, in) ==
    LET sets == [i \in 1..2 |-> _normalize_core_execution(xs[i], in)]
    IN  [first_state_hash |-> xs[1],
         replay_state_hash |-> xs[2],
         invariants |-> [k \in 1..5 |-> sets[1][k] /\ sets[2][k]],
         transition_committed |-> xs[1].transition_committed,
         effects |-> [i \in DOMAIN xs[1].published_effects |->
                        xs[1].published_effects[i].effect_id]]

-----------------------------------------------------------------------------
(* Scheduler performance: the Snapshots and the plan expected of each *)

Snapshots == 0..3
NoPlan == -1
LedgerUnit == 6     \* ledgers are counted in sixths

\* Candidate i of a Snapshot: ledger, resource safety, and latest safe start
\* as an offset from now (NoStart: no timing obligation).
NoStart == 1000
SnapshotLedger(n, snap, i) == (((i + snap) % Max({n, 2})) * LedgerUnit) \div ((i % 3) + 1)
SnapshotSafe(mode, i) == mode = "normal" \/ (mode = "guarded" /\ i % 4 # 3)
SnapshotStart(mix, i) == IF mix = "mixed" /\ i % 3 = 0 THEN i - 100 ELSE NoStart

LexLess(a, b) == \E k \in DOMAIN a : a[k] < b[k] /\ \A j \in 1..(k - 1) : a[j] = b[j]
LeastBy(S, key(_)) == CHOOSE i \in S : \A j \in S : i = j \/ LexLess(key(i), key(j))

ExpectedPlan(par, snap) ==
    LET safe == {i \in 0..(par.runnable_models - 1) : SnapshotSafe(par.resource_mode, i)}
        urgent == {i \in safe : SnapshotStart(par.urgency_mix, i) <= 0}
        urgentKey(i) == <<SnapshotStart(par.urgency_mix, i),
                          SnapshotLedger(par.runnable_models, snap, i), i>>
        ledgerKey(i) == <<SnapshotLedger(par.runnable_models, snap, i), i>>
    IN  CASE urgent # {} -> LeastBy(urgent, urgentKey)
          [] urgent = {} /\ safe # {} -> LeastBy(safe, ledgerKey)
          [] OTHER -> NoPlan

_scheduler_performance_case_input(par) == [s \in 1..4 |-> ExpectedPlan(par, s - 1)]

\* What the measuring subject returns beside its plans; MinIterations and
\* Warmup stand for the 1000 and 100 decisions of the measurement contract.
MinIterations == 3
Warmup == 1
measurement_refused(m) ==
    \/ m.input # "benchmark" \/ m.snapshots # <<0, 1, 2, 3>> \/ Len(m.plans) # 4
    \/ m.build_mode # "release" \/ m.warmup_iterations # Warmup \/ m.iterations < MinIterations
    \/ m.timer # "monotonic" \/ m.measured_region # "scheduler_core_only"
    \/ Len(m.latency) # m.iterations \/ m.operations # m.iterations

performance_record(m, expected) ==
    [plan_pairs |-> [s \in 1..4 |-> [expected |-> expected[s], observed |-> m.plans[s]]],
     decision_latency_us |-> m.latency,
     decision_work |-> [operations |-> m.operations, seconds |-> m.seconds],
     driver_ipc_included |-> m.driver_ipc]

-----------------------------------------------------------------------------
(* Request serving: the client's view and the production trace *)

\* all(any(...)) over one iterator: every item is looked for after the last.
_is_subsequence(observed, complete) ==
    FoldLeft(LAMBDA at, item :
                IF at > Len(complete) THEN at
                ELSE LET later == {i \in (at + 1)..Len(complete) : complete[i] = item}
                     IN  IF later = {} THEN Len(complete) + 1 ELSE Min(later),
             0, observed) <= Len(complete)

\* Mutation: the trace holds what the client saw, in any order.
trace_refused_AnyOrder(direct, trace) ==
    \/ trace.request_id # direct.request_id
    \/ ~(Range(direct.lifecycle) \subseteq Range(trace.lifecycle))
    \/ ~(Range(direct.outputs) \subseteq Range(trace.outputs))

trace_refused(direct, trace) ==
    \/ trace.request_id # direct.request_id
    \/ ~_is_subsequence(direct.lifecycle, trace.lifecycle)
    \/ ~_is_subsequence(direct.outputs, trace.outputs)

merge_production_trace(par, direct, trace) ==
    [lifecycle |-> trace.lifecycle,
     outputs |-> trace.outputs,
     client_event |-> par.client_event,
     acceptance_reserved |-> direct.reservation_created,
     acceptance_backend_handle |-> direct.backend_handle_created,
     cancellation_commit_sequence |-> trace.cancellation_commit_sequence,
     receipt_commit_sequence |-> trace.receipt_commit_sequence,
     disconnect_observed |-> trace.disconnect_observed,
     backpressure_timeout_observed |-> trace.backpressure_timeout_observed,
     terminal_status_emitted |-> trace.terminal_status_emitted]
=============================================================================
