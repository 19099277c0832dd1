---------------------------- MODULE SchedulerOracle ----------------------------
(***************************************************************************)
(* The exact scheduler policy of protocol v1 as the benchmark computes it,  *)
(* the reference driver's own implementation of it, and the metrics of a    *)
(* repetition.  Ledgers are fractions, counted here in units of 1/Scale.  A *)
(* candidate's obligation is an offset from the turn's own time, so that    *)
(* what its latest safe start leaves from now, its slack, is fixed.         *)
(***************************************************************************)
EXTENDS SchedulerModels, Sequences, Functions

CONSTANTS
    Weights,   \* per model: its weight
    Scale      \* a common multiple of the weights

ASSUME WeightsAssumption == \A m \in Models : Scale % Weights[m] = 0 /\ Weights[m] > 0

NoSlack == 1000    \* a candidate without a timing obligation
NoCandidate == [id |-> 0, model |-> NoModel, eligible |-> FALSE, slack |-> NoSlack, service |-> 0]

\* State of a SchedulerOracle, and of the driver's ReferenceScheduler.
NewScheduler == [ledgers |-> [m \in Models |-> 0], runnable |-> {}, baseline |-> 0,
                 pending |-> NoCandidate]

The(S) == CHOOSE x \in S : TRUE

eligible(cands) == {c \in cands : c.eligible}
is_urgent(c) == c.eligible /\ c.slack # NoSlack /\ c.slack <= 0

ModelsOf(cands) == {c.model : c \in eligible(cands)}

\* Mutation: a model that comes back is not realigned.
sync_runnable_Kept(s, current) ==
    LET baseline == IF current = {} THEN s.baseline ELSE The(Least(s.ledgers, current))
    IN  [s EXCEPT !.runnable = current, !.baseline = baseline]

sync_runnable(s, current) ==
    LET continuing == current \cap s.runnable
        alignment == IF continuing # {} THEN The(Least(s.ledgers, continuing)) ELSE s.baseline
        ledgers == [m \in Models |-> IF m \in current \ s.runnable THEN alignment
                                     ELSE s.ledgers[m]]
    IN  [s EXCEPT !.ledgers = ledgers, !.runnable = current,
                  !.baseline = IF current = {} THEN @ ELSE The(Least(ledgers, current))]

\* The orders of min(): by latest safe start, ledger and candidate ID, and by
\* ledger and model ID (a model has at most one candidate).
Before(a, b) == \E i \in 1..Len(a) : a[i] < b[i] /\ \A j \in 1..(i - 1) : a[j] = b[j]
FirstBy(S, key(_)) == CHOOSE c \in S : \A d \in S : c = d \/ Before(key(c), key(d))

select(s, cands) ==
    LET urgent == {c \in cands : is_urgent(c)}
        urgentKey(c) == <<c.slack, s.ledgers[c.model], c.id>>
        normalKey(c) == <<s.ledgers[c.model], c.model, c.id>>
    IN  IF urgent # {} THEN FirstBy(urgent, urgentKey)
        ELSE IF eligible(cands) # {} THEN FirstBy(eligible(cands), normalKey)
        ELSE NoCandidate

schedule(s, cands) ==
    LET synced == sync_runnable(s, ModelsOf(cands))
    IN  [synced EXCEPT !.pending = select(synced, cands)]

charge(c) == c.service * (Scale \div Weights[c.model])

accept_receipt(s, c) ==
    LET ledgers == [s.ledgers EXCEPT ![c.model] = @ + charge(c)]
    IN  [s EXCEPT !.ledgers = ledgers, !.pending = NoCandidate,
                  !.baseline = The(Least(ledgers, s.runnable))]

-----------------------------------------------------------------------------
(* The reference driver *)

driver_schedule(s, cands) ==
    LET current == ModelsOf(cands)
        continuing == current \cap s.runnable
        alignment == IF continuing # {} THEN The(Least(s.ledgers, continuing)) ELSE s.baseline
        ledgers == [m \in Models |-> IF m \in current \ s.runnable THEN alignment
                                     ELSE s.ledgers[m]]
        urgent == {c \in cands : c.eligible /\ c.slack # NoSlack /\ c.slack <= 0}
        urgentKey(c) == <<c.slack, ledgers[c.model], c.id>>
        normalKey(c) == <<ledgers[c.model], c.model, c.id>>
    IN  [s EXCEPT !.ledgers = ledgers, !.runnable = current,
                  !.baseline = IF current = {} THEN @ ELSE The(Least(ledgers, current)),
                  !.pending = IF urgent # {} THEN FirstBy(urgent, urgentKey)
                              ELSE IF current # {} THEN FirstBy(eligible(cands), normalKey)
                              ELSE NoCandidate]

driver_receipt(s, c) ==
    LET ledgers == [s.ledgers EXCEPT ![c.model] = @ + c.service * (Scale \div Weights[c.model])]
    IN  [s EXCEPT !.ledgers = ledgers, !.pending = NoCandidate,
                  !.baseline = IF s.runnable = {} THEN @ ELSE The(Least(ledgers, s.runnable))]

-----------------------------------------------------------------------------
(* The metrics of a repetition *)

Zeros == [m \in Models |-> 0]
NewTally == [urgent |-> 0, normal |-> 0, no_plan |-> 0, selected |-> Zeros, service |-> Zeros,
             wait |-> Zeros, max_wait |-> Zeros, last |-> NoModel, consecutive |-> 0,
             max_consecutive |-> Zeros]

More(a, b) == IF a > b THEN a ELSE b

\* Mutation: a model that is not runnable keeps its wait.
tally_waits_Idle(t, cands, c) ==
    LET wait == [m \in Models |-> IF m = c.model THEN 0
                                  ELSE t.wait[m] + IF m \in ModelsOf(cands) THEN 1 ELSE 0]
    IN  [t EXCEPT !.wait = wait, !.max_wait = [m \in Models |-> More(@[m], wait[m])]]

\* What a turn whose plan is the expected one adds: waits of the runnable models
\* that were not selected, and the selection.
tally_waits(t, cands, c) ==
    LET wait == [m \in Models |-> IF m \in ModelsOf(cands) /\ m # c.model THEN t.wait[m] + 1 ELSE 0]
    IN  [t EXCEPT !.wait = wait, !.max_wait = [m \in Models |-> More(@[m], wait[m])]]

tally_selection(t, c) ==
    LET run == IF t.last = c.model THEN t.consecutive + 1 ELSE 1
    IN  IF c = NoCandidate THEN [t EXCEPT !.no_plan = @ + 1]
        ELSE [t EXCEPT !.urgent = IF is_urgent(c) THEN @ + 1 ELSE @,
                       !.normal = IF is_urgent(c) THEN @ ELSE @ + 1,
                       !.selected[c.model] = @ + 1, !.service[c.model] = @ + c.service,
                       !.last = c.model, !.consecutive = run,
                       !.max_consecutive[c.model] = More(@, run)]

\* The same metrics read off the finished trace of <<runnable, selected>> turns:
\* the most turns of C in a row, where what is in a row is within W.
Lengths(n, W, C) ==
    {0} \cup {Cardinality(C \cap (p[1]..p[2])) : p \in
                 {q \in (1..n) \X (1..n) : q[1]..q[2] \subseteq W}}
Longest(n, W, C) == CHOOSE x \in Lengths(n, W, C) : \A y \in Lengths(n, W, C) : y <= x

Waits(trace, m) == {k \in 1..Len(trace) : m \in trace[k].runnable /\ trace[k].selected # m}
Selections(trace, m) == {k \in 1..Len(trace) : trace[k].selected = m}

TraceMaxWait(trace, m) == Longest(Len(trace), Waits(trace, m), Waits(trace, m))
TraceMaxConsecutive(trace, m) ==
    Longest(Len(trace), Selections(trace, m) \cup Selections(trace, NoModel), Selections(trace, m))
TraceCount(trace, m) == Cardinality(Selections(trace, m))
=============================================================================
