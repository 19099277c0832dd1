----------------------------- MODULE SchedulerRun -----------------------------
(***************************************************************************)
(* A scheduler scenario judged turn by turn: BenchmarkRunner with a driver  *)
(* process of its own per repetition, or the scheduler-policy lane with one *)
(* Subject Session for all of them.  The benchmark asks, waits for a line   *)
(* and compares it with its oracle.  The driver is the reference scheduler  *)
(* with one fault, somewhere: a wrong answer, or none.                      *)
(***************************************************************************)
EXTENDS SchedulerOracle

CONSTANTS
    Cases,        \* scenarios: harness, turns, and the driver's fault
    Repetitions   \* repetitions of a scenario

ASSUME RepetitionsAssumption == Repetitions \in Nat \ {0, 1}

\* What the loader admits: at least one turn; known models, positive service,
\* candidate IDs that differ, and one candidate per model.
ASSUME CasesAssumption ==
    \A k \in Cases :
        /\ Len(k.turns) \in Nat \ {0}
        /\ \A t \in 1..Len(k.turns) :
              /\ IsFiniteSet(k.turns[t])
              /\ \A c \in k.turns[t] :
                    /\ c.id \in Nat \ {0} /\ c.model \in Models /\ c.eligible \in BOOLEAN
                    /\ c.slack \in Int /\ charge(c) \in 1..MaxCharge
              /\ \A c, d \in k.turns[t] : c.id = d.id \/ c.model = d.model => c = d

VARIABLES
    case,        \* the scenario being run
    rep,         \* the repetition
    pc,          \* the next request of the repetition, or what comes after
    awaiting,    \* the request has been written and its answer is awaited
    turn,        \* sequence
    requests,    \* requests made in this repetition
    oracle,      \* the benchmark's SchedulerOracle
    urgents,     \* its urgent selections
    driver,      \* the driver's ReferenceScheduler
    process,     \* none | running | exited
    exiting,     \* how far the driver's __exit__ is
    broken,      \* a write failed: the driver has closed its stdin
    held,        \* a child of the driver holds its stdout
    lines,       \* answers not read yet
    records,     \* the repetition's records
    tally,       \* the repetition's metrics
    outcome,     \* how the repetition ends
    results,     \* per repetition: its outcome and the hash of its plans
    mismatches,  \* the lane's counts
    status,      \* the report's
    struck       \* how the driver has gone wrong: contract, conformance

benchVars  == <<case, rep, pc, awaiting, turn, requests>>
judgeVars  == <<oracle, urgents, records, tally, outcome, results, mismatches, status>>
exitVars   == <<exiting, broken, held>>
driverVars == <<driver, process, lines, struck>>
vars == <<benchVars, judgeVars, driverVars, exitVars>>

Lane == case.harness = "lane"
Turns == Len(case.turns)
Cands == case.turns[turn]

Line(kind, sequence, id, ledgers) ==
    [kind |-> kind, sequence |-> sequence, id |-> id, ledgers |-> ledgers]
Eof == Line("eof", 0, 0, <<>>)

FirstRequest == IF Lane THEN "initialize" ELSE "hello"
NoMismatch == [selection |-> 0, receipt |-> 0, replay |-> 0]

Init ==
    /\ case \in Cases /\ rep = 1 /\ awaiting = FALSE /\ turn = 1 /\ requests = 0
    /\ pc = IF Lane THEN "initialize" ELSE "spawn"
    /\ oracle = NewScheduler /\ urgents = 0 /\ driver = NewScheduler
    /\ process = IF Lane THEN "running" ELSE "none"
    /\ exiting = "no" /\ broken = FALSE /\ held = FALSE
    /\ lines = <<>> /\ records = <<>> /\ tally = NewTally /\ outcome = "passed"
    /\ results = <<>> /\ mismatches = NoMismatch /\ status = "none" /\ struck = {}

-----------------------------------------------------------------------------
(* Failure and the end of a repetition *)

\* ContractError: the runner leaves the driver's context and records it; in the
\* lane it ends the run of the lane.
ContractFails ==
    /\ awaiting' = FALSE /\ outcome' = "contract"
    /\ pc' = IF Lane THEN "report" ELSE "leave"

\* A disagreement with the oracle: the runner's ConformanceError, a count and
\* the end of the repetition in the lane.
Disagrees(count) ==
    /\ awaiting' = FALSE /\ pc' = "leave"
    /\ IF Lane THEN /\ mismatches' = [mismatches EXCEPT ![count] = @ + 1]
                    /\ UNCHANGED outcome
       ELSE outcome' = "conformance" /\ UNCHANGED mismatches

\* plan_trace_sha256 of a passed repetition; the lane hashes what it expected
\* as well, and every repetition.
PlanHash ==
    IF Lane THEN records
    ELSE [k \in DOMAIN records |-> <<records[k].observed, records[k].ledgers, records[k].receipt>>]

\* After the driver's __exit__ the repetition is recorded; the lane's session
\* goes on.
Leave ==
    /\ pc = "leave" /\ (Lane \/ exiting = "done")
    /\ exiting' = "no"
    /\ results' = Append(results, [outcome |-> outcome, hash |-> PlanHash])
    /\ lines' = IF Lane THEN lines ELSE <<>>
    /\ IF rep < Repetitions
       THEN rep' = rep + 1 /\ pc' = IF Lane THEN "initialize" ELSE "spawn"
       ELSE rep' = rep /\ pc' = IF Lane THEN "close" ELSE "report"
    /\ turn' = 1 /\ requests' = 0 /\ oracle' = NewScheduler /\ urgents' = 0
    /\ records' = <<>> /\ tally' = NewTally /\ outcome' = "passed"
    /\ UNCHANGED <<case, awaiting, driver, process, broken, held, mismatches, status, struck>>

-----------------------------------------------------------------------------
(* DriverProcess *)

StrikesAt(kind, n) ==
    case.fault.kind = kind /\ case.fault.rep \in {0, rep} /\ case.fault.at = n
Strikes(kind) == StrikesAt(kind, requests)

Spawn ==
    /\ pc = "spawn"
    /\ IF case.fault.kind = "start" /\ case.fault.rep \in {0, rep}
       THEN ContractFails /\ process' = "none" /\ struck' = {"contract"}
       ELSE /\ pc' = "hello" /\ process' = "running"
            /\ UNCHANGED <<awaiting, outcome, struck>>
    /\ driver' = NewScheduler /\ lines' = <<>> /\ broken' = FALSE
    /\ UNCHANGED <<case, rep, turn, requests, oracle, urgents, records, tally, results,
                   mismatches, status, exiting, held>>

\* The driver closes its stdin before the request that comes next.
Deaf == StrikesAt("deaf", requests + 1)

\* A request is written; a turn is scheduled by the oracle first.
Ask ==
    /\ pc \in {"hello", "initialize", "schedule", "receipt", "shutdown", "close"} /\ ~awaiting
    /\ requests' = requests + 1
    /\ \/ process # "running" /\ ContractFails /\ UNCHANGED <<struck, broken>>
       \/ /\ process = "running" /\ Deaf /\ ContractFails
          /\ broken' = TRUE /\ struck' = struck \cup {"contract"}
       \/ /\ process = "running" /\ ~Deaf /\ awaiting' = TRUE
          /\ UNCHANGED <<pc, outcome, struck, broken>>
    /\ IF pc = "schedule"
       THEN /\ oracle' = schedule(oracle, Cands)
            /\ urgents' = urgents + (IF is_urgent(oracle'.pending) THEN 1 ELSE 0)
       ELSE UNCHANGED <<oracle, urgents>>
    /\ UNCHANGED <<case, rep, turn, records, tally, results, mismatches, status, driver, process,
                   lines, exiting, held>>

\* Mutation: only the end of the driver ends a wait.
Expires_Exited == awaiting /\ lines = <<>> /\ process # "running"
\* responses.get runs out of time; a late answer is read by nobody.
Expires == awaiting /\ lines = <<>>

Timeout ==
    /\ Expires /\ ContractFails
    /\ struck' = struck \cup {"contract"}
    /\ UNCHANGED <<case, rep, turn, requests, oracle, urgents, records, tally, results,
                   mismatches, status, driver, process, lines, exitVars>>

Head0 == Head(lines)
Took ==
    /\ lines # <<>> /\ awaiting /\ lines' = Tail(lines)
    /\ UNCHANGED <<driver, process, struck, exitVars>>

TakeHello ==
    /\ pc = "hello" /\ Took
    /\ IF Head0.kind = "hello_ack"
       THEN pc' = "initialize" /\ awaiting' = FALSE /\ UNCHANGED outcome
       ELSE ContractFails
    /\ UNCHANGED <<case, rep, turn, requests, oracle, urgents, records, tally, results,
                   mismatches, status>>

\* The lane goes on with the repetition after counting unequal ledgers.
TakeInitialized ==
    /\ pc = "initialize" /\ Took
    /\ IF Head0.kind # "initialized" THEN ContractFails /\ UNCHANGED mismatches
       ELSE IF Head0.ledgers = Zeros
            THEN pc' = "schedule" /\ awaiting' = FALSE /\ UNCHANGED <<outcome, mismatches>>
       ELSE IF Lane
            THEN /\ pc' = "schedule" /\ awaiting' = FALSE /\ UNCHANGED outcome
                 /\ mismatches' = [mismatches EXCEPT !.receipt = @ + 1]
       ELSE Disagrees("receipt")
    /\ UNCHANGED <<case, rep, turn, requests, oracle, urgents, records, tally, results, status>>

NextTurn ==
    /\ awaiting' = FALSE
    /\ IF turn < Turns THEN turn' = turn + 1 /\ pc' = "schedule"
       ELSE turn' = turn /\ pc' = IF Lane THEN "leave" ELSE "shutdown"

Record(line) ==
    [runnable |-> oracle.runnable, selected |-> oracle.pending.model,
     expected |-> oracle.pending.id, observed |-> line.id,
     ledgers |-> line.ledgers, receipt |-> Zeros]

\* A plan is compared with the oracle's, its ledgers first; then the turn is
\* counted, and the oracle charges the service the scenario says it took.
TakePlan ==
    LET c == oracle.pending
        agreed == /\ Head0.ledgers = Restrict(oracle.ledgers, oracle.runnable)
                  /\ Head0.id = c.id
    IN  /\ pc = "schedule" /\ Took
        /\ IF \/ Head0.kind # "plan" \/ Head0.sequence # turn
              \/ DOMAIN Head0.ledgers # oracle.runnable
           THEN ContractFails /\ UNCHANGED <<turn, oracle, records, tally, mismatches>>
           ELSE /\ records' = Append(records, Record(Head0))
                /\ IF ~agreed
                   THEN Disagrees("selection") /\ UNCHANGED <<turn, oracle, tally>>
                   ELSE /\ tally' = tally_selection(tally_waits(tally, Cands, c), c)
                        /\ IF c = NoCandidate THEN NextTurn /\ UNCHANGED oracle
                           ELSE /\ oracle' = accept_receipt(oracle, c)
                                /\ pc' = "receipt" /\ awaiting' = FALSE /\ UNCHANGED turn
                        /\ UNCHANGED <<outcome, mismatches>>
        /\ UNCHANGED <<case, rep, requests, urgents, results, status>>

\* Mutation: only the charge of a receipt is compared.
ReceiptAgrees_Charged ==
    LET m == records[Len(records)].selected IN Head0.ledgers[m] = oracle.ledgers[m]

ReceiptAgrees == Head0.ledgers = oracle.ledgers

TakeReceipt ==
    /\ pc = "receipt" /\ Took
    /\ IF Head0.kind # "receipt_accepted" \/ Head0.sequence # turn
       THEN ContractFails /\ UNCHANGED <<turn, records, mismatches>>
       ELSE /\ records' = [records EXCEPT ![Len(records)].receipt = Head0.ledgers]
            /\ IF ~ReceiptAgrees
               THEN Disagrees("receipt") /\ UNCHANGED turn
               ELSE NextTurn /\ UNCHANGED <<outcome, mismatches>>
    /\ UNCHANGED <<case, rep, requests, oracle, urgents, tally, results, status>>

\* finish: the acknowledgement, upon which the driver's stdin is closed; in the
\* lane case_close.
TakeClosed ==
    /\ pc \in {"shutdown", "close"} /\ Took
    /\ IF Head0.kind = "closed"
       THEN /\ awaiting' = FALSE /\ pc' = IF Lane THEN "report" ELSE "finish"
            /\ UNCHANGED outcome
       ELSE ContractFails
    /\ UNCHANGED <<case, rep, turn, requests, oracle, urgents, records, tally, results,
                   mismatches, status>>

\* Then the driver's exit and its code, or the end of the wait for it.
Finish ==
    /\ pc = "finish"
    /\ IF process = "exited" /\ ~Strikes("unclean")
       THEN pc' = "leave" /\ UNCHANGED <<awaiting, outcome, struck>>
       ELSE ContractFails /\ struck' = struck \cup {"contract"}
    /\ UNCHANGED <<case, rep, turn, requests, oracle, urgents, records, tally, results,
                   mismatches, status, driver, process, lines, exitVars>>

-----------------------------------------------------------------------------
(* The driver's __exit__, while the outcome of the repetition stands *)

InExit == ~Lane /\ pc = "leave"
Remains == UNCHANGED <<case, rep, awaiting, turn, requests, judgeVars, driverVars, broken, held>>

\* Nothing was started, and the context never entered; or the driver is gone;
\* or its stdin is closed, which is the end of its input.  To close a stdin
\* whose write failed flushes it again and raises: the run ends with the
\* driver as it is.
EnterExit ==
    /\ InExit /\ exiting = "no" /\ Remains
    /\ \/ process = "none" /\ exiting' = "done" /\ UNCHANGED pc
       \/ process = "exited" /\ exiting' = "streams" /\ UNCHANGED pc
       \/ process = "running" /\ ~broken /\ exiting' = "eof" /\ UNCHANGED pc
       \/ process = "running" /\ broken /\ pc' = "aborted" /\ UNCHANGED exiting

DriverGone ==
    /\ InExit /\ exiting \in {"eof", "term", "kill"} /\ process = "exited"
    /\ exiting' = "streams" /\ UNCHANGED pc /\ Remains

\* Mutation: a driver that terminate does not end is left.
Escalate_Terminate ==
    /\ InExit /\ process = "running" /\ Remains /\ UNCHANGED pc
    /\ \/ exiting = "eof" /\ exiting' = "term"
       \/ exiting = "term" /\ exiting' = "streams"
\* A wait that runs out: terminate, then kill, then TimeoutExpired itself.
Escalate ==
    /\ InExit /\ process = "running" /\ Remains
    /\ \/ exiting = "eof" /\ exiting' = "term" /\ UNCHANGED pc
       \/ exiting = "term" /\ exiting' = "kill" /\ UNCHANGED pc
       \/ exiting = "kill" /\ pc' = "aborted" /\ UNCHANGED exiting

\* To close a stream waits for the thread that reads it, which reads as long as
\* a child of the driver holds the other end.
CloseStreams ==
    /\ InExit /\ exiting = "streams" /\ ~held
    /\ exiting' = "done" /\ UNCHANGED pc /\ Remains

-----------------------------------------------------------------------------
(* The report *)

\* _run_scenario and run: the outcomes of the repetitions, then whether they
\* planned alike.  In the lane the three counts are gates.
Report ==
    LET outcomes == {results[k].outcome : k \in DOMAIN results}
        alike == \A k \in DOMAIN results : results[k].hash = results[1].hash
        replays == Cardinality({k \in DOMAIN results : results[k].hash # results[1].hash})
    IN  /\ pc = "report" /\ pc' = "reported"
        /\ mismatches' = [mismatches EXCEPT !.replay = replays]
        /\ status' = IF Lane /\ outcome = "contract" THEN "raised"
                     ELSE IF Lane THEN IF mismatches' = NoMismatch THEN "passed" ELSE "gate_failed"
                     ELSE IF "contract" \in outcomes THEN "contract_failed"
                     ELSE IF outcomes = {"passed"} /\ alike THEN "passed"
                     ELSE "conformance_failed"
        /\ UNCHANGED <<case, rep, awaiting, turn, requests, oracle, urgents, records, tally,
                       outcome, results, driverVars, exitVars>>

-----------------------------------------------------------------------------
(* The driver *)

\* What the reference scheduler does with a request: its next state, its line.
Reply ==
    CASE pc = "hello"      -> <<driver, Line("hello_ack", 0, 0, <<>>)>>
      [] pc = "initialize" -> <<NewScheduler, Line("initialized", 0, 0, Zeros)>>
      [] pc = "schedule"   ->
            LET s == driver_schedule(driver, Cands)
            IN  <<s, Line("plan", turn, s.pending.id, Restrict(s.ledgers, s.runnable))>>
      [] pc = "receipt"    ->
            LET s == driver_receipt(driver, driver.pending)
            IN  <<s, Line("receipt_accepted", turn, 0, s.ledgers)>>
      [] OTHER             -> <<driver, Line("closed", 0, 0, <<>>)>>

Raised(l, m) == [x \in DOMAIN l |-> l[x] + (IF x = m THEN 1 ELSE 0)]
Closing == pc \in {"shutdown", "close"}

\* The fault, where it applies: a line that is none, the line twice, another
\* candidate, a wrong ledger, or the ledgers of all models for the runnable ones.
Answers ==
    CASE Strikes("garbled") -> <<Line("garbled", 0, 0, <<>>)>>
      [] Strikes("twice")   -> <<Reply[2], Reply[2]>>
      [] Strikes("selection") /\ pc = "schedule" ->
            <<[Reply[2] EXCEPT !.id = IF @ = 0 THEN 1 ELSE 0]>>
      [] Strikes("ledger") /\ pc \in {"initialize", "schedule", "receipt"} ->
            <<[Reply[2] EXCEPT !.ledgers = Raised(@, case.fault.model)]>>
      [] Strikes("keys") /\ pc = "schedule" ->
            <<[Reply[2] EXCEPT !.ledgers = Reply[1].ledgers]>>
      [] OTHER -> <<Reply[2]>>

Class ==
    IF \/ Strikes("garbled")
       \/ Strikes("twice") /\ ~Closing
       \/ Strikes("keys") /\ Answers # <<Reply[2]>> THEN {"contract"}
    ELSE IF Answers # <<Reply[2]>> /\ ~Strikes("twice") THEN {"conformance"}
    ELSE {}

Asked == awaiting /\ lines = <<>> /\ process = "running"

\* With its answer the driver may leave a child that has its stdout.
DriverAnswers ==
    /\ Asked /\ ~Strikes("exit")
    /\ driver' = Reply[1] /\ lines' = Answers /\ struck' = struck \cup Class
    /\ held' = (held \/ Strikes("heir"))
    /\ UNCHANGED <<process, exiting, broken, benchVars, judgeVars>>

DriverExits ==
    /\ Asked /\ Strikes("exit")
    /\ process' = "exited" /\ lines' = <<Eof>> /\ struck' = struck \cup {"contract"}
    /\ UNCHANGED <<driver, exitVars, benchVars, judgeVars>>

\* The end of its input, a signal, or its own decision ends the driver, when
\* nothing is asked of it any more.
DriverQuits ==
    /\ ~Lane /\ pc \in {"finish", "leave"} /\ process = "running"
    /\ process' = "exited"
    /\ UNCHANGED <<driver, lines, struck, exitVars, benchVars, judgeVars>>

HeirEnds ==
    /\ held /\ held' = FALSE
    /\ UNCHANGED <<exiting, broken, driverVars, benchVars, judgeVars>>

Bench ==
    \/ Spawn \/ Ask \/ Timeout \/ TakeHello \/ TakeInitialized \/ TakePlan \/ TakeReceipt
    \/ TakeClosed \/ Finish \/ EnterExit \/ DriverGone \/ Escalate \/ CloseStreams
    \/ Leave \/ Report

Next == Bench \/ DriverAnswers \/ DriverExits \/ DriverQuits \/ HeirEnds

\* The benchmark's own steps and its timeouts happen; the driver need not answer,
\* nor end, and neither need a child of it.
Fairness == WF_vars(Bench)
Spec == Init /\ [][Next]_vars /\ Fairness

-----------------------------------------------------------------------------
(* Properties *)

\* The verdict is exact: the report passes when every answer of every repetition
\* was right, and tells a driver that broke the protocol from one that
\* disagreed with the policy.
VerdictIsExact ==
    pc = "reported" =>
        status = IF "contract" \in struck THEN IF Lane THEN "raised" ELSE "contract_failed"
                 ELSE IF "conformance" \in struck
                      THEN IF Lane THEN "gate_failed" ELSE "conformance_failed"
                 ELSE "passed"

\* No driver outlives its repetition, whatever made the repetition end; only a
\* run that __exit__ itself ends leaves one, which has closed its stdin before
\* a request or has not ended upon a kill.
NoDriverLeft ==
    ~Lane /\ process = "running" =>
        /\ pc \notin {"spawn", "report", "reported"}
        /\ pc = "aborted" => broken \/ exiting = "kill"

\* The metrics of a passed repetition, kept turn by turn, are those its trace
\* shows: the longest wait of a runnable model, the longest run of selections.
MetricsMatchTrace ==
    pc = "leave" /\ ~Lane /\ outcome = "passed" =>
        \A m \in Models :
            /\ tally.max_wait[m] = TraceMaxWait(records, m)
            /\ tally.max_consecutive[m] = TraceMaxConsecutive(records, m)
            /\ tally.selected[m] = TraceCount(records, m)

Policy == INSTANCE SchedulerPolicy WITH
    ledgers <- oracle.ledgers, runnable <- oracle.runnable, baseline <- oracle.baseline,
    pending <- oracle.pending.model, urgents <- urgents

\* The oracle keeps the abstract policy, and with it its fairness theorems.
PolicyKept == Policy!Spec

\* The run ends, though the driver may stop answering at any point and need not
\* end when it is told to; unless a child of a driver holds its stdout for ever.
RunEnds == <>(pc \in {"reported", "aborted"}) \/ <>[]held
=============================================================================
