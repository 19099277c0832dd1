----------------------------- MODULE EvidenceLane -----------------------------
(***************************************************************************)
(* One lane driven through a SubjectSession: LaneController._run_one_lane   *)
(* opens the session, EvidenceLaneRunner.run walks the cases of the plan,   *)
(* the lane's collector (a memory sampler thread, or an xctrace process)    *)
(* runs beside the steps of each case, and the session is torn down.        *)
(*                                                                         *)
(* The subject is a process the Benchmark does not trust: it may emit any   *)
(* line at any time, answer late, twice or not at all, and exit when it     *)
(* likes.  Lines reach the Benchmark through a queue filled by a reader     *)
(* thread, so a line left over from one request is what the next one reads. *)
(* A process the subject has forked may keep the write end of the pipe.     *)
(***************************************************************************)
EXTENDS Naturals, Sequences

CONSTANTS
    CaseCount,    \* cases of the plan
    StepCount,    \* operations of every case
    MaxAhead,     \* lines the subject may have queued at once
    Lanes,        \* the runners considered, by what they run beside the steps
    Forking       \* those whose subject may fork a process that inherits stdout

ASSUME LanePlanAssumption ==
    /\ CaseCount \in Nat \ {0} /\ StepCount \in Nat \ {0} /\ MaxAhead \in Nat \ {0}
    /\ Lanes \subseteq {"plain", "direct", "memory", "xctrace"} /\ Lanes # {}
    /\ Forking \subseteq Lanes

Cases == 1..CaseCount
Steps == 1..StepCount

\* What a request asks, and what a response says it answers.
Labels ==
    {<<"hello", 0, 0>>, <<"shutdown", 0, 0>>}
      \cup ({"case_open", "case_close"} \X Cases \X {0})
      \cup ({"case_step"} \X Cases \X Steps)

\* The parts of a response the lane tells apart.  The artifact a case_close
\* declares has one of two digests, or does not verify against its file.
Bodies(kind) ==
    CASE kind = "hello"      -> {"ok", "unsupported", "invalid"}
      [] kind = "case_open"  -> {"ready", "unsupported", "environment_unavailable"}
      [] kind = "case_close" -> {"none", "first", "second", "unverified"}
      [] OTHER               -> {"ok"}

\* A JSON object of no accepted shape, a line that is not JSON, end of file.
Garbage == [label |-> <<"garbage", 0, 0>>, body |-> "ok"]
NotJson == [label |-> <<"not_json", 0, 0>>, body |-> "ok"]
Eof     == [label |-> <<"eof", 0, 0>>, body |-> "ok"]

Lines == {Garbage, NotJson}
           \cup UNION {{[label |-> l, body |-> b] : b \in Bodies(l[1])} : l \in Labels}

Errors == {"contract", "environment", "runtime", "other"}
Verdicts == {"passed", "gate_failed", "unsupported", "environment_unavailable"}
Results == Verdicts \cup {"contract_failed", "infrastructure_failed"}
Requests == {"hello", "case_open", "case_step", "case_close", "shutdown"}

VARIABLES
    lane,        \* which runner this is
    pc,          \* the Benchmark thread: the request to make, or another step
    waiting,     \* a request is written and its response is awaited
    case, step,  \* position in the plan
    caseError,   \* the exception the case's finally clause has seen
    err,         \* the exception leaving the session's with block
    verdict,     \* the LaneResult the runner returned
    result,      \* the status the controller reports for the lane
    executed,    \* executed_case_count
    declared,    \* artifact declared by the case being analysed
    artifact,    \* artifact_by_id, for the one required artifact
    collector,   \* off | running | stuck
    collectorFailed, \* starting or stopping a collector raised
    proc,        \* the subject process
    reader,      \* the stdout reader thread
    heir,        \* a forked process holds the subject's stdout
    responses,   \* the queue the reader fills
    transcript   \* SubjectSession.transcript: direction, and what it asks or answers

planVars      == <<lane, case, step, executed, declared, artifact>>
outcomeVars   == <<caseError, err, verdict, result>>
collectorVars == <<collector, collectorFailed>>
subjectVars   == <<proc, reader, heir>>
vars == <<pc, waiting, planVars, outcomeVars, collectorVars, subjectVars, responses,
          transcript>>

Init ==
    /\ lane \in Lanes
    /\ pc = "enter" /\ waiting = FALSE /\ case = 1 /\ step = 1
    /\ caseError = "none" /\ err = "none" /\ verdict = "none" /\ result = "none"
    /\ executed = 0 /\ declared = "none" /\ artifact = "none"
    /\ collector = "off" /\ collectorFailed = FALSE
    /\ proc = "none" /\ reader = "none" /\ heir = FALSE
    /\ responses = <<>> /\ transcript = <<>>

-----------------------------------------------------------------------------
(* Leaving: how exceptions travel and how the controller classifies them. *)

\* except clauses of _run_one_lane.
Classified(e) ==
    CASE e = "none"     -> verdict
      [] e = "contract" -> "contract_failed"
      [] OTHER          -> "infrastructure_failed"

\* An exception leaves the with block.
SessionRaises(e) ==
    /\ pc' = "exit" /\ err' = e
    /\ UNCHANGED <<caseError, verdict, result>>

\* The exceptions a runner turns into an environment_unavailable result; the
\* controller then goes on to finish the session.
Absorbed(e) == \/ lane \in {"direct", "memory"} /\ e = "environment"
               \/ lane = "xctrace" /\ e \in {"environment", "runtime"}

\* An exception leaves EvidenceLaneRunner.run.
RunnerRaises(e) ==
    IF Absorbed(e)
      THEN /\ verdict' = "environment_unavailable" /\ pc' = "shutdown"
           /\ UNCHANGED <<caseError, err, result>>
      ELSE SessionRaises(e)

InCase == pc \in {"case_step", "case_close"}

\* A ContractError of request(), seen by the case's finally clause if there is one.
RequestFails ==
    IF InCase
      THEN /\ caseError' = "contract" /\ pc' = "end_collection"
           /\ UNCHANGED <<err, verdict, result>>
      ELSE SessionRaises("contract")

RunnerReturns(v) ==
    /\ verdict' = v /\ pc' = "shutdown"
    /\ UNCHANGED <<caseError, err, result>>

-----------------------------------------------------------------------------
(* SubjectSession.request. *)

Asked == <<pc,
           IF pc \in {"hello", "shutdown"} THEN 0 ELSE case,
           IF pc = "case_step" THEN step ELSE 0>>

Recorded(direction, label) == Append(transcript, <<direction, label>>)

\* Popen succeeds and the reader threads start.
Enter ==
    /\ pc = "enter"
    /\ pc' = "hello" /\ proc' = "running" /\ reader' = "reading"
    /\ UNCHANGED <<waiting, planVars, outcomeVars, collectorVars, heir, responses, transcript>>

EnterFails ==
    /\ pc = "enter"
    /\ pc' = "done" /\ err' = "contract" /\ result' = "contract_failed"
    /\ UNCHANGED <<waiting, planVars, caseError, verdict, collectorVars, subjectVars, responses,
                   transcript>>

SendRequest ==
    /\ pc \in Requests /\ ~waiting /\ proc = "running"
    /\ waiting' = TRUE
    /\ transcript' = Recorded("request", Asked)
    /\ UNCHANGED <<pc, planVars, outcomeVars, collectorVars, subjectVars, responses>>

\* poll() finds the process gone: nothing is recorded.
RequestRefused ==
    /\ pc \in Requests /\ ~waiting /\ proc # "running"
    /\ RequestFails
    /\ UNCHANGED <<waiting, planVars, collectorVars, subjectVars, responses, transcript>>

\* Mutation: only a subject that has exited ends the wait.
NoDeadline ==
    /\ waiting /\ proc # "running"
    /\ waiting' = FALSE
    /\ RequestFails
    /\ UNCHANGED <<planVars, collectorVars, subjectVars, responses, transcript>>

\* The request is already in the transcript when the write fails, or the
\* deadline passes while it is written or answered.
RequestTimesOut ==
    /\ waiting
    /\ waiting' = FALSE
    /\ RequestFails
    /\ UNCHANGED <<planVars, collectorVars, subjectVars, responses, transcript>>

\* Mutation: any response object is accepted, whatever case or step it names.
KindOnly(line) == line.label[1] = pc

\* The response answers the request (strict fields, kind, case and step).
Answers(line) == line.label = Asked

TakeResponse == /\ waiting' = FALSE /\ responses' = Tail(responses)
                /\ transcript' = Recorded("response", Head(responses).label)

\* End of file or a line that is not JSON is not recorded; an object is
\* recorded before its fields are checked.
ResponseRejected ==
    /\ waiting /\ responses # <<>>
    /\ ~Answers(Head(responses))
    /\ IF Head(responses) \in {Eof, NotJson}
         THEN /\ waiting' = FALSE /\ responses' = Tail(responses)
              /\ UNCHANGED transcript
         ELSE TakeResponse
    /\ RequestFails
    /\ UNCHANGED <<planVars, collectorVars, subjectVars>>

Answered(kind, bodies) ==
    /\ pc = kind /\ waiting /\ responses # <<>>
    /\ Answers(Head(responses))
    /\ Head(responses).body \in bodies
    /\ TakeResponse

-----------------------------------------------------------------------------
(* The lane. *)

\* hello, _validate_hello and the lane's protocol: go on, refuse, or raise.
HelloAccepted ==
    /\ Answered("hello", {"ok"})
    /\ pc' = "case_open"
    /\ UNCHANGED <<planVars, outcomeVars, collectorVars, subjectVars>>

HelloUnsupported ==
    /\ Answered("hello", {"unsupported"})
    /\ RunnerReturns("unsupported")
    /\ UNCHANGED <<planVars, collectorVars, subjectVars>>

HelloInvalid ==
    /\ Answered("hello", {"invalid"})
    /\ SessionRaises("contract")
    /\ UNCHANGED <<planVars, collectorVars, subjectVars>>

\* Making the case directory or marking the case started raises.
CaseSetupFails ==
    /\ pc = "case_open" /\ ~waiting
    /\ RunnerRaises("other")
    /\ UNCHANGED <<waiting, planVars, collectorVars, subjectVars, responses, transcript>>

CaseOpened ==
    /\ Answered("case_open", {"ready"})
    /\ pc' = "begin_collection"
    /\ UNCHANGED <<planVars, outcomeVars, collectorVars, subjectVars>>

CaseNotReady ==
    /\ Answered("case_open", {"unsupported", "environment_unavailable"})
    /\ RunnerReturns(Head(responses).body)
    /\ UNCHANGED <<planVars, collectorVars, subjectVars>>

\* begin_case_collection.
BeginCollection ==
    /\ pc = "begin_collection"
    /\ pc' = "case_step" /\ step' = 1
    /\ collector' = IF lane \in {"memory", "xctrace"} THEN "running" ELSE "off"
    /\ UNCHANGED <<waiting, lane, case, executed, declared, artifact, outcomeVars,
                   collectorFailed, subjectVars, responses, transcript>>

\* A sampler needs a live data plane; xctrace must start and attach.  Inputs
\* that are refused are no failure of the collector.
BeginCollectionFails ==
    /\ pc = "begin_collection" /\ lane \in {"memory", "xctrace"}
    /\ \E e \in IF lane = "memory" THEN {"contract", "environment"} ELSE Errors :
          /\ collectorFailed' = (e \in {"runtime", "other"})
          /\ RunnerRaises(e)
    /\ UNCHANGED <<waiting, planVars, collector, subjectVars, responses, transcript>>

StepAnswered ==
    /\ Answered("case_step", {"ok"})
    /\ IF step < StepCount
         THEN step' = step + 1 /\ UNCHANGED pc
         ELSE pc' = "case_close" /\ UNCHANGED step
    /\ UNCHANGED <<lane, case, executed, declared, artifact, outcomeVars, collectorVars,
                   subjectVars>>

\* Between its two steps a direct lane drives the Data Plane itself (module
\* DataPlane): the server is unavailable, or breaks its contract.
DriveFails ==
    /\ lane = "direct" /\ pc = "case_step" /\ step = 2 /\ ~waiting
    /\ caseError' \in {"contract", "environment"} /\ pc' = "end_collection"
    /\ UNCHANGED <<waiting, planVars, err, verdict, result, collectorVars, subjectVars, responses,
                   transcript>>

CaseClosed ==
    /\ Answered("case_close", Bodies("case_close"))
    /\ declared' = Head(responses).body
    /\ pc' = "end_collection"
    /\ UNCHANGED <<lane, case, step, executed, artifact, outcomeVars, collectorVars, subjectVars>>

\* Mutation: a case that failed leaves its collector running.
EndOnlyAfterSuccess ==
    /\ pc = "end_collection"
    /\ collector' = IF caseError = "none" THEN "off" ELSE collector
    /\ IF caseError = "none"
         THEN pc' = "analyze" /\ UNCHANGED outcomeVars
         ELSE RunnerRaises(caseError)
    /\ UNCHANGED <<waiting, planVars, collectorFailed, subjectVars, responses, transcript>>

\* The finally clause stops the collector, whatever happened in the case.
EndCollection ==
    /\ pc = "end_collection"
    /\ collector' = "off"
    /\ IF caseError = "none"
         THEN pc' = "analyze" /\ UNCHANGED outcomeVars
         ELSE RunnerRaises(caseError)
    /\ UNCHANGED <<waiting, planVars, collectorFailed, subjectVars, responses, transcript>>

\* Mutation: an error of the collector is dropped.
CollectorErrorDropped ==
    /\ pc = "end_collection" /\ collector = "running"
    /\ collectorFailed' = TRUE
    /\ collector' \in {"off", "stuck"}
    /\ IF caseError = "none"
         THEN pc' = "analyze" /\ UNCHANGED outcomeVars
         ELSE RunnerRaises("contract")
    /\ UNCHANGED <<waiting, planVars, subjectVars, responses, transcript>>

\* The collector raises while it stops.  Its own exception leaves the case if
\* the case was sound; beside a case error it is folded into a ContractError,
\* unless the record of both cannot be written.
\* A sampler thread that does not join is left running, and so is an xctrace
\* that outlives SIGKILL: the second wait(5.0) of its stop() then raises
\* TimeoutExpired, which no handler of the lane takes for a RuntimeError.
EndCollectionFails ==
    /\ pc = "end_collection" /\ collector = "running"
    /\ collectorFailed' = TRUE
    /\ collector' \in {"off", "stuck"}
    /\ IF caseError = "none"
         THEN \E e \in CASE lane = "memory"    -> {"runtime", "other"}
                       [] collector' = "stuck" -> {"other"}
                       [] OTHER                -> {"contract", "runtime", "other"} :
                 RunnerRaises(e)
         ELSE \E e \in {"contract", "other"} : RunnerRaises(e)
    /\ UNCHANGED <<waiting, planVars, subjectVars, responses, transcript>>

\* validate_subject_artifact, and an ID reused only with the same evidence.
Admissible == /\ declared # "unverified"
              /\ declared # "none" /\ artifact # "none" => declared = artifact

\* analyze_case and the artifacts of a case that closed.
CaseAnalyzed ==
    /\ pc = "analyze" /\ Admissible
    /\ artifact' = IF declared = "none" THEN artifact ELSE declared
    /\ executed' = executed + 1
    /\ declared' = "none"
    /\ IF case < CaseCount
         THEN case' = case + 1 /\ pc' = "case_open"
         ELSE pc' = "reduce" /\ UNCHANGED case
    /\ UNCHANGED <<waiting, lane, step, outcomeVars, collectorVars, subjectVars, responses,
                   transcript>>

\* The evidence does not reduce, or an artifact is refused.
AnalysisFails ==
    /\ pc = "analyze"
    /\ RunnerRaises("contract")
    /\ UNCHANGED <<waiting, planVars, collectorVars, subjectVars, responses, transcript>>

\* Required artifacts, metrics, gates.  Before them come the artifacts of the
\* Benchmark itself: one that cannot be written, that has changed since it was
\* collected, or whose ID the subject has used for other evidence ends the lane.
Reduce ==
    /\ pc = "reduce"
    /\ \/ \E e \in {"contract", "other"} : RunnerRaises(e)
       \/ artifact # "none" /\ \E v \in {"passed", "gate_failed"} : RunnerReturns(v)
    /\ UNCHANGED <<waiting, planVars, collectorVars, subjectVars, responses, transcript>>

-----------------------------------------------------------------------------
(* finish and __exit__. *)

\* shutdown_ack, then stdin is closed.
ShutdownAcked ==
    /\ Answered("shutdown", {"ok"})
    /\ pc' = "wait_exit"
    /\ UNCHANGED <<planVars, outcomeVars, collectorVars, subjectVars>>

\* The subject exits zero and its transcript is written.
Finish ==
    /\ pc = "wait_exit" /\ proc = "exit0"
    /\ pc' = "exit"
    /\ UNCHANGED <<waiting, planVars, outcomeVars, collectorVars, subjectVars, responses,
                   transcript>>

\* It exits nonzero or not in time, or the transcript cannot be written.
FinishFails ==
    /\ pc = "wait_exit"
    /\ SessionRaises(IF proc = "exit0" THEN "other" ELSE "contract")
    /\ UNCHANGED <<waiting, planVars, collectorVars, subjectVars, responses, transcript>>

\* __exit__: a process still running loses its stdin and gets half a second,
\* then SIGTERM and a second, then SIGKILL and a second.
ExitWaits ==
    /\ pc = "exit" /\ proc = "running"
    /\ pc' = "grace"
    /\ UNCHANGED <<waiting, planVars, outcomeVars, collectorVars, subjectVars, responses,
                   transcript>>

Escalate ==
    /\ pc \in {"grace", "terminated"} /\ proc = "running"
    /\ pc' = IF pc = "grace" THEN "terminated" ELSE "killed"
    /\ UNCHANGED <<waiting, planVars, outcomeVars, collectorVars, subjectVars, responses,
                   transcript>>

Reaped ==
    /\ pc \in {"exit", "grace", "terminated", "killed"} /\ proc # "running"
    /\ pc' = "close_streams"
    /\ UNCHANGED <<waiting, planVars, outcomeVars, collectorVars, subjectVars, responses,
                   transcript>>

\* The wait after SIGKILL times out: __exit__ raises and the streams stay open.
KillTimesOut ==
    /\ pc = "killed" /\ proc = "running"
    /\ pc' = "done" /\ err' = "other" /\ result' = Classified("other")
    /\ UNCHANGED <<waiting, planVars, caseError, verdict, collectorVars, subjectVars, responses,
                   transcript>>

\* close() of a stream waits for the reader thread that is blocked in it.
CloseStreams ==
    /\ pc = "close_streams" /\ reader = "ended"
    /\ pc' = "done" /\ result' = Classified(err)
    /\ UNCHANGED <<waiting, planVars, caseError, err, verdict, collectorVars, subjectVars,
                   responses, transcript>>

Terminated == pc = "done" /\ UNCHANGED vars

-----------------------------------------------------------------------------
(* The subject and the reader thread. *)

\* Once the session is being left nobody reads the queue: what the subject
\* still writes has no effect and is left out.
SubjectEmits ==
    /\ proc = "running" /\ Len(responses) < MaxAhead
    /\ pc \in Requests \cup {"begin_collection", "end_collection", "analyze", "reduce"}
    /\ \E line \in Lines : responses' = Append(responses, line)
    /\ UNCHANGED <<pc, waiting, planVars, outcomeVars, collectorVars, subjectVars, transcript>>

SubjectExits ==
    /\ proc = "running"
    /\ proc' \in {"exit0", "exit1"}
    /\ UNCHANGED <<pc, waiting, planVars, outcomeVars, collectorVars, reader, heir, responses,
                   transcript>>

SubjectForks ==
    /\ lane \in Forking /\ proc = "running" /\ ~heir
    /\ heir' = TRUE
    /\ UNCHANGED <<pc, waiting, planVars, outcomeVars, collectorVars, proc, reader, responses,
                   transcript>>

HeirExits ==
    /\ heir
    /\ heir' = FALSE
    /\ UNCHANGED <<pc, waiting, planVars, outcomeVars, collectorVars, proc, reader, responses,
                   transcript>>

\* The pipe has no writer left: the reader queues None and returns.
ReaderEnds ==
    /\ reader = "reading" /\ proc # "running" /\ ~heir
    /\ reader' = "ended"
    /\ responses' = Append(responses, Eof)
    /\ UNCHANGED <<pc, waiting, planVars, outcomeVars, collectorVars, proc, heir, transcript>>

BenchmarkStep ==
    \/ Enter \/ EnterFails
    \/ SendRequest \/ RequestRefused \/ RequestTimesOut \/ ResponseRejected
    \/ HelloAccepted \/ HelloUnsupported \/ HelloInvalid
    \/ CaseOpened \/ CaseNotReady \/ BeginCollection \/ BeginCollectionFails
    \/ CaseSetupFails \/ StepAnswered \/ DriveFails \/ CaseClosed \/ EndCollection \/ EndCollectionFails
    \/ CaseAnalyzed \/ AnalysisFails \/ Reduce
    \/ ShutdownAcked \/ Finish \/ FinishFails
    \/ ExitWaits \/ Escalate \/ Reaped \/ KillTimesOut \/ CloseStreams

SubjectStep == SubjectEmits \/ SubjectExits \/ SubjectForks \/ HeirExits

Next == BenchmarkStep \/ SubjectStep \/ ReaderEnds \/ Terminated

\* Every wait of the Benchmark thread has a deadline and the reader is a
\* running thread; nothing is assumed of the subject.
Spec == Init /\ [][Next]_vars /\ WF_vars(BenchmarkStep) /\ WF_vars(ReaderEnds)

-----------------------------------------------------------------------------
(* Properties. *)

Entries == {"request", "response"} \X (Labels \cup {Garbage.label})

\* The transcript of a lane whose every request was answered: hello, then each
\* case opened, stepped and closed in plan order, then shutdown.
CaseLabels(c) == <<<<"case_open", c, 0>>>>
                   \o [s \in Steps |-> <<"case_step", c, s>>]
                   \o <<<<"case_close", c, 0>>>>

PlanLabel(i) ==
    LET perCase == StepCount + 2
    IN  IF i = 1 THEN <<"hello", 0, 0>>
        ELSE IF i = CaseCount * perCase + 2 THEN <<"shutdown", 0, 0>>
        ELSE CaseLabels(1 + ((i - 2) \div perCase))[1 + ((i - 2) % perCase)]

FullTranscript ==
    [i \in 1..(2 * (CaseCount * (StepCount + 2) + 2)) |->
        <<IF i % 2 = 1 THEN "request" ELSE "response", PlanLabel((i + 1) \div 2)>>]

\* A lane is passed or gate_failed only if every case was opened, stepped and
\* closed in order, each request answered by a response naming its own case and
\* step, the required artifact is on record, no collector failed or is left
\* running, and the subject exited zero (EvidenceLaneRunner.run and finish).
MeasuredLaneIsComplete ==
    result \in {"passed", "gate_failed"} =>
        /\ transcript = FullTranscript
        /\ executed = CaseCount /\ artifact # "none"
        /\ ~collectorFailed /\ collector = "off" /\ proc = "exit0"

\* Responses left over from an earlier request never count as answers: in the
\* transcript every response but the last has its own request before it, and a
\* mismatched last one fails the lane (SubjectSession.request and its callers).
AnswersAreOwn ==
    \A i \in DOMAIN transcript :
        transcript[i][1] = "response" =>
            \/ i > 1 /\ transcript[i - 1] = <<"request", transcript[i][2]>>
            \/ /\ i = Len(transcript)
               /\ "contract" \in {caseError, err} \/ result # "none"
               /\ result \in {"none", "contract_failed", "infrastructure_failed"}

\* Nothing outlives its scope: a collector is off outside the steps of its case
\* (the finally clause of EvidenceLaneRunner.run), and a collector that would not
\* stop, or a subject that not even SIGKILL ended in time, is never part of a lane
\* that was measured or merely unavailable (SubjectSession.__exit__).
NothingLeftRunning ==
    /\ collector = "running" => pc \in {"case_step", "case_close", "end_collection"}
    /\ collector = "stuck" => result \in {"none", "contract_failed", "infrastructure_failed"}
    /\ result # "none" /\ proc = "running" => result = "infrastructure_failed"

\* Every lane ends, whatever the subject does or leaves undone, unless a process
\* it forked holds its stdout for ever: no answer, exit or signal is waited for
\* without a deadline, but closing a stream waits for the thread that reads it
\* (SubjectSession.request, finish and __exit__).
LaneEndsUnlessHeld == <>[]heir \/ <>(pc = "done")

\* Every lane ends: no subject can keep the Benchmark waiting ("A bounded,
\* transcript-producing SubjectAdapter v1 session").
LaneEnds == <>(pc = "done")
=============================================================================
