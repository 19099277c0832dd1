-------------------------- MODULE EvidenceLaneProofs --------------------------
(***************************************************************************)
(* For any number of cases and steps, any lane and any subject: a measured  *)
(* lane has the whole transcript of its plan, every response in a           *)
(* transcript answers the request before it unless the lane failed for it,  *)
(* and no collector or process outlives its scope unreported.               *)
(***************************************************************************)
EXTENDS EvidenceLane, Integers, SequenceTheorems, TLAPS

Running == {"enter", "hello", "case_open", "begin_collection", "case_step", "case_close",
            "end_collection", "analyze", "reduce"}
Leaving == {"exit", "grace", "terminated", "killed", "close_streams", "done"}
Tags == (Requests \cup {"garbage", "not_json", "eof"}) \X Nat \X Nat
Texts == {"ok", "unsupported", "invalid", "ready", "environment_unavailable", "none", "first",
          "second", "unverified"}
Artifacts == {"none", "first", "second", "unverified"}

TypeOK ==
    /\ lane \in Lanes /\ pc \in Running \cup {"shutdown", "wait_exit"} \cup Leaving
    /\ waiting \in BOOLEAN /\ case \in Cases /\ step \in Steps
    /\ caseError \in Errors \cup {"none"} /\ err \in Errors \cup {"none"}
    /\ verdict \in Verdicts \cup {"none"} /\ result \in Results \cup {"none"}
    /\ executed \in Nat /\ declared \in Artifacts /\ artifact \in Artifacts
    /\ collector \in {"off", "running", "stuck"} /\ collectorFailed \in BOOLEAN
    /\ proc \in {"none", "running", "exit0", "exit1"}
    /\ reader \in {"none", "reading", "ended"} /\ heir \in BOOLEAN
    /\ responses \in Seq([label : Tags, body : Texts])
    /\ transcript \in Seq({"request", "response"} \X Tags)

\* Where the Benchmark thread is tells what has been decided.
ControlInv ==
    /\ pc \in Running => err = "none" /\ verdict = "none"
    /\ pc \in {"shutdown", "wait_exit"} => err = "none" /\ verdict # "none"
    /\ result # "none" => pc = "done"
    /\ caseError # "none" =>
         pc = "end_collection" \/ err # "none" \/ verdict = "environment_unavailable"
    /\ pc \in Leaving /\ err = "none" => proc = "exit0"
    /\ pc = "done" => IF err = "none" THEN result = verdict
                      ELSE result \in {"contract_failed", "infrastructure_failed"}

\* The reader thread ends after the process, and a process that is left running
\* fails the lane.
ProcessInv ==
    /\ pc = "enter" => proc = "none" /\ reader = "none"
    /\ reader = "ended" => proc # "running"
    /\ reader = "none" => proc = "none"
    /\ pc = "done" /\ proc = "running" => result = "infrastructure_failed"

\* A collector runs only in its case, and its failure leaves the runner.
CollectorInv ==
    /\ collector = "running" => pc \in {"case_step", "case_close", "end_collection"}
    /\ collector = "stuck" => err # "none"
    /\ collectorFailed => err # "none" \/ verdict = "environment_unavailable"

\* The cases counted are those behind the current one.
PlanInv ==
    /\ pc \in {"enter", "hello"} => case = 1
    /\ pc \in Running \ {"reduce"} => executed = case - 1
    /\ pc = "reduce" => executed = CaseCount
    /\ verdict \in {"passed", "gate_failed"} => executed = CaseCount /\ artifact # "none"

\* The last entry of the transcript while a response is awaited.
RequestInv ==
    waiting => /\ pc \in Requests /\ transcript # <<>>
               /\ transcript[Len(transcript)] = <<"request", Asked>>

PerCase == StepCount + 2
Base(c) == (c - 1) * PerCase

\* The number of the exchange that comes next or is under way, if every one so
\* far succeeded.
Exchange ==
    CASE pc \in {"enter", "hello"} -> 1
      [] pc = "case_open" -> Base(case) + 2
      [] pc = "begin_collection" -> Base(case) + 3
      [] pc = "case_step" -> Base(case) + 2 + step
      [] pc = "case_close" -> Base(case) + StepCount + 3
      [] pc \in {"end_collection", "analyze"} -> Base(case + 1) + 2
      [] pc \in {"reduce", "shutdown"} -> Base(CaseCount + 1) + 2
      [] OTHER -> Base(CaseCount + 1) + 3

Sound == /\ err = "none" /\ caseError = "none"
         /\ verdict \notin {"unsupported", "environment_unavailable"}

\* A lane without failure has exactly the entries of the plan up to here.
PlanEntry(i) == <<IF i % 2 = 1 THEN "request" ELSE "response", PlanLabel((i + 1) \div 2)>>
TranscriptInv ==
    Sound => /\ Len(transcript) = 2 * (Exchange - 1) + (IF waiting THEN 1 ELSE 0)
             /\ \A i \in 1..Len(transcript) : transcript[i] = PlanEntry(i)

\* A response that answers another request is the last entry of a failing lane.
Own(i) == transcript[i][1] = "response" =>
              i > 1 /\ transcript[i - 1] = <<"request", transcript[i][2]>>
Failing == \/ pc = "end_collection" /\ caseError = "contract"
           \/ /\ pc \in Leaving /\ err # "none"
              /\ "contract" \in {caseError, err} \/ result # "none"
AnswersInv == \A i \in 1..Len(transcript) : Own(i) \/ (i = Len(transcript) /\ Failing)

IndInv == /\ TypeOK /\ ControlInv /\ ProcessInv /\ CollectorInv /\ PlanInv /\ RequestInv
          /\ TranscriptInv /\ AnswersInv

-----------------------------------------------------------------------------
(* The plan's labels by exchange. *)

\* Division by the exchanges of a case.
LEMMA Division ==
    ASSUME NEW P \in Nat \ {0}, NEW n \in Nat, NEW q \in Nat, NEW j \in Nat,
           j < P, n = q * P + j
    PROVE  n \div P = q /\ n % P = j
<1>1. n \div P = q
  OBVIOUS
<1>2. n % P = j
  OBVIOUS
<1> QED
  BY <1>1, <1>2

\* An earlier case ends before a later one starts.
LEMMA Products ==
    ASSUME NEW P \in Nat \ {0}, NEW a \in Nat, NEW b \in Nat, a < b
    PROVE  a * P + P <= b * P /\ a * P \in Nat /\ (a + 1) * P = a * P + P
<1>1. PICK k \in Nat : b = a + 1 + k
  <2>1. b = a + 1 + (b - a - 1) /\ b - a - 1 \in Nat
    OBVIOUS
  <2> QED
    BY <2>1
<1>2. b * P = a * P + P + k * P
  BY <1>1
<1>3. k * P \in Nat
  OBVIOUS
<1> QED
  BY <1>2, <1>3

\* The bases of the cases.
LEMMA Bases ==
    /\ PerCase \in Nat /\ PerCase = StepCount + 2 /\ PerCase # 0 /\ Base(1) = 0
    /\ \A c \in Cases : /\ Base(c) \in Nat /\ Base(c + 1) = Base(c) + PerCase
                        /\ Base(c) + PerCase <= Base(CaseCount + 1)
    /\ Base(CaseCount + 1) \in Nat /\ Base(CaseCount + 1) = CaseCount * PerCase
<1> USE LanePlanAssumption
<1>1. PerCase \in Nat \ {0} /\ PerCase = StepCount + 2
  BY DEF PerCase
<1>2. Base(1) = 0
  BY <1>1 DEF Base
<1>3. Base(CaseCount + 1) = CaseCount * PerCase
  BY DEF Base
<1>4. CaseCount * PerCase \in Nat
  BY <1>1
<1>5. ASSUME NEW c \in Cases
      PROVE  /\ Base(c) \in Nat /\ Base(c + 1) = Base(c) + PerCase
             /\ Base(c) + PerCase <= Base(CaseCount + 1)
  <2>1. c \in Nat /\ c - 1 \in Nat /\ c - 1 < CaseCount
    BY DEF Cases
  <2>2. PICK d \in Nat : d = c - 1 /\ d < CaseCount
    BY <2>1
  <2>3. d * PerCase + PerCase <= CaseCount * PerCase /\ d * PerCase \in Nat
          /\ (d + 1) * PerCase = d * PerCase + PerCase
    BY <1>1, <2>2, Products
  <2>4. Base(c) = d * PerCase /\ Base(c + 1) = (d + 1) * PerCase
    BY <2>1, <2>2 DEF Base
  <2> QED
    BY <1>3, <2>3, <2>4
<1> QED
  BY <1>1, <1>2, <1>3, <1>4, <1>5

\* A sequence with one element before it and one after it.
LEMMA Bracketed ==
    ASSUME NEW S, NEW a \in S, NEW b \in S, NEW n \in Nat, NEW f \in [1..n -> S]
    PROVE  /\ (<<a>> \o f \o <<b>>)[1] = a
           /\ \A i \in 1..n : (<<a>> \o f \o <<b>>)[1 + i] = f[i]
           /\ (<<a>> \o f \o <<b>>)[n + 2] = b
<1>1. f \in Seq(S) /\ Len(f) = n
  OBVIOUS
<1>2. <<a>> \in Seq(S) /\ Len(<<a>>) = 1 /\ <<b>> \in Seq(S) /\ Len(<<b>>) = 1
  OBVIOUS
<1> DEFINE g == <<a>> \o f
<1>3. g \in Seq(S) /\ Len(g) = 1 + n
  BY <1>1, <1>2, ConcatProperties
<1>4. g[1] = a /\ \A i \in 1..n : g[1 + i] = f[i]
  <2>1. \A i \in 1..(1 + n) : g[i] = IF i <= 1 THEN <<a>>[i] ELSE f[i - 1]
    BY <1>1, <1>2, ConcatProperties
  <2> QED
    BY <2>1
<1> HIDE DEF g
<1> DEFINE h == g \o <<b>>
<1>5. \A i \in 1..(1 + n + 1) :
        h[i] = IF i <= 1 + n THEN g[i] ELSE <<b>>[i - (1 + n)]
  BY <1>2, <1>3, ConcatProperties
<1> HIDE DEF h
<1>6. h[1] = a /\ \A i \in 1..n : h[1 + i] = f[i]
  <2>1. 1 \in 1..(1 + n + 1) /\ 1 <= 1 + n
    OBVIOUS
  <2>2. \A i \in 1..n : 1 + i \in 1..(1 + n + 1) /\ 1 + i <= 1 + n
    OBVIOUS
  <2> QED
    BY <1>4, <1>5, <2>1, <2>2
<1>7. h[n + 2] = b
  <2>1. n + 2 \in 1..(1 + n + 1) /\ ~(n + 2 <= 1 + n) /\ n + 2 - (1 + n) = 1
    OBVIOUS
  <2>2. h[n + 2] = <<b>>[1]
    BY <1>5, <2>1
  <2> QED
    BY <2>2
<1> QED
  BY <1>6, <1>7 DEF g, h

\* What CaseLabels lists.
LEMMA LabelsOfCase ==
    ASSUME NEW c \in Cases
    PROVE  /\ CaseLabels(c)[1] = <<"case_open", c, 0>>
           /\ \A s \in Steps : CaseLabels(c)[1 + s] = <<"case_step", c, s>>
           /\ CaseLabels(c)[StepCount + 2] = <<"case_close", c, 0>>
<1> USE LanePlanAssumption
<1> DEFINE opening == <<"case_open", c, 0>>
           closing == <<"case_close", c, 0>>
           f == [s \in 1..StepCount |-> <<"case_step", c, s>>]
<1>1. opening \in Tags /\ closing \in Tags
  BY DEF Tags, Requests, Cases
<1>2. f \in [1..StepCount -> Tags]
  BY DEF Tags, Requests, Cases
<1>3. CaseLabels(c) = <<opening>> \o f \o <<closing>>
  BY DEF CaseLabels, Steps
<1>4. \A s \in Steps : f[s] = <<"case_step", c, s>>
  BY DEF Steps
<1> HIDE DEF opening, closing, f
<1>5. /\ CaseLabels(c)[1] = opening /\ CaseLabels(c)[StepCount + 2] = closing
      /\ \A s \in Steps : CaseLabels(c)[1 + s] = f[s]
  BY <1>1, <1>2, <1>3, Bracketed DEF Steps
<1> QED
  BY <1>4, <1>5 DEF opening, closing

\* What PlanLabel says of each exchange.
LEMMA PlanLabels ==
    /\ PlanLabel(1) = <<"hello", 0, 0>>
    /\ PlanLabel(Base(CaseCount + 1) + 2) = <<"shutdown", 0, 0>>
    /\ \A c \in Cases :
         /\ PlanLabel(Base(c) + 2) = <<"case_open", c, 0>>
         /\ \A s \in Steps : PlanLabel(Base(c) + 2 + s) = <<"case_step", c, s>>
         /\ PlanLabel(Base(c) + StepCount + 3) = <<"case_close", c, 0>>
<1> USE LanePlanAssumption
<1>1. PlanLabel(1) = <<"hello", 0, 0>>
  BY DEF PlanLabel
<1>2. PlanLabel(Base(CaseCount + 1) + 2) = <<"shutdown", 0, 0>>
  BY Bases DEF PlanLabel
<1>3. ASSUME NEW c \in Cases, NEW j \in 0..(PerCase - 1)
      PROVE  PlanLabel(Base(c) + 2 + j) = CaseLabels(c)[1 + j]
  <2> DEFINE n == Base(c) + j
  <2>1. c - 1 \in Nat /\ c = 1 + (c - 1)
    BY DEF Cases
  <2>2. n \in Nat /\ Base(c) = (c - 1) * PerCase
    BY Bases DEF Base
  <2>3. n \div PerCase = c - 1 /\ n % PerCase = j
    <3>1. PerCase \in Nat \ {0} /\ j \in Nat /\ j < PerCase
      BY Bases
    <3> QED
      BY <2>1, <2>2, <3>1, Division
  <2>4. n + 2 # 1 /\ n + 2 # CaseCount * PerCase + 2
    BY <2>2, Bases
  <2>5. Base(c) + 2 + j = n + 2 /\ (n + 2) - 2 = n
    BY <2>2, Bases
  <2> HIDE DEF n
  <2>6. PlanLabel(n + 2) = CaseLabels(1 + (n \div PerCase))[1 + (n % PerCase)]
    BY <2>4, <2>5 DEF PlanLabel, PerCase
  <2> QED
    BY <2>1, <2>3, <2>5, <2>6
<1>4. ASSUME NEW c \in Cases
      PROVE  /\ PlanLabel(Base(c) + 2) = <<"case_open", c, 0>>
             /\ \A s \in Steps : PlanLabel(Base(c) + 2 + s) = <<"case_step", c, s>>
             /\ PlanLabel(Base(c) + StepCount + 3) = <<"case_close", c, 0>>
  <2>1. PlanLabel(Base(c) + 2) = <<"case_open", c, 0>>
    <3>1. 0 \in 0..(PerCase - 1) /\ Base(c) + 2 + 0 = Base(c) + 2 /\ 1 + 0 = 1
      BY Bases
    <3> QED
      BY <1>3, <3>1, LabelsOfCase
  <2>2. ASSUME NEW s \in Steps PROVE PlanLabel(Base(c) + 2 + s) = <<"case_step", c, s>>
    <3>1. s \in 0..(PerCase - 1)
      BY Bases DEF Steps
    <3> QED
      BY <1>3, <3>1, LabelsOfCase
  <2>3. PlanLabel(Base(c) + StepCount + 3) = <<"case_close", c, 0>>
    <3>1. /\ StepCount + 1 \in 0..(PerCase - 1)
          /\ Base(c) + 2 + (StepCount + 1) = Base(c) + StepCount + 3
          /\ 1 + (StepCount + 1) = StepCount + 2
      BY Bases
    <3> QED
      BY <1>3, <3>1, LabelsOfCase
  <2> QED
    BY <2>1, <2>2, <2>3
<1> QED
  BY <1>1, <1>2, <1>4

-----------------------------------------------------------------------------
(* Types. *)

\* A line the subject can write, and the end of file, are well-formed.
LEMMA LinesType == Lines \cup {Eof} \subseteq [label : Tags, body : Texts]
<1> USE LanePlanAssumption
<1>1. \A l \in Labels : l \in Tags
  BY DEF Labels, Tags, Requests, Cases, Steps
<1>2. \A kind : Bodies(kind) \subseteq Texts
  BY DEF Bodies, Texts
<1>3. {Garbage, NotJson, Eof} \subseteq [label : Tags, body : Texts]
  BY DEF Garbage, NotJson, Eof, Tags, Texts
<1>4. \A l \in Labels : \A b \in Bodies(l[1]) :
        [label |-> l, body |-> b] \in [label : Tags, body : Texts]
  BY <1>1, <1>2
<1> QED
  BY <1>3, <1>4 DEF Lines

\* A request's label.
LEMMA AskedType ==
    ASSUME TypeOK, pc \in Requests
    PROVE  Asked \in Tags
<1>1. case \in Nat /\ step \in Nat /\ 0 \in Nat
  BY LanePlanAssumption DEF TypeOK, Cases, Steps
<1> DEFINE a == IF pc \in {"hello", "shutdown"} THEN 0 ELSE case
           b == IF pc = "case_step" THEN step ELSE 0
<1>2. a \in Nat /\ b \in Nat /\ pc \in Requests \cup {"garbage", "not_json", "eof"}
  BY <1>1
<1>3. Asked = <<pc, a, b>>
  BY DEF Asked
<1> HIDE DEF a, b
<1> QED
  BY <1>2, <1>3 DEF Tags

\* Every way a request fails or the runner or the session ends keeps the types
\* of what it assigns.
LEMMA OutcomesType ==
    ASSUME TypeOK
    PROVE  LET Ok == /\ pc' \in Running \cup {"shutdown", "wait_exit"} \cup Leaving
                     /\ caseError' \in Errors \cup {"none"} /\ err' \in Errors \cup {"none"}
                     /\ verdict' \in Verdicts \cup {"none"}
                     /\ result' \in Results \cup {"none"}
           IN  /\ RequestFails => Ok
               /\ \A e \in Errors : SessionRaises(e) => Ok
               /\ \A e \in Errors : RunnerRaises(e) => Ok
               /\ \A v \in Verdicts : RunnerReturns(v) => Ok
<1> USE DEF TypeOK, Running, Leaving, SessionRaises
<1>1. "contract" \in Errors /\ "environment_unavailable" \in Verdicts
  BY DEF Errors, Verdicts
<1>2. RequestFails => /\ pc' \in {"end_collection", "exit"}
                      /\ caseError' \in Errors \cup {"none"} /\ err' \in Errors \cup {"none"}
                      /\ UNCHANGED <<verdict, result>>
  BY <1>1 DEF RequestFails
<1>3. \A e \in Errors : RunnerRaises(e) =>
         /\ pc' \in {"shutdown", "exit"}
         /\ err' \in Errors \cup {"none"} /\ verdict' \in Verdicts \cup {"none"}
         /\ UNCHANGED <<caseError, result>>
  BY <1>1 DEF RunnerRaises
<1>4. \A v \in Verdicts : RunnerReturns(v) =>
         /\ pc' = "shutdown" /\ verdict' \in Verdicts
         /\ UNCHANGED <<caseError, err, result>>
  BY DEF RunnerReturns
<1> QED
  BY <1>2, <1>3, <1>4

\* The effect of taking the response at the head of the queue.
LEMMA TakesType ==
    ASSUME TypeOK, responses # <<>>
    PROVE  /\ Head(responses) \in [label : Tags, body : Texts]
           /\ Tail(responses) \in Seq([label : Tags, body : Texts])
           /\ TakeResponse => transcript' \in Seq({"request", "response"} \X Tags)
<1>1. Head(responses) \in [label : Tags, body : Texts]
        /\ Tail(responses) \in Seq([label : Tags, body : Texts])
  BY HeadTailProperties DEF TypeOK
<1>2. <<"response", Head(responses).label>> \in {"request", "response"} \X Tags
  BY <1>1
<1>3. TakeResponse => transcript' \in Seq({"request", "response"} \X Tags)
  <2>1. transcript \in Seq({"request", "response"} \X Tags)
    BY DEF TypeOK
  <2>2. Append(transcript, <<"response", Head(responses).label>>)
          \in Seq({"request", "response"} \X Tags)
    BY <1>2, <2>1, AppendProperties
  <2> QED
    BY <2>2 DEF TakeResponse, Recorded
<1> QED
  BY <1>1, <1>3

\* TypeOK in three parts: position and outcome, the collector and the processes,
\* and the two sequences.
LEMMA QueueType ==
    ASSUME TypeOK, [Next]_vars
    PROVE  /\ (responses \in Seq([label : Tags, body : Texts]))'
           /\ (transcript \in Seq({"request", "response"} \X Tags))'
<1> DEFINE Ok == /\ responses' \in Seq([label : Tags, body : Texts])
                 /\ transcript' \in Seq({"request", "response"} \X Tags)
<1>1. CASE UNCHANGED <<responses, transcript>>
  BY <1>1 DEF TypeOK
<1>2. CASE SendRequest
  <2>1. <<"request", Asked>> \in {"request", "response"} \X Tags
    BY <1>2, AskedType DEF SendRequest
  <2> QED
    BY <1>2, <2>1, AppendProperties DEF TypeOK, SendRequest, Recorded
<1>3. CASE responses # <<>> /\ TakeResponse
  BY <1>3, TakesType DEF TakeResponse
<1>4. CASE ResponseRejected
  BY <1>4, TakesType DEF ResponseRejected, TakeResponse, TypeOK
<1>5. CASE SubjectEmits
  <2>1. PICK line \in Lines : responses' = Append(responses, line)
    BY <1>5 DEF SubjectEmits
  <2>2. responses' \in Seq([label : Tags, body : Texts])
    BY <2>1, LinesType, AppendProperties DEF TypeOK
  <2> QED
    BY <1>5, <2>2 DEF SubjectEmits, TypeOK
<1>6. CASE ReaderEnds
  BY <1>6, LinesType, AppendProperties DEF ReaderEnds, TypeOK
<1>7. \/ UNCHANGED <<responses, transcript>>
      \/ SendRequest \/ ResponseRejected \/ SubjectEmits \/ ReaderEnds
      \/ responses # <<>> /\ TakeResponse
  <2>1. Next \/ UNCHANGED vars
    OBVIOUS
  <2>2. UNCHANGED vars => UNCHANGED <<responses, transcript>>
    BY DEF vars
  <2>3. ASSUME \/ HelloAccepted \/ HelloUnsupported \/ HelloInvalid \/ CaseOpened \/ CaseNotReady
               \/ StepAnswered \/ CaseClosed \/ ShutdownAcked
        PROVE  responses # <<>> /\ TakeResponse
    BY <2>3 DEF HelloAccepted, HelloUnsupported, HelloInvalid, CaseOpened, CaseNotReady,
                StepAnswered, CaseClosed, ShutdownAcked, Answered
  <2>4. ASSUME \/ Enter \/ EnterFails \/ RequestRefused \/ RequestTimesOut \/ BeginCollection
               \/ BeginCollectionFails \/ CaseSetupFails \/ DriveFails \/ EndCollection
               \/ EndCollectionFails \/ CaseAnalyzed \/ AnalysisFails \/ Reduce
        PROVE  UNCHANGED <<responses, transcript>>
    BY <2>4 DEF Enter, EnterFails, RequestRefused, RequestTimesOut, BeginCollection,
                BeginCollectionFails, CaseSetupFails, DriveFails, EndCollection,
                EndCollectionFails, CaseAnalyzed, AnalysisFails, Reduce
  <2>5. ASSUME \/ Finish \/ FinishFails \/ ExitWaits \/ Escalate \/ Reaped \/ KillTimesOut
               \/ CloseStreams \/ SubjectExits \/ SubjectForks \/ HeirExits
        PROVE  UNCHANGED <<responses, transcript>>
    BY <2>5 DEF Finish, FinishFails, ExitWaits, Escalate, Reaped, KillTimesOut, CloseStreams,
                SubjectExits, SubjectForks, HeirExits
  <2>6. Terminated => UNCHANGED vars
    BY DEF Terminated
  <2> QED
    BY ONLY <2>1, <2>2, <2>3, <2>4, <2>5, <2>6 DEF Next, BenchmarkStep, SubjectStep
<1> QED
  BY <1>1, <1>2, <1>3, <1>4, <1>5, <1>6, <1>7

\* The position in the plan.
LEMMA PositionType ==
    ASSUME TypeOK, [Next]_vars
    PROVE  /\ (lane \in Lanes /\ case \in Cases /\ step \in Steps)'
           /\ (executed \in Nat /\ declared \in Artifacts /\ artifact \in Artifacts)'
<1> USE LanePlanAssumption
<1>1. CASE UNCHANGED planVars
  BY <1>1 DEF TypeOK, planVars
<1>2. CASE BeginCollection
  BY <1>2 DEF BeginCollection, TypeOK, Steps
<1>3. CASE StepAnswered
  BY <1>3 DEF StepAnswered, TypeOK, Steps
<1>4. CASE CaseClosed
  <2>1. declared' \in Artifacts
    BY <1>4 DEF CaseClosed, Answered, Bodies, Artifacts
  <2> QED
    BY <1>4, <2>1 DEF CaseClosed, TypeOK
<1>5. CASE CaseAnalyzed
  BY <1>5 DEF CaseAnalyzed, TypeOK, Cases, Artifacts
<1>6. UNCHANGED planVars \/ BeginCollection \/ StepAnswered \/ CaseClosed \/ CaseAnalyzed
  <2>1. Next \/ UNCHANGED vars
    OBVIOUS
  <2>2. ASSUME \/ Enter \/ EnterFails \/ SendRequest \/ RequestRefused \/ RequestTimesOut
               \/ ResponseRejected \/ HelloAccepted \/ HelloUnsupported \/ HelloInvalid
               \/ CaseSetupFails \/ CaseOpened \/ CaseNotReady \/ BeginCollectionFails
        PROVE  UNCHANGED planVars
    BY <2>2 DEF Enter, EnterFails, SendRequest, RequestRefused, RequestTimesOut,
                ResponseRejected, HelloAccepted, HelloUnsupported, HelloInvalid,
                CaseSetupFails, CaseOpened, CaseNotReady, BeginCollectionFails
  <2>3. ASSUME \/ DriveFails \/ EndCollection \/ EndCollectionFails \/ AnalysisFails \/ Reduce
               \/ ShutdownAcked \/ Finish \/ FinishFails \/ ExitWaits \/ Escalate \/ Reaped
               \/ KillTimesOut \/ CloseStreams
        PROVE  UNCHANGED planVars
    BY <2>3 DEF DriveFails, EndCollection, EndCollectionFails, AnalysisFails, Reduce,
                ShutdownAcked, Finish, FinishFails, ExitWaits, Escalate, Reaped,
                KillTimesOut, CloseStreams
  <2>4. ASSUME \/ SubjectEmits \/ SubjectExits \/ SubjectForks \/ HeirExits \/ ReaderEnds
               \/ Terminated \/ UNCHANGED vars
        PROVE  UNCHANGED planVars
    BY <2>4 DEF SubjectEmits, SubjectExits, SubjectForks, HeirExits, ReaderEnds, Terminated,
                vars
  <2> QED
    BY ONLY <2>1, <2>2, <2>3, <2>4 DEF Next, BenchmarkStep, SubjectStep
<1> QED
  BY <1>1, <1>2, <1>3, <1>4, <1>5, <1>6

\* The collector and the processes.
LEMMA SidesType ==
    ASSUME TypeOK, [Next]_vars
    PROVE  /\ (collector \in {"off", "running", "stuck"} /\ collectorFailed \in BOOLEAN)'
           /\ (proc \in {"none", "running", "exit0", "exit1"})'
           /\ (reader \in {"none", "reading", "ended"} /\ heir \in BOOLEAN)'
<1>1. CASE UNCHANGED collectorVars /\ UNCHANGED subjectVars
  BY <1>1 DEF TypeOK, collectorVars, subjectVars
<1>2. CASE BeginCollection \/ EndCollection
  BY <1>2 DEF BeginCollection, EndCollection, TypeOK, subjectVars
<1>3. CASE BeginCollectionFails
  BY <1>3 DEF BeginCollectionFails, TypeOK, subjectVars
<1>4. CASE EndCollectionFails
  BY <1>4 DEF EndCollectionFails, TypeOK, subjectVars
<1>5. CASE Enter \/ SubjectExits \/ SubjectForks \/ HeirExits \/ ReaderEnds
  BY <1>5 DEF Enter, SubjectExits, SubjectForks, HeirExits, ReaderEnds, TypeOK, collectorVars
<1>6. \/ UNCHANGED collectorVars /\ UNCHANGED subjectVars
      \/ BeginCollection \/ EndCollection \/ BeginCollectionFails \/ EndCollectionFails
      \/ Enter \/ SubjectExits \/ SubjectForks \/ HeirExits \/ ReaderEnds
  <2> DEFINE Same == UNCHANGED collectorVars /\ UNCHANGED subjectVars
  <2>1. Next \/ UNCHANGED vars
    OBVIOUS
  <2>2. ASSUME \/ EnterFails \/ SendRequest \/ RequestRefused \/ RequestTimesOut
               \/ ResponseRejected \/ HelloAccepted \/ HelloUnsupported \/ HelloInvalid
               \/ CaseSetupFails \/ CaseOpened \/ CaseNotReady
        PROVE  Same
    BY <2>2 DEF EnterFails, SendRequest, RequestRefused, RequestTimesOut, ResponseRejected,
                HelloAccepted, HelloUnsupported, HelloInvalid, CaseSetupFails, CaseOpened,
                CaseNotReady
  <2>3. ASSUME \/ StepAnswered \/ DriveFails \/ CaseClosed \/ CaseAnalyzed \/ AnalysisFails
               \/ Reduce \/ ShutdownAcked \/ Finish \/ FinishFails
        PROVE  Same
    BY <2>3 DEF StepAnswered, DriveFails, CaseClosed, CaseAnalyzed, AnalysisFails, Reduce,
                ShutdownAcked, Finish, FinishFails
  <2>4. ASSUME \/ ExitWaits \/ Escalate \/ Reaped \/ KillTimesOut \/ CloseStreams
               \/ SubjectEmits \/ Terminated \/ UNCHANGED vars
        PROVE  Same
    BY <2>4 DEF ExitWaits, Escalate, Reaped, KillTimesOut, CloseStreams, SubjectEmits,
                Terminated, vars
  <2> HIDE DEF Same
  <2>5. Same => UNCHANGED collectorVars /\ UNCHANGED subjectVars
    BY DEF Same
  <2> QED
    BY ONLY <2>1, <2>2, <2>3, <2>4, <2>5 DEF Next, BenchmarkStep, SubjectStep
<1> QED
  BY <1>1, <1>2, <1>3, <1>4, <1>5, <1>6

\* The program counter, the request and the outcome.
LEMMA OutcomeType ==
    ASSUME TypeOK, [Next]_vars
    PROVE  /\ (pc \in Running \cup {"shutdown", "wait_exit"} \cup Leaving)'
           /\ (waiting \in BOOLEAN)'
           /\ (caseError \in Errors \cup {"none"} /\ err \in Errors \cup {"none"})'
           /\ (verdict \in Verdicts \cup {"none"} /\ result \in Results \cup {"none"})'
<1> DEFINE Ok == /\ pc' \in Running \cup {"shutdown", "wait_exit"} \cup Leaving
                 /\ caseError' \in Errors \cup {"none"} /\ err' \in Errors \cup {"none"}
                 /\ verdict' \in Verdicts \cup {"none"}
                 /\ result' \in Results \cup {"none"}
<1>1. /\ RequestFails => Ok
      /\ \A e \in Errors : SessionRaises(e) => Ok
      /\ \A e \in Errors : RunnerRaises(e) => Ok
      /\ \A v \in Verdicts : RunnerReturns(v) => Ok
  BY OutcomesType
<1>2. UNCHANGED outcomeVars /\ pc' \in Running \cup {"shutdown", "wait_exit"} \cup Leaving => Ok
  BY DEF outcomeVars, TypeOK
<1>3. UNCHANGED <<pc, waiting>> /\ UNCHANGED outcomeVars => Ok /\ waiting' \in BOOLEAN
  BY <1>2 DEF TypeOK
<1> HIDE DEF Ok
<1>4. Next \/ UNCHANGED vars
  OBVIOUS
<1>5. CASE \/ RequestRefused \/ RequestTimesOut \/ ResponseRejected
  <2>1. RequestFails /\ waiting' \in BOOLEAN
    BY <1>5 DEF RequestRefused, RequestTimesOut, ResponseRejected, TakeResponse, TypeOK
  <2> QED
    BY <1>1, <2>1 DEF Ok
<1>6. CASE \/ HelloAccepted \/ CaseOpened \/ StepAnswered \/ CaseClosed \/ ShutdownAcked
  <2>1. pc' \in Running \cup {"shutdown", "wait_exit"} \cup Leaving
    BY <1>6 DEF HelloAccepted, CaseOpened, StepAnswered, CaseClosed, ShutdownAcked, TypeOK,
                Running
  <2>2. waiting' = FALSE /\ UNCHANGED outcomeVars
    BY <1>6 DEF HelloAccepted, CaseOpened, StepAnswered, CaseClosed, ShutdownAcked, Answered,
                TakeResponse
  <2> QED
    BY <1>2, <2>1, <2>2 DEF Ok
<1>7. CASE HelloUnsupported \/ HelloInvalid \/ CaseNotReady
  <2>1. waiting' = FALSE
    BY <1>7 DEF HelloUnsupported, HelloInvalid, CaseNotReady, Answered, TakeResponse
  <2>2. \/ \E v \in Verdicts : RunnerReturns(v)
        \/ \E e \in Errors : SessionRaises(e)
    BY <1>7 DEF HelloUnsupported, HelloInvalid, CaseNotReady, Answered, Verdicts, Errors
  <2> QED
    BY <1>1, <2>1, <2>2 DEF Ok
<1>8. CASE CaseSetupFails \/ BeginCollectionFails \/ AnalysisFails \/ Reduce \/ FinishFails
  <2>1. waiting' \in BOOLEAN
    BY <1>8 DEF CaseSetupFails, BeginCollectionFails, AnalysisFails, Reduce, FinishFails, TypeOK
  <2>2. \/ \E v \in Verdicts : RunnerReturns(v)
        \/ \E e \in Errors : RunnerRaises(e)
        \/ \E e \in Errors : SessionRaises(e)
    BY <1>8 DEF CaseSetupFails, BeginCollectionFails, AnalysisFails, Reduce, FinishFails,
                Verdicts, Errors
  <2> QED
    BY <1>1, <2>1, <2>2 DEF Ok
<1>9. CASE EndCollection
  <2>1. waiting' \in BOOLEAN
    BY <1>9 DEF EndCollection, TypeOK
  <2>2. CASE caseError = "none"
    BY <1>2, <1>9, <2>1, <2>2 DEF EndCollection, Running, Ok
  <2>3. CASE caseError # "none"
    BY <1>1, <1>9, <2>1, <2>3 DEF EndCollection, TypeOK, Ok
  <2> QED
    BY <2>2, <2>3
<1>10. CASE EndCollectionFails
  <2>1. waiting' \in BOOLEAN
    BY <1>10 DEF EndCollectionFails, TypeOK
  <2>2. \E e \in Errors : RunnerRaises(e)
    BY <1>10 DEF EndCollectionFails, Errors
  <2> QED
    BY <1>1, <2>1, <2>2 DEF Ok
<1>11. CASE \/ Enter \/ BeginCollection \/ CaseAnalyzed \/ Finish \/ ExitWaits \/ Escalate
            \/ Reaped
  <2>1. pc' \in Running \cup {"shutdown", "wait_exit"} \cup Leaving
    BY <1>11 DEF Enter, BeginCollection, CaseAnalyzed, Finish, ExitWaits, Escalate, Reaped,
                 Running, Leaving
  <2>2. UNCHANGED waiting /\ UNCHANGED outcomeVars
    BY <1>11 DEF Enter, BeginCollection, CaseAnalyzed, Finish, ExitWaits, Escalate, Reaped
  <2> QED
    BY <1>2, <2>1, <2>2 DEF Ok, TypeOK
<1>12. CASE EnterFails \/ KillTimesOut
  BY <1>12 DEF EnterFails, KillTimesOut, Classified, TypeOK, Leaving, Errors, Results
<1>13. CASE CloseStreams
  <2>1. verdict \in Results \cup {"none"}
    BY DEF TypeOK, Results
  <2>2. result' \in Results \cup {"none"}
    BY <1>13, <2>1 DEF CloseStreams, Classified, Results
  <2> QED
    BY <1>13, <2>2 DEF CloseStreams, TypeOK, Leaving
<1>14. CASE DriveFails
  BY <1>14 DEF DriveFails, TypeOK, Running, Errors
<1>15. CASE SendRequest
  BY <1>2, <1>15 DEF SendRequest, TypeOK, Ok
<1>16. CASE \/ SubjectEmits \/ SubjectExits \/ SubjectForks \/ HeirExits \/ ReaderEnds
            \/ Terminated \/ UNCHANGED vars
  <2>1. UNCHANGED <<pc, waiting>> /\ UNCHANGED outcomeVars
    BY <1>16 DEF SubjectEmits, SubjectExits, SubjectForks, HeirExits, ReaderEnds, Terminated,
                 vars
  <2> QED
    BY <1>3, <2>1 DEF Ok
<1> QED
  BY ONLY <1>4, <1>5, <1>6, <1>7, <1>8, <1>9, <1>10, <1>11, <1>12, <1>13, <1>14, <1>15, <1>16
     DEF Next, BenchmarkStep, SubjectStep

\* Every step keeps the types.
LEMMA TypeStep ==
    ASSUME TypeOK, [Next]_vars
    PROVE  TypeOK'
BY QueueType, PositionType, SidesType, OutcomeType DEF TypeOK

-----------------------------------------------------------------------------
(* Control, processes, the collector and the plan. *)

\* The three ways the thread's path bends, in terms of ControlInv.
LEMMA Bends ==
    ASSUME TypeOK, ControlInv, RequestInv, pc \notin Leaving
    PROVE  /\ RequestFails /\ pc \in Requests =>
                \/ /\ pc \in Running /\ pc' = "end_collection" /\ caseError' = "contract"
                   /\ UNCHANGED <<err, verdict, result>>
                \/ pc' = "exit" /\ err' = "contract" /\ UNCHANGED <<caseError, verdict, result>>
           /\ \A e \in Errors : RunnerRaises(e) =>
                \/ /\ pc' = "shutdown" /\ verdict' = "environment_unavailable" /\ e # "contract"
                   /\ UNCHANGED <<caseError, err, result>>
                \/ pc' = "exit" /\ err' = e /\ UNCHANGED <<caseError, verdict, result>>
<1>1. ASSUME RequestFails, pc \in Requests
      PROVE  \/ /\ pc \in Running /\ pc' = "end_collection" /\ caseError' = "contract"
                /\ UNCHANGED <<err, verdict, result>>
             \/ pc' = "exit" /\ err' = "contract" /\ UNCHANGED <<caseError, verdict, result>>
  BY <1>1 DEF RequestFails, InCase, SessionRaises, Running
<1>2. ASSUME NEW e \in Errors, RunnerRaises(e)
      PROVE  \/ /\ pc' = "shutdown" /\ verdict' = "environment_unavailable" /\ e # "contract"
                /\ UNCHANGED <<caseError, err, result>>
             \/ pc' = "exit" /\ err' = e /\ UNCHANGED <<caseError, verdict, result>>
  BY <1>2 DEF RunnerRaises, Absorbed, SessionRaises
<1> QED
  BY <1>1, <1>2

\* Every step keeps ControlInv.
LEMMA ControlStep ==
    ASSUME TypeOK, ControlInv, RequestInv, [Next]_vars
    PROVE  ControlInv'
<1> USE DEF Running, Leaving
<1>1. Next \/ UNCHANGED vars
  OBVIOUS
<1>2. CASE RequestRefused \/ RequestTimesOut \/ ResponseRejected
  <2>1. /\ RequestFails /\ pc \in Requests /\ UNCHANGED proc
    BY <1>2 DEF RequestRefused, RequestTimesOut, ResponseRejected, RequestInv, subjectVars
  <2>2. pc \notin Leaving
    BY <2>1 DEF Requests
  <2>3. \/ /\ pc \in Running /\ pc' = "end_collection" /\ caseError' = "contract"
           /\ UNCHANGED <<err, verdict, result>>
        \/ pc' = "exit" /\ err' = "contract" /\ UNCHANGED <<caseError, verdict, result>>
    BY <2>1, <2>2, Bends
  <2> QED
    BY <2>1, <2>2, <2>3 DEF ControlInv, TypeOK
<1>3. CASE HelloAccepted \/ CaseOpened \/ StepAnswered \/ CaseClosed \/ ShutdownAcked
  BY <1>3 DEF HelloAccepted, CaseOpened, StepAnswered, CaseClosed, ShutdownAcked, Answered,
              outcomeVars, subjectVars, ControlInv
<1>4. CASE HelloUnsupported \/ CaseNotReady
  <2>1. /\ pc \in {"hello", "case_open"} /\ pc' = "shutdown" /\ verdict' # "none"
        /\ UNCHANGED <<caseError, err, result>>
    BY <1>4 DEF HelloUnsupported, CaseNotReady, Answered, RunnerReturns
  <2> QED
    BY <2>1 DEF ControlInv
<1>5. CASE HelloInvalid \/ FinishFails
  BY <1>5 DEF HelloInvalid, FinishFails, Answered, SessionRaises, ControlInv
<1>6. CASE CaseSetupFails \/ BeginCollectionFails \/ AnalysisFails \/ EndCollectionFails
  <2>1. \E e \in Errors : RunnerRaises(e)
    BY <1>6 DEF CaseSetupFails, BeginCollectionFails, AnalysisFails, EndCollectionFails, Errors
  <2>2. pc \in {"case_open", "begin_collection", "analyze", "end_collection"}
    BY <1>6 DEF CaseSetupFails, BeginCollectionFails, AnalysisFails, EndCollectionFails
  <2>3. \E e \in Errors :
          \/ /\ pc' = "shutdown" /\ verdict' = "environment_unavailable"
             /\ UNCHANGED <<caseError, err, result>>
          \/ pc' = "exit" /\ err' = e /\ UNCHANGED <<caseError, verdict, result>>
    BY <2>1, <2>2, Bends
  <2>4. "none" \notin Errors
    BY DEF Errors
  <2> QED
    BY <2>2, <2>3, <2>4 DEF ControlInv
<1>7. CASE EndCollection
  <2>1. CASE caseError = "none"
    BY <1>7, <2>1 DEF EndCollection, outcomeVars, ControlInv
  <2>2. CASE caseError # "none"
    <3>1. caseError \in Errors /\ RunnerRaises(caseError) /\ pc = "end_collection"
      BY <1>7, <2>2 DEF EndCollection, TypeOK
    <3>2. \/ /\ pc' = "shutdown" /\ verdict' = "environment_unavailable"
             /\ UNCHANGED <<caseError, err, result>>
          \/ pc' = "exit" /\ err' = caseError /\ UNCHANGED <<caseError, verdict, result>>
      BY <3>1, Bends
    <3> QED
      BY <2>2, <3>1, <3>2 DEF ControlInv
  <2> QED
    BY <2>1, <2>2
<1>8. CASE Reduce
  <2>1. ASSUME NEW e \in {"contract", "other"}, RunnerRaises(e)
        PROVE  ControlInv'
    <3>1. pc = "reduce" /\ e \in Errors
      BY <1>8 DEF Reduce, Errors
    <3>2. pc' = "exit" /\ err' = e /\ UNCHANGED <<caseError, verdict, result>>
      BY <2>1 DEF RunnerRaises, Absorbed, SessionRaises
    <3> QED
      BY <3>1, <3>2 DEF ControlInv, Errors
  <2>2. ASSUME NEW v \in {"passed", "gate_failed"}, RunnerReturns(v)
        PROVE  ControlInv'
    BY <1>8, <2>2 DEF Reduce, RunnerReturns, ControlInv
  <2> QED
    BY <1>8, <2>1, <2>2 DEF Reduce
<1>9. CASE Enter \/ BeginCollection \/ CaseAnalyzed
  BY <1>9 DEF Enter, BeginCollection, CaseAnalyzed, outcomeVars, ControlInv
<1>10. CASE Finish \/ ExitWaits \/ Escalate \/ Reaped
  BY <1>10 DEF Finish, ExitWaits, Escalate, Reaped, outcomeVars, subjectVars, ControlInv
<1>11. CASE EnterFails \/ KillTimesOut
  BY <1>11 DEF EnterFails, KillTimesOut, Classified, ControlInv
<1>12. CASE CloseStreams
  BY <1>12 DEF CloseStreams, Classified, subjectVars, ControlInv
<1>13. CASE DriveFails
  BY <1>13 DEF DriveFails, ControlInv
<1>14. CASE SendRequest \/ SubjectEmits \/ SubjectForks \/ HeirExits \/ ReaderEnds
  BY <1>14 DEF SendRequest, SubjectEmits, SubjectForks, HeirExits, ReaderEnds, outcomeVars,
               subjectVars, ControlInv
<1>15. CASE SubjectExits
  BY <1>15 DEF SubjectExits, outcomeVars, ControlInv
<1>16. CASE Terminated \/ UNCHANGED vars
  BY <1>16 DEF Terminated, vars, outcomeVars, subjectVars, ControlInv
<1> QED
  BY ONLY <1>1, <1>2, <1>3, <1>4, <1>5, <1>6, <1>7, <1>8, <1>9, <1>10, <1>11, <1>12, <1>13,
     <1>14, <1>15, <1>16 DEF Next, BenchmarkStep, SubjectStep

\* Every step keeps ProcessInv.
LEMMA ProcessStep ==
    ASSUME TypeOK, ControlInv, ProcessInv, RequestInv, [Next]_vars
    PROVE  ProcessInv'
<1> USE DEF Running, Leaving
<1>1. Next \/ UNCHANGED vars
  OBVIOUS
<1> DEFINE Onward == pc' \notin {"enter", "done"} /\ UNCHANGED subjectVars
<1>2. Onward => ProcessInv'
  BY DEF ProcessInv, subjectVars
<1> HIDE DEF Onward
<1>3. CASE RequestRefused \/ RequestTimesOut \/ ResponseRejected
  <2>1. RequestFails /\ UNCHANGED subjectVars
    BY <1>3 DEF RequestRefused, RequestTimesOut, ResponseRejected
  <2> QED
    BY <1>2, <2>1 DEF RequestFails, SessionRaises, Onward
<1>4. CASE \/ HelloAccepted \/ CaseOpened \/ StepAnswered \/ CaseClosed \/ ShutdownAcked
           \/ HelloUnsupported \/ HelloInvalid \/ CaseNotReady
  BY <1>2, <1>4 DEF HelloAccepted, CaseOpened, StepAnswered, CaseClosed, ShutdownAcked,
     HelloUnsupported, HelloInvalid, CaseNotReady, Answered, RunnerReturns, SessionRaises, Onward
<1>5. CASE \/ CaseSetupFails \/ BeginCollectionFails \/ AnalysisFails \/ EndCollectionFails
           \/ EndCollection \/ Reduce
  BY <1>2, <1>5 DEF CaseSetupFails, BeginCollectionFails, AnalysisFails, EndCollectionFails,
     EndCollection, Reduce, RunnerRaises, RunnerReturns, SessionRaises, Onward
<1>6. CASE \/ BeginCollection \/ CaseAnalyzed \/ DriveFails \/ Finish \/ FinishFails
           \/ ExitWaits \/ Escalate \/ Reaped
  BY <1>2, <1>6 DEF BeginCollection, CaseAnalyzed, DriveFails, Finish, FinishFails, ExitWaits,
     Escalate, Reaped, SessionRaises, Onward
<1>7. CASE Enter
  BY <1>7 DEF Enter, ProcessInv
<1>8. CASE EnterFails \/ KillTimesOut \/ CloseStreams
  BY <1>8 DEF EnterFails, KillTimesOut, CloseStreams, Classified, subjectVars, ProcessInv
<1>9. CASE SubjectExits \/ SubjectForks \/ HeirExits \/ ReaderEnds
  BY <1>9 DEF SubjectExits, SubjectForks, HeirExits, ReaderEnds, outcomeVars, ProcessInv
<1>10. CASE SendRequest \/ SubjectEmits
  BY <1>10 DEF SendRequest, SubjectEmits, outcomeVars, subjectVars, ProcessInv
<1>11. CASE Terminated \/ UNCHANGED vars
  BY <1>11 DEF Terminated, vars, outcomeVars, subjectVars, ProcessInv
<1> QED
  BY ONLY <1>1, <1>3, <1>4, <1>5, <1>6, <1>7, <1>8, <1>9, <1>10, <1>11
     DEF Next, BenchmarkStep, SubjectStep

\* Every step keeps CollectorInv.
LEMMA CollectorStep ==
    ASSUME TypeOK, ControlInv, CollectorInv, RequestInv, [Next]_vars
    PROVE  CollectorInv'
<1> USE DEF Running, Leaving
<1>1. Next \/ UNCHANGED vars
  OBVIOUS
<1>2. CASE RequestRefused \/ RequestTimesOut \/ ResponseRejected
  <2>1. RequestFails /\ pc \in Requests /\ UNCHANGED collectorVars
    BY <1>2 DEF RequestRefused, RequestTimesOut, ResponseRejected, RequestInv
  <2> QED
    BY <2>1 DEF RequestFails, InCase, SessionRaises, CollectorInv, collectorVars, Requests
<1>3. CASE HelloAccepted \/ CaseOpened \/ StepAnswered \/ CaseClosed \/ ShutdownAcked
  BY <1>3 DEF HelloAccepted, CaseOpened, StepAnswered, CaseClosed, ShutdownAcked, Answered,
              outcomeVars, collectorVars, CollectorInv
<1>4. CASE HelloUnsupported \/ CaseNotReady \/ HelloInvalid \/ FinishFails
  BY <1>4 DEF HelloUnsupported, CaseNotReady, HelloInvalid, FinishFails, Answered,
              RunnerReturns, SessionRaises, collectorVars, ControlInv, CollectorInv
<1>5. CASE CaseSetupFails \/ AnalysisFails
  <2>1. /\ pc \in {"case_open", "analyze"} /\ UNCHANGED collectorVars
        /\ \E e \in Errors : RunnerRaises(e)
    BY <1>5 DEF CaseSetupFails, AnalysisFails, Errors
  <2>2. PICK e \in Errors :
          \/ pc' = "shutdown" /\ verdict' = "environment_unavailable" /\ UNCHANGED err
          \/ pc' = "exit" /\ err' = e /\ UNCHANGED verdict
    BY <2>1, Bends
  <2> QED
    BY <2>1, <2>2 DEF ControlInv, CollectorInv, collectorVars, Errors
<1>6. CASE BeginCollectionFails
  <2>1. /\ pc = "begin_collection" /\ UNCHANGED collector /\ \E e \in Errors : RunnerRaises(e)
    BY <1>6 DEF BeginCollectionFails, Errors
  <2>2. PICK e \in Errors :
          \/ pc' = "shutdown" /\ verdict' = "environment_unavailable" /\ UNCHANGED err
          \/ pc' = "exit" /\ err' = e /\ UNCHANGED verdict
    BY <2>1, Bends
  <2> QED
    BY <2>1, <2>2 DEF ControlInv, CollectorInv, Errors
<1>7. CASE EndCollectionFails
  <2>1. PICK e \in Errors : /\ RunnerRaises(e) /\ e # "environment"
                            /\ collector' = "stuck" /\ lane = "xctrace" => e # "runtime"
    BY <1>7 DEF EndCollectionFails, Errors
  <2>2. pc = "end_collection" /\ collector' \in {"off", "stuck"}
    BY <1>7 DEF EndCollectionFails
  <2>3. \/ pc' = "shutdown" /\ verdict' = "environment_unavailable" /\ UNCHANGED err
        \/ pc' = "exit" /\ err' = e /\ UNCHANGED verdict
    BY <2>1, <2>2, Bends
  <2>4. collector' = "stuck" => err' = e
    BY <2>1 DEF RunnerRaises, Absorbed, SessionRaises
  <2> QED
    BY <2>2, <2>3, <2>4 DEF CollectorInv, Errors
<1>8. CASE EndCollection
  <2>1. pc = "end_collection" /\ collector' = "off" /\ UNCHANGED collectorFailed
    BY <1>8 DEF EndCollection
  <2>2. err = "none" /\ verdict = "none" /\ ~collectorFailed
    BY <2>1 DEF ControlInv, CollectorInv
  <2> QED
    BY <2>1, <2>2 DEF CollectorInv
<1>9. CASE Reduce
  <2>1. pc = "reduce" /\ UNCHANGED collectorVars /\ collector # "running"
    BY <1>9 DEF Reduce, CollectorInv
  <2>2. ~collectorFailed /\ collector # "stuck"
    BY <2>1 DEF ControlInv, CollectorInv
  <2> QED
    BY <2>1, <2>2 DEF CollectorInv, collectorVars
<1>10. CASE \/ Enter \/ EnterFails \/ CaseAnalyzed \/ Finish \/ ExitWaits \/ Escalate \/ Reaped
            \/ KillTimesOut \/ CloseStreams
  BY <1>10 DEF Enter, EnterFails, CaseAnalyzed, Finish, ExitWaits, Escalate, Reaped,
     KillTimesOut, CloseStreams, outcomeVars, collectorVars, ControlInv, CollectorInv
<1>11. CASE BeginCollection
  BY <1>11 DEF BeginCollection, outcomeVars, ControlInv, CollectorInv
<1>12. CASE DriveFails
  BY <1>12 DEF DriveFails, collectorVars, ControlInv, CollectorInv
<1>13. CASE \/ SendRequest \/ SubjectEmits \/ SubjectForks \/ SubjectExits \/ HeirExits
            \/ ReaderEnds
  BY <1>13 DEF SendRequest, SubjectEmits, SubjectForks, SubjectExits, HeirExits, ReaderEnds,
               outcomeVars, collectorVars, CollectorInv
<1>14. CASE Terminated \/ UNCHANGED vars
  BY <1>14 DEF Terminated, vars, outcomeVars, collectorVars, CollectorInv
<1> QED
  BY ONLY <1>1, <1>2, <1>3, <1>4, <1>5, <1>6, <1>7, <1>8, <1>9, <1>10, <1>11, <1>12, <1>13,
     <1>14 DEF Next, BenchmarkStep, SubjectStep

\* Every step keeps PlanInv.
LEMMA PlanStep ==
    ASSUME TypeOK, ControlInv, PlanInv, RequestInv, [Next]_vars
    PROVE  PlanInv'
<1> USE DEF Running, Leaving
<1>1. Next \/ UNCHANGED vars
  OBVIOUS
<1> DEFINE Left == /\ pc' \in {"shutdown", "wait_exit"} \cup Leaving
                   /\ verdict' \in {"passed", "gate_failed"} => UNCHANGED verdict
                   /\ UNCHANGED planVars
<1>2. Left => PlanInv'
  BY DEF Left, PlanInv, planVars
<1> HIDE DEF Left
<1>3. CASE RequestRefused \/ RequestTimesOut \/ ResponseRejected
  <2>1. RequestFails /\ pc \in Requests /\ UNCHANGED planVars
    BY <1>3 DEF RequestRefused, RequestTimesOut, ResponseRejected, RequestInv
  <2> QED
    BY <2>1 DEF RequestFails, InCase, SessionRaises, PlanInv, planVars
<1>4. CASE HelloAccepted \/ CaseOpened \/ ShutdownAcked
  BY <1>4 DEF HelloAccepted, CaseOpened, ShutdownAcked, Answered, outcomeVars, planVars, PlanInv
<1>5. CASE StepAnswered \/ CaseClosed \/ BeginCollection
  BY <1>5 DEF StepAnswered, CaseClosed, BeginCollection, Answered, outcomeVars, PlanInv
<1>6. CASE HelloUnsupported \/ CaseNotReady \/ HelloInvalid \/ FinishFails
  BY <1>2, <1>6 DEF HelloUnsupported, CaseNotReady, HelloInvalid, FinishFails, Answered,
     RunnerReturns, SessionRaises, Left
<1>7. CASE CaseSetupFails \/ BeginCollectionFails \/ AnalysisFails \/ EndCollectionFails
  <2>1. UNCHANGED planVars /\ \E e \in Errors : RunnerRaises(e)
    BY <1>7 DEF CaseSetupFails, BeginCollectionFails, AnalysisFails, EndCollectionFails, Errors
  <2> QED
    BY <1>2, <2>1 DEF RunnerRaises, SessionRaises, Left
<1>8. CASE EndCollection
  <2>1. pc = "end_collection" /\ UNCHANGED planVars
    BY <1>8 DEF EndCollection
  <2>2. CASE caseError = "none"
    BY <1>8, <2>1, <2>2 DEF EndCollection, planVars, outcomeVars, PlanInv
  <2>3. CASE caseError # "none"
    BY <1>2, <1>8, <2>1, <2>3 DEF EndCollection, RunnerRaises, SessionRaises, Left
  <2> QED
    BY <2>2, <2>3
<1>9. CASE Reduce
  <2>1. ASSUME NEW e \in {"contract", "other"}, RunnerRaises(e)
        PROVE  PlanInv'
    BY <1>2, <1>9, <2>1 DEF Reduce, RunnerRaises, SessionRaises, Left
  <2>2. ASSUME artifact # "none", NEW v \in {"passed", "gate_failed"}, RunnerReturns(v)
        PROVE  PlanInv'
    BY <1>9, <2>2 DEF Reduce, RunnerReturns, planVars, PlanInv
  <2> QED
    BY <1>9, <2>1, <2>2 DEF Reduce
<1>10. CASE CaseAnalyzed
  <2>1. pc = "analyze" /\ executed' = executed + 1 /\ verdict = "none" /\ UNCHANGED verdict
    BY <1>10 DEF CaseAnalyzed, ControlInv, outcomeVars
  <2>2. case \in Nat /\ case <= CaseCount /\ executed = case - 1
    BY <2>1, LanePlanAssumption DEF PlanInv, TypeOK, Cases
  <2>3. CASE case < CaseCount
    BY <1>10, <2>1, <2>2, <2>3 DEF CaseAnalyzed, PlanInv
  <2>4. CASE ~(case < CaseCount)
    BY <1>10, <2>1, <2>2, <2>4, LanePlanAssumption DEF CaseAnalyzed, PlanInv
  <2> QED
    BY <2>3, <2>4
<1>11. CASE \/ EnterFails \/ Finish \/ ExitWaits \/ Escalate \/ Reaped \/ KillTimesOut
            \/ CloseStreams
  BY <1>2, <1>11 DEF EnterFails, Finish, ExitWaits, Escalate, Reaped, KillTimesOut,
     CloseStreams, outcomeVars, Left
<1>12. CASE Enter \/ DriveFails
  BY <1>12 DEF Enter, DriveFails, planVars, outcomeVars, PlanInv
<1>13. CASE \/ SendRequest \/ SubjectEmits \/ SubjectForks \/ SubjectExits \/ HeirExits
            \/ ReaderEnds
  BY <1>13 DEF SendRequest, SubjectEmits, SubjectForks, SubjectExits, HeirExits, ReaderEnds,
               outcomeVars, planVars, PlanInv
<1>14. CASE Terminated \/ UNCHANGED vars
  BY <1>14 DEF Terminated, vars, outcomeVars, planVars, PlanInv
<1> QED
  BY ONLY <1>1, <1>3, <1>4, <1>5, <1>6, <1>7, <1>8, <1>9, <1>10, <1>11, <1>12, <1>13,
     <1>14 DEF Next, BenchmarkStep, SubjectStep

\* Every step keeps RequestInv.
LEMMA RequestStep ==
    ASSUME TypeOK, RequestInv, [Next]_vars
    PROVE  RequestInv'
<1>1. Next \/ UNCHANGED vars
  OBVIOUS
<1>2. CASE waiting' = FALSE
  BY <1>2 DEF RequestInv
<1>3. CASE UNCHANGED <<pc, waiting, case, step, transcript>>
  BY <1>3 DEF RequestInv, Asked
<1>4. CASE SendRequest
  <2> DEFINE e == <<"request", Asked>>
  <2>1. transcript' = Append(transcript, e) /\ pc \in Requests /\ UNCHANGED <<pc, case, step>>
    BY <1>4 DEF SendRequest, Recorded, planVars
  <2>2. Asked' = Asked
    BY <2>1 DEF Asked
  <2>3. transcript' # <<>> /\ transcript'[Len(transcript')] = e
    <3>1. transcript \in Seq({"request", "response"} \X Tags)
      BY DEF TypeOK
    <3>2. e \in {"request", "response"} \X Tags
      BY <2>1, AskedType
    <3> HIDE DEF e
    <3> QED
      BY <2>1, <3>1, <3>2, AppendProperties
  <2> QED
    BY <2>1, <2>2, <2>3 DEF RequestInv
<1>5. ASSUME \/ RequestTimesOut \/ ResponseRejected \/ HelloAccepted \/ HelloUnsupported
             \/ HelloInvalid \/ CaseOpened \/ CaseNotReady \/ StepAnswered \/ CaseClosed
             \/ ShutdownAcked
      PROVE  waiting' = FALSE
  BY <1>5 DEF RequestTimesOut, ResponseRejected, HelloAccepted, HelloUnsupported, HelloInvalid,
     CaseOpened, CaseNotReady, StepAnswered, CaseClosed, ShutdownAcked, Answered, TakeResponse
<1>6. ASSUME \/ RequestRefused \/ CaseSetupFails \/ DriveFails
      PROVE  waiting' = FALSE
  BY <1>6 DEF RequestRefused, CaseSetupFails, DriveFails, TypeOK
<1>7. ASSUME \/ Enter \/ EnterFails \/ BeginCollection \/ BeginCollectionFails \/ EndCollection
             \/ EndCollectionFails \/ CaseAnalyzed \/ AnalysisFails \/ Reduce
      PROVE  waiting' = FALSE
  BY <1>7 DEF Enter, EnterFails, BeginCollection, BeginCollectionFails, EndCollection,
     EndCollectionFails, CaseAnalyzed, AnalysisFails, Reduce, RequestInv, Requests, TypeOK
<1>8. ASSUME \/ Finish \/ FinishFails \/ ExitWaits \/ Escalate \/ Reaped \/ KillTimesOut
             \/ CloseStreams
      PROVE  waiting' = FALSE
  BY <1>8 DEF Finish, FinishFails, ExitWaits, Escalate, Reaped, KillTimesOut, CloseStreams,
     RequestInv, Requests, TypeOK
<1>9. ASSUME \/ SubjectEmits \/ SubjectForks \/ SubjectExits \/ HeirExits \/ ReaderEnds
             \/ Terminated \/ UNCHANGED vars
      PROVE  UNCHANGED <<pc, waiting, case, step, transcript>>
  BY <1>9 DEF SubjectEmits, SubjectForks, SubjectExits, HeirExits, ReaderEnds, Terminated,
     vars, planVars
<1> QED
  BY ONLY <1>1, <1>2, <1>3, <1>4, <1>5, <1>6, <1>7, <1>8, <1>9
     DEF Next, BenchmarkStep, SubjectStep

-----------------------------------------------------------------------------
(* The transcript of a sound lane. *)

\* The request and the response of an exchange.
LEMMA EntriesOf ==
    ASSUME NEW n \in Nat \ {0}
    PROVE  /\ PlanEntry(2 * (n - 1) + 1) = <<"request", PlanLabel(n)>>
           /\ PlanEntry(2 * (n - 1) + 2) = <<"response", PlanLabel(n)>>
<1> DEFINE i == 2 * (n - 1) + 1
           j == 2 * (n - 1) + 2
<1>1. i % 2 = 1 /\ (i + 1) \div 2 = n
  OBVIOUS
<1>2. j % 2 = 0 /\ (j + 1) \div 2 = n
  OBVIOUS
<1> HIDE DEF i, j
<1>3. PlanEntry(i) = <<"request", PlanLabel(n)>>
  BY <1>1 DEF PlanEntry
<1>4. PlanEntry(j) = <<"response", PlanLabel(n)>>
  BY <1>2 DEF PlanEntry
<1> QED
  BY <1>3, <1>4 DEF i, j

\* Exchanges are counted from 1, and what is asked is what the plan says.
LEMMA Planned ==
    ASSUME TypeOK
    PROVE  /\ Exchange \in Nat \ {0}
           /\ pc \in Requests => Asked = PlanLabel(Exchange)
<1> USE LanePlanAssumption
<1>1. /\ Base(case) \in Nat /\ Base(case + 1) \in Nat /\ Base(CaseCount + 1) \in Nat
      /\ step \in Nat
  BY Bases DEF TypeOK, Steps
<1>2. Exchange \in Nat \ {0}
  BY <1>1 DEF Exchange
<1>3. ASSUME pc \in Requests
      PROVE  Asked = PlanLabel(Exchange)
  <2>1. case \in Cases /\ step \in Steps
    BY DEF TypeOK
  <2>2. CASE pc = "hello"
    BY <2>2, PlanLabels DEF Asked, Exchange
  <2>3. CASE pc = "case_open"
    BY <2>1, <2>3, PlanLabels DEF Asked, Exchange
  <2>4. CASE pc = "case_step"
    BY <2>1, <2>4, PlanLabels DEF Asked, Exchange
  <2>5. CASE pc = "case_close"
    BY <2>1, <2>5, PlanLabels DEF Asked, Exchange
  <2>6. CASE pc = "shutdown"
    BY <2>6, PlanLabels DEF Asked, Exchange
  <2> QED
    BY <1>3, <2>2, <2>3, <2>4, <2>5, <2>6 DEF Requests
<1> QED
  BY <1>2, <1>3

\* A failure leaves a lane that is not sound, and no step repairs one.
LEMMA FailuresAreUnsound ==
    ASSUME TypeOK, ControlInv, RequestInv, [Next]_vars,
           \/ RequestRefused \/ RequestTimesOut \/ ResponseRejected
           \/ HelloUnsupported \/ HelloInvalid \/ CaseNotReady
           \/ CaseSetupFails \/ BeginCollectionFails \/ AnalysisFails \/ EndCollectionFails
           \/ EnterFails \/ KillTimesOut \/ FinishFails \/ DriveFails
    PROVE  ~Sound'
<1>1. CASE RequestRefused \/ RequestTimesOut \/ ResponseRejected
  <2>1. RequestFails
    BY <1>1 DEF RequestRefused, RequestTimesOut, ResponseRejected
  <2> QED
    BY <2>1 DEF RequestFails, SessionRaises, Sound
<1>2. CASE HelloUnsupported \/ HelloInvalid \/ CaseNotReady
  BY <1>2 DEF HelloUnsupported, HelloInvalid, CaseNotReady, Answered, RunnerReturns,
              SessionRaises, Sound
<1>3. CASE CaseSetupFails \/ BeginCollectionFails \/ AnalysisFails \/ EndCollectionFails
  <2>1. PICK e \in Errors : RunnerRaises(e)
    BY <1>3 DEF CaseSetupFails, BeginCollectionFails, AnalysisFails, EndCollectionFails, Errors
  <2> QED
    BY <2>1 DEF RunnerRaises, SessionRaises, Sound, Errors
<1>4. CASE EnterFails \/ KillTimesOut
  BY <1>4 DEF EnterFails, KillTimesOut, Sound
<1>5. CASE FinishFails
  BY <1>5 DEF FinishFails, SessionRaises, Sound
<1>6. CASE DriveFails
  BY <1>6 DEF DriveFails, Sound
<1> QED
  BY <1>1, <1>2, <1>3, <1>4, <1>5, <1>6

\* The steps of a sound lane: a silent one, a request, or an answer.
Silent == UNCHANGED <<waiting, transcript>> /\ Exchange' = Exchange
Sends  == /\ pc \in Requests /\ ~waiting /\ waiting' = TRUE
          /\ transcript' = Append(transcript, <<"request", Asked>>) /\ Exchange' = Exchange
Gets   == /\ pc \in Requests /\ waiting /\ waiting' = FALSE
          /\ transcript' = Append(transcript, <<"response", Asked>>)
          /\ Exchange' = Exchange + 1

LEMMA AnswersSound ==
    ASSUME TypeOK, ControlInv, PlanInv,
           HelloAccepted \/ CaseOpened \/ StepAnswered \/ CaseClosed \/ ShutdownAcked
    PROVE  Gets /\ UNCHANGED outcomeVars
<1> USE LanePlanAssumption
<1>1. /\ waiting /\ waiting' = FALSE /\ pc \in Requests
      /\ transcript' = Append(transcript, <<"response", Asked>>) /\ UNCHANGED outcomeVars
  BY DEF HelloAccepted, CaseOpened, StepAnswered, CaseClosed, ShutdownAcked, Answered, Answers,
         TakeResponse, Recorded, Requests
<1>2. case \in Cases /\ Base(case) \in Nat /\ Base(CaseCount + 1) \in Nat
        /\ step \in Nat /\ step <= StepCount /\ Base(1) = 0
        /\ Base(case + 1) = Base(case) + StepCount + 2
  BY Bases DEF TypeOK, Steps
<1>3. Exchange' = Exchange + 1
  <2>1. CASE HelloAccepted
    <3>1. pc = "hello" /\ pc' = "case_open" /\ case' = 1
      BY <2>1 DEF HelloAccepted, Answered, planVars, PlanInv
    <3> QED
      BY <1>2, <3>1 DEF Exchange
  <2>2. CASE CaseOpened
    <3>1. pc = "case_open" /\ pc' = "begin_collection" /\ case' = case
      BY <2>2 DEF CaseOpened, Answered, planVars
    <3> QED
      BY <1>2, <3>1 DEF Exchange
  <2>3. CASE StepAnswered
    <3>1. pc = "case_step" /\ case' = case
      BY <2>3 DEF StepAnswered, Answered
    <3>2. CASE step < StepCount
      BY <1>2, <2>3, <3>1, <3>2 DEF StepAnswered, Exchange
    <3>3. CASE ~(step < StepCount)
      <4>1. step = StepCount /\ pc' = "case_close"
        BY <1>2, <2>3, <3>3 DEF StepAnswered
      <4> QED
        BY <1>2, <3>1, <4>1 DEF Exchange
    <3> QED
      BY <3>2, <3>3
  <2>4. CASE CaseClosed
    <3>1. pc = "case_close" /\ pc' = "end_collection" /\ case' = case
      BY <2>4 DEF CaseClosed, Answered
    <3> QED
      BY <1>2, <3>1 DEF Exchange
  <2>5. CASE ShutdownAcked
    <3>1. pc = "shutdown" /\ pc' = "wait_exit"
      BY <2>5 DEF ShutdownAcked, Answered
    <3> QED
      BY <1>2, <3>1 DEF Exchange
  <2> QED
    BY <2>1, <2>2, <2>3, <2>4, <2>5
<1> QED
  BY <1>1, <1>3 DEF Gets

LEMMA SoundSteps ==
    ASSUME TypeOK, ControlInv, PlanInv, RequestInv, [Next]_vars, Sound'
    PROVE  Sound /\ (Silent \/ Sends \/ Gets)
<1> USE DEF Running, Leaving
<1>1. Next \/ UNCHANGED vars
  OBVIOUS
<1>2. ASSUME \/ RequestRefused \/ RequestTimesOut \/ ResponseRejected
             \/ HelloUnsupported \/ HelloInvalid \/ CaseNotReady
             \/ CaseSetupFails \/ BeginCollectionFails \/ AnalysisFails \/ EndCollectionFails
             \/ EnterFails \/ KillTimesOut \/ FinishFails \/ DriveFails
      PROVE  FALSE
  BY <1>2, FailuresAreUnsound
<1>3. CASE HelloAccepted \/ CaseOpened \/ StepAnswered \/ CaseClosed \/ ShutdownAcked
  <2>1. Gets /\ UNCHANGED outcomeVars
    BY <1>3, AnswersSound
  <2> QED
    BY <2>1 DEF outcomeVars, Sound
<1>4. CASE SendRequest
  BY <1>4 DEF SendRequest, Recorded, Sends, Sound, Exchange, planVars, outcomeVars
<1>5. CASE Enter \/ Finish \/ ExitWaits \/ Escalate \/ Reaped
  BY <1>5 DEF Enter, Finish, ExitWaits, Escalate, Reaped, Silent, Sound, Exchange, planVars,
              outcomeVars
<1>6. CASE CloseStreams
  BY <1>6 DEF CloseStreams, Silent, Sound, Exchange, planVars
<1>7. CASE BeginCollection
  <2>1. Base(case) \in Nat
    BY Bases DEF TypeOK
  <2>2. /\ pc = "begin_collection" /\ pc' = "case_step" /\ step' = 1 /\ case' = case
        /\ UNCHANGED <<waiting, transcript>> /\ UNCHANGED outcomeVars
    BY <1>7 DEF BeginCollection
  <2>3. Exchange' = Exchange
    BY <2>1, <2>2 DEF Exchange
  <2> QED
    BY <2>2, <2>3 DEF Silent, Sound, outcomeVars
<1>8. CASE EndCollection
  <2>1. CASE caseError = "none"
    BY <1>8, <2>1 DEF EndCollection, Silent, Sound, Exchange, planVars, outcomeVars
  <2>2. CASE caseError # "none"
    BY <1>8, <2>2 DEF EndCollection, RunnerRaises, SessionRaises, Sound
  <2> QED
    BY <2>1, <2>2
<1>9. CASE CaseAnalyzed
  <2>1. /\ pc = "analyze" /\ UNCHANGED <<waiting, transcript>> /\ UNCHANGED outcomeVars
    BY <1>9 DEF CaseAnalyzed
  <2>2. CASE case < CaseCount
    BY <1>9, <2>1, <2>2 DEF CaseAnalyzed, Silent, Sound, Exchange, outcomeVars
  <2>3. CASE ~(case < CaseCount)
    <3>1. case = CaseCount /\ pc' = "reduce"
      BY <1>9, <2>3, LanePlanAssumption DEF CaseAnalyzed, TypeOK, Cases
    <3> QED
      BY <2>1, <3>1 DEF Silent, Sound, Exchange, outcomeVars
  <2> QED
    BY <2>2, <2>3
<1>10. CASE Reduce
  <2>1. pc = "reduce" /\ UNCHANGED <<waiting, transcript>>
    BY <1>10 DEF Reduce
  <2>2. \A e \in {"contract", "other"} : ~RunnerRaises(e)
    BY DEF RunnerRaises, Absorbed, SessionRaises, Sound
  <2>3. pc' = "shutdown" /\ UNCHANGED <<caseError, err>>
    BY <1>10, <2>2 DEF Reduce, RunnerReturns
  <2>4. verdict = "none"
    BY <2>1 DEF ControlInv
  <2> QED
    BY <2>1, <2>3, <2>4 DEF Silent, Sound, Exchange
<1>11. CASE \/ SubjectEmits \/ SubjectForks \/ SubjectExits \/ HeirExits \/ ReaderEnds
            \/ Terminated \/ UNCHANGED vars
  <2>1. UNCHANGED <<pc, waiting, case, step, transcript>> /\ UNCHANGED outcomeVars
    BY <1>11 DEF SubjectEmits, SubjectForks, SubjectExits, HeirExits, ReaderEnds, Terminated,
       vars, planVars
  <2> QED
    BY <2>1 DEF Silent, Sound, Exchange, outcomeVars
<1> QED
  BY ONLY <1>1, <1>2, <1>3, <1>4, <1>5, <1>6, <1>7, <1>8, <1>9, <1>10, <1>11
     DEF Next, BenchmarkStep, SubjectStep

\* Every step keeps TranscriptInv.
LEMMA TranscriptStep ==
    ASSUME TypeOK, ControlInv, PlanInv, RequestInv, TranscriptInv, [Next]_vars
    PROVE  TranscriptInv'
<1> SUFFICES ASSUME Sound'
             PROVE  /\ Len(transcript') = 2 * (Exchange' - 1) + (IF waiting' THEN 1 ELSE 0)
                    /\ \A i \in 1..Len(transcript') : transcript'[i] = PlanEntry(i)
  BY DEF TranscriptInv, PlanEntry
<1>1. Sound /\ (Silent \/ Sends \/ Gets)
  BY SoundSteps
<1>2. /\ Len(transcript) = 2 * (Exchange - 1) + (IF waiting THEN 1 ELSE 0)
      /\ \A i \in 1..Len(transcript) : transcript[i] = PlanEntry(i)
  BY <1>1 DEF TranscriptInv
<1>3. Exchange \in Nat \ {0} /\ (pc \in Requests => Asked = PlanLabel(Exchange))
  BY Planned
<1>4. /\ PlanEntry(2 * (Exchange - 1) + 1) = <<"request", PlanLabel(Exchange)>>
      /\ PlanEntry(2 * (Exchange - 1) + 2) = <<"response", PlanLabel(Exchange)>>
  BY <1>3, EntriesOf
<1>5. CASE Silent
  BY <1>2, <1>5 DEF Silent
<1>6. ASSUME NEW e \in {"request", "response"} \X Tags, transcript' = Append(transcript, e)
      PROVE  /\ Len(transcript') = Len(transcript) + 1
             /\ transcript'[Len(transcript) + 1] = e
             /\ \A i \in 1..Len(transcript) : transcript'[i] = transcript[i]
  BY <1>6, AppendProperties DEF TypeOK
<1>7. Len(transcript) \in Nat
  BY DEF TypeOK
<1>8. CASE Sends
  <2>1. pc \in Requests /\ ~waiting /\ waiting' = TRUE /\ Exchange' = Exchange
          /\ transcript' = Append(transcript, <<"request", Asked>>)
    BY <1>8 DEF Sends
  <2>2. <<"request", Asked>> \in {"request", "response"} \X Tags
    BY <2>1, AskedType
  <2>3. /\ Len(transcript') = Len(transcript) + 1
        /\ transcript'[Len(transcript) + 1] = <<"request", Asked>>
        /\ \A i \in 1..Len(transcript) : transcript'[i] = transcript[i]
    BY <1>6, <2>1, <2>2
  <2>4. Len(transcript) = 2 * (Exchange - 1)
    BY <1>2, <1>3, <2>1
  <2>5. transcript'[Len(transcript) + 1] = PlanEntry(Len(transcript) + 1)
    BY <1>3, <1>4, <2>1, <2>3, <2>4
  <2>6. \A i \in 1..Len(transcript') : i \in 1..Len(transcript) \/ i = Len(transcript) + 1
    BY <1>7, <2>3
  <2>7. \A i \in 1..Len(transcript') : transcript'[i] = PlanEntry(i)
    BY <1>2, <2>3, <2>5, <2>6
  <2> QED
    BY <2>1, <2>3, <2>4, <2>7
<1>9. CASE Gets
  <2>1. pc \in Requests /\ waiting /\ waiting' = FALSE /\ Exchange' = Exchange + 1
          /\ transcript' = Append(transcript, <<"response", Asked>>)
    BY <1>9 DEF Gets
  <2>2. <<"response", Asked>> \in {"request", "response"} \X Tags
    BY <2>1, AskedType
  <2>3. /\ Len(transcript') = Len(transcript) + 1
        /\ transcript'[Len(transcript) + 1] = <<"response", Asked>>
        /\ \A i \in 1..Len(transcript) : transcript'[i] = transcript[i]
    BY <1>6, <2>1, <2>2
  <2>4. Len(transcript) = 2 * (Exchange - 1) + 1
    BY <1>2, <1>3, <2>1
  <2>5. transcript'[Len(transcript) + 1] = PlanEntry(Len(transcript) + 1)
    <3>1. Len(transcript) + 1 = 2 * (Exchange - 1) + 2
      BY <1>3, <2>4
    <3> QED
      BY <1>3, <1>4, <2>1, <2>3, <3>1
  <2>6. \A i \in 1..Len(transcript') : i \in 1..Len(transcript) \/ i = Len(transcript) + 1
    BY <1>7, <2>3
  <2>7. \A i \in 1..Len(transcript') : transcript'[i] = PlanEntry(i)
    BY <1>2, <2>3, <2>5, <2>6
  <2>8. Len(transcript') = 2 * (Exchange' - 1) + 0
    BY <1>3, <2>1, <2>3, <2>4
  <2> QED
    BY <2>1, <2>7, <2>8
<1> QED
  BY <1>1, <1>5, <1>8, <1>9

-----------------------------------------------------------------------------
(* Whose answer a response is. *)

\* A lane that fails for a contract error goes on failing, and asks nothing more.
LEMMA FailingLasts ==
    ASSUME TypeOK, ControlInv, RequestInv, Failing, [Next]_vars
    PROVE  Failing' /\ UNCHANGED transcript
<1> USE DEF Leaving
<1>1. Next \/ UNCHANGED vars
  OBVIOUS
<1>2. pc = "end_collection" \/ pc \in Leaving
  BY DEF Failing
<1>3. ~waiting
  BY <1>2 DEF RequestInv, Requests
<1>4. ASSUME \/ Enter \/ EnterFails \/ SendRequest \/ RequestRefused \/ RequestTimesOut
             \/ ResponseRejected \/ HelloAccepted \/ HelloUnsupported \/ HelloInvalid
             \/ CaseSetupFails \/ CaseOpened \/ CaseNotReady \/ StepAnswered \/ CaseClosed
             \/ ShutdownAcked
      PROVE  FALSE
  BY <1>2, <1>3, <1>4 DEF Enter, EnterFails, SendRequest, RequestRefused, RequestTimesOut,
     ResponseRejected, HelloAccepted, HelloUnsupported, HelloInvalid, CaseSetupFails,
     CaseOpened, CaseNotReady, StepAnswered, CaseClosed, ShutdownAcked, Answered, Requests
<1>5. ASSUME \/ BeginCollection \/ BeginCollectionFails \/ DriveFails \/ CaseAnalyzed
             \/ AnalysisFails \/ Reduce \/ Finish \/ FinishFails
      PROVE  FALSE
  BY <1>2, <1>5 DEF BeginCollection, BeginCollectionFails, DriveFails, CaseAnalyzed,
     AnalysisFails, Reduce, Finish, FinishFails
<1>6. CASE EndCollection \/ EndCollectionFails
  <2>1. pc = "end_collection" /\ caseError = "contract" /\ UNCHANGED transcript
    BY <1>6 DEF EndCollection, EndCollectionFails, Failing
  <2>2. \E e \in {"contract", "other"} : RunnerRaises(e)
    BY <1>6, <2>1 DEF EndCollection, EndCollectionFails
  <2>3. pc' = "exit" /\ err' # "none" /\ UNCHANGED caseError
    BY <2>2 DEF RunnerRaises, Absorbed, SessionRaises
  <2> QED
    BY <2>1, <2>3 DEF Failing
<1>7. CASE ExitWaits \/ Escalate \/ Reaped
  BY <1>7 DEF ExitWaits, Escalate, Reaped, outcomeVars, Failing
<1>8. CASE KillTimesOut
  BY <1>8 DEF KillTimesOut, Classified, Failing
<1>9. CASE CloseStreams
  <2>1. err # "none" /\ result' = Classified(err) /\ UNCHANGED err /\ pc' = "done"
    BY <1>9 DEF CloseStreams, Failing
  <2>2. result' # "none"
    BY <2>1 DEF Classified
  <2> QED
    BY <1>9, <2>1, <2>2 DEF CloseStreams, Failing
<1>10. CASE \/ SubjectEmits \/ SubjectForks \/ SubjectExits \/ HeirExits \/ ReaderEnds
            \/ Terminated \/ UNCHANGED vars
  <2>1. UNCHANGED <<pc, transcript>> /\ UNCHANGED outcomeVars
    BY <1>10 DEF SubjectEmits, SubjectForks, SubjectExits, HeirExits, ReaderEnds, Terminated,
       vars
  <2> QED
    BY <2>1 DEF Failing, outcomeVars
<1> QED
  BY ONLY <1>1, <1>4, <1>5, <1>6, <1>7, <1>8, <1>9, <1>10
     DEF Next, BenchmarkStep, SubjectStep

\* What a step adds to the transcript: nothing, a request, the answer to the
\* last request, or a response after which the lane fails.
LEMMA Additions ==
    ASSUME TypeOK, ControlInv, RequestInv, [Next]_vars
    PROVE  \/ UNCHANGED transcript
           \/ \E e \in {"request", "response"} \X Tags :
                /\ transcript' = Append(transcript, e)
                /\ \/ e[1] = "request"
                   \/ Len(transcript) > 0 /\ transcript[Len(transcript)] = <<"request", e[2]>>
                   \/ Failing'
<1>1. Next \/ UNCHANGED vars
  OBVIOUS
<1>2. CASE SendRequest
  <2>1. <<"request", Asked>> \in {"request", "response"} \X Tags
    BY <1>2, AskedType DEF SendRequest
  <2>2. transcript' = Append(transcript, <<"request", Asked>>)
    BY <1>2 DEF SendRequest, Recorded
  <2>3. <<"request", Asked>>[1] = "request"
    OBVIOUS
  <2> QED
    BY <2>1, <2>2, <2>3
<1>3. CASE ResponseRejected
  <2>1. waiting /\ responses # <<>> /\ RequestFails /\ (UNCHANGED transcript \/ TakeResponse)
    BY <1>3 DEF ResponseRejected
  <2>2. Failing'
    BY <2>1 DEF RequestFails, SessionRaises, Failing, Leaving
  <2>3. CASE TakeResponse
    <3>1. Head(responses).label \in Tags
      BY <2>1, TakesType
    <3>2. <<"response", Head(responses).label>> \in {"request", "response"} \X Tags
      BY <3>1
    <3>3. transcript' = Append(transcript, <<"response", Head(responses).label>>)
      BY <2>3 DEF TakeResponse, Recorded
    <3> QED
      BY <2>2, <3>2, <3>3
  <2> QED
    BY <2>1, <2>3
<1>4. CASE \/ HelloAccepted \/ HelloUnsupported \/ HelloInvalid \/ CaseOpened \/ CaseNotReady
           \/ StepAnswered \/ CaseClosed \/ ShutdownAcked
  <2>1. waiting /\ Answers(Head(responses)) /\ TakeResponse
    BY <1>4 DEF HelloAccepted, HelloUnsupported, HelloInvalid, CaseOpened, CaseNotReady,
                StepAnswered, CaseClosed, ShutdownAcked, Answered
  <2>2. transcript' = Append(transcript, <<"response", Asked>>)
    BY <2>1 DEF Answers, TakeResponse, Recorded
  <2>3. /\ pc \in Requests /\ transcript # <<>>
        /\ transcript[Len(transcript)] = <<"request", Asked>>
    BY <2>1 DEF RequestInv
  <2>4. Len(transcript) > 0
    <3>1. transcript \in Seq({"request", "response"} \X Tags)
      BY DEF TypeOK
    <3> QED
      BY <2>3, <3>1, EmptySeq
  <2>5. <<"response", Asked>> \in {"request", "response"} \X Tags
          /\ <<"response", Asked>>[2] = Asked
    BY <2>3, AskedType
  <2> QED
    BY <2>2, <2>3, <2>4, <2>5
<1>5. ASSUME \/ Enter \/ EnterFails \/ RequestRefused \/ RequestTimesOut \/ BeginCollection
             \/ BeginCollectionFails \/ CaseSetupFails \/ DriveFails \/ EndCollection
             \/ EndCollectionFails \/ CaseAnalyzed \/ AnalysisFails \/ Reduce
      PROVE  UNCHANGED transcript
  BY <1>5 DEF Enter, EnterFails, RequestRefused, RequestTimesOut, BeginCollection,
     BeginCollectionFails, CaseSetupFails, DriveFails, EndCollection, EndCollectionFails,
     CaseAnalyzed, AnalysisFails, Reduce
<1>6. ASSUME \/ Finish \/ FinishFails \/ ExitWaits \/ Escalate \/ Reaped \/ KillTimesOut
             \/ CloseStreams \/ SubjectEmits \/ SubjectExits \/ SubjectForks \/ HeirExits
             \/ ReaderEnds \/ Terminated \/ UNCHANGED vars
      PROVE  UNCHANGED transcript
  BY <1>6 DEF Finish, FinishFails, ExitWaits, Escalate, Reaped, KillTimesOut, CloseStreams,
     SubjectEmits, SubjectExits, SubjectForks, HeirExits, ReaderEnds, Terminated, vars
<1> QED
  BY ONLY <1>1, <1>2, <1>3, <1>4, <1>5, <1>6 DEF Next, BenchmarkStep, SubjectStep

\* Every step keeps AnswersInv.
LEMMA AnswersStep ==
    ASSUME TypeOK, ControlInv, RequestInv, AnswersInv, [Next]_vars
    PROVE  AnswersInv'
<1>1. CASE Failing
  <2>1. Failing' /\ UNCHANGED transcript
    BY <1>1, FailingLasts
  <2> QED
    BY <2>1 DEF AnswersInv, Own
<1>2. CASE UNCHANGED transcript /\ ~Failing
  BY <1>2 DEF AnswersInv, Own
<1>3. ASSUME ~Failing, NEW e \in {"request", "response"} \X Tags,
             transcript' = Append(transcript, e),
             \/ e[1] = "request"
             \/ Len(transcript) > 0 /\ transcript[Len(transcript)] = <<"request", e[2]>>
             \/ Failing'
      PROVE  AnswersInv'
  <2>1. PICK n \in Nat : n = Len(transcript)
    BY DEF TypeOK
  <2>2. /\ Len(transcript') = n + 1 /\ transcript'[n + 1] = e
        /\ \A i \in 1..n : transcript'[i] = transcript[i]
    BY <1>3, <2>1, AppendProperties DEF TypeOK
  <2>3. \A i \in 1..n : Own(i)
    BY <1>3, <2>1 DEF AnswersInv
  <2>4. ASSUME NEW i \in 1..n PROVE Own(i)'
    <3>1. transcript'[i] = transcript[i] /\ (i > 1 => transcript'[i - 1] = transcript[i - 1])
      BY <2>1, <2>2
    <3> QED
      BY <2>3, <3>1 DEF Own
  <2>5. Own(n + 1)' \/ Failing'
    <3>1. CASE e[1] = "request"
      BY <2>2, <3>1 DEF Own
    <3>2. CASE Len(transcript) > 0 /\ transcript[Len(transcript)] = <<"request", e[2]>>
      <4>1. n > 0 /\ transcript'[n] = <<"request", e[2]>> /\ n + 1 > 1 /\ (n + 1) - 1 = n
        BY <2>1, <2>2, <3>2
      <4> QED
        BY <2>2, <4>1 DEF Own
    <3> QED
      BY <1>3, <3>1, <3>2
  <2>6. \A i \in 1..(n + 1) : i \in 1..n \/ i = n + 1
    BY <2>1
  <2> QED
    BY <2>2, <2>4, <2>5, <2>6 DEF AnswersInv
<1> QED
  BY <1>1, <1>2, <1>3, Additions

-----------------------------------------------------------------------------
(* The inductive invariant and what it implies. *)

LEMMA InitInv == Init => IndInv
<1> USE LanePlanAssumption
<1> SUFFICES ASSUME Init PROVE IndInv
  OBVIOUS
<1>1. TypeOK
  <2>1. responses \in Seq([label : Tags, body : Texts])
          /\ transcript \in Seq({"request", "response"} \X Tags)
    BY EmptySeq DEF Init
  <2>2. lane \in Lanes /\ case \in Cases /\ step \in Steps /\ executed \in Nat
    BY DEF Init, Cases, Steps
  <2> QED
    BY <2>1, <2>2 DEF Init, TypeOK, Running, Artifacts
<1>2. ControlInv /\ ProcessInv /\ CollectorInv /\ PlanInv /\ RequestInv
  BY DEF Init, ControlInv, ProcessInv, CollectorInv, PlanInv, RequestInv, Running, Leaving
<1>3. Len(transcript) = 0
  BY DEF Init
<1>4. TranscriptInv
  <2>1. Exchange = 1 /\ waiting = FALSE
    BY DEF Init, Exchange
  <2> QED
    BY <1>3, <2>1 DEF TranscriptInv
<1>5. AnswersInv
  BY <1>3 DEF AnswersInv
<1> QED
  BY <1>1, <1>2, <1>4, <1>5 DEF IndInv

LEMMA StepInv == IndInv /\ [Next]_vars => IndInv'
<1> SUFFICES ASSUME IndInv, [Next]_vars PROVE IndInv'
  OBVIOUS
<1>1. /\ TypeOK /\ ControlInv /\ ProcessInv /\ CollectorInv /\ PlanInv /\ RequestInv
      /\ TranscriptInv /\ AnswersInv
  BY DEF IndInv
<1>2. TypeOK' /\ ControlInv' /\ ProcessInv' /\ CollectorInv'
  BY <1>1, TypeStep, ControlStep, ProcessStep, CollectorStep
<1>3. PlanInv' /\ RequestInv' /\ TranscriptInv' /\ AnswersInv'
  BY <1>1, PlanStep, RequestStep, TranscriptStep, AnswersStep
<1> QED
  BY <1>2, <1>3 DEF IndInv

\* Every reachable state of a lane satisfies the inductive invariant.
THEOREM Invariance == Spec => []IndInv
BY InitInv, StepInv, PTL DEF Spec

\* Every variable keeps its type, whatever the subject writes: the queue holds
\* well-formed lines and the transcript well-formed entries.
THEOREM TypeCorrect == Spec => []TypeOK
<1>1. IndInv => TypeOK
  BY DEF IndInv
<1> QED
  BY <1>1, Invariance, PTL

\* A collector runs only beside the steps of its case, and a sampler that will
\* not stop or a subject that outlives SIGKILL never ends in a measured or merely
\* unavailable lane (the finally clause of EvidenceLaneRunner.run, __exit__).
THEOREM NothingOutlives == Spec => []NothingLeftRunning
<1>1. IndInv => NothingLeftRunning
  <2> SUFFICES ASSUME ControlInv, ProcessInv, CollectorInv PROVE NothingLeftRunning
    BY DEF IndInv
  <2>1. collector = "stuck" => result \in {"none", "contract_failed", "infrastructure_failed"}
    BY DEF CollectorInv, ControlInv
  <2>2. result # "none" /\ proc = "running" => result = "infrastructure_failed"
    BY DEF ControlInv, ProcessInv
  <2> QED
    BY <2>1, <2>2 DEF NothingLeftRunning, CollectorInv
<1> QED
  BY <1>1, Invariance, PTL

\* Every response in a transcript answers the request before it, except the last
\* one of a lane that fails for it (SubjectSession.request).
THEOREM OwnAnswers == Spec => []AnswersAreOwn
<1>1. IndInv => AnswersAreOwn
  <2> SUFFICES ASSUME TypeOK, ControlInv, AnswersInv PROVE AnswersAreOwn
    BY DEF IndInv
  <2>1. DOMAIN transcript = 1..Len(transcript)
    BY DEF TypeOK
  <2>2. Failing => /\ "contract" \in {caseError, err} \/ result # "none"
                   /\ result \in {"none", "contract_failed", "infrastructure_failed"}
    BY DEF Failing, ControlInv
  <2> QED
    BY <2>1, <2>2 DEF AnswersInv, AnswersAreOwn, Own
<1> QED
  BY <1>1, Invariance, PTL

\* A lane reported passed or gate_failed has the whole transcript of its plan in
\* order, every case executed, the required artifact, no collector that failed
\* or is left, and a subject that exited zero (EvidenceLaneRunner.run, finish).
THEOREM MeasuredIsComplete == Spec => []MeasuredLaneIsComplete
<1>1. IndInv => MeasuredLaneIsComplete
  <2> SUFFICES ASSUME IndInv, result \in {"passed", "gate_failed"}
               PROVE  /\ transcript = FullTranscript
                      /\ executed = CaseCount /\ artifact # "none"
                      /\ ~collectorFailed /\ collector = "off" /\ proc = "exit0"
    BY DEF MeasuredLaneIsComplete
  <2>1. /\ TypeOK /\ ControlInv /\ CollectorInv /\ PlanInv /\ RequestInv /\ TranscriptInv
    BY DEF IndInv
  <2>2. pc = "done" /\ err = "none" /\ verdict \in {"passed", "gate_failed"}
    BY <2>1 DEF ControlInv
  <2>3. executed = CaseCount /\ artifact # "none"
    BY <2>1, <2>2 DEF PlanInv
  <2>4. ~collectorFailed /\ collector = "off" /\ proc = "exit0"
    BY <2>1, <2>2 DEF CollectorInv, ControlInv, TypeOK, Leaving
  <2>5. Sound /\ waiting = FALSE
    BY <2>1, <2>2 DEF Sound, ControlInv, RequestInv, Requests, TypeOK
  <2>6. Exchange = Base(CaseCount + 1) + 3
    BY <2>2 DEF Exchange
  <2> DEFINE n == 2 * (CaseCount * (StepCount + 2) + 2)
  <2>7. Len(transcript) = n /\ n \in Nat
    <3>1. /\ Len(transcript) = 2 * (Exchange - 1) + 0
          /\ Base(CaseCount + 1) = CaseCount * (StepCount + 2) /\ Base(CaseCount + 1) \in Nat
      BY <2>1, <2>5, Bases DEF TranscriptInv
    <3> QED
      BY <2>6, <3>1
  <2> HIDE DEF n
  <2>8. \A i \in 1..n : transcript[i] = PlanEntry(i)
    BY <2>1, <2>5, <2>7 DEF TranscriptInv
  <2>9. FullTranscript = [i \in 1..n |-> PlanEntry(i)]
    BY DEF FullTranscript, PlanEntry, n
  <2>10. transcript = [i \in 1..n |-> transcript[i]]
    BY <2>1, <2>7 DEF TypeOK
  <2> QED
    BY <2>3, <2>4, <2>8, <2>9, <2>10
<1> QED
  BY <1>1, Invariance, PTL
=============================================================================
