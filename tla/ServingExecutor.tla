---------------------------- MODULE ServingExecutor ----------------------------
(***************************************************************************)
(* One run of CommonServingExecutor on a campaign cell: the warmups, then   *)
(* the measured requests one after another, in a pool of fixed width, or at *)
(* their planned times in a pool as wide as the trial, each request one     *)
(* OpenAIHTTPClient.complete over a connection of its own; then the trial's *)
(* metrics.  The server decides what it answers and when.  Time is counted  *)
(* per request, in pieces the server has sent.                              *)
(***************************************************************************)
EXTENDS StreamDialect

CONSTANTS
    Plans,      \* the cells: scenario and the server's script
    ReadSize,   \* pieces that fill response.read(16 * 1024)
    MaxRequests \* bound of the requests of a cell, warmups included

ASSUME PlansAssumption ==
    /\ ReadSize \in Nat \ {0} /\ MaxRequests \in Nat
    /\ \A p \in Plans :
          /\ p.mode \in {"sequential", "closed_loop", "open_loop"}
          /\ p.authority \in {"server_usage", "benchmark_tokenizer", "both"}
          /\ p.dialect \in {"strict_v1", "mlx_lm_0_31"}
          /\ {p.count, p.concurrency} \subseteq Nat \ {0} /\ p.warmups \in Nat
          /\ p.warmups + p.count <= MaxRequests
          /\ p.script \in Seq(SUBSET Pieces)

VARIABLES
    plan,      \* the cell being run
    phase,     \* warmup | measured | returned | raised
    pc,        \* per request: idle | queued | asked | reading | done | raised
    sent,      \* per request: the pieces the server has sent
    eof,       \* requests whose server has closed the connection
    broken,    \* requests whose connection broke, or whose text has no count
    taken,     \* per request: pieces read
    parser,    \* per request: its SSEParser
    obs,       \* per request: its RequestObservation
    trial      \* the metrics returned

reqVars == <<pc, sent, eof, broken, taken, parser, obs>>
vars == <<plan, phase, reqVars, trial>>

\* Requests in the order they are made: the warmups, then the measured ones.
Warmup   == 1..plan.warmups
Measured == (plan.warmups + 1)..(plan.warmups + plan.count)
Requests == 1..MaxRequests

Ended == {"done", "raised"}
InFlight == {r \in Requests : pc[r] \in {"asked", "reading"}}

\* max_workers of the pool; a sequential run and the warmups use none.
Workers ==
    CASE phase = "measured" /\ plan.mode = "open_loop" -> plan.count
      [] phase = "measured" /\ plan.mode = "closed_loop" ->
            IF plan.concurrency < plan.count THEN plan.concurrency ELSE plan.count
      [] OTHER -> 1

Init ==
    /\ plan \in Plans
    /\ phase = IF plan.warmups > 0 THEN "warmup" ELSE "measured"
    /\ pc = [r \in Requests |-> "idle"]
    /\ sent = [r \in Requests |-> <<>>] /\ eof = {} /\ broken = {}
    /\ taken = [r \in Requests |-> 0]
    /\ parser = [r \in Requests |-> NewParser]
    /\ obs = [r \in Requests |-> failed_observation("unanswered")]
    /\ trial = [offered |-> 0]

-----------------------------------------------------------------------------
(* The executor's thread *)

\* The next request of the phase is handed over: a pool takes them all, in
\* order; without one the thread makes it itself once the last has ended well.
Submit(r) ==
    /\ r \in IF phase = "warmup" THEN Warmup ELSE Measured
    /\ phase \in {"warmup", "measured"} /\ pc[r] = "idle"
    /\ \A q \in Requests : q < r => pc[q] # "idle"
    /\ phase = "warmup" \/ plan.mode = "sequential" =>
          \A q \in Requests : q < r => pc[q] = "done"
    /\ phase = "warmup" => \A q \in Warmup : q < r => obs[q].wire
    /\ pc' = [pc EXCEPT ![r] = "queued"]
    /\ UNCHANGED <<plan, phase, sent, eof, broken, taken, parser, obs, trial>>

\* A warmup that is not complete on the wire, or that raised, ends the run.
LeaveWarmup ==
    /\ phase = "warmup"
    /\ \/ /\ \E r \in Warmup : pc[r] \in Ended /\ (pc[r] = "raised" \/ ~obs[r].wire)
          /\ phase' = "raised"
       \/ /\ \A r \in Warmup : pc[r] = "done" /\ obs[r].wire
          /\ phase' = "measured"
    /\ UNCHANGED <<plan, reqVars, trial>>

Total(f, S) == FoldFunctionOnSet(+, 0, f, S)

\* Mutation: the tokens of failed requests count, if they got an answer.
reduce_trial_AllTokens ==
    LET classes == [r \in Measured |-> error_classes(obs[r], plan.authority)]
        valid == {r \in Measured : completion_valid(obs[r], plan.authority)}
        wired == {r \in Measured : obs[r].wire}
    IN  [offered |-> plan.count,
         valid |-> Cardinality(valid),
         failed |-> plan.count - Cardinality(valid),
         good |-> Cardinality({r \in Measured : slo_satisfied(obs[r], plan.authority, plan.slo)}),
         tokens |-> Total([r \in wired |-> canonical_output(obs[r], plan.authority)], wired),
         errors |-> [c \in UNION {classes[r] : r \in Measured} |->
                        Cardinality({r \in Measured : c \in classes[r]})]]

\* reduce_trial_metrics
reduce_trial ==
    LET classes == [r \in Measured |-> error_classes(obs[r], plan.authority)]
        valid == {r \in Measured : completion_valid(obs[r], plan.authority)}
    IN  [offered |-> plan.count,
         valid |-> Cardinality(valid),
         failed |-> plan.count - Cardinality(valid),
         good |-> Cardinality({r \in Measured : slo_satisfied(obs[r], plan.authority, plan.slo)}),
         tokens |-> Total([r \in valid |-> canonical_output(obs[r], plan.authority)], valid),
         errors |-> [c \in UNION {classes[r] : r \in Measured} |->
                        Cardinality({r \in Measured : c \in classes[r]})]]

\* Mutation: the pool is left at the first error.
Joined_FirstError ==
    \/ \A r \in Measured : pc[r] \in Ended
    \/ \E r \in Measured : pc[r] = "raised"

\* The thread is done with its requests: sequentially at the first that raised,
\* with a pool when the pool has been joined.
Joined ==
    \/ \A r \in Measured : pc[r] \in Ended
    \/ plan.mode = "sequential" /\ \E r \in Measured : pc[r] = "raised"

Collect ==
    /\ phase = "measured" /\ Joined
    /\ \/ /\ \E r \in Measured : pc[r] = "raised"
          /\ phase' = "raised" /\ UNCHANGED trial
       \/ /\ \A r \in Measured : pc[r] = "done"
          /\ phase' = "returned" /\ trial' = reduce_trial
    /\ UNCHANGED <<plan, reqVars>>

-----------------------------------------------------------------------------
(* One request *)

\* A worker takes the oldest queued request: the prompt and its token count
\* come before the try, so that their failure is the request's; then complete
\* connects and sends it.
Start(r) ==
    /\ pc[r] = "queued" /\ Cardinality(InFlight) < Workers
    /\ \A q \in Requests : q < r => pc[q] # "queued"
    /\ pc' = [pc EXCEPT ![r] = "asked"]
    /\ UNCHANGED <<plan, phase, sent, eof, broken, taken, parser, obs, trial>>

PromptFails(r) ==
    /\ plan.prompt_fails
    /\ pc[r] = "queued" /\ Cardinality(InFlight) < Workers
    /\ \A q \in Requests : q < r => pc[q] # "queued"
    /\ pc' = [pc EXCEPT ![r] = "raised"]
    /\ UNCHANGED <<plan, phase, sent, eof, broken, taken, parser, obs, trial>>

\* The except clause of _request: a warmup keeps the failed observation, a
\* measured request also reduces it, which may itself raise.
Fail(r, error) ==
    /\ obs' = [obs EXCEPT ![r] = failed_observation(error)]
    /\ pc' = [pc EXCEPT ![r] =
                IF r \in Measured /\ counts_raise(failed_observation(error), plan.authority)
                THEN "raised" ELSE "done"]

\* Nothing listens, the connection drops, or the head is not the one expected:
\* another HTTP version, status, content type or encoding.
BadHead(r) ==
    /\ pc[r] = "asked" /\ Fail(r, "request_failed")
    /\ UNCHANGED <<plan, phase, sent, eof, broken, taken, parser, trial>>

GoodHead(r) ==
    /\ pc[r] = "asked"
    /\ pc' = [pc EXCEPT ![r] = "reading"]
    /\ UNCHANGED <<plan, phase, sent, eof, broken, taken, parser, obs, trial>>

Buffered(r) == Len(sent[r]) - taken[r]

\* The server's side of the stream: the cell's script names the pieces it may
\* send in each place.
Send(r, k) ==
    /\ pc[r] = "reading" /\ r \notin eof /\ Buffered(r) < ReadSize
    /\ Len(sent[r]) < Len(plan.script) /\ k \in plan.script[Len(sent[r]) + 1]
    /\ sent' = [sent EXCEPT ![r] = Append(@, k)]
    /\ UNCHANGED <<plan, phase, pc, eof, broken, taken, parser, obs, trial>>

Close(r) ==
    /\ pc[r] = "reading" /\ r \notin eof
    /\ eof' = eof \cup {r}
    /\ UNCHANGED <<plan, phase, pc, sent, broken, taken, parser, obs, trial>>

\* response.read returns when it has all it asked for, or at the end.
Read(r) ==
    LET chunk == SubSeq(sent[r], taken[r] + 1, Len(sent[r]))
        fed == feed(parser[r], chunk, Len(sent[r]), plan.dialect, Len(sent[r]))
    IN  /\ pc[r] = "reading" /\ Buffered(r) > 0
        /\ Buffered(r) = ReadSize \/ r \in eof
        /\ taken' = [taken EXCEPT ![r] = Len(sent[r])]
        /\ parser' = [parser EXCEPT ![r] = fed]
        /\ IF fed.refused THEN Fail(r, "request_failed") ELSE UNCHANGED <<pc, obs>>
        /\ UNCHANGED <<plan, phase, sent, eof, broken, trial>>

\* The empty read: finish, the token count of the visible text, the metrics.
Finish(r) ==
    LET o == completed(parser[r])
    IN  /\ pc[r] = "reading" /\ r \in eof /\ Buffered(r) = 0
        /\ IF ~finish(parser[r]) THEN Fail(r, "request_failed")
           ELSE IF r \in Measured /\ counts_raise(o, plan.authority)
                THEN Fail(r, "token_count_disagreement")
           ELSE /\ obs' = [obs EXCEPT ![r] = o]
                /\ pc' = [pc EXCEPT ![r] = "done"]
        /\ UNCHANGED <<plan, phase, sent, eof, broken, taken, parser, trial>>

\* In the middle of a body the connection is reset, or ends inside a chunk of
\* it (IncompleteRead): what the client had not read is lost.
ConnectionBreaks(r) ==
    /\ pc[r] = "reading" /\ r \notin eof
    /\ Fail(r, "request_failed")
    /\ broken' = broken \cup {r}
    /\ UNCHANGED <<plan, phase, sent, eof, taken, parser, trial>>

\* The token counter raises on the visible text of a whole response.
CountFails(r) ==
    /\ pc[r] = "reading" /\ r \in eof /\ Buffered(r) = 0 /\ finish(parser[r])
    /\ Fail(r, "request_failed")
    /\ broken' = broken \cup {r}
    /\ UNCHANGED <<plan, phase, sent, eof, taken, parser, trial>>

\* Mutation: only the response head has a deadline.
Timeout_HeadOnly(r) ==
    /\ pc[r] = "asked" /\ Fail(r, "timeout")
    /\ UNCHANGED <<plan, phase, sent, eof, broken, taken, parser, trial>>

\* The socket's timeout, while the client waits for the head or for more.
Timeout(r) ==
    /\ \/ pc[r] = "asked"
       \/ pc[r] = "reading" /\ r \notin eof /\ Buffered(r) < ReadSize
    /\ Fail(r, "timeout")
    /\ UNCHANGED <<plan, phase, sent, eof, broken, taken, parser, trial>>

Client(r) == Submit(r) \/ Start(r) \/ Read(r) \/ Finish(r) \/ Timeout(r)

Next ==
    \/ LeaveWarmup \/ Collect
    \/ \E r \in Requests :
          \/ Submit(r) \/ Start(r) \/ PromptFails(r) \/ BadHead(r) \/ GoodHead(r)
          \/ Close(r) \/ Read(r) \/ Finish(r) \/ Timeout(r)
          \/ ConnectionBreaks(r) \/ CountFails(r)
          \/ \E k \in Pieces : Send(r, k)

\* The benchmark's own threads run and its socket timeouts expire; the server
\* need do nothing.
Fairness ==
    /\ WF_vars(LeaveWarmup) /\ WF_vars(Collect)
    /\ \A r \in Requests : WF_vars(Client(r))

Spec == Init /\ [][Next]_vars /\ Fairness

-----------------------------------------------------------------------------
(* Properties *)

Verdict(r) == obs[r].error

\* The incremental parser and the grammar of the dialect agree: a stream read
\* to its end is accepted exactly when it is a response of the dialect, and one
\* refused on the way is the beginning of none, if neither the connection nor
\* the token counter failed.
AcceptsTheDialect ==
    \A r \in Requests \ broken : pc[r] \in Ended /\ taken[r] > 0 /\ taken[r] = Len(sent[r]) =>
        /\ r \in eof /\ Verdict(r) # "timeout" =>
              (Grammar(sent[r], plan.dialect) <=>
                  Verdict(r) \in {None, "token_count_disagreement"})
        /\ r \notin eof /\ Verdict(r) = "request_failed" => ~Viable(sent[r], plan.dialect)

Contents(r) == Cardinality({i \in DOMAIN sent[r] : sent[r][i] = "content"})

\* A request counted as a valid completion was a whole response of the dialect
\* with the required output by the authority's count (by both counts, and with
\* the same input, where both decide), ended by its length or, stopped, with the
\* server's count in full; no timeout, reset or failing tokenizer ended it.
ValidIsEarned ==
    phase = "returned" =>
        trial.valid =
            Cardinality({r \in Measured \ broken :
                /\ r \in eof /\ taken[r] = Len(sent[r]) /\ Verdict(r) # "timeout"
                /\ Grammar(sent[r], plan.dialect) /\ Contents(r) > 0
                /\ LET reports(k) == k \in ToSet(sent[r])
                   IN  /\ plan.authority # "server_usage" => Contents(r) = Required
                       /\ plan.authority = "server_usage" => ~reports("usage_short")
                       /\ plan.authority = "both" => reports("usage")
                       /\ \/ reports("length") \/ reports("length_role")
                          \/ reports("stop") /\ ~reports("usage_short")})

\* Every planned arrival is in the trial once, as a valid completion or under an
\* error class, and only valid completions count towards tokens and goodput.
TrialReconciles ==
    phase = "returned" =>
        /\ trial.offered = Cardinality({r \in Measured : pc[r] = "done"})
        /\ trial.valid + trial.failed = trial.offered
        /\ trial.good <= trial.valid
        /\ trial.tokens = trial.valid * Required
        /\ Total(trial.errors, DOMAIN trial.errors) >= trial.failed
        /\ \A c \in DOMAIN trial.errors : trial.errors[c] <= trial.failed

\* When run returns or raises, the cell has no request left in flight or queued
\* that could load the server during the next cell.
NothingOutlivesRun ==
    phase \in {"returned", "raised"} =>
        \A r \in Requests : pc[r] \in Ended \cup {"idle"}

\* The run ends whatever the server does.
RunEnds == <>(phase \in {"returned", "raised"})
=============================================================================
