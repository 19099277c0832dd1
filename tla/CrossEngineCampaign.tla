------------------------ MODULE CrossEngineCampaign ------------------------
(***************************************************************************)
(* CrossEngineController.run over a frozen campaign, with the AttemptLedger *)
(* it writes and the publication the CLI derives from it.  Cells are the    *)
(* ordinals of campaign.cells.  One attempt (_run_attempt, the subject of   *)
(* EngineLifecycle) is a step that launches it and one that ends it.        *)
(*                                                                         *)
(* An append can fail before it writes, after a short write, or in fsync    *)
(* after the whole line is in the file; only a successful one reaches the   *)
(* in-memory records.  attempts.jsonl is kept as its lines: a record, a     *)
(* fragment without newline at the end, or a garbled line (a fragment with  *)
(* another record written onto it).                                         *)
(***************************************************************************)
EXTENDS Integers, Sequences, FiniteSets

CONSTANTS
    CellCount,       \* len(campaign.cells)
    Limit,           \* max_attempts_per_cell
    Reasons,         \* reason codes an attempt can end with
    Frozen,          \* retryable_reason_codes of the campaign
    MandatoryCaps,   \* MANDATORY_COMMON_CAPABILITIES: capabilities 1..MandatoryCaps
    CapCount         \* the others, up to CapCount, are required by the cells

ASSUME CampaignAssumption ==
    /\ CellCount \in Nat \ {0}
    /\ Limit \in Nat \ {0}
    /\ Frozen \subseteq Reasons
    /\ "cell_execution_failed" \in Reasons
    /\ MandatoryCaps \in Nat /\ CapCount \in Nat /\ MandatoryCaps <= CapCount

Cells == 1..CellCount
Caps  == 1..CapCount
None  == -1

RetryableStatuses == {"contract_invalid", "environment_invalid"}
Statuses == RetryableStatuses \cup {"completed", "runtime_error"}

VARIABLES
    pc,
    cell,       \* the cell the loop is at
    retryOf,    \* local retry_of
    reason,     \* local reason
    ending,     \* how the attempt ended: what the next append records
    records,    \* AttemptLedger._records
    file,       \* the lines of attempts.jsonl
    roots,      \* state roots created, as <<ordinal, cell>>
    results,    \* per cell: its CellResult, as a set of at most one
    cause,      \* why run() raised, or "none"
    published   \* the statuses published, as a set of at most one

localVars  == <<retryOf, reason, ending>>
ledgerVars == <<records, file>>
vars == <<pc, cell, localVars, ledgerVars, roots, results, cause, published>>

-----------------------------------------------------------------------------
(* Preflight. *)

Observations ==
    [applicable : BOOLEAN, environment : BOOLEAN, profile : BOOLEAN,
     declared : SUBSET Caps, probed : [Caps -> {"missing", "no", "yes"}]]

Decision(contract, capability) == [contract |-> contract, capability |-> capability]

\* decide_preflight: the first capability, mandatory ones before the cell's
\* own, that is undeclared or not confirmed by the probe decides.
DecidePreflight(o) ==
    LET bad == {k \in Caps : k \notin o.declared \/ o.probed[k] # "yes"}
        first == CHOOSE k \in bad : \A j \in bad : k <= j
    IN CASE ~o.applicable -> Decision("valid", "not_applicable")
         [] o.applicable /\ ~o.environment -> Decision("valid", "environment_unavailable")
         [] o.applicable /\ o.environment /\ ~o.profile ->
              Decision("valid", "profile_incompatible")
         [] o.applicable /\ o.environment /\ o.profile ->
              IF bad = {} THEN Decision("valid", "supported")
              ELSE IF first \in o.declared THEN Decision("invalid", "supported")
              ELSE IF first <= MandatoryCaps THEN Decision("valid", "profile_incompatible")
              ELSE Decision("valid", "capability_unsupported")

-----------------------------------------------------------------------------
(* The attempt ledger. *)

\* records_for and primary_attempt over a sequence of records: the first
\* eligible record of the cell, by its 0-based ordinal.
RecordsFor(rs, c) == {i \in 1..Len(rs) : rs[i].cell = c}
EligibleFor(rs, c) == {i \in RecordsFor(rs, c) : rs[i].eligible}
PrimaryAttempt(rs, c) ==
    IF EligibleFor(rs, c) = {} THEN None
    ELSE (CHOOSE i \in EligibleFor(rs, c) : \A j \in EligibleFor(rs, c) : i <= j) - 1

Retryable(e) == e.status \in RetryableStatuses /\ e.reason \in Frozen

\* Mutation: one retry more than the limit.
CanRetryBeyondLimit(rs, e) ==
    /\ Retryable(e)
    /\ Cardinality(RecordsFor(rs, e.cell)) <= Limit
    /\ PrimaryAttempt(rs, e.cell) = None

CanRetry(rs, e) ==
    /\ Retryable(e)
    /\ Cardinality(RecordsFor(rs, e.cell)) < Limit
    /\ PrimaryAttempt(rs, e.cell) = None

LastFor(rs, c) == CHOOSE i \in RecordsFor(rs, c) : \A j \in RecordsFor(rs, c) : j <= i

\* append's admission of a new record of the cell.
Admits(c) ==
    IF RecordsFor(records, c) = {} THEN retryOf = None
    ELSE /\ CanRetry(records, records[LastFor(records, c)])
         /\ retryOf = LastFor(records, c) - 1

NewRecord ==
    [ordinal |-> Len(records), cell |-> cell, status |-> ending.status,
     reason |-> ending.reason, retryOf |-> retryOf, eligible |-> ~Retryable(ending)]

\* One write at the end of the file; a preceding fragment spoils the line.
Written(kind) ==
    LET fragment == [kind |-> "fragment", record |-> {}]
        ragged == file # <<>> /\ file[Len(file)] = fragment
    IN IF kind = "fragment"
         THEN IF ragged THEN file ELSE Append(file, fragment)
         ELSE IF ragged
                THEN [file EXCEPT ![Len(file)] = [kind |-> "garbled", record |-> {}]]
                ELSE Append(file, [kind |-> "record", record |-> {NewRecord}])

-----------------------------------------------------------------------------
Init ==
    /\ pc = "preflight" /\ cell = 1
    /\ retryOf = None /\ reason = "none" /\ ending = [status |-> "none", reason |-> "none"]
    /\ records = <<>> /\ file = <<>> /\ roots = {}
    /\ results = [c \in Cells |-> {}]
    /\ cause = "none" /\ published = {}

NextCell ==
    IF cell < CellCount THEN cell' = cell + 1 /\ pc' = "preflight"
    ELSE cell' = cell /\ pc' = "returned"

\* The probe's answer admits the cell, or is its result.
Preflight(o) ==
    /\ pc = "preflight"
    /\ LET d == DecidePreflight(o) IN
         IF d = Decision("valid", "supported")
           THEN /\ retryOf' = None /\ reason' = "none"
                /\ ending' = [status |-> "none", reason |-> "none"]
                /\ pc' = "launch"
                /\ UNCHANGED <<cell, results>>
           ELSE /\ results' = [results EXCEPT ![cell] =
                     {[contract |-> d.contract, capability |-> d.capability,
                       execution |-> "not_started", primary |-> None, reason |-> "preflight"]}]
                /\ NextCell
                /\ UNCHANGED localVars
    /\ UNCHANGED <<ledgerVars, roots, cause, published>>

Ends(status, code) ==
    /\ ending' = [status |-> status, reason |-> code]
    /\ pc' = "append"

\* Mutation: state roots are numbered by a launch counter of their own.
LaunchCounted ==
    /\ pc = "launch"
    /\ roots' = roots \cup {<<Cardinality(roots), cell>>}
    /\ pc' = "running"
    /\ UNCHANGED <<cell, localVars, ledgerVars, results, cause, published>>

\* _run_attempt creates its own state root, named by the ledger's length.
Launch ==
    /\ pc = "launch"
    /\ IF Len(records) \in {r[1] : r \in roots}
         THEN Ends("runtime_error", "cell_execution_failed") /\ UNCHANGED roots
         ELSE /\ roots' = roots \cup {<<Len(records), cell>>}
              /\ pc' = "running"
              /\ UNCHANGED ending
    /\ UNCHANGED <<cell, retryOf, reason, ledgerVars, results, cause, published>>

\* resolve_target_adapter or the state root's parent fails before the launch.
LaunchRaises ==
    /\ pc = "launch"
    /\ Ends("runtime_error", "cell_execution_failed")
    /\ UNCHANGED <<cell, retryOf, reason, ledgerVars, roots, results, cause, published>>

\* The attempt returns, raises RetryableAttemptError, or raises otherwise.
AttemptEnds(status, code) ==
    /\ pc = "running"
    /\ \/ status = "completed" /\ code = "none"
       \/ status \in RetryableStatuses /\ code \in Reasons
       \/ status = "runtime_error" /\ code = "cell_execution_failed"
    /\ Ends(status, code)
    /\ UNCHANGED <<cell, retryOf, reason, ledgerVars, roots, results, cause, published>>

\* A successful append and what its branch of run() does next.
AppendRecord ==
    /\ pc = "append" /\ Admits(cell)
    /\ records' = Append(records, NewRecord)
    /\ file' = Written("record")
    /\ reason' = IF ending.status = "completed" THEN reason ELSE ending.reason
    /\ IF CanRetry(records', NewRecord)
         THEN retryOf' = Len(records) /\ pc' = "launch"
         ELSE retryOf' = retryOf /\ pc' = "result"
    /\ UNCHANGED <<cell, ending, roots, results, cause, published>>

\* Mutation: a failed append is swallowed and the outcome kept.
AppendRaisesSwallowed(why) == pc' = "result" /\ UNCHANGED <<ending, cause>>

\* append raises.  After a completed attempt `except Exception' appends once
\* more, as a runtime error; an exception in a handler leaves run().
AppendRaises(why) ==
    IF ending.status = "completed"
      THEN Ends("runtime_error", "cell_execution_failed") /\ UNCHANGED cause
      ELSE pc' = "raised" /\ cause' = why /\ UNCHANGED ending

\* The ledger refuses the record before it opens the file, or the open, the
\* write or the fsync fails.
AppendFails(effect) ==
    /\ pc = "append"
    /\ Admits(cell) \/ effect = "nothing"
    /\ file' = CASE effect = "nothing" -> file
                 [] effect = "short" -> Written("fragment")
                 [] effect = "unsynced" -> Written("record")
    /\ AppendRaises(IF Admits(cell) THEN "io" ELSE "refused")
    /\ UNCHANGED <<cell, retryOf, reason, records, roots, results, published>>

\* Mutation: the last attempt is reported as the primary one.
RecordResultOfLast ==
    /\ pc = "result"
    /\ results' = [results EXCEPT ![cell] =
         {[contract |-> "valid", capability |-> "supported",
           execution |-> IF ending.status = "completed" THEN "completed"
                         ELSE "infrastructure_failed",
           primary |-> Len(records) - 1, reason |-> reason]}]
    /\ NextCell
    /\ UNCHANGED <<localVars, ledgerVars, roots, cause, published>>

\* After the retry loop: one CellResult per cell.
RecordResult ==
    /\ pc = "result"
    /\ results' = [results EXCEPT ![cell] =
         {[contract |-> IF ending.status = "contract_invalid" THEN "invalid" ELSE "valid",
           capability |-> "supported",
           execution |-> IF ending.status = "completed" THEN "completed"
                         ELSE "infrastructure_failed",
           primary |-> PrimaryAttempt(records, cell), reason |-> reason]}]
    /\ NextCell
    /\ UNCHANGED <<localVars, ledgerVars, roots, cause, published>>

\* The probe raises, or the operator interrupts the run: nothing catches it.
Interrupted(why) ==
    /\ \/ pc = "preflight" /\ why = "probe"
       \/ pc \notin {"returned", "raised", "published"} /\ why = "interrupt"
    /\ pc' = "raised" /\ cause' = why
    /\ UNCHANGED <<cell, localVars, ledgerVars, roots, results, published>>

-----------------------------------------------------------------------------
(* The publication. *)

Completed(c) == \E r \in results[c] : r.execution = "completed"

\* _execute_serving_publication after run(): the report's status axes.  The
\* requests that failed and the goodput are those of the completed cells.
Publish(requestsFailed, goodput) ==
    /\ pc = "returned"
    /\ (\A c \in Cells : ~Completed(c)) => ~requestsFailed /\ ~goodput
    /\ LET all == \A c \in Cells : Completed(c)
           evidence == IF all /\ ~requestsFailed THEN "publishable" ELSE "not_publishable"
       IN published' =
            {[contract |-> "valid", capability |-> "supported",
              execution |-> IF all THEN "completed" ELSE "partial",
              evidence |-> evidence,
              promotion |-> IF evidence # "publishable" THEN "not_evaluated"
                            ELSE IF goodput THEN "passed" ELSE "failed"]}
    /\ pc' = "published"
    /\ UNCHANGED <<cell, localVars, ledgerVars, roots, results, cause>>

Terminated == pc \in {"published", "raised"} /\ UNCHANGED vars

RunStep ==
    \/ \E o \in Observations : Preflight(o)
    \/ Launch \/ LaunchRaises
    \/ \E status \in Statuses, code \in Reasons \cup {"none"} : AttemptEnds(status, code)
    \/ AppendRecord
    \/ \E effect \in {"nothing", "short", "unsynced"} : AppendFails(effect)
    \/ RecordResult
    \/ \E requestsFailed \in BOOLEAN, goodput \in BOOLEAN : Publish(requestsFailed, goodput)

Next ==
    \/ RunStep
    \/ \E why \in {"probe", "interrupt"} : Interrupted(why)
    \/ Terminated

\* run() is one thread; every attempt ends (EngineLifecycle!AttemptsEnd).
Spec == Init /\ [][Next]_vars /\ WF_vars(RunStep)

-----------------------------------------------------------------------------
(* Properties. *)

\* The ledger keeps the custody its docstring promises: ordinals without gap,
\* at most Limit attempts of a cell, and a primary that, once an eligible
\* attempt is recorded, no later attempt, failed append or retry displaces.
Custody ==
    INSTANCE AttemptCustody WITH
        next <- Len(records),
        tries <- [c \in Cells |-> Cardinality(RecordsFor(records, c))],
        primary <- [c \in Cells |-> PrimaryAttempt(records, c)]
CustodyKept == Custody!Spec

\* Attempts of a cell are linked without a gap, and only a contract- or
\* environment-invalid attempt with a frozen reason is ever followed by
\* another one: a slow, crashed or merely failed attempt is not retried.
RetriesAreFrozen ==
    \A i \in 1..Len(records) :
        LET earlier == {j \in RecordsFor(records, records[i].cell) : j < i} IN
        IF earlier = {} THEN records[i].retryOf = None
        ELSE /\ records[i].retryOf + 1 \in earlier
             /\ \A j \in earlier : j <= records[i].retryOf + 1 /\ Retryable(records[j])

\* Every attempt gets a state root of its own, the ordinal that names the root
\* is the ordinal its record gets, and of all the attempts launched at most the
\* last one, under way or cut off by an interrupt or a failed append, has no
\* record in a ledger that was left behind.
StateRootsNameRecords ==
    /\ pc = "launch" => \A r \in roots : r[1] # Len(records)
    /\ \A r \in roots : r[1] < Len(records) => records[r[1] + 1].cell = r[2]
    /\ \A r \in roots : \/ r[1] < Len(records)
                        \/ r[1] = Len(records) /\ pc \in {"running", "append", "raised"}

\* A CellResult agrees with a ledger of frozen retries: completed exactly when
\* the primary attempt, the last one of the cell, completed; a cell whose
\* retries were used up has no primary, and a cell that was never admitted no
\* attempt.
ResultsMatchLedger ==
    /\ RetriesAreFrozen
    /\ \A c \in Cells : \A r \in results[c] :
           /\ r.primary = PrimaryAttempt(records, c)
           /\ r.execution = "not_started" <=> RecordsFor(records, c) = {}
           /\ r.execution = "completed" <=>
                r.primary # None /\ records[r.primary + 1].status = "completed"
           /\ r.primary # None => r.primary + 1 = LastFor(records, c)
           /\ r.execution = "infrastructure_failed" /\ r.primary = None =>
                Cardinality(RecordsFor(records, c)) = Limit

\* Publishable evidence is backed by the file that is published with it: each
\* planned cell has exactly one readable eligible line, of a completed attempt,
\* whatever appends failed or were torn on the way.
PublishableIsBacked ==
    \A p \in published : p.evidence = "publishable" =>
        \A c \in Cells :
            LET lines == {i \in 1..Len(file) :
                            \E r \in file[i].record : r.cell = c /\ r.eligible}
            IN \E i \in lines : lines = {i} /\ \A r \in file[i].record :
                                r.status = "completed" /\ r.ordinal = PrimaryAttempt(records, c)

\* Every campaign raises or is published with evidence its file backs, however
\* its attempts and appends end.
CampaignEnds == <>(pc = "raised" \/ (pc = "published" /\ PublishableIsBacked))
=============================================================================
