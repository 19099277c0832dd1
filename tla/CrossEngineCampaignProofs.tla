----------------------- MODULE CrossEngineCampaignProofs -----------------------
(***************************************************************************)
(* For any number of cells, attempts per cell, reasons and interrupts: the  *)
(* ledger the controller writes keeps the custody AttemptCustody promises,  *)
(* results and state roots agree with it, its admission check never refuses *)
(* the controller's own append, and publishable evidence is in the file.    *)
(***************************************************************************)
EXTENDS CrossEngineCampaign, FiniteSetTheorems, TLAPS

Codes == Reasons \cup {"none"}
Endings == [status : Statuses \cup {"none"}, reason : Codes]
Record == [ordinal : Nat, cell : Cells, status : Statuses, reason : Codes,
           retryOf : Int, eligible : BOOLEAN]
Line == [kind : {"record", "fragment", "garbled"}, record : SUBSET Record]
Decisions ==
    [contract : {"valid", "invalid"},
     capability : {"supported", "not_applicable", "environment_unavailable",
                   "profile_incompatible", "capability_unsupported"}]
CellResult ==
    [contract : {"valid", "invalid"},
     capability : {"supported", "not_applicable", "environment_unavailable",
                   "profile_incompatible", "capability_unsupported"},
     execution : {"not_started", "completed", "infrastructure_failed"},
     primary : Int, reason : Codes \cup {"preflight"}]

TypeOK ==
    /\ pc \in {"preflight", "launch", "running", "append", "result", "returned", "raised",
               "published"}
    /\ cell \in Cells
    /\ retryOf \in Int /\ reason \in Codes /\ ending \in Endings
    /\ records \in Seq(Record) /\ file \in Seq(Line)
    /\ roots \in SUBSET (Nat \X Cells)
    /\ results \in [Cells -> SUBSET CellResult]

\* A record's ordinal is its position, and it is eligible unless it may be retried.
RecordsAreSound ==
    \A i \in 1..Len(records) :
        /\ records[i].ordinal = i - 1
        /\ records[i].eligible <=> ~Retryable(records[i])

\* The loop has recorded nothing of the cells ahead of it, and while it is in a
\* cell's retry loop the last record, if it is this cell's, is the last of all.
LedgerFollowsLoop ==
    /\ \A i \in 1..Len(records) :
         \/ records[i].cell < cell
         \/ records[i].cell = cell /\ pc # "preflight" /\ records[Len(records)].cell = cell
    /\ \A c \in Cells : results[c] # {} =>
         c < cell \/ (c = cell /\ pc \in {"returned", "raised", "published"})

\* In the retry loop the next record will be admitted.
LoopIsAdmitted == pc \in {"launch", "running", "append"} => Admits(cell)

\* After it, the ending is that of the cell's last record.
EndingIsRecorded ==
    /\ pc \in {"append", "result"} => ending.status \in Statuses
    /\ pc = "result" =>
         LET last == Len(records) IN
         /\ last > 0 /\ records[last].cell = cell
         /\ records[last].status = ending.status /\ records[last].reason = ending.reason
         /\ ~CanRetry(records, records[last])

TriesBounded == \A c \in Cells : Cardinality(RecordsFor(records, c)) <= Limit

\* The root that has no record yet is the current cell's.
LastRootIsCells == \A r \in roots : r[1] = Len(records) => r[2] = cell

OneResult == \A c \in Cells : \A r, s \in results[c] : r = s

LedgerInv == /\ TypeOK /\ RecordsAreSound /\ RetriesAreFrozen /\ LedgerFollowsLoop
             /\ LoopIsAdmitted /\ EndingIsRecorded /\ TriesBounded

\* The file has the ledger's records line by line, or something failed that
\* keeps the campaign from being publishable.
Mirrored == file = [i \in 1..Len(records) |-> [kind |-> "record", record |-> {records[i]}]]
Spoiled == \E c \in Cells : \E r \in results[c] : r.execution # "completed"
FileKept ==
    \/ Mirrored \/ Spoiled \/ pc = "raised"
    \/ pc \in {"append", "result"} /\ ending.status = "runtime_error"

PublishedAtEnd == published # {} => pc = "published"

\* append refuses no record of the controller: an error of the ledger is an error
\* of the file system.
NeverRefused == cause # "refused"

IndInv == /\ LedgerInv /\ StateRootsNameRecords /\ LastRootIsCells
          /\ ResultsMatchLedger /\ OneResult /\ FileKept /\ PublishedAtEnd
          /\ PublishableIsBacked /\ NeverRefused

-----------------------------------------------------------------------------
(* The ledger's queries, and what an append does to them. *)

\* records_for of any ledger is a finite set of positions.
LEMMA RecordsForFinite ==
    ASSUME NEW rs \in Seq(Record), NEW c
    PROVE  /\ RecordsFor(rs, c) \subseteq 1..Len(rs)
           /\ IsFiniteSet(RecordsFor(rs, c))
           /\ Cardinality(RecordsFor(rs, c)) \in Nat
<1>1. RecordsFor(rs, c) \subseteq 1..Len(rs)
  BY DEF RecordsFor
<1>2. IsFiniteSet(1..Len(rs))
  BY FS_Interval
<1>3. IsFiniteSet(RecordsFor(rs, c))
  BY <1>1, <1>2, FS_Subset
<1> QED
  BY <1>1, <1>3, FS_CardinalityType

\* An append adds its position to its own cell and changes no other cell.
LEMMA AppendFor ==
    ASSUME NEW rs \in Seq(Record), NEW e \in Record, NEW c
    PROVE  /\ e.cell # c => /\ RecordsFor(Append(rs, e), c) = RecordsFor(rs, c)
                            /\ EligibleFor(Append(rs, e), c) = EligibleFor(rs, c)
           /\ e.cell = c =>
                /\ RecordsFor(Append(rs, e), c) = RecordsFor(rs, c) \cup {Len(rs) + 1}
                /\ EligibleFor(Append(rs, e), c) =
                     EligibleFor(rs, c) \cup (IF e.eligible THEN {Len(rs) + 1} ELSE {})
<1>1. /\ Len(Append(rs, e)) = Len(rs) + 1
      /\ Append(rs, e)[Len(rs) + 1] = e
      /\ \A i \in 1..Len(rs) : Append(rs, e)[i] = rs[i]
  OBVIOUS
<1>2. 1..Len(Append(rs, e)) = (1..Len(rs)) \cup {Len(rs) + 1}
  BY <1>1
<1> QED
  BY <1>1, <1>2 DEF RecordsFor, EligibleFor

\* Counting after an append.
LEMMA AppendCount ==
    ASSUME NEW rs \in Seq(Record), NEW e \in Record
    PROVE  Cardinality(RecordsFor(Append(rs, e), e.cell))
             = Cardinality(RecordsFor(rs, e.cell)) + 1
<1>1. RecordsFor(Append(rs, e), e.cell) = RecordsFor(rs, e.cell) \cup {Len(rs) + 1}
  BY AppendFor
<1>2. Len(rs) + 1 \notin RecordsFor(rs, e.cell)
  BY RecordsForFinite
<1> QED
  BY <1>1, <1>2, RecordsForFinite, FS_AddElement

\* primary_attempt and the last attempt, where there is one candidate.
LEMMA SolePrimary ==
    ASSUME NEW rs \in Seq(Record), NEW c, NEW i \in Nat, EligibleFor(rs, c) = {i}
    PROVE  PrimaryAttempt(rs, c) = i - 1
BY DEF PrimaryAttempt

LEMMA NoPrimary ==
    ASSUME NEW rs, NEW c, EligibleFor(rs, c) = {}
    PROVE  PrimaryAttempt(rs, c) = None
BY DEF PrimaryAttempt

LEMMA LastOfAll ==
    ASSUME NEW rs \in Seq(Record), NEW c, Len(rs) \in RecordsFor(rs, c)
    PROVE  LastFor(rs, c) = Len(rs)
<1>1. \A j \in RecordsFor(rs, c) : j \in Int /\ j <= Len(rs)
  BY RecordsForFinite
<1> QED
  BY <1>1 DEF LastFor

\* A cell has at most one eligible record: only retryable ones are followed.
LEMMA SoleEligible ==
    ASSUME records \in Seq(Record), RecordsAreSound, RetriesAreFrozen, NEW c,
           NEW i \in EligibleFor(records, c)
    PROVE  EligibleFor(records, c) = {i} /\ PrimaryAttempt(records, c) = i - 1
<1>1. ASSUME NEW j \in EligibleFor(records, c), NEW k \in EligibleFor(records, c), j < k
      PROVE  FALSE
  <2>1. /\ j \in 1..Len(records) /\ records[j].cell = c /\ records[j].eligible
        /\ k \in 1..Len(records) /\ records[k].cell = c
    BY DEF EligibleFor, RecordsFor
  <2>2. j \in {m \in RecordsFor(records, records[k].cell) : m < k}
    BY <1>1, <2>1 DEF RecordsFor
  <2>3. Retryable(records[j])
    BY <2>1, <2>2 DEF RetriesAreFrozen
  <2> QED
    BY <2>1, <2>3 DEF RecordsAreSound
<1>2. EligibleFor(records, c) \subseteq Nat
  BY DEF EligibleFor, RecordsFor
<1>3. EligibleFor(records, c) = {i}
  BY <1>1, <1>2
<1> QED
  BY <1>2, <1>3, SolePrimary

\* No primary means no eligible record, so all of the cell's can be retried.
LEMMA NoneEligible ==
    ASSUME records \in Seq(Record), RecordsAreSound, RetriesAreFrozen, NEW c,
           PrimaryAttempt(records, c) = None
    PROVE  /\ EligibleFor(records, c) = {}
           /\ \A i \in RecordsFor(records, c) : Retryable(records[i])
<1>1. ASSUME NEW i \in EligibleFor(records, c) PROVE FALSE
  BY SoleEligible DEF EligibleFor, RecordsFor, None
<1> QED
  BY <1>1 DEF EligibleFor, RecordsFor, RecordsAreSound

-----------------------------------------------------------------------------
(* The inductive invariant holds at first and is kept by every step. *)

\* A new run: no record, no root, no result.
LEMMA InitInv == Init => IndInv
<1> SUFFICES ASSUME Init PROVE IndInv
  OBVIOUS
<1> USE CampaignAssumption DEF Init
<1>1. TypeOK
  BY DEF TypeOK, Cells, Codes, Endings, None
<1>2. \A c : RecordsFor(records, c) = {} /\ Cardinality(RecordsFor(records, c)) = 0
  BY FS_EmptySet DEF RecordsFor
<1>3. RecordsAreSound /\ RetriesAreFrozen
  BY DEF RecordsAreSound, RetriesAreFrozen
<1>4. LedgerFollowsLoop /\ LoopIsAdmitted /\ EndingIsRecorded
  BY DEF LedgerFollowsLoop, LoopIsAdmitted, EndingIsRecorded
<1>5. TriesBounded
  BY <1>2 DEF TriesBounded
<1>6. StateRootsNameRecords /\ LastRootIsCells
  BY DEF StateRootsNameRecords, LastRootIsCells
<1>7. ResultsMatchLedger /\ OneResult
  BY <1>3 DEF ResultsMatchLedger, OneResult
<1>8. FileKept /\ PublishedAtEnd /\ PublishableIsBacked /\ NeverRefused
  <2>1. Mirrored
    BY DEF Mirrored
  <2> QED
    BY <2>1 DEF FileKept, PublishedAtEnd, PublishableIsBacked, NeverRefused
<1> QED
  BY <1>1, <1>3, <1>4, <1>5, <1>6, <1>7, <1>8 DEF IndInv, LedgerInv

\* The first capability that is undeclared or unconfirmed decides, or none does.
LEMMA DecisionType ==
    ASSUME NEW o \in Observations
    PROVE  DecidePreflight(o) \in Decisions
BY DEF DecidePreflight, Decisions, Decision, Observations

\* What append writes is a record, and a file of lines stays one.
LEMMA WrittenType ==
    ASSUME TypeOK, ending.status \in Statuses
    PROVE  /\ NewRecord \in Record
           /\ \A kind : Written(kind) \in Seq(Line)
<1>1. NewRecord \in Record
  BY DEF NewRecord, Record, TypeOK, Endings
<1>2. /\ [kind |-> "fragment", record |-> {}] \in Line
      /\ [kind |-> "garbled", record |-> {}] \in Line
      /\ [kind |-> "record", record |-> {NewRecord}] \in Line
  BY <1>1 DEF Line
<1>3. ASSUME NEW kind PROVE Written(kind) \in Seq(Line)
  <2> file \in Seq(Line)
    BY DEF TypeOK
  <2>1. file # <<>> => Len(file) \in 1..Len(file)
    OBVIOUS
  <2>2. file # <<>> =>
          [file EXCEPT ![Len(file)] = [kind |-> "garbled", record |-> {}]] \in Seq(Line)
    BY <1>2, <2>1
  <2> QED
    BY <1>2, <2>2 DEF Written
<1> QED
  BY <1>1, <1>3

\* Every step keeps the types.
LEMMA TypeStep ==
    ASSUME LedgerInv, [Next]_vars
    PROVE  TypeOK'
<1> USE CampaignAssumption DEF localVars, ledgerVars, Ends, None
<1>0. TypeOK /\ EndingIsRecorded
  BY DEF LedgerInv
<1> USE <1>0 DEF TypeOK
<1>1. ASSUME NEW o \in Observations, Preflight(o) PROVE TypeOK'
  <2> DEFINE d == DecidePreflight(o)
             res == [contract |-> d.contract, capability |-> d.capability,
                     execution |-> "not_started", primary |-> -1, reason |-> "preflight"]
  <2>1. d \in Decisions
    BY DecisionType
  <2>2. res \in CellResult
    BY <2>1 DEF Decisions, CellResult
  <2> HIDE DEF res, d
  <2>3. CASE d = Decision("valid", "supported")
    BY <1>1, <2>3 DEF Preflight, Codes, Endings, d
  <2>4. CASE d # Decision("valid", "supported")
    <3>1. results' = [results EXCEPT ![cell] = {res}] /\ NextCell /\ UNCHANGED localVars
      BY <1>1, <2>4 DEF Preflight, d, res
    <3>2. cell' \in Cells /\ pc' \in {"preflight", "returned"}
      BY <3>1 DEF NextCell, Cells
    <3> QED
      BY <1>1, <2>2, <3>1, <3>2 DEF Preflight
  <2> QED
    BY <2>3, <2>4
<1>2. CASE Launch
  BY <1>2 DEF Launch, Endings, Codes, Statuses
<1>3. CASE LaunchRaises
  BY <1>3 DEF LaunchRaises, Endings, Codes, Statuses
<1>4. ASSUME NEW status \in Statuses, NEW code \in Reasons \cup {"none"},
             AttemptEnds(status, code)
      PROVE  TypeOK'
  BY <1>4 DEF AttemptEnds, Endings, Codes
<1>5. CASE AppendRecord
  <2>1. ending.status \in Statuses
    BY <1>5 DEF AppendRecord, EndingIsRecorded
  <2>2. NewRecord \in Record /\ Written("record") \in Seq(Line)
    BY <2>1, WrittenType
  <2>3. ending.reason \in Codes
    BY DEF Endings
  <2> QED
    BY <1>5, <2>2, <2>3 DEF AppendRecord
<1>6. ASSUME NEW effect \in {"nothing", "short", "unsynced"}, AppendFails(effect)
      PROVE  TypeOK'
  <2>1. ending.status \in Statuses
    BY <1>6 DEF AppendFails, EndingIsRecorded
  <2>2. Written("record") \in Seq(Line) /\ Written("fragment") \in Seq(Line)
    BY <2>1, WrittenType
  <2>3. file' \in Seq(Line)
    BY <1>6, <2>2 DEF AppendFails
  <2> QED
    BY <1>6, <2>3 DEF AppendFails, AppendRaises, Endings, Codes, Statuses
<1>7. CASE RecordResult
  <2> DEFINE res == [contract |-> IF ending.status = "contract_invalid" THEN "invalid" ELSE "valid",
                     capability |-> "supported",
                     execution |-> IF ending.status = "completed" THEN "completed"
                                   ELSE "infrastructure_failed",
                     primary |-> PrimaryAttempt(records, cell), reason |-> reason]
  <2>1. PrimaryAttempt(records, cell) \in Int
    <3>1. CASE EligibleFor(records, cell) = {}
      BY <3>1, NoPrimary
    <3>2. ASSUME NEW i \in EligibleFor(records, cell) PROVE PrimaryAttempt(records, cell) \in Int
      BY <3>2, SoleEligible DEF LedgerInv, EligibleFor, RecordsFor
    <3> QED
      BY <3>1, <3>2
  <2>2. res \in CellResult
    BY <2>1 DEF CellResult
  <2>3. results' = [results EXCEPT ![cell] = {res}]
    BY <1>7 DEF RecordResult
  <2> HIDE DEF res
  <2>4. cell' \in Cells /\ pc' \in {"preflight", "returned"}
    BY <1>7 DEF RecordResult, NextCell, Cells
  <2> QED
    BY <1>7, <2>2, <2>3, <2>4 DEF RecordResult
<1>8. ASSUME NEW requestsFailed \in BOOLEAN, NEW goodput \in BOOLEAN,
             Publish(requestsFailed, goodput)
      PROVE  TypeOK'
  BY <1>8 DEF Publish
<1>9. ASSUME NEW why \in {"probe", "interrupt"}, Interrupted(why) PROVE TypeOK'
  BY <1>9 DEF Interrupted
<1>10. CASE Terminated \/ UNCHANGED vars
  BY <1>10 DEF Terminated, vars
<1> QED
  BY <1>1, <1>2, <1>3, <1>4, <1>5, <1>6, <1>7, <1>8, <1>9, <1>10 DEF Next, RunStep

\* What a successful append makes of the ledger: the new record is the last one,
\* and the cell's earlier ones, all invalid for frozen reasons, lead to it.
LEMMA AppendFacts ==
    ASSUME LedgerInv, AppendRecord
    PROVE  /\ NewRecord \in Record /\ NewRecord.cell = cell
           /\ NewRecord.ordinal = Len(records) /\ NewRecord.retryOf = retryOf
           /\ NewRecord.status = ending.status /\ NewRecord.reason = ending.reason
           /\ NewRecord.eligible <=> ~Retryable(NewRecord)
           /\ Len(records') = Len(records) + 1 /\ records'[Len(records) + 1] = NewRecord
           /\ \A i \in 1..Len(records) : records'[i] = records[i]
           /\ EligibleFor(records, cell) = {} /\ PrimaryAttempt(records, cell) = None
           /\ \A i \in RecordsFor(records, cell) : Retryable(records[i])
           /\ Cardinality(RecordsFor(records, cell)) < Limit
           /\ IF RecordsFor(records, cell) = {} THEN retryOf = None
              ELSE retryOf = Len(records) - 1 /\ Len(records) \in RecordsFor(records, cell)
<1> USE CampaignAssumption
<1>0. TypeOK /\ pc = "append" /\ ending.status \in Statuses /\ Admits(cell)
        /\ RecordsAreSound /\ RetriesAreFrozen
  BY DEF LedgerInv, AppendRecord, EndingIsRecorded
<1> records \in Seq(Record) /\ cell \in Cells
  BY <1>0 DEF TypeOK
<1>1. NewRecord \in Record
  BY <1>0, WrittenType
<1>2. /\ NewRecord.cell = cell /\ NewRecord.ordinal = Len(records)
      /\ NewRecord.retryOf = retryOf
      /\ NewRecord.status = ending.status /\ NewRecord.reason = ending.reason
      /\ NewRecord.eligible <=> ~Retryable(NewRecord)
  BY DEF NewRecord, Retryable
<1>3. records' = Append(records, NewRecord)
  BY DEF AppendRecord
<1>4. /\ Len(records') = Len(records) + 1 /\ records'[Len(records) + 1] = NewRecord
      /\ \A i \in 1..Len(records) : records'[i] = records[i]
  BY <1>1, <1>3
<1>5. CASE RecordsFor(records, cell) = {}
  <2>1. Cardinality(RecordsFor(records, cell)) < Limit
    BY <1>5, FS_EmptySet
  <2>2. EligibleFor(records, cell) = {}
    BY <1>5 DEF EligibleFor
  <2>3. retryOf = None
    BY <1>0, <1>5 DEF Admits
  <2> QED
    BY <1>1, <1>2, <1>4, <1>5, <2>1, <2>2, <2>3, NoPrimary
<1>6. CASE RecordsFor(records, cell) # {}
  <2>1. Len(records) \in RecordsFor(records, cell)
    <3>1. PICK i \in 1..Len(records) : records[i].cell = cell
      BY <1>6 DEF RecordsFor
    <3>2. records[Len(records)].cell = cell
      BY <3>1 DEF LedgerInv, LedgerFollowsLoop, Cells
    <3> QED
      BY <3>1, <3>2 DEF RecordsFor
  <2>2. LastFor(records, cell) = Len(records)
    BY <2>1, LastOfAll
  <2>3. CanRetry(records, records[Len(records)]) /\ retryOf = Len(records) - 1
    BY <1>0, <1>6, <2>2 DEF Admits
  <2>4. records[Len(records)].cell = cell
    BY <2>1 DEF RecordsFor
  <2>5. PrimaryAttempt(records, cell) = None /\ Cardinality(RecordsFor(records, cell)) < Limit
    BY <2>3, <2>4 DEF CanRetry
  <2>6. EligibleFor(records, cell) = {} /\ \A i \in RecordsFor(records, cell) : Retryable(records[i])
    BY <1>0, <2>5, NoneEligible
  <2> QED
    BY <1>1, <1>2, <1>4, <1>6, <2>1, <2>3, <2>5, <2>6
<1> QED
  BY <1>5, <1>6

\* A successful append keeps the ledger's part of the invariant.
LEMMA AppendLedger ==
    ASSUME LedgerInv, AppendRecord, TypeOK'
    PROVE  LedgerInv'
<1> USE CampaignAssumption
<1> DEFINE n == Len(records)
<1>0. /\ TypeOK /\ RecordsAreSound /\ RetriesAreFrozen /\ TriesBounded /\ LedgerFollowsLoop
      /\ EndingIsRecorded /\ pc = "append"
  BY DEF LedgerInv, AppendRecord
<1> records \in Seq(Record) /\ records' \in Seq(Record) /\ cell \in Cells /\ n \in Nat
  BY <1>0 DEF TypeOK
<1>a. records' = Append(records, NewRecord) /\ UNCHANGED <<cell, ending, results>>
  BY DEF AppendRecord
<1>b. /\ Len(records') = n + 1 /\ records'[n + 1] = NewRecord
      /\ \A i \in 1..n : records'[i] = records[i]
      /\ NewRecord \in Record /\ NewRecord.cell = cell
      /\ 1..(n + 1) = (1..n) \cup {n + 1}
  BY AppendFacts
<1>1. RecordsAreSound'
  BY <1>0, <1>b, AppendFacts DEF RecordsAreSound
<1>2. RetriesAreFrozen'
  <2> SUFFICES ASSUME NEW i \in 1..(n + 1)
               PROVE  LET earlier == {j \in RecordsFor(records', records'[i].cell) : j < i} IN
                      IF earlier = {} THEN records'[i].retryOf = None
                      ELSE /\ records'[i].retryOf + 1 \in earlier
                           /\ \A j \in earlier :
                                j <= records'[i].retryOf + 1 /\ Retryable(records'[j])
    BY <1>b DEF RetriesAreFrozen
  <2>1. CASE i \in 1..n
    <3>1. records'[i] = records[i]
      BY <2>1, <1>b
    <3>2. {j \in RecordsFor(records', records[i].cell) : j < i}
            = {j \in RecordsFor(records, records[i].cell) : j < i}
      BY <2>1, <1>b DEF RecordsFor
    <3>3. \A j \in RecordsFor(records, records[i].cell) : records'[j] = records[j]
      BY <1>b DEF RecordsFor
    <3> QED
      BY <1>0, <2>1, <3>1, <3>2, <3>3 DEF RetriesAreFrozen
  <2>2. CASE i = n + 1
    <3>1. {j \in RecordsFor(records', cell) : j < i} = RecordsFor(records, cell)
      BY <2>2, <1>b DEF RecordsFor
    <3>2. \A j \in RecordsFor(records, cell) : j \in 1..n /\ records'[j] = records[j]
      BY <1>b DEF RecordsFor
    <3> QED
      BY <2>2, <3>1, <3>2, <1>b, AppendFacts
  <2> QED
    BY <2>1, <2>2, <1>b
<1>3. LedgerFollowsLoop'
  <2>1. pc' # "preflight"
    BY DEF AppendRecord
  <2>2. \A c \in Cells : results[c] # {} => c < cell
    BY <1>0 DEF LedgerFollowsLoop
  <2> QED
    BY <1>0, <1>a, <1>b, <2>1, <2>2 DEF LedgerFollowsLoop
<1>4. LastFor(records', cell) = n + 1 /\ n + 1 \in RecordsFor(records', cell)
  <2>1. n + 1 \in RecordsFor(records', cell)
    BY <1>b DEF RecordsFor
  <2> QED
    BY <2>1, <1>b, LastOfAll
<1>5. LoopIsAdmitted'
  <2>1. pc' \in {"launch", "result"}
    BY DEF AppendRecord
  <2>2. pc' = "launch" => CanRetry(records', NewRecord) /\ retryOf' = n
    BY DEF AppendRecord
  <2> QED
    BY <1>a, <1>b, <1>4, <2>1, <2>2 DEF LoopIsAdmitted, Admits
<1>6. EndingIsRecorded'
  <2>1. pc' = "result" => ~CanRetry(records', NewRecord)
    BY DEF AppendRecord
  <2>2. pc' \in {"launch", "result"}
    BY DEF AppendRecord
  <2> QED
    BY <1>0, <1>a, <1>b, <2>1, <2>2, AppendFacts DEF EndingIsRecorded
<1>7. TriesBounded'
  <2>1. ASSUME NEW c \in Cells PROVE Cardinality(RecordsFor(records', c)) <= Limit
    <3>1. CASE c = cell
      BY <3>1, <1>a, <1>b, AppendCount, AppendFacts, RecordsForFinite
    <3>2. CASE c # cell
      BY <3>2, <1>0, <1>a, <1>b, AppendFor DEF TriesBounded
    <3> QED
      BY <3>1, <3>2
  <2> QED
    BY <2>1 DEF TriesBounded
<1> QED
  BY <1>1, <1>2, <1>3, <1>5, <1>6, <1>7 DEF LedgerInv

\* The other steps leave the records alone.
LEMMA OnlyAppendRecords ==
    ASSUME [Next]_vars, ~AppendRecord
    PROVE  records' = records
BY DEF Next, RunStep, vars, localVars, ledgerVars, Preflight, Launch, LaunchRaises, AttemptEnds,
       AppendFails, RecordResult, Publish, Interrupted, Terminated

\* Every step keeps the ledger's part of the invariant.
LEMMA LedgerStep ==
    ASSUME LedgerInv, [Next]_vars
    PROVE  LedgerInv'
<1> USE CampaignAssumption DEF localVars, ledgerVars, Ends
<1>t. TypeOK'
  BY TypeStep
<1>0. /\ TypeOK /\ RecordsAreSound /\ RetriesAreFrozen /\ TriesBounded /\ LedgerFollowsLoop
      /\ LoopIsAdmitted /\ EndingIsRecorded
  BY DEF LedgerInv
<1> cell \in Cells /\ cell \in Int /\ records \in Seq(Record)
  BY <1>0 DEF TypeOK, Cells
<1>a. CASE AppendRecord
  BY <1>a, <1>t, AppendLedger
<1>b. CASE ~AppendRecord
  <2>1. records' = records
    BY <1>b, OnlyAppendRecords
  <2>2. RecordsAreSound' /\ RetriesAreFrozen' /\ TriesBounded'
    BY <1>0, <2>1 DEF RecordsAreSound, RetriesAreFrozen, TriesBounded
  <2>3. \A i \in 1..Len(records) : records[i].cell \in Int
    <3>1. \A i \in 1..Len(records) : records[i] \in Record
      OBVIOUS
    <3> QED
      BY <3>1 DEF Record, Cells
  <2>4. LedgerFollowsLoop' /\ LoopIsAdmitted' /\ EndingIsRecorded'
    <3>a. Next \/ UNCHANGED vars
      OBVIOUS
    <3> USE <1>0, <2>1, <2>3 DEF LedgerFollowsLoop, LoopIsAdmitted, EndingIsRecorded, TypeOK
    <3>1. ASSUME NEW o \in Observations, Preflight(o)
          PROVE  LedgerFollowsLoop' /\ LoopIsAdmitted' /\ EndingIsRecorded'
      <4>1. RecordsFor(records, cell) = {}
        BY <3>1 DEF Preflight, RecordsFor
      <4>2. CASE pc' = "launch"
        <5>1. retryOf' = None /\ UNCHANGED <<cell, results>>
          BY <3>1, <4>2 DEF Preflight, NextCell
        <5>2. Admits(cell)'
          BY <4>1, <5>1 DEF Admits
        <5> QED
          BY <3>1, <4>2, <5>1, <5>2 DEF Preflight
      <4>3. CASE pc' # "launch"
        <5>1. NextCell /\ \A c \in Cells : results'[c] # results[c] => c = cell
          BY <3>1, <4>3 DEF Preflight
        <5>2. pc = "preflight" /\ pc' \in {"preflight", "returned"}
          BY <3>1, <5>1 DEF Preflight, NextCell
        <5>3. \/ cell' = cell + 1
              \/ cell' = cell /\ pc' = "returned"
          BY <5>1 DEF NextCell
        <5>4. LedgerFollowsLoop'
          BY <5>1, <5>2, <5>3, SMTT(30) DEF Cells
        <5> QED
          BY <5>2, <5>4
      <4> QED
        BY <4>2, <4>3
    <3>2. CASE Launch
      BY <3>2, SMTT(30) DEF Launch, Admits, Statuses
    <3>3. CASE LaunchRaises
      BY <3>3 DEF LaunchRaises, Admits, Statuses
    <3>4. ASSUME NEW status \in Statuses, NEW code \in Reasons \cup {"none"},
                 AttemptEnds(status, code)
          PROVE  LedgerFollowsLoop' /\ LoopIsAdmitted' /\ EndingIsRecorded'
      BY <3>4 DEF AttemptEnds, Admits
    <3>5. ASSUME NEW effect \in {"nothing", "short", "unsynced"}, AppendFails(effect)
          PROVE  LedgerFollowsLoop' /\ LoopIsAdmitted' /\ EndingIsRecorded'
      BY <3>5 DEF AppendFails, AppendRaises, Admits, Statuses
    <3>6. CASE RecordResult
      <4>1. NextCell /\ \A c \in Cells : results'[c] # results[c] => c = cell
        BY <3>6 DEF RecordResult
      <4> QED
        BY <3>6, <4>1 DEF RecordResult, NextCell, Cells
    <3>7. ASSUME NEW requestsFailed \in BOOLEAN, NEW goodput \in BOOLEAN,
                 Publish(requestsFailed, goodput)
          PROVE  LedgerFollowsLoop' /\ LoopIsAdmitted' /\ EndingIsRecorded'
      BY <3>7 DEF Publish
    <3>8. ASSUME NEW why \in {"probe", "interrupt"}, Interrupted(why)
          PROVE  LedgerFollowsLoop' /\ LoopIsAdmitted' /\ EndingIsRecorded'
      BY <3>8 DEF Interrupted
    <3>9. CASE Terminated \/ UNCHANGED vars
      BY <3>9 DEF Terminated, vars, Admits
    <3> QED
      BY ONLY <1>b, <3>a, <3>1, <3>2, <3>3, <3>4, <3>5, <3>6, <3>7, <3>8, <3>9 DEF Next, RunStep
  <2> QED
    BY <1>t, <2>2, <2>4 DEF LedgerInv
<1> QED
  BY <1>a, <1>b

\* A root is created by the launch whose record will have its ordinal.
LEMMA RootsStep ==
    ASSUME LedgerInv, StateRootsNameRecords, LastRootIsCells, [Next]_vars
    PROVE  StateRootsNameRecords' /\ LastRootIsCells'
<1> USE CampaignAssumption DEF localVars, ledgerVars, Ends, StateRootsNameRecords, LastRootIsCells
<1>0. TypeOK
  BY DEF LedgerInv
<1> records \in Seq(Record) /\ roots \in SUBSET (Nat \X Cells) /\ Len(records) \in Nat
  BY <1>0 DEF TypeOK
<1>1. ASSUME NEW o \in Observations, Preflight(o)
      PROVE  StateRootsNameRecords' /\ LastRootIsCells'
  BY <1>1 DEF Preflight, NextCell
<1>2. CASE Launch
  <2>1. Len(records) \notin {r[1] : r \in roots}
    BY <1>2 DEF Launch
  <2>2. /\ roots' = roots \cup {<<Len(records), cell>>} /\ pc' = "running"
        /\ UNCHANGED <<cell, records>>
    BY <1>2, <2>1 DEF Launch
  <2>3. \A r \in roots : r[1] < Len(records)
    BY <1>2 DEF Launch
  <2> QED
    BY <2>2, <2>3
<1>3. CASE LaunchRaises
  BY <1>3 DEF LaunchRaises
<1>4. ASSUME NEW status \in Statuses, NEW code \in Reasons \cup {"none"},
             AttemptEnds(status, code)
      PROVE  StateRootsNameRecords' /\ LastRootIsCells'
  BY <1>4 DEF AttemptEnds
<1>5. CASE AppendRecord
  <2>1. /\ Len(records') = Len(records) + 1 /\ records'[Len(records) + 1].cell = cell
        /\ \A i \in 1..Len(records) : records'[i] = records[i]
    BY <1>5, AppendFacts
  <2>2. UNCHANGED <<cell, roots>>
    BY <1>5 DEF AppendRecord
  <2>3. \A r \in roots : r[1] \in Nat /\ r[1] <= Len(records)
    OBVIOUS
  <2>4. \A r \in roots : records'[r[1] + 1].cell = r[2]
    <3> SUFFICES ASSUME NEW r \in roots PROVE records'[r[1] + 1].cell = r[2]
      OBVIOUS
    <3>1. CASE r[1] < Len(records)
      <4>1. r[1] + 1 \in 1..Len(records)
        BY <2>3, <3>1
      <4> QED
        BY <2>1, <3>1, <4>1
    <3>2. CASE r[1] = Len(records)
      BY <2>1, <3>2
    <3> QED
      BY <2>3, <3>1, <3>2
  <2> QED
    BY <2>1, <2>2, <2>3, <2>4
<1>6. ASSUME NEW effect \in {"nothing", "short", "unsynced"}, AppendFails(effect)
      PROVE  StateRootsNameRecords' /\ LastRootIsCells'
  BY <1>6 DEF AppendFails, AppendRaises
<1>7. CASE RecordResult
  BY <1>7 DEF RecordResult, NextCell
<1>8. ASSUME NEW requestsFailed \in BOOLEAN, NEW goodput \in BOOLEAN,
             Publish(requestsFailed, goodput)
      PROVE  StateRootsNameRecords' /\ LastRootIsCells'
  BY <1>8 DEF Publish
<1>9. ASSUME NEW why \in {"probe", "interrupt"}, Interrupted(why)
      PROVE  StateRootsNameRecords' /\ LastRootIsCells'
  BY <1>9 DEF Interrupted
<1>10. CASE Terminated \/ UNCHANGED vars
  BY <1>10 DEF Terminated, vars
<1>11. Next \/ UNCHANGED vars
  OBVIOUS
<1> QED
  BY ONLY <1>1, <1>2, <1>3, <1>4, <1>5, <1>6, <1>7, <1>8, <1>9, <1>10, <1>11 DEF Next, RunStep

\* What a result says of its cell's ledger: the body of ResultsMatchLedger.
Matches(rs, c, r) ==
    /\ r.primary = PrimaryAttempt(rs, c)
    /\ r.execution = "not_started" <=> RecordsFor(rs, c) = {}
    /\ r.execution = "completed" <=> r.primary # None /\ rs[r.primary + 1].status = "completed"
    /\ r.primary # None => r.primary + 1 = LastFor(rs, c)
    /\ r.execution = "infrastructure_failed" /\ r.primary = None =>
         Cardinality(RecordsFor(rs, c)) = Limit

\* A result is written for the loop's cell when the loop is done with it.
LEMMA NewResult ==
    ASSUME LedgerInv, RecordResult
    PROVE  \A r \in results'[cell] : Matches(records, cell, r)
<1> USE CampaignAssumption
<1> DEFINE n == Len(records)
<1>0. TypeOK /\ RecordsAreSound /\ RetriesAreFrozen /\ TriesBounded /\ EndingIsRecorded
  BY DEF LedgerInv
<1> records \in Seq(Record) /\ cell \in Cells /\ n \in Nat
  BY <1>0 DEF TypeOK
<1>1. /\ n > 0 /\ records[n].cell = cell /\ records[n].status = ending.status
      /\ records[n].reason = ending.reason /\ ~CanRetry(records, records[n])
  BY <1>0 DEF EndingIsRecorded, RecordResult
<1>2. n \in RecordsFor(records, cell)
  BY <1>1 DEF RecordsFor
<1>3. LastFor(records, cell) = n
  BY <1>2, LastOfAll
<1> SUFFICES ASSUME NEW r \in results'[cell] PROVE Matches(records, cell, r)
  OBVIOUS
<1>4. /\ r.primary = PrimaryAttempt(records, cell)
      /\ r.execution = IF ending.status = "completed" THEN "completed"
                       ELSE "infrastructure_failed"
  BY <1>0 DEF RecordResult, TypeOK
<1>5. CASE Retryable(records[n])
  <2>1. PrimaryAttempt(records, cell) = None
    <3>1. ASSUME NEW i \in EligibleFor(records, cell) PROVE FALSE
      <4>1. i \in 1..n /\ records[i].cell = cell /\ records[i].eligible
        BY <3>1 DEF EligibleFor, RecordsFor
      <4>2. i # n
        BY <1>0, <1>5, <4>1 DEF RecordsAreSound
      <4>3. i \in {j \in RecordsFor(records, records[n].cell) : j < n}
        BY <1>1, <4>1, <4>2 DEF RecordsFor
      <4>4. Retryable(records[i])
        BY <1>0, <1>1, <4>3 DEF RetriesAreFrozen
      <4> QED
        BY <1>0, <4>1, <4>4 DEF RecordsAreSound
    <3> QED
      BY <3>1, NoPrimary
  <2>2. Cardinality(RecordsFor(records, cell)) = Limit
    BY <1>0, <1>1, <1>5, <2>1, RecordsForFinite DEF CanRetry, TriesBounded
  <2>3. ending.status # "completed"
    BY <1>1, <1>5 DEF Retryable, RetryableStatuses
  <2> QED
    BY <1>2, <1>4, <2>1, <2>2, <2>3 DEF Matches
<1>6. CASE ~Retryable(records[n])
  <2>1. n \in EligibleFor(records, cell)
    BY <1>0, <1>1, <1>2, <1>6 DEF EligibleFor, RecordsAreSound
  <2>2. PrimaryAttempt(records, cell) = n - 1
    BY <1>0, <2>1, SoleEligible
  <2> QED
    BY <1>1, <1>2, <1>3, <1>4, <2>2 DEF Matches, None
<1> QED
  BY <1>5, <1>6

\* An append to the loop's cell leaves what was said of other cells true.
LEMMA OthersKeepMatching ==
    ASSUME LedgerInv, AppendRecord, NEW c \in Cells, c # cell, NEW r, Matches(records, c, r)
    PROVE  Matches(records', c, r)
<1>0. TypeOK /\ RecordsAreSound /\ RetriesAreFrozen
  BY DEF LedgerInv
<1> records \in Seq(Record)
  BY <1>0 DEF TypeOK
<1>1. /\ records' = Append(records, NewRecord) /\ NewRecord \in Record /\ NewRecord.cell # c
      /\ \A i \in 1..Len(records) : records'[i] = records[i]
  BY AppendFacts DEF AppendRecord
<1>2. RecordsFor(records', c) = RecordsFor(records, c)
        /\ EligibleFor(records', c) = EligibleFor(records, c)
  BY <1>1, AppendFor
<1>3. PrimaryAttempt(records', c) = PrimaryAttempt(records, c)
        /\ LastFor(records', c) = LastFor(records, c)
  BY <1>2 DEF PrimaryAttempt, LastFor
<1>4. r.primary # None => r.primary + 1 \in 1..Len(records)
  <2>1. EligibleFor(records, c) = {} => r.primary = None
    BY NoPrimary DEF Matches
  <2>2. ASSUME NEW i \in EligibleFor(records, c) PROVE r.primary + 1 = i /\ i \in 1..Len(records)
    BY <1>0, <2>2, SoleEligible DEF Matches, EligibleFor, RecordsFor
  <2> QED
    BY <2>1, <2>2
<1> QED
  BY <1>1, <1>2, <1>3, <1>4 DEF Matches

\* Every step keeps results in agreement with the ledger.
LEMMA ResultsStep ==
    ASSUME LedgerInv, ResultsMatchLedger, OneResult, [Next]_vars
    PROVE  ResultsMatchLedger' /\ OneResult'
<1> USE CampaignAssumption DEF localVars, ledgerVars, Ends
<1>0. TypeOK /\ LedgerFollowsLoop
  BY DEF LedgerInv
<1> results \in [Cells -> SUBSET CellResult] /\ cell \in Cells
  BY <1>0 DEF TypeOK
<1>a. RetriesAreFrozen'
  BY LedgerStep DEF LedgerInv
<1>b. \A c \in Cells : \A r \in results[c] : Matches(records, c, r)
  BY DEF ResultsMatchLedger, Matches
<1> SUFFICES (\A c \in Cells : \A r \in results'[c] : Matches(records', c, r)) /\ OneResult'
  BY <1>a DEF ResultsMatchLedger, Matches
<1>1. CASE AppendRecord
  <2>1. UNCHANGED results /\ results[cell] = {}
    BY <1>0, <1>1 DEF AppendRecord, LedgerFollowsLoop, Cells
  <2>2. ASSUME NEW c \in Cells, NEW r \in results'[c] PROVE Matches(records', c, r)
    BY <1>1, <1>b, <2>1, <2>2, OthersKeepMatching
  <2> QED
    BY <2>1, <2>2 DEF OneResult
<1>2. ASSUME NEW o \in Observations, Preflight(o)
      PROVE  (\A c \in Cells : \A r \in results'[c] : Matches(records', c, r)) /\ OneResult'
  <2>1. UNCHANGED records
    BY <1>2 DEF Preflight
  <2>2. RecordsFor(records, cell) = {}
    BY <1>0, <1>2 DEF Preflight, LedgerFollowsLoop, RecordsFor
  <2>3. PrimaryAttempt(records, cell) = None
    BY <2>2, NoPrimary DEF EligibleFor
  <2>4. CASE UNCHANGED results
    BY <1>b, <2>1, <2>4 DEF OneResult
  <2>5. ASSUME NEW res, results' = [results EXCEPT ![cell] = {res}],
               res.execution = "not_started", res.primary = None
        PROVE  (\A c \in Cells : \A r \in results'[c] : Matches(records', c, r)) /\ OneResult'
    <3>1. Matches(records, cell, res)
      BY <2>2, <2>3, <2>5 DEF Matches
    <3>2. \A c \in Cells : results'[c] = IF c = cell THEN {res} ELSE results[c]
      BY <2>5
    <3> QED
      BY <1>b, <2>1, <3>1, <3>2 DEF OneResult
  <2>6. CASE DecidePreflight(o) = Decision("valid", "supported")
    BY <1>2, <2>4, <2>6 DEF Preflight
  <2>7. CASE DecidePreflight(o) # Decision("valid", "supported")
    <3> DEFINE res == [contract |-> DecidePreflight(o).contract,
                       capability |-> DecidePreflight(o).capability,
                       execution |-> "not_started", primary |-> None, reason |-> "preflight"]
    <3>1. results' = [results EXCEPT ![cell] = {res}]
      BY <1>2, <2>7 DEF Preflight
    <3>2. res.execution = "not_started" /\ res.primary = None
      OBVIOUS
    <3> HIDE DEF res
    <3> QED
      BY <2>5, <3>1, <3>2
  <2> QED
    BY <2>6, <2>7
<1>3. CASE RecordResult
  <2>1. UNCHANGED records
    BY <1>3 DEF RecordResult
  <2>2. PICK res : results' = [results EXCEPT ![cell] = {res}]
    BY <1>3 DEF RecordResult
  <2>3. \A c \in Cells : results'[c] = IF c = cell THEN {res} ELSE results[c]
    BY <2>2
  <2>4. \A r \in results'[cell] : Matches(records, cell, r)
    BY <1>3, NewResult
  <2> QED
    BY <1>b, <2>1, <2>3, <2>4 DEF OneResult
<1>4. CASE UNCHANGED <<records, results>>
  BY <1>b, <1>4 DEF OneResult
<1>5. Next \/ UNCHANGED vars
  OBVIOUS
<1> QED
  <2>1. \/ AppendRecord \/ (\E o \in Observations : Preflight(o)) \/ RecordResult
        \/ UNCHANGED <<records, results>>
    BY <1>5 DEF Next, RunStep, Launch, LaunchRaises, AttemptEnds, AppendFails, Publish,
                Interrupted, Terminated, vars
  <2> QED
    BY <1>1, <1>2, <1>3, <1>4, <2>1

\* A file that mirrors the ledger still does after a successful append.
LEMMA MirrorAppend ==
    ASSUME TypeOK, Mirrored, NewRecord \in Record,
           records' = Append(records, NewRecord), file' = Written("record")
    PROVE  Mirrored'
<1> DEFINE n == Len(records)
           line(e) == [kind |-> "record", record |-> {e}]
<1> records \in Seq(Record) /\ file \in Seq(Line) /\ n \in Nat
  BY DEF TypeOK
<1>1. Len(file) = n /\ \A i \in 1..n : file[i] = line(records[i])
  BY DEF Mirrored
<1>2. ~(file # <<>> /\ file[Len(file)] = [kind |-> "fragment", record |-> {}])
  <2> SUFFICES ASSUME file # <<>>, file[Len(file)] = [kind |-> "fragment", record |-> {}]
               PROVE  FALSE
    OBVIOUS
  <2>0. Len(file) # 0
    OBVIOUS
  <2>1. n \in 1..n
    BY <1>1, <2>0
  <2>2. file[n] = line(records[n])
    BY <1>1, <2>1
  <2>3. [kind |-> "fragment", record |-> {}] = line(records[n])
    BY <1>1, <2>2
  <2> QED
    BY <2>3
<1>3. file' = Append(file, line(NewRecord))
  BY <1>2 DEF Written
<1>4. line(NewRecord) \in Line
  BY DEF Line
<1> HIDE DEF line
<1>5. /\ file' \in Seq(Line) /\ Len(file') = n + 1 /\ file'[n + 1] = line(NewRecord)
      /\ \A i \in 1..n : file'[i] = line(records[i])
  BY <1>1, <1>3, <1>4, SMTT(30)
<1>6. /\ Len(records') = n + 1 /\ records'[n + 1] = NewRecord
      /\ \A i \in 1..n : records'[i] = records[i]
  OBVIOUS
<1>7. file' = [i \in 1..(n + 1) |-> line(records'[i])]
  BY <1>5, <1>6
<1> QED
  BY <1>6, <1>7 DEF Mirrored, line

\* A failed append is never followed by a campaign that is all completed.
LEMMA FileStep ==
    ASSUME LedgerInv, FileKept, [Next]_vars
    PROVE  FileKept'
<1> USE CampaignAssumption DEF localVars, ledgerVars, Ends
<1>0. TypeOK /\ LedgerFollowsLoop /\ EndingIsRecorded
  BY DEF LedgerInv
<1> results \in [Cells -> SUBSET CellResult] /\ cell \in Cells /\ cell \in Int
  BY <1>0 DEF TypeOK, Cells
<1>a. UNCHANGED results => (Spoiled <=> Spoiled')
  BY DEF Spoiled
<1>b. UNCHANGED ledgerVars => (Mirrored <=> Mirrored')
  BY DEF Mirrored
<1>c. ASSUME NEW res, results' = [results EXCEPT ![cell] = {res}], results[cell] = {}
      PROVE  /\ Spoiled => Spoiled'
             /\ res.execution # "completed" => Spoiled'
  BY <1>c DEF Spoiled
<1>d. pc \in {"preflight", "result"} => results[cell] = {}
  BY <1>0 DEF LedgerFollowsLoop
<1>1. ASSUME NEW o \in Observations, Preflight(o) PROVE FileKept'
  <2>1. CASE DecidePreflight(o) = Decision("valid", "supported")
    BY <1>1, <1>a, <1>b, <2>1 DEF Preflight, FileKept
  <2>2. CASE DecidePreflight(o) # Decision("valid", "supported")
    <3> DEFINE res == [contract |-> DecidePreflight(o).contract,
                       capability |-> DecidePreflight(o).capability,
                       execution |-> "not_started", primary |-> None, reason |-> "preflight"]
    <3>1. results' = [results EXCEPT ![cell] = {res}] /\ pc = "preflight"
      BY <1>1, <2>2 DEF Preflight
    <3>2. res.execution # "completed"
      OBVIOUS
    <3> HIDE DEF res
    <3> QED
      BY <1>c, <1>d, <3>1, <3>2 DEF FileKept
  <2> QED
    BY <2>1, <2>2
<1>2. CASE Launch \/ LaunchRaises
  BY <1>2, <1>a, <1>b DEF Launch, LaunchRaises, FileKept
<1>3. ASSUME NEW status \in Statuses, NEW code \in Reasons \cup {"none"},
             AttemptEnds(status, code)
      PROVE  FileKept'
  BY <1>3, <1>a, <1>b DEF AttemptEnds, FileKept
<1>4. CASE AppendRecord
  <2>1. UNCHANGED <<results, ending>> /\ pc = "append" /\ pc' \in {"launch", "result"}
    BY <1>4 DEF AppendRecord
  <2>2. Mirrored => Mirrored'
    BY <1>0, <1>4, MirrorAppend, AppendFacts DEF AppendRecord
  <2>3. ending.status = "runtime_error" => pc' = "result"
    <3>1. NewRecord.status = ending.status
      BY <1>4, AppendFacts
    <3> QED
      BY <1>4, <3>1 DEF AppendRecord, CanRetry, Retryable, RetryableStatuses
  <2> QED
    BY <1>a, <2>1, <2>2, <2>3 DEF FileKept
<1>5. ASSUME NEW effect \in {"nothing", "short", "unsynced"}, AppendFails(effect)
      PROVE  FileKept'
  BY <1>5 DEF AppendFails, AppendRaises, FileKept
<1>6. CASE RecordResult
  <2> DEFINE res == [contract |-> IF ending.status = "contract_invalid" THEN "invalid" ELSE "valid",
                     capability |-> "supported",
                     execution |-> IF ending.status = "completed" THEN "completed"
                                   ELSE "infrastructure_failed",
                     primary |-> PrimaryAttempt(records, cell), reason |-> reason]
  <2>1. /\ results' = [results EXCEPT ![cell] = {res}] /\ pc = "result"
        /\ UNCHANGED ledgerVars
    BY <1>6 DEF RecordResult
  <2>2. ending.status = "runtime_error" => res.execution # "completed"
    OBVIOUS
  <2> HIDE DEF res
  <2> QED
    BY <1>b, <1>c, <1>d, <2>1, <2>2 DEF FileKept
<1>7. ASSUME NEW requestsFailed \in BOOLEAN, NEW goodput \in BOOLEAN,
             Publish(requestsFailed, goodput)
      PROVE  FileKept'
  BY <1>7, <1>a, <1>b DEF Publish, FileKept
<1>8. ASSUME NEW why \in {"probe", "interrupt"}, Interrupted(why) PROVE FileKept'
  BY <1>8 DEF Interrupted, FileKept
<1>9. CASE Terminated \/ UNCHANGED vars
  BY <1>9, <1>a, <1>b DEF Terminated, vars, FileKept
<1>10. Next \/ UNCHANGED vars
  OBVIOUS
<1> QED
  BY ONLY <1>1, <1>2, <1>3, <1>4, <1>5, <1>6, <1>7, <1>8, <1>9, <1>10 DEF Next, RunStep

\* A cell whose result is completed has one eligible record, a completed one.
LEMMA CompletedIsRecorded ==
    ASSUME LedgerInv, ResultsMatchLedger, NEW c \in Cells, Completed(c)
    PROVE  \E i \in 1..Len(records) :
              /\ EligibleFor(records, c) = {i}
              /\ records[i].status = "completed"
              /\ records[i].ordinal = PrimaryAttempt(records, c)
<1>0. TypeOK /\ RecordsAreSound /\ RetriesAreFrozen
  BY DEF LedgerInv
<1> records \in Seq(Record)
  BY <1>0 DEF TypeOK
<1>1. PICK r \in results[c] : r.execution = "completed"
  BY DEF Completed
<1>2. /\ r.primary = PrimaryAttempt(records, c) /\ r.primary # None
      /\ records[r.primary + 1].status = "completed"
  BY <1>1 DEF ResultsMatchLedger
<1>3. PICK i \in EligibleFor(records, c) : TRUE
  BY <1>2, NoPrimary
<1>4. EligibleFor(records, c) = {i} /\ PrimaryAttempt(records, c) = i - 1
  BY <1>0, SoleEligible
<1>5. i \in 1..Len(records)
  BY DEF EligibleFor, RecordsFor
<1> QED
  BY <1>0, <1>2, <1>4, <1>5 DEF RecordsAreSound

\* What is published is backed by the file, and nothing changes after it.
LEMMA PublishStep ==
    ASSUME IndInv, [Next]_vars
    PROVE  PublishedAtEnd' /\ PublishableIsBacked' /\ NeverRefused'
<1> USE DEF localVars, ledgerVars, Ends
<1>0. /\ LedgerInv /\ TypeOK /\ LoopIsAdmitted /\ ResultsMatchLedger /\ OneResult /\ FileKept
      /\ PublishedAtEnd /\ PublishableIsBacked /\ NeverRefused
  BY DEF IndInv, LedgerInv
<1>a. Next \/ UNCHANGED vars
  OBVIOUS
<1>1. NeverRefused'
  <2>1. ASSUME NEW effect \in {"nothing", "short", "unsynced"}, AppendFails(effect)
        PROVE  cause' # "refused"
    BY <1>0, <2>1 DEF AppendFails, AppendRaises, LoopIsAdmitted, NeverRefused
  <2>2. \/ \E effect \in {"nothing", "short", "unsynced"} : AppendFails(effect)
        \/ UNCHANGED cause
        \/ cause' \in {"probe", "interrupt"}
    BY <1>a DEF Next, RunStep, Preflight, Launch, LaunchRaises, AttemptEnds, AppendRecord,
                RecordResult, Publish, Interrupted, Terminated, vars
  <2> QED
    BY <1>0, <2>1, <2>2 DEF NeverRefused
<1>2. ASSUME NEW requestsFailed \in BOOLEAN, NEW goodput \in BOOLEAN,
             Publish(requestsFailed, goodput)
      PROVE  PublishedAtEnd' /\ PublishableIsBacked'
  <2>1. pc' = "published" /\ pc = "returned" /\ UNCHANGED ledgerVars
    BY <1>2 DEF Publish
  <2>2. ASSUME NEW p \in published', p.evidence = "publishable", NEW c \in Cells
        PROVE  LET lines == {i \in 1..Len(file) :
                               \E r \in file[i].record : r.cell = c /\ r.eligible}
               IN \E i \in lines : lines = {i} /\ \A r \in file[i].record :
                     r.status = "completed" /\ r.ordinal = PrimaryAttempt(records, c)
    <3>1. \A k \in Cells : Completed(k)
      BY <1>2, <2>2 DEF Publish
    <3>2. ~Spoiled
      BY <1>0, <3>1 DEF Spoiled, Completed, OneResult
    <3>3. Mirrored
      BY <1>0, <2>1, <3>2 DEF FileKept
    <3> records \in Seq(Record) /\ Len(records) \in Nat
      BY <1>0 DEF TypeOK
    <3>4. Len(file) = Len(records) /\ \A i \in 1..Len(records) : file[i].record = {records[i]}
      BY <3>3 DEF Mirrored
    <3>5. {i \in 1..Len(file) : \E r \in file[i].record : r.cell = c /\ r.eligible}
            = EligibleFor(records, c)
      BY <3>4 DEF EligibleFor, RecordsFor
    <3> QED
      BY <1>0, <3>1, <3>4, <3>5, CompletedIsRecorded
  <2>3. PublishableIsBacked'
    BY <2>1, <2>2 DEF PublishableIsBacked
  <2> QED
    BY <2>1, <2>3 DEF PublishedAtEnd
<1>3. CASE published = {} /\ UNCHANGED published
  BY <1>1, <1>3 DEF PublishedAtEnd, PublishableIsBacked
<1>4. CASE UNCHANGED <<pc, published, records, file>>
  BY <1>0, <1>1, <1>4 DEF PublishedAtEnd, PublishableIsBacked
<1> QED
  <2>1. \/ \E requestsFailed \in BOOLEAN, goodput \in BOOLEAN : Publish(requestsFailed, goodput)
        \/ pc # "published" /\ UNCHANGED published
        \/ UNCHANGED <<pc, published, records, file>>
    BY <1>a DEF Next, RunStep, Preflight, Launch, LaunchRaises, AttemptEnds, AppendRecord,
                AppendFails, RecordResult, Interrupted, Terminated, vars
  <2> QED
    BY <1>0, <1>1, <1>2, <1>3, <1>4, <2>1 DEF PublishedAtEnd

\* Every step of the campaign keeps the inductive invariant.
LEMMA StepInv == IndInv /\ [Next]_vars => IndInv'
<1> SUFFICES ASSUME IndInv, [Next]_vars PROVE IndInv'
  OBVIOUS
<1>1. LedgerInv'
  BY LedgerStep DEF IndInv
<1>2. StateRootsNameRecords' /\ LastRootIsCells'
  BY RootsStep DEF IndInv
<1>3. ResultsMatchLedger' /\ OneResult'
  BY ResultsStep DEF IndInv
<1>4. FileKept'
  BY FileStep DEF IndInv
<1>5. PublishedAtEnd' /\ PublishableIsBacked' /\ NeverRefused'
  BY PublishStep
<1> QED
  BY <1>1, <1>2, <1>3, <1>4, <1>5 DEF IndInv

\* The inductive invariant holds throughout.
LEMMA Invariance == Spec => []IndInv
<1> QED
  BY InitInv, StepInv, PTL DEF Spec

-----------------------------------------------------------------------------
(* Theorems. *)

\* Every variable of the campaign and its ledger keeps its type.
THEOREM TypeCorrect == Spec => []TypeOK
<1>1. IndInv => TypeOK
  BY DEF IndInv, LedgerInv
<1> QED
  BY <1>1, Invariance, PTL

\* Every attempt has a state root of its own, named by the ordinal of its record
\* (_run_attempt), whatever was interrupted, retried or refused before.
THEOREM RootsNameRecords == Spec => []StateRootsNameRecords
<1>1. IndInv => StateRootsNameRecords
  BY DEF IndInv
<1> QED
  BY <1>1, Invariance, PTL

\* A CellResult of CrossEngineController.run agrees with the ledger of frozen
\* retries it was derived from, and later cells never unsettle it.
THEOREM ResultsAgree == Spec => []ResultsMatchLedger
<1>1. IndInv => ResultsMatchLedger
  BY DEF IndInv
<1> QED
  BY <1>1, Invariance, PTL

\* AttemptLedger.append never refuses the controller's record: run() and append
\* decide alike whether a cell may be tried again.
THEOREM AppendIsNeverRefused == Spec => []NeverRefused
<1>1. IndInv => NeverRefused
  BY DEF IndInv
<1> QED
  BY <1>1, Invariance, PTL

\* Publishable evidence is backed line by line by attempts.jsonl, although an
\* append may fail, tear its line or reach the file unsynced.
THEOREM PublishedIsBacked == Spec => []PublishableIsBacked
<1>1. IndInv => PublishableIsBacked
  BY DEF IndInv
<1> QED
  BY <1>1, Invariance, PTL

\* The campaign's first state is a first state of the custody it promises.
LEMMA CustodyInit == Init => Custody!Init
<1> SUFFICES ASSUME Init PROVE Custody!Init
  OBVIOUS
<1>1. records = <<>>
  BY DEF Init
<1>2. \A c : RecordsFor(records, c) = {}
  BY <1>1 DEF RecordsFor
<1>3. \A c : Cardinality(RecordsFor(records, c)) = 0 /\ PrimaryAttempt(records, c) = None
  BY <1>2, FS_EmptySet, NoPrimary DEF EligibleFor
<1> QED
  BY <1>1, <1>3 DEF Custody!Init, Custody!Unsettled, None

\* A successful append is an attempt of custody's, void or settling; every other
\* step leaves custody as it is.
LEMMA CustodyStep ==
    IndInv /\ [Next]_vars =>
        [Custody!Next]_<<Len(records),
                         [c \in Cells |-> Cardinality(RecordsFor(records, c))],
                         [c \in Cells |-> PrimaryAttempt(records, c)]>>
<1> SUFFICES ASSUME IndInv, [Next]_vars,
                    ~(/\ UNCHANGED Len(records)
                      /\ UNCHANGED [c \in Cells |-> Cardinality(RecordsFor(records, c))]
                      /\ UNCHANGED [c \in Cells |-> PrimaryAttempt(records, c)])
             PROVE  Custody!Next
  OBVIOUS
<1> DEFINE tries == [c \in Cells |-> Cardinality(RecordsFor(records, c))]
           primary == [c \in Cells |-> PrimaryAttempt(records, c)]
<1>0. LedgerInv /\ TypeOK
  BY DEF IndInv, LedgerInv
<1> records \in Seq(Record) /\ cell \in Cells
  BY <1>0 DEF TypeOK
<1>1. AppendRecord
  BY OnlyAppendRecords
<1>2. /\ records' = Append(records, NewRecord) /\ NewRecord \in Record /\ NewRecord.cell = cell
      /\ Len(records') = Len(records) + 1
      /\ EligibleFor(records, cell) = {} /\ PrimaryAttempt(records, cell) = None
      /\ Cardinality(RecordsFor(records, cell)) < Limit
  BY <1>0, <1>1, AppendFacts DEF AppendRecord
<1>3. tries' = [tries EXCEPT ![cell] = @ + 1]
  <2>1. \A c \in Cells : Cardinality(RecordsFor(records', c)) =
            IF c = cell THEN Cardinality(RecordsFor(records, c)) + 1
            ELSE Cardinality(RecordsFor(records, c))
    BY <1>2, AppendCount, AppendFor
  <2> QED
    BY <2>1
<1>4. ASSUME NEW c \in Cells, c # cell
      PROVE  PrimaryAttempt(records', c) = PrimaryAttempt(records, c)
  <2>1. EligibleFor(records', c) = EligibleFor(records, c)
    BY <1>2, <1>4, AppendFor
  <2> QED
    BY ONLY <2>1 DEF PrimaryAttempt
<1>5. CASE NewRecord.eligible
  <2>1. EligibleFor(records', cell) = {Len(records) + 1}
    BY <1>2, <1>5, AppendFor
  <2>2. records' \in Seq(Record)
    BY <1>2
  <2>3. PrimaryAttempt(records', cell) = Len(records)
    BY <2>1, <2>2, SolePrimary
  <2>4. primary' = [primary EXCEPT ![cell] = Len(records)]
    BY <1>4, <2>3
  <2> QED
    BY <1>2, <1>3, <2>4 DEF Custody!Next, Custody!Settle, Custody!Attempt, Custody!Unsettled, None
<1>6. CASE ~NewRecord.eligible
  <2>1. EligibleFor(records', cell) = {}
    <3>1. EligibleFor(records', cell) =
            EligibleFor(records, cell) \cup (IF NewRecord.eligible THEN {Len(records) + 1} ELSE {})
      BY <1>2, AppendFor
    <3> QED
      BY <1>2, <1>6, <3>1
  <2>2. PrimaryAttempt(records', cell) = None
    BY <2>1, NoPrimary
  <2>3. primary' = primary
    BY <1>2, <1>4, <2>2
  <2> QED
    BY <1>2, <1>3, <2>3 DEF Custody!Next, Custody!Void, Custody!Attempt, Custody!Unsettled, None
<1> QED
  BY <1>5, <1>6

\* The attempt ledger keeps the custody it promises, for every campaign: ordinals
\* without gap, at most Limit attempts of a cell, and a primary nothing displaces.
THEOREM LedgerKeepsCustody == Spec => CustodyKept
<1> QED
  BY CustodyInit, CustodyStep, Invariance, PTL DEF Spec, CustodyKept, Custody!Spec
=============================================================================
