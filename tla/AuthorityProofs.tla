---------------------------- MODULE AuthorityProofs ----------------------------
(***************************************************************************)
(* The two components that decide what counts as accepted.                  *)
(*                                                                         *)
(* Promotion is safe for any number of promoters: the lock serialises them, *)
(* what is published is complete, a receipt is returned only for it, and    *)
(* they never all turn each other away.                                     *)
(*                                                                         *)
(* The coverage compiler, for any callers, inputs and charges: one call at  *)
(* most gets past the permit, the arena balances at every point, a plan     *)
(* enforces every required obligation of its ledger, and a failure reports  *)
(* the arena as it was when it happened.                                    *)
(***************************************************************************)
EXTENDS BaselinePromotion, CoverageCompiler, FiniteSetTheorems, TLAPS

-----------------------------------------------------------------------------
(* Baseline promotion *)

\* What a promoter has in its staging directory, by where it is.
StagingFilled ==
    \A p \in Promoters :
        /\ pc[p] \in {"start", "stage"} => staging[p] = Absent
        /\ pc[p] = "write" => staging[p] < FileCount
        /\ pc[p] \in {"lock", "check", "rename"} => staging[p] = FileCount

\* Only the promoter of the target has committed, and it is past its rename.
CommitMeansTarget ==
    /\ \A p \in Promoters :
         /\ p \in committed => target = p
         /\ pc[p] = "returned" => p \in committed
    /\ target # NoOne => pc[target] \in {"unlock", "cleanup"} \cup Over

\* Where a promoter is once it has had the lock.
Past == {"check", "rename", "unlock", "cleanup"} \cup Over

\* Whoever was turned away was turned away by the target or by a promoter that
\* had the lock and was not turned away itself; the lock that stays behind with
\* a promoter that was is of no promotion that could still publish.
TurnedAway ==
    /\ \A p \in Promoters : p \in lost => pc[p] \in {"unlock", "cleanup"} \cup Over
    /\ lock # NoOne => pc[lock] \in Past
    /\ lock # NoOne /\ lock \in lost => target # NoOne
    /\ lost # {} => target # NoOne \/ \E q \in Promoters \ lost : pc[q] \in Past

IndInv == /\ TypeOK /\ LockSerialises /\ NothingLeftBehind /\ StagingFilled
          /\ PublishedIsComplete /\ CommitMeansTarget /\ TurnedAway

USE DEF FileCount, Absent, Over

\* The first state: no files, no lock, no target.
LEMMA InitInv == Init => IndInv
<1> SUFFICES ASSUME Init PROVE IndInv
  OBVIOUS
<1> USE PromoterAssumption DEF Init
<1>1. TypeOK
  BY DEF TypeOK
<1>2. LockSerialises /\ NothingLeftBehind
  BY DEF LockSerialises, NothingLeftBehind, Critical
<1>3. StagingFilled /\ PublishedIsComplete
  BY DEF StagingFilled, PublishedIsComplete
<1>4. CommitMeansTarget /\ TurnedAway
  BY DEF CommitMeansTarget, TurnedAway
<1> QED
  BY <1>1, <1>2, <1>3, <1>4 DEF IndInv

\* No step of any promoter, and no stuttering breaks it.
LEMMA StepInv == IndInv /\ [Next]_vars => IndInv'
<1> SUFFICES ASSUME IndInv, [Next]_vars PROVE IndInv'
  OBVIOUS
<1> USE PromoterAssumption
<1>0. TypeOK /\ LockSerialises /\ NothingLeftBehind /\ StagingFilled /\ PublishedIsComplete
        /\ CommitMeansTarget /\ TurnedAway
  BY DEF IndInv
<1> USE DEF Goto, fileVars, Critical
<1>1. ASSUME NEW p \in Promoters, PromoterStep(p) \/ PromoterFails(p) PROVE IndInv'
  <2>1. CASE MakeReceipt(p)
    <3> USE <2>1 DEF MakeReceipt
    <3>1. TypeOK'
      BY <1>0 DEF TypeOK
    <3>2. LockSerialises' /\ NothingLeftBehind'
      BY <1>0 DEF TypeOK, LockSerialises, NothingLeftBehind
    <3>3. StagingFilled' /\ PublishedIsComplete'
      BY <1>0 DEF TypeOK, StagingFilled, PublishedIsComplete
    <3>4. CommitMeansTarget'
      BY <1>0 DEF TypeOK, CommitMeansTarget
    <3>5. TurnedAway'
      BY <1>0 DEF TypeOK, TurnedAway, Past
    <3> QED
      BY <3>1, <3>2, <3>3, <3>4, <3>5 DEF IndInv
  <2>2. CASE MakeStaging(p)
    <3> USE <2>2 DEF MakeStaging
    <3>1. TypeOK'
      BY <1>0 DEF TypeOK
    <3>2. LockSerialises' /\ NothingLeftBehind'
      BY <1>0 DEF TypeOK, LockSerialises, NothingLeftBehind
    <3>3. StagingFilled' /\ PublishedIsComplete'
      BY <1>0 DEF TypeOK, StagingFilled, PublishedIsComplete
    <3>4. CommitMeansTarget'
      BY <1>0 DEF TypeOK, CommitMeansTarget
    <3>5. TurnedAway'
      BY <1>0 DEF TypeOK, TurnedAway, Past
    <3> QED
      BY <3>1, <3>2, <3>3, <3>4, <3>5 DEF IndInv
  <2>3. CASE WriteStaged(p)
    <3> USE <2>3 DEF WriteStaged
    <3>1. TypeOK'
      BY <1>0 DEF TypeOK, StagingFilled
    <3>2. LockSerialises' /\ NothingLeftBehind'
      BY <1>0 DEF TypeOK, LockSerialises, NothingLeftBehind
    <3>3. StagingFilled' /\ PublishedIsComplete'
      BY <1>0 DEF TypeOK, StagingFilled, PublishedIsComplete
    <3>4. CommitMeansTarget'
      BY <1>0 DEF TypeOK, CommitMeansTarget
    <3>5. TurnedAway'
      BY <1>0 DEF TypeOK, TurnedAway, Past
    <3> QED
      BY <3>1, <3>2, <3>3, <3>4, <3>5 DEF IndInv
  <2>4. CASE AcquireLock(p)
    <3> USE <2>4 DEF AcquireLock
    <3>1. TypeOK'
      BY <1>0 DEF TypeOK
    <3>2. LockSerialises' /\ NothingLeftBehind'
      BY <1>0 DEF TypeOK, LockSerialises, NothingLeftBehind
    <3>3. StagingFilled' /\ PublishedIsComplete'
      BY <1>0 DEF TypeOK, StagingFilled, PublishedIsComplete
    <3>4. CommitMeansTarget'
      BY <1>0 DEF TypeOK, CommitMeansTarget
    <3>5. TurnedAway'
      BY <1>0 DEF TypeOK, TurnedAway, Past
    <3> QED
      BY <3>1, <3>2, <3>3, <3>4, <3>5 DEF IndInv
  <2>5. CASE LockRefused(p)
    <3> USE <2>5 DEF LockRefused
    <3>1. TypeOK'
      BY <1>0 DEF TypeOK
    <3>2. LockSerialises' /\ NothingLeftBehind'
      BY <1>0 DEF TypeOK, LockSerialises, NothingLeftBehind
    <3>3. StagingFilled' /\ PublishedIsComplete'
      BY <1>0 DEF TypeOK, StagingFilled, PublishedIsComplete
    <3>4. CommitMeansTarget'
      BY <1>0 DEF TypeOK, CommitMeansTarget
    <3>5. TurnedAway'
      BY <1>0 DEF TypeOK, TurnedAway, Past
    <3> QED
      BY <3>1, <3>2, <3>3, <3>4, <3>5 DEF IndInv
  <2>6. CASE CheckTarget(p)
    <3> USE <2>6 DEF CheckTarget
    <3>1. TypeOK'
      BY <1>0 DEF TypeOK
    <3>2. LockSerialises' /\ NothingLeftBehind'
      BY <1>0 DEF TypeOK, LockSerialises, NothingLeftBehind
    <3>3. StagingFilled' /\ PublishedIsComplete'
      BY <1>0 DEF TypeOK, StagingFilled, PublishedIsComplete
    <3>4. CommitMeansTarget'
      BY <1>0 DEF TypeOK, CommitMeansTarget
    <3>5. TurnedAway'
      BY <1>0 DEF TypeOK, TurnedAway, Past
    <3> QED
      BY <3>1, <3>2, <3>3, <3>4, <3>5 DEF IndInv
  <2>7. CASE Publish(p)
    <3> USE <2>7 DEF Publish
    <3>1. TypeOK'
      BY <1>0 DEF TypeOK, StagingFilled
    <3>2. LockSerialises' /\ NothingLeftBehind'
      BY <1>0 DEF TypeOK, LockSerialises, NothingLeftBehind
    <3>3. StagingFilled' /\ PublishedIsComplete'
      BY <1>0 DEF TypeOK, StagingFilled, PublishedIsComplete
    <3>4. CommitMeansTarget'
      BY <1>0 DEF TypeOK, CommitMeansTarget
    <3>5. TurnedAway'
      BY <1>0 DEF TypeOK, TurnedAway, Past
    <3> QED
      BY <3>1, <3>2, <3>3, <3>4, <3>5 DEF IndInv
  <2>8. CASE Unlock(p)
    <3> USE <2>8 DEF Unlock
    <3>1. TypeOK'
      BY <1>0 DEF TypeOK
    <3>2. LockSerialises' /\ NothingLeftBehind'
      BY <1>0 DEF TypeOK, LockSerialises, NothingLeftBehind
    <3>3. StagingFilled' /\ PublishedIsComplete'
      BY <1>0 DEF TypeOK, StagingFilled, PublishedIsComplete
    <3>4. CommitMeansTarget'
      BY <1>0 DEF TypeOK, CommitMeansTarget
    <3>5. TurnedAway'
      BY <1>0 DEF TypeOK, TurnedAway, Past
    <3> QED
      BY <3>1, <3>2, <3>3, <3>4, <3>5 DEF IndInv
  <2>9. CASE Cleanup(p)
    <3> USE <2>9 DEF Cleanup
    <3>1. TypeOK'
      BY <1>0 DEF TypeOK
    <3>2. LockSerialises' /\ NothingLeftBehind'
      BY <1>0 DEF TypeOK, LockSerialises, NothingLeftBehind
    <3>3. StagingFilled' /\ PublishedIsComplete'
      BY <1>0 DEF TypeOK, StagingFilled, PublishedIsComplete
    <3>4. CommitMeansTarget'
      BY <1>0 DEF TypeOK, CommitMeansTarget
    <3>5. TurnedAway'
      BY <1>0 DEF TypeOK, TurnedAway, Past
    <3> QED
      BY <3>1, <3>2, <3>3, <3>4, <3>5 DEF IndInv
  <2>10. CASE PromotionRefused(p)
    <3> USE <2>10 DEF PromotionRefused
    <3>1. TypeOK'
      BY <1>0 DEF TypeOK
    <3>2. LockSerialises' /\ NothingLeftBehind'
      BY <1>0 DEF TypeOK, LockSerialises, NothingLeftBehind, StagingFilled
    <3>3. StagingFilled' /\ PublishedIsComplete'
      BY <1>0 DEF TypeOK, StagingFilled, PublishedIsComplete
    <3>4. CommitMeansTarget'
      BY <1>0 DEF TypeOK, CommitMeansTarget
    <3>5. TurnedAway'
      BY <1>0 DEF TypeOK, TurnedAway, Past
    <3> QED
      BY <3>1, <3>2, <3>3, <3>4, <3>5 DEF IndInv
  <2>11. CASE StepFails(p)
    <3> USE <2>11 DEF StepFails
    <3>1. TypeOK'
      BY <1>0 DEF TypeOK
    <3>2. LockSerialises' /\ NothingLeftBehind'
      BY <1>0 DEF TypeOK, LockSerialises, NothingLeftBehind
    <3>3. StagingFilled' /\ PublishedIsComplete'
      BY <1>0 DEF TypeOK, StagingFilled, PublishedIsComplete
    <3>4. CommitMeansTarget'
      BY <1>0 DEF TypeOK, CommitMeansTarget
    <3>5. TurnedAway'
      BY <1>0 DEF TypeOK, TurnedAway, Past
    <3> QED
      BY <3>1, <3>2, <3>3, <3>4, <3>5 DEF IndInv
  <2>12. CASE RemovalFails(p)
    <3> USE <2>12 DEF RemovalFails
    <3>1. TypeOK'
      BY <1>0 DEF TypeOK
    <3>2. LockSerialises' /\ NothingLeftBehind'
      BY <1>0 DEF TypeOK, LockSerialises, NothingLeftBehind
    <3>3. StagingFilled' /\ PublishedIsComplete'
      BY <1>0 DEF TypeOK, StagingFilled, PublishedIsComplete
    <3>4. CommitMeansTarget'
      BY <1>0 DEF TypeOK, CommitMeansTarget
    <3>5. TurnedAway'
      BY <1>0 DEF TypeOK, TurnedAway, Past
    <3> QED
      BY <3>1, <3>2, <3>3, <3>4, <3>5 DEF IndInv
  <2>13. CASE Killed(p)
    <3> USE <2>13 DEF Killed
    <3>1. TypeOK'
      BY <1>0 DEF TypeOK
    <3>2. LockSerialises' /\ NothingLeftBehind'
      BY <1>0 DEF TypeOK, LockSerialises, NothingLeftBehind
    <3>3. StagingFilled' /\ PublishedIsComplete'
      BY <1>0 DEF TypeOK, StagingFilled, PublishedIsComplete
    <3>4. CommitMeansTarget'
      BY <1>0 DEF TypeOK, CommitMeansTarget
    <3>5. TurnedAway'
      BY <1>0 DEF TypeOK, TurnedAway, Past
    <3> QED
      BY <3>1, <3>2, <3>3, <3>4, <3>5 DEF IndInv
  <2> QED
    BY <1>1, <2>1, <2>2, <2>3, <2>4, <2>5, <2>6, <2>7, <2>8, <2>9, <2>10, <2>11, <2>12,
       <2>13 DEF PromoterStep, PromoterFails
<1>2. CASE UNCHANGED vars
  BY <1>0, <1>2 DEF vars, Past, IndInv, TypeOK, LockSerialises, NothingLeftBehind, StagingFilled,
     PublishedIsComplete, CommitMeansTarget, TurnedAway, Past
<1> QED
  BY <1>1, <1>2 DEF Next, Terminated

\* The inductive invariant holds throughout.
THEOREM Inductive == Spec => []IndInv
  BY InitInv, StepInv, PTL DEF Spec

\* Every state is well typed, for any promoters.
THEOREM TypeCorrect == Spec => []TypeOK
<1>1. IndInv => TypeOK
  BY DEF IndInv
<1> QED
  BY <1>1, Inductive, PTL

\* The create-only lock of promote_baseline serialises any number of promoters,
\* whichever of them fail or are killed.
THEOREM LockIsExclusive == Spec => []LockSerialises
<1>1. IndInv => LockSerialises
  BY DEF IndInv
<1> QED
  BY <1>1, Inductive, PTL

\* No promotion that failed leaves its lock or its staging directory, unless it
\* was killed or a removal failed.
THEOREM FailuresCleanUp == Spec => []NothingLeftBehind
<1>1. IndInv => NothingLeftBehind
  BY DEF IndInv
<1> QED
  BY <1>1, Inductive, PTL

\* Readers of the registry see no baseline or a complete one.
THEOREM NeverPartial == Spec => []PublishedIsComplete
<1>1. IndInv => PublishedIsComplete
  BY DEF IndInv
<1> QED
  BY <1>1, Inductive, PTL

\* promote_baseline returns a receipt only to the promoter whose baseline is the
\* published one.
THEOREM OneWinner == Spec => []ReceiptIsOfTarget
<1>1. IndInv => ReceiptIsOfTarget
  BY DEF IndInv, CommitMeansTarget, ReceiptIsOfTarget
<1> QED
  BY <1>1, Inductive, PTL

\* However many promoters race, they never all turn each other away: the
\* baseline exists, or a promoter failed or was killed for a reason of its own.
THEOREM RaceIsWon == Spec => []RaceHasWinner
<1>1. IndInv => RaceHasWinner
  BY PromoterAssumption DEF IndInv, TypeOK, TurnedAway, Past, CommitMeansTarget, RaceHasWinner
<1> QED
  BY <1>1, Inductive, PTL

-----------------------------------------------------------------------------
(* The permit of a compilation *)

\* Whoever consumed the permit of a process and has not been refused since.
Holds(c) == call[c] \in {"consumed", "running"} \/ outcome[c].kind \in {"plan", "failure"}

PermitInv ==
    /\ call = [c \in Callers |-> call[c]] /\ outcome = [c \in Callers |-> outcome[c]]
    /\ consumed \in [BOOLEAN -> BOOLEAN]
    /\ \A c \in Callers : Holds(c) => consumed[InIssuer(c)] = TRUE
    /\ \A c, d \in Callers : Holds(c) /\ Holds(d) /\ InIssuer(c) = InIssuer(d) => c = d
    /\ \A c \in Callers : Ran(c) => InIssuer(c) = TRUE
    /\ owner # NoCaller => owner \in Callers
    /\ owner # NoCaller /\ phase # "done" => call[owner] = "running"

\* What every step of the pipeline does to its caller.
PipelineSteps ==
    /\ owner # NoCaller /\ owner' = owner /\ consumed' = consumed /\ input' = input /\ phase # "done"
    /\ \/ call' = call /\ outcome' = outcome
       \/ /\ phase' = "done" /\ call' = [call EXCEPT ![owner] = "returned"]
          /\ \E r : outcome' = [outcome EXCEPT ![owner] = r]

\* Every step of the pipeline is its owner's, and its end is the end of the call.
LEMMA PipelineKeeps == Pipeline => PipelineSteps
<1> USE DEF PipelineSteps, callVars, At, Proceed, Repeat, Stop, Raise, Fail,
            Return, IndexCap, AllocationFailed
<1>1. EntryPreflight => PipelineSteps BY DEF EntryPreflight
<1>2. HashInput => PipelineSteps BY DEF HashInput
<1>3. CompareDigests => PipelineSteps BY DEF CompareDigests
<1>4. AllocateScratch => PipelineSteps BY DEF AllocateScratch
<1>5. ParsePhaseA => PipelineSteps BY DEF ParsePhaseA, PassOr
<1>6. Admission => PipelineSteps BY DEF Admission
<1>7. ChargeParsed => PipelineSteps BY DEF ChargeParsed
<1>8. ParsedAll => PipelineSteps BY DEF ParsedAll
<1>9. VisitCaseId => PipelineSteps BY DEF VisitCaseId
<1>10. ValidateStages => PipelineSteps BY DEF ValidateStages, PassOr
<1>11. SourceCommitments => PipelineSteps BY DEF SourceCommitments
<1>12. ValidateRelations => PipelineSteps BY DEF ValidateRelations
<1>13. RetainDerived => PipelineSteps BY DEF RetainDerived
<1>14. DerivedAll => PipelineSteps BY DEF DerivedAll
<1>15. ReserveHashBuffer => PipelineSteps BY DEF ReserveHashBuffer
<1>16. DigestStream => PipelineSteps BY DEF DigestStream
<1>17. DigestedAll => PipelineSteps BY DEF DigestedAll
<1>18. EnumerateKeys => PipelineSteps BY DEF EnumerateKeys
<1>19. BuildPlan => PipelineSteps BY DEF BuildPlan
<1> QED BY <1>1, <1>2, <1>3, <1>4, <1>5, <1>6, <1>7, <1>8, <1>9, <1>10, <1>11, <1>12, <1>13,
           <1>14, <1>15, <1>16, <1>17, <1>18, <1>19 DEF Pipeline

\* At first nobody holds the permit.
LEMMA PermitStarts == CompilerInit => PermitInv
BY CallersAssumption DEF CompilerInit, PermitInv, Holds, Ran, NoOutcome

\* The pipeline takes the permit from nobody and gives it to nobody.
LEMMA PermitPipeline == PermitInv /\ PipelineSteps => PermitInv'
BY CallersAssumption DEF PermitInv, PipelineSteps, Holds, Ran

\* What a refused call raised is neither a plan nor a failure.
LEMMA RaisedKind == ASSUME NEW e PROVE Raised(e).kind = "raised"
BY DEF Raised, NoOutcome

\* A call that is refused before the pipeline neither holds the permit nor ran.
LEMMA PermitRefused ==
    ASSUME NEW c \in Callers, NEW e, PermitInv, call[c] \in {"idle", "consumed"}, Return(c,
           Raised(e)),
           consumed' = consumed, owner' = owner, phase' = phase
    PROVE  PermitInv'
<1>1. Raised(e).kind \notin {"plan", "failure"}
  BY RaisedKind
<1>2. /\ call' = [call EXCEPT ![c] = "returned"]
      /\ outcome' = [outcome EXCEPT ![c] = Raised(e)]
  BY DEF Return
<1>3. /\ call' = [d \in Callers |-> call'[d]] /\ outcome' = [d \in Callers |-> outcome'[d]]
      /\ \A d \in Callers : d # c => call'[d] = call[d] /\ outcome'[d] = outcome[d]
      /\ call'[c] = "returned" /\ outcome'[c] = Raised(e)
  BY <1>2 DEF PermitInv
<1>4. \A d \in Callers : (Holds(d)' => Holds(d)) /\ (Ran(d)' => Ran(d))
  BY <1>1, <1>3 DEF Holds, Ran
<1>5. owner = c => phase = "done" \/ owner = NoCaller
  BY DEF PermitInv
<1> QED BY <1>3, <1>4, <1>5 DEF PermitInv

\* Consuming the permit: only the first caller of a process becomes its holder.
LEMMA PermitConsume == ASSUME NEW c \in Callers, PermitInv, Consume(c) PROVE PermitInv'
<1>1. CASE consumed[InIssuer(c)]
  BY <1>1, PermitRefused DEF Consume
<1>2. CASE ~consumed[InIssuer(c)]
  <2>1. /\ call[c] = "idle" /\ consumed' = [consumed EXCEPT ![InIssuer(c)] = TRUE]
        /\ call' = [call EXCEPT ![c] = "consumed"]
        /\ outcome' = outcome /\ owner' = owner /\ phase' = phase
    BY <1>2 DEF Consume
  <2>2. InIssuer(c) \in BOOLEAN
    BY CallersAssumption
  <2>3. \A d \in Callers : Holds(d)' => d = c \/ Holds(d)
    BY <2>1 DEF Holds, PermitInv
  <2>4. \A d \in Callers : Holds(d) => InIssuer(d) # InIssuer(c)
    BY <1>2 DEF PermitInv
  <2>5. \A d \in Callers : Ran(d)' => Ran(d)
    BY <2>1 DEF Ran, PermitInv
  <2>6. consumed' \in [BOOLEAN -> BOOLEAN] /\ consumed'[InIssuer(c)] = TRUE
        /\ \A b \in BOOLEAN : consumed[b] = TRUE => consumed'[b] = TRUE
    BY <2>1, <2>2 DEF PermitInv
  <2>7. \A d \in Callers : Holds(d)' => consumed'[InIssuer(d)] = TRUE
    BY <2>3, <2>6, CallersAssumption DEF PermitInv
  <2> QED BY <2>1, <2>3, <2>4, <2>5, <2>6, <2>7 DEF PermitInv
<1> QED BY <1>1, <1>2

\* The entry check admits a holder of the issuing process only.
LEMMA PermitCheck == ASSUME NEW c \in Callers, PermitInv, CheckEntry(c) PROVE PermitInv'
<1>1. CASE ~Admitted(c)
  BY <1>1, PermitRefused DEF CheckEntry, callVars
<1>2. CASE Admitted(c)
  <2>1. /\ call[c] = "consumed" /\ call' = [call EXCEPT ![c] = "running"] /\ owner' = c
        /\ outcome' = outcome /\ phase' = phase /\ consumed' = consumed /\ InIssuer(c) = TRUE
    BY <1>2, CallersAssumption DEF CheckEntry, callVars, Admitted
  <2>2. \A d \in Callers : Holds(d)' = Holds(d) /\ (Ran(d)' => d = c \/ Ran(d))
    BY <2>1 DEF Holds, Ran, PermitInv
  <2> QED BY <2>1, <2>2 DEF PermitInv
<1> QED BY <1>1, <1>2

\* The holder of one process is one caller, and only it ran.
LEMMA PermitUnique == PermitInv => PermitRunsOnce
BY DEF PermitInv, PermitRunsOnce, Holds, Ran

\* However the callers race and although a fork holds an unconsumed copy of
\* the permit, one call at most reaches the pipeline (CompilePermit.consume
\* and the process check behind it).
THEOREM PermitOnce == CompilerSpec => []PermitRunsOnce
<1>1. PermitInv /\ [CompilerNext]_compilerVars => PermitInv'
  <2>1. CASE UNCHANGED compilerVars
    BY <2>1 DEF compilerVars, callVars, PermitInv, Holds, Ran
  <2> QED BY <2>1, PipelineKeeps, PermitPipeline, PermitConsume, PermitCheck DEF CompilerNext
<1> QED BY <1>1, PermitStarts, PermitUnique, PTL DEF CompilerSpec

-----------------------------------------------------------------------------
(* Numbers, arrays and joined sequences *)

\* A set of natural numbers has a least one.
LEMMA LeastNumber ==
    ASSUME NEW T \in SUBSET Nat, T # {}
    PROVE  \E n \in T : \A m \in T : n <= m
<1>1. PICK n \in T : \A m \in T : ~(<<m, n>> \in OpToRel(<, Nat))
  BY WFMin, NatLessThanWellFounded
<1>2. ASSUME NEW m \in T, ~(n <= m) PROVE FALSE
  <2>1. m \in Nat /\ n \in Nat /\ m < n
    BY <1>2
  <2>2. <<m, n>> \in OpToRel(<, Nat)
    BY <2>1 DEF OpToRel
  <2> QED
    BY <1>1, <2>2
<1> QED
  BY <1>2

\* A set of positions has a greatest one, and Max is that.
LEMMA Greatest ==
    ASSUME NEW n \in Nat, NEW s \in SUBSET (1..n), s # {}
    PROVE  Max(s) \in s /\ \A x \in s : x <= Max(s)
<1> DEFINE T == {n - x : x \in s}
<1>1. PICK m \in T : \A k \in T : m <= k
  <2>1. \A x \in s : x \in 1..n /\ n - x \in Nat
    OBVIOUS
  <2>2. T \in SUBSET Nat /\ T # {}
    BY <2>1
  <2> HIDE DEF T
  <2> QED
    BY <2>2, LeastNumber
<1>2. PICK x \in s : m = n - x
  OBVIOUS
<1>3. \A y \in s : n - x <= n - y
  BY <1>1, <1>2
<1>4. \A y \in s : x >= y
  BY <1>3
<1> QED
  BY <1>4 DEF Max

\* f joins the first n of the sequences one after the other.
Joins(seqs, n, f) == \A i \in 1..n : f[i] = IF i = 1 THEN seqs[i] ELSE f[i - 1] \o seqs[i]

\* Any number of sequences can be joined.
LEMMA JoinExists ==
    ASSUME NEW seqs, NEW n \in Nat
    PROVE  \E f : Joins(seqs, n, f)
<1> DEFINE Bad == {m \in Nat : ~\E f : Joins(seqs, m, f)}
<1> SUFFICES ASSUME Bad # {} PROVE FALSE
  OBVIOUS
<1>1. PICK m \in Bad : \A k \in Bad : m <= k
  <2>1. Bad \in SUBSET Nat
    OBVIOUS
  <2> HIDE DEF Bad
  <2> QED BY <2>1, LeastNumber
<1>2. m \in Nat /\ ~\E f : Joins(seqs, m, f)
  OBVIOUS
<1>3. m # 0
  BY <1>2 DEF Joins
<1>4. m - 1 \in Nat /\ m - 1 \notin Bad
  <2> HIDE DEF Bad
  <2> QED BY <1>1, <1>2, <1>3
<1>5. PICK f : Joins(seqs, m - 1, f)
  BY <1>4
<1> DEFINE last == IF m = 1 THEN seqs[m] ELSE f[m - 1] \o seqs[m]
           g == [i \in 1..m |-> IF i = m THEN last ELSE f[i]]
<1>6. ASSUME NEW i \in 1..m PROVE g[i] = IF i = 1 THEN seqs[i] ELSE g[i - 1] \o seqs[i]
  <2>1. CASE i = m
    <3>1. m # 1 => g[m - 1] = f[m - 1]
      BY <1>2, <1>3
    <3>2. g[i] = last
      BY <2>1, <1>2, <1>3
    <3> HIDE DEF g
    <3> QED BY <2>1, <3>1, <3>2
  <2>2. CASE i # m
    <3>1. i \in 1..(m - 1) /\ g[i] = f[i]
      BY <1>2, <2>2
    <3>2. i # 1 => g[i - 1] = f[i - 1]
      BY <1>2, <3>1
    <3> HIDE DEF g
    <3> QED BY <1>5, <3>1, <3>2 DEF Joins
  <2> QED BY <2>1, <2>2
<1> HIDE DEF g
<1>7. Joins(seqs, m, g)
  BY <1>6 DEF Joins
<1> QED BY <1>2, <1>7

\* FlattenSeq of a nonempty sequence is the last of the joins.
LEMMA FlattenIs ==
    ASSUME NEW seqs, Len(seqs) \in Nat, Len(seqs) # 0
    PROVE  \E f : FlattenSeq(seqs) = f[Len(seqs)] /\ Joins(seqs, Len(seqs), f)
<1> DEFINE Eq(f) == f = [i \in 1..Len(seqs) |-> IF i = 1 THEN seqs[i] ELSE f[i - 1] \o seqs[i]]
<1>1. PICK f : Joins(seqs, Len(seqs), f)
  BY JoinExists
<1> DEFINE g == [i \in 1..Len(seqs) |-> f[i]]
<1>2. ASSUME NEW i \in 1..Len(seqs) PROVE g[i] = IF i = 1 THEN seqs[i] ELSE g[i - 1] \o seqs[i]
  <2>1. g[i] = f[i] /\ (i # 1 => g[i - 1] = f[i - 1])
    OBVIOUS
  <2> HIDE DEF g
  <2> QED BY <1>1, <2>1 DEF Joins
<1>3. g = [i \in 1..Len(seqs) |-> g[i]]
  OBVIOUS
<1> HIDE DEF g
<1>4. Eq(g)
  BY <1>2, <1>3
<1>5. PICK h : h = CHOOSE f1 : Eq(f1)
  OBVIOUS
<1>6. Eq(h)
  BY <1>4, <1>5
<1>7. FlattenSeq(seqs) = (CHOOSE f1 : Eq(f1))[Len(seqs)]
  BY DEF FlattenSeq
<1>8. Joins(seqs, Len(seqs), h)
  BY <1>6 DEF Joins
<1> QED BY <1>5, <1>7, <1>8

\* Joining sequences over a set gives a sequence over it.
LEMMA FlattenType ==
    ASSUME NEW S, NEW seqs \in Seq(Seq(S))
    PROVE  FlattenSeq(seqs) \in Seq(S)
<1>1. CASE Len(seqs) = 0
  <2>1. FlattenSeq(seqs) = seqs
    BY <1>1 DEF FlattenSeq
  <2>2. seqs = << >>
    BY <1>1
  <2> QED BY <2>1, <2>2
<1>2. CASE Len(seqs) # 0
  <2>1. Len(seqs) \in Nat
    OBVIOUS
  <2>2. PICK f : FlattenSeq(seqs) = f[Len(seqs)] /\ Joins(seqs, Len(seqs), f)
    BY <1>2, <2>1, FlattenIs
  <2> DEFINE Bad == {m \in 1..Len(seqs) : f[m] \notin Seq(S)}
  <2>3. ASSUME Bad # {} PROVE FALSE
    <3>1. PICK m \in Bad : \A k \in Bad : m <= k
      <4>1. Bad \in SUBSET Nat
        OBVIOUS
      <4> HIDE DEF Bad
      <4> QED BY <2>3, <4>1, LeastNumber
    <3>2. m \in 1..Len(seqs) /\ f[m] \notin Seq(S) /\ seqs[m] \in Seq(S)
      OBVIOUS
    <3>3. m # 1 => m - 1 \notin Bad
      <4> HIDE DEF Bad
      <4> QED BY <3>1, <3>2
    <3>4. f[m] = IF m = 1 THEN seqs[m] ELSE f[m - 1] \o seqs[m]
      BY <2>2, <3>2 DEF Joins
    <3> QED BY <3>2, <3>3, <3>4
  <2> QED BY <1>2, <2>1, <2>2, <2>3
<1> QED BY <1>1, <1>2

-----------------------------------------------------------------------------
(* What is finite in a ledger, and what is derived from it *)

\* The image of a finite set under a function is finite.
LEMMA ImageFinite ==
    ASSUME NEW S, IsFiniteSet(S), NEW f
    PROVE  /\ IsFiniteSet({f[x] : x \in S})
           /\ Cardinality({f[x] : x \in S}) <= Cardinality(S)
<1> DEFINE T == {f[x] : x \in S}
           g == [x \in S |-> f[x]]
<1>1. g \in Surjection(S, T)
  BY DEF Surjection
<1> HIDE DEF g, T
<1>2. IsFiniteSet(T) /\ Cardinality(T) <= Cardinality(S)
  BY <1>1, FS_Surjection
<1> QED BY <1>2 DEF T

\* The positions and the elements of an array are finite sets.
LEMMA ArrayFinite ==
    ASSUME NEW s, IsArray(s)
    PROVE  /\ Len(s) \in Nat /\ DOMAIN s = 1..Len(s)
           /\ IsFiniteSet(DOMAIN s) /\ Cardinality(DOMAIN s) = Len(s)
           /\ IsFiniteSet(ToSet(s))
<1>1. Len(s) \in Nat /\ DOMAIN s = 1..Len(s)
  BY DEF IsArray
<1>2. IsFiniteSet(DOMAIN s) /\ Cardinality(DOMAIN s) = Len(s)
  <2>1. PICK n \in Nat : n = Len(s)
    BY <1>1
  <2>2. IsFiniteSet(1..n) /\ Cardinality(1..n) = n
    BY FS_Interval
  <2> QED BY <1>1, <2>1, <2>2
<1>3. IsFiniteSet(ToSet(s))
  BY <1>2, ImageFinite DEF ToSet
<1> QED BY <1>1, <1>2, <1>3

\* What is asked of a ledger.
Ledger(l) == /\ \A f \in LedgerArrays : IsArray(l[f])
             /\ \A n \in ToSet(l.lanes) : n.plans \in Nat

\* A field of a ledger that should be an array is one.
LEMMA Array ==
    ASSUME NEW l, Ledger(l), NEW f \in LedgerArrays
    PROVE  IsArray(l[f])
BY DEF Ledger

\* The path of a pair in a case plan of its lane.
Path(l, n, p, c) == [obligation |-> p[2], case |-> c, judge |-> Judge(l, p[2]),
                     bundle |-> Bundle(l, n.id), gate |-> p[3]]

\* A lane has as many case ids as it has plans.
LEMMA CasesFinite ==
    ASSUME NEW n, n.plans \in Nat
    PROVE  IsFiniteSet(CaseIds(n)) /\ Cardinality(CaseIds(n)) = n.plans
<1> DEFINE g == [k \in 1..n.plans |-> <<n.id, k>>]
<1>1. PICK m \in Nat : m = n.plans
  OBVIOUS
<1>2. IsFiniteSet(1..m) /\ Cardinality(1..m) = m
  BY FS_Interval
<1>3. g \in Surjection(1..m, CaseIds(n)) /\ g \in Injection(1..m, CaseIds(n))
  BY <1>1 DEF Surjection, Injection, IsInjective, CaseIds
<1> HIDE DEF g
<1> QED BY <1>1, <1>2, <1>3, FS_Surjection

\* A ledger has finitely many enforcement paths.
LEMMA PathsFinite ==
    ASSUME NEW l, Ledger(l)
    PROVE  IsFiniteSet(enforcement_paths(l))
<1> DEFINE OfLane(n) == {Path(l, n, p, c) : p \in PairsOf(l, n.id), c \in CaseIds(n)}
           lanes == ToSet(l.lanes)
           f == [n \in lanes |-> OfLane(n)]
<1>1. IsFiniteSet(lanes) /\ IsFiniteSet(ToSet(l.obligation_gate_pairs))
  BY Array, ArrayFinite DEF LedgerArrays
<1>2. ASSUME NEW n \in lanes PROVE IsFiniteSet(OfLane(n))
  <2>1. IsFiniteSet(PairsOf(l, n.id))
    BY <1>1, FS_Subset DEF PairsOf
  <2>2. IsFiniteSet(CaseIds(n))
    BY CasesFinite DEF Ledger
  <2> DEFINE S == PairsOf(l, n.id) \X CaseIds(n)
             g == [x \in S |-> Path(l, n, x[1], x[2])]
  <2>3. IsFiniteSet(S)
    BY <2>1, <2>2, FS_Product
  <2>4. OfLane(n) \subseteq {g[x] : x \in S}
    <3> SUFFICES ASSUME NEW y \in OfLane(n) PROVE y \in {g[x] : x \in S}
      OBVIOUS
    <3>1. PICK p \in PairsOf(l, n.id), c \in CaseIds(n) : y = Path(l, n, p, c)
      OBVIOUS
    <3>2. <<p, c>> \in S /\ g[<<p, c>>] = y
      BY <3>1
    <3> QED BY <3>2
  <2>5. IsFiniteSet({g[x] : x \in S})
    <3> HIDE DEF S, g
    <3> QED BY <2>3, ImageFinite
  <2> HIDE DEF g, S, OfLane
  <2> QED BY <2>4, <2>5, FS_Subset
<1>3. IsFiniteSet({f[n] : n \in lanes})
  <2> HIDE DEF f, lanes
  <2> QED BY <1>1, ImageFinite
<1>4. enforcement_paths(l) = UNION {f[n] : n \in lanes}
  <2>1. \A n \in lanes : f[n] = OfLane(n)
    OBVIOUS
  <2> HIDE DEF f
  <2> QED BY <2>1 DEF enforcement_paths, Path
<1>5. \A T \in {f[n] : n \in lanes} : IsFiniteSet(T)
  BY <1>2
<1> HIDE DEF f
<1> QED BY <1>3, <1>4, <1>5, FS_UNION

\* A finite set is listed by SetToSeq, each element once.
LEMMA Listed ==
    ASSUME NEW S, IsFiniteSet(S)
    PROVE  SetToSeq(S) \in [1..Cardinality(S) -> S] /\ IsInjective(SetToSeq(S))
           /\ Cardinality(S) \in Nat
<1>1. Cardinality(S) \in Nat /\ ExistsBijection(1..Cardinality(S), S)
  BY FS_CardinalityType
<1>2. \E f \in [1..Cardinality(S) -> S] : IsInjective(f)
  BY <1>1 DEF ExistsBijection, Bijection, Injection
<1> QED BY <1>1, <1>2 DEF SetToSeq

\* A path has finitely much evidence.
LEMMA EvidenceFinite ==
    ASSUME NEW l, Ledger(l), NEW h
    PROVE  IsFiniteSet(EvidenceOf(l, h)) /\ Cardinality(EvidenceOf(l, h)) \in Nat
<1> DEFINE S == {x \in ToSet(l.evidence_bundle_memberships) : x[1] = h.bundle}
           f == [r \in S |-> r[2]]
<1>1. IsFiniteSet(ToSet(l.evidence_bundle_memberships))
  BY Array, ArrayFinite DEF LedgerArrays
<1>2. IsFiniteSet(S)
  BY <1>1, FS_Subset
<1>3. EvidenceOf(l, h) = {f[r] : r \in S}
  BY DEF EvidenceOf
<1> HIDE DEF f, S
<1> QED BY <1>2, <1>3, ImageFinite, FS_CardinalityType

\* Everything that is derived has one of the labels.
LEMMA DerivedLabels ==
    ASSUME NEW l, Ledger(l)
    PROVE  derive_relations(l) \in Seq(Labels)
<1> DEFINE paths == SetToSeq(enforcement_paths(l))
           perGate == [i \in DOMAIN l.gates |->
                          <<"gate_aggregate_negative", "gate_plumbing_negative">>]
           perPath == [i \in DOMAIN paths |->
              <<"enforcement_path", "path_case", "path_gate", "path_judge_negative">>
              \o [e \in 1..Cardinality(EvidenceOf(l, paths[i])) |-> "path_evidence"]]
<1>1. perGate \in Seq(Seq(Labels))
  <2>1. DOMAIN l.gates = 1..Len(l.gates) /\ Len(l.gates) \in Nat
    BY Array, ArrayFinite DEF LedgerArrays
  <2>2. <<"gate_aggregate_negative", "gate_plumbing_negative">> \in Seq(Labels)
    BY DEF Labels
  <2> QED BY <2>1, <2>2
<1>2. perPath \in Seq(Seq(Labels))
  <2>1. paths \in [1..Cardinality(enforcement_paths(l)) -> enforcement_paths(l)]
        /\ Cardinality(enforcement_paths(l)) \in Nat
    BY PathsFinite, Listed
  <2> HIDE DEF paths
  <2>2. ASSUME NEW h
        PROVE  <<"enforcement_path", "path_case", "path_gate", "path_judge_negative">>
               \o [e \in 1..Cardinality(EvidenceOf(l, h)) |-> "path_evidence"] \in Seq(Labels)
    <3>1. PICK k \in Nat : k = Cardinality(EvidenceOf(l, h))
      BY EvidenceFinite
    <3>2. [e \in 1..k |-> "path_evidence"] \in Seq(Labels)
      BY DEF Labels
    <3>3. <<"enforcement_path", "path_case", "path_gate", "path_judge_negative">> \in Seq(Labels)
      BY DEF Labels
    <3> QED BY <3>1, <3>2, <3>3
  <2>3. DOMAIN paths = 1..Cardinality(enforcement_paths(l))
    BY <2>1
  <2>4. \A i \in DOMAIN paths : perPath[i] \in Seq(Labels)
    BY <2>2
  <2>5. perPath = [i \in 1..Cardinality(enforcement_paths(l)) |-> perPath[i]]
    BY <2>3
  <2> HIDE DEF perPath
  <2> QED BY <2>1, <2>3, <2>4, <2>5
<1>3. derive_relations(l) = FlattenSeq(perGate) \o FlattenSeq(perPath)
  BY DEF derive_relations
<1> HIDE DEF perGate, perPath
<1> QED BY <1>1, <1>2, <1>3, FlattenType

\* There are streams to digest.
LEMMA DigestLength ==
    ASSUME NEW l
    PROVE  Len(digest_relations(l)) \in Nat /\ Len(digest_relations(l)) >= 1
<1> DEFINE lanes == <<Len(l.lanes), MapThenSumSet(LAMBDA n : Len(n.cases), ToSet(l.lanes)), PlanTotal(l),
      Len(Required(l)), Kinds(l, "lane_contexts"), Kinds(l, "post_gate_outputs")>>
           arrays == <<"judge_ids", "evidence_bundles", "evidence_source_ids", "gates",
                  "judge_negative_tests", "aggregate_negative_tests",
                  "plumbing_negative_tests">>
           joins == <<"obligation_to_judge", "evidence_bundles", "obligation_gate_pairs",
                  "evidence_bundle_memberships", "lane_contexts", "post_gate_outputs",
                  "gates", "gates">>
           h == Cardinality(enforcement_paths(l))
           r == Cardinality(path_evidence(l))
<1>1. PICK a, b, c, d, e, f : lanes = <<a, b, c, d, e, f>>
  OBVIOUS
<1>2. PICK k : k = h
  OBVIOUS
<1>3. PICK q : q = Len(Required(l))
  OBVIOUS
<1>4. PICK s : s = Sizes(l, arrays) /\ s = [i \in 1..7 |-> s[i]]
  <2>1. DOMAIN arrays = 1..7
    OBVIOUS
  <2>2. Sizes(l, arrays) = [i \in 1..7 |-> Len(l[arrays[i]])]
    BY <2>1 DEF Sizes
  <2> HIDE DEF arrays
  <2> QED BY <2>2
<1>5. PICK t : t = Sizes(l, joins) /\ t = [i \in 1..8 |-> t[i]]
  <2>1. DOMAIN joins = 1..8
    OBVIOUS
  <2>2. Sizes(l, joins) = [i \in 1..8 |-> Len(l[joins[i]])]
    BY <2>1 DEF Sizes
  <2> HIDE DEF joins
  <2> QED BY <2>2
<1>6. PICK u : u = r
  OBVIOUS
<1>7. digest_relations(l) = ((<<a, b, c, d, e, f>> \o s) \o <<k>>) \o ((<<q>> \o t) \o <<k, k, k, u>>)
  BY <1>1, <1>2, <1>3, <1>4, <1>5, <1>6 DEF digest_relations, EntityStreams, RelationStreams
<1>8. PICK All : /\ {a, b, c, d, e, f, k, q, u} \subseteq All
                 /\ \A i \in 1..7 : s[i] \in All
                 /\ \A i \in 1..8 : t[i] \in All
  <2> DEFINE All == {a, b, c, d, e, f, k, q, u} \cup {s[i] : i \in 1..7} \cup {t[i] : i \in 1..8}
  <2>1. /\ {a, b, c, d, e, f, k, q, u} \subseteq All
        /\ \A i \in 1..7 : s[i] \in All
        /\ \A i \in 1..8 : t[i] \in All
    OBVIOUS
  <2> HIDE DEF All
  <2> QED BY <2>1
<1>9. /\ <<a, b, c, d, e, f>> \in Seq(All) /\ <<k>> \in Seq(All) /\ <<q>> \in Seq(All)
      /\ <<k, k, k, u>> \in Seq(All)
  <2>1. a \in All /\ b \in All /\ c \in All /\ d \in All /\ e \in All /\ f \in All
    BY <1>8
  <2>2. k \in All /\ q \in All /\ u \in All
    BY <1>8
  <2> QED BY ONLY <2>1, <2>2
<1>10. s \in Seq(All) /\ t \in Seq(All)
  <2>1. s \in [1..7 -> All] /\ t \in [1..8 -> All]
    <3>1. s = [i \in 1..7 |-> s[i]] /\ t = [i \in 1..8 |-> t[i]]
      BY <1>4, <1>5
    <3> QED BY ONLY <1>8, <3>1
  <2>2. ASSUME NEW n \in Nat, NEW x \in [1..n -> All] PROVE x \in Seq(All)
    OBVIOUS
  <2> QED BY ONLY <2>1, <2>2
<1>11. /\ (<<a, b, c, d, e, f>> \o s) \o <<k>> \in Seq(All)
       /\ Len((<<a, b, c, d, e, f>> \o s) \o <<k>>) >= 1
  BY ONLY <1>9, <1>10
<1>12. (<<q>> \o t) \o <<k, k, k, u>> \in Seq(All)
  BY ONLY <1>9, <1>10
<1> QED BY ONLY <1>7, <1>11, <1>12

-----------------------------------------------------------------------------
(* The arena: what each charge does to it *)

\* The greater of two numbers.
LEMMA MaxOfTwo == ASSUME NEW a \in Nat, NEW b \in Nat PROVE Max({a, b}) = IF a >= b THEN a ELSE b
<1>1. \E x \in {a, b} : \A y \in {a, b} : x >= y
  OBVIOUS
<1> QED BY <1>1 DEF Max

\* Which phases hold the slab, and how many values are charged in each.
SlabHeld == {"parse", "admission", "charge", "cases", "buffer", "relations"}
NothingParsed == {"entry", "hash", "slab", "parse", "admission"}

LiveTypes ==
    /\ input \in Inputs /\ used \in Nat /\ high \in Nat /\ step \in Nat \ {0}
    /\ admitted \in [Labels -> Nat] /\ IsFiniteSet(interned)
    /\ hashLive \in BOOLEAN /\ digestLive \in BOOLEAN

\* The two hash charges are held while the streams are digested, and the
\* values charged are those before the current one.
LiveInv ==
    /\ hashLive <=> phase = "digest"
    /\ phase # "digest" => ~digestLive
    /\ phase = "digest" /\ step > 1 => digestLive
    /\ phase = "charge" => step <= Len(input.values) + 1

ArenaInv ==
    phase # "done" => /\ LiveTypes /\ LiveInv
                      /\ used = LiveCharge /\ used <= high /\ high <= input.x_max

\* What the assumption on the inputs says of one of them.
LEMMA InputIs == ASSUME NEW i \in Inputs
    PROVE i.x_max \in Nat /\ IsArray(i.values) /\ Len(i.values) \in Nat /\ Ledger(i.ledger)
BY InputsAssumption, ArrayFinite DEF Ledger

\* The counts of derived records are numbers.
LEMMA PairsAre ==
    ASSUME admitted \in [Labels -> Nat]
    PROVE  admitted_pairs \in Nat /\ admitted["enforcement_path"] \in Nat
BY DEF admitted_pairs, Labels

\* The two facts about products that the charges need.
LEMMA Product == ASSUME NEW a \in Nat, NEW b \in Nat PROVE a * b \in Nat /\ a * (b + 1) = a * b + a
OBVIOUS

\* At first nothing is live and nothing is charged.
LEMMA ArenaStarts == CompilerInit => ArenaInv
<1> SUFFICES ASSUME CompilerInit PROVE ArenaInv
  OBVIOUS
<1>1. LiveTypes /\ LiveInv
  <2>1. LiveTypes
    <3>1. admitted \in [Labels -> Nat] /\ IsFiniteSet(interned)
      BY FS_EmptySet DEF CompilerInit
    <3>2. used \in Nat /\ high \in Nat /\ step \in Nat \ {0} /\ input \in Inputs
      BY DEF CompilerInit
    <3>3. hashLive \in BOOLEAN /\ digestLive \in BOOLEAN
      BY DEF CompilerInit
    <3> QED BY <3>1, <3>2, <3>3 DEF LiveTypes
  <2>2. LiveInv
    BY DEF CompilerInit, LiveInv
  <2> QED BY <2>1, <2>2
<1>2. admitted_pairs = 0 /\ admitted["enforcement_path"] = 0 /\ Cardinality(interned) = 0
  BY FS_EmptySet DEF CompilerInit, admitted_pairs, Labels
<1>3. used = LiveCharge
  BY <1>2, ChargesAssumption DEF CompilerInit, LiveCharge
<1>4. input.x_max \in Nat
  BY InputIs DEF CompilerInit
<1> QED BY <1>1, <1>3, <1>4 DEF ArenaInv, CompilerInit

\* What a successful charge of n to a base does.
LEMMA Charged ==
    ASSUME NEW base \in Nat, NEW n \in Nat, LiveTypes, base <= used, used <= high,
           high <= input.x_max,
           Retain(base, n) \/ Borrow(base, n), input' = input
    PROVE  /\ used' \in Nat /\ high' \in Nat /\ used' <= high' /\ high' <= input'.x_max
           /\ Retain(base, n) => used' = base + n
           /\ Borrow(base, n) => used' = base
<1>1. input.x_max \in Nat
  BY InputIs DEF LiveTypes
<1>2. high' = Max({high, base + n}) /\ base + n <= input.x_max
  BY DEF Retain, Borrow, CanHold
<1>3. high \in Nat /\ base + n \in Nat
  BY DEF LiveTypes
<1>4. high' = IF high >= base + n THEN high ELSE base + n
  BY <1>2, <1>3, MaxOfTwo
<1>5. high' \in Nat /\ high' <= input'.x_max /\ high' >= high /\ high' >= base + n
  BY <1>1, <1>2, <1>3, <1>4
<1>6. Retain(base, n) => used' = base + n
  BY DEF Retain
<1>7. Borrow(base, n) => used' = base
  BY DEF Borrow
<1> QED BY <1>3, <1>5, <1>6, <1>7 DEF LiveTypes

\* A step of the pipeline that keeps the charge and what is live.
LEMMA ArenaMoves ==
    ASSUME NEW p, phase # "done", ArenaInv, phase' = p, step' = 1, UNCHANGED <<input, used, high,
           liveVars>>,
           p # "digest", phase # "digest",
           p \in SlabHeld <=> phase \in SlabHeld,
           phase = "charge" => step > Len(input.values),
           p \in NothingParsed \cup {"charge"} <=> phase \in NothingParsed
    PROVE  ArenaInv'
<1>1. LiveTypes /\ LiveInv /\ used = LiveCharge /\ used <= high /\ high <= input.x_max
  BY DEF ArenaInv
<1>2. LiveTypes' /\ LiveInv'
  BY <1>1 DEF LiveTypes, LiveInv, liveVars
<1>3. Len(input.values) \in Nat
  BY <1>1, InputIs DEF LiveTypes
<1>4. LiveCharge' = LiveCharge
  <2>1. admitted_pairs' = admitted_pairs
    BY DEF admitted_pairs, liveVars
  <2>2. phase = "charge" => step - 1 = Len(input.values)
    BY <1>1, <1>3 DEF LiveInv, LiveTypes
  <2> QED BY <2>1, <2>2 DEF LiveCharge, liveVars, SlabHeld, NothingParsed
<1> QED BY <1>1, <1>2, <1>4 DEF ArenaInv

\* A charge that is given back before anything else is charged.
LEMMA ArenaBorrows ==
    ASSUME NEW n \in Nat, phase \in {"hash", "buffer"}, ArenaInv, Borrow(used, n),
           input' = input, UNCHANGED liveVars,
           \/ phase' = phase /\ step' = step + 1
           \/ phase = "buffer" /\ phase' = "relations" /\ step' = 1
    PROVE  ArenaInv'
<1>1. LiveTypes /\ LiveInv /\ used = LiveCharge /\ used <= high /\ high <= input.x_max
  BY DEF ArenaInv
<1>2. used' = used /\ used' <= high' /\ high' \in Nat /\ high' <= input'.x_max
  BY <1>1, Charged DEF LiveTypes
<1>3. LiveTypes' /\ LiveInv'
  BY <1>1, <1>2 DEF LiveTypes, LiveInv, liveVars
<1>4. LiveCharge' = LiveCharge
  <2>1. admitted_pairs' = admitted_pairs
    BY DEF admitted_pairs, liveVars
  <2> QED BY <2>1 DEF LiveCharge, liveVars
<1> QED BY <1>1, <1>2, <1>3, <1>4 DEF ArenaInv

\* The slab is charged and is live.
LEMMA ArenaScratch ==
    ASSUME ArenaInv, At("slab"), Retain(used, W_B), Proceed("parse"), input' = input,
           UNCHANGED liveVars
    PROVE  ArenaInv'
<1>1. LiveTypes /\ LiveInv /\ used = LiveCharge /\ used <= high /\ high <= input.x_max
  BY DEF ArenaInv, At
<1>2. used' = used + W_B /\ used' <= high' /\ used' \in Nat /\ high' \in Nat
      /\ high' <= input'.x_max
  BY <1>1, Charged, ChargesAssumption DEF LiveTypes
<1>3. LiveTypes' /\ LiveInv'
  BY <1>1, <1>2 DEF LiveTypes, LiveInv, liveVars, Proceed, At
<1>4. LiveCharge' = LiveCharge + W_B
  <2>1. admitted_pairs' = admitted_pairs
    BY DEF admitted_pairs, liveVars
  <2>2. admitted_pairs \in Nat /\ admitted["enforcement_path"] \in Nat
        /\ Cardinality(interned) \in Nat
    BY <1>1, PairsAre, FS_CardinalityType DEF LiveTypes
  <2> QED BY <1>1, <2>1, <2>2, ChargesAssumption DEF LiveCharge, LiveInv, LiveTypes, liveVars,
             At, Proceed
<1> QED BY <1>1, <1>2, <1>3, <1>4 DEF ArenaInv

\* An identifier is interned: one more is live.
LEMMA ArenaInterns ==
    ASSUME NEW v, ArenaInv, phase \in {"charge", "cases"}, v \notin interned, Retain(used,
           INTERN_CHARGE),
           interned' = interned \cup {v}, input' = input, phase' = phase,
           step' = IF phase = "charge" THEN step ELSE step + 1,
           UNCHANGED <<admitted, hashLive, digestLive>>
    PROVE  ArenaInv'
<1>1. LiveTypes /\ LiveInv /\ used = LiveCharge /\ used <= high /\ high <= input.x_max
  BY DEF ArenaInv
<1>2. used' = used + INTERN_CHARGE /\ used' <= high' /\ used' \in Nat /\ high' \in Nat
      /\ high' <= input'.x_max
  BY <1>1, Charged, ChargesAssumption DEF LiveTypes
<1>3. /\ IsFiniteSet(interned') /\ Cardinality(interned') = Cardinality(interned) + 1
      /\ Cardinality(interned) \in Nat
  BY <1>1, FS_AddElement, FS_CardinalityType DEF LiveTypes
<1>4. LiveTypes' /\ LiveInv'
  BY <1>1, <1>2, <1>3 DEF LiveTypes, LiveInv
<1>5. LiveCharge' = LiveCharge + INTERN_CHARGE
  <2>1. admitted_pairs' = admitted_pairs
    BY DEF admitted_pairs
  <2>2. admitted_pairs \in Nat /\ admitted["enforcement_path"] \in Nat
    BY <1>1, PairsAre DEF LiveTypes
  <2>3. /\ INTERN_CHARGE * Cardinality(interned') = INTERN_CHARGE * Cardinality(interned) + INTERN_CHARGE
        /\ INTERN_CHARGE * Cardinality(interned) \in Nat
    BY <1>3, ChargesAssumption, Product
  <2>4. Len(input.values) \in Nat /\ step \in Nat \ {0}
    BY <1>1, InputIs DEF LiveTypes
  <2>5. PICK x \in Nat, y \in Nat, z \in Nat :
          /\ x = INTERN_CHARGE * Cardinality(interned)
          /\ y = RECORD_CHARGE * admitted_pairs /\ z = PATH_CHARGE * admitted["enforcement_path"]
    BY <2>2, <2>3, ChargesAssumption, Product
  <2>a. PICK t \in Nat : t = REFERENCE_CHARGE * (IF phase = "charge" THEN step - 1 ELSE Len(input.values))
    <3>1. (IF phase = "charge" THEN step - 1 ELSE Len(input.values)) \in Nat
      BY <2>4
    <3> QED BY <3>1, Product, ChargesAssumption
  <2>6. ~hashLive /\ ~digestLive
    BY <1>1 DEF LiveInv
  <2>7. LiveCharge = ((((W_B + t) + x) + y) + z) + 0 + 0
    BY <2>5, <2>a, <2>6 DEF LiveCharge
  <2>8. LiveCharge' = ((((W_B + t) + (x + INTERN_CHARGE)) + y) + z) + 0 + 0
    BY <2>1, <2>3, <2>5, <2>a, <2>6 DEF LiveCharge
  <2>9. W_B \in Nat /\ INTERN_CHARGE \in Nat /\ t \in Nat /\ x \in Nat /\ y \in Nat /\ z \in Nat
    BY ChargesAssumption
  <2> QED BY ONLY <2>7, <2>8, <2>9
<1> QED BY <1>1, <1>2, <1>4, <1>5 DEF ArenaInv

\* A value is charged that needs no interning.
LEMMA ArenaReferences ==
    ASSUME ArenaInv, phase = "charge", step <= Len(input.values), Retain(used, REFERENCE_CHARGE),
           input' = input, phase' = phase, step' = step + 1, UNCHANGED liveVars
    PROVE  ArenaInv'
<1>1. LiveTypes /\ LiveInv /\ used = LiveCharge /\ used <= high /\ high <= input.x_max
  BY DEF ArenaInv
<1>2. used' = used + REFERENCE_CHARGE /\ used' <= high' /\ used' \in Nat /\ high' \in Nat
      /\ high' <= input'.x_max
  BY <1>1, Charged, ChargesAssumption DEF LiveTypes
<1>3. Len(input.values) \in Nat /\ step \in Nat \ {0} /\ Cardinality(interned) \in Nat
  BY <1>1, InputIs, FS_CardinalityType DEF LiveTypes
<1>4. LiveTypes' /\ LiveInv'
  BY <1>1, <1>2, <1>3 DEF LiveTypes, LiveInv, liveVars
<1>5. LiveCharge' = LiveCharge + REFERENCE_CHARGE
  <2>1. admitted_pairs' = admitted_pairs
    BY DEF admitted_pairs, liveVars
  <2>2. admitted_pairs \in Nat /\ admitted["enforcement_path"] \in Nat
    BY <1>1, PairsAre DEF LiveTypes
  <2>3. REFERENCE_CHARGE * ((step + 1) - 1) = REFERENCE_CHARGE * (step - 1) + REFERENCE_CHARGE
    BY <1>3, ChargesAssumption
  <2> QED BY <1>1, <1>3, <2>1, <2>2, <2>3, ChargesAssumption, SMTT(30)
        DEF LiveCharge, LiveInv, liveVars
<1> QED BY <1>1, <1>2, <1>4, <1>5 DEF ArenaInv

\* The charges that stay to the end: values, identifiers, pairs and paths.
Kept == ((REFERENCE_CHARGE * Len(input.values) + INTERN_CHARGE * Cardinality(interned))
         + RECORD_CHARGE * admitted_pairs) + PATH_CHARGE * admitted["enforcement_path"]

AfterParsing == {"cases", "buffer", "relations", "derive", "reserve", "digest", "keys", "output"}

\* Each of the lasting charges is a number.
LEMMA KeptIs ==
    ASSUME LiveTypes
    PROVE  /\ REFERENCE_CHARGE * Len(input.values) \in Nat
           /\ INTERN_CHARGE * Cardinality(interned) \in Nat
           /\ RECORD_CHARGE * admitted_pairs \in Nat
           /\ PATH_CHARGE * admitted["enforcement_path"] \in Nat
           /\ Kept \in Nat
<1>1. Len(input.values) \in Nat /\ Cardinality(interned) \in Nat
  BY InputIs, FS_CardinalityType DEF LiveTypes
<1>2. admitted_pairs \in Nat /\ admitted["enforcement_path"] \in Nat
  BY PairsAre DEF LiveTypes
<1>3. /\ REFERENCE_CHARGE * Len(input.values) \in Nat /\ INTERN_CHARGE * Cardinality(interned) \in Nat
      /\ RECORD_CHARGE * admitted_pairs \in Nat /\ PATH_CHARGE * admitted["enforcement_path"] \in Nat
  BY <1>1, <1>2, Product, ChargesAssumption
<1> QED BY <1>3 DEF Kept

\* After parsing, what is live is the slab, the lasting charges and the hash charges.
LEMMA LiveIs ==
    ASSUME LiveTypes, phase \in AfterParsing
    PROVE  LiveCharge = ((IF phase \in SlabHeld THEN W_B ELSE 0) + Kept)
                        + (IF hashLive THEN HASH_BUFFER_CHARGE ELSE 0)
                        + (IF digestLive THEN SHA256_STATE_CHARGE ELSE 0)
<1>1. PICK t \in Nat, x \in Nat, y \in Nat, z \in Nat :
        /\ t = REFERENCE_CHARGE * Len(input.values) /\ x = INTERN_CHARGE * Cardinality(interned)
        /\ y = RECORD_CHARGE * admitted_pairs /\ z = PATH_CHARGE * admitted["enforcement_path"]
  BY KeptIs
<1>2. PICK s \in Nat, h \in Nat, d \in Nat :
        /\ s = (IF phase \in SlabHeld THEN W_B ELSE 0)
        /\ h = (IF hashLive THEN HASH_BUFFER_CHARGE ELSE 0)
        /\ d = (IF digestLive THEN SHA256_STATE_CHARGE ELSE 0)
  BY ChargesAssumption
<1>3. LiveCharge = ((((s + t) + x) + y) + z) + h + d
  BY <1>1, <1>2 DEF LiveCharge, AfterParsing, SlabHeld
<1>4. Kept = ((t + x) + y) + z
  BY <1>1 DEF Kept
<1>5. s \in Nat /\ h \in Nat /\ d \in Nat /\ t \in Nat /\ x \in Nat /\ y \in Nat /\ z \in Nat
  OBVIOUS
<1>6. LiveCharge = (s + Kept) + h + d
  BY ONLY <1>3, <1>4, <1>5
<1> QED BY <1>2, <1>6

\* The same of the next state.
LEMMA LiveNext ==
    ASSUME LiveTypes', phase' \in AfterParsing
    PROVE  /\ Kept' \in Nat
           /\ LiveCharge' = ((IF phase' \in SlabHeld THEN W_B ELSE 0) + Kept')
                            + (IF hashLive' THEN HASH_BUFFER_CHARGE ELSE 0)
                            + (IF digestLive' THEN SHA256_STATE_CHARGE ELSE 0)
<1>1. (LiveTypes /\ phase \in AfterParsing =>
        /\ Kept \in Nat
        /\ LiveCharge = ((IF phase \in SlabHeld THEN W_B ELSE 0) + Kept)
                        + (IF hashLive THEN HASH_BUFFER_CHARGE ELSE 0)
                        + (IF digestLive THEN SHA256_STATE_CHARGE ELSE 0))'
  BY KeptIs, LiveIs, PTL
<1> QED BY <1>1

\* Phase B gives the slab back.
LEMMA ArenaReleases ==
    ASSUME ArenaInv, At("relations"), Proceed("derive"), used' = used - W_B, high' = high,
           input' = input,
           UNCHANGED liveVars
    PROVE  ArenaInv'
<1>1. LiveTypes /\ LiveInv /\ used = LiveCharge /\ used <= high /\ high <= input.x_max
  BY DEF ArenaInv, At
<1>2. used = (W_B + Kept) + 0 + 0 /\ Kept \in Nat
  BY <1>1, LiveIs, KeptIs DEF LiveInv, At, AfterParsing, SlabHeld
<1>3. used' = Kept /\ used' \in Nat /\ used' <= used
  BY <1>2, ChargesAssumption
<1>4. LiveTypes' /\ LiveInv'
  BY <1>1, <1>3 DEF LiveTypes, LiveInv, liveVars, Proceed, At
<1>5. Kept' = Kept
  BY DEF Kept, admitted_pairs, liveVars
<1>6. LiveCharge' = (0 + Kept) + 0 + 0
  BY <1>4, <1>5, LiveNext DEF LiveInv, Proceed, AfterParsing, SlabHeld
<1>7. used' <= high'
  BY <1>1, <1>3 DEF LiveTypes
<1> QED BY <1>1, <1>2, <1>3, <1>4, <1>6, <1>7 DEF ArenaInv

\* A derived record is retained: one more of its label is live.
LEMMA ArenaDerives ==
    ASSUME ArenaInv, At("derive"), NEW label \in Labels,
           Retain(used, IF label = "enforcement_path" THEN PATH_CHARGE ELSE RECORD_CHARGE), Repeat,
           admitted' = [admitted EXCEPT ![label] = @ + 1], input' = input,
           UNCHANGED <<interned, hashLive, digestLive>>
    PROVE  ArenaInv'
<1>1. LiveTypes /\ LiveInv /\ used = LiveCharge /\ used <= high /\ high <= input.x_max
  BY DEF ArenaInv, At
<1> DEFINE n == IF label = "enforcement_path" THEN PATH_CHARGE ELSE RECORD_CHARGE
<1>2. n \in Nat /\ used \in Nat
  BY <1>1, ChargesAssumption DEF LiveTypes
<1>3. used' = used + n /\ used' <= high' /\ used' \in Nat /\ high' \in Nat /\ high' <= input'.x_max
  <2> HIDE DEF n
  <2>1. Retain(used, n)
    BY DEF n
  <2> QED BY <1>1, <1>2, <2>1, Charged
<1>4. LiveTypes' /\ LiveInv'
  <2>1. admitted' \in [Labels -> Nat]
    BY <1>1 DEF LiveTypes
  <2> QED BY <1>1, <1>3, <2>1 DEF LiveTypes, LiveInv, Repeat, At
<1>5. Kept' = Kept + n
  <2>1. /\ admitted \in [Labels -> Nat] /\ \A x \in Labels : admitted[x] \in Nat
        /\ \A x \in Labels : admitted'[x] = IF x = label THEN admitted[x] + 1 ELSE admitted[x]
    BY <1>1 DEF LiveTypes
  <2>2. admitted_pairs \in Nat /\ admitted["enforcement_path"] \in Nat
    BY <2>1, PairsAre
  <2>3. PICK t \in Nat, x \in Nat, y \in Nat, z \in Nat :
        /\ t = REFERENCE_CHARGE * Len(input.values) /\ x = INTERN_CHARGE * Cardinality(interned)
        /\ y = RECORD_CHARGE * admitted_pairs /\ z = PATH_CHARGE * admitted["enforcement_path"]
    BY <1>1, KeptIs
  <2>4. Kept = ((t + x) + y) + z
    BY <2>3 DEF Kept
  <2>5. CASE label = "enforcement_path"
    <3>1. admitted_pairs' = admitted_pairs
      BY <2>1, <2>5 DEF admitted_pairs, Labels
    <3>2. PATH_CHARGE * admitted'["enforcement_path"] = z + PATH_CHARGE
      BY <2>1, <2>2, <2>3, <2>5, Product, ChargesAssumption DEF Labels
    <3>3. Kept' = ((t + x) + y) + (z + PATH_CHARGE)
      BY <2>3, <3>1, <3>2 DEF Kept
    <3>4. t \in Nat /\ x \in Nat /\ y \in Nat /\ z \in Nat /\ PATH_CHARGE \in Nat /\ n = PATH_CHARGE
      BY <2>5, ChargesAssumption
    <3> HIDE DEF n
    <3> QED BY ONLY <2>4, <3>3, <3>4
  <2>6. CASE label # "enforcement_path"
    <3>1. admitted_pairs' = admitted_pairs + 1
      BY <2>1, <2>6 DEF admitted_pairs, Labels
    <3>2. RECORD_CHARGE * admitted_pairs' = y + RECORD_CHARGE
      BY <2>2, <2>3, <3>1, Product, ChargesAssumption
    <3>3. admitted'["enforcement_path"] = admitted["enforcement_path"]
      BY <2>1, <2>6 DEF Labels
    <3>4. Kept' = ((t + x) + (y + RECORD_CHARGE)) + z
      BY <2>3, <3>2, <3>3 DEF Kept
    <3>5. t \in Nat /\ x \in Nat /\ y \in Nat /\ z \in Nat /\ RECORD_CHARGE \in Nat
          /\ n = RECORD_CHARGE
      BY <2>6, ChargesAssumption
    <3> HIDE DEF n
    <3> QED BY ONLY <2>4, <3>4, <3>5
  <2> QED BY <2>5, <2>6
<1> HIDE DEF n
<1>6. used = (0 + Kept) + 0 + 0 /\ Kept \in Nat
  BY <1>1, LiveIs, KeptIs DEF LiveInv, At, AfterParsing, SlabHeld
<1>7. LiveCharge' = (0 + Kept') + 0 + 0 /\ Kept' \in Nat
  BY <1>4, LiveNext DEF LiveInv, Repeat, At, AfterParsing, SlabHeld
<1>8. used' = LiveCharge'
  BY ONLY <1>2, <1>3, <1>5, <1>6, <1>7
<1> QED BY <1>3, <1>4, <1>8 DEF ArenaInv

\* The hash buffer is charged again and is live.
LEMMA ArenaReserves ==
    ASSUME ArenaInv, At("reserve"), Retain(used, HASH_BUFFER_CHARGE), Proceed("digest"),
           hashLive' = TRUE,
           input' = input, UNCHANGED <<interned, admitted, digestLive>>
    PROVE  ArenaInv'
<1>1. LiveTypes /\ LiveInv /\ used = LiveCharge /\ used <= high /\ high <= input.x_max
  BY DEF ArenaInv, At
<1>2. used' = used + HASH_BUFFER_CHARGE /\ used' <= high' /\ used' \in Nat /\ high' \in Nat
      /\ high' <= input'.x_max
  BY <1>1, Charged, ChargesAssumption DEF LiveTypes
<1>3. LiveTypes' /\ LiveInv'
  <2>1. hashLive' \in BOOLEAN /\ hashLive'
    OBVIOUS
  <2>2. LiveTypes'
    BY <1>1, <1>2, <2>1 DEF LiveTypes, Proceed
  <2>3. LiveInv'
    BY <1>1, <2>1 DEF LiveInv, Proceed, At
  <2> QED BY <2>2, <2>3
<1>4. Kept' = Kept
  BY DEF Kept, admitted_pairs
<1>5. used = (0 + Kept) + 0 + 0 /\ Kept \in Nat
  BY <1>1, LiveIs, KeptIs DEF LiveInv, At, AfterParsing, SlabHeld
<1>6. LiveCharge' = (0 + Kept) + HASH_BUFFER_CHARGE + 0
  <2>1. hashLive' /\ ~digestLive'
    BY <1>1 DEF LiveInv, At
  <2> QED BY <1>3, <1>4, <2>1, LiveNext DEF Proceed, AfterParsing, SlabHeld
<1>7. used' = LiveCharge'
  BY <1>2, <1>5, <1>6, ChargesAssumption
<1> QED BY <1>2, <1>3, <1>7 DEF ArenaInv

\* A digest state replaces the one before it, if there is one.
LEMMA ArenaDigests ==
    ASSUME ArenaInv, At("digest"), Repeat, digestLive' = TRUE,
           Retain(used - IF digestLive THEN SHA256_STATE_CHARGE ELSE 0, SHA256_STATE_CHARGE),
           input' = input, UNCHANGED <<interned, admitted, hashLive>>
    PROVE  ArenaInv'
<1>1. LiveTypes /\ LiveInv /\ used = LiveCharge /\ used <= high /\ high <= input.x_max
  BY DEF ArenaInv, At
<1>2. PICK d \in Nat : d = IF digestLive THEN SHA256_STATE_CHARGE ELSE 0
  BY ChargesAssumption
<1>3. used = (0 + Kept) + HASH_BUFFER_CHARGE + d /\ Kept \in Nat
  <2>1. hashLive
    BY <1>1 DEF LiveInv, At
  <2> QED BY <1>1, <1>2, <2>1, LiveIs, KeptIs DEF At, AfterParsing, SlabHeld
<1>4. used - d \in Nat /\ used - d <= used /\ used - d = Kept + HASH_BUFFER_CHARGE
  BY <1>3, ChargesAssumption
<1>5. Retain(used - d, SHA256_STATE_CHARGE)
  BY <1>2
<1>6. used' = (used - d) + SHA256_STATE_CHARGE /\ used' <= high' /\ used' \in Nat
      /\ high' \in Nat /\ high' <= input'.x_max
  BY <1>1, <1>4, <1>5, Charged, ChargesAssumption
<1>7. LiveTypes' /\ LiveInv'
  <2>1. digestLive' \in BOOLEAN /\ digestLive'
    OBVIOUS
  <2>2. LiveTypes'
    BY <1>1, <1>6, <2>1 DEF LiveTypes, Repeat
  <2>3. LiveInv'
    BY <1>1, <2>1 DEF LiveInv, Repeat, At
  <2> QED BY <2>2, <2>3
<1>8. Kept' = Kept
  BY DEF Kept, admitted_pairs
<1>9. LiveCharge' = (0 + Kept) + HASH_BUFFER_CHARGE + SHA256_STATE_CHARGE
  <2>1. hashLive' /\ digestLive'
    BY <1>1 DEF LiveInv, At
  <2> QED BY <1>7, <1>8, <2>1, LiveNext DEF Repeat, At, AfterParsing, SlabHeld
<1>10. used' = LiveCharge'
  BY <1>3, <1>4, <1>6, <1>9, ChargesAssumption
<1> QED BY <1>6, <1>7, <1>10 DEF ArenaInv

\* The two hash charges are given back: there was a stream, so both are live.
LEMMA ArenaGivesBack ==
    ASSUME ArenaInv, At("digest"), step > Len(digest_relations(input.ledger)), Proceed("keys"),
           used' = used - SHA256_STATE_CHARGE - HASH_BUFFER_CHARGE, high' = high, hashLive' = FALSE,
           digestLive' = FALSE, input' = input, UNCHANGED <<interned, admitted>>
    PROVE  ArenaInv'
<1>1. LiveTypes /\ LiveInv /\ used = LiveCharge /\ used <= high /\ high <= input.x_max
  BY DEF ArenaInv, At
<1>2. digestLive /\ hashLive
  <2>1. step \in Nat /\ step > 1
    BY <1>1, DigestLength DEF LiveTypes
  <2> QED BY <1>1, <2>1 DEF LiveInv, At
<1>3. used = (0 + Kept) + HASH_BUFFER_CHARGE + SHA256_STATE_CHARGE /\ Kept \in Nat
  BY <1>1, <1>2, LiveIs, KeptIs DEF At, AfterParsing, SlabHeld
<1>4. used' = Kept /\ used' \in Nat /\ used' <= used
  BY <1>3, ChargesAssumption
<1>5. LiveTypes' /\ LiveInv'
  <2>1. hashLive' \in BOOLEAN /\ ~hashLive' /\ digestLive' \in BOOLEAN /\ ~digestLive'
    OBVIOUS
  <2>2. LiveTypes'
    BY <1>1, <1>4, <2>1 DEF LiveTypes, Proceed
  <2>3. LiveInv'
    BY <1>1, <2>1 DEF LiveInv, Proceed
  <2> QED BY <2>2, <2>3
<1>6. Kept' = Kept
  BY DEF Kept, admitted_pairs
<1>7. LiveCharge' = (0 + Kept) + 0 + 0
  <2>1. ~hashLive' /\ ~digestLive'
    OBVIOUS
  <2> QED BY <1>5, <1>6, <2>1, LiveNext DEF Proceed, AfterParsing, SlabHeld
<1>8. used' <= high'
  BY <1>1, <1>4 DEF LiveTypes
<1> QED BY <1>1, <1>3, <1>4, <1>5, <1>7, <1>8 DEF ArenaInv

-----------------------------------------------------------------------------
(* The arena balances *)

\* Every step of the pipeline keeps the balance.
LEMMA ArenaPipeline == ASSUME ArenaInv, Pipeline PROVE ArenaInv'
<1> SUFFICES ASSUME phase' # "done" PROVE ArenaInv'
  BY DEF ArenaInv
<1>0. LiveTypes \/ phase = "done"
  BY DEF ArenaInv
<1> USE DEF callVars, arenaVars, Stop, Raise, Fail, IndexCap, AllocationFailed
<1>1. CASE EntryPreflight
  <2>1. phase = "entry" /\ Proceed("hash") /\ UNCHANGED <<input, used, high, liveVars>>
    BY <1>1 DEF EntryPreflight, At
  <2> QED BY <2>1, ArenaMoves DEF Proceed, SlabHeld, NothingParsed
<1>2. CASE HashInput
  <2>1. /\ phase = "hash" /\ Borrow(used, SHA256_STATE_CHARGE) /\ Repeat /\ input' = input
        /\ UNCHANGED liveVars
    BY <1>2 DEF HashInput, At
  <2> QED BY <2>1, ArenaBorrows, ChargesAssumption DEF Repeat
<1>3. CASE CompareDigests
  <2>1. phase = "hash" /\ Proceed("slab") /\ UNCHANGED <<input, used, high, liveVars>>
    BY <1>3 DEF CompareDigests, At
  <2> QED BY <2>1, ArenaMoves DEF Proceed, SlabHeld, NothingParsed
<1>4. CASE AllocateScratch
  BY <1>4, ArenaScratch DEF AllocateScratch
<1>5. CASE ParsePhaseA
  <2>1. phase = "parse" /\ Proceed("admission") /\ UNCHANGED <<input, used, high, liveVars>>
    BY <1>5 DEF ParsePhaseA, PassOr, At
  <2> QED BY <2>1, ArenaMoves DEF Proceed, SlabHeld, NothingParsed
<1>6. CASE Admission
  <2>1. phase = "admission" /\ Proceed("charge") /\ UNCHANGED <<input, used, high, liveVars>>
    BY <1>6 DEF Admission, At
  <2> QED BY <2>1, ArenaMoves DEF Proceed, SlabHeld, NothingParsed
<1>7. CASE ChargeParsed
  <2> DEFINE value == input.values[step]
             miss  == value # Scalar /\ value \notin interned
  <2>1. /\ phase = "charge" /\ step <= Len(input.values) /\ input' = input
        /\ UNCHANGED <<admitted, hashLive, digestLive>>
        /\ Retain(used, IF miss THEN INTERN_CHARGE ELSE REFERENCE_CHARGE)
        /\ IF miss THEN interned' = interned \cup {value} /\ UNCHANGED <<step, phase>>
           ELSE Repeat /\ UNCHANGED interned
    BY <1>7 DEF ChargeParsed, At
  <2>2. CASE miss
    BY <2>1, <2>2, ArenaInterns
  <2>3. CASE ~miss
    BY <2>1, <2>3, ArenaReferences DEF Repeat, liveVars
  <2> QED BY <2>2, <2>3
<1>8. CASE ParsedAll
  <2>1. /\ phase = "charge" /\ step > Len(input.values) /\ Proceed("cases")
        /\ UNCHANGED <<input, used, high, liveVars>>
    BY <1>8 DEF ParsedAll, At
  <2> QED BY <2>1, ArenaMoves DEF Proceed, SlabHeld, NothingParsed
<1>9. CASE VisitCaseId
  <2>1. CASE case_ids[step] \in interned
    <3>1. /\ phase = "cases" /\ Repeat /\ UNCHANGED <<input, used, high, liveVars>>
      BY <1>9, <2>1 DEF VisitCaseId, At, liveVars
    <3>2. ArenaInv /\ phase # "done" /\ LiveTypes
      BY <1>0, <3>1
    <3>3. LiveTypes' /\ LiveInv'
      BY <3>1, <3>2 DEF ArenaInv, LiveTypes, LiveInv, Repeat, liveVars
    <3>4. Kept' = Kept
      BY <3>1 DEF Kept, admitted_pairs, liveVars
    <3>5. LiveCharge' = LiveCharge
      BY <3>1, <3>2, <3>3, <3>4, LiveIs, LiveNext DEF Repeat, liveVars, AfterParsing
    <3> QED BY <3>1, <3>2, <3>3, <3>5 DEF ArenaInv, Repeat
  <2>2. CASE case_ids[step] \notin interned
    <3>1. /\ phase = "cases" /\ Repeat /\ input' = input /\ UNCHANGED <<admitted, hashLive, digestLive>>
          /\ Retain(used, INTERN_CHARGE) /\ interned' = interned \cup {case_ids[step]}
      BY <1>9, <2>2 DEF VisitCaseId, At
    <3> QED BY <2>2, <3>1, ArenaInterns DEF Repeat
  <2> QED BY <2>1, <2>2
<1>10. CASE ValidateStages
  <2>1. phase = "cases" /\ Proceed("buffer") /\ UNCHANGED <<input, used, high, liveVars>>
    BY <1>10 DEF ValidateStages, PassOr, At
  <2> QED BY <2>1, ArenaMoves DEF Proceed, SlabHeld, NothingParsed
<1>11. CASE SourceCommitments
  <2>1. /\ phase = "buffer" /\ Borrow(used, HASH_BUFFER_CHARGE) /\ Proceed("relations") /\ input' = input
        /\ UNCHANGED liveVars
    BY <1>11 DEF SourceCommitments, At
  <2> QED BY <2>1, ArenaBorrows, ChargesAssumption DEF Proceed
<1>12. CASE ValidateRelations
  BY <1>12, ArenaReleases DEF ValidateRelations
<1>13. CASE RetainDerived
  <2> DEFINE label == Derivation[step]
  <2>1. At("derive") /\ step <= Len(Derivation) /\ LiveTypes
    BY <1>0, <1>13 DEF RetainDerived, At
  <2>2. label \in Labels
    <3>1. Derivation \in Seq(Labels)
      BY <2>1, InputIs, DerivedLabels DEF LiveTypes, Derivation
    <3>2. step \in Nat \ {0}
      BY <2>1 DEF LiveTypes
    <3> QED BY <2>1, <3>1, <3>2
  <2>3. /\ Retain(used, IF label = "enforcement_path" THEN PATH_CHARGE ELSE RECORD_CHARGE) /\ Repeat
        /\ admitted' = [admitted EXCEPT ![label] = @ + 1] /\ input' = input
        /\ UNCHANGED <<interned, hashLive, digestLive>>
    BY <1>13 DEF RetainDerived, At
  <2> HIDE DEF label
  <2> QED BY <2>1, <2>2, <2>3, ArenaDerives
<1>14. CASE DerivedAll
  <2>1. phase = "derive" /\ Proceed("reserve") /\ UNCHANGED <<input, used, high, liveVars>>
    BY <1>14 DEF DerivedAll, At
  <2> QED BY <2>1, ArenaMoves DEF Proceed, SlabHeld, NothingParsed
<1>15. CASE ReserveHashBuffer
  BY <1>15, ArenaReserves DEF ReserveHashBuffer
<1>16. CASE DigestStream
  BY <1>16, ArenaDigests DEF DigestStream
<1>17. CASE DigestedAll
  BY <1>17, ArenaGivesBack DEF DigestedAll
<1>18. CASE EnumerateKeys
  <2>1. phase = "keys" /\ Proceed("output") /\ UNCHANGED <<input, used, high, liveVars>>
    BY <1>18 DEF EnumerateKeys, At
  <2> QED BY <2>1, ArenaMoves DEF Proceed, SlabHeld, NothingParsed
<1>19. CASE BuildPlan
  BY <1>19 DEF BuildPlan
<1> QED BY <1>1, <1>2, <1>3, <1>4, <1>5, <1>6, <1>7, <1>8, <1>9, <1>10, <1>11, <1>12, <1>13,
           <1>14, <1>15, <1>16, <1>17, <1>18, <1>19 DEF Pipeline

\* So does every step of the callers, which touches neither side of it.
LEMMA ArenaKept == ArenaInv /\ [CompilerNext]_compilerVars => ArenaInv'
<1> SUFFICES ASSUME ArenaInv, [CompilerNext]_compilerVars PROVE ArenaInv'
  OBVIOUS
<1>1. CASE UNCHANGED <<input, phase, step, arenaVars, liveVars>>
  BY <1>1 DEF arenaVars, liveVars, ArenaInv, LiveTypes, LiveInv, LiveCharge, admitted_pairs
<1>2. CASE UNCHANGED compilerVars
  BY <1>1, <1>2 DEF compilerVars, callVars
<1>3. CASE \E c \in Callers : Consume(c) \/ CheckEntry(c)
  BY <1>1, <1>3 DEF Consume, CheckEntry, callVars
<1> QED BY <1>2, <1>3, ArenaPipeline DEF CompilerNext

\* While a compilation runs, the arena's counter is exactly what is live, its
\* high water mark is no less, and neither exceeds the maximum, whatever the
\* input and wherever a charge is refused (RetainedArena:
\* reserve, modeled_allocate and release).
THEOREM ArenaExact == CompilerSpec => []ArenaIsExact
<1>1. ArenaInv => ArenaIsExact
  BY DEF ArenaInv, ArenaIsExact
<1> QED BY <1>1, ArenaKept, ArenaStarts, PTL DEF CompilerSpec

-----------------------------------------------------------------------------
(* What the sweep of Phase B establishes *)

\* SelectInSeq finds the first stage that fails, or there is none.
LEMMA FirstStage ==
    ASSUME NEW s, Len(s) \in Nat, NEW first, first = SelectInSeq(s, LAMBDA x : x[2])
    PROVE  \/ first = 0 /\ \A i \in 1..Len(s) : ~s[i][2]
           \/ first \in 1..Len(s) /\ s[first][2]
<1> DEFINE I == {i \in 1..Len(s) : s[i][2]}
<1>1. first = IF I # {} THEN Min(I) ELSE 0
  BY DEF SelectInSeq
<1>2. CASE I = {}
  BY <1>1, <1>2
<1>3. CASE I # {}
  <2>1. I \in SUBSET Nat
    OBVIOUS
  <2>2. Min(I) \in I
    <3> HIDE DEF I
    <3>1. \E x \in I : \A y \in I : x <= y
      BY <1>3, <2>1, LeastNumber
    <3> QED BY <3>1 DEF Min
  <2> QED BY <1>1, <1>3, <2>2
<1> QED BY <1>2, <1>3

\* A ledger that passes the sweep fails none of its twelve stages.
LEMMA SweepPasses ==
    ASSUME NEW l, validate_relations(l) = "valid"
    PROVE  /\ ~unknown_entity(l) /\ ~duplicate_entity(l) /\ ~orphan_obligation(l) /\ ~orphan_case(l)
           /\ ~orphan_judge(l) /\ ~orphan_bundle(l) /\ ~orphan_gate(l) /\ ~orphan_evidence(l)
           /\ ~degree_cap_exceeded(l) /\ ~empty_required_set(l) /\ ~negative_test_coverage_missing(l)
           /\ ~relation_mismatch(l)
<1>1. PICK s : s = Sweep(l)
  OBVIOUS
<1>2. Len(s) = 12 /\ \A i \in 1..12 : s[i][1] # "valid"
  BY <1>1 DEF Sweep
<1>3. PICK first : first = SelectInSeq(s, LAMBDA x : x[2])
  OBVIOUS
<1>4. validate_relations(l) = IF first = 0 THEN "valid" ELSE s[first][1]
  BY <1>1, <1>3 DEF validate_relations
<1>5. first = 0 /\ \A i \in 1..12 : ~s[i][2]
  <2>1. \/ first = 0 /\ \A i \in 1..Len(s) : ~s[i][2]
        \/ first \in 1..Len(s) /\ s[first][2]
    <3>1. Len(s) \in Nat
      BY <1>2
    <3> QED BY <1>3, <3>1, FirstStage
  <2>2. first \in 1..12 => s[first][1] = "valid"
    BY <1>4
  <2> QED BY <1>2, <2>1, <2>2
<1>6. /\ ~s[1][2] /\ ~s[2][2] /\ ~s[3][2] /\ ~s[4][2] /\ ~s[5][2] /\ ~s[6][2] /\ ~s[7][2] /\ ~s[8][2]
      /\ ~s[9][2] /\ ~s[10][2] /\ ~s[11][2] /\ ~s[12][2]
  BY <1>5
<1> QED BY <1>1, <1>6 DEF Sweep

\* The greatest position of an array with a property.
LEMMA GreatestOf ==
    ASSUME NEW s, IsArray(s), NEW H \in SUBSET DOMAIN s, H # {}
    PROVE  Max(H) \in H
<1>1. DOMAIN s = 1..Len(s) /\ Len(s) \in Nat
  BY ArrayFinite
<1> QED BY <1>1, Greatest

\* A key that occurs is found, with the value of one of its occurrences.
LEMMA LookupIs ==
    ASSUME NEW s, IsArray(s), NEW k, NEW j \in DOMAIN s, s[j][1] = k
    PROVE  \E i \in DOMAIN s : s[i][1] = k /\ Lookup(s, k) = s[i][2]
<1> DEFINE H == {i \in DOMAIN s : s[i][1] = k}
<1>1. H \in SUBSET DOMAIN s /\ H # {}
  OBVIOUS
<1>2. Lookup(s, k) = s[Max(H)][2]
  BY <1>1 DEF Lookup
<1>3. Max(H) \in H
  <2> HIDE DEF H
  <2> QED BY <1>1, GreatestOf
<1> QED BY <1>2, <1>3

\* A count of one is one position.
LEMMA OnlyOne ==
    ASSUME NEW s, IsArray(s), NEW S \in SUBSET DOMAIN s, Cardinality(S) = 1
    PROVE  S # {} /\ \A i, j \in S : i = j
<1>1. IsFiniteSet(S)
  BY ArrayFinite, FS_Subset
<1>2. \E x : S = {x}
  BY <1>1, FS_Singleton
<1> QED BY <1>2

\* In a ledger that passes, a required obligation has a path in every case of its
\* lane: a pair (stage 31) of its lane (37), to a gate of that lane (37), with a
\* bundle that has members (34).
LEMMA Enforced ==
    ASSUME NEW l, Ledger(l), validate_relations(l) = "valid",
           NEW o \in ToSet(Required(l)), NEW n \in ToSet(l.lanes), n.id = o.lane,
           NEW k \in CaseIds(n)
    PROVE  \E h \in enforcement_paths(l) :
              /\ h.obligation = o.id /\ h.case = k /\ h.gate \in ToSet(n.gates)
              /\ EvidenceOf(l, h) # {}
<1>1. ~unknown_entity(l) /\ ~orphan_obligation(l) /\ ~orphan_bundle(l) /\ ~empty_required_set(l)
      /\ ~relation_mismatch(l)
  BY SweepPasses
<1>2. Required(l) # <<>> /\ l.judge_ids # <<>> /\ l.gates # <<>> /\ l.evidence_bundles # <<>>
  BY <1>1 DEF empty_required_set
<1>3. PICK p \in ToSet(l.obligation_gate_pairs) : p[2] = o.id
  BY <1>1, <1>2 DEF orphan_obligation, RequiredIds
<1>4. p[1] = o.lane
  BY <1>1, <1>3 DEF relation_mismatch
<1>5. p \in PairsOf(l, n.id)
  BY <1>3, <1>4 DEF PairsOf
<1>6. Path(l, n, p, k) \in enforcement_paths(l)
  BY <1>5 DEF enforcement_paths, Path
<1>7. p[3] \in ToSet(n.gates)
  <2> DEFINE s == [i \in DOMAIN l.gates |-> <<l.gates[i][2], l.gates[i][1]>>]
  <2>1. Lookup(s, p[3]) = p[1]
    BY <1>1, <1>3 DEF relation_mismatch
  <2>2. PICK g \in DOMAIN l.gates : l.gates[g][2] = p[3]
    BY <1>1, <1>3 DEF unknown_entity, GateIds, ToSet
  <2>3. IsArray(s)
    <3>1. DOMAIN l.gates = 1..Len(l.gates) /\ Len(l.gates) \in Nat
      BY Array, ArrayFinite DEF LedgerArrays
    <3>2. s \in [1..Len(l.gates) -> ToSet(s)]
      BY <3>1 DEF ToSet
    <3> HIDE DEF s
    <3> QED BY <3>1, <3>2 DEF IsArray
  <2>4. g \in DOMAIN s /\ s[g][1] = p[3]
    BY <2>2
  <2>5. PICK i \in DOMAIN s : s[i][1] = p[3] /\ Lookup(s, p[3]) = s[i][2]
    <3> HIDE DEF s
    <3> QED BY <2>3, <2>4, LookupIs
  <2>6. i \in DOMAIN l.gates /\ l.gates[i][2] = p[3] /\ l.gates[i][1] = n.id
    BY <1>4, <2>1, <2>5
  <2>7. l.gates[i] \in ToSet(l.gates)
    BY <2>6 DEF ToSet
  <2>8. ToSet(n.gates) = {g1[2] : g1 \in {x \in ToSet(l.gates) : x[1] = n.id}}
    BY <1>1 DEF relation_mismatch
  <2> QED BY <2>6, <2>7, <2>8
<1>8. EvidenceOf(l, Path(l, n, p, k)) # {}
  <2>1. PICK b \in ToSet(l.evidence_bundles) : b[1] = n.id
    BY <1>1, <1>2 DEF orphan_bundle, LaneIds, BundlesOf
  <2>2. PICK j \in DOMAIN l.evidence_bundles : l.evidence_bundles[j][1] = n.id
    BY <2>1 DEF ToSet
  <2>3. IsArray(l.evidence_bundles)
    BY Array DEF LedgerArrays
  <2>4. PICK i \in DOMAIN l.evidence_bundles : Bundle(l, n.id) = l.evidence_bundles[i][2]
    BY <2>2, <2>3, LookupIs DEF Bundle
  <2>5. PICK r \in ToSet(l.evidence_bundle_memberships) : r[1] = l.evidence_bundles[i][2]
    BY <1>1, <1>2, <2>4 DEF orphan_bundle, ToSet
  <2> QED BY <2>4, <2>5 DEF EvidenceOf, Path
<1> QED BY <1>3, <1>6, <1>7, <1>8 DEF Path

\* In a ledger that passes, judges and obligations correspond one to one.
LEMMA OwnJudge ==
    ASSUME NEW l, Ledger(l), validate_relations(l) = "valid",
           NEW g \in enforcement_paths(l), NEW h \in enforcement_paths(l)
    PROVE  g.judge = h.judge <=> g.obligation = h.obligation
<1>1. ~unknown_entity(l) /\ ~relation_mismatch(l)
  BY SweepPasses
<1> DEFINE otj == l.obligation_to_judge
<1>2. IsArray(otj)
  BY Array DEF LedgerArrays
<1>3. ASSUME NEW x \in enforcement_paths(l)
      PROVE  x.obligation \in RequiredIds(l) /\ x.judge = Judge(l, x.obligation)
  <2>1. PICK n \in ToSet(l.lanes) : \E p \in PairsOf(l, n.id), c \in CaseIds(n) : x = Path(l, n, p, c)
    BY <1>3 DEF enforcement_paths, Path
  <2>2. PICK p \in PairsOf(l, n.id), c \in CaseIds(n) : x = Path(l, n, p, c)
    BY <2>1
  <2>3. p[2] \in RequiredIds(l)
    BY <1>1 DEF unknown_entity, PairsOf
  <2> QED BY <2>2, <2>3 DEF Path
<1>4. ASSUME NEW o \in RequiredIds(l)
      PROVE  \E i \in DOMAIN otj : otj[i][1] = o /\ Judge(l, o) = otj[i][2]
  <2> DEFINE S == {i \in DOMAIN otj : otj[i][1] = o}
  <2>1. Cardinality(S) = 1
    BY <1>1, <1>4 DEF relation_mismatch, Count
  <2>2. S # {}
    <3>1. S \in SUBSET DOMAIN otj
      OBVIOUS
    <3> HIDE DEF S, otj
    <3> QED BY <1>2, <2>1, <3>1, OnlyOne
  <2>3. PICK j \in DOMAIN otj : otj[j][1] = o
    BY <2>2
  <2> HIDE DEF otj
  <2>4. \E i \in DOMAIN otj : otj[i][1] = o /\ Lookup(otj, o) = otj[i][2]
    BY <1>2, <2>3, LookupIs
  <2> QED BY <2>4 DEF Judge, otj
<1>5. ASSUME g.judge = h.judge PROVE g.obligation = h.obligation
  <2>1. PICK i \in DOMAIN otj : otj[i][1] = g.obligation /\ g.judge = otj[i][2]
    BY <1>3, <1>4
  <2>2. PICK j \in DOMAIN otj : otj[j][1] = h.obligation /\ h.judge = otj[j][2]
    BY <1>3, <1>4
  <2>3. g.judge \in ToSet(l.judge_ids)
    BY <1>1, <2>1 DEF unknown_entity, ToSet
  <2> DEFINE S == {x \in DOMAIN otj : otj[x][2] = g.judge}
  <2>4. Cardinality(S) = 1
    BY <1>1, <2>3 DEF relation_mismatch, Count
  <2>5. S \in SUBSET DOMAIN otj /\ i \in S /\ j \in S
    BY <1>5, <2>1, <2>2
  <2>6. i = j
    <3> HIDE DEF S, otj
    <3> QED BY <1>2, <2>4, <2>5, OnlyOne
  <2> QED BY <2>1, <2>2, <2>6
<1> QED BY <1>3, <1>5

-----------------------------------------------------------------------------
(* No plan without it *)

\* The phases behind the sweep of Phase B.
Validated == {"derive", "reserve", "digest", "keys", "output"}

\* Nothing gets behind the sweep, and no plan is built, unless it passed.
Unplanned == phase \notin Validated /\ \A c \in Callers : outcome[c].kind # "plan"
PlanInv ==
    /\ input \in Inputs /\ outcome = [c \in Callers |-> outcome[c]]
    /\ validate_relations(input.ledger) = "valid" \/ Unplanned

\* A failure ends the pipeline.
LEMMA FailedKind == ASSUME NEW v, NEW a, NEW k, Fail(v, a, k)
    PROVE  \E r : /\ r.kind = "failure" /\ phase' = "done"
                  /\ outcome' = [outcome EXCEPT ![owner] = r]
BY DEF Fail, Stop, Return

\* So does an error that is raised.
LEMMA RaisedStops == ASSUME NEW e, Raise(e)
    PROVE  \E r : /\ r.kind = "raised" /\ phase' = "done"
                  /\ outcome' = [outcome EXCEPT ![owner] = r]
BY RaisedKind DEF Raise, Stop, Return

\* How a step of the pipeline before the sweep ends.
Early ==
    \/ outcome' = outcome /\ phase' \notin Validated
    \/ /\ phase' = "done"
       /\ \E r : r.kind # "plan" /\ outcome' = [outcome EXCEPT ![owner] = r]

\* A failure is no plan.
LEMMA FailEarly == ASSUME NEW v, NEW a, NEW k, Fail(v, a, k) PROVE Early
BY FailedKind DEF Early

\* Nor is an error.
LEMMA RaiseEarly == ASSUME NEW e, Raise(e) PROVE Early
BY RaisedStops DEF Early

\* Nor is a charge that fails.
LEMMA ChargeEarly ==
    ASSUME NEW b, NEW n, NEW k, IndexCap(b, n, k) \/ AllocationFailed(b, n, k)
    PROVE  Early
BY FailEarly DEF IndexCap, AllocationFailed

\* Of the steps before the sweep none gets behind it, and of a ledger that does
\* not pass the sweep makes a failure.
LEMMA BeforeSweep ==
    ASSUME Pipeline, phase \notin Validated, validate_relations(input.ledger) # "valid"
    PROVE  Early
<1> USE DEF At, Validated
<1>1. CASE EntryPreflight
  BY <1>1, FailEarly, RaiseEarly DEF EntryPreflight, Proceed, Early
<1>2. CASE HashInput
  BY <1>2, ChargeEarly DEF HashInput, Repeat, Early
<1>3. CASE CompareDigests
  BY <1>3, RaiseEarly DEF CompareDigests, Proceed, Early
<1>4. CASE AllocateScratch
  BY <1>4, ChargeEarly DEF AllocateScratch, Proceed, Early
<1>5. CASE ParsePhaseA
  BY <1>5, FailEarly DEF ParsePhaseA, PassOr, Proceed, Early
<1>6. CASE Admission
  BY <1>6, FailEarly, RaiseEarly DEF Admission, Proceed, Early
<1>7. CASE ChargeParsed
  BY <1>7, ChargeEarly DEF ChargeParsed, Repeat, Early
<1>8. CASE ParsedAll
  BY <1>8 DEF ParsedAll, Proceed, Early
<1>9. CASE VisitCaseId
  BY <1>9, ChargeEarly DEF VisitCaseId, Repeat, Early
<1>10. CASE ValidateStages
  BY <1>10, FailEarly DEF ValidateStages, PassOr, Proceed, Early
<1>11. CASE SourceCommitments
  BY <1>11, ChargeEarly DEF SourceCommitments, Proceed, Early
<1>12. CASE ValidateRelations
  <2>1. PhaseB # "valid"
    BY DEF PhaseB
  <2> QED BY <1>12, <2>1, FailEarly DEF ValidateRelations
<1>13. ~RetainDerived /\ ~DerivedAll /\ ~ReserveHashBuffer /\ ~DigestStream /\ ~DigestedAll
       /\ ~EnumerateKeys /\ ~BuildPlan
  BY DEF RetainDerived, DerivedAll, ReserveHashBuffer, DigestStream, DigestedAll,
         EnumerateKeys, BuildPlan
<1> QED BY <1>1, <1>2, <1>3, <1>4, <1>5, <1>6, <1>7, <1>8, <1>9, <1>10, <1>11, <1>12, <1>13
        DEF Pipeline

\* The pipeline keeps PlanInv.
LEMMA PlanPipeline == PlanInv /\ Pipeline => PlanInv'
<1> SUFFICES ASSUME PlanInv, Pipeline PROVE PlanInv'
  OBVIOUS
<1>1. input' = input /\ outcome' = [c \in Callers |-> outcome'[c]]
  BY PipelineKeeps DEF PlanInv, PipelineSteps
<1>2. CASE validate_relations(input.ledger) = "valid"
  BY <1>1, <1>2 DEF PlanInv
<1>3. CASE validate_relations(input.ledger) # "valid"
  <2>1. Unplanned /\ Early
    BY <1>3, BeforeSweep DEF PlanInv, Unplanned
  <2>2. Unplanned'
    <3>1. phase' \notin Validated
      BY <2>1 DEF Early, Unplanned, Validated
    <3>2. \A c \in Callers : outcome'[c].kind # "plan"
      BY <2>1 DEF Early, Unplanned, PlanInv
    <3> QED BY <3>1, <3>2 DEF Unplanned
  <2> QED BY <1>1, <2>2 DEF PlanInv
<1> QED BY <1>2, <1>3

\* The callers keep it too: what they are refused with is no plan.
LEMMA PlanCallers == ASSUME NEW c \in Callers, PlanInv, Consume(c) \/ CheckEntry(c) PROVE PlanInv'
<1>1. input' = input /\ phase' = phase
  BY DEF Consume, CheckEntry, callVars
<1>2. outcome' = outcome \/ \E e : outcome' = [outcome EXCEPT ![c] = Raised(e)]
  BY DEF Consume, CheckEntry, Return
<1>3. \A e : Raised(e).kind # "plan"
  BY RaisedKind
<1>4. outcome' = [d \in Callers |-> outcome'[d]]
  BY <1>2 DEF PlanInv
<1>5. Unplanned => Unplanned'
  BY <1>1, <1>2, <1>3 DEF Unplanned, PlanInv
<1> QED BY <1>1, <1>4, <1>5 DEF PlanInv

\* A plan is of a ledger that passed, and that one is enforced.
LEMMA PlanSound == PlanInv => PlanEnforcesObligations
<1> SUFFICES ASSUME PlanInv, NEW c \in Callers, outcome[c].kind = "plan"
             PROVE  LET l == input.ledger IN
        /\ \A o \in ToSet(Required(l)) : \A n \in ToSet(l.lanes) : n.id = o.lane =>
              \A k \in CaseIds(n) : \E h \in enforcement_paths(l) :
                 /\ h.obligation = o.id /\ h.case = k /\ h.gate \in ToSet(n.gates)
                 /\ EvidenceOf(l, h) # {}
        /\ \A g, h \in enforcement_paths(l) :
              g.judge = h.judge <=> g.obligation = h.obligation
  BY DEF PlanEnforcesObligations
<1>1. PICK l : l = input.ledger
  OBVIOUS
<1>2. Ledger(l) /\ validate_relations(l) = "valid"
  BY <1>1, InputIs DEF PlanInv, Unplanned
<1>3. \A o \in ToSet(Required(l)) : \A n \in ToSet(l.lanes) : n.id = o.lane =>
              \A k \in CaseIds(n) : \E h \in enforcement_paths(l) :
                 /\ h.obligation = o.id /\ h.case = k /\ h.gate \in ToSet(n.gates)
                 /\ EvidenceOf(l, h) # {}
  BY <1>2, Enforced
<1>4. \A g, h \in enforcement_paths(l) : g.judge = h.judge <=> g.obligation = h.obligation
  BY <1>2, OwnJudge
<1> QED BY <1>1, <1>3, <1>4

\* A plan enforces every required obligation in every case plan of its lane,
\* through a gate of that lane with evidence and with a judge of its own
\* (validate_relations before derive_relations), for every ledger.
THEOREM PlanEnforces == CompilerSpec => []PlanEnforcesObligations
<1>1. CompilerInit => PlanInv
  BY DEF CompilerInit, PlanInv, Unplanned, Validated, NoOutcome
<1>2. PlanInv /\ [CompilerNext]_compilerVars => PlanInv'
  <2>1. CASE UNCHANGED compilerVars
    BY <2>1 DEF compilerVars, callVars, PlanInv, Unplanned
  <2> QED BY <2>1, PlanPipeline, PlanCallers DEF CompilerNext
<1> QED BY <1>1, <1>2, PlanSound, PTL DEF CompilerSpec

-----------------------------------------------------------------------------
(* What a resource failure reports *)

ArenaNames == {"resource_index_cap_exceeded", "resource_allocation_failed"}

\* No stage of the sweep has the name of an arena failure.
LEMMA RelationsNamed == ASSUME NEW l PROVE validate_relations(l) \notin ArenaNames
<1>1. PICK s : s = Sweep(l)
  OBVIOUS
<1>2. Len(s) = 12 /\ \A i \in 1..12 : s[i][1] \notin ArenaNames
  BY <1>1 DEF Sweep, ArenaNames
<1>3. PICK first : first = SelectInSeq(s, LAMBDA x : x[2])
  OBVIOUS
<1>4. validate_relations(l) = IF first = 0 THEN "valid" ELSE s[first][1]
  BY <1>1, <1>3 DEF validate_relations
<1>5. first = 0 \/ first \in 1..12
  <2>1. Len(s) \in Nat
    BY <1>2
  <2> QED BY <1>2, <1>3, <2>1, FirstStage
<1> QED BY <1>2, <1>4, <1>5 DEF ArenaNames

\* Nor has the enumeration of the keys.
LEMMA KeysNamed == ASSUME NEW l PROVE enumerate_expected_keys(l) \notin ArenaNames
BY DEF enumerate_expected_keys, ArenaNames

\* Two lists of stages joined name what they named.
LEMMA NamedJoin ==
    ASSUME NEW a, NEW b, NEW m \in Nat, NEW k \in Nat,
           a = [i \in 1..m |-> a[i]], \A i \in 1..m : a[i][1] \notin ArenaNames,
           b = [i \in 1..k |-> b[i]], \A i \in 1..k : b[i][1] \notin ArenaNames
    PROVE  /\ Len(a \o b) = m + k /\ (a \o b) = [i \in 1..(m + k) |-> (a \o b)[i]]
           /\ \A i \in 1..(m + k) : (a \o b)[i][1] \notin ArenaNames
<1>1. PICK All : (\A i \in 1..m : a[i] \in All) /\ (\A i \in 1..k : b[i] \in All)
  <2> DEFINE All == {a[i] : i \in 1..m} \cup {b[i] : i \in 1..k}
  <2>1. (\A i \in 1..m : a[i] \in All) /\ (\A i \in 1..k : b[i] \in All)
    OBVIOUS
  <2> HIDE DEF All
  <2> QED BY <2>1
<1>2. a \in Seq(All) /\ b \in Seq(All) /\ Len(a) = m /\ Len(b) = k
  <2>1. a \in [1..m -> All] /\ b \in [1..k -> All]
    BY ONLY <1>1, a = [i \in 1..m |-> a[i]], b = [i \in 1..k |-> b[i]]
  <2>2. ASSUME NEW n \in Nat, NEW x \in [1..n -> All] PROVE x \in Seq(All) /\ Len(x) = n
    OBVIOUS
  <2> QED BY ONLY <2>1, <2>2, m \in Nat, k \in Nat
<1>3. /\ Len(a \o b) = m + k /\ (a \o b) = [i \in 1..(m + k) |-> (a \o b)[i]]
      /\ \A i \in 1..(m + k) : (a \o b)[i] = IF i <= m THEN a[i] ELSE b[i - m]
  <2>1. PICK s : s = a \o b
    OBVIOUS
  <2>2. s \in Seq(All) /\ Len(s) = m + k /\ s = [i \in 1..(m + k) |-> s[i]]
    <3>1. s \in Seq(All) /\ Len(s) = m + k
      <4>1. s \in Seq(All)
        BY ONLY <1>2, <2>1
      <4>2. Len(s) = m + k
        BY <1>2, <2>1
      <4> QED BY <4>1, <4>2
    <3>2. s \in [1..Len(s) -> All]
      BY ONLY <3>1
    <3> QED BY ONLY <3>1, <3>2
  <2>3. \A i \in 1..(m + k) : s[i] = IF i <= m THEN a[i] ELSE b[i - m]
    BY ONLY <1>2, <2>1, m \in Nat, k \in Nat
  <2> QED BY ONLY <2>1, <2>2, <2>3
<1>4. ASSUME NEW i \in 1..(m + k) PROVE (a \o b)[i][1] \notin ArenaNames
  <2>1. CASE i <= m
    BY <1>3, <2>1
  <2>2. CASE i > m
    <3>1. i - m \in 1..k
      BY <2>2
    <3> QED BY <1>3, <2>2, <3>1
  <2> QED BY <2>1, <2>2
<1> QED BY <1>3, <1>4

\* Nor has a stage of parsing.
LEMMA ParsingNamed == Parsing \notin ArenaNames
<1> DEFINE Found(x) == x[1] \in input.defects
<1>1. PICK d, e : /\ d = duplicate_identifier(input.ledger, input.docs)
                  /\ e = ("not_canonical" \in input.defects)
  OBVIOUS
<1>2. PICK a : a = [i \in DOMAIN BeforeIds |-> <<BeforeIds[i][2], Found(BeforeIds[i])>>]
  OBVIOUS
<1>3. PICK b : b = << <<"authority_duplicate_identifier", d>>, <<"authority_order_violation", e>> >>
  OBVIOUS
<1>4. DOMAIN BeforeIds = 1..5 /\ \A i \in 1..5 : BeforeIds[i][2] \notin ArenaNames
  BY DEF BeforeIds, ArenaNames
<1>5. a = [i \in 1..5 |-> a[i]] /\ \A i \in 1..5 : a[i][1] \notin ArenaNames
  BY <1>2, <1>4
<1>6. b = [i \in 1..2 |-> b[i]] /\ \A i \in 1..2 : b[i][1] \notin ArenaNames
  BY <1>3 DEF ArenaNames
<1>7. PICK s : s = a \o b
  OBVIOUS
<1>8. Len(s) = 7 /\ \A i \in 1..7 : s[i][1] \notin ArenaNames
  <2>1. 5 \in Nat /\ 2 \in Nat /\ 5 + 2 = 7
    OBVIOUS
  <2> QED BY <1>5, <1>6, <1>7, <2>1, NamedJoin
<1>9. PICK first : first = SelectInSeq(s, LAMBDA x : x[2])
  OBVIOUS
<1>10. Parsing = IF first = 0 THEN "valid" ELSE s[first][1]
  BY <1>1, <1>2, <1>3, <1>7, <1>9 DEF Parsing
<1>11. first = 0 \/ first \in 1..7
  <2>1. Len(s) \in Nat
    BY <1>8
  <2> QED BY <1>8, <1>9, <2>1, FirstStage
<1> QED BY <1>8, <1>10, <1>11 DEF ArenaNames

\* Nor has one of the stages 7 to 28.
LEMMA StagesNamed == ASSUME NEW l, NEW d PROVE validate_stages_7_28(l, d) \notin ArenaNames
<1>1. PICK a : a = InputStages(l, d)
  OBVIOUS
<1>2. PICK b : b = CatalogStages(l, d)
  OBVIOUS
<1>3. PICK c : c = PayloadStages(d)
  OBVIOUS
<1>4. a = [i \in 1..13 |-> a[i]] /\ \A i \in 1..13 : a[i][1] \notin ArenaNames
  BY <1>1 DEF InputStages, ArenaNames
<1>5. b = [i \in 1..6 |-> b[i]] /\ \A i \in 1..6 : b[i][1] \notin ArenaNames
  BY <1>2 DEF CatalogStages, ArenaNames
<1>6. c = [i \in 1..3 |-> c[i]] /\ \A i \in 1..3 : c[i][1] \notin ArenaNames
  BY <1>3 DEF PayloadStages, ArenaNames
<1>7. PICK s : s = (a \o b) \o c
  OBVIOUS
<1>8. Len(s) = 22 /\ \A i \in 1..22 : s[i][1] \notin ArenaNames
  <2>1. PICK t : t = a \o b
    OBVIOUS
  <2>2. 13 \in Nat /\ 6 \in Nat /\ 13 + 6 = 19
    OBVIOUS
  <2>3. t = [i \in 1..19 |-> t[i]] /\ \A i \in 1..19 : t[i][1] \notin ArenaNames
    BY <1>4, <1>5, <2>1, <2>2, NamedJoin
  <2>4. 19 \in Nat /\ 3 \in Nat /\ 19 + 3 = 22
    OBVIOUS
  <2>5. s = t \o c
    BY <1>7, <2>1
  <2> QED BY <1>6, <2>3, <2>4, <2>5, NamedJoin
<1>9. PICK first : first = SelectInSeq(s, LAMBDA x : x[2])
  OBVIOUS
<1>10. validate_stages_7_28(l, d) = IF first = 0 THEN "valid" ELSE s[first][1]
  BY <1>1, <1>2, <1>3, <1>7, <1>9 DEF validate_stages_7_28
<1>11. first = 0 \/ first \in 1..22
  <2>1. Len(s) \in Nat
    BY <1>8
  <2> QED BY <1>8, <1>9, <2>1, FirstStage
<1> QED BY <1>8, <1>10, <1>11 DEF ArenaNames

\* How a step of the pipeline leaves the outcomes.
Reports ==
    \/ outcome' = outcome
    \/ \E r : /\ outcome' = [outcome EXCEPT ![owner] = r] /\ phase' = "done"
              /\ r.kind = "failure" => ReportsArena(r)'

\* A failure of another name reports nothing of the arena.
LEMMA NamedReports == ASSUME NEW v, NEW a, NEW k, v \notin ArenaNames, Fail(v, a, k) PROVE Reports
<1> DEFINE r == [kind |-> "failure", name |-> v, arena |-> a, counts |-> k]
<1>1. outcome' = [outcome EXCEPT ![owner] = r] /\ phase' = "done"
  BY DEF Fail, Stop, Return
<1>2. r.name = v
  OBVIOUS
<1>3. ReportsArena(r)'
  BY <1>2 DEF ReportsArena, ArenaNames
<1> QED BY <1>1, <1>3 DEF Reports

\* An error reports nothing of it either.
LEMMA RaisedReports == ASSUME NEW e, Raise(e) PROVE Reports
BY RaisedStops DEF Reports

\* A charge that fails reports the candidate or what was held.
LEMMA ChargeReports ==
    ASSUME NEW b \in Nat, NEW n \in Nat, NEW k, input \in Inputs, input' = input, b <= input.x_max,
           IndexCap(b, n, k) \/ AllocationFailed(b, n, k)
    PROVE  Reports
<1>0. input.x_max \in Nat
  BY InputIs
<1>1. CASE IndexCap(b, n, k)
  <2> DEFINE r == [kind |-> "failure", name |-> "resource_index_cap_exceeded", arena |-> b + n,
                   counts |-> k]
  <2>1. outcome' = [outcome EXCEPT ![owner] = r] /\ phase' = "done"
    BY <1>1 DEF IndexCap, Fail, Stop, Return
  <2>2. b + n > input'.x_max /\ used' = b
    BY <1>0, <1>1 DEF IndexCap, CanHold
  <2>3. r.arena = b + n /\ r.name = "resource_index_cap_exceeded"
    OBVIOUS
  <2>4. ReportsArena(r)'
    BY <2>2, <2>3 DEF ReportsArena
  <2> QED BY <2>1, <2>4 DEF Reports
<1>2. CASE AllocationFailed(b, n, k)
  <2> DEFINE r == [kind |-> "failure", name |-> "resource_allocation_failed", arena |-> b,
                   counts |-> k]
  <2>1. outcome' = [outcome EXCEPT ![owner] = r] /\ phase' = "done"
    BY <1>2 DEF AllocationFailed, Fail, Stop, Return
  <2>2. used' = b
    BY <1>2 DEF AllocationFailed
  <2>3. r.arena = b /\ r.name = "resource_allocation_failed"
    OBVIOUS
  <2>4. ReportsArena(r)'
    BY <2>2, <2>3 DEF ReportsArena
  <2> QED BY <2>1, <2>4 DEF Reports
<1> QED BY <1>1, <1>2

\* However a step of the pipeline ends the call, what it reports of the arena is so.
LEMMA PipelineReports == ASSUME ArenaInv, Pipeline PROVE Reports
<1>1. phase # "done" /\ input' = input
  BY PipelineKeeps DEF PipelineSteps
<1>2. LiveTypes /\ used = LiveCharge /\ used <= high /\ high <= input.x_max /\ LiveInv
  BY <1>1 DEF ArenaInv
<1>3. input \in Inputs /\ used \in Nat /\ used <= input.x_max
  <2>1. input.x_max \in Nat
    BY <1>2, InputIs DEF LiveTypes
  <2> QED BY <1>2, <2>1 DEF LiveTypes
<1> DEFINE Charge(n) == \E k : IndexCap(used, n, k) \/ AllocationFailed(used, n, k)
<1>4. ASSUME NEW n \in Nat, Charge(n) PROVE Reports
  BY <1>1, <1>3, <1>4, ChargeReports
<1>5. ASSUME Repeat PROVE Reports
  BY <1>5 DEF Repeat, Reports
<1>6. ASSUME NEW p, Proceed(p) PROVE Reports
  BY <1>6 DEF Proceed, Reports
<1>7. CASE EntryPreflight
  BY <1>6, <1>7, NamedReports, RaisedReports DEF EntryPreflight, ArenaNames
<1>8. CASE HashInput
  <2>1. Charge(SHA256_STATE_CHARGE) \/ Repeat
    BY <1>8 DEF HashInput
  <2> HIDE DEF Charge
  <2> QED BY <1>4, <1>5, <2>1, ChargesAssumption
<1>9. CASE CompareDigests
  BY <1>6, <1>9, RaisedReports DEF CompareDigests
<1>10. CASE AllocateScratch
  <2>1. Charge(W_B) \/ Proceed("parse")
    BY <1>10 DEF AllocateScratch
  <2> HIDE DEF Charge
  <2> QED BY <1>4, <1>6, <2>1, ChargesAssumption
<1>11. CASE ParsePhaseA
  BY <1>6, <1>11, NamedReports, ParsingNamed DEF ParsePhaseA, PassOr
<1>12. CASE Admission
  BY <1>6, <1>12, NamedReports, RaisedReports DEF Admission, ArenaNames
<1>13. CASE ChargeParsed
  <2>1. \E n \in {INTERN_CHARGE, REFERENCE_CHARGE} : Charge(n) \/ outcome' = outcome
    BY <1>13 DEF ChargeParsed, Repeat
  <2> HIDE DEF Charge
  <2> QED BY <1>4, <2>1, ChargesAssumption DEF Reports
<1>14. CASE ParsedAll
  BY <1>6, <1>14 DEF ParsedAll
<1>15. CASE VisitCaseId
  <2>1. Charge(INTERN_CHARGE) \/ Repeat
    BY <1>15 DEF VisitCaseId
  <2> HIDE DEF Charge
  <2> QED BY <1>4, <1>5, <2>1, ChargesAssumption
<1>16. CASE ValidateStages
  BY <1>6, <1>16, NamedReports, StagesNamed DEF ValidateStages, PassOr
<1>17. CASE SourceCommitments
  <2>1. Charge(HASH_BUFFER_CHARGE) \/ Proceed("relations")
    BY <1>17 DEF SourceCommitments
  <2> HIDE DEF Charge
  <2> QED BY <1>4, <1>6, <2>1, ChargesAssumption
<1>18. CASE ValidateRelations
  <2>1. PhaseB \notin ArenaNames
    BY RelationsNamed DEF PhaseB, ArenaNames
  <2> QED BY <1>6, <1>18, <2>1, NamedReports DEF ValidateRelations
<1>19. CASE RetainDerived
  <2>1. \/ Raise("KeyError") \/ Repeat
        \/ \E n \in {PATH_CHARGE, RECORD_CHARGE} : Charge(n)
    BY <1>19 DEF RetainDerived
  <2> HIDE DEF Charge
  <2> QED BY <1>4, <1>5, <2>1, RaisedReports, ChargesAssumption
<1>20. CASE DerivedAll
  BY <1>6, <1>20, RaisedReports DEF DerivedAll
<1>21. CASE ReserveHashBuffer
  <2>1. Charge(HASH_BUFFER_CHARGE) \/ Proceed("digest")
    BY <1>21 DEF ReserveHashBuffer
  <2> HIDE DEF Charge
  <2> QED BY <1>4, <1>6, <2>1, ChargesAssumption
<1>22. CASE DigestStream
  <2>1. phase = "digest"
    BY <1>22 DEF DigestStream, At
  <2>2. PICK d \in Nat : d = IF digestLive THEN SHA256_STATE_CHARGE ELSE 0
    BY ChargesAssumption
  <2>3. used = (0 + Kept) + HASH_BUFFER_CHARGE + d /\ Kept \in Nat
    <3>1. hashLive
      BY <1>2, <2>1 DEF LiveInv
    <3> QED BY <1>2, <2>1, <2>2, <3>1, LiveIs, KeptIs DEF AfterParsing, SlabHeld
  <2>4. used - d \in Nat /\ used - d <= input.x_max
    <3>1. input.x_max \in Nat
      BY <1>3, InputIs
    <3> QED BY <1>3, <2>3, <3>1, ChargesAssumption
  <2>5. \/ IndexCap(used - d, SHA256_STATE_CHARGE, K4)
        \/ AllocationFailed(used - d, SHA256_STATE_CHARGE, K4)
        \/ Repeat
    BY <1>22, <2>2 DEF DigestStream
  <2> QED BY <1>1, <1>3, <1>5, <2>4, <2>5, ChargeReports, ChargesAssumption
<1>23. CASE DigestedAll
  BY <1>6, <1>23, RaisedReports DEF DigestedAll
<1>24. CASE EnumerateKeys
  BY <1>6, <1>24, NamedReports, KeysNamed DEF EnumerateKeys
<1>25. CASE BuildPlan
  <2>1. CASE Fail("resource_output_cap_exceeded", used, K4)
    BY <2>1, NamedReports DEF ArenaNames
  <2>2. CASE Fail("resource_allocation_failed", used, K4)
    <3>1. PICK a, k : a = used /\ k = K4
      OBVIOUS
    <3>2. PICK r : r = [kind |-> "failure", name |-> "resource_allocation_failed",
                        arena |-> a, counts |-> k]
      OBVIOUS
    <3>3. outcome' = [outcome EXCEPT ![owner] = r] /\ phase' = "done"
      BY <2>2, <3>1, <3>2 DEF Fail, Stop, Return
    <3>4. used' = used /\ input' = input
      BY <1>25 DEF BuildPlan, arenaVars, callVars
    <3>5. r.arena = used' /\ r.name = "resource_allocation_failed"
      BY <3>1, <3>2, <3>4
    <3>6. ReportsArena(r)'
      BY <1>3, <3>4, <3>5 DEF ReportsArena
    <3> QED BY <3>3, <3>6 DEF Reports
  <2>3. CASE Stop([kind |-> "plan", name |-> "CoveragePlan", arena |-> high, counts |-> K4])
    <3>1. PICK r : r = [kind |-> "plan", name |-> "CoveragePlan", arena |-> high, counts |-> K4]
      OBVIOUS
    <3>2. outcome' = [outcome EXCEPT ![owner] = r] /\ phase' = "done" /\ r.kind # "failure"
      BY <2>3, <3>1 DEF Stop, Return
    <3> QED BY <3>2 DEF Reports
  <2>4. CASE Raise("CompilerInternalError")
    BY <2>4, RaisedReports
  <2> QED BY <1>25, <2>1, <2>2, <2>3, <2>4 DEF BuildPlan
<1> HIDE DEF Charge
<1> QED BY <1>7, <1>8, <1>9, <1>10, <1>11, <1>12, <1>13, <1>14, <1>15, <1>16, <1>17, <1>18, <1>19,
           <1>20, <1>21, <1>22, <1>23, <1>24, <1>25 DEF Pipeline

\* A failure ends the pipeline, and the arena stays as it was reported.
ReportInv ==
    /\ outcome = [c \in Callers |-> outcome[c]]
    /\ \A c \in Callers : outcome[c].kind = "failure" => phase = "done" /\ ReportsArena(outcome[c])

\* The pipeline keeps ReportInv.
LEMMA ReportPipeline == ArenaInv /\ ReportInv /\ Pipeline => ReportInv'
<1> SUFFICES ASSUME ArenaInv, ReportInv, Pipeline PROVE ReportInv'
  OBVIOUS
<1>1. phase # "done" /\ \A c \in Callers : outcome[c].kind # "failure"
  BY PipelineKeeps DEF PipelineSteps, ReportInv
<1>2. Reports
  BY PipelineReports
<1>3. CASE outcome' = outcome
  BY <1>1, <1>3 DEF ReportInv
<1>4. CASE outcome' # outcome
  <2>1. PICK r : /\ outcome' = [outcome EXCEPT ![owner] = r] /\ phase' = "done"
                 /\ r.kind = "failure" => ReportsArena(r)'
    BY <1>2, <1>4 DEF Reports
  <2>2. ASSUME NEW c \in Callers, outcome'[c].kind = "failure" PROVE ReportsArena(outcome[c])'
    <3>1. outcome'[c] = r
      BY <1>1, <2>1, <2>2 DEF ReportInv
    <3> QED BY <2>1, <2>2, <3>1 DEF ReportsArena
  <2> QED BY <2>1, <2>2 DEF ReportInv
<1> QED BY <1>3, <1>4

\* The callers keep it: they touch neither the arena nor another's outcome.
LEMMA ReportCallers ==
    ASSUME NEW c \in Callers, ReportInv, Consume(c) \/ CheckEntry(c)
    PROVE  ReportInv'
<1>1. input' = input /\ phase' = phase /\ used' = used
  BY DEF Consume, CheckEntry, callVars, arenaVars
<1>2. outcome' = outcome \/ \E e : outcome' = [outcome EXCEPT ![c] = Raised(e)]
  BY DEF Consume, CheckEntry, Return
<1>3. \A e : Raised(e).kind # "failure"
  BY RaisedKind
<1>4. outcome' = [d \in Callers |-> outcome'[d]]
  BY <1>2 DEF ReportInv
<1>5. \A d \in Callers : outcome'[d].kind = "failure" => outcome'[d] = outcome[d]
  BY <1>2, <1>3 DEF ReportInv
<1>6. \A d \in Callers : outcome'[d].kind = "failure" => phase' = "done" /\ ReportsArena(outcome[d])'
  BY <1>1, <1>5 DEF ReportInv, ReportsArena
<1> QED BY <1>4, <1>6 DEF ReportInv

\* A cap failure reports a candidate above the maximum while no more than the
\* maximum is held; an allocation failure reports exactly the charge that was
\* held before the attempt, and still is (modeled_allocate).
THEOREM FailureArena ==
    CompilerSpec => [](\A c \in Callers : outcome[c].kind = "failure" => ReportsArena(outcome[c]))
<1>1. CompilerInit => ArenaInv /\ ReportInv
  BY ArenaStarts DEF CompilerInit, ReportInv, NoOutcome
<1>2. ArenaInv /\ ReportInv /\ [CompilerNext]_compilerVars => ArenaInv' /\ ReportInv'
  <2>1. ArenaInv /\ [CompilerNext]_compilerVars => ArenaInv'
    BY ArenaKept
  <2>2. CASE UNCHANGED compilerVars
    BY <2>1, <2>2 DEF compilerVars, callVars, arenaVars, ReportInv, ReportsArena
  <2> QED BY <2>1, <2>2, ReportPipeline, ReportCallers DEF CompilerNext
<1>3. ReportInv => \A c \in Callers : outcome[c].kind = "failure" => ReportsArena(outcome[c])
  BY DEF ReportInv
<1> QED BY <1>1, <1>2, <1>3, PTL DEF CompilerSpec
=============================================================================
