--------------------------- MODULE BaselinePromotion ---------------------------
(***************************************************************************)
(* promote_baseline: several promoters publish a baseline under one ID in a *)
(* shared registry directory.  Each writes its files into a staging         *)
(* directory of its own, takes a create-only lock file, looks whether the   *)
(* baseline exists, and publishes it with a single rename.  A promoter may  *)
(* be killed between any two steps; its lock file and its staging directory *)
(* then stay behind.                                                        *)
(***************************************************************************)
EXTENDS Naturals

CONSTANTS
    Promoters,   \* concurrent calls of promote_baseline with one baseline ID
    NoOne        \* not a promoter

ASSUME PromoterAssumption == NoOne \notin Promoters

FileCount == 3   \* inventory.json, receipt.json and the commit marker
Absent == FileCount + 1

VARIABLES
    pc,          \* per promoter: where promote_baseline is
    staging,     \* per promoter: files in its staging directory, or Absent
    committed,   \* promoters whose rename succeeded
    lost,        \* promoters told of another baseline or promotion
    littered,    \* promoters that could not remove their lock or their staging
    lock,        \* who created the lock file that exists, or NoOne
    target,      \* who published the baseline, or NoOne
    contents     \* files in the published directory

fileVars == <<staging, lock, target, contents>>
vars == <<pc, committed, lost, littered, fileVars>>

Init ==
    /\ pc = [p \in Promoters |-> "start"]
    /\ staging = [p \in Promoters |-> Absent]
    /\ committed = {} /\ lost = {} /\ littered = {}
    /\ lock = NoOne /\ target = NoOne /\ contents = 0

Goto(p, l) == pc' = [pc EXCEPT ![p] = l]

-----------------------------------------------------------------------------

\* The evidence is hashed and the receipt made, dated by the caller or now.
MakeReceipt(p) ==
    /\ pc[p] = "start"
    /\ Goto(p, "stage")
    /\ UNCHANGED <<committed, lost, littered, fileVars>>

\* Invalid input or evidence, or no staging directory: nothing to undo.
PromotionRefused(p) ==
    /\ pc[p] \in {"start", "stage"}
    /\ Goto(p, "raised")
    /\ UNCHANGED <<committed, lost, littered, fileVars>>

MakeStaging(p) ==
    /\ pc[p] = "stage"
    /\ staging' = [staging EXCEPT ![p] = 0]
    /\ Goto(p, "write")
    /\ UNCHANGED <<committed, lost, littered, lock, target, contents>>

WriteStaged(p) ==
    /\ pc[p] = "write"
    /\ staging' = [staging EXCEPT ![p] = @ + 1]
    /\ Goto(p, IF staging[p] + 1 = FileCount THEN "lock" ELSE "write")
    /\ UNCHANGED <<committed, lost, littered, lock, target, contents>>

AcquireLock(p) ==
    /\ pc[p] = "lock" /\ lock = NoOne
    /\ lock' = p /\ Goto(p, "check")
    /\ UNCHANGED <<committed, lost, littered, staging, target, contents>>

\* Another promotion is in progress, or was killed in the middle.
LockRefused(p) ==
    /\ pc[p] = "lock" /\ lock # NoOne
    /\ lost' = lost \cup {p} /\ Goto(p, "cleanup")
    /\ UNCHANGED <<committed, littered, fileVars>>

\* Mutation: the lock a promoter holds counts as a promotion in progress.
CheckTargetAndLock(p) ==
    /\ pc[p] = "check"
    /\ lost' = lost \cup {p} /\ Goto(p, "unlock")
    /\ UNCHANGED <<committed, littered, fileVars>>

CheckTarget(p) ==
    /\ pc[p] = "check"
    /\ \/ target = NoOne /\ Goto(p, "rename") /\ UNCHANGED lost
       \/ target # NoOne /\ Goto(p, "unlock") /\ lost' = lost \cup {p}
    /\ UNCHANGED <<committed, littered, fileVars>>

\* os.rename, which the file system refuses onto a directory with files in it.
Publish(p) ==
    /\ pc[p] = "rename" /\ target = NoOne
    /\ target' = p /\ contents' = staging[p]
    /\ staging' = [staging EXCEPT ![p] = Absent]
    /\ committed' = committed \cup {p}
    /\ Goto(p, "unlock")
    /\ UNCHANGED <<lost, littered, lock>>

\* Mutation: an error of the rename is taken for success.
ErrorSwallowed(p) ==
    /\ pc[p] \in {"write", "lock", "check", "rename"}
    /\ committed' = committed \cup {p}
    /\ Goto(p, IF lock = p THEN "unlock" ELSE "cleanup")
    /\ UNCHANGED <<lost, littered, fileVars>>

\* An OSError before the commit.
StepFails(p) ==
    /\ pc[p] \in {"write", "lock", "check", "rename"}
    /\ Goto(p, IF lock = p THEN "unlock" ELSE "cleanup")
    /\ UNCHANGED <<committed, lost, littered, fileVars>>

\* Mutation: only a promoter that committed removes its lock.
UnlockIfCommitted(p) ==
    /\ pc[p] = "unlock"
    /\ lock' = IF p \in committed THEN NoOne ELSE lock
    /\ Goto(p, "cleanup")
    /\ UNCHANGED <<committed, lost, littered, staging, target, contents>>

\* The finally clause: its own lock, then its staging directory; an error of
\* either removal is swallowed.
Unlock(p) ==
    /\ pc[p] = "unlock"
    /\ lock' = NoOne /\ Goto(p, "cleanup")
    /\ UNCHANGED <<committed, lost, littered, staging, target, contents>>

Cleanup(p) ==
    /\ pc[p] = "cleanup"
    /\ staging' = [staging EXCEPT ![p] = Absent]
    /\ Goto(p, IF p \in committed THEN "returned" ELSE "raised")
    /\ UNCHANGED <<committed, lost, littered, lock, target, contents>>

RemovalFails(p) ==
    /\ pc[p] \in {"unlock", "cleanup"}
    /\ littered' = littered \cup {p}
    /\ Goto(p, IF pc[p] = "unlock" THEN "cleanup"
               ELSE IF p \in committed THEN "returned" ELSE "raised")
    /\ UNCHANGED <<committed, lost, fileVars>>

Over == {"returned", "raised", "killed"}

\* The process is killed: no finally clause runs.
Killed(p) ==
    /\ pc[p] \notin Over
    /\ Goto(p, "killed")
    /\ UNCHANGED <<committed, lost, littered, fileVars>>

PromoterStep(p) ==
    \/ MakeReceipt(p) \/ MakeStaging(p) \/ WriteStaged(p)
    \/ AcquireLock(p) \/ LockRefused(p) \/ CheckTarget(p) \/ Publish(p)
    \/ Unlock(p) \/ Cleanup(p)

PromoterFails(p) == PromotionRefused(p) \/ StepFails(p) \/ RemovalFails(p) \/ Killed(p)

Terminated == (\A p \in Promoters : pc[p] \in Over) /\ UNCHANGED vars

Next == \/ \E p \in Promoters : PromoterStep(p) \/ PromoterFails(p)
        \/ Terminated

\* A promoter that is not killed runs on; no failure is ever relied on.
Spec == Init /\ [][Next]_vars /\ \A p \in Promoters : WF_vars(PromoterStep(p))

-----------------------------------------------------------------------------
(* Properties. *)

TypeOK ==
    /\ pc \in [Promoters -> Over \cup {"start", "stage", "write", "lock", "check", "rename",
                                       "unlock", "cleanup"}]
    /\ staging \in [Promoters -> 0..Absent]
    /\ committed \subseteq Promoters /\ lost \subseteq Promoters
    /\ littered \subseteq Promoters
    /\ lock \in Promoters \cup {NoOne} /\ target \in Promoters \cup {NoOne}
    /\ contents \in 0..FileCount

Critical == {p \in Promoters : pc[p] \in {"check", "rename", "unlock"}}

\* The create-only lock serialises promoters: whoever is between the check for
\* an existing baseline and the release of the lock is its only owner.
LockSerialises == \A p \in Critical : lock = p

\* A lock file or a staging directory outlives its promotion only if its
\* promoter was killed or could not remove it, so no failed promotion blocks the
\* next one (the finally clause).
NothingLeftBehind ==
    /\ lock # NoOne => \/ pc[lock] \in {"check", "rename", "unlock", "killed"}
                       \/ lock \in littered
    /\ \A p \in Promoters :
          pc[p] \in {"returned", "raised"} /\ staging[p] # Absent => p \in littered

\* "readers see either no target or the complete immutable baseline, never a
\* legal partial directory", wherever a promoter fails or is killed.
PublishedIsComplete == target # NoOne => contents = FileCount

\* A receipt is returned only by the promoter whose baseline is the published
\* one, so of concurrent promotions at most one reports success.
ReceiptIsOfTarget == \A p \in Promoters : pc[p] = "returned" => target = p

\* Promoters of one ID never all turn each other away.  When all are over and
\* one was told that the baseline exists or is being promoted, then it exists,
\* or a promoter failed or was killed for a reason of its own.
RaceHasWinner ==
    (\A p \in Promoters : pc[p] \in Over) /\ lost # {} =>
        target # NoOne \/ \E q \in Promoters \ lost : pc[q] \in {"raised", "killed"}
=============================================================================
