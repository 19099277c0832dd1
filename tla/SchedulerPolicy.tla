---------------------------- MODULE SchedulerPolicy ----------------------------
(***************************************************************************)
(* What the scheduler policy promises about Model Ledgers, whatever the     *)
(* candidates are: each turn a set of models is runnable, models that join  *)
(* it are aligned to the least ledger of those that stay, the turn goes to  *)
(* a model with the least ledger or, out of turn, to an urgent one, and the *)
(* turn's service over the model's weight is charged to its ledger.         *)
(***************************************************************************)
EXTENDS SchedulerModels

VARIABLES
    ledgers,    \* per model: its ledger
    runnable,   \* the models runnable in the last turn
    baseline,   \* the least ledger among them
    pending,    \* the model whose receipt is outstanding
    urgents     \* urgent selections so far

vars == <<ledgers, runnable, baseline, pending, urgents>>

TypeOK ==
    /\ ledgers \in [Models -> Int] /\ runnable \in SUBSET Models
    /\ baseline \in Int /\ pending \in Models \cup {NoModel} /\ urgents \in Nat

Fresh ==
    /\ ledgers' = [m \in Models |-> 0] /\ runnable' = {} /\ baseline' = 0
    /\ pending' = NoModel /\ urgents' = 0

Init ==
    /\ ledgers = [m \in Models |-> 0] /\ runnable = {} /\ baseline = 0
    /\ pending = NoModel /\ urgents = 0

_sync_runnable(current) ==
    \E alignment \in IF current \cap runnable # {} THEN Least(ledgers, current \cap runnable)
                     ELSE {baseline} :
        /\ ledgers' = [m \in Models |-> IF m \in current \ runnable THEN alignment
                                        ELSE ledgers[m]]
        /\ runnable' = current
        /\ baseline' \in IF current = {} THEN {baseline} ELSE Least(ledgers', current)

Schedule(current) ==
    /\ pending = NoModel /\ _sync_runnable(current)
    /\ \/ current = {} /\ UNCHANGED <<pending, urgents>>
       \/ \E m \in current :
             /\ ledgers'[m] \in Least(ledgers', current)
             /\ pending' = m /\ UNCHANGED urgents
       \/ \E m \in current : pending' = m /\ urgents' = urgents + 1

accept_receipt(charge) ==
    /\ pending # NoModel
    /\ ledgers' = [ledgers EXCEPT ![pending] = @ + charge]
    /\ baseline' \in Least(ledgers', runnable)
    /\ pending' = NoModel /\ UNCHANGED <<runnable, urgents>>

Next ==
    \/ Fresh
    \/ \E current \in SUBSET Models : Schedule(current)
    \/ \E charge \in 1..MaxCharge : accept_receipt(charge)

Spec == Init /\ [][Next]_vars

-----------------------------------------------------------------------------
(* Properties *)

\* Weighted fairness: two models runnable in the same turn are never further
\* apart than one turn's charge, and one more for every urgent selection.
FairSpread ==
    \A i, j \in runnable : ledgers[i] - ledgers[j] <= MaxCharge * (1 + urgents)

\* No banked credit: the baseline is the least runnable ledger, and a model
\* that was idle never comes back below the service the others had reached.
BaselineIsLeast == runnable # {} => baseline \in Least(ledgers, runnable)
NoBankedCredit == [][Fresh \/ baseline' >= baseline]_vars
=============================================================================
