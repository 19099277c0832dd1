---------------------------- MODULE SchedulerModels ----------------------------
(***************************************************************************)
(* The models of a scheduler scenario and what a turn may charge to them.   *)
(***************************************************************************)
EXTENDS Integers, FiniteSets

CONSTANTS
    Models,     \* the models of the scenario, numbered in the order of their IDs
    MaxCharge   \* bound of one turn's service over the model's weight

NoModel == 0

ASSUME ChargeAssumption == MaxCharge \in Nat \ {0}
ASSUME ModelsAssumption == /\ NoModel \notin Models /\ Models \subseteq Nat
                           /\ IsFiniteSet(Models)

\* The least value of l over S, as a set: empty when S is.
Least(l, S) == {l[m] : m \in {x \in S : \A n \in S : l[x] <= l[n]}}
=============================================================================
