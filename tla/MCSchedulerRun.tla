---------------------------- MODULE MCSchedulerRun ----------------------------
(***************************************************************************)
(* Three models of weights 2, 1 and 1.  Short scenarios with every fault at *)
(* every request, and longer ones, with every way the models can come and   *)
(* go, against a driver that keeps the policy.                              *)
(***************************************************************************)
EXTENDS SchedulerRun

MCWeights == <<2, 1, 1>>

\* Candidate IDs run against model IDs.
Cand(m, ok, slack, service) ==
    [id |-> 4 - m, model |-> m, eligible |-> ok, slack |-> slack, service |-> service]
Plain(m)  == Cand(m, TRUE, NoSlack, 1)
Long(m)   == Cand(m, TRUE, NoSlack, 2)
Soon(m)   == Cand(m, TRUE, 0, 2)
Later(m)  == Cand(m, TRUE, 3, 1)
Unsafe(m) == Cand(m, FALSE, -1, 1)

NoFault == [kind |-> "none", rep |-> 0, at |-> 0, model |-> 1]
Case(harness, turns, fault) == [harness |-> harness, turns |-> turns, fault |-> fault]

Scenarios == {<< {Plain(1), Plain(2)}, {Unsafe(1)} >>,
              << {Plain(1), Soon(2), Unsafe(3)}, {Later(1), Long(2)} >>}
Faults == [kind : {"exit", "garbled", "twice", "selection", "ledger", "keys", "unclean", "start",
                   "deaf", "heir"},
           rep : 0..2, at : 1..6, model : {1}]
          \cup [kind : {"ledger"}, rep : {0, 2}, at : 1..6, model : {3}]

Sets == {{}, {Plain(1)}, {Plain(2)}, {Plain(1), Long(2)}, {Plain(1), Long(3)},
         {Plain(1), Plain(2), Plain(3)}, {Soon(1), Plain(2)}, {Soon(1), Soon(3), Long(2)}}

MCCases ==
    {Case(h, t, f) : h \in {"runner", "lane"}, t \in Scenarios, f \in Faults \cup {NoFault}}
    \cup {Case("runner", t, NoFault) : t \in [1..3 -> Sets]}
=============================================================================
