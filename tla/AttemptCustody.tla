--------------------------- MODULE AttemptCustody ---------------------------
(***************************************************************************)
(* What the attempt ledger promises of a campaign, without records, files   *)
(* or retry links: attempts are numbered without gaps, a cell is attempted  *)
(* at most Limit times, and the first attempt that counts settles the cell  *)
(* for good, so nothing is ever measured again because it came out badly.   *)
(***************************************************************************)
EXTENDS Integers

CONSTANTS
    Cells,   \* the campaign's cells
    Limit    \* max_attempts_per_cell

Unsettled == -1

VARIABLES
    next,      \* the next attempt ordinal
    tries,     \* per cell: attempts recorded
    primary    \* per cell: ordinal of the attempt that counts, or Unsettled

Init ==
    /\ next = 0
    /\ tries = [c \in Cells |-> 0]
    /\ primary = [c \in Cells |-> Unsettled]

Attempt(c) ==
    /\ primary[c] = Unsettled /\ tries[c] < Limit
    /\ next' = next + 1
    /\ tries' = [tries EXCEPT ![c] = @ + 1]

\* An attempt invalid for a frozen reason leaves the cell open.
Void(c) == Attempt(c) /\ UNCHANGED primary

\* Any other attempt, good or bad, is the cell's primary.
Settle(c) == Attempt(c) /\ primary' = [primary EXCEPT ![c] = next]

Next == \E c \in Cells : Void(c) \/ Settle(c)

Spec == Init /\ [][Next]_<<next, tries, primary>>
=============================================================================
