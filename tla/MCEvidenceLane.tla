--------------------------- MODULE MCEvidenceLane ---------------------------
(* Two cases of two steps: a step or a case can read what an earlier one left *)
(* in the queue, and the artifact of one case can be declared by the other.   *)
EXTENDS EvidenceLane
=============================================================================
