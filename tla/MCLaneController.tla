-------------------------- MODULE MCLaneController --------------------------
(* Two required lanes (run_all takes both, run_lane one), one known fixture *)
(* ID and one selection that no descriptor answers to.                      *)
EXTENDS LaneController

MCRequired == {1, 2}
=============================================================================
