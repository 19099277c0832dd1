------------------------- MODULE MCBaselinePromotion -------------------------
(* Three promoters: one to hold or leave the lock, one to race behind it    *)
(* and one to come when both are over.  They are interchangeable, and no    *)
(* property of the run is temporal.                                         *)
EXTENDS BaselinePromotion, TLC

CONSTANTS p1, p2, p3

ThreePromoters == {p1, p2, p3}
Interchangeable == Permutations(ThreePromoters)
=============================================================================
