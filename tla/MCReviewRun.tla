----------------------------- MODULE MCReviewRun -----------------------------
(* Small instances of ReviewRun.  The order of the reviews is free and they *)
(* are interchangeable.                                                     *)
EXTENDS ReviewRun, TLC

MCSymmetry == Permutations(Reviews)
=============================================================================
