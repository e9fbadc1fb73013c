------------------------------ MODULE MCFiling ------------------------------
(* Instances of Filing for TLC. *)
EXTENDS Filing, TLC

CONSTANTS d1, d2, b1, b2, t1, t2

MCDistinct == d1 :> b1 @@ d2 :> b2

ReviewerSymmetry == Permutations(Reviewers)

=============================================================================
