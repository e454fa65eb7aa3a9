---------------------------- MODULE MCGradeReview ----------------------------
(* GradeReview with small sets. *)
EXTENDS GradeReview, TLC

Symmetry == Permutations(Criteria) \union Permutations(Requests) \union Permutations(Clients)
=============================================================================
