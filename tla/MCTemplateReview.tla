-------------------------- MODULE MCTemplateReview --------------------------
(* Values of the constants of TemplateReview for TLC. *)
EXTENDS TemplateReview, TLC

Symmetry == Permutations(Names) \cup Permutations(Slots)
=============================================================================
