--------------------------- MODULE MCRunAdmission ---------------------------
(* Values of the constants of RunAdmission for TLC. *)
EXTENDS RunAdmission, TLC

CONSTANTS cheap, dear

(* One provider node for 1 credit; two of them for 3 credits.              *)
Prices == [d \in Drafts |-> IF d = cheap THEN 1 ELSE 3]
Counts == [d \in Drafts |-> IF d = cheap THEN 1 ELSE 2]

(* One provider node whose model has the price 0. *)
Gifts == [d \in Drafts |-> IF d = cheap THEN 0 ELSE 3]

Symmetry == Permutations(Runs) \cup Permutations(Users)
=============================================================================
