-------------------------- MODULE MCProjectSharing --------------------------
(* Values for the constants of ProjectSharing. *)
EXTENDS ProjectSharing, TLC

(* A run that made one asset, names another and tucks a third away. *)
MCOutputs == [r \in {"r1"} |-> [made |-> {"made"}, named |-> {"named"}, tucked |-> {"token"}]]

MCSelections == {<<>>, <<"made", "made">>, <<"token">>, <<"foreign">>}

Symmetry == Permutations(Slots)
=============================================================================
