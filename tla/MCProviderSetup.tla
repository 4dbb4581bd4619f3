--------------------------- MODULE MCProviderSetup ---------------------------
(* Values for the constants of ProviderSetup. *)
EXTENDS ProviderSetup, TLC

MCScopes == {<<"p", "none">>, <<"other", "none">>}

MCModels == [m \in {"m"} |-> "wavespeed"]

(* No price, and a price behind one that is none. *)
MCPricings ==
  {[key \in {} |-> 0],
   [key \in {"test_cost_usd", "amount_usd"} |-> IF key = "amount_usd" THEN 1 ELSE -1]}

(* Two nodes: with the default account, or the second with the first account there is. *)
Node(account) == [model |-> "m", account |-> account]
MCDrafts == {<<Node(0), Node(0)>>, <<Node(0), Node(1)>>}

Symmetry == Permutations(Slots)
=============================================================================
