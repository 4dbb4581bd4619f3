--------------------------- MODULE CreditContract ---------------------------
(***************************************************************************)
(* What docs and ledger promise about the credits of one run, without      *)
(* saying who does it (docs/BILLING_COST_LEDGER.md): start_run holds one   *)
(* reservation per priced node; while the run is active, reservations are  *)
(* given back, and a node is charged in the very step that gives back its  *)
(* reservation; when the run ends, nothing is held; after that, nothing    *)
(* moves.                                                                  *)
(***************************************************************************)
CONSTANT Priced

VARIABLES
  ended,    \* the run has ended
  held,     \* the nodes whose reservation is held
  charged   \* the nodes that were charged

credits == <<ended, held, charged>>

Init == ended = FALSE /\ held = Priced /\ charged = {}

(* The reservations R are given back, the nodes C among them charged. *)
Settle(R, C) ==
  /\ ~ended
  /\ held' = held \ R
  /\ charged' = charged \cup C
  /\ ended' \in BOOLEAN /\ (ended' => held' = {})

Next == \E R \in SUBSET held : \E C \in SUBSET R : Settle(R, C)

Spec == Init /\ [][Next]_credits

(* No credit is in two places: a charged node holds no reservation, and an *)
(* ended run holds none at all.                                            *)
CreditsAreInOnePlace ==
  /\ held \subseteq Priced /\ charged \subseteq Priced
  /\ held \cap charged = {}
  /\ ended \in BOOLEAN /\ (ended => held = {})
=============================================================================
