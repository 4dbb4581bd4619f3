----------------------- MODULE CreditContractProofs -----------------------
(* What the credit contract promises whoever relies on it. *)
EXTENDS CreditContract, TLAPS

(* The credit of a node is held, charged or returned, never two of these   *)
(* at once, and none is held after the end: what a caller of the billing   *)
(* service (get_project_balance) may rely on.                              *)
THEOREM OnePlace == Spec => []CreditsAreInOnePlace
<1>1. Init => CreditsAreInOnePlace
  BY DEF Init, CreditsAreInOnePlace
<1>2. CreditsAreInOnePlace /\ [Next]_credits => CreditsAreInOnePlace'
  <2>. SUFFICES ASSUME CreditsAreInOnePlace, [Next]_credits
                PROVE  CreditsAreInOnePlace'
    OBVIOUS
  <2>1. CASE UNCHANGED credits
    BY <2>1 DEF CreditsAreInOnePlace, credits
  <2>2. ASSUME NEW R \in SUBSET held, NEW C \in SUBSET R, Settle(R, C)
        PROVE  CreditsAreInOnePlace'
    BY <2>2 DEF CreditsAreInOnePlace, Settle
  <2>. QED BY <2>1, <2>2 DEF Next
<1>. QED BY <1>1, <1>2, PTL DEF Spec
=============================================================================
