--------------------------- MODULE ProjectAccount ---------------------------
(***************************************************************************)
(* What the credits of a project are to its members, whoever moves them:   *)
(* free, held for a run, or spent.  A run is admitted with what is free;   *)
(* while it is active, a part of what it holds can be given back and       *)
(* something spent, of that part or of what is free; when it ends, all it  *)
(* holds is free again.  Nobody spends or holds what is not there.         *)
(***************************************************************************)
EXTENDS Integers

CONSTANT Runs

VARIABLES
  free,   \* credits that can be reserved or spent
  spent,  \* credits that providers were paid with
  held,   \* held[r]: credits reserved for run r
  stage   \* stage[r]: "new", "active" or "ended"

account == <<free, spent, held, stage>>

Init ==
  /\ free = 0 /\ spent = 0
  /\ held = [r \in Runs |-> 0] /\ stage = [r \in Runs |-> "new"]

TopUp == free' \in Nat /\ free' >= free /\ UNCHANGED <<spent, held, stage>>

Admit(r) ==
  /\ stage[r] = "new" /\ stage' = [stage EXCEPT ![r] = "active"]
  /\ free' \in 0..free /\ held' = [held EXCEPT ![r] = free - free']
  /\ UNCHANGED spent

Settle(r) ==
  /\ stage[r] = "active"
  /\ \E part \in 0..held[r] : \E cost \in 0..(free + part) :
       /\ held' = [held EXCEPT ![r] = @ - part]
       /\ free' = free + part - cost /\ spent' = spent + cost
  /\ UNCHANGED stage

End(r) ==
  /\ stage[r] = "active" /\ stage' = [stage EXCEPT ![r] = "ended"]
  /\ free' = free + held[r] /\ held' = [held EXCEPT ![r] = 0]
  /\ UNCHANGED spent

Next == TopUp \/ \E r \in Runs : Admit(r) \/ Settle(r) \/ End(r)

Spec == Init /\ [][Next]_account
=============================================================================
