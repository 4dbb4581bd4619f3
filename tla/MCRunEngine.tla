---------------------------- MODULE MCRunEngine ----------------------------
(* Values of the constants of RunEngine for TLC. *)
EXTENDS RunEngine

(* A chain: every node reads the one before. *)
Chain == [n \in 1..N |-> {m \in 1..N : m + 1 = n}]

(* Every answer. *)
Anything == AllAnswers

(* A provider that answers every call in the terms of its documentation.   *)
Documented == {"starting", "pending", "good", "failed", "cancelled"}

(* ... and one whose answers to some calls are lost: the call times out.   *)
Unanswered == Documented \cup {"raise"}
=============================================================================
