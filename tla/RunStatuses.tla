---------------------------- MODULE RunStatuses ----------------------------
(***************************************************************************)
(* The statuses of workflow runs, node runs and provider jobs              *)
(* (slow_ai/domain/status.py), the transition tables every checked status  *)
(* change goes through (slow_ai/engine/state_machine.py) and the path of   *)
(* intermediate statuses a provider answer walks                           *)
(* (slow_ai/infrastructure/provider_jobs.py).                              *)
(*                                                                         *)
(* "NONE" is not a status of the code: it stands for a provider job row    *)
(* that does not exist.                                                    *)
(***************************************************************************)
EXTENDS Naturals, Sequences

RunStatus == {"DRAFT", "QUEUED", "RUNNING", "WAITING_PROVIDER",
              "SUCCEEDED", "FAILED", "CANCELLED", "EXPIRED"}

NodeStatus == {"PENDING", "READY", "RUNNING", "WAITING_PROVIDER",
               "SUCCEEDED", "FAILED", "SKIPPED", "CANCELLED"}

JobStatus == {"QUEUED", "SUBMITTING", "SUBMITTED", "WAITING_PROVIDER",
              "SUCCEEDED", "FAILED", "CANCELLED", "EXPIRED"}

RunTerminal  == {"SUCCEEDED", "FAILED", "CANCELLED", "EXPIRED"}
NodeTerminal == {"SUCCEEDED", "FAILED", "SKIPPED", "CANCELLED"}
JobTerminal  == {"SUCCEEDED", "FAILED", "CANCELLED", "EXPIRED"}

RunActive  == RunStatus \ RunTerminal
NodeActive == NodeStatus \ NodeTerminal
JobActive  == JobStatus \ JobTerminal

(* A terminal status has no entry: no transition leaves it. *)
RunTransitions ==
  {<<"DRAFT", "QUEUED">>}
    \cup ({"QUEUED"} \X {"RUNNING", "CANCELLED", "FAILED"})
    \cup ({"RUNNING"} \X {"WAITING_PROVIDER", "SUCCEEDED", "FAILED", "CANCELLED"})
    \cup ({"WAITING_PROVIDER"} \X {"RUNNING", "SUCCEEDED", "FAILED", "CANCELLED", "EXPIRED"})

NodeTransitions ==
  ({"PENDING"} \X {"READY", "SKIPPED", "CANCELLED", "FAILED"})
    \cup ({"READY"} \X {"RUNNING", "CANCELLED"})
    \cup ({"RUNNING"} \X {"WAITING_PROVIDER", "SUCCEEDED", "FAILED", "CANCELLED"})
    \cup ({"WAITING_PROVIDER"} \X {"RUNNING", "SUCCEEDED", "FAILED", "CANCELLED"})

JobTransitions ==
  ({"QUEUED"} \X {"SUBMITTING", "CANCELLED"})
    \cup ({"SUBMITTING"} \X {"SUBMITTED", "FAILED", "CANCELLED"})
    \cup ({"SUBMITTED"} \X {"WAITING_PROVIDER", "SUCCEEDED", "FAILED", "CANCELLED"})
    \cup ({"WAITING_PROVIDER"} \X {"SUCCEEDED", "FAILED", "CANCELLED", "EXPIRED"})

(* The statuses a job passes through, after the current one, on its way to *)
(* the target (ProviderJobRepository._transition_path).                    *)
TransitionPath(current, target) ==
  CASE current = "SUBMITTING" /\ target \in {"WAITING_PROVIDER", "SUCCEEDED"} ->
         <<"SUBMITTED", target>>
    [] current = "SUBMITTING" /\ target = "EXPIRED" ->
         <<"SUBMITTED", "WAITING_PROVIDER", "EXPIRED">>
    [] current = "SUBMITTED" /\ target = "EXPIRED" ->
         <<"WAITING_PROVIDER", "EXPIRED">>
    [] OTHER -> <<target>>

(* Every hop of a path is checked against the table; one refused hop       *)
(* raises StateTransitionError before anything is written.                 *)
PathAllowed(current, path) ==
  LET walk == <<current>> \o path
  IN  \A i \in 1..Len(path) : <<walk[i], walk[i + 1]>> \in JobTransitions

(* A repeated status is not a transition: apply_result rewrites the        *)
(* response and leaves the status alone.                                   *)
JobCanReach(current, target) ==
  current = target \/ PathAllowed(current, TransitionPath(current, target))
=============================================================================
