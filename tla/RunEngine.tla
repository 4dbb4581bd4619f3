----------------------------- MODULE RunEngine -----------------------------
(***************************************************************************)
(* One workflow run of slow_ai from the moment start_run has committed it  *)
(* (QUEUED, its nodes PENDING, its credits reserved, one run job queued)   *)
(* to its end, under every handler that writes its rows:                   *)
(*                                                                         *)
(*   the workflow worker      WorkflowExecutor.run / NodeRunner.run_node   *)
(*   the scheduled poller     poll_pending_provider_jobs                   *)
(*   public tools             cancel_my_run, start_run called again        *)
(*   System Manager recovery  expire_stuck_run, resume_run                 *)
(*                                                                         *)
(* A handler is one database transaction: the source never commits, the    *)
(* framework commits when the handler returns and rolls back when it       *)
(* raises.  MariaDB reads are repeatable: every read of a transaction sees *)
(* the rows as they were at its first read, its own writes excepted, and   *)
(* its UPDATEs go, unchecked, to the rows as they are when it commits.  So *)
(* a handler is two steps: a Begin that takes the snapshot, and a second   *)
(* step that computes the handler's writes from the snapshot and from the  *)
(* provider's answer and applies them to the current rows.  Between the    *)
(* two, other transactions may commit, up to Cardinality(Slots) in flight. *)
(*                                                                         *)
(* Nodes are numbered in the order topological_sort returns them.          *)
(***************************************************************************)
EXTENDS RunStatuses

CONSTANTS
  N,                \* the run has nodes 1..N
  Provider,         \* the nodes executed by a provider; the others are local
  Costly,           \* the provider nodes whose success costs something: the
                    \* model has a price, or the provider reports a cost
  Priced,           \* the costly nodes with a RESERVE ledger row: the price
                    \* was known when the run was started
  Upstream,         \* Upstream[n]: the nodes whose outputs n reads
  Answers,          \* what the provider may answer in this instance
  MaxAttempts,      \* AI Provider Job.max_poll_attempts
  MaxDeliveries,    \* bound: queued run jobs beyond it are not told apart
  MaxSubmits,       \* bound: external jobs beyond it are not told apart
  MaxAborts,        \* bound: transactions lost to a crash or a deadlock
  Slots,            \* transactions that can be in flight at once
  OperatorPolls     \* TRUE: poll_provider_job may be invoked by hand

Nodes == 1..N

(* What a call to the provider's API can come back with:                   *)
(*   starting, pending    accepted, not finished                           *)
(*   lost                 an error body with no code: read as              *)
(*                        WAITING_PROVIDER, and it carries no external id  *)
(*   good                 finished, with an output of the node's type      *)
(*   wrong                finished, its outputs of another type            *)
(*   empty                finished, no outputs                             *)
(*   unpayable            finished, at a cost that is unknown or above the *)
(*                        reservation and the balance                      *)
(*   failed, cancelled    refused, failed or cancelled by the provider     *)
(*   expired              given up by the provider (WaveSpeed)             *)
(*   raise                no answer: the adapter raises                    *)
WaitAnswers    == {"starting", "pending", "lost"}
SuccessAnswers == {"good", "wrong", "empty", "unpayable"}
EndAnswers     == {"failed", "cancelled", "expired"}
AllAnswers     == WaitAnswers \cup SuccessAnswers \cup EndAnswers \cup {"raise"}

ASSUME EngineAssumption ==
  /\ N \in Nat \ {0}
  /\ Priced \subseteq Costly /\ Costly \subseteq Provider /\ Provider \subseteq Nodes
  /\ Upstream \in [Nodes -> SUBSET Nodes]
  /\ \A n \in Nodes : \A m \in Upstream[n] : m < n
  /\ Answers \subseteq AllAnswers
  /\ MaxAttempts \in Nat
  /\ {MaxDeliveries, MaxSubmits} \subseteq Nat \ {0}
  /\ MaxAborts \in Nat
  /\ Slots # {}
  /\ OperatorPolls \in BOOLEAN

VARIABLES
  run,         \* AI Workflow Run.status
  node,        \* AI Node Run.status
  output,      \* AI Node Run.output_json: no port, the node's port, another
  job,         \* AI Provider Job.status, "NONE" before the row exists
  ext,         \* AI Provider Job.external_job_id is set
  reply,       \* AI Provider Job.response_json, when the job succeeded
  tries,       \* AI Provider Job.poll_attempts
  released,    \* RELEASE ledger rows of the node's reservation
  debits,      \* DEBIT ledger rows of the node's job
  assets,      \* AI Asset rows of the job's first output
  deliveries,  \* run jobs in the queue
  submits,     \* external jobs created at the provider
  txn,         \* the transaction in each slot
  aborts       \* transactions lost so far

rows == <<run, node, output, job, ext, reply, tries, released, debits, assets>>
vars == <<rows, deliveries, submits, txn, aborts>>

Views == [run : RunStatus,
          node : [Nodes -> NodeStatus],
          output : [Nodes -> {"none", "right", "wrong"}],
          job : [Nodes -> JobStatus \cup {"NONE"}],
          ext : [Nodes -> BOOLEAN],
          reply : [Nodes -> SuccessAnswers \cup {"none"}],
          tries : [Nodes -> Nat],
          released : [Nodes -> Nat],
          debits : [Nodes -> Nat],
          assets : [Nodes -> Nat]]

Current == [run |-> run, node |-> node, output |-> output, job |-> job,
            ext |-> ext, reply |-> reply, tries |-> tries,
            released |-> released, debits |-> debits, assets |-> assets]

InitView == [run |-> "QUEUED",
             node |-> [n \in Nodes |-> "PENDING"],
             output |-> [n \in Nodes |-> "none"],
             job |-> [n \in Nodes |-> "NONE"],
             ext |-> [n \in Nodes |-> FALSE],
             reply |-> [n \in Nodes |-> "none"],
             tries |-> [n \in Nodes |-> 0],
             released |-> [n \in Nodes |-> 0],
             debits |-> [n \in Nodes |-> 0],
             assets |-> [n \in Nodes |-> 0]]

Handlers == {"execute", "poll", "cancel", "expire"}

Txns == [kind : Handlers \cup {"idle"}, job : Nodes \cup {0}, snap : Views]

Idle == [kind |-> "idle", job |-> 0, snap |-> InitView]

TypeOK ==
  /\ Current \in Views
  /\ deliveries \in 0..MaxDeliveries
  /\ submits \in [Nodes -> 0..MaxSubmits]
  /\ txn \in [Slots -> Txns]
  /\ aborts \in 0..MaxAborts

Init ==
  /\ run = InitView.run /\ node = InitView.node /\ output = InitView.output
  /\ job = InitView.job /\ ext = InitView.ext /\ reply = InitView.reply
  /\ tries = InitView.tries
  /\ released = InitView.released /\ debits = InitView.debits /\ assets = InitView.assets
  /\ deliveries = 1
  /\ submits = [n \in Nodes |-> 0]
  /\ txn = [t \in Slots |-> Idle]
  /\ aborts = 0

-----------------------------------------------------------------------------
(* Transactions and the queue.                                             *)

Begin(t, kind, n) ==
  /\ txn[t].kind = "idle"
  /\ txn' = [txn EXCEPT ![t] = [kind |-> kind, job |-> n, snap |-> Current]]

End(t) == txn' = [txn EXCEPT ![t] = Idle]

InFlight(t, kind) == txn[t].kind = kind

Enqueue == deliveries' = IF deliveries < MaxDeliveries THEN deliveries + 1 ELSE deliveries

Set(f, S, v) == [n \in Nodes |-> IF n \in S THEN v ELSE f[n]]

Add(f, S) == [n \in Nodes |-> IF n \in S THEN f[n] + 1 ELSE f[n]]

(* An external job cannot be taken back: it exists whether or not the      *)
(* transaction that asked for it commits.                                  *)
Submit(S) ==
  submits' = [n \in Nodes |-> IF n \in S /\ submits[n] < MaxSubmits
                              THEN submits[n] + 1 ELSE submits[n]]

(* Mutants of Release: without the look for an earlier RELEASE row, and    *)
(* only when the run ends.                                                 *)
ReleaseBlindly(s, S) == released' = Add(released, Priced \cap S)
ReleaseAtEnd(s, S) ==
  released' = Add(released, {n \in Priced : S = Nodes /\ s.released[n] = 0})

(* The reservations a transaction releases: of the nodes it settles, and   *)
(* of all of them when it ends the run (set_workflow_status).  A RELEASE   *)
(* row is inserted unless the snapshot holds one for the reservation.      *)
Release(s, S) ==
  released' = Add(released, {n \in Priced \cap S : s.released[n] = 0})

(* materialize: one asset per output index and one DEBIT per job that      *)
(* costs something, unless the snapshot holds them.                        *)
Charge(s, S)  == debits' = Add(debits, {n \in Costly \cap S : s.debits[n] = 0})
Deposit(s, S) == assets' = Add(assets, {n \in Provider \cap S : s.assets[n] = 0})

StatusOf(a) ==
  CASE a = "starting"            -> "SUBMITTED"
    [] a \in {"pending", "lost"} -> "WAITING_PROVIDER"
    [] a \in SuccessAnswers      -> "SUCCEEDED"
    [] a = "failed"              -> "FAILED"
    [] a = "cancelled"           -> "CANCELLED"
    [] a = "expired"             -> "EXPIRED"

NodeEnd(a) == IF a = "cancelled" THEN "CANCELLED" ELSE "FAILED"

ReplyOf(a) == IF a \in SuccessAnswers THEN a ELSE "none"

Names(a) == a \in AllAnswers \ {"lost", "failed", "raise"}  \* carries an external id

-----------------------------------------------------------------------------
(* The workflow worker.  The executor goes through the nodes in order, and *)
(* stops at the first that does not end SUCCEEDED.                         *)

(* Mutant of Unfinished: a waiting node counts as done. *)
UnfinishedNotWaiting(s, k) ==
  {n \in Nodes : n < k /\ s.node[n] \notin {"SUCCEEDED", "WAITING_PROVIDER"}}

(* The nodes before k that an execution from snapshot s has to run. *)
Unfinished(s, k) == {n \in Nodes : n < k /\ s.node[n] # "SUCCEEDED"}

Startable(s, n) == s.node[n] \in {"PENDING", "READY", "WAITING_PROVIDER"}

(* _resolve_inputs: a node that succeeded before left the port its readers *)
(* need; a node this execution completes always does.                      *)
Fed(s, n) == \A m \in Upstream[n] : s.node[m] = "SUCCEEDED" => s.output[m] = "right"

Submitting(s, n) == s.job[n] \in {"NONE", "QUEUED", "SUBMITTING"}

(* ProviderNodeBase.execute reaches the adapter: the row is inserted, its  *)
(* unique idempotency key permitting, or found in a status that can be     *)
(* submitted or, with an external id, polled.                              *)
Callable(s, n) ==
  /\ s.job[n] \notin JobTerminal
  /\ s.job[n] = "NONE" => job[n] = "NONE"
  /\ ~Submitting(s, n) => s.ext[n]

(* The status apply_result finds: a job being submitted is SUBMITTING. *)
JobFrom(s, n) == IF s.job[n] \in {"NONE", "QUEUED"} THEN "SUBMITTING" ELSE s.job[n]

Completable(s, n) ==
  /\ Startable(s, n) /\ Fed(s, n)
  /\ n \in Provider => Callable(s, n) /\ "good" \in Answers

(* Mutant of ExecBegin: only a QUEUED run is executed. *)
ExecBeginQueued(t) ==
  /\ deliveries > 0
  /\ deliveries' = deliveries - 1
  /\ IF run # "QUEUED"
     THEN txn[t].kind = "idle" /\ UNCHANGED txn
     ELSE Begin(t, "execute", 0)
  /\ UNCHANGED <<rows, submits, aborts>>

(* A run job is taken from the queue; it returns at once on a terminal run. *)
ExecBegin(t) ==
  /\ deliveries > 0
  /\ deliveries' = deliveries - 1
  /\ IF run \in RunTerminal
     THEN txn[t].kind = "idle" /\ UNCHANGED txn
     ELSE Begin(t, "execute", 0)
  /\ UNCHANGED <<rows, submits, aborts>>

(* What completing the nodes C, and the provider answering a to node k,    *)
(* leaves in the rows of nodes and jobs.                                   *)
Completes(s, C, K, a) ==
  LET P == C \cap Provider IN
  /\ output' = Set(output, C, "right")
  /\ job' = Set(Set(job, P, "SUCCEEDED"), K, StatusOf(a))
  /\ ext' = Set(ext, P \cup {k \in K : Names(a)}, TRUE)
  /\ reply' = Set(Set(reply, P, "good"), K, ReplyOf(a))
  /\ Charge(s, C) /\ Deposit(s, C)
  /\ UNCHANGED tries

(* Every node is done: the run succeeds. *)
ExecFinish(t) ==
  LET s == txn[t].snap
      C == Unfinished(s, N + 1)
  IN  /\ InFlight(t, "execute")
      /\ \A n \in C : Completable(s, n)
      /\ run' = "SUCCEEDED"
      /\ node' = Set(node, C, "SUCCEEDED")
      /\ Completes(s, C, {}, "good")
      /\ Release(s, Nodes)
      /\ Submit({n \in C \cap Provider : Submitting(s, n)})
      /\ End(t) /\ UNCHANGED <<deliveries, aborts>>

(* Node k is left to the provider.  Any result other than SUCCEEDED counts *)
(* as waiting, a failed or cancelled job included.                         *)
ExecWait(t) ==
  LET s == txn[t].snap IN
  \E k \in Provider, a \in Answers \cap (WaitAnswers \cup EndAnswers) :
    LET C == Unfinished(s, k) IN
    /\ InFlight(t, "execute")
    /\ s.node[k] # "SUCCEEDED"
    /\ \A n \in C : Completable(s, n)
    /\ Startable(s, k) /\ Fed(s, k) /\ Callable(s, k)
    /\ JobCanReach(JobFrom(s, k), StatusOf(a))
    /\ run' = "WAITING_PROVIDER"
    /\ node' = [Set(node, C, "SUCCEEDED") EXCEPT ![k] = "WAITING_PROVIDER"]
    /\ Completes(s, C, {k}, a)
    /\ Release(s, C)
    /\ Submit({n \in (C \cup {k}) \cap Provider : Submitting(s, n)})
    /\ End(t) /\ UNCHANGED <<deliveries, aborts>>

(* The executor raises: it marks the node and the run FAILED, settles them *)
(* and raises again, so that the queue's worker rolls back everything the  *)
(* run job wrote, the completed nodes included.  The external jobs of S    *)
(* stay.                                                                   *)
ExecFails(t, S) ==
  /\ Submit(S)
  /\ End(t) /\ UNCHANGED <<rows, deliveries, aborts>>

(* Node k cannot be run: it is terminal, it lacks an input, or its job row *)
(* cannot be submitted or polled.                                          *)
ExecReject(t) ==
  LET s == txn[t].snap IN
  \E k \in Nodes :
    LET C == Unfinished(s, k) IN
    /\ InFlight(t, "execute")
    /\ s.node[k] # "SUCCEEDED"
    /\ \A n \in C : Completable(s, n)
    /\ \/ ~Startable(s, k)
       \/ ~Fed(s, k)
       \/ k \in Provider /\ ~Callable(s, k)
    /\ ExecFails(t, {n \in C \cap Provider : Submitting(s, n)})

(* Node k raises: its execution or its adapter does, before or after the   *)
(* external job was created (called), or the provider reports a status the *)
(* job may not go back to.                                                 *)
ExecRaise(t) ==
  LET s == txn[t].snap IN
  \E k \in Nodes, called \in BOOLEAN, a \in Answers \cap (WaitAnswers \cup {"raise"}) :
    LET C == Unfinished(s, k) IN
    /\ InFlight(t, "execute")
    /\ s.node[k] # "SUCCEEDED"
    /\ \A n \in C : Completable(s, n)
    /\ Startable(s, k) /\ Fed(s, k)
    /\ k \in Provider => Callable(s, k)
    /\ a # "raise" => k \in Provider /\ ~JobCanReach(JobFrom(s, k), StatusOf(a))
    /\ ExecFails(t, {n \in (C \cup {m \in {k} : called}) \cap Provider : Submitting(s, n)})

(* The provider finished node k with a result that cannot be used: an      *)
(* output of the wrong type, none at all, or a cost that cannot be charged.*)
ExecUnusable(t) ==
  LET s == txn[t].snap IN
  \E k \in Provider :
    LET C == Unfinished(s, k) IN
    /\ InFlight(t, "execute")
    /\ Answers \cap {"wrong", "empty", "unpayable"} # {}
    /\ s.node[k] # "SUCCEEDED"
    /\ \A n \in C : Completable(s, n)
    /\ Startable(s, k) /\ Fed(s, k) /\ Callable(s, k)
    /\ ExecFails(t, {n \in (C \cup {k}) \cap Provider : Submitting(s, n)})

-----------------------------------------------------------------------------
(* The poller.  The scheduled batch polls the jobs that are SUBMITTED or   *)
(* WAITING_PROVIDER and have an external id, in one transaction whose      *)
(* snapshot is older than the provider's answers to the rows before;       *)
(* it swallows the exception of a row, so what the row wrote is committed. *)

(* Mutant of Pollable: SUBMITTED is not a pollable status. *)
PollableWaiting(n) == job[n] = "WAITING_PROVIDER" /\ ext[n]

Pollable(n) == job[n] \in {"SUBMITTED", "WAITING_PROVIDER"} /\ ext[n]

PollBegin(t, n) ==
  /\ Pollable(n) \/ (OperatorPolls /\ job[n] # "NONE")
  /\ Begin(t, "poll", n)
  /\ UNCHANGED <<rows, deliveries, submits, aborts>>

(* The snapshot shows an active run and an active job with attempts left.  *)
MayPoll(t) ==
  LET s == txn[t].snap  n == txn[t].job IN
  /\ InFlight(t, "poll")
  /\ s.run \notin RunTerminal
  /\ s.job[n] \notin JobTerminal
  /\ s.tries[n] < MaxAttempts

(* record_poll_attempt locks the job's row before the provider is called,  *)
(* so apply_result starts from the row's current status.                   *)
Accepted(t, a) ==
  LET s == txn[t].snap  n == txn[t].job IN
  /\ MayPoll(t) /\ s.ext[n]
  /\ a \in Answers \ {"raise"} /\ JobCanReach(job[n], StatusOf(a))

Polled(t) ==
  LET n == txn[t].job IN
  tries' = [tries EXCEPT ![n] = txn[t].snap.tries[n] + 1]

(* What apply_result leaves of an answer that was accepted. *)
Applied(t, a) ==
  LET n == txn[t].job IN
  /\ job' = [job EXCEPT ![n] = StatusOf(a)]
  /\ reply' = [reply EXCEPT ![n] = ReplyOf(a)]
  /\ ext' = [ext EXCEPT ![n] = @ \/ Names(a)]
  /\ Polled(t)

Awaited(t) == txn[t].snap.node[txn[t].job] = "WAITING_PROVIDER"

(* The job is not finished and may be polled again. *)
PollPending(t) ==
  \E a \in WaitAnswers :
    /\ Accepted(t, a)
    /\ txn[t].snap.tries[txn[t].job] + 1 < MaxAttempts
    /\ Applied(t, a)
    /\ UNCHANGED <<run, node, output, released, debits, assets>>
    /\ End(t) /\ UNCHANGED <<deliveries, submits, aborts>>

(* The job succeeded: the poller materializes it, whatever the type of its *)
(* outputs, and queues the run.                                            *)
PollSucceed(t) ==
  LET s == txn[t].snap  n == txn[t].job IN
  \E a \in {"good", "wrong"} :
    /\ Accepted(t, a)
    /\ Applied(t, a)
    /\ IF Awaited(t)
       THEN /\ node' = [node EXCEPT ![n] = "SUCCEEDED"]
            /\ output' = [output EXCEPT ![n] = IF a = "good" THEN "right" ELSE "wrong"]
            /\ Charge(s, {n}) /\ Deposit(s, {n}) /\ Release(s, {n})
       ELSE UNCHANGED <<node, output, debits, assets, released>>
    /\ UNCHANGED run
    /\ Enqueue /\ End(t) /\ UNCHANGED <<submits, aborts>>

(* Mutant of PollUnusable: the assets are written before the cost is       *)
(* looked at.                                                              *)
PollUnusableAfterAssets(t) ==
  LET s == txn[t].snap  n == txn[t].job IN
  /\ Accepted(t, "unpayable") /\ Awaited(t)
  /\ Applied(t, "unpayable")
  /\ Deposit(s, {n})
  /\ UNCHANGED <<run, node, output, released, debits>>
  /\ End(t) /\ UNCHANGED <<deliveries, submits, aborts>>

(* The job succeeded and materialize raises: on a cost that cannot be      *)
(* charged before it writes anything, on a result with no outputs after    *)
(* the debit and the release.  Nothing is queued.                          *)
PollUnusable(t) ==
  LET s == txn[t].snap  n == txn[t].job IN
  \E a \in {"empty", "unpayable"} :
    /\ Accepted(t, a)
    /\ Applied(t, a)
    /\ IF a = "empty" /\ Awaited(t)
       THEN Charge(s, {n}) /\ Release(s, {n})
       ELSE UNCHANGED <<debits, released>>
    /\ IF Awaited(t) THEN UNCHANGED deliveries ELSE Enqueue
    /\ UNCHANGED <<run, node, output, assets>>
    /\ End(t) /\ UNCHANGED <<submits, aborts>>

(* The job failed or was cancelled: the node ends, and the run is queued   *)
(* for the worker to find out.                                             *)
PollEnd(t) ==
  LET s == txn[t].snap  n == txn[t].job IN
  \E a \in EndAnswers :
    /\ Accepted(t, a)
    /\ Applied(t, a)
    /\ IF Awaited(t)
       THEN node' = [node EXCEPT ![n] = NodeEnd(a)] /\ Release(s, {n})
       ELSE UNCHANGED <<node, released>>
    /\ UNCHANGED <<run, output, debits, assets>>
    /\ Enqueue /\ End(t) /\ UNCHANGED <<submits, aborts>>

(* The adapter raises, or the answer is one the job may not go to: only    *)
(* the attempt stays recorded.                                             *)
PollRaise(t) ==
  LET s == txn[t].snap  n == txn[t].job IN
  /\ MayPoll(t)
  /\ \/ "raise" \in Answers
     \/ ~s.ext[n]
     \/ \E a \in Answers \ {"raise"} : ~JobCanReach(job[n], StatusOf(a))
  /\ Polled(t)
  /\ UNCHANGED <<run, node, output, job, ext, reply, released, debits, assets>>
  /\ End(t) /\ UNCHANGED <<deliveries, submits, aborts>>

(* _mark_timed_out_node_and_workflow *)
TimeOut(s, n) ==
  /\ node' = [node EXCEPT ![n] =
                IF s.node[n] \in {"PENDING", "RUNNING", "WAITING_PROVIDER"} THEN "FAILED" ELSE @]
  /\ run' = IF s.run = "WAITING_PROVIDER" THEN "EXPIRED" ELSE "FAILED"
  /\ Release(s, Nodes)
  /\ UNCHANGED <<output, debits, assets>>

(* The attempts are used up, or the time is, before the provider is asked. *)
PollExpire(t) ==
  LET s == txn[t].snap  n == txn[t].job IN
  /\ InFlight(t, "poll")
  /\ s.run \notin RunTerminal /\ s.job[n] \notin JobTerminal
  /\ JobCanReach(s.job[n], "EXPIRED")
  /\ job' = [job EXCEPT ![n] = "EXPIRED"]
  /\ TimeOut(s, n)
  /\ UNCHANGED <<ext, reply, tries>>
  /\ End(t) /\ UNCHANGED <<deliveries, submits, aborts>>

(* ... or after it answered that the job is not finished. *)
PollExhaust(t) ==
  LET s == txn[t].snap  n == txn[t].job IN
  \E a \in WaitAnswers :
    /\ Accepted(t, a)
    /\ job' = [job EXCEPT ![n] = "EXPIRED"]
    /\ reply' = [reply EXCEPT ![n] = "none"]
    /\ ext' = [ext EXCEPT ![n] = @ \/ Names(a)]
    /\ Polled(t)
    /\ TimeOut(s, n)
    /\ End(t) /\ UNCHANGED <<deliveries, submits, aborts>>

(* _stop_polling_cancelled_run *)
PollStop(t) ==
  LET s == txn[t].snap  n == txn[t].job IN
  /\ InFlight(t, "poll") /\ s.run = "CANCELLED"
  /\ job' = [job EXCEPT ![n] = IF s.job[n] \in JobTerminal THEN @ ELSE "CANCELLED"]
  /\ node' = [node EXCEPT ![n] = IF s.node[n] \in NodeTerminal THEN @ ELSE "CANCELLED"]
  /\ UNCHANGED <<run, output, ext, reply, tries, released, debits, assets>>
  /\ End(t) /\ UNCHANGED <<deliveries, submits, aborts>>

(* A run that ended otherwise, or a terminal job nobody waits for. *)
PollNothing(t) ==
  LET s == txn[t].snap  n == txn[t].job IN
  /\ InFlight(t, "poll")
  /\ \/ s.run \in RunTerminal \ {"CANCELLED"}
     \/ s.run \notin RunTerminal /\ s.job[n] \in JobTerminal /\ ~Awaited(t)
  /\ End(t) /\ UNCHANGED <<rows, deliveries, submits, aborts>>

(* A terminal job whose node still waits is settled from its persisted     *)
(* response, without a call to the provider (_recover_terminal_provider_   *)
(* job); a cost that could not be charged may have become payable.         *)
PollRecover(t) ==
  LET s == txn[t].snap  n == txn[t].job IN
  /\ InFlight(t, "poll")
  /\ s.run \notin RunTerminal /\ s.job[n] \in JobTerminal /\ Awaited(t)
  /\ IF s.job[n] = "SUCCEEDED"
     THEN /\ s.reply[n] # "empty"
          /\ node' = [node EXCEPT ![n] = "SUCCEEDED"]
          /\ output' = [output EXCEPT ![n] = IF s.reply[n] = "wrong" THEN "wrong" ELSE "right"]
          /\ Charge(s, {n}) /\ Deposit(s, {n})
     ELSE /\ node' = [node EXCEPT ![n] =
                        IF s.job[n] = "CANCELLED" THEN "CANCELLED" ELSE "FAILED"]
          /\ UNCHANGED <<output, debits, assets>>
  /\ Release(s, {n})
  /\ UNCHANGED <<run, job, ext, reply, tries>>
  /\ Enqueue /\ End(t) /\ UNCHANGED <<submits, aborts>>

(* ... or materialize raises again, as PollUnusable. *)
PollUnrecoverable(t) ==
  LET s == txn[t].snap  n == txn[t].job IN
  /\ InFlight(t, "poll")
  /\ s.run \notin RunTerminal /\ s.job[n] = "SUCCEEDED" /\ Awaited(t)
  /\ s.reply[n] \in {"empty", "unpayable"}
  /\ IF s.reply[n] = "empty"
     THEN Charge(s, {n}) /\ Release(s, {n})
     ELSE UNCHANGED <<debits, released>>
  /\ UNCHANGED <<run, node, output, job, ext, reply, tries, assets>>
  /\ End(t) /\ UNCHANGED <<deliveries, submits, aborts>>

-----------------------------------------------------------------------------
(* Public tools and System Manager recovery.                               *)

(* Mutant of StopBegin: a terminal run is stopped like any other. *)
StopBeginAnyway(t, kind) ==
  /\ kind \in {"cancel", "expire"}
  /\ Begin(t, kind, 0)
  /\ UNCHANGED <<rows, deliveries, submits, aborts>>

(* cancel_my_run and expire_stuck_run refuse a terminal run. *)
StopBegin(t, kind) ==
  /\ kind \in {"cancel", "expire"}
  /\ run \notin RunTerminal
  /\ Begin(t, kind, 0)
  /\ UNCHANGED <<rows, deliveries, submits, aborts>>

(* The jobs J are cancelled and the nodes R release their reservations. *)
StopWith(t, kind, status, J, R) ==
  LET s == txn[t].snap IN
  /\ InFlight(t, kind)
  /\ job' = Set(job, J, "CANCELLED")
  /\ node' = Set(node, {n \in Nodes : s.node[n] \in NodeActive}, "CANCELLED")
  /\ run' = status
  /\ Release(s, R)
  /\ UNCHANGED <<output, ext, reply, tries, debits, assets>>
  /\ End(t) /\ UNCHANGED <<deliveries, submits, aborts>>

(* Mutants of Stop: the jobs are left running; all of them are cancelled,  *)
(* the terminal ones too; the reservations are kept.                       *)
StopLeavingJobs(t, kind, status) == StopWith(t, kind, status, {}, Nodes)

StopEveryJob(t, kind, status) ==
  StopWith(t, kind, status, {n \in Nodes : txn[t].snap.job[n] # "NONE"}, Nodes)

StopHolding(t, kind, status) ==
  StopWith(t, kind, status, {n \in Nodes : txn[t].snap.job[n] \in JobActive}, {})

(* Both cancel the active jobs and nodes and end the run.  Only            *)
(* cancel_my_run checks the run's transition; expire_stuck_run writes      *)
(* EXPIRED whatever the status was.                                        *)
Stop(t, kind, status) ==
  StopWith(t, kind, status, {n \in Nodes : txn[t].snap.job[n] \in JobActive}, Nodes)

CancelMyRun(t) == Stop(t, "cancel", "CANCELLED")

ExpireStuckRun(t) == Stop(t, "expire", "EXPIRED")

(* start_run called again for an unchanged draft finds the run and queues  *)
(* it once more while it is QUEUED.                                        *)
StartAgain ==
  /\ run = "QUEUED"
  /\ Enqueue
  /\ UNCHANGED <<rows, submits, txn, aborts>>

(* resume_run queues any run that has not ended. *)
ResumeRun ==
  /\ run \notin RunTerminal
  /\ Enqueue
  /\ UNCHANGED <<rows, submits, txn, aborts>>

(* A worker or a request dies, or loses a deadlock: nothing it wrote stays *)
(* and a run job is not queued again, but the external jobs it created, up *)
(* to some node in order, do.                                              *)
Abort(t) ==
  LET s == txn[t].snap IN
  /\ txn[t].kind # "idle"
  /\ aborts < MaxAborts
  /\ aborts' = aborts + 1
  /\ IF txn[t].kind = "execute"
     THEN \E k \in 0..N :
            /\ \A n \in Unfinished(s, k) : Completable(s, n)
            /\ k \in Provider => Startable(s, k) /\ Fed(s, k) /\ Callable(s, k)
            /\ Submit({n \in Unfinished(s, k + 1) \cap Provider : Submitting(s, n)})
     ELSE UNCHANGED submits
  /\ End(t)
  /\ UNCHANGED <<rows, deliveries>>

-----------------------------------------------------------------------------
Execute(t) ==
  \/ ExecFinish(t) \/ ExecWait(t)
  \/ ExecReject(t) \/ ExecRaise(t) \/ ExecUnusable(t)

Poll(t) ==
  \/ PollPending(t) \/ PollSucceed(t) \/ PollUnusable(t) \/ PollEnd(t)
  \/ PollRaise(t) \/ PollExpire(t) \/ PollExhaust(t) \/ PollStop(t)
  \/ PollNothing(t) \/ PollRecover(t) \/ PollUnrecoverable(t)

Finish(t) == Execute(t) \/ Poll(t) \/ CancelMyRun(t) \/ ExpireStuckRun(t)

Next ==
  \/ \E t \in Slots :
       \/ ExecBegin(t) \/ Execute(t)
       \/ \E n \in Nodes : PollBegin(t, n)
       \/ Poll(t)
       \/ \E kind \in {"cancel", "expire"} : StopBegin(t, kind)
       \/ CancelMyRun(t) \/ ExpireStuckRun(t)
       \/ Abort(t)
  \/ StartAgain \/ ResumeRun

Spec == Init /\ [][Next]_vars

(* A transaction that began ends; the queue serves its jobs and the        *)
(* scheduler calls the poller again and again, also when the workers are   *)
(* busy in between (strong fairness).                                      *)
Fairness ==
  /\ \A t \in Slots : WF_vars(Finish(t)) /\ SF_vars(ExecBegin(t))
  /\ \A t \in Slots, n \in Nodes : SF_vars(Pollable(n) /\ PollBegin(t, n))

FairSpec == Spec /\ Fairness

-----------------------------------------------------------------------------
(* With one slot every handler sees the rows it writes. *)
Serial == \A t, u \in Slots : t = u

(* A run ends with nothing held: every reservation of a terminal run has   *)
(* been released, whichever handler ended the run.                         *)
TerminalRunHoldsNoCredit ==
  run \in RunTerminal => \A n \in Priced : released[n] > 0

(* No reservation is released twice and no job is charged twice, however   *)
(* often polls, run jobs, cancellations and expiries are repeated.         *)
LedgerRowsUnique == \A n \in Nodes : released[n] <= 1 /\ debits[n] <= 1

(* What the provider did is charged only when it says it succeeded.        *)
ChargedForSuccess == \A n \in Nodes : debits[n] > 0 => job[n] = "SUCCEEDED"

(* An asset is never left unpaid: whoever wrote it, its node was charged.  *)
AssetsArePaidFor == \A n \in Costly : assets[n] > 0 => debits[n] > 0

(* A succeeded run has all its nodes succeeded and all its jobs settled.   *)
SucceededRunIsComplete ==
  run = "SUCCEEDED" =>
    \A n \in Nodes : /\ node[n] = "SUCCEEDED"
                     /\ n \in Costly => debits[n] > 0

(* A job at work at the provider is the only one of its run, and run and   *)
(* node wait for it: no handler leaves a running job without its waiters.  *)
ActiveJobIsAwaited ==
  \A n \in Nodes : job[n] \in JobActive =>
    /\ run = "WAITING_PROVIDER" /\ node[n] = "WAITING_PROVIDER"
    /\ \A m \in Nodes : (m < n => node[m] = "SUCCEEDED") /\ (m > n => node[m] = "PENDING")

(* An ended run is left alone: its status, its ledger rows and its assets  *)
(* never change again, whatever is still queued, polled or in flight.      *)
EndedRunIsFrozen ==
  [][(run \in RunTerminal => UNCHANGED <<run, released, debits, assets>>)]_vars

(* Every step of every handler is a step of the credit contract. *)
Contract == INSTANCE CreditContract WITH
              ended <- run \in RunTerminal,
              held <- {n \in Priced : released[n] = 0},
              charged <- {n \in Priced : debits[n] > 0}

HonoursCreditContract == Contract!Spec

(* What docs/PROVIDER_CONTRACT.md:70 says of every provider node: "Create   *)
(* `AI Provider Job` before submitting an external job."  So wherever an   *)
(* external job was created, its row is there.                             *)
ExternalJobIsRecorded == \A n \in Nodes : submits[n] > 0 => job[n] # "NONE"

(* A job the provider works on is settled: polled until it ends, or        *)
(* expired when its attempts or its time are used up, or cancelled.        *)
ActiveJobResolves ==
  \A n \in Nodes : (job[n] \in JobActive /\ ext[n]) ~> job[n] \in JobTerminal

(* Executions of the run raise only finitely often.                        *)
RaisingStops == <>[][~\E t \in Slots : ExecReject(t) \/ ExecRaise(t) \/ ExecUnusable(t)]_vars

(* Again and again something is under way for the run, until it has ended: *)
(* a run job in the queue, or a job at the provider that can be asked for. *)
SomebodyWorks ==
  []<>(\/ run \in RunTerminal \/ deliveries > 0
       \/ \E n \in Nodes : job[n] \in JobActive /\ ext[n])

(* Every run ends that is not left alone and whose executions do not keep  *)
(* raising: attempts, timeouts, re-queued run jobs and settled jobs never  *)
(* go round in circles.                                                    *)
RunEnds == RaisingStops /\ SomebodyWorks => <>(run \in RunTerminal)

(* What docs/WORKER_DESIGN.md:82 says of run jobs: "Workers must persist   *)
(* structured errors."  So a node that failed ends its run, as the         *)
(* executor's own code has it: it marks the run FAILED.                    *)
FailedNodeEndsRun ==
  \A n \in Nodes : node[n] \in {"FAILED", "CANCELLED"} ~> run \in RunTerminal
=============================================================================
