---------------------------- MODULE ProviderSetup ----------------------------
(***************************************************************************)
(* Which provider account and which price a job gets.  Accounts and models *)
(* are administered while a run is checked (preflight) by the user who     *)
(* starts it and executed by queue workers on behalf of whoever enqueued   *)
(* the execution: the account is looked up at the preflight and again when *)
(* the job is created, and the key once more when the job is submitted.    *)
(*                                                                         *)
(* A request is one database transaction.  Making an account the default   *)
(* unsets the other defaults that its snapshot showed, so it is a Begin    *)
(* and a second step, and set_value refuses nothing.  A start and an       *)
(* execution write nothing that the others read, and the others write one  *)
(* row: one step each.                                                     *)
(***************************************************************************)
EXTENDS Integers, Sequences, FiniteSets

CONSTANTS
  Users, SystemManagers,
  Poller,         \* the user of scheduled jobs: Administrator
  Billing,        \* who may manage the provider accounts of Project
  Runners,        \* who may start its runs
  Project,        \* the project of the run
  Scopes,         \* the <<project, user>> that requests ask for
  Providers,
  Models,         \* the AI Model rows, each with its provider
  RequirePricing, \* the setting slow_ai_run_preflight_require_known_pricing
  Pricings,       \* what a pricing_json may hold: by key, an amount or, below 0, no amount
  Drafts,         \* the provider nodes of the workflow, in execution order
  MaxAccounts,    \* bound on the AI Provider Account rows
  MaxChanges,     \* bound on the changes of one model
  Slots           \* transactions that can be in flight at once

ASSUME SetupAssumption ==
  /\ SystemManagers \subseteq Users /\ Poller \in SystemManagers
  /\ Billing \subseteq Users /\ Runners \subseteq Users
  /\ "none" \notin Users /\ Models \in [DOMAIN Models -> Providers]
  /\ MaxAccounts \in Nat /\ MaxChanges \in Nat /\ RequirePricing \in BOOLEAN
  /\ Scopes \subseteq {Project, "other", "none"} \X (Users \cup {"none"})
  /\ \A pricing \in Pricings : pricing \in [DOMAIN pricing -> Int]
  /\ Drafts \subseteq Seq([model : DOMAIN Models, account : Nat])

VARIABLES
  accounts,  \* the AI Provider Account rows, oldest first
  models,    \* status and pricing_json of the models
  run,       \* the run: its preflight, its queue, its jobs
  txn        \* the transaction in each slot

vars == <<accounts, models, run, txn>>

Account == [provider : Providers, project : {Project, "other", "none"},
            user : Users \cup {"none"}, is_default : BOOLEAN, status : {"ACTIVE", "DISABLED"}]
Model == [status : {"ENABLED", "DISABLED"}, pricing : Pricings, changes : 0..MaxChanges]

NoAccount == 0
Environment == -1  \* WAVESPEED_API_KEY, REPLICATE_API_KEY
Choice == 0..MaxAccounts

Job == [by : Users, account : Choice, key : Choice \cup {Environment}, price : Nat]

NoRun == [by |-> "none"]
\* queue: on whose behalf executions are queued; waiting: the last job is
\* with the provider; changed (history): an account or a model was written
\* since the preflight
Run == [by : Users, nodes : Drafts, chosen : Seq(Choice), estimate : Seq(Nat),
        jobs : Seq(Job), queue : SUBSET Users, waiting : BOOLEAN, changed : BOOLEAN]

Idle == [service |-> "none"]
\* overtaken (history): another change of the accounts was committed since
Txn == [service : {"create_account"}, row : Account, others : SUBSET (1..MaxAccounts),
        overtaken : BOOLEAN]
  \cup [service : {"set_default"}, account : 1..MaxAccounts, others : SUBSET (1..MaxAccounts),
        overtaken : BOOLEAN]

TypeOK ==
  /\ accounts \in Seq(Account) /\ Len(accounts) <= MaxAccounts
  /\ models \in [DOMAIN Models -> Model]
  /\ run \in Run \cup {NoRun}
  /\ txn \in [Slots -> Txn \cup {Idle}]

Init ==
  /\ accounts = <<>>
  /\ models \in [DOMAIN Models -> [status : {"ENABLED"}, pricing : Pricings, changes : {0}]]
  /\ run = NoRun
  /\ txn = [t \in Slots |-> Idle]

-----------------------------------------------------------------------------
(* Transactions. *)

Begin(t, read) ==
  /\ txn[t] = Idle
  /\ txn' = [txn EXCEPT ![t] = read]
  /\ UNCHANGED <<accounts, models, run>>

Serving(t, service) == txn[t].service = service

(* The accounts are written: requests in flight read them before. *)
Overtaken == [s \in Slots |-> IF txn[s] = Idle THEN Idle ELSE [txn[s] EXCEPT !.overtaken = TRUE]]

Changed == IF run = NoRun THEN run ELSE [run EXCEPT !.changed = TRUE]

Commit(t) == txn' = [Overtaken EXCEPT ![t] = Idle] /\ run' = Changed

(* A request that dies. *)
Raise(t) ==
  /\ txn[t] # Idle
  /\ txn' = [txn EXCEPT ![t] = Idle]
  /\ UNCHANGED <<accounts, models, run>>

-----------------------------------------------------------------------------
(* The accounts. *)

Scope(account) == <<account.project, account.user>>

(* Mutant of OtherDefaults: of the same user, and never the shared ones. *)
OtherDefaultsOfUser(account, self) ==
  {i \in DOMAIN accounts \ {self} :
     /\ accounts[i].provider = account.provider /\ accounts[i].is_default
     /\ accounts[i].user = account.user /\ account.user # "none"}

(* _unset_other_defaults, what it finds *)
OtherDefaults(account, self) ==
  {i \in DOMAIN accounts \ {self} :
     /\ accounts[i].provider = account.provider /\ accounts[i].is_default
     /\ Scope(accounts[i]) = Scope(account)}

Unset(rows, others) ==
  [i \in DOMAIN rows |-> IF i \in others THEN [rows[i] EXCEPT !.is_default = FALSE] ELSE rows[i]]

MayManage(by, account) ==
  \/ by \in SystemManagers
  \/ account.project = Project /\ by \in Billing
  \/ account.project = "none" /\ by = account.user

(* The scope a new account gets: who is no System Manager makes accounts   *)
(* of a project, for themselves.                                           *)
Granted(by, scope) ==
  IF by \in SystemManagers THEN {scope}
  ELSE IF scope[1] = Project /\ by \in Billing /\ scope[2] \in {"none", by} THEN {<<Project, by>>}
  ELSE {}

NewAccount(provider, scope, is_default) ==
  [provider |-> provider, project |-> scope[1], user |-> scope[2], is_default |-> is_default,
   status |-> "ACTIVE"]

CreateOther(by, provider, scope) ==
  /\ Len(accounts) < MaxAccounts
  /\ \E granted \in Granted(by, scope) :
       accounts' = Append(accounts, NewAccount(provider, granted, FALSE))
  /\ txn' = Overtaken /\ run' = Changed /\ UNCHANGED models

CreateBegin(t, by, provider, scope) ==
  /\ Len(accounts) < MaxAccounts
  /\ \E granted \in Granted(by, scope) :
     LET account == NewAccount(provider, granted, TRUE) IN
     Begin(t, [service |-> "create_account", row |-> account, overtaken |-> FALSE,
               others |-> OtherDefaults(account, 0)])

CreateAccount(t) ==
  /\ Serving(t, "create_account") /\ Len(accounts) < MaxAccounts
  /\ accounts' = Append(Unset(accounts, txn[t].others), txn[t].row)
  /\ Commit(t) /\ UNCHANGED models

SetDefaultBegin(t, by, a) ==
  /\ MayManage(by, accounts[a]) /\ accounts[a].status = "ACTIVE"
  /\ Begin(t, [service |-> "set_default", account |-> a, overtaken |-> FALSE,
               others |-> OtherDefaults(accounts[a], a)])

SetDefault(t) ==
  /\ Serving(t, "set_default")
  /\ accounts' = [Unset(accounts, txn[t].others) EXCEPT ![txn[t].account].is_default = TRUE]
  /\ Commit(t) /\ UNCHANGED models

DisabledRow(account) == [account EXCEPT !.status = "DISABLED", !.is_default = FALSE]

DisableAccount(by, a) ==
  /\ MayManage(by, accounts[a])
  /\ accounts' = [accounts EXCEPT ![a] = DisabledRow(accounts[a])]
  /\ txn' = Overtaken /\ run' = Changed /\ UNCHANGED models

-----------------------------------------------------------------------------
(* The models. *)

PriceKeys == <<"test_cost_usd", "amount_usd", "base_price", "price_usd">>

Unknown == -1

(* pricing_summary_from_json: the first key with an amount. *)
PriceOf(pricing) ==
  LET known == {i \in DOMAIN PriceKeys :
                  PriceKeys[i] \in DOMAIN pricing /\ pricing[PriceKeys[i]] >= 0}
  IN IF known = {} THEN Unknown
     ELSE pricing[PriceKeys[CHOOSE i \in known : \A j \in known : i <= j]]

(* A price that is not known counts as 0, in the preflight and in a job.   *)
AmountOf(pricing) == IF PriceOf(pricing) = Unknown THEN 0 ELSE PriceOf(pricing)

(* update_model_status and update_model_pricing, by a System Manager: the  *)
(* row is saved whole, if nobody saved it since it was read.               *)
UpdateModel(m, changes) ==
  /\ models[m].changes < MaxChanges
  /\ models' = [models EXCEPT ![m] = changes]
  /\ run' = Changed /\ UNCHANGED <<accounts, txn>>

UpdateModelStatus(m, status) ==
  UpdateModel(m, [models[m] EXCEPT !.status = status, !.changes = @ + 1])

(* The new pricing holds an amount or none, and no other key of the old.   *)
UpdateModelPricing(m, pricing) ==
  /\ DOMAIN pricing \subseteq {"amount_usd"} /\ \A key \in DOMAIN pricing : pricing[key] >= 0
  /\ UpdateModel(m, [models[m] EXCEPT !.pricing = pricing, !.changes = @ + 1])

-----------------------------------------------------------------------------
(* resolve_provider_account_name. *)

(* Mutant of Matches: an account of another user will do. *)
MatchesProject(account, user) == account.project \in {"none", Project}

(* account_matches_scope *)
Matches(account, user) ==
  account.project \in {"none", Project} /\ account.user \in {"none", user}

Usable(provider, user) ==
  {a \in DOMAIN accounts : /\ accounts[a].provider = provider /\ accounts[a].status = "ACTIVE"
                           /\ Matches(accounts[a], user)}

Oldest(some) == IF some = {} THEN NoAccount ELSE CHOOSE a \in some : \A b \in some : a <= b

(* What a node resolves to: nothing when it names an account that does not *)
(* do, NoAccount when it names none and there is no default.               *)
Resolve(node, user) ==
  LET usable == Usable(Models[node.model], user) IN
  IF node.account # NoAccount THEN {node.account} \cap usable
  ELSE {Oldest({a \in usable : accounts[a].is_default})}

(* Mutant of KeyOf: the job's account is not looked at. *)
KeyOfDefault(node, account) ==
  Oldest({a \in DOMAIN accounts : /\ accounts[a].provider = Models[node.model]
                                  /\ accounts[a].status = "ACTIVE" /\ accounts[a].is_default})

(* get_api_key of the adapters: the account of the job or, when it has     *)
(* none, the oldest default of the provider, or the server's environment.  *)
KeyOf(node, account) ==
  LET default == Oldest({a \in DOMAIN accounts :
        /\ accounts[a].provider = Models[node.model]
        /\ accounts[a].status = "ACTIVE" /\ accounts[a].is_default})
  IN IF account # NoAccount THEN account
     ELSE IF default # NoAccount THEN default ELSE Environment

-----------------------------------------------------------------------------
(* start_run: the preflight of every provider node, and the RESERVE rows   *)
(* that record the estimates.                                              *)

Passes(node, by) ==
  /\ models[node.model].status = "ENABLED"
  /\ RequirePricing => PriceOf(models[node.model].pricing) # Unknown
  /\ Resolve(node, by) \ {NoAccount} # {}

StartRun(by, nodes) ==
  /\ run = NoRun
  /\ \A i \in DOMAIN nodes : Passes(nodes[i], by)
  /\ run' = [by |-> by, nodes |-> nodes,
             chosen |-> [i \in DOMAIN nodes |-> CHOOSE a \in Resolve(nodes[i], by) : TRUE],
             estimate |-> [i \in DOMAIN nodes |-> AmountOf(models[nodes[i].model].pricing)],
             jobs |-> <<>>, queue |-> {by}, waiting |-> FALSE, changed |-> FALSE]
  /\ UNCHANGED <<accounts, models, txn>>

(* A start of the same draft while the run is QUEUED, or resume_run.       *)
Enqueue(by) ==
  /\ run # NoRun /\ Len(run.jobs) < Len(run.nodes)
  /\ by \in SystemManagers \/ run.jobs = <<>>
  /\ run' = [run EXCEPT !.queue = @ \cup {by}]
  /\ UNCHANGED <<accounts, models, txn>>

(* Model and price are not checked again. *)
JobPrice(node) == AmountOf(models[node.model].pricing)

(* create_queued_job, and the key it is submitted with. *)
NewJob(by, node, account) ==
  [by |-> by, account |-> account, key |-> KeyOf(node, account), price |-> JobPrice(node)]

(* An execution: the next nodes get their jobs, each after the one before  *)
(* has succeeded, up to one whose answer is outstanding or to the last.    *)
Execute(by) ==
  /\ run # NoRun /\ by \in run.queue
  /\ LET from == Len(run.jobs) + 1 IN
     \E to \in from..Len(run.nodes), waiting \in BOOLEAN :
       /\ to = Len(run.nodes) \/ waiting
       /\ \A i \in from..to : Resolve(run.nodes[i], by) # {}
       /\ run' = [run EXCEPT !.queue = @ \ {by}, !.waiting = waiting,
            !.jobs = [i \in 1..to |->
               IF i < from THEN run.jobs[i]
               ELSE NewJob(by, run.nodes[i], CHOOSE a \in Resolve(run.nodes[i], by) : TRUE)]]
  /\ UNCHANGED <<accounts, models, txn>>

(* It finds the provider still at work, or a configured account unusable.  *)
ExecuteNothing(by) ==
  /\ run # NoRun /\ by \in run.queue
  /\ run' = [run EXCEPT !.queue = @ \ {by}]
  /\ UNCHANGED <<accounts, models, txn>>

(* The scheduled poller sees the end of the job and enqueues the run.      *)
Poll ==
  /\ run # NoRun /\ run.waiting
  /\ run' = [run EXCEPT !.waiting = FALSE, !.queue = @ \cup {Poller}]
  /\ UNCHANGED <<accounts, models, txn>>

-----------------------------------------------------------------------------
Next ==
  \/ \E t \in Slots, by \in Users :
       \/ \E provider \in Providers, scope \in Scopes : CreateBegin(t, by, provider, scope)
       \/ \E a \in DOMAIN accounts : SetDefaultBegin(t, by, a)
  \/ \E t \in Slots : CreateAccount(t) \/ SetDefault(t) \/ Raise(t)
  \/ \E by \in Users :
       \/ \E provider \in Providers, scope \in Scopes : CreateOther(by, provider, scope)
       \/ \E a \in DOMAIN accounts : DisableAccount(by, a)
  \/ \E m \in DOMAIN Models :
       \/ \E status \in {"ENABLED", "DISABLED"} : UpdateModelStatus(m, status)
       \/ \E pricing \in Pricings : UpdateModelPricing(m, pricing)
  \/ \E by \in Runners, nodes \in Drafts : StartRun(by, nodes)
  \/ \E by \in Runners \cup SystemManagers : Enqueue(by)
  \/ \E by \in Users : Execute(by) \/ ExecuteNothing(by)
  \/ Poll

Spec == Init /\ [][Next]_vars

-----------------------------------------------------------------------------
(* No two accounts are the default of one scope and provider, and none     *)
(* that is disabled.                                                       *)
Orderly(rows) ==
  /\ \A i, j \in DOMAIN rows :
       rows[i].is_default /\ rows[j].is_default /\ rows[i].provider = rows[j].provider
       /\ Scope(rows[i]) = Scope(rows[j]) => i = j
  /\ \A i \in DOMAIN rows : rows[i].is_default => rows[i].status = "ACTIVE"

(* The defaults get out of order only by a race: the change that does it   *)
(* read the accounts before another change of them.                        *)
DisorderIsARace ==
  [][Orderly(accounts) /\ ~Orderly(accounts')
       => \E t \in Slots : txn[t] # Idle /\ txn'[t] = Idle /\ txn[t].overtaken]_vars

(* A job's account belongs to the model's provider and is of the project   *)
(* and of the user it was created for, or of none: it was usable when the  *)
(* execution read it, and an account never changes its scope.              *)
JobAccountInScope ==
  run # NoRun => \A i \in DOMAIN run.jobs :
    LET a == run.jobs[i].account IN
    a # NoAccount =>
      /\ a \in DOMAIN accounts /\ accounts[a].provider = Models[run.nodes[i].model]
      /\ accounts[a].project \in {"none", Project}
      /\ accounts[a].user \in {"none", run.jobs[i].by}

(* While nobody changes accounts or models, a job created on behalf of the *)
(* user who started the run gets the account the preflight chose, its key, *)
(* and the price that was reserved; a job created on behalf of somebody    *)
(* else (the poller, a System Manager) at least the price.                 *)
JobsAsPreflighted ==
  run # NoRun /\ ~run.changed =>
    \A i \in DOMAIN run.jobs :
      /\ run.jobs[i].price = run.estimate[i]
      /\ run.jobs[i].by = run.by =>
           run.jobs[i].account = run.chosen[i] /\ run.jobs[i].key = run.chosen[i]
=============================================================================
