# A TLA+ model of Slow AI

Slow AI is a Frappe application: users draw a workflow of nodes, `start_run`
freezes it into a version and a run, workers execute the nodes, AI providers
(Replicate, WaveSpeed) do the expensive ones asynchronously, and a credit ledger
pays for it. Published workflow templates are reviewed by System Managers and
offered to other users as tools.

Almost everything hard in this code comes from one fact. The services, workers
and pollers are written as plain sequences of reads and writes, without a lock
and without a commit of their own; what happens when two of them overlap, when one raises
half-way, and when the provider's answer comes late, is decided by the
transactions around them. The modules here make those transactions explicit.

Paths below are relative to `slow_ai/`, the application's package.

## The system

### Components

| component | state it keeps | operations | modelled by |
|---|---|---|---|
| statuses and transition tables (`domain/status.py`, `engine/state_machine.py`) | none | which status may follow which | `RunStatuses` |
| executor and node runner (`engine/executor.py`, `node_runner.py`, `workers/run_workflow.py`, `resume_workflow.py`) | `AI Workflow Run`, `AI Node Run` | run the nodes in order until one waits, fails, or all are done | `RunEngine` |
| provider node, adapters, normalizers (`node_registry/nodes/provider.py`, `providers/`) | the job at the provider | submit, poll, read the answer | `RunEngine` |
| provider jobs (`infrastructure/provider_jobs.py`) | `AI Provider Job` | create by idempotency key, submit, apply an answer, count attempts, expire, cancel | `RunEngine` |
| materialization (`infrastructure/provider_outputs.py`) | `AI Asset`, DEBIT rows | write assets, charge, release | `RunEngine`, `RunAdmission` (amounts) |
| poller (`workers/poll_provider_job.py`) | – | poll jobs, settle nodes, expire, queue the run again | `RunEngine` |
| queue (`infrastructure/queue.py`) | jobs in Redis | enqueue after commit | `RunEngine` |
| cancellation and recovery (`application/public_tools.py: cancel_my_run`, `run_recovery.py`) | – | cancel, expire a stuck run, resume | `RunEngine` |
| credit ledger (`application/billing.py`) | `AI Credit Ledger`, append-only | top up, reserve, release, debit, balance | `CreditContract`, `ProjectAccount`, `RunEngine`, `RunAdmission` |
| `start_run`, preflight, quotas (`application/run_service.py`, `run_preflight.py`, `run_quota_policy.py`) | `AI Workflow Version`, `AI Workflow Run` | admit, reuse, refuse | `RunAdmission` |
| template review (`application/templates.py`) | `AI Workflow Template`, `... Version` | save, submit, approve, reject, archive, roll back, offer | `TemplateReview` |
| forms of tools (`application/template_inputs.py`, `template_lineage.py`) | `input_schema_json` of a template version | normalize a form, apply values, read them back | `ToolForm` |
| tool drafts, reruns, clean-up (`application/public_tools.py`, `workflows.py`) | `AI Workflow` | save, prepare from a version, prepare a rerun, edit values, delete stale drafts | `ToolDrafts` |
| run shares, run archive (`application/public_tools.py`, `run_outputs.py`) | `AI Tool Run Share`, `is_archived` | share, disable, archive | `ProjectSharing` |
| project membership (`application/project_access.py`) | `AI Project Member` | add, change role, disable | `ProjectSharing` |
| provider accounts and models (`application/provider_accounts.py`, `models.py`, `infrastructure/provider_accounts.py`, `providers/*/auth.py`) | `AI Provider Account`, `AI Model` | create, set default, disable; resolve for a node; price | `ProviderSetup` |
| graph validation and order (`domain/graph_validator.py`, `workflow_json.py`, `engine/dag.py`) | none | validate, find cycles, sort | `WorkflowGraph` |
| node registry, local nodes (`node_registry/`) | none | types, ports, required config, what a local node returns | `NodeTypes`, `WorkflowGraph` |
| workspace files, read APIs, realtime, API wrappers, pages | see `PROJECT.json` | one request each: no multi-step protocol | not modelled |

### How they interact

`start_run` writes version, run, node runs and reservations in one transaction
and queues a run job after its commit. A run job calls the executor, which calls
node after node; a provider node submits to the provider inside that
transaction, and its run stops at `WAITING_PROVIDER`. From then on the scheduled
poller owns the job: it asks the provider, materializes and charges a success,
fails the node otherwise, and queues the run again. Any of cancellation,
expiry by a System Manager, a second `start_run`, `resume_run` and a
hand-started poll may come in at any time. All of them communicate through
the database rows alone.

Before that a draft is made: from a template version's form and a user's values,
by hand on the canvas, or from an earlier run. Around it, members come and go,
accounts and models are administered, and the outputs of finished runs are
given away by links; none of these services waits for a run, and none is locked
against one.

### Which behaviours are hard

* two handlers of one run, each on the rows it read when it began;
* a handler that raises: the queue's worker rolls everything back, the batch
  poller swallows the exception and commits the half that was written;
* calls to the provider that no rollback takes back;
* run jobs delivered twice, late, or lost with their worker;
* an answer, the attempt limit and the time limit deciding one job's fate;
* money: the same reservation released by the settlement of its node, by the end of its
  run, by a failure; costs above the estimate; days that end in between;
* limits and balances that are checked on a snapshot;
* templates edited while they are reviewed, approved while they are archived;
* rows that are looked for and then inserted (members, links, defaults), or read,
  changed and saved whole (roles, archive marks);
* drafts edited while they are started, deleted while they are started;
* facts established at the preflight and established again, differently, by an
  execution: the account, its key, the price, the order, whether there is a cycle.

### What makes each component correct

* **engine** - an ended run stays ended and holds no credit; a node is charged
  once, and only for a job that succeeded; a succeeded run is complete; a job at
  work always has somebody waiting for it; a run does not wait for nothing.
* **credits of one run** - a reservation is held, charged or returned, never two
  of these, and nothing moves after the end (`CreditContract`).
* **admission** - nothing is reserved or spent that is not free, so the project
  never owes (`ProjectAccount`); the ledger's reserved sum is what active runs hold;
  the limits on active runs; an unchanged draft started twice in the window gives one run.
* **templates** - a published template offers one version; what is offered was
  reviewed; what is under review does not change; versions never change but to retire.
* **tool drafts** - a draft leaves its version only where the form lets it; a run
  can be repeated; values change only before the run; the clean-up takes nothing
  it saw in use.
* **project** - who was disabled stays so until added again; a member or a link is
  doubled only by a race; a link opens what was selected and nothing else.
* **provider setup** - a job's account is in scope; what the preflight checked and
  reserved is what the job gets.
* **graph** - exactly cyclic graphs are refused as such; the order respects the
  edges and depends on nothing but the graph; what was validated runs.

## Modules

| module | what it is |
|---|---|
| `RunStatuses` | the enums, terminal sets and the three transition tables |
| `RunEngine` | one run under every handler, at the level of database transactions |
| `CreditContract` | abstract: what the ledger promises about one run's credits |
| `RunAdmission` | the runs and the ledger of one project |
| `TemplateReview` | one template, its versions and the review services |
| `ToolForm` | the form of a tool: operators without state |
| `ToolDrafts` | the workflows of a project as the public tools use them, over `ToolForm` |
| `ProjectSharing` | members, links and archive marks of one project |
| `ProjectAccount` | abstract: what a project's credits are to its members: free, held for a run, or spent |
| `ProviderSetup` | accounts, models, and one run's way to its jobs' accounts, keys and prices |
| `NodeTypes` | the registry and the local nodes: operators without state |
| `WorkflowGraph` | one graph through validation, sort and execution, over `NodeTypes` |
| `RunEngineProofs`, `CreditContractProofs`, `RunAdmissionProofs`, `TemplateReviewProofs`, `ToolDraftsProofs`, `ProjectSharingProofs`, `ProviderSetupProofs`, `WorkflowGraphProofs` | theorems |
| `MC*` | constants for TLC |

`RunEngine` refines `CreditContract` (`HonoursCreditContract`, with
`ended`, `held` and `charged` read off the rows). `RunAdmission` sees of each
run what that contract leaves: active or ended, and what it holds. It refines
`ProjectAccount` in turn (`HonoursAccount`, with `free` what the rows leave
available, `spent` their DEBIT sum and `held` what an active run holds).
`WorkflowGraph` proves what `RunEngine` assumes of its graph: that the numbers of
the nodes respect the edges. `ToolDrafts` takes for granted which version is
offered (`TemplateReview`), `ProjectSharing` takes the engine's writes as any
status at any time (`RunEngine` has the reasons).

### Transactions

A handler is two steps wherever it decides on rows that another can change: a *Begin* that takes the snapshot,
and a second step in which the handler's writes, computed from the snapshot and
from the provider's answer, reach the rows. This follows from how the code
runs: no file of the application calls `commit`; Frappe commits when a request
or a queue job returns and rolls back when it raises; MariaDB gives repeatable
reads; `frappe.db.set_value` is an UPDATE that checks nothing.
A request that only inserts, or that changes nothing but one row it has read
under the modified check, is one step.
`Slots` is the number of transactions that can be in flight: with one, handlers
are serialised, with two they overlap.

Where the code does better than a blind UPDATE, the model does as well:
a unique key makes an insert fail (`Callable` for `idempotency_key`, `Taken` for
`snapshot_hash`); a row the transaction has itself written is read as it is now
(`record_poll_attempt` locks the job's row, so `Accepted` starts from `job`, not
from the snapshot); `Document.save` refuses, under a lock, a document modified
since it was read (`Latest` in `TemplateReview` and `ToolDrafts`, `Late` in `ProjectSharing`). Ledger rows have no unique key:
`Release` and `Charge` look for an earlier row in the snapshot only.

### RunEngine

| state | code |
|---|---|
| `run`, `node`, `output` | `status` of `AI Workflow Run` and `AI Node Run`; which port `output_json` holds |
| `job`, `ext`, `reply`, `tries` | `AI Provider Job`: `status`, whether it has an `external_job_id`, its `response_json`, `poll_attempts` |
| `released`, `debits`, `assets` | numbers of ledger and asset rows per node |
| `deliveries` | run jobs in the queue |
| `submits` | jobs that exist at the provider (no rollback touches them) |
| `txn`, `aborts` | the transactions in flight; those lost so far |

* **The worker**: `ExecBegin`, then one of `ExecFinish` (all nodes done),
  `ExecWait` (node *k* waits; every result that is not SUCCEEDED counts as
  waiting, as in `ProviderNodeBase.execute`), `ExecReject`, `ExecRaise`,
  `ExecUnusable` (node *k* cannot be run, its execution raises before or after
  the provider was called, the result cannot be used). In the last three the
  code marks node and run FAILED and raises again; `workers/run_workflow.py` does
  not catch it and the queue rolls the job's transaction back, so that these
  steps (`ExecFails`) leave the rows as they were and the external jobs behind.
  The repository's tests call the executor directly and look at the failure
  record it wrote before anything is rolled back: they see marks that no worker
  ever commits.
* **The poller**: `PollBegin`, then one action per way out of
  `poll_provider_job`: `PollPending`, `PollSucceed`, `PollUnusable`, `PollEnd`,
  `PollRaise`, `PollExpire`, `PollExhaust`, `PollStop`, `PollNothing`, and for a
  job that is terminal while its node still waits `PollRecover` and
  `PollUnrecoverable`. An exception of a row is swallowed by the batch, so the
  actions that raise keep what was written before. The batch is modelled one
  job at a time: a run has at most one active job.
* **Others**: `StopBegin` with `CancelMyRun` or `ExpireStuckRun`, `StartAgain`,
  `ResumeRun`, and `Abort` for a process that dies or loses a deadlock: rows
  roll back, the run job is gone, the external jobs it created stay.

The provider's answers are eleven kinds (`AllAnswers`), those that the handlers
treat differently. `lost` is an error body such as `{"detail": ..., "status":
422}`: neither code nor error in the normalizer's sense, hence read as
`WAITING_PROVIDER`, and with no external id.

### RunAdmission

`run` is what admission sees of each run; `book`, `today` and `todayOf` are the
sums of the ledger's rows, overall, created today, and created today by each
user: rows are only ever inserted and the code only ever sums them.
`StartBegin` is followed by `StartReuse`, `StartRefuse`, `StartRun` or
`StartConflict`; `SettleBegin` by `Settle` or `SettleRefuse`. How a run's
price splits over its nodes is chosen only when a node is settled (`Parts`).
Settlements and releases may be written by any member or by the Administrator
the poller runs as: the rows' owner matters to the per-user cap. The drafts'
contents and prices are fixed. ADJUSTMENT rows are
never written by the code and are left out. `ActiveRunsWithinLimits` speaks of
both limits on active runs: overlapping starts count before they insert, so each
start in flight beside another may add one run too many, and no more than that.

### TemplateReview

`tpl` is the template's row, `versions` its versions by name, `txn` the services
in flight with what they read. One action per service: `SaveDraft`,
`SubmitForReview`, `Approve`, `Reject`, `Archive`, `Rollback`; `Raise` is a
request that refuses, finds itself behind, or dies. Every service that writes saves the
template, so the modified check is one flag per transaction. Contents are
opaque, and `Publishable` is the set of them that passes validation for
publication. A template's public unavailability while IN_REVIEW or REJECTED is
as documented (`docs/TEMPLATE_PUBLISH_REVIEW_CONTRACT.md`).

### ToolForm and ToolDrafts

A JSON value is a type and a text; a config maps targets, the config fields of
the nodes, to values. `ToolForm` has the three passes of `template_inputs.py`:
`WellFormed`/`Schema` (what a template may be saved with), `Applicable`/`Applied`
(values into nodes, in the form's order, the asset's type written beside it) and
`Extracted` (values out of nodes), and the allow-list for templates without a
form. A blank value takes the default, so a field with a default cannot be blanked.

`workflows` are the `AI Workflow` rows, `older` the pairs of them of which the
first was modified before the second, `runs` what start_run froze. Actions are the services:
`SaveWorkflow`, `CreateWorkflowFromTemplate`, `PrepareWorkflowFromTemplate`,
`PrepareRerunFromRun`; with a begin, `UpdateRerunDraftValues`, `StartRun`,
`CleanupStaleToolDrafts`; and `Age`, hours that pass. What the model shows
beside its properties: a clean-up that overlaps a start deletes the workflow of
the run (its premise, that the draft had no run, was true when it looked; hence
`seen` in `CleanupSparesUsedDrafts`); a rerun reads the workflow as it is *now*,
not as it ran; without a form the values of the earlier run are dropped; the
clean-up's batch is the oldest drafts, kept ones included, so enough drafts with
runs in front keep it from reaching any other. `RunCanBeRepeated` therefore asks
that the draft is still what was run, that no two fields write one target
(`OneWriter`: the second overwrites what the first would read back), and that the
template's own values pass its form (`Conforming`: nothing checks them).

### ProjectSharing

`members` are the `AI Project Member` rows; `newest` is of each user's rows the
one modified last, which is the row `add_member` takes; `shares` the links;
`runs` status and archive mark. `AddBegin`, `RoleBegin`, `DisableBegin` are
followed by `AddMember` or `SaveMember`; `ShareBegin` by `CreateRunShare`;
`DisableShareBegin` by `DisableRunShare`; `ArchiveBegin` by `ArchiveMyRun`;
`EngineWrites` is the engine's `set_value` of a status. Expiry of a link is left
out: it decides what a guest may read. (A live row whose time is over is still
handed out again by `create_run_share`, since `Existing` looks at the status
only.) Two further differences to `docs/API_METHODS.md` can be read off the
operators: `Existing` compares lists, so the same assets in another order make a
second link, where line 950 speaks of the same set; and `MayManageShare` lets
whoever manages members disable a link, where the text of `disable_run_share`
names its owner and System Managers.

### ProviderSetup

`accounts` and `models` are the rows, `run` one run: what the preflight chose and
estimated, on whose behalf executions are queued, and the jobs made so far. An
execution creates the jobs of the next nodes until one has to be waited for.
`Resolve` is the lookup by provider, project and user, with a configured account
or the oldest default; `KeyOf` is `get_api_key` of the adapters, which falls
back to the provider's oldest default of any scope and then to the environment. Prices are
looked up again for the job and an unknown one is 0; `RequirePricing` is the
setting `slow_ai_run_preflight_require_known_pricing`, without which the
preflight accepts a model of unknown price at 0 as well. `changed` says that an
account or a model was written since the preflight: the properties about
what the preflight established are claimed while nothing was.

### WorkflowGraph

One graph goes through `Check` (parsing, and the validator's checks of the
parts), the recursive depth-first search as a stack of calls (`VisitRoot`,
`VisitTarget`, `VisitReturns`), the sort (`SortBegin`, `Seed`, `Pop`, `CountDown`,
`SortEnd`) and an execution whose providers deliver (`RunNode`, `RunEnd`). A
config value is one of the few kinds that validation and nodes tell apart;
node ids are numbers, so that sorting them is the code's, and 0 is an absent id.
The check of config keys against forbidden fragments and the shapes of JSON that
do not parse are left out, and so is Python's limit on recursion: `visit` calls
itself (`domain/graph_validator.py:116`), so a chain of about a thousand nodes
raises `RecursionError` instead of being accepted, a size at which nothing else
of the validator changes. What validation cannot see of a graph (`WrongPort`,
`BlankInput`) is stated by `OnlyKnownBreaks`: an upload whose asset has not the
type its edge is for, and a required input given only by a blank value.

## Runs

Deadlock is not checked: a run that has ended with an empty queue, a project
whose runs and credits are used up, a template whose version names are used
up, a project without room for more rows, and a graph that has been dealt with
really have nothing left to do.

| run | instance | shows |
|---|---|---|
| `engine_serial` | chain of provider, local, provider node, every answer, run jobs that raise, 1 crash, polls by hand | unique and deserved charges, no job without somebody waiting, succeeded runs complete, ended runs frozen, the credit contract; a job with an external id is settled, and a run that is not left alone ends |
| `engine_overlap` | 1 provider node, two handlers in flight | what survives stale snapshots: no credit held after the end, no unpaid asset |
| `admission_serial` | 3 starts by 2 users, serialised, providers that charge 2 for 1 | the account: nothing is reserved or spent that was not free; the limits on active runs, exactly |
| `admission_overlap` | 2 starts and settlements overlapping, one midnight | the ledger matches what runs hold; a recent run is reused |
| `template_review` | 2 services at once, 3 versions, 3 contents (1 not publishable), owner and manager | the template properties |
| `tool_drafts` | 2 drafts, 1 run, 2 requests at once, 4 forms: ranges, defaults, assets, two fields of one target, none | the properties of drafts, edits, reruns and clean-up |
| `project_sharing` | 2 membership rows, 2 links, 1 run, 2 requests at once | who has access, what is doubled only by a race, what links open |
| `provider_setup` | 2 accounts, 1 model with 1 change, 1 run of 2 nodes, 2 account changes at once | accounts in scope, the preflight's facts, disorder of defaults only by a race |
| `workflow_graph` | all graphs of two families: 3 nodes of types that can disagree under every 2 of 9 edges, 4 nodes under every 4 of 11 links | both searches agree and end, the order, what breaks a run |
| `find_ended_run_overwritten` | 1 provider node, two handlers in flight | expected violation of `EndedRunIsFrozen` |
| `find_external_job_unrecorded` | chain of 2 provider nodes, serialised, no crash | expected violation of `ExternalJobIsRecorded` |
| `find_failure_rolled_back` | 1 provider node, serialised, no crash, fair | expected violation of `FailedNodeEndsRun` |

The type invariants are not listed in the runs: they are proved for every
module (`TypeCorrect` in its proofs).

### Bounds

Nodes: three on a chain give a node after a waiting one and a local node
between two provider nodes; the executor stops at the first node that does not
succeed, so a longer graph adds prefixes of succeeded nodes and suffixes of
pending ones. `MaxAttempts = 2`: one poll that may be repeated and one that is the
last. `MaxDeliveries = 2` and `MaxSubmits = 2` saturate: "two" means two or more,
enough for a duplicate. `MaxAborts = 1` in `engine_serial`. Admission: three
runs exceed a limit of two, two users exceed a limit of one; credits (`MaxCredit`)
cover some but not all of what is started; one midnight separates a
reservation from its release. Templates: three versions give a retired, a
rolled-back and an ACTIVE one at once; two transactions are every pairwise race.
Drafts: two workflows are a run's draft and its rerun; a clean-up of one row
(`Limit = 1`) leaves one behind; contents of a version are chosen once from
the catalogue of forms. Members: two rows of one user can disagree, and two users
are the one who disables and the one who is disabled. `RequirePricing` is TRUE in the run, as it is by default; the theorems
cover both values. Accounts: two
defaults of one scope, or one default of another scope that `KeyOf` falls back to; two
nodes are one executed for the user and one for the poller. Graphs: three nodes
that may read each other have cycles of length 2 and 3 and, with the output,
diamonds and parallel edges; the other family has every check of the validator fail
and pass, and each kind of config value.
`SYMMETRY` is over slots only, which no property and no CHOOSE tells apart; the
runs with liveness use none.
The theorems hold without these bounds on nodes, users, runs, versions and slots.

### Fairness

`FairSpec` asks weak fairness of finishing a transaction that began (handlers
have no loop that waits), strong fairness of taking a queued job (the queue is
served, though workers are sometimes busy) and strong fairness of polling a
pollable job (`hooks.py` schedules the batch again and again, ordered by
the oldest poll, so a polled job goes to the back). The last one is an
assumption about the other runs: the batch takes 20 jobs and skips those without
an external id without moving them back, so 20 such jobs would stop all
polling. Nothing is asked of users, System Managers or
providers: nobody has to cancel, resume or answer favourably. A poll that
raises still counts as an attempt, which is why `ActiveJobResolves` holds
for a provider that never answers.

`RunEnds` has two premises, because fairness alone does not end a run.
`SomebodyWorks`: again and again a run job is queued, or a job that can be polled
is at the provider. A run whose only run job was lost, or whose job ended at its
submission, or has no external id, is left alone until somebody cancels,
expires or resumes it. `RaisingStops`: its executions do not keep raising. One that
raises is rolled back and tried again when the run is queued again, so a
provider that always refuses to be called leaves the run where it is. What is left to
`RunEnds` is that executions, polls, re-queued run jobs, attempts and timeouts
do not go round in circles.

`WorkflowGraph`'s `FairSpec` is weak fairness of `Next`: one call runs the
searches to their end and waits for nobody. The other modules state no
fairness: nothing in them is scheduled, the clean-up included.

## Where the code and its documents disagree

* `find_ended_run_overwritten` - with two handlers in flight a cancelled run comes back: the
  executor looks at the run's status once, when it begins.
  `docs/WORKER_DESIGN.md` says a terminal run remains terminal.
* `find_external_job_unrecorded` - a run job that raises after the provider
  was called is rolled back, and the external job has no `AI Provider Job` any
  more; the next execution inserts a new row and submits again. No crash is needed:
  `ReplicateAdapter.submit_job` handles `ReplicateHTTPError` and nothing else, so
  a time-out of the request whose acceptance got lost is such an exception.
  `docs/PROVIDER_CONTRACT.md:70` says "Create `AI Provider Job` before submitting an
  external job", and line 214 lists "External call without AI Provider Job" as
  forbidden. The row is inserted before the call, but it is not committed.
* `find_failure_rolled_back` - the executor records a failure and raises again;
  under the queue's worker the record is rolled back. In the run's trace a
  poll learns that the job has failed, fails the node and queues the run; the
  execution finds a terminal node, marks the run FAILED, raises, and is undone. No
  other handler would end the run by itself: it waits, with the reservations of its
  other nodes held, until somebody cancels or expires it.
  `docs/WORKER_DESIGN.md:82` says "Workers must persist structured errors", and
  `docs/RUN_STATE_MACHINE.md:90` has QUEUED -> RUNNING -> FAILED among the
  persisted transitions.

Met while modelling, without a run of their own; each is a limit of a property
that is checked:

* Overlapping handlers can insert a RELEASE or DEBIT row twice: each looks for
  an earlier row in its own snapshot. `docs/BILLING_COST_LEDGER.md:147-148` says at
  most one of each, lines 194-199 that repeated pollers, resumed workers,
  cancellations and expiries must not create duplicates, and
  `docs/WORKER_DESIGN.md:74-76` that the idempotency policy prevents them.
  `LedgerRowsUnique` and `HonoursCreditContract` are claimed for serialised
  handlers.
* A job whose submission was answered by an error body without a code has no external
  id: it is neither polled nor expired and waits for ever, although
  `docs/PROVIDER_CONTRACT.md` (timeout and retry policy) has
  polling bounded by attempts and a timeout. `ActiveJobResolves` is about jobs the
  provider has named.
* An execution that was rolled back submits again when the run is queued
  again, without a bound on the external jobs of one node; lines 167-170 of that
  document bound the rows of provider jobs and say that automatic retry is not
  enabled. `ExternalJobIsRecorded` is violated by the first of them.
* `expire_stuck_run` takes a QUEUED run to EXPIRED, which the transition table
  does not list, while `docs/RUN_STATE_MACHINE.md:82` says that transitions are
  validated before they are persisted.
* A job refused at submission is terminal at once, but node and run are set to
  wait for it and the scheduled poller does not select terminal jobs;
  `docs/RUN_STATE_MACHINE.md` promises a poll that continues the run. `RunEnds`
  has this case in its premise.
* A reservation of yesterday released today lowers today's exposure below
  today's debits; `docs/RUN_PREFLIGHT_POLICY.md` counts settled jobs as final
  spend. Nothing is claimed of the exposure.
* A node reserved at 0 is debited whatever the balance;
  `docs/BILLING_COST_LEDGER.md` allows only what fits it. `HonoursAccount`,
  and with it `BalanceNeverNegative`, is claimed without free models.
* Rollback publishes an archived template; `docs/TEMPLATE_PUBLISH_REVIEW_CONTRACT.md`
  lists rollback from PUBLISHED only. `StatusTellsOffer` speaks of templates
  that are archived now.
* Overlapping starts of different drafts can exceed the balance and the limits on
  active runs: each compares with what its snapshot shows.
  `docs/BILLING_COST_LEDGER.md:78-80` and `docs/RUN_PREFLIGHT_POLICY.md:56-61` list both
  as reasons for refusal and say nothing of starts that overlap. `HonoursAccount` is
  claimed for serialised transactions only, and `ActiveRunsWithinLimits` allows for
  the starts in flight.
* An execution looks the account of a later node up for the user it runs as:
  queued by `start_run` that is the user who started the run, queued by the poller
  or by a System Manager's `resume_run` somebody else, who may get another default
  account, or none. If there is none, the adapters take the provider's oldest ACTIVE
  default of any scope and then the environment's key.
  `docs/PROVIDER_CONTRACT.md:238-244` lists what preflight and job creation each
  enforce of the account; that both choose the same one it does not say. `JobsAsPreflighted` speaks of jobs
  created for the user who started the run, `JobAccountInScope` of every job.

## Proofs

All proofs are checked by TLAPS from the modules' own ASSUMEs
(`EngineAssumption`, `AdmissionAssumption`, `ReviewAssumption`, `FormAssumption`,
`DraftsAssumption`, `SharingAssumption`, `SetupAssumption`, `GraphsAssumption`), for
every value of the constants.

**RunEngineProofs.** The key lemma `StepSettles` says what any step of any
handler can do to the ledger: nothing, or release the reservations R, charge D
and write assets E as one of few patterns (`Settles`). It is proved once per
handler (`ExecuteSettles`, `PollSettles`, `StopSettles`); the theorems never look
at a handler again.

* `TypeCorrect`: `TypeOK` is inductive; in particular nodes never receive a
  job's status, and no handler leaves the enums.
* `CreditSafety` (`TerminalRunHoldsNoCredit`) and `NoAssetUnpaid`
  (`AssetsArePaidFor`), with any number of overlapping handlers. The strengthening is `SnapshotsAreOld`: ledger
  rows are only added, so a row that a snapshot shows is still there, and
  whoever skips an insertion because of it is right to.
* `SerialLedger`, `SerialFrozen`, `SerialContract`: with serialised handlers
  (`Serial`), rows are unique, ended runs frozen and the contract is implemented.
  The strengthening `SerialInv` adds that the snapshot in flight is the current
  state and was taken on an active run (polls excepted, which look themselves), and
  `ReleasedForCause`: while a run is active a reservation is only gone if its
  node was charged or has failed, so a later charge is never of a released one.
* `SerialCharges` (`ChargedForSuccess`) and `SerialComplete`
  (`SucceededRunIsComplete`), with serialised handlers. Again no
  handler is looked at twice: `Advances` says what any step does to jobs and nodes
  next to what it charges, and `SuccessIsPaid` follows from it (a node and its job
  succeed in the step that charges them, and do not change after).
* `SerialAwaited` (`ActiveJobIsAwaited`), with serialised handlers: `WaitInv` says
  that nodes are executed in turn, so that one job is at work and the run waits
  for that one. It rests on `FailsLeaveRows`, that an execution which raises leaves the
  rows alone.

**CreditContractProofs**: `OnePlace`, the contract's own invariant; with
`SerialContract` it holds of the engine.

**RunAdmissionProofs.**

* `TypeCorrect` needs that a settlement in flight still fits its run
  (`SettlementsFit`, `OneSettlementPerRun`): `hold` is a natural number only
  because nobody else takes that node's part.
* `OneRecentRun` (any number of overlapping starts): a start in flight either saw
  every version of its draft, or the number it computed has been taken
  (`NumbersDecide`); runs only age (`ViewsAge`). So a start that
  succeeds knew of every recent run, and there was none.
* `BalanceSafe` assumes `Serial` and `~FreeModels`: a transaction's view of the
  available credits is a lower bound while it is alone (`CreditsStillThere`).
  Both assumptions are needed, the second because a settlement reserved at 0 is
  not held against the balance.
* `HoldsInLedger` (`HoldsMatchLedger`), with any number of overlapping starts,
  settlements and ends. The sum over the active runs is a fold of the community
  modules; since no theorem about folds can be instantiated here, what it needs of
  sums (their type, and what one element contributes) is proved first: `SumsOn` is
  the fold as a recursive function on the subsets of a finite set, and a set that
  a fact about sums fails of would have a smallest one (`SmallestSet`). A step then
  changes the part of one run (`OthersHold`), and posts rows that differ by the same.
  `HoldInv` adds that a settlement in flight is of a run that is still active,
  and that the active runs are finitely many, though `Runs` may not be.
* `OverlapWithinLimits` (`ActiveRunsWithinLimits`), for any number of slots. The
  bound alone is not inductive: `Within` adds to the active runs the starts in
  flight whose snapshot lets them through (`Pending`). While the limit is
  reached no start that begins is one of them; a start that goes through is a run
  more and a pending start less; and the step that reaches the limit leaves at
  most the other slots pending. The end of a run makes room and never brings
  a start back that was counted out.
* `SerialAccount` (`HonoursAccount`): every step of serialised transactions is one
  of `ProjectAccount` or a stutter, from `BalanceInv` (what a transaction read of the
  balance is still there) and `HoldInv` (what an ended run gives back is what the
  ledger shows of it), with a lemma for each action (`AdmitStep`, `SettleStep`, `EndStep`,
  `TopUpStep`). It needs the assumptions of `BalanceSafe`.

**TemplateReviewProofs**: `TypeCorrect`, `OfferAsStatus` (a PUBLISHED template
offers the one version it names, an ARCHIVED one none) and `NumbersInOrder`, with any number of overlapping services. `ReviewInv` adds `SnapshotsHold`
(a transaction that is not behind sees the rows as they are: the optimistic
lock), `OneActive` (never two ACTIVE versions, in any status) and `HasLatest`
(the numbers have a highest one, without assuming the names finite). From the
same invariant follow the action properties: `VersionsOnlyRetired`,
`ReviewOfOneContent` and `OfferReviewed`, each step by step over `Next`.

**ToolDraftsProofs**, for every form and any number of overlapping requests.
`FormFollowed` (`DraftFollowsForm`) rests on the passes of `ToolForm`: a value that
a field accepts is converted to one that it accepts again and converts to itself
(`AcceptedTwice`), so after any number of preparations, updates and reruns a target
either has its version's value or one its field let in (`AppliedTo`, `Allowed`), and
required fields are not blank (`Complete`). `NoUpdateAfterARun` and `CleanupsSpare`
need what requests in flight rely on (`Sound`): an update that is not behind still
has a draft without a run, because a start saves the draft's row; what a
clean-up is about to delete is still a stale tool draft, or gone. `TypeCorrect`
includes that `older` is one order of the rows there are. `RunsRepeat`
(`RunCanBeRepeated`) is about reading a form back: what a filled config holds at a
field is the template's value, or one the field accepts unchanged, and blank only
where there is no default (`Regular`, `Defaulted`), so extracting and applying it
again writes the same values (`Restored`); this is kept as long as the template's
own values pass its form and no field writes another's target (`Repeatable`). A run
and its draft stay of one version (`Origin`).

**ProjectSharingProofs**, for any number of overlapping requests: `LinksShow`,
`OnlyRacesDouble`, `DisabledStays`, `NobodyReinstatesOneself`, `ArchiveIsOfTheEnd` and
`TypeCorrect`. The invariant is again about one request in flight (`Sound`): the row
it will save is as it read it, because whoever writes that row makes it late; rows
and links it has seen are still there, with the user and the selection it saw; an
own change of one's membership began on an ACTIVE row, or there are two rows.
`Linked` adds that every link was selectable, from which `LinksShow` follows because
both ways to look for a run's assets find what is selectable.

**ProviderSetupProofs**, for every price, role and overlap: `TypeCorrect`,
`JobsInScope`, `PreflightHolds` and `OnlyRacesDisorder`. Accounts are never removed and
keep provider and scope, so a job's account stays in scope (`Fits`); whoever writes
accounts or models sets `changed`, so an unmarked run resolves and prices as at its
start (`AsPreflighted`); a change of the default that was not overtaken knows all
other defaults of its scope (`SoundChange`).

**WorkflowGraphProofs**, for every graph: `RefusalIsRight`, because the open calls
are a path of edges, so an edge back into it closes a cycle; `SearchesAgree` and
`OrderIsRight`, because the visited nodes are closed under edges and come without
a cycle, and because a count is always the number of edges not yet counted down: if the
sort stopped early, the nodes left over would each have an edge from another,
which is a cycle the first search had excluded. `TypeCorrect` adds that no count falls
below zero and that nodes leave values at ports the registry knows. `OrderIsCanonical`
(`CanonicalOrder`) rests on `RisingInv`: the order followed by the deque rises by the
place of each node's last upstream node, then by id, and what the edges at hand will
still append comes behind both. `BreaksAreKnown` (`OnlyKnownBreaks`) rests on
`RanInOrder`: the nodes that ran are the first of the order and left at each port what
their type and config say, so an edge's source has run when it is read.
`StepsUseWorkUp` is what can be proved of `EveryGraphEnds`: `Work` is the set of what is
left to do (stages ahead, visits to begin and to return from, edges to follow, nodes
to queue and to order, edges to count down, nodes to run); it is finite and every
step takes from it, cyclic graphs included, so no behaviour has infinitely many
steps. That one can be taken until an end is reached is about ENABLED and stays with TLC.

Only model-checked: liveness (`ActiveJobResolves`, `RunEnds`,
`EveryGraphEnds`), which rests on fairness and ENABLED and is out of the prover's
reach.

## Plan

Done, in order of importance: `RunEngine` with `CreditContract`, `RunAdmission`,
`TemplateReview`, `ToolDrafts`, `ProjectSharing`, `ProviderSetup`,
`WorkflowGraph`. Next:

1. `PollBatch` - the batch of the poller over many jobs: its order, its limit,
   and the jobs that are skipped and stay in front.
2. The safety half of the engine's liveness, as for graphs: what a run whose
   handlers do not overlap can still do, and that polls use it up.

## Not modelled

The contents of nodes, prompts, payloads and files; who may see what in the read
APIs; the user interface. Models and accounts that are edited around a run are in
`ProviderSetup`; `RunAdmission` takes prices as constants. Permission
checks appear as requests that are refused. Each part and the reason are in
`PROJECT.json`.

## Running

    tlc -config RunEngineSerial.cfg MCRunEngine
    tlapm RunEngineProofs.tla
