---------------------------- MODULE RunAdmission ----------------------------
(***************************************************************************)
(* The runs of one project, from start_run's admission to their end: which *)
(* starts are refused, reused or admitted, and what happens to the         *)
(* project's credits.  RunEngine shows how a run reaches its end and that  *)
(* its ledger rows follow CreditContract; here a run is what admission     *)
(* sees of it: active or ended, the credits it holds, the provider nodes   *)
(* it has left and whether one of them has a job at work.                  *)
(*                                                                         *)
(* start_run and the settlement of a job read the project's ledger and     *)
(* decide from what they read; each is two steps, a Begin that takes the   *)
(* snapshot of its database transaction and a second one that writes.  A   *)
(* ledger row is only ever inserted, so the ledger is kept as the sums the *)
(* code computes from it.                                                  *)
(***************************************************************************)
EXTENDS Integers, FiniteSets, Functions

CONSTANTS
  Runs,              \* bound: the runs that can be started
  Users,             \* the members who start and end runs
  Drafts,            \* the workflows of the project, unchanged in content
  Price,             \* Price[d]: the estimated cost of d's provider nodes
  Count,             \* Count[d]: how many provider nodes d has
  Actuals,           \* costs a provider may report for a job, 0: none
  TopUps,            \* amounts of top-ups
  FreeModels,        \* TRUE: a provider node may have the known price 0
  Budget,            \* slow_ai_run_preflight_max_cost_usd
  MaxActive,         \* AI Project.max_active_runs, 0: no limit
  MaxActivePerUser,  \* AI Project.max_active_runs_per_user, 0: no limit
  MaxJobs,           \* max_active_provider_jobs of the account, 0: no limit
  DailyCap,          \* AI Project.daily_project_spend_cap_usd, 0: no cap
  DailyUserCap,      \* AI Project.daily_user_spend_cap_usd, 0: no cap
  MaxCredit,         \* bound: the credits ever topped up
  MaxDays,           \* bound: the midnights that pass
  Slots              \* transactions that can be in flight at once

ASSUME AdmissionAssumption ==
  /\ Price \in [Drafts -> Nat] /\ Count \in [Drafts -> Nat]
  /\ \A d \in Drafts : /\ Price[d] > 0 => Count[d] > 0
                       /\ ~FreeModels => Count[d] <= Price[d]
  /\ Actuals \subseteq Nat /\ TopUps \subseteq Nat
  /\ FreeModels \in BOOLEAN
  /\ {Budget, MaxActive, MaxActivePerUser, MaxJobs} \subseteq Nat
  /\ {DailyCap, DailyUserCap, MaxCredit, MaxDays} \subseteq Nat
  /\ "Administrator" \notin Users

(* The scheduled poller writes its rows as the Administrator. *)
Actors == Users \cup {"Administrator"}

VARIABLES
  run,      \* what admission sees of each run
  latest,   \* the highest AI Workflow Version.version_no of each draft
  book,     \* the sums of the project's ledger rows, by type
  today,    \* the same, of the rows created today
  todayOf,  \* the same, of the rows created today by each user
  txn,      \* the transaction in each slot
  days      \* midnights passed

vars == <<run, latest, book, today, todayOf, txn, days>>

RowTypes == {"CREDIT", "RESERVE", "RELEASE", "DEBIT"}
Book == [RowTypes -> Nat]
Blank == [y \in RowTypes |-> 0]

NoRun == [status |-> "none"]
StartedRun == [status : {"active", "ended"},
               user : Users, draft : Drafts,
               no : Nat,          \* AI Workflow Version.version_no
               recent : BOOLEAN,  \* its version is at most 30 seconds old
               hold : Nat,        \* reserved and not released
               nodes : Nat,       \* provider nodes not yet settled
               job : BOOLEAN]     \* a provider job is active

Views == [run : [Runs -> StartedRun \cup {NoRun}], latest : [Drafts -> Nat],
          book : Book, today : Book, todayOf : [Users -> Book]]
View == [run |-> run, latest |-> latest,
         book |-> book, today |-> today, todayOf |-> todayOf]

Idle == [kind |-> "none"]
Starts == [kind : {"start"}, user : Users, draft : Drafts, view : Views]
Settlements == [kind : {"settle"}, by : Actors, run : Runs,
                part : Nat, cost : Nat, view : Views]

TypeOK ==
  /\ run \in [Runs -> StartedRun \cup {NoRun}]
  /\ latest \in [Drafts -> Nat]
  /\ book \in Book /\ today \in Book /\ todayOf \in [Users -> Book]
  /\ txn \in [Slots -> {Idle} \cup Starts \cup Settlements]
  /\ days \in Nat

Init ==
  /\ run = [r \in Runs |-> NoRun] /\ latest = [d \in Drafts |-> 0]
  /\ book = Blank /\ today = Blank /\ todayOf = [u \in Users |-> Blank]
  /\ txn = [t \in Slots |-> Idle]
  /\ days = 0

-----------------------------------------------------------------------------
(* The credit ledger. *)

Available(b) == b.CREDIT + b.RELEASE - b.DEBIT - b.RESERVE

Exposure(b) ==
  LET spent == b.DEBIT + b.RESERVE - b.RELEASE IN IF spent > 0 THEN spent ELSE 0

Row(type, amount) == [Blank EXCEPT ![type] = amount]

With(b, rows) == [y \in RowTypes |-> b[y] + rows[y]]

(* Rows inserted by an actor, today. *)
Post(actor, rows) ==
  /\ book' = With(book, rows)
  /\ today' = With(today, rows)
  /\ todayOf' = [u \in Users |-> IF u = actor THEN With(todayOf[u], rows)
                                 ELSE todayOf[u]]

-----------------------------------------------------------------------------
(* start_run. *)

Started(rs)   == {r \in Runs : rs[r] # NoRun}
Active(rs)    == {r \in Started(rs) : rs[r].status = "active"}
VersionsOf(rs, d) == {r \in Started(rs) : rs[r].draft = d}

(* A recent version of the unchanged draft with a run that is not over. *)
RecentRuns(rs, d) == {r \in VersionsOf(rs, d) \cap Active(rs) : rs[r].recent}

NextVersion(v, d) == v.latest[d] + 1

(* run_quota_policy. *)
ActiveOf(rs, users) == {r \in Active(rs) : rs[r].user \in users}

OneMoreAllowed(v, user) ==
  /\ MaxActive > 0 => Cardinality(ActiveOf(v.run, Users)) <= MaxActive
  /\ MaxActivePerUser > 0 => Cardinality(ActiveOf(v.run, {user})) <= MaxActivePerUser

ActiveRunsAllow(v, user) ==
  /\ MaxActive > 0 => Cardinality(ActiveOf(v.run, Users)) < MaxActive
  /\ MaxActivePerUser > 0 => Cardinality(ActiveOf(v.run, {user})) < MaxActivePerUser

JobsAllow(v, d) ==
  MaxJobs > 0 /\ Count[d] > 0 =>
    Cardinality({r \in Active(v.run) : v.run[r].job}) + Count[d] <= MaxJobs

CapsAllow(v, user, d) ==
  /\ DailyCap > 0 => Exposure(v.today) + Price[d] <= DailyCap
  /\ DailyUserCap > 0 => Exposure(v.todayOf[user]) + Price[d] <= DailyUserCap

(* run_preflight, whose checks are one conjunct each.  (The balance is     *)
(* checked again before each node's reservation, against what is left;     *)
(* that follows from the check of the total.)                              *)
CanStart(v, user, d) ==
  /\ Price[d] <= Budget
  /\ Price[d] > 0 => Price[d] <= Available(v.book) /\ CapsAllow(v, user, d)
  /\ ActiveRunsAllow(v, user) /\ JobsAllow(v, d)

StartBegin(t, user, d) ==
  /\ txn[t] = Idle
  /\ txn' = [txn EXCEPT ![t] = [kind |-> "start", user |-> user, draft |-> d, view |-> View]]
  /\ UNCHANGED <<run, latest, book, today, todayOf, days>>

Starting(t) == txn[t].kind = "start"
Close(t) == txn' = [txn EXCEPT ![t] = Idle]

(* The recent run is answered (and queued again: RunEngine!StartAgain). *)
StartReuse(t) ==
  /\ Starting(t)
  /\ RecentRuns(txn[t].view.run, txn[t].draft) # {}
  /\ Close(t) /\ UNCHANGED <<run, latest, book, today, todayOf, days>>

StartRefuse(t) ==
  /\ Starting(t)
  /\ RecentRuns(txn[t].view.run, txn[t].draft) = {}
  /\ ~CanStart(txn[t].view, txn[t].user, txn[t].draft)
  /\ Close(t) /\ UNCHANGED <<run, latest, book, today, todayOf, days>>

NeverTaken(rs, d, no) == FALSE

(* AI Workflow Version.snapshot_hash is unique, and it covers the workflow, *)
(* the version's number and its content.                                   *)
Taken(rs, d, no) == \E r \in VersionsOf(rs, d) : rs[r].no = no

(* The version, the run and the reservations are inserted; a version that  *)
(* exists by now makes the insert, and with it the start, fail.            *)
StartRun(t, r) ==
  LET user == txn[t].user  d == txn[t].draft
      no == NextVersion(txn[t].view, d)
  IN
  /\ Starting(t)
  /\ RecentRuns(txn[t].view.run, d) = {}
  /\ CanStart(txn[t].view, user, d)
  /\ ~Taken(run, d, no)
  /\ run[r] = NoRun
  /\ run' = [run EXCEPT ![r] =
               [status |-> "active", user |-> user, draft |-> d,
                no |-> no, recent |-> TRUE,
                hold |-> Price[d], nodes |-> Count[d], job |-> FALSE]]
  /\ latest' = [latest EXCEPT ![d] = IF no > @ THEN no ELSE @]
  /\ Post(user, Row("RESERVE", Price[d]))
  /\ Close(t) /\ UNCHANGED days

StartConflict(t) ==
  /\ Starting(t)
  /\ RecentRuns(txn[t].view.run, txn[t].draft) = {}
  /\ CanStart(txn[t].view, txn[t].user, txn[t].draft)
  /\ Taken(run, txn[t].draft, NextVersion(txn[t].view, txn[t].draft))
  /\ Close(t) /\ UNCHANGED <<run, latest, book, today, todayOf, days>>

(* The idempotency window closes. *)
WindowPasses(r) ==
  /\ r \in Active(run) /\ run[r].recent
  /\ run' = [run EXCEPT ![r] = [@ EXCEPT !.recent = FALSE]]
  /\ UNCHANGED <<latest, book, today, todayOf, txn, days>>

-----------------------------------------------------------------------------
(* What becomes of an admitted run. *)

(* The worker creates the job of the next provider node. *)
SubmitJob(r) ==
  /\ r \in Active(run) /\ run[r].nodes > 0 /\ ~run[r].job
  /\ run' = [run EXCEPT ![r] = [@ EXCEPT !.job = TRUE]]
  /\ UNCHANGED <<latest, book, today, todayOf, txn, days>>

(* What the node may have been reserved: all that is left on the last one, *)
(* and as much as leaves the others theirs.                                *)
Parts(r) ==
  LET least == IF FreeModels THEN 0 ELSE 1
      rest  == run[r].nodes - 1
  IN  {p \in least..run[r].hold :
         IF rest = 0 THEN p = run[r].hold ELSE p + least * rest <= run[r].hold}

(* The handlers of one run are RunEngine's subject: here they do not       *)
(* overlap one another.                                                    *)
Settling(r) == \E t \in Slots : txn[t].kind = "settle" /\ txn[t].run = r

(* resolve_provider_debit: the cost the provider reports, or the estimate. *)
SettleBegin(t, r, actor) ==
  /\ txn[t] = Idle
  /\ r \in Active(run) /\ run[r].job /\ ~Settling(r)
  /\ \E p \in Parts(r) : \E c \in (Actuals \ {0}) \cup {p} :
       txn' = [txn EXCEPT ![t] = [kind |-> "settle", by |-> actor, run |-> r,
                                  part |-> p, cost |-> c, view |-> View]]
  /\ UNCHANGED <<run, latest, book, today, todayOf, days>>

PayableAnyway(v, part, cost) == TRUE

(* assert_provider_debit_within_reserved_or_available. *)
Payable(v, part, cost) ==
  part > 0 => cost <= part \/ cost - part <= Available(v.book)

SettledAtCost(t) == Post(txn[t].by, [Row("DEBIT", txn[t].cost) EXCEPT !.RELEASE = txn[t].cost])

(* The DEBIT row, and the RELEASE of the whole reservation. *)
Settled(t) == Post(txn[t].by, [Row("DEBIT", txn[t].cost) EXCEPT !.RELEASE = txn[t].part])

HoldAfter(t) == run[txn[t].run].hold - txn[t].part

AfterJob(r, hold) == [r EXCEPT !.hold = hold, !.nodes = @ - 1, !.job = FALSE]

Settle(t) ==
  /\ txn[t].kind = "settle"
  /\ Payable(txn[t].view, txn[t].part, txn[t].cost)
  /\ run' = [run EXCEPT ![txn[t].run] = AfterJob(run[txn[t].run], HoldAfter(t))]
  /\ Settled(t)
  /\ Close(t) /\ UNCHANGED <<latest, days>>

(* The exception leaves no row: the poller will try again. *)
SettleRefuse(t) ==
  /\ txn[t].kind = "settle"
  /\ ~Payable(txn[t].view, txn[t].part, txn[t].cost)
  /\ Close(t) /\ UNCHANGED <<run, latest, book, today, todayOf, days>>

(* The run succeeds, fails, is cancelled or expires: what it still holds   *)
(* is released, by whoever ended it.                                       *)
EndRun(r, actor) ==
  /\ r \in Active(run) /\ ~Settling(r)
  /\ run' = [run EXCEPT ![r] = [@ EXCEPT !.status = "ended", !.hold = 0, !.job = FALSE]]
  /\ Post(actor, Row("RELEASE", run[r].hold))
  /\ UNCHANGED <<latest, txn, days>>

-----------------------------------------------------------------------------
TopUp(user, amount) ==
  /\ book.CREDIT + amount <= MaxCredit
  /\ Post(user, Row("CREDIT", amount))
  /\ UNCHANGED <<run, latest, txn, days>>

Midnight ==
  /\ days < MaxDays
  /\ days' = days + 1
  /\ today' = Blank /\ todayOf' = [u \in Users |-> Blank]
  /\ UNCHANGED <<run, latest, book, txn>>

Next ==
  \/ \E t \in Slots :
       \/ \E u \in Users, d \in Drafts : StartBegin(t, u, d)
       \/ StartReuse(t) \/ StartRefuse(t) \/ StartConflict(t)
       \/ \E r \in Runs : StartRun(t, r)
       \/ \E r \in Runs, a \in Actors : SettleBegin(t, r, a)
       \/ Settle(t) \/ SettleRefuse(t)
  \/ \E r \in Runs :
       \/ WindowPasses(r) \/ SubmitJob(r)
       \/ \E a \in Actors : EndRun(r, a)
  \/ \E u \in Users, a \in TopUps : TopUp(u, a)
  \/ Midnight

Spec == Init /\ [][Next]_vars

-----------------------------------------------------------------------------
Serial == \A t, u \in Slots : t = u

(* The project never owes: what has been spent and what is held are        *)
(* covered by its credits, whatever the provider reports a job cost.       *)
BalanceNeverNegative ==
  book.DEBIT + book.RESERVE <= book.CREDIT + book.RELEASE

(* Starts and settlements move the project's credits as ProjectAccount     *)
(* promises: none is reserved or spent that was not free, a settlement     *)
(* gives back what it replaces, and a run that is over holds nothing.      *)
Account == INSTANCE ProjectAccount WITH
  free  <- Available(book),
  spent <- book.DEBIT,
  held  <- [r \in Runs |-> IF r \in Active(run) THEN run[r].hold ELSE 0],
  stage <- [r \in Runs |-> IF run[r] = NoRun THEN "new" ELSE run[r].status]

HonoursAccount == Account!Spec

(* What the ledger shows as reserved is what the active runs hold.         *)
HoldsMatchLedger ==
  book.RESERVE - book.RELEASE = 
    SumFunctionOnSet([r \in Active(run) |-> run[r].hold], Active(run))

(* The limits on active runs are exceeded by overlapping starts only: each *)
(* start that is in flight beside another can add one run, however the     *)
(* starts and the ends of runs follow one another.                         *)
ActiveRunsWithinLimits ==
  LET beside == Cardinality(Slots) - 1
  IN  /\ MaxActive > 0 => Cardinality(ActiveOf(run, Users)) <= MaxActive + beside
      /\ MaxActivePerUser > 0 =>
           \A u \in Users : Cardinality(ActiveOf(run, {u})) <= MaxActivePerUser + beside

(* A draft submitted twice within the window has one active run, even when *)
(* the two start_run calls overlap.                                        *)
RecentRunIsReused ==
  \A d \in Drafts : \A r, s \in RecentRuns(run, d) : r = s
=============================================================================
