------------------------- MODULE ProviderSetupProofs -------------------------
(***************************************************************************)
(* What holds of ProviderSetup for every number of accounts, models, nodes *)
(* and overlapping requests.  Three facts carry it: rows are added but     *)
(* never removed, and keep their provider and scope (so what was usable    *)
(* for a job stays in its scope); whoever writes accounts or models marks  *)
(* the run as changed (so an unmarked run still resolves as it did at its  *)
(* start); and whoever writes accounts marks the changes of defaults in    *)
(* flight as overtaken (so an unmarked one still knows all defaults).      *)
(***************************************************************************)
EXTENDS ProviderSetup, SequenceTheorems, WellFoundedInduction, TLAPS

(* OtherDefaults and Resolve of given rows. *)
OthersIn(rows, account, self) ==
  {i \in DOMAIN rows \ {self} :
     /\ rows[i].provider = account.provider /\ rows[i].is_default
     /\ Scope(rows[i]) = Scope(account)}

UsableIn(rows, provider, user) ==
  {a \in DOMAIN rows : /\ rows[a].provider = provider /\ rows[a].status = "ACTIVE"
                       /\ Matches(rows[a], user)}

ResolveIn(rows, node, user) ==
  IF node.account # NoAccount THEN {node.account} \cap UsableIn(rows, Models[node.model], user)
  ELSE {Oldest({a \in UsableIn(rows, Models[node.model], user) : rows[a].is_default})}

(* A change of the default that was not overtaken knows the other defaults.*)
SoundChange(x, rows) ==
  /\ x.service = "set_default" =>
       /\ x.account \in DOMAIN rows
       /\ ~x.overtaken =>
            /\ rows[x.account].status = "ACTIVE"
            /\ x.others = OthersIn(rows, rows[x.account], x.account)
  /\ x.service = "create_account" =>
       /\ x.row.status = "ACTIVE"
       /\ ~x.overtaken => x.others = OthersIn(rows, x.row, 0)

(* A run to which nothing was changed resolves as at its start. *)
AsPreflighted(r, rows, priced) ==
  ~r.changed =>
    /\ DOMAIN r.chosen = DOMAIN r.nodes /\ DOMAIN r.estimate = DOMAIN r.nodes
    /\ \A i \in DOMAIN r.nodes :
         /\ r.chosen[i] # NoAccount /\ r.chosen[i] \in ResolveIn(rows, r.nodes[i], r.by)
         /\ r.estimate[i] = AmountOf(priced[r.nodes[i].model].pricing)
    /\ \A i \in DOMAIN r.jobs :
         /\ r.jobs[i].price = r.estimate[i]
         /\ r.jobs[i].by = r.by =>
              r.jobs[i].account = r.chosen[i] /\ r.jobs[i].key = r.chosen[i]

(* A job's account is of its scope. *)
Fits(job, node, rows) ==
  job.account # NoAccount =>
    /\ job.account \in DOMAIN rows /\ rows[job.account].provider = Models[node.model]
    /\ rows[job.account].project \in {"none", Project}
    /\ rows[job.account].user \in {"none", job.by}

RunSound(r, rows, priced) ==
  r # NoRun =>
    /\ Len(r.jobs) <= Len(r.nodes) /\ AsPreflighted(r, rows, priced)
    /\ \A i \in DOMAIN r.jobs : Fits(r.jobs[i], r.nodes[i], rows)

SetupInv ==
  /\ TypeOK
  /\ \A t \in Slots : SoundChange(txn[t], accounts)
  /\ RunSound(run, accounts, models)

LEMMA Views ==
  /\ \A account, self : OtherDefaults(account, self) = OthersIn(accounts, account, self)
  /\ \A node, user : Resolve(node, user) = ResolveIn(accounts, node, user)
BY DEF OtherDefaults, OthersIn, Resolve, ResolveIn, Usable, UsableIn

-----------------------------------------------------------------------------
(* The empty values are none of the typed ones. *)
LEMMA Nothing ==
  /\ NoRun \notin Run /\ Idle \notin Txn /\ \A rows : SoundChange(Idle, rows)
<1>1. NoRun \notin Run
  BY SetupAssumption DEF NoRun, Run
<1>2. Idle.service = "none" /\ \A x \in Txn : x.service # "none"
  BY DEF Idle, Txn
<1> QED BY <1>1, <1>2 DEF SoundChange

LEMMA TxnTyped ==
  ASSUME NEW x \in Txn \cup {Idle}
  PROVE  /\ x.service = "create_account" => x \in Txn /\ x.row \in Account
         /\ x.service = "set_default" => x \in Txn /\ x.account \in 1..MaxAccounts
BY DEF Txn, Idle

(* A set of numbers has a least one. *)
LEMMA Least ==
  ASSUME NEW T \in SUBSET Nat, T # {}
  PROVE  \E x \in T : \A y \in T : x <= y
<1>1. PICK x \in T : \A y \in T : ~ (<<y, x>> \in OpToRel(<, Nat))
  BY NatLessThanWellFounded, WFMin
<1>2. \A y \in T : ~ (y < x)
  BY <1>1 DEF OpToRel
<1> QED BY <1>2

LEMMA OldestOf ==
  ASSUME NEW T \in SUBSET (Nat \ {0})
  PROVE  Oldest(T) \in T \cup {NoAccount} /\ (T # {} => Oldest(T) # NoAccount)
<1>1. CASE T = {}
  BY <1>1 DEF Oldest
<1>2. CASE T # {}
  <2>1. PICK x \in T : \A y \in T : x <= y
    BY <1>2, Least
  <2>2. Oldest(T) \in T
    BY <1>2, <2>1 DEF Oldest
  <2> QED BY <2>2 DEF NoAccount
<1> QED BY <1>1, <1>2

(* The first price that is known, if any. *)
LEMMA PriceTyped ==
  ASSUME NEW pricing \in Pricings
  PROVE  PriceOf(pricing) \in Nat \cup {Unknown}
<1> DEFINE known == {i \in DOMAIN PriceKeys :
                       PriceKeys[i] \in DOMAIN pricing /\ pricing[PriceKeys[i]] >= 0}
<1>1. DOMAIN PriceKeys = 1..4
  BY DEF PriceKeys
<1>2. CASE known = {}
  BY <1>2 DEF PriceOf
<1>3. CASE known # {}
  <2>1. known \subseteq Nat
    BY <1>1
  <2>2. PICK x \in known : \A y \in known : x <= y
    BY <2>1, <1>3, Least
  <2> DEFINE i == CHOOSE i \in known : \A j \in known : i <= j
  <2>3. i \in known
    BY <2>2
  <2>4. PriceOf(pricing) = pricing[PriceKeys[i]]
    BY <1>3 DEF PriceOf
  <2>5. pricing[PriceKeys[i]] \in Int /\ pricing[PriceKeys[i]] >= 0
    BY <2>3, SetupAssumption
  <2> QED BY <2>4, <2>5
<1> QED BY <1>2, <1>3

LEMMA AmountTyped == ASSUME NEW pricing \in Pricings PROVE AmountOf(pricing) \in Nat
  BY PriceTyped DEF AmountOf, Unknown

LEMMA SeqOf ==
  ASSUME NEW n \in Nat, NEW S, NEW f \in [1..n -> S]
  PROVE  f \in Seq(S)
BY SeqDef

(* What a node resolves to, and with which key it is submitted. *)
LEMMA Resolved ==
  ASSUME TypeOK, NEW node \in [model : DOMAIN Models, account : Nat], NEW user \in Users
  PROVE  /\ Resolve(node, user) \subseteq Choice
         /\ \A a, b \in Resolve(node, user) : a = b
         /\ \A a \in Resolve(node, user) : a # NoAccount => a \in Usable(Models[node.model], user)
<1> DEFINE usable == Usable(Models[node.model], user)
<1>1. DOMAIN accounts = 1..Len(accounts) /\ Len(accounts) \in Nat /\ Len(accounts) <= MaxAccounts
  BY DEF TypeOK
<1>2. usable \subseteq 1..Len(accounts)
  BY <1>1 DEF Usable
<1>3. CASE node.account # NoAccount
  <2>1. Resolve(node, user) = {node.account} \cap usable
    BY <1>3 DEF Resolve
  <2> QED BY <2>1, <1>1, <1>2, SetupAssumption DEF Choice
<1>4. CASE node.account = NoAccount
  <2> DEFINE defaults == {a \in usable : accounts[a].is_default}
  <2>1. Resolve(node, user) = {Oldest(defaults)}
    BY <1>4 DEF Resolve
  <2>2. defaults \in SUBSET (Nat \ {0})
    BY <1>2
  <2>3. Oldest(defaults) \in defaults \cup {NoAccount}
    BY <2>2, OldestOf
  <2>4. Oldest(defaults) \in usable \cup {NoAccount}
    BY <2>3
  <2> HIDE DEF defaults
  <2> QED BY <2>1, <2>4, <1>1, <1>2, SetupAssumption DEF Choice, NoAccount
<1> QED BY <1>3, <1>4

LEMMA JobTyped ==
  ASSUME TypeOK, NEW node \in [model : DOMAIN Models, account : Nat], NEW by \in Users,
         NEW a \in Choice
  PROVE  /\ NewJob(by, node, a) \in Job
         /\ NewJob(by, node, a).by = by /\ NewJob(by, node, a).account = a
         /\ NewJob(by, node, a).price = JobPrice(node)
         /\ a # NoAccount => NewJob(by, node, a).key = a
<1>1. DOMAIN accounts = 1..Len(accounts) /\ Len(accounts) \in Nat /\ Len(accounts) <= MaxAccounts
  BY DEF TypeOK
<1>2. models[node.model].pricing \in Pricings
  BY DEF TypeOK, Model
<1>3. JobPrice(node) \in Nat
  BY <1>2, AmountTyped DEF JobPrice
<1>4. KeyOf(node, a) \in Choice \cup {Environment}
  <2> DEFINE T == {x \in DOMAIN accounts :
                     /\ accounts[x].provider = Models[node.model]
                     /\ accounts[x].status = "ACTIVE" /\ accounts[x].is_default}
  <2>1. T \in SUBSET (Nat \ {0}) /\ T \subseteq 1..Len(accounts)
    BY <1>1
  <2>2. KeyOf(node, a) = IF a # NoAccount THEN a
                         ELSE IF Oldest(T) # NoAccount THEN Oldest(T) ELSE Environment
    BY DEF KeyOf
  <2> HIDE DEF T
  <2>3. Oldest(T) \in T \cup {NoAccount}
    BY <2>1, OldestOf
  <2> QED BY <1>1, <2>1, <2>2, <2>3, SetupAssumption DEF Choice, NoAccount
<1>5. a # NoAccount => KeyOf(node, a) = a
  BY DEF KeyOf
<1> QED BY <1>3, <1>4, <1>5 DEF NewJob, Job

-----------------------------------------------------------------------------
(* Requests begin and die. *)
LEMMA BeginKeeps ==
  ASSUME SetupInv, NEW t \in Slots, NEW read \in Txn, SoundChange(read, accounts), Begin(t, read)
  PROVE  SetupInv'
<1>1. txn' \in [Slots -> Txn \cup {Idle}]
  BY DEF SetupInv, TypeOK, Begin
<1>2. TypeOK'
  BY <1>1 DEF SetupInv, TypeOK, Begin
<1>3. \A s \in Slots : SoundChange(txn'[s], accounts)
  BY DEF SetupInv, TypeOK, Begin
<1> QED BY <1>2, <1>3 DEF SetupInv, Begin

LEMMA RaiseKeeps ==
  ASSUME SetupInv, NEW t \in Slots, Raise(t)
  PROVE  SetupInv'
<1>1. txn' \in [Slots -> Txn \cup {Idle}]
  BY DEF SetupInv, TypeOK, Raise
<1>2. TypeOK'
  BY <1>1 DEF SetupInv, TypeOK, Raise
<1>3. \A s \in Slots : SoundChange(txn'[s], accounts)
  BY Nothing DEF SetupInv, TypeOK, Raise
<1> QED BY <1>2, <1>3 DEF SetupInv, Raise

LEMMA NewAccountTyped ==
  ASSUME NEW by \in Users, NEW provider \in Providers, NEW scope \in Scopes,
         NEW granted \in Granted(by, scope), NEW is_default \in BOOLEAN
  PROVE  /\ NewAccount(provider, granted, is_default) \in Account
         /\ NewAccount(provider, granted, is_default).is_default = is_default
         /\ NewAccount(provider, granted, is_default).status = "ACTIVE"
<1>1. granted \in {Project, "other", "none"} \X (Users \cup {"none"})
  BY SetupAssumption DEF Granted
<1> QED BY <1>1 DEF NewAccount, Account

LEMMA CreateBegins ==
  ASSUME SetupInv, NEW t \in Slots, NEW by \in Users, NEW provider \in Providers,
         NEW scope \in Scopes, CreateBegin(t, by, provider, scope)
  PROVE  SetupInv'
<1>1. PICK granted \in Granted(by, scope) :
        Begin(t, [service |-> "create_account", row |-> NewAccount(provider, granted, TRUE),
                  overtaken |-> FALSE,
                  others |-> OtherDefaults(NewAccount(provider, granted, TRUE), 0)])
  BY DEF CreateBegin
<1> DEFINE row == NewAccount(provider, granted, TRUE)
           read == [service |-> "create_account", row |-> row, overtaken |-> FALSE,
                    others |-> OtherDefaults(row, 0)]
<1>2. row \in Account /\ row.status = "ACTIVE"
  BY NewAccountTyped
<1> HIDE DEF row
<1>3. DOMAIN accounts \subseteq 1..MaxAccounts
  BY SetupAssumption DEF SetupInv, TypeOK
<1>4. OtherDefaults(row, 0) \subseteq 1..MaxAccounts
  BY <1>3 DEF OtherDefaults
<1>5. read \in Txn
  BY <1>2, <1>4 DEF Txn
<1>6. SoundChange(read, accounts)
  BY <1>2, Views DEF SoundChange
<1> QED BY <1>1, <1>5, <1>6, BeginKeeps DEF row

LEMMA SetDefaultBegins ==
  ASSUME SetupInv, NEW t \in Slots, NEW by \in Users, NEW a \in DOMAIN accounts,
         SetDefaultBegin(t, by, a)
  PROVE  SetupInv'
<1> DEFINE read == [service |-> "set_default", account |-> a, overtaken |-> FALSE,
                    others |-> OtherDefaults(accounts[a], a)]
<1>1. Begin(t, read) /\ accounts[a].status = "ACTIVE"
  BY DEF SetDefaultBegin
<1>2. DOMAIN accounts \subseteq 1..MaxAccounts
  BY SetupAssumption DEF SetupInv, TypeOK
<1>3. OtherDefaults(accounts[a], a) \subseteq 1..MaxAccounts
  BY <1>2 DEF OtherDefaults
<1>4. read \in Txn
  BY <1>2, <1>3 DEF Txn
<1>5. SoundChange(read, accounts)
  BY <1>1, Views DEF SoundChange
<1> QED BY <1>1, <1>4, <1>5, BeginKeeps

-----------------------------------------------------------------------------
(* Accounts are written: rows are added or keep provider and scope, the    *)
(* run is marked, and the requests in flight are overtaken.                *)
LEMMA RunMarked ==
  ASSUME TypeOK, run' = Changed
  PROVE  /\ run' \in Run \cup {NoRun} /\ (run' = NoRun <=> run = NoRun)
         /\ run # NoRun => /\ run'.changed
                           /\ run'.jobs = run.jobs /\ run'.nodes = run.nodes
BY Nothing DEF TypeOK, Changed, Run

LEMMA AccountsWritten ==
  ASSUME SetupInv, accounts' \in Seq(Account), Len(accounts') <= MaxAccounts,
         DOMAIN accounts \subseteq DOMAIN accounts',
         \A i \in DOMAIN accounts :
           /\ accounts'[i].provider = accounts[i].provider
           /\ Scope(accounts'[i]) = Scope(accounts[i]),
         txn' \in [Slots -> Txn \cup {Idle}],
         \A s \in Slots : \/ txn'[s] = Idle
                          \/ txn[s] # Idle /\ txn'[s] = [txn[s] EXCEPT !.overtaken = TRUE],
         models' = models, run' = Changed
  PROVE  SetupInv'
<1>1. TypeOK'
  BY RunMarked DEF SetupInv, TypeOK
<1>2. ASSUME NEW s \in Slots PROVE SoundChange(txn'[s], accounts')
  <2>1. CASE txn'[s] = Idle
    BY <2>1, Nothing
  <2>2. CASE txn[s] # Idle /\ txn'[s] = [txn[s] EXCEPT !.overtaken = TRUE]
    <3>1. txn[s] \in Txn /\ SoundChange(txn[s], accounts)
      BY <2>2 DEF SetupInv, TypeOK
    <3>2. /\ txn'[s].service = txn[s].service /\ txn'[s].overtaken
          /\ txn[s].service = "set_default" => txn'[s].account = txn[s].account
          /\ txn[s].service = "create_account" => txn'[s].row = txn[s].row
      BY <2>2, <3>1 DEF Txn
    <3> QED BY <3>1, <3>2 DEF SoundChange
  <2> QED BY <2>1, <2>2
<1>3. RunSound(run', accounts', models')
  <2> SUFFICES ASSUME run' # NoRun PROVE RunSound(run', accounts', models')
    BY DEF RunSound
  <2>1. /\ run # NoRun /\ run'.changed /\ run'.jobs = run.jobs /\ run'.nodes = run.nodes
        /\ RunSound(run, accounts, models)
    BY RunMarked DEF SetupInv
  <2>2. AsPreflighted(run', accounts', models')
    BY <2>1 DEF AsPreflighted
  <2>3. \A i \in DOMAIN run.jobs : Fits(run.jobs[i], run.nodes[i], accounts')
    BY <2>1 DEF RunSound, Fits, Scope
  <2> QED BY <2>1, <2>2, <2>3 DEF RunSound
<1> QED BY <1>1, <1>2, <1>3 DEF SetupInv

(* Only the mark of the default is taken. *)
LEMMA UnsetKeeps ==
  ASSUME NEW rows \in Seq(Account), NEW others
  PROVE  /\ Unset(rows, others) \in Seq(Account) /\ Len(Unset(rows, others)) = Len(rows)
         /\ DOMAIN Unset(rows, others) = DOMAIN rows
         /\ \A i \in DOMAIN rows :
              /\ Unset(rows, others)[i].provider = rows[i].provider
              /\ Scope(Unset(rows, others)[i]) = Scope(rows[i])
              /\ Unset(rows, others)[i].status = rows[i].status
              /\ Unset(rows, others)[i].is_default => rows[i].is_default /\ i \notin others
              /\ i \notin others => Unset(rows, others)[i] = rows[i]
<1> DEFINE new == Unset(rows, others)
<1>1. /\ Len(rows) \in Nat /\ DOMAIN rows = 1..Len(rows) /\ DOMAIN new = 1..Len(rows)
      /\ \A i \in 1..Len(rows) : rows[i] \in Account
  BY DEF Unset
<1>2. \A i \in 1..Len(rows) :
        /\ new[i] = IF i \in others THEN [rows[i] EXCEPT !.is_default = FALSE] ELSE rows[i]
        /\ new[i] \in Account
  BY <1>1 DEF Unset, Account
<1>3. new \in [1..Len(rows) -> Account]
  BY <1>1, <1>2 DEF Unset
<1>4. new \in Seq(Account)
  BY <1>1, <1>3, SeqDef
<1>5. Len(new) = Len(rows)
  BY <1>1, <1>4
<1>6. ASSUME NEW i \in 1..Len(rows)
      PROVE  /\ new[i].provider = rows[i].provider /\ Scope(new[i]) = Scope(rows[i])
             /\ new[i].status = rows[i].status
             /\ new[i].is_default => rows[i].is_default /\ i \notin others
             /\ i \notin others => new[i] = rows[i]
  BY <1>1, <1>2 DEF Account, Scope
<1> QED BY <1>1, <1>4, <1>5, <1>6

LEMMA MarksOthers ==
  ASSUME TypeOK, txn' = Overtaken \/ \E t \in Slots : txn' = [Overtaken EXCEPT ![t] = Idle]
  PROVE  /\ txn' \in [Slots -> Txn \cup {Idle}]
         /\ \A s \in Slots : \/ txn'[s] = Idle
                             \/ txn[s] # Idle /\ txn'[s] = [txn[s] EXCEPT !.overtaken = TRUE]
<1>1. \A s \in Slots : txn[s] # Idle => [txn[s] EXCEPT !.overtaken = TRUE] \in Txn
  BY DEF TypeOK, Txn
<1> QED BY <1>1 DEF TypeOK, Overtaken

LEMMA RowAdded ==
  ASSUME NEW rows \in Seq(Account), NEW row \in Account
  PROVE  /\ Append(rows, row) \in Seq(Account) /\ Len(Append(rows, row)) = Len(rows) + 1
         /\ DOMAIN Append(rows, row) = 1..(Len(rows) + 1) /\ DOMAIN rows = 1..Len(rows)
         /\ \A i \in DOMAIN rows : Append(rows, row)[i] = rows[i]
         /\ Append(rows, row)[Len(rows) + 1] = row
OBVIOUS

LEMMA CreateKeeps ==
  ASSUME SetupInv,
         \/ \E by \in Users, provider \in Providers, scope \in Scopes :
              CreateOther(by, provider, scope)
         \/ \E t \in Slots : CreateAccount(t)
  PROVE  SetupInv'
<1>0. TypeOK /\ accounts \in Seq(Account) /\ Len(accounts) \in Nat
  BY DEF SetupInv, TypeOK
<1>1. ASSUME NEW by \in Users, NEW provider \in Providers, NEW scope \in Scopes,
             CreateOther(by, provider, scope)
      PROVE  SetupInv'
  <2>1. PICK granted \in Granted(by, scope) :
          accounts' = Append(accounts, NewAccount(provider, granted, FALSE))
    BY <1>1 DEF CreateOther
  <2> DEFINE row == NewAccount(provider, granted, FALSE)
  <2>2. row \in Account
    BY NewAccountTyped
  <2> HIDE DEF row
  <2>3. /\ accounts' \in Seq(Account) /\ Len(accounts') <= MaxAccounts
        /\ DOMAIN accounts \subseteq DOMAIN accounts'
        /\ \A i \in DOMAIN accounts : accounts'[i] = accounts[i]
    <3>1. accounts' = Append(accounts, row) /\ Len(accounts) < MaxAccounts
      BY <2>1, <1>1 DEF row, CreateOther
    <3> QED BY <3>1, <1>0, <2>2, RowAdded, SetupAssumption
  <2>4. txn' = Overtaken /\ run' = Changed /\ models' = models
    BY <1>1 DEF CreateOther
  <2> QED BY <1>0, <2>3, <2>4, MarksOthers, AccountsWritten
<1>2. ASSUME NEW t \in Slots, CreateAccount(t) PROVE SetupInv'
  <2> DEFINE unset == Unset(accounts, txn[t].others)
  <2>1. txn[t].row \in Account
    BY <1>0, <1>2, TxnTyped DEF CreateAccount, Serving, TypeOK
  <2>2. /\ unset \in Seq(Account) /\ Len(unset) = Len(accounts) /\ DOMAIN unset = DOMAIN accounts
        /\ \A i \in DOMAIN accounts : /\ unset[i].provider = accounts[i].provider
                                      /\ Scope(unset[i]) = Scope(accounts[i])
    BY <1>0, UnsetKeeps
  <2>3. accounts' = Append(unset, txn[t].row) /\ Len(accounts) < MaxAccounts
    BY <1>2 DEF CreateAccount
  <2> HIDE DEF unset
  <2>4. /\ accounts' \in Seq(Account) /\ Len(accounts') <= MaxAccounts
        /\ DOMAIN accounts \subseteq DOMAIN accounts'
        /\ \A i \in DOMAIN accounts : accounts'[i] = unset[i]
    BY <1>0, <2>1, <2>2, <2>3, RowAdded, SetupAssumption
  <2>5. txn' = [Overtaken EXCEPT ![t] = Idle] /\ run' = Changed /\ models' = models
    BY <1>2 DEF CreateAccount, Commit
  <2> QED BY <1>0, <2>2, <2>4, <2>5, MarksOthers, AccountsWritten
<1> QED BY <1>1, <1>2

(* One row is written over one with its provider and scope. *)
LEMMA RowWritten ==
  ASSUME NEW rows \in Seq(Account), NEW a \in DOMAIN rows, NEW row \in Account
  PROVE  LET new == [rows EXCEPT ![a] = row] IN
         /\ new \in Seq(Account) /\ Len(new) = Len(rows) /\ DOMAIN new = DOMAIN rows
         /\ new[a] = row /\ \A i \in DOMAIN rows : i # a => new[i] = rows[i]
OBVIOUS

LEMMA ChangeKeeps ==
  ASSUME SetupInv,
         \/ \E by \in Users, a \in DOMAIN accounts : DisableAccount(by, a)
         \/ \E t \in Slots : SetDefault(t)
  PROVE  SetupInv'
<1>0. TypeOK /\ accounts \in Seq(Account) /\ Len(accounts) <= MaxAccounts
      /\ \A i \in DOMAIN accounts : accounts[i] \in Account
  BY DEF SetupInv, TypeOK
<1>1. ASSUME NEW by \in Users, NEW a \in DOMAIN accounts, DisableAccount(by, a) PROVE SetupInv'
  <2> DEFINE row == DisabledRow(accounts[a])
  <2>1. /\ row \in Account /\ row.provider = accounts[a].provider
        /\ Scope(row) = Scope(accounts[a])
    BY <1>0 DEF DisabledRow, Account, Scope
  <2>2. accounts' = [accounts EXCEPT ![a] = row]
    BY <1>1 DEF DisableAccount
  <2> HIDE DEF row
  <2>3. /\ accounts' \in Seq(Account) /\ Len(accounts') <= MaxAccounts
        /\ DOMAIN accounts' = DOMAIN accounts
        /\ \A i \in DOMAIN accounts : /\ accounts'[i].provider = accounts[i].provider
                                      /\ Scope(accounts'[i]) = Scope(accounts[i])
    BY <1>0, <2>1, <2>2, RowWritten
  <2>4. txn' = Overtaken /\ run' = Changed /\ models' = models
    BY <1>1 DEF DisableAccount
  <2> QED BY <1>0, <2>3, <2>4, MarksOthers, AccountsWritten
<1>2. ASSUME NEW t \in Slots, SetDefault(t) PROVE SetupInv'
  <2> DEFINE unset == Unset(accounts, txn[t].others)
             a == txn[t].account
             row == [unset[a] EXCEPT !.is_default = TRUE]
  <2>1. a \in DOMAIN accounts
    BY <1>2 DEF SetDefault, Serving, SetupInv, SoundChange
  <2>2. /\ unset \in Seq(Account) /\ Len(unset) = Len(accounts) /\ DOMAIN unset = DOMAIN accounts
        /\ \A i \in DOMAIN accounts : /\ unset[i].provider = accounts[i].provider
                                      /\ Scope(unset[i]) = Scope(accounts[i])
    BY <1>0, UnsetKeeps
  <2>3. accounts' = [unset EXCEPT ![a] = row]
    BY <1>2 DEF SetDefault
  <2> HIDE DEF unset
  <2>4. unset[a] \in Account
    BY <2>1, <2>2
  <2>5. row \in Account /\ row.provider = unset[a].provider /\ Scope(row) = Scope(unset[a])
    BY <2>4 DEF Account, Scope
  <2> HIDE DEF row
  <2>6. /\ accounts' \in Seq(Account) /\ Len(accounts') <= MaxAccounts
        /\ DOMAIN accounts' = DOMAIN accounts
        /\ \A i \in DOMAIN accounts : /\ accounts'[i].provider = accounts[i].provider
                                      /\ Scope(accounts'[i]) = Scope(accounts[i])
    BY <1>0, <2>1, <2>2, <2>3, <2>5, RowWritten
  <2>7. txn' = [Overtaken EXCEPT ![t] = Idle] /\ run' = Changed /\ models' = models
    BY <1>2 DEF SetDefault, Commit
  <2> QED BY <1>0, <2>6, <2>7, MarksOthers, AccountsWritten
<1> QED BY <1>1, <1>2

-----------------------------------------------------------------------------
(* A model is written: the run is marked. *)
LEMMA ModelKeeps ==
  ASSUME SetupInv, NEW m \in DOMAIN Models,
         \/ \E status \in {"ENABLED", "DISABLED"} : UpdateModelStatus(m, status)
         \/ \E pricing \in Pricings : UpdateModelPricing(m, pricing)
  PROVE  SetupInv'
<1>1. PICK row \in Model : UpdateModel(m, row)
  <2>1. models[m] \in Model /\ (models[m].changes < MaxChanges => models[m].changes + 1 \in 0..MaxChanges)
    BY SetupAssumption DEF SetupInv, TypeOK, Model
  <2>2. ASSUME NEW status \in {"ENABLED", "DISABLED"}, UpdateModelStatus(m, status)
        PROVE  \E row \in Model : UpdateModel(m, row)
    <3> DEFINE row == [models[m] EXCEPT !.status = status, !.changes = @ + 1]
    <3>1. UpdateModel(m, row) /\ models[m].changes < MaxChanges
      BY <2>2 DEF UpdateModelStatus, UpdateModel
    <3>2. row \in Model
      BY <2>1, <3>1 DEF Model
    <3> QED BY <3>1, <3>2
  <2>3. ASSUME NEW pricing \in Pricings, UpdateModelPricing(m, pricing)
        PROVE  \E row \in Model : UpdateModel(m, row)
    <3> DEFINE row == [models[m] EXCEPT !.pricing = pricing, !.changes = @ + 1]
    <3>1. UpdateModel(m, row) /\ models[m].changes < MaxChanges
      BY <2>3 DEF UpdateModelPricing, UpdateModel
    <3>2. row \in Model
      BY <2>1, <3>1 DEF Model
    <3> QED BY <3>1, <3>2
  <2> QED BY <2>2, <2>3
<1>2. models' \in [DOMAIN Models -> Model] /\ run' = Changed /\ accounts' = accounts /\ txn' = txn
  BY <1>1 DEF UpdateModel, SetupInv, TypeOK
<1>3. TypeOK'
  BY <1>2, RunMarked DEF SetupInv, TypeOK
<1>4. RunSound(run', accounts, models')
  BY <1>2, RunMarked DEF SetupInv, RunSound, AsPreflighted
<1> QED BY <1>2, <1>3, <1>4 DEF SetupInv

-----------------------------------------------------------------------------
(* The run. *)
LEMMA RunWritten ==
  ASSUME SetupInv, run' \in Run, RunSound(run', accounts, models),
         UNCHANGED <<accounts, models, txn>>
  PROVE  SetupInv'
<1>1. TypeOK'
  BY DEF SetupInv, TypeOK
<1> QED BY <1>1 DEF SetupInv

LEMMA RunNow ==
  ASSUME SetupInv, run # NoRun
  PROVE  /\ TypeOK /\ run \in Run /\ RunSound(run, accounts, models)
         /\ run.nodes \in Seq([model : DOMAIN Models, account : Nat]) /\ run.by \in Users
         /\ run.jobs \in Seq(Job) /\ Len(run.jobs) <= Len(run.nodes)
BY SetupAssumption DEF SetupInv, TypeOK, Run, RunSound

LEMMA StartKeeps ==
  ASSUME SetupInv, NEW by \in Runners, NEW nodes \in Drafts, StartRun(by, nodes)
  PROVE  SetupInv'
<1> DEFINE Node == [model : DOMAIN Models, account : Nat]
           chosen == [i \in DOMAIN nodes |-> CHOOSE a \in Resolve(nodes[i], by) : TRUE]
           estimate == [i \in DOMAIN nodes |-> AmountOf(models[nodes[i].model].pricing)]
<1>1. /\ run' = [by |-> by, nodes |-> nodes, chosen |-> chosen, estimate |-> estimate,
                 jobs |-> <<>>, queue |-> {by}, waiting |-> FALSE, changed |-> FALSE]
      /\ \A i \in DOMAIN nodes : Passes(nodes[i], by)
      /\ UNCHANGED <<accounts, models, txn>>
  BY DEF StartRun
<1>2. /\ nodes \in Seq(Node) /\ by \in Users /\ TypeOK
      /\ Len(nodes) \in Nat /\ DOMAIN nodes = 1..Len(nodes) /\ \A i \in DOMAIN nodes : nodes[i] \in Node
  <2>1. nodes \in Seq(Node) /\ by \in Users /\ TypeOK
    BY SetupAssumption DEF SetupInv
  <2> HIDE DEF Node
  <2> QED BY <2>1
<1>3. ASSUME NEW i \in DOMAIN nodes
      PROVE  /\ chosen[i] \in Choice /\ chosen[i] # NoAccount
             /\ chosen[i] \in ResolveIn(accounts, nodes[i], by)
             /\ estimate[i] \in Nat
  <2>1. /\ Resolve(nodes[i], by) \ {NoAccount} # {} /\ Resolve(nodes[i], by) \subseteq Choice
        /\ \A a, b \in Resolve(nodes[i], by) : a = b
    BY <1>1, <1>2, Resolved DEF Passes
  <2>2. chosen[i] \in Resolve(nodes[i], by)
    BY <2>1
  <2>3. models[nodes[i].model].pricing \in Pricings
    BY <1>2 DEF TypeOK, Model
  <2>4. estimate[i] \in Nat
    BY <2>3, AmountTyped
  <2> HIDE DEF chosen, estimate
  <2> QED BY <2>1, <2>2, <2>4, Views
<1>4. chosen \in Seq(Choice) /\ estimate \in Seq(Nat)
  <2>1. chosen \in [1..Len(nodes) -> Choice] /\ estimate \in [1..Len(nodes) -> Nat]
    BY <1>2, <1>3
  <2> HIDE DEF chosen, estimate
  <2>2. Len(nodes) \in Nat
    BY <1>2
  <2> QED BY <2>1, <2>2, SeqOf
<1>5. /\ DOMAIN chosen = DOMAIN nodes /\ DOMAIN estimate = DOMAIN nodes
      /\ \A i \in DOMAIN nodes : estimate[i] = AmountOf(models[nodes[i].model].pricing)
  OBVIOUS
<1> HIDE DEF chosen, estimate
<1>6. run' \in Run
  BY <1>1, <1>2, <1>4 DEF Run
<1>7. RunSound(run', accounts, models)
  BY <1>1, <1>2, <1>3, <1>5 DEF RunSound, AsPreflighted
<1> QED BY <1>1, <1>6, <1>7, RunWritten

(* Steps that leave nodes, choices, jobs and the mark alone. *)
LEMMA QueueKeeps ==
  ASSUME SetupInv,
         \/ \E by \in Runners \cup SystemManagers : Enqueue(by)
         \/ \E by \in Users : ExecuteNothing(by)
         \/ Poll
  PROVE  SetupInv'
<1>1. run # NoRun /\ UNCHANGED <<accounts, models, txn>>
  BY DEF Enqueue, ExecuteNothing, Poll
<1>2. PICK queue \in SUBSET Users, waiting \in BOOLEAN :
        run' = [run EXCEPT !.queue = queue, !.waiting = waiting]
  <2>1. run \in Run
    BY <1>1, RunNow
  <2>2. ASSUME NEW by \in Runners \cup SystemManagers, Enqueue(by)
        PROVE  run' = [run EXCEPT !.queue = run.queue \cup {by}, !.waiting = run.waiting]
               /\ run.queue \cup {by} \in SUBSET Users /\ run.waiting \in BOOLEAN
    BY <2>1, <2>2, SetupAssumption DEF Enqueue, Run
  <2>3. ASSUME NEW by \in Users, ExecuteNothing(by)
        PROVE  run' = [run EXCEPT !.queue = run.queue \ {by}, !.waiting = run.waiting]
               /\ run.queue \ {by} \in SUBSET Users /\ run.waiting \in BOOLEAN
    BY <2>1, <2>3 DEF ExecuteNothing, Run
  <2>4. ASSUME Poll
        PROVE  run' = [run EXCEPT !.queue = run.queue \cup {Poller}, !.waiting = FALSE]
               /\ run.queue \cup {Poller} \in SUBSET Users
    BY <2>1, <2>4, SetupAssumption DEF Poll, Run
  <2> QED BY <2>2, <2>3, <2>4
<1>3. run' \in Run /\ RunSound(run', accounts, models)
  <2>1. run \in Run /\ RunSound(run, accounts, models)
    BY <1>1, RunNow
  <2>2. /\ run' \in Run /\ run'.nodes = run.nodes /\ run'.jobs = run.jobs /\ run'.by = run.by
        /\ run'.chosen = run.chosen /\ run'.estimate = run.estimate /\ run'.changed = run.changed
    BY <1>2, <2>1 DEF Run
  <2> QED BY <1>1, <2>1, <2>2 DEF RunSound, AsPreflighted
<1> QED BY <1>1, <1>3, RunWritten

(* A new job is of its scope, and as the preflight chose. *)
LEMMA JobFits ==
  ASSUME SetupInv, run # NoRun, NEW i \in DOMAIN run.nodes, NEW by \in Users,
         Resolve(run.nodes[i], by) # {},
         NEW job, job = NewJob(by, run.nodes[i], CHOOSE a \in Resolve(run.nodes[i], by) : TRUE)
  PROVE  /\ job \in Job /\ Fits(job, run.nodes[i], accounts)
         /\ ~run.changed => /\ job.price = run.estimate[i]
                            /\ job.by = run.by => job.account = run.chosen[i] /\ job.key = run.chosen[i]
<1> DEFINE node == run.nodes[i]
           a == CHOOSE a \in Resolve(run.nodes[i], by) : TRUE
<1>1. TypeOK /\ RunSound(run, accounts, models) /\ node \in [model : DOMAIN Models, account : Nat]
  <2> DEFINE Node == [model : DOMAIN Models, account : Nat]
  <2>1. TypeOK /\ RunSound(run, accounts, models) /\ run.nodes \in Seq(Node)
    BY RunNow
  <2> HIDE DEF Node
  <2>2. run.nodes[i] \in Node
    BY <2>1
  <2> QED BY <2>1, <2>2 DEF Node
<1>2. /\ a \in Resolve(node, by) /\ a \in Choice
      /\ \A x, y \in Resolve(node, by) : x = y
      /\ a # NoAccount => a \in Usable(Models[node.model], by)
  BY <1>1, Resolved
<1> HIDE DEF a
<1>3. /\ job \in Job /\ job.by = by /\ job.account = a /\ job.price = JobPrice(node)
      /\ a # NoAccount => job.key = a
  BY <1>1, <1>2, JobTyped DEF a
<1>4. Fits(job, node, accounts)
  BY <1>2, <1>3 DEF Fits, Usable, Matches
<1>5. ASSUME ~run.changed
      PROVE  /\ job.price = run.estimate[i]
             /\ job.by = run.by => job.account = run.chosen[i] /\ job.key = run.chosen[i]
  <2>1. /\ run.chosen[i] # NoAccount /\ run.chosen[i] \in ResolveIn(accounts, run.nodes[i], run.by)
        /\ run.estimate[i] = AmountOf(models[run.nodes[i].model].pricing)
    BY <1>1, <1>5 DEF RunSound, AsPreflighted
  <2>2. job.price = run.estimate[i]
    BY <2>1, <1>3 DEF JobPrice
  <2>3. run.chosen[i] \in Resolve(node, run.by)
    BY <2>1, Views
  <2> QED BY <2>1, <2>2, <2>3, <1>2, <1>3
<1> QED BY <1>3, <1>4, <1>5

LEMMA ExecuteKeeps ==
  ASSUME SetupInv, NEW by \in Users, Execute(by)
  PROVE  SetupInv'
<1>1. run # NoRun /\ UNCHANGED <<accounts, models, txn>>
  BY DEF Execute
<1>2. /\ TypeOK /\ run \in Run /\ RunSound(run, accounts, models)
      /\ run.nodes \in Seq([model : DOMAIN Models, account : Nat]) /\ run.by \in Users
      /\ run.jobs \in Seq(Job) /\ Len(run.jobs) <= Len(run.nodes)
  BY <1>1, RunNow
<1> DEFINE from == Len(run.jobs) + 1
           chosen(i) == CHOOSE a \in Resolve(run.nodes[i], by) : TRUE
<1>3. PICK to \in from..Len(run.nodes), waiting \in BOOLEAN :
        /\ \A i \in from..to : Resolve(run.nodes[i], by) # {}
        /\ run' = [run EXCEPT !.queue = @ \ {by}, !.waiting = waiting,
             !.jobs = [i \in 1..to |-> IF i < from THEN run.jobs[i]
                                       ELSE NewJob(by, run.nodes[i], chosen(i))]]
  BY DEF Execute
<1> DEFINE jobs == [i \in 1..to |-> IF i < from THEN run.jobs[i]
                                    ELSE NewJob(by, run.nodes[i], chosen(i))]
<1>4. /\ Len(run.jobs) \in Nat /\ DOMAIN run.jobs = 1..Len(run.jobs)
      /\ Len(run.nodes) \in Nat /\ DOMAIN run.nodes = 1..Len(run.nodes)
      /\ to \in Nat /\ to <= Len(run.nodes) /\ Len(run.jobs) < to
  BY <1>2
<1>5. ASSUME NEW i \in 1..to
      PROVE  /\ jobs[i] \in Job /\ Fits(jobs[i], run.nodes[i], accounts)
             /\ ~run.changed =>
                  /\ jobs[i].price = run.estimate[i]
                  /\ jobs[i].by = run.by => jobs[i].account = run.chosen[i] /\ jobs[i].key = run.chosen[i]
  <2>1. CASE i < from
    <3>1. i \in DOMAIN run.jobs /\ jobs[i] = run.jobs[i] /\ run.jobs[i] \in Job
      BY <1>2, <1>4, <2>1
    <3> HIDE DEF jobs
    <3> QED BY <3>1, <1>1, <1>2 DEF RunSound, AsPreflighted
  <2>2. CASE ~(i < from)
    <3>1. /\ i \in DOMAIN run.nodes /\ Resolve(run.nodes[i], by) # {}
          /\ jobs[i] = NewJob(by, run.nodes[i], CHOOSE a \in Resolve(run.nodes[i], by) : TRUE)
      BY <1>3, <1>4, <2>2
    <3> HIDE DEF jobs
    <3> QED BY <3>1, <1>1, JobFits
  <2> QED BY <2>1, <2>2
<1>6. jobs \in Seq(Job) /\ DOMAIN jobs = 1..to /\ Len(jobs) = to
  <2>1. jobs \in [1..to -> Job]
    BY <1>5
  <2> HIDE DEF jobs
  <2>2. jobs \in Seq(Job)
    BY <2>1, <1>4, SeqDef
  <2> QED BY <2>1, <2>2, <1>4
<1>7. run' = [run EXCEPT !.queue = run.queue \ {by}, !.waiting = waiting, !.jobs = jobs]
  BY <1>3
<1> HIDE DEF jobs
<1>8. /\ run' \in Run /\ run'.nodes = run.nodes /\ run'.jobs = jobs /\ run'.by = run.by
      /\ run'.chosen = run.chosen /\ run'.estimate = run.estimate /\ run'.changed = run.changed
  BY <1>2, <1>6, <1>7 DEF Run
<1>9. AsPreflighted(run', accounts, models)
  BY <1>1, <1>2, <1>5, <1>6, <1>8 DEF RunSound, AsPreflighted
<1>10. RunSound(run', accounts, models)
  BY <1>4, <1>5, <1>6, <1>8, <1>9 DEF RunSound
<1> QED BY <1>1, <1>8, <1>10, RunWritten

-----------------------------------------------------------------------------
LEMMA SetupInit == Init => SetupInv
<1> SUFFICES ASSUME Init PROVE SetupInv
  OBVIOUS
<1>1. TypeOK
  BY SetupAssumption DEF Init, TypeOK, Model
<1>2. RunSound(run, accounts, models)
  BY DEF Init, RunSound
<1> QED BY <1>1, <1>2, Nothing DEF Init, SetupInv

LEMMA SetupStep == SetupInv /\ [Next]_vars => SetupInv'
<1> SUFFICES ASSUME SetupInv, [Next]_vars PROVE SetupInv'
  OBVIOUS
<1>1. ASSUME NEW t \in Slots, NEW by \in Users, NEW provider \in Providers, NEW scope \in Scopes,
             CreateBegin(t, by, provider, scope) PROVE SetupInv'
  BY <1>1, CreateBegins
<1>2. ASSUME NEW t \in Slots, NEW by \in Users, NEW a \in DOMAIN accounts,
             SetDefaultBegin(t, by, a) PROVE SetupInv'
  BY <1>2, SetDefaultBegins
<1>3. ASSUME NEW t \in Slots, Raise(t) PROVE SetupInv'
  BY <1>3, RaiseKeeps
<1>4. CASE \/ \E by \in Users, provider \in Providers, scope \in Scopes :
                CreateOther(by, provider, scope)
           \/ \E t \in Slots : CreateAccount(t)
  BY <1>4, CreateKeeps
<1>5. CASE \/ \E by \in Users, a \in DOMAIN accounts : DisableAccount(by, a)
           \/ \E t \in Slots : SetDefault(t)
  BY <1>5, ChangeKeeps
<1>6. ASSUME NEW m \in DOMAIN Models,
             \/ \E status \in {"ENABLED", "DISABLED"} : UpdateModelStatus(m, status)
             \/ \E pricing \in Pricings : UpdateModelPricing(m, pricing)
      PROVE  SetupInv'
  BY <1>6, ModelKeeps
<1>7. ASSUME NEW by \in Runners, NEW nodes \in Drafts, StartRun(by, nodes) PROVE SetupInv'
  BY <1>7, StartKeeps
<1>8. CASE \/ \E by \in Runners \cup SystemManagers : Enqueue(by)
           \/ \E by \in Users : ExecuteNothing(by)
           \/ Poll
  BY <1>8, QueueKeeps
<1>9. ASSUME NEW by \in Users, Execute(by) PROVE SetupInv'
  BY <1>9, ExecuteKeeps
<1>10. CASE UNCHANGED vars
  BY <1>10 DEF SetupInv, TypeOK, vars
<1> QED BY <1>1, <1>2, <1>3, <1>4, <1>5, <1>6, <1>7, <1>8, <1>9, <1>10 DEF Next

LEMMA SetupIsSound == Spec => []SetupInv
BY SetupInit, SetupStep, PTL DEF Spec

(* Accounts, models, run and requests stay well formed. *)
THEOREM TypeCorrect == Spec => []TypeOK
<1>1. SetupInv => TypeOK
  BY DEF SetupInv
<1> QED BY <1>1, SetupIsSound, PTL

(* No job is ever created with an account out of the scope of the user it  *)
(* is created for, whatever happens to the accounts.                       *)
THEOREM JobsInScope == Spec => []JobAccountInScope
<1>1. SetupInv => JobAccountInScope
  BY DEF SetupInv, RunSound, Fits, JobAccountInScope
<1> QED BY <1>1, SetupIsSound, PTL

(* Unless accounts or models are changed a run gets what was preflighted. *)
THEOREM PreflightHolds == Spec => []JobsAsPreflighted
<1>1. SetupInv => JobsAsPreflighted
  BY DEF SetupInv, RunSound, AsPreflighted, JobsAsPreflighted
<1> QED BY <1>1, SetupIsSound, PTL

-----------------------------------------------------------------------------
(* Which steps write accounts. *)
LEMMA Writers ==
  ASSUME [Next]_vars, accounts' # accounts
  PROVE  \/ \E by \in Users, provider \in Providers, scope \in Scopes :
              CreateOther(by, provider, scope)
         \/ \E by \in Users, a \in DOMAIN accounts : DisableAccount(by, a)
         \/ \E t \in Slots : CreateAccount(t) \/ SetDefault(t)
<1>1. ASSUME NEW t \in Slots, NEW by \in Users, NEW provider \in Providers, NEW scope \in Scopes,
             CreateBegin(t, by, provider, scope) PROVE FALSE
  BY <1>1 DEF CreateBegin, Begin
<1>2. ASSUME NEW t \in Slots, NEW by \in Users, NEW a \in DOMAIN accounts,
             SetDefaultBegin(t, by, a) PROVE FALSE
  BY <1>2 DEF SetDefaultBegin, Begin
<1>3. ASSUME NEW t \in Slots, Raise(t) PROVE FALSE
  BY <1>3 DEF Raise
<1>4. ASSUME NEW m \in DOMAIN Models,
             \/ \E status \in {"ENABLED", "DISABLED"} : UpdateModelStatus(m, status)
             \/ \E pricing \in Pricings : UpdateModelPricing(m, pricing)
      PROVE  FALSE
  BY <1>4 DEF UpdateModelStatus, UpdateModelPricing, UpdateModel
<1>5. ASSUME NEW by \in Runners, NEW nodes \in Drafts, StartRun(by, nodes) PROVE FALSE
  BY <1>5 DEF StartRun
<1>6. ASSUME \/ \E by \in Runners \cup SystemManagers : Enqueue(by)
             \/ \E by \in Users : ExecuteNothing(by)
             \/ Poll
      PROVE  FALSE
  BY <1>6 DEF Enqueue, ExecuteNothing, Poll
<1>7. ASSUME NEW by \in Users, Execute(by) PROVE FALSE
  BY <1>7 DEF Execute
<1>8. ~UNCHANGED vars
  BY DEF vars
<1> QED BY <1>1, <1>2, <1>3, <1>4, <1>5, <1>6, <1>7, <1>8 DEF Next

(* Without the other defaults of its scope a row may become the default. *)
LEMMA UnsetOthers ==
  ASSUME NEW rows \in Seq(Account), Orderly(rows), NEW row, NEW self
  PROVE  LET new == Unset(rows, OthersIn(rows, row, self)) IN
         /\ Orderly(new)
         /\ \A i \in DOMAIN rows : i # self /\ new[i].provider = row.provider
              /\ Scope(new[i]) = Scope(row) => ~new[i].is_default
<1> DEFINE others == OthersIn(rows, row, self)
           new == Unset(rows, others)
<1>1. /\ DOMAIN new = DOMAIN rows
      /\ \A i \in DOMAIN rows :
           /\ new[i].provider = rows[i].provider /\ Scope(new[i]) = Scope(rows[i])
           /\ new[i].status = rows[i].status
           /\ new[i].is_default => rows[i].is_default /\ i \notin others
  BY UnsetKeeps
<1>2. \A i \in DOMAIN rows :
        i # self /\ rows[i].is_default /\ rows[i].provider = row.provider
        /\ Scope(rows[i]) = Scope(row) => i \in others
  BY DEF OthersIn
<1> HIDE DEF new, others
<1>3. Orderly(new)
  BY <1>1 DEF Orderly
<1>4. \A i \in DOMAIN rows : i # self /\ new[i].provider = row.provider
              /\ Scope(new[i]) = Scope(row) => ~new[i].is_default
  BY <1>1, <1>2
<1> QED BY <1>3, <1>4 DEF new, others

LEMMA Disorder ==
  ASSUME SetupInv, [Next]_vars, Orderly(accounts), ~Orderly(accounts')
  PROVE  \E t \in Slots : txn[t] # Idle /\ txn'[t] = Idle /\ txn[t].overtaken
<1>0. /\ accounts \in Seq(Account) /\ txn \in [Slots -> Txn \cup {Idle}]
      /\ accounts' # accounts /\ \A i \in DOMAIN accounts : accounts[i] \in Account
  BY DEF SetupInv, TypeOK
<1>1. ASSUME NEW by \in Users, NEW provider \in Providers, NEW scope \in Scopes,
             CreateOther(by, provider, scope)
      PROVE  FALSE
  <2>1. PICK granted \in Granted(by, scope) :
          accounts' = Append(accounts, NewAccount(provider, granted, FALSE))
    BY <1>1 DEF CreateOther
  <2> DEFINE row == NewAccount(provider, granted, FALSE)
  <2>2. row \in Account /\ ~row.is_default
    BY NewAccountTyped
  <2> HIDE DEF row
  <2>3. accounts' = Append(accounts, row)
    BY <2>1 DEF row
  <2>4. /\ DOMAIN accounts = 1..Len(accounts) /\ DOMAIN accounts' = 1..(Len(accounts) + 1)
        /\ \A i \in DOMAIN accounts : accounts'[i] = accounts[i]
        /\ accounts'[Len(accounts) + 1] = row /\ Len(accounts) \in Nat
    BY <1>0, <2>2, <2>3, RowAdded
  <2> QED BY <2>2, <2>4 DEF Orderly
<1>2. ASSUME NEW by \in Users, NEW a \in DOMAIN accounts, DisableAccount(by, a)
      PROVE  FALSE
  <2> DEFINE row == DisabledRow(accounts[a])
  <2>1. row \in Account /\ ~row.is_default
    BY <1>0 DEF DisabledRow, Account
  <2>2. accounts' = [accounts EXCEPT ![a] = row]
    BY <1>2 DEF DisableAccount
  <2> HIDE DEF row
  <2>3. /\ DOMAIN accounts' = DOMAIN accounts /\ accounts'[a] = row
        /\ \A i \in DOMAIN accounts : i # a => accounts'[i] = accounts[i]
    BY <1>0, <2>1, <2>2, RowWritten
  <2> QED BY <2>1, <2>3 DEF Orderly
<1>3. ASSUME NEW t \in Slots, CreateAccount(t), ~txn[t].overtaken
      PROVE  FALSE
  <2> DEFINE row == txn[t].row
             unset == Unset(accounts, txn[t].others)
  <2>1. row \in Account
    BY <1>0, <1>3, TxnTyped DEF CreateAccount, Serving
  <2>2. row.status = "ACTIVE" /\ txn[t].others = OthersIn(accounts, row, 0)
    BY <1>3 DEF SetupInv, SoundChange, CreateAccount, Serving
  <2>3. accounts' = Append(unset, row)
    BY <1>3 DEF CreateAccount
  <2>4. /\ Orderly(unset)
        /\ \A i \in DOMAIN accounts : i # 0 /\ unset[i].provider = row.provider
             /\ Scope(unset[i]) = Scope(row) => ~unset[i].is_default
    BY <1>0, <2>2, UnsetOthers
  <2>5. unset \in Seq(Account) /\ DOMAIN unset = DOMAIN accounts /\ Len(unset) = Len(accounts)
    BY <1>0, UnsetKeeps
  <2> HIDE DEF row, unset
  <2>6. /\ DOMAIN unset = 1..Len(unset) /\ DOMAIN accounts' = 1..(Len(unset) + 1)
        /\ \A i \in DOMAIN unset : accounts'[i] = unset[i]
        /\ accounts'[Len(unset) + 1] = row /\ Len(unset) \in Nat
    BY <2>1, <2>3, <2>5, RowAdded
  <2>7. \A i \in DOMAIN unset : unset[i].provider = row.provider
             /\ Scope(unset[i]) = Scope(row) => ~unset[i].is_default
    BY <2>4, <2>5, <2>6
  <2> QED BY <2>2, <2>4, <2>6, <2>7 DEF Orderly
<1>4. ASSUME NEW t \in Slots, SetDefault(t), ~txn[t].overtaken
      PROVE  FALSE
  <2> DEFINE a == txn[t].account
             unset == Unset(accounts, txn[t].others)
             row == [unset[a] EXCEPT !.is_default = TRUE]
  <2>1. /\ a \in DOMAIN accounts /\ accounts[a].status = "ACTIVE"
        /\ txn[t].others = OthersIn(accounts, accounts[a], a)
    BY <1>4 DEF SetupInv, SoundChange, SetDefault, Serving
  <2>2. accounts' = [unset EXCEPT ![a] = row]
    BY <1>4 DEF SetDefault
  <2>3. /\ Orderly(unset)
        /\ \A i \in DOMAIN accounts : i # a /\ unset[i].provider = accounts[a].provider
             /\ Scope(unset[i]) = Scope(accounts[a]) => ~unset[i].is_default
    BY <1>0, <2>1, UnsetOthers
  <2>4. /\ unset \in Seq(Account) /\ DOMAIN unset = DOMAIN accounts
        /\ unset[a].provider = accounts[a].provider /\ Scope(unset[a]) = Scope(accounts[a])
        /\ unset[a].status = accounts[a].status
    BY <1>0, <2>1, UnsetKeeps
  <2> HIDE DEF unset
  <2>5. unset[a] \in Account
    BY <2>1, <2>4
  <2>6. /\ row \in Account /\ row.provider = accounts[a].provider
        /\ Scope(row) = Scope(accounts[a]) /\ row.status = "ACTIVE"
    BY <2>1, <2>4, <2>5 DEF Account, Scope
  <2> HIDE DEF row
  <2>7. /\ DOMAIN accounts' = DOMAIN accounts /\ accounts'[a] = row
        /\ \A i \in DOMAIN accounts : i # a => accounts'[i] = unset[i]
    BY <2>1, <2>2, <2>4, <2>6, RowWritten
  <2> QED BY <2>3, <2>4, <2>6, <2>7 DEF Orderly
<1>5. PICK t \in Slots : CreateAccount(t) \/ SetDefault(t)
  BY <1>0, <1>1, <1>2, Writers
<1>6. txn[t] # Idle /\ txn'[t] = Idle
  BY <1>0, <1>5 DEF CreateAccount, SetDefault, Serving, Commit, Overtaken, Idle
<1> QED BY <1>3, <1>4, <1>5, <1>6

(* Two defaults, or a disabled default, come only of a change that did not *)
(* see an earlier one.                                                     *)
THEOREM OnlyRacesDisorder == Spec => DisorderIsARace
<1>1. SetupInv /\ [Next]_vars =>
        (Orderly(accounts) /\ ~Orderly(accounts')
           => \E t \in Slots : txn[t] # Idle /\ txn'[t] = Idle /\ txn[t].overtaken)
  BY Disorder
<1> QED BY <1>1, SetupIsSound, PTL DEF Spec, DisorderIsARace
=============================================================================
