------------------------- MODULE RunAdmissionProofs -------------------------
(***************************************************************************)
(* What holds of RunAdmission for every set of runs, users and drafts, and *)
(* all prices, costs and limits.  With any number of overlapping           *)
(* transactions: TypeCorrect, OneRecentRun (the number of a version tells  *)
(* a start whether it has seen all of them), HoldsInLedger (HoldInv; the   *)
(* sums over finite sets that it needs come first) and OverlapWithinLimits *)
(* (Within).  With serialised transactions and no free model: BalanceSafe  *)
(* (BalanceInv), and SerialAccount from it and HoldInv.                    *)
(***************************************************************************)
EXTENDS RunAdmission, FiniteSetTheorems, TLAPS

(* A settlement in flight still finds its run as it was: with a node left  *)
(* and its part of the hold untouched.                                     *)
SettlementsFit ==
  \A t \in Slots : txn[t].kind = "settle" =>
    /\ run[txn[t].run] # NoRun
    /\ run[txn[t].run].nodes > 0
    /\ txn[t].part <= run[txn[t].run].hold

OneSettlementPerRun ==
  \A t, u \in Slots :
    txn[t].kind = "settle" /\ txn[u].kind = "settle" /\ txn[t].run = txn[u].run => t = u

JobsHaveNodes == \A r \in Runs : run[r] # NoRun /\ run[r].job => run[r].nodes > 0

TypeInv == TypeOK /\ SettlementsFit /\ OneSettlementPerRun /\ JobsHaveNodes

-----------------------------------------------------------------------------
(* Rows and sums of rows are books. *)
LEMMA Rows ==
  /\ Blank \in Book
  /\ \A y \in RowTypes, a \in Nat : Row(y, a) \in Book
  /\ \A a, b \in Book : With(a, b) \in Book
BY DEF Blank, Book, Row, With, RowTypes

(* Posting rows keeps the books well typed. *)
LEMMA PostTyped ==
  ASSUME TypeOK, NEW actor, NEW rows \in Book, Post(actor, rows)
  PROVE  book' \in Book /\ today' \in Book /\ todayOf' \in [Users -> Book]
BY Rows DEF Post, TypeOK

(* The empty slot is no transaction. *)
LEMMA IdleKind == Idle.kind = "none" /\ Idle \notin Starts /\ Idle \notin Settlements
BY DEF Idle, Starts, Settlements

(* What a slot holds, by the kind of its transaction. *)
LEMMA TxnKinds ==
  ASSUME TypeOK, NEW t \in Slots
  PROVE  /\ txn[t].kind = "start" => txn[t] \in Starts
         /\ txn[t].kind = "settle" => txn[t] \in Settlements
BY IdleKind DEF TypeOK, Starts, Settlements

(* A started run is typed as one. *)
LEMMA RunKinds ==
  ASSUME TypeOK, NEW r \in Runs, run[r] # NoRun
  PROVE  run[r] \in StartedRun
BY DEF TypeOK

(* The current rows are a snapshot. *)
LEMMA ViewTyped == TypeOK => View \in Views
BY DEF TypeOK, View, Views

(* Closing a slot leaves the others as they were. *)
LEMMA CloseTyped ==
  ASSUME TypeOK, NEW t \in Slots, Close(t)
  PROVE  /\ txn' \in [Slots -> {Idle} \cup Starts \cup Settlements]
         /\ \A s \in Slots : txn'[s].kind # "none" => s # t /\ txn'[s] = txn[s]
BY DEF TypeOK, Close, Idle

-----------------------------------------------------------------------------
(* A step that leaves the runs alone keeps what settlements rely on, when  *)
(* it opens none.                                                          *)
LEMMA SettlementsKept ==
  ASSUME TypeInv, UNCHANGED run,
         \A s \in Slots : txn'[s].kind = "settle" => txn'[s] = txn[s]
  PROVE  SettlementsFit' /\ OneSettlementPerRun' /\ JobsHaveNodes'
BY DEF TypeInv, SettlementsFit, OneSettlementPerRun, JobsHaveNodes

(* A step that changes one run, which no settlement is about, keeps them   *)
(* as well.                                                                *)
LEMMA OtherRunKept ==
  ASSUME TypeInv, NEW r \in Runs, NEW new,
         run' = [run EXCEPT ![r] = new],
         new # NoRun, new.job => new.nodes > 0,
         \A s \in Slots : txn'[s].kind = "settle" => txn'[s] = txn[s] /\ txn[s].run # r
  PROVE  SettlementsFit' /\ OneSettlementPerRun' /\ JobsHaveNodes'
<1>1. \A q \in Runs : run'[q] = IF q = r THEN new ELSE run[q]
  BY DEF TypeInv, TypeOK
<1>2. \A s \in Slots : txn[s].kind = "settle" => txn[s].run \in Runs
  BY TxnKinds DEF TypeInv, Settlements
<1> QED BY <1>1, <1>2 DEF TypeInv, SettlementsFit, OneSettlementPerRun, JobsHaveNodes

(* Init establishes the type invariant. *)
LEMMA TypeInit == Init => TypeInv
BY Rows, IdleKind DEF Init, TypeInv, TypeOK, SettlementsFit, OneSettlementPerRun,
   JobsHaveNodes, NoRun, Idle

(* Every step preserves it. *)
LEMMA TypeStep == TypeInv /\ [Next]_vars => TypeInv'
<1> SUFFICES ASSUME TypeInv, [Next]_vars PROVE TypeInv'
  OBVIOUS
<1>0. TypeOK
  BY DEF TypeInv
<1>1. ASSUME NEW t \in Slots, NEW u \in Users, NEW d \in Drafts, StartBegin(t, u, d)
      PROVE TypeInv'
  <2>1. [kind |-> "start", user |-> u, draft |-> d, view |-> View] \in Starts
    BY <1>0, ViewTyped DEF Starts
  <2>2. TypeOK'
    BY <1>0, <1>1, <2>1 DEF TypeOK, StartBegin
  <2>3. \A s \in Slots : txn'[s].kind = "settle" => txn'[s] = txn[s]
    BY <1>0, <1>1 DEF TypeOK, StartBegin
  <2>4. UNCHANGED run
    BY <1>1 DEF StartBegin
  <2> QED BY <2>2, <2>3, <2>4, SettlementsKept DEF TypeInv
<1>2. ASSUME NEW t \in Slots, Close(t), UNCHANGED <<run, latest, book, today, todayOf, days>>
      PROVE TypeInv'
  <2>1. TypeOK'
    BY <1>0, <1>2, CloseTyped DEF TypeOK
  <2>2. \A s \in Slots : txn'[s].kind = "settle" => txn'[s] = txn[s]
    BY <1>0, <1>2, CloseTyped
  <2> QED BY <1>2, <2>1, <2>2, SettlementsKept DEF TypeInv
<1>3. ASSUME NEW t \in Slots, NEW r \in Runs, StartRun(t, r) PROVE TypeInv'
  <2> DEFINE new == [status |-> "active", user |-> txn[t].user, draft |-> txn[t].draft,
                     no |-> NextVersion(txn[t].view, txn[t].draft), recent |-> TRUE,
                     hold |-> Price[txn[t].draft], nodes |-> Count[txn[t].draft],
                     job |-> FALSE]
  <2>1. txn[t] \in Starts
    BY <1>0, <1>3, TxnKinds DEF StartRun, Starting
  <2>2. new \in StartedRun /\ new # NoRun
    BY <2>1, AdmissionAssumption DEF Starts, Views, StartedRun, NextVersion, NoRun
  <2>3. run' = [run EXCEPT ![r] = new]
    BY <1>3 DEF StartRun
  <2>4. latest' \in [Drafts -> Nat]
    BY <1>0, <1>3, <2>1 DEF StartRun, TypeOK, Starts, Views, NextVersion
  <2>5. book' \in Book /\ today' \in Book /\ todayOf' \in [Users -> Book]
    <3>1. Row("RESERVE", Price[txn[t].draft]) \in Book
      BY <2>1, Rows, AdmissionAssumption DEF Starts, RowTypes
    <3> QED BY <1>0, <1>3, <3>1, PostTyped DEF StartRun
  <2>6. Close(t) /\ UNCHANGED days
    BY <1>3 DEF StartRun
  <2>7. TypeOK'
    BY <1>0, <2>2, <2>3, <2>4, <2>5, <2>6, CloseTyped DEF TypeOK
  <2>8. \A s \in Slots : txn'[s].kind = "settle" => txn'[s] = txn[s] /\ txn[s].run # r
    BY <1>0, <1>3, <2>6, CloseTyped DEF StartRun, TypeInv, SettlementsFit
  <2> QED BY <2>2, <2>3, <2>7, <2>8, OtherRunKept DEF TypeInv
<1>4. ASSUME NEW t \in Slots, NEW r \in Runs, NEW a \in Actors, SettleBegin(t, r, a)
      PROVE TypeInv'
  <2>1. run[r] \in StartedRun /\ run[r].nodes > 0
    BY <1>0, <1>4, RunKinds DEF SettleBegin, Active, Started, TypeInv, JobsHaveNodes
  <2>2. PICK p \in Parts(r) : \E c \in (Actuals \ {0}) \cup {p} :
          txn' = [txn EXCEPT ![t] = [kind |-> "settle", by |-> a, run |-> r,
                                     part |-> p, cost |-> c, view |-> View]]
    BY <1>4 DEF SettleBegin
  <2>3. PICK c \in (Actuals \ {0}) \cup {p} :
          txn' = [txn EXCEPT ![t] = [kind |-> "settle", by |-> a, run |-> r,
                                     part |-> p, cost |-> c, view |-> View]]
    BY <2>2
  <2>4. p \in Nat /\ p <= run[r].hold
    BY <2>1 DEF Parts, StartedRun
  <2>5. c \in Nat
    BY <2>4, AdmissionAssumption
  <2>6. [kind |-> "settle", by |-> a, run |-> r, part |-> p, cost |-> c, view |-> View]
          \in Settlements
    BY <1>0, <2>4, <2>5, ViewTyped DEF Settlements
  <2>7. TypeOK'
    BY <1>0, <1>4, <2>3, <2>6 DEF TypeOK, SettleBegin
  <2>8. UNCHANGED run
    BY <1>4 DEF SettleBegin
  <2>9. \A s \in Slots : txn'[s] = IF s = t
          THEN [kind |-> "settle", by |-> a, run |-> r, part |-> p, cost |-> c, view |-> View]
          ELSE txn[s]
    BY <1>0, <2>3 DEF TypeOK
  <2>10. SettlementsFit' /\ JobsHaveNodes'
    BY <1>4, <2>1, <2>4, <2>8, <2>9
    DEF SettleBegin, Active, Started, TypeInv, SettlementsFit, JobsHaveNodes
  <2>11. OneSettlementPerRun'
    BY <1>4, <2>8, <2>9 DEF SettleBegin, Settling, TypeInv, OneSettlementPerRun
  <2> QED BY <2>7, <2>10, <2>11 DEF TypeInv
<1>5. ASSUME NEW t \in Slots, Settle(t) PROVE TypeInv'
  <2> DEFINE r == txn[t].run
             new == AfterJob(run[r], HoldAfter(t))
  <2>1. txn[t] \in Settlements /\ r \in Runs
    BY <1>0, <1>5, TxnKinds DEF Settle, Settlements
  <2>2. run[r] \in StartedRun /\ run[r].nodes > 0 /\ txn[t].part <= run[r].hold
    BY <1>0, <1>5, <2>1, RunKinds DEF Settle, TypeInv, SettlementsFit
  <2>3. HoldAfter(t) \in Nat /\ run[r].nodes - 1 \in Nat
    BY <2>1, <2>2 DEF HoldAfter, StartedRun, Settlements
  <2>4. new \in StartedRun /\ new.job = FALSE
    BY <2>2, <2>3 DEF StartedRun, AfterJob
  <2>5. new # NoRun
    BY <2>4 DEF StartedRun, NoRun
  <2>6. run' = [run EXCEPT ![r] = new]
    BY <1>5 DEF Settle
  <2>7. book' \in Book /\ today' \in Book /\ todayOf' \in [Users -> Book]
    <3>1. [Row("DEBIT", txn[t].cost) EXCEPT !.RELEASE = txn[t].part] \in Book
      BY <2>1 DEF Settlements, Row, Blank, Book, RowTypes
    <3> QED BY <1>0, <1>5, <3>1, PostTyped DEF Settle, Settled
  <2>8. Close(t) /\ UNCHANGED <<latest, days>>
    BY <1>5 DEF Settle
  <2>9. TypeOK'
    BY <1>0, <2>4, <2>6, <2>7, <2>8, CloseTyped DEF TypeOK
  <2>10. \A s \in Slots : txn'[s].kind = "settle" => txn'[s] = txn[s] /\ txn[s].run # r
    BY <1>0, <1>5, <2>8, CloseTyped DEF Settle, TypeInv, OneSettlementPerRun
  <2> QED BY <2>1, <2>4, <2>5, <2>6, <2>9, <2>10, OtherRunKept DEF TypeInv
<1>6. ASSUME NEW r \in Runs, WindowPasses(r) PROVE TypeInv'
  <2> DEFINE new == [run[r] EXCEPT !.recent = FALSE]
  <2>1. run[r] \in StartedRun
    BY <1>0, <1>6, RunKinds DEF WindowPasses, Active, Started
  <2>2. new \in StartedRun /\ new # NoRun /\ new.hold = run[r].hold
          /\ new.nodes = run[r].nodes /\ new.job = run[r].job
    BY <2>1 DEF StartedRun, NoRun
  <2>3. \A q \in Runs : run'[q] = IF q = r THEN new ELSE run[q]
    BY <1>0, <1>6 DEF WindowPasses, TypeOK
  <2>4. TypeOK'
    BY <1>0, <1>6, <2>2 DEF WindowPasses, TypeOK
  <2>5. \A s \in Slots : txn[s].kind = "settle" => txn[s].run \in Runs
    BY <1>0, TxnKinds DEF Settlements
  <2>6. /\ UNCHANGED txn
        /\ run[r] # NoRun
    BY <1>6 DEF WindowPasses, Active, Started
  <2> HIDE DEF new
  <2>7. SettlementsFit' /\ OneSettlementPerRun' /\ JobsHaveNodes'
    BY <2>2, <2>3, <2>5, <2>6 DEF TypeInv, SettlementsFit, OneSettlementPerRun, JobsHaveNodes
  <2> QED BY <2>4, <2>7 DEF TypeInv
<1>7. ASSUME NEW r \in Runs, SubmitJob(r) PROVE TypeInv'
  <2> DEFINE new == [run[r] EXCEPT !.job = TRUE]
  <2>1. run[r] \in StartedRun
    BY <1>0, <1>7, RunKinds DEF SubmitJob, Active, Started
  <2>2. new \in StartedRun /\ new # NoRun /\ new.hold = run[r].hold
          /\ new.nodes = run[r].nodes
    BY <2>1 DEF StartedRun, NoRun
  <2>3. \A q \in Runs : run'[q] = IF q = r THEN new ELSE run[q]
    BY <1>0, <1>7 DEF SubmitJob, TypeOK
  <2>4. TypeOK'
    BY <1>0, <1>7, <2>2 DEF SubmitJob, TypeOK
  <2>5. \A s \in Slots : txn[s].kind = "settle" => txn[s].run \in Runs
    BY <1>0, TxnKinds DEF Settlements
  <2>6. /\ UNCHANGED txn
        /\ run[r] # NoRun /\ run[r].nodes > 0
    BY <1>7 DEF SubmitJob, Active, Started
  <2> HIDE DEF new
  <2>7. SettlementsFit' /\ OneSettlementPerRun' /\ JobsHaveNodes'
    BY <2>2, <2>3, <2>5, <2>6 DEF TypeInv, SettlementsFit, OneSettlementPerRun, JobsHaveNodes
  <2> QED BY <2>4, <2>7 DEF TypeInv
<1>8. ASSUME NEW r \in Runs, NEW a \in Actors, EndRun(r, a) PROVE TypeInv'
  <2> DEFINE new == [run[r] EXCEPT !.status = "ended", !.hold = 0, !.job = FALSE]
  <2>1. run[r] \in StartedRun
    BY <1>0, <1>8, RunKinds DEF EndRun, Active, Started
  <2>2. new \in StartedRun /\ new # NoRun /\ new.job = FALSE
    BY <2>1 DEF StartedRun, NoRun
  <2>3. run' = [run EXCEPT ![r] = new]
    BY <1>0, <1>8 DEF EndRun, TypeOK
  <2>4. book' \in Book /\ today' \in Book /\ todayOf' \in [Users -> Book]
    <3>1. Row("RELEASE", run[r].hold) \in Book
      BY <2>1, Rows DEF StartedRun, RowTypes
    <3> QED BY <1>0, <1>8, <3>1, PostTyped DEF EndRun
  <2>5. TypeOK'
    BY <1>0, <1>8, <2>2, <2>3, <2>4 DEF EndRun, TypeOK
  <2>6. \A s \in Slots : txn'[s].kind = "settle" => txn'[s] = txn[s] /\ txn[s].run # r
    BY <1>8 DEF EndRun, Settling
  <2> QED BY <2>2, <2>3, <2>5, <2>6, OtherRunKept DEF TypeInv
<1>9. ASSUME NEW u \in Users, NEW a \in TopUps, TopUp(u, a) PROVE TypeInv'
  <2>1. Row("CREDIT", a) \in Book
    BY Rows, AdmissionAssumption DEF RowTypes
  <2>2. book' \in Book /\ today' \in Book /\ todayOf' \in [Users -> Book]
    BY <1>0, <1>9, <2>1, PostTyped DEF TopUp
  <2>3. TypeOK'
    BY <1>0, <1>9, <2>2 DEF TopUp, TypeOK
  <2> QED BY <1>9, <2>3, SettlementsKept DEF TopUp, TypeInv
<1>10. ASSUME Midnight PROVE TypeInv'
  <2>1. TypeOK'
    BY <1>0, <1>10, Rows DEF Midnight, TypeOK
  <2> QED BY <1>10, <2>1, SettlementsKept DEF Midnight, TypeInv
<1>11. CASE UNCHANGED vars
  <2>1. TypeOK'
    BY <1>0, <1>11 DEF vars, TypeOK
  <2> QED BY <1>11, <2>1, SettlementsKept DEF vars, TypeInv
<1>12. ASSUME NEW t \in Slots, StartReuse(t) \/ StartRefuse(t) \/ StartConflict(t) \/ SettleRefuse(t)
       PROVE TypeInv'
  BY <1>2, <1>12 DEF StartReuse, StartRefuse, StartConflict, SettleRefuse
<1> QED BY <1>1, <1>3, <1>4, <1>5, <1>6, <1>7, <1>8, <1>9, <1>10, <1>11, <1>12 DEF Next

(* The type invariant of RunAdmission. *)
THEOREM TypeCorrect == Spec => []TypeOK
<1>1. TypeInv => TypeOK
  BY DEF TypeInv
<1> QED BY <1>1, TypeInit, TypeStep, PTL DEF Spec

-----------------------------------------------------------------------------
(* What a start in flight may rely on.  The runs it saw have only aged,    *)
(* and either it saw every version of its draft, or the number it computed *)
(* for its own version has been taken.                                     *)
ViewsAge ==
  \A t \in Slots : Starting(t) =>
    \A r \in Runs : txn[t].view.run[r] # NoRun =>
      /\ run[r] # NoRun
      /\ run[r].draft = txn[t].view.run[r].draft
      /\ run[r].recent => txn[t].view.run[r].recent
      /\ run[r].status = "active" => txn[t].view.run[r].status = "active"

SawAll(t) ==
  /\ latest[txn[t].draft] = txn[t].view.latest[txn[t].draft]
  /\ \A r \in VersionsOf(run, txn[t].draft) : txn[t].view.run[r] # NoRun

NumberTaken(t) == Taken(run, txn[t].draft, NextVersion(txn[t].view, txn[t].draft))

NumbersDecide == \A t \in Slots : Starting(t) => SawAll(t) \/ NumberTaken(t)

VersionInv == ViewsAge /\ NumbersDecide /\ RecentRunIsReused

(* What every step but StartRun does to the runs. *)
RunsAge ==
  \A r \in Runs :
    /\ run[r] = NoRun => run'[r] = NoRun
    /\ run[r] # NoRun => /\ run'[r] # NoRun
                         /\ run'[r].draft = run[r].draft /\ run'[r].no = run[r].no
                         /\ run'[r].user = run[r].user
                         /\ run'[r].recent => run[r].recent
                         /\ run'[r].status = "active" => run[r].status = "active"

(* Ageing keeps the invariant, for the starts that were in flight.         *)
LEMMA AgeKeeps ==
  ASSUME TypeOK, VersionInv, RunsAge, UNCHANGED latest,
         \A t \in Slots : txn'[t].kind = "start" => txn'[t] = txn[t]
  PROVE  VersionInv'
<1>1. ViewsAge'
  BY DEF VersionInv, ViewsAge, RunsAge, Starting
<1>2. NumbersDecide'
  <2> SUFFICES ASSUME NEW t \in Slots, Starting(t)' PROVE SawAll(t)' \/ NumberTaken(t)'
    BY DEF NumbersDecide
  <2>1. Starting(t) /\ txn'[t] = txn[t]
    BY DEF Starting
  <2>2. CASE SawAll(t)
    BY <2>1, <2>2 DEF SawAll, RunsAge, VersionsOf, Started
  <2>3. CASE NumberTaken(t)
    BY <2>1, <2>3 DEF NumberTaken, Taken, RunsAge, VersionsOf, Started, NextVersion
  <2> QED BY <2>1, <2>2, <2>3 DEF VersionInv, NumbersDecide
<1>3. RecentRunIsReused'
  <2>1. \A d \in Drafts : RecentRuns(run', d) \subseteq RecentRuns(run, d)
    BY DEF RunsAge, RecentRuns, VersionsOf, Active, Started
  <2> QED BY <2>1 DEF VersionInv, RecentRunIsReused
<1> QED BY <1>1, <1>2, <1>3 DEF VersionInv

(* A start that opens has seen everything. *)
LEMMA BeginKeeps ==
  ASSUME TypeOK, VersionInv, NEW t \in Slots, NEW u \in Users, NEW d \in Drafts,
         StartBegin(t, u, d)
  PROVE  VersionInv'
<1> DEFINE new == [kind |-> "start", user |-> u, draft |-> d, view |-> View]
<1>1. \A s \in Slots : txn'[s] = IF s = t THEN new ELSE txn[s]
  BY DEF StartBegin, TypeOK
<1>2. UNCHANGED <<run, latest>>
  BY DEF StartBegin
<1>3. ViewsAge'
  BY <1>1, <1>2 DEF VersionInv, ViewsAge, Starting, View
<1>4. NumbersDecide'
  <2> SUFFICES ASSUME NEW s \in Slots, Starting(s)' PROVE SawAll(s)' \/ NumberTaken(s)'
    BY DEF NumbersDecide
  <2>1. CASE s = t
    BY <1>1, <1>2, <2>1 DEF SawAll, View, VersionsOf, Started
  <2>2. CASE s # t
    <3>1. Starting(s) /\ txn'[s] = txn[s]
      BY <1>1, <2>2 DEF Starting
    <3> QED
      BY <1>2, <3>1 DEF VersionInv, NumbersDecide, SawAll, NumberTaken, Taken,
         VersionsOf, Started, NextVersion
  <2> QED BY <2>1, <2>2
<1>5. RecentRunIsReused'
  BY <1>2 DEF VersionInv, RecentRunIsReused, RecentRuns, VersionsOf, Active, Started
<1> QED BY <1>3, <1>4, <1>5 DEF VersionInv

(* The start that commits first takes the number the overlapping ones      *)
(* computed, and no run it has not seen is recent.                         *)
LEMMA StartKeeps ==
  ASSUME TypeOK, VersionInv, NEW u \in Slots, NEW q \in Runs, StartRun(u, q)
  PROVE  VersionInv'
<1> DEFINE e == txn[u].draft
           no == NextVersion(txn[u].view, e)
<1>1. txn[u] \in Starts /\ Starting(u) /\ e \in Drafts
  BY TxnKinds DEF StartRun, Starting, Starts
<1>2. /\ run[q] = NoRun
      /\ \A r \in Runs : r # q => run'[r] = run[r]
      /\ run'[q] # NoRun /\ run'[q].draft = e /\ run'[q].no = no
  BY DEF StartRun, TypeOK, NoRun
<1>3. SawAll(u)
  BY <1>1 DEF StartRun, VersionInv, NumbersDecide, NumberTaken
<1>4. \A t \in Slots : txn'[t].kind = "start" => t # u /\ txn'[t] = txn[t]
  BY CloseTyped DEF StartRun
<1>5. /\ no = latest[e] + 1
      /\ latest'[e] = no
      /\ \A d \in Drafts : d # e => latest'[d] = latest[d]
  BY <1>1, <1>3 DEF SawAll, NextVersion, StartRun, TypeOK
<1>6. ViewsAge'
  BY <1>2, <1>4 DEF VersionInv, ViewsAge, Starting
<1>7. NumbersDecide'
  <2> SUFFICES ASSUME NEW t \in Slots, Starting(t)' PROVE SawAll(t)' \/ NumberTaken(t)'
    BY DEF NumbersDecide
  <2>1. Starting(t) /\ txn'[t] = txn[t] /\ txn[t] \in Starts /\ txn[t].draft \in Drafts
    BY <1>4, TxnKinds DEF Starting, Starts
  <2>2. CASE NumberTaken(t)
    BY <1>2, <2>1, <2>2 DEF NumberTaken, Taken, VersionsOf, Started, NextVersion
  <2>3. CASE SawAll(t) /\ txn[t].draft # e
    BY <1>2, <1>5, <2>1, <2>3 DEF SawAll, VersionsOf, Started
  <2>4. CASE SawAll(t) /\ txn[t].draft = e
    <3>1. NextVersion(txn[t].view, e) = no
      BY <1>5, <2>4 DEF SawAll, NextVersion
    <3>2. q \in VersionsOf(run', e)
      BY <1>2 DEF VersionsOf, Started
    <3> QED BY <1>2, <2>1, <2>4, <3>1, <3>2 DEF NumberTaken, Taken, NextVersion
  <2> QED BY <2>1, <2>2, <2>3, <2>4 DEF VersionInv, NumbersDecide
<1>8. RecentRunIsReused'
  <2>1. RecentRuns(run, e) = {}
    <3>1. RecentRuns(txn[u].view.run, e) = {}
      BY DEF StartRun
    <3>2. RecentRuns(run, e) \subseteq RecentRuns(txn[u].view.run, e)
      BY <1>1, <1>3
      DEF VersionInv, ViewsAge, SawAll, RecentRuns, VersionsOf, Active, Started
    <3> QED BY <3>1, <3>2
  <2>2. RecentRuns(run', e) \subseteq {q}
    BY <1>2, <2>1 DEF RecentRuns, VersionsOf, Active, Started
  <2>3. \A d \in Drafts : d # e => RecentRuns(run', d) \subseteq RecentRuns(run, d)
    BY <1>2 DEF RecentRuns, VersionsOf, Active, Started
  <2> QED BY <2>2, <2>3 DEF VersionInv, RecentRunIsReused
<1> QED BY <1>6, <1>7, <1>8 DEF VersionInv

(* The other steps let the runs age and open no start. *)
LEMMA OthersAge ==
  ASSUME TypeInv, [Next]_vars,
         ~\E t \in Slots : \E u \in Users, d \in Drafts : StartBegin(t, u, d),
         ~\E t \in Slots : \E r \in Runs : StartRun(t, r)
  PROVE  /\ RunsAge /\ UNCHANGED latest
         /\ \A t \in Slots : txn'[t].kind = "start" => txn'[t] = txn[t]
<1> DEFINE Kept == \A t \in Slots : txn'[t].kind = "start" => txn'[t] = txn[t]
<1>0. TypeOK
  BY DEF TypeInv
<1>1. ASSUME UNCHANGED run PROVE RunsAge
  BY <1>1 DEF RunsAge
<1>2. ASSUME NEW t \in Slots,
             StartReuse(t) \/ StartRefuse(t) \/ StartConflict(t) \/ SettleRefuse(t)
      PROVE  RunsAge /\ UNCHANGED latest /\ Kept
  BY <1>0, <1>1, <1>2, CloseTyped DEF StartReuse, StartRefuse, StartConflict, SettleRefuse
<1>3. ASSUME NEW t \in Slots, NEW r \in Runs, NEW a \in Actors, SettleBegin(t, r, a)
      PROVE  RunsAge /\ UNCHANGED latest /\ Kept
  BY <1>0, <1>1, <1>3 DEF SettleBegin, TypeOK
<1>4. ASSUME NEW t \in Slots, Settle(t) PROVE RunsAge /\ UNCHANGED latest /\ Kept
  <2>1. txn[t].run \in Runs /\ run[txn[t].run] \in StartedRun
    BY <1>0, <1>4, TxnKinds, RunKinds DEF Settle, TypeInv, SettlementsFit, Settlements
  <2>2. RunsAge
    BY <1>0, <1>4, <2>1 DEF Settle, AfterJob, RunsAge, TypeOK, StartedRun, NoRun
  <2> QED BY <1>0, <1>4, <2>2, CloseTyped DEF Settle
<1>5. ASSUME NEW r \in Runs, WindowPasses(r) PROVE RunsAge /\ UNCHANGED latest /\ Kept
  <2>1. run[r] \in StartedRun
    BY <1>0, <1>5, RunKinds DEF WindowPasses, Active, Started
  <2> QED BY <1>0, <1>5, <2>1 DEF WindowPasses, RunsAge, TypeOK, StartedRun, NoRun
<1>6. ASSUME NEW r \in Runs, SubmitJob(r) PROVE RunsAge /\ UNCHANGED latest /\ Kept
  <2>1. run[r] \in StartedRun
    BY <1>0, <1>6, RunKinds DEF SubmitJob, Active, Started
  <2> QED BY <1>0, <1>6, <2>1 DEF SubmitJob, RunsAge, TypeOK, StartedRun, NoRun
<1>7. ASSUME NEW r \in Runs, NEW a \in Actors, EndRun(r, a)
      PROVE  RunsAge /\ UNCHANGED latest /\ Kept
  <2>1. run[r] \in StartedRun
    BY <1>0, <1>7, RunKinds DEF EndRun, Active, Started
  <2> DEFINE new == [run[r] EXCEPT !.status = "ended", !.hold = 0, !.job = FALSE]
  <2>2. \A q \in Runs : run'[q] = IF q = r THEN new ELSE run[q]
    BY <1>0, <1>7 DEF EndRun, TypeOK
  <2>3. /\ new # NoRun /\ new.draft = run[r].draft /\ new.no = run[r].no
        /\ new.user = run[r].user
        /\ new.recent = run[r].recent /\ new.status # "active"
    BY <2>1 DEF StartedRun, NoRun
  <2>4. run[r] # NoRun
    BY <2>1 DEF StartedRun, NoRun
  <2> HIDE DEF new
  <2>5. RunsAge
    BY <2>2, <2>3, <2>4 DEF RunsAge
  <2>6. UNCHANGED <<latest, txn>>
    BY <1>7 DEF EndRun
  <2> QED BY <2>5, <2>6
<1>8. ASSUME (\E u \in Users, a \in TopUps : TopUp(u, a)) \/ Midnight \/ UNCHANGED vars
      PROVE  RunsAge /\ UNCHANGED latest /\ Kept
  BY <1>1, <1>8 DEF TopUp, Midnight, vars
<1> QED BY <1>2, <1>3, <1>4, <1>5, <1>6, <1>7, <1>8 DEF Next

(* A draft submitted twice within the window has one active run, however   *)
(* many start_run calls overlap: the unique snapshot hash serialises them. *)
THEOREM OneRecentRun == Spec => []RecentRunIsReused
<1>1. Init => VersionInv
  BY IdleKind DEF Init, VersionInv, ViewsAge, NumbersDecide, RecentRunIsReused,
     RecentRuns, VersionsOf, Started, Starting
<1>2. TypeInv /\ VersionInv /\ [Next]_vars => VersionInv'
  <2> SUFFICES ASSUME TypeInv, VersionInv, [Next]_vars PROVE VersionInv'
    OBVIOUS
  <2>1. TypeOK
    BY DEF TypeInv
  <2> QED BY <2>1, AgeKeeps, BeginKeeps, StartKeeps, OthersAge
<1>3. VersionInv => RecentRunIsReused
  BY DEF VersionInv
<1> QED BY <1>1, <1>2, <1>3, TypeInit, TypeStep, PTL DEF Spec

-----------------------------------------------------------------------------
(* With serialised transactions the credits a transaction in flight saw    *)
(* are still there: what may happen meanwhile only adds to them.           *)
CreditsStillThere ==
  \A t \in Slots : txn[t].kind # "none" => Available(txn[t].view.book) <= Available(book)

PartsArePaid == \A t \in Slots : txn[t].kind = "settle" => txn[t].part > 0

BalanceInv == CreditsStillThere /\ PartsArePaid /\ BalanceNeverNegative

(* Posting changes what is available by the rows' own balance.             *)
LEMMA PostedBalance ==
  ASSUME NEW actor, NEW rows \in Book, book \in Book, Post(actor, rows)
  PROVE  /\ book' \in Book
         /\ Available(book') = Available(book) + Available(rows)
         /\ book'.DEBIT = book.DEBIT + rows.DEBIT
BY DEF Post, With, Available, Book, RowTypes

(* The balance is what is available.                                       *)
LEMMA BalanceIsAvailable ==
  ASSUME book \in Book
  PROVE  /\ Available(book) \in Int
         /\ BalanceNeverNegative <=> Available(book) >= 0
BY DEF Available, BalanceNeverNegative, Book, RowTypes

(* A step after which no less is available, and which opens no transaction, *)
(* keeps the invariant.                                                     *)
LEMMA RicherKeeps ==
  ASSUME TypeOK, TypeOK', BalanceInv, Available(book') >= Available(book),
         \A t \in Slots : txn'[t].kind # "none" => txn'[t] = txn[t]
  PROVE  BalanceInv'
<1>1. \A t \in Slots : txn[t].kind # "none" => txn[t].view.book \in Book
  BY DEF TypeOK, Idle, Starts, Settlements, Views
<1>2. \A b \in Book : Available(b) \in Int
  BY DEF Available, Book, RowTypes
<1>3. book \in Book /\ book' \in Book
  BY DEF TypeOK
<1>4. CreditsStillThere'
  BY <1>1, <1>2, <1>3 DEF BalanceInv, CreditsStillThere
<1>5. PartsArePaid'
  BY DEF BalanceInv, PartsArePaid
<1>6. BalanceNeverNegative'
  BY <1>3 DEF BalanceInv, BalanceNeverNegative, Available, Book, RowTypes
<1> QED BY <1>4, <1>5, <1>6 DEF BalanceInv

(* The only slot has been closed: nothing is in flight.                    *)
LEMMA NothingInFlight ==
  ASSUME Serial, TypeOK, NEW t \in Slots, Close(t)
  PROVE  \A s \in Slots : txn'[s].kind = "none"
BY DEF Serial, Close, TypeOK, Idle

(* Init establishes the invariant. *)
LEMMA BalanceInit == Init => BalanceInv
BY DEF Init, BalanceInv, CreditsStillThere, PartsArePaid, BalanceNeverNegative,
   Idle, Blank, RowTypes

(* Every step preserves it. *)
LEMMA BalanceNext ==
  ASSUME Serial, ~FreeModels, TypeInv, TypeInv', BalanceInv, [Next]_vars
  PROVE  BalanceInv'
<1>0. TypeOK /\ TypeOK' /\ book \in Book /\ book' \in Book
  BY DEF TypeInv, TypeOK
<1>1. ASSUME NEW t \in Slots, NEW u \in Users, NEW d \in Drafts, StartBegin(t, u, d)
      PROVE BalanceInv'
  <2>1. \A s \in Slots : txn'[s].kind # "none" =>
          txn'[s].view.book = book /\ txn'[s].kind # "settle"
    BY <1>0, <1>1 DEF Serial, StartBegin, TypeOK, View
  <2>2. UNCHANGED book
    BY <1>1 DEF StartBegin
  <2> QED
    BY <1>0, <2>1, <2>2, BalanceIsAvailable
    DEF BalanceInv, CreditsStillThere, PartsArePaid, BalanceNeverNegative
<1>2. ASSUME NEW t \in Slots, Close(t), UNCHANGED book PROVE BalanceInv'
  BY <1>0, <1>2, CloseTyped, BalanceIsAvailable, RicherKeeps
<1>3. ASSUME NEW t \in Slots, NEW r \in Runs, StartRun(t, r) PROVE BalanceInv'
  <2> DEFINE d == txn[t].draft
  <2>1. txn[t] \in Starts /\ d \in Drafts /\ Price[d] \in Nat
    BY <1>0, <1>3, TxnKinds, AdmissionAssumption DEF StartRun, Starting, Starts
  <2>2. Row("RESERVE", Price[d]) \in Book /\ Available(Row("RESERVE", Price[d])) = - Price[d]
    BY <2>1 DEF Row, Blank, Book, Available, RowTypes
  <2>3. Available(book') = Available(book) - Price[d]
    BY <1>0, <1>3, <2>1, <2>2, PostedBalance, BalanceIsAvailable DEF StartRun
  <2>4. Price[d] <= Available(book)
    <3>1. Available(txn[t].view.book) \in Int
      BY <2>1 DEF Starts, Views, Available, Book, RowTypes
    <3>2. Available(txn[t].view.book) <= Available(book)
      BY <1>3 DEF BalanceInv, CreditsStillThere, StartRun, Starting
    <3>3. Price[d] > 0 => Price[d] <= Available(txn[t].view.book)
      BY <1>3 DEF StartRun, CanStart
    <3>4. Available(book) >= 0
      BY <1>0, BalanceIsAvailable DEF BalanceInv
    <3> QED BY <1>0, <2>1, <3>1, <3>2, <3>3, <3>4, BalanceIsAvailable
  <2>5. \A s \in Slots : txn'[s].kind = "none"
    BY <1>0, <1>3, NothingInFlight DEF StartRun
  <2>6. BalanceNeverNegative'
    BY <1>0, <2>1, <2>3, <2>4 DEF Available, BalanceNeverNegative, Book, RowTypes
  <2> QED BY <2>5, <2>6 DEF BalanceInv, CreditsStillThere, PartsArePaid
<1>4. ASSUME NEW t \in Slots, NEW r \in Runs, NEW a \in Actors, SettleBegin(t, r, a)
      PROVE BalanceInv'
  <2>1. run[r] \in StartedRun
    BY <1>0, <1>4, RunKinds DEF SettleBegin, Active, Started
  <2>2. \A p \in Parts(r) : p > 0
    BY <2>1 DEF Parts, StartedRun
  <2>3. \A s \in Slots : txn'[s].view.book = book /\ txn'[s].part > 0
    BY <1>0, <1>4, <2>2 DEF Serial, SettleBegin, TypeOK, View
  <2>4. UNCHANGED book
    BY <1>4 DEF SettleBegin
  <2> QED
    BY <1>0, <2>3, <2>4, BalanceIsAvailable
    DEF BalanceInv, CreditsStillThere, PartsArePaid, BalanceNeverNegative
<1>5. ASSUME NEW t \in Slots, Settle(t) PROVE BalanceInv'
  <2> DEFINE p == txn[t].part
             c == txn[t].cost
             rows == [Row("DEBIT", c) EXCEPT !.RELEASE = p]
  <2>1. txn[t] \in Settlements /\ p \in Nat /\ c \in Nat /\ p > 0
    BY <1>0, <1>5, TxnKinds DEF Settle, Settlements, BalanceInv, PartsArePaid
  <2>2. rows \in Book /\ Available(rows) = p - c
    <3>1. rows = [y \in RowTypes |-> CASE y = "DEBIT" -> c [] y = "RELEASE" -> p [] OTHER -> 0]
      BY DEF Row, Blank, RowTypes
    <3>2. rows.DEBIT = c /\ rows.RELEASE = p /\ rows.CREDIT = 0 /\ rows.RESERVE = 0
      BY <3>1 DEF RowTypes
    <3>3. rows \in Book
      BY <2>1, <3>1 DEF Book, RowTypes
    <3> HIDE DEF rows
    <3> QED BY <2>1, <3>2, <3>3 DEF Available
  <2>3. Available(book') = Available(book) + p - c
    BY <1>0, <1>5, <2>1, <2>2, PostedBalance, BalanceIsAvailable DEF Settle, Settled
  <2>4. c - p <= Available(book)
    <3>1. Available(txn[t].view.book) \in Int
      BY <2>1 DEF Settlements, Views, Available, Book, RowTypes
    <3>2. Available(txn[t].view.book) <= Available(book)
      BY <1>5 DEF BalanceInv, CreditsStillThere, Settle
    <3>3. c <= p \/ c - p <= Available(txn[t].view.book)
      BY <1>5, <2>1 DEF Settle, Payable
    <3>4. Available(book) >= 0
      BY <1>0, BalanceIsAvailable DEF BalanceInv
    <3> QED BY <1>0, <2>1, <3>1, <3>2, <3>3, <3>4, BalanceIsAvailable
  <2>5. \A s \in Slots : txn'[s].kind = "none"
    BY <1>0, <1>5, NothingInFlight DEF Settle
  <2>6. BalanceNeverNegative'
    BY <1>0, <2>1, <2>3, <2>4 DEF Available, BalanceNeverNegative, Book, RowTypes
  <2> QED BY <2>5, <2>6 DEF BalanceInv, CreditsStillThere, PartsArePaid
<1>6. ASSUME UNCHANGED <<book, txn>> PROVE BalanceInv'
  BY <1>6 DEF BalanceInv, CreditsStillThere, PartsArePaid, BalanceNeverNegative
<1>7. ASSUME NEW r \in Runs, NEW a \in Actors, EndRun(r, a) PROVE BalanceInv'
  <2>1. run[r].hold \in Nat
    BY <1>0, <1>7, RunKinds DEF EndRun, Active, Started, StartedRun
  <2>2. Row("RELEASE", run[r].hold) \in Book /\ Available(Row("RELEASE", run[r].hold)) >= 0
    BY <2>1 DEF Row, Blank, Book, Available, RowTypes
  <2>3. Available(book') >= Available(book)
    BY <1>0, <1>7, <2>2, PostedBalance, BalanceIsAvailable DEF EndRun, Available, Book, RowTypes
  <2>4. UNCHANGED txn
    BY <1>7 DEF EndRun
  <2> QED BY <1>0, <2>3, <2>4, RicherKeeps
<1>8. ASSUME NEW u \in Users, NEW a \in TopUps, TopUp(u, a) PROVE BalanceInv'
  <2>1. Row("CREDIT", a) \in Book /\ Available(Row("CREDIT", a)) >= 0
    BY AdmissionAssumption DEF Row, Blank, Book, Available, RowTypes
  <2>2. Available(book') >= Available(book)
    BY <1>0, <1>8, <2>1, PostedBalance, BalanceIsAvailable DEF TopUp, Available, Book, RowTypes
  <2>3. UNCHANGED txn
    BY <1>8 DEF TopUp
  <2> QED BY <1>0, <2>2, <2>3, RicherKeeps
<1>9. ASSUME NEW t \in Slots, StartReuse(t) \/ StartRefuse(t) \/ StartConflict(t) \/ SettleRefuse(t)
      PROVE BalanceInv'
  BY <1>2, <1>9 DEF StartReuse, StartRefuse, StartConflict, SettleRefuse
<1>10. ASSUME (\E r \in Runs : WindowPasses(r) \/ SubmitJob(r)) \/ Midnight \/ UNCHANGED vars
       PROVE BalanceInv'
  BY <1>6, <1>10 DEF WindowPasses, SubmitJob, Midnight, vars
<1> QED BY <1>1, <1>3, <1>4, <1>5, <1>7, <1>8, <1>9, <1>10 DEF Next

(* The project never owes, whatever the provider charges, when starts and  *)
(* settlements are serialised and every provider model has a price.        *)
THEOREM BalanceSafe ==
  ASSUME Serial, ~FreeModels
  PROVE  Spec => []BalanceNeverNegative
<1>1. TypeInv /\ TypeInv' /\ BalanceInv /\ [Next]_vars => BalanceInv'
  BY BalanceNext
<1>2. BalanceInv => BalanceNeverNegative
  BY DEF BalanceInv
<1> QED BY <1>1, <1>2, BalanceInit, TypeInit, TypeStep, PTL DEF Spec

-----------------------------------------------------------------------------
(* Sums over finite sets.  The library defines a sum by a recursion on the *)
(* set, so a fact about all sums is one about the smallest set that it     *)
(* might not hold of.                                                      *)
Chosen(S) == CHOOSE x \in S : TRUE

(* Summing on T, one chosen element after the other. *)
Sums(f, g, T) ==
  [S \in SUBSET T |-> IF S = {} THEN 0 ELSE f[Chosen(S)] + g[S \ {Chosen(S)}]]

SumsOn(f, T) == CHOOSE g : g = Sums(f, g, T)

LEMMA ChosenIn == \A S : S # {} => Chosen(S) \in S
BY DEF Chosen

LEMMA SumIs == \A f, S : SumFunctionOnSet(f, S) = SumsOn(f, S)[S]
BY DEF SumFunctionOnSet, FoldFunctionOnSet, MapThenFoldSet, SumsOn, Sums, Chosen

(* Of the finite sets that something holds of, one has no part that it     *)
(* holds of.                                                               *)
LEMMA SmallestSet ==
  ASSUME NEW T, IsFiniteSet(T), NEW C \in SUBSET SUBSET T, C # {}
  PROVE  \E S \in C : \A R \in C : ~(R \subseteq S /\ R # S)
<1>1. C \subseteq FiniteSubsetsOf(T)
  BY FS_Subset DEF FiniteSubsetsOf
<1>2. PICK S \in C : \A R \in C : <<R, S>> \notin StrictSubsetOrdering(T)
  BY <1>1, FS_StrictSubsetOrderingWellFounded, WFMin
<1>3. ASSUME NEW R \in C, R \subseteq S, R # S PROVE FALSE
  BY <1>2, <1>3 DEF StrictSubsetOrdering
<1> QED BY <1>3

(* Two such sums agree where both are defined. *)
LEMMA SumsAgree ==
  ASSUME NEW f, NEW S, IsFiniteSet(S), NEW T, NEW g, NEW h,
         g = Sums(f, g, S), h = Sums(f, h, T)
  PROVE  \A R \in SUBSET (S \cap T) : g[R] = h[R]
<1> DEFINE Differ == {R \in SUBSET (S \cap T) : g[R] # h[R]}
<1> SUFFICES ASSUME Differ # {} PROVE FALSE
  OBVIOUS
<1>1. PICK R \in Differ : \A Q \in Differ : ~(Q \subseteq R /\ Q # R)
  <2>1. Differ \in SUBSET SUBSET S
    OBVIOUS
  <2> HIDE DEF Differ
  <2> QED BY <2>1, SmallestSet
<1> DEFINE Q == R \ {Chosen(R)}
<1>2. R # {} /\ g[R] = f[Chosen(R)] + g[Q] /\ h[R] = f[Chosen(R)] + h[Q]
  <2>1. R \in SUBSET S /\ R \in SUBSET T
    OBVIOUS
  <2>2. g[R] = IF R = {} THEN 0 ELSE f[Chosen(R)] + g[Q]
    BY <2>1 DEF Sums
  <2>3. h[R] = IF R = {} THEN 0 ELSE f[Chosen(R)] + h[Q]
    BY <2>1 DEF Sums
  <2> QED BY <2>2, <2>3
<1>3. Q \in SUBSET (S \cap T) /\ Q \subseteq R /\ Q # R
  BY <1>2, ChosenIn
<1>4. g[Q] = h[Q]
  BY <1>1, <1>3
<1> QED BY <1>2, <1>4

(* The sums of a finite set are defined.                                   *)
LEMMA SumsExist ==
  ASSUME NEW f, NEW S, IsFiniteSet(S)
  PROVE  SumsOn(f, S) = Sums(f, SumsOn(f, S), S)
<1> DEFINE Defined(T) == \E g : g = Sums(f, g, T)
           Undefined == {T \in SUBSET S : ~Defined(T)}
<1> SUFFICES ASSUME Undefined # {} PROVE FALSE
  BY DEF SumsOn
<1>1. PICK T \in Undefined : \A R \in Undefined : ~(R \subseteq T /\ R # T)
  <2>1. Undefined \in SUBSET SUBSET S
    OBVIOUS
  <2> HIDE DEF Undefined
  <2> QED BY <2>1, SmallestSet
<1>2. ASSUME NEW R, R \subseteq T, R # T
      PROVE  SumsOn(f, R) = Sums(f, SumsOn(f, R), R)
  BY <1>1, <1>2 DEF SumsOn
<1> DEFINE all == [R \in SUBSET T |-> IF R = {} THEN 0
                     ELSE f[Chosen(R)] + SumsOn(f, R \ {Chosen(R)})[R \ {Chosen(R)}]]
<1>3. ASSUME NEW R, R \subseteq T, R # T
      PROVE  SumsOn(f, R)[R] = all[R]
  <2>1. SumsOn(f, R)[R] = IF R = {} THEN 0 ELSE f[Chosen(R)] + SumsOn(f, R)[R \ {Chosen(R)}]
    BY <1>2, <1>3 DEF Sums
  <2>2. CASE R = {}
    BY <2>1, <2>2
  <2>3. CASE R # {}
    <3> DEFINE Q == R \ {Chosen(R)}
    <3>1. Q \subseteq R /\ Q \subseteq T /\ Q # T
      BY <1>3
    <3>2. SumsOn(f, Q) = Sums(f, SumsOn(f, Q), Q)
      BY <1>2, <3>1
    <3>3. SumsOn(f, R) = Sums(f, SumsOn(f, R), R)
      BY <1>2, <1>3
    <3>4. IsFiniteSet(R)
      BY <1>3, FS_Subset
    <3>5. SumsOn(f, R)[Q] = SumsOn(f, Q)[Q]
      BY <3>1, <3>2, <3>3, <3>4, SumsAgree
    <3> QED BY <1>3, <2>1, <2>3, <3>5
  <2> QED BY <2>2, <2>3
<1>4. all = Sums(f, all, T)
  <2>1. ASSUME NEW R \in SUBSET T, R # {}
        PROVE  SumsOn(f, R \ {Chosen(R)})[R \ {Chosen(R)}] = all[R \ {Chosen(R)}]
    <3>1. R \ {Chosen(R)} \subseteq T /\ R \ {Chosen(R)} # T
      BY <2>1, ChosenIn
    <3> HIDE DEF all
    <3> QED BY <1>3, <3>1
  <2> QED BY <2>1 DEF Sums
<1> QED BY <1>1, <1>4

(* How a sum is computed. *)
LEMMA SumStep ==
  ASSUME NEW f, NEW S, IsFiniteSet(S), S # {}
  PROVE  SumFunctionOnSet(f, S) = f[Chosen(S)] + SumFunctionOnSet(f, S \ {Chosen(S)})
<1> DEFINE R == S \ {Chosen(S)}
<1>1. IsFiniteSet(R)
  BY FS_Subset
<1>2. SumsOn(f, S) = Sums(f, SumsOn(f, S), S) /\ SumsOn(f, R) = Sums(f, SumsOn(f, R), R)
  BY <1>1, SumsExist
<1>3. SumsOn(f, S)[S] = f[Chosen(S)] + SumsOn(f, S)[R]
  BY <1>2 DEF Sums
<1>4. SumsOn(f, S)[R] = SumsOn(f, R)[R]
  BY <1>2, SumsAgree
<1> QED BY <1>3, <1>4, SumIs

LEMMA SumEmpty == \A f : SumFunctionOnSet(f, {}) = 0
<1> TAKE f
<1>1. SumsOn(f, {}) = Sums(f, SumsOn(f, {}), {})
  BY SumsExist, FS_EmptySet
<1>2. Sums(f, SumsOn(f, {}), {})[{}] = 0
  BY DEF Sums
<1> QED BY <1>1, <1>2, SumIs

(* A sum of naturals is one. *)
LEMMA SumType ==
  ASSUME NEW f, NEW S, IsFiniteSet(S), \A x \in S : f[x] \in Nat
  PROVE  SumFunctionOnSet(f, S) \in Nat
<1> DEFINE Wrong == {T \in SUBSET S : SumFunctionOnSet(f, T) \notin Nat}
<1> SUFFICES ASSUME Wrong # {} PROVE FALSE
  OBVIOUS
<1>1. PICK T \in Wrong : \A R \in Wrong : ~(R \subseteq T /\ R # T)
  <2>1. Wrong \in SUBSET SUBSET S
    OBVIOUS
  <2> HIDE DEF Wrong
  <2> QED BY <2>1, SmallestSet
<1>2. T # {} /\ IsFiniteSet(T)
  <2>1. SumFunctionOnSet(f, {}) \in Nat
    BY SumEmpty
  <2> QED BY <2>1, FS_Subset
<1>3. Chosen(T) \in T
  BY <1>2, ChosenIn
<1>4. SumFunctionOnSet(f, T \ {Chosen(T)}) \in Nat
  BY <1>1, <1>3
<1> QED BY <1>2, <1>3, <1>4, SumStep

(* Any element may be added last. *)
LEMMA SumTake ==
  ASSUME NEW f, NEW S, IsFiniteSet(S), \A x \in S : f[x] \in Nat
  PROVE  \A x \in S : SumFunctionOnSet(f, S) = f[x] + SumFunctionOnSet(f, S \ {x})
<1> DEFINE Right(T) == \A x \in T : SumFunctionOnSet(f, T) = f[x] + SumFunctionOnSet(f, T \ {x})
           Wrong == {T \in SUBSET S : ~Right(T)}
<1> SUFFICES ASSUME Wrong # {} PROVE FALSE
  OBVIOUS
<1>1. PICK T \in Wrong : \A R \in Wrong : ~(R \subseteq T /\ R # T)
  <2>1. Wrong \in SUBSET SUBSET S
    OBVIOUS
  <2> HIDE DEF Wrong
  <2> QED BY <2>1, SmallestSet
<1>2. PICK x \in T : SumFunctionOnSet(f, T) # f[x] + SumFunctionOnSet(f, T \ {x})
  OBVIOUS
<1> DEFINE y == Chosen(T)
           Q == (T \ {x}) \ {y}
<1>3. IsFiniteSet(T) /\ T \subseteq S /\ y \in T
  BY ChosenIn, FS_Subset
<1>4. SumFunctionOnSet(f, T) = f[y] + SumFunctionOnSet(f, T \ {y})
  BY <1>3, SumStep
<1>5. y # x
  BY <1>2, <1>4
<1>6. Right(T \ {y}) /\ Right(T \ {x})
  BY <1>1, <1>2, <1>3
<1>7. SumFunctionOnSet(f, T \ {y}) = f[x] + SumFunctionOnSet(f, Q)
  <2>1. (T \ {y}) \ {x} = Q
    OBVIOUS
  <2> QED BY <1>5, <1>6, <2>1
<1>8. SumFunctionOnSet(f, T \ {x}) = f[y] + SumFunctionOnSet(f, Q)
  BY <1>3, <1>5, <1>6
<1>9. f[x] \in Nat /\ f[y] \in Nat /\ SumFunctionOnSet(f, Q) \in Nat
  <2>1. IsFiniteSet(Q) /\ \A z \in Q : f[z] \in Nat
    BY <1>3, FS_Subset
  <2> QED BY <1>3, <2>1, SumType
<1> HIDE DEF y, Q
<1> QED BY <1>2, <1>4, <1>7, <1>8, <1>9

(* Only the summands count. *)
LEMMA SumSame ==
  ASSUME NEW f, NEW g, NEW S, IsFiniteSet(S), \A x \in S : f[x] = g[x]
  PROVE  SumFunctionOnSet(f, S) = SumFunctionOnSet(g, S)
<1> DEFINE Wrong == {T \in SUBSET S : SumFunctionOnSet(f, T) # SumFunctionOnSet(g, T)}
<1> SUFFICES ASSUME Wrong # {} PROVE FALSE
  OBVIOUS
<1>1. PICK T \in Wrong : \A R \in Wrong : ~(R \subseteq T /\ R # T)
  <2>1. Wrong \in SUBSET SUBSET S
    OBVIOUS
  <2> HIDE DEF Wrong
  <2> QED BY <2>1, SmallestSet
<1>2. T # {} /\ IsFiniteSet(T) /\ T \subseteq S
  BY SumEmpty, FS_Subset
<1>3. Chosen(T) \in T
  BY <1>2, ChosenIn
<1>4. SumFunctionOnSet(f, T \ {Chosen(T)}) = SumFunctionOnSet(g, T \ {Chosen(T)})
  BY <1>1, <1>3
<1> QED BY <1>2, <1>3, <1>4, SumStep

-----------------------------------------------------------------------------
(* What the active runs hold, and what the ledger says of it. *)

HoldOf(rs, r) == IF r \in Active(rs) THEN rs[r].hold ELSE 0

Held(rs) == SumFunctionOnSet([r \in Active(rs) |-> rs[r].hold], Active(rs))

Owed(b) == b.RESERVE - b.RELEASE

(* A node that is being settled is of a run that is still active. *)
SettledAreActive == \A t \in Slots : txn[t].kind = "settle" => txn[t].run \in Active(run)

HoldInv == IsFiniteSet(Active(run)) /\ SettledAreActive /\ HoldsMatchLedger

(* Runs other than r have the same part in what is held. *)
LEMMA OthersHold ==
  ASSUME NEW rs, NEW new, NEW r \in Runs, IsFiniteSet(Active(rs)),
         \A q \in Active(rs) : rs[q].hold \in Nat,
         \A q \in Runs : q # r => new[q] = rs[q],
         r \in Active(new) => new[r].hold \in Nat
  PROVE  /\ IsFiniteSet(Active(new))
         /\ Held(rs) \in Nat /\ Held(new) \in Nat
         /\ Held(new) - HoldOf(new, r) = Held(rs) - HoldOf(rs, r)
<1> DEFINE A == Active(rs) \ {r}
           f == [q \in Active(rs) |-> rs[q].hold]
           g == [q \in Active(new) |-> new[q].hold]
<1>1. Active(new) \ {r} = A /\ r \notin A
  BY DEF Active, Started
<1>2. IsFiniteSet(A) /\ IsFiniteSet(A \cup {r})
  BY FS_RemoveElement, FS_AddElement
<1>3. Active(new) = A \/ Active(new) = A \cup {r}
  BY <1>1
<1>4. IsFiniteSet(Active(new))
  BY <1>2, <1>3
<1>5. \A q \in A : f[q] = g[q] /\ f[q] \in Nat
  BY <1>1 DEF Active, Started
<1>6. SumFunctionOnSet(f, A) = SumFunctionOnSet(g, A) /\ SumFunctionOnSet(f, A) \in Nat
  <2> HIDE DEF A, f, g
  <2> QED BY <1>2, <1>5, SumSame, SumType
<1>7. Held(rs) = HoldOf(rs, r) + SumFunctionOnSet(f, A) /\ HoldOf(rs, r) \in Nat
  <2>1. CASE r \in Active(rs)
    <3>1. \A q \in Active(rs) : f[q] \in Nat
      OBVIOUS
    <3>2. f[r] = HoldOf(rs, r) /\ f[r] \in Nat
      BY <2>1 DEF HoldOf
    <3> HIDE DEF f
    <3>3. SumFunctionOnSet(f, Active(rs)) = f[r] + SumFunctionOnSet(f, A)
      BY <2>1, <3>1, SumTake
    <3> QED BY <3>2, <3>3 DEF Held, f
  <2>2. CASE r \notin Active(rs)
    <3>1. Active(rs) = A
      BY <2>2
    <3> HIDE DEF A, f
    <3> QED BY <2>2, <3>1, <1>6 DEF Held, HoldOf, f
  <2> QED BY <2>1, <2>2
<1>8. Held(new) = HoldOf(new, r) + SumFunctionOnSet(g, A) /\ HoldOf(new, r) \in Nat
  <2>1. CASE r \in Active(new)
    <3>1. \A q \in Active(new) : g[q] \in Nat
      BY <1>1, <1>5
    <3>2. g[r] = HoldOf(new, r) /\ g[r] \in Nat
      BY <2>1 DEF HoldOf
    <3> HIDE DEF g
    <3>3. SumFunctionOnSet(g, Active(new)) = g[r] + SumFunctionOnSet(g, Active(new) \ {r})
      BY <2>1, <3>1, <1>4, SumTake
    <3> QED BY <1>1, <3>2, <3>3 DEF Held, g
  <2>2. CASE r \notin Active(new)
    <3>1. Active(new) = A
      BY <1>1, <2>2
    <3> HIDE DEF A, g, f
    <3> QED BY <2>2, <3>1, <1>6 DEF Held, HoldOf, g
  <2> QED BY <2>1, <2>2
<1> HIDE DEF A, f, g
<1> QED BY <1>4, <1>6, <1>7, <1>8

(* Posting changes what the ledger shows as reserved by the rows' own part. *)
LEMMA PostedOwed ==
  ASSUME NEW actor, NEW rows \in Book, book \in Book, Post(actor, rows)
  PROVE  Owed(book) \in Int /\ Owed(book') = Owed(book) + Owed(rows)
BY DEF Post, With, Owed, Book, RowTypes

(* What a run changes hands is what the rows say. *)
LEMMA HeldAsPosted ==
  ASSUME TypeOK, HoldInv, NEW r \in Runs, \A q \in Runs : q # r => run'[q] = run[q],
         r \in Active(run') => run'[r].hold \in Nat,
         Owed(book') - Owed(book) = HoldOf(run', r) - HoldOf(run, r), Owed(book') \in Int
  PROVE  IsFiniteSet(Active(run))' /\ HoldsMatchLedger'
<1>1. \A q \in Active(run) : run[q].hold \in Nat
  BY RunKinds DEF Active, Started, StartedRun
<1>2. IsFiniteSet(Active(run)) /\ Held(run) = Owed(book)
  BY DEF HoldInv, HoldsMatchLedger, Held, Owed
<1>3. /\ IsFiniteSet(Active(run'))
      /\ Held(run') \in Nat /\ Held(run) \in Nat
      /\ Held(run') - HoldOf(run', r) = Held(run) - HoldOf(run, r)
  BY <1>1, <1>2, OthersHold
<1>4. HoldOf(run, r) \in Int /\ HoldOf(run', r) \in Int
  BY <1>1 DEF HoldOf
<1>5. Held(run') = Owed(book')
  <2>1. Held(run') = Held(run) - HoldOf(run, r) + HoldOf(run', r)
    BY <1>3, <1>4
  <2>2. Owed(book) = Held(run) /\ Owed(book) \in Int
    BY <1>2, <1>3
  <2>3. Owed(book') = Owed(book) - HoldOf(run, r) + HoldOf(run', r)
    BY <1>4, <2>2
  <2> QED BY <2>1, <2>2, <2>3
<1>6. HoldsMatchLedger' <=> Owed(book') = Held(run')
  BY DEF HoldsMatchLedger, Held, Owed, Active, Started
<1> QED BY <1>3, <1>5, <1>6 DEF Active, Started

(* A run that is active as before, and holds what it held. *)
LEMMA SameHold ==
  ASSUME TypeInv, HoldInv, UNCHANGED <<book, txn>>, NEW r \in Active(run), NEW new \in StartedRun,
         run' = [run EXCEPT ![r] = new], new.status = "active", new.hold = run[r].hold
  PROVE  HoldInv'
<1>1. TypeOK /\ r \in Runs /\ new # NoRun
  BY DEF TypeInv, Active, Started, StartedRun, NoRun
<1>2. \A q \in Runs : run'[q] = IF q = r THEN new ELSE run[q]
  BY <1>1 DEF TypeOK
<1>3. Active(run') = Active(run)
  BY <1>1, <1>2 DEF Active, Started
<1>4. run[r].hold \in Nat /\ Owed(book) \in Int
  BY <1>1, RunKinds DEF Active, Started, StartedRun, TypeOK, Book, RowTypes, Owed
<1>5. HoldOf(run', r) = HoldOf(run, r)
  BY <1>1, <1>2, <1>3 DEF HoldOf
<1>6. IsFiniteSet(Active(run))' /\ HoldsMatchLedger'
  <2>1. HoldOf(run, r) \in Nat /\ Owed(book') = Owed(book)
    BY <1>4 DEF HoldOf, Owed
  <2>2. run'[r].hold \in Nat
    BY <1>1, <1>2, <1>4
  <2>3. Owed(book') - Owed(book) = HoldOf(run', r) - HoldOf(run, r) /\ Owed(book') \in Int
    BY <1>4, <1>5, <2>1
  <2> QED BY <1>1, <1>2, <2>2, <2>3, HeldAsPosted
<1>7. SettledAreActive'
  BY <1>3 DEF HoldInv, SettledAreActive
<1> QED BY <1>6, <1>7 DEF HoldInv

LEMMA StartHolds ==
  ASSUME TypeInv, HoldInv, NEW t \in Slots, NEW r \in Runs, StartRun(t, r)
  PROVE  HoldInv'
<1> DEFINE price == Price[txn[t].draft]
<1>1. TypeOK /\ book \in Book
  BY DEF TypeInv, TypeOK
<1>2. price \in Nat
  BY <1>1, TxnKinds, AdmissionAssumption DEF StartRun, Starting, Starts
<1>3. /\ run[r] = NoRun
      /\ \A q \in Runs : q # r => run'[q] = run[q]
      /\ run'[r] # NoRun /\ run'[r].status = "active" /\ run'[r].hold = price
  BY <1>1 DEF StartRun, TypeOK, NoRun
<1>4. HoldOf(run, r) = 0 /\ HoldOf(run', r) = price
  BY <1>3 DEF HoldOf, Active, Started
<1>5. Row("RESERVE", price) \in Book /\ Owed(Row("RESERVE", price)) = price
  BY <1>2 DEF Row, Blank, Book, Owed, RowTypes
<1>6. Owed(book) \in Int /\ Owed(book') = Owed(book) + price
  BY <1>1, <1>5, PostedOwed DEF StartRun
<1> HIDE DEF price
<1>7. IsFiniteSet(Active(run))' /\ HoldsMatchLedger'
  BY <1>1, <1>2, <1>3, <1>4, <1>6, HeldAsPosted
<1>8. \A s \in Slots : txn'[s].kind = "settle" => txn'[s] = txn[s]
  BY <1>1, CloseTyped DEF StartRun
<1>9. Active(run) \subseteq Active(run')
  BY <1>3 DEF Active, Started
<1> QED BY <1>7, <1>8, <1>9 DEF HoldInv, SettledAreActive

LEMMA SettleHolds ==
  ASSUME TypeInv, HoldInv, NEW t \in Slots, Settle(t)
  PROVE  HoldInv'
<1> DEFINE r == txn[t].run
           p == txn[t].part
           c == txn[t].cost
           rows == [Row("DEBIT", c) EXCEPT !.RELEASE = p]
<1>1. TypeOK /\ book \in Book
  BY DEF TypeInv, TypeOK
<1>2. txn[t] \in Settlements /\ r \in Active(run) /\ r \in Runs /\ p \in Nat /\ c \in Nat
  BY <1>1, TxnKinds DEF Settle, Settlements, HoldInv, SettledAreActive
<1>3. run[r] \in StartedRun /\ run[r].hold \in Nat /\ p <= run[r].hold
  BY <1>1, <1>2, RunKinds DEF Active, Started, StartedRun, TypeInv, SettlementsFit, Settle
<1>4. \A q \in Runs : run'[q] = IF q = r THEN AfterJob(run[r], HoldAfter(t)) ELSE run[q]
  BY <1>1, <1>2 DEF Settle, TypeOK
<1>5. run'[r] # NoRun /\ run'[r].status = run[r].status /\ run'[r].hold = run[r].hold - p
  BY <1>2, <1>3, <1>4 DEF AfterJob, HoldAfter, StartedRun, NoRun
<1>6. Active(run') = Active(run)
  BY <1>2, <1>4, <1>5 DEF Active, Started
<1>7. HoldOf(run', r) = HoldOf(run, r) - p /\ HoldOf(run, r) \in Nat
  BY <1>2, <1>3, <1>5, <1>6 DEF HoldOf
<1>8. rows \in Book /\ Owed(rows) = - p
  <2>1. rows = [y \in RowTypes |-> CASE y = "DEBIT" -> c [] y = "RELEASE" -> p [] OTHER -> 0]
    BY DEF Row, Blank, RowTypes
  <2>2. rows.RELEASE = p /\ rows.RESERVE = 0
    BY <2>1 DEF RowTypes
  <2>3. rows \in Book
    BY <1>2, <2>1 DEF Book, RowTypes
  <2> HIDE DEF rows
  <2> QED BY <1>2, <2>2, <2>3 DEF Owed
<1>9. Owed(book) \in Int /\ Owed(book') = Owed(book) - p
  <2>1. Post(txn[t].by, rows)
    BY DEF Settle, Settled
  <2> HIDE DEF rows
  <2> QED BY <1>1, <1>2, <1>8, <2>1, PostedOwed
<1>10. \A s \in Slots : txn'[s].kind = "settle" => txn'[s] = txn[s]
  BY <1>1, CloseTyped DEF Settle
<1> HIDE DEF rows, r, p, c
<1>11. run'[r].hold \in Nat /\ \A q \in Runs : q # r => run'[q] = run[q]
  BY <1>2, <1>3, <1>4, <1>5
<1>12. IsFiniteSet(Active(run))' /\ HoldsMatchLedger'
  BY <1>1, <1>2, <1>7, <1>9, <1>11, HeldAsPosted
<1> QED BY <1>6, <1>10, <1>12 DEF HoldInv, SettledAreActive

LEMMA EndHolds ==
  ASSUME TypeInv, HoldInv, NEW r \in Runs, NEW a \in Actors, EndRun(r, a)
  PROVE  HoldInv'
<1>1. TypeOK /\ book \in Book /\ r \in Active(run)
  BY DEF TypeInv, TypeOK, EndRun
<1>2. run[r] \in StartedRun /\ run[r].hold \in Nat
  BY <1>1, RunKinds DEF Active, Started, StartedRun
<1>3. /\ \A q \in Runs : q # r => run'[q] = run[q]
      /\ run'[r].status = "ended"
  BY <1>1, <1>2 DEF EndRun, TypeOK, StartedRun
<1>4. HoldOf(run, r) = run[r].hold /\ HoldOf(run', r) = 0 /\ r \notin Active(run')
  BY <1>1, <1>3 DEF HoldOf, Active
<1>5. Row("RELEASE", run[r].hold) \in Book /\ Owed(Row("RELEASE", run[r].hold)) = - run[r].hold
  BY <1>2 DEF Row, Blank, Book, Owed, RowTypes
<1>6. Owed(book) \in Int /\ Owed(book') = Owed(book) - run[r].hold
  BY <1>1, <1>2, <1>5, PostedOwed DEF EndRun
<1>7. IsFiniteSet(Active(run))' /\ HoldsMatchLedger'
  BY <1>1, <1>2, <1>3, <1>4, <1>6, HeldAsPosted
<1>8. \A s \in Slots : txn'[s].kind = "settle" => txn'[s] = txn[s] /\ txn[s].run # r
  BY DEF EndRun, Settling
<1>9. \A q \in Active(run) : q # r => q \in Active(run')
  BY <1>3 DEF Active, Started
<1> QED BY <1>7, <1>8, <1>9 DEF HoldInv, SettledAreActive

LEMMA HoldNext == TypeInv /\ HoldInv /\ [Next]_vars => HoldInv'
<1> SUFFICES ASSUME TypeInv, HoldInv, [Next]_vars PROVE HoldInv'
  OBVIOUS
<1>0. TypeOK
  BY DEF TypeInv
<1>1. ASSUME UNCHANGED <<run, book>>,
             \A s \in Slots : txn'[s].kind = "settle" => txn'[s] = txn[s]
      PROVE  HoldInv'
  BY <1>1 DEF HoldInv, SettledAreActive, HoldsMatchLedger
<1>2. ASSUME NEW t \in Slots, NEW u \in Users, NEW d \in Drafts, StartBegin(t, u, d)
      PROVE  HoldInv'
  BY <1>0, <1>1, <1>2 DEF StartBegin, TypeOK
<1>3. ASSUME NEW t \in Slots,
             StartReuse(t) \/ StartRefuse(t) \/ StartConflict(t) \/ SettleRefuse(t)
      PROVE  HoldInv'
  BY <1>0, <1>1, <1>3, CloseTyped DEF StartReuse, StartRefuse, StartConflict, SettleRefuse
<1>4. ASSUME NEW t \in Slots, NEW r \in Runs, NEW a \in Actors, SettleBegin(t, r, a)
      PROVE  HoldInv'
  <2>1. \A s \in Slots : txn'[s].kind = "settle" => txn'[s] = txn[s] \/ txn'[s].run = r
    BY <1>0, <1>4 DEF SettleBegin, TypeOK
  <2>2. r \in Active(run) /\ UNCHANGED <<run, book>>
    BY <1>4 DEF SettleBegin
  <2> QED BY <2>1, <2>2 DEF HoldInv, SettledAreActive, HoldsMatchLedger
<1>5. ASSUME NEW r \in Runs, WindowPasses(r) PROVE HoldInv'
  <2> DEFINE new == [run[r] EXCEPT !.recent = FALSE]
  <2>1. r \in Active(run) /\ run[r] \in StartedRun /\ run[r].status = "active"
    BY <1>0, <1>5, RunKinds DEF WindowPasses, Active, Started
  <2>2. new \in StartedRun /\ new.status = "active" /\ new.hold = run[r].hold
    BY <2>1 DEF StartedRun
  <2>3. run' = [run EXCEPT ![r] = new] /\ UNCHANGED <<book, txn>>
    BY <1>5 DEF WindowPasses
  <2> HIDE DEF new
  <2> QED BY <2>1, <2>2, <2>3, SameHold
<1>6. ASSUME NEW r \in Runs, SubmitJob(r) PROVE HoldInv'
  <2> DEFINE new == [run[r] EXCEPT !.job = TRUE]
  <2>1. r \in Active(run) /\ run[r] \in StartedRun /\ run[r].status = "active"
    BY <1>0, <1>6, RunKinds DEF SubmitJob, Active, Started
  <2>2. new \in StartedRun /\ new.status = "active" /\ new.hold = run[r].hold
    BY <2>1 DEF StartedRun
  <2>3. run' = [run EXCEPT ![r] = new] /\ UNCHANGED <<book, txn>>
    BY <1>6 DEF SubmitJob
  <2> HIDE DEF new
  <2> QED BY <2>1, <2>2, <2>3, SameHold
<1>7. ASSUME NEW u \in Users, NEW a \in TopUps, TopUp(u, a) PROVE HoldInv'
  <2>1. Row("CREDIT", a) \in Book /\ Owed(Row("CREDIT", a)) = 0
    BY AdmissionAssumption DEF Row, Blank, Book, Owed, RowTypes
  <2>2. Owed(book') = Owed(book)
    BY <1>0, <1>7, <2>1, PostedOwed DEF TopUp, TypeOK
  <2>3. UNCHANGED <<run, txn>>
    BY <1>7 DEF TopUp
  <2> QED BY <2>2, <2>3 DEF HoldInv, SettledAreActive, HoldsMatchLedger, Owed
<1>8. ASSUME Midnight \/ UNCHANGED vars PROVE HoldInv'
  BY <1>1, <1>8 DEF Midnight, vars
<1> QED BY <1>2, <1>3, <1>4, <1>5, <1>6, <1>7, <1>8, StartHolds, SettleHolds, EndHolds DEF Next

(* Init establishes it. *)
LEMMA HoldInit == Init => HoldInv
<1> SUFFICES ASSUME Init PROVE HoldInv
  OBVIOUS
<1>1. Active(run) = {}
  BY DEF Init, Active, Started, NoRun
<1>2. SumFunctionOnSet([r \in Active(run) |-> run[r].hold], Active(run)) = 0
  BY <1>1, SumEmpty
<1>3. book.RESERVE - book.RELEASE = 0
  BY DEF Init, Blank, RowTypes
<1> QED
  BY <1>1, <1>2, <1>3, FS_EmptySet, IdleKind
  DEF Init, HoldInv, SettledAreActive, HoldsMatchLedger

(* What the ledger shows as reserved is what the active runs hold, however *)
(* many starts, settlements and ends of runs overlap: no reservation is    *)
(* left behind by a run that is over, and none is released twice.          *)
THEOREM HoldsInLedger == Spec => []HoldsMatchLedger
<1>1. HoldInv => HoldsMatchLedger
  BY DEF HoldInv
<1> QED BY <1>1, HoldInit, HoldNext, TypeInit, TypeStep, PTL DEF Spec

-----------------------------------------------------------------------------
(* The limits on active runs, each of them of one set of users: all of     *)
(* them, or one.  A start in flight is pending if its snapshot lets it     *)
(* through; while the limit is reached no start becomes pending, and       *)
(* when it is reached at most the other slots are.                         *)

Pending(limit, users) ==
  {t \in Slots : /\ Starting(t) /\ txn[t].user \in users
                 /\ Cardinality(ActiveOf(txn[t].view.run, users)) < limit}

Within(limit, users) ==
  \/ Cardinality(ActiveOf(run, users)) < limit
  \/ Cardinality(ActiveOf(run, users)) + Cardinality(Pending(limit, users))
       <= limit + Cardinality(Slots) - 1

(* Every start of these users is checked against the limit. *)
Enforced(limit, users) ==
  \A v \in Views, u \in users, d \in Drafts :
    CanStart(v, u, d) => Cardinality(ActiveOf(v.run, users)) < limit

WithinLimits ==
  /\ MaxActive > 0 => Within(MaxActive, Users)
  /\ MaxActivePerUser > 0 => \A u \in Users : Within(MaxActivePerUser, {u})

LEMMA FiniteCounts ==
  ASSUME IsFiniteSet(Slots), IsFiniteSet(Active(run)), NEW limit, NEW users
  PROVE  /\ IsFiniteSet(ActiveOf(run, users)) /\ Cardinality(ActiveOf(run, users)) \in Nat
         /\ IsFiniteSet(Pending(limit, users)) /\ Cardinality(Pending(limit, users)) \in Nat
         /\ Cardinality(Slots) \in Nat
<1>1. ActiveOf(run, users) \in SUBSET Active(run) /\ Pending(limit, users) \in SUBSET Slots
  BY DEF ActiveOf, Pending
<1>2. IsFiniteSet(ActiveOf(run, users)) /\ IsFiniteSet(Pending(limit, users))
  BY <1>1, FS_Subset
<1> QED BY <1>2, FS_CardinalityType

(* A step that adds no active run and opens no start. *)
LEMMA FewerKeep ==
  ASSUME IsFiniteSet(Slots), IsFiniteSet(Active(run)), IsFiniteSet(Active(run')),
         NEW limit \in Nat, NEW users, Within(limit, users),
         ActiveOf(run', users) \subseteq ActiveOf(run, users),
         \A t \in Slots : txn'[t].kind = "start" => txn'[t] = txn[t]
  PROVE  Within(limit, users)'
<1> DEFINE A == ActiveOf(run, users)
           B == ActiveOf(run', users)
           P == Pending(limit, users)
           Q == Pending(limit, users)'
<1>1. /\ IsFiniteSet(A) /\ Cardinality(A) \in Nat /\ IsFiniteSet(P) /\ Cardinality(P) \in Nat
      /\ Cardinality(Slots) \in Nat
  BY FiniteCounts
<1>2. B \in SUBSET A /\ Q \in SUBSET P
  BY DEF Pending, Starting
<1>3. /\ IsFiniteSet(B) /\ Cardinality(B) <= Cardinality(A) /\ Cardinality(B) \in Nat
      /\ IsFiniteSet(Q) /\ Cardinality(Q) <= Cardinality(P) /\ Cardinality(Q) \in Nat
  <2> HIDE DEF A, B, P, Q
  <2> QED BY <1>1, <1>2, FS_Subset, FS_CardinalityType
<1>4. \/ Cardinality(A) < limit
      \/ Cardinality(A) + Cardinality(P) <= limit + Cardinality(Slots) - 1
  BY DEF Within
<1>5. \/ Cardinality(B) < limit
      \/ Cardinality(B) + Cardinality(Q) <= limit + Cardinality(Slots) - 1
  <2> HIDE DEF A, B, P, Q
  <2> QED BY <1>1, <1>3, <1>4
<1> QED BY <1>5 DEF Within

(* A start that begins while the limit is reached is not pending. *)
LEMMA BeginWithin ==
  ASSUME TypeOK, NEW limit \in Nat, NEW users, Within(limit, users),
         NEW t \in Slots, NEW u \in Users, NEW d \in Drafts, StartBegin(t, u, d)
  PROVE  Within(limit, users)'
<1>1. UNCHANGED run
  BY DEF StartBegin
<1>2. CASE Cardinality(ActiveOf(run, users)) < limit
  BY <1>1, <1>2 DEF Within
<1>3. CASE ~(Cardinality(ActiveOf(run, users)) < limit)
  <2> DEFINE tx == [kind |-> "start", user |-> u, draft |-> d, view |-> View]
  <2>1. \A s \in Slots : txn'[s] = IF s = t THEN tx ELSE txn[s]
    BY DEF StartBegin, TypeOK
  <2>2. tx.view.run = run
    BY DEF View
  <2>3. txn[t].kind # "start"
    BY IdleKind DEF StartBegin
  <2> HIDE DEF tx
  <2>4. Pending(limit, users)' = Pending(limit, users)
    BY <1>3, <2>1, <2>2, <2>3 DEF Pending, Starting
  <2> QED BY <1>1, <1>3, <2>4 DEF Within
<1> QED BY <1>2, <1>3

(* A run that is started was pending. *)
LEMMA StartWithin ==
  ASSUME TypeOK, IsFiniteSet(Slots), IsFiniteSet(Active(run)),
         NEW limit \in Nat, NEW users, Enforced(limit, users), Within(limit, users),
         NEW t \in Slots, NEW r \in Runs, StartRun(t, r)
  PROVE  Within(limit, users)'
<1> DEFINE A == ActiveOf(run, users)
           P == Pending(limit, users)
           Q == Pending(limit, users)'
<1>1. /\ IsFiniteSet(A) /\ Cardinality(A) \in Nat /\ IsFiniteSet(P) /\ Cardinality(P) \in Nat
      /\ Cardinality(Slots) \in Nat
  BY FiniteCounts
<1>2. txn[t] \in Starts /\ Starting(t)
  BY TxnKinds DEF StartRun, Starting
<1>3. Q \subseteq P \ {t} /\ Q \subseteq Slots \ {t}
  BY CloseTyped DEF StartRun, Pending, Starting
<1>4. /\ run[r] = NoRun /\ \A q \in Runs : q # r => run'[q] = run[q]
      /\ run'[r] # NoRun /\ run'[r].status = "active" /\ run'[r].user = txn[t].user
  BY DEF StartRun, TypeOK, NoRun
<1>5. /\ IsFiniteSet(Q) /\ Cardinality(Q) \in Nat
      /\ Cardinality(Q) <= Cardinality(Slots) - 1
      /\ t \in P => Cardinality(Q) <= Cardinality(P) - 1
      /\ Cardinality(Q) <= Cardinality(P)
  <2> HIDE DEF A, P, Q
  <2>1. /\ IsFiniteSet(Slots \ {t}) /\ Cardinality(Slots \ {t}) = Cardinality(Slots) - 1
        /\ IsFiniteSet(P \ {t})
        /\ Cardinality(P \ {t}) = IF t \in P THEN Cardinality(P) - 1 ELSE Cardinality(P)
    BY <1>1, FS_RemoveElement
  <2>2. /\ IsFiniteSet(Q) /\ Cardinality(Q) <= Cardinality(Slots \ {t})
        /\ Cardinality(Q) <= Cardinality(P \ {t})
    BY <1>3, <2>1, FS_Subset
  <2>3. Cardinality(Q) \in Nat
    BY <2>2, FS_CardinalityType
  <2> QED BY <1>1, <2>1, <2>2, <2>3
<1>6. CASE txn[t].user \notin users
  <2>1. ActiveOf(run', users) = A
    BY <1>4, <1>6 DEF ActiveOf, Active, Started
  <2>2. Cardinality(A) < limit \/ Cardinality(A) + Cardinality(P) <= limit + Cardinality(Slots) - 1
    BY DEF Within
  <2>3. Cardinality(A) < limit \/ Cardinality(A) + Cardinality(Q) <= limit + Cardinality(Slots) - 1
    <3> HIDE DEF A, P, Q
    <3> QED BY <1>1, <1>5, <2>2
  <2> QED BY <2>1, <2>3 DEF Within
<1>7. CASE txn[t].user \in users
  <2>1. ActiveOf(run', users) = A \cup {r} /\ r \notin A
    BY <1>4, <1>7 DEF ActiveOf, Active, Started
  <2>2. Cardinality(ActiveOf(txn[t].view.run, users)) < limit
    BY <1>2, <1>7 DEF StartRun, Enforced, Starts
  <2>3. t \in P
    BY <1>2, <1>7, <2>2 DEF Pending
  <2>4. Cardinality(A \cup {r}) = Cardinality(A) + 1
    <3> HIDE DEF A
    <3> QED BY <1>1, <2>1, FS_AddElement
  <2>5. Cardinality(A) < limit \/ Cardinality(A) + Cardinality(P) <= limit + Cardinality(Slots) - 1
    BY DEF Within
  <2>6. Cardinality(A \cup {r}) + Cardinality(Q) <= limit + Cardinality(Slots) - 1
    <3> HIDE DEF A, P, Q
    <3> QED BY <1>1, <1>5, <2>3, <2>4, <2>5
  <2> QED BY <2>1, <2>6 DEF Within
<1> QED BY <1>6, <1>7

(* What the policy enforces is what a start needs. *)
LEMMA LimitsEnforced ==
  /\ MaxActive > 0 => Enforced(MaxActive, Users)
  /\ MaxActivePerUser > 0 => \A u \in Users : Enforced(MaxActivePerUser, {u})
BY DEF Enforced, CanStart, ActiveRunsAllow

(* One limit, through every step. *)
LEMMA WithinNext ==
  ASSUME IsFiniteSet(Slots), TypeInv, HoldInv, HoldInv', [Next]_vars,
         NEW limit \in Nat, NEW users, Enforced(limit, users), Within(limit, users)
  PROVE  Within(limit, users)'
<1>1. TypeOK /\ IsFiniteSet(Active(run)) /\ IsFiniteSet(Active(run'))
  BY DEF TypeInv, HoldInv
<1>2. ASSUME NEW t \in Slots, NEW u \in Users, NEW d \in Drafts, StartBegin(t, u, d)
      PROVE  Within(limit, users)'
  BY <1>1, <1>2, BeginWithin
<1>3. ASSUME NEW t \in Slots, NEW r \in Runs, StartRun(t, r)
      PROVE  Within(limit, users)'
  BY <1>1, <1>3, StartWithin
<1>4. CASE /\ ~\E t \in Slots : \E u \in Users, d \in Drafts : StartBegin(t, u, d)
           /\ ~\E t \in Slots : \E r \in Runs : StartRun(t, r)
  <2>1. RunsAge /\ \A t \in Slots : txn'[t].kind = "start" => txn'[t] = txn[t]
    BY <1>4, OthersAge
  <2>2. ActiveOf(run', users) \subseteq ActiveOf(run, users)
    BY <2>1 DEF RunsAge, ActiveOf, Active, Started
  <2> QED BY <1>1, <2>1, <2>2, FewerKeep
<1> QED BY <1>2, <1>3, <1>4

(* Nothing is active or pending at first. *)
LEMMA WithinInit ==
  ASSUME IsFiniteSet(Slots), Init, NEW limit \in Nat \ {0}, NEW users
  PROVE  Within(limit, users)
<1>1. ActiveOf(run, users) = {}
  BY DEF Init, ActiveOf, Active, Started, NoRun
<1> QED BY <1>1, FS_EmptySet DEF Within

LEMMA WithinBound ==
  ASSUME IsFiniteSet(Slots), IsFiniteSet(Active(run)),
         NEW limit \in Nat, NEW users, Within(limit, users)
  PROVE  Cardinality(ActiveOf(run, users)) <= limit + (Cardinality(Slots) - 1)
BY FiniteCounts DEF Within

(* However starts overlap one another and the ends of runs, the active     *)
(* runs of the project and of each member exceed their limits by at most   *)
(* the number of starts that can be in flight beside one: a start that is  *)
(* counted out is never let through later on what it saw before.           *)
THEOREM OverlapWithinLimits ==
  ASSUME IsFiniteSet(Slots)
  PROVE  Spec => []ActiveRunsWithinLimits
<1>1. {MaxActive, MaxActivePerUser} \subseteq Nat
  BY AdmissionAssumption
<1>2. Init => WithinLimits
  BY <1>1, WithinInit DEF WithinLimits
<1>3. TypeInv /\ HoldInv /\ HoldInv' /\ WithinLimits /\ [Next]_vars => WithinLimits'
  <2> SUFFICES ASSUME TypeInv, HoldInv, HoldInv', WithinLimits, [Next]_vars
               PROVE  WithinLimits'
    OBVIOUS
  <2>1. ASSUME MaxActive > 0 PROVE Within(MaxActive, Users)'
    BY <1>1, <2>1, LimitsEnforced, WithinNext DEF WithinLimits
  <2>2. ASSUME MaxActivePerUser > 0, NEW u \in Users
        PROVE  Within(MaxActivePerUser, {u})'
    BY <1>1, <2>2, LimitsEnforced, WithinNext DEF WithinLimits
  <2> QED BY <2>1, <2>2 DEF WithinLimits
<1>4. HoldInv /\ WithinLimits => ActiveRunsWithinLimits
  BY <1>1, WithinBound DEF HoldInv, WithinLimits, ActiveRunsWithinLimits
<1> QED BY <1>2, <1>3, <1>4, HoldInit, HoldNext, TypeInit, TypeStep, PTL DEF Spec

-----------------------------------------------------------------------------
(* Serialised starts and settlements, of models that all have a price, keep *)
(* the contract of the account.  Each step of the account's is one of       *)
(* StartRun, Settle, EndRun and TopUp; the others leave it as it is.        *)

HeldBy(rs) == [r \in Runs |-> IF r \in Active(rs) THEN rs[r].hold ELSE 0]
StageOf(rs) == [r \in Runs |-> IF rs[r] = NoRun THEN "new" ELSE rs[r].status]

LEMMA AccountInit == Init => Account!Init
BY DEF Init, Account!Init, Available, Blank, RowTypes, Active, Started

LEMMA AdmitStep ==
  ASSUME TypeInv, BalanceInv, NEW t \in Slots, NEW r \in Runs, StartRun(t, r)
  PROVE  Account!Admit(r)
<1> DEFINE price == Price[txn[t].draft]
<1>1. TypeOK /\ book \in Book /\ Available(book) \in Int /\ Available(book) >= 0
  BY BalanceIsAvailable DEF TypeInv, TypeOK, BalanceInv
<1>2. txn[t] \in Starts /\ price \in Nat
  BY <1>1, TxnKinds, AdmissionAssumption DEF StartRun, Starting, Starts
<1>3. /\ run[r] = NoRun /\ \A q \in Runs : q # r => run'[q] = run[q]
      /\ run'[r] # NoRun /\ run'[r].status = "active" /\ run'[r].hold = price
  BY <1>1 DEF StartRun, TypeOK, NoRun
<1>4. /\ Row("RESERVE", price) \in Book /\ Available(Row("RESERVE", price)) = - price
      /\ Row("RESERVE", price).DEBIT = 0
  BY <1>2 DEF Row, Blank, Book, Available, RowTypes
<1>5. Available(book') = Available(book) - price /\ book'.DEBIT = book.DEBIT
  <2>1. Post(txn[t].user, Row("RESERVE", price))
    BY DEF StartRun
  <2>2. book.DEBIT \in Nat
    BY <1>1 DEF Book, RowTypes
  <2> HIDE DEF price
  <2> QED BY <1>1, <1>2, <1>4, <2>1, <2>2, PostedBalance
<1>6. price <= Available(book)
  <2>1. Available(txn[t].view.book) \in Int
    BY <1>2 DEF Starts, Views, Available, Book, RowTypes
  <2>2. Available(txn[t].view.book) <= Available(book)
    BY DEF BalanceInv, CreditsStillThere, StartRun, Starting
  <2>3. price > 0 => price <= Available(txn[t].view.book)
    BY DEF StartRun, CanStart
  <2> HIDE DEF price
  <2> QED BY <1>1, <1>2, <2>1, <2>2, <2>3
<1> HIDE DEF price
<1>7. HeldBy(run') = [HeldBy(run) EXCEPT ![r] = price]
  BY <1>3 DEF HeldBy, Active, Started
<1>8. StageOf(run)[r] = "new" /\ StageOf(run') = [StageOf(run) EXCEPT ![r] = "active"]
  BY <1>3 DEF StageOf
<1>9. Available(book') \in 0..Available(book) /\ Available(book) - Available(book') = price
  BY <1>1, <1>2, <1>5, <1>6
<1> QED BY <1>5, <1>7, <1>8, <1>9 DEF Account!Admit, HeldBy, StageOf

LEMMA SettleStep ==
  ASSUME TypeInv, BalanceInv, HoldInv, NEW t \in Slots, Settle(t),
         NEW r \in Runs, r = txn[t].run
  PROVE  Account!Settle(r)
<1> DEFINE p == txn[t].part
           c == txn[t].cost
           rows == [Row("DEBIT", c) EXCEPT !.RELEASE = p]
<1>1. TypeOK /\ book \in Book /\ Available(book) \in Int /\ Available(book) >= 0
  BY BalanceIsAvailable DEF TypeInv, TypeOK, BalanceInv
<1>2. txn[t] \in Settlements /\ r \in Active(run) /\ r \in Runs /\ p \in Nat /\ c \in Nat /\ p > 0
  BY <1>1, TxnKinds
  DEF Settle, Settlements, HoldInv, SettledAreActive, BalanceInv, PartsArePaid
<1>3. /\ run[r] \in StartedRun /\ run[r].status = "active"
      /\ run[r].hold \in Nat /\ p <= run[r].hold
  BY <1>1, <1>2, RunKinds DEF Active, Started, StartedRun, TypeInv, SettlementsFit, Settle
<1>4. \A q \in Runs : run'[q] = IF q = r THEN AfterJob(run[r], HoldAfter(t)) ELSE run[q]
  BY <1>1, <1>2 DEF Settle, TypeOK
<1>5. run'[r] # NoRun /\ run'[r].status = "active" /\ run'[r].hold = run[r].hold - p
  BY <1>2, <1>3, <1>4 DEF AfterJob, HoldAfter, StartedRun, NoRun
<1>6. rows \in Book /\ Available(rows) = p - c /\ rows.DEBIT = c
  <2>1. rows = [y \in RowTypes |-> CASE y = "DEBIT" -> c [] y = "RELEASE" -> p [] OTHER -> 0]
    BY DEF Row, Blank, RowTypes
  <2>2. rows.DEBIT = c /\ rows.RELEASE = p /\ rows.CREDIT = 0 /\ rows.RESERVE = 0
    BY <2>1 DEF RowTypes
  <2>3. rows \in Book
    BY <1>2, <2>1 DEF Book, RowTypes
  <2> HIDE DEF rows
  <2> QED BY <1>2, <2>2, <2>3 DEF Available
<1>7. Available(book') = Available(book) + p - c /\ book'.DEBIT = book.DEBIT + c
  <2>1. Post(txn[t].by, rows)
    BY DEF Settle, Settled
  <2>2. book.DEBIT \in Nat
    BY <1>1 DEF Book, RowTypes
  <2> HIDE DEF rows
  <2> QED BY <1>1, <1>2, <1>6, <2>1, <2>2, PostedBalance
<1>8. c <= Available(book) + p
  <2>1. Available(txn[t].view.book) \in Int
    BY <1>2 DEF Settlements, Views, Available, Book, RowTypes
  <2>2. Available(txn[t].view.book) <= Available(book)
    BY DEF BalanceInv, CreditsStillThere, Settle
  <2>3. c <= p \/ c - p <= Available(txn[t].view.book)
    BY <1>2 DEF Settle, Payable
  <2> HIDE DEF p, c
  <2> QED BY <1>1, <1>2, <2>1, <2>2, <2>3
<1> HIDE DEF p, c, rows
<1>9. /\ HeldBy(run)[r] = run[r].hold
      /\ HeldBy(run') = [HeldBy(run) EXCEPT ![r] = run[r].hold - p]
  BY <1>2, <1>4, <1>5 DEF HeldBy, Active, Started
<1>10. StageOf(run)[r] = "active" /\ StageOf(run') = StageOf(run)
  BY <1>2, <1>3, <1>4, <1>5 DEF StageOf, Active, Started
<1>11. p \in 0..HeldBy(run)[r] /\ c \in 0..(Available(book) + p)
  BY <1>1, <1>2, <1>3, <1>8, <1>9
<1> QED BY <1>7, <1>9, <1>10, <1>11 DEF Account!Settle, HeldBy, StageOf

LEMMA EndStep ==
  ASSUME TypeInv, NEW r \in Runs, NEW a \in Actors, EndRun(r, a)
  PROVE  Account!End(r)
<1>1. TypeOK /\ book \in Book /\ r \in Active(run) /\ Available(book) \in Int
  BY BalanceIsAvailable DEF TypeInv, TypeOK, EndRun
<1>2. run[r] \in StartedRun /\ run[r].hold \in Nat /\ run[r].status = "active"
  BY <1>1, RunKinds DEF Active, Started, StartedRun
<1> DEFINE new == [run[r] EXCEPT !.status = "ended", !.hold = 0, !.job = FALSE]
<1>3. new.status = "ended" /\ new # NoRun
  BY <1>2 DEF StartedRun, NoRun
<1>4. \A q \in Runs : run'[q] = IF q = r THEN new ELSE run[q]
  BY <1>1 DEF EndRun, TypeOK
<1> HIDE DEF new
<1>5. /\ Row("RELEASE", run[r].hold) \in Book
      /\ Available(Row("RELEASE", run[r].hold)) = run[r].hold
      /\ Row("RELEASE", run[r].hold).DEBIT = 0
  BY <1>2 DEF Row, Blank, Book, Available, RowTypes
<1>6. Available(book') = Available(book) + run[r].hold /\ book'.DEBIT = book.DEBIT
  <2>1. Post(a, Row("RELEASE", run[r].hold))
    BY DEF EndRun
  <2>2. book.DEBIT \in Nat
    BY <1>1 DEF Book, RowTypes
  <2> QED BY <1>1, <1>2, <1>5, <2>1, <2>2, PostedBalance
<1>7. HeldBy(run)[r] = run[r].hold /\ HeldBy(run') = [HeldBy(run) EXCEPT ![r] = 0]
  BY <1>1, <1>3, <1>4 DEF HeldBy, Active, Started
<1>8. StageOf(run)[r] = "active" /\ StageOf(run') = [StageOf(run) EXCEPT ![r] = "ended"]
  BY <1>1, <1>2, <1>3, <1>4 DEF StageOf, Active, Started
<1> QED BY <1>6, <1>7, <1>8 DEF Account!End, HeldBy, StageOf

LEMMA TopUpStep ==
  ASSUME TypeInv, BalanceInv, NEW u \in Users, NEW a \in TopUps, TopUp(u, a)
  PROVE  Account!TopUp
<1>1. book \in Book /\ Available(book) \in Int /\ Available(book) >= 0 /\ book.DEBIT \in Nat
  BY BalanceIsAvailable DEF TypeInv, TypeOK, BalanceInv, Book, RowTypes
<1>2. /\ a \in Nat /\ Row("CREDIT", a) \in Book /\ Available(Row("CREDIT", a)) = a
      /\ Row("CREDIT", a).DEBIT = 0
  BY AdmissionAssumption DEF Row, Blank, Book, Available, RowTypes
<1>3. Available(book') = Available(book) + a /\ book'.DEBIT = book.DEBIT /\ UNCHANGED run
  BY <1>1, <1>2, PostedBalance DEF TopUp
<1>4. Available(book') \in Nat /\ Available(book') >= Available(book)
  BY <1>1, <1>2, <1>3
<1> QED BY <1>3, <1>4 DEF Account!TopUp, Active, Started

(* A step that keeps the ledger and what the runs hold stutters. *)
LEMMA SameAccount ==
  ASSUME UNCHANGED book, \A q \in Runs : run'[q] = run[q]
  PROVE  UNCHANGED Account!account
BY DEF Account!account, Active, Started

LEMMA SameRunAccount ==
  ASSUME TypeInv, UNCHANGED book, NEW r \in Active(run), NEW new \in StartedRun,
         new.status = "active", new.hold = run[r].hold, run' = [run EXCEPT ![r] = new]
  PROVE  UNCHANGED Account!account
<1>1. \A q \in Runs : run'[q] = IF q = r THEN new ELSE run[q]
  BY DEF TypeInv, TypeOK
<1>2. run[r] # NoRun /\ run[r].status = "active" /\ new # NoRun
  BY DEF Active, Started, StartedRun, NoRun
<1>3. HeldBy(run') = HeldBy(run) /\ StageOf(run') = StageOf(run)
  BY <1>1, <1>2 DEF HeldBy, StageOf, Active, Started
<1> QED BY <1>3 DEF Account!account, HeldBy, StageOf

LEMMA AccountNext ==
  ASSUME TypeInv, BalanceInv, HoldInv, [Next]_vars
  PROVE  [Account!Next]_(Account!account)
<1>0. TypeOK
  BY DEF TypeInv
<1>1. ASSUME NEW t \in Slots, NEW r \in Runs, StartRun(t, r) PROVE Account!Next
  BY <1>1, AdmitStep DEF Account!Next
<1>2. ASSUME NEW t \in Slots, Settle(t) PROVE Account!Next
  <2>1. txn[t].run \in Runs
    BY <1>0, <1>2, TxnKinds DEF Settle, Settlements
  <2>2. PICK r \in Runs : r = txn[t].run
    BY <2>1
  <2>3. Account!Settle(r)
    BY <1>2, <2>2, SettleStep
  <2> QED BY <2>3 DEF Account!Next
<1>3. ASSUME NEW r \in Runs, NEW a \in Actors, EndRun(r, a) PROVE Account!Next
  BY <1>3, EndStep DEF Account!Next
<1>4. ASSUME NEW u \in Users, NEW a \in TopUps, TopUp(u, a) PROVE Account!Next
  BY <1>4, TopUpStep DEF Account!Next
<1>5. ASSUME UNCHANGED <<run, book>> PROVE UNCHANGED Account!account
  BY <1>5, SameAccount
<1>6. ASSUME NEW r \in Runs, WindowPasses(r) PROVE UNCHANGED Account!account
  <2> DEFINE new == [run[r] EXCEPT !.recent = FALSE]
  <2>1. r \in Active(run) /\ run[r] \in StartedRun /\ run[r].status = "active"
    BY <1>0, <1>6, RunKinds DEF WindowPasses, Active, Started
  <2>2. new \in StartedRun /\ new.status = "active" /\ new.hold = run[r].hold
    BY <2>1 DEF StartedRun
  <2>3. run' = [run EXCEPT ![r] = new] /\ UNCHANGED book
    BY <1>6 DEF WindowPasses
  <2> HIDE DEF new
  <2> QED BY <2>1, <2>2, <2>3, SameRunAccount
<1>7. ASSUME NEW r \in Runs, SubmitJob(r) PROVE UNCHANGED Account!account
  <2> DEFINE new == [run[r] EXCEPT !.job = TRUE]
  <2>1. r \in Active(run) /\ run[r] \in StartedRun /\ run[r].status = "active"
    BY <1>0, <1>7, RunKinds DEF SubmitJob, Active, Started
  <2>2. new \in StartedRun /\ new.status = "active" /\ new.hold = run[r].hold
    BY <2>1 DEF StartedRun
  <2>3. run' = [run EXCEPT ![r] = new] /\ UNCHANGED book
    BY <1>7 DEF SubmitJob
  <2> HIDE DEF new
  <2> QED BY <2>1, <2>2, <2>3, SameRunAccount
<1>8. ASSUME NEW t \in Slots,
             \/ \E u \in Users, d \in Drafts : StartBegin(t, u, d)
             \/ \E r \in Runs, a \in Actors : SettleBegin(t, r, a)
             \/ StartReuse(t) \/ StartRefuse(t) \/ StartConflict(t) \/ SettleRefuse(t)
      PROVE  UNCHANGED <<run, book>>
  BY <1>8 DEF StartBegin, SettleBegin, StartReuse, StartRefuse, StartConflict, SettleRefuse
<1>9. ASSUME Midnight \/ UNCHANGED vars PROVE UNCHANGED <<run, book>>
  BY <1>9 DEF Midnight, vars
<1> QED
  BY <1>1, <1>2, <1>3, <1>4, <1>5, <1>6, <1>7, <1>8, <1>9 DEF Next

(* Serialised starts and settlements keep the contract of the account,     *)
(* whatever the providers charge, as long as no model is free: a run is    *)
(* admitted with credits that were free, a settlement spends of its own    *)
(* reservation or of what is free, and all that a run still holds when it  *)
(* ends is free again.                                                     *)
THEOREM SerialAccount ==
  ASSUME Serial, ~FreeModels
  PROVE  Spec => HonoursAccount
<1>1. TypeInv /\ TypeInv' /\ BalanceInv /\ [Next]_vars => BalanceInv'
  BY BalanceNext
<1>2. TypeInv /\ BalanceInv /\ HoldInv /\ [Next]_vars => [Account!Next]_(Account!account)
  BY AccountNext
<1> QED
  BY <1>1, <1>2, AccountInit, BalanceInit, HoldInit, HoldNext, TypeInit, TypeStep, PTL
  DEF Spec, HonoursAccount, Account!Spec
=============================================================================
