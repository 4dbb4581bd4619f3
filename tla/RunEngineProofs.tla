-------------------------- MODULE RunEngineProofs --------------------------
(***************************************************************************)
(* Proofs about RunEngine, for every value of its constants.               *)
(*                                                                         *)
(* CreditInv needs no assumption: it rests on the ledger only growing, so  *)
(* that a stale snapshot shows at most what is there.  SerialInv is for    *)
(* one slot (Serial): the snapshot in flight is the rows themselves.  Both *)
(* are kept because every step either leaves the ledger alone or settles   *)
(* it in the one shape Settles names.  On top of SerialInv: what a step    *)
(* may do to jobs and nodes (Advances), and the order in which nodes wait  *)
(* (WaitInv).                                                              *)
(***************************************************************************)
EXTENDS RunEngine, TLAPS

(* The types of the rows, one by one. *)
RowsTyped ==
  /\ run \in RunStatus
  /\ node \in [Nodes -> NodeStatus]
  /\ output \in [Nodes -> {"none", "right", "wrong"}]
  /\ job \in [Nodes -> JobStatus \cup {"NONE"}]
  /\ ext \in [Nodes -> BOOLEAN]
  /\ reply \in [Nodes -> SuccessAnswers \cup {"none"}]
  /\ tries \in [Nodes -> Nat]
  /\ released \in [Nodes -> Nat]
  /\ debits \in [Nodes -> Nat]
  /\ assets \in [Nodes -> Nat]

(* The rows are well typed exactly when the view of them is.               *)
LEMMA RowsAreView == (Current \in Views <=> RowsTyped) /\ (Current' \in Views <=> RowsTyped')
  BY DEF Current, Views, RowsTyped

(* The view a run starts with is a view.                                   *)
LEMMA InitViewType == InitView \in Views
  BY DEF InitView, Views, RunStatus, NodeStatus

(* A free slot is well typed.                                              *)
LEMMA IdleType == Idle \in Txns
  BY InitViewType DEF Idle, Txns, Handlers

(* Setting some entries of a function to a value of its range keeps its    *)
(* type.                                                                   *)
LEMMA SetType ==
  ASSUME NEW V, NEW f \in [Nodes -> V], NEW S, NEW v \in V
  PROVE  Set(f, S, v) \in [Nodes -> V]
  BY DEF Set

(* Adding a row for some nodes keeps a count of rows a count.              *)
LEMMA AddType ==
  ASSUME NEW f \in [Nodes -> Nat], NEW S
  PROVE  Add(f, S) \in [Nodes -> Nat]
  BY DEF Add

(* Every answer gives the job one of its statuses.                         *)
LEMMA StatusOfType ==
  ASSUME NEW a \in AllAnswers \ {"raise"}
  PROVE  StatusOf(a) \in JobStatus
  BY DEF StatusOf, AllAnswers, WaitAnswers, SuccessAnswers, EndAnswers, JobStatus

(* Every answer leaves a reply that can be stored.                         *)
LEMMA ReplyOfType ==
  ASSUME NEW a
  PROVE  ReplyOf(a) \in SuccessAnswers \cup {"none"}
  BY DEF ReplyOf

(* Creating external jobs keeps their counts within the bound.             *)
LEMMA SubmitType ==
  ASSUME TypeOK, NEW S, Submit(S)
  PROVE  submits' \in [Nodes -> 0..MaxSubmits]
  BY EngineAssumption DEF TypeOK, Submit

(* Ending a transaction leaves a well-typed slot.                          *)
LEMMA EndType ==
  ASSUME TypeOK, NEW t \in Slots, End(t)
  PROVE  txn' \in [Slots -> Txns]
  BY IdleType DEF TypeOK, End

(* Queueing a run job keeps the queue within the bound.                    *)
LEMMA EnqueueType ==
  ASSUME TypeOK, Enqueue
  PROVE  deliveries' \in 0..MaxDeliveries
  BY EngineAssumption DEF TypeOK, Enqueue

(* The initial state is well typed.                                        *)
LEMMA TypeInit == Init => TypeOK
<1>. SUFFICES ASSUME Init PROVE TypeOK OBVIOUS
<1>1. Current = InitView BY DEF Init, InitView, Current
<1>. QED BY <1>1, InitViewType, IdleType, EngineAssumption DEF Init, TypeOK

(* Releasing, charging and depositing keep the ledger well typed.          *)
LEMMA LedgerType ==
  ASSUME RowsTyped, NEW s, NEW S
  PROVE  /\ Release(s, S) => released' \in [Nodes -> Nat]
         /\ Charge(s, S) => debits' \in [Nodes -> Nat]
         /\ Deposit(s, S) => assets' \in [Nodes -> Nat]
  BY AddType DEF RowsTyped, Release, Charge, Deposit

(* Completing nodes keeps the rows of nodes and jobs well typed.           *)
LEMMA CompletesType ==
  ASSUME RowsTyped, NEW s, NEW C, NEW K, NEW a \in AllAnswers \ {"raise"},
         Completes(s, C, K, a)
  PROVE  /\ output' \in [Nodes -> {"none", "right", "wrong"}]
         /\ job' \in [Nodes -> JobStatus \cup {"NONE"}]
         /\ ext' \in [Nodes -> BOOLEAN]
         /\ reply' \in [Nodes -> SuccessAnswers \cup {"none"}]
         /\ tries' \in [Nodes -> Nat]
         /\ debits' \in [Nodes -> Nat]
         /\ assets' \in [Nodes -> Nat]
<1>. DEFINE P == C \cap Provider
<1>1. "SUCCEEDED" \in JobStatus \cup {"NONE"} /\ "good" \in SuccessAnswers \cup {"none"}
  BY DEF JobStatus, SuccessAnswers
<1>2. StatusOf(a) \in JobStatus \cup {"NONE"} BY StatusOfType
<1>3. output' \in [Nodes -> {"none", "right", "wrong"}]
  BY SetType DEF Completes, RowsTyped
<1>4. job' \in [Nodes -> JobStatus \cup {"NONE"}]
  <2>1. Set(job, P, "SUCCEEDED") \in [Nodes -> JobStatus \cup {"NONE"}]
    BY <1>1, SetType DEF RowsTyped
  <2>. QED BY <2>1, <1>2, SetType DEF Completes
<1>5. ext' \in [Nodes -> BOOLEAN]
  BY SetType DEF Completes, RowsTyped
<1>6. reply' \in [Nodes -> SuccessAnswers \cup {"none"}]
  <2>1. Set(reply, P, "good") \in [Nodes -> SuccessAnswers \cup {"none"}]
    BY <1>1, SetType DEF RowsTyped
  <2>. QED BY <2>1, ReplyOfType, SetType DEF Completes
<1>. QED BY <1>3, <1>4, <1>5, <1>6, LedgerType DEF Completes, RowsTyped

(* An execution that ends the run keeps the types.                         *)
LEMMA TypeFinish ==
  ASSUME TypeOK, NEW t \in Slots, ExecFinish(t)
  PROVE  TypeOK'
<1>. DEFINE s == txn[t].snap
            C == Unfinished(s, N + 1)
<1>1. RowsTyped BY RowsAreView DEF TypeOK
<1>2. run' \in RunStatus BY DEF ExecFinish, RunStatus
<1>3. node' \in [Nodes -> NodeStatus]
  BY <1>1, SetType, "SUCCEEDED" \in NodeStatus DEF ExecFinish, RowsTyped, NodeStatus
<1>4. Completes(s, C, {}, "good") /\ Release(s, Nodes) /\ End(t) BY DEF ExecFinish
<1>5. "good" \in AllAnswers \ {"raise"} BY DEF AllAnswers, SuccessAnswers
<1>6. RowsTyped' BY <1>1, <1>2, <1>3, <1>4, <1>5, CompletesType, LedgerType DEF RowsTyped
<1>. QED BY <1>4, <1>6, RowsAreView, EndType, SubmitType DEF ExecFinish, TypeOK

(* An execution that leaves a node to the provider keeps the types.        *)
LEMMA TypeWait ==
  ASSUME TypeOK, NEW t \in Slots, ExecWait(t)
  PROVE  TypeOK'
<1>. DEFINE s == txn[t].snap
<1>1. RowsTyped BY RowsAreView DEF TypeOK
<1>2. PICK k \in Provider, a \in Answers \cap (WaitAnswers \cup EndAnswers) :
        /\ run' = "WAITING_PROVIDER"
        /\ node' = [Set(node, Unfinished(s, k), "SUCCEEDED") EXCEPT ![k] = "WAITING_PROVIDER"]
        /\ Completes(s, Unfinished(s, k), {k}, a)
        /\ Release(s, Unfinished(s, k))
        /\ Submit((Unfinished(s, k) \cup {k}) \cap {n \in Provider : Submitting(s, n)})
        /\ End(t) /\ UNCHANGED <<deliveries, aborts>>
  BY DEF ExecWait
<1>3. run' \in RunStatus BY <1>2 DEF RunStatus
<1>4. node' \in [Nodes -> NodeStatus]
  <2>1. Set(node, Unfinished(s, k), "SUCCEEDED") \in [Nodes -> NodeStatus]
    BY <1>1, SetType, "SUCCEEDED" \in NodeStatus DEF RowsTyped, NodeStatus
  <2>. QED BY <1>2, <2>1 DEF NodeStatus
<1>5. a \in AllAnswers \ {"raise"} BY DEF AllAnswers, WaitAnswers, EndAnswers
<1>6. RowsTyped' BY <1>1, <1>2, <1>3, <1>4, <1>5, CompletesType, LedgerType DEF RowsTyped
<1>. QED BY <1>2, <1>6, RowsAreView, EndType, SubmitType DEF TypeOK

(* An execution that raises leaves no row behind, only external jobs.      *)
LEMMA FailsLeaveRows ==
  ASSUME NEW t \in Slots, ExecReject(t) \/ ExecRaise(t) \/ ExecUnusable(t)
  PROVE  UNCHANGED <<rows, deliveries, aborts>> /\ End(t) /\ (\E S : Submit(S))
<1>1. \E S : ExecFails(t, S)
  BY DEF ExecReject, ExecRaise, ExecUnusable
<1>. QED BY <1>1 DEF ExecFails

(* Every end of a run job keeps the types.                                 *)
LEMMA TypeExecute ==
  ASSUME TypeOK, NEW t \in Slots, Execute(t)
  PROVE  TypeOK'
<1>. DEFINE s == txn[t].snap
<1>1. CASE ExecFinish(t) BY <1>1, TypeFinish
<1>2. CASE ExecWait(t) BY <1>2, TypeWait
<1>3. CASE ExecReject(t) \/ ExecRaise(t) \/ ExecUnusable(t)
  <2>1. RowsTyped'
    BY <1>3, FailsLeaveRows, RowsAreView DEF TypeOK, rows, RowsTyped
  <2>. QED BY <1>3, <2>1, FailsLeaveRows, RowsAreView, EndType, SubmitType DEF TypeOK
<1>. QED BY <1>1, <1>2, <1>3 DEF Execute

(* Recording a poll attempt keeps the attempts a count.                    *)
LEMMA PolledType ==
  ASSUME TypeOK, NEW t \in Slots, Polled(t)
  PROVE  tries' \in [Nodes -> Nat]
<1>. DEFINE n == txn[t].job
<1>1. RowsTyped BY RowsAreView DEF TypeOK
<1>2. txn[t].snap.tries \in [Nodes -> Nat] BY DEF TypeOK, Txns, Views
<1>3. n \in Nodes => txn[t].snap.tries[n] + 1 \in Nat BY <1>2
<1>. QED BY <1>1, <1>3 DEF Polled, RowsTyped

(* Applying an answer keeps the job rows well typed.                       *)
LEMMA AppliedType ==
  ASSUME TypeOK, NEW t \in Slots, NEW a \in AllAnswers \ {"raise"}, Applied(t, a)
  PROVE  /\ job' \in [Nodes -> JobStatus \cup {"NONE"}]
         /\ reply' \in [Nodes -> SuccessAnswers \cup {"none"}]
         /\ ext' \in [Nodes -> BOOLEAN]
         /\ tries' \in [Nodes -> Nat]
<1>. DEFINE n == txn[t].job
<1>1. RowsTyped BY RowsAreView DEF TypeOK
<1>2. StatusOf(a) \in JobStatus /\ ReplyOf(a) \in SuccessAnswers \cup {"none"}
  BY StatusOfType, ReplyOfType
<1>3. Polled(t) => tries' \in [Nodes -> Nat] BY <1>1, PolledType
<1>. QED BY <1>1, <1>2, <1>3 DEF Applied, RowsTyped, Names

(* Timing a node out keeps the rows well typed.                            *)
LEMMA TimeOutType ==
  ASSUME RowsTyped, NEW s, NEW n, TimeOut(s, n)
  PROVE  /\ node' \in [Nodes -> NodeStatus]
         /\ run' \in RunStatus
         /\ released' \in [Nodes -> Nat]
         /\ output' = output /\ debits' = debits /\ assets' = assets
<1>1. "FAILED" \in NodeStatus /\ {"EXPIRED", "FAILED"} \subseteq RunStatus
  BY DEF NodeStatus, RunStatus
<1>2. node' \in [Nodes -> NodeStatus] BY <1>1 DEF RowsTyped, TimeOut
<1>. QED BY <1>1, <1>2, LedgerType DEF TimeOut

(* Every end of a poll keeps the types.                                    *)
LEMMA TypePoll ==
  ASSUME TypeOK, NEW t \in Slots, Poll(t)
  PROVE  TypeOK'
<1>. DEFINE s == txn[t].snap
            n == txn[t].job
<1>1. RowsTyped BY RowsAreView DEF TypeOK
<1>2. SUFFICES RowsTyped' /\ End(t) /\ (UNCHANGED deliveries \/ Enqueue)
               /\ UNCHANGED <<submits, aborts>>
  <2>1. deliveries' \in 0..MaxDeliveries BY <1>2, EnqueueType DEF TypeOK
  <2>. QED BY <1>2, <2>1, RowsAreView, EndType DEF TypeOK
<1>3. /\ "SUCCEEDED" \in NodeStatus /\ "FAILED" \in NodeStatus /\ "CANCELLED" \in NodeStatus
      /\ "EXPIRED" \in JobStatus /\ "CANCELLED" \in JobStatus
  BY DEF NodeStatus, JobStatus
<1>4. WaitAnswers \cup SuccessAnswers \cup EndAnswers \subseteq AllAnswers \ {"raise"}
  BY DEF AllAnswers, WaitAnswers, SuccessAnswers, EndAnswers
<1>5. CASE PollPending(t)
  BY <1>1, <1>4, <1>5, AppliedType DEF PollPending, RowsTyped
<1>6. CASE PollSucceed(t)
  <2>1. PICK a \in {"good", "wrong"} :
          /\ Applied(t, a)
          /\ IF Awaited(t)
             THEN /\ node' = [node EXCEPT ![n] = "SUCCEEDED"]
                  /\ output' = [output EXCEPT ![n] = IF a = "good" THEN "right" ELSE "wrong"]
                  /\ Charge(s, {n}) /\ Deposit(s, {n}) /\ Release(s, {n})
             ELSE UNCHANGED <<node, output, debits, assets, released>>
          /\ UNCHANGED run
          /\ Enqueue /\ End(t) /\ UNCHANGED <<submits, aborts>>
    BY <1>6 DEF PollSucceed
  <2>2. a \in AllAnswers \ {"raise"} BY <1>4 DEF SuccessAnswers
  <2>3. node' \in [Nodes -> NodeStatus] BY <1>1, <1>3, <2>1 DEF RowsTyped
  <2>4. output' \in [Nodes -> {"none", "right", "wrong"}] BY <1>1, <2>1 DEF RowsTyped
  <2>5. released' \in [Nodes -> Nat] /\ debits' \in [Nodes -> Nat] /\ assets' \in [Nodes -> Nat]
    BY <1>1, <2>1, LedgerType DEF RowsTyped
  <2>. QED BY <1>1, <2>1, <2>2, <2>3, <2>4, <2>5, AppliedType DEF RowsTyped
<1>7. CASE PollUnusable(t)
  <2>1. PICK a \in {"empty", "unpayable"} :
          /\ Applied(t, a)
          /\ IF a = "empty" /\ Awaited(t)
             THEN Charge(s, {n}) /\ Release(s, {n})
             ELSE UNCHANGED <<debits, released>>
          /\ IF Awaited(t) THEN UNCHANGED deliveries ELSE Enqueue
          /\ UNCHANGED <<run, node, output, assets>>
          /\ End(t) /\ UNCHANGED <<submits, aborts>>
    BY <1>7 DEF PollUnusable
  <2>2. a \in AllAnswers \ {"raise"} BY <1>4 DEF SuccessAnswers
  <2>3. released' \in [Nodes -> Nat] /\ debits' \in [Nodes -> Nat]
    BY <1>1, <2>1, LedgerType DEF RowsTyped
  <2>. QED BY <1>1, <2>1, <2>2, <2>3, AppliedType DEF RowsTyped
<1>8. CASE PollEnd(t)
  <2>1. PICK a \in EndAnswers :
          /\ Applied(t, a)
          /\ IF Awaited(t)
             THEN node' = [node EXCEPT ![n] = NodeEnd(a)] /\ Release(s, {n})
             ELSE UNCHANGED <<node, released>>
          /\ UNCHANGED <<run, output, debits, assets>>
          /\ Enqueue /\ End(t) /\ UNCHANGED <<submits, aborts>>
    BY <1>8 DEF PollEnd
  <2>2. NodeEnd(a) \in NodeStatus BY DEF NodeEnd, NodeStatus
  <2>3. node' \in [Nodes -> NodeStatus] BY <1>1, <2>1, <2>2 DEF RowsTyped
  <2>4. released' \in [Nodes -> Nat] BY <1>1, <2>1, LedgerType DEF RowsTyped
  <2>. QED BY <1>1, <1>4, <2>1, <2>3, <2>4, AppliedType DEF RowsTyped
<1>9. CASE PollRaise(t)
  BY <1>1, <1>9, PolledType DEF PollRaise, RowsTyped
<1>10. CASE PollExpire(t)
  BY <1>1, <1>3, <1>10, TimeOutType DEF PollExpire, RowsTyped
<1>11. CASE PollExhaust(t)
  <2>1. TimeOut(s, n) /\ Polled(t) /\ End(t) /\ UNCHANGED <<deliveries, submits, aborts>>
    BY <1>11 DEF PollExhaust
  <2>2. job' \in [Nodes -> JobStatus \cup {"NONE"}]
    BY <1>1, <1>3, <1>11 DEF PollExhaust, RowsTyped
  <2>3. reply' \in [Nodes -> SuccessAnswers \cup {"none"}]
    BY <1>1, <1>11 DEF PollExhaust, RowsTyped
  <2>4. ext' \in [Nodes -> BOOLEAN]
    BY <1>1, <1>11 DEF PollExhaust, RowsTyped, Names
  <2>. QED BY <1>1, <2>1, <2>2, <2>3, <2>4, TimeOutType, PolledType DEF RowsTyped
<1>12. CASE PollStop(t)
  BY <1>1, <1>3, <1>12 DEF PollStop, RowsTyped
<1>13. CASE PollNothing(t)
  BY <1>1, <1>13 DEF PollNothing, RowsTyped, rows
<1>14. CASE PollRecover(t)
  <2>1. node' \in [Nodes -> NodeStatus] BY <1>1, <1>3, <1>14 DEF PollRecover, RowsTyped
  <2>2. output' \in [Nodes -> {"none", "right", "wrong"}]
    BY <1>1, <1>14 DEF PollRecover, RowsTyped
  <2>3. released' \in [Nodes -> Nat] /\ debits' \in [Nodes -> Nat] /\ assets' \in [Nodes -> Nat]
    BY <1>1, <1>14, LedgerType DEF PollRecover, RowsTyped
  <2>. QED BY <1>1, <1>14, <2>1, <2>2, <2>3 DEF PollRecover, RowsTyped
<1>15. CASE PollUnrecoverable(t)
  <2>1. released' \in [Nodes -> Nat] /\ debits' \in [Nodes -> Nat]
    BY <1>1, <1>15, LedgerType DEF PollUnrecoverable, RowsTyped
  <2>. QED BY <1>1, <1>15, <2>1 DEF PollUnrecoverable, RowsTyped
<1>. QED BY <1>5, <1>6, <1>7, <1>8, <1>9, <1>10, <1>11, <1>12, <1>13, <1>14, <1>15 DEF Poll

(* Cancelling or expiring a run keeps the types.                           *)
LEMMA TypeStop ==
  ASSUME TypeOK, NEW t \in Slots, NEW kind, NEW status \in RunStatus, Stop(t, kind, status)
  PROVE  TypeOK'
<1>. DEFINE s == txn[t].snap
<1>1. RowsTyped BY RowsAreView DEF TypeOK
<1>2. "CANCELLED" \in NodeStatus /\ "CANCELLED" \in JobStatus \cup {"NONE"}
  BY DEF NodeStatus, JobStatus
<1>3. job' \in [Nodes -> JobStatus \cup {"NONE"}]
  BY <1>1, <1>2, SetType DEF Stop, StopWith, RowsTyped
<1>4. node' \in [Nodes -> NodeStatus]
  BY <1>1, <1>2, SetType DEF Stop, StopWith, RowsTyped
<1>5. released' \in [Nodes -> Nat]
  BY <1>1, LedgerType DEF Stop, StopWith
<1>6. RowsTyped' BY <1>1, <1>3, <1>4, <1>5 DEF Stop, StopWith, RowsTyped
<1>. QED BY <1>6, RowsAreView, EndType DEF Stop, StopWith, TypeOK

(* A transaction begins with a well-typed snapshot.                        *)
LEMMA TypeBegin ==
  ASSUME TypeOK, NEW t \in Slots, NEW kind \in Handlers, NEW n \in Nodes \cup {0},
         Begin(t, kind, n)
  PROVE  txn' \in [Slots -> Txns]
  BY DEF TypeOK, Begin, Txns

(* Every step keeps the types.                                             *)
LEMMA TypeStep == TypeOK /\ [Next]_vars => TypeOK'
<1>. SUFFICES ASSUME TypeOK, [Next]_vars PROVE TypeOK' OBVIOUS
<1>. USE DEF Handlers
<1>1. ASSUME NEW t \in Slots, ExecBegin(t) PROVE TypeOK'
  <2>1. deliveries' \in 0..MaxDeliveries
    BY <1>1, EngineAssumption DEF ExecBegin, TypeOK
  <2>2. txn' \in [Slots -> Txns] BY <1>1, TypeBegin DEF ExecBegin, TypeOK
  <2>. QED BY <1>1, <2>1, <2>2 DEF ExecBegin, TypeOK, rows, Current
<1>2. ASSUME NEW t \in Slots, Execute(t) PROVE TypeOK'
  BY <1>2, TypeExecute
<1>3. ASSUME NEW t \in Slots, NEW n \in Nodes, PollBegin(t, n) PROVE TypeOK'
  <2>1. txn' \in [Slots -> Txns] BY <1>3, TypeBegin DEF PollBegin
  <2>. QED BY <1>3, <2>1 DEF PollBegin, TypeOK, rows, Current
<1>4. ASSUME NEW t \in Slots, Poll(t) PROVE TypeOK'
  BY <1>4, TypePoll
<1>5. ASSUME NEW t \in Slots, NEW kind \in {"cancel", "expire"}, StopBegin(t, kind)
      PROVE TypeOK'
  <2>1. txn' \in [Slots -> Txns] BY <1>5, TypeBegin DEF StopBegin
  <2>. QED BY <1>5, <2>1 DEF StopBegin, TypeOK, rows, Current
<1>6. ASSUME NEW t \in Slots, CancelMyRun(t) \/ ExpireStuckRun(t) PROVE TypeOK'
  BY <1>6, TypeStop, {"CANCELLED", "EXPIRED"} \subseteq RunStatus
  DEF CancelMyRun, ExpireStuckRun, RunStatus
<1>7. ASSUME NEW t \in Slots, Abort(t) PROVE TypeOK'
  <2>1. txn' \in [Slots -> Txns] BY <1>7, EndType DEF Abort
  <2>2. submits' \in [Nodes -> 0..MaxSubmits] BY <1>7, SubmitType DEF Abort, TypeOK
  <2>3. aborts' \in 0..MaxAborts BY <1>7, EngineAssumption DEF Abort, TypeOK
  <2>. QED BY <1>7, <2>1, <2>2, <2>3 DEF Abort, TypeOK, rows, Current
<1>8. CASE StartAgain \/ ResumeRun
  BY <1>8, EnqueueType DEF StartAgain, ResumeRun, TypeOK, rows, Current
<1>9. CASE UNCHANGED vars
  BY <1>9 DEF TypeOK, vars, rows, Current
<1>. QED BY <1>1, <1>2, <1>3, <1>4, <1>5, <1>6, <1>7, <1>8, <1>9 DEF Next

(* Every row of the run keeps a status and a count of its type, for any    *)
(* number of nodes, any graph, any provider answers and any number of      *)
(* overlapping handlers.                                                   *)
THEOREM TypeCorrect == Spec => []TypeOK
  BY TypeInit, TypeStep, PTL DEF Spec

-----------------------------------------------------------------------------
(* What any handler does to the ledger.                                    *)

(* Transaction t releases the nodes R, charges D and deposits E, in the    *)
(* order the code keeps: nothing is deposited that is not charged, nothing *)
(* charged that is not released, only a node that can still be run is      *)
(* charged, and whoever ends the run releases everything.  A node released *)
(* in a run that goes on was charged or has failed for good.               *)
Settles(t, R, D, E) ==
  LET s == txn[t].snap IN
  /\ txn[t].kind = "poll" => s.run \notin RunTerminal
  /\ Release(s, R) /\ Charge(s, D) /\ Deposit(s, E)
  /\ E \subseteq D /\ D \subseteq R
  /\ \A n \in D : Startable(s, n)
  /\ run' \in RunTerminal => R = Nodes \/ run' = run
  /\ run' \notin RunTerminal =>
       \A n \in Nodes :
         /\ s.node[n] \in {"FAILED", "CANCELLED"} => node'[n] = node[n]
         /\ n \in R => n \in D \/ node'[n] \in {"FAILED", "CANCELLED"}

(* Transaction t leaves the ledger and the status of the run alone; it     *)
(* changes nodes only of a run that had ended.                             *)
LeavesLedger(t) ==
  /\ UNCHANGED <<run, released, debits, assets>>
  /\ UNCHANGED node \/ txn[t].snap.run \in RunTerminal

(* Adding rows for no node changes nothing.                                *)
LEMMA AddNothing ==
  ASSUME NEW f \in [Nodes -> Nat], NEW S, S \cap Nodes = {}
  PROVE  Add(f, S) = f
  BY DEF Add

(* A run job settles, or leaves the ledger alone.                          *)
LEMMA ExecuteSettles ==
  ASSUME TypeOK, NEW t \in Slots, Execute(t)
  PROVE  LeavesLedger(t) \/ \E R, D, E : Settles(t, R, D, E)
<1>. DEFINE s == txn[t].snap
<1>0. RowsTyped BY RowsAreView DEF TypeOK
<1>1. txn[t].kind = "execute"
  BY DEF Execute, ExecFinish, ExecWait, ExecReject, ExecRaise, ExecUnusable, InFlight
<1>2. ASSUME NEW n, Completable(s, n) PROVE Startable(s, n)
  BY <1>2 DEF Completable
<1>3. CASE ExecFinish(t)
  <2>. DEFINE C == Unfinished(s, N + 1)
  <2>1. /\ Release(s, Nodes) /\ Charge(s, C) /\ Deposit(s, C) /\ run' = "SUCCEEDED"
        /\ \A n \in C : Startable(s, n)
    BY <1>2, <1>3 DEF ExecFinish, Completes
  <2>2. C \subseteq Nodes BY DEF Unfinished
  <2>3. Settles(t, Nodes, C, C) BY <1>1, <2>1, <2>2 DEF Settles, RunTerminal
  <2>. QED BY <2>3
<1>4. CASE ExecWait(t)
  <2>1. PICK k \in Provider :
          LET C == Unfinished(s, k) IN
          /\ \A n \in C : Completable(s, n)
          /\ Startable(s, k)
          /\ run' = "WAITING_PROVIDER"
          /\ node' = [Set(node, C, "SUCCEEDED") EXCEPT ![k] = "WAITING_PROVIDER"]
          /\ Charge(s, C) /\ Deposit(s, C)
          /\ Release(s, C)
    BY <1>4 DEF ExecWait, Completes
  <2>. DEFINE C == Unfinished(s, k)
  <2>2. \A n \in C : Startable(s, n) BY <1>2, <2>1
  <2>3. ASSUME NEW n \in Nodes, s.node[n] \in {"FAILED", "CANCELLED"}
        PROVE node'[n] = node[n]
    <3>1. n \notin C /\ n # k BY <2>1, <2>2, <2>3 DEF Startable
    <3>. QED BY <2>1, <3>1 DEF Set
  <2>4. Settles(t, C, C, C) BY <1>1, <2>1, <2>2, <2>3 DEF Settles, RunTerminal
  <2>. QED BY <2>4
<1>5. CASE ExecReject(t) \/ ExecRaise(t) \/ ExecUnusable(t)
  BY <1>5, FailsLeaveRows DEF rows, LeavesLedger
<1>. QED BY <1>3, <1>4, <1>5 DEF Execute

(* The two shapes a step of the poller on node n has when it settles n:    *)
(* the node succeeded or its reply is unusable, or the node failed.        *)
LEMMA NodeSettles ==
  ASSUME TypeOK, NEW t \in Slots, NEW n, NEW D, NEW E,
         txn[t].snap.run \notin RunTerminal,
         txn[t].snap.node[n] = "WAITING_PROVIDER",
         UNCHANGED run,
         Release(txn[t].snap, {n}), Charge(txn[t].snap, D), Deposit(txn[t].snap, E),
         E \subseteq D, D \subseteq {n},
         \A m \in Nodes : m # n => node'[m] = node[m],
         n \in Nodes => n \in D \/ node'[n] \in {"FAILED", "CANCELLED"}
  PROVE  Settles(t, {n}, D, E)
  BY DEF Settles, Startable

(* A ledger left alone is one where no node was charged or deposited.      *)
LEMMA NothingCharged ==
  ASSUME RowsTyped, NEW s
  PROVE  /\ UNCHANGED debits => Charge(s, {})
         /\ UNCHANGED assets => Deposit(s, {})
  BY AddNothing DEF RowsTyped, Charge, Deposit

(* A timeout releases every node and charges none.                         *)
LEMMA TimeOutSettles ==
  ASSUME TypeOK, NEW t \in Slots, NEW n, TimeOut(txn[t].snap, n),
         txn[t].snap.run \notin RunTerminal
  PROVE  Settles(t, Nodes, {}, {})
<1>. DEFINE s == txn[t].snap
<1>1. RowsTyped BY RowsAreView DEF TypeOK
<1>2. run' \in RunTerminal /\ Release(s, Nodes) BY DEF TimeOut, RunTerminal
<1>3. Charge(s, {}) /\ Deposit(s, {}) BY <1>1, NothingCharged DEF TimeOut
<1>. QED BY <1>2, <1>3 DEF Settles

(* A poll settles, or leaves the ledger alone.                             *)
LEMMA PollSettles ==
  ASSUME TypeOK, NEW t \in Slots, Poll(t)
  PROVE  LeavesLedger(t) \/ \E R, D, E : Settles(t, R, D, E)
<1>. DEFINE s == txn[t].snap
            n == txn[t].job
<1>1. RowsTyped BY RowsAreView DEF TypeOK
<1>2. Awaited(t) => s.node[n] = "WAITING_PROVIDER" BY DEF Awaited
<1>3. ASSUME NEW v, node' = [node EXCEPT ![n] = v]
      PROVE  /\ \A m \in Nodes : m # n => node'[m] = node[m]
             /\ n \in Nodes => node'[n] = v
  BY <1>1, <1>3 DEF RowsTyped
<1>4. CASE PollPending(t) BY <1>4 DEF PollPending, LeavesLedger
<1>5. CASE PollSucceed(t)
  <2>1. CASE ~Awaited(t) BY <1>5, <2>1 DEF PollSucceed, LeavesLedger
  <2>2. CASE Awaited(t)
    <3>1. /\ s.run \notin RunTerminal /\ UNCHANGED run
          /\ node' = [node EXCEPT ![n] = "SUCCEEDED"]
          /\ Charge(s, {n}) /\ Deposit(s, {n}) /\ Release(s, {n})
      BY <1>5, <2>2 DEF PollSucceed, Accepted, MayPoll
    <3>2. Settles(t, {n}, {n}, {n}) BY <1>2, <1>3, <2>2, <3>1, NodeSettles
    <3>. QED BY <3>2
  <2>. QED BY <2>1, <2>2
<1>6. CASE PollUnusable(t)
  <2>1. PICK a \in {"empty", "unpayable"} :
          /\ s.run \notin RunTerminal
          /\ IF a = "empty" /\ Awaited(t)
             THEN Charge(s, {n}) /\ Release(s, {n})
             ELSE UNCHANGED <<debits, released>>
          /\ UNCHANGED <<run, node, output, assets>>
    BY <1>6 DEF PollUnusable, Accepted, MayPoll
  <2>2. CASE a = "empty" /\ Awaited(t)
    <3>1. Settles(t, {n}, {n}, {})
      BY <1>1, <1>2, <2>1, <2>2, NodeSettles, NothingCharged
    <3>. QED BY <3>1
  <2>3. CASE ~(a = "empty" /\ Awaited(t)) BY <2>1, <2>3 DEF LeavesLedger
  <2>. QED BY <2>2, <2>3
<1>7. CASE PollEnd(t)
  <2>1. CASE ~Awaited(t) BY <1>7, <2>1 DEF PollEnd, LeavesLedger
  <2>2. CASE Awaited(t)
    <3>1. PICK a \in EndAnswers :
            /\ s.run \notin RunTerminal
            /\ node' = [node EXCEPT ![n] = NodeEnd(a)] /\ Release(s, {n})
            /\ UNCHANGED <<run, output, debits, assets>>
      BY <1>7, <2>2 DEF PollEnd, Accepted, MayPoll
    <3>2. NodeEnd(a) \in {"FAILED", "CANCELLED"} BY DEF NodeEnd
    <3>3. Settles(t, {n}, {}, {})
      BY <1>1, <1>2, <1>3, <2>2, <3>1, <3>2, NodeSettles, NothingCharged
    <3>. QED BY <3>3
  <2>. QED BY <2>1, <2>2
<1>8. CASE PollRaise(t) BY <1>8 DEF PollRaise, LeavesLedger
<1>9. CASE PollExpire(t)
  <2>1. Settles(t, Nodes, {}, {}) BY <1>9, TimeOutSettles DEF PollExpire
  <2>. QED BY <2>1
<1>10. CASE PollExhaust(t)
  <2>1. Settles(t, Nodes, {}, {})
    BY <1>10, TimeOutSettles DEF PollExhaust, Accepted, MayPoll
  <2>. QED BY <2>1
<1>11. CASE PollStop(t)
  BY <1>11 DEF PollStop, LeavesLedger, RunTerminal
<1>12. CASE PollNothing(t) BY <1>12 DEF PollNothing, LeavesLedger, rows
<1>13. CASE PollRecover(t)
  <2>1. s.run \notin RunTerminal /\ Awaited(t) /\ UNCHANGED run /\ Release(s, {n})
    BY <1>13 DEF PollRecover
  <2>2. CASE s.job[n] = "SUCCEEDED"
    <3>1. /\ node' = [node EXCEPT ![n] = "SUCCEEDED"]
          /\ Charge(s, {n}) /\ Deposit(s, {n})
      BY <1>13, <2>2 DEF PollRecover
    <3>2. Settles(t, {n}, {n}, {n}) BY <1>2, <1>3, <2>1, <3>1, NodeSettles
    <3>. QED BY <3>2
  <2>3. CASE s.job[n] # "SUCCEEDED"
    <3>. DEFINE v == IF s.job[n] = "CANCELLED" THEN "CANCELLED" ELSE "FAILED"
    <3>1. node' = [node EXCEPT ![n] = v] /\ UNCHANGED <<debits, assets>>
      BY <1>13, <2>3 DEF PollRecover
    <3>2. v \in {"FAILED", "CANCELLED"} OBVIOUS
    <3>. HIDE DEF v
    <3>3. Settles(t, {n}, {}, {})
      BY <1>1, <1>2, <1>3, <2>1, <3>1, <3>2, NodeSettles, NothingCharged
    <3>. QED BY <3>3
  <2>. QED BY <2>2, <2>3
<1>14. CASE PollUnrecoverable(t)
  <2>1. s.run \notin RunTerminal /\ Awaited(t) /\ UNCHANGED <<run, node, assets>>
    BY <1>14 DEF PollUnrecoverable
  <2>2. CASE s.reply[n] = "empty"
    <3>1. Charge(s, {n}) /\ Release(s, {n}) BY <1>14, <2>2 DEF PollUnrecoverable
    <3>2. Settles(t, {n}, {n}, {}) BY <1>1, <1>2, <2>1, <3>1, NodeSettles, NothingCharged
    <3>. QED BY <3>2
  <2>3. CASE s.reply[n] # "empty"
    BY <1>14, <2>1, <2>3 DEF PollUnrecoverable, LeavesLedger
  <2>. QED BY <2>2, <2>3
<1>. QED BY <1>4, <1>5, <1>6, <1>7, <1>8, <1>9, <1>10, <1>11, <1>12, <1>13, <1>14 DEF Poll

(* A cancellation or an expiry releases every node and charges none.       *)
LEMMA StopSettles ==
  ASSUME TypeOK, NEW t \in Slots, CancelMyRun(t) \/ ExpireStuckRun(t)
  PROVE  Settles(t, Nodes, {}, {})
<1>. DEFINE s == txn[t].snap
<1>1. RowsTyped BY RowsAreView DEF TypeOK
<1>2. /\ txn[t].kind \in {"cancel", "expire"} /\ run' \in RunTerminal
      /\ Release(s, Nodes) /\ UNCHANGED <<debits, assets>>
  BY DEF CancelMyRun, ExpireStuckRun, Stop, StopWith, InFlight, RunTerminal
<1>. QED BY <1>1, <1>2, NothingCharged DEF Settles

(* A step settles through one transaction, or leaves the ledger alone.     *)
LEMMA StepSettles ==
  ASSUME TypeOK, [Next]_vars
  PROVE  \/ UNCHANGED <<rows>>
         \/ \E t \in Slots :
              /\ Finish(t)
              /\ LeavesLedger(t) \/ \E R, D, E : Settles(t, R, D, E)
<1>1. ASSUME NEW t \in Slots, Finish(t)
      PROVE LeavesLedger(t) \/ \E R, D, E : Settles(t, R, D, E)
  BY <1>1, ExecuteSettles, PollSettles, StopSettles DEF Finish
<1>2. ASSUME NEW t \in Slots, NEW n \in Nodes, NEW kind \in {"cancel", "expire"},
             ExecBegin(t) \/ PollBegin(t, n) \/ StopBegin(t, kind) \/ Abort(t)
      PROVE  UNCHANGED <<rows>>
  BY <1>2 DEF ExecBegin, PollBegin, StopBegin, Abort
<1>3. StartAgain \/ ResumeRun \/ UNCHANGED vars => UNCHANGED <<rows>>
  BY DEF StartAgain, ResumeRun, vars
<1>. QED BY <1>1, <1>2, <1>3, EngineAssumption DEF Next, Finish, Nodes

-----------------------------------------------------------------------------
(* Overlapping transactions: what holds however many are in flight.        *)

(* Ledger rows are only ever added, so what a transaction saw of them is   *)
(* still there.                                                            *)
SnapshotsAreOld ==
  \A t \in Slots, n \in Nodes :
    txn[t].snap.released[n] <= released[n] /\ txn[t].snap.debits[n] <= debits[n]

(* The invariant of the overlapping case. *)
CreditInv ==
  TypeOK /\ SnapshotsAreOld /\ TerminalRunHoldsNoCredit /\ AssetsArePaidFor

(* What a transaction saw is well typed.                                   *)
LEMMA SnapType ==
  ASSUME TypeOK, NEW t \in Slots
  PROVE  /\ txn[t].snap \in Views
         /\ txn[t].snap.released \in [Nodes -> Nat]
         /\ txn[t].snap.debits \in [Nodes -> Nat]
         /\ txn[t].snap.assets \in [Nodes -> Nat]
  BY DEF TypeOK, Txns, Views

(* Rows are added to the ledger and never removed.                         *)
LEMMA LedgerGrows ==
  ASSUME RowsTyped, NEW s, NEW R, NEW D, Release(s, R), Charge(s, D), NEW n \in Nodes
  PROVE  released[n] <= released'[n] /\ debits[n] <= debits'[n]
  BY DEF RowsTyped, Release, Charge, Add

(* A step leaves a slot as it was, frees it, or fills it with the rows as  *)
(* they are.                                                               *)
LEMMA TxnStep ==
  ASSUME TypeOK, [Next]_vars
  PROVE  \A t \in Slots : txn'[t] \in {txn[t], Idle} \/ txn'[t].snap = Current
<1>1. ASSUME NEW u \in Slots, Finish(u) PROVE End(u)
  BY <1>1 DEF Finish, Execute, ExecFinish, ExecWait, ExecReject, ExecRaise, ExecUnusable,
     ExecFails, Poll, PollPending, PollSucceed, PollUnusable,
     PollEnd, PollRaise, PollExpire, PollExhaust, PollStop, PollNothing, PollRecover,
     PollUnrecoverable, CancelMyRun, ExpireStuckRun, Stop, StopWith
<1>2. ASSUME NEW u \in Slots, End(u)
      PROVE  \A t \in Slots : txn'[t] \in {txn[t], Idle}
  BY <1>2 DEF End, TypeOK
<1>3. ASSUME NEW u \in Slots, NEW kind, NEW n, Begin(u, kind, n)
      PROVE  \A t \in Slots : txn'[t] = txn[t] \/ txn'[t].snap = Current
  BY <1>3 DEF Begin, TypeOK
<1>4. CASE \E u \in Slots : ExecBegin(u)
  BY <1>3, <1>4 DEF ExecBegin
<1>5. CASE \E u \in Slots, n \in Nodes : PollBegin(u, n)
  BY <1>3, <1>5 DEF PollBegin
<1>6. CASE \E u \in Slots, kind \in {"cancel", "expire"} : StopBegin(u, kind)
  BY <1>3, <1>6 DEF StopBegin
<1>7. CASE \E u \in Slots : Abort(u)
  BY <1>2, <1>7 DEF Abort
<1>8. CASE StartAgain \/ ResumeRun \/ UNCHANGED vars
  BY <1>8 DEF StartAgain, ResumeRun, vars
<1>9. CASE \E u \in Slots : Finish(u)
  BY <1>1, <1>2, <1>9
<1>. QED BY <1>4, <1>5, <1>6, <1>7, <1>8, <1>9 DEF Next, Finish

(* The invariant of the overlapping case holds at the start.               *)
LEMMA CreditInit == Init => CreditInv
<1>. SUFFICES ASSUME Init PROVE CreditInv OBVIOUS
<1>1. TypeOK BY TypeInit
<1>2. SnapshotsAreOld BY DEF Init, SnapshotsAreOld, Idle, InitView
<1>3. run \notin RunTerminal BY DEF Init, InitView, RunTerminal
<1>4. AssetsArePaidFor BY EngineAssumption DEF Init, InitView, AssetsArePaidFor
<1>. QED BY <1>1, <1>2, <1>3, <1>4 DEF CreditInv, TerminalRunHoldsNoCredit

(* Every step keeps the invariant of the overlapping case.                 *)
LEMMA CreditStep == CreditInv /\ [Next]_vars => CreditInv'
<1>. SUFFICES ASSUME CreditInv, [Next]_vars PROVE CreditInv' OBVIOUS
<1>0. TypeOK /\ RowsTyped BY RowsAreView DEF CreditInv, TypeOK
<1>1. TypeOK' BY <1>0, TypeStep
<1>2. \A n \in Nodes : released[n] <= released'[n] /\ debits[n] <= debits'[n]
  <2>1. CASE UNCHANGED rows BY <1>0, <2>1 DEF rows, RowsTyped
  <2>2. ASSUME NEW t \in Slots, LeavesLedger(t)
        PROVE \A n \in Nodes : released[n] <= released'[n] /\ debits[n] <= debits'[n]
    BY <1>0, <2>2 DEF LeavesLedger, RowsTyped
  <2>3. ASSUME NEW t \in Slots, NEW R, NEW D, NEW E, Settles(t, R, D, E)
        PROVE \A n \in Nodes : released[n] <= released'[n] /\ debits[n] <= debits'[n]
    BY <1>0, <2>3, LedgerGrows DEF Settles
  <2>. QED BY <1>0, <2>1, <2>2, <2>3, StepSettles
<1>3. SnapshotsAreOld'
  <2>. SUFFICES ASSUME NEW t \in Slots, NEW n \in Nodes
                PROVE  /\ txn'[t].snap.released[n] <= released'[n]
                       /\ txn'[t].snap.debits[n] <= debits'[n]
    BY DEF SnapshotsAreOld
  <2>1. CASE txn'[t] = txn[t]
    BY <1>0, <1>1, <1>2, <2>1, SnapType, RowsAreView DEF CreditInv, SnapshotsAreOld, RowsTyped, TypeOK
  <2>2. CASE txn'[t] = Idle
    BY <1>1, <2>2, RowsAreView DEF Idle, InitView, TypeOK, RowsTyped
  <2>3. CASE txn'[t].snap = Current
    BY <1>2, <2>3 DEF Current
  <2>. QED BY <1>0, <2>1, <2>2, <2>3, TxnStep
<1>4. TerminalRunHoldsNoCredit'
  <2>. SUFFICES ASSUME run' \in RunTerminal, NEW n \in Priced PROVE released'[n] > 0
    BY DEF TerminalRunHoldsNoCredit
  <2>1. n \in Nodes BY EngineAssumption
  <2>2. CASE run' = run
    BY <1>0, <1>1, <1>2, <2>1, <2>2, RowsAreView
    DEF CreditInv, TerminalRunHoldsNoCredit, RowsTyped, TypeOK
  <2>3. CASE run' # run
    <3>1. PICK t, R, D, E : t \in Slots /\ Settles(t, R, D, E)
      BY <1>0, <2>3, StepSettles DEF LeavesLedger, rows
    <3>2. Release(txn[t].snap, Nodes) BY <2>3, <3>1 DEF Settles
    <3>3. txn[t].snap.released[n] <= released[n] BY <2>1, <3>1 DEF CreditInv, SnapshotsAreOld
    <3>. QED BY <1>0, <2>1, <3>1, <3>2, <3>3, SnapType DEF Release, Add, RowsTyped
  <2>. QED BY <2>2, <2>3
<1>5. AssetsArePaidFor'
  <2>. SUFFICES ASSUME NEW n \in Costly, assets'[n] > 0 PROVE debits'[n] > 0
    BY DEF AssetsArePaidFor
  <2>1. n \in Nodes BY EngineAssumption
  <2>2. CASE assets'[n] = assets[n]
    BY <1>0, <1>1, <1>2, <2>1, <2>2, RowsAreView
    DEF CreditInv, AssetsArePaidFor, RowsTyped, TypeOK
  <2>3. CASE assets'[n] # assets[n]
    <3>1. PICK t, R, D, E : t \in Slots /\ Settles(t, R, D, E)
      BY <1>0, <2>3, StepSettles DEF LeavesLedger, rows
    <3>2. n \in D BY <1>0, <2>1, <2>3, <3>1 DEF Settles, Deposit, Add, RowsTyped
    <3>3. txn[t].snap.debits[n] <= debits[n] BY <2>1, <3>1 DEF CreditInv, SnapshotsAreOld
    <3>. QED BY <1>0, <2>1, <3>1, <3>2, <3>3, SnapType DEF Settles, Charge, Add, RowsTyped
  <2>. QED BY <2>2, <2>3
<1>. QED BY <1>1, <1>3, <1>4, <1>5 DEF CreditInv

(* However many handlers overlap and however stale their snapshots are: a  *)
(* run that has ended holds no reservation, since set_workflow_status      *)
(* releases them all.                                                      *)
THEOREM CreditSafety == Spec => []TerminalRunHoldsNoCredit
<1>1. CreditInv => TerminalRunHoldsNoCredit BY DEF CreditInv
<1>. QED BY <1>1, CreditInit, CreditStep, PTL DEF Spec

(* However many handlers overlap and raise half-way, no asset is left      *)
(* unpaid: materialize charges before the worker or the poller goes on.    *)
THEOREM NoAssetUnpaid == Spec => []AssetsArePaidFor
<1>1. CreditInv => AssetsArePaidFor BY DEF CreditInv
<1>. QED BY <1>1, CreditInit, CreditStep, PTL DEF Spec

-----------------------------------------------------------------------------
(* Serialised transactions: one slot.                                      *)

(* A transaction in flight sees the rows as they are, and all but a poll   *)
(* were begun on an active run.                                            *)
SnapshotsAreCurrent ==
  \A t \in Slots : txn[t].kind # "idle" =>
    /\ txn[t].snap = Current
    /\ txn[t].kind # "poll" => run \notin RunTerminal

(* While the run is active, a reservation was only given back against a    *)
(* charge, or for a node that has failed for good.                         *)
ReleasedForCause ==
  run \notin RunTerminal =>
    \A n \in Priced :
      released[n] > 0 => debits[n] > 0 \/ node[n] \in {"FAILED", "CANCELLED"}

(* The invariant of the serialised case. *)
SerialInv ==
  CreditInv /\ SnapshotsAreCurrent /\ ReleasedForCause /\ LedgerRowsUnique

(* With one slot, no step makes the snapshot in flight stale.              *)
LEMMA SerialSnapshots ==
  ASSUME Serial, TypeOK, SnapshotsAreCurrent, [Next]_vars
  PROVE  SnapshotsAreCurrent'
<1>. SUFFICES ASSUME NEW t \in Slots, txn'[t].kind # "idle"
              PROVE  /\ txn'[t].snap = Current'
                     /\ txn'[t].kind # "poll" => run' \notin RunTerminal
  BY DEF SnapshotsAreCurrent
<1>1. \A u \in Slots : u = t BY DEF Serial
<1>2. ASSUME End(t) PROVE FALSE BY <1>2 DEF End, TypeOK, Idle
<1>3. ASSUME NEW u \in Slots, Finish(u) PROVE FALSE
  <2>1. End(u)
    BY <1>3 DEF Finish, Execute, ExecFinish, ExecWait, ExecReject, ExecRaise, ExecUnusable,
       ExecFails, Poll, PollPending, PollSucceed, PollUnusable,
       PollEnd, PollRaise, PollExpire, PollExhaust, PollStop, PollNothing, PollRecover,
       PollUnrecoverable, CancelMyRun, ExpireStuckRun, Stop, StopWith
  <2>. QED BY <1>1, <1>2, <2>1
<1>4. ASSUME UNCHANGED <<rows, txn>>
      PROVE  /\ txn'[t].snap = Current'
             /\ txn'[t].kind # "poll" => run' \notin RunTerminal
  BY <1>4 DEF SnapshotsAreCurrent, rows, Current
<1>5. ASSUME NEW kind, NEW n, Begin(t, kind, n), UNCHANGED <<rows>>,
             kind # "poll" => run \notin RunTerminal
      PROVE  /\ txn'[t].snap = Current'
             /\ txn'[t].kind # "poll" => run' \notin RunTerminal
  BY <1>5 DEF Begin, TypeOK, rows, Current
<1>6. CASE \E u \in Slots : ExecBegin(u)
  BY <1>1, <1>4, <1>5, <1>6 DEF ExecBegin
<1>7. CASE \E u \in Slots, n \in Nodes : PollBegin(u, n)
  BY <1>1, <1>5, <1>7 DEF PollBegin
<1>8. CASE \E u \in Slots, kind \in {"cancel", "expire"} : StopBegin(u, kind)
  BY <1>1, <1>5, <1>8 DEF StopBegin
<1>9. CASE \E u \in Slots : Abort(u)
  BY <1>1, <1>2, <1>9 DEF Abort
<1>10. CASE StartAgain \/ ResumeRun \/ UNCHANGED vars
  BY <1>4, <1>10 DEF StartAgain, ResumeRun, vars
<1>. QED BY <1>3, <1>6, <1>7, <1>8, <1>9, <1>10 DEF Next, Finish

(* A serialised settlement, in terms of the rows as they are.              *)
LEMMA SerialSettles ==
  ASSUME SerialInv, NEW t \in Slots, Finish(t)
  PROVE  /\ txn[t].snap = Current
         /\ txn[t].kind # "poll" => run \notin RunTerminal
         /\ \A R, D, E : Settles(t, R, D, E) => run \notin RunTerminal
<1>1. txn[t].kind # "idle"
  BY DEF Finish, Execute, ExecFinish, ExecWait, ExecReject, ExecRaise, ExecUnusable,
     Poll, PollPending, PollSucceed, PollUnusable, Accepted, MayPoll,
     PollEnd, PollRaise, PollExpire, PollExhaust, PollStop, PollNothing, PollRecover,
     PollUnrecoverable, CancelMyRun, ExpireStuckRun, Stop, StopWith, InFlight
<1>. QED BY <1>1 DEF SerialInv, SnapshotsAreCurrent, Settles, Current

(* The invariant of the serialised case holds at the start.                *)
LEMMA SerialInit == Init => SerialInv
<1>. SUFFICES ASSUME Init PROVE SerialInv OBVIOUS
<1>1. CreditInv BY CreditInit
<1>2. SnapshotsAreCurrent BY DEF Init, SnapshotsAreCurrent, Idle
<1>3. ReleasedForCause BY EngineAssumption DEF Init, InitView, ReleasedForCause
<1>4. LedgerRowsUnique BY DEF Init, InitView, LedgerRowsUnique
<1>. QED BY <1>1, <1>2, <1>3, <1>4 DEF SerialInv

(* Every step keeps the invariant of the serialised case.                  *)
LEMMA SerialStep ==
  ASSUME Serial, SerialInv, [Next]_vars
  PROVE  SerialInv'
<1>0. TypeOK /\ RowsTyped BY RowsAreView DEF SerialInv, CreditInv, TypeOK
<1>1. CreditInv' BY CreditStep DEF SerialInv
<1>2. SnapshotsAreCurrent' BY <1>0, SerialSnapshots DEF SerialInv
<1>3. CASE UNCHANGED <<rows>>
  BY <1>1, <1>2, <1>3 DEF SerialInv, ReleasedForCause, LedgerRowsUnique, rows
<1>4. ASSUME NEW t \in Slots, Finish(t), LeavesLedger(t) PROVE SerialInv'
  <2>1. txn[t].snap = Current BY <1>4, SerialSettles
  <2>2. UNCHANGED <<run, released, debits, node>> \/ (UNCHANGED run /\ run \in RunTerminal)
    BY <1>4, <2>1 DEF LeavesLedger, Current
  <2>3. ReleasedForCause' BY <2>2 DEF SerialInv, ReleasedForCause
  <2>4. LedgerRowsUnique' BY <1>4 DEF SerialInv, LedgerRowsUnique, LeavesLedger
  <2>. QED BY <1>1, <1>2, <2>3, <2>4 DEF SerialInv
<1>5. ASSUME NEW t \in Slots, Finish(t), NEW R, NEW D, NEW E, Settles(t, R, D, E)
      PROVE  SerialInv'
  <2>1. txn[t].snap = Current BY <1>5, SerialSettles
  <2>2. run \notin RunTerminal BY <1>5, SerialSettles
  <2>3. /\ \A n \in Nodes : released'[n] =
             IF n \in Priced \cap R /\ released[n] = 0 THEN released[n] + 1 ELSE released[n]
        /\ \A n \in Nodes : debits'[n] =
             IF n \in Costly \cap D /\ debits[n] = 0 THEN debits[n] + 1 ELSE debits[n]
    BY <1>5, <2>1, EngineAssumption DEF Settles, Release, Charge, Add, Current
  <2>4. LedgerRowsUnique' BY <1>0, <2>3 DEF SerialInv, LedgerRowsUnique, RowsTyped
  <2>5. ReleasedForCause'
    <3>. SUFFICES ASSUME run' \notin RunTerminal, NEW n \in Priced, released'[n] > 0
                  PROVE  debits'[n] > 0 \/ node'[n] \in {"FAILED", "CANCELLED"}
      BY DEF ReleasedForCause
    <3>1. n \in Nodes /\ n \in Costly BY EngineAssumption
    <3>2. CASE released[n] > 0
      BY <1>0, <1>5, <2>1, <2>2, <2>3, <3>1, <3>2
      DEF SerialInv, ReleasedForCause, Settles, Current, RowsTyped
    <3>3. CASE released[n] = 0
      <4>1. n \in R BY <2>3, <3>1, <3>3
      <4>2. n \in D \/ node'[n] \in {"FAILED", "CANCELLED"}
        BY <1>5, <3>1, <4>1 DEF Settles
      <4>. QED BY <1>0, <2>3, <3>1, <4>2 DEF RowsTyped
    <3>. QED BY <1>0, <3>1, <3>2, <3>3 DEF RowsTyped
  <2>. QED BY <1>1, <1>2, <2>4, <2>5 DEF SerialInv
<1>. QED BY <1>0, <1>3, <1>4, <1>5, StepSettles

(* When handlers do not overlap, no repetition of polls, run jobs,         *)
(* cancellations and expiries releases a reservation twice or charges a    *)
(* job twice: the look for an earlier row is then never out of date.       *)
THEOREM SerialLedger ==
  ASSUME Serial
  PROVE  Spec => []LedgerRowsUnique
<1>1. SerialInv /\ [Next]_vars => SerialInv' BY SerialStep
<1>2. SerialInv => LedgerRowsUnique BY DEF SerialInv
<1>. QED BY <1>1, <1>2, SerialInit, PTL DEF Spec

(* When handlers do not overlap, an ended run is left alone by every       *)
(* handler that is still queued, polled or invoked.                        *)
THEOREM SerialFrozen ==
  ASSUME Serial
  PROVE  Spec => EndedRunIsFrozen
<1>1. SerialInv /\ [Next]_vars => SerialInv' BY SerialStep
<1>2. SerialInv /\ [Next]_vars =>
        [(run \in RunTerminal => UNCHANGED <<run, released, debits, assets>>)]_vars
  <2>. SUFFICES ASSUME SerialInv, [Next]_vars, run \in RunTerminal
                PROVE  UNCHANGED <<run, released, debits, assets>>
    OBVIOUS
  <2>1. TypeOK BY DEF SerialInv, CreditInv
  <2>. QED BY <2>1, StepSettles, SerialSettles DEF LeavesLedger, rows
<1>. QED BY <1>1, <1>2, SerialInit, PTL DEF Spec, EndedRunIsFrozen

(* When handlers do not overlap, every step of the engine is a step of the *)
(* credit contract: a node is charged in the step that gives back its      *)
(* reservation, and nothing moves after the end.                           *)
THEOREM SerialContract ==
  ASSUME Serial
  PROVE  Spec => HonoursCreditContract
<1>. DEFINE held == {n \in Priced : released[n] = 0}
            charged == {n \in Priced : debits[n] > 0}
<1>1. SerialInv /\ [Next]_vars => SerialInv' BY SerialStep
<1>2. Init => Contract!Init
  BY EngineAssumption DEF Init, InitView, Contract!Init, RunTerminal
<1>3. SerialInv /\ [Next]_vars => [Contract!Next]_(Contract!credits)
  <2>. SUFFICES ASSUME SerialInv, [Next]_vars,
                       ~UNCHANGED <<run \in RunTerminal, held, charged>>
                PROVE  Contract!Next
    BY DEF Contract!credits
  <2>1. TypeOK /\ RowsTyped BY RowsAreView DEF SerialInv, CreditInv, TypeOK
  <2>2. PICK t, R, D, E : t \in Slots /\ Finish(t) /\ Settles(t, R, D, E)
    BY <2>1, StepSettles DEF LeavesLedger, rows
  <2>3. txn[t].snap = Current /\ run \notin RunTerminal BY <2>2, SerialSettles
  <2>. DEFINE G == R \cap held
              T == D \cap held
  <2>4. T \subseteq G /\ G \subseteq held BY <2>2 DEF Settles
  <2>5. held' = held \ G
    <3>1. ASSUME NEW n \in Priced
          PROVE released'[n] = IF n \in R /\ released[n] = 0 THEN released[n] + 1 ELSE released[n]
      BY <2>2, <2>3, EngineAssumption DEF Settles, Release, Add, Current
    <3>2. ASSUME NEW n \in Priced PROVE released[n] \in Nat
      BY <2>1, EngineAssumption DEF RowsTyped
    <3>. QED BY <3>1, <3>2
  <2>6. charged' = charged \cup T
    <3>1. ASSUME NEW n \in Priced
          PROVE debits'[n] = IF n \in D /\ debits[n] = 0 THEN debits[n] + 1 ELSE debits[n]
      BY <2>2, <2>3, EngineAssumption DEF Settles, Charge, Add, Current
    <3>2. ASSUME NEW n \in Priced PROVE debits[n] \in Nat /\ released[n] \in Nat
      BY <2>1, EngineAssumption DEF RowsTyped
    <3>3. ASSUME NEW n \in Priced, n \in D, debits[n] = 0 PROVE released[n] = 0
      <4>1. node[n] \notin {"FAILED", "CANCELLED"}
        BY <2>2, <2>3, <3>3 DEF Settles, Startable, Current
      <4>. QED BY <2>3, <3>2, <3>3, <4>1 DEF SerialInv, ReleasedForCause
    <3>. QED BY <3>1, <3>2, <3>3
  <2>7. (run' \in RunTerminal) => held' = {}
    <3>1. TerminalRunHoldsNoCredit' BY CreditStep DEF SerialInv, CreditInv
    <3>. QED BY <3>1 DEF TerminalRunHoldsNoCredit
  <2>. HIDE DEF G, T
  <2>. QED BY <2>3, <2>4, <2>5, <2>6, <2>7 DEF Contract!Next, Contract!Settle
<1>. QED BY <1>1, <1>2, <1>3, SerialInit, PTL DEF Spec, HonoursCreditContract, Contract!Spec

-----------------------------------------------------------------------------
(* What serialised handlers do to jobs, nodes and debits.                  *)

(* A step takes no success back, charges only for a job that has succeeded *)
(* by then, has every costly node it completes charged, and lets the run   *)
(* succeed only with all of its nodes.                                     *)
Advances ==
  /\ \A n \in Nodes :
       /\ job[n] = "SUCCEEDED" => job'[n] = "SUCCEEDED"
       /\ node[n] = "SUCCEEDED" => node'[n] = "SUCCEEDED"
       /\ debits[n] > 0 => debits'[n] > 0
       /\ debits'[n] > 0 => debits[n] > 0 \/ job'[n] = "SUCCEEDED"
       /\ n \in Costly /\ node'[n] = "SUCCEEDED" => node[n] = "SUCCEEDED" \/ debits'[n] > 0
  /\ run' = "SUCCEEDED" => run = "SUCCEEDED" \/ \A n \in Nodes : node'[n] = "SUCCEEDED"

(* A charge on a current snapshot reaches the nodes it is for, and no other. *)
LEMMA ChargeReaches ==
  ASSUME RowsTyped, NEW S, Charge(Current, S)
  PROVE  \A n \in Nodes :
           /\ debits[n] > 0 => debits'[n] > 0
           /\ n \in Costly \cap S => debits'[n] > 0
           /\ n \notin Costly \cap S => debits'[n] = debits[n]
  BY EngineAssumption DEF RowsTyped, Charge, Add, Current

(* A job that has ended goes nowhere. *)
LEMMA EndedJobStays ==
  ASSUME NEW c \in JobTerminal, NEW d, JobCanReach(c, d)
  PROVE  d = c
<1>1. CASE TransitionPath(c, d) = <<d>>
  <2>1. SUFFICES ASSUME PathAllowed(c, <<d>>) PROVE FALSE
    BY <1>1 DEF JobCanReach
  <2>2. (<<c>> \o <<d>>)[1] = c /\ (<<c>> \o <<d>>)[2] = d /\ Len(<<d>>) = 1
    OBVIOUS
  <2>3. <<c, d>> \in JobTransitions
    BY <2>1, <2>2 DEF PathAllowed
  <2>. QED BY <2>3 DEF JobTransitions, JobTerminal
<1>2. CASE TransitionPath(c, d) # <<d>>
  BY <1>2 DEF TransitionPath, JobTerminal
<1>. QED BY <1>1, <1>2

(* An execution.                                                           *)
LEMMA ExecuteAdvances ==
  ASSUME RowsTyped, NEW t \in Slots, Execute(t), txn[t].snap = Current
  PROVE  Advances
<1>0. txn[t].snap = Current /\ txn[t].snap.node = node
  BY DEF Current
<1>1. Costly \subseteq Provider /\ Provider \subseteq Nodes
  BY EngineAssumption
<1>2. CASE ExecFinish(t)
  <2>. DEFINE C == Unfinished(Current, N + 1)
  <2>1. /\ run' = "SUCCEEDED" /\ node' = Set(node, C, "SUCCEEDED")
        /\ job' = Set(Set(job, C \cap Provider, "SUCCEEDED"), {}, StatusOf("good"))
        /\ Charge(Current, C)
    BY <1>2 DEF ExecFinish, Completes
  <2>2. \A n \in Nodes : n \in C \/ node[n] = "SUCCEEDED"
    BY EngineAssumption DEF Unfinished, Current, Nodes
  <2>. HIDE DEF C
  <2>3. \A n \in Nodes : /\ node'[n] = IF n \in C THEN "SUCCEEDED" ELSE node[n]
                         /\ job'[n] = IF n \in C \cap Provider THEN "SUCCEEDED" ELSE job[n]
    BY <2>1 DEF Set
  <2>. QED BY <1>1, <2>1, <2>2, <2>3, ChargeReaches DEF Advances
<1>3. CASE ExecWait(t)
  <2>1. PICK k \in Provider, a \in Answers \cap (WaitAnswers \cup EndAnswers) :
          /\ node[k] # "SUCCEEDED" /\ Callable(Current, k)
          /\ run' = "WAITING_PROVIDER"
          /\ node' = [Set(node, Unfinished(Current, k), "SUCCEEDED")
                        EXCEPT ![k] = "WAITING_PROVIDER"]
          /\ Completes(Current, Unfinished(Current, k), {k}, a)
    <3>1. \E k \in Provider, a \in Answers \cap (WaitAnswers \cup EndAnswers) :
            LET s == txn[t].snap IN
            /\ s.node[k] # "SUCCEEDED" /\ Callable(s, k)
            /\ run' = "WAITING_PROVIDER"
            /\ node' = [Set(node, Unfinished(s, k), "SUCCEEDED") EXCEPT ![k] = "WAITING_PROVIDER"]
            /\ Completes(s, Unfinished(s, k), {k}, a)
      BY <1>3 DEF ExecWait
    <3>. QED BY <3>1, <1>0
  <2>. DEFINE C == Unfinished(Current, k)
  <2>2. k \notin C
    BY <1>1 DEF Unfinished, Nodes
  <2>3. job[k] # "SUCCEEDED"
    BY <2>1 DEF Callable, Current, JobTerminal
  <2>4. Charge(Current, C) /\ job' = Set(Set(job, C \cap Provider, "SUCCEEDED"), {k}, StatusOf(a))
    BY <2>1 DEF Completes
  <2>. HIDE DEF C
  <2>5. \A n \in Nodes \ {k} :
          /\ node'[n] = IF n \in C THEN "SUCCEEDED" ELSE node[n]
          /\ job'[n] = IF n \in C \cap Provider THEN "SUCCEEDED" ELSE job[n]
    BY <2>1, <2>4 DEF Set, C
  <2>6. node'[k] = "WAITING_PROVIDER"
    BY <1>1, <2>1 DEF Set
  <2>. QED BY <1>1, <2>1, <2>2, <2>3, <2>4, <2>5, <2>6, ChargeReaches DEF Advances
<1>4. CASE ExecReject(t) \/ ExecRaise(t) \/ ExecUnusable(t)
  BY <1>4, FailsLeaveRows DEF rows, Advances
<1>. QED BY <1>2, <1>3, <1>4 DEF Execute

(* A poll. *)
LEMMA PollAdvances ==
  ASSUME TypeOK, NEW t \in Slots, Poll(t), txn[t].snap = Current
  PROVE  Advances
<1>. DEFINE n == txn[t].job
<1>1. RowsTyped /\ Costly \subseteq Nodes
  BY RowsAreView, EngineAssumption DEF TypeOK
<1>2. /\ txn[t].snap.run = run /\ txn[t].snap.node = node /\ txn[t].snap.job = job
      /\ txn[t].snap = Current
  BY DEF Current
<1>3. ASSUME NEW a, Accepted(t, a) PROVE job[n] \notin JobTerminal
  BY <1>2, <1>3 DEF Accepted, MayPoll
<1>4. ASSUME NEW a, Accepted(t, a), Applied(t, a)
      PROVE  /\ \A m \in Nodes : job[m] = "SUCCEEDED" => job'[m] = "SUCCEEDED"
             /\ n \in Nodes => job'[n] = StatusOf(a)
  BY <1>1, <1>3, <1>4 DEF Applied, RowsTyped, JobTerminal
<1>5. CASE PollPending(t)
  BY <1>1, <1>4, <1>5 DEF PollPending, Advances
<1>6. CASE PollSucceed(t)
  <2>1. PICK a \in {"good", "wrong"} :
          /\ Accepted(t, a) /\ Applied(t, a)
          /\ IF Awaited(t)
             THEN node' = [node EXCEPT ![n] = "SUCCEEDED"] /\ Charge(Current, {n})
             ELSE UNCHANGED <<node, debits>>
          /\ UNCHANGED run
    BY <1>2, <1>6 DEF PollSucceed
  <2>2. StatusOf(a) = "SUCCEEDED"
    BY DEF StatusOf, SuccessAnswers
  <2>3. \A m \in Nodes : m \in {n} => job'[m] = "SUCCEEDED"
    BY <1>4, <2>1, <2>2
  <2>4. CASE Awaited(t)
    <3>1. \A m \in Nodes : node'[m] = IF m = n THEN "SUCCEEDED" ELSE node[m]
      BY <1>1, <2>1, <2>4 DEF RowsTyped
    <3>. QED BY <1>1, <1>4, <2>1, <2>3, <2>4, <3>1, ChargeReaches DEF Advances
  <2>5. CASE ~Awaited(t)
    BY <1>4, <2>1, <2>5 DEF Advances
  <2>. QED BY <2>4, <2>5
<1>7. CASE PollUnusable(t)
  <2>1. PICK a \in {"empty", "unpayable"} :
          /\ Accepted(t, a) /\ Applied(t, a)
          /\ (Charge(Current, {n}) \/ UNCHANGED debits)
          /\ UNCHANGED <<run, node>>
    BY <1>2, <1>7 DEF PollUnusable
  <2>2. StatusOf(a) = "SUCCEEDED"
    BY DEF StatusOf, SuccessAnswers
  <2>. QED BY <1>1, <1>4, <2>1, <2>2, ChargeReaches DEF Advances
<1>8. CASE PollEnd(t)
  <2>1. PICK a \in EndAnswers :
          /\ Accepted(t, a) /\ Applied(t, a)
          /\ \/ node[n] = "WAITING_PROVIDER" /\ node' = [node EXCEPT ![n] = NodeEnd(a)]
             \/ UNCHANGED node
          /\ UNCHANGED <<run, debits>>
    BY <1>2, <1>8 DEF PollEnd, Awaited
  <2>2. NodeEnd(a) # "SUCCEEDED"
    BY DEF NodeEnd
  <2>. QED BY <1>1, <1>4, <2>1, <2>2 DEF Advances, RowsTyped
<1>9. CASE PollRaise(t) \/ PollNothing(t)
  BY <1>9 DEF PollRaise, PollNothing, rows, Advances
<1>10. CASE PollExpire(t)
  BY <1>1, <1>2, <1>10 DEF PollExpire, TimeOut, JobTerminal, Advances, RowsTyped
<1>11. CASE PollExhaust(t)
  BY <1>1, <1>2, <1>3, <1>11 DEF PollExhaust, TimeOut, JobTerminal, Advances, RowsTyped
<1>12. CASE PollStop(t)
  BY <1>1, <1>2, <1>12 DEF PollStop, JobTerminal, NodeTerminal, Advances, RowsTyped
<1>13. CASE PollRecover(t)
  BY <1>1, <1>2, <1>13, ChargeReaches DEF PollRecover, Awaited, Advances, RowsTyped
<1>14. CASE PollUnrecoverable(t)
  <2>1. job[n] = "SUCCEEDED" /\ (Charge(Current, {n}) \/ UNCHANGED debits)
        /\ UNCHANGED <<run, node, job>>
    BY <1>2, <1>14 DEF PollUnrecoverable
  <2>. QED BY <1>1, <2>1, ChargeReaches DEF Advances
<1>. QED BY <1>5, <1>6, <1>7, <1>8, <1>9, <1>10, <1>11, <1>12, <1>13, <1>14 DEF Poll

(* A cancellation or an expiry.                                            *)
LEMMA StopAdvances ==
  ASSUME RowsTyped, NEW t \in Slots, NEW kind, NEW status, status # "SUCCEEDED",
         Stop(t, kind, status), txn[t].snap = Current
  PROVE  Advances
<1>1. /\ job' = Set(job, {m \in Nodes : job[m] \in JobActive}, "CANCELLED")
      /\ node' = Set(node, {m \in Nodes : node[m] \in NodeActive}, "CANCELLED")
      /\ run' = status /\ UNCHANGED debits
  BY DEF Stop, StopWith, Current
<1>. QED BY <1>1 DEF Set, JobActive, JobTerminal, NodeActive, NodeTerminal, Advances

(* The steps of a serialised engine: a handler's end on the rows as they   *)
(* are, or a step that leaves the rows alone.                              *)
LEMMA SerialCases ==
  ASSUME SerialInv, [Next]_vars
  PROVE  \/ UNCHANGED rows
         \/ \E t \in Slots : Finish(t) /\ txn[t].snap = Current
                            /\ (txn[t].kind # "poll" => run \notin RunTerminal)
<1>1. ASSUME NEW t \in Slots, Finish(t)
      PROVE  txn[t].snap = Current /\ (txn[t].kind # "poll" => run \notin RunTerminal)
  BY <1>1, SerialSettles
<1>. QED BY <1>1 DEF Next, Finish, ExecBegin, PollBegin, StopBegin, Abort,
             StartAgain, ResumeRun, vars

(* Every step of a serialised engine.                                      *)
LEMMA SerialAdvances ==
  ASSUME SerialInv, [Next]_vars
  PROVE  Advances
<1>1. TypeOK /\ RowsTyped
  BY RowsAreView DEF SerialInv, CreditInv, TypeOK
<1>2. CASE UNCHANGED rows
  BY <1>2 DEF rows, Advances
<1>3. ASSUME NEW t \in Slots, Finish(t), txn[t].snap = Current PROVE Advances
  BY <1>1, <1>3, ExecuteAdvances, PollAdvances, StopAdvances DEF Finish, CancelMyRun, ExpireStuckRun
<1>. QED BY <1>2, <1>3, SerialCases

(* Every costly node that succeeded is paid, and a succeeded run has only  *)
(* succeeded nodes.                                                        *)
SuccessIsPaid ==
  /\ ChargedForSuccess
  /\ \A n \in Costly : node[n] = "SUCCEEDED" => debits[n] > 0
  /\ run = "SUCCEEDED" => \A n \in Nodes : node[n] = "SUCCEEDED"

(* Nothing is charged and nothing has succeeded at the start.              *)
LEMMA PaidInit == Init => SuccessIsPaid
  BY EngineAssumption DEF Init, InitView, SuccessIsPaid, ChargedForSuccess

(* Every step keeps successes paid.                                        *)
LEMMA PaidStep ==
  ASSUME SerialInv, SuccessIsPaid, [Next]_vars
  PROVE  SuccessIsPaid'
<1>1. Advances /\ Costly \subseteq Nodes
  BY SerialAdvances, EngineAssumption
<1>. QED BY <1>1 DEF Advances, SuccessIsPaid, ChargedForSuccess

(* When handlers do not overlap, only a job that the provider finished is  *)
(* charged, and it stays so: no later answer, expiry or cancellation takes *)
(* the success back.                                                       *)
THEOREM SerialCharges ==
  ASSUME Serial
  PROVE  Spec => []ChargedForSuccess
<1>1. SerialInv /\ SuccessIsPaid /\ [Next]_vars => SerialInv' /\ SuccessIsPaid'
  BY SerialStep, PaidStep
<1>2. SuccessIsPaid => ChargedForSuccess
  BY DEF SuccessIsPaid
<1>. QED BY <1>1, <1>2, SerialInit, PaidInit, PTL DEF Spec

(* When handlers do not overlap, a run that has succeeded has all of its   *)
(* nodes, each of them paid, wherever the executor or the poller was       *)
(* interrupted on the way.                                                 *)
THEOREM SerialComplete ==
  ASSUME Serial
  PROVE  Spec => []SucceededRunIsComplete
<1>1. SerialInv /\ SuccessIsPaid /\ [Next]_vars => SerialInv' /\ SuccessIsPaid'
  BY SerialStep, PaidStep
<1>2. SuccessIsPaid => SucceededRunIsComplete
  BY DEF SuccessIsPaid, SucceededRunIsComplete
<1>. QED BY <1>1, <1>2, SerialInit, PaidInit, PTL DEF Spec

-----------------------------------------------------------------------------
(* The order in which nodes wait.                                          *)

(* Nodes after one that has not succeeded have not begun. *)
InTurn ==
  run \notin RunTerminal =>
    \A m, n \in Nodes : m < n /\ node[m] # "SUCCEEDED" => node[n] = "PENDING"

(* Only provider nodes have a job at work, and a poll is of a node's job. *)
JobsAtWork ==
  /\ \A n \in Nodes \ Provider : job[n] \notin JobActive
  /\ \A t \in Slots : txn[t].kind = "poll" => txn[t].job \in Nodes

WaitInv == ActiveJobIsAwaited /\ InTurn /\ JobsAtWork

(* A job that is not at work gets no status from a poll. *)
LEMMA OnlyActiveMoves ==
  ASSUME NEW c \in JobStatus \cup {"NONE"}, c \notin JobTerminal,
         NEW d, d # "NONE", JobCanReach(c, d)
  PROVE  c \in JobActive
<1>1. SUFFICES ASSUME c = "NONE" PROVE FALSE
  BY DEF JobActive
<1>2. TransitionPath(c, d) = <<d>>
  BY <1>1 DEF TransitionPath
<1>3. PathAllowed(c, <<d>>)
  BY <1>1, <1>2 DEF JobCanReach
<1>4. (<<c>> \o <<d>>)[1] = c /\ (<<c>> \o <<d>>)[2] = d /\ Len(<<d>>) = 1
  OBVIOUS
<1>5. <<c, d>> \in JobTransitions
  BY <1>3, <1>4 DEF PathAllowed
<1>. QED BY <1>1, <1>5 DEF JobTransitions

(* No answer leaves a job in a status that is only passed through.         *)
LEMMA StatusOfWritten ==
  ASSUME NEW a \in AllAnswers \ {"raise"}
  PROVE  StatusOf(a) \in JobTerminal \cup {"SUBMITTED", "WAITING_PROVIDER"}
  BY DEF StatusOf, AllAnswers, WaitAnswers, SuccessAnswers, EndAnswers, JobTerminal

(* With no job at work, and the run ended or the nodes in turn, it holds. *)
LEMMA NoJobAtWork ==
  ASSUME \A n \in Nodes : job'[n] \notin JobActive
  PROVE  ActiveJobIsAwaited' /\ (\A n \in Nodes \ Provider : job'[n] \notin JobActive)
  BY DEF ActiveJobIsAwaited

(* At most one job is at work, and the node of another does not wait. *)
LEMMA OneAtWork ==
  ASSUME ActiveJobIsAwaited, NEW n \in Nodes, node[n] = "WAITING_PROVIDER"
  PROVE  \A m \in Nodes : job[m] \in JobActive => m = n
  BY DEF ActiveJobIsAwaited, Nodes

(* An execution ends the run, or waits for the first unfinished node.      *)
LEMMA ExecuteWaits ==
  ASSUME RowsTyped, WaitInv, run \notin RunTerminal,
         NEW t \in Slots, Execute(t), txn[t].snap = Current
  PROVE  ActiveJobIsAwaited' /\ InTurn' /\ (\A n \in Nodes \ Provider : job'[n] \notin JobActive)
<1>0. txn[t].snap = Current /\ txn[t].snap.node = node
  BY DEF Current
<1>1. Provider \subseteq Nodes /\ \A m, n \in Nodes : m < n \/ m = n \/ n < m
  BY EngineAssumption DEF Nodes
<1>2. CASE ExecFinish(t)
  <2>. DEFINE C == Unfinished(Current, N + 1)
  <2>1. /\ run' = "SUCCEEDED"
        /\ job' = Set(Set(job, C \cap Provider, "SUCCEEDED"), {}, StatusOf("good"))
    BY <1>0, <1>2 DEF ExecFinish, Completes
  <2>2. \A n \in Nodes : n \in C \/ node[n] = "SUCCEEDED"
    BY EngineAssumption DEF Unfinished, Current, Nodes
  <2>. HIDE DEF C
  <2>3. \A n \in Nodes : job'[n] = IF n \in C \cap Provider THEN "SUCCEEDED" ELSE job[n]
    BY <2>1 DEF Set
  <2>4. \A n \in Nodes : job'[n] \notin JobActive
    BY <2>2, <2>3 DEF WaitInv, ActiveJobIsAwaited, JobsAtWork, JobActive, JobTerminal
  <2>. QED BY <2>1, <2>4, NoJobAtWork DEF InTurn, RunTerminal
<1>3. CASE ExecWait(t)
  <2>1. PICK k \in Provider, a \in Answers \cap (WaitAnswers \cup EndAnswers) :
          /\ node[k] # "SUCCEEDED"
          /\ run' = "WAITING_PROVIDER"
          /\ node' = [Set(node, Unfinished(Current, k), "SUCCEEDED")
                        EXCEPT ![k] = "WAITING_PROVIDER"]
          /\ Completes(Current, Unfinished(Current, k), {k}, a)
    <3>1. \E k \in Provider, a \in Answers \cap (WaitAnswers \cup EndAnswers) :
            LET s == txn[t].snap IN
            /\ s.node[k] # "SUCCEEDED"
            /\ run' = "WAITING_PROVIDER"
            /\ node' = [Set(node, Unfinished(s, k), "SUCCEEDED") EXCEPT ![k] = "WAITING_PROVIDER"]
            /\ Completes(s, Unfinished(s, k), {k}, a)
      BY <1>3 DEF ExecWait
    <3>. QED BY <3>1, <1>0
  <2>. DEFINE C == Unfinished(Current, k)
  <2>2. k \in Nodes /\ \A n \in Nodes : n \in C <=> n < k /\ node[n] # "SUCCEEDED"
    BY <1>1 DEF Unfinished, Current
  <2>3. job' = Set(Set(job, C \cap Provider, "SUCCEEDED"), {k}, StatusOf(a))
    BY <2>1 DEF Completes
  <2>. HIDE DEF C
  <2>4. \A n \in Nodes \ {k} :
          /\ node'[n] = IF n \in C THEN "SUCCEEDED" ELSE node[n]
          /\ job'[n] = IF n \in C \cap Provider THEN "SUCCEEDED" ELSE job[n]
    BY <2>1, <2>3 DEF Set, C
  <2>5. node'[k] = "WAITING_PROVIDER"
    BY <1>1, <2>1 DEF Set
  <2>6. \A n \in Nodes : n < k => node'[n] = "SUCCEEDED"
    BY <2>2, <2>4 DEF Nodes
  <2>7. \A n \in Nodes : k < n => node[n] = "PENDING" /\ node'[n] = "PENDING"
    BY <2>1, <2>2, <2>4 DEF WaitInv, InTurn, Nodes
  <2>8. \A n \in Nodes \ {k} : job'[n] \notin JobActive
    <3>1. ASSUME NEW n \in Nodes \ {k}, job'[n] \in JobActive PROVE FALSE
      <4>1. n \notin C \cap Provider /\ job[n] \in JobActive
        BY <2>4, <3>1 DEF JobActive, JobTerminal
      <4>2. n \in Provider /\ node[n] = "WAITING_PROVIDER"
        BY <4>1 DEF WaitInv, ActiveJobIsAwaited, JobsAtWork
      <4>3. ~(n < k) /\ ~(k < n)
        BY <2>2, <2>7, <4>1, <4>2
      <4>. QED BY <1>1, <2>2, <4>3
    <3>. QED BY <3>1
  <2>9. ActiveJobIsAwaited' /\ (\A n \in Nodes \ Provider : job'[n] \notin JobActive)
    BY <2>1, <2>5, <2>6, <2>7, <2>8 DEF ActiveJobIsAwaited
  <2>10. InTurn'
    BY <1>1, <2>2, <2>6, <2>7 DEF InTurn, Nodes
  <2>. QED BY <2>9, <2>10
<1>4. CASE ExecReject(t) \/ ExecRaise(t) \/ ExecUnusable(t)
  <2>1. UNCHANGED rows
    BY <1>4, FailsLeaveRows
  <2>. QED BY <2>1 DEF rows, WaitInv, ActiveJobIsAwaited, InTurn, JobsAtWork
<1>. QED BY <1>2, <1>3, <1>4 DEF Execute

(* A poll leaves the one job at work, or no job.                           *)
LEMMA PollWaits ==
  ASSUME TypeOK, WaitInv, NEW t \in Slots, Poll(t), txn[t].snap = Current
  PROVE  ActiveJobIsAwaited' /\ InTurn' /\ (\A n \in Nodes \ Provider : job'[n] \notin JobActive)
<1>. DEFINE n == txn[t].job
<1>1. RowsTyped /\ Provider \subseteq Nodes /\ \A i, j \in Nodes : i < j \/ i = j \/ j < i
  BY RowsAreView, EngineAssumption DEF TypeOK, Nodes
<1>2. /\ txn[t].snap.run = run /\ txn[t].snap.node = node /\ txn[t].snap.job = job
  BY DEF Current
<1>3. n \in Nodes
  <2>1. txn[t].kind = "poll"
    BY DEF Poll, PollPending, PollSucceed, PollUnusable, PollEnd, PollRaise, PollExpire,
       PollExhaust, PollStop, PollNothing, PollRecover, PollUnrecoverable,
       Accepted, MayPoll, InFlight
  <2>. QED BY <2>1 DEF WaitInv, JobsAtWork
<1>4. CASE UNCHANGED <<run, node, job>>
  BY <1>4 DEF WaitInv, ActiveJobIsAwaited, InTurn, JobsAtWork
(* After the job's end: no job is at work. *)
<1>5. ASSUME node[n] = "WAITING_PROVIDER" \/ job[n] \in JobActive,
             job'[n] \notin JobActive, \A m \in Nodes \ {n} : job'[m] = job[m]
      PROVE  /\ \A m \in Nodes : job'[m] \notin JobActive
             /\ ActiveJobIsAwaited' /\ (\A m \in Nodes \ Provider : job'[m] \notin JobActive)
  <2>1. node[n] = "WAITING_PROVIDER"
    BY <1>3, <1>5 DEF WaitInv, ActiveJobIsAwaited
  <2>2. \A m \in Nodes : job'[m] \notin JobActive
    BY <1>3, <1>5, <2>1, OneAtWork DEF WaitInv
  <2>. QED BY <2>2, NoJobAtWork
(* After the node's end: the nodes are still in turn. *)
<1>6. ASSUME node[n] = "WAITING_PROVIDER", \A m \in Nodes \ {n} : node'[m] = node[m], UNCHANGED run
      PROVE  InTurn'
  <2>1. SUFFICES ASSUME run \notin RunTerminal, NEW i \in Nodes, NEW j \in Nodes,
                        i < j, node'[i] # "SUCCEEDED"
                 PROVE  node'[j] = "PENDING"
    BY <1>6 DEF InTurn
  <2>2. CASE i = n
    BY <1>3, <1>6, <2>1, <2>2 DEF WaitInv, InTurn, Nodes
  <2>3. CASE i # n
    <3>1. node[j] = "PENDING"
      BY <1>6, <2>1, <2>3 DEF WaitInv, InTurn
    <3>. QED BY <1>6, <3>1
  <2>. QED BY <2>2, <2>3
<1>7. ASSUME NEW a, Accepted(t, a) PROVE job[n] \in JobActive /\ node[n] = "WAITING_PROVIDER"
  <2>1. /\ job[n] \notin JobTerminal /\ JobCanReach(job[n], StatusOf(a))
        /\ a \in AllAnswers \ {"raise"}
    BY <1>2, <1>7, EngineAssumption DEF Accepted, MayPoll
  <2>2. StatusOf(a) # "NONE"
    BY <2>1, StatusOfWritten DEF JobTerminal
  <2>3. job[n] \in JobActive
    BY <1>1, <1>3, <2>1, <2>2, OnlyActiveMoves DEF RowsTyped
  <2>. QED BY <1>3, <2>3 DEF WaitInv, ActiveJobIsAwaited
<1>8. ASSUME NEW a, Applied(t, a)
      PROVE  job'[n] = StatusOf(a) /\ \A m \in Nodes \ {n} : job'[m] = job[m]
  BY <1>1, <1>3, <1>8 DEF Applied, RowsTyped
<1>9. CASE PollPending(t)
  <2>1. PICK a : Accepted(t, a) /\ Applied(t, a) /\ UNCHANGED <<run, node>>
    BY <1>9 DEF PollPending
  <2>2. \A m \in Nodes : job'[m] \in JobActive => job[m] \in JobActive
    BY <1>7, <1>8, <2>1
  <2>. QED BY <2>1, <2>2 DEF WaitInv, ActiveJobIsAwaited, InTurn, JobsAtWork
<1>10. CASE PollSucceed(t) \/ PollUnusable(t) \/ PollEnd(t)
  <2>1. PICK a \in SuccessAnswers \cup EndAnswers :
          /\ Accepted(t, a) /\ Applied(t, a) /\ UNCHANGED run
          /\ \A m \in Nodes \ {n} : node'[m] = node[m]
    BY <1>1, <1>10 DEF PollSucceed, PollUnusable, PollEnd, SuccessAnswers, RowsTyped
  <2>2. StatusOf(a) \notin JobActive
    BY DEF StatusOf, SuccessAnswers, EndAnswers, JobActive, JobTerminal
  <2>. QED BY <1>5, <1>6, <1>7, <1>8, <2>1, <2>2
<1>11. CASE PollRaise(t) \/ PollNothing(t) \/ PollUnrecoverable(t)
  <2>1. UNCHANGED <<run, node, job>>
    BY <1>11 DEF PollRaise, PollNothing, PollUnrecoverable, rows
  <2>. QED BY <1>4, <2>1
<1>12. CASE PollExpire(t) \/ PollExhaust(t)
  <2>1. job' = [job EXCEPT ![n] = "EXPIRED"] /\ run' \in RunTerminal
    BY <1>12 DEF PollExpire, PollExhaust, TimeOut, RunTerminal
  <2>2. job[n] \in JobActive
    <3>1. CASE PollExhaust(t)
      BY <1>7, <3>1 DEF PollExhaust
    <3>2. CASE PollExpire(t)
      BY <1>1, <1>2, <1>3, <3>2, OnlyActiveMoves DEF PollExpire, RowsTyped
    <3>. QED BY <1>12, <3>1, <3>2
  <2>3. job'[n] \notin JobActive /\ \A m \in Nodes \ {n} : job'[m] = job[m]
    BY <1>1, <1>3, <2>1 DEF RowsTyped, JobActive, JobTerminal
  <2>. QED BY <1>5, <2>1, <2>2, <2>3 DEF InTurn
<1>13. CASE PollStop(t)
  <2>1. run = "CANCELLED" /\ UNCHANGED run
        /\ job' = [job EXCEPT ![n] = IF job[n] \in JobTerminal THEN @ ELSE "CANCELLED"]
    BY <1>2, <1>13 DEF PollStop
  <2>2. \A m \in Nodes : job'[m] \notin JobActive
    BY <1>1, <2>1 DEF RowsTyped, WaitInv, ActiveJobIsAwaited, JobActive, JobTerminal
  <2>. QED BY <2>1, <2>2, NoJobAtWork DEF InTurn, RunTerminal
<1>14. CASE PollRecover(t)
  <2>1. /\ job[n] \in JobTerminal /\ node[n] = "WAITING_PROVIDER" /\ UNCHANGED <<run, job>>
        /\ \A m \in Nodes \ {n} : node'[m] = node[m]
    BY <1>1, <1>2, <1>14 DEF PollRecover, Awaited, RowsTyped
  <2>. QED BY <1>5, <1>6, <2>1 DEF JobActive
<1>. QED BY <1>9, <1>10, <1>11, <1>12, <1>13, <1>14 DEF Poll

(* A cancelled or expired run has no job at work.                          *)
LEMMA StopWaits ==
  ASSUME RowsTyped, WaitInv, NEW t \in Slots, NEW kind, NEW status \in RunTerminal,
         Stop(t, kind, status), txn[t].snap = Current
  PROVE  ActiveJobIsAwaited' /\ InTurn' /\ (\A n \in Nodes \ Provider : job'[n] \notin JobActive)
<1>1. job' = Set(job, {m \in Nodes : job[m] \in JobActive}, "CANCELLED") /\ run' = status
  BY DEF Stop, StopWith, Current
<1>2. \A n \in Nodes : job'[n] \notin JobActive
  BY <1>1 DEF Set, JobActive, JobTerminal
<1>. QED BY <1>1, <1>2, NoJobAtWork DEF InTurn

(* A poll is begun for a node's job. *)
LEMMA PollsOfNodes ==
  ASSUME TypeOK, JobsAtWork, [Next]_vars
  PROVE  \A t \in Slots : txn'[t].kind = "poll" => txn'[t].job \in Nodes
<1>1. ASSUME NEW u \in Slots, End(u) \/ UNCHANGED txn
      PROVE  \A t \in Slots : txn'[t].kind = "poll" => txn'[t].job \in Nodes
  BY <1>1 DEF End, Idle, JobsAtWork, TypeOK
<1>2. ASSUME NEW u \in Slots, NEW kind, NEW n, Begin(u, kind, n), kind = "poll" => n \in Nodes
      PROVE  \A t \in Slots : txn'[t].kind = "poll" => txn'[t].job \in Nodes
  BY <1>2 DEF Begin, JobsAtWork, TypeOK
<1>3. ASSUME NEW u \in Slots, Finish(u) PROVE End(u)
  BY <1>3 DEF Finish, Execute, ExecFinish, ExecWait, ExecReject, ExecRaise, ExecUnusable,
     ExecFails, Poll, PollPending, PollSucceed, PollUnusable,
     PollEnd, PollRaise, PollExpire, PollExhaust, PollStop, PollNothing, PollRecover,
     PollUnrecoverable, CancelMyRun, ExpireStuckRun, Stop, StopWith
<1>4. ASSUME NEW u \in Slots, ExecBegin(u) PROVE Begin(u, "execute", 0) \/ UNCHANGED txn
  BY <1>4 DEF ExecBegin
<1>5. ASSUME NEW u \in Slots, NEW n \in Nodes, PollBegin(u, n) PROVE Begin(u, "poll", n)
  BY <1>5 DEF PollBegin
<1>6. ASSUME NEW u \in Slots, NEW kind \in {"cancel", "expire"}, StopBegin(u, kind)
      PROVE  Begin(u, kind, 0)
  BY <1>6 DEF StopBegin
<1>7. ASSUME NEW u \in Slots, Abort(u) PROVE End(u)
  BY <1>7 DEF Abort
<1>8. (StartAgain \/ ResumeRun \/ UNCHANGED vars) => UNCHANGED txn
  BY DEF StartAgain, ResumeRun, vars
<1>9. \E u \in Slots : TRUE
  BY EngineAssumption
<1>. QED BY <1>1, <1>2, <1>3, <1>4, <1>5, <1>6, <1>7, <1>8, <1>9 DEF Next, Finish

(* There is no job at the start.                                           *)
LEMMA WaitInit == Init => WaitInv
  BY DEF Init, InitView, Idle, WaitInv, ActiveJobIsAwaited, InTurn, JobsAtWork, JobActive, JobStatus

(* Every serialised step keeps the one job at work awaited.                *)
LEMMA WaitStep ==
  ASSUME SerialInv, WaitInv, [Next]_vars
  PROVE  WaitInv'
<1>1. TypeOK /\ RowsTyped
  BY RowsAreView DEF SerialInv, CreditInv, TypeOK
<1>2. SUFFICES ActiveJobIsAwaited' /\ InTurn'
               /\ (\A n \in Nodes \ Provider : job'[n] \notin JobActive)
  BY <1>1, PollsOfNodes DEF WaitInv, JobsAtWork
<1>3. CASE UNCHANGED rows
  BY <1>3 DEF rows, WaitInv, ActiveJobIsAwaited, InTurn, JobsAtWork
<1>4. ASSUME NEW t \in Slots, Finish(t), txn[t].snap = Current,
             txn[t].kind # "poll" => run \notin RunTerminal
      PROVE  /\ ActiveJobIsAwaited' /\ InTurn'
             /\ \A n \in Nodes \ Provider : job'[n] \notin JobActive
  <2>1. Execute(t) => txn[t].kind = "execute"
    BY DEF Execute, ExecFinish, ExecWait, ExecReject, ExecRaise, ExecUnusable, InFlight
  <2>. QED BY <1>1, <1>4, <2>1, ExecuteWaits, PollWaits, StopWaits
       DEF Finish, CancelMyRun, ExpireStuckRun, RunTerminal
<1>. QED BY <1>3, <1>4, SerialCases

(* When handlers do not overlap, a job at work is the only one, and its    *)
(* run and node wait for it, whatever the provider answered.               *)
THEOREM SerialAwaited ==
  ASSUME Serial
  PROVE  Spec => []ActiveJobIsAwaited
<1>1. SerialInv /\ WaitInv /\ [Next]_vars => SerialInv' /\ WaitInv'
  BY SerialStep, WaitStep
<1>2. WaitInv => ActiveJobIsAwaited
  BY DEF WaitInv
<1>. QED BY <1>1, <1>2, SerialInit, WaitInit, PTL DEF Spec
=============================================================================
