------------------------ MODULE TemplateReviewProofs ------------------------
(***************************************************************************)
(* What holds of TemplateReview for every set of contents, versions and    *)
(* users, and any number of overlapping transactions.  The argument is     *)
(* that of an optimistic lock: a transaction that may still save has the   *)
(* template and its versions as they are (SnapshotsHold), because whoever  *)
(* writes either of them puts the other transactions behind.               *)
(***************************************************************************)
EXTENDS TemplateReview, TLAPS

SnapshotsHold ==
  \A t \in Slots : txn[t] # Idle /\ ~txn[t].behind =>
    txn[t].tpl = tpl /\ txn[t].versions = versions

(* The numbers in use have a highest one. *)
HasLatest(vs) ==
  \E n \in Numbers(vs) \cup {0} : \A m \in Numbers(vs) : m <= n

OneActive == Active(versions) \subseteq {tpl.published_version}

ReviewInv ==
  /\ TypeOK /\ SnapshotsHold /\ HasLatest(versions) /\ OneActive
  /\ PublishedHasItsVersion /\ ArchivedOffersNothing /\ VersionsInOrder

-----------------------------------------------------------------------------
(* No transaction is the empty slot, no version the empty name. *)
LEMMA Nothing == Idle \notin Txn /\ NoVersion \notin Version
BY DEF Idle, Txn, NoVersion, Version, Services, VersionStatus

(* A transaction at work is typed, and its snapshot with it. *)
LEMMA TxnTyped ==
  ASSUME TypeOK, NEW t \in Slots, txn[t] # Idle
  PROVE  txn[t] \in Txn /\ txn[t].tpl \in Template /\ txn[t].versions \in Versions
BY DEF TypeOK, Txn

(* A slot that serves is not empty. *)
LEMMA ServingTxn ==
  ASSUME NEW t, NEW service \in Services, Serving(t, service)
  PROVE  txn[t] # Idle
BY DEF Serving, Idle, Services

(* Saving the template closes the transaction and leaves no other current. *)
LEMMA SaveCloses ==
  ASSUME TypeOK, NEW t \in Slots, NEW doc \in Template, SaveTemplate(t, doc)
  PROVE  /\ tpl' \in Template
         /\ txn' \in [Slots -> Txn \cup {Idle}]
         /\ SnapshotsHold'
<1>1. \A s \in Slots : txn'[s] \in Txn \cup {Idle} /\ (txn'[s] # Idle => txn'[s].behind)
  BY Nothing DEF TypeOK, SaveTemplate, Txn
<1> QED BY <1>1 DEF SaveTemplate, SnapshotsHold

(* The highest number is a number, at least as high as every other. *)
LEMMA LatestIsHighest ==
  ASSUME NEW vs \in Versions, HasLatest(vs)
  PROVE  /\ LatestVersionNo(vs) \in Nat
         /\ \A v \in Existing(vs) : vs[v].version_no <= LatestVersionNo(vs)
<1>1. \A v \in Existing(vs) : vs[v] \in Version /\ vs[v].version_no \in Numbers(vs)
  BY DEF Versions, Existing, Numbers
<1>2. Numbers(vs) \cup {0} \subseteq Nat
  BY <1>1 DEF Numbers, Version
<1>3. /\ LatestVersionNo(vs) \in Numbers(vs) \cup {0}
      /\ \A m \in Numbers(vs) : m <= LatestVersionNo(vs)
  BY DEF HasLatest, LatestVersionNo
<1> QED BY <1>1, <1>2, <1>3

(* Retiring the ACTIVE versions changes their statuses only. *)
LEMMA RetiredVersions ==
  ASSUME NEW vs \in Versions, NEW status \in VersionStatus \ {"ACTIVE"}
  PROVE  /\ Retired(vs, vs, status) \in Versions
         /\ Active(Retired(vs, vs, status)) = {}
         /\ Existing(Retired(vs, vs, status)) = Existing(vs)
         /\ \A v \in Existing(vs) :
              /\ Retired(vs, vs, status)[v].version_no = vs[v].version_no
              /\ Retired(vs, vs, status)[v].content = vs[v].content
              /\ vs[v].status # "ACTIVE" => Retired(vs, vs, status)[v] = vs[v]
<1> DEFINE out == Retired(vs, vs, status)
<1>1. \A v \in Names : out[v] = IF v \in Active(vs) THEN [vs[v] EXCEPT !.status = status] ELSE vs[v]
  BY DEF Retired
<1>2. \A v \in Existing(vs) : v \in Names /\ vs[v] \in Version
  BY DEF Existing, Versions
<1>3. \A v \in Active(vs) : v \in Existing(vs) /\ vs[v].status = "ACTIVE"
  BY DEF Active
<1>4. \A v \in Existing(vs) :
        /\ out[v] \in Version
        /\ out[v].version_no = vs[v].version_no /\ out[v].content = vs[v].content
        /\ vs[v].status # "ACTIVE" => out[v] = vs[v]
        /\ v \in Active(vs) => out[v].status = status
  BY <1>1, <1>2, <1>3 DEF Version
<1>5. \A v \in Names : v \notin Existing(vs) => out[v] = NoVersion
  BY <1>1, <1>3 DEF Existing
<1>6. out \in Versions
  BY <1>4, <1>5 DEF Retired, Versions
<1>7. Existing(out) = Existing(vs)
  BY <1>2, <1>4, <1>5, Nothing DEF Existing
<1>8. Active(out) = {}
  BY <1>4, <1>7 DEF Active
<1> QED BY <1>4, <1>6, <1>7, <1>8

(* A transaction that may save sees the rows as they are. *)
LEMMA Seen ==
  ASSUME SnapshotsHold, NEW t \in Slots, txn[t] # Idle, Latest(t)
  PROVE  txn[t].tpl = tpl /\ txn[t].versions = versions
BY DEF SnapshotsHold, Latest

-----------------------------------------------------------------------------
(* What Publish does to the versions. *)
LEMMA Published ==
  ASSUME TypeOK, HasLatest(versions), NEW t \in Slots, txn[t].versions = versions,
         NEW content \in Contents, NEW status \in VersionStatus \ {"ACTIVE"},
         Publish(t, content, status)
  PROVE  \E v \in Names \ Existing(versions) :
           LET old == Retired(versions, versions, status)
               new == [version_no |-> LatestVersionNo(versions) + 1, status |-> "ACTIVE",
                       content |-> content]
           IN  /\ versions' = [old EXCEPT ![v] = new]
               /\ new \in Version
               /\ versions' \in Versions
               /\ Existing(versions') = Existing(versions) \cup {v}
               /\ Active(versions') = {v}
               /\ SaveTemplate(t, [status |-> "PUBLISHED", content |-> content,
                                   published_version |-> v])
<1> DEFINE old == Retired(versions, versions, status)
           new == [version_no |-> LatestVersionNo(versions) + 1, status |-> "ACTIVE",
                   content |-> content]
<1>0. versions \in Versions
  BY DEF TypeOK
<1>1. PICK v \in Names \ Existing(versions) :
        /\ versions' = [old EXCEPT ![v] = new]
        /\ SaveTemplate(t, [status |-> "PUBLISHED", content |-> content,
                            published_version |-> v])
  BY DEF Publish, NextVersionNo
<1>2. new \in Version
  BY <1>0, LatestIsHighest DEF Version, VersionStatus
<1>3. /\ old \in Versions /\ Active(old) = {} /\ Existing(old) = Existing(versions)
  BY <1>0, RetiredVersions
<1> HIDE DEF old, new
<1>4. versions' \in Versions
  BY <1>1, <1>2, <1>3 DEF Versions
<1>5. \A w \in Names : versions'[w] = IF w = v THEN new ELSE old[w]
  BY <1>1, <1>3 DEF Versions
<1>6. Existing(versions') = Existing(versions) \cup {v}
  BY <1>1, <1>2, <1>3, <1>5, Nothing DEF Existing
<1>7. new.status = "ACTIVE"
  BY DEF new
<1>8. Active(versions') = {v}
  <2>1. \A w \in Existing(versions) : old[w].status # "ACTIVE"
    BY <1>3 DEF Active
  <2>2. \A w \in Existing(versions) : w \in Names /\ w # v /\ versions'[w] = old[w]
    BY <1>1, <1>5 DEF Existing
  <2>3. versions'[v].status = "ACTIVE"
    BY <1>1, <1>5, <1>7
  <2>4. \A w \in Existing(versions') : versions'[w].status = "ACTIVE" <=> w = v
    BY <1>6, <2>1, <2>2, <2>3
  <2> QED BY <1>6, <2>4 DEF Active
<1> QED BY <1>1, <1>2, <1>4, <1>6, <1>8 DEF old, new

(* Approve and Rollback preserve the invariant through Publish. *)
LEMMA PublishKeeps ==
  ASSUME ReviewInv, NEW t \in Slots, txn[t].versions = versions,
         NEW content \in Contents, NEW status \in VersionStatus \ {"ACTIVE"},
         Publish(t, content, status)
  PROVE  ReviewInv'
<1> DEFINE old == Retired(versions, versions, status)
           new == [version_no |-> LatestVersionNo(versions) + 1, status |-> "ACTIVE",
                   content |-> content]
<1>0. TypeOK /\ HasLatest(versions) /\ VersionsInOrder /\ versions \in Versions
  BY DEF ReviewInv, TypeOK
<1>1. PICK v \in Names \ Existing(versions) :
        /\ versions' = [old EXCEPT ![v] = new]
        /\ new \in Version
        /\ versions' \in Versions
        /\ Existing(versions') = Existing(versions) \cup {v}
        /\ Active(versions') = {v}
        /\ SaveTemplate(t, [status |-> "PUBLISHED", content |-> content,
                            published_version |-> v])
  BY <1>0, Published
<1>2. [status |-> "PUBLISHED", content |-> content, published_version |-> v] \in Template
  BY DEF Template, TemplateStatus
<1>3. tpl' = [status |-> "PUBLISHED", content |-> content, published_version |-> v]
  BY <1>1 DEF SaveTemplate
<1>4. TypeOK' /\ SnapshotsHold'
  BY <1>0, <1>1, <1>2, SaveCloses DEF TypeOK
<1>5. OneActive' /\ PublishedHasItsVersion' /\ ArchivedOffersNothing'
  BY <1>1, <1>3 DEF OneActive, PublishedHasItsVersion, ArchivedOffersNothing
<1>6. /\ LatestVersionNo(versions) \in Nat
      /\ \A w \in Existing(versions) : versions[w].version_no <= LatestVersionNo(versions)
  BY <1>0, LatestIsHighest
<1>7. \A w \in Existing(versions) :
        versions[w].version_no \in Nat /\ versions'[w].version_no = versions[w].version_no
  <2>1. old \in Versions
    BY <1>0, RetiredVersions
  <2>2. \A w \in Existing(versions) : w \in Names /\ w # v /\ versions[w] \in Version
    BY <1>0, <1>1 DEF Existing, Versions
  <2>3. \A w \in Existing(versions) : versions'[w] = old[w]
    BY <1>1, <2>1, <2>2 DEF Versions
  <2> QED BY <1>0, <2>2, <2>3, RetiredVersions DEF Version
<1>8. versions'[v].version_no = LatestVersionNo(versions) + 1
  <2>1. old \in Versions
    BY <1>0, RetiredVersions
  <2> QED BY <1>1, <2>1 DEF Versions
<1>9. VersionsInOrder'
  <2>1. ASSUME NEW a \in Existing(versions'), NEW b \in Existing(versions'),
               versions'[a].version_no = versions'[b].version_no
        PROVE a = b
    <3>1. a \in Existing(versions) \cup {v} /\ b \in Existing(versions) \cup {v}
      BY <1>1
    <3>2. CASE a # v /\ b # v
      BY <1>0, <1>7, <2>1, <3>1, <3>2 DEF VersionsInOrder
    <3>3. CASE a = v /\ b # v
      BY <1>6, <1>7, <1>8, <2>1, <3>1, <3>3
    <3>4. CASE a # v /\ b = v
      BY <1>6, <1>7, <1>8, <2>1, <3>1, <3>4
    <3> QED BY <3>2, <3>3, <3>4
  <2>2. ASSUME NEW a \in Active(versions'), NEW b \in Existing(versions')
        PROVE versions'[b].version_no <= versions'[a].version_no
    <3>1. a = v /\ b \in Existing(versions) \cup {v}
      BY <1>1, <2>2
    <3> HIDE DEF old, new
    <3> QED BY <1>6, <1>7, <1>8, <3>1
  <2> QED BY <2>1, <2>2 DEF VersionsInOrder
<1>10. HasLatest(versions')
  <2>1. versions'[v].version_no \in Numbers(versions')
    BY <1>1 DEF Numbers
  <2>2. \A b \in Existing(versions') : versions'[b].version_no <= versions'[v].version_no
    BY <1>1, <1>9 DEF VersionsInOrder
  <2> QED BY <2>1, <2>2 DEF HasLatest, Numbers
<1> QED BY <1>4, <1>5, <1>9, <1>10 DEF ReviewInv

(* A save that leaves the versions alone, and does not publish, preserves  *)
(* the invariant.                                                          *)
LEMMA SaveKeeps ==
  ASSUME ReviewInv, NEW t \in Slots, NEW doc \in Template, SaveTemplate(t, doc),
         UNCHANGED versions,
         doc.published_version = tpl.published_version,
         doc.status = tpl.status \/ doc.status \in {"IN_REVIEW", "REJECTED"}
  PROVE  ReviewInv'
<1>1. TypeOK' /\ SnapshotsHold'
  BY SaveCloses DEF ReviewInv, TypeOK
<1>2. tpl' = doc
  BY DEF SaveTemplate
<1> QED
  BY <1>1, <1>2
  DEF ReviewInv, OneActive, PublishedHasItsVersion, ArchivedOffersNothing, VersionsInOrder

(* Archiving preserves the invariant. *)
LEMMA ArchiveKeeps ==
  ASSUME ReviewInv, NEW t \in Slots, Archive(t)
  PROVE  ReviewInv'
<1> DEFINE doc == [tpl EXCEPT !.status = "ARCHIVED"]
           old == Retired(versions, versions, "ARCHIVED")
<1>0. TypeOK /\ versions \in Versions /\ VersionsInOrder /\ HasLatest(versions)
  BY DEF ReviewInv, TypeOK
<1>1. txn[t].tpl = tpl /\ txn[t].versions = versions
  BY ServingTxn, Seen DEF Archive, Services, ReviewInv
<1>2. SaveTemplate(t, doc) /\ versions' = old
  BY <1>1 DEF Archive
<1>3. doc \in Template /\ doc.status = "ARCHIVED"
  BY <1>0 DEF TypeOK, Template, TemplateStatus
<1>4. /\ old \in Versions /\ Active(old) = {} /\ Existing(old) = Existing(versions)
      /\ \A v \in Existing(versions) : old[v].version_no = versions[v].version_no
  BY <1>0, RetiredVersions DEF VersionStatus
<1>5. tpl' = doc
  BY <1>2 DEF SaveTemplate
<1> HIDE DEF doc, old
<1>6. TypeOK' /\ SnapshotsHold'
  BY <1>0, <1>2, <1>3, <1>4, SaveCloses DEF TypeOK
<1>7. OneActive' /\ PublishedHasItsVersion' /\ ArchivedOffersNothing'
  BY <1>2, <1>3, <1>4, <1>5 DEF OneActive, PublishedHasItsVersion, ArchivedOffersNothing
<1>8. VersionsInOrder'
  BY <1>0, <1>2, <1>4 DEF VersionsInOrder
<1>9. Numbers(versions') = Numbers(versions)
  BY <1>2, <1>4 DEF Numbers
<1>10. HasLatest(versions')
  BY <1>0, <1>9 DEF HasLatest
<1> QED BY <1>6, <1>7, <1>8, <1>10 DEF ReviewInv

-----------------------------------------------------------------------------
(* Init establishes the invariant. *)
LEMMA ReviewInit == Init => ReviewInv
<1> SUFFICES ASSUME Init PROVE ReviewInv
  OBVIOUS
<1>1. TypeOK
  BY DEF Init, TypeOK, Template, TemplateStatus, Versions
<1>2. Existing(versions) = {} /\ Active(versions) = {} /\ Numbers(versions) = {}
  BY DEF Init, Existing, Active, Numbers
<1>3. tpl.status = "DRAFT"
  BY DEF Init
<1>4. SnapshotsHold
  BY DEF Init, SnapshotsHold
<1>5. HasLatest(versions)
  BY <1>2 DEF HasLatest
<1> QED
  BY <1>1, <1>2, <1>3, <1>4, <1>5
  DEF ReviewInv, OneActive, PublishedHasItsVersion, ArchivedOffersNothing, VersionsInOrder

(* Every step preserves it. *)
LEMMA ReviewStep == ReviewInv /\ [Next]_vars => ReviewInv'
<1> SUFFICES ASSUME ReviewInv, [Next]_vars PROVE ReviewInv'
  OBVIOUS
<1>0. TypeOK /\ SnapshotsHold
  BY DEF ReviewInv
<1>1. ASSUME UNCHANGED <<tpl, versions>>, TypeOK', SnapshotsHold' PROVE ReviewInv'
  BY <1>1
  DEF ReviewInv, OneActive, PublishedHasItsVersion, ArchivedOffersNothing, VersionsInOrder
<1>2. ASSUME NEW t \in Slots, NEW service \in Services, NEW user \in Users,
             Begin(t, service, user)
      PROVE ReviewInv'
  <2> DEFINE new == [service |-> service, by |-> user, tpl |-> tpl,
                     versions |-> versions, behind |-> FALSE]
  <2>1. txn' = [txn EXCEPT ![t] = new] /\ UNCHANGED <<tpl, versions>>
    BY <1>2 DEF Begin
  <2>2. new \in Txn
    BY <1>0 DEF Txn, TypeOK
  <2>3. TypeOK'
    BY <1>0, <2>1, <2>2 DEF TypeOK
  <2>4. SnapshotsHold'
    BY <1>0, <2>1 DEF TypeOK, SnapshotsHold
  <2> QED BY <1>1, <2>1, <2>3, <2>4
<1>3. ASSUME NEW t \in Slots, SaveDraft(t) PROVE ReviewInv'
  <2>1. txn[t].tpl = tpl
    BY <1>0, <1>3, ServingTxn, Seen DEF SaveDraft, Services
  <2>2. PICK c \in Contents : SaveTemplate(t, [tpl EXCEPT !.content = c])
    BY <1>3, <2>1 DEF SaveDraft
  <2>3. /\ [tpl EXCEPT !.content = c] \in Template
        /\ [tpl EXCEPT !.content = c].status = tpl.status
        /\ [tpl EXCEPT !.content = c].published_version = tpl.published_version
    BY <1>0 DEF TypeOK, Template
  <2> QED BY <1>3, <2>2, <2>3, SaveKeeps DEF SaveDraft
<1>4. ASSUME NEW t \in Slots, SubmitForReview(t) PROVE ReviewInv'
  <2>1. txn[t].tpl = tpl
    BY <1>0, <1>4, ServingTxn, Seen DEF SubmitForReview, Services
  <2>2. SaveTemplate(t, [tpl EXCEPT !.status = "IN_REVIEW"])
    BY <1>4, <2>1 DEF SubmitForReview
  <2>3. /\ [tpl EXCEPT !.status = "IN_REVIEW"] \in Template
        /\ [tpl EXCEPT !.status = "IN_REVIEW"].status = "IN_REVIEW"
        /\ [tpl EXCEPT !.status = "IN_REVIEW"].published_version = tpl.published_version
    BY <1>0 DEF TypeOK, Template, TemplateStatus
  <2> QED BY <1>4, <2>2, <2>3, SaveKeeps DEF SubmitForReview
<1>5. ASSUME NEW t \in Slots, Reject(t) PROVE ReviewInv'
  <2>1. txn[t].tpl = tpl
    BY <1>0, <1>5, ServingTxn, Seen DEF Reject, Services
  <2>2. SaveTemplate(t, [tpl EXCEPT !.status = "REJECTED"])
    BY <1>5, <2>1 DEF Reject
  <2>3. /\ [tpl EXCEPT !.status = "REJECTED"] \in Template
        /\ [tpl EXCEPT !.status = "REJECTED"].status = "REJECTED"
        /\ [tpl EXCEPT !.status = "REJECTED"].published_version = tpl.published_version
    BY <1>0 DEF TypeOK, Template, TemplateStatus
  <2> QED BY <1>5, <2>2, <2>3, SaveKeeps DEF Reject
<1>6. ASSUME NEW t \in Slots, Approve(t) PROVE ReviewInv'
  <2>1. txn[t].tpl = tpl /\ txn[t].versions = versions
    BY <1>0, <1>6, ServingTxn, Seen DEF Approve, Services
  <2>2. tpl.content \in Contents
    BY <1>0 DEF TypeOK, Template
  <2> QED BY <1>6, <2>1, <2>2, PublishKeeps DEF Approve, VersionStatus
<1>7. ASSUME NEW t \in Slots, Rollback(t) PROVE ReviewInv'
  <2>1. txn[t].versions = versions
    BY <1>0, <1>7, ServingTxn, Seen DEF Rollback, Services
  <2>2. PICK target \in Existing(versions) : Publish(t, versions[target].content, "ROLLED_BACK")
    BY <1>7, <2>1 DEF Rollback
  <2>3. versions[target].content \in Contents
    BY <1>0 DEF TypeOK, Versions, Version, Existing
  <2> QED BY <2>1, <2>2, <2>3, PublishKeeps DEF VersionStatus
<1>8. ASSUME NEW t \in Slots, Raise(t) PROVE ReviewInv'
  <2>1. TypeOK' /\ SnapshotsHold'
    BY <1>0, <1>8 DEF Raise, TypeOK, SnapshotsHold
  <2> QED BY <1>1, <1>8, <2>1 DEF Raise
<1>9. CASE UNCHANGED vars
  BY <1>0, <1>1, <1>9 DEF vars, TypeOK, SnapshotsHold
<1> QED BY <1>2, <1>3, <1>4, <1>5, <1>6, <1>7, <1>8, <1>9, ArchiveKeeps DEF Next

(* The template, its versions and the transactions are well typed. *)
THEOREM TypeCorrect == Spec => []TypeOK
<1>1. ReviewInv => TypeOK
  BY DEF ReviewInv
<1> QED BY <1>1, ReviewInit, ReviewStep, PTL DEF Spec

(* However the services overlap, a PUBLISHED template has the one ACTIVE   *)
(* version it names, and an ARCHIVED one has none.                         *)
THEOREM OfferAsStatus == Spec => []StatusTellsOffer
<1>1. ReviewInv => StatusTellsOffer
  BY DEF ReviewInv, StatusTellsOffer
<1> QED BY <1>1, ReviewInit, ReviewStep, PTL DEF Spec

(* Version numbers are never given twice, and the ACTIVE version has the   *)
(* highest.                                                                *)
THEOREM NumbersInOrder == Spec => []VersionsInOrder
<1>1. ReviewInv => VersionsInOrder
  BY DEF ReviewInv
<1> QED BY <1>1, ReviewInit, ReviewStep, PTL DEF Spec
-----------------------------------------------------------------------------
(* What retiring the versions in sight, with or without a new one beside   *)
(* them, does to a version that exists.                                    *)
OnlyRetired(vs, out) ==
  \A v \in Existing(vs) :
    /\ v \in Existing(out)
    /\ out[v].content = vs[v].content
    /\ out[v].version_no = vs[v].version_no
    /\ out[v].status # vs[v].status => vs[v].status = "ACTIVE" /\ out[v].status # "ACTIVE"

LEMMA RetiredOnly ==
  ASSUME NEW vs \in Versions, NEW status \in VersionStatus \ {"ACTIVE"}
  PROVE  OnlyRetired(vs, Retired(vs, vs, status))
<1>1. \A v \in Existing(vs) : Retired(vs, vs, status)[v].status # "ACTIVE"
  BY RetiredVersions DEF Active
<1> QED BY <1>1, RetiredVersions DEF OnlyRetired

LEMMA PublishRetires ==
  ASSUME ReviewInv, NEW t \in Slots, txn[t].versions = versions,
         NEW content \in Contents, NEW status \in VersionStatus \ {"ACTIVE"},
         Publish(t, content, status)
  PROVE  OnlyRetired(versions, versions')
<1> DEFINE old == Retired(versions, versions, status)
<1>1. versions \in Versions
  BY DEF ReviewInv, TypeOK
<1>2. OnlyRetired(versions, old) /\ old \in Versions /\ Existing(old) = Existing(versions)
  BY <1>1, RetiredOnly, RetiredVersions
<1> DEFINE new == [version_no |-> NextVersionNo(versions), status |-> "ACTIVE",
                   content |-> content]
<1>3. /\ new # NoVersion
      /\ \E v \in Names \ Existing(versions) : versions' = [old EXCEPT ![v] = new]
  <2>1. new # NoVersion
    BY DEF NoVersion
  <2> QED BY <2>1 DEF Publish
<1>4. \A w \in Existing(versions) : w \in Existing(versions') /\ versions'[w] = old[w]
  BY <1>2, <1>3 DEF Existing, Versions
<1> QED BY <1>2, <1>4 DEF OnlyRetired

(* A version is never changed after its insertion, except to retire it     *)
(* once, whichever services overlap.                                       *)
THEOREM VersionsOnlyRetired == Spec => VersionsOnlyRetire
<1>1. ASSUME ReviewInv, Next PROVE OnlyRetired(versions, versions')
  <2>0. TypeOK /\ SnapshotsHold /\ versions \in Versions
    BY <1>1 DEF ReviewInv, TypeOK
  <2>1. CASE UNCHANGED versions
    BY <2>1 DEF OnlyRetired
  <2>2. ASSUME NEW t \in Slots, Approve(t) PROVE OnlyRetired(versions, versions')
    <3>1. txn[t].tpl = tpl /\ txn[t].versions = versions
      BY <2>0, <2>2, ServingTxn, Seen DEF Approve, Services
    <3>2. tpl.content \in Contents
      BY <2>0 DEF TypeOK, Template
    <3> QED BY <1>1, <2>2, <3>1, <3>2, PublishRetires DEF Approve, VersionStatus
  <2>3. ASSUME NEW t \in Slots, Rollback(t) PROVE OnlyRetired(versions, versions')
    <3>1. txn[t].versions = versions
      BY <2>0, <2>3, ServingTxn, Seen DEF Rollback, Services
    <3>2. PICK target \in Existing(versions) : Publish(t, versions[target].content, "ROLLED_BACK")
      BY <2>3, <3>1 DEF Rollback
    <3>3. versions[target].content \in Contents
      BY <2>0 DEF TypeOK, Versions, Version, Existing
    <3> QED BY <1>1, <3>1, <3>2, <3>3, PublishRetires DEF VersionStatus
  <2>4. ASSUME NEW t \in Slots, Archive(t) PROVE OnlyRetired(versions, versions')
    <3>1. txn[t].versions = versions
      BY <2>0, <2>4, ServingTxn, Seen DEF Archive, Services
    <3> QED BY <2>0, <2>4, <3>1, RetiredOnly DEF Archive, VersionStatus
  <2> QED BY <1>1, <2>1, <2>2, <2>3, <2>4
          DEF Next, Begin, SaveDraft, SubmitForReview, Reject, Raise
<1>2. ReviewInv /\ [Next]_vars =>
        [\A v \in Existing(versions) :
           /\ v \in Existing(versions')
           /\ versions'[v].content = versions[v].content
           /\ versions'[v].version_no = versions[v].version_no
           /\ versions'[v].status # versions[v].status =>
                versions[v].status = "ACTIVE" /\ versions'[v].status # "ACTIVE"]_vars
  BY <1>1 DEF OnlyRetired
<1> QED BY <1>2, ReviewInit, ReviewStep, PTL DEF Spec, VersionsOnlyRetire

(* What a System Manager reads under review is what is approved or         *)
(* rejected: no edit reaches it, not even one that began before.           *)
THEOREM ReviewOfOneContent == Spec => ReviewIsOfOneContent
<1>1. ASSUME ReviewInv, Next, tpl.status = "IN_REVIEW",
             tpl'.status \in {"IN_REVIEW", "REJECTED"}
      PROVE  tpl'.content = tpl.content
  <2>0. TypeOK /\ SnapshotsHold /\ tpl \in Template
    BY <1>1 DEF ReviewInv, TypeOK
  <2>1. CASE UNCHANGED tpl
    BY <2>1
  <2>2. ASSUME NEW t \in Slots, SaveDraft(t) \/ SubmitForReview(t) PROVE FALSE
    <3>1. txn[t].tpl = tpl
      BY <2>0, <2>2, ServingTxn, Seen DEF SaveDraft, SubmitForReview, Services
    <3> QED BY <1>1, <2>2, <3>1 DEF SaveDraft, SubmitForReview, Editable
  <2>3. ASSUME NEW t \in Slots, Reject(t) PROVE tpl'.content = tpl.content
    <3>1. txn[t].tpl = tpl
      BY <2>0, <2>3, ServingTxn, Seen DEF Reject, Services
    <3> QED BY <2>0, <2>3, <3>1 DEF Reject, SaveTemplate, Template
  <2>4. ASSUME NEW t \in Slots, Archive(t) PROVE FALSE
    <3>1. txn[t].tpl = tpl
      BY <2>0, <2>4, ServingTxn, Seen DEF Archive, Services
    <3>2. tpl'.status = "ARCHIVED"
      BY <2>0, <2>4, <3>1 DEF Archive, SaveTemplate, Template
    <3> QED BY <1>1, <3>2
  <2>5. ASSUME NEW t \in Slots, Approve(t) \/ Rollback(t) PROVE FALSE
    <3>1. tpl'.status = "PUBLISHED"
      BY <2>5 DEF Approve, Rollback, Publish, SaveTemplate
    <3> QED BY <1>1, <3>1
  <2> QED BY <1>1, <2>1, <2>2, <2>3, <2>4, <2>5 DEF Next, Begin, Raise
<1>2. ReviewInv /\ [Next]_vars =>
        [tpl.status = "IN_REVIEW" /\ tpl'.status \in {"IN_REVIEW", "REJECTED"}
           => tpl'.content = tpl.content]_vars
  BY <1>1
<1> QED BY <1>2, ReviewInit, ReviewStep, PTL DEF Spec, ReviewIsOfOneContent
-----------------------------------------------------------------------------
(* After Publish the public tools offer what was published.                *)
LEMMA PublishOffers ==
  ASSUME ReviewInv, NEW t \in Slots, txn[t].versions = versions,
         NEW content \in Contents, NEW status \in VersionStatus \ {"ACTIVE"},
         Publish(t, content, status)
  PROVE  Offered(tpl', versions') = content /\ txn'[t] = Idle
<1>1. TypeOK /\ HasLatest(versions)
  BY DEF ReviewInv
<1>2. PICK v \in Names \ Existing(versions) :
        LET old == Retired(versions, versions, status)
            new == [version_no |-> LatestVersionNo(versions) + 1, status |-> "ACTIVE",
                    content |-> content]
        IN  /\ versions' = [old EXCEPT ![v] = new]
            /\ Active(versions') = {v}
            /\ SaveTemplate(t, [status |-> "PUBLISHED", content |-> content,
                                published_version |-> v])
  BY <1>1, Published
<1>3. tpl'.status = "PUBLISHED" /\ tpl'.published_version = v /\ txn'[t] = Idle
  BY <1>2 DEF SaveTemplate
<1>4. versions'[v].content = content
  BY <1>2 DEF Retired
<1> QED BY <1>2, <1>3, <1>4 DEF Offered, ActiveVersion

(* The offer looks at the template's status and at the version it names.   *)
LEMMA OfferDependsOn ==
  ASSUME UNCHANGED versions,
         tpl'.status = tpl.status, tpl'.published_version = tpl.published_version
  PROVE  Offered(tpl', versions') = Offered(tpl, versions)
BY DEF Offered, ActiveVersion

(* What the public tools offer changes to another content only by the act  *)
(* of a System Manager, and to one that was under review or is a version.  *)
THEOREM OfferReviewed == Spec => OfferIsReviewed
<1> DEFINE after == Offered(tpl', versions')
           Reviewed == /\ \E t \in Slots : txn[t] # Idle /\ txn'[t] = Idle /\ txn[t].by \in Managers
                    /\ \/ tpl.status = "IN_REVIEW" /\ after = tpl.content
                       \/ \E v \in Existing(versions) : after = versions[v].content
<1>1. ASSUME ReviewInv, Next, after \notin {Offered(tpl, versions), "none"} PROVE Reviewed
  <2>0. TypeOK /\ SnapshotsHold /\ tpl \in Template
    BY <1>1 DEF ReviewInv, TypeOK
  <2>1. CASE UNCHANGED <<tpl, versions>>
    BY <1>1, <2>1
  <2>2. ASSUME NEW t \in Slots, SaveDraft(t) PROVE FALSE
    <3>1. txn[t].tpl = tpl /\ UNCHANGED versions
      BY <2>0, <2>2, ServingTxn, Seen DEF SaveDraft, Services
    <3>2. PICK c \in Contents : tpl' = [tpl EXCEPT !.content = c]
      BY <2>2, <3>1 DEF SaveDraft, SaveTemplate
    <3>3. tpl'.status = tpl.status /\ tpl'.published_version = tpl.published_version
      BY <2>0, <3>2 DEF Template
    <3> QED BY <1>1, <3>1, <3>3, OfferDependsOn
  <2>3. ASSUME NEW t \in Slots, SubmitForReview(t) \/ Reject(t) \/ Archive(t) PROVE FALSE
    <3>1. txn[t].tpl = tpl
      BY <2>0, <2>3, ServingTxn, Seen DEF SubmitForReview, Reject, Archive, Services
    <3>2. tpl'.status # "PUBLISHED"
      BY <2>0, <2>3, <3>1 DEF SubmitForReview, Reject, Archive, SaveTemplate, Template
    <3> QED BY <1>1, <3>2 DEF Offered
  <2>4. ASSUME NEW t \in Slots, Approve(t) PROVE Reviewed
    <3>1. txn[t] # Idle /\ txn[t].tpl = tpl /\ txn[t].versions = versions
      BY <2>0, <2>4, ServingTxn, Seen DEF Approve, Services
    <3>2. tpl.content \in Contents
      BY <2>0 DEF Template
    <3>3. after = tpl.content /\ txn'[t] = Idle
      BY <1>1, <2>4, <3>1, <3>2, PublishOffers DEF Approve, VersionStatus
    <3> QED BY <2>4, <3>1, <3>3 DEF Approve, MayReview
  <2>5. ASSUME NEW t \in Slots, Rollback(t) PROVE Reviewed
    <3>1. txn[t] # Idle /\ txn[t].versions = versions
      BY <2>0, <2>5, ServingTxn, Seen DEF Rollback, Services
    <3>2. PICK target \in Existing(versions) : Publish(t, versions[target].content, "ROLLED_BACK")
      BY <2>5, <3>1 DEF Rollback
    <3>3. versions[target].content \in Contents
      BY <2>0 DEF TypeOK, Versions, Version, Existing
    <3>4. after = versions[target].content /\ txn'[t] = Idle
      BY <1>1, <3>1, <3>2, <3>3, PublishOffers DEF VersionStatus
    <3> QED BY <2>5, <3>1, <3>4 DEF Rollback, MayReview
  <2> QED BY <1>1, <2>1, <2>2, <2>3, <2>4, <2>5 DEF Next, Begin, Raise
<1>2. ReviewInv /\ [Next]_vars =>
        [LET offer == Offered(tpl', versions') IN
         offer \notin {Offered(tpl, versions), "none"} =>
           /\ \E t \in Slots : txn[t] # Idle /\ txn'[t] = Idle /\ txn[t].by \in Managers
           /\ \/ tpl.status = "IN_REVIEW" /\ offer = tpl.content
              \/ \E v \in Existing(versions) : offer = versions[v].content]_vars
  BY <1>1
<1> QED BY <1>2, ReviewInit, ReviewStep, PTL DEF Spec, OfferIsReviewed
=============================================================================
