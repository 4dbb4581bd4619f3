--------------------------- MODULE TemplateReview ---------------------------
(***************************************************************************)
(* One AI Workflow Template under the review services of templates.py: its *)
(* owner edits and submits it, System Managers approve, reject, archive it *)
(* or roll it back to an earlier version, and the public tools offer the   *)
(* ACTIVE version while the template is PUBLISHED.                         *)
(*                                                                         *)
(* A service is one database transaction: a Begin that takes its snapshot  *)
(* and a second step that writes.  Document.save writes the whole row and  *)
(* refuses, under a lock, a document that was saved since it was read      *)
(* (the modified check), and every service that writes saves the template: *)
(* whatever was saved in between, the transaction is lost.                 *)
(***************************************************************************)
EXTENDS Integers, FiniteSets

CONSTANTS
  Contents,     \* what a template can contain; every one is a valid graph
  Publishable,  \* the contents that pass the validation for publication
  Names,        \* bound: the versions that can be created
  Users, Owner, Managers,
  Slots         \* transactions that can be in flight at once

ASSUME ReviewAssumption ==
  /\ Publishable \subseteq Contents /\ Contents # {}
  /\ Owner \in Users /\ Managers \subseteq Users
  /\ "none" \notin Names /\ "none" \notin Contents

VARIABLES
  tpl,       \* the AI Workflow Template
  versions,  \* its AI Workflow Template Versions, by name
  txn        \* the transaction in each slot

vars == <<tpl, versions, txn>>

TemplateStatus == {"DRAFT", "IN_REVIEW", "PUBLISHED", "REJECTED", "ARCHIVED"}
VersionStatus  == {"ACTIVE", "SUPERSEDED", "ROLLED_BACK", "ARCHIVED"}

Template == [status : TemplateStatus, content : Contents,
             published_version : Names \cup {"none"}]

NoVersion == [status |-> "none"]
Version == [version_no : Nat \ {0}, status : VersionStatus, content : Contents]
Versions == [Names -> Version \cup {NoVersion}]

Services == {"save", "submit", "approve", "reject", "archive", "rollback"}
Idle == [service |-> "none"]
Txn == [service : Services, by : Users, tpl : Template, versions : Versions,
        behind : BOOLEAN]  \* the template was saved after the snapshot

TypeOK ==
  /\ tpl \in Template
  /\ versions \in Versions
  /\ txn \in [Slots -> Txn \cup {Idle}]

(* save_template has inserted a draft. *)
Init ==
  /\ tpl \in [status : {"DRAFT"}, content : Contents, published_version : {"none"}]
  /\ versions = [v \in Names |-> NoVersion]
  /\ txn = [t \in Slots |-> Idle]

-----------------------------------------------------------------------------
(* Versions. *)

Existing(vs) == {v \in Names : vs[v] # NoVersion}
Active(vs)   == {v \in Existing(vs) : vs[v].status = "ACTIVE"}
Numbers(vs)  == {vs[v].version_no : v \in Existing(vs)}

(* Serves as a mutant of NextVersionNo, as does a number after the ACTIVE  *)
(* versions' only.                                                         *)
LatestVersionNo(vs) ==
  CHOOSE n \in Numbers(vs) \cup {0} : \A m \in Numbers(vs) : m <= n

NextAfterActive(vs) ==
  1 + CHOOSE n \in {vs[v].version_no : v \in Active(vs)} \cup {0} :
        \A v \in Active(vs) : vs[v].version_no <= n

NextVersionNo(vs) == LatestVersionNo(vs) + 1

(* Mutant of Retired: an earlier version is retired again. *)
RetiredAgain(vs, seen, status) ==
  [v \in Names |-> IF v \in Existing(seen) THEN [vs[v] EXCEPT !.status = status] ELSE vs[v]]

(* _mark_active_template_versions: those ACTIVE in the snapshot. *)
Retired(vs, seen, status) ==
  [v \in Names |-> IF v \in Active(seen) THEN [vs[v] EXCEPT !.status = status] ELSE vs[v]]

(* _get_active_template_version *)
ActiveVersion(doc, vs) ==
  IF doc.published_version \in Active(vs) THEN doc.published_version
  ELSE CHOOSE v \in Active(vs) : \A w \in Active(vs) : vs[w].version_no <= vs[v].version_no

(* Mutant of Offered: the mutable template. *)
OfferedDraft(doc, vs) ==
  IF doc.status = "PUBLISHED" /\ Active(vs) # {} THEN doc.content ELSE "none"

(* get_published_template: what the public tools run. *)
Offered(doc, vs) ==
  IF doc.status = "PUBLISHED" /\ Active(vs) # {}
  THEN vs[ActiveVersion(doc, vs)].content ELSE "none"

-----------------------------------------------------------------------------
(* Transactions. *)

Begin(t, service, user) ==
  /\ txn[t] = Idle
  /\ txn' = [txn EXCEPT ![t] = [service |-> service, by |-> user, tpl |-> tpl,
                                versions |-> versions, behind |-> FALSE]]
  /\ UNCHANGED <<tpl, versions>>

Serving(t, service) == txn[t].service = service

(* check_if_latest, of the template. *)
Latest(t) == ~txn[t].behind

(* The template is saved: every other transaction in flight is now behind. *)
SaveTemplate(t, doc) ==
  /\ tpl' = doc
  /\ txn' = [s \in Slots |-> IF s = t \/ txn[s] = Idle THEN Idle
                             ELSE [txn[s] EXCEPT !.behind = TRUE]]

(* A service that refuses, finds itself behind or dies leaves nothing. *)
Raise(t) ==
  /\ txn[t] # Idle
  /\ txn' = [txn EXCEPT ![t] = Idle]
  /\ UNCHANGED <<tpl, versions>>

MayEdit(user) == user = Owner \/ user \in Managers

MayReview(user) == user \in Managers

(* _validate_template_for_publication *)
PassesValidation(content) == content \in Publishable

-----------------------------------------------------------------------------
(* The owner's services. *)

(* Mutant of Editable. *)
EditableInReview(status) == status # "ARCHIVED"

Editable(status) == status \in {"DRAFT", "REJECTED", "PUBLISHED"}

(* save_template leaves the status as it is. *)
SaveDraft(t) ==
  /\ Serving(t, "save") /\ MayEdit(txn[t].by)
  /\ Editable(txn[t].tpl.status)
  /\ Latest(t)
  /\ \E c \in Contents : SaveTemplate(t, [txn[t].tpl EXCEPT !.content = c])
  /\ UNCHANGED versions

SubmitForReview(t) ==
  /\ Serving(t, "submit") /\ MayEdit(txn[t].by)
  /\ txn[t].tpl.status \in {"DRAFT", "REJECTED", "PUBLISHED"}
  /\ PassesValidation(txn[t].tpl.content)
  /\ Latest(t)
  /\ SaveTemplate(t, [txn[t].tpl EXCEPT !.status = "IN_REVIEW"])
  /\ UNCHANGED versions

-----------------------------------------------------------------------------
(* The System Managers' services. *)

(* Mutant of Publish: the version before stays ACTIVE. *)
PublishBeside(t, content, status) ==
  \E v \in Names \ Existing(versions) :
    /\ versions' = [versions EXCEPT ![v] = [version_no |-> NextVersionNo(txn[t].versions),
                                          status |-> "ACTIVE", content |-> content]]
    /\ SaveTemplate(t, [status |-> "PUBLISHED", content |-> content, published_version |-> v])

(* The versions found ACTIVE are retired and saved - Document.save checks  *)
(* them as well - and a new ACTIVE one is inserted.                        *)
Publish(t, content, status) ==
  LET seen == txn[t].versions IN
  \E v \in Names \ Existing(versions) :
    /\ \A w \in Active(seen) : versions[w] = seen[w]
    /\ versions' = [Retired(versions, seen, status) EXCEPT
                      ![v] = [version_no |-> NextVersionNo(seen), status |-> "ACTIVE",
                              content |-> content]]
    /\ SaveTemplate(t, [status |-> "PUBLISHED", content |-> content, published_version |-> v])

Approve(t) ==
  /\ Serving(t, "approve") /\ MayReview(txn[t].by)
  /\ txn[t].tpl.status = "IN_REVIEW"
  /\ PassesValidation(txn[t].tpl.content)
  /\ Latest(t)
  /\ Publish(t, txn[t].tpl.content, "SUPERSEDED")

Reject(t) ==
  /\ Serving(t, "reject") /\ MayReview(txn[t].by)
  /\ txn[t].tpl.status = "IN_REVIEW"
  /\ Latest(t)
  /\ SaveTemplate(t, [txn[t].tpl EXCEPT !.status = "REJECTED"])
  /\ UNCHANGED versions

(* The template first, then its ACTIVE version. *)
Archive(t) ==
  /\ Serving(t, "archive") /\ MayReview(txn[t].by)
  /\ txn[t].tpl.status # "ARCHIVED"
  /\ Latest(t)
  /\ SaveTemplate(t, [txn[t].tpl EXCEPT !.status = "ARCHIVED"])
  /\ \A w \in Active(txn[t].versions) : versions[w] = txn[t].versions[w]
  /\ versions' = Retired(versions, txn[t].versions, "ARCHIVED")

(* A copy of the target becomes the ACTIVE version and the template's      *)
(* content, whatever the template's status was.                            *)
Rollback(t) ==
  /\ Serving(t, "rollback") /\ MayReview(txn[t].by)
  /\ Latest(t)
  /\ \E target \in Existing(txn[t].versions) :
       /\ PassesValidation(txn[t].versions[target].content)
       /\ Publish(t, txn[t].versions[target].content, "ROLLED_BACK")

Next ==
  \E t \in Slots :
    \/ \E service \in Services, user \in Users : Begin(t, service, user)
    \/ SaveDraft(t) \/ SubmitForReview(t)
    \/ Approve(t) \/ Reject(t) \/ Archive(t) \/ Rollback(t)
    \/ Raise(t)

Spec == Init /\ [][Next]_vars

-----------------------------------------------------------------------------
(* A PUBLISHED template has one ACTIVE version, the one it names, however  *)
(* approvals, rollbacks and archivings overlap.                            *)
PublishedHasItsVersion ==
  tpl.status = "PUBLISHED" => Active(versions) = {tpl.published_version}

(* Nothing of an archived template is ACTIVE. *)
ArchivedOffersNothing == tpl.status = "ARCHIVED" => Active(versions) = {}

(* The two together: what can be offered is what the status says. *)
StatusTellsOffer == PublishedHasItsVersion /\ ArchivedOffersNothing

(* No two versions have one number, and the ACTIVE one has the highest.    *)
VersionsInOrder ==
  /\ \A v, w \in Existing(versions) :
       versions[v].version_no = versions[w].version_no => v = w
  /\ \A v \in Active(versions), w \in Existing(versions) :
       versions[w].version_no <= versions[v].version_no

(* A version is never changed after its insertion, except to retire it     *)
(* once: a rerun finds what its run was made of.                           *)
VersionsOnlyRetire ==
  [][\A v \in Existing(versions) :
       /\ v \in Existing(versions')
       /\ versions'[v].content = versions[v].content
       /\ versions'[v].version_no = versions[v].version_no
       /\ versions'[v].status # versions[v].status =>
            versions[v].status = "ACTIVE" /\ versions'[v].status # "ACTIVE"]_vars

(* What the public tools offer changes to another content only when a      *)
(* System Manager has seen it: the content then under review, or that of   *)
(* an earlier version.  Edits of the template do not show.                 *)
OfferIsReviewed ==
  [][LET after == Offered(tpl', versions') IN
     after \notin {Offered(tpl, versions), "none"} =>
       /\ \E t \in Slots : txn[t] # Idle /\ txn'[t] = Idle /\ txn[t].by \in Managers
       /\ \/ tpl.status = "IN_REVIEW" /\ after = tpl.content
          \/ \E v \in Existing(versions) : after = versions[v].content]_vars

(* What is under review does not change under the reviewer, not even by an *)
(* edit that began before the submission.                                  *)
ReviewIsOfOneContent ==
  [][tpl.status = "IN_REVIEW" /\ tpl'.status \in {"IN_REVIEW", "REJECTED"}
       => tpl'.content = tpl.content]_vars
=============================================================================
