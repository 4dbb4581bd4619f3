--------------------------- MODULE ProjectSharing ---------------------------
(***************************************************************************)
(* Who may do what in a project, and what its members give away: AI        *)
(* Project Member rows, the links (AI Tool Run Share) to the outputs of    *)
(* succeeded runs, and the archive mark of ended runs.                     *)
(*                                                                         *)
(* A request is one database transaction: Begin reads its snapshot and     *)
(* decides, a second step writes.  Document.save writes the whole row it   *)
(* read and is refused when the row was written since.                     *)
(***************************************************************************)
EXTENDS Integers, Sequences

CONSTANTS
  Users,           \* those who send requests
  Owner,           \* the owner of the AI Project
  SystemManagers,
  Invited,         \* the users requests add as members
  Roles,           \* the roles requests hand out: some of PROJECT_ROLES
  Members,         \* bound: the AI Project Member rows
  Runs,
  Outputs,         \* of each run, what its rows and its nodes' outputs name
  Selections,      \* the assets a request selects for a link, as it lists them
  Shares,          \* bound: the links that can be created
  RunStatuses,     \* the statuses a run passes through
  Ended,           \* those of them that are terminal
  Slots            \* transactions that can be in flight at once

ASSUME SharingAssumption ==
  /\ Owner \in Users /\ SystemManagers \subseteq Users /\ Invited \subseteq Users
  /\ Roles \subseteq {"OWNER", "EDITOR", "VIEWER", "BILLING"}
  /\ Ended \subseteq RunStatuses /\ "RUNNING" \in RunStatuses \ Ended
  /\ "none" \notin Users

VARIABLES
  members,  \* the membership rows
  newest,   \* of each user's rows the one that was modified last
  shares,   \* the links
  runs,     \* the runs: status and archive mark
  txn       \* the transaction in each slot

vars == <<members, newest, shares, runs, txn>>

NoMember == [user |-> "none"]
Member == [user : Invited, role : Roles, status : {"ACTIVE", "DISABLED"}]

(* A selection is a list without repetitions; order matters. *)
Normalized(selection) ==
  LET first(i) == \A j \in 1..(i - 1) : selection[j] # selection[i]
      kept[n \in 0..Len(selection)] ==
        IF n = 0 THEN <<>>
        ELSE IF first(n) THEN Append(kept[n - 1], selection[n]) ELSE kept[n - 1]
  IN kept[Len(selection)]

NoShare == [owner |-> "none"]
Share == [owner : Users, workflow_run : Runs, selected : {Normalized(s) : s \in Selections},
          status : {"ACTIVE", "DISABLED"}]

Run == [status : RunStatuses, is_archived : BOOLEAN]

Idle == [service |-> "none"]
Late == [service |-> "late"]  \* check_if_latest will refuse what it saves

\* read, row: the row as the request found it, and as it saves it;
\* seen (history): the rows there were when the request began
MemberSaves == {"add_again", "update_member_role", "disable_member"}
Txn ==
       [service : {"add_member"}, user : Invited, role : Roles, seen : SUBSET Members]
  \cup [service : MemberSaves, by : Users, member : Members, read : Member, row : Member]
  \cup [service : {"share"}, share : Share, seen : SUBSET Shares]
  \cup [service : {"disable_share"}, name : Shares]
  \cup [service : {"archive"}, workflow_run : Runs, row : Run]

(* Mutant of RowsOf: who was disabled is not found. *)
ActiveRowsOf(user) == {m \in Members : members[m].user = user /\ members[m].status = "ACTIVE"}

RowsOf(user) == {m \in Members : members[m].user = user}

TypeOK ==
  /\ members \in [Members -> Member \cup {NoMember}]
  /\ newest \in [Invited -> Members \cup {"none"}]
  /\ \A u \in Invited : RowsOf(u) # {} => newest[u] \in RowsOf(u)
  /\ shares \in [Shares -> Share \cup {NoShare}]
  /\ runs \in [Runs -> Run]
  /\ txn \in [Slots -> Txn \cup {Idle, Late}]

Init ==
  /\ members = [m \in Members |-> NoMember] /\ newest = [u \in Invited |-> "none"]
  /\ shares = [s \in Shares |-> NoShare]
  /\ runs = [r \in Runs |-> [status |-> "RUNNING", is_archived |-> FALSE]]
  /\ txn = [t \in Slots |-> Idle]

-----------------------------------------------------------------------------
(* Transactions. *)

Begin(t, read) ==
  /\ txn[t] = Idle
  /\ txn' = [txn EXCEPT ![t] = read]
  /\ UNCHANGED <<members, newest, shares, runs>>

Serving(t, service) == txn[t].service = service

(* The row that the requests in these slots save is written: they are late. *)
Overtake(slots) == [s \in Slots |-> IF s \in slots THEN Late ELSE txn[s]]

Commit(t, slots) == txn' = [Overtake(slots) EXCEPT ![t] = Idle]

(* A request that is refused, or dies. *)
Raise(t) ==
  /\ txn[t] # Idle
  /\ txn' = [txn EXCEPT ![t] = Idle]
  /\ UNCHANGED <<members, newest, shares, runs>>

-----------------------------------------------------------------------------
(* Access: _has_project_role over the ACTIVE memberships of the user.  Two *)
(* rows of one user are possible; the database chooses.                    *)

ViewRoles    == {"OWNER", "EDITOR", "VIEWER", "BILLING"}
EditRoles    == {"OWNER", "EDITOR"}
ManageRoles  == {"OWNER"}
ShareRoles   == {"OWNER", "EDITOR"}

Has(user, roles) ==
  \/ user \in SystemManagers
  \/ "OWNER" \in roles /\ user = Owner
  \/ \E m \in Members : /\ members[m].user = user
                        /\ members[m].status = "ACTIVE" /\ members[m].role \in roles

-----------------------------------------------------------------------------
(* Memberships. *)

SaveBegin(t, service, by, m, row) ==
  Begin(t, [service |-> service, by |-> by, member |-> m, read |-> members[m],
            row |-> row])

AddBegin(t, by, user, role) ==
  /\ Has(by, ManageRoles)
  /\ IF RowsOf(user) = {}
     THEN Begin(t, [service |-> "add_member", user |-> user, role |-> role,
                    seen |-> {m \in Members : members[m] # NoMember}])
     ELSE SaveBegin(t, "add_again", by, newest[user],
                    [user |-> user, role |-> role, status |-> "ACTIVE"])

(* Mutant of RoleBegin: the row that is saved is ACTIVE. *)
RoleBeginActive(t, by, m, role) ==
  /\ members[m] # NoMember /\ Has(by, ManageRoles)
  /\ SaveBegin(t, "update_member_role", by, m,
               [members[m] EXCEPT !.role = role, !.status = "ACTIVE"])

RoleBegin(t, by, m, role) ==
  /\ members[m] # NoMember /\ Has(by, ManageRoles)
  /\ SaveBegin(t, "update_member_role", by, m, [members[m] EXCEPT !.role = role])

DisableBegin(t, by, m) ==
  /\ members[m] # NoMember /\ Has(by, ManageRoles)
  /\ SaveBegin(t, "disable_member", by, m, [members[m] EXCEPT !.status = "DISABLED"])

(* Mutant of WriteMember: the row alone, as set_value with no new modified. *)
WriteMemberUnseen(t, m, row) ==
  /\ members' = [members EXCEPT ![m] = row]
  /\ newest' = [newest EXCEPT ![row.user] = m]
  /\ txn' = [txn EXCEPT ![t] = Idle]
  /\ UNCHANGED <<shares, runs>>

WriteMember(t, m, row) ==
  /\ members' = [members EXCEPT ![m] = row]
  /\ newest' = [newest EXCEPT ![row.user] = m]
  /\ Commit(t, {s \in Slots : txn[s].service \in MemberSaves /\ txn[s].member = m})
  /\ UNCHANGED <<shares, runs>>

AddMember(t) ==
  /\ Serving(t, "add_member")
  /\ \E m \in Members :
       /\ members[m] = NoMember
       /\ WriteMember(t, m, [user |-> txn[t].user, role |-> txn[t].role, status |-> "ACTIVE"])

SaveMember(t) ==
  /\ txn[t].service \in MemberSaves
  /\ WriteMember(t, txn[t].member, txn[t].row)

-----------------------------------------------------------------------------
(* Links.  A run's assets: those made by it, and those its nodes' outputs  *)
(* name; a selection is checked against the second without what stands     *)
(* under a key that looks like a secret (tucked), a gallery shows that too.*)
Named(r) == Outputs[r].named
Referenced(r) == Named(r) \cup Outputs[r].tucked

RunAssets(r) == Outputs[r].made \cup Named(r)
Discovered(r) == Outputs[r].made \cup Referenced(r)

(* Mutant of Selectable: an empty selection stands for all outputs. *)
SelectableEmpty(r, selected) == \A i \in DOMAIN selected : selected[i] \in RunAssets(r)

Selectable(r, selected) ==
  selected # <<>> /\ \A i \in DOMAIN selected : selected[i] \in RunAssets(r)

(* get_run_output_gallery(include_unselected=False) *)
Gallery(r, selected) ==
  IF selected = <<>> THEN Discovered(r)
  ELSE {a \in Discovered(r) : \E i \in DOMAIN selected : selected[i] = a}

(* Whether the link has expired is not looked at (nor is expiry modelled: *)
(* it decides what a guest may read, not what is written).                *)
Existing(user, r, selection) ==
  {s \in Shares : /\ shares[s].owner = user /\ shares[s].workflow_run = r
                  /\ shares[s].status = "ACTIVE" /\ shares[s].selected = Normalized(selection)}

(* Where a link exists the request returns it and writes nothing. *)
ShareBegin(t, by, r, selection) ==
  /\ Has(by, ShareRoles) /\ runs[r].status = "SUCCEEDED"
  /\ Selectable(r, Normalized(selection))
  /\ Existing(by, r, selection) = {}
  /\ Begin(t, [service |-> "share",
               share |-> [owner |-> by, workflow_run |-> r, selected |-> Normalized(selection),
                          status |-> "ACTIVE"],
               seen |-> {s \in Shares : shares[s] # NoShare}])

CreateRunShare(t) ==
  /\ Serving(t, "share")
  /\ \E s \in Shares : shares[s] = NoShare /\ shares' = [shares EXCEPT ![s] = txn[t].share]
  /\ txn' = [txn EXCEPT ![t] = Idle]
  /\ UNCHANGED <<members, newest, runs>>

(* The link's owner while a member, or whoever manages the members. *)
MayManageShare(by, share) ==
  by \in SystemManagers \/ (by = share.owner /\ Has(by, ViewRoles)) \/ Has(by, ManageRoles)

DisableShareBegin(t, by, s) ==
  /\ shares[s] # NoShare /\ MayManageShare(by, shares[s])
  /\ Begin(t, [service |-> "disable_share", name |-> s])

DisableRunShare(t) ==
  /\ Serving(t, "disable_share")
  /\ shares' = [shares EXCEPT ![txn[t].name].status = "DISABLED"]
  /\ Commit(t, {s \in Slots : Serving(s, "disable_share") /\ txn[s].name = txn[t].name})
  /\ UNCHANGED <<members, newest, runs>>

-----------------------------------------------------------------------------
(* The archive mark. *)

ArchiveBegin(t, by, r) ==
  /\ Has(by, EditRoles) /\ runs[r].status \in Ended /\ ~runs[r].is_archived
  /\ Begin(t, [service |-> "archive", workflow_run |-> r,
               row |-> [runs[r] EXCEPT !.is_archived = TRUE]])

ArchiveMyRun(t) ==
  /\ Serving(t, "archive")
  /\ LET r == txn[t].workflow_run IN
     /\ runs' = [runs EXCEPT ![r] = txn[t].row]
     /\ Commit(t, {s \in Slots : Serving(s, "archive") /\ txn[s].workflow_run = r})
  /\ UNCHANGED <<members, newest, shares>>

(* Mutant of EngineWrites: the row is left as old as it was. *)
EngineWritesUnseen(r, status) ==
  /\ runs' = [runs EXCEPT ![r].status = status]
  /\ UNCHANGED <<members, newest, shares, txn>>

(* The engine's set_value of a status: of one field, over whatever is      *)
(* there (RunEngine: a handler on an old snapshot overwrites an ended run).*)
EngineWrites(r, status) ==
  /\ runs[r].status # status
  /\ runs' = [runs EXCEPT ![r].status = status]
  /\ txn' = Overtake({s \in Slots : Serving(s, "archive") /\ txn[s].workflow_run = r})
  /\ UNCHANGED <<members, newest, shares>>

-----------------------------------------------------------------------------
Next ==
  \/ \E t \in Slots, by \in Users :
       \/ \E role \in Roles : \/ \E user \in Invited : AddBegin(t, by, user, role)
                              \/ \E m \in Members : RoleBegin(t, by, m, role)
       \/ \E m \in Members : DisableBegin(t, by, m)
       \/ \E r \in Runs : \/ \E selection \in Selections : ShareBegin(t, by, r, selection)
                          \/ ArchiveBegin(t, by, r)
       \/ \E s \in Shares : DisableShareBegin(t, by, s)
  \/ \E t \in Slots :
       \/ AddMember(t) \/ SaveMember(t)
       \/ CreateRunShare(t) \/ DisableRunShare(t) \/ ArchiveMyRun(t) \/ Raise(t)
  \/ \E r \in Runs, status \in RunStatuses : EngineWrites(r, status)

Spec == Init /\ [][Next]_vars

-----------------------------------------------------------------------------
(* Both are looked for and then inserted: a user gets a second membership  *)
(* row, and a second live link to the same selection, only by a race.  The *)
(* request that adds it began before the first was there.                  *)
Key(share) == <<share.owner, share.workflow_run, share.selected>>

SecondIsARace ==
  [][/\ \A m, n \in Members :
          members[n] = NoMember /\ members'[n] # NoMember
          /\ members[m] # NoMember /\ members[m].user = members'[n].user
            => \E t \in Slots : Serving(t, "add_member") /\ txn'[t] = Idle /\ m \notin txn[t].seen
     /\ \A a, b \in Shares :
          shares[a] # NoShare /\ shares[a].status = "ACTIVE" /\ shares[b] = NoShare
          /\ shares'[b] # NoShare /\ Key(shares[a]) = Key(shares'[b])
            => \E t \in Slots : Serving(t, "share") /\ txn'[t] = Idle /\ a \notin txn[t].seen]_vars

(* A disabled membership comes back only by a request that read it         *)
(* disabled and adds the user again: a change of role that began while the *)
(* member was active does not write ACTIVE back.                           *)
DisabledUntilAddedAgain ==
  [][\A m \in Members :
       members[m] # NoMember /\ members[m].status = "DISABLED" /\ members'[m].status = "ACTIVE"
         => \E t \in Slots : /\ Serving(t, "add_again") /\ txn'[t] = Idle
                             /\ txn[t].read = members[m]]_vars

(* Who has lost access does not get it back by an own request, begun while *)
(* there still was access, unless two rows of the user disagree.           *)
NoSelfReinstatement ==
  [][\A u \in Users \ (SystemManagers \cup {Owner}) : \A t \in Slots :
       txn[t].service \in MemberSaves /\ txn'[t] = Idle /\ txn[t].by = u /\ ~Has(u, ViewRoles)
       /\ (\A m, n \in RowsOf(u) : m = n)
         => \A m \in Members : members'[m].user = u => members'[m].status = "DISABLED"]_vars

(* Whoever opens a link sees what was selected for it: nothing more (an    *)
(* empty selection would open every output), and nothing is missing,       *)
(* although selections and galleries look for assets differently.          *)
LinkShowsItsSelection ==
  \A s \in Shares : shares[s] # NoShare =>
    Gallery(shares[s].workflow_run, shares[s].selected)
      = {shares[s].selected[i] : i \in DOMAIN shares[s].selected}

(* Archiving saves the whole run and never writes an old status over what  *)
(* the engine wrote; and the engine never takes the archive mark away.     *)
ArchiveKeepsStatus ==
  [][\A r \in Runs :
       /\ runs'[r].is_archived # runs[r].is_archived =>
            runs'[r].is_archived /\ runs'[r].status = runs[r].status /\ runs[r].status \in Ended]_vars
=============================================================================
