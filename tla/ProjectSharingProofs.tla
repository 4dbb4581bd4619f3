------------------------ MODULE ProjectSharingProofs ------------------------
(***************************************************************************)
(* What holds of ProjectSharing for every number of users, memberships,    *)
(* links, runs and overlapping requests.  The argument looks at one        *)
(* request in flight at a time: what it read is still so, as far as it     *)
(* relies on it (Sound).  A row it will save is unchanged, because whoever *)
(* writes the row makes the request late; rows it found absent may be      *)
(* there by now, but those it has seen keep their user and their key.      *)
(***************************************************************************)
EXTENDS ProjectSharing, TLAPS

(* Two rows of one user. *)
Doubled(user, rows) ==
  \E m, n \in Members : m # n /\ rows[m].user = user /\ rows[n].user = user

SoundSave(x, rows) ==
  x.service \in MemberSaves =>
    /\ rows[x.member] # NoMember /\ x.read = rows[x.member] /\ x.row.user = x.read.user
    /\ x.service = "update_member_role" => x.row.status = x.read.status
    /\ x.service = "disable_member" => x.row.status = "DISABLED"
    /\ x.by \notin SystemManagers \cup {Owner} /\ x.read.user = x.by =>
         x.read.status = "ACTIVE" \/ Doubled(x.by, rows)

SoundAdd(x, rows) ==
  x.service = "add_member" =>
    \A m \in x.seen : rows[m] # NoMember /\ rows[m].user # x.user

SoundShare(x, links) ==
  /\ x.service = "share" =>
       /\ Selectable(x.share.workflow_run, x.share.selected)
       /\ \A s \in x.seen :
            links[s] # NoShare /\ (links[s].status = "ACTIVE" => Key(links[s]) # Key(x.share))
  /\ x.service = "disable_share" => links[x.name] # NoShare

SoundArchive(x, rs) ==
  x.service = "archive" =>
    /\ x.row = [rs[x.workflow_run] EXCEPT !.is_archived = TRUE]
    /\ rs[x.workflow_run].status \in Ended

Sound(x, rows, links, rs) ==
  SoundSave(x, rows) /\ SoundAdd(x, rows) /\ SoundShare(x, links) /\ SoundArchive(x, rs)

(* Every link is to a selection that could be selected. *)
Linked(links) ==
  \A s \in Shares : links[s] # NoShare => Selectable(links[s].workflow_run, links[s].selected)

SharingInv ==
  /\ TypeOK
  /\ Linked(shares)
  /\ \A t \in Slots : Sound(txn[t], members, shares, runs)

-----------------------------------------------------------------------------
(* The empty values are none of the typed ones, and rely on nothing. *)
LEMMA Nothing ==
  /\ NoMember \notin Member /\ NoShare \notin Share
  /\ Idle \notin Txn /\ Late \notin Txn /\ Idle # Late
  /\ \A rows, links, rs : Sound(Idle, rows, links, rs) /\ Sound(Late, rows, links, rs)
<1>1. "none" \notin Invited /\ "none" \notin Users
  BY SharingAssumption
<1>2. NoMember \notin Member /\ NoShare \notin Share
  BY <1>1 DEF NoMember, Member, NoShare, Share
<1>3. Idle.service = "none" /\ Late.service = "late"
  BY DEF Idle, Late
<1>4. \A x \in Txn : x.service \notin {"none", "late"}
  BY DEF Txn, MemberSaves
<1> QED BY <1>2, <1>3, <1>4
  DEF Sound, SoundSave, SoundAdd, SoundShare, SoundArchive, MemberSaves

(* What a request in flight is made of. *)
LEMMA TxnTyped ==
  ASSUME NEW x \in Txn \cup {Idle, Late}
  PROVE  /\ x.service = "add_member" => x.user \in Invited /\ x.role \in Roles /\ x.seen \subseteq Members
         /\ x.service \in MemberSaves =>
              x.member \in Members /\ x.read \in Member /\ x.row \in Member /\ x.by \in Users
         /\ x.service = "share" => x.share \in Share /\ x.seen \subseteq Shares
         /\ x.service = "disable_share" => x.name \in Shares
         /\ x.service = "archive" => x.workflow_run \in Runs /\ x.row \in Run
BY DEF Txn, Idle, Late, MemberSaves

-----------------------------------------------------------------------------
(* A request that begins: its rows are as they are. *)
LEMMA BeginKeeps ==
  ASSUME SharingInv, NEW t \in Slots, NEW read \in Txn,
         Sound(read, members, shares, runs), Begin(t, read)
  PROVE  SharingInv'
<1>1. txn' \in [Slots -> Txn \cup {Idle, Late}]
  BY DEF SharingInv, TypeOK, Begin
<1>2. TypeOK'
  BY <1>1 DEF SharingInv, TypeOK, Begin, RowsOf
<1>3. \A s \in Slots : Sound(txn'[s], members, shares, runs)
  BY DEF SharingInv, TypeOK, Begin
<1> QED BY <1>2, <1>3 DEF SharingInv, Begin

(* Reading a member to save it. *)
LEMMA SaveBeginSound ==
  ASSUME SharingInv, NEW t \in Slots, NEW service \in MemberSaves, NEW by \in Users,
         NEW m \in Members, members[m] # NoMember, Has(by, ManageRoles), NEW row \in Member,
         row.user = members[m].user,
         service = "update_member_role" => row.status = members[m].status,
         service = "disable_member" => row.status = "DISABLED",
         SaveBegin(t, service, by, m, row)
  PROVE  SharingInv'
<1> DEFINE read == [service |-> service, by |-> by, member |-> m, read |-> members[m],
                    row |-> row]
<1>1. members[m] \in Member
  BY DEF SharingInv, TypeOK
<1>2. read \in Txn
  BY <1>1 DEF Txn
<1>3. by \notin SystemManagers \cup {Owner} /\ members[m].user = by =>
        members[m].status = "ACTIVE" \/ Doubled(by, members)
  BY DEF Has, Doubled
<1>4. SoundSave(read, members)
  BY <1>3 DEF SoundSave
<1>5. SoundAdd(read, members) /\ SoundShare(read, shares) /\ SoundArchive(read, runs)
  BY DEF SoundAdd, SoundShare, SoundArchive, MemberSaves
<1> QED BY <1>2, <1>4, <1>5, BeginKeeps DEF Sound, SaveBegin

LEMMA AddBegins ==
  ASSUME SharingInv, NEW t \in Slots, NEW by \in Users, NEW user \in Invited, NEW role \in Roles,
         AddBegin(t, by, user, role)
  PROVE  SharingInv'
<1>1. CASE RowsOf(user) = {}
  <2> DEFINE read == [service |-> "add_member", user |-> user, role |-> role,
                      seen |-> {m \in Members : members[m] # NoMember}]
  <2>1. read \in Txn
    BY DEF Txn
  <2>2. SoundAdd(read, members)
    BY <1>1 DEF SoundAdd, RowsOf
  <2>3. SoundSave(read, members) /\ SoundShare(read, shares) /\ SoundArchive(read, runs)
    BY DEF SoundSave, SoundShare, SoundArchive, MemberSaves
  <2> QED BY <1>1, <2>1, <2>2, <2>3, BeginKeeps DEF Sound, AddBegin
<1>2. CASE RowsOf(user) # {}
  <2> DEFINE m == newest[user]
             row == [user |-> user, role |-> role, status |-> "ACTIVE"]
  <2>1. m \in Members /\ members[m].user = user
    BY <1>2 DEF SharingInv, TypeOK, RowsOf
  <2>2. members[m] # NoMember
    BY <2>1, SharingAssumption DEF NoMember
  <2>3. row \in Member
    BY DEF Member
  <2>4. SaveBegin(t, "add_again", by, m, row) /\ Has(by, ManageRoles)
    BY <1>2 DEF AddBegin
  <2> QED BY <2>1, <2>2, <2>3, <2>4, SaveBeginSound DEF MemberSaves
<1> QED BY <1>1, <1>2

LEMMA RoleBegins ==
  ASSUME SharingInv, NEW t \in Slots, NEW by \in Users, NEW m \in Members,
         (\E role \in Roles : RoleBegin(t, by, m, role)) \/ DisableBegin(t, by, m)
  PROVE  SharingInv'
<1>0. members[m] \in Member \/ members[m] = NoMember
  BY DEF SharingInv, TypeOK
<1>1. ASSUME NEW role \in Roles, RoleBegin(t, by, m, role) PROVE SharingInv'
  <2> DEFINE row == [members[m] EXCEPT !.role = role]
  <2>1. /\ row \in Member /\ row.user = members[m].user /\ row.status = members[m].status
        /\ members[m] # NoMember /\ Has(by, ManageRoles)
    BY <1>0, <1>1 DEF RoleBegin, Member
  <2>2. SaveBegin(t, "update_member_role", by, m, row)
    BY <1>1 DEF RoleBegin
  <2> HIDE DEF row
  <2> QED BY <2>1, <2>2, SaveBeginSound DEF MemberSaves
<1>2. ASSUME DisableBegin(t, by, m) PROVE SharingInv'
  <2> DEFINE row == [members[m] EXCEPT !.status = "DISABLED"]
  <2>1. /\ row \in Member /\ row.user = members[m].user /\ row.status = "DISABLED"
        /\ members[m] # NoMember /\ Has(by, ManageRoles)
    BY <1>0, <1>2 DEF DisableBegin, Member
  <2>2. SaveBegin(t, "disable_member", by, m, row)
    BY <1>2 DEF DisableBegin
  <2> HIDE DEF row
  <2> QED BY <2>1, <2>2, SaveBeginSound DEF MemberSaves
<1> QED BY <1>1, <1>2

LEMMA ShareBegins ==
  ASSUME SharingInv, NEW t \in Slots, NEW by \in Users, NEW r \in Runs,
         NEW selection \in Selections, ShareBegin(t, by, r, selection)
  PROVE  SharingInv'
<1> DEFINE share == [owner |-> by, workflow_run |-> r, selected |-> Normalized(selection),
                     status |-> "ACTIVE"]
           read == [service |-> "share", share |-> share,
                    seen |-> {s \in Shares : shares[s] # NoShare}]
<1>1. share \in Share
  BY DEF Share
<1>2. read \in Txn
  BY <1>1 DEF Txn
<1>3. Selectable(r, Normalized(selection)) /\ Existing(by, r, selection) = {}
  BY DEF ShareBegin
<1>4. \A s \in Shares : shares[s] # NoShare =>
        (shares[s].status = "ACTIVE" => Key(shares[s]) # Key(share))
  BY <1>3 DEF Existing, Key
<1>5. SoundShare(read, shares)
  BY <1>3, <1>4 DEF SoundShare
<1>6. SoundSave(read, members) /\ SoundAdd(read, members) /\ SoundArchive(read, runs)
  BY DEF SoundSave, SoundAdd, SoundArchive, MemberSaves
<1>7. Begin(t, read)
  BY DEF ShareBegin
<1> QED BY <1>2, <1>5, <1>6, <1>7, BeginKeeps DEF Sound

LEMMA DisableShareBegins ==
  ASSUME SharingInv, NEW t \in Slots, NEW by \in Users, NEW s \in Shares,
         DisableShareBegin(t, by, s)
  PROVE  SharingInv'
<1> DEFINE read == [service |-> "disable_share", name |-> s]
<1>1. read \in Txn
  BY DEF Txn
<1>2. Sound(read, members, shares, runs)
  BY DEF DisableShareBegin, Sound, SoundSave, SoundAdd, SoundShare, SoundArchive, MemberSaves
<1>3. Begin(t, read)
  BY DEF DisableShareBegin
<1> HIDE DEF read
<1> QED BY <1>1, <1>2, <1>3, BeginKeeps

LEMMA ArchiveBegins ==
  ASSUME SharingInv, NEW t \in Slots, NEW by \in Users, NEW r \in Runs, ArchiveBegin(t, by, r)
  PROVE  SharingInv'
<1> DEFINE row == [runs[r] EXCEPT !.is_archived = TRUE]
           read == [service |-> "archive", workflow_run |-> r, row |-> row]
<1>1. row \in Run
  BY DEF SharingInv, TypeOK, Run
<1>2. read \in Txn
  BY <1>1 DEF Txn
<1>3. Sound(read, members, shares, runs)
  BY DEF ArchiveBegin, Sound, SoundSave, SoundAdd, SoundShare, SoundArchive, MemberSaves
<1>4. Begin(t, read)
  BY DEF ArchiveBegin
<1> HIDE DEF read
<1> QED BY <1>2, <1>3, <1>4, BeginKeeps

-----------------------------------------------------------------------------
(* What a step leaves of a request in flight, and of the row it is about. *)
LEMMA RaiseKeeps ==
  ASSUME SharingInv, NEW t \in Slots, Raise(t)
  PROVE  SharingInv'
<1>1. txn' \in [Slots -> Txn \cup {Idle, Late}]
  BY DEF SharingInv, TypeOK, Raise
<1>2. TypeOK'
  BY <1>1 DEF SharingInv, TypeOK, Raise, RowsOf
<1>3. \A s \in Slots : Sound(txn'[s], members, shares, runs)
  BY Nothing DEF SharingInv, TypeOK, Raise
<1> QED BY <1>2, <1>3 DEF SharingInv, Raise

LEMMA MemberWritten ==
  ASSUME TypeOK, NEW t \in Slots, NEW m \in Members, NEW row, WriteMember(t, m, row)
  PROVE  /\ txn' \in [Slots -> Txn \cup {Idle, Late}]
         /\ \A s \in Slots :
              \/ txn'[s] \in {Idle, Late}
              \/ /\ txn'[s] = txn[s]
                 /\ ~(txn[s].service \in MemberSaves /\ txn[s].member = m)
BY DEF TypeOK, WriteMember, Commit, Overtake

(* Rows, once there, keep their user. *)
LEMMA WriteMemberKeeps ==
  ASSUME SharingInv, NEW t \in Slots, NEW m \in Members, NEW row \in Member,
         members[m] = NoMember \/ members[m].user = row.user, WriteMember(t, m, row)
  PROVE  SharingInv'
<1>1. TypeOK /\ members \in [Members -> Member \cup {NoMember}]
      /\ newest \in [Invited -> Members \cup {"none"}]
  BY DEF SharingInv, TypeOK
<1>2. /\ members' = [members EXCEPT ![m] = row] /\ newest' = [newest EXCEPT ![row.user] = m]
      /\ shares' = shares /\ runs' = runs
  BY DEF WriteMember
<1>3. row.user \in Invited /\ NoMember.user \notin Invited /\ row # NoMember
  BY Nothing, SharingAssumption DEF Member, NoMember
<1>4. \A k \in Members : members[k] # NoMember =>
        members'[k] # NoMember /\ members'[k].user = members[k].user
  BY <1>1, <1>2, <1>3
<1>5. TypeOK'
  <2>1. members' \in [Members -> Member \cup {NoMember}]
        /\ newest' \in [Invited -> Members \cup {"none"}]
    BY <1>1, <1>2, <1>3
  <2>2. ASSUME NEW u \in Invited, RowsOf(u)' # {} PROVE newest'[u] \in RowsOf(u)'
    <3>1. CASE u = row.user
      BY <3>1, <1>1, <1>2 DEF RowsOf
    <3>2. CASE u # row.user
      <4>1. \A k \in Members : members'[k].user = u <=> members[k].user = u
        BY <3>2, <1>1, <1>2, <1>3
      <4>2. RowsOf(u)' = RowsOf(u)
        BY <4>1 DEF RowsOf
      <4>3. newest[u] \in RowsOf(u)
        BY <4>2, <2>2, <1>1 DEF TypeOK
      <4> QED BY <4>2, <4>3, <3>2, <1>1, <1>2
    <3> QED BY <3>1, <3>2
  <2> QED BY <2>1, <2>2, <1>1, <1>2, MemberWritten DEF TypeOK
<1>6. ASSUME NEW s \in Slots PROVE Sound(txn'[s], members', shares', runs')
  <2>1. CASE txn'[s] \in {Idle, Late}
    BY <2>1, Nothing
  <2>2. CASE txn'[s] = txn[s] /\ ~(txn[s].service \in MemberSaves /\ txn[s].member = m)
    <3> DEFINE x == txn[s]
    <3>1. Sound(x, members, shares, runs) /\ x \in Txn \cup {Idle, Late}
      BY <1>1 DEF SharingInv, TypeOK
    <3>2. SoundSave(x, members')
      <4>1. SUFFICES ASSUME x.service \in MemberSaves PROVE SoundSave(x, members')
        BY DEF SoundSave
      <4>2. x.member \in Members /\ x.member # m
        BY <4>1, <3>1, <2>2, TxnTyped
      <4>3. members'[x.member] = members[x.member]
        BY <4>2, <1>1, <1>2
      <4>4. x.by \in Users /\ x.read \in Member
        BY <4>1, <3>1, TxnTyped
      <4>5. Doubled(x.by, members) => Doubled(x.by, members')
        BY <1>1, <1>2, <1>4, <4>4, SharingAssumption DEF Doubled, NoMember
      <4> QED BY <4>3, <4>5, <3>1 DEF Sound, SoundSave
    <3>3. SoundAdd(x, members')
      BY <3>1, <1>4, TxnTyped DEF Sound, SoundAdd
    <3> QED BY <3>1, <3>2, <3>3, <2>2, <1>2 DEF Sound
  <2> QED BY <2>1, <2>2, <1>1, MemberWritten
<1> QED BY <1>2, <1>5, <1>6 DEF SharingInv

LEMMA MemberSteps ==
  ASSUME SharingInv, NEW t \in Slots, AddMember(t) \/ SaveMember(t)
  PROVE  SharingInv'
<1>0. txn[t] \in Txn \cup {Idle, Late} /\ Sound(txn[t], members, shares, runs)
  BY DEF SharingInv, TypeOK
<1>1. CASE AddMember(t)
  <2> DEFINE row == [user |-> txn[t].user, role |-> txn[t].role, status |-> "ACTIVE"]
  <2>1. row \in Member
    BY <1>0, <1>1, TxnTyped DEF AddMember, Serving, Member
  <2>2. PICK m \in Members : members[m] = NoMember /\ WriteMember(t, m, row)
    BY <1>1 DEF AddMember
  <2> HIDE DEF row
  <2> QED BY <2>1, <2>2, WriteMemberKeeps
<1>2. CASE SaveMember(t)
  <2>1. /\ txn[t].member \in Members /\ txn[t].row \in Member
        /\ members[txn[t].member].user = txn[t].row.user
    BY <1>0, <1>2, TxnTyped DEF SaveMember, Sound, SoundSave
  <2>2. WriteMember(t, txn[t].member, txn[t].row)
    BY <1>2 DEF SaveMember
  <2> QED BY <2>1, <2>2, WriteMemberKeeps
<1> QED BY <1>1, <1>2

-----------------------------------------------------------------------------
(* Links keep their key; of their fields only the status changes, once. *)
LEMMA LinksWritten ==
  ASSUME SharingInv, NEW t \in Slots,
         shares' \in [Shares -> Share \cup {NoShare}], Linked(shares'),
         \A s \in Shares : shares[s] # NoShare =>
           /\ shares'[s] # NoShare /\ Key(shares'[s]) = Key(shares[s])
           /\ shares'[s].status = "ACTIVE" => shares[s].status = "ACTIVE",
         txn' \in [Slots -> Txn \cup {Idle, Late}],
         \A s \in Slots : txn'[s] \in {Idle, Late} \/ txn'[s] = txn[s],
         UNCHANGED <<members, newest, runs>>
  PROVE  SharingInv'
<1>1. TypeOK'
  BY DEF SharingInv, TypeOK, RowsOf
<1>2. ASSUME NEW s \in Slots PROVE Sound(txn'[s], members', shares', runs')
  <2>1. CASE txn'[s] \in {Idle, Late}
    BY <2>1, Nothing
  <2>2. CASE txn'[s] = txn[s]
    <3>1. Sound(txn[s], members, shares, runs) /\ txn[s] \in Txn \cup {Idle, Late}
      BY DEF SharingInv, TypeOK
    <3>2. SoundShare(txn[s], shares')
      BY <3>1, TxnTyped DEF Sound, SoundShare
    <3> QED BY <3>1, <3>2, <2>2 DEF Sound
  <2> QED BY <2>1, <2>2
<1> QED BY <1>1, <1>2 DEF SharingInv

LEMMA CreateShareKeeps ==
  ASSUME SharingInv, NEW t \in Slots, CreateRunShare(t)
  PROVE  SharingInv'
<1>1. txn[t] \in Txn \cup {Idle, Late} /\ Sound(txn[t], members, shares, runs)
      /\ shares \in [Shares -> Share \cup {NoShare}] /\ Linked(shares)
      /\ txn \in [Slots -> Txn \cup {Idle, Late}]
  BY DEF SharingInv, TypeOK
<1>2. txn[t].share \in Share
      /\ Selectable(txn[t].share.workflow_run, txn[t].share.selected)
  BY <1>1, TxnTyped DEF CreateRunShare, Serving, Sound, SoundShare
<1>3. PICK s \in Shares : shares[s] = NoShare /\ shares' = [shares EXCEPT ![s] = txn[t].share]
  BY DEF CreateRunShare
<1>4. shares' \in [Shares -> Share \cup {NoShare}] /\ Linked(shares')
  BY <1>1, <1>2, <1>3 DEF Linked
<1>5. txn' \in [Slots -> Txn \cup {Idle, Late}]
      /\ \A x \in Slots : txn'[x] \in {Idle, Late} \/ txn'[x] = txn[x]
  BY <1>1 DEF CreateRunShare
<1>6. \A x \in Shares : shares[x] # NoShare => shares'[x] = shares[x]
  BY <1>1, <1>3
<1> QED BY <1>4, <1>5, <1>6, LinksWritten DEF CreateRunShare

LEMMA DisableShareKeeps ==
  ASSUME SharingInv, NEW t \in Slots, DisableRunShare(t)
  PROVE  SharingInv'
<1>1. txn[t] \in Txn \cup {Idle, Late}
      /\ shares \in [Shares -> Share \cup {NoShare}] /\ Linked(shares)
      /\ txn \in [Slots -> Txn \cup {Idle, Late}]
  BY DEF SharingInv, TypeOK
<1>2. txn[t].name \in Shares /\ shares[txn[t].name] \in Share
  <2>1. txn[t].name \in Shares /\ Sound(txn[t], members, shares, runs)
    BY <1>1, TxnTyped DEF DisableRunShare, Serving, SharingInv
  <2> QED BY <2>1, <1>1 DEF DisableRunShare, Serving, Sound, SoundShare
<1> DEFINE name == txn[t].name
           share == [shares[name] EXCEPT !.status = "DISABLED"]
<1>3. /\ shares' = [shares EXCEPT ![name] = share]
      /\ share \in Share /\ Key(share) = Key(shares[name]) /\ share.status = "DISABLED"
      /\ share.workflow_run = shares[name].workflow_run /\ share.selected = shares[name].selected
  BY <1>1, <1>2 DEF DisableRunShare, Share, Key
<1>4. shares[name] # NoShare /\ share # NoShare
  BY <1>2, <1>3, Nothing
<1> HIDE DEF share
<1>5. shares' \in [Shares -> Share \cup {NoShare}] /\ Linked(shares')
  BY <1>1, <1>2, <1>3, <1>4 DEF Linked
<1>6. \A s \in Shares : shares[s] # NoShare =>
        /\ shares'[s] # NoShare /\ Key(shares'[s]) = Key(shares[s])
        /\ shares'[s].status = "ACTIVE" => shares[s].status = "ACTIVE"
  BY <1>1, <1>2, <1>3, <1>4
<1>7. txn' \in [Slots -> Txn \cup {Idle, Late}]
      /\ \A x \in Slots : txn'[x] \in {Idle, Late} \/ txn'[x] = txn[x]
  BY <1>1 DEF DisableRunShare, Commit, Overtake
<1> QED BY <1>5, <1>6, <1>7, LinksWritten DEF DisableRunShare

-----------------------------------------------------------------------------
(* A run that is written makes late the requests that would archive it. *)
LEMMA RunsWritten ==
  ASSUME SharingInv, runs' \in [Runs -> Run],
         txn' \in [Slots -> Txn \cup {Idle, Late}],
         \A s \in Slots :
           \/ txn'[s] \in {Idle, Late}
           \/ /\ txn'[s] = txn[s]
              /\ txn[s].service = "archive" =>
                   runs'[txn[s].workflow_run] = runs[txn[s].workflow_run],
         UNCHANGED <<members, newest, shares>>
  PROVE  SharingInv'
<1>1. TypeOK'
  BY DEF SharingInv, TypeOK, RowsOf
<1>2. ASSUME NEW s \in Slots PROVE Sound(txn'[s], members', shares', runs')
  <2>1. CASE txn'[s] \in {Idle, Late}
    BY <2>1, Nothing
  <2>2. CASE txn'[s] = txn[s] /\ (txn[s].service = "archive" =>
                                    runs'[txn[s].workflow_run] = runs[txn[s].workflow_run])
    <3>1. Sound(txn[s], members, shares, runs)
      BY DEF SharingInv
    <3>2. SoundArchive(txn[s], runs')
      BY <3>1, <2>2 DEF Sound, SoundArchive
    <3> QED BY <3>1, <3>2, <2>2 DEF Sound
  <2> QED BY <2>1, <2>2
<1> QED BY <1>1, <1>2 DEF SharingInv

LEMMA RunSteps ==
  ASSUME SharingInv,
         \/ \E t \in Slots : ArchiveMyRun(t)
         \/ \E r \in Runs, status \in RunStatuses : EngineWrites(r, status)
  PROVE  SharingInv'
<1>1. runs \in [Runs -> Run] /\ txn \in [Slots -> Txn \cup {Idle, Late}]
  BY DEF SharingInv, TypeOK
<1>2. ASSUME NEW t \in Slots, ArchiveMyRun(t) PROVE SharingInv'
  <2> DEFINE r == txn[t].workflow_run
  <2>1. r \in Runs /\ txn[t].row \in Run
    BY <1>1, <1>2, TxnTyped DEF ArchiveMyRun, Serving
  <2>2. runs' \in [Runs -> Run] /\ \A x \in Runs : x # r => runs'[x] = runs[x]
    BY <1>1, <1>2, <2>1 DEF ArchiveMyRun
  <2>3. txn' = [s \in Slots |-> IF s = t THEN Idle
                                ELSE IF txn[s].service = "archive" /\ txn[s].workflow_run = r
                                     THEN Late ELSE txn[s]]
    BY <1>2 DEF ArchiveMyRun, Commit, Overtake, Serving
  <2>4. \A s \in Slots : txn[s].service = "archive" => txn[s].workflow_run \in Runs
    BY <1>1, TxnTyped
  <2> HIDE DEF r
  <2>5. txn' \in [Slots -> Txn \cup {Idle, Late}]
        /\ \A s \in Slots :
             \/ txn'[s] \in {Idle, Late}
             \/ /\ txn'[s] = txn[s]
                /\ txn[s].service = "archive" =>
                     runs'[txn[s].workflow_run] = runs[txn[s].workflow_run]
    BY <1>1, <2>2, <2>3, <2>4
  <2> QED BY <1>2, <2>2, <2>5, RunsWritten DEF ArchiveMyRun
<1>3. ASSUME NEW r \in Runs, NEW status \in RunStatuses, EngineWrites(r, status) PROVE SharingInv'
  <2>2. runs' \in [Runs -> Run] /\ \A x \in Runs : x # r => runs'[x] = runs[x]
    BY <1>1, <1>3 DEF EngineWrites, Run
  <2>3. txn' = [s \in Slots |-> IF txn[s].service = "archive" /\ txn[s].workflow_run = r
                                THEN Late ELSE txn[s]]
    BY <1>3 DEF EngineWrites, Overtake, Serving
  <2>4. \A s \in Slots : txn[s].service = "archive" => txn[s].workflow_run \in Runs
    BY <1>1, TxnTyped
  <2>5. txn' \in [Slots -> Txn \cup {Idle, Late}]
        /\ \A s \in Slots :
             \/ txn'[s] \in {Idle, Late}
             \/ /\ txn'[s] = txn[s]
                /\ txn[s].service = "archive" =>
                     runs'[txn[s].workflow_run] = runs[txn[s].workflow_run]
    BY <1>1, <2>2, <2>3, <2>4
  <2> QED BY <1>3, <2>2, <2>5, RunsWritten DEF EngineWrites
<1> QED BY <1>2, <1>3

-----------------------------------------------------------------------------
LEMMA SharingInit == Init => SharingInv
<1> SUFFICES ASSUME Init PROVE SharingInv
  OBVIOUS
<1>1. TypeOK
  <2>1. \A u \in Invited : RowsOf(u) = {}
    BY SharingAssumption DEF Init, RowsOf, NoMember
  <2> QED BY <2>1, SharingAssumption DEF Init, TypeOK, Run
<1>2. Linked(shares)
  BY DEF Init, Linked
<1> QED BY <1>1, <1>2, Nothing DEF Init, SharingInv

LEMMA SharingStep == SharingInv /\ [Next]_vars => SharingInv'
<1> SUFFICES ASSUME SharingInv, [Next]_vars PROVE SharingInv'
  OBVIOUS
<1>1. ASSUME NEW t \in Slots, NEW by \in Users, NEW role \in Roles, NEW user \in Invited,
             AddBegin(t, by, user, role) PROVE SharingInv'
  BY <1>1, AddBegins
<1>2. ASSUME NEW t \in Slots, NEW by \in Users, NEW m \in Members,
             (\E role \in Roles : RoleBegin(t, by, m, role)) \/ DisableBegin(t, by, m)
      PROVE  SharingInv'
  BY <1>2, RoleBegins
<1>3. ASSUME NEW t \in Slots, NEW by \in Users, NEW r \in Runs,
             (\E selection \in Selections : ShareBegin(t, by, r, selection))
               \/ ArchiveBegin(t, by, r)
      PROVE  SharingInv'
  BY <1>3, ShareBegins, ArchiveBegins
<1>4. ASSUME NEW t \in Slots, NEW by \in Users, NEW s \in Shares, DisableShareBegin(t, by, s)
      PROVE  SharingInv'
  BY <1>4, DisableShareBegins
<1>5. ASSUME NEW t \in Slots, AddMember(t) \/ SaveMember(t) PROVE SharingInv'
  BY <1>5, MemberSteps
<1>6. ASSUME NEW t \in Slots, CreateRunShare(t) \/ DisableRunShare(t) PROVE SharingInv'
  BY <1>6, CreateShareKeeps, DisableShareKeeps
<1>7. ASSUME NEW t \in Slots, Raise(t) PROVE SharingInv'
  BY <1>7, RaiseKeeps
<1>8. CASE \/ \E t \in Slots : ArchiveMyRun(t)
           \/ \E r \in Runs, status \in RunStatuses : EngineWrites(r, status)
  BY <1>8, RunSteps
<1>9. CASE UNCHANGED vars
  <2>1. TypeOK'
    BY <1>9 DEF SharingInv, TypeOK, vars, RowsOf
  <2> QED BY <1>9, <2>1 DEF SharingInv, vars
<1> QED BY <1>1, <1>2, <1>3, <1>4, <1>5, <1>6, <1>7, <1>8, <1>9 DEF Next

LEMMA SharingIsSound == Spec => []SharingInv
BY SharingInit, SharingStep, PTL DEF Spec

(* Rows, links, runs and requests in flight stay well formed: for every    *)
(* user the row modified last is one of the user's rows.                   *)
THEOREM TypeCorrect == Spec => []TypeOK
<1>1. SharingInv => TypeOK
  BY DEF SharingInv
<1> QED BY <1>1, SharingIsSound, PTL

(* A link shows what was selected for it, and only that. *)
THEOREM LinksShow == Spec => []LinkShowsItsSelection
<1>1. ASSUME NEW r, NEW selected, Selectable(r, selected)
      PROVE  Gallery(r, selected) = {selected[i] : i \in DOMAIN selected}
  BY <1>1 DEF Selectable, Gallery, RunAssets, Discovered, Referenced
<1>2. SharingInv => LinkShowsItsSelection
  BY <1>1 DEF SharingInv, Linked, LinkShowsItsSelection
<1> QED BY <1>2, SharingIsSound, PTL

-----------------------------------------------------------------------------
(* Which steps write what. *)
LEMMA Writers ==
  ASSUME [Next]_vars
  PROVE  /\ members' # members => \E t \in Slots : AddMember(t) \/ SaveMember(t)
         /\ shares' # shares => \E t \in Slots : CreateRunShare(t) \/ DisableRunShare(t)
         /\ runs' # runs => \/ \E t \in Slots : ArchiveMyRun(t)
                            \/ \E r \in Runs, status \in RunStatuses : EngineWrites(r, status)
<1> DEFINE Reads == UNCHANGED <<members, shares, runs>>
<1>1. ASSUME NEW t \in Slots, NEW by \in Users, NEW role \in Roles, NEW user \in Invited,
             AddBegin(t, by, user, role) PROVE Reads
  BY <1>1 DEF AddBegin, SaveBegin, Begin
<1>2. ASSUME NEW t \in Slots, NEW by \in Users, NEW m \in Members,
             (\E role \in Roles : RoleBegin(t, by, m, role)) \/ DisableBegin(t, by, m)
      PROVE  Reads
  BY <1>2 DEF RoleBegin, DisableBegin, SaveBegin, Begin
<1>3. ASSUME NEW t \in Slots, NEW by \in Users, NEW r \in Runs,
             (\E selection \in Selections : ShareBegin(t, by, r, selection))
               \/ ArchiveBegin(t, by, r)
      PROVE  Reads
  BY <1>3 DEF ShareBegin, ArchiveBegin, Begin
<1>4. ASSUME NEW t \in Slots, NEW by \in Users, NEW s \in Shares, DisableShareBegin(t, by, s)
      PROVE  Reads
  BY <1>4 DEF DisableShareBegin, Begin
<1>5. ASSUME NEW t \in Slots, Raise(t) PROVE Reads
  BY <1>5 DEF Raise
<1>6. ASSUME NEW t \in Slots, AddMember(t) \/ SaveMember(t) PROVE UNCHANGED <<shares, runs>>
  BY <1>6 DEF AddMember, SaveMember, WriteMember
<1>7. ASSUME NEW t \in Slots, CreateRunShare(t) \/ DisableRunShare(t)
      PROVE  UNCHANGED <<members, runs>>
  BY <1>7 DEF CreateRunShare, DisableRunShare
<1>8. ASSUME NEW t \in Slots, ArchiveMyRun(t) PROVE UNCHANGED <<members, shares>>
  BY <1>8 DEF ArchiveMyRun
<1>9. ASSUME NEW r \in Runs, NEW status \in RunStatuses, EngineWrites(r, status)
      PROVE  UNCHANGED <<members, shares>>
  BY <1>9 DEF EngineWrites
<1>10. UNCHANGED vars => Reads
  BY DEF vars
<1> QED BY <1>1, <1>2, <1>3, <1>4, <1>5, <1>6, <1>7, <1>8, <1>9, <1>10 DEF Next

(* One row is written: by whom, and what. *)
LEMMA MemberWrite ==
  ASSUME SharingInv, NEW t \in Slots, AddMember(t) \/ SaveMember(t)
  PROVE  /\ txn'[t] = Idle
         /\ \A s \in Slots : txn'[s] = Idle => s = t \/ txn[s] = Idle
         /\ \E m \in Members, row \in Member :
              /\ members' = [members EXCEPT ![m] = row]
              /\ \/ /\ Serving(t, "add_member") /\ members[m] = NoMember
                    /\ row.user = txn[t].user
                 \/ /\ txn[t].service \in MemberSaves /\ members[m] # NoMember
                    /\ m = txn[t].member /\ row = txn[t].row /\ row.user = members[m].user
<1>0. txn[t] \in Txn \cup {Idle, Late} /\ Sound(txn[t], members, shares, runs)
      /\ txn \in [Slots -> Txn \cup {Idle, Late}]
  BY DEF SharingInv, TypeOK
<1>1. CASE AddMember(t)
  <2> DEFINE row == [user |-> txn[t].user, role |-> txn[t].role, status |-> "ACTIVE"]
  <2>1. row \in Member /\ row.user = txn[t].user /\ Serving(t, "add_member")
    BY <1>0, <1>1, TxnTyped DEF AddMember, Serving, Member
  <2>2. PICK m \in Members : members[m] = NoMember /\ WriteMember(t, m, row)
    BY <1>1 DEF AddMember
  <2>3. /\ txn'[t] = Idle /\ members' = [members EXCEPT ![m] = row]
        /\ \A s \in Slots : txn'[s] = Idle => s = t \/ txn[s] = Idle
    BY <2>2, <1>0, Nothing DEF WriteMember, Commit, Overtake
  <2> HIDE DEF row
  <2> QED BY <2>1, <2>2, <2>3
<1>2. CASE SaveMember(t)
  <2>1. /\ txn[t].member \in Members /\ txn[t].row \in Member /\ txn[t].service \in MemberSaves
        /\ members[txn[t].member] # NoMember
        /\ members[txn[t].member].user = txn[t].row.user
    BY <1>0, <1>2, TxnTyped DEF SaveMember, Sound, SoundSave
  <2>2. /\ txn'[t] = Idle /\ members' = [members EXCEPT ![txn[t].member] = txn[t].row]
        /\ \A s \in Slots : txn'[s] = Idle => s = t \/ txn[s] = Idle
    BY <1>2, <1>0, Nothing DEF SaveMember, WriteMember, Commit, Overtake
  <2> QED BY <2>1, <2>2
<1> QED BY <1>1, <1>2

LEMMA MembershipRace ==
  ASSUME SharingInv, [Next]_vars, NEW m \in Members, NEW n \in Members,
         members[n] = NoMember, members'[n] # NoMember, members[m] # NoMember,
         members[m].user = members'[n].user
  PROVE  \E t \in Slots : Serving(t, "add_member") /\ txn'[t] = Idle /\ m \notin txn[t].seen
<1>1. PICK t \in Slots : AddMember(t) \/ SaveMember(t)
  BY Writers
<1>2. txn'[t] = Idle /\ members \in [Members -> Member \cup {NoMember}]
      /\ Sound(txn[t], members, shares, runs)
  BY <1>1, MemberWrite DEF SharingInv, TypeOK
<1>3. PICK k \in Members, row \in Member :
        /\ members' = [members EXCEPT ![k] = row]
        /\ \/ /\ Serving(t, "add_member") /\ members[k] = NoMember
              /\ row.user = txn[t].user
           \/ /\ txn[t].service \in MemberSaves /\ members[k] # NoMember
              /\ k = txn[t].member /\ row = txn[t].row /\ row.user = members[k].user
  BY <1>1, MemberWrite
<1>4. k = n /\ members'[n] = row
  BY <1>2, <1>3
<1>5. Serving(t, "add_member") /\ row.user = txn[t].user
  BY <1>3, <1>4
<1>6. m \notin txn[t].seen
  BY <1>2, <1>4, <1>5 DEF Sound, SoundAdd, Serving
<1> QED BY <1>2, <1>5, <1>6

LEMMA ShareRace ==
  ASSUME SharingInv, [Next]_vars, NEW a \in Shares, NEW b \in Shares,
         shares[a] # NoShare, shares[a].status = "ACTIVE", shares[b] = NoShare,
         shares'[b] # NoShare, Key(shares[a]) = Key(shares'[b])
  PROVE  \E t \in Slots : Serving(t, "share") /\ txn'[t] = Idle /\ a \notin txn[t].seen
<1>1. PICK t \in Slots : CreateRunShare(t) \/ DisableRunShare(t)
  BY Writers
<1>2. /\ shares \in [Shares -> Share \cup {NoShare}] /\ txn \in [Slots -> Txn \cup {Idle, Late}]
      /\ txn[t] \in Txn \cup {Idle, Late} /\ Sound(txn[t], members, shares, runs)
  BY DEF SharingInv, TypeOK
<1>3. CASE DisableRunShare(t)
  <2>1. txn[t].name # b
    BY <1>2, <1>3 DEF Sound, SoundShare, DisableRunShare, Serving
  <2>2. shares'[b] = shares[b]
    BY <2>1, <1>2, <1>3 DEF DisableRunShare
  <2> QED BY <2>2
<1>4. CASE CreateRunShare(t)
  <2>1. shares'[b] = txn[t].share /\ Serving(t, "share") /\ txn'[t] = Idle
    BY <1>2, <1>4 DEF CreateRunShare
  <2>2. a \notin txn[t].seen
    BY <2>1, <1>2 DEF Sound, SoundShare, Serving
  <2> QED BY <2>1, <2>2
<1> QED BY <1>1, <1>3, <1>4

(* A second membership row of a user, and a second live link to a          *)
(* selection, come only of requests that began before the first was there. *)
THEOREM OnlyRacesDouble == Spec => SecondIsARace
<1>1. SharingInv /\ [Next]_vars =>
        /\ \A m, n \in Members :
             members[n] = NoMember /\ members'[n] # NoMember
             /\ members[m] # NoMember /\ members[m].user = members'[n].user
               => \E t \in Slots : Serving(t, "add_member") /\ txn'[t] = Idle /\ m \notin txn[t].seen
        /\ \A a, b \in Shares :
             shares[a] # NoShare /\ shares[a].status = "ACTIVE" /\ shares[b] = NoShare
             /\ shares'[b] # NoShare /\ Key(shares[a]) = Key(shares'[b])
               => \E t \in Slots : Serving(t, "share") /\ txn'[t] = Idle /\ a \notin txn[t].seen
  BY MembershipRace, ShareRace
<1> QED BY <1>1, SharingIsSound, PTL DEF Spec, SecondIsARace

(* A disabled membership comes back only by a request that saw it disabled *)
(* and adds the user again.                                                *)
THEOREM DisabledStays == Spec => DisabledUntilAddedAgain
<1>1. ASSUME SharingInv, [Next]_vars, NEW m \in Members,
             members[m] # NoMember, members[m].status = "DISABLED", members'[m].status = "ACTIVE"
      PROVE  \E t \in Slots : /\ Serving(t, "add_again") /\ txn'[t] = Idle
                              /\ txn[t].read = members[m]
  <2>1. PICK t \in Slots : AddMember(t) \/ SaveMember(t)
    BY <1>1, Writers
  <2>2. txn'[t] = Idle /\ members \in [Members -> Member \cup {NoMember}]
        /\ Sound(txn[t], members, shares, runs)
    BY <1>1, <2>1, MemberWrite DEF SharingInv, TypeOK
  <2>3. PICK k \in Members, row \in Member :
          /\ members' = [members EXCEPT ![k] = row]
          /\ \/ /\ Serving(t, "add_member") /\ members[k] = NoMember
                /\ row.user = txn[t].user
             \/ /\ txn[t].service \in MemberSaves /\ members[k] # NoMember
                /\ k = txn[t].member /\ row = txn[t].row /\ row.user = members[k].user
    BY <1>1, <2>1, MemberWrite
  <2>4. k = m /\ members'[m] = row
    BY <1>1, <2>2, <2>3
  <2>5. txn[t].service \in MemberSaves /\ txn[t].member = m /\ txn[t].row.status = "ACTIVE"
    BY <1>1, <2>3, <2>4
  <2>6. txn[t].read = members[m] /\ txn[t].service = "add_again"
    BY <1>1, <2>2, <2>5 DEF Sound, SoundSave, MemberSaves
  <2> QED BY <2>2, <2>6 DEF Serving
<1>2. SharingInv /\ [Next]_vars =>
        \A m \in Members :
          members[m] # NoMember /\ members[m].status = "DISABLED" /\ members'[m].status = "ACTIVE"
            => \E t \in Slots : /\ Serving(t, "add_again") /\ txn'[t] = Idle
                                /\ txn[t].read = members[m]
  BY <1>1
<1> QED BY <1>2, SharingIsSound, PTL DEF Spec, DisabledUntilAddedAgain

LEMMA OwnSave ==
  ASSUME SharingInv, [Next]_vars, NEW u \in Users \ (SystemManagers \cup {Owner}),
         NEW t \in Slots, txn[t].service \in MemberSaves, txn'[t] = Idle, txn[t].by = u,
         ~Has(u, ViewRoles), \A m, n \in RowsOf(u) : m = n,
         NEW m \in Members, members'[m].user = u
  PROVE  members'[m].status = "DISABLED"
<1>1. /\ members \in [Members -> Member \cup {NoMember}] /\ Sound(txn[t], members, shares, runs)
      /\ txn[t] # Idle
  BY DEF SharingInv, TypeOK, Idle, MemberSaves
<1>2. \A k \in Members : members[k].user = u => members[k].status = "DISABLED"
  <2> SUFFICES ASSUME NEW k \in Members, members[k].user = u PROVE members[k].status = "DISABLED"
    OBVIOUS
  <2>1. members[k] \in Member
    BY <1>1, SharingAssumption DEF NoMember
  <2>2. members[k].role \in ViewRoles /\ members[k].status \in {"ACTIVE", "DISABLED"}
    BY <2>1, SharingAssumption DEF Member, ViewRoles
  <2> QED BY <2>2 DEF Has
<1>3. ~Doubled(u, members)
  BY DEF Doubled, RowsOf
<1>4. CASE members' = members
  BY <1>2, <1>4
<1>5. CASE members' # members
  <2>1. PICK x \in Slots : AddMember(x) \/ SaveMember(x)
    BY <1>5, Writers
  <2>2. x = t
    BY <1>1, <2>1, MemberWrite
  <2>3. PICK k \in Members, row \in Member :
          /\ members' = [members EXCEPT ![k] = row]
          /\ \/ /\ Serving(t, "add_member") /\ members[k] = NoMember
                /\ row.user = txn[t].user
             \/ /\ txn[t].service \in MemberSaves /\ members[k] # NoMember
                /\ k = txn[t].member /\ row = txn[t].row /\ row.user = members[k].user
    BY <2>1, <2>2, MemberWrite
  <2>4. /\ k = txn[t].member /\ row.user = members[k].user /\ members[k] # NoMember
    BY <2>3 DEF Serving, MemberSaves
  <2>5. row.user # u
    BY <1>1, <1>2, <1>3, <2>4 DEF Sound, SoundSave
  <2>6. m # k /\ members'[m] = members[m]
    BY <1>1, <2>3, <2>5
  <2> QED BY <1>2, <2>6
<1> QED BY <1>4, <1>5

(* Who has no access left, and one row at most, is not let in by a request *)
(* of his own that is still in flight.                                     *)
THEOREM NobodyReinstatesOneself == Spec => NoSelfReinstatement
<1>1. SharingInv /\ [Next]_vars =>
        \A u \in Users \ (SystemManagers \cup {Owner}) : \A t \in Slots :
          txn[t].service \in MemberSaves /\ txn'[t] = Idle /\ txn[t].by = u /\ ~Has(u, ViewRoles)
          /\ (\A m, n \in RowsOf(u) : m = n)
            => \A m \in Members : members'[m].user = u => members'[m].status = "DISABLED"
  BY OwnSave
<1> QED BY <1>1, SharingIsSound, PTL DEF Spec, NoSelfReinstatement

(* Archiving never writes a status, and archives ended runs only. *)
THEOREM ArchiveIsOfTheEnd == Spec => ArchiveKeepsStatus
<1>1. ASSUME SharingInv, [Next]_vars, NEW r \in Runs,
             runs'[r].is_archived # runs[r].is_archived
      PROVE  runs'[r].is_archived /\ runs'[r].status = runs[r].status /\ runs[r].status \in Ended
  <2>0. runs \in [Runs -> Run]
    BY <1>1 DEF SharingInv, TypeOK
  <2>1. CASE \E t \in Slots : ArchiveMyRun(t)
    <3>1. PICK t \in Slots : ArchiveMyRun(t)
      BY <2>1
    <3>2. SoundArchive(txn[t], runs)
      BY <1>1 DEF SharingInv, Sound
    <3>3. r = txn[t].workflow_run
      BY <1>1, <2>0, <3>1 DEF ArchiveMyRun
    <3>4. runs'[r] = [runs[r] EXCEPT !.is_archived = TRUE] /\ runs[r].status \in Ended
      BY <2>0, <3>1, <3>2, <3>3 DEF ArchiveMyRun, SoundArchive, Serving
    <3> QED BY <3>4, <2>0 DEF Run
  <2>2. CASE \E x \in Runs, status \in RunStatuses : EngineWrites(x, status)
    BY <1>1, <2>0, <2>2 DEF EngineWrites, Run
  <2> QED BY <1>1, <2>1, <2>2, Writers
<1>2. SharingInv /\ [Next]_vars =>
        \A r \in Runs :
          /\ runs'[r].is_archived # runs[r].is_archived =>
               runs'[r].is_archived /\ runs'[r].status = runs[r].status /\ runs[r].status \in Ended
  BY <1>1
<1> QED BY <1>2, SharingIsSound, PTL DEF Spec, ArchiveKeepsStatus
=============================================================================
