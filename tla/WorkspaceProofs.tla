---------------------------- MODULE WorkspaceProofs ----------------------------
(***************************************************************************)
(* Who may come into a workspace, and what keys reach: the properties of   *)
(* Access for any number of people, workspaces, books and requests; then   *)
(* accounts and sessions, tasks and notifications, and all of them in one  *)
(* system of requests.  Last, what every request runs under: the           *)
(* idempotency record of its key, and the row locks of its transaction.    *)
(***************************************************************************)
EXTENDS Workspace, Idempotency, LockOrder, SequenceTheorems, WellFoundedInduction, TLAPS

MemberRow == [role : WorkspaceRoles, tag : Tags \union {None}]
InviteRow == [ws : Workspaces, to : Users, role : Roles,
              state : {"open", "accepted", "declined", "expired"}, late : BOOLEAN]
BookRow   == [active : BOOLEAN, ref : Nat \union {None}]
KeyRow    == [ws : Workspaces, books : SUBSET Books, status : {"ACTIVE", "REVOKED"}, secret : {1, 2}]

(* The row of an owner is never missing.                                   *)
Members ==
  /\ member \in [Workspaces -> [Users -> MemberRow \union {None}]]
  /\ OwnersOnly
  /\ \A w \in Workspaces, u \in Users : member[w][u] = None => Owner[w] # u

Invites == invite \in Seq(InviteRow) /\ OneOpenInvite

(* References are numbered in the order they are drawn.                    *)
References ==
  /\ book \in [Books -> BookRow] /\ refs \in Nat
  /\ \A b \in Books : book[b].ref = None \/ book[b].ref <= refs
  /\ RefsApart

KeyBooks ==
  /\ key \in Seq(KeyRow)
  /\ \A k \in DOMAIN key : \A b \in key[k].books : HomeOf[b] = key[k].ws /\ book[b].ref # None

(* What a request q has read and still relies on, given the invitations,   *)
(* books and keys there are.                                               *)
Sound(q, is, bs, ks) ==
  /\ q.pc \in {"invite", "role", "remove", "import"} => q.ws \in Workspaces /\ q.to \in Users
  /\ q.pc \in {"invite", "import"} => q.role \in Roles
  /\ q.pc = "accept" => q.invite \in DOMAIN is
  /\ q.pc \in {"role", "remove"} => Owner[q.ws] # q.to
  /\ q.pc = "role" => q.role \in Roles \union {None} /\ q.tag \in Tags \union {None}
  /\ q.pc \in {"activate", "allocate"} =>
       /\ q.todo \subseteq Books /\ q.books \subseteq Books /\ q.ws \in Workspaces
       /\ \A b \in q.books : HomeOf[b] = q.ws /\ (b \in q.todo \/ bs[b].ref # None)
       /\ q.key # 0 => q.key \in DOMAIN ks /\ ks[q.key].ws = q.ws
  /\ q.pc = "allocate" => q.book \in Books
  /\ q.pc = "rotate" => q.key \in DOMAIN ks

Requested ==
  /\ DOMAIN req = Requests
  /\ \A r \in Requests : Sound(req[r], invite, book, key)

AccessInv == Members /\ Invites /\ References /\ KeyBooks /\ Requested

(* No row is taken away, no reference and no key moves.                    *)
Grows ==
  /\ DOMAIN invite \subseteq DOMAIN invite'
  /\ \A b \in Books : book[b].ref # None => book'[b].ref # None
  /\ \A k \in DOMAIN key : k \in DOMAIN key' /\ key'[k].ws = key[k].ws

-----------------------------------------------------------------------------
(* Sequences of rows.                                                      *)

LEMMA Appended ==
  ASSUME NEW S, NEW s \in Seq(S), NEW x \in S
  PROVE  /\ Append(s, x) \in Seq(S)
         /\ DOMAIN Append(s, x) = (DOMAIN s) \union {Len(s) + 1}
         /\ Len(s) + 1 \notin DOMAIN s
         /\ \A i \in DOMAIN s : Append(s, x)[i] = s[i]
         /\ Append(s, x)[Len(s) + 1] = x
<1>1. Append(s, x) \in Seq(S) /\ Len(Append(s, x)) = Len(s) + 1 /\ Len(s) \in Nat
  BY AppendProperties, LenProperties
<1>2. DOMAIN Append(s, x) = 1 .. Len(s) + 1 /\ DOMAIN s = 1 .. Len(s)
  BY <1>1, LenProperties
<1> QED
  BY <1>1, <1>2, AppendProperties

LEMMA Replaced ==
  ASSUME NEW S, NEW s \in Seq(S), NEW i \in DOMAIN s, NEW x \in S
  PROVE  /\ [s EXCEPT ![i] = x] \in Seq(S)
         /\ DOMAIN [s EXCEPT ![i] = x] = DOMAIN s
         /\ \A j \in DOMAIN s : [s EXCEPT ![i] = x][j] = IF j = i THEN x ELSE s[j]
<1>1. i \in 1 .. Len(s) /\ DOMAIN s = 1 .. Len(s)
  BY LenProperties
<1> QED
  BY <1>1, ExceptSeq

LEMMA RowAt ==
  ASSUME NEW S, NEW s \in Seq(S), NEW i \in DOMAIN s
  PROVE  s[i] \in S
BY ElementOfSeq, LenProperties

-----------------------------------------------------------------------------
(* What a request relies on survives the steps of the others.              *)
LEMMA StillSound ==
  ASSUME NEW q, Sound(q, invite, book, key), Grows
  PROVE  Sound(q, invite', book', key')
BY DEF Sound, Grows

LEMMA NextRequested ==
  ASSUME Requested, Grows, NEW r \in Requests, NEW q,
         req' = [req EXCEPT ![r] = q], Sound(q, invite', book', key')
  PROVE  Requested'
<1>1. DOMAIN req' = Requests
  BY DEF Requested
<1>2. ASSUME NEW p \in Requests
      PROVE  Sound(req'[p], invite', book', key')
  <2>1. CASE p = r
    BY <2>1 DEF Requested
  <2>2. CASE p # r
    <3>1. Sound(req[p], invite, book, key) /\ req'[p] = req[p]
      BY <2>2 DEF Requested
    <3> QED
      BY <3>1, StillSound
  <2> QED
    BY <2>1, <2>2
<1> QED
  BY <1>1, <1>2 DEF Requested

LEMMA IdleIsSound ==
  ASSUME NEW is, NEW bs, NEW ks
  PROVE  Sound(Idle, is, bs, ks)
BY DEF Sound, Idle

(* A request that only reads, or gives up.                                 *)
LEMMA ReadStep ==
  ASSUME AccessInv, UNCHANGED accessVars, NEW r \in Requests, NEW q,
         req' = [req EXCEPT ![r] = q], Sound(q, invite, book, key)
  PROVE  AccessInv' /\ AccessStanding
<1> USE DEF accessVars
<1>1. Grows
  BY DEF Grows
<1>2. Requested'
  BY <1>1, NextRequested DEF AccessInv
<1>3. Members'
  BY DEF AccessInv, Members, OwnersOnly
<1>4. Invites'
  BY DEF AccessInv, Invites, OneOpenInvite
<1>5. References'
  BY DEF AccessInv, References, RefsApart
<1>6. KeyBooks'
  BY DEF AccessInv, KeyBooks
<1>7. AccessStanding
  BY DEF AccessStanding, JoinedRightly, InvitesStand, KeysStand, RefsStand
<1> QED
  BY <1>2, <1>3, <1>4, <1>5, <1>6, <1>7 DEF AccessInv

-----------------------------------------------------------------------------
LEMMA InitInv ==
  ASSUME NEW staff \in Staffs, AccessInit(staff), CallsInit
  PROVE  AccessInv
<1> USE AccessAssumption
<1>1. Members
  <2>1. ASSUME NEW role \in WorkspaceRoles
        PROVE  Row(role) \in MemberRow /\ Row(role).role = role /\ Row(role) # None
    BY <2>1 DEF Row, MemberRow
  <2>2. ASSUME NEW w \in Workspaces, NEW u \in Users
        PROVE  /\ member[w][u] = IF staff[w][u] = None THEN None ELSE Row(staff[w][u])
               /\ staff[w][u] \in WorkspaceRoles \union {None}
               /\ (staff[w][u] = "OWNER") = (Owner[w] = u)
    BY DEF AccessInit
  <2>3. "OWNER" \in WorkspaceRoles /\ None # "OWNER"
    BY DEF WorkspaceRoles
  <2>4. member \in [Workspaces -> [Users -> MemberRow \union {None}]]
    BY <2>1 DEF AccessInit
  <2> QED
    BY <2>1, <2>2, <2>3, <2>4 DEF Members, OwnersOnly
<1>2. Invites /\ KeyBooks
  BY DEF AccessInit, Invites, OneOpenInvite, KeyBooks
<1>3. References
  BY DEF AccessInit, References, RefsApart, BookRow
<1>4. Requested
  BY IdleIsSound DEF Requested, CallsInit
<1> QED
  BY <1>1, <1>2, <1>3, <1>4 DEF AccessInv

(* A step that puts a row in place of that of somebody who is not the      *)
(* owner, or takes it away.                                                *)
LEMMA MemberSet ==
  ASSUME Members, NEW w \in Workspaces, NEW u \in Users, NEW x \in MemberRow \union {None},
         Owner[w] # u, x = None \/ x.role # "OWNER",
         member' = [member EXCEPT ![w][u] = x]
  PROVE  Members' /\ \A v \in Workspaces, t \in Users :
                       member'[v][t] = IF v = w /\ t = u THEN x ELSE member[v][t]
<1>1. \A v \in Workspaces, t \in Users :
        member'[v][t] = IF v = w /\ t = u THEN x ELSE member[v][t]
  BY DEF Members
<1>2. member' \in [Workspaces -> [Users -> MemberRow \union {None}]]
  BY DEF Members
<1> QED
  BY <1>1, <1>2 DEF Members, OwnersOnly

LEMMA NewRow ==
  ASSUME NEW role \in Roles
  PROVE  Row(role) \in MemberRow /\ Row(role).role = role /\ role # "OWNER" /\ Row(role) # None
<1>1. Row(role) \in MemberRow
  BY AccessAssumption DEF Row, MemberRow
<1> QED
  BY <1>1, AccessAssumption DEF Row, MemberRow

LEMMA ChangedRow ==
  ASSUME NEW row \in MemberRow, NEW q, q.role \in Roles \union {None}, q.tag \in Tags \union {None}
  PROVE  /\ Changed(row, q) \in MemberRow /\ Changed(row, q) # None
         /\ row.role # "OWNER" => Changed(row, q).role # "OWNER"
<1>1. Changed(row, q) \in MemberRow
  BY AccessAssumption DEF Changed, MemberRow
<1>2. row.role # "OWNER" => Changed(row, q).role # "OWNER"
  BY AccessAssumption DEF Changed
<1> QED
  BY <1>1, <1>2, AccessAssumption DEF MemberRow

(* Steps that change members only, and books they belong to.               *)
LEMMA MemberFrame ==
  ASSUME AccessInv, Members', UNCHANGED <<invite, book, refs, key>>, NEW r \in Requests, NEW q,
         req' = [req EXCEPT ![r] = q], Sound(q, invite, book, key), JoinedRightly
  PROVE  AccessInv' /\ AccessStanding
<1>1. Grows
  BY DEF Grows
<1>2. Requested'
  BY <1>1, NextRequested DEF AccessInv
<1>3. Invites' /\ References' /\ KeyBooks'
  BY DEF AccessInv, Invites, OneOpenInvite, References, RefsApart, KeyBooks
<1>4. InvitesStand /\ KeysStand /\ RefsStand
  BY DEF InvitesStand, KeysStand, RefsStand
<1> QED
  BY <1>2, <1>3, <1>4 DEF AccessInv, AccessStanding

LEMMA UpdateStep ==
  ASSUME AccessInv, NEW r \in Requests, UpdateMemberWrite(r)
  PROVE  AccessInv' /\ AccessStanding
<1>1. PICK q : q = req[r]
  OBVIOUS
<1>2. /\ q.ws \in Workspaces /\ q.to \in Users /\ Owner[q.ws] # q.to
      /\ q.role \in Roles \union {None} /\ q.tag \in Tags \union {None}
  BY <1>1 DEF UpdateMemberWrite, At, AccessInv, Requested, Sound
<1>3. CASE member[q.ws][q.to] = None
  <2>1. UNCHANGED accessVars /\ req' = [req EXCEPT ![r] = Idle]
    BY <1>1, <1>3 DEF UpdateMemberWrite, Answer, GoOn, accessVars
  <2> QED
    BY <2>1, ReadStep, IdleIsSound
<1>4. CASE member[q.ws][q.to] # None
  <2>1. PICK row : row = member[q.ws][q.to]
    OBVIOUS
  <2>2. row \in MemberRow /\ row.role # "OWNER"
    BY <1>2, <1>4, <2>1 DEF AccessInv, Members, OwnersOnly
  <2>3. member' = [member EXCEPT ![q.ws][q.to] = Changed(row, q)]
    BY <1>1, <1>2, <1>4, <2>1 DEF UpdateMemberWrite, AccessInv, Members
  <2>4. /\ Members'
        /\ \A v \in Workspaces, t \in Users :
             member'[v][t] = IF v = q.ws /\ t = q.to THEN Changed(row, q) ELSE member[v][t]
    <3> HIDE DEF Changed
    <3>1. /\ Changed(row, q) \in MemberRow \union {None}
          /\ Changed(row, q).role # "OWNER"
      BY <1>2, <2>2, ChangedRow
    <3>2. Members
      BY DEF AccessInv
    <3> QED
      BY <1>2, <2>3, <3>1, <3>2, MemberSet
  <2>5. JoinedRightly
    <3> HIDE DEF Changed
    <3>1. ASSUME NEW v \in Workspaces, NEW t \in Users, member[v][t] = None
          PROVE  member'[v][t] = None
      BY <1>4, <2>4, <3>1
    <3> QED
      BY <3>1 DEF JoinedRightly
  <2>6. UNCHANGED <<invite, book, refs, key>> /\ req' = [req EXCEPT ![r] = Idle]
    BY DEF UpdateMemberWrite, Answer, GoOn
  <2> QED
    BY <2>4, <2>5, <2>6, MemberFrame, IdleIsSound
<1> QED
  BY <1>3, <1>4

LEMMA RemoveStep ==
  ASSUME AccessInv, NEW r \in Requests, RemoveMemberWrite(r)
  PROVE  AccessInv' /\ AccessStanding
<1>1. PICK q : q = req[r]
  OBVIOUS
<1>2. q.ws \in Workspaces /\ q.to \in Users /\ Owner[q.ws] # q.to
  BY <1>1 DEF RemoveMemberWrite, At, AccessInv, Requested, Sound
<1>3. UNCHANGED <<invite, book, refs, key>> /\ req' = [req EXCEPT ![r] = Idle]
  BY DEF RemoveMemberWrite, Answer, GoOn
<1>4. Members' /\ JoinedRightly
  <2>1. CASE member[q.ws][q.to] = None
    <3>1. member' = member
      BY <1>1, <2>1 DEF RemoveMemberWrite
    <3> QED
      BY <3>1 DEF AccessInv, Members, OwnersOnly, JoinedRightly
  <2>2. CASE member[q.ws][q.to] # None
    <3>1. Members
      BY DEF AccessInv
    <3>2. PICK x : x = None
      OBVIOUS
    <3>3. x \in MemberRow \union {None} /\ (x = None \/ x.role # "OWNER")
      BY <3>2
    <3>4. /\ Members'
          /\ \A v \in Workspaces, t \in Users :
               member'[v][t] = IF v = q.ws /\ t = q.to THEN x ELSE member[v][t]
      <4>1. member' = [member EXCEPT ![q.ws][q.to] = x]
        BY <1>1, <2>2, <3>2 DEF RemoveMemberWrite
      <4> QED
        BY <1>2, <3>1, <3>3, <4>1, MemberSet
    <3> QED
      BY <3>2, <3>4 DEF JoinedRightly
  <2> QED
    BY <2>1, <2>2
<1> QED
  BY <1>3, <1>4, MemberFrame, IdleIsSound

LEMMA ImportStep ==
  ASSUME AccessInv, NEW r \in Requests, ImportWrite(r)
  PROVE  AccessInv' /\ AccessStanding
<1>1. PICK q : q = req[r]
  OBVIOUS
<1>2. q.ws \in Workspaces /\ q.to \in Users /\ q.role \in Roles
  BY <1>1 DEF ImportWrite, At, AccessInv, Requested, Sound
<1>3. UNCHANGED <<invite, book, refs, key>> /\ req' = [req EXCEPT ![r] = Idle]
  BY DEF ImportWrite, Answer, GoOn
<1>4. JoinedRightly
  <2> SUFFICES ASSUME NEW w \in Workspaces, NEW u \in Users,
                      member[w][u] = None, member'[w][u] # None
               PROVE  At(r, "import") /\ q.ws = w /\ q.to = u /\ member'[w][u].role = q.role
    BY <1>1 DEF JoinedRightly
  <2>1. PICK x : x = Row(q.role)
    OBVIOUS
  <2>2. x.role = q.role
    BY <2>1 DEF Row
  <2>3. member' = [member EXCEPT ![q.ws][q.to] = x] /\ At(r, "import")
    BY <1>1, <2>1 DEF ImportWrite
  <2>4. q.ws = w /\ q.to = u
    BY <1>2, <2>3 DEF AccessInv, Members
  <2>5. member'[w][u] = x
    BY <1>2, <2>3, <2>4 DEF AccessInv, Members
  <2> QED
    BY <2>2, <2>3, <2>4, <2>5
<1>5. Members'
  <2>1. CASE member[q.ws][q.to] # None
    BY <1>1, <2>1 DEF ImportWrite, AccessInv, Members, OwnersOnly
  <2>2. CASE member[q.ws][q.to] = None
    <3>1. /\ member' = [member EXCEPT ![q.ws][q.to] = Row(q.role)] /\ Members
          /\ Owner[q.ws] # q.to
      BY <1>1, <1>2, <2>2 DEF ImportWrite, AccessInv, Members
    <3>2. PICK x : x = Row(q.role)
      OBVIOUS
    <3>3. x \in MemberRow \union {None} /\ x.role # "OWNER"
      BY <1>2, <3>2, NewRow
    <3>4. member' = [member EXCEPT ![q.ws][q.to] = x]
      BY <3>1, <3>2
    <3> QED
      BY <1>2, <3>1, <3>3, <3>4, MemberSet
  <2> QED
    BY <2>1, <2>2
<1> QED
  BY <1>3, <1>4, <1>5, MemberFrame, IdleIsSound

LEMMA JoinBookStep ==
  ASSUME AccessInv, NEW r \in Requests, JoinBookWrite(r)
  PROVE  AccessInv' /\ AccessStanding
<1>1. UNCHANGED <<member, invite, book, refs, key>> /\ req' = [req EXCEPT ![r] = Idle]
  BY DEF JoinBookWrite, Answer, GoOn
<1>2. Members' /\ JoinedRightly
  BY <1>1 DEF AccessInv, Members, OwnersOnly, JoinedRightly
<1> QED
  BY <1>1, <1>2, MemberFrame, IdleIsSound

-----------------------------------------------------------------------------
(* Invitations.                                                            *)

(* Steps that change invitations, and perhaps members.                     *)
LEMMA InviteFrame ==
  ASSUME AccessInv, Members', Invites', UNCHANGED <<book, refs, key>>, DOMAIN invite \subseteq DOMAIN invite',
         NEW r \in Requests, NEW q, req' = [req EXCEPT ![r] = q], Sound(q, invite', book, key),
         JoinedRightly, InvitesStand
  PROVE  AccessInv' /\ AccessStanding
<1>1. Grows
  BY DEF Grows
<1>2. Sound(q, invite', book', key')
  OBVIOUS
<1>3. Requested'
  BY <1>1, <1>2, NextRequested DEF AccessInv
<1>4. References' /\ KeyBooks'
  BY DEF AccessInv, References, RefsApart, KeyBooks
<1>5. KeysStand /\ RefsStand
  BY DEF KeysStand, RefsStand
<1> QED
  BY <1>3, <1>4, <1>5 DEF AccessInv, AccessStanding

LEMMA MembersAsBefore ==
  ASSUME AccessInv, UNCHANGED member
  PROVE  Members' /\ JoinedRightly
BY DEF AccessInv, Members, OwnersOnly, JoinedRightly

(* A row that was open gets another state, or is found late.               *)
LEMMA InviteSet ==
  ASSUME Invites, NEW i \in DOMAIN invite, invite[i].state = "open", NEW x \in InviteRow,
         x.ws = invite[i].ws, x.to = invite[i].to, invite' = [invite EXCEPT ![i] = x]
  PROVE  /\ Invites' /\ InvitesStand /\ DOMAIN invite' = DOMAIN invite
         /\ invite'[i] = x
<1>1. invite \in Seq(InviteRow)
  BY DEF Invites
<1>2. /\ invite' \in Seq(InviteRow) /\ DOMAIN invite' = DOMAIN invite
      /\ \A j \in DOMAIN invite : invite'[j] = IF j = i THEN x ELSE invite[j]
  BY <1>1, Replaced
<1>3. OneOpenInvite'
  BY <1>2 DEF Invites, OneOpenInvite
<1> QED
  BY <1>2, <1>3 DEF Invites, InvitesStand

WithState(row, state) == [row EXCEPT !.state = state]
FoundLate(row)        == [row EXCEPT !.late = TRUE]

LEMMA StateRow ==
  ASSUME NEW row \in InviteRow, NEW state \in {"accepted", "declined", "expired"}
  PROVE  /\ WithState(row, state) \in InviteRow
         /\ WithState(row, state).ws = row.ws /\ WithState(row, state).to = row.to
         /\ WithState(row, state).role = row.role /\ WithState(row, state).state = state
BY DEF WithState, InviteRow

LEMMA LateRow ==
  ASSUME NEW row \in InviteRow
  PROVE  FoundLate(row) \in InviteRow /\ FoundLate(row).ws = row.ws /\ FoundLate(row).to = row.to
BY DEF FoundLate, InviteRow

LEMMA InviteSettled ==
  ASSUME Invites, NEW i \in DOMAIN invite, invite[i].state = "open",
         NEW state \in {"accepted", "declined", "expired"},
         invite' = [invite EXCEPT ![i].state = state]
  PROVE  /\ Invites' /\ InvitesStand /\ DOMAIN invite' = DOMAIN invite
         /\ invite'[i].state = state /\ invite[i] \in InviteRow
<1>1. invite[i] \in InviteRow
  BY RowAt DEF Invites
<1>2. invite' = [invite EXCEPT ![i] = WithState(invite[i], state)]
  BY DEF WithState
<1>3. /\ WithState(invite[i], state) \in InviteRow
      /\ WithState(invite[i], state).ws = invite[i].ws /\ WithState(invite[i], state).to = invite[i].to
      /\ WithState(invite[i], state).state = state
  BY <1>1, StateRow
<1> HIDE DEF WithState
<1> QED
  BY <1>1, <1>2, <1>3, InviteSet

LEMMA WriteInviteStep ==
  ASSUME AccessInv, NEW r \in Requests, InviteWrite(r)
  PROVE  AccessInv' /\ AccessStanding
<1>1. PICK q : q = req[r]
  OBVIOUS
<1>2. q.ws \in Workspaces /\ q.to \in Users /\ q.role \in Roles
  BY <1>1 DEF InviteWrite, At, AccessInv, Requested, Sound
<1>3. UNCHANGED <<member, book, refs, key>> /\ req' = [req EXCEPT ![r] = Idle]
  BY DEF InviteWrite, Answer, GoOn
<1>4. CASE UNCHANGED invite
  BY <1>3, <1>4, ReadStep, IdleIsSound DEF accessVars, InviteWrite
<1>5. CASE invite' # invite
  <2> DEFINE x == [ws |-> q.ws, to |-> q.to, role |-> q.role, state |-> "open", late |-> FALSE]
  <2>1. Open(q.ws, q.to) = {} /\ invite' = Append(invite, x)
    BY <1>1, <1>5 DEF InviteWrite
  <2>2. x \in InviteRow /\ x.state = "open" /\ x.ws = q.ws /\ x.to = q.to
    BY <1>2 DEF InviteRow
  <2> HIDE DEF x
  <2>3. /\ invite' \in Seq(InviteRow) /\ DOMAIN invite' = (DOMAIN invite) \union {Len(invite) + 1}
        /\ Len(invite) + 1 \notin DOMAIN invite
        /\ \A i \in DOMAIN invite : invite'[i] = invite[i]
        /\ invite'[Len(invite) + 1] = x
    BY <2>1, <2>2, Appended DEF AccessInv, Invites
  <2>4. \A i \in DOMAIN invite : invite[i].state = "open" => <<invite[i].ws, invite[i].to>> # <<q.ws, q.to>>
    BY <2>1 DEF Open
  <2>5. OneOpenInvite'
    <3> SUFFICES ASSUME NEW i \in DOMAIN invite', NEW j \in DOMAIN invite',
                        invite'[i].state = "open", invite'[j].state = "open", i # j
                 PROVE  <<invite'[i].ws, invite'[i].to>> # <<invite'[j].ws, invite'[j].to>>
      BY DEF OneOpenInvite
    <3>1. CASE i \in DOMAIN invite /\ j \in DOMAIN invite
      BY <2>3, <3>1 DEF AccessInv, Invites, OneOpenInvite
    <3>2. CASE i \notin DOMAIN invite
      <4>1. invite'[i] = x /\ j \in DOMAIN invite /\ invite'[j] = invite[j]
        BY <2>3, <3>2
      <4> QED
        BY <2>2, <2>4, <4>1
    <3>3. CASE j \notin DOMAIN invite
      <4>1. invite'[j] = x /\ i \in DOMAIN invite /\ invite'[i] = invite[i]
        BY <2>3, <3>3
      <4> QED
        BY <2>2, <2>4, <4>1
    <3> QED
      BY <3>1, <3>2, <3>3
  <2>6. Invites' /\ InvitesStand /\ DOMAIN invite \subseteq DOMAIN invite'
    BY <2>3, <2>5 DEF Invites, InvitesStand
  <2>7. Members' /\ JoinedRightly
    BY <1>3, MembersAsBefore
  <2> QED
    BY <1>3, <2>6, <2>7, InviteFrame, IdleIsSound
<1> QED
  BY <1>4, <1>5

LEMMA LapseStep ==
  ASSUME AccessInv, NEW i \in DOMAIN invite, InviteLapses(i)
  PROVE  AccessInv' /\ AccessStanding
<1>1. /\ UNCHANGED <<member, book, refs, key>> /\ req' = req /\ invite[i].state = "open"
      /\ invite' = [invite EXCEPT ![i] = FoundLate(invite[i])]
  BY DEF InviteLapses, FoundLate, callVars
<1>2. invite[i] \in InviteRow
  BY RowAt DEF AccessInv, Invites
<1>3. /\ FoundLate(invite[i]) \in InviteRow
      /\ FoundLate(invite[i]).ws = invite[i].ws /\ FoundLate(invite[i]).to = invite[i].to
  BY <1>2, LateRow
<1> HIDE DEF FoundLate
<1>4. Invites' /\ InvitesStand /\ DOMAIN invite' = DOMAIN invite
  BY <1>1, <1>3, InviteSet DEF AccessInv
<1>5. Members' /\ JoinedRightly
  BY <1>1, MembersAsBefore
<1>6. References' /\ KeyBooks' /\ KeysStand /\ RefsStand
  BY <1>1 DEF AccessInv, References, RefsApart, KeyBooks, KeysStand, RefsStand
<1>7. Requested'
  <2>1. Grows
    BY <1>1, <1>4 DEF Grows
  <2>2. ASSUME NEW p \in Requests
        PROVE  Sound(req'[p], invite', book', key')
    <3>1. Sound(req[p], invite, book, key)
      BY DEF AccessInv, Requested
    <3>2. req'[p] = req[p]
      BY <1>1
    <3> QED
      BY <2>1, <3>1, <3>2, StillSound
  <2> QED
    BY <1>1, <2>2 DEF AccessInv, Requested
<1> QED
  BY <1>4, <1>5, <1>6, <1>7 DEF AccessInv, AccessStanding

LEMMA ReadAcceptStep ==
  ASSUME AccessInv, NEW r \in Requests, NEW u \in Users, NEW i \in DOMAIN invite, AcceptRead(r, u, i)
  PROVE  AccessInv' /\ AccessStanding
<1>1. UNCHANGED <<member, book, refs, key>> /\ invite[i].state = "open"
  BY DEF AcceptRead
<1>2. CASE invite[i].late
  <2>1. req' = [req EXCEPT ![r] = Idle] /\ invite' = [invite EXCEPT ![i].state = "expired"]
    BY <1>2 DEF AcceptRead, AskOnce, Ask
  <2>2. Invites' /\ InvitesStand /\ DOMAIN invite' = DOMAIN invite
    BY <1>1, <2>1, InviteSettled DEF AccessInv
  <2>3. Members' /\ JoinedRightly
    BY <1>1, MembersAsBefore
  <2> QED
    BY <1>1, <2>1, <2>2, <2>3, InviteFrame, IdleIsSound
<1>3. CASE ~invite[i].late
  <2>1. UNCHANGED accessVars /\ req' = [req EXCEPT ![r] = [pc |-> "accept", invite |-> i]]
    BY <1>1, <1>3 DEF AcceptRead, Ask, accessVars
  <2>2. Sound([pc |-> "accept", invite |-> i], invite, book, key)
    BY DEF Sound
  <2> QED
    BY <2>1, <2>2, ReadStep
<1> QED
  BY <1>2, <1>3

LEMMA AcceptStep ==
  ASSUME AccessInv, NEW r \in Requests, AcceptWrite(r)
  PROVE  AccessInv' /\ AccessStanding
<1>1. PICK i : i = req[r].invite
  OBVIOUS
<1>2. i \in DOMAIN invite
  BY <1>1 DEF AcceptWrite, At, AccessInv, Requested, Sound
<1>3. UNCHANGED <<book, refs, key>> /\ req' = [req EXCEPT ![r] = Idle]
  BY DEF AcceptWrite, Answer, GoOn
<1>4. CASE invite[i].state # "open"
  <2>1. UNCHANGED accessVars
    BY <1>1, <1>4 DEF AcceptWrite, InviteStands, accessVars
  <2> QED
    BY <1>3, <2>1, ReadStep, IdleIsSound
<1>5. CASE invite[i].state = "open"
  <2>1. PICK w, u : w = invite[i].ws /\ u = invite[i].to
    OBVIOUS
  <2>2. /\ member' = IF member[w][u] = None THEN [member EXCEPT ![w][u] = Row(invite[i].role)] ELSE member
        /\ invite' = [invite EXCEPT ![i].state = "accepted"]
    BY <1>1, <1>5, <2>1 DEF AcceptWrite, InviteStands
  <2>3. /\ Invites' /\ InvitesStand /\ DOMAIN invite' = DOMAIN invite
        /\ invite'[i].state = "accepted" /\ invite[i] \in InviteRow
    BY <1>2, <1>5, <2>2, InviteSettled DEF AccessInv
  <2>4. w \in Workspaces /\ u \in Users /\ invite[i].role \in Roles
    BY <2>1, <2>3 DEF InviteRow
  <2>5. CASE member[w][u] # None
    <3>1. Members' /\ JoinedRightly
      BY <2>2, <2>5, MembersAsBefore
    <3> QED
      BY <1>3, <2>3, <3>1, InviteFrame, IdleIsSound
  <2>6. CASE member[w][u] = None
    <3>1. Members /\ Owner[w] # u
      BY <2>4, <2>6 DEF AccessInv, Members
    <3>2. PICK x : x = Row(invite[i].role)
      OBVIOUS
    <3>3. x \in MemberRow \union {None} /\ x.role = invite[i].role /\ x.role # "OWNER"
      BY <2>4, <3>2, NewRow
    <3>4. /\ Members'
          /\ \A v \in Workspaces, t \in Users :
               member'[v][t] = IF v = w /\ t = u THEN x ELSE member[v][t]
      <4>1. member' = [member EXCEPT ![w][u] = x]
        BY <2>2, <2>6, <3>2
      <4> QED
        BY <2>4, <3>1, <3>3, <4>1, MemberSet
    <3>5. JoinedRightly
      <4> SUFFICES ASSUME NEW v \in Workspaces, NEW t \in Users, member[v][t] = None, member'[v][t] # None
                   PROVE  /\ invite[i].state = "open" /\ invite'[i].state = "accepted"
                          /\ invite[i].ws = v /\ invite[i].to = t
                          /\ member'[v][t].role = invite[i].role
        BY <1>2 DEF JoinedRightly
      <4>1. v = w /\ t = u
        BY <3>4
      <4>2. member'[v][t] = x
        BY <3>4, <4>1
      <4> QED
        BY <1>5, <2>1, <2>3, <3>3, <4>1, <4>2
    <3> QED
      BY <1>3, <2>3, <3>4, <3>5, InviteFrame, IdleIsSound
  <2> QED
    BY <2>5, <2>6
<1> QED
  BY <1>4, <1>5

LEMMA DeclineStep ==
  ASSUME AccessInv, NEW r \in Requests, NEW u \in Users, NEW i \in DOMAIN invite, DeclineInvite(r, u, i)
  PROVE  AccessInv' /\ AccessStanding
<1>1. /\ UNCHANGED <<member, book, refs, key>> /\ req' = [req EXCEPT ![r] = Idle]
      /\ invite[i].state = "open" /\ invite' = [invite EXCEPT ![i].state = "declined"]
  BY DEF DeclineInvite, AskOnce, Ask
<1>2. Invites' /\ InvitesStand /\ DOMAIN invite' = DOMAIN invite
  BY <1>1, InviteSettled DEF AccessInv
<1>3. Members' /\ JoinedRightly
  BY <1>1, MembersAsBefore
<1> QED
  BY <1>1, <1>2, <1>3, InviteFrame, IdleIsSound

-----------------------------------------------------------------------------
(* Keys and the books they reach.                                          *)

(* Steps that change books and keys only.                                  *)
LEMMA KeyFrame ==
  ASSUME AccessInv, References', KeyBooks', UNCHANGED <<member, invite>>, RefsStand, KeysStand, Grows,
         NEW r \in Requests, NEW q, req' = [req EXCEPT ![r] = q], Sound(q, invite, book', key')
  PROVE  AccessInv' /\ AccessStanding
<1>1. Sound(q, invite', book', key')
  OBVIOUS
<1>2. Requested'
  BY <1>1, NextRequested DEF AccessInv
<1>3. Members' /\ JoinedRightly
  BY MembersAsBefore
<1>4. Invites' /\ InvitesStand
  BY DEF AccessInv, Invites, OneOpenInvite, InvitesStand
<1> QED
  BY <1>2, <1>3, <1>4 DEF AccessInv, AccessStanding

(* Where the books stay as they are.                                       *)
LEMMA OnlyKeys ==
  ASSUME AccessInv, UNCHANGED <<member, invite, book, refs>>, KeyBooks', KeysStand,
         \A k \in DOMAIN key : k \in DOMAIN key' /\ key'[k].ws = key[k].ws,
         NEW r \in Requests, req' = [req EXCEPT ![r] = Idle]
  PROVE  AccessInv' /\ AccessStanding
<1>1. References' /\ RefsStand /\ Grows
  BY DEF AccessInv, References, RefsApart, RefsStand, Grows
<1>2. Sound(Idle, invite, book', key')
  BY IdleIsSound
<1> QED
  BY <1>1, <1>2, KeyFrame

(* Where the keys stay as they are, and books keep what they have.         *)
LEMMA OnlyBooks ==
  ASSUME AccessInv, UNCHANGED <<member, invite, key>>, References', RefsStand,
         \A b \in Books : book[b].ref # None => book'[b].ref # None,
         NEW r \in Requests, NEW q, req' = [req EXCEPT ![r] = q], Sound(q, invite, book', key)
  PROVE  AccessInv' /\ AccessStanding
<1>1. Grows /\ KeysStand
  BY DEF Grows, KeysStand
<1>2. KeyBooks'
  <2>1. ASSUME NEW k \in DOMAIN key
        PROVE  key[k].books \subseteq Books
    <3>1. key[k] \in KeyRow
      BY RowAt, <2>1 DEF AccessInv, KeyBooks
    <3> QED
      BY <3>1 DEF KeyRow
  <2> QED
    BY <2>1 DEF AccessInv, KeyBooks
<1>3. Sound(q, invite, book', key')
  OBVIOUS
<1> QED
  BY <1>1, <1>2, <1>3, KeyFrame

(* What a request that waits for references carries.                       *)
LEMMA ActivatingFacts ==
  ASSUME AccessInv, NEW r \in Requests, req[r].pc \in {"activate", "allocate"}
  PROVE  /\ req[r].todo \subseteq Books /\ req[r].books \subseteq Books /\ req[r].ws \in Workspaces
         /\ \A b \in req[r].books : HomeOf[b] = req[r].ws /\ (b \in req[r].todo \/ book[b].ref # None)
         /\ req[r].key # 0 => req[r].key \in DOMAIN key /\ key[req[r].key].ws = req[r].ws
         /\ req[r].pc = "allocate" => req[r].book \in Books
BY DEF AccessInv, Requested, Sound

LEMMA ReadActivateStep ==
  ASSUME AccessInv, NEW r \in Requests, NEW b \in Books, ActivateRead(r, b)
  PROVE  AccessInv' /\ AccessStanding
<1>1. UNCHANGED accessVars /\ req[r].pc = "activate"
  BY DEF ActivateRead, At
<1>2. CASE ~book[b].active
  BY <1>1, <1>2, ReadStep, IdleIsSound DEF ActivateRead, Answer, GoOn
<1>3. CASE book[b].active /\ book[b].ref # None
  <2> DEFINE q == Activating(req[r], req[r].todo \ {b})
  <2>1. req' = [req EXCEPT ![r] = q]
    BY <1>3 DEF ActivateRead, GoOn
  <2>2. Sound(q, invite, book, key)
    <3>1. Sound(req[r], invite, book, key)
      BY DEF AccessInv, Requested
    <3> QED
      BY <1>1, <1>3, <3>1 DEF Sound, Activating
  <2> HIDE DEF q
  <2> QED
    BY <1>1, <2>1, <2>2, ReadStep
<1>4. CASE book[b].active /\ book[b].ref = None
  <2> DEFINE q == [pc |-> "allocate", book |-> b, todo |-> req[r].todo, books |-> req[r].books,
                   ws |-> req[r].ws, key |-> req[r].key]
  <2>1. req' = [req EXCEPT ![r] = q]
    BY <1>4 DEF ActivateRead, GoOn
  <2>2. Sound(q, invite, book, key)
    BY <1>1, ActivatingFacts DEF Sound
  <2> HIDE DEF q
  <2> QED
    BY <1>1, <2>1, <2>2, ReadStep
<1> QED
  BY <1>2, <1>3, <1>4

WithRef(row, n) == [row EXCEPT !.ref = n]

LEMMA RefRow ==
  ASSUME NEW row \in BookRow, NEW n \in Nat
  PROVE  WithRef(row, n) \in BookRow /\ WithRef(row, n).ref = n
BY DEF WithRef, BookRow

(* A book without a reference gets the next one.                           *)
LEMMA ReferenceDrawn ==
  ASSUME References, NEW b \in Books, book[b].ref = None, refs' = refs + 1,
         book' = [book EXCEPT ![b].ref = refs']
  PROVE  References' /\ RefsStand
<1>1. /\ book \in [Books -> BookRow] /\ refs \in Nat /\ refs' \in Nat
      /\ book' = [book EXCEPT ![b] = WithRef(book[b], refs')]
  BY DEF References, WithRef
<1>2. WithRef(book[b], refs') \in BookRow /\ WithRef(book[b], refs').ref = refs'
  BY <1>1, RefRow
<1> HIDE DEF WithRef
<1>3. book' \in [Books -> BookRow]
  BY <1>1, <1>2
<1>4. book'[b].ref = refs' /\ \A c \in Books : c # b => book'[c] = book[c]
  BY <1>1, <1>2
<1>5. \A c \in Books : book[c].ref = None \/ (book[c].ref \in Nat /\ book[c].ref <= refs)
  BY <1>1 DEF References, BookRow
<1>6. \A c \in Books : c # b => book'[c].ref = None \/ (book'[c].ref # refs' /\ book'[c].ref <= refs')
  BY <1>1, <1>4, <1>5
<1>7. RefsApart'
  BY <1>4, <1>6 DEF RefsApart, References
<1>8. \A c \in Books : book'[c].ref = None \/ book'[c].ref <= refs'
  BY <1>1, <1>4, <1>6
<1>9. RefsStand
  BY <1>4 DEF RefsStand
<1> QED
  BY <1>1, <1>3, <1>7, <1>8, <1>9 DEF References

LEMMA AllocateStep ==
  ASSUME AccessInv, NEW r \in Requests, ActivateWrite(r)
  PROVE  AccessInv' /\ AccessStanding
<1>1. PICK b : b = req[r].book
  OBVIOUS
<1>2. b \in Books /\ req[r].pc = "allocate" /\ UNCHANGED <<member, invite, key>>
  BY <1>1, ActivatingFacts DEF ActivateWrite, At
<1>3. References' /\ RefsStand
  <2>1. CASE Unreferenced(b)
    <3>1. refs' = refs + 1 /\ book' = [book EXCEPT ![b].ref = refs'] /\ book[b].ref = None
      BY <1>1, <2>1 DEF ActivateWrite, Unreferenced
    <3> QED
      BY <1>2, <3>1, ReferenceDrawn DEF AccessInv
  <2>2. CASE ~Unreferenced(b)
    <3>1. UNCHANGED <<refs, book>>
      BY <1>1, <2>2 DEF ActivateWrite
    <3> QED
      BY <3>1 DEF AccessInv, References, RefsApart, RefsStand
  <2> QED
    BY <2>1, <2>2
<1>4. \A c \in Books : book[c].ref # None => book'[c].ref # None
  BY <1>3 DEF RefsStand
<1>5. CASE book'[b].ref = None
  <2>1. req' = [req EXCEPT ![r] = Idle]
    BY <1>1, <1>5 DEF ActivateWrite, Answer, GoOn
  <2> QED
    BY <1>2, <1>3, <1>4, <2>1, OnlyBooks, IdleIsSound
<1>6. CASE book'[b].ref # None
  <2> DEFINE q == Activating(req[r], req[r].todo \ {b})
  <2>1. req' = [req EXCEPT ![r] = q]
    BY <1>1, <1>6 DEF ActivateWrite, GoOn
  <2>2. Sound(q, invite, book', key)
    BY <1>2, <1>4, <1>6, ActivatingFacts DEF Sound, Activating
  <2> HIDE DEF q
  <2> QED
    BY <1>2, <1>3, <1>4, <2>1, <2>2, OnlyBooks
<1> QED
  BY <1>5, <1>6

WithBooks(row, bs) == [row EXCEPT !.books = bs]
Revoked(row)       == [row EXCEPT !.status = "REVOKED"]

LEMMA KeyRows ==
  ASSUME NEW row \in KeyRow, NEW bs \in SUBSET Books, NEW read
  PROVE  /\ /\ WithBooks(row, bs) \in KeyRow /\ WithBooks(row, bs).books = bs
            /\ WithBooks(row, bs).ws = row.ws /\ WithBooks(row, bs).status = row.status
         /\ /\ Revoked(row) \in KeyRow /\ Revoked(row).books = row.books
            /\ Revoked(row).ws = row.ws /\ Revoked(row).status = "REVOKED"
         /\ /\ Rotated(row, read) \in KeyRow /\ Rotated(row, read).books = row.books
            /\ Rotated(row, read).ws = row.ws /\ Rotated(row, read).status = row.status
BY DEF WithBooks, Revoked, Rotated, KeyRow

(* A key that is rotated, revoked or given other books.                    *)
LEMMA KeySet ==
  ASSUME AccessInv, UNCHANGED <<member, invite, book, refs>>, NEW k \in DOMAIN key, NEW x \in KeyRow,
         x.ws = key[k].ws, key[k].status = "REVOKED" => x.status = "REVOKED",
         \A b \in x.books : HomeOf[b] = x.ws /\ book[b].ref # None,
         key' = [key EXCEPT ![k] = x],
         NEW r \in Requests, req' = [req EXCEPT ![r] = Idle]
  PROVE  AccessInv' /\ AccessStanding
<1>1. /\ key' \in Seq(KeyRow) /\ DOMAIN key' = DOMAIN key
      /\ \A j \in DOMAIN key : key'[j] = IF j = k THEN x ELSE key[j]
  BY Replaced DEF AccessInv, KeyBooks
<1>2. KeyBooks'
  BY <1>1 DEF AccessInv, KeyBooks
<1>3. KeysStand /\ \A j \in DOMAIN key : j \in DOMAIN key' /\ key'[j].ws = key[j].ws
  BY <1>1 DEF KeysStand
<1> QED
  BY <1>2, <1>3, OnlyKeys

LEMMA KeyFacts ==
  ASSUME AccessInv, NEW k \in DOMAIN key
  PROVE  /\ key[k] \in KeyRow
         /\ \A b \in key[k].books : HomeOf[b] = key[k].ws /\ book[b].ref # None
BY RowAt DEF AccessInv, KeyBooks

LEMMA WriteKeyStep ==
  ASSUME AccessInv, NEW r \in Requests, KeyWrite(r)
  PROVE  AccessInv' /\ AccessStanding
<1>1. PICK q : q = req[r]
  OBVIOUS
<1>2. /\ q.books \in SUBSET Books /\ q.ws \in Workspaces
      /\ \A b \in q.books : HomeOf[b] = q.ws /\ book[b].ref # None
      /\ q.key # 0 => q.key \in DOMAIN key /\ key[q.key].ws = q.ws
  BY <1>1, ActivatingFacts DEF KeyWrite, At
<1>3. UNCHANGED <<member, invite, book, refs>> /\ req' = [req EXCEPT ![r] = Idle]
  BY DEF KeyWrite, Answer, GoOn
<1>4. CASE UNCHANGED key
  BY <1>3, <1>4, ReadStep, IdleIsSound DEF accessVars, KeyWrite
<1>5. CASE q.key # 0 /\ key' = [key EXCEPT ![q.key].books = q.books]
  <2>1. PICK k : k = q.key
    OBVIOUS
  <2>2. k \in DOMAIN key /\ key[k].ws = q.ws /\ key[k] \in KeyRow
    BY <1>2, <1>5, <2>1, KeyFacts
  <2>3. PICK x : x = WithBooks(key[k], q.books)
    OBVIOUS
  <2>4. x \in KeyRow /\ x.books = q.books /\ x.ws = key[k].ws /\ x.status = key[k].status
    BY <1>2, <2>2, <2>3, KeyRows
  <2>5. key' = [key EXCEPT ![k] = x]
    BY <1>5, <2>1, <2>3 DEF WithBooks
  <2>6. \A b \in x.books : HomeOf[b] = x.ws /\ book[b].ref # None
    BY <1>2, <2>2, <2>4
  <2> QED
    BY <1>3, <2>2, <2>4, <2>5, <2>6, KeySet
<1>6. CASE key' = Append(key, [ws |-> q.ws, books |-> q.books, status |-> "ACTIVE", secret |-> 1])
  <2>1. PICK x : x = [ws |-> q.ws, books |-> q.books, status |-> "ACTIVE", secret |-> 1]
    OBVIOUS
  <2>2. x \in KeyRow /\ x.ws = q.ws /\ x.books = q.books
    BY <1>2, <2>1 DEF KeyRow
  <2>3. key' = Append(key, x)
    BY <1>6, <2>1
  <2>4. /\ key' \in Seq(KeyRow) /\ DOMAIN key' = (DOMAIN key) \union {Len(key) + 1}
        /\ \A k \in DOMAIN key : key'[k] = key[k]
        /\ key'[Len(key) + 1] = x
    BY <2>2, <2>3, Appended DEF AccessInv, KeyBooks
  <2>5. KeyBooks'
    BY <1>2, <1>3, <2>2, <2>4 DEF AccessInv, KeyBooks
  <2>6. KeysStand /\ \A k \in DOMAIN key : k \in DOMAIN key' /\ key'[k].ws = key[k].ws
    BY <2>4 DEF KeysStand
  <2> QED
    BY <1>3, <2>5, <2>6, OnlyKeys
<1> QED
  BY <1>1, <1>4, <1>5, <1>6 DEF KeyWrite

LEMMA RotateStep ==
  ASSUME AccessInv, NEW r \in Requests, RotateWrite(r)
  PROVE  AccessInv' /\ AccessStanding
<1>1. PICK k : k = req[r].key
  OBVIOUS
<1>2. k \in DOMAIN key
  BY <1>1 DEF RotateWrite, At, AccessInv, Requested, Sound
<1>3. PICK x : x = Rotated(key[k], req[r].row)
  OBVIOUS
<1>4. /\ x \in KeyRow /\ x.books = key[k].books /\ x.ws = key[k].ws /\ x.status = key[k].status
      /\ \A b \in key[k].books : HomeOf[b] = key[k].ws /\ book[b].ref # None
  <2>1. {} \in SUBSET Books
    OBVIOUS
  <2> QED
    BY <1>2, <1>3, <2>1, KeyRows, KeyFacts
<1>5. /\ UNCHANGED <<member, invite, book, refs>> /\ req' = [req EXCEPT ![r] = Idle]
      /\ key' = [key EXCEPT ![k] = x]
  BY <1>1, <1>2, <1>3 DEF RotateWrite, Answer, GoOn
<1> QED
  BY <1>2, <1>4, <1>5, KeySet

LEMMA RevokeStep ==
  ASSUME AccessInv, NEW r \in Requests, NEW u \in Users, NEW k \in DOMAIN key, RevokeKey(r, u, k)
  PROVE  AccessInv' /\ AccessStanding
<1>1. PICK x : x = Revoked(key[k])
  OBVIOUS
<1>2. /\ x \in KeyRow /\ x.books = key[k].books /\ x.ws = key[k].ws /\ x.status = "REVOKED"
      /\ \A b \in key[k].books : HomeOf[b] = key[k].ws /\ book[b].ref # None
  <2>1. {} \in SUBSET Books
    OBVIOUS
  <2> QED
    BY <1>1, <2>1, KeyRows, KeyFacts
<1>3. /\ UNCHANGED <<member, invite, book, refs>> /\ req' = [req EXCEPT ![r] = Idle]
      /\ key' = [key EXCEPT ![k] = x]
  BY <1>1 DEF RevokeKey, AskOnce, Ask, Revoked
<1> QED
  BY <1>2, <1>3, KeySet

LEMMA DropStep ==
  ASSUME AccessInv, NEW r \in Requests, NEW u \in Users, NEW b \in Books, DropBook(r, u, b)
  PROVE  AccessInv' /\ AccessStanding
<1>1. /\ UNCHANGED <<member, invite, refs, key>> /\ req' = [req EXCEPT ![r] = Idle]
      /\ book' = [book EXCEPT ![b].active = FALSE]
  BY DEF DropBook, AskOnce, Ask
<1>2. book' \in [Books -> BookRow] /\ \A c \in Books : book'[c].ref = book[c].ref
  BY <1>1 DEF AccessInv, References, BookRow
<1>3. References' /\ RefsStand
  BY <1>1, <1>2 DEF AccessInv, References, RefsApart, RefsStand
<1> QED
  BY <1>1, <1>2, <1>3, OnlyBooks, IdleIsSound

-----------------------------------------------------------------------------
(* Requests that arrive.                                                   *)

LEMMA ReadInviteStep ==
  ASSUME AccessInv, NEW r \in Requests, NEW a \in Users, NEW w \in Workspaces, NEW u \in Users,
         NEW role \in Roles, InviteRead(r, a, w, u, role)
  PROVE  AccessInv' /\ AccessStanding
<1> DEFINE q == [pc |-> "invite", ws |-> w, to |-> u, role |-> role]
<1>1. UNCHANGED accessVars /\ req' = [req EXCEPT ![r] = q]
  BY DEF InviteRead, Ask
<1>2. Sound(q, invite, book, key)
  BY DEF Sound
<1> HIDE DEF q
<1> QED
  BY <1>1, <1>2, ReadStep

LEMMA ReadImportStep ==
  ASSUME AccessInv, NEW r \in Requests, NEW a \in Users, NEW from \in Workspaces, NEW w \in Workspaces,
         NEW u \in Users, NEW role \in Roles, ImportRead(r, a, from, w, u, role)
  PROVE  AccessInv' /\ AccessStanding
<1> DEFINE q == [pc |-> "import", ws |-> w, to |-> u, role |-> role]
<1>1. UNCHANGED accessVars /\ req' = [req EXCEPT ![r] = q]
  BY DEF ImportRead, Ask
<1>2. Sound(q, invite, book, key)
  BY DEF Sound
<1> HIDE DEF q
<1> QED
  BY <1>1, <1>2, ReadStep

(* That a row does not say OWNER shows that it is not the owner's.         *)
LEMMA NotTheOwner ==
  ASSUME AccessInv, NEW w \in Workspaces, NEW u \in Users, member[w][u] # None, member[w][u].role # "OWNER"
  PROVE  Owner[w] # u
BY DEF AccessInv, Members, OwnersOnly

LEMMA ReadUpdateStep ==
  ASSUME AccessInv, NEW r \in Requests, NEW a \in Users, NEW w \in Workspaces, NEW u \in Users,
         NEW role \in Roles \union {None}, NEW tag \in Tags \union {None},
         UpdateMemberRead(r, a, w, u, role, tag)
  PROVE  AccessInv' /\ AccessStanding
<1> DEFINE q == [pc |-> "role", ws |-> w, to |-> u, role |-> role, tag |-> tag]
<1>1. UNCHANGED accessVars /\ req' = [req EXCEPT ![r] = q]
  BY DEF UpdateMemberRead, Ask
<1>2. Owner[w] # u
  BY NotTheOwner DEF UpdateMemberRead
<1>3. Sound(q, invite, book, key)
  BY <1>2 DEF Sound
<1> HIDE DEF q
<1> QED
  BY <1>1, <1>3, ReadStep

LEMMA ReadRemoveStep ==
  ASSUME AccessInv, NEW r \in Requests, NEW a \in Users, NEW w \in Workspaces, NEW u \in Users,
         RemoveMemberRead(r, a, w, u)
  PROVE  AccessInv' /\ AccessStanding
<1> DEFINE q == [pc |-> "remove", ws |-> w, to |-> u]
<1>1. UNCHANGED accessVars /\ req' = [req EXCEPT ![r] = q]
  BY DEF RemoveMemberRead, Ask
<1>2. Owner[w] # u
  BY NotTheOwner DEF RemoveMemberRead
<1>3. Sound(q, invite, book, key)
  BY <1>2 DEF Sound
<1> HIDE DEF q
<1> QED
  BY <1>1, <1>3, ReadStep

LEMMA ReadBookStep ==
  ASSUME AccessInv, NEW r \in Requests, NEW a \in Users, NEW b \in Books, NEW u \in Users,
         JoinBookRead(r, a, b, u)
  PROVE  AccessInv' /\ AccessStanding
<1> DEFINE q == [pc |-> "book", book |-> b, to |-> u]
<1>1. UNCHANGED accessVars /\ req' = [req EXCEPT ![r] = q]
  BY DEF JoinBookRead, Ask
<1>2. Sound(q, invite, book, key)
  BY DEF Sound
<1> HIDE DEF q
<1> QED
  BY <1>1, <1>2, ReadStep

(* The three ways to ask for the activation of books.                      *)
LEMMA ReadKeyStep ==
  ASSUME AccessInv, NEW r \in Requests, UNCHANGED accessVars,
         NEW todo \in SUBSET Books, NEW bs \in SUBSET Books, NEW w \in Workspaces, NEW k,
         \A b \in bs : HomeOf[b] = w /\ b \in todo, k # 0 => k \in DOMAIN key /\ key[k].ws = w,
         req' = [req EXCEPT ![r] = [pc |-> "activate", todo |-> todo, books |-> bs, ws |-> w, key |-> k]]
  PROVE  AccessInv' /\ AccessStanding
<1> DEFINE q == [pc |-> "activate", todo |-> todo, books |-> bs, ws |-> w, key |-> k]
<1>1. Sound(q, invite, book, key)
  BY DEF Sound
<1>2. req' = [req EXCEPT ![r] = q]
  OBVIOUS
<1> HIDE DEF q
<1> QED
  BY <1>1, <1>2, ReadStep

LEMMA ReadRotateStep ==
  ASSUME AccessInv, NEW r \in Requests, NEW a \in Users, NEW k \in DOMAIN key, RotateRead(r, a, k)
  PROVE  AccessInv' /\ AccessStanding
<1> DEFINE q == [pc |-> "rotate", key |-> k, row |-> key[k]]
<1>1. UNCHANGED accessVars /\ req' = [req EXCEPT ![r] = q]
  BY DEF RotateRead, Ask
<1>2. Sound(q, invite, book, key)
  BY DEF Sound
<1> HIDE DEF q
<1> QED
  BY <1>1, <1>2, ReadStep

LEMMA AskStep ==
  ASSUME AccessInv, NEW r \in Requests, NEW a \in Users, AccessAsk(r, a)
  PROVE  AccessInv' /\ AccessStanding
<1>1. ASSUME NEW w \in Workspaces, NEW u \in Users, NEW role \in Roles, InviteRead(r, a, w, u, role)
      PROVE  AccessInv' /\ AccessStanding
  BY <1>1, ReadInviteStep
<1>2. ASSUME NEW w \in Workspaces, NEW u \in Users, NEW role \in Roles, NEW from \in Workspaces,
             ImportRead(r, a, from, w, u, role)
      PROVE  AccessInv' /\ AccessStanding
  BY <1>2, ReadImportStep
<1>3. ASSUME NEW w \in Workspaces, NEW u \in Users, NEW role \in Roles \union {None},
             NEW tag \in Tags \union {None}, UpdateMemberRead(r, a, w, u, role, tag)
      PROVE  AccessInv' /\ AccessStanding
  BY <1>3, ReadUpdateStep
<1>4. ASSUME NEW w \in Workspaces, NEW u \in Users, RemoveMemberRead(r, a, w, u)
      PROVE  AccessInv' /\ AccessStanding
  BY <1>4, ReadRemoveStep
<1>5. ASSUME NEW i \in DOMAIN invite, AcceptRead(r, a, i) \/ DeclineInvite(r, a, i)
      PROVE  AccessInv' /\ AccessStanding
  BY <1>5, ReadAcceptStep, DeclineStep
<1>6. ASSUME NEW b \in Books, NEW u \in Users, JoinBookRead(r, a, b, u)
      PROVE  AccessInv' /\ AccessStanding
  BY <1>6, ReadBookStep
<1>7. ASSUME NEW b \in Books, ActivateIntegration(r, a, b)
      PROVE  AccessInv' /\ AccessStanding
  <2> DEFINE q == [pc |-> "activate", todo |-> {b}, books |-> {}, ws |-> HomeOf[b], key |-> 0]
  <2>1. UNCHANGED accessVars /\ req' = [req EXCEPT ![r] = q]
    BY <1>7 DEF ActivateIntegration, Ask
  <2>2. Sound(q, invite, book, key)
    BY AccessAssumption DEF Sound
  <2> HIDE DEF q, AccessInv, AccessStanding
  <2> QED
    BY <2>1, <2>2, ReadStep
<1>8. ASSUME NEW b \in Books, DropBook(r, a, b)
      PROVE  AccessInv' /\ AccessStanding
  BY <1>8, DropStep
<1>9. ASSUME NEW bs \in SUBSET Books, NEW w \in Workspaces, CreateKeyRead(r, a, w, bs)
      PROVE  AccessInv' /\ AccessStanding
  <2>1. /\ UNCHANGED accessVars /\ \A b \in bs : HomeOf[b] = w
        /\ req' = [req EXCEPT ![r] = [pc |-> "activate", todo |-> bs, books |-> bs, ws |-> w, key |-> 0]]
    BY <1>9 DEF CreateKeyRead, Ask, Selectable
  <2>2. \A x \in bs : HomeOf[x] = w /\ x \in bs
    BY <2>1
  <2> HIDE DEF AccessInv, AccessStanding
  <2> QED
    BY <2>1, <2>2, ReadKeyStep
<1>10. ASSUME NEW bs \in SUBSET Books, NEW k \in DOMAIN key, UpdateKeyRead(r, a, k, bs)
       PROVE  AccessInv' /\ AccessStanding
  <2>1. /\ UNCHANGED accessVars /\ \A b \in bs : HomeOf[b] = key[k].ws
        /\ req' = [req EXCEPT ![r] = [pc |-> "activate", todo |-> bs, books |-> bs, ws |-> key[k].ws, key |-> k]]
    BY <1>10 DEF UpdateKeyRead, Ask, Selectable
  <2>2. key[k].ws \in Workspaces
    BY KeyFacts DEF KeyRow
  <2>3. PICK w \in Workspaces : w = key[k].ws
    BY <2>2
  <2>4. req' = [req EXCEPT ![r] = [pc |-> "activate", todo |-> bs, books |-> bs, ws |-> w, key |-> k]]
    BY <2>1, <2>3
  <2>5. \A x \in bs : HomeOf[x] = w /\ x \in bs
    BY <2>1, <2>3
  <2>6. UNCHANGED accessVars /\ k \in DOMAIN key /\ key[k].ws = w
    BY <2>1, <2>3
  <2> HIDE DEF AccessInv, AccessStanding
  <2> QED
    BY <2>4, <2>5, <2>6, ReadKeyStep
<1>11. ASSUME NEW k \in DOMAIN key, RotateRead(r, a, k) \/ RevokeKey(r, a, k)
       PROVE  AccessInv' /\ AccessStanding
  BY <1>11, ReadRotateStep, RevokeStep
<1> HIDE DEF AccessInv, AccessStanding
<1> QED
  BY <1>1, <1>2, <1>3, <1>4, <1>5, <1>6, <1>7, <1>8, <1>9, <1>10, <1>11 DEF AccessAsk

-----------------------------------------------------------------------------
LEMMA NextInv ==
  ASSUME AccessInv, AccessNext
  PROVE  AccessInv' /\ AccessStanding
<1>1. ASSUME NEW r \in Requests, AccessGoOn(r)
      PROVE  AccessInv' /\ AccessStanding
  BY <1>1, WriteInviteStep, AcceptStep, UpdateStep, RemoveStep, ImportStep, JoinBookStep,
     ReadActivateStep, AllocateStep, WriteKeyStep, RotateStep DEF AccessGoOn
<1>2. ASSUME NEW r \in Requests, BreakOff(r), UNCHANGED accessVars
      PROVE  AccessInv' /\ AccessStanding
  BY <1>2, ReadStep, IdleIsSound DEF BreakOff, Answer, GoOn
<1> QED
  BY <1>1, <1>2, AskStep, LapseStep DEF AccessNext

(* Steps that leave everything as it is.                                   *)
LEMMA StutterInv ==
  ASSUME AccessInv, UNCHANGED <<accessVars, callVars>>
  PROVE  AccessInv'
BY DEF AccessInv, Members, OwnersOnly, Invites, OneOpenInvite, References, RefsApart, KeyBooks, Requested,
       accessVars, callVars

LEMMA SafeFromInv ==
  ASSUME AccessInv
  PROVE  AccessSafe
<1>1. KeysReach
  BY KeyFacts DEF KeysReach, Reachable
<1> QED
  BY <1>1 DEF AccessInv, Members, Invites, References, AccessSafe

LEMMA InvHolds == AccessSpec => []AccessInv
<1>1. (\E staff \in Staffs : AccessInit(staff)) /\ CallsInit => AccessInv
  BY InitInv
<1>2. AccessInv /\ [AccessNext]_<<accessVars, callVars>> => AccessInv'
  BY NextInv, StutterInv
<1> QED
  BY <1>1, <1>2, PTL DEF AccessSpec

(* For any number of people, workspaces, books and requests: nobody but    *)
(* the owner of a workspace is OWNER in it, keys reach the books they      *)
(* name, references and open invitations are not handed out twice          *)
(* (members.service.ts, invites.service.ts, api-keys.service.ts).          *)
THEOREM AccessIsSafe == AccessSpec => []AccessSafe
BY InvHolds, SafeFromInv, PTL

(* And what was decided stands: nobody joins by an invitation that was     *)
(* settled before, a revoked key stays revoked, a reference stays given.   *)
THEOREM AccessDecisionsStand == AccessSpec => AccessStands
<1>1. AccessInv /\ [AccessNext]_<<accessVars, callVars>> => [AccessStanding]_accessVars
  BY NextInv DEF accessVars
<1> QED
  BY <1>1, InvHolds, PTL DEF AccessSpec, AccessStands

-----------------------------------------------------------------------------
(* Where the requests of each part stop, and steps that take one of them   *)
(* on.                                                                     *)
SignInPcs == {"idle", "register", "mail", "verify", "forget", "session", "google", "refresh",
              "password", "revoke"}
AccessPcs == {"idle", "invite", "accept", "role", "remove", "import", "book", "activate",
              "allocate", "rotate"}
PlainPcs  == AccessPcs \ {"accept", "import"}
BoardPcs  == {"idle", "task", "add", "ask", "claim", "assign", "submit", "review", "project",
              "join", "crew", "due"}

Goes(pcs) ==
  \/ req' = req
  \/ \E r \in Requests : req' = [req EXCEPT ![r] = req'[r]] /\ req'[r].pc \in pcs

LEMMA WentBy ==
  ASSUME DOMAIN req = Requests, NEW r \in Requests, NEW q, NEW pcs,
         req' = [req EXCEPT ![r] = q], q.pc \in pcs
  PROVE  Goes(pcs)
<1>1. req'[r] = q
  OBVIOUS
<1> QED
  BY <1>1 DEF Goes

LEMMA AskGoes ==
  ASSUME DOMAIN req = Requests, NEW r \in Requests, NEW kind, NEW q, NEW pcs,
         Ask(r, kind, q), q.pc \in pcs
  PROVE  Goes(pcs)
<1>1. req' = [req EXCEPT ![r] = q]
  BY Zenon DEF Ask
<1> QED
  BY <1>1, WentBy, Zenon

LEMMA AskOnceGoes ==
  ASSUME DOMAIN req = Requests, NEW r \in Requests, NEW kind, NEW pcs,
         AskOnce(r, kind), "idle" \in pcs
  PROVE  Goes(pcs)
<1>1. Ask(r, kind, Idle)
  BY DEF AskOnce
<1>2. Idle.pc = "idle"
  BY DEF Idle
<1> HIDE DEF Idle
<1> QED
  BY <1>1, <1>2, AskGoes, Zenon

LEMMA AnswerGoes ==
  ASSUME DOMAIN req = Requests, NEW r \in Requests, NEW pcs, Answer(r), "idle" \in pcs
  PROVE  Goes(pcs)
<1>1. req' = [req EXCEPT ![r] = Idle]
  BY Zenon DEF Answer, GoOn
<1>2. Idle.pc = "idle"
  BY DEF Idle
<1> HIDE DEF Idle
<1> QED
  BY <1>1, <1>2, WentBy, Zenon

-----------------------------------------------------------------------------
(* Accounts and sessions.                                                  *)

Subjects   == {g[1] : g \in GoogleIds}
AccountRow == [email : Emails, password : Nat, settled : Nat, verified : BOOLEAN,
               sub : Subjects \union {None}, fails : Nat]
SessionRow == [user : Nat, revoked : BOOLEAN, denied : BOOLEAN, since : Nat]

Accounts ==
  /\ account \in Seq(AccountRow)
  /\ \A u \in DOMAIN account : /\ account[u].settled <= account[u].password
                               /\ account[u].sub # None => account[u].verified

Apart == \A u, v \in DOMAIN account : u # v =>
           /\ account[u].email # account[v].email
           /\ account[u].sub = None \/ account[u].sub # account[v].sub

Sessions ==
  /\ session \in Seq(SessionRow)
  /\ \A s \in DOMAIN session :
       /\ session[s].user \in DOMAIN account
       /\ account[session[s].user].verified
       /\ session[s].revoked \/ session[s].since >= account[session[s].user].settled

(* What a request of this part has read and still relies on, given the     *)
(* accounts and sessions there are.                                        *)
SignInSound(q, us, ss) ==
  /\ q.pc = "register" => q.email \in Emails
  /\ q.pc \in {"mail", "verify", "password", "revoke", "session"} => q.user \in DOMAIN us
  /\ q.pc = "session" => us[q.user].verified
  /\ q.pc = "google" => q.id \in GoogleIds
                        /\ (q.user # 0 => q.user \in DOMAIN us /\ us[q.user].verified)
  /\ q.pc = "refresh" => q.session \in DOMAIN ss
  /\ q.pc = "revoke" => q.to \in Nat /\ q.to <= us[q.user].password

SignInRequested ==
  /\ DOMAIN req = Requests
  /\ \A r \in Requests : SignInSound(req[r], account, session)

SignInInv == Accounts /\ Apart /\ Sessions /\ SignInRequested

(* No account and no session is taken away, and what an account has shown  *)
(* it keeps.                                                               *)
Lasting ==
  /\ \A u \in DOMAIN account : /\ u \in DOMAIN account'
                               /\ account'[u].email = account[u].email
                               /\ account[u].verified => account'[u].verified
                               /\ account[u].password <= account'[u].password
                               /\ account'[u].password \in Nat
  /\ DOMAIN session \subseteq DOMAIN session'

LEMMA AccountAt ==
  ASSUME Accounts, NEW u \in DOMAIN account
  PROVE  /\ account[u] \in AccountRow
         /\ account[u].password \in Nat /\ account[u].settled \in Nat
<1>1. account \in Seq(AccountRow)
  BY DEF Accounts
<1>2. account[u] \in AccountRow
  BY <1>1, RowAt
<1> QED
  BY <1>2 DEF AccountRow

LEMMA LastingSound ==
  ASSUME Accounts, Lasting, NEW x, SignInSound(x, account, session)
  PROVE  SignInSound(x, account', session')
<1>1. x.pc = "revoke" => x.to \in Nat /\ x.to <= account'[x.user].password
  <2>1. SUFFICES ASSUME x.pc = "revoke"
                 PROVE  x.to \in Nat /\ x.to <= account'[x.user].password
    OBVIOUS
  <2>2. x.to \in Nat /\ x.to <= account[x.user].password /\ x.user \in DOMAIN account
    BY <2>1 DEF SignInSound
  <2>3. account[x.user].password \in Nat
    BY <2>2, AccountAt
  <2>4. account[x.user].password <= account'[x.user].password /\ account'[x.user].password \in Nat
    BY <2>2 DEF Lasting
  <2> QED
    BY <2>2, <2>3, <2>4
<1> QED
  BY <1>1 DEF SignInSound, Lasting

LEMMA NextSignInRequested ==
  ASSUME SignInRequested, Accounts, Lasting, NEW r \in Requests, NEW q,
         req' = [req EXCEPT ![r] = q], SignInSound(q, account', session')
  PROVE  SignInRequested'
<1>1. DOMAIN req' = Requests
  BY DEF SignInRequested
<1>2. ASSUME NEW p \in Requests
      PROVE  SignInSound(req'[p], account', session')
  <2>1. CASE p = r
    BY <2>1 DEF SignInRequested
  <2>2. CASE p # r
    <3>1. SignInSound(req[p], account, session) /\ req'[p] = req[p]
      BY <2>2 DEF SignInRequested
    <3> QED
      BY <3>1, LastingSound
  <2> QED
    BY <2>1, <2>2
<1> QED
  BY <1>1, <1>2 DEF SignInRequested

LEMMA SignInStays ==
  ASSUME SignInRequested, Accounts, Lasting, req' = req
  PROVE  SignInRequested'
BY LastingSound DEF SignInRequested

LEMMA LastingSame ==
  ASSUME Accounts, UNCHANGED <<account, session>>
  PROVE  Lasting
<1>1. \A u \in DOMAIN account : account[u].password \in Nat
  BY AccountAt
<1> QED
  BY <1>1 DEF Lasting

(* What a step of this part comes to, for the others.                      *)
SignInSteps == SignInInv' /\ Lasting /\ Goes(SignInPcs)

LEMMA SignInWrites ==
  ASSUME SignInInv, Accounts', Apart', Sessions', Lasting, NEW r \in Requests, NEW q,
         req' = [req EXCEPT ![r] = q], q.pc \in SignInPcs, SignInSound(q, account', session')
  PROVE  SignInSteps
<1>1. SignInRequested'
  BY NextSignInRequested DEF SignInInv
<1>2. Goes(SignInPcs)
  BY WentBy DEF SignInInv, SignInRequested
<1> QED
  BY <1>1, <1>2 DEF SignInInv, SignInSteps

(* A request that only reads, sends mail or gives up.                      *)
LEMMA SignInReads ==
  ASSUME SignInInv, UNCHANGED <<account, session>>, NEW r \in Requests, NEW q,
         req' = [req EXCEPT ![r] = q], q.pc \in SignInPcs, SignInSound(q, account, session)
  PROVE  SignInSteps
<1>1. Lasting
  BY LastingSame DEF SignInInv
<1>2. Accounts' /\ Apart' /\ Sessions'
  BY DEF SignInInv, Accounts, Apart, Sessions
<1> QED
  BY <1>1, <1>2, SignInWrites

(* An account changed in place.                                            *)
LEMMA AccountSet ==
  ASSUME SignInInv, UNCHANGED session, NEW u \in DOMAIN account, NEW x \in AccountRow,
         account' = [account EXCEPT ![u] = x],
         x.email = account[u].email, account[u].verified => x.verified,
         account[u].password <= x.password, x.settled = account[u].settled,
         x.sub # None => x.verified,
         \/ x.sub = account[u].sub
         \/ \A v \in DOMAIN account : account[v].sub # x.sub
         \/ x.sub = None
  PROVE  Accounts' /\ Apart' /\ Sessions' /\ Lasting
<1>1. account \in Seq(AccountRow)
  BY DEF SignInInv, Accounts
<1>2. /\ account' \in Seq(AccountRow) /\ DOMAIN account' = DOMAIN account
      /\ \A v \in DOMAIN account : account'[v] = IF v = u THEN x ELSE account[v]
  BY <1>1, Replaced
<1>3. \A v \in DOMAIN account : account[v] \in AccountRow
  BY <1>1, RowAt
<1>4. /\ x.settled \in Nat /\ x.password \in Nat
      /\ \A v \in DOMAIN account : account[v].settled \in Nat /\ account[v].password \in Nat
  BY <1>3 DEF AccountRow
<1>5. account[u].settled <= account[u].password
  BY DEF SignInInv, Accounts
<1>6. x.settled <= x.password
  BY <1>4, <1>5
<1>7. Accounts'
  BY <1>2, <1>6 DEF SignInInv, Accounts
<1>8. Apart'
  BY <1>2 DEF SignInInv, Apart
<1>9. Sessions'
  BY <1>2 DEF SignInInv, Sessions
<1>10. Lasting
  BY <1>2, <1>4 DEF Lasting
<1> QED
  BY <1>7, <1>8, <1>9, <1>10

(* A new account, under an address and a subject nobody has.               *)
LEMMA AccountAdded ==
  ASSUME SignInInv, UNCHANGED session, NEW x \in AccountRow, account' = Append(account, x),
         x.settled = x.password, x.sub # None => x.verified,
         EmailFree(x.email), SubjectFree(x.sub)
  PROVE  /\ Accounts' /\ Apart' /\ Sessions' /\ Lasting
         /\ Len(account') \in DOMAIN account' /\ account'[Len(account')] = x
<1>1. account \in Seq(AccountRow)
  BY DEF SignInInv, Accounts
<1>2. PICK n : n = Len(account) + 1
  OBVIOUS
<1>3. /\ account' \in Seq(AccountRow) /\ DOMAIN account' = (DOMAIN account) \union {n}
      /\ n \notin DOMAIN account /\ account'[n] = x
      /\ \A v \in DOMAIN account : account'[v] = account[v]
  BY <1>1, <1>2, Appended
<1>4. Len(account') = n
  BY <1>1, <1>2, AppendProperties
<1>5. x.password \in Nat /\ \A v \in DOMAIN account : account[v].password \in Nat
  BY AccountAt DEF SignInInv, AccountRow
<1>6. \A v \in DOMAIN account : /\ account[v].email # x.email
                                /\ x.sub = None \/ account[v].sub # x.sub
  BY DEF EmailFree, Known, SubjectFree, Linked
<1>7. Accounts'
  BY <1>3, <1>5 DEF SignInInv, Accounts
<1>8. Apart'
  BY <1>3, <1>6 DEF SignInInv, Apart
<1>9. Sessions'
  BY <1>3 DEF SignInInv, Sessions
<1>10. Lasting
  BY <1>3, <1>5 DEF Lasting
<1> QED
  BY <1>3, <1>4, <1>7, <1>8, <1>9, <1>10

(* Sessions that end: nothing of a row changes but that it is over.        *)
LEMMA SessionsEnd ==
  ASSUME SignInInv, UNCHANGED account, session' \in Seq(SessionRow),
         DOMAIN session' = DOMAIN session,
         \A s \in DOMAIN session : /\ session'[s].user = session[s].user
                                   /\ session'[s].since = session[s].since
                                   /\ session[s].revoked => session'[s].revoked
  PROVE  Accounts' /\ Apart' /\ Sessions' /\ Lasting
<1>1. Accounts' /\ Apart'
  BY DEF SignInInv, Accounts, Apart
<1>2. Sessions'
  BY DEF SignInInv, Sessions
<1>3. \A u \in DOMAIN account : account[u].password \in Nat
  BY AccountAt DEF SignInInv
<1> QED
  BY <1>1, <1>2, <1>3 DEF Lasting

LEMMA RevokedSessions ==
  ASSUME SignInInv, NEW u
  PROVE  LET ss == RevokeAllUserTokens(u)
         IN  /\ ss \in Seq(SessionRow) /\ DOMAIN ss = DOMAIN session
             /\ \A s \in DOMAIN session : /\ ss[s].user = session[s].user
                                          /\ ss[s].since = session[s].since
                                          /\ session[s].revoked => ss[s].revoked
                                          /\ session[s].user = u => ss[s].revoked
<1>1. PICK ss : ss = RevokeAllUserTokens(u)
  OBVIOUS
<1>2. session \in Seq(SessionRow)
  BY DEF SignInInv, Sessions
<1>3. DOMAIN session = 1 .. Len(session) /\ Len(session) \in Nat
  BY <1>2, LenProperties
<1>4. \A s \in DOMAIN session : session[s] \in SessionRow
  BY <1>2, RowAt
<1>5. DOMAIN ss = DOMAIN session
      /\ \A s \in DOMAIN session : ss[s] = IF session[s].user = u
                                           THEN [session[s] EXCEPT !.revoked = TRUE] ELSE session[s]
  BY <1>1 DEF RevokeAllUserTokens
<1>6. \A row \in SessionRow : LET end == [row EXCEPT !.revoked = TRUE]
        IN end \in SessionRow /\ end.user = row.user /\ end.since = row.since /\ end.revoked
  BY DEF SessionRow
<1>7. \A s \in DOMAIN session : ss[s] \in SessionRow
  BY <1>4, <1>5, <1>6
<1>8. ss \in [1 .. Len(session) -> SessionRow]
  BY <1>1, <1>3, <1>5, <1>7 DEF RevokeAllUserTokens
<1>9. ss \in Seq(SessionRow)
  BY <1>3, <1>8, SeqDef
<1>10. \A s \in DOMAIN session : /\ ss[s].user = session[s].user
                                 /\ ss[s].since = session[s].since
                                 /\ session[s].revoked => ss[s].revoked
                                 /\ session[s].user = u => ss[s].revoked
  BY <1>4, <1>5, <1>6
<1> QED
  BY <1>1, <1>5, <1>9, <1>10

-----------------------------------------------------------------------------
(* The steps of signing in.                                                *)

LEMMA SignInInitInv ==
  ASSUME NEW emails \in Seq(Emails), IsInjective(emails), SignInInit(emails),
         req = [r \in Requests |-> Idle]
  PROVE  SignInInv
<1>1. PICK n \in Nat : n = Len(emails) /\ DOMAIN emails = 1 .. n
  BY LenProperties
<1>2. \A u \in DOMAIN emails : emails[u] \in Emails
  BY RowAt
<1>3. /\ DOMAIN account = 1 .. n /\ DOMAIN session = 1 .. n
      /\ \A u \in 1 .. n : account[u] = NewAccount(emails[u], 1, TRUE, None)
      /\ \A s \in 1 .. n : session[s] = NewSession(s, 1)
  BY <1>1 DEF SignInInit
<1>4. \A e \in Emails : NewAccount(e, 1, TRUE, None) \in AccountRow
  BY DEF NewAccount, AccountRow
<1>5. \A s \in 1 .. n : NewSession(s, 1) \in SessionRow
  BY DEF NewSession, SessionRow
<1>6. account \in [1 .. n -> AccountRow]
  BY <1>1, <1>2, <1>3, <1>4 DEF SignInInit
<1>7. session \in [1 .. n -> SessionRow]
  BY <1>1, <1>3, <1>5 DEF SignInInit
<1>8. account \in Seq(AccountRow) /\ session \in Seq(SessionRow)
  BY <1>6, <1>7, SeqDef
<1>9. \A u \in 1 .. n : /\ account[u].settled = 1 /\ account[u].password = 1 /\ account[u].sub = None
                        /\ account[u].verified /\ account[u].email = emails[u]
  BY <1>3 DEF NewAccount
<1>10. \A s \in 1 .. n : session[s].user = s /\ session[s].since = 1
  BY <1>3 DEF NewSession
<1>11. Accounts
  BY <1>3, <1>8, <1>9 DEF Accounts
<1>12. Apart
  BY <1>1, <1>3, <1>9 DEF Apart, IsInjective
<1>13. Sessions
  BY <1>3, <1>8, <1>9, <1>10 DEF Sessions
<1>14. SignInRequested
  BY DEF SignInRequested, SignInSound, Idle
<1> QED
  BY <1>11, <1>12, <1>13, <1>14 DEF SignInInv

LEMMA SignInIdles ==
  ASSUME NEW us, NEW ss
  PROVE  SignInSound(Idle, us, ss) /\ Idle.pc \in SignInPcs
BY DEF SignInSound, Idle, SignInPcs

LEMMA SignInAsks ==
  ASSUME SignInInv, NEW r \in Requests, NEW u \in DOMAIN account,
         \/ ResendVerification(r, u) \/ ForgotPassword(r, u) \/ VerifyRead(r, u)
         \/ LoginRead(r, u) \/ ChangeRead(r, u) \/ ResetRead(r, u)
  PROVE  SignInSteps
<1>1. CASE ResendVerification(r, u) \/ ForgotPassword(r, u)
  BY <1>1, SignInIdles, SignInReads DEF ResendVerification, ForgotPassword, AskOnce, Ask
<1>2. CASE VerifyRead(r, u)
  <2>1. PICK q : q = [pc |-> "verify", user |-> u]
    OBVIOUS
  <2>2. SignInSound(q, account, session) /\ q.pc \in SignInPcs
    BY <2>1 DEF SignInSound, SignInPcs
  <2> QED
    BY <1>2, <2>1, <2>2, SignInReads DEF VerifyRead, Ask, signInVars
<1>3. CASE LoginRead(r, u)
  <2>1. PICK q : q = [pc |-> "session", user |-> u]
    OBVIOUS
  <2>2. SignInSound(q, account, session) /\ q.pc \in SignInPcs
    BY <1>3, <2>1 DEF SignInSound, SignInPcs, LoginRead, MayLogIn
  <2> QED
    BY <1>3, <2>1, <2>2, SignInReads DEF LoginRead, Ask, signInVars
<1>4. ASSUME NEW c, Ask(r, "reset", [pc |-> "password", user |-> u, code |-> c]), UNCHANGED signInVars
      PROVE  SignInSteps
  <2>1. PICK q : q = [pc |-> "password", user |-> u, code |-> c]
    OBVIOUS
  <2>2. SignInSound(q, account, session) /\ q.pc \in SignInPcs
    BY <2>1 DEF SignInSound, SignInPcs
  <2> QED
    BY <1>4, <2>1, <2>2, SignInReads DEF Ask, signInVars
<1> QED
  BY <1>1, <1>2, <1>3, <1>4 DEF ChangeRead, ResetRead

LEMMA RegisterReadStep ==
  ASSUME SignInInv, NEW r \in Requests, NEW e \in Emails, RegisterRead(r, e)
  PROVE  SignInSteps
<1>1. PICK q : q = [pc |-> "register", email |-> e]
  OBVIOUS
<1>2. SignInSound(q, account, session) /\ q.pc \in SignInPcs
  BY <1>1 DEF SignInSound, SignInPcs
<1> QED
  BY <1>1, <1>2, SignInReads DEF RegisterRead, Ask, signInVars

LEMMA GoogleReadStep ==
  ASSUME SignInInv, NEW r \in Requests, NEW g \in GoogleIds, GoogleRead(r, g)
  PROVE  SignInSteps
<1>1. UNCHANGED <<account, session>>
  BY DEF GoogleRead, signInVars
<1>2. ASSUME NEW u \in Linked(g[1]), Ask(r, "google", [pc |-> "session", user |-> u])
      PROVE  SignInSteps
  <2>1. PICK q : q = [pc |-> "session", user |-> u]
    OBVIOUS
  <2>2. u \in DOMAIN account /\ account[u].sub = g[1] /\ g[1] # None
    BY SignInAssumption DEF Linked
  <2>3. account[u].verified
    BY <2>2 DEF SignInInv, Accounts
  <2>4. SignInSound(q, account, session) /\ q.pc \in SignInPcs
    BY <2>1, <2>2, <2>3 DEF SignInSound, SignInPcs
  <2> QED
    BY <1>1, <1>2, <2>1, <2>4, SignInReads DEF Ask
<1>3. ASSUME NEW u, u = 0 \/ (u \in DOMAIN account /\ account[u].verified),
             Ask(r, "google", [pc |-> "google", user |-> u, id |-> g])
      PROVE  SignInSteps
  <2>1. PICK q : q = [pc |-> "google", user |-> u, id |-> g]
    OBVIOUS
  <2>2. SignInSound(q, account, session) /\ q.pc \in SignInPcs
    BY <1>3, <2>1 DEF SignInSound, SignInPcs
  <2> QED
    BY <1>1, <1>3, <2>1, <2>2, SignInReads DEF Ask
<1> QED
  BY <1>2, <1>3 DEF GoogleRead, Known

LEMMA RefreshReadStep ==
  ASSUME SignInInv, NEW r \in Requests, NEW s \in DOMAIN session, RefreshRead(r, s)
  PROVE  SignInSteps
<1>1. PICK q : q = [pc |-> "refresh", session |-> s]
  OBVIOUS
<1>2. SignInSound(q, account, session) /\ q.pc \in SignInPcs
  BY <1>1 DEF SignInSound, SignInPcs
<1> QED
  BY <1>1, <1>2, SignInReads DEF RefreshRead, Ask, signInVars

LEMMA MailSteps ==
  ASSUME SignInInv, NEW r \in Requests, RegisterMail(r) \/ ForgetCode(r)
  PROVE  SignInSteps
BY SignInIdles, SignInReads DEF RegisterMail, ForgetCode, Answer, GoOn

LEMMA RequestSound ==
  ASSUME SignInInv, NEW r \in Requests
  PROVE  SignInSound(req[r], account, session)
BY DEF SignInInv, SignInRequested

LEMMA RegisterWriteStep ==
  ASSUME SignInInv, NEW r \in Requests, RegisterWrite(r)
  PROVE  SignInSteps
<1>1. PICK e : e = req[r].email
  OBVIOUS
<1>2. e \in Emails
  BY <1>1, RequestSound DEF RegisterWrite, At, SignInSound
<1>3. CASE ~EmailFree(e)
  BY <1>1, <1>3, SignInIdles, SignInReads DEF RegisterWrite, Answer, GoOn
<1>4. CASE EmailFree(e)
  <2>1. PICK x : x = NewAccount(e, 1, FALSE, None)
    OBVIOUS
  <2>2. /\ account' = Append(account, x) /\ UNCHANGED session
        /\ req' = [req EXCEPT ![r] = [pc |-> "mail", user |-> Len(account')]]
    BY <1>1, <1>4, <2>1 DEF RegisterWrite, GoOn
  <2>3. x \in AccountRow /\ x.settled = x.password /\ x.sub = None /\ x.email = e
    BY <1>2, <2>1 DEF NewAccount, AccountRow
  <2>4. SubjectFree(x.sub) /\ EmailFree(x.email)
    BY <1>4, <2>3 DEF SubjectFree
  <2>5. /\ Accounts' /\ Apart' /\ Sessions' /\ Lasting
        /\ Len(account') \in DOMAIN account'
    BY <2>2, <2>3, <2>4, AccountAdded
  <2>6. PICK q : q = [pc |-> "mail", user |-> Len(account')]
    OBVIOUS
  <2>7. SignInSound(q, account', session') /\ q.pc \in SignInPcs
    BY <2>5, <2>6 DEF SignInSound, SignInPcs
  <2> QED
    BY <2>2, <2>5, <2>6, <2>7, SignInWrites
<1> QED
  BY <1>3, <1>4

(* A step that writes one account and leaves the rest of it as x says.     *)
LEMMA AccountStep ==
  ASSUME SignInInv, UNCHANGED session, NEW u \in DOMAIN account, NEW x \in AccountRow,
         account' = [account EXCEPT ![u] = x],
         x.email = account[u].email, account[u].verified => x.verified,
         account[u].password <= x.password, x.settled = account[u].settled,
         x.sub # None => x.verified,
         \/ x.sub = account[u].sub
         \/ \A v \in DOMAIN account : account[v].sub # x.sub
         \/ x.sub = None,
         NEW r \in Requests, NEW q, req' = [req EXCEPT ![r] = q], q.pc \in SignInPcs,
         SignInSound(q, account', session')
  PROVE  SignInSteps
<1>1. Accounts' /\ Apart' /\ Sessions' /\ Lasting
  BY AccountSet
<1> QED
  BY <1>1, SignInWrites

LEMMA NowAt ==
  ASSUME SignInInv, NEW u \in DOMAIN account, NEW x, account' = [account EXCEPT ![u] = x]
  PROVE  DOMAIN account' = DOMAIN account /\ account'[u] = x
BY DEF SignInInv, Accounts

LEMMA VerifyWriteStep ==
  ASSUME SignInInv, NEW r \in Requests, VerifyWrite(r)
  PROVE  SignInSteps
<1>1. PICK u : u = req[r].user
  OBVIOUS
<1>2. u \in DOMAIN account
  BY <1>1, RequestSound DEF VerifyWrite, At, SignInSound
<1>3. PICK row : row = account[u]
  OBVIOUS
<1>4. row \in AccountRow /\ row.password \in Nat
  BY <1>2, <1>3, AccountAt DEF SignInInv
<1>5. PICK x : x = [row EXCEPT !.verified = TRUE]
  OBVIOUS
<1>6. /\ x \in AccountRow /\ x.email = row.email /\ x.password = row.password
      /\ x.settled = row.settled /\ x.sub = row.sub
  BY <1>4, <1>5 DEF AccountRow
<1>10. x.verified
  BY <1>4, <1>5 DEF AccountRow
<1>7. PICK q : q = [pc |-> "forget", code |-> <<"verification", u>>]
  OBVIOUS
<1>8. /\ account' = [account EXCEPT ![u] = x] /\ UNCHANGED session
      /\ req' = [req EXCEPT ![r] = q]
  BY <1>1, <1>3, <1>5, <1>7 DEF VerifyWrite, GoOn
<1>9. q.pc \in SignInPcs /\ SignInSound(q, account', session')
  BY <1>7 DEF SignInSound, SignInPcs
<1>11. row.password <= x.password
  BY <1>4, <1>6
<1> QED
  BY <1>2, <1>3, <1>6, <1>8, <1>9, <1>10, <1>11, AccountStep

LEMMA LoginFailsStep ==
  ASSUME SignInInv, NEW r \in Requests, NEW u \in DOMAIN account, LoginFails(r, u)
  PROVE  SignInSteps
<1>3. PICK row : row = account[u]
  OBVIOUS
<1>4. row \in AccountRow /\ row.password \in Nat
  BY <1>3, AccountAt DEF SignInInv
<1>5. PICK x : x = [row EXCEPT !.fails = @ + 1]
  OBVIOUS
<1>10. row.fails \in Nat
  BY <1>4 DEF AccountRow
<1>6. PICK n \in Nat : n = row.fails + 1
  BY <1>10
<1>7. x = [row EXCEPT !.fails = n]
  BY <1>5, <1>6
<1>8. /\ x \in AccountRow /\ x.email = row.email /\ x.verified = row.verified
      /\ row.password <= x.password /\ x.settled = row.settled /\ x.sub = row.sub
  BY <1>4, <1>7 DEF AccountRow
<1>9. /\ account' = [account EXCEPT ![u] = x] /\ UNCHANGED session
      /\ req' = [req EXCEPT ![r] = Idle]
  BY <1>3, <1>5 DEF LoginFails, AskOnce, Ask
<1>11. row.sub # None => row.verified
  BY <1>3 DEF SignInInv, Accounts
<1> QED
  BY <1>3, <1>8, <1>9, <1>11, SignInIdles, AccountStep

LEMMA FailuresAgeStep ==
  ASSUME SignInInv, NEW u \in DOMAIN account, FailuresAge(u)
  PROVE  SignInSteps
<1>3. PICK row : row = account[u]
  OBVIOUS
<1>4. row \in AccountRow /\ row.password \in Nat
  BY <1>3, AccountAt DEF SignInInv
<1>5. PICK x : x = [row EXCEPT !.fails = 0]
  OBVIOUS
<1>6. /\ x \in AccountRow /\ x.email = row.email /\ x.verified = row.verified
      /\ row.password <= x.password /\ x.settled = row.settled /\ x.sub = row.sub
  BY <1>4, <1>5 DEF AccountRow
<1>7. account' = [account EXCEPT ![u] = x] /\ UNCHANGED <<session, req>>
  BY <1>3, <1>5 DEF FailuresAge, callVars
<1>8. row.sub # None => row.verified
  BY <1>3 DEF SignInInv, Accounts
<1>9. Accounts' /\ Apart' /\ Sessions' /\ Lasting
  BY <1>3, <1>6, <1>7, <1>8, AccountSet
<1>10. Goes(SignInPcs)
  BY <1>7 DEF Goes
<1>11. SignInRequested'
  BY <1>7, <1>9, SignInStays DEF SignInInv
<1> QED
  BY <1>9, <1>10, <1>11 DEF SignInInv, SignInSteps

LEMMA GoogleWriteStep ==
  ASSUME SignInInv, NEW r \in Requests, GoogleWrite(r)
  PROVE  SignInSteps
<1>1. PICK g, u : g = req[r].id /\ u = req[r].user
  OBVIOUS
<1>2. g \in GoogleIds /\ (u # 0 => u \in DOMAIN account /\ account[u].verified)
  BY <1>1, RequestSound DEF GoogleWrite, At, SignInSound
<1>3. g[1] \in Subjects /\ g[1] # None /\ g[2] \in Emails
  BY <1>2, SignInAssumption DEF Subjects
<1>4. CASE ~SubjectFree(g[1]) \/ (u = 0 /\ ~EmailFree(g[2]))
  BY <1>1, <1>4, SignInIdles, SignInReads DEF GoogleWrite, Answer, GoOn
<1>5. CASE SubjectFree(g[1]) /\ u = 0 /\ EmailFree(g[2])
  <2>1. PICK x : x = NewAccount(g[2], 0, TRUE, g[1])
    OBVIOUS
  <2>2. /\ account' = Append(account, x) /\ UNCHANGED session
        /\ req' = [req EXCEPT ![r] = [pc |-> "session", user |-> Len(account')]]
    BY <1>1, <1>5, <2>1 DEF GoogleWrite, GoOn
  <2>3. x \in AccountRow /\ x.settled = x.password /\ x.sub = g[1] /\ x.email = g[2] /\ x.verified
    BY <1>3, <2>1 DEF NewAccount, AccountRow
  <2>5. /\ Accounts' /\ Apart' /\ Sessions' /\ Lasting
        /\ Len(account') \in DOMAIN account' /\ account'[Len(account')] = x
    BY <1>5, <2>2, <2>3, AccountAdded
  <2>6. PICK q : q = [pc |-> "session", user |-> Len(account')]
    OBVIOUS
  <2>7. SignInSound(q, account', session') /\ q.pc \in SignInPcs
    BY <2>3, <2>5, <2>6 DEF SignInSound, SignInPcs
  <2> QED
    BY <2>2, <2>5, <2>6, <2>7, SignInWrites
<1>6. CASE SubjectFree(g[1]) /\ u # 0
  <2>1. PICK row : row = account[u]
    OBVIOUS
  <2>2. row \in AccountRow /\ row.password \in Nat /\ row.verified
    BY <1>2, <1>6, <2>1, AccountAt DEF SignInInv
  <2>3. PICK x : x = [row EXCEPT !.sub = g[1]]
    OBVIOUS
  <2>4. /\ x \in AccountRow /\ x.email = row.email /\ x.verified
        /\ row.password <= x.password /\ x.settled = row.settled /\ x.sub = g[1]
    BY <1>3, <2>2, <2>3 DEF AccountRow
  <2>5. PICK q : q = [pc |-> "session", user |-> u]
    OBVIOUS
  <2>6. /\ account' = [account EXCEPT ![u] = x] /\ UNCHANGED session
        /\ req' = [req EXCEPT ![r] = q]
    BY <1>1, <1>6, <2>1, <2>3, <2>5 DEF GoogleWrite, GoOn
  <2>7. \A v \in DOMAIN account : account[v].sub # x.sub
    BY <1>3, <1>6, <2>4 DEF SubjectFree, Linked
  <2>8. q.pc \in SignInPcs /\ SignInSound(q, account', session')
    BY <1>2, <1>6, <2>4, <2>5, <2>6, NowAt DEF SignInSound, SignInPcs
  <2> QED
    BY <1>2, <1>6, <2>1, <2>4, <2>6, <2>7, <2>8, AccountStep
<1> QED
  BY <1>4, <1>5, <1>6

LEMMA PasswordWriteStep ==
  ASSUME SignInInv, NEW r \in Requests, PasswordWrite(r)
  PROVE  SignInSteps
<1>1. PICK u, c : u = req[r].user /\ c = req[r].code
  OBVIOUS
<1>2. u \in DOMAIN account
  BY <1>1, RequestSound DEF PasswordWrite, At, SignInSound
<1>3. PICK row : row = account[u]
  OBVIOUS
<1>4. row \in AccountRow /\ row.password \in Nat
  BY <1>2, <1>3, AccountAt DEF SignInInv
<1>5. PICK n \in Nat : n = row.password + 1
  BY <1>4
<1>6. PICK x : x = [row EXCEPT !.password = n]
  OBVIOUS
<1>7. /\ x \in AccountRow /\ x.email = row.email /\ x.verified = row.verified
      /\ x.password = n /\ x.settled = row.settled /\ x.sub = row.sub
  BY <1>4, <1>6 DEF AccountRow
<1>8. account' = [account EXCEPT ![u] = x] /\ UNCHANGED session
  BY <1>1, <1>3, <1>5, <1>6 DEF PasswordWrite
<1>9. DOMAIN account' = DOMAIN account /\ account'[u] = x
  BY <1>2, <1>8, NowAt
<1>10. PICK q : q = [pc |-> "revoke", user |-> u, code |-> c, to |-> account'[u].password]
  OBVIOUS
<1>11. req' = [req EXCEPT ![r] = q]
  BY <1>1, <1>10 DEF PasswordWrite, GoOn
<1>12. q.to = n
  BY <1>7, <1>9, <1>10
<1>13. q.pc \in SignInPcs /\ SignInSound(q, account', session')
  BY <1>2, <1>7, <1>9, <1>10, <1>12 DEF SignInSound, SignInPcs
<1>14. row.sub # None => row.verified
  BY <1>2, <1>3 DEF SignInInv, Accounts
<1>15. row.password <= x.password
  BY <1>4, <1>5, <1>7
<1> QED
  BY <1>2, <1>3, <1>7, <1>8, <1>11, <1>13, <1>14, <1>15, AccountStep

(* The steps that write sessions.                                          *)
LEMMA CreateSessionStep ==
  ASSUME SignInInv, NEW r \in Requests, CreateSession(r)
  PROVE  SignInSteps
<1>1. PICK u : u = req[r].user
  OBVIOUS
<1>2. u \in DOMAIN account /\ account[u].verified
  BY <1>1, RequestSound DEF CreateSession, At, SignInSound
<1>3. PICK row : row = account[u]
  OBVIOUS
<1>4. /\ row \in AccountRow /\ row.password \in Nat /\ row.settled \in Nat
      /\ row.settled <= row.password /\ row.verified
  BY <1>2, <1>3, AccountAt DEF SignInInv, Accounts
<1>5. PICK x : x = NewSession(u, row.password)
  OBVIOUS
<1>6. u \in Nat
  <2>1. DOMAIN account = 1 .. Len(account) /\ Len(account) \in Nat
    BY LenProperties DEF SignInInv, Accounts
  <2> QED
    BY <1>2, <2>1
<1>7. x \in SessionRow /\ x.user = u /\ x.since = row.password
  BY <1>4, <1>5, <1>6 DEF NewSession, SessionRow
<1>8. session' = Append(session, x) /\ UNCHANGED account /\ req' = [req EXCEPT ![r] = Idle]
  BY <1>1, <1>3, <1>5 DEF CreateSession, Answer, GoOn
<1>9. session \in Seq(SessionRow)
  BY DEF SignInInv, Sessions
<1>10. PICK n : n = Len(session) + 1
  OBVIOUS
<1>11. /\ session' \in Seq(SessionRow) /\ DOMAIN session' = (DOMAIN session) \union {n}
       /\ n \notin DOMAIN session /\ session'[n] = x
       /\ \A s \in DOMAIN session : session'[s] = session[s]
  BY <1>7, <1>8, <1>9, <1>10, Appended
<1>12. x.since >= row.settled
  BY <1>4, <1>7
<1>13. Sessions'
  BY <1>2, <1>3, <1>4, <1>7, <1>8, <1>11, <1>12 DEF SignInInv, Sessions
<1>14. Accounts' /\ Apart'
  BY <1>8 DEF SignInInv, Accounts, Apart
<1>15. \A v \in DOMAIN account : account[v].password \in Nat
  BY AccountAt DEF SignInInv
<1>16. Lasting
  BY <1>8, <1>11, <1>15 DEF Lasting
<1> QED
  BY <1>8, <1>13, <1>14, <1>16, SignInIdles, SignInWrites

LEMMA SessionSet ==
  ASSUME SignInInv, UNCHANGED account, NEW s \in DOMAIN session, NEW d \in BOOLEAN,
         session' = [session EXCEPT ![s].revoked = TRUE, ![s].denied = d]
  PROVE  Accounts' /\ Apart' /\ Sessions' /\ Lasting
<1>1. session \in Seq(SessionRow)
  BY DEF SignInInv, Sessions
<1>2. PICK row : row = session[s]
  OBVIOUS
<1>3. row \in SessionRow
  BY <1>1, <1>2, RowAt
<1>4. PICK x : x = [row EXCEPT !.revoked = TRUE, !.denied = d]
  OBVIOUS
<1>5. x \in SessionRow /\ x.user = row.user /\ x.since = row.since /\ x.revoked
  BY <1>3, <1>4 DEF SessionRow
<1>6. session' = [session EXCEPT ![s] = x]
  BY <1>1, <1>2, <1>4
<1>7. PICK ss : ss = [session EXCEPT ![s] = x]
  OBVIOUS
<1>9. /\ ss \in Seq(SessionRow) /\ DOMAIN ss = DOMAIN session
      /\ \A p \in DOMAIN session : ss[p] = IF p = s THEN x ELSE session[p]
  BY <1>1, <1>5, <1>7, Replaced
<1>10. session' = ss
  BY <1>6, <1>7
<1>8. \A p \in DOMAIN session : /\ session'[p].user = session[p].user
                                /\ session'[p].since = session[p].since
                                /\ session[p].revoked => session'[p].revoked
  BY <1>2, <1>5, <1>9, <1>10
<1> QED
  BY <1>8, <1>9, <1>10, SessionsEnd

LEMMA RefreshRevokeStep ==
  ASSUME SignInInv, NEW r \in Requests, RefreshRevoke(r)
  PROVE  SignInSteps
<1>1. PICK s : s = req[r].session
  OBVIOUS
<1>2. s \in DOMAIN session
  BY <1>1, RequestSound DEF RefreshRevoke, At, SignInSound
<1>3. PICK u : u = session[s].user
  OBVIOUS
<1>4. u \in DOMAIN account /\ account[u].verified
  BY <1>2, <1>3 DEF SignInInv, Sessions
<1>5. session[s] \in SessionRow
  BY <1>2, RowAt DEF SignInInv, Sessions
<1>6. PICK d : d = session[s].denied
  OBVIOUS
<1>7. d \in BOOLEAN
  BY <1>5, <1>6 DEF SessionRow
<1>8. session' = [session EXCEPT ![s].revoked = TRUE]
  BY <1>1 DEF RefreshRevoke
<1>9. [session[s] EXCEPT !.revoked = TRUE, !.denied = d] = [session[s] EXCEPT !.revoked = TRUE]
  BY <1>5, <1>6 DEF SessionRow
<1>10. session' = [session EXCEPT ![s].revoked = TRUE, ![s].denied = d]
  <2>1. PICK x : x = [session[s] EXCEPT !.revoked = TRUE]
    OBVIOUS
  <2>2. session' = [session EXCEPT ![s] = x]
    BY <1>8, <2>1
  <2>3. x = [session[s] EXCEPT !.revoked = TRUE, !.denied = d]
    BY <1>9, <2>1
  <2> QED
    BY <2>2, <2>3
<1>11. UNCHANGED account /\ req' = [req EXCEPT ![r] = [pc |-> "session", user |-> u]]
  BY <1>1, <1>3 DEF RefreshRevoke, GoOn
<1>12. Accounts' /\ Apart' /\ Sessions' /\ Lasting
  BY <1>2, <1>7, <1>10, <1>11, SessionSet
<1>13. PICK q : q = [pc |-> "session", user |-> u]
  OBVIOUS
<1>14. q.pc \in SignInPcs /\ SignInSound(q, account', session')
  BY <1>4, <1>11, <1>13 DEF SignInSound, SignInPcs
<1> QED
  BY <1>11, <1>12, <1>13, <1>14, SignInWrites

LEMMA LogoutStep ==
  ASSUME SignInInv, NEW r \in Requests, NEW s \in DOMAIN session, Logout(r, s)
  PROVE  SignInSteps
<1>1. session[s] \in SessionRow
  BY RowAt DEF SignInInv, Sessions
<1>2. PICK d \in {session[s].denied, TRUE} :
        session' = [session EXCEPT ![s].revoked = TRUE, ![s].denied = d]
  BY DEF Logout
<1>3. d \in BOOLEAN
  BY <1>1, <1>2 DEF SessionRow
<1>4. UNCHANGED account /\ req' = [req EXCEPT ![r] = Idle]
  BY DEF Logout, AskOnce, Ask
<1>5. Accounts' /\ Apart' /\ Sessions' /\ Lasting
  BY <1>2, <1>3, <1>4, SessionSet
<1> QED
  BY <1>4, <1>5, SignInIdles, SignInWrites

LEMMA LogoutAllStep ==
  ASSUME SignInInv, NEW r \in Requests, NEW u \in DOMAIN account, LogoutAll(r, u)
  PROVE  SignInSteps
<1>1. session' = RevokeAllUserTokens(u) /\ UNCHANGED account /\ req' = [req EXCEPT ![r] = Idle]
  BY DEF LogoutAll, AskOnce, Ask
<1>2. Accounts' /\ Apart' /\ Sessions' /\ Lasting
  BY <1>1, RevokedSessions, SessionsEnd
<1> QED
  BY <1>1, <1>2, SignInIdles, SignInWrites

(* The end of a change of password: the sessions there are have ended when *)
(* the password counts as settled.                                         *)
LEMMA PasswordRevokeStep ==
  ASSUME SignInInv, NEW r \in Requests, PasswordRevoke(r)
  PROVE  SignInSteps
<1>1. PICK u, to, c : u = req[r].user /\ to = req[r].to /\ c = req[r].code
  OBVIOUS
<1>2. u \in DOMAIN account /\ to \in Nat /\ to <= account[u].password
  BY <1>1, RequestSound DEF PasswordRevoke, At, SignInSound
<1>3. PICK row : row = account[u]
  OBVIOUS
<1>4. /\ row \in AccountRow /\ row.password \in Nat /\ row.settled \in Nat
      /\ row.settled <= row.password /\ to <= row.password
      /\ row.sub # None => row.verified
  BY <1>2, <1>3, AccountAt DEF SignInInv, Accounts
<1>5. PICK n : n = IF row.settled > to THEN row.settled ELSE to
  OBVIOUS
<1>6. n \in Nat /\ n <= row.password /\ n >= row.settled
  BY <1>2, <1>4, <1>5
<1>7. PICK x : x = [row EXCEPT !.settled = n]
  OBVIOUS
<1>8. /\ x \in AccountRow /\ x.email = row.email /\ x.verified = row.verified
      /\ x.password = row.password /\ x.settled = n /\ x.sub = row.sub
  BY <1>4, <1>6, <1>7 DEF AccountRow
<1>9. account' = [account EXCEPT ![u] = x] /\ session' = RevokeAllUserTokens(u)
  BY <1>1, <1>3, <1>5, <1>7 DEF PasswordRevoke
<1>10. account \in Seq(AccountRow)
  BY DEF SignInInv, Accounts
<1>11. /\ account' \in Seq(AccountRow) /\ DOMAIN account' = DOMAIN account
       /\ \A v \in DOMAIN account : account'[v] = IF v = u THEN x ELSE account[v]
  BY <1>2, <1>8, <1>9, <1>10, Replaced
<1>12. PICK ss : ss = session'
  OBVIOUS
<1>13. /\ ss \in Seq(SessionRow) /\ DOMAIN ss = DOMAIN session
       /\ \A s \in DOMAIN session : /\ ss[s].user = session[s].user
                                    /\ ss[s].since = session[s].since
                                    /\ session[s].revoked => ss[s].revoked
                                    /\ session[s].user = u => ss[s].revoked
  BY <1>9, <1>12, RevokedSessions
<1>14. Accounts'
  BY <1>2, <1>3, <1>4, <1>6, <1>8, <1>11 DEF SignInInv, Accounts
<1>15. Apart'
  BY <1>3, <1>8, <1>11 DEF SignInInv, Apart
<1>16. \A s \in DOMAIN session : /\ session[s].user \in DOMAIN account
                                 /\ account[session[s].user].verified
                                 /\ session[s].revoked \/ session[s].since >= account[session[s].user].settled
  BY DEF SignInInv, Sessions
<1>17. \A s \in DOMAIN session : /\ ss[s].user \in DOMAIN account'
                                 /\ account'[ss[s].user].verified
                                 /\ ss[s].revoked \/ ss[s].since >= account'[ss[s].user].settled
  BY <1>3, <1>8, <1>11, <1>13, <1>16
<1>18. Sessions'
  BY <1>12, <1>13, <1>17 DEF Sessions
<1>19. \A v \in DOMAIN account : account[v].password \in Nat
  BY AccountAt DEF SignInInv
<1>20. Lasting
  BY <1>3, <1>4, <1>8, <1>11, <1>12, <1>13, <1>19 DEF Lasting
<1>21. PICK q : q = IF c = None THEN Idle ELSE [pc |-> "forget", code |-> c]
  OBVIOUS
<1>22. req' = [req EXCEPT ![r] = q]
  BY <1>1, <1>21 DEF PasswordRevoke, Answer, GoOn
<1>23. q.pc \in SignInPcs /\ SignInSound(q, account', session')
  BY <1>21 DEF SignInSound, SignInPcs, Idle
<1> QED
  BY <1>14, <1>15, <1>18, <1>20, <1>22, <1>23, SignInWrites

LEMMA CodeExpiresStep ==
  ASSUME SignInInv, NEW c, CodeExpires(c)
  PROVE  SignInSteps
<1>1. UNCHANGED <<account, session, req>>
  BY DEF CodeExpires, callVars
<1>2. Lasting
  BY <1>1, LastingSame DEF SignInInv
<1> QED
  BY <1>1, <1>2 DEF SignInInv, Accounts, Apart, Sessions, SignInRequested, SignInSteps, Goes

LEMMA SignInNextSteps ==
  ASSUME SignInInv, SignInNext
  PROVE  SignInSteps
<1>1. ASSUME NEW r \in Requests, SignInStep(r)
      PROVE  SignInSteps
  <2>1. CASE \E u \in DOMAIN account :
               \/ ResendVerification(r, u) \/ ForgotPassword(r, u) \/ VerifyRead(r, u)
               \/ LoginRead(r, u) \/ LoginFails(r, u) \/ LogoutAll(r, u)
               \/ ChangeRead(r, u) \/ ResetRead(r, u)
    BY <2>1, SignInAsks, LoginFailsStep, LogoutAllStep
  <2>2. CASE \E e \in Emails : RegisterRead(r, e)
    BY <2>2, RegisterReadStep
  <2>3. CASE \E g \in GoogleIds : GoogleRead(r, g)
    BY <2>3, GoogleReadStep
  <2>4. CASE \E s \in DOMAIN session : RefreshRead(r, s) \/ Logout(r, s)
    BY <2>4, RefreshReadStep, LogoutStep
  <2>5. CASE RegisterWrite(r) \/ RegisterMail(r) \/ VerifyWrite(r) \/ ForgetCode(r)
    BY <2>5, RegisterWriteStep, MailSteps, VerifyWriteStep
  <2>6. CASE CreateSession(r) \/ GoogleWrite(r) \/ RefreshRevoke(r)
    BY <2>6, CreateSessionStep, GoogleWriteStep, RefreshRevokeStep
  <2>7. CASE PasswordWrite(r) \/ PasswordRevoke(r)
    BY <2>7, PasswordWriteStep, PasswordRevokeStep
  <2> QED
    BY <1>1, <2>1, <2>2, <2>3, <2>4, <2>5, <2>6, <2>7 DEF SignInStep
<1> QED
  BY <1>1, CodeExpiresStep, FailuresAgeStep DEF SignInNext

LEMMA SignInSafeFromInv ==
  ASSUME SignInInv
  PROVE  SignInSafe
BY DEF SignInInv, Apart, Sessions, SignInSafe

-----------------------------------------------------------------------------
(* The parts beside each other: a request of one is nothing to another.    *)

LEMMA RequestsAfter ==
  ASSUME DOMAIN req = Requests, NEW pcs, Goes(pcs), NEW p \in Requests
  PROVE  DOMAIN req' = Requests /\ (req'[p] = req[p] \/ req'[p].pc \in pcs)
BY DEF Goes

LEMMA SignInElsewhere ==
  ASSUME SignInInv, UNCHANGED <<account, session>>, Goes(AccessPcs) \/ Goes(BoardPcs)
  PROVE  SignInInv'
<1>1. ASSUME NEW pcs \in {AccessPcs, BoardPcs}, Goes(pcs), NEW p \in Requests
      PROVE  DOMAIN req' = Requests /\ SignInSound(req'[p], account, session)
  <2>1. DOMAIN req' = Requests /\ (req'[p] = req[p] \/ req'[p].pc \in pcs)
    BY <1>1, RequestsAfter DEF SignInInv, SignInRequested
  <2>2. CASE req'[p] = req[p]
    BY <2>1, <2>2, RequestSound
  <2>3. CASE req'[p].pc \in pcs
    BY <1>1, <2>1, <2>3 DEF SignInSound, AccessPcs, BoardPcs
  <2> QED
    BY <2>1, <2>2, <2>3
<1>2. \A p \in Requests : SignInSound(req'[p], account, session)
  BY <1>1
<1>3. DOMAIN req' = Requests
  BY DEF Goes, SignInInv, SignInRequested
<1> QED
  BY <1>2, <1>3 DEF SignInInv, SignInRequested, Accounts, Apart, Sessions

LEMMA AccessElsewhere ==
  ASSUME AccessInv, UNCHANGED accessVars, Goes(SignInPcs) \/ Goes(BoardPcs)
  PROVE  AccessInv'
<1> USE DEF accessVars
<1>1. ASSUME NEW pcs \in {SignInPcs, BoardPcs}, Goes(pcs), NEW p \in Requests
      PROVE  Sound(req'[p], invite, book, key)
  <2>1. DOMAIN req' = Requests /\ (req'[p] = req[p] \/ req'[p].pc \in pcs)
    BY <1>1, RequestsAfter DEF AccessInv, Requested
  <2>2. CASE req'[p] = req[p]
    BY <2>1, <2>2 DEF AccessInv, Requested
  <2>3. CASE req'[p].pc \in pcs
    BY <1>1, <2>1, <2>3 DEF Sound, SignInPcs, BoardPcs
  <2> QED
    BY <2>1, <2>2, <2>3
<1>2. \A p \in Requests : Sound(req'[p], invite, book, key)
  BY <1>1
<1>3. DOMAIN req' = Requests
  BY DEF Goes, AccessInv, Requested
<1>4. Requested'
  BY <1>2, <1>3 DEF Requested
<1>5. Members' /\ Invites'
  BY DEF AccessInv, Members, OwnersOnly, Invites, OneOpenInvite
<1>6. References' /\ KeyBooks'
  BY DEF AccessInv, References, RefsApart, KeyBooks
<1> QED
  BY <1>4, <1>5, <1>6 DEF AccessInv

Importing(r, u) == \E w, from \in Workspaces, v \in Users, role \in Roles : ImportRead(r, u, from, w, v, role)
Accepting(r, u) == \E i \in DOMAIN invite : AcceptRead(r, u, i) /\ ~invite[i].late

LEMMA AccessGoesOn ==
  ASSUME DOMAIN req = Requests, NEW r \in Requests, AccessGoOn(r)
  PROVE  Goes(PlainPcs)
<1>1. ASSUME NEW q, req' = [req EXCEPT ![r] = q], q.pc \in PlainPcs
      PROVE  Goes(PlainPcs)
  BY <1>1, WentBy
<1>2. CASE \/ InviteWrite(r) \/ AcceptWrite(r) \/ UpdateMemberWrite(r) \/ RemoveMemberWrite(r)
           \/ ImportWrite(r) \/ JoinBookWrite(r) \/ KeyWrite(r) \/ RotateWrite(r)
  <2>1. req' = [req EXCEPT ![r] = Idle]
    BY <1>2 DEF InviteWrite, AcceptWrite, UpdateMemberWrite, RemoveMemberWrite, ImportWrite,
                JoinBookWrite, KeyWrite, RotateWrite, Answer, GoOn
  <2> QED
    BY <1>1, <2>1 DEF Idle, AccessPcs, PlainPcs
<1>3. CASE (\E b \in Books : ActivateRead(r, b)) \/ ActivateWrite(r)
  <2>1. \E q : req' = [req EXCEPT ![r] = q] /\ q.pc \in {"idle", "activate", "allocate"}
    BY <1>3 DEF ActivateRead, ActivateWrite, Activating, Answer, GoOn, Idle
  <2> QED
    BY <1>1, <2>1 DEF AccessPcs, PlainPcs
<1> QED
  BY <1>1, <1>2, <1>3 DEF AccessGoOn

LEMMA AccessAsksGo ==
  ASSUME DOMAIN req = Requests, NEW r \in Requests, NEW u \in Users, AccessAsk(r, u)
  PROVE  Goes(PlainPcs) \/ Importing(r, u) \/ Accepting(r, u)
<1> DEFINE Asks == \/ \E kind : AskOnce(r, kind)
                   \/ \E kind, q : q.pc \in PlainPcs /\ Ask(r, kind, q)
<1>0. ASSUME Asks
      PROVE  Goes(PlainPcs)
  BY <1>0, AskGoes, AskOnceGoes DEF AccessPcs, PlainPcs
<1> USE DEF AccessPcs, PlainPcs
<1>1. ASSUME NEW w \in Workspaces, NEW v \in Users, NEW role \in Roles,
             InviteRead(r, u, w, v, role)
      PROVE  Asks
  BY <1>1 DEF InviteRead
<1>2. ASSUME NEW w \in Workspaces, NEW v \in Users, NEW role, NEW tag,
             UpdateMemberRead(r, u, w, v, role, tag) \/ RemoveMemberRead(r, u, w, v)
      PROVE  Asks
  BY <1>2 DEF UpdateMemberRead, RemoveMemberRead
<1>3. ASSUME NEW i \in DOMAIN invite, (AcceptRead(r, u, i) /\ invite[i].late) \/ DeclineInvite(r, u, i)
      PROVE  Asks
  BY <1>3 DEF AcceptRead, DeclineInvite
<1>4. ASSUME NEW b \in Books, (\E v \in Users : JoinBookRead(r, u, b, v))
                              \/ ActivateIntegration(r, u, b) \/ DropBook(r, u, b)
      PROVE  Asks
  <2>1. CASE ActivateIntegration(r, u, b)
    <3>1. PICK q : q = [pc |-> "activate", todo |-> {b}, books |-> {}, ws |-> HomeOf[b], key |-> 0]
      OBVIOUS
    <3>2. q.pc = "activate" /\ Ask(r, "key", q)
      BY <2>1, <3>1 DEF ActivateIntegration
    <3> QED
      BY <3>2
  <2>2. CASE DropBook(r, u, b)
    BY <2>2 DEF DropBook
  <2>3. ASSUME NEW v \in Users, JoinBookRead(r, u, b, v)
        PROVE  Asks
    BY <2>3 DEF JoinBookRead
  <2> HIDE DEF Asks
  <2> QED
    BY <1>4, <2>1, <2>2, <2>3
<1>5. ASSUME NEW bs, (\E w \in Workspaces : CreateKeyRead(r, u, w, bs))
                     \/ (\E k \in DOMAIN key : UpdateKeyRead(r, u, k, bs))
      PROVE  Asks
  <2>1. ASSUME NEW w, NEW k, Ask(r, "key", [pc |-> "activate", todo |-> bs, books |-> bs, ws |-> w, key |-> k])
        PROVE  Asks
    <3>1. PICK q : q = [pc |-> "activate", todo |-> bs, books |-> bs, ws |-> w, key |-> k]
      OBVIOUS
    <3>2. q.pc = "activate" /\ Ask(r, "key", q)
      BY <2>1, <3>1
    <3> QED
      BY <3>2
  <2> HIDE DEF Asks
  <2>2. ASSUME NEW w \in Workspaces, CreateKeyRead(r, u, w, bs)
        PROVE  Asks
    BY <2>1, <2>2 DEF CreateKeyRead
  <2>3. ASSUME NEW k \in DOMAIN key, UpdateKeyRead(r, u, k, bs)
        PROVE  Asks
    BY <2>1, <2>3 DEF UpdateKeyRead
  <2> QED
    BY <1>5, <2>2, <2>3
<1>6. ASSUME NEW k \in DOMAIN key, RotateRead(r, u, k) \/ RevokeKey(r, u, k)
      PROVE  Asks
  BY <1>6 DEF RotateRead, RevokeKey
<1> HIDE DEF Asks
<1> QED
  BY <1>0, <1>1, <1>2, <1>3, <1>4, <1>5, <1>6 DEF AccessAsk, Importing, Accepting

LEMMA AccessGoes ==
  ASSUME DOMAIN req = Requests, NEW r \in Requests,
         AccessGoOn(r) \/ \E u \in Users : AccessAsk(r, u)
  PROVE  Goes(AccessPcs)
<1>1. ASSUME Goes(PlainPcs)
      PROVE  Goes(AccessPcs)
  BY <1>1 DEF Goes, PlainPcs
<1>2. ASSUME NEW u \in Users, Importing(r, u) \/ Accepting(r, u)
      PROVE  Goes(AccessPcs)
  <2>1. ASSUME NEW w, NEW v, NEW role, Ask(r, "import", [pc |-> "import", ws |-> w, to |-> v, role |-> role])
        PROVE  Goes(AccessPcs)
    BY <2>1, AskGoes DEF AccessPcs
  <2>2. ASSUME NEW i, Ask(r, "accept", [pc |-> "accept", invite |-> i])
        PROVE  Goes(AccessPcs)
    BY <2>2, AskGoes DEF AccessPcs
  <2> QED
    BY <1>2, <2>1, <2>2 DEF Importing, Accepting, ImportRead, AcceptRead
<1> QED
  BY <1>1, <1>2, AccessGoesOn, AccessAsksGo

-----------------------------------------------------------------------------
(* People who have shown that an address is theirs.                        *)
People == {u \in Users : Proved(u)}

(* What those who may join, work or ask have shown, for each request.      *)
Welcome(q, people, is) ==
  /\ q.pc = "accept" => is[q.invite].to \in people
  /\ q.pc = "import" => q.to \in people

PeopleInv ==
  /\ \A w \in Workspaces, u \in Users : member[w][u] # None => u \in People
  /\ \A r \in Requests : Welcome(req[r], People, invite)

LEMMA PeopleStay ==
  ASSUME Lasting
  PROVE  People \subseteq People'
<1>1. ASSUME NEW u \in Users, NEW a \in Known(u), account[a].verified
      PROVE  a \in Known(u)' /\ account'[a].verified
  BY <1>1 DEF Lasting, Known
<1> QED
  BY <1>1 DEF People, Proved

LEMMA SameAccounts ==
  ASSUME UNCHANGED account
  PROVE  People' = People
BY DEF People, Proved, Known

LEMMA SignedInPeople ==
  ASSUME Sessions, NEW u \in Users, SignedIn(u)
  PROVE  u \in People
BY DEF Sessions, SignedIn, People, Proved, Known

LEMMA OwnersArePeople ==
  ASSUME PeopleInv, Members, NEW w \in Workspaces
  PROVE  Owner[w] \in People
BY AccessAssumption DEF Members, PeopleInv

(* The requests of others have nobody to welcome.                          *)
LEMMA PeopleElsewhere ==
  ASSUME PeopleInv, DOMAIN req = Requests, UNCHANGED <<member, invite>>, People \subseteq People',
         Goes(SignInPcs) \/ Goes(BoardPcs)
  PROVE  PeopleInv'
<1>1. ASSUME NEW pcs \in {SignInPcs, BoardPcs}, Goes(pcs), NEW p \in Requests
      PROVE  Welcome(req'[p], People', invite)
  <2>1. req'[p] = req[p] \/ req'[p].pc \in pcs
    BY <1>1, RequestsAfter
  <2>2. CASE req'[p] = req[p]
    <3>1. Welcome(req[p], People, invite)
      BY DEF PeopleInv
    <3> QED
      BY <2>2, <3>1 DEF Welcome
  <2>3. CASE req'[p].pc \in pcs
    BY <1>1, <2>3 DEF Welcome, SignInPcs, BoardPcs
  <2> QED
    BY <2>1, <2>2, <2>3
<1>2. \A p \in Requests : Welcome(req'[p], People', invite)
  BY <1>1
<1> QED
  BY <1>2 DEF PeopleInv

(* What an invitation says of whom it is for never changes.                *)
SameGuests == \A i \in DOMAIN invite : i \in DOMAIN invite' /\ invite'[i].to = invite[i].to

LEMMA GuestsAt ==
  ASSUME Invites, NEW i \in DOMAIN invite, NEW state \in {"accepted", "declined", "expired"},
         invite' = [invite EXCEPT ![i].state = state]
  PROVE  SameGuests
<1>1. invite[i] \in InviteRow
  BY RowAt DEF Invites
<1>2. invite' = [invite EXCEPT ![i] = WithState(invite[i], state)]
  BY DEF WithState
<1>3. WithState(invite[i], state).to = invite[i].to
  BY <1>1, StateRow
<1> HIDE DEF WithState
<1> QED
  BY <1>2, <1>3 DEF SameGuests

LEMMA AsksLeave ==
  ASSUME NEW r, NEW u, AccessAsk(r, u)
  PROVE  /\ UNCHANGED member
         /\ UNCHANGED invite \/ \E i \in DOMAIN invite : AcceptRead(r, u, i) \/ DeclineInvite(r, u, i)
<1>1. CASE \E i \in DOMAIN invite : AcceptRead(r, u, i) \/ DeclineInvite(r, u, i)
  BY <1>1 DEF AcceptRead, DeclineInvite
<1>2. ASSUME NEW w \in Workspaces, NEW v \in Users, NEW role \in Roles,
             InviteRead(r, u, w, v, role) \/ \E from \in Workspaces : ImportRead(r, u, from, w, v, role)
      PROVE  UNCHANGED <<member, invite>>
  BY <1>2 DEF InviteRead, ImportRead, accessVars
<1>3. ASSUME NEW w \in Workspaces, NEW v \in Users,
             \/ \E role \in Roles \union {None}, tag \in Tags \union {None} : UpdateMemberRead(r, u, w, v, role, tag)
             \/ RemoveMemberRead(r, u, w, v)
      PROVE  UNCHANGED <<member, invite>>
  BY <1>3 DEF UpdateMemberRead, RemoveMemberRead, accessVars
<1>4. ASSUME NEW b \in Books, \/ \E v \in Users : JoinBookRead(r, u, b, v)
                              \/ ActivateIntegration(r, u, b) \/ DropBook(r, u, b)
      PROVE  UNCHANGED <<member, invite>>
  <2>1. CASE ActivateIntegration(r, u, b) \/ DropBook(r, u, b)
    BY <2>1 DEF ActivateIntegration, DropBook, accessVars
  <2>2. CASE \E v \in Users : JoinBookRead(r, u, b, v)
    BY <2>2 DEF JoinBookRead, accessVars
  <2> QED
    BY <1>4, <2>1, <2>2
<1>5. ASSUME NEW bs \in SUBSET Books, \/ \E w \in Workspaces : CreateKeyRead(r, u, w, bs)
                                      \/ \E k \in DOMAIN key : UpdateKeyRead(r, u, k, bs)
      PROVE  UNCHANGED <<member, invite>>
  BY <1>5 DEF CreateKeyRead, UpdateKeyRead, accessVars
<1>6. ASSUME NEW k \in DOMAIN key, RotateRead(r, u, k) \/ RevokeKey(r, u, k)
      PROVE  UNCHANGED <<member, invite>>
  BY <1>6 DEF RotateRead, RevokeKey, accessVars
<1> QED
  BY <1>1, <1>2, <1>3, <1>4, <1>5, <1>6 DEF AccessAsk

LEMMA AccessKeepsGuests ==
  ASSUME AccessInv, NEW r \in Requests, AccessGoOn(r) \/ \E u \in Users : AccessAsk(r, u)
  PROVE  SameGuests
<1>1. CASE UNCHANGED invite
  BY <1>1 DEF SameGuests
<1>2. CASE InviteWrite(r)
  <2>1. PICK x : UNCHANGED invite \/ invite' = Append(invite, x)
    BY <1>2 DEF InviteWrite
  <2>2. invite \in Seq(InviteRow)
    BY DEF AccessInv, Invites
  <2>3. ASSUME invite' = Append(invite, x)
        PROVE  SameGuests
    <3>1. /\ DOMAIN invite = 1 .. Len(invite) /\ Len(invite) \in Nat
          /\ DOMAIN invite' = 1 .. Len(invite) + 1
          /\ \A i \in 1 .. Len(invite) : invite'[i] = invite[i]
      BY <2>2, <2>3
    <3> QED
      BY <3>1 DEF SameGuests
  <2> QED
    BY <1>1, <2>1, <2>3
<1>3. CASE AcceptWrite(r)
  <2>1. PICK i : i = req[r].invite
    OBVIOUS
  <2>2. i \in DOMAIN invite
    BY <1>3, <2>1 DEF AcceptWrite, At, AccessInv, Requested, Sound
  <2>3. UNCHANGED invite \/ invite' = [invite EXCEPT ![i].state = "accepted"]
    BY <1>3, <2>1 DEF AcceptWrite
  <2> QED
    BY <1>1, <2>2, <2>3, GuestsAt DEF AccessInv
<1>4. ASSUME NEW u \in Users, NEW i \in DOMAIN invite, AcceptRead(r, u, i) \/ DeclineInvite(r, u, i)
      PROVE  SameGuests
  <2>1. \/ UNCHANGED invite \/ invite' = [invite EXCEPT ![i].state = "expired"]
        \/ invite' = [invite EXCEPT ![i].state = "declined"]
    BY <1>4 DEF AcceptRead, DeclineInvite
  <2> QED
    BY <1>1, <2>1, GuestsAt DEF AccessInv
<1>5. ASSUME AccessGoOn(r)
      PROVE  UNCHANGED invite \/ InviteWrite(r) \/ AcceptWrite(r)
  BY <1>5 DEF AccessGoOn, UpdateMemberWrite, RemoveMemberWrite, ImportWrite, JoinBookWrite,
       ActivateRead, ActivateWrite, KeyWrite, RotateWrite, accessVars
<1>6. ASSUME NEW u \in Users, AccessAsk(r, u)
      PROVE  UNCHANGED invite \/ \E i \in DOMAIN invite : AcceptRead(r, u, i) \/ DeclineInvite(r, u, i)
  BY <1>6, AsksLeave
<1> QED
  BY <1>1, <1>2, <1>3, <1>4, <1>5, <1>6

LEMMA LapseKeepsGuests ==
  ASSUME AccessInv, NEW i \in DOMAIN invite, InviteLapses(i)
  PROVE  SameGuests
<1>1. invite' = [invite EXCEPT ![i] = FoundLate(invite[i])]
  BY DEF InviteLapses, FoundLate
<1>2. invite[i] \in InviteRow
  BY RowAt DEF AccessInv, Invites
<1>3. FoundLate(invite[i]).to = invite[i].to
  BY <1>2, LateRow
<1> HIDE DEF FoundLate
<1> QED
  BY <1>1, <1>3 DEF SameGuests

(* Nobody comes in who has shown nothing.                                  *)
NoStrangers ==
  \A w \in Workspaces, u \in Users : member'[w][u] # None => member[w][u] # None \/ u \in People

LEMMA AccessLetsIn ==
  ASSUME AccessInv, PeopleInv, NEW r \in Requests, AccessGoOn(r) \/ \E u \in Users : AccessAsk(r, u)
  PROVE  NoStrangers
<1>1. CASE UNCHANGED member
  BY <1>1 DEF NoStrangers
<1>2. \A w \in Workspaces : member[w] \in [Users -> MemberRow \union {None}]
  BY DEF AccessInv, Members
<1>3. DOMAIN member = Workspaces
  BY DEF AccessInv, Members
<1>4. ASSUME NEW w \in Workspaces, NEW u \in Users, NEW x,
             member' = [member EXCEPT ![w][u] = x],
             x = None \/ member[w][u] # None \/ u \in People
      PROVE  NoStrangers
  BY <1>2, <1>3, <1>4 DEF NoStrangers
<1>5. Sound(req[r], invite, book, key) /\ Welcome(req[r], People, invite)
  BY DEF AccessInv, Requested, PeopleInv
<1>6. CASE AcceptWrite(r)
  <2>1. PICK i, w, u : i = req[r].invite /\ w = invite[i].ws /\ u = invite[i].to
    OBVIOUS
  <2>2. i \in DOMAIN invite /\ u \in People
    BY <1>5, <1>6, <2>1 DEF AcceptWrite, At, Sound, Welcome
  <2>3. w \in Workspaces /\ u \in Users
    <3>1. invite[i] \in InviteRow
      BY <2>2, RowAt DEF AccessInv, Invites
    <3> QED
      BY <2>1, <3>1 DEF InviteRow
  <2>4. UNCHANGED member \/ member' = [member EXCEPT ![w][u] = Row(invite[i].role)]
    BY <1>6, <2>1 DEF AcceptWrite
  <2> QED
    BY <1>1, <1>4, <2>2, <2>3, <2>4
<1>7. CASE ImportWrite(r)
  <2>1. PICK q : q = req[r]
    OBVIOUS
  <2>2. q.ws \in Workspaces /\ q.to \in Users /\ q.to \in People
    BY <1>5, <1>7, <2>1 DEF ImportWrite, At, Sound, Welcome
  <2>3. UNCHANGED member \/ member' = [member EXCEPT ![q.ws][q.to] = Row(q.role)]
    BY <1>7, <2>1 DEF ImportWrite
  <2> QED
    BY <1>1, <1>4, <2>2, <2>3
<1>8. CASE UpdateMemberWrite(r) \/ RemoveMemberWrite(r)
  <2>1. PICK q : q = req[r]
    OBVIOUS
  <2>2. q.ws \in Workspaces /\ q.to \in Users
    BY <1>5, <1>8, <2>1 DEF UpdateMemberWrite, RemoveMemberWrite, At, Sound
  <2>3. \/ UNCHANGED member
        \/ /\ member[q.ws][q.to] # None
           /\ \E x : member' = [member EXCEPT ![q.ws][q.to] = x]
    BY <1>8, <2>1 DEF UpdateMemberWrite, RemoveMemberWrite
  <2> QED
    BY <1>1, <1>4, <2>2, <2>3
<1>9. ASSUME AccessGoOn(r)
      PROVE  \/ UNCHANGED member \/ AcceptWrite(r) \/ ImportWrite(r)
             \/ UpdateMemberWrite(r) \/ RemoveMemberWrite(r)
  BY <1>9 DEF AccessGoOn, InviteWrite, JoinBookWrite, ActivateRead, ActivateWrite, KeyWrite,
       RotateWrite, accessVars
<1>10. ASSUME NEW u \in Users, AccessAsk(r, u)
       PROVE  UNCHANGED member
  BY <1>10, AsksLeave
<1> QED
  BY <1>1, <1>6, <1>7, <1>8, <1>9, <1>10

LEMMA PeopleNext ==
  ASSUME PeopleInv, DOMAIN req = Requests, UNCHANGED account, SameGuests, NoStrangers,
         \A p \in Requests : req[p].pc = "accept" => req[p].invite \in DOMAIN invite,
         \A p \in Requests : Welcome(req'[p], People, invite') \/ req'[p] = req[p]
  PROVE  PeopleInv'
<1>1. People' = People
  BY SameAccounts
<1>2. ASSUME NEW p \in Requests
      PROVE  Welcome(req'[p], People, invite')
  <2>1. CASE req'[p] = req[p]
    <3>1. Welcome(req[p], People, invite)
      BY DEF PeopleInv
    <3> QED
      BY <2>1, <3>1 DEF Welcome, SameGuests
  <2> QED
    BY <2>1
<1> QED
  BY <1>1, <1>2 DEF PeopleInv, NoStrangers

LEMMA AccessPeople ==
  ASSUME AccessInv, PeopleInv, Sessions, UNCHANGED account, NEW r \in Requests,
         AccessGoOn(r) \/ \E u \in Users : SignedIn(u) /\ AccessAsk(r, u)
  PROVE  PeopleInv'
<1>1. SameGuests
  BY AccessKeepsGuests
<1>2. NoStrangers
  BY AccessLetsIn
<1>3. DOMAIN req = Requests
  BY DEF AccessInv, Requested
<1>4. \A p \in Requests : req[p].pc = "accept" => req[p].invite \in DOMAIN invite
  BY DEF AccessInv, Requested, Sound
<1>5. CASE Goes(PlainPcs)
  <2>1. \A p \in Requests : Welcome(req'[p], People, invite') \/ req'[p] = req[p]
    <3> SUFFICES ASSUME NEW p \in Requests, req'[p] # req[p]
                 PROVE  Welcome(req'[p], People, invite')
      OBVIOUS
    <3>1. req'[p].pc \in PlainPcs
      BY <1>3, <1>5, RequestsAfter
    <3> QED
      BY <3>1 DEF PlainPcs, Welcome
  <2> QED
    BY <1>1, <1>2, <1>3, <1>4, <2>1, PeopleNext
<1>6. ASSUME NEW q, req' = [req EXCEPT ![r] = q], Welcome(q, People, invite')
      PROVE  PeopleInv'
  <2>1. \A p \in Requests : Welcome(req'[p], People, invite') \/ req'[p] = req[p]
    BY <1>3, <1>6
  <2> QED
    BY <1>1, <1>2, <1>3, <1>4, <2>1, PeopleNext
<1>7. ASSUME NEW u \in Users, SignedIn(u), Importing(r, u)
      PROVE  PeopleInv'
  <2>1. PICK w, from \in Workspaces, v \in Users, role \in Roles : ImportRead(r, u, from, w, v, role)
    BY <1>7 DEF Importing
  <2>2. PICK q : q = [pc |-> "import", ws |-> w, to |-> v, role |-> role]
    OBVIOUS
  <2>3. req' = [req EXCEPT ![r] = q] /\ member[from][v] # None
    BY <2>1, <2>2 DEF ImportRead, Ask
  <2>4. v \in People
    BY <2>3 DEF PeopleInv
  <2>5. Welcome(q, People, invite')
    BY <2>2, <2>4 DEF Welcome
  <2> QED
    BY <1>6, <2>3, <2>5
<1>8. ASSUME NEW u \in Users, SignedIn(u), Accepting(r, u)
      PROVE  PeopleInv'
  <2>1. PICK i \in DOMAIN invite : AcceptRead(r, u, i) /\ ~invite[i].late
    BY <1>8 DEF Accepting
  <2>2. PICK q : q = [pc |-> "accept", invite |-> i]
    OBVIOUS
  <2>3. req' = [req EXCEPT ![r] = q] /\ invite[i].to = u /\ UNCHANGED invite
    BY <2>1, <2>2 DEF AcceptRead, Ask
  <2>4. u \in People
    BY <1>8, SignedInPeople
  <2>5. Welcome(q, People, invite')
    BY <2>2, <2>3, <2>4 DEF Welcome
  <2> QED
    BY <1>6, <2>3, <2>5
<1> QED
  BY <1>3, <1>5, <1>7, <1>8, AccessGoesOn, AccessAsksGo

-----------------------------------------------------------------------------
(* Tasks, who works on them, the requests and the reports.                 *)

AskRow    == [task : Tasks, by : Users, status : {"PENDING", "APPROVED", "REJECTED", "WITHDRAWN", "DELETED"}]
ReportRow == [task : Tasks, by : Users, status : {"PENDING", "APPROVED", "REJECTED", "DELETED"}]

Placed ==
  /\ task \in [Tasks -> TaskRow \union {None}]
  /\ assigned \subseteq Tasks \X People
  /\ \A x \in assigned : Here(x[1])

OneAsk ==
  \A a, b \in DOMAIN ask :
    a # b /\ ask[a].status = "PENDING" /\ ask[b].status = "PENDING" => <<ask[a].task, ask[a].by>> # <<ask[b].task, ask[b].by>>

Asks ==
  /\ ask \in Seq(AskRow) /\ OneAsk
  /\ \A a \in DOMAIN ask : /\ ask[a].by \in People
                           /\ ask[a].status = "PENDING" => Here(ask[a].task)

OneReport ==
  \A p, q \in DOMAIN report :
    p # q /\ report[p].status \in {"PENDING", "APPROVED"} /\ report[q].status \in {"PENDING", "APPROVED"} =>
      report[p].task # report[q].task

Reports ==
  /\ report \in Seq(ReportRow) /\ OneReport
  /\ \A p \in DOMAIN report : report[p].status = "PENDING" => Here(report[p].task)

(* What a request q has read and still relies on, given the people and the *)
(* rows there are: an approval has its request PENDING to the end.         *)
BoardSound(q, people, as, ps) ==
  /\ q.pc = "task" => /\ q.task \in Tasks /\ q.project \in Projects \union {None, "clear"}
                      /\ q.status \in Statuses \union {None} /\ q.stamp \in BOOLEAN
  /\ q.pc = "add" => q.task \in Tasks /\ q.to \in people
  /\ q.pc \in {"ask", "submit"} => q.task \in Tasks /\ q.by \in people
  /\ q.pc \in {"claim", "assign"} => q.ask \in DOMAIN as /\ q.status \in {"APPROVED", "REJECTED"}
  /\ q.pc = "assign" => as[q.ask].status = "PENDING" /\ q.status = "APPROVED"
  /\ q.pc = "review" => q.report \in DOMAIN ps /\ q.status \in {"APPROVED", "REJECTED"}

(* And no two approvals hold one request.                                  *)
LocksApart ==
  \A p, r \in Requests : p # r /\ At(p, "assign") /\ At(r, "assign") => req[p].ask # req[r].ask

BoardRequested ==
  /\ DOMAIN req = Requests /\ LocksApart
  /\ \A r \in Requests : BoardSound(req[r], People, ask, report)

BoardInv == Placed /\ Asks /\ Reports /\ BoardRequested

BoardSteps == BoardInv' /\ BoardStanding /\ Goes(BoardPcs)

(* Rows are added and never taken away, and a request held stays PENDING.  *)
RowsStay(r) ==
  /\ DOMAIN ask \subseteq DOMAIN ask' /\ DOMAIN report \subseteq DOMAIN report'
  /\ \A p \in Requests : p # r /\ At(p, "assign") => ask'[req[p].ask].status = "PENDING"

LEMMA BoardWrites ==
  ASSUME BoardInv, UNCHANGED account, Placed', Asks', Reports', BoardStanding,
         NEW r \in Requests, NEW q, RowsStay(r), req' = [req EXCEPT ![r] = q], q.pc \in BoardPcs,
         BoardSound(q, People, ask', report'),
         q.pc = "assign" => ~Locked(q.ask)
  PROVE  BoardSteps
<1>1. People' = People
  BY SameAccounts
<1>2. DOMAIN req = Requests /\ DOMAIN req' = Requests /\ req'[r] = q
      /\ \A p \in Requests : p # r => req'[p] = req[p]
  BY DEF BoardInv, BoardRequested
<1>3. ASSUME NEW p \in Requests
      PROVE  BoardSound(req'[p], People, ask', report')
  <2>1. CASE p = r
    BY <1>2, <2>1
  <2>2. CASE p # r
    <3>1. BoardSound(req[p], People, ask, report) /\ req'[p] = req[p]
      BY <1>2, <2>2 DEF BoardInv, BoardRequested
    <3>2. BoardSound(req[p], People, ask', report')
      BY <2>2, <3>1 DEF BoardSound, RowsStay, At
    <3> QED
      BY <3>1, <3>2
  <2> QED
    BY <2>1, <2>2
<1>4. LocksApart'
  <2>1. ASSUME NEW p \in Requests, NEW o \in Requests, p # o,
               req'[p].pc = "assign", req'[o].pc = "assign"
        PROVE  req'[p].ask # req'[o].ask
    <3>1. CASE p # r /\ o # r
      BY <1>2, <2>1, <3>1 DEF BoardInv, BoardRequested, LocksApart, At
    <3>2. CASE p = r
      BY <1>2, <2>1, <3>2 DEF Locked, At
    <3>3. CASE o = r
      BY <1>2, <2>1, <3>3 DEF Locked, At
    <3> QED
      BY <3>1, <3>2, <3>3
  <2> QED
    BY <2>1 DEF LocksApart, At
<1>5. BoardRequested'
  BY <1>1, <1>2, <1>3, <1>4 DEF BoardRequested
<1>6. Goes(BoardPcs)
  BY <1>2, WentBy
<1> QED
  BY <1>5, <1>6 DEF BoardInv, BoardSteps

LEMMA BoardIdles ==
  ASSUME NEW people, NEW as, NEW ps
  PROVE  BoardSound(Idle, people, as, ps) /\ Idle.pc \in BoardPcs /\ Idle.pc # "assign"
BY DEF BoardSound, Idle, BoardPcs

(* Tasks change, and those there are stay.                                 *)
LEMMA TasksKept ==
  ASSUME BoardInv, UNCHANGED <<account, assigned, ask, report>>,
         task' \in [Tasks -> TaskRow \union {None}],
         \A t \in Tasks : Here(t) => Here(t)'
  PROVE  Placed' /\ Asks' /\ Reports' /\ BoardStanding
<1>1. People' = People
  BY SameAccounts
<1>2. \A x \in assigned : x[1] \in Tasks
  BY DEF BoardInv, Placed
<1>3. Placed'
  BY <1>1, <1>2 DEF BoardInv, Placed
<1>4. \A a \in DOMAIN ask : ask[a].task \in Tasks
  <2>1. \A a \in DOMAIN ask : ask[a] \in AskRow
    BY RowAt DEF BoardInv, Asks
  <2> QED
    BY <2>1 DEF AskRow
<1>5. \A p \in DOMAIN report : report[p].task \in Tasks
  <2>1. \A p \in DOMAIN report : report[p] \in ReportRow
    BY RowAt DEF BoardInv, Reports
  <2> QED
    BY <2>1 DEF ReportRow
<1>6. OneAsk' /\ OneReport'
  BY DEF BoardInv, Asks, Reports, OneAsk, OneReport
<1>7. Asks'
  BY <1>1, <1>4, <1>6 DEF BoardInv, Asks
<1>8. Reports'
  BY <1>5, <1>6 DEF BoardInv, Reports
<1>9. BoardStanding
  BY DEF BoardStanding, AsksStand, ReportsStand
<1> QED
  BY <1>3, <1>7, <1>8, <1>9

LEMMA HeldArePending ==
  ASSUME BoardInv, NEW p \in Requests, At(p, "assign")
  PROVE  req[p].ask \in DOMAIN ask /\ ask[req[p].ask].status = "PENDING"
BY DEF BoardInv, BoardRequested, BoardSound, At

LEMMA RowsSame ==
  ASSUME BoardInv, UNCHANGED <<ask, report>>, NEW r \in Requests
  PROVE  RowsStay(r)
BY HeldArePending DEF RowsStay

LEMMA TasksStep ==
  ASSUME BoardInv, UNCHANGED <<account, assigned, ask, report>>,
         task' \in [Tasks -> TaskRow \union {None}],
         \A t \in Tasks : Here(t) => Here(t)',
         NEW r \in Requests, NEW q, req' = [req EXCEPT ![r] = q], q.pc \in BoardPcs \ {"assign"},
         BoardSound(q, People, ask, report)
  PROVE  BoardSteps
<1>1. Placed' /\ Asks' /\ Reports' /\ BoardStanding
  BY TasksKept
<1>2. RowsStay(r)
  BY RowsSame
<1> QED
  BY <1>1, <1>2, BoardWrites

(* A request that only reads, or changes nothing but projects.             *)
LEMMA BoardReads ==
  ASSUME BoardInv, UNCHANGED <<account, task, assigned, ask, report>>,
         NEW r \in Requests, NEW q, req' = [req EXCEPT ![r] = q], q.pc \in BoardPcs \ {"assign"},
         BoardSound(q, People, ask, report)
  PROVE  BoardSteps
<1>1. task' \in [Tasks -> TaskRow \union {None}] /\ \A t \in Tasks : Here(t) => Here(t)'
  BY DEF BoardInv, Placed, Here
<1> QED
  BY <1>1, TasksStep

LEMMA BoardIdle ==
  ASSUME BoardInv, UNCHANGED <<account, task, assigned, ask, report>>,
         NEW r \in Requests, req' = [req EXCEPT ![r] = Idle]
  PROVE  BoardSteps
BY BoardReads, BoardIdles

LEMMA TaskSet ==
  ASSUME BoardInv, UNCHANGED <<account, assigned, ask, report>>, NEW t \in Tasks, NEW x \in TaskRow,
         Here(t) => x.status # "DELETED", task' = [task EXCEPT ![t] = x],
         NEW r \in Requests, req' = [req EXCEPT ![r] = Idle]
  PROVE  BoardSteps
<1>1. task \in [Tasks -> TaskRow \union {None}]
  BY DEF BoardInv, Placed
<1>2. task' \in [Tasks -> TaskRow \union {None}]
  BY <1>1
<1>3. x # None
  BY BoardAssumption
<1>4. \A s \in Tasks : Here(s) => Here(s)'
  BY <1>1, <1>3 DEF Here
<1> QED
  BY <1>2, <1>4, TasksStep, BoardIdles

LEMMA CreateTaskStep ==
  ASSUME BoardInv, UNCHANGED account, NEW r \in Requests, NEW u \in Users, NEW t \in Tasks,
         NEW p \in Projects \union {None}, NEW choice \in Wishes, CreateTask(r, u, t, p, choice)
  PROVE  BoardSteps
<1>1. PICK x : x = [by |-> u, project |-> p, status |-> choice, completed |-> FALSE]
  OBVIOUS
<1>2. x \in TaskRow
  BY <1>1, BoardAssumption DEF TaskRow, Statuses
<1>3. /\ task' = [task EXCEPT ![t] = x] /\ task[t] = None /\ req' = [req EXCEPT ![r] = Idle]
      /\ UNCHANGED <<assigned, ask, report>>
  BY <1>1 DEF CreateTask, AskOnce, Ask, rest
<1>4. ~Here(t)
  BY <1>3 DEF Here
<1> QED
  BY <1>2, <1>3, <1>4, TaskSet

LEMMA TaskWriteStep ==
  ASSUME BoardInv, UNCHANGED account, NEW r \in Requests, TaskWrite(r)
  PROVE  BoardSteps
<1>1. PICK q : q = req[r]
  OBVIOUS
<1>2. /\ q.task \in Tasks /\ q.project \in Projects \union {None, "clear"}
      /\ q.status \in Statuses \union {None} /\ q.stamp \in BOOLEAN
  BY <1>1 DEF TaskWrite, At, BoardInv, BoardRequested, BoardSound
<1>3. req' = [req EXCEPT ![r] = Idle] /\ UNCHANGED <<assigned, ask, report>>
  BY DEF TaskWrite, Answer, GoOn, rest
<1>4. CASE UNCHANGED task
  BY <1>3, <1>4, BoardIdle
<1>5. CASE task' # task
  <2>1. Here(q.task) /\ task' = [task EXCEPT ![q.task] = Moved(task[q.task], q)]
    BY <1>1, <1>5 DEF TaskWrite
  <2>2. PICK row : row = task[q.task]
    OBVIOUS
  <2>3. row \in TaskRow /\ row.status # "DELETED"
    BY <1>2, <2>1, <2>2 DEF Here, BoardInv, Placed
  <2>4. PICK x : x = Moved(row, q)
    OBVIOUS
  <2>5. PICK pr, st : /\ pr = IF q.project = None THEN row.project ELSE IF q.project = "clear" THEN None ELSE q.project
                      /\ st = IF q.status = None THEN row.status ELSE q.status
    OBVIOUS
  <2>6. PICK done \in BOOLEAN : done = IF q.stamp THEN q.status = "DONE" ELSE row.completed
    BY <1>2, <2>3 DEF TaskRow
  <2>7. pr \in Projects \union {None} /\ st \in Statuses \union {"DELETED"} /\ st # "DELETED"
    BY <1>2, <2>3, <2>5 DEF TaskRow, Statuses
  <2>8. x = [row EXCEPT !.project = pr, !.status = st, !.completed = done]
    BY <2>3, <2>4, <2>5, <2>6 DEF Moved, TaskRow
  <2>9. x \in TaskRow /\ x.status # "DELETED"
    BY <2>3, <2>7, <2>8 DEF TaskRow
  <2> QED
    BY <1>2, <1>3, <2>1, <2>2, <2>4, <2>9, TaskSet
<1> QED
  BY <1>4, <1>5

LEMMA DeleteProjectStep ==
  ASSUME BoardInv, UNCHANGED account, NEW r \in Requests, NEW u \in Users, NEW p \in Projects,
         DeleteProject(r, u, p)
  PROVE  BoardSteps
<1>1. task \in [Tasks -> TaskRow \union {None}]
  BY DEF BoardInv, Placed
<1>2. \A row \in TaskRow : LET x == [row EXCEPT !.project = None]
                           IN  x \in TaskRow /\ x.status = row.status
  BY DEF TaskRow
<1>3. task' = [t \in Tasks |-> IF Here(t) /\ task[t].project = p THEN [task[t] EXCEPT !.project = None] ELSE task[t]]
  BY DEF DeleteProject
<1>4. ASSUME NEW t \in Tasks
      PROVE  /\ task'[t] \in TaskRow \union {None}
             /\ Here(t) => Here(t)'
  <2>1. CASE task'[t] = task[t]
    BY <1>1, <2>1 DEF Here
  <2>2. CASE Here(t) /\ task'[t] = [task[t] EXCEPT !.project = None]
    <3>1. task[t] \in TaskRow /\ task[t].status # "DELETED"
      BY <1>1, <2>2 DEF Here
    <3>2. task'[t] \in TaskRow /\ task'[t].status = task[t].status
      BY <1>2, <2>2, <3>1
    <3>3. task'[t] # None
      BY <3>2, BoardAssumption
    <3> QED
      BY <3>1, <3>2, <3>3 DEF Here
  <2> QED
    BY <1>3, <2>1, <2>2
<1>5. task' \in [Tasks -> TaskRow \union {None}]
  BY <1>3, <1>4
<1>6. req' = [req EXCEPT ![r] = Idle] /\ UNCHANGED <<assigned, ask, report>>
  BY DEF DeleteProject, AskOnce, Ask
<1> QED
  BY <1>4, <1>5, <1>6, TasksStep, BoardIdles

(* Who works on what.                                                      *)
LEMMA AssignedStep ==
  ASSUME BoardInv, UNCHANGED <<account, task, ask, report>>,
         assigned' \subseteq Tasks \X People, \A x \in assigned' : Here(x[1]),
         NEW r \in Requests, req' = [req EXCEPT ![r] = Idle]
  PROVE  BoardSteps
<1>1. People' = People
  BY SameAccounts
<1>2. Placed'
  BY <1>1 DEF BoardInv, Placed, Here
<1>3. Asks' /\ Reports'
  BY <1>1 DEF BoardInv, Asks, Reports, OneAsk, OneReport, Here
<1>4. BoardStanding
  BY DEF BoardStanding, AsksStand, ReportsStand
<1> QED
  BY <1>2, <1>3, <1>4, RowsSame, BoardWrites, BoardIdles

LEMMA AssignWriteStep ==
  ASSUME BoardInv, UNCHANGED account, NEW r \in Requests, AssignWrite(r)
  PROVE  BoardSteps
<1>1. PICK q : q = req[r]
  OBVIOUS
<1>2. q.task \in Tasks /\ q.to \in People
  BY <1>1 DEF AssignWrite, At, BoardInv, BoardRequested, BoardSound
<1>3. req' = [req EXCEPT ![r] = Idle] /\ UNCHANGED <<task, ask, report>>
  BY DEF AssignWrite, Answer, GoOn, rest
<1>4. CASE Here(q.task)
  <2>1. assigned' = assigned \union {<<q.task, q.to>>}
    BY <1>1, <1>4 DEF AssignWrite
  <2>2. assigned' \subseteq Tasks \X People /\ \A x \in assigned' : Here(x[1])
    BY <1>2, <1>4, <2>1 DEF BoardInv, Placed
  <2> QED
    BY <1>3, <2>2, AssignedStep
<1>5. CASE ~Here(q.task)
  BY <1>1, <1>3, <1>5, BoardIdle DEF AssignWrite
<1> QED
  BY <1>4, <1>5

LEMMA UnassignStep ==
  ASSUME BoardInv, UNCHANGED account, NEW r \in Requests, NEW u, NEW t, NEW v, Unassign(r, u, t, v)
  PROVE  BoardSteps
<1>1. req' = [req EXCEPT ![r] = Idle] /\ UNCHANGED <<task, ask, report>> /\ assigned' \subseteq assigned
  BY DEF Unassign, AskOnce, Ask, rest
<1>2. assigned' \subseteq Tasks \X People /\ \A x \in assigned' : Here(x[1])
  BY <1>1 DEF BoardInv, Placed
<1> QED
  BY <1>1, <1>2, AssignedStep

-----------------------------------------------------------------------------
(* Requests to take a task on.                                             *)

LEMMA AskRowAt ==
  ASSUME BoardInv, NEW a \in DOMAIN ask
  PROVE  /\ ask[a] \in AskRow /\ ask[a].task \in Tasks /\ ask[a].by \in People
         /\ ask[a].status = "PENDING" => Here(ask[a].task)
<1>1. ask[a] \in AskRow
  BY RowAt DEF BoardInv, Asks
<1> QED
  BY <1>1 DEF AskRow, BoardInv, Asks

LEMMA OneAskLeft ==
  ASSUME OneAsk, DOMAIN ask' = DOMAIN ask,
         \A b \in DOMAIN ask : ask'[b].status = "PENDING" => ask'[b] = ask[b]
  PROVE  OneAsk'
BY DEF OneAsk

(* The status of one request is settled, and nothing else of the requests. *)
LEMMA AskSettled ==
  ASSUME BoardInv, UNCHANGED <<account, task, report>>, NEW a \in DOMAIN ask,
         NEW choice \in {"APPROVED", "REJECTED", "WITHDRAWN"},
         ask' = [ask EXCEPT ![a].status = choice], ask[a].status = "PENDING",
         \A x \in assigned' : x \in assigned \/ x = <<ask[a].task, ask[a].by>>,
         choice = "APPROVED" => <<ask[a].task, ask[a].by>> \in assigned',
         NEW r \in Requests, req' = [req EXCEPT ![r] = Idle],
         \A p \in Requests : p # r /\ At(p, "assign") => req[p].ask # a
  PROVE  BoardSteps
<1>1. People' = People
  BY SameAccounts
<1>2. PICK row : row = ask[a]
  OBVIOUS
<1>3. row \in AskRow /\ row.task \in Tasks /\ row.by \in People /\ Here(row.task)
  BY <1>2, AskRowAt
<1>4. PICK x : x = [row EXCEPT !.status = choice]
  OBVIOUS
<1>5. x \in AskRow /\ x.task = row.task /\ x.by = row.by /\ x.status = choice
  BY <1>3, <1>4 DEF AskRow
<1>6. PICK as : as = [ask EXCEPT ![a] = x]
  OBVIOUS
<1>7. /\ as \in Seq(AskRow) /\ DOMAIN as = DOMAIN ask
      /\ \A b \in DOMAIN ask : as[b] = IF b = a THEN x ELSE ask[b]
  BY <1>5, <1>6, Replaced DEF BoardInv, Asks
<1>8. ask' = as
  BY <1>2, <1>4, <1>6
<1>9. Placed'
  <2>1. assigned' \subseteq Tasks \X People /\ \A y \in assigned' : Here(y[1])
    BY <1>2, <1>3 DEF BoardInv, Placed
  <2> QED
    BY <1>1, <2>1 DEF BoardInv, Placed, Here
<1>10. OneAsk'
  <2>1. \A b \in DOMAIN ask : as[b].status = "PENDING" => as[b] = ask[b]
    BY <1>5, <1>7
  <2>2. OneAsk
    BY DEF BoardInv, Asks
  <2> QED
    <3>1. DOMAIN ask' = DOMAIN ask /\ \A b \in DOMAIN ask : ask'[b].status = "PENDING" => ask'[b] = ask[b]
      BY <1>7, <1>8, <2>1
    <3> QED
      BY <2>2, <3>1, OneAskLeft
<1>11. Asks'
  <2>1. \A b \in DOMAIN ask : /\ ask[b].by \in People
                              /\ ask[b].status = "PENDING" => Here(ask[b].task)
    BY AskRowAt
  <2>2. \A b \in DOMAIN ask : /\ as[b].by \in People
                              /\ as[b].status = "PENDING" => Here(as[b].task)
    BY <1>3, <1>5, <1>7, <2>1
  <2> QED
    BY <1>1, <1>7, <1>8, <1>10, <2>2 DEF Asks, Here
<1>12. Reports'
  BY DEF BoardInv, Reports, OneReport, Here
<1>13. AsksStand
  BY <1>2, <1>5, <1>7, <1>8 DEF AsksStand
<1>14. BoardStanding
  BY <1>13 DEF BoardStanding, ReportsStand
<1>15. RowsStay(r)
  BY <1>7, <1>8, HeldArePending DEF RowsStay
<1> QED
  BY <1>9, <1>11, <1>12, <1>14, <1>15, BoardWrites, BoardIdles

LEMMA WithdrawStep ==
  ASSUME BoardInv, UNCHANGED account, NEW r \in Requests, NEW u, NEW a \in DOMAIN ask, Withdraw(r, u, a)
  PROVE  BoardSteps
<1>1. /\ req' = [req EXCEPT ![r] = Idle] /\ ask' = [ask EXCEPT ![a].status = "WITHDRAWN"]
      /\ UNCHANGED <<task, assigned, report>> /\ ask[a].status = "PENDING" /\ ~Locked(a)
  BY DEF Withdraw, AskOnce, Ask
<1>2. \A p \in Requests : p # r /\ At(p, "assign") => req[p].ask # a
  BY <1>1 DEF Locked
<1> QED
  BY <1>1, <1>2, AskSettled

LEMMA DecideClaimStep ==
  ASSUME BoardInv, UNCHANGED account, NEW r \in Requests, DecideClaim(r)
  PROVE  BoardSteps
<1>1. PICK q : q = req[r]
  OBVIOUS
<1>2. q.ask \in DOMAIN ask /\ q.status \in {"APPROVED", "REJECTED"}
  BY <1>1 DEF DecideClaim, At, BoardInv, BoardRequested, BoardSound
<1>3. ~Locked(q.ask) /\ UNCHANGED <<task, assigned, report>>
  BY <1>1 DEF DecideClaim
<1>4. CASE Claimable(q.ask) /\ q.status = "REJECTED" /\ Answer(r) /\ Decided(q)
  <2>1. req' = [req EXCEPT ![r] = Idle] /\ ask' = [ask EXCEPT ![q.ask].status = "REJECTED"]
    BY <1>4 DEF Answer, GoOn, Decided
  <2>2. \A p \in Requests : p # r /\ At(p, "assign") => req[p].ask # q.ask
    BY <1>3 DEF Locked
  <2>3. ask[q.ask].status = "PENDING"
    BY <1>4 DEF Claimable
  <2>4. \A x \in assigned' : x \in assigned
    BY <1>3
  <2> QED
    BY <1>2, <1>3, <2>1, <2>2, <2>3, <2>4, AskSettled
<1>5. CASE /\ Claimable(q.ask) /\ q.status = "APPROVED" /\ UNCHANGED ask
           /\ GoOn(r, [pc |-> "assign", ask |-> q.ask, status |-> q.status])
  <2>1. PICK z : z = [pc |-> "assign", ask |-> q.ask, status |-> q.status]
    OBVIOUS
  <2>2. BoardSound(z, People, ask, report) /\ z.pc \in BoardPcs /\ z.ask = q.ask
    BY <1>2, <1>5, <2>1 DEF BoardSound, BoardPcs, Claimable
  <2>3. req' = [req EXCEPT ![r] = z]
    BY <1>5, <2>1 DEF GoOn
  <2>4. task' \in [Tasks -> TaskRow \union {None}] /\ \A t \in Tasks : Here(t) => Here(t)'
    BY <1>3 DEF BoardInv, Placed, Here
  <2>5. Placed' /\ Asks' /\ Reports' /\ BoardStanding
    BY <1>3, <1>5, <2>4, TasksKept
  <2>6. RowsStay(r)
    BY <1>3, <1>5, RowsSame
  <2>7. BoardSound(z, People, ask', report')
    BY <1>3, <1>5, <2>2
  <2> QED
    BY <1>3, <2>2, <2>3, <2>5, <2>6, <2>7, BoardWrites
<1>6. CASE Answer(r) /\ UNCHANGED ask
  BY <1>3, <1>6, BoardIdle DEF Answer, GoOn
<1> QED
  BY <1>1, <1>4, <1>5, <1>6 DEF DecideClaim

LEMMA DecideCommitStep ==
  ASSUME BoardInv, UNCHANGED account, NEW r \in Requests, DecideCommit(r)
  PROVE  BoardSteps
<1>1. PICK q : q = req[r]
  OBVIOUS
<1>2. q.ask \in DOMAIN ask /\ q.status = "APPROVED" /\ ask[q.ask].status = "PENDING" /\ At(r, "assign")
  BY <1>1 DEF DecideCommit, At, BoardInv, BoardRequested, BoardSound
<1>3. /\ req' = [req EXCEPT ![r] = Idle] /\ ask' = [ask EXCEPT ![q.ask].status = q.status]
      /\ assigned' = assigned \union {<<ask[q.ask].task, ask[q.ask].by>>}
      /\ UNCHANGED <<task, report>>
  BY <1>1 DEF DecideCommit, Answer, GoOn, Decided
<1>4. \A p \in Requests : p # r /\ At(p, "assign") => req[p].ask # q.ask
  BY <1>1, <1>2 DEF BoardInv, BoardRequested, LocksApart
<1>5. /\ \A x \in assigned' : x \in assigned \/ x = <<ask[q.ask].task, ask[q.ask].by>>
      /\ <<ask[q.ask].task, ask[q.ask].by>> \in assigned'
  BY <1>3
<1> QED
  BY <1>2, <1>3, <1>4, <1>5, AskSettled

LEMMA AskWriteStep ==
  ASSUME BoardInv, UNCHANGED account, NEW r \in Requests, AskWrite(r)
  PROVE  BoardSteps
<1>1. PICK q : q = req[r]
  OBVIOUS
<1>2. q.task \in Tasks /\ q.by \in People
  BY <1>1 DEF AskWrite, At, BoardInv, BoardRequested, BoardSound
<1>3. req' = [req EXCEPT ![r] = Idle] /\ UNCHANGED <<task, assigned, report>>
  BY DEF AskWrite, Answer, GoOn
<1>4. CASE UNCHANGED ask
  BY <1>3, <1>4, BoardIdle
<1>5. CASE ask' # ask
  <2>1. PICK x : x = [task |-> q.task, by |-> q.by, status |-> "PENDING"]
    OBVIOUS
  <2>2. Here(q.task) /\ ~AlreadyAsked(q.task, q.by) /\ ask' = Append(ask, x)
    BY <1>1, <1>5, <2>1 DEF AskWrite
  <2>3. x \in AskRow /\ x.task = q.task /\ x.by = q.by
    BY <1>2, <2>1 DEF AskRow, People
  <2>4. PICK n : n = Len(ask) + 1
    OBVIOUS
  <2>5. PICK as : as = ask'
    OBVIOUS
  <2>6. /\ as \in Seq(AskRow) /\ DOMAIN as = (DOMAIN ask) \union {n}
        /\ n \notin DOMAIN ask /\ as[n] = x
        /\ \A a \in DOMAIN ask : as[a] = ask[a]
    BY <2>2, <2>3, <2>4, <2>5, Appended DEF BoardInv, Asks
  <2>7. \A a \in DOMAIN ask : ask[a].status = "PENDING" => <<ask[a].task, ask[a].by>> # <<q.task, q.by>>
    <3> SUFFICES ASSUME NEW a \in DOMAIN ask, ask[a].status = "PENDING",
                        ask[a].task = q.task, ask[a].by = q.by
                 PROVE  FALSE
      OBVIOUS
    <3>1. ask[a] \in AskRow
      BY AskRowAt
    <3>2. ask[a] = [task |-> q.task, by |-> q.by, status |-> "PENDING"]
      BY <3>1 DEF AskRow
    <3> QED
      BY <2>2, <3>2 DEF AlreadyAsked
  <2>8. OneAsk'
    <3> SUFFICES ASSUME NEW a \in DOMAIN as, NEW b \in DOMAIN as, a # b,
                        as[a].status = "PENDING", as[b].status = "PENDING"
                 PROVE  <<as[a].task, as[a].by>> # <<as[b].task, as[b].by>>
      BY <2>5 DEF OneAsk
    <3>1. CASE a \in DOMAIN ask /\ b \in DOMAIN ask
      BY <2>6, <3>1 DEF BoardInv, Asks, OneAsk
    <3>2. CASE a = n
      BY <2>3, <2>6, <2>7, <3>2
    <3>3. CASE b = n
      BY <2>3, <2>6, <2>7, <3>3
    <3> QED
      BY <2>6, <3>1, <3>2, <3>3
  <2>9. People' = People
    BY SameAccounts
  <2>10. \A a \in DOMAIN as : /\ as[a].by \in People
                              /\ as[a].status = "PENDING" => Here(as[a].task)
    BY <1>2, <2>2, <2>3, <2>6, AskRowAt
  <2>11. Asks'
    BY <1>3, <2>5, <2>6, <2>8, <2>9, <2>10 DEF Asks, Here
  <2>12. Placed' /\ Reports'
    BY <1>3, <2>9 DEF BoardInv, Placed, Reports, OneReport, Here
  <2>13. BoardStanding
    BY <1>3, <2>5, <2>6 DEF BoardStanding, AsksStand, ReportsStand
  <2>14. RowsStay(r)
    BY <1>3, <2>5, <2>6, HeldArePending DEF RowsStay
  <2> QED
    BY <1>3, <2>11, <2>12, <2>13, <2>14, BoardWrites, BoardIdles
<1> QED
  BY <1>4, <1>5

-----------------------------------------------------------------------------
(* Reports that end a task, and its end.                                   *)

LEMMA ReportRowAt ==
  ASSUME BoardInv, NEW p \in DOMAIN report
  PROVE  /\ report[p] \in ReportRow /\ report[p].task \in Tasks
         /\ report[p].status = "PENDING" => Here(report[p].task)
<1>1. report[p] \in ReportRow
  BY RowAt DEF BoardInv, Reports
<1> QED
  BY <1>1 DEF ReportRow, BoardInv, Reports

(* A task changes its status while a report about it comes or is decided.  *)
LEMMA ReportsStep ==
  ASSUME BoardInv, UNCHANGED <<account, assigned, ask>>,
         task' \in [Tasks -> TaskRow \union {None}],
         \A t \in Tasks : Here(t) => Here(t)',
         report' \in Seq(ReportRow), DOMAIN report \subseteq DOMAIN report', OneReport',
         \A p \in DOMAIN report' : report'[p].status = "PENDING" => Here(report'[p].task),
         ReportsStand,
         NEW r \in Requests, req' = [req EXCEPT ![r] = Idle]
  PROVE  BoardSteps
<1>1. People' = People
  BY SameAccounts
<1>2. \A x \in assigned : x[1] \in Tasks
  BY DEF BoardInv, Placed
<1>3. Placed'
  BY <1>1, <1>2 DEF BoardInv, Placed
<1>4. Asks'
  <2>1. OneAsk'
    BY DEF BoardInv, Asks, OneAsk
  <2>2. \A a \in DOMAIN ask : ask[a].task \in Tasks
    BY AskRowAt
  <2> QED
    BY <1>1, <2>1, <2>2 DEF BoardInv, Asks
<1>5. Reports'
  <2>1. \A p \in DOMAIN report' : report'[p].task \in Tasks
    <3>1. \A p \in DOMAIN report' : report'[p] \in ReportRow
      BY RowAt
    <3> QED
      BY <3>1 DEF ReportRow
  <2> QED
    BY <2>1 DEF Reports
<1>6. BoardStanding
  BY DEF BoardStanding, AsksStand
<1>7. RowsStay(r)
  BY HeldArePending DEF RowsStay
<1> QED
  BY <1>3, <1>4, <1>5, <1>6, <1>7, BoardWrites, BoardIdles

LEMMA TaskInReview ==
  ASSUME BoardInv, NEW t \in Tasks, Here(t), NEW choice \in Statuses, NEW done \in BOOLEAN,
         task' = [task EXCEPT ![t].status = choice, ![t].completed = done]
  PROVE  /\ task' \in [Tasks -> TaskRow \union {None}]
         /\ \A s \in Tasks : Here(s) => Here(s)'
         /\ task'[t].status = choice /\ task'[t].completed = done
<1>1. task \in [Tasks -> TaskRow \union {None}]
  BY DEF BoardInv, Placed
<1>2. task[t] \in TaskRow
  BY <1>1 DEF Here
<1>3. PICK x : x = [task[t] EXCEPT !.status = choice, !.completed = done]
  OBVIOUS
<1>4. x \in TaskRow /\ x.status = choice /\ x.completed = done
  BY <1>2, <1>3 DEF TaskRow
<1>5. task' = [task EXCEPT ![t] = x]
  BY <1>1, <1>3
<1>6. x # None /\ x.status # "DELETED"
  BY <1>4, BoardAssumption DEF Statuses
<1>7. \A s \in Tasks : task'[s] = IF s = t THEN x ELSE task[s]
  BY <1>1, <1>5
<1>8. task' \in [Tasks -> TaskRow \union {None}]
  BY <1>1, <1>4, <1>5
<1>9. \A s \in Tasks : Here(s) => Here(s)'
  BY <1>6, <1>7 DEF Here
<1> QED
  BY <1>4, <1>7, <1>8, <1>9

LEMMA SubmitWriteStep ==
  ASSUME BoardInv, UNCHANGED account, NEW r \in Requests, SubmitWrite(r)
  PROVE  BoardSteps
<1>1. PICK q : q = req[r]
  OBVIOUS
<1>2. q.task \in Tasks /\ q.by \in People
  BY <1>1 DEF SubmitWrite, At, BoardInv, BoardRequested, BoardSound
<1>3. req' = [req EXCEPT ![r] = Idle] /\ UNCHANGED <<assigned, ask>>
  BY DEF SubmitWrite, Answer, GoOn
<1>4. CASE UNCHANGED <<report, task>>
  BY <1>3, <1>4, BoardIdle
<1>5. CASE ~UNCHANGED <<report, task>>
  <2>1. PICK x : x = [task |-> q.task, by |-> q.by, status |-> "PENDING"]
    OBVIOUS
  <2>2. /\ Here(q.task) /\ ~LiveReport(q.task) /\ report' = Append(report, x)
        /\ task' = [task EXCEPT ![q.task].status = "IN_REVIEW", ![q.task].completed = FALSE]
    BY <1>1, <1>5, <2>1 DEF SubmitWrite
  <2>3. x \in ReportRow /\ x.task = q.task
    BY <1>2, <2>1 DEF ReportRow, People
  <2>4. PICK n : n = Len(report) + 1
    OBVIOUS
  <2>5. PICK ps : ps = report'
    OBVIOUS
  <2>6. /\ ps \in Seq(ReportRow) /\ DOMAIN ps = (DOMAIN report) \union {n}
        /\ n \notin DOMAIN report /\ ps[n] = x
        /\ \A p \in DOMAIN report : ps[p] = report[p]
    BY <2>2, <2>3, <2>4, <2>5, Appended DEF BoardInv, Reports
  <2>7. \A p \in DOMAIN report : report[p].status \in {"PENDING", "APPROVED"} => report[p].task # q.task
    BY <2>2 DEF LiveReport
  <2>8. OneReport'
    <3> SUFFICES ASSUME NEW a \in DOMAIN ps, NEW b \in DOMAIN ps, a # b,
                        ps[a].status \in {"PENDING", "APPROVED"}, ps[b].status \in {"PENDING", "APPROVED"}
                 PROVE  ps[a].task # ps[b].task
      BY <2>5 DEF OneReport
    <3>1. CASE a \in DOMAIN report /\ b \in DOMAIN report
      BY <2>6, <3>1 DEF BoardInv, Reports, OneReport
    <3>2. CASE a = n
      BY <2>3, <2>6, <2>7, <3>2
    <3>3. CASE b = n
      BY <2>3, <2>6, <2>7, <3>3
    <3> QED
      BY <2>6, <3>1, <3>2, <3>3
  <2>9. /\ task' \in [Tasks -> TaskRow \union {None}]
        /\ \A s \in Tasks : Here(s) => Here(s)'
    BY <1>2, <2>2, TaskInReview DEF Statuses
  <2>10. \A p \in DOMAIN ps : ps[p].status = "PENDING" => Here(ps[p].task)
    BY <2>2, <2>3, <2>6, ReportRowAt
  <2>11. ReportsStand
    BY <2>5, <2>6 DEF ReportsStand
  <2> QED
    BY <1>3, <2>5, <2>6, <2>8, <2>9, <2>10, <2>11, ReportsStep
<1> QED
  BY <1>4, <1>5

LEMMA ReviewWriteStep ==
  ASSUME BoardInv, UNCHANGED account, NEW r \in Requests, ReviewWrite(r)
  PROVE  BoardSteps
<1>1. PICK q : q = req[r]
  OBVIOUS
<1>2. q.report \in DOMAIN report /\ q.status \in {"APPROVED", "REJECTED"}
  BY <1>1 DEF ReviewWrite, At, BoardInv, BoardRequested, BoardSound
<1>3. req' = [req EXCEPT ![r] = Idle] /\ UNCHANGED <<assigned, ask>>
  BY DEF ReviewWrite, Answer, GoOn
<1>4. CASE UNCHANGED <<report, task>>
  BY <1>3, <1>4, BoardIdle
<1>5. CASE ~UNCHANGED <<report, task>>
  <2>1. PICK row, t, done, choice :
          /\ row = report[q.report] /\ t = row.task /\ done = (q.status = "APPROVED")
          /\ choice = IF done THEN "DONE" ELSE "IN_PROGRESS"
    OBVIOUS
  <2>2. /\ row.status = "PENDING" /\ report' = [report EXCEPT ![q.report].status = q.status]
        /\ task' = [task EXCEPT ![t].status = choice, ![t].completed = done]
    BY <1>1, <1>5, <2>1 DEF ReviewWrite, Reviewable
  <2>3. row \in ReportRow /\ t \in Tasks /\ Here(t)
    BY <1>2, <2>1, <2>2, ReportRowAt
  <2>4. PICK x : x = [row EXCEPT !.status = q.status]
    OBVIOUS
  <2>5. x \in ReportRow /\ x.task = t /\ x.status = q.status
    BY <1>2, <2>1, <2>3, <2>4 DEF ReportRow
  <2>6. PICK ps : ps = [report EXCEPT ![q.report] = x]
    OBVIOUS
  <2>7. /\ ps \in Seq(ReportRow) /\ DOMAIN ps = DOMAIN report
        /\ \A p \in DOMAIN report : ps[p] = IF p = q.report THEN x ELSE report[p]
    BY <1>2, <2>5, <2>6, Replaced DEF BoardInv, Reports
  <2>8. report' = ps
    BY <2>1, <2>2, <2>4, <2>6
  <2>9. choice \in Statuses /\ done \in BOOLEAN
    BY <2>1 DEF Statuses
  <2>10. /\ task' \in [Tasks -> TaskRow \union {None}]
         /\ \A s \in Tasks : Here(s) => Here(s)'
         /\ task'[t].status = choice /\ task'[t].completed = done
    BY <2>2, <2>3, <2>9, TaskInReview
  <2>11. OneReport'
    <3>1. \A p \in DOMAIN report :
            /\ ps[p].task = report[p].task
            /\ ps[p].status \in {"PENDING", "APPROVED"} => report[p].status \in {"PENDING", "APPROVED"}
      BY <2>1, <2>2, <2>5, <2>7
    <3>2. OneReport
      BY DEF BoardInv, Reports
    <3> QED
      BY <2>7, <2>8, <3>1, <3>2 DEF OneReport
  <2>12. \A p \in DOMAIN ps : ps[p].status = "PENDING" => Here(ps[p].task)
    BY <2>3, <2>5, <2>7, ReportRowAt
  <2>13. ReportsStand
    <3>1. \A p \in DOMAIN report : p # q.report => ps[p] = report[p]
      BY <2>7
    <3>2. ps[q.report].status = q.status
      BY <1>2, <2>5, <2>7
    <3>3. done <=> q.status = "APPROVED"
      BY <2>1
    <3>4. task'[row.task].status = (IF q.status = "APPROVED" THEN "DONE" ELSE "IN_PROGRESS")
      BY <2>1, <2>10
    <3>5. IF q.status = "APPROVED" THEN task'[row.task].completed ELSE ~task'[row.task].completed
      BY <2>1, <2>10
    <3> QED
      BY <2>1, <2>2, <2>8, <3>1, <3>2, <3>4, <3>5 DEF ReportsStand
  <2> QED
    BY <1>3, <2>7, <2>8, <2>10, <2>11, <2>12, <2>13, ReportsStep
<1> QED
  BY <1>4, <1>5

LEMMA DeletedRows ==
  ASSUME NEW S, NEW rows \in Seq(S), NEW t,
         \A x \in S : [x EXCEPT !.status = "DELETED"] \in S
  PROVE  LET ds == DeletedWith(rows, t)
         IN  /\ ds \in Seq(S) /\ DOMAIN ds = DOMAIN rows
             /\ \A i \in DOMAIN rows :
                  ds[i] = IF rows[i].task = t THEN [rows[i] EXCEPT !.status = "DELETED"] ELSE rows[i]
<1>1. PICK ds : ds = DeletedWith(rows, t)
  OBVIOUS
<1>2. PICK n \in Nat : n = Len(rows) /\ DOMAIN rows = 1 .. n
  BY LenProperties
<1>3. \A i \in DOMAIN rows : rows[i] \in S
  BY RowAt
<1>4. ds = [i \in 1 .. n |-> IF rows[i].task = t THEN [rows[i] EXCEPT !.status = "DELETED"] ELSE rows[i]]
  BY <1>1, <1>2 DEF DeletedWith
<1>5. ds \in [1 .. n -> S]
  BY <1>2, <1>3, <1>4
<1>6. ds \in Seq(S)
  BY <1>5, SeqDef
<1> QED
  BY <1>1, <1>2, <1>4, <1>6

LEMMA DeleteTaskStep ==
  ASSUME BoardInv, UNCHANGED account, NEW r \in Requests, NEW u, NEW t \in Tasks, DeleteTask(r, u, t)
  PROVE  BoardSteps
<1>1. /\ req' = [req EXCEPT ![r] = Idle] /\ Here(t)
      /\ \A a \in DOMAIN ask : ask[a].task = t => ~Locked(a)
      /\ task' = [task EXCEPT ![t].status = "DELETED"]
      /\ assigned' = {x \in assigned : x[1] # t}
  BY DEF DeleteTask, AskOnce, Ask
<1>2. PICK as : as = DeletedWith(ask, t)
  OBVIOUS
<1>3. PICK ps : ps = DeletedWith(report, t)
  OBVIOUS
<1>4. ask' = as /\ report' = ps
  BY <1>2, <1>3 DEF DeleteTask
<1>5. \A x \in AskRow : LET y == [x EXCEPT !.status = "DELETED"]
        IN y \in AskRow /\ y.task = x.task /\ y.by = x.by /\ y.status = "DELETED"
  BY DEF AskRow
<1>6. \A x \in ReportRow : LET y == [x EXCEPT !.status = "DELETED"]
        IN y \in ReportRow /\ y.task = x.task /\ y.status = "DELETED"
  BY DEF ReportRow
<1>7. /\ as \in Seq(AskRow) /\ DOMAIN as = DOMAIN ask
      /\ \A a \in DOMAIN ask : as[a] = IF ask[a].task = t THEN [ask[a] EXCEPT !.status = "DELETED"] ELSE ask[a]
  <2>1. ask \in Seq(AskRow)
    BY DEF BoardInv, Asks
  <2>2. \A x \in AskRow : [x EXCEPT !.status = "DELETED"] \in AskRow
    BY <1>5
  <2> QED
    BY <1>2, <2>1, <2>2, DeletedRows
<1>8. /\ ps \in Seq(ReportRow) /\ DOMAIN ps = DOMAIN report
      /\ \A p \in DOMAIN report : ps[p] = IF report[p].task = t THEN [report[p] EXCEPT !.status = "DELETED"] ELSE report[p]
  <2>1. report \in Seq(ReportRow)
    BY DEF BoardInv, Reports
  <2>2. \A x \in ReportRow : [x EXCEPT !.status = "DELETED"] \in ReportRow
    BY <1>6
  <2> QED
    BY <1>3, <2>1, <2>2, DeletedRows
<1>9. \A a \in DOMAIN ask : /\ as[a].task = ask[a].task /\ as[a].by = ask[a].by
                            /\ as[a].status = IF ask[a].task = t THEN "DELETED" ELSE ask[a].status
  <2> SUFFICES ASSUME NEW a \in DOMAIN ask
               PROVE  /\ as[a].task = ask[a].task /\ as[a].by = ask[a].by
                      /\ as[a].status = IF ask[a].task = t THEN "DELETED" ELSE ask[a].status
    OBVIOUS
  <2>1. PICK row : row = ask[a]
    OBVIOUS
  <2>2. row \in AskRow
    BY <2>1, AskRowAt
  <2>3. as[a] = IF row.task = t THEN [row EXCEPT !.status = "DELETED"] ELSE row
    BY <1>7, <2>1
  <2> QED
    BY <1>5, <2>1, <2>2, <2>3
<1>10. \A p \in DOMAIN report : /\ ps[p].task = report[p].task
                                /\ ps[p].status = IF report[p].task = t THEN "DELETED" ELSE report[p].status
  <2> SUFFICES ASSUME NEW p \in DOMAIN report
               PROVE  /\ ps[p].task = report[p].task
                      /\ ps[p].status = IF report[p].task = t THEN "DELETED" ELSE report[p].status
    OBVIOUS
  <2>1. PICK row : row = report[p]
    OBVIOUS
  <2>2. row \in ReportRow
    BY <2>1, ReportRowAt
  <2>3. ps[p] = IF row.task = t THEN [row EXCEPT !.status = "DELETED"] ELSE row
    BY <1>8, <2>1
  <2> QED
    BY <1>6, <2>1, <2>2, <2>3
<1>11. task \in [Tasks -> TaskRow \union {None}]
  BY DEF BoardInv, Placed
<1>12. PICK x : x = [task[t] EXCEPT !.status = "DELETED"]
  OBVIOUS
<1>13. x \in TaskRow /\ x.status = "DELETED"
  <2>1. task[t] \in TaskRow
    BY <1>1, <1>11 DEF Here
  <2> QED
    BY <1>12, <2>1 DEF TaskRow
<1>14. /\ task' \in [Tasks -> TaskRow \union {None}]
       /\ \A s \in Tasks : task'[s] = IF s = t THEN x ELSE task[s]
  BY <1>1, <1>11, <1>12, <1>13
<1>15. \A s \in Tasks : s # t /\ Here(s) => Here(s)'
  BY <1>14 DEF Here
<1>16. ~Here(t)'
  BY <1>13, <1>14 DEF Here
<1>17. People' = People
  BY SameAccounts
<1>18. Placed'
  BY <1>1, <1>14, <1>15, <1>17 DEF BoardInv, Placed
<1>19. OneAsk'
  <2>1. OneAsk
    BY DEF BoardInv, Asks
  <2> QED
    <3> SUFFICES ASSUME NEW b \in DOMAIN as, NEW c \in DOMAIN as, b # c,
                        as[b].status = "PENDING", as[c].status = "PENDING"
                 PROVE  <<as[b].task, as[b].by>> # <<as[c].task, as[c].by>>
      BY <1>4 DEF OneAsk
    <3>1. ask[b].status = "PENDING" /\ as[b].task = ask[b].task /\ as[b].by = ask[b].by
      BY <1>7, <1>9
    <3>2. ask[c].status = "PENDING" /\ as[c].task = ask[c].task /\ as[c].by = ask[c].by
      BY <1>7, <1>9
    <3>3. <<ask[b].task, ask[b].by>> # <<ask[c].task, ask[c].by>>
      BY <1>7, <2>1, <3>1, <3>2 DEF OneAsk
    <3> QED
      BY <3>1, <3>2, <3>3
<1>20. Asks'
  <2>1. \A a \in DOMAIN as : as[a].by \in People /\ (as[a].status = "PENDING" => Here(as[a].task)')
    BY <1>7, <1>9, <1>15, AskRowAt
  <2> QED
    BY <1>4, <1>7, <1>17, <1>19, <2>1 DEF Asks
<1>21. OneReport'
  <2>1. OneReport
    BY DEF BoardInv, Reports
  <2> QED
    BY <1>4, <1>8, <1>10, <2>1 DEF OneReport
<1>22. Reports'
  <2>1. \A p \in DOMAIN ps : ps[p].status = "PENDING" => Here(ps[p].task)'
    BY <1>8, <1>10, <1>15, ReportRowAt
  <2> QED
    BY <1>4, <1>8, <1>21, <2>1 DEF Reports
<1>23. AsksStand
  <2> SUFFICES ASSUME NEW a \in DOMAIN ask, ask'[a].status # ask[a].status
               PROVE  ask'[a].status = "DELETED" /\ ~Here(ask[a].task)'
    BY DEF AsksStand
  <2>1. ask[a].task = t /\ as[a].status = "DELETED" /\ as[a].task = t
    BY <1>4, <1>9
  <2> QED
    BY <1>4, <1>16, <2>1
<1>24. BoardStanding
  BY <1>4, <1>10, <1>23 DEF BoardStanding, ReportsStand
<1>25. RowsStay(r)
  <2>1. ASSUME NEW p \in Requests, p # r, At(p, "assign")
        PROVE  ask'[req[p].ask].status = "PENDING"
    <3>1. req[p].ask \in DOMAIN ask /\ ask[req[p].ask].status = "PENDING" /\ Locked(req[p].ask)
      BY <2>1, HeldArePending DEF Locked
    <3> QED
      BY <1>1, <1>4, <1>9, <3>1
  <2> QED
    BY <1>4, <1>7, <1>8, <2>1 DEF RowsStay
<1> QED
  BY <1>1, <1>18, <1>20, <1>22, <1>24, <1>25, BoardWrites, BoardIdles

-----------------------------------------------------------------------------
(* The board's own reads, and its projects.                                *)

LEMMA BoardAsked ==
  ASSUME BoardInv, UNCHANGED <<account, task, assigned, ask, report>>, NEW r \in Requests,
         NEW kind, NEW q, Ask(r, kind, q), q.pc \in BoardPcs \ {"assign"},
         BoardSound(q, People, ask, report)
  PROVE  BoardSteps
BY BoardReads DEF Ask

LEMMA MovesRead ==
  ASSUME BoardInv, UNCHANGED <<account, task, assigned, ask, report>>, NEW r \in Requests,
         NEW t \in Tasks, NEW p \in Projects \union {None, "clear"}, NEW st \in Statuses \union {None},
         NEW stamp \in BOOLEAN, NEW kind,
         Ask(r, kind, [pc |-> "task", task |-> t, project |-> p, status |-> st, stamp |-> stamp])
  PROVE  BoardSteps
<1>1. PICK q : q = [pc |-> "task", task |-> t, project |-> p, status |-> st, stamp |-> stamp]
  OBVIOUS
<1>2. BoardSound(q, People, ask, report) /\ q.pc \in BoardPcs \ {"assign"}
  BY <1>1 DEF BoardSound, BoardPcs
<1> QED
  BY <1>1, <1>2, BoardAsked

LEMMA UpdateTaskReadStep ==
  ASSUME BoardInv, UNCHANGED account, NEW r \in Requests, NEW u \in Users, NEW t \in Tasks,
         NEW p \in Projects \union {None, "clear"}, NEW choice \in Wishes \union {None},
         UpdateTaskRead(r, u, t, p, choice)
  PROVE  BoardSteps
<1>1. PICK stamp \in BOOLEAN : stamp = (choice # None)
  OBVIOUS
<1>2. Ask(r, "task", [pc |-> "task", task |-> t, project |-> p, status |-> choice, stamp |-> stamp])
  BY <1>1 DEF UpdateTaskRead
<1>3. choice \in Statuses \union {None} /\ UNCHANGED <<task, assigned, ask, report>>
  BY BoardAssumption DEF UpdateTaskRead, boardVars
<1> QED
  BY <1>2, <1>3, MovesRead

LEMMA ChangeStatusReadStep ==
  ASSUME BoardInv, UNCHANGED account, NEW r \in Requests, NEW u \in Users, NEW t \in Tasks,
         NEW choice \in Wishes, ChangeStatusRead(r, u, t, choice)
  PROVE  BoardSteps
<1>1. Here(t) /\ UNCHANGED <<task, assigned, ask, report>>
  BY DEF ChangeStatusRead, boardVars
<1>2. task[t].completed \in BOOLEAN
  BY <1>1 DEF Here, BoardInv, Placed, TaskRow
<1>3. PICK stamp \in BOOLEAN : stamp = (task[t].completed \/ "DONE" \in {choice, task[t].status})
  BY <1>2
<1>4. Ask(r, "task", [pc |-> "task", task |-> t, project |-> None, status |-> choice, stamp |-> stamp])
  BY <1>3 DEF ChangeStatusRead
<1>5. choice \in Statuses \union {None}
  BY BoardAssumption
<1> QED
  BY <1>1, <1>4, <1>5, MovesRead

LEMMA AssignReadStep ==
  ASSUME BoardInv, PeopleInv, Members, UNCHANGED account, NEW r \in Requests, NEW u \in Users,
         NEW t \in Tasks, NEW v \in Users, AssignRead(r, u, t, v)
  PROVE  BoardSteps
<1>1. PICK q : q = [pc |-> "add", task |-> t, to |-> v, by |-> u]
  OBVIOUS
<1>2. v \in People
  <2>1. member[Desk][v] # None \/ v = Owner[Desk]
    BY DEF AssignRead
  <2> QED
    BY <2>1, BoardAssumption, OwnersArePeople DEF PeopleInv
<1>3. BoardSound(q, People, ask, report) /\ q.pc \in BoardPcs \ {"assign"}
  BY <1>1, <1>2 DEF BoardSound, BoardPcs
<1>4. Ask(r, "assign", q) /\ UNCHANGED <<task, assigned, ask, report>>
  BY <1>1 DEF AssignRead, boardVars
<1> QED
  BY <1>3, <1>4, BoardAsked

LEMMA WishReadSteps ==
  ASSUME BoardInv, UNCHANGED account, NEW r \in Requests, NEW u \in People, NEW t \in Tasks,
         AskRead(r, u, t) \/ SubmitRead(r, u, t)
  PROVE  BoardSteps
<1>1. UNCHANGED <<task, assigned, ask, report>>
  BY DEF AskRead, SubmitRead, boardVars
<1>2. ASSUME NEW kind, NEW pc \in {"ask", "submit"}, Ask(r, kind, [pc |-> pc, task |-> t, by |-> u])
      PROVE  BoardSteps
  <2>1. PICK q : q = [pc |-> pc, task |-> t, by |-> u]
    OBVIOUS
  <2>2. BoardSound(q, People, ask, report) /\ q.pc \in BoardPcs \ {"assign"}
    BY <2>1 DEF BoardSound, BoardPcs
  <2> QED
    BY <1>1, <1>2, <2>1, <2>2, BoardAsked
<1> QED
  BY <1>2 DEF AskRead, SubmitRead

LEMMA DecideReadStep ==
  ASSUME BoardInv, UNCHANGED account, NEW r \in Requests, NEW u, NEW a \in DOMAIN ask,
         NEW choice \in {"APPROVED", "REJECTED"}, DecideRead(r, u, a, choice)
  PROVE  BoardSteps
<1>1. PICK q : q = [pc |-> "claim", ask |-> a, status |-> choice]
  OBVIOUS
<1>2. BoardSound(q, People, ask, report) /\ q.pc \in BoardPcs \ {"assign"}
  BY <1>1 DEF BoardSound, BoardPcs
<1>3. Ask(r, "decide", q) /\ UNCHANGED <<task, assigned, ask, report>>
  BY <1>1 DEF DecideRead, boardVars
<1> QED
  BY <1>2, <1>3, BoardAsked

LEMMA ReviewReadStep ==
  ASSUME BoardInv, UNCHANGED account, NEW r \in Requests, NEW u, NEW p \in DOMAIN report,
         NEW choice \in {"APPROVED", "REJECTED"}, ReviewRead(r, u, p, choice)
  PROVE  BoardSteps
<1>1. PICK q : q = [pc |-> "review", report |-> p, status |-> choice]
  OBVIOUS
<1>2. BoardSound(q, People, ask, report) /\ q.pc \in BoardPcs \ {"assign"}
  BY <1>1 DEF BoardSound, BoardPcs
<1>3. Ask(r, "report", q) /\ UNCHANGED <<task, assigned, ask, report>>
  BY <1>1 DEF ReviewRead, boardVars
<1> QED
  BY <1>2, <1>3, BoardAsked

LEMMA OtherReads ==
  ASSUME BoardInv, UNCHANGED <<account, task, assigned, ask, report>>, NEW r \in Requests,
         NEW kind, NEW q, Ask(r, kind, q), q.pc \in {"project", "join", "crew", "due"}
  PROVE  BoardSteps
<1>1. BoardSound(q, People, ask, report) /\ q.pc \in BoardPcs \ {"assign"}
  BY DEF BoardSound, BoardPcs
<1> QED
  BY <1>1, BoardAsked

LEMMA ProjectSteps ==
  ASSUME BoardInv, UNCHANGED account, NEW r \in Requests, NEW u, NEW p,
         \/ CreateProject(r, u, p)
         \/ \E choice : ProjectRead(r, u, p, choice)
         \/ \E v, role : CrewAddRead(r, u, p, v, role) \/ CrewRead(r, u, p, role)
         \/ \E v \in Users, t \in Tasks : ScanRead(r, t, v)
  PROVE  BoardSteps
<1>1. CASE CreateProject(r, u, p)
  BY <1>1, BoardIdle DEF CreateProject, AskOnce, Ask
<1>2. ASSUME NEW choice, ProjectRead(r, u, p, choice)
      PROVE  BoardSteps
  BY <1>2, OtherReads DEF ProjectRead, boardVars
<1>3. ASSUME NEW v, NEW role, CrewAddRead(r, u, p, v, role)
      PROVE  BoardSteps
  BY <1>3, OtherReads DEF CrewAddRead, boardVars
<1>4. ASSUME NEW role, CrewRead(r, u, p, role)
      PROVE  BoardSteps
  BY <1>4, OtherReads DEF CrewRead, boardVars
<1>5. ASSUME NEW v \in Users, NEW t \in Tasks, ScanRead(r, t, v)
      PROVE  BoardSteps
  BY <1>5, OtherReads DEF ScanRead, boardVars
<1> QED
  BY <1>1, <1>2, <1>3, <1>4, <1>5

LEMMA PlanWriteSteps ==
  ASSUME BoardInv, UNCHANGED account, NEW r \in Requests,
         ProjectWrite(r) \/ CrewAddWrite(r) \/ CrewWrite(r) \/ ScanAdd(r)
  PROVE  BoardSteps
BY BoardIdle DEF ProjectWrite, CrewAddWrite, CrewWrite, ScanAdd, boardVars, Answer, GoOn

LEMMA BoardGoesOn ==
  ASSUME BoardInv, UNCHANGED account, NEW r \in Requests, BoardGoOn(r)
  PROVE  BoardSteps
<1>1. CASE TaskWrite(r) \/ AssignWrite(r) \/ AskWrite(r) \/ SubmitWrite(r)
  BY <1>1, TaskWriteStep, AssignWriteStep, AskWriteStep, SubmitWriteStep
<1>2. CASE DecideClaim(r) \/ DecideCommit(r) \/ ReviewWrite(r)
  BY <1>2, DecideClaimStep, DecideCommitStep, ReviewWriteStep
<1>3. CASE ProjectWrite(r) \/ CrewAddWrite(r) \/ CrewWrite(r) \/ ScanAdd(r)
  BY <1>3, PlanWriteSteps
<1>4. CASE \E t \in Tasks, u \in Users : ScanRead(r, t, u)
  <2>1. PICK t \in Tasks, u \in Users : ScanRead(r, t, u)
    BY <1>4
  <2> QED
    BY <2>1, ProjectSteps
<1> QED
  BY <1>1, <1>2, <1>3, <1>4 DEF BoardGoOn

LEMMA BoardAsksStep ==
  ASSUME BoardInv, PeopleInv, Members, UNCHANGED account, NEW r \in Requests, NEW u \in People,
         BoardAsk(r, u)
  PROVE  BoardSteps
<1>0. u \in Users
  BY DEF People
<1>1. ASSUME NEW t \in Tasks,
             \/ \E p \in Projects \union {None}, choice \in Wishes : CreateTask(r, u, t, p, choice)
             \/ \E p \in Projects \union {None, "clear"}, choice \in Wishes \union {None} :
                  UpdateTaskRead(r, u, t, p, choice)
             \/ \E choice \in Wishes : ChangeStatusRead(r, u, t, choice)
      PROVE  BoardSteps
  BY <1>0, <1>1, CreateTaskStep, UpdateTaskReadStep, ChangeStatusReadStep
<1>2. ASSUME NEW t \in Tasks,
             \/ DeleteTask(r, u, t) \/ AskRead(r, u, t) \/ SubmitRead(r, u, t)
             \/ \E v \in Users : AssignRead(r, u, t, v) \/ Unassign(r, u, t, v)
      PROVE  BoardSteps
  BY <1>0, <1>2, DeleteTaskStep, WishReadSteps, AssignReadStep, UnassignStep
<1>3. CASE \E a \in DOMAIN ask : Withdraw(r, u, a)
  BY <1>3, WithdrawStep
<1>4. ASSUME NEW choice \in {"APPROVED", "REJECTED"},
             \/ \E a \in DOMAIN ask : DecideRead(r, u, a, choice)
             \/ \E p \in DOMAIN report : ReviewRead(r, u, p, choice)
      PROVE  BoardSteps
  BY <1>4, DecideReadStep, ReviewReadStep
<1>5. ASSUME NEW p \in Projects,
             \/ CreateProject(r, u, p) \/ DeleteProject(r, u, p)
             \/ \E choice \in {"ACTIVE", "COMPLETED", "ARCHIVED"} : ProjectRead(r, u, p, choice)
             \/ \E v \in Users, role \in Parts : CrewAddRead(r, u, p, v, role)
      PROVE  BoardSteps
  BY <1>0, <1>5, DeleteProjectStep, ProjectSteps
<1>6. CASE \E c \in DOMAIN crew, role \in Parts \union {None} : CrewRead(r, u, c, role)
  BY <1>6, ProjectSteps
<1> QED
  BY <1>1, <1>2, <1>3, <1>4, <1>5, <1>6 DEF BoardAsk

LEMMA BoardSafeFromInv ==
  ASSUME BoardInv
  PROVE  BoardSafe
BY DEF BoardInv, Placed, Asks, OneAsk, Reports, OneReport, BoardSafe

(* The steps of the others, in which people only come to show more.        *)
LEMMA BoardElsewhere ==
  ASSUME BoardInv, UNCHANGED <<task, assigned, ask, report>>, People \subseteq People',
         Goes(SignInPcs) \/ Goes(AccessPcs)
  PROVE  BoardInv'
<1>1. ASSUME NEW pcs \in {SignInPcs, AccessPcs}, Goes(pcs), NEW p \in Requests
      PROVE  BoardSound(req'[p], People', ask, report) /\ (At(p, "assign")' => req'[p] = req[p])
  <2>1. req'[p] = req[p] \/ req'[p].pc \in pcs
    BY <1>1, RequestsAfter DEF BoardInv, BoardRequested
  <2>2. CASE req'[p] = req[p]
    <3>1. BoardSound(req[p], People, ask, report)
      BY DEF BoardInv, BoardRequested
    <3> QED
      BY <2>2, <3>1 DEF BoardSound
  <2>3. CASE req'[p].pc \in pcs
    BY <1>1, <2>3 DEF BoardSound, SignInPcs, AccessPcs, At
  <2> QED
    BY <2>1, <2>2, <2>3
<1>2. \A p \in Requests : BoardSound(req'[p], People', ask, report) /\ (At(p, "assign")' => req'[p] = req[p])
  BY <1>1
<1>3. DOMAIN req' = Requests
  BY DEF Goes, BoardInv, BoardRequested
<1>4. LocksApart'
  BY <1>2 DEF BoardInv, BoardRequested, LocksApart, At
<1>5. BoardRequested'
  BY <1>2, <1>3, <1>4 DEF BoardRequested
<1>6. Placed' /\ Asks' /\ Reports'
  BY DEF BoardInv, Placed, Asks, OneAsk, Reports, OneReport, Here
<1> QED
  BY <1>5, <1>6 DEF BoardInv

-----------------------------------------------------------------------------
(* Notifications.                                                          *)

Rowed(s) == \E S : s \in Seq(S)
Told     == {"to", "type", "about"}

NoticeInv ==
  /\ Rowed(notice) /\ ToldOnce
  /\ \A n \in DOMAIN notice : Told \subseteq DOMAIN notice[n]

LEMMA Indexed ==
  ASSUME NEW s, Rowed(s)
  PROVE  DOMAIN s = 1 .. Len(s) /\ Len(s) \in Nat
<1>1. PICK S : s \in Seq(S)
  BY DEF Rowed
<1> QED
  BY <1>1, LenProperties

(* Any function on the indices of a sequence is one.                       *)
LEMMA RowedAgain ==
  ASSUME NEW s, Rowed(s), NEW t, t = [n \in DOMAIN s |-> t[n]]
  PROVE  Rowed(t) /\ DOMAIN t = DOMAIN s
<1>1. DOMAIN s = 1 .. Len(s) /\ Len(s) \in Nat
  BY Indexed
<1>2. PICK k \in Nat : k = Len(s)
  BY <1>1
<1>3. DOMAIN t = DOMAIN s
  OBVIOUS
<1>4. PICK S : S = {t[n] : n \in 1 .. k}
  OBVIOUS
<1>5. \A n \in 1 .. k : t[n] \in S
  BY <1>4
<1>6. t = [n \in 1 .. k |-> t[n]]
  BY <1>1, <1>2
<1>7. t \in [1 .. k -> S]
  BY <1>5, <1>6
<1>8. t \in Seq(S)
  BY <1>7, SeqDef
<1> QED
  BY <1>3, <1>8 DEF Rowed

(* Rows that keep what they are about.                                     *)
SameNews(x, y) == Told \subseteq DOMAIN y /\ y.to = x.to /\ y.type = x.type /\ y.about = x.about

LEMMA NewsKept ==
  ASSUME NoticeInv, notice' = [n \in DOMAIN notice |-> notice'[n]],
         \A n \in DOMAIN notice : SameNews(notice[n], notice'[n])
  PROVE  NoticeInv'
<1>1. Rowed(notice') /\ DOMAIN notice' = DOMAIN notice
  <2>1. PICK t : t = notice'
    OBVIOUS
  <2>2. t = [n \in DOMAIN notice |-> t[n]]
    BY <2>1
  <2> QED
    BY <2>1, <2>2, RowedAgain DEF NoticeInv
<1>2. ToldOnce'
  BY <1>1 DEF NoticeInv, ToldOnce, SameGroup, SameNews
<1>3. \A n \in DOMAIN notice' : Told \subseteq DOMAIN notice'[n]
  BY <1>1 DEF SameNews
<1> QED
  BY <1>1, <1>2, <1>3 DEF NoticeInv

LEMMA ReadRow ==
  ASSUME NEW x, Told \subseteq DOMAIN x, NEW b, NEW y,
         \/ y = x \/ y = [x EXCEPT !.read = b] \/ y = [x EXCEPT !.recent = b] \/ y = [x EXCEPT !.task = b]
  PROVE  SameNews(x, y)
BY DEF Told, SameNews

LEMMA MarkedStep ==
  ASSUME NoticeInv, NEW u, MarkAllRead(u)
  PROVE  NoticeInv'
<1>1. notice' = [n \in DOMAIN notice |-> IF notice[n].to = u THEN [notice[n] EXCEPT !.read = TRUE] ELSE notice[n]]
  BY DEF MarkAllRead
<1>2. \A n \in DOMAIN notice : Told \subseteq DOMAIN notice[n]
  BY DEF NoticeInv
<1>3. \A n \in DOMAIN notice : SameNews(notice[n], notice'[n])
  <2> SUFFICES ASSUME NEW n \in DOMAIN notice
               PROVE  SameNews(notice[n], notice'[n])
    OBVIOUS
  <2>1. PICK x, y : x = notice[n] /\ y = notice'[n]
    OBVIOUS
  <2>2. y = x \/ y = [x EXCEPT !.read = TRUE]
    BY <1>1, <2>1
  <2>3. Told \subseteq DOMAIN x
    BY <1>2, <2>1
  <2>4. SameNews(x, y)
    BY <2>2, <2>3, ReadRow
  <2> QED
    BY <2>1, <2>4
<1>4. notice' = [n \in DOMAIN notice |-> notice'[n]]
  BY <1>1
<1> QED
  BY <1>3, <1>4, NewsKept

LEMMA CooledStep ==
  ASSUME NoticeInv, CooldownPasses
  PROVE  NoticeInv'
<1>1. notice' = [n \in DOMAIN notice |-> [notice[n] EXCEPT !.recent = FALSE]]
  BY DEF CooldownPasses
<1>2. \A n \in DOMAIN notice : Told \subseteq DOMAIN notice[n]
  BY DEF NoticeInv
<1>3. \A n \in DOMAIN notice : SameNews(notice[n], notice'[n])
  <2> SUFFICES ASSUME NEW n \in DOMAIN notice
               PROVE  SameNews(notice[n], notice'[n])
    OBVIOUS
  <2>1. PICK x, y : x = notice[n] /\ y = notice'[n]
    OBVIOUS
  <2>2. y = [x EXCEPT !.recent = FALSE]
    BY <1>1, <2>1
  <2>3. Told \subseteq DOMAIN x
    BY <1>2, <2>1
  <2>4. SameNews(x, y)
    BY <2>2, <2>3, ReadRow
  <2> QED
    BY <2>1, <2>4
<1>4. notice' = [n \in DOMAIN notice |-> notice'[n]]
  BY <1>1
<1> QED
  BY <1>3, <1>4, NewsKept

LEMMA UnlinkedStep ==
  ASSUME NoticeInv, NEW r, NEW u, NEW t, DeleteTask(r, u, t)
  PROVE  NoticeInv'
<1>1. notice' = [n \in DOMAIN notice |-> IF notice[n].task = t THEN [notice[n] EXCEPT !.task = None] ELSE notice[n]]
  BY DEF DeleteTask
<1>2. \A n \in DOMAIN notice : Told \subseteq DOMAIN notice[n]
  BY DEF NoticeInv
<1>3. \A n \in DOMAIN notice : SameNews(notice[n], notice'[n])
  <2> SUFFICES ASSUME NEW n \in DOMAIN notice
               PROVE  SameNews(notice[n], notice'[n])
    OBVIOUS
  <2>1. PICK x, y : x = notice[n] /\ y = notice'[n]
    OBVIOUS
  <2>2. y = x \/ y = [x EXCEPT !.task = None]
    BY <1>1, <2>1
  <2>3. Told \subseteq DOMAIN x
    BY <1>2, <2>1
  <2>4. SameNews(x, y)
    BY <2>2, <2>3, ReadRow
  <2> QED
    BY <2>1, <2>4
<1>4. notice' = [n \in DOMAIN notice |-> notice'[n]]
  BY <1>1
<1> QED
  BY <1>3, <1>4, NewsKept

(* The upsert: the row there is, or the only one.                          *)
LEMMA WrittenStep ==
  ASSUME NoticeInv, NEW j, notice' = Written(j)
  PROVE  NoticeInv'
<1>1. CASE \E n \in DOMAIN notice : SameGroup(notice[n], job[j])
  <2>1. notice' = [n \in DOMAIN notice |-> IF SameGroup(notice[n], job[j]) THEN [notice[n] EXCEPT !.read = FALSE]
                                           ELSE notice[n]]
    BY <1>1 DEF Written
  <2>2. \A n \in DOMAIN notice : Told \subseteq DOMAIN notice[n]
    BY DEF NoticeInv
  <2>3. \A n \in DOMAIN notice : SameNews(notice[n], notice'[n])
    <3> SUFFICES ASSUME NEW n \in DOMAIN notice
                 PROVE  SameNews(notice[n], notice'[n])
      OBVIOUS
    <3>1. PICK x, y : x = notice[n] /\ y = notice'[n]
      OBVIOUS
    <3>2. y = x \/ y = [x EXCEPT !.read = FALSE]
      BY <2>1, <3>1
    <3>3. Told \subseteq DOMAIN x
      BY <2>2, <3>1
    <3>4. SameNews(x, y)
      BY <3>2, <3>3, ReadRow
    <3> QED
      BY <3>1, <3>4
  <2>4. notice' = [n \in DOMAIN notice |-> notice'[n]]
    BY <2>1
  <2> QED
    BY <2>3, <2>4, NewsKept
<1>2. CASE ~\E n \in DOMAIN notice : SameGroup(notice[n], job[j])
  <2>1. PICK x : x = [to |-> job[j].to, type |-> job[j].type, about |-> job[j].about,
                      task |-> job[j].task, read |-> FALSE, recent |-> TRUE]
    OBVIOUS
  <2>2. notice' = Append(notice, x)
    BY <1>2, <2>1 DEF Written
  <2>3. PICK S : notice \in Seq(S)
    BY DEF NoticeInv, Rowed
  <2>4. PICK T : T = S \union {x}
    OBVIOUS
  <2>5. notice \in Seq(T) /\ x \in T
    <3>1. notice \in [1 .. Len(notice) -> S] /\ Len(notice) \in Nat
      BY <2>3, LenProperties
    <3>2. notice \in [1 .. Len(notice) -> T]
      BY <2>4, <3>1
    <3> QED
      BY <2>4, <3>1, <3>2, SeqDef
  <2>6. PICK k : k = Len(notice) + 1
    OBVIOUS
  <2>7. PICK ns : ns = notice'
    OBVIOUS
  <2>8. /\ ns \in Seq(T) /\ DOMAIN ns = (DOMAIN notice) \union {k} /\ k \notin DOMAIN notice
        /\ ns[k] = x /\ \A n \in DOMAIN notice : ns[n] = notice[n]
    BY <2>2, <2>5, <2>6, <2>7, Appended
  <2>9. x.to = job[j].to /\ x.type = job[j].type /\ x.about = job[j].about /\ Told \subseteq DOMAIN x
    BY <2>1 DEF Told
  <2>10. \A n \in DOMAIN notice : ~SameGroup(notice[n], x) /\ ~SameGroup(x, notice[n])
    BY <1>2, <2>9 DEF SameGroup
  <2>11. \A m, n \in DOMAIN ns : m # n => ~SameGroup(ns[m], ns[n])
    BY <2>8, <2>10 DEF NoticeInv, ToldOnce
  <2>12. \A n \in DOMAIN ns : Told \subseteq DOMAIN ns[n]
    BY <2>8, <2>9 DEF NoticeInv
  <2> QED
    BY <2>7, <2>8, <2>11, <2>12 DEF NoticeInv, Rowed, ToldOnce
<1> QED
  BY <1>1, <1>2

LEMMA DeletedStep ==
  ASSUME NoticeInv, NEW n \in DOMAIN notice, DeleteNotice(n)
  PROVE  NoticeInv'
<1>1. PICK S : notice \in Seq(S)
  BY DEF NoticeInv, Rowed
<1>2. PICK k \in Nat : k = Len(notice) /\ DOMAIN notice = 1 .. k /\ \A i \in 1 .. k : notice[i] \in S
  BY <1>1, LenProperties, RowAt
<1>3. n \in 1 .. k
  BY <1>2
<1>4. PICK s1, s2 : s1 = SubSeq(notice, 1, n - 1) /\ s2 = SubSeq(notice, n + 1, k)
  OBVIOUS
<1>5. /\ s1 \in Seq(S) /\ Len(s1) = n - 1
      /\ \A i \in 1 .. n - 1 : s1[i] = notice[i]
  BY <1>2, <1>3, <1>4, SubSeqProperties
<1>6. /\ s2 \in Seq(S) /\ Len(s2) = k - n
      /\ \A i \in 1 .. k - n : s2[i] = notice[n + i]
  BY <1>2, <1>3, <1>4, SubSeqProperties
<1>7. PICK ns : ns = s1 \o s2
  OBVIOUS
<1>8. ns \in Seq(S) /\ Len(ns) = k - 1 /\ DOMAIN ns = 1 .. k - 1
  <2>1. ns \in Seq(S) /\ Len(ns) = Len(s1) + Len(s2)
    BY <1>5, <1>6, <1>7, ConcatProperties
  <2>2. Len(ns) = k - 1
    BY <1>3, <1>5, <1>6, <2>1
  <2> QED
    BY <2>1, <2>2, LenProperties
<1>9. \A i \in 1 .. k - 1 : ns[i] = IF i < n THEN notice[i] ELSE notice[i + 1]
  <2>1. \A i \in 1 .. Len(s1) + Len(s2) : ns[i] = IF i <= Len(s1) THEN s1[i] ELSE s2[i - Len(s1)]
    BY <1>5, <1>6, <1>7, ConcatProperties
  <2> SUFFICES ASSUME NEW i \in 1 .. k - 1
               PROVE  ns[i] = IF i < n THEN notice[i] ELSE notice[i + 1]
    OBVIOUS
  <2>2. ns[i] = IF i <= n - 1 THEN s1[i] ELSE s2[i - (n - 1)]
    BY <1>3, <1>5, <1>6, <2>1
  <2>3. CASE i < n
    BY <1>3, <1>5, <2>2, <2>3
  <2>4. CASE ~(i < n)
    <3>1. i - (n - 1) \in 1 .. k - n /\ n + (i - (n - 1)) = i + 1
      BY <1>3, <2>4
    <3>2. ns[i] = s2[i - (n - 1)]
      BY <1>3, <2>2, <2>4
    <3>3. s2[i - (n - 1)] = notice[n + (i - (n - 1))]
      BY <1>6, <3>1
    <3> QED
      BY <2>4, <3>1, <3>2, <3>3
  <2> QED
    BY <2>3, <2>4
<1>10. notice' = ns
  BY <1>2, <1>4, <1>7 DEF DeleteNotice, RemoveAt
<1>11. \A i \in 1 .. k - 1 : \E p \in 1 .. k : ns[i] = notice[p] /\ p = IF i < n THEN i ELSE i + 1
  BY <1>3, <1>9
<1>12. \A a, b \in 1 .. k - 1 : a # b => ~SameGroup(ns[a], ns[b])
  <2> SUFFICES ASSUME NEW a \in 1 .. k - 1, NEW b \in 1 .. k - 1, a # b
               PROVE  ~SameGroup(ns[a], ns[b])
    OBVIOUS
  <2>1. PICK p \in 1 .. k : ns[a] = notice[p] /\ p = IF a < n THEN a ELSE a + 1
    BY <1>11
  <2>2. PICK o \in 1 .. k : ns[b] = notice[o] /\ o = IF b < n THEN b ELSE b + 1
    BY <1>11
  <2>3. p # o
    BY <1>3, <2>1, <2>2
  <2>4. ~SameGroup(notice[p], notice[o])
    BY <1>2, <2>3 DEF NoticeInv, ToldOnce
  <2> QED
    BY <2>1, <2>2, <2>4
<1>13. \A i \in 1 .. k - 1 : Told \subseteq DOMAIN ns[i]
  BY <1>2, <1>11 DEF NoticeInv
<1> QED
  BY <1>8, <1>10, <1>12, <1>13 DEF NoticeInv, Rowed, ToldOnce

LEMMA NoticesSame ==
  ASSUME NoticeInv, UNCHANGED notice
  PROVE  NoticeInv'
BY DEF NoticeInv, ToldOnce

LEMMA NoticeSteps ==
  ASSUME NoticeInv, NoticeStep
  PROVE  NoticeInv'
<1>1. ASSUME NEW j \in DOMAIN job, Deliver(j, There) \/ DeliverFails(j, There)
      PROVE  NoticeInv'
  <2>1. UNCHANGED notice \/ notice' = Written(j)
    BY <1>1 DEF Deliver, DeliverFails
  <2> QED
    BY <2>1, NoticesSame, WrittenStep
<1> QED
  BY <1>1, MarkedStep, DeletedStep, CooledStep DEF NoticeStep

(* The board tells through the queue, and unlinks what is deleted.         *)
LEMMA BoardNotices ==
  ASSUME NoticeInv, NEW r, BoardGoOn(r) \/ \E u \in Users : BoardAsk(r, u)
  PROVE  NoticeInv'
<1> USE DEF Tell, Dispatch, noticeVars
<1>1. CASE TaskWrite(r) \/ AssignWrite(r) \/ AskWrite(r) \/ SubmitWrite(r)
  <2>1. UNCHANGED notice
    BY <1>1 DEF TaskWrite, AssignWrite, AskWrite, SubmitWrite
  <2> QED
    BY <2>1, NoticesSame
<1>2. CASE DecideClaim(r) \/ DecideCommit(r) \/ ReviewWrite(r)
  <2>1. UNCHANGED notice
    BY <1>2 DEF DecideClaim, DecideCommit, ReviewWrite, Decided
  <2> QED
    BY <2>1, NoticesSame
<1>3. CASE ProjectWrite(r) \/ CrewAddWrite(r) \/ CrewWrite(r) \/ ScanAdd(r)
  <2>1. UNCHANGED notice
    BY <1>3 DEF ProjectWrite, CrewAddWrite, CrewWrite, ScanAdd
  <2> QED
    BY <2>1, NoticesSame
<1>4. ASSUME NEW t \in Tasks, NEW u \in Users, ScanRead(r, t, u)
      PROVE  NoticeInv'
  BY <1>4, NoticesSame DEF ScanRead
<1>5. ASSUME NEW u \in Users, BoardAsk(r, u)
      PROVE  NoticeInv'
  <2>1. ASSUME NEW t \in Tasks,
               \/ \E p \in Projects \union {None}, choice \in Wishes : CreateTask(r, u, t, p, choice)
               \/ \E p \in Projects \union {None, "clear"}, choice \in Wishes \union {None} :
                    UpdateTaskRead(r, u, t, p, choice)
               \/ \E choice \in Wishes : ChangeStatusRead(r, u, t, choice)
        PROVE  UNCHANGED notice
    BY <2>1 DEF CreateTask, UpdateTaskRead, ChangeStatusRead
  <2>2. ASSUME NEW t \in Tasks,
               \/ AskRead(r, u, t) \/ SubmitRead(r, u, t)
               \/ \E v \in Users : AssignRead(r, u, t, v) \/ Unassign(r, u, t, v)
        PROVE  UNCHANGED notice
    BY <2>2 DEF AskRead, SubmitRead, AssignRead, Unassign
  <2>3. CASE \E a \in DOMAIN ask : Withdraw(r, u, a)
    BY <2>3, NoticesSame DEF Withdraw
  <2>4. ASSUME NEW choice \in {"APPROVED", "REJECTED"},
               \/ \E a \in DOMAIN ask : DecideRead(r, u, a, choice)
               \/ \E p \in DOMAIN report : ReviewRead(r, u, p, choice)
        PROVE  UNCHANGED notice
    BY <2>4 DEF DecideRead, ReviewRead
  <2>5. ASSUME NEW p \in Projects,
               \/ CreateProject(r, u, p) \/ DeleteProject(r, u, p)
               \/ \E choice \in {"ACTIVE", "COMPLETED", "ARCHIVED"} : ProjectRead(r, u, p, choice)
               \/ \E v \in Users, role \in Parts : CrewAddRead(r, u, p, v, role)
        PROVE  UNCHANGED notice
    BY <2>5 DEF CreateProject, DeleteProject, ProjectRead, CrewAddRead
  <2>6. CASE \E c \in DOMAIN crew, role \in Parts \union {None} : CrewRead(r, u, c, role)
    BY <2>6, NoticesSame DEF CrewRead
  <2> QED
    BY <1>5, <2>1, <2>2, <2>3, <2>4, <2>5, <2>6, NoticesSame, UnlinkedStep DEF BoardAsk
<1> QED
  BY <1>1, <1>2, <1>3, <1>4, <1>5 DEF BoardGoOn

-----------------------------------------------------------------------------
(* All of it.                                                              *)

WorkspaceInv == SignInInv /\ AccessInv /\ PeopleInv /\ BoardInv /\ NoticeInv

(* At a load each address is registered and proved once.                   *)
LEMMA WorkspaceInitInv ==
  ASSUME WorkspaceInit
  PROVE  WorkspaceInv
<1>1. PICK l \in Loads : l = asked
  BY DEF WorkspaceInit, CallsInit
<1>2. PICK emails, staff : emails = l.accounts /\ staff = l.staff
  OBVIOUS
<1>3. PICK people : people = {emails[i] : i \in DOMAIN emails}
  OBVIOUS
<1>4. /\ emails \in Seq(Emails) /\ IsInjective(emails) /\ staff \in Staffs
      /\ \A w \in Workspaces, u \in Users : staff[w][u] # None => u \in people
      /\ l.tasks \in [Tasks -> TaskRow \union {None}]
      /\ l.work \subseteq {t \in Tasks : l.tasks[t] # None /\ l.tasks[t].status # "DELETED"} \X people
  BY <1>2, <1>3, LoadAssumption
<1>5. /\ SignInInit(emails) /\ AccessInit(staff) /\ CallsInit /\ NoticesInit
      /\ task = l.tasks /\ assigned = l.work /\ ask = <<>> /\ report = <<>>
      /\ req = [r \in Requests |-> Idle]
  BY <1>1, <1>2 DEF WorkspaceInit, BoardInit, CallsInit
<1>6. SignInInv
  BY <1>4, <1>5, SignInInitInv
<1>7. AccessInv
  BY <1>4, <1>5, InitInv
<1>8. people \subseteq People
  <2>1. \A i \in DOMAIN emails : emails[i] \in Emails
    BY <1>4, RowAt
  <2>2. ASSUME NEW i \in DOMAIN emails
        PROVE  emails[i] \in People
    <3>1. account[i] = NewAccount(emails[i], 1, TRUE, None) /\ i \in DOMAIN account
      BY <1>5 DEF SignInInit
    <3>2. account[i].email = emails[i] /\ account[i].verified
      BY <3>1 DEF NewAccount
    <3> QED
      BY <2>1, <3>1, <3>2, WorkspaceAssumption DEF People, Proved, Known
  <2> QED
    BY <1>3, <2>2
<1>9. PeopleInv
  <2>1. \A w \in Workspaces, u \in Users : member[w][u] # None => u \in people
    BY <1>4, <1>5 DEF AccessInit
  <2> QED
    BY <1>5, <1>8, <2>1 DEF PeopleInv, Welcome, Idle
<1>10. BoardInv
  <2>1. Placed
    BY <1>4, <1>5, <1>8 DEF Placed, Here
  <2>2. Asks /\ Reports
    BY <1>5 DEF Asks, OneAsk, Reports, OneReport
  <2>3. BoardRequested
    BY <1>5, BoardIdles DEF BoardRequested, LocksApart, At
  <2> QED
    BY <2>1, <2>2, <2>3 DEF BoardInv
<1>11. NoticeInv
  <2>1. notice = <<>> /\ notice \in Seq({})
    BY <1>5 DEF NoticesInit
  <2> QED
    BY <2>1 DEF NoticeInv, Rowed, ToldOnce
<1> QED
  BY <1>6, <1>7, <1>9, <1>10, <1>11 DEF WorkspaceInv

WorkspaceStanding ==
  /\ UNCHANGED accessVars \/ AccessStanding
  /\ UNCHANGED <<task, assigned, ask, report>> \/ BoardStanding

LEMMA SignInPartStep ==
  ASSUME WorkspaceInv, SignInPart
  PROVE  WorkspaceInv' /\ WorkspaceStanding
<1>1. SignInSteps /\ UNCHANGED <<accessVars, boardVars, notice>>
  BY SignInNextSteps DEF WorkspaceInv, SignInPart, noticeVars
<1>2. SignInInv' /\ People \subseteq People' /\ Goes(SignInPcs)
  BY <1>1, PeopleStay DEF SignInSteps
<1>3. AccessInv'
  BY <1>1, <1>2, AccessElsewhere DEF WorkspaceInv
<1>4. PeopleInv'
  <2>1. UNCHANGED <<member, invite>> /\ DOMAIN req = Requests
    BY <1>1 DEF accessVars, WorkspaceInv, BoardInv, BoardRequested
  <2> QED
    BY <1>2, <2>1, PeopleElsewhere DEF WorkspaceInv
<1>5. UNCHANGED <<task, assigned, ask, report>>
  BY <1>1 DEF boardVars
<1>6. BoardInv'
  BY <1>2, <1>5, BoardElsewhere DEF WorkspaceInv
<1>7. NoticeInv'
  BY <1>1, NoticesSame DEF WorkspaceInv
<1> QED
  BY <1>1, <1>2, <1>3, <1>4, <1>5, <1>6, <1>7 DEF WorkspaceInv, WorkspaceStanding

LEMMA AccessPartStep ==
  ASSUME WorkspaceInv, NEW r \in Requests, AccessPart(r)
  PROVE  WorkspaceInv' /\ WorkspaceStanding
<1>1. AccessGoOn(r) \/ \E u \in Users : SignedIn(u) /\ AccessAsk(r, u)
  BY DEF AccessPart
<1>2. UNCHANGED <<account, session, boardVars, notice>>
  BY DEF AccessPart, signInVars, noticeVars
<1>3. AccessNext
  BY <1>1 DEF AccessNext
<1>4. AccessInv' /\ AccessStanding
  BY <1>3, NextInv DEF WorkspaceInv
<1>5. Goes(AccessPcs)
  BY <1>1, AccessGoes DEF WorkspaceInv, BoardInv, BoardRequested
<1>6. SignInInv'
  BY <1>2, <1>5, SignInElsewhere DEF WorkspaceInv
<1>7. PeopleInv'
  BY <1>1, <1>2, AccessPeople DEF WorkspaceInv, SignInInv
<1>8. People' = People
  BY <1>2, SameAccounts
<1>9. UNCHANGED <<task, assigned, ask, report>>
  BY <1>2 DEF boardVars
<1>10. BoardInv'
  BY <1>5, <1>8, <1>9, BoardElsewhere DEF WorkspaceInv
<1>11. NoticeInv'
  BY <1>2, NoticesSame DEF WorkspaceInv
<1> QED
  BY <1>4, <1>6, <1>7, <1>9, <1>10, <1>11 DEF WorkspaceInv, WorkspaceStanding

LEMMA BoardPartStep ==
  ASSUME WorkspaceInv, NEW r \in Requests, BoardPart(r)
  PROVE  WorkspaceInv' /\ WorkspaceStanding
<1>1. BoardGoOn(r) \/ \E u \in Users : SignedIn(u) /\ BoardAsk(r, u)
  BY DEF BoardPart
<1>2. UNCHANGED <<account, session, accessVars>>
  BY DEF BoardPart, signInVars
<1>3. BoardSteps
  <2>1. CASE BoardGoOn(r)
    BY <1>2, <2>1, BoardGoesOn DEF WorkspaceInv
  <2>2. ASSUME NEW u \in Users, SignedIn(u), BoardAsk(r, u)
        PROVE  BoardSteps
    <3>1. u \in People
      BY <2>2, SignedInPeople DEF WorkspaceInv, SignInInv
    <3> QED
      BY <1>2, <2>2, <3>1, BoardAsksStep DEF WorkspaceInv, AccessInv
  <2> QED
    BY <1>1, <2>1, <2>2
<1>4. BoardInv' /\ BoardStanding /\ Goes(BoardPcs)
  BY <1>3 DEF BoardSteps
<1>5. SignInInv'
  BY <1>2, <1>4, SignInElsewhere DEF WorkspaceInv
<1>6. AccessInv'
  BY <1>2, <1>4, AccessElsewhere DEF WorkspaceInv
<1>7. PeopleInv'
  <2>1. UNCHANGED <<member, invite>> /\ DOMAIN req = Requests
    BY <1>2 DEF accessVars, WorkspaceInv, BoardInv, BoardRequested
  <2>2. People' = People
    BY <1>2, SameAccounts
  <2> QED
    BY <1>4, <2>1, <2>2, PeopleElsewhere DEF WorkspaceInv
<1>8. NoticeInv'
  BY <1>1, BoardNotices DEF WorkspaceInv
<1> QED
  BY <1>2, <1>4, <1>5, <1>6, <1>7, <1>8 DEF WorkspaceInv, WorkspaceStanding

(* Steps that leave accounts and the board alone, and take no request on.  *)
LEMMA QuietStep ==
  ASSUME WorkspaceInv, UNCHANGED <<account, session, task, assigned, ask, report>>,
         Goes({"idle"}), AccessInv', PeopleInv', NoticeInv'
  PROVE  WorkspaceInv'
<1>1. Goes(AccessPcs)
  BY DEF Goes, AccessPcs
<1>2. SignInInv'
  BY <1>1, SignInElsewhere DEF WorkspaceInv
<1>3. People' = People
  BY SameAccounts
<1>4. BoardInv'
  BY <1>1, <1>3, BoardElsewhere DEF WorkspaceInv
<1> QED
  BY <1>2, <1>4 DEF WorkspaceInv

LEMMA NoticePartStep ==
  ASSUME WorkspaceInv, NoticePart
  PROVE  WorkspaceInv' /\ WorkspaceStanding
<1>1. UNCHANGED <<account, session, task, assigned, ask, report, req, accessVars, member, invite>>
  BY DEF NoticePart, callVars, signInVars, boardVars, accessVars
<1>2. NoticeInv'
  BY NoticeSteps DEF WorkspaceInv, NoticePart
<1>3. Goes({"idle"}) /\ Goes(SignInPcs)
  BY <1>1 DEF Goes
<1>4. AccessInv'
  BY <1>1, <1>3, AccessElsewhere DEF WorkspaceInv
<1>5. PeopleInv'
  <2>1. DOMAIN req = Requests
    BY DEF WorkspaceInv, BoardInv, BoardRequested
  <2>2. People' = People
    BY <1>1, SameAccounts
  <2> QED
    BY <1>1, <1>3, <2>1, <2>2, PeopleElsewhere DEF WorkspaceInv
<1> QED
  BY <1>1, <1>2, <1>3, <1>4, <1>5, QuietStep DEF WorkspaceStanding

LEMMA BreakOffStep ==
  ASSUME WorkspaceInv, NEW r \in Requests, BreakOff(r),
         UNCHANGED <<signInVars, accessVars, boardVars, noticeVars>>
  PROVE  WorkspaceInv' /\ WorkspaceStanding
<1>1. UNCHANGED <<account, session, task, assigned, ask, report, accessVars, member, invite, notice>>
  BY DEF signInVars, boardVars, accessVars, noticeVars
<1>2. DOMAIN req = Requests
  BY DEF WorkspaceInv, BoardInv, BoardRequested
<1>3. Goes({"idle"}) /\ Goes(SignInPcs)
  BY <1>2, AnswerGoes DEF BreakOff, SignInPcs
<1>4. AccessInv'
  BY <1>1, <1>3, AccessElsewhere DEF WorkspaceInv
<1>5. PeopleInv'
  <2>1. People' = People
    BY <1>1, SameAccounts
  <2> QED
    BY <1>1, <1>2, <1>3, <2>1, PeopleElsewhere DEF WorkspaceInv
<1>6. NoticeInv'
  BY <1>1, NoticesSame DEF WorkspaceInv
<1> QED
  BY <1>1, <1>3, <1>4, <1>5, <1>6, QuietStep DEF WorkspaceStanding

LEMMA LapsePartStep ==
  ASSUME WorkspaceInv, NEW i \in DOMAIN invite, InviteLapses(i),
         UNCHANGED <<signInVars, boardVars, noticeVars>>
  PROVE  WorkspaceInv' /\ WorkspaceStanding
<1>1. UNCHANGED <<account, session, task, assigned, ask, report, req, member, notice>>
  BY DEF signInVars, boardVars, noticeVars, InviteLapses, callVars
<1>2. AccessInv' /\ AccessStanding
  BY LapseStep DEF WorkspaceInv
<1>3. Goes({"idle"})
  BY <1>1 DEF Goes
<1>4. PeopleInv'
  <2>1. SameGuests
    BY LapseKeepsGuests DEF WorkspaceInv
  <2>2. DOMAIN req = Requests /\ \A p \in Requests : req[p].pc = "accept" => req[p].invite \in DOMAIN invite
    BY DEF WorkspaceInv, AccessInv, Requested, Sound
  <2>3. NoStrangers
    BY <1>1 DEF NoStrangers
  <2> QED
    BY <1>1, <2>1, <2>2, <2>3, PeopleNext DEF WorkspaceInv
<1>5. NoticeInv'
  BY <1>1, NoticesSame DEF WorkspaceInv
<1> QED
  BY <1>1, <1>2, <1>3, <1>4, <1>5, QuietStep DEF WorkspaceStanding

LEMMA WorkspaceSteps ==
  ASSUME WorkspaceInv, WorkspaceNext
  PROVE  WorkspaceInv' /\ WorkspaceStanding
BY SignInPartStep, NoticePartStep, AccessPartStep, BoardPartStep, BreakOffStep, LapsePartStep
   DEF WorkspaceNext

LEMMA WorkspaceStutters ==
  ASSUME WorkspaceInv, UNCHANGED workspaceVars
  PROVE  WorkspaceInv' /\ WorkspaceStanding
<1>1. UNCHANGED <<account, session, task, assigned, ask, report, req, accessVars, callVars, member, invite, notice>>
  BY DEF workspaceVars, signInVars, boardVars, accessVars, noticeVars, callVars
<1>2. Goes({"idle"}) /\ Goes(SignInPcs) /\ DOMAIN req = Requests
  BY <1>1 DEF Goes, WorkspaceInv, BoardInv, BoardRequested
<1>3. AccessInv'
  BY <1>1, StutterInv DEF WorkspaceInv
<1>4. PeopleInv'
  <2>1. People' = People
    BY <1>1, SameAccounts
  <2> QED
    BY <1>1, <1>2, <2>1, PeopleElsewhere DEF WorkspaceInv
<1>5. NoticeInv'
  BY <1>1, NoticesSame DEF WorkspaceInv
<1> QED
  BY <1>1, <1>2, <1>3, <1>4, <1>5, QuietStep DEF WorkspaceStanding

LEMMA WorkspaceHolds == WorkspaceSpec => []WorkspaceInv
<1>1. WorkspaceInit => WorkspaceInv
  BY WorkspaceInitInv
<1>2. WorkspaceInv /\ [WorkspaceNext]_workspaceVars => WorkspaceInv'
  BY WorkspaceSteps, WorkspaceStutters
<1> QED
  BY <1>1, <1>2, PTL DEF WorkspaceSpec

LEMMA WorkspaceStands == WorkspaceSpec => [][WorkspaceStanding]_workspaceVars
<1>1. WorkspaceInv /\ [WorkspaceNext]_workspaceVars => [WorkspaceStanding]_workspaceVars
  BY WorkspaceSteps, WorkspaceStutters
<1> QED
  BY <1>1, WorkspaceHolds, PTL DEF WorkspaceSpec

(* For any number of people, tasks, requests and jobs, whatever the worker *)
(* fails at: an address is one account's, a session belongs to a verified  *)
(* address and has ended with the password in force when its row was       *)
(* written, only people who have shown that an address is theirs are       *)
(* members or are assigned, and nobody is told of one event twice          *)
(* (auth.service.ts, invites.service.ts, members.service.ts,               *)
(* tasks.service.ts and the worker of notifications).                      *)
THEOREM WorkspaceIsSafe == WorkspaceSpec => []WorkspaceSafe
<1>1. WorkspaceInv => WorkspaceSafe
  <2>1. ASSUME WorkspaceInv
        PROVE  WorkspaceSafe
    <3>1. SignInSafe
      BY <2>1, SignInSafeFromInv DEF WorkspaceInv
    <3>2. AccessSafe
      BY <2>1, SafeFromInv DEF WorkspaceInv
    <3>3. MembersAreProved
      BY <2>1 DEF WorkspaceInv, PeopleInv, BoardInv, Placed, People, MembersAreProved
    <3> QED
      BY <2>1, <3>1, <3>2, <3>3 DEF WorkspaceInv, NoticeInv, WorkspaceSafe
  <2> QED
    BY <2>1
<1> QED
  BY <1>1, WorkspaceHolds, PTL

(* Nobody has two requests waiting for one task, a task has one report     *)
(* under review or accepted, and nobody works on a task that is not there  *)
(* (tasks.service.ts and its partial unique indexes).                      *)
THEOREM BoardIsSafe == WorkspaceSpec => []BoardSafe
<1>1. WorkspaceInv => BoardSafe
  BY BoardSafeFromInv DEF WorkspaceInv
<1> QED
  BY <1>1, WorkspaceHolds, PTL

(* And in the whole of it decisions stand, about people and keys ...       *)
THEOREM DecisionsStand == WorkspaceSpec => AccessStands
<1>1. [WorkspaceStanding]_workspaceVars => [AccessStanding]_accessVars
  BY DEF WorkspaceStanding, workspaceVars
<1> QED
  BY <1>1, WorkspaceStands, PTL DEF AccessStands

(* ... and about tasks: a request or a report is decided once, from        *)
(* PENDING, in the step that does what was decided.                        *)
THEOREM ReviewsStand == WorkspaceSpec => BoardStands
<1>1. [WorkspaceStanding]_workspaceVars => [BoardStanding]_boardVars
  BY DEF WorkspaceStanding, workspaceVars, boardVars, BoardStanding, AsksStand, ReportsStand
<1> QED
  BY <1>1, WorkspaceStands, PTL DEF BoardStands

(***************************************************************************)
(* Idempotency.                                                            *)
(***************************************************************************)
LEMMA RecordsInit == Init => IInv
<1> SUFFICES ASSUME Init PROVE IInv
  OBVIOUS
<1>1. /\ record = << >> /\ DOMAIN record = {}
      /\ effects \in Seq(Effect) /\ answers = {}
      /\ \A r \in Senders : inside[r] = Outside
  BY DEF Init
<1>2. TypeOK
  BY <1>1 DEF Init, TypeOK, Request
<1>3. \A k \in Keys : Owners(k) = {}
  BY <1>1 DEF Owners, InHandler, Outside
<1>4. \A r \in Senders : inside[r].pc # "done"
  BY <1>1 DEF Outside
<1>5. \A k \in Keys : LiveEffects(k) = {}
  BY DEF Init, LiveEffects
<1> QED
  BY <1>1, <1>2, <1>3, <1>4, <1>5
     DEF IInv, OneOwner, OwnersHoldRecords, DoneIsCommitted, CompletedIsCommitted,
         AnswersAreFaithful, OwnersActOnce, EffectsHoldRecords

(* What was committed stays committed when another effect is appended.     *)
LEMMA CommittedStays ==
  ASSUME effects \in Seq(Effect), NEW x \in Effect, effects' = Append(effects, x),
         NEW e, NEW k, NEW b, Committed(e, k, b)
  PROVE  Committed(e, k, b)'
<1>1. Len(effects') = Len(effects) + 1 /\ Len(effects) \in Nat
  BY AppendProperties, LenProperties
<1>2. e \in 1 .. Len(effects) /\ effects'[e] = effects[e]
  BY AppendProperties DEF Committed
<1> QED
  BY <1>1, <1>2 DEF Committed

(* A step that commits nothing keeps the live effects, and the records     *)
(* they need, if it adds no owner of a key with a live effect but one that *)
(* is done.                                                                *)
LEMMA EffectsStay ==
  ASSUME OwnersActOnce, EffectsHoldRecords, UNCHANGED effects,
         \A k \in Keys : LiveEffects(k) # {} =>
           /\ k \in DOMAIN record => k \in DOMAIN record'
           /\ \A r \in Owners(k)' : r \in Owners(k) /\ (inside[r].pc = "done" => inside'[r].pc = "done")
  PROVE  OwnersActOnce' /\ EffectsHoldRecords'
<1>1. \A k \in Keys : LiveEffects(k)' = LiveEffects(k)
  BY DEF LiveEffects
<1> QED
  BY <1>1 DEF OwnersActOnce, EffectsHoldRecords

(* A request that runs under a record, and is not done, runs under one     *)
(* with no live effect.                                                    *)
LEMMA NotDoneNotLive ==
  ASSUME EffectsHoldRecords, NEW k \in Keys, NEW r \in Owners(k), inside[r].pc # "done"
  PROVE  LiveEffects(k) = {}
BY DEF EffectsHoldRecords

(* The eight parts together, when a step changes at most one request r, one  *)
(* record k and the end of effects.                                        *)
LEMMA RecordsNext == IInv /\ [Next]_vars => IInv'
<1> SUFFICES ASSUME IInv, [Next]_vars PROVE IInv'
  OBVIOUS
<1> USE DEF IInv
<1>t. /\ inside \in [Senders -> Request] /\ effects \in Seq(Effect) /\ DOMAIN record \subseteq Keys
      /\ \A k \in DOMAIN record : record[k] \in Record
      /\ answers \subseteq Response /\ Len(effects) \in Nat
  BY LenProperties DEF TypeOK
<1>1. CASE UNCHANGED vars
  BY <1>1 DEF vars, TypeOK, OneOwner, OwnersHoldRecords, DoneIsCommitted, CompletedIsCommitted,
              AnswersAreFaithful, Owners, Committed, OwnersActOnce, EffectsHoldRecords, LiveEffects
<1>2. ASSUME NEW r \in Senders, NEW s \in Request, Become(r, s),
             s.pc \notin InHandler, UNCHANGED <<record, effects>>,
             answers' \subseteq Response,
             \A a \in answers' : Committed(a.effect, a.key, a.body)
      PROVE  IInv'
  <2>1. inside' = [inside EXCEPT ![r] = s]
    BY <1>2 DEF Become
  <2>2. TypeOK'
    BY <1>t, <1>2, <2>1 DEF TypeOK
  <2>3. \A k \in Keys : Owners(k)' = Owners(k) \ {r}
    BY <1>t, <1>2, <2>1 DEF Owners
  <2>4. OneOwner' /\ OwnersHoldRecords'
    BY <1>t, <1>2, <2>1, <2>3 DEF OneOwner, OwnersHoldRecords
  <2>5. DoneIsCommitted'
    BY <1>t, <1>2, <2>1 DEF DoneIsCommitted, Committed, InHandler
  <2>6. CompletedIsCommitted' /\ AnswersAreFaithful'
    BY <1>2 DEF CompletedIsCommitted, AnswersAreFaithful, Committed
  <2>7. \A x \in Keys : \A q \in Owners(x)' : q \in Owners(x) /\ inside'[q] = inside[q]
    BY <1>t, <2>1, <2>3 DEF Owners
  <2>8. OwnersActOnce' /\ EffectsHoldRecords'
    BY <1>2, <2>7, EffectsStay
  <2> QED
    BY <2>2, <2>4, <2>5, <2>6, <2>8
<1>3. ASSUME NEW r \in Senders, NEW k \in Keys, NEW b \in Bodies, Send(r, k, b) PROVE IInv'
  BY <1>3, <1>2 DEF Send, Request, InHandler, AnswersAreFaithful, TypeOK
<1>4. ASSUME NEW r \in Senders, Taken(r) \/ LookupRefused(r) \/ Crash(r) PROVE IInv'
  <2>1. CASE Taken(r)
    <3>1. [inside[r] EXCEPT !.pc = "taken"] \in Request /\ inside[r].pc = "arrived"
      BY <1>t, <2>1 DEF Taken, Request, Outside
    <3>2. [inside[r] EXCEPT !.pc = "taken"].pc = "taken"
      BY <1>t, <2>1 DEF Taken, Request, Outside
    <3> QED
      BY <2>1, <3>1, <3>2, <1>2 DEF Taken, InHandler, AnswersAreFaithful, TypeOK
  <2>2. CASE LookupRefused(r) \/ Crash(r)
    BY <2>2, <1>2 DEF LookupRefused, Crash, Request, Outside, InHandler, AnswersAreFaithful, TypeOK
  <2> QED
    BY <1>4, <2>1, <2>2
<1>5. ASSUME NEW r \in Senders, LookupDone(r) PROVE IInv'
  <2> DEFINE k == inside[r].key
             a == [key |-> k, body |-> inside[r].body, effect |-> record[k].effect]
  <2>1. /\ inside[r] \in Request /\ inside[r].pc = "taken" /\ k \in DOMAIN record
        /\ record[k].body = inside[r].body /\ record[k].state = "COMPLETED"
        /\ answers' = answers \union {a}
    BY <1>5, <1>t DEF LookupDone, Matches
  <2>2. k \in Keys /\ inside[r].body \in Bodies /\ record[k].effect \in Nat
    BY <2>1, <1>t DEF Request, Outside, Record
  <2>3. Committed(a.effect, a.key, a.body)
    BY <2>1 DEF CompletedIsCommitted
  <2> QED
    BY <1>5, <2>1, <2>2, <2>3, <1>2
       DEF LookupDone, Request, Outside, InHandler, AnswersAreFaithful, TypeOK, Response
<1>6. ASSUME NEW r \in Senders, Claim(r) PROVE IInv'
  <2> DEFINE k == inside[r].key
             row == [state |-> "IN_PROGRESS", body |-> inside[r].body]
             s == [pc |-> "running", key |-> k, body |-> inside[r].body, owner |-> TRUE]
  <2>1. /\ inside[r] \in Request /\ inside[r].pc = "arrived" /\ k \notin DOMAIN record
        /\ record' = [x \in DOMAIN record \union {k} |-> IF x = k THEN row ELSE record[x]]
        /\ inside' = [inside EXCEPT ![r] = s] /\ UNCHANGED <<effects, answers>>
    BY <1>6, <1>t DEF Claim, Put, Become, Running
  <2>2. k \in Keys /\ row \in Record /\ s \in Request
    BY <2>1 DEF Request, Outside, Record
  <2>3. TypeOK'
    BY <1>t, <2>1, <2>2 DEF TypeOK
  <2>4. Owners(k) = {}
    BY <2>1, <2>2 DEF OwnersHoldRecords
  <2>5. Owners(k)' = {r} /\ \A x \in Keys \ {k} : Owners(x)' = Owners(x)
    BY <1>t, <2>1, <2>2, <2>4 DEF Owners, InHandler
  <2>6. OneOwner' /\ OwnersHoldRecords'
    <3>1. \A x \in Keys \ {k} : \A y \in Owners(x) : y \in Senders /\ y # r
      BY <2>1 DEF Owners, InHandler
    <3>2. inside'[r].body = inside[r].body /\ record'[k] = row
      BY <1>t, <2>1
    <3> QED
      BY <1>t, <2>1, <2>2, <2>5, <3>1, <3>2 DEF OneOwner, OwnersHoldRecords
  <2>7. DoneIsCommitted'
    BY <1>t, <2>1 DEF DoneIsCommitted, Committed
  <2>8. CompletedIsCommitted'
    BY <1>t, <2>1 DEF CompletedIsCommitted, Committed
  <2>9. AnswersAreFaithful'
    BY <2>1 DEF AnswersAreFaithful, Committed
  <2>10. LiveEffects(k) = {}
    BY <2>1, <2>2 DEF EffectsHoldRecords
  <2>11. \A x \in Keys \ {k} : \A q \in Owners(x)' : q \in Owners(x) /\ inside'[q] = inside[q]
    BY <1>t, <2>1, <2>5 DEF Owners, InHandler
  <2>12. DOMAIN record \subseteq DOMAIN record'
    BY <2>1
  <2> HIDE DEF k
  <2>13. OwnersActOnce' /\ EffectsHoldRecords'
    BY <2>1, <2>10, <2>11, <2>12, EffectsStay
  <2> QED
    BY <2>3, <2>6, <2>7, <2>8, <2>9, <2>13
<1>7. ASSUME NEW r \in Senders, LookupGone(r) PROVE IInv'
  <2> DEFINE s == [pc |-> "running", key |-> inside[r].key, body |-> inside[r].body, owner |-> FALSE]
  <2>1. /\ inside[r] \in Request /\ inside[r].pc = "taken"
        /\ inside' = [inside EXCEPT ![r] = s] /\ UNCHANGED <<record, effects, answers>>
    BY <1>7, <1>t DEF LookupGone, Become, Orphan, Running
  <2>2. s \in Request
    BY <2>1 DEF Request, Outside
  <2>3. TypeOK'
    BY <1>t, <2>1, <2>2 DEF TypeOK
  <2>4. \A x \in Keys : Owners(x)' = Owners(x) /\ r \notin Owners(x)
    BY <1>t, <2>1 DEF Owners, InHandler
  <2>5. OneOwner' /\ OwnersHoldRecords'
    BY <1>t, <2>1, <2>4 DEF OneOwner, OwnersHoldRecords, Owners
  <2>6. DoneIsCommitted' /\ CompletedIsCommitted' /\ AnswersAreFaithful'
    BY <1>t, <2>1 DEF DoneIsCommitted, CompletedIsCommitted, AnswersAreFaithful, Committed
  <2>7. \A x \in Keys : \A q \in Owners(x)' : q \in Owners(x) /\ inside'[q] = inside[q]
    BY <1>t, <2>1, <2>4 DEF Owners
  <2>8. OwnersActOnce' /\ EffectsHoldRecords'
    BY <2>1, <2>7, EffectsStay
  <2> QED
    BY <2>3, <2>5, <2>6, <2>8
<1>8. ASSUME NEW r \in Senders, Commit(r) PROVE IInv'
  <2> DEFINE e == Len(effects) + 1
             x == [key |-> inside[r].key, body |-> inside[r].body, owner |-> inside[r].owner,
                   live |-> TRUE]
             s == [pc |-> "done", key |-> inside[r].key, body |-> inside[r].body,
                   owner |-> inside[r].owner, effect |-> e]
  <2>1. /\ inside[r] \in Request /\ inside[r].pc = "running"
        /\ inside' = [inside EXCEPT ![r] = s] /\ effects' = Append(effects, x)
        /\ UNCHANGED <<record, answers>>
    BY <1>8, <1>t DEF Commit, Become
  <2>2. s \in Request /\ x \in Effect
    BY <1>t, <2>1 DEF Request, Outside, Effect
  <2>3. effects' \in Seq(Effect) /\ Len(effects') = e /\ effects'[e] = x
    BY <1>t, <2>1, <2>2, AppendProperties
  <2>4. TypeOK'
    BY <1>t, <2>1, <2>2, <2>3 DEF TypeOK
  <2>5. \A k \in Keys : Owners(k)' = Owners(k)
    BY <1>t, <2>1 DEF Owners, InHandler
  <2>6. OneOwner' /\ OwnersHoldRecords'
    BY <1>t, <2>1, <2>5 DEF OneOwner, OwnersHoldRecords, Owners
  <2>7. ASSUME NEW d, NEW k, NEW b, Committed(d, k, b) PROVE Committed(d, k, b)'
    BY <1>t, <2>1, <2>2, <2>7, CommittedStays
  <2>8. DoneIsCommitted'
    <3>1. inside'[r] = s /\ \A q \in Senders \ {r} : inside'[q] = inside[q]
      BY <1>t, <2>1
    <3>2. ASSUME NEW q \in Senders \ {r}, inside[q].pc = "done"
          PROVE  Committed(inside[q].effect, inside[q].key, inside[q].body)'
      <4>1. Committed(inside[q].effect, inside[q].key, inside[q].body)
        BY <3>2 DEF DoneIsCommitted
      <4>2. PICK d, k, b : d = inside[q].effect /\ k = inside[q].key /\ b = inside[q].body
        OBVIOUS
      <4>3. Committed(d, k, b)'
        BY <4>1, <4>2, <2>7
      <4> QED
        BY <3>1, <4>2, <4>3 DEF Committed
    <3>3. Committed(inside[r].effect, inside[r].key, inside[r].body)'
      BY <1>t, <2>3, <3>1 DEF Committed
    <3> QED
      BY <3>1, <3>2, <3>3 DEF DoneIsCommitted
  <2>9. CompletedIsCommitted'
    <3>1. ASSUME NEW k \in DOMAIN record, record[k].state = "COMPLETED"
          PROVE  Committed(record[k].effect, k, record[k].body)'
      <4>1. Committed(record[k].effect, k, record[k].body)
        BY <3>1 DEF CompletedIsCommitted
      <4>2. PICK d, b : d = record[k].effect /\ b = record[k].body
        OBVIOUS
      <4>3. Committed(d, k, b)'
        BY <4>1, <4>2, <2>7
      <4> QED
        BY <2>1, <4>2, <4>3 DEF Committed
    <3> QED
      BY <2>1, <3>1 DEF CompletedIsCommitted
  <2>10. AnswersAreFaithful'
    BY <2>1, <2>7 DEF AnswersAreFaithful
  <2>11. /\ \A i \in 1 .. Len(effects) : effects'[i] = effects[i]
         /\ 1 .. Len(effects') = 1 .. Len(effects) \union {e}
    BY <1>t, <2>1, <2>2, <2>3, AppendProperties
  <2>12. \A k \in Keys : LiveEffects(k)' = IF r \in Owners(k) THEN LiveEffects(k) \union {e}
                                            ELSE LiveEffects(k)
    <3>1. ASSUME NEW k \in Keys
          PROVE  x.key = k /\ x.owner /\ x.live <=> r \in Owners(k)
      BY <2>1 DEF Owners, InHandler
    <3>2. e \notin 1 .. Len(effects)
      BY <1>t
    <3> HIDE DEF x, e
    <3>3. ASSUME NEW k \in Keys
          PROVE  LiveEffects(k)' = {i \in 1 .. Len(effects) \union {e} :
                   effects'[i].key = k /\ effects'[i].owner /\ effects'[i].live}
      BY <2>11 DEF LiveEffects
    <3>4. ASSUME NEW k \in Keys, r \in Owners(k)
          PROVE  LiveEffects(k)' = LiveEffects(k) \union {e}
      BY <2>3, <2>11, <3>1, <3>2, <3>3, <3>4 DEF LiveEffects
    <3>5. ASSUME NEW k \in Keys, r \notin Owners(k)
          PROVE  LiveEffects(k)' = LiveEffects(k)
      BY <2>3, <2>11, <3>1, <3>2, <3>3, <3>5 DEF LiveEffects
    <3> QED
      BY <3>4, <3>5
  <2>13. \A k \in Keys : r \in Owners(k) => LiveEffects(k) = {} /\ Owners(k) = {r}
    BY <2>1, NotDoneNotLive DEF OneOwner
  <2>14. OwnersActOnce'
    BY <2>12, <2>13 DEF OwnersActOnce
  <2>15. \A q \in Senders \ {r} : inside'[q] = inside[q]
    BY <1>t, <2>1
  <2>16. inside'[r].pc = "done"
    BY <1>t, <2>1
  <2>17. EffectsHoldRecords'
    <3>1. ASSUME NEW k \in Keys, r \in Owners(k)
          PROVE  k \in DOMAIN record' /\ \A q \in Owners(k)' : inside'[q].pc = "done"
      BY <2>1, <2>5, <2>13, <2>16, <3>1 DEF OwnersHoldRecords
    <3>2. ASSUME NEW k \in Keys, r \notin Owners(k), LiveEffects(k)' # {}
          PROVE  k \in DOMAIN record' /\ \A q \in Owners(k)' : inside'[q].pc = "done"
      <4>1. k \in DOMAIN record /\ \A q \in Owners(k) : inside[q].pc = "done"
        BY <2>12, <3>2 DEF EffectsHoldRecords
      <4>2. \A q \in Owners(k) : q \in Senders \ {r}
        BY <3>2 DEF Owners
      <4> QED
        BY <2>1, <2>5, <2>15, <4>1, <4>2
    <3> QED
      BY <3>1, <3>2 DEF EffectsHoldRecords
  <2> HIDE DEF e, x, s
  <2> QED
    BY <2>4, <2>6, <2>8, <2>9, <2>10, <2>14, <2>17
<1>9. ASSUME NEW r \in Senders, Fail(r) PROVE IInv'
  <2> DEFINE s == [inside[r] EXCEPT !.pc = "failed"]
  <2>1. /\ inside[r] \in Request /\ inside[r].pc = "running"
        /\ inside' = [inside EXCEPT ![r] = s] /\ UNCHANGED <<record, effects, answers>>
    BY <1>9, <1>t DEF Fail, Become
  <2>2. /\ s \in Request /\ s.pc = "failed" /\ s.key = inside[r].key /\ s.body = inside[r].body
        /\ s.owner = inside[r].owner
    BY <2>1 DEF Request, Outside
  <2>3. TypeOK'
    BY <1>t, <2>1, <2>2 DEF TypeOK
  <2>4. \A k \in Keys : Owners(k)' = Owners(k)
    BY <1>t, <2>1, <2>2 DEF Owners, InHandler
  <2>5. OneOwner' /\ OwnersHoldRecords'
    BY <1>t, <2>1, <2>2, <2>4 DEF OneOwner, OwnersHoldRecords, Owners
  <2>6. DoneIsCommitted' /\ CompletedIsCommitted' /\ AnswersAreFaithful'
    BY <1>t, <2>1, <2>2 DEF DoneIsCommitted, CompletedIsCommitted, AnswersAreFaithful, Committed
  <2>7. \A x \in Keys : r \in Owners(x) => LiveEffects(x) = {}
    BY <2>1, NotDoneNotLive
  <2>8. \A q \in Senders \ {r} : inside'[q] = inside[q]
    BY <1>t, <2>1
  <2>9. \A x \in Keys : \A q \in Owners(x)' : q \in Owners(x) /\ (q = r \/ inside'[q] = inside[q])
    BY <2>4, <2>8 DEF Owners
  <2>10. OwnersActOnce' /\ EffectsHoldRecords'
    BY <2>1, <2>7, <2>9, EffectsStay
  <2> QED
    BY <2>3, <2>5, <2>6, <2>10
<1>10. ASSUME NEW r \in Senders, Settle(r) \/ SettleFails(r) PROVE IInv'
  <2> DEFINE a == [key |-> inside[r].key, body |-> inside[r].body, effect |-> inside[r].effect]
  <2>1. /\ inside[r] \in Request /\ inside[r].pc = "done"
        /\ inside' = [inside EXCEPT ![r] = Outside] /\ UNCHANGED effects
        /\ answers' = answers \union {a}
    BY <1>10, <1>t DEF Settle, SettleFails, Become, Respond
  <2>2. /\ inside[r].key \in Keys /\ a \in Response /\ Committed(a.effect, a.key, a.body)
        /\ Outside \in Request /\ Outside.pc = "idle"
    BY <2>1 DEF Request, Outside, Response, DoneIsCommitted
  <2>3. answers' \subseteq Response /\ \A b \in answers' : Committed(b.effect, b.key, b.body)
    BY <1>t, <2>1, <2>2 DEF AnswersAreFaithful
  <2>4. CASE UNCHANGED record
    BY <1>t, <2>1, <2>3, <2>4, <1>2 DEF Become, Request, Outside, InHandler
  <2>5. CASE Settle(r) /\ inside[r].owner /\ inside[r].key \in DOMAIN record
    <3> PICK k \in Keys : k = inside[r].key
      BY <2>2
    <3> PICK e \in Nat : e = inside[r].effect
      BY <2>1 DEF Request, Outside
    <3> PICK b \in Bodies : b = inside[r].body
      BY <2>1 DEF Request, Outside
    <3> DEFINE row == [state |-> "COMPLETED", body |-> b, effect |-> e]
    <3>1. r \in Owners(k)
      BY <2>1, <2>5 DEF Owners, InHandler
    <3>2. record[k].body = b
      <4>1. record[k] = [state |-> "IN_PROGRESS", body |-> inside[r].body]
        BY <3>1 DEF OwnersHoldRecords
      <4> QED
        BY <4>1
    <3>3. record' = [x \in DOMAIN record \union {k} |-> IF x = k THEN row ELSE record[x]]
      BY <2>5, <3>2 DEF Settle, Put, Completed
    <3>4. row \in Record
      BY DEF Record
    <3>5. TypeOK'
      BY <1>t, <2>1, <2>2, <2>3, <3>3, <3>4 DEF TypeOK
    <3>6. \A x \in Keys : Owners(x)' = Owners(x) \ {r}
      BY <1>t, <2>1 DEF Owners, InHandler, Outside
    <3>7. Owners(k)' = {}
      BY <3>1, <3>6 DEF OneOwner
    <3>8. OneOwner' /\ OwnersHoldRecords'
      BY <1>t, <2>1, <3>3, <3>6, <3>7 DEF OneOwner, OwnersHoldRecords, Owners
    <3>9. DoneIsCommitted'
      BY <1>t, <2>1 DEF DoneIsCommitted, Committed, Outside
    <3>10. CompletedIsCommitted'
      BY <1>t, <2>1, <2>2, <3>3, <3>2 DEF CompletedIsCommitted, Committed
    <3>11. AnswersAreFaithful'
      BY <2>1, <2>3 DEF AnswersAreFaithful, Committed
    <3>12. \A x \in Keys : \A q \in Owners(x)' : q \in Owners(x) /\ inside'[q] = inside[q]
      BY <1>t, <2>1, <3>6 DEF Owners
    <3>13. DOMAIN record \subseteq DOMAIN record'
      BY <3>3
    <3>14. OwnersActOnce' /\ EffectsHoldRecords'
      BY <2>1, <3>12, <3>13, EffectsStay
    <3> QED
      BY <3>5, <3>8, <3>9, <3>10, <3>11, <3>14
  <2> QED
    BY <1>10, <2>4, <2>5 DEF Settle, SettleFails
<1>11. ASSUME NEW r \in Senders, Release(r) PROVE IInv'
  <2>1. /\ inside[r] \in Request /\ inside[r].pc = "failed"
        /\ inside' = [inside EXCEPT ![r] = Outside] /\ UNCHANGED <<effects, answers>>
    BY <1>11, <1>t DEF Release, Become
  <2>2. inside[r].key \in Keys /\ Outside \in Request /\ Outside.pc \notin InHandler
    BY <2>1 DEF Request, Outside, InHandler
  <2>3. CASE UNCHANGED record
    BY <1>t, <2>1, <2>2, <2>3, <1>2 DEF Become, AnswersAreFaithful
  <2>4. CASE inside[r].owner /\ record' = [x \in DOMAIN record \ {inside[r].key} |-> record[x]]
    <3> PICK k \in Keys : k = inside[r].key
      BY <2>2
    <3>1. r \in Owners(k)
      BY <2>1, <2>2, <2>4 DEF Owners, InHandler
    <3>2. \A x \in Keys : Owners(x)' = Owners(x) \ {r}
      BY <1>t, <2>1 DEF Owners, InHandler, Outside
    <3>3. Owners(k)' = {}
      BY <2>2, <3>1, <3>2 DEF OneOwner
    <3>4. TypeOK'
      BY <1>t, <2>1, <2>2, <2>4 DEF TypeOK
    <3>5. OneOwner' /\ OwnersHoldRecords'
      BY <1>t, <2>1, <2>4, <3>2, <3>3 DEF OneOwner, OwnersHoldRecords, Owners
    <3>6. DoneIsCommitted' /\ CompletedIsCommitted' /\ AnswersAreFaithful'
      BY <1>t, <2>1, <2>4 DEF DoneIsCommitted, CompletedIsCommitted, AnswersAreFaithful,
                              Committed, Outside
    <3>7. LiveEffects(k) = {}
      BY <2>1, <3>1, NotDoneNotLive
    <3>8. \A x \in Keys : \A q \in Owners(x)' : q \in Owners(x) /\ inside'[q] = inside[q]
      BY <1>t, <2>1, <3>2 DEF Owners
    <3>9. \A x \in DOMAIN record : x = k \/ x \in DOMAIN record'
      BY <2>4
    <3>10. OwnersActOnce' /\ EffectsHoldRecords'
      BY <2>1, <3>7, <3>8, <3>9, EffectsStay
    <3> QED
      BY <3>4, <3>5, <3>6, <3>10
  <2> QED
    BY <1>11, <2>3, <2>4 DEF Release, Drop
<1>12. ASSUME NEW k \in Keys, Sweep(k) PROVE IInv'
  <2>1. /\ Owners(k) = {} /\ record' = [x \in DOMAIN record \ {k} |-> record[x]]
        /\ effects' = Behind(k) /\ UNCHANGED <<inside, answers>>
    BY <1>12 DEF Sweep, Expired, Drop
  <2>2. \A x \in Keys : Owners(x)' = Owners(x)
    BY <2>1 DEF Owners
  <2>3. effects' \in Seq(Effect) /\ Len(effects') = Len(effects)
    <3>1. Behind(k) \in [1 .. Len(effects) -> Effect]
      <4>1. DOMAIN effects = 1 .. Len(effects)
        BY <1>t, LenProperties
      <4>2. \A i \in 1 .. Len(effects) : effects[i] \in Effect
        BY <1>t, ElementOfSeq
      <4>3. \A x \in Effect : [x EXCEPT !.live = FALSE] \in Effect
        BY DEF Effect
      <4> QED
        BY <4>1, <4>2, <4>3 DEF Behind
    <3>2. effects' \in Seq(Effect) /\ DOMAIN effects' = 1 .. Len(effects)
      BY <1>t, <2>1, <3>1, SeqDef
    <3>3. Len(effects') \in Nat /\ DOMAIN effects' = 1 .. Len(effects')
      BY <3>2, LenProperties
    <3>4. Len(effects') = Len(effects)
      BY <1>t, <3>2, <3>3
    <3> QED
      BY <3>2, <3>4
  <2>4. \A i \in 1 .. Len(effects) :
          /\ effects'[i].key = effects[i].key /\ effects'[i].body = effects[i].body
          /\ effects'[i].owner = effects[i].owner
          /\ effects'[i].live <=> effects[i].live /\ effects[i].key # k
    BY <1>t, <2>1, ElementOfSeq, LenProperties DEF Behind, Effect
  <2>5. TypeOK'
    BY <1>t, <2>1, <2>3 DEF TypeOK
  <2>6. OneOwner' /\ OwnersHoldRecords'
    BY <2>1, <2>2 DEF OneOwner, OwnersHoldRecords
  <2>7. DoneIsCommitted' /\ CompletedIsCommitted' /\ AnswersAreFaithful'
    BY <2>1, <2>3, <2>4
       DEF DoneIsCommitted, CompletedIsCommitted, AnswersAreFaithful, Committed
  <2>8. LiveEffects(k)' = {} /\ \A x \in Keys \ {k} : LiveEffects(x)' = LiveEffects(x)
    BY <2>3, <2>4 DEF LiveEffects
  <2>9. OwnersActOnce' /\ EffectsHoldRecords'
    BY <2>1, <2>2, <2>8 DEF OwnersActOnce, EffectsHoldRecords
  <2> QED
    BY <2>5, <2>6, <2>7, <2>9
<1> QED
  BY <1>1, <1>3, <1>4, <1>5, <1>6, <1>7, <1>8, <1>9, <1>10, <1>11, <1>12 DEF Next

LEMMA RecordsHold == Spec => []IInv
  BY RecordsInit, RecordsNext, PTL DEF Spec

(* However requests with one key race, fail, crash and are swept away, at  *)
(* most one of them runs under its record.                                 *)
THEOREM SingleOwner == Spec => []OneOwner
<1>1. IInv => OneOwner
  BY DEF IInv
<1> QED
  BY <1>1, RecordsHold, PTL

(* Whatever goes wrong, one of them at most commits before the key expires. *)
THEOREM OwnersCommitOnce == Spec => []OwnersActOnce
<1>1. IInv => OwnersActOnce
  BY DEF IInv
<1> QED
  BY <1>1, RecordsHold, PTL

(* However they do, a success that a client is told of is one of its own   *)
(* key and body, replayed or not.                                          *)
THEOREM FaithfulAnswers == Spec => []AnswersAreFaithful
<1>1. IInv => AnswersAreFaithful
  BY DEF IInv
<1> QED
  BY <1>1, RecordsHold, PTL

(***************************************************************************)
(* LockOrder.  Transactions whose plans climb never deadlock among         *)
(* themselves.                                                             *)
(***************************************************************************)
(* A nonempty set of naturals has a least member.                           *)
LEMMA LeastNatural ==
  ASSUME NEW P \in SUBSET Nat, P # {}
  PROVE  \E n \in P : \A m \in P : n <= m
<1> DEFINE R == OpToRel(<, Nat)
<1>1. IsWellFoundedOn(R, Nat)
  BY NatLessThanWellFounded
<1>2. \A m, n \in Nat : m < n => <<m, n>> \in R
  BY DEF OpToRel
<1> HIDE DEF R
<1>3. PICK n \in P : \A m \in P : ~(<<m, n>> \in R)
  BY <1>1, WFMin
<1>4. ASSUME NEW m \in P PROVE n <= m
  <2>1. m \in Nat /\ n \in Nat
    OBVIOUS
  <2>2. ~(m < n)
    BY <1>2, <1>3, <2>1
  <2> QED
    BY <2>1, <2>2
<1> QED
  BY <1>4

(* A nonempty set of rows has a first one, so NextRow is well defined.      *)
LEMMA FirstRow ==
  ASSUME NEW S \in SUBSET Rows, S # {}
  PROVE  \E r \in S : \A s \in S : r = s \/ Before(r, s)
<1> DEFINE P == {Position[r] : r \in S}
<1>1. P \in SUBSET Nat /\ P # {}
  BY PositionAssumption
<1>2. PICK n \in P : \A m \in P : n <= m
  BY <1>1, LeastNatural
<1>3. PICK r \in S : n = Position[r]
  BY <1>2
<1>4. ASSUME NEW s \in S PROVE r = s \/ Before(r, s)
  <2>1. Position[r] <= Position[s]
    BY <1>2, <1>3
  <2>2. Position[r] \in Nat /\ Position[s] \in Nat /\ r \in Rows /\ s \in Rows
    BY PositionAssumption
  <2> QED
    BY <2>1, <2>2, PositionAssumption DEF Before
<1> QED
  BY <1>4

LEMMA NextRowIsFirst ==
  ASSUME NEW t \in Transactions, Missing(t) \in SUBSET Rows, Missing(t) # {}
  PROVE  /\ NextRow(t) \in Missing(t)
         /\ \A s \in Missing(t) : NextRow(t) = s \/ Before(NextRow(t), s)
BY FirstRow DEF NextRow

LEMMA BeforeIsOrder ==
  /\ \A r, s \in Rows : Before(r, s) => ~Before(s, r)
  /\ \A r, s, u \in Rows : Before(r, s) /\ Before(s, u) => Before(r, u)
BY PositionAssumption DEF Before

-----------------------------------------------------------------------------
(* The inductive invariant: the statements are sets of rows, a transaction *)
(* that is not running holds nothing, and what a running one holds comes   *)
(* before everything its current and later statements still have to lock,  *)
(* if its plan climbs.                                                     *)
RestHoldNothing ==
  \A t \in Transactions : status[t] # "running" => held[t] = {}

LockInv == /\ status \in [Transactions -> {"idle", "running", "committed", "failed"}]
        /\ plan \in [Transactions -> Plans \union {NoPlan}]
        /\ at \in [Transactions -> Nat \ {0}]
        /\ held \in [Transactions -> SUBSET Rows]
        /\ RestHoldNothing
        /\ HeldBelowRest

LEMMA PlanShape ==
  ASSUME NEW p \in Plans \union {NoPlan}
  PROVE  /\ Len(p.statements) \in Nat
         /\ DOMAIN p.statements = 1 .. Len(p.statements)
         /\ \A i \in DOMAIN p.statements : p.statements[i] \in SUBSET Rows
<1>1. CASE p \in Plans
  <2>1. p.statements \in Seq(SUBSET Rows)
    BY <1>1, PlansAssumption DEF Plan
  <2> QED
    BY <2>1
<1>2. CASE p = NoPlan
  BY <1>2 DEF NoPlan
<1> QED
  BY <1>1, <1>2

LEMMA MissingShape ==
  ASSUME LockInv, NEW t \in Transactions, Missing(t) # {}
  PROVE  /\ at[t] \in 1 .. Length(t)
         /\ Missing(t) = plan[t].statements[at[t]] \ held[t]
         /\ Missing(t) \in SUBSET Rows
         /\ status[t] = "running"
<1>1. plan[t] \in Plans \union {NoPlan} /\ at[t] \in Nat \ {0}
  BY DEF LockInv
<1>2. status[t] = "running" /\ at[t] <= Length(t)
  BY DEF Missing
<1>3. Length(t) \in Nat /\ DOMAIN plan[t].statements = 1 .. Length(t)
      /\ \A i \in DOMAIN plan[t].statements : plan[t].statements[i] \in SUBSET Rows
  BY <1>1, PlanShape DEF Length
<1>4. at[t] \in 1 .. Length(t)
  BY <1>1, <1>2, <1>3
<1> QED
  BY <1>2, <1>3, <1>4 DEF Missing

LEMMA LockInitInv == LockInit => LockInv
<1> SUFFICES ASSUME LockInit PROVE LockInv
  OBVIOUS
<1>1. HeldBelowRest
  BY DEF LockInit, HeldBelowRest
<1> QED
  BY <1>1 DEF LockInit, LockInv, RestHoldNothing

(* One step per action.  Only Lock adds to what is held, and it adds the   *)
(* first of the rows the current statement still misses.                   *)
LEMMA LockStepInv == LockInv /\ [LockNext]_lockVars => LockInv'
<1> SUFFICES ASSUME LockInv, [LockNext]_lockVars PROVE LockInv'
  OBVIOUS
<1> USE DEF LockInv
<1>1. ASSUME NEW t \in Transactions, NEW p \in Plans, Begin(t, p) PROVE LockInv'
  <2>1. held[t] = {}
    BY <1>1 DEF Begin, RestHoldNothing
  <2>2. HeldBelowRest'
    BY <1>1, <2>1 DEF Begin, HeldBelowRest, Length
  <2>3. RestHoldNothing'
    BY <1>1, <2>1 DEF Begin, RestHoldNothing
  <2> QED
    BY <1>1, <2>2, <2>3 DEF Begin
<1>2. ASSUME NEW t \in Transactions, Lock(t) PROVE LockInv'
  <2> DEFINE n == NextRow(t)
  <2>1. /\ at[t] \in 1 .. Length(t)
        /\ Missing(t) = plan[t].statements[at[t]] \ held[t]
        /\ Missing(t) \in SUBSET Rows
        /\ status[t] = "running"
    BY <1>2, MissingShape DEF Lock
  <2>2. n \in Missing(t) /\ \A s \in Missing(t) : n = s \/ Before(n, s)
    BY <1>2, <2>1, NextRowIsFirst DEF Lock
  <2> HIDE DEF n
  <2>3. held' = [held EXCEPT ![t] = @ \union {n}] /\ UNCHANGED <<status, plan, at, attempts>>
    BY <1>2 DEF Lock, n
  <2>4. ASSUME NEW u \in Transactions, NEW i \in at[u] .. Length(u),
               NEW r \in held'[u], NEW s \in plan[u].statements[i] \ held'[u],
               Climbs(plan[u])
        PROVE  Before(r, s)
    <3>1. CASE u # t
      BY <2>3, <2>4, <3>1 DEF HeldBelowRest
    <3>2. CASE u = t /\ r # n
      <4>1. r \in held[u] /\ s \in plan[u].statements[i] \ held[u]
        BY <2>3, <2>4, <3>2
      <4> QED
        BY <2>4, <4>1 DEF HeldBelowRest
    <3>3. CASE u = t /\ r = n /\ i = at[t]
      <4>1. s \in Missing(t) /\ s # n
        BY <2>1, <2>3, <2>4, <3>3
      <4> QED
        BY <2>2, <3>3, <4>1
    <3>4. CASE u = t /\ r = n /\ i # at[t]
      <4>1. plan[t] \in Plans \union {NoPlan}
        OBVIOUS
      <4>2. Climbs(plan[t]) /\ Length(t) \in Nat /\ DOMAIN plan[t].statements = 1 .. Length(t)
        BY <2>4, <3>4, <4>1, PlanShape DEF Length
      <4>3. i \in 1 .. Length(t) /\ at[t] < i
        BY <2>1, <2>4, <3>4, <4>2
      <4>4. n \in plan[t].statements[at[t]] /\ s \in plan[t].statements[i]
        BY <2>1, <2>2, <2>4, <3>4
      <4> QED
        BY <2>1, <3>4, <4>2, <4>3, <4>4 DEF Climbs
    <3> QED
      BY <3>1, <3>2, <3>3, <3>4
  <2>5. HeldBelowRest'
    BY <2>3, <2>4 DEF HeldBelowRest, Length
  <2>6. held' \in [Transactions -> SUBSET Rows]
    BY <2>1, <2>2, <2>3
  <2>7. RestHoldNothing'
    BY <2>1, <2>3 DEF RestHoldNothing
  <2> QED
    BY <2>3, <2>5, <2>6, <2>7
<1>3. ASSUME NEW t \in Transactions, NextStatement(t) PROVE LockInv'
  <2>1. Length(t) \in Nat /\ at[t] \in Nat
    BY PlanShape DEF Length
  <2>2. HeldBelowRest'
    BY <1>3, <2>1 DEF NextStatement, HeldBelowRest, Length
  <2>3. RestHoldNothing'
    BY <1>3 DEF NextStatement, RestHoldNothing
  <2> QED
    BY <1>3, <2>2, <2>3 DEF NextStatement
<1>4. ASSUME NEW t \in Transactions, CommitLocks(t) PROVE LockInv'
  <2>1. HeldBelowRest'
    BY <1>4 DEF CommitLocks, HeldBelowRest, Length
  <2>2. RestHoldNothing'
    BY <1>4 DEF CommitLocks, RestHoldNothing
  <2> QED
    BY <1>4, <2>1, <2>2 DEF CommitLocks
<1>5. ASSUME NEW t \in Transactions, Victim(t) PROVE LockInv'
  <2>1. HeldBelowRest'
    BY <1>5 DEF Victim, HeldBelowRest, Length
  <2>2. RestHoldNothing'
    BY <1>5 DEF Victim, RestHoldNothing
  <2> QED
    BY <1>5, <2>1, <2>2 DEF Victim
<1>6. ASSUME UNCHANGED lockVars PROVE LockInv'
  BY <1>6 DEF lockVars, HeldBelowRest, RestHoldNothing, Length
<1> QED
  BY <1>1, <1>2, <1>3, <1>4, <1>5, <1>6 DEF LockNext

(* In a set of climbing transactions that all wait, the one that waits for the      *)
(* highest row waits for a transaction that waits for a higher one still.  *)
LEMMA LockInvDescends == LockInv => DeadlocksDescend
<1> SUFFICES ASSUME LockInv, NEW S \in SUBSET Transactions, Deadlocked(S),
                    \A t \in S : Climbs(plan[t])
             PROVE  FALSE
  BY DEF DeadlocksDescend
<1>1. S # {} /\ \A t \in S : Missing(t) # {} /\ \E u \in S : NextRow(t) \in held[u]
  BY DEF Deadlocked, WaitsFor
<1>2. \A t \in S : /\ NextRow(t) \in Missing(t)
                    /\ NextRow(t) \in Rows
                    /\ Missing(t) = plan[t].statements[at[t]] \ held[t]
                    /\ at[t] \in 1 .. Length(t)
  BY <1>1, MissingShape, NextRowIsFirst
<1> DEFINE Height(t) == MaxPosition - Position[NextRow(t)]
           P == {Height(t) : t \in S}
<1>3. \A t \in S : Height(t) \in Nat
  BY <1>2, PositionAssumption
<1>4. PICK t \in S : \A u \in S : Height(t) <= Height(u)
  <2>1. P \in SUBSET Nat /\ P # {}
    BY <1>1, <1>3
  <2>2. PICK h \in P : \A m \in P : h <= m
    BY <2>1, LeastNatural
  <2> QED
    BY <2>2
<1>5. PICK u \in S : NextRow(t) \in held[u]
  BY <1>1, <1>4
<1>6. Before(NextRow(t), NextRow(u))
  <2>1. Length(u) \in Nat
    BY PlanShape DEF Length, LockInv
  <2>2. at[u] \in at[u] .. Length(u)
    BY <1>2, <2>1
  <2>3. NextRow(u) \in plan[u].statements[at[u]] \ held[u]
    BY <1>2
  <2> QED
    BY <1>5, <2>2, <2>3 DEF LockInv, HeldBelowRest
<1>7. Position[NextRow(t)] \in Nat /\ Position[NextRow(u)] \in Nat
  BY <1>2, <1>4, <1>5, PositionAssumption
<1>8. Height(t) <= Height(u)
  BY <1>4, <1>5
<1> QED
  BY <1>6, <1>7, <1>8, PositionAssumption DEF Before

(* A deadlock needs a transaction whose plan goes down: those that take    *)
(* their locks as locks.ts asks are never deadlocked among themselves.     *)
THEOREM DeadlocksNeedDescent == LockSpec => []DeadlocksDescend
<1>1. LockInit => LockInv
  BY LockInitInv
<1>2. LockInv /\ [LockNext]_lockVars => LockInv'
  BY LockStepInv
<1>3. LockInv => DeadlocksDescend
  BY LockInvDescends
<1> QED
  BY <1>1, <1>2, <1>3, PTL DEF LockSpec

(* The reason: a transaction whose plan climbs only ever waits upward.     *)
THEOREM ClimbersWaitUpward == LockSpec => []HeldBelowRest
<1>1. LockInit => LockInv
  BY LockInitInv
<1>2. LockInv /\ [LockNext]_lockVars => LockInv'
  BY LockStepInv
<1>3. LockInv => HeldBelowRest
  BY DEF LockInv
<1> QED
  BY <1>1, <1>2, <1>3, PTL DEF LockSpec

(* The claim of locks.ts as it stands: when every plan climbs there is no  *)
(* deadlock at all.                                                        *)
NoDeadlock == \A S \in SUBSET Transactions : ~Deadlocked(S)

THEOREM ClimbingPlansNeverDeadlock ==
  ASSUME \A p \in Plans : Climbs(p)
  PROVE  LockSpec => []NoDeadlock
<1>1. LockInit => LockInv
  BY LockInitInv
<1>2. LockInv /\ [LockNext]_lockVars => LockInv'
  BY LockStepInv
<1>3. LockInv => NoDeadlock
  <2> SUFFICES ASSUME LockInv, NEW S \in SUBSET Transactions, Deadlocked(S) PROVE FALSE
    BY DEF NoDeadlock
  <2>1. PICK t \in S : ~Climbs(plan[t])
    BY LockInvDescends DEF DeadlocksDescend
  <2>2. plan[t] \in Plans \union {NoPlan}
    BY DEF LockInv
  <2>3. Climbs(NoPlan)
    BY DEF Climbs, NoPlan
  <2> QED
    BY <2>1, <2>2, <2>3
<1> QED
  BY <1>1, <1>2, <1>3, PTL DEF LockSpec
=============================================================================
