------------------------------- MODULE Access -------------------------------
(***************************************************************************)
(* Who belongs to a workspace, in which role, by which invitation          *)
(* (src/modules/members, src/modules/invites, src/modules/workspaces), and *)
(* the keys its integrations hold (src/modules/api-keys).                  *)
(*                                                                         *)
(* Roles are read when a request arrives; the write that follows does not  *)
(* look at them again.                                                     *)
(***************************************************************************)
EXTENDS Calls, Sequences, FiniteSets, Permissions

CONSTANTS
  Users, Workspaces, Books,
  Owner,       \* owner of each workspace
  HomeOf,      \* workspace of each book
  Staffs,      \* who the members are at the start: roles, None for no member
  Roles,       \* roles clients ask for, of those members.dto allows
  Tags,        \* staff tags clients set, "clear" among them
  MaxInvites, MaxKeys, MaxRefs   \* bounds on rows and references

VARIABLES
  member,      \* workspace_members: a role and a staff tag, or None
  invite,      \* pending_invites, in the order they were written, with how each ended
  bookMember,  \* cashbook_members: pairs of a book and a user
  book,        \* cashbooks: whether active, and the reference for integrations
  refs,        \* references drawn so far
  key          \* api_keys, in the order they were written

accessVars == <<member, invite, bookMember, book, refs, key>>

ASSUME AccessAssumption ==
  /\ Owner \in [Workspaces -> Users] /\ HomeOf \in [Books -> Workspaces]
  /\ Staffs \subseteq [Workspaces -> [Users -> WorkspaceRoles \union {None}]]
  /\ \A staff \in Staffs, w \in Workspaces, u \in Users : (staff[w][u] = "OWNER") = (Owner[w] = u)
  /\ Roles \subseteq WorkspaceRoles \ {"OWNER"}
  /\ None \notin WorkspaceRoles \union Tags \union [role : WorkspaceRoles, tag : Tags \union {None}]
  /\ {MaxInvites, MaxKeys, MaxRefs} \subseteq Nat

Row(role) == [role |-> role, tag |-> None]

AccessInit(staff) ==
  /\ member = [w \in Workspaces |-> [u \in Users |-> IF staff[w][u] = None THEN None ELSE Row(staff[w][u])]]
  /\ invite = <<>> /\ key = <<>>
  /\ bookMember = {}
  /\ book = [b \in Books |-> [active |-> TRUE, ref |-> None]]
  /\ refs = 0

(* resolveWorkspaceRole and requireWorkspaceMember: the owner is OWNER     *)
(* with or without a row.                                                  *)
RoleOf(w, u) ==
  IF Owner[w] = u THEN "OWNER" ELSE IF member[w][u] = None THEN None ELSE member[w][u].role

May(w, u, permission) == HasPermission(RoleOf(w, u), permission)

(* requireWorkspaceMember(MANAGE_PEOPLE): either of two permissions.       *)
ManagesPeople(w, u) == May(w, u, "MANAGE_MEMBERS") \/ May(w, u, "MANAGE_SUB_ACCOUNTANTS")

(* assertCanAssignRole                                                     *)
CanAssign(w, actor, role) ==
  ManagesPeople(w, actor) /\ role \in AssignableRoles(RoleOf(w, actor))

(* assertCanAssignStaffTag                                                 *)
CanTag(w, actor, u, tag) ==
  "TICKETING" \in {tag, member[w][u].tag} => May(w, actor, "MANAGE_TICKETING")

-----------------------------------------------------------------------------
(* Invitations.                                                            *)

Open(w, u) == {i \in DOMAIN invite : invite[i].ws = w /\ invite[i].to = u /\ invite[i].state = "open"}

(* inviteMember                                                            *)
InviteRead(r, actor, w, u, role) ==
  /\ Ask(r, "invite", [pc |-> "invite", ws |-> w, to |-> u, role |-> role])
  /\ CanAssign(w, actor, role)
  /\ member[w][u] = None
  /\ UNCHANGED accessVars

(* createPendingInvite: an invitation that is open already is returned as  *)
(* it stands.                                                              *)
InviteWrite(r) ==
  /\ At(r, "invite")
  /\ LET q == req[r] IN
       \/ Open(q.ws, q.to) # {} /\ UNCHANGED invite
       \/ /\ Open(q.ws, q.to) = {} /\ Len(invite) < MaxInvites
          /\ invite' = Append(invite, [ws |-> q.ws, to |-> q.to, role |-> q.role, state |-> "open", late |-> FALSE])
  /\ Answer(r)
  /\ UNCHANGED <<member, bookMember, book, refs, key>>

InviteLapses(i) ==
  /\ invite[i].state = "open" /\ ~invite[i].late
  /\ invite' = [invite EXCEPT ![i].late = TRUE]
  /\ UNCHANGED <<member, bookMember, book, refs, key, callVars>>

(* acceptInvite: one past its date is deleted there and then.              *)
AcceptRead(r, u, i) ==
  /\ invite[i].to = u /\ invite[i].state = "open"
  /\ IF invite[i].late
     THEN AskOnce(r, "accept") /\ invite' = [invite EXCEPT ![i].state = "expired"]
     ELSE Ask(r, "accept", [pc |-> "accept", invite |-> i]) /\ UNCHANGED invite
  /\ UNCHANGED <<member, bookMember, book, refs, key>>

(* Mutant: deleteMany in place of delete, so nothing fails.                *)
InviteStands_Assumed(i) == i \in DOMAIN invite

(* The transaction deletes the invitation by its identifier, and fails as  *)
(* a whole when it has gone.                                               *)
InviteStands(i) == invite[i].state = "open"

AcceptWrite(r) ==
  /\ At(r, "accept")
  /\ LET i == req[r].invite  w == invite[i].ws  u == invite[i].to IN
       IF InviteStands(i)
       THEN /\ member' = IF member[w][u] = None THEN [member EXCEPT ![w][u] = Row(invite[i].role)] ELSE member
            /\ invite' = [invite EXCEPT ![i].state = "accepted"]
       ELSE UNCHANGED <<member, invite>>
  /\ Answer(r)
  /\ UNCHANGED <<bookMember, book, refs, key>>

DeclineInvite(r, u, i) ==
  /\ AskOnce(r, "accept")
  /\ invite[i].to = u /\ invite[i].state = "open"
  /\ invite' = [invite EXCEPT ![i].state = "declined"]
  /\ UNCHANGED <<member, bookMember, book, refs, key>>

-----------------------------------------------------------------------------
(* Members.                                                                *)

(* updateMemberRole: a role, a tag or both; None leaves one alone.         *)
UpdateMemberRead(r, actor, w, u, role, tag) ==
  /\ Ask(r, "role", [pc |-> "role", ws |-> w, to |-> u, role |-> role, tag |-> tag])
  /\ ManagesPeople(w, actor)
  /\ member[w][u] # None /\ member[w][u].role # "OWNER"
  /\ role # None \/ tag # None
  /\ role # None => CanAssign(w, actor, role)
  /\ CanAssign(w, actor, member[w][u].role)
  /\ tag # None => CanTag(w, actor, u, tag)
  /\ UNCHANGED accessVars

(* updateMembership                                                        *)
Changed(row, q) ==
  [role |-> IF q.role = None THEN row.role ELSE q.role,
   tag  |-> IF q.tag = None THEN row.tag ELSE IF q.tag = "clear" THEN None ELSE q.tag]

UpdateMemberWrite(r) ==
  /\ At(r, "role")
  /\ LET q == req[r] IN
       member' = IF member[q.ws][q.to] = None THEN member
                 ELSE [member EXCEPT ![q.ws][q.to] = Changed(@, q)]
  /\ Answer(r)
  /\ UNCHANGED <<invite, bookMember, book, refs, key>>

(* removeMember: no ceiling on the role of the one who leaves but OWNER.   *)
RemoveMemberRead(r, actor, w, u) ==
  /\ Ask(r, "remove", [pc |-> "remove", ws |-> w, to |-> u])
  /\ ManagesPeople(w, actor)
  /\ member[w][u] # None /\ member[w][u].role # "OWNER"
  /\ UNCHANGED accessVars

RemoveMemberWrite(r) ==
  /\ At(r, "remove")
  /\ LET q == req[r] IN
       IF member[q.ws][q.to] = None THEN UNCHANGED <<member, bookMember>>
       ELSE /\ member' = [member EXCEPT ![q.ws][q.to] = None]
            /\ bookMember' = {m \in bookMember : m[2] # q.to \/ HomeOf[m[1]] # q.ws}
  /\ Answer(r)
  /\ UNCHANGED <<invite, book, refs, key>>

(* importMembers: between two workspaces whose rows name the caller OWNER. *)
ImportRead(r, actor, from, w, u, role) ==
  /\ Ask(r, "import", [pc |-> "import", ws |-> w, to |-> u, role |-> role])
  /\ from # w /\ May(w, actor, "IMPORT_MEMBERS")
  /\ \A x \in {from, w} : member[x][actor] # None /\ member[x][actor].role = "OWNER"
  /\ member[from][u] # None /\ member[w][u] = None
  /\ UNCHANGED accessVars

ImportWrite(r) ==
  /\ At(r, "import")
  /\ LET q == req[r] IN
       member' = IF member[q.ws][q.to] = None THEN [member EXCEPT ![q.ws][q.to] = Row(q.role)] ELSE member
  /\ Answer(r)
  /\ UNCHANGED <<invite, bookMember, book, refs, key>>

(* requireCashbookMember; the roles within a book are not kept.            *)
InBook(b, actor) == May(HomeOf[b], actor, "ACCESS_ALL_CASHBOOKS") \/ <<b, actor>> \in bookMember

(* addCashbookMember                                                       *)
JoinBookRead(r, actor, b, u) ==
  /\ Ask(r, "book", [pc |-> "book", book |-> b, to |-> u])
  /\ book[b].active /\ InBook(b, actor)
  /\ RoleOf(HomeOf[b], u) # None /\ <<b, u>> \notin bookMember
  /\ UNCHANGED accessVars

JoinBookWrite(r) ==
  /\ At(r, "book")
  /\ bookMember' = bookMember \union {<<req[r].book, req[r].to>>}
  /\ Answer(r)
  /\ UNCHANGED <<member, invite, book, refs, key>>

-----------------------------------------------------------------------------
(* Keys of integrations.                                                   *)

Selectable(w, bs) == bs # {} /\ \A b \in bs : HomeOf[b] = w /\ book[b].active

(* assertActorCanAccessBooks                                               *)
CanSelect(w, actor, bs) ==
  \/ May(w, actor, "ACCESS_ALL_CASHBOOKS")
  \/ \A b \in bs : <<b, actor>> \in bookMember

CreateKeyRead(r, actor, w, bs) ==
  /\ Ask(r, "key", [pc |-> "activate", todo |-> bs, books |-> bs, ws |-> w, key |-> 0])
  /\ May(w, actor, "MANAGE_API_KEYS") /\ Selectable(w, bs) /\ CanSelect(w, actor, bs)
  /\ UNCHANGED accessVars

(* updateApiKey with another selection of books.                           *)
UpdateKeyRead(r, actor, k, bs) ==
  /\ May(key[k].ws, actor, "MANAGE_API_KEYS") /\ key[k].status = "ACTIVE"
  /\ Selectable(key[k].ws, bs) /\ CanSelect(key[k].ws, actor, bs)
  /\ Ask(r, "key", [pc |-> "activate", todo |-> bs, books |-> bs, ws |-> key[k].ws, key |-> k])
  /\ UNCHANGED accessVars

(* activateIntegration: the same for one book, and no key after it.        *)
ActivateIntegration(r, actor, b) ==
  /\ Ask(r, "key", [pc |-> "activate", todo |-> {b}, books |-> {}, ws |-> HomeOf[b], key |-> 0])
  /\ May(HomeOf[b], actor, "MANAGE_API_KEYS") /\ book[b].active /\ CanSelect(HomeOf[b], actor, {b})
  /\ UNCHANGED accessVars

Activating(q, todo) == [pc |-> "activate", todo |-> todo, books |-> q.books, ws |-> q.ws, key |-> q.key]

(* activateBooks: book after book, each read and then given a reference    *)
(* unless it has got one meanwhile.                                        *)
ActivateRead(r, b) ==
  /\ At(r, "activate") /\ b \in req[r].todo
  /\ IF ~book[b].active THEN Answer(r)
     ELSE IF book[b].ref # None THEN GoOn(r, Activating(req[r], req[r].todo \ {b}))
     ELSE GoOn(r, [pc |-> "allocate", book |-> b, todo |-> req[r].todo, books |-> req[r].books,
                   ws |-> req[r].ws, key |-> req[r].key])
  /\ UNCHANGED accessVars

Unreferenced(b) == book[b].active /\ book[b].ref = None

ActivateWrite(r) ==
  /\ At(r, "allocate") /\ refs < MaxRefs
  /\ LET b == req[r].book IN
       /\ IF Unreferenced(b)
          THEN refs' = refs + 1 /\ book' = [book EXCEPT ![b].ref = refs']
          ELSE UNCHANGED <<refs, book>>
       /\ IF book'[b].ref = None THEN Answer(r)
          ELSE GoOn(r, Activating(req[r], req[r].todo \ {b}))
  /\ UNCHANGED <<member, invite, bookMember, key>>

(* The key itself is written when every book has its reference.            *)
KeyWrite(r) ==
  /\ At(r, "activate") /\ req[r].todo = {}
  /\ LET q == req[r] IN
       \/ q.books = {} /\ UNCHANGED key
       \/ q.books # {} /\ q.key # 0 /\ key' = [key EXCEPT ![q.key].books = q.books]
       \/ /\ q.books # {} /\ q.key = 0 /\ Len(key) < MaxKeys
          /\ key' = Append(key, [ws |-> q.ws, books |-> q.books, status |-> "ACTIVE", secret |-> 1])
  /\ Answer(r)
  /\ UNCHANGED <<member, invite, bookMember, book, refs>>

(* rotateApiKey and revokeApiKey read the status and write by identifier.  *)
RotateRead(r, actor, k) ==
  /\ Ask(r, "rotate", [pc |-> "rotate", key |-> k, row |-> key[k]])
  /\ May(key[k].ws, actor, "MANAGE_API_KEYS") /\ key[k].status = "ACTIVE" /\ key[k].secret = 1
  /\ UNCHANGED accessVars

Rotated(now, read) == [now EXCEPT !.secret = 2]

RotateWrite(r) ==
  /\ At(r, "rotate")
  /\ key' = [key EXCEPT ![req[r].key] = Rotated(@, req[r].row)]
  /\ Answer(r)
  /\ UNCHANGED <<member, invite, bookMember, book, refs>>

RevokeKey(r, actor, k) ==
  /\ AskOnce(r, "rotate")
  /\ May(key[k].ws, actor, "MANAGE_API_KEYS") /\ key[k].status = "ACTIVE"
  /\ key' = [key EXCEPT ![k].status = "REVOKED"]
  /\ UNCHANGED <<member, invite, bookMember, book, refs>>

(* deleteCashbook leaves the row, inactive.                                *)
DropBook(r, actor, b) ==
  /\ AskOnce(r, "book")
  /\ book[b].active /\ InBook(b, actor)
  /\ book' = [book EXCEPT ![b].active = FALSE]
  /\ UNCHANGED <<member, invite, bookMember, refs, key>>

(* resolveApiKey and requireApiKeyBookAccess: what a call under a key may  *)
(* touch at this moment.                                                   *)
Reachable(k) == {b \in key[k].books : key[k].status = "ACTIVE" /\ book[b].active
                                      /\ book[b].ref # None /\ HomeOf[b] = key[k].ws}

(* What a caller may ask for, and how what was asked goes on.              *)
AccessAsk(r, actor) ==
  \/ \E w \in Workspaces, u \in Users :
       \/ \E role \in Roles :
            \/ InviteRead(r, actor, w, u, role)
            \/ \E from \in Workspaces : ImportRead(r, actor, from, w, u, role)
       \/ \E role \in Roles \union {None}, tag \in Tags \union {None} : UpdateMemberRead(r, actor, w, u, role, tag)
       \/ RemoveMemberRead(r, actor, w, u)
  \/ \E i \in DOMAIN invite : AcceptRead(r, actor, i) \/ DeclineInvite(r, actor, i)
  \/ \E b \in Books : \/ \E u \in Users : JoinBookRead(r, actor, b, u)
                      \/ ActivateIntegration(r, actor, b)
                      \/ DropBook(r, actor, b)
  \/ \E bs \in SUBSET Books :
       \/ \E w \in Workspaces : CreateKeyRead(r, actor, w, bs)
       \/ \E k \in DOMAIN key : UpdateKeyRead(r, actor, k, bs)
  \/ \E k \in DOMAIN key : RotateRead(r, actor, k) \/ RevokeKey(r, actor, k)

AccessGoOn(r) ==
  \/ InviteWrite(r) \/ AcceptWrite(r) \/ UpdateMemberWrite(r) \/ RemoveMemberWrite(r) \/ ImportWrite(r)
  \/ JoinBookWrite(r)
  \/ \E b \in Books : ActivateRead(r, b)
  \/ ActivateWrite(r) \/ KeyWrite(r) \/ RotateWrite(r)

AccessNext ==
  \/ \E r \in Requests : AccessGoOn(r) \/ \E actor \in Users : AccessAsk(r, actor)
  \/ \E r \in Requests : BreakOff(r) /\ UNCHANGED accessVars
  \/ \E i \in DOMAIN invite : InviteLapses(i)

AccessSpec == /\ (\E staff \in Staffs : AccessInit(staff)) /\ CallsInit
              /\ [][AccessNext]_<<accessVars, callVars>>

-----------------------------------------------------------------------------
(* However invitations, imports and changes of role are interleaved, OWNER *)
(* is what the workspace's own owner holds in the rows and nobody else.    *)
OwnersOnly ==
  \A w \in Workspaces, u \in Users :
    member[w][u] # None => (member[w][u].role = "OWNER") = (Owner[w] = u)

(* A key in force reaches every active book it names, by the reference a   *)
(* call needs to address it, though the books were activated one by one    *)
(* before the key was written and may be dropped meanwhile.                *)
KeysReach ==
  \A k \in DOMAIN key : key[k].status = "ACTIVE" =>
    \A b \in key[k].books : book[b].active => b \in Reachable(k)

(* No two books share a reference, whoever activates them at one time.     *)
RefsApart ==
  \A b, c \in Books : b # c => book[b].ref = None \/ book[b].ref # book[c].ref

(* An address has one open invitation to a workspace.                      *)
OneOpenInvite ==
  \A i, j \in DOMAIN invite : invite[i].state = "open" /\ invite[j].state = "open" /\ i # j =>
    <<invite[i].ws, invite[i].to>> # <<invite[j].ws, invite[j].to>>

(* All four: what is safe to rely on between the requests of a workspace.  *)
AccessSafe == OwnersOnly /\ KeysReach /\ RefsApart /\ OneOpenInvite

(* Who joins comes by an import of that person, or by an invitation that   *)
(* was open until that step, with the role either of them names: an        *)
(* invitation declined, expired or used before lets nobody in.             *)
JoinedRightly ==
  \A w \in Workspaces, u \in Users : member[w][u] = None /\ member'[w][u] # None =>
    \/ \E r \in Requests : /\ At(r, "import") /\ req[r].ws = w /\ req[r].to = u
                           /\ member'[w][u].role = req[r].role
    \/ \E i \in DOMAIN invite : /\ invite[i].state = "open" /\ invite'[i].state = "accepted"
                                /\ invite[i].ws = w /\ invite[i].to = u
                                /\ member'[w][u].role = invite[i].role

(* What an invitation came to stands.                                      *)
InvitesStand == \A i \in DOMAIN invite : invite[i].state # "open" => invite'[i] = invite[i]

(* A revoked key stays revoked.                                            *)
KeysStand == \A k \in DOMAIN key : key[k].status = "REVOKED" => key'[k].status = "REVOKED"

(* A reference, once given, is the book's for good.                        *)
RefsStand == \A b \in Books : book[b].ref # None => book'[b].ref = book[b].ref

AccessStanding == JoinedRightly /\ InvitesStand /\ KeysStand /\ RefsStand

(* What was decided about a person, a key or a book is not undone by a     *)
(* request that read it before.                                            *)
AccessStands == [][AccessStanding]_accessVars
=============================================================================
