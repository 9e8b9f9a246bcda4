-------------------------------- MODULE Admin -------------------------------
(***************************************************************************)
(* The admin page of some accounts, one tab each, over the API's roles,    *)
(* permissions and signing keys (services/roles.py).  A tab keeps its      *)
(* admin lists and its account's permissions, and edits from a copy of     *)
(* them.  A write is a step of the route's check, a step under RBAC_LOCK   *)
(* and later its answer, after which the tab reads both again.  Sign-ins   *)
(* adopt guests and claim email grants meanwhile, without RBAC_LOCK.       *)
(*                                                                         *)
(* A role's name stands for its id, so no role is renamed.  The lists of   *)
(* one tab of the page are read together.                                  *)
(***************************************************************************)
EXTENDS FiniteSets, Naturals

CONSTANTS
  Role, Custom,  \* roles by name, and the permissions that no code checks
  Verified,      \* the accounts with an email at the start
  newcomer,      \* the guest
  Key,           \* signing keys of their devices
  MaxWrites,     \* bounds the writes of each tab
  AdminScenes    \* what happens in one behaviour: the roles at the start, who
                 \* administers, what they edit, how many boxes they press and
                 \* what happens besides

AdminAccount == Verified \cup {newcomer}

View == "admin.view"
Manage == "roles.manage"
Grant == "account_roles.manage"
Revoke == "signing_keys.revoke"
BuiltIn == {View, Manage, Grant, Revoke}
Permission == BuiltIn \cup Custom

PermissionEdits == {"createPermission", "updatePermission", "deletePermission"}
RoleEdits == {"createRole", "updateRole", "deleteRole"}
Edits == PermissionEdits \cup RoleEdits \cup {"setRoles", "revokeKey"}

ASSUME AdminAssumption ==
  /\ newcomer \notin Verified /\ Custom \cap BuiltIn = {} /\ MaxWrites \in Nat
  /\ \A s \in AdminScenes :
       /\ s.who \subseteq AdminAccount /\ s.edits \subseteq Edits
       /\ s.may \subseteq {"lost", "focus", "signIn", "leave"} /\ s.presses \in Nat
       /\ \E names \in SUBSET Role : /\ s.roles \in [names -> SUBSET Permission]
                                    /\ s.held \in [AdminAccount -> SUBSET names]
                                    /\ s.granted \subseteq names
       /\ \A a \in s.who : \E r \in s.held[a] : View \in s.roles[r]

VARIABLES
  adminScene,
  db,    \* permissions, roles, who holds them, email grants, accounts, revoked keys
  tab    \* each administrator's tab

adminVars == <<adminScene, db, tab>>
-----------------------------------------------------------------------------
(* The API (services/roles.py).  A service that refuses has no outcome.    *)

permissions_of(d, a) == UNION {d.roles[r] : r \in d.held[a]}

Administrators(d) == {a \in AdminAccount \ d.adopted : Grant \in permissions_of(d, a)}

\* _require_an_administrator()
StillAdministered(d) == IF Administrators(d) = {} THEN {} ELSE {d}

begin_write(d, actor, permission) ==
  actor \notin d.adopted /\ permission \in permissions_of(d, actor)

create_permission(d, key) ==
  IF key \in d.permissions THEN {} ELSE {[d EXCEPT !.permissions = @ \cup {key}]}

update_permission(d, key) == IF key \in d.permissions THEN {d} ELSE {}

delete_permission(d, key) ==
  IF key \notin d.permissions \/ key \in BuiltIn THEN {}
  ELSE {[d EXCEPT !.permissions = @ \ {key}, !.roles = [r \in DOMAIN @ |-> @[r] \ {key}]]}

\* _grant_permissions()
grants_known(d, keys) == keys \subseteq d.permissions

create_role(d, role, keys) ==
  IF role \in DOMAIN d.roles \/ ~grants_known(d, keys) THEN {}
  ELSE {[d EXCEPT !.roles = [r \in DOMAIN @ \cup {role} |-> IF r = role THEN keys ELSE @[r]]]}

update_role(d, role, keys) ==
  IF role \notin DOMAIN d.roles \/ ~grants_known(d, keys) THEN {}
  ELSE StillAdministered([d EXCEPT !.roles[role] = keys])

WithoutRole(d, role) ==
  [d EXCEPT !.roles = [r \in DOMAIN @ \ {role} |-> @[r]],
            !.held = [a \in AdminAccount |-> @[a] \ {role}], !.granted = @ \ {role}]

\* Mutant of delete_role: nobody counts the administrators after it.
delete_roleUncounted(d, role) ==
  IF role \notin DOMAIN d.roles THEN {} ELSE {WithoutRole(d, role)}

delete_role(d, role) ==
  IF role \notin DOMAIN d.roles THEN {} ELSE StillAdministered(WithoutRole(d, role))

set_account_roles(d, a, roles) ==
  IF a \in d.adopted \/ a \notin d.verified \/ ~(roles \subseteq DOMAIN d.roles) THEN {}
  ELSE StillAdministered([d EXCEPT !.held[a] = roles])

revoke_any_key(d, key) == {[d EXCEPT !.revoked = @ \cup {key}]}

claim_email_role_grants(d, a) == [d EXCEPT !.held[a] = @ \cup d.granted, !.granted = {}]

\* The permission that each route asks for (v1/admin.py).
Needs(does) == CASE does = "setRoles" -> Grant
                 [] does = "revokeKey" -> Revoke
                 [] OTHER -> Manage

\* A key's revocation only asks that the administrator is no adopted account.
Begins(d, actor, does) ==
  IF does = "revokeKey" THEN actor \notin d.adopted ELSE begin_write(d, actor, Needs(does))

Outcomes(d, request) ==
  CASE request.does = "createPermission" -> create_permission(d, request.of)
    [] request.does = "updatePermission" -> update_permission(d, request.of)
    [] request.does = "deletePermission" -> delete_permission(d, request.of)
    [] request.does = "createRole" -> create_role(d, request.of, request.set)
    [] request.does = "updateRole" -> update_role(d, request.of, request.set)
    [] request.does = "deleteRole" -> delete_role(d, request.of)
    [] request.does = "setRoles" -> set_account_roles(d, request.of, request.set)
    [] request.does = "revokeKey" -> revoke_any_key(d, request.of)
-----------------------------------------------------------------------------
(* A tab.                                                                  *)

NoEdit == [does |-> "nothing", of |-> "", set |-> {}]
NoWrite == [step |-> "none", request |-> NoEdit, open |-> FALSE]

May(what) == what \in adminScene.may

\* useCan(): the page hides what its account can't do.
useCan(t, permission) == permission \in t.mine

\* The forms and dialogs of the tabs Roles, Permissions and Signing keys, each
\* with what it starts from.
Edit(does, of, set) == [does |-> does, of |-> of, set |-> set]
RoleSheets(lists) ==
  {Edit("createRole", r, {}) : r \in Role}
    \cup {Edit("updateRole", r, lists.roles[r]) : r \in DOMAIN lists.roles}
DeleteRole(lists) == {Edit("deleteRole", r, {}) : r \in DOMAIN lists.roles}
NewPermission == {Edit("createPermission", k, {}) : k \in Custom}
EditPermission(lists) == {Edit("updatePermission", k, {}) : k \in lists.permissions}
DeletePermission(lists) == {Edit("deletePermission", k, {}) : k \in lists.permissions \ BuiltIn}
RevokeKey(lists) == {Edit("revokeKey", k, {}) : k \in Key \ lists.revoked}

\* AccountRoles: a verified account's page has the form with its roles.
RolesForms(lists) ==
  {Edit("setRoles", a, lists.held[a]) : a \in lists.verified \ lists.adopted}

\* What the page offers with these lists.
Offered(lists) ==
  RoleSheets(lists) \cup DeleteRole(lists) \cup NewPermission \cup EditPermission(lists)
    \cup DeletePermission(lists) \cup RevokeKey(lists) \cup RolesForms(lists)

\* The boxes of the form.
Boxes(t) == IF t.edit.does = "setRoles" THEN DOMAIN t.lists.roles ELSE t.lists.permissions

Toggled(set, x) == (set \ {x}) \cup ({x} \ set)

\* RolesForm's key: it starts again when the account holds other roles, and
\* goes when there is no verified account.
AfterLists(t, lists) ==
  IF t.edit.does # "setRoles" THEN t
  ELSE LET a == t.edit.of IN
       IF a \in lists.adopted THEN [t EXCEPT !.edit = NoEdit, !.pressed = {}, !.write.open = FALSE]
       ELSE IF lists.held[a] = t.lists.held[a] THEN t
       ELSE [t EXCEPT !.edit.set = lists.held[a], !.pressed = {}, !.write.open = FALSE]

Became(a, t) == tab' = [tab EXCEPT ![a] = t]

\* The admin route's loader: an account without admin.view goes to Home.
Loader(t) == IF View \in t.mine THEN t ELSE [t EXCEPT !.at = "home", !.edit = NoEdit, !.pressed = {}]

\* A sheet or dialog closes once its write has settled.  The roles form stays.
Closed(t) == IF t.write.open /\ t.edit.does # "setRoles" THEN [t EXCEPT !.edit = NoEdit, !.pressed = {}] ELSE t
-----------------------------------------------------------------------------
AdminInit ==
  /\ adminScene \in AdminScenes
  /\ db = [permissions |-> BuiltIn \cup Custom, roles |-> adminScene.roles,
           held |-> adminScene.held, granted |-> adminScene.granted,
           verified |-> Verified, adopted |-> {}, revoked |-> {}]
  /\ tab = [a \in adminScene.who |->
       [at |-> "admin", lists |-> db, mine |-> permissions_of(db, a), seen |-> TRUE, stale |-> FALSE,
        load |-> [step |-> "none", lists |-> db, seen |-> TRUE],
        account |-> [step |-> "none", mine |-> {}],
        edit |-> NoEdit, pressed |-> {}, write |-> NoWrite, writes |-> 0]]

\* A button or a link of the page opens a form.
Open(a) ==
  /\ tab[a].at = "admin" /\ tab[a].edit = NoEdit /\ tab[a].writes < MaxWrites
  /\ \E e \in Offered(tab[a].lists) :
       /\ e.does \in adminScene.edits /\ useCan(tab[a], Needs(e.does))
       /\ Became(a, [tab[a] EXCEPT !.edit = e])
  /\ UNCHANGED <<adminScene, db>>

\* A box of the form: its value is the boxes that show and are ticked.
Press(a) ==
  /\ tab[a].edit.does \in {"createRole", "updateRole", "setRoles"}
  /\ tab[a].write.step = "none" /\ tab[a].writes < MaxWrites
  /\ \E x \in Boxes(tab[a]) :
       /\ Cardinality(Toggled(tab[a].pressed \cap Boxes(tab[a]), x)) <= adminScene.presses
       /\ Became(a, [tab[a] EXCEPT !.edit.set = Toggled(@ \cap Boxes(tab[a]), x),
                                   !.pressed = Toggled(@ \cap Boxes(tab[a]), x)])
  /\ UNCHANGED <<adminScene, db>>

\* useAdminWrite(): the form sends what it shows.
Submit(a) ==
  /\ tab[a].edit # NoEdit /\ tab[a].write.step = "none" /\ tab[a].writes < MaxWrites
  /\ Became(a, [tab[a] EXCEPT !.write = [step |-> "sent", request |-> tab[a].edit, open |-> TRUE],
                              !.writes = @ + 1])
  /\ UNCHANGED <<adminScene, db>>

\* Cancel, Escape or a link leaves the form, its write on its way or not.
Cancel(a) ==
  /\ May("leave") /\ tab[a].edit # NoEdit
  /\ Became(a, [tab[a] EXCEPT !.edit = NoEdit, !.pressed = {}, !.write.open = FALSE])
  /\ UNCHANGED <<adminScene, db>>

\* require_permission(): a refused request is answered at once.
Check(a) ==
  /\ tab[a].write.step = "sent"
  /\ Became(a, [tab[a] EXCEPT !.write.step =
       IF a \notin db.adopted /\ Needs(tab[a].write.request.does) \in permissions_of(db, a)
       THEN "allowed" ELSE "refused"])
  /\ UNCHANGED <<adminScene, db>>

\* The service, under RBAC_LOCK.  Lists read before it don't show it.
Write(a) ==
  LET request == tab[a].write.request IN
  /\ tab[a].write.step = "allowed"
  /\ \/ /\ Begins(db, a, request.does) /\ db' \in Outcomes(db, request)
        /\ Became(a, [tab[a] EXCEPT !.write.step = "done", !.seen = FALSE, !.load.seen = FALSE])
     \/ /\ ~Begins(db, a, request.does) \/ Outcomes(db, request) = {}
        /\ Became(a, [tab[a] EXCEPT !.write.step = "refused"]) /\ UNCHANGED db
  /\ UNCHANGED adminScene

\* Mutant of refreshAfterAdminWrite: it joins a read that is on its way.
refreshAfterAdminWriteJoins(t) ==
  [t EXCEPT !.stale = TRUE, !.account.step = "asked",
            !.load.step = IF @ = "none" THEN "asked" ELSE @]

\* refreshAfterAdminWrite(): invalidateQueries cancels the reads on their way.
refreshAfterAdminWrite(t) ==
  [t EXCEPT !.stale = TRUE, !.load.step = "asked", !.account.step = "asked"]

\* The answer comes.  A refusal's form says why and stays.
Answered(a) ==
  /\ \/ /\ tab[a].write.step = "done"
        /\ Became(a, refreshAfterAdminWrite([tab[a] EXCEPT !.write.step = "refreshing"]))
     \/ /\ tab[a].write.step = "refused"
        /\ Became(a, [tab[a] EXCEPT !.write = NoWrite])
  /\ UNCHANGED <<adminScene, db>>

\* The answer is lost: the form says that nothing was saved, and the tab
\* doesn't know better.
Lost(a) ==
  /\ May("lost") /\ tab[a].write.step \in {"sent", "done"}
  /\ Became(a, [tab[a] EXCEPT !.write = NoWrite, !.seen = TRUE, !.load.seen = TRUE])
  /\ UNCHANGED <<adminScene, db>>

Refreshed(t) == t.load.step = "none" /\ t.account.step = "none"

\* Both reads ended, so the write settles and the admin route's loader runs.
Settle(a) ==
  /\ tab[a].write.step = "refreshing" /\ Refreshed(tab[a])
  /\ Became(a, Loader([Closed(tab[a]) EXCEPT !.write = NoWrite]))
  /\ UNCHANGED <<adminScene, db>>

\* The tab gets the focus: its lists are read again, joining a read.
Focus(a) ==
  /\ May("focus") /\ tab[a].at = "admin" /\ tab[a].load.step = "none" /\ tab[a].lists # db
  /\ Became(a, [tab[a] EXCEPT !.load.step = "asked"])
  /\ UNCHANGED <<adminScene, db>>

\* GET /v1/admin/...: the lists of the moment.
ReadLists(a) ==
  /\ tab[a].load.step = "asked"
  /\ Became(a, [tab[a] EXCEPT !.load = [step |-> "read", lists |-> db, seen |-> TRUE]])
  /\ UNCHANGED <<adminScene, db>>

ListsArrive(a) ==
  /\ tab[a].load.step = "read"
  /\ Became(a, [AfterLists(tab[a], tab[a].load.lists) EXCEPT !.lists = tab[a].load.lists,
                  !.seen = tab[a].load.seen, !.stale = FALSE,
                  !.load = [step |-> "none", lists |-> tab[a].load.lists, seen |-> TRUE]])
  /\ UNCHANGED <<adminScene, db>>

ReadAccount(a) ==
  /\ tab[a].account.step = "asked"
  /\ Became(a, [tab[a] EXCEPT !.account = [step |-> "read", mine |-> permissions_of(db, a)]])
  /\ UNCHANGED <<adminScene, db>>

AccountArrives(a) ==
  /\ tab[a].account.step = "read"
  /\ Became(a, [tab[a] EXCEPT !.mine = tab[a].account.mine, !.account = [step |-> "none", mine |-> {}]])
  /\ UNCHANGED <<adminScene, db>>

\* A read fails: the tab keeps what it has.
ReadLost(a) ==
  /\ May("lost")
  /\ \/ /\ tab[a].load.step # "none"
        /\ Became(a, [tab[a] EXCEPT !.load = [step |-> "none", lists |-> tab[a].lists, seen |-> TRUE]])
     \/ /\ tab[a].account.step # "none"
        /\ Became(a, [tab[a] EXCEPT !.account = [step |-> "none", mine |-> {}]])
  /\ UNCHANGED <<adminScene, db>>

\* A sign-in ends on a verified account, the guest's own or another's.
SignIn ==
  /\ May("signIn")
  /\ \/ \E a \in db.verified : db' = claim_email_role_grants(db, a) /\ db' # db
     \/ /\ newcomer \notin db.verified \cup db.adopted
        /\ \/ \E a \in db.verified :
                db' = claim_email_role_grants([db EXCEPT !.adopted = @ \cup {newcomer}], a)
           \/ db' = claim_email_role_grants([db EXCEPT !.verified = @ \cup {newcomer}], newcomer)
  /\ UNCHANGED <<adminScene, tab>>

AdminNext ==
  \/ \E a \in adminScene.who :
       \/ Open(a) \/ Press(a) \/ Submit(a) \/ Cancel(a)
       \/ Check(a) \/ Write(a) \/ Answered(a) \/ Lost(a) \/ Settle(a)
       \/ Focus(a) \/ ReadLists(a) \/ ListsArrive(a) \/ ReadAccount(a) \/ AccountArrives(a) \/ ReadLost(a)
  \/ SignIn

AdminSpec == AdminInit /\ [][AdminNext]_adminVars
-----------------------------------------------------------------------------
(* Properties.                                                             *)

\* Roles and who holds them are over what exists, and a tab has no form open
\* once it has left.
AdminTypeOK ==
  /\ db.permissions \subseteq Permission /\ BuiltIn \subseteq db.permissions
  /\ DOMAIN db.roles \subseteq Role /\ db.granted \subseteq DOMAIN db.roles
  /\ db.held \in [AdminAccount -> SUBSET DOMAIN db.roles]
  /\ db.verified \subseteq AdminAccount /\ db.adopted \subseteq AdminAccount \ db.verified
  /\ db.revoked \subseteq Key
  /\ \A a \in adminScene.who :
       /\ tab[a].at \in {"admin", "home"} /\ tab[a].writes \in 0..MaxWrites
       /\ tab[a].write.step \in {"none", "sent", "allowed", "done", "refused", "refreshing"}
       /\ tab[a].at = "home" => tab[a].edit = NoEdit
       /\ tab[a].write.open => tab[a].edit # NoEdit /\ tab[a].write.step # "none"

\* Two administrators' tabs, stale as they may be, never write between them
\* that nobody may grant a role.  Only a sign-in that adopts a guest can do
\* that (roles.py _begin_write, _require_an_administrator).
WritesKeepAnAdministrator ==
  [][db'.adopted = db.adopted /\ Administrators(db) # {} => Administrators(db') # {}]_adminVars

\* What a write changes, its account may still change at that moment, however
\* long ago its tab showed the button or the route let it through.
\* A key's revocation is let through by its route alone.
OnlyTheAllowedWrite ==
  [][\A a \in adminScene.who :
       (db' # db /\ tab[a].write.step = "allowed" /\ tab'[a].write.step = "done"
          /\ tab[a].write.request.does # "revokeKey")
         => Needs(tab[a].write.request.does) \in permissions_of(db, a)]_adminVars

\* A sheet that opened before a permission was deleted never brings it back in
\* a role (roles.py _grant_permissions).
RolesGrantWhatExists == \A r \in DOMAIN db.roles : db.roles[r] \subseteq db.permissions

\* Once a write is answered and settled, the tab shows lists that have it, or
\* knows them to be out of date, whatever reads overlapped it (queries.ts
\* refreshAfterAdminWrite).
ShowsWhatItWrote ==
  \A a \in adminScene.who :
    tab[a].at = "admin" /\ tab[a].write.step = "none" => tab[a].seen \/ tab[a].stale

\* A visitor who took admin.view from themselves doesn't stay on the page
\* (useAdminWrite.ts): a settled tab's account has it.
StaysWithTheView ==
  \A a \in adminScene.who :
    tab[a].at = "admin" /\ tab[a].write.step = "none" => View \in tab[a].mine

\* The roles form differs from the roles that the page last heard the account
\* holds only in the boxes pressed since, so it takes away nothing it didn't
\* show (AccountAdmin.tsx RolesForm's key).
FormIsOfTheShown ==
  \A a \in adminScene.who :
    tab[a].edit.does = "setRoles" =>
      \A r \in DOMAIN tab[a].lists.roles :
        (r \in tab[a].edit.set) # (r \in tab[a].pressed) <=> r \in tab[a].lists.held[tab[a].edit.of]

\* An account comes to hold a role by an administrator's write, or once by its
\* email's grant, so a role that is taken away stays away over its sign-ins
\* (roles.py claim_email_role_grants).
GrantsServeOnce ==
  [][\A a \in AdminAccount : \A r \in db'.held[a] \ db.held[a] :
       \/ r \in db.granted /\ r \notin db'.granted
       \/ \E b \in adminScene.who :
            /\ tab[b].write.step = "allowed" /\ tab'[b].write.step = "done"
            /\ tab[b].write.request.does = "setRoles" /\ tab[b].write.request.of = a
            /\ r \in tab[b].write.request.set]_adminVars

\* ownership.py:38: only a verified account grants a role.
OnlyVerifiedGrant ==
  [][db'.held # db.held /\ db'.roles = db.roles =>
       \A a \in adminScene.who :
         tab[a].write.step = "allowed" /\ tab'[a].write.step = "done" => a \in db.verified]_adminVars

\* Roles and forms are over what exists and what was shown, and a settled tab
\* shows what it wrote and may be where it is.
AdminInv ==
  /\ AdminTypeOK /\ RolesGrantWhatExists /\ ShowsWhatItWrote
  /\ StaysWithTheView /\ FormIsOfTheShown

\* However stale the tabs: somebody administers, a write is allowed as it
\* lands, and a grant by email serves once.
AdminWrites ==
  /\ WritesKeepAnAdministrator /\ OnlyTheAllowedWrite /\ GrantsServeOnce
=============================================================================
