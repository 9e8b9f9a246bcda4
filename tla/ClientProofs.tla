---------------------------- MODULE ClientProofs ----------------------------
(***************************************************************************)
(* Proofs about three of the clients. The admin page: somebody administers *)
(* whatever stale tabs write, a form holds what was pressed since its      *)
(* lists were read, and a tab that has its answers shows its own write.    *)
(* The form of a new match: a setup starts one match at most.  The iOS     *)
(* app: its key and its session are those of the account that it shows,    *)
(* and none of them is left after a sign-out.                              *)
(***************************************************************************)
EXTENDS Admin, NewMatch, AppModel, FiniteSetTheorems, TLAPS

-----------------------------------------------------------------------------
(* The admin page.                                                         *)

\* What the API may have stored.
DbOK(d) ==
  /\ DOMAIN d = {"permissions", "roles", "held", "granted", "verified", "adopted", "revoked"}
  /\ BuiltIn \subseteq d.permissions /\ d.permissions \subseteq Permission
  /\ DOMAIN d.roles \subseteq Role
  /\ \A r \in DOMAIN d.roles : d.roles[r] \subseteq d.permissions
  /\ d.held \in [AdminAccount -> SUBSET DOMAIN d.roles]
  /\ d.granted \subseteq DOMAIN d.roles
  /\ d.verified \subseteq AdminAccount /\ d.adopted \subseteq AdminAccount \ d.verified
  /\ d.revoked \subseteq Key

\* What a form may be of.
Subject(does) ==
  CASE does \in RoleEdits -> Role
    [] does = "createPermission" -> Custom
    [] does \in {"updatePermission", "deletePermission"} -> Permission
    [] does = "setRoles" -> AdminAccount
    [] does = "revokeKey" -> Key
AnEdit(e) ==
  /\ e.does \in Edits /\ e.of \in Subject(e.does)
  /\ DOMAIN e = {"does", "of", "set"}

WriteStep == {"none", "sent", "allowed", "done", "refused", "refreshing"}
ReadStep == {"none", "asked", "read"}

\* A tab's parts: its lists, its reads, its form and its write.
ListsOK(t) == DbOK(t.lists) /\ DbOK(t.load.lists)
ReadsOK(t) ==
  /\ DOMAIN t.load = {"step", "lists", "seen"} /\ DOMAIN t.account = {"step", "mine"}
  /\ t.load.step \in ReadStep /\ t.account.step \in ReadStep
  /\ t.seen \in BOOLEAN /\ t.stale \in BOOLEAN /\ t.load.seen \in BOOLEAN
FormOK(t) ==
  /\ t.edit = NoEdit \/ AnEdit(t.edit)
  /\ t.edit = NoEdit => t.pressed = {}
  /\ t.at \in {"admin", "home"} /\ (t.at = "home" => t.edit = NoEdit)
WriteOK(t) ==
  /\ DOMAIN t.write = {"step", "request", "open"}
  /\ t.write.step \in WriteStep /\ t.write.open \in BOOLEAN
  /\ t.write.step # "none" => AnEdit(t.write.request)
  /\ t.write.open => t.edit # NoEdit /\ t.write.step # "none"
  /\ t.writes \in 0..MaxWrites

\* The roles form is the roles that its account held, as pressed since.
FormIsPressed(t) ==
  t.edit.does = "setRoles" =>
    \A r : (r \in t.edit.set) # (r \in t.pressed) <=> r \in t.lists.held[t.edit.of]

\* Until a write is stored, lists on their way or shown have the last one, or
\* the tab knows that they don't.
SeesItsWrites(t) ==
  t.write.step # "done" => (t.seen \/ t.stale) /\ (t.load.step = "read" => t.load.seen)

\* An account's permissions are read after a write only, and the loader looks
\* at them then.
SeesItsView(t) ==
  /\ t.account.step # "none" => t.write.step = "refreshing"
  /\ t.at = "admin" /\ t.write.step # "refreshing" => View \in t.mine

Fields == {"at", "lists", "mine", "seen", "stale", "load", "account", "edit", "pressed", "write", "writes"}
TabInv(t) ==
  /\ DOMAIN t = Fields
  /\ ListsOK(t) /\ ReadsOK(t) /\ FormOK(t) /\ WriteOK(t)
  /\ FormIsPressed(t) /\ SeesItsWrites(t) /\ SeesItsView(t)

\* The inductive invariant of the admin page.
AIInv ==
  /\ adminScene \in AdminScenes
  /\ DbOK(db)
  /\ DOMAIN tab = adminScene.who /\ tab = [a \in adminScene.who |-> tab[a]]
  /\ \A a \in adminScene.who : TabInv(tab[a])

-----------------------------------------------------------------------------
(* The API.                                                                *)

\* A sign-in's claim of grants keeps what the API stored as it should be.
LEMMA ClaimFacts ==
  ASSUME NEW d, DbOK(d), NEW a \in AdminAccount
  PROVE  /\ DbOK(claim_email_role_grants(d, a))
         /\ claim_email_role_grants(d, a).roles = d.roles
         /\ claim_email_role_grants(d, a).granted = {}
         /\ claim_email_role_grants(d, a).adopted = d.adopted
         /\ \A b \in AdminAccount :
              claim_email_role_grants(d, a).held[b] = d.held[b] \cup IF b = a THEN d.granted ELSE {}
BY DEF DbOK, claim_email_role_grants

\* A write stores what it should, and leaves alone who is verified or adopted.
LEMMA OutcomesOK ==
  ASSUME NEW d, DbOK(d), NEW e, AnEdit(e), NEW w \in Outcomes(d, e)
  PROVE  DbOK(w) /\ w.adopted = d.adopted /\ w.verified = d.verified
<1>1. CASE e.does = "createPermission"
  <2>1. w = [d EXCEPT !.permissions = @ \cup {e.of}] /\ e.of \in Custom
    BY <1>1 DEF Outcomes, create_permission, AnEdit, Subject, RoleEdits
  <2> QED BY <2>1 DEF DbOK, Permission
<1>2. CASE e.does = "updatePermission"
  BY <1>2 DEF Outcomes, update_permission
<1>3. CASE e.does = "deletePermission"
  <2>1. /\ w = [d EXCEPT !.permissions = @ \ {e.of}, !.roles = [r \in DOMAIN @ |-> @[r] \ {e.of}]]
        /\ e.of \notin BuiltIn
    BY <1>3 DEF Outcomes, delete_permission
  <2> QED BY <2>1 DEF DbOK
<1>4. CASE e.does = "createRole"
  <2>1. /\ w = [d EXCEPT !.roles = [r \in DOMAIN @ \cup {e.of} |-> IF r = e.of THEN e.set ELSE @[r]]]
        /\ e.of \in Role \ DOMAIN d.roles /\ e.set \subseteq d.permissions
    BY <1>4 DEF Outcomes, create_role, grants_known, AnEdit, Subject, RoleEdits
  <2> QED BY <2>1 DEF DbOK
<1>5. CASE e.does = "updateRole"
  <2>1. /\ w = [d EXCEPT !.roles[e.of] = e.set]
        /\ e.of \in DOMAIN d.roles /\ e.set \subseteq d.permissions
    BY <1>5 DEF Outcomes, update_role, grants_known, StillAdministered
  <2> QED BY <2>1 DEF DbOK
<1>6. CASE e.does = "deleteRole"
  <2>1. w = WithoutRole(d, e.of)
    BY <1>6 DEF Outcomes, delete_role, StillAdministered
  <2> QED BY <2>1 DEF DbOK, WithoutRole
<1>7. CASE e.does = "setRoles"
  <2>1. /\ w = [d EXCEPT !.held[e.of] = e.set]
        /\ e.of \in d.verified /\ e.set \subseteq DOMAIN d.roles
    BY <1>7 DEF Outcomes, set_account_roles, StillAdministered
  <2> QED BY <2>1 DEF DbOK
<1>8. CASE e.does = "revokeKey"
  <2>1. w = [d EXCEPT !.revoked = @ \cup {e.of}] /\ e.of \in Key
    BY <1>8 DEF Outcomes, revoke_any_key, AnEdit, Subject, RoleEdits
  <2> QED BY <2>1 DEF DbOK
<1> QED BY <1>1, <1>2, <1>3, <1>4, <1>5, <1>6, <1>7, <1>8
        DEF AnEdit, Edits, PermissionEdits, RoleEdits
\* No write leaves nobody who may grant a role: it keeps the roles that grant
\* it and who holds them, or counts the administrators (roles.py
\* _require_an_administrator).
LEMMA AnAdministratorStays ==
  ASSUME NEW d, DbOK(d), NEW e, AnEdit(e), NEW w \in Outcomes(d, e), Administrators(d) # {}
  PROVE  Administrators(w) # {}
<1> PICK a \in Administrators(d) : TRUE
  OBVIOUS
<1>1. a \in AdminAccount \ d.adopted /\ \E r \in d.held[a] : Grant \in d.roles[r]
  BY DEF Administrators, permissions_of
<1>2. SUFFICES ASSUME w.held = d.held, w.adopted = d.adopted,
                      \A r \in DOMAIN d.roles : Grant \in d.roles[r] => Grant \in w.roles[r],
                      \A b \in AdminAccount : d.held[b] \subseteq DOMAIN d.roles
               PROVE  Administrators(w) # {}
  <2>0. DbOK(w) /\ w.adopted = d.adopted /\ \A b \in AdminAccount : d.held[b] \subseteq DOMAIN d.roles
    BY OutcomesOK DEF DbOK
  <2>1. CASE e.does = "createPermission"
    <3>1. w.held = d.held /\ w.roles = d.roles
      BY <2>1 DEF Outcomes, create_permission, DbOK
    <3> QED BY <3>1, <2>0, <1>2
  <2>2. CASE e.does = "updatePermission"
    <3>1. w = d
      BY <2>2 DEF Outcomes, update_permission
    <3> QED BY <3>1
  <2>3. CASE e.does = "deletePermission"
    <3>1. /\ w = [d EXCEPT !.permissions = @ \ {e.of}, !.roles = [r \in DOMAIN @ |-> @[r] \ {e.of}]]
          /\ e.of # Grant
      BY <2>3 DEF Outcomes, delete_permission, BuiltIn
    <3>2. w.held = d.held /\ \A r \in DOMAIN d.roles : Grant \in d.roles[r] => Grant \in w.roles[r]
      BY <3>1 DEF DbOK
    <3> QED BY <3>2, <2>0, <1>2
  <2>4. CASE e.does = "createRole"
    <3>1. /\ w = [d EXCEPT !.roles = [r \in DOMAIN @ \cup {e.of} |-> IF r = e.of THEN e.set ELSE @[r]]]
          /\ e.of \notin DOMAIN d.roles
      BY <2>4 DEF Outcomes, create_role
    <3>2. w.held = d.held /\ \A r \in DOMAIN d.roles : Grant \in d.roles[r] => Grant \in w.roles[r]
      BY <3>1 DEF DbOK
    <3> QED BY <3>2, <2>0, <1>2
  <2>5. CASE e.does \in {"updateRole", "deleteRole", "setRoles"}
    BY <2>5 DEF Outcomes, update_role, delete_role, set_account_roles, StillAdministered
  <2>6. CASE e.does = "revokeKey"
    <3>1. w.held = d.held /\ w.roles = d.roles
      BY <2>6 DEF Outcomes, revoke_any_key, DbOK
    <3> QED BY <3>1, <2>0, <1>2
  <2> QED BY <2>1, <2>2, <2>3, <2>4, <2>5, <2>6 DEF AnEdit, Edits, PermissionEdits, RoleEdits
<1>3. a \in Administrators(w)
  BY <1>1, <1>2 DEF Administrators, permissions_of
<1> QED BY <1>3
-----------------------------------------------------------------------------
(* The tabs.                                                               *)

\* A step that moves one tab, and stores what it should.
LEMMA OneTabMoves ==
  ASSUME AIInv, NEW a \in adminScene.who, NEW t, Became(a, t), TabInv(t), DbOK(db'),
         UNCHANGED adminScene
  PROVE  AIInv'
<1>1. DOMAIN tab' = adminScene.who /\ tab' = [b \in adminScene.who |-> tab'[b]]
  BY DEF AIInv, Became
<1>2. \A b \in adminScene.who : tab'[b] = IF b = a THEN t ELSE tab[b]
  BY DEF AIInv, Became
<1>3. \A b \in adminScene.who : TabInv(tab'[b])
  BY <1>2 DEF AIInv
<1> QED BY <1>1, <1>3 DEF AIInv

\* A form that closes, without or with its write.
LEMMA NoEditFacts == NoEdit.does = "nothing" /\ ~AnEdit(NoEdit) /\ \A e : AnEdit(e) => e # NoEdit
<1>1. NoEdit.does = "nothing"
  BY DEF NoEdit
<1>2. \A e : AnEdit(e) => e.does # "nothing"
  BY DEF AnEdit, Edits, PermissionEdits, RoleEdits
<1> QED BY <1>1, <1>2

\* What the page offers with the lists it has.
LEMMA OfferedFacts ==
  ASSUME NEW lists, DbOK(lists), NEW e \in Offered(lists)
  PROVE  AnEdit(e) /\ (e.does = "setRoles" => e.set = lists.held[e.of])
<1>1. CASE e \in RoleSheets(lists) \cup DeleteRole(lists)
  BY <1>1 DEF RoleSheets, DeleteRole, Edit, AnEdit, Subject, Edits, RoleEdits, PermissionEdits, DbOK
<1>2. CASE e \in NewPermission
  BY <1>2 DEF NewPermission, Edit, AnEdit, Subject, Edits, RoleEdits, PermissionEdits, DbOK
<1>3. CASE e \in EditPermission(lists) \cup DeletePermission(lists)
  BY <1>3 DEF EditPermission, DeletePermission, Edit, AnEdit, Subject, Edits, RoleEdits, PermissionEdits, DbOK
<1>4. CASE e \in RevokeKey(lists)
  BY <1>4 DEF RevokeKey, Edit, AnEdit, Subject, Edits, RoleEdits, PermissionEdits, DbOK
<1>5. CASE e \in RolesForms(lists)
  BY <1>5 DEF RolesForms, Edit, AnEdit, Subject, Edits, RoleEdits, PermissionEdits, DbOK
<1> QED BY <1>1, <1>2, <1>3, <1>4, <1>5 DEF Offered

\* A form that opens holds what its lists say.
LEMMA OpenInv ==
  ASSUME AIInv, NEW a \in adminScene.who, Open(a)
  PROVE  AIInv'
<1> DEFINE t == tab[a]
<1>1. PICK e \in Offered(t.lists) : Became(a, [t EXCEPT !.edit = e])
  BY DEF Open
<1> DEFINE u == [t EXCEPT !.edit = e]
<1>2. TabInv(t) /\ DbOK(db) /\ t.edit = NoEdit /\ t.at = "admin"
  BY DEF AIInv, Open
<1>3. DOMAIN u = Fields /\ u.edit = e /\ \A f \in Fields \ {"edit"} : u[f] = t[f]
  BY <1>2 DEF TabInv, Fields
<1>4. AnEdit(e) /\ (e.does = "setRoles" => e.set = t.lists.held[e.of])
  BY <1>2, OfferedFacts DEF TabInv, ListsOK
<1> HIDE DEF u, t
<1>5. ListsOK(u) /\ ReadsOK(u) /\ WriteOK(u) /\ SeesItsWrites(u) /\ SeesItsView(u)
  BY <1>2, <1>3, <1>4, NoEditFacts DEF TabInv, ListsOK, ReadsOK, WriteOK, SeesItsWrites, SeesItsView, Fields
<1>6. FormOK(u) /\ FormIsPressed(u)
  BY <1>2, <1>3, <1>4, NoEditFacts DEF TabInv, FormOK, FormIsPressed, Fields
<1>7. TabInv(u)
  BY <1>3, <1>5, <1>6 DEF TabInv
<1>8. Became(a, u) /\ UNCHANGED <<adminScene, db>>
  BY <1>1 DEF u, t, Open
<1> QED BY <1>2, <1>7, <1>8, OneTabMoves
\* A press is of a box that shows, so the form still holds what was pressed.
LEMMA PressInv ==
  ASSUME AIInv, NEW a \in adminScene.who, Press(a)
  PROVE  AIInv'
<1> DEFINE t == tab[a]
<1>1. PICK x \in Boxes(t) :
        Became(a, [t EXCEPT !.edit.set = Toggled(@ \cap Boxes(t), x), !.pressed = Toggled(@ \cap Boxes(t), x)])
  BY DEF Press
<1> DEFINE set == Toggled(t.edit.set \cap Boxes(t), x)
           pressed == Toggled(t.pressed \cap Boxes(t), x)
           e == [t.edit EXCEPT !.set = set]
           u == [t EXCEPT !.edit.set = Toggled(@ \cap Boxes(t), x), !.pressed = Toggled(@ \cap Boxes(t), x)]
<1>2. TabInv(t) /\ DbOK(db) /\ t.edit.does \in {"createRole", "updateRole", "setRoles"}
  BY DEF AIInv, Press
<1>3. t.edit # NoEdit /\ AnEdit(t.edit)
  BY <1>2, NoEditFacts DEF TabInv, FormOK
<1>4. /\ DOMAIN u = Fields /\ u.edit = e /\ u.pressed = pressed
      /\ \A f \in Fields \ {"edit", "pressed"} : u[f] = t[f]
  BY <1>2 DEF TabInv, Fields
<1>5. AnEdit(e) /\ e.does = t.edit.does /\ e.of = t.edit.of /\ e.set = set
  BY <1>3 DEF AnEdit
<1>6. FormIsPressed(u)
  <2> SUFFICES ASSUME t.edit.does = "setRoles", NEW r
               PROVE  (r \in set) # (r \in pressed) <=> r \in t.lists.held[t.edit.of]
    BY <1>4, <1>5 DEF FormIsPressed, Fields
  <2>1. (r \in t.edit.set) # (r \in t.pressed) <=> r \in t.lists.held[t.edit.of]
    BY <1>2 DEF TabInv, FormIsPressed
  <2>2. t.edit.of \in AdminAccount
    BY <1>3 DEF AnEdit, Subject, RoleEdits
  <2>3. r \in t.lists.held[t.edit.of] => r \in Boxes(t)
    BY <1>2, <2>2 DEF TabInv, ListsOK, DbOK, Boxes
  <2> HIDE DEF t
  <2> QED BY <2>1, <2>3 DEF Toggled
<1>7. Became(a, u) /\ UNCHANGED <<adminScene, db>>
  BY <1>1 DEF Press
<1> HIDE DEF u, e, t, set, pressed
<1>8. ListsOK(u) /\ ReadsOK(u) /\ WriteOK(u) /\ SeesItsWrites(u) /\ SeesItsView(u)
  BY <1>2, <1>4, <1>5, NoEditFacts DEF TabInv, ListsOK, ReadsOK, WriteOK, SeesItsWrites, SeesItsView, Fields
<1>9. FormOK(u)
  BY <1>2, <1>3, <1>4, <1>5, NoEditFacts DEF TabInv, FormOK, Fields
<1>10. TabInv(u)
  BY <1>4, <1>6, <1>8, <1>9 DEF TabInv
<1> QED BY <1>2, <1>7, <1>10, OneTabMoves

\* A submit sends the form.
LEMMA SubmitInv ==
  ASSUME AIInv, NEW a \in adminScene.who, Submit(a)
  PROVE  AIInv'
<1> DEFINE t == tab[a]
           u == [t EXCEPT !.write = [step |-> "sent", request |-> t.edit, open |-> TRUE], !.writes = @ + 1]
<1>1. Became(a, u) /\ UNCHANGED <<adminScene, db>>
  BY DEF Submit
<1>2. TabInv(t) /\ DbOK(db)
  BY DEF AIInv
<1>3. t.edit # NoEdit /\ t.write.step = "none" /\ t.writes < MaxWrites
  BY DEF Submit
<1>4. /\ DOMAIN u = Fields /\ u.write = [step |-> "sent", request |-> t.edit, open |-> TRUE] /\ u.writes = t.writes + 1
      /\ \A f \in Fields \ {"write", "writes"} : u[f] = t[f]
  BY <1>2 DEF TabInv, Fields, WriteOK, ReadsOK
<1> HIDE DEF t, u
<1>5. ListsOK(u) /\ ReadsOK(u)
  BY <1>2, <1>3, <1>4 DEF TabInv, ListsOK, ReadsOK, Fields, ReadStep
<1>6. FormOK(u) /\ WriteOK(u)
  BY AdminAssumption, <1>2, <1>3, <1>4, NoEditFacts DEF TabInv, FormOK, WriteOK, WriteStep, Fields, NoWrite
<1>7. FormIsPressed(u) /\ SeesItsWrites(u) /\ SeesItsView(u)
  BY <1>2, <1>3, <1>4, NoEditFacts DEF TabInv, FormIsPressed, SeesItsWrites, SeesItsView, Fields, NoWrite, ReadsOK
<1>8. TabInv(u)
  BY <1>4, <1>5, <1>6, <1>7 DEF TabInv
<1> QED BY <1>1, <1>2, <1>8, OneTabMoves

\* A form that was left lets its write go on.
LEMMA CancelInv ==
  ASSUME AIInv, NEW a \in adminScene.who, Cancel(a)
  PROVE  AIInv'
<1> DEFINE t == tab[a]
           u == [t EXCEPT !.edit = NoEdit, !.pressed = {}, !.write.open = FALSE]
<1>1. Became(a, u) /\ UNCHANGED <<adminScene, db>>
  BY DEF Cancel
<1>2. TabInv(t) /\ DbOK(db)
  BY DEF AIInv
<1>3. TRUE
  BY DEF Cancel
<1>4. /\ DOMAIN u = Fields /\ u.edit = NoEdit /\ u.pressed = {} /\ u.write = [t.write EXCEPT !.open = FALSE]
      /\ \A f \in Fields \ {"edit", "pressed", "write"} : u[f] = t[f]
  BY <1>2 DEF TabInv, Fields, WriteOK, ReadsOK
<1> HIDE DEF t, u
<1>5. ListsOK(u) /\ ReadsOK(u)
  BY <1>2, <1>3, <1>4 DEF TabInv, ListsOK, ReadsOK, Fields, ReadStep
<1>6. FormOK(u) /\ WriteOK(u)
  BY <1>2, <1>3, <1>4, NoEditFacts DEF TabInv, FormOK, WriteOK, WriteStep, Fields, NoWrite
<1>7. FormIsPressed(u) /\ SeesItsWrites(u) /\ SeesItsView(u)
  BY <1>2, <1>3, <1>4, NoEditFacts DEF TabInv, FormIsPressed, SeesItsWrites, SeesItsView, Fields, NoWrite, ReadsOK
<1>8. TabInv(u)
  BY <1>4, <1>5, <1>6, <1>7 DEF TabInv
<1> QED BY <1>1, <1>2, <1>8, OneTabMoves

\* The route lets a request through or not.
LEMMA CheckInv ==
  ASSUME AIInv, NEW a \in adminScene.who, Check(a)
  PROVE  AIInv'
<1> DEFINE t == tab[a]
           u == [t EXCEPT !.write.step =
                  IF a \notin db.adopted /\ Needs(t.write.request.does) \in permissions_of(db, a)
                  THEN "allowed" ELSE "refused"]
<1>1. Became(a, u) /\ UNCHANGED <<adminScene, db>>
  BY DEF Check
<1>2. TabInv(t) /\ DbOK(db)
  BY DEF AIInv
<1>3. t.write.step = "sent"
  BY DEF Check
<1>4. /\ DOMAIN u = Fields /\ u.write = [t.write EXCEPT !.step =
                  IF a \notin db.adopted /\ Needs(t.write.request.does) \in permissions_of(db, a)
                  THEN "allowed" ELSE "refused"]
      /\ \A f \in Fields \ {"write"} : u[f] = t[f]
  BY <1>2 DEF TabInv, Fields, WriteOK, ReadsOK
<1> HIDE DEF t, u
<1>5. ListsOK(u) /\ ReadsOK(u)
  BY <1>2, <1>3, <1>4 DEF TabInv, ListsOK, ReadsOK, Fields, ReadStep
<1>6. FormOK(u) /\ WriteOK(u)
  BY <1>2, <1>3, <1>4, NoEditFacts DEF TabInv, FormOK, WriteOK, WriteStep, Fields, NoWrite
<1>7. FormIsPressed(u) /\ SeesItsWrites(u) /\ SeesItsView(u)
  BY <1>2, <1>3, <1>4, NoEditFacts DEF TabInv, FormIsPressed, SeesItsWrites, SeesItsView, Fields, NoWrite, ReadsOK
<1>8. TabInv(u)
  BY <1>4, <1>5, <1>6, <1>7 DEF TabInv
<1> QED BY <1>1, <1>2, <1>8, OneTabMoves

\* An answer that is lost ends the write for the tab.
LEMMA LostInv ==
  ASSUME AIInv, NEW a \in adminScene.who, Lost(a)
  PROVE  AIInv'
<1> DEFINE t == tab[a]
           u == [t EXCEPT !.write = NoWrite, !.seen = TRUE, !.load.seen = TRUE]
<1>1. Became(a, u) /\ UNCHANGED <<adminScene, db>>
  BY DEF Lost
<1>2. TabInv(t) /\ DbOK(db)
  BY DEF AIInv
<1>3. t.write.step \in {"sent", "done"}
  BY DEF Lost
<1>4. /\ DOMAIN u = Fields /\ u.write = NoWrite /\ u.seen = TRUE /\ u.load = [t.load EXCEPT !.seen = TRUE]
      /\ \A f \in Fields \ {"write", "seen", "load"} : u[f] = t[f]
  BY <1>2 DEF TabInv, Fields, WriteOK, ReadsOK
<1> HIDE DEF t, u
<1>5. ListsOK(u) /\ ReadsOK(u)
  BY <1>2, <1>3, <1>4 DEF TabInv, ListsOK, ReadsOK, Fields, ReadStep
<1>6. FormOK(u) /\ WriteOK(u)
  BY <1>2, <1>3, <1>4, NoEditFacts DEF TabInv, FormOK, WriteOK, WriteStep, Fields, NoWrite
<1>7. FormIsPressed(u) /\ SeesItsWrites(u) /\ SeesItsView(u)
  BY <1>2, <1>3, <1>4, NoEditFacts DEF TabInv, FormIsPressed, SeesItsWrites, SeesItsView, Fields, NoWrite, ReadsOK
<1>8. TabInv(u)
  BY <1>4, <1>5, <1>6, <1>7 DEF TabInv
<1> QED BY <1>1, <1>2, <1>8, OneTabMoves

\* A focus asks for the lists.
LEMMA FocusInv ==
  ASSUME AIInv, NEW a \in adminScene.who, Focus(a)
  PROVE  AIInv'
<1> DEFINE t == tab[a]
           u == [t EXCEPT !.load.step = "asked"]
<1>1. Became(a, u) /\ UNCHANGED <<adminScene, db>>
  BY DEF Focus
<1>2. TabInv(t) /\ DbOK(db)
  BY DEF AIInv
<1>3. t.load.step = "none"
  BY DEF Focus
<1>4. /\ DOMAIN u = Fields /\ u.load = [t.load EXCEPT !.step = "asked"]
      /\ \A f \in Fields \ {"load"} : u[f] = t[f]
  BY <1>2 DEF TabInv, Fields, WriteOK, ReadsOK
<1> HIDE DEF t, u
<1>5. ListsOK(u) /\ ReadsOK(u)
  BY <1>2, <1>3, <1>4 DEF TabInv, ListsOK, ReadsOK, Fields, ReadStep
<1>6. FormOK(u) /\ WriteOK(u)
  BY <1>2, <1>3, <1>4, NoEditFacts DEF TabInv, FormOK, WriteOK, WriteStep, Fields, NoWrite
<1>7. FormIsPressed(u) /\ SeesItsWrites(u) /\ SeesItsView(u)
  BY <1>2, <1>3, <1>4, NoEditFacts DEF TabInv, FormIsPressed, SeesItsWrites, SeesItsView, Fields, NoWrite, ReadsOK
<1>8. TabInv(u)
  BY <1>4, <1>5, <1>6, <1>7 DEF TabInv
<1> QED BY <1>1, <1>2, <1>8, OneTabMoves

\* The lists that are read now have every write.
LEMMA ReadListsInv ==
  ASSUME AIInv, NEW a \in adminScene.who, ReadLists(a)
  PROVE  AIInv'
<1> DEFINE t == tab[a]
           u == [t EXCEPT !.load = [step |-> "read", lists |-> db, seen |-> TRUE]]
<1>1. Became(a, u) /\ UNCHANGED <<adminScene, db>>
  BY DEF ReadLists
<1>2. TabInv(t) /\ DbOK(db)
  BY DEF AIInv
<1>3. t.load.step = "asked"
  BY DEF ReadLists
<1>4. /\ DOMAIN u = Fields /\ u.load = [step |-> "read", lists |-> db, seen |-> TRUE]
      /\ \A f \in Fields \ {"load"} : u[f] = t[f]
  BY <1>2 DEF TabInv, Fields, WriteOK, ReadsOK
<1> HIDE DEF t, u
<1>5. ListsOK(u) /\ ReadsOK(u)
  BY <1>2, <1>3, <1>4 DEF TabInv, ListsOK, ReadsOK, Fields, ReadStep
<1>6. FormOK(u) /\ WriteOK(u)
  BY <1>2, <1>3, <1>4, NoEditFacts DEF TabInv, FormOK, WriteOK, WriteStep, Fields, NoWrite
<1>7. FormIsPressed(u) /\ SeesItsWrites(u) /\ SeesItsView(u)
  BY <1>2, <1>3, <1>4, NoEditFacts DEF TabInv, FormIsPressed, SeesItsWrites, SeesItsView, Fields, NoWrite, ReadsOK
<1>8. TabInv(u)
  BY <1>4, <1>5, <1>6, <1>7 DEF TabInv
<1> QED BY <1>1, <1>2, <1>8, OneTabMoves

\* The account's permissions are read after a write.
LEMMA ReadAccountInv ==
  ASSUME AIInv, NEW a \in adminScene.who, ReadAccount(a)
  PROVE  AIInv'
<1> DEFINE t == tab[a]
           u == [t EXCEPT !.account = [step |-> "read", mine |-> permissions_of(db, a)]]
<1>1. Became(a, u) /\ UNCHANGED <<adminScene, db>>
  BY DEF ReadAccount
<1>2. TabInv(t) /\ DbOK(db)
  BY DEF AIInv
<1>3. t.account.step = "asked"
  BY DEF ReadAccount
<1>4. /\ DOMAIN u = Fields /\ u.account = [step |-> "read", mine |-> permissions_of(db, a)]
      /\ \A f \in Fields \ {"account"} : u[f] = t[f]
  BY <1>2 DEF TabInv, Fields, WriteOK, ReadsOK
<1> HIDE DEF t, u
<1>5. ListsOK(u) /\ ReadsOK(u)
  BY <1>2, <1>3, <1>4 DEF TabInv, ListsOK, ReadsOK, Fields, ReadStep
<1>6. FormOK(u) /\ WriteOK(u)
  BY <1>2, <1>3, <1>4, NoEditFacts DEF TabInv, FormOK, WriteOK, WriteStep, Fields, NoWrite
<1>7. FormIsPressed(u) /\ SeesItsWrites(u) /\ SeesItsView(u)
  BY <1>2, <1>3, <1>4, NoEditFacts DEF TabInv, FormIsPressed, SeesItsWrites, SeesItsView, Fields, NoWrite, ReadsOK
<1>8. TabInv(u)
  BY <1>4, <1>5, <1>6, <1>7 DEF TabInv
<1> QED BY <1>1, <1>2, <1>8, OneTabMoves

\* The loader hasn't looked at the permissions that arrive.
LEMMA AccountArrivesInv ==
  ASSUME AIInv, NEW a \in adminScene.who, AccountArrives(a)
  PROVE  AIInv'
<1> DEFINE t == tab[a]
           u == [t EXCEPT !.mine = t.account.mine, !.account = [step |-> "none", mine |-> {}]]
<1>1. Became(a, u) /\ UNCHANGED <<adminScene, db>>
  BY DEF AccountArrives
<1>2. TabInv(t) /\ DbOK(db)
  BY DEF AIInv
<1>3. t.account.step = "read"
  BY DEF AccountArrives
<1>4. /\ DOMAIN u = Fields /\ u.mine = t.account.mine /\ u.account = [step |-> "none", mine |-> {}]
      /\ \A f \in Fields \ {"mine", "account"} : u[f] = t[f]
  BY <1>2 DEF TabInv, Fields, WriteOK, ReadsOK
<1> HIDE DEF t, u
<1>5. ListsOK(u) /\ ReadsOK(u)
  BY <1>2, <1>3, <1>4 DEF TabInv, ListsOK, ReadsOK, Fields, ReadStep
<1>6. FormOK(u) /\ WriteOK(u)
  BY <1>2, <1>3, <1>4, NoEditFacts DEF TabInv, FormOK, WriteOK, WriteStep, Fields, NoWrite
<1>7. FormIsPressed(u) /\ SeesItsWrites(u) /\ SeesItsView(u)
  BY <1>2, <1>3, <1>4, NoEditFacts DEF TabInv, FormIsPressed, SeesItsWrites, SeesItsView, Fields, NoWrite, ReadsOK
<1>8. TabInv(u)
  BY <1>4, <1>5, <1>6, <1>7 DEF TabInv
<1> QED BY <1>1, <1>2, <1>8, OneTabMoves

\* An answered write asks for both reads, and cancels those on their way.
LEMMA AnsweredInv ==
  ASSUME AIInv, NEW a \in adminScene.who, Answered(a)
  PROVE  AIInv'
<1> DEFINE t == tab[a]
<1>0. UNCHANGED <<adminScene, db>> /\ (AIInv => DbOK(db'))
  BY DEF Answered, AIInv
<1>1. CASE t.write.step = "done" /\ Became(a, refreshAfterAdminWrite([t EXCEPT !.write.step = "refreshing"]))
  <2> DEFINE u == refreshAfterAdminWrite([t EXCEPT !.write.step = "refreshing"])
  <2>1. TabInv(t) /\ DbOK(db)
    BY DEF AIInv
  <2>2. /\ DOMAIN u = Fields /\ u.write = [t.write EXCEPT !.step = "refreshing"] /\ u.stale = TRUE /\ u.load = [t.load EXCEPT !.step = "asked"] /\ u.account = [t.account EXCEPT !.step = "asked"]
        /\ \A f \in Fields \ {"write", "stale", "load", "account"} : u[f] = t[f]
    BY <2>1 DEF TabInv, Fields, WriteOK, ReadsOK, refreshAfterAdminWrite
  <2>3. Became(a, u) => AIInv'
    <3> HIDE DEF t, u
    <3>1. ListsOK(u) /\ ReadsOK(u)
      BY <1>1, <2>1, <2>2 DEF TabInv, ListsOK, ReadsOK, Fields, ReadStep
    <3>2. FormOK(u) /\ WriteOK(u)
      BY <1>1, <2>1, <2>2, NoEditFacts DEF TabInv, FormOK, WriteOK, WriteStep, Fields, NoWrite
    <3>3. FormIsPressed(u) /\ SeesItsWrites(u) /\ SeesItsView(u)
      BY <1>1, <2>1, <2>2, NoEditFacts DEF TabInv, FormIsPressed, SeesItsWrites, SeesItsView, Fields, NoWrite, ReadsOK
    <3>4. TabInv(u)
      BY <2>2, <3>1, <3>2, <3>3 DEF TabInv
    <3> QED BY <1>0, <2>1, <3>4, OneTabMoves
  <2> QED BY <1>1, <2>3
<1>2. CASE t.write.step = "refused" /\ Became(a, [t EXCEPT !.write = NoWrite])
  <2> DEFINE u == [t EXCEPT !.write = NoWrite]
  <2>1. TabInv(t) /\ DbOK(db)
    BY DEF AIInv
  <2>2. /\ DOMAIN u = Fields /\ u.write = NoWrite
        /\ \A f \in Fields \ {"write"} : u[f] = t[f]
    BY <2>1 DEF TabInv, Fields, WriteOK, ReadsOK
  <2>3. Became(a, u) => AIInv'
    <3> HIDE DEF t, u
    <3>1. ListsOK(u) /\ ReadsOK(u)
      BY <1>2, <2>1, <2>2 DEF TabInv, ListsOK, ReadsOK, Fields, ReadStep
    <3>2. FormOK(u) /\ WriteOK(u)
      BY <1>2, <2>1, <2>2, NoEditFacts DEF TabInv, FormOK, WriteOK, WriteStep, Fields, NoWrite
    <3>3. FormIsPressed(u) /\ SeesItsWrites(u) /\ SeesItsView(u)
      BY <1>2, <2>1, <2>2, NoEditFacts DEF TabInv, FormIsPressed, SeesItsWrites, SeesItsView, Fields, NoWrite, ReadsOK
    <3>4. TabInv(u)
      BY <2>2, <3>1, <3>2, <3>3 DEF TabInv
    <3> QED BY <1>0, <2>1, <3>4, OneTabMoves
  <2> QED BY <1>2, <2>3
<1> QED BY <1>1, <1>2 DEF Answered

\* A read that fails leaves the tab as it was.
LEMMA ReadLostInv ==
  ASSUME AIInv, NEW a \in adminScene.who, ReadLost(a)
  PROVE  AIInv'
<1> DEFINE t == tab[a]
<1>0. UNCHANGED <<adminScene, db>> /\ (AIInv => DbOK(db'))
  BY DEF ReadLost, AIInv
<1>1. CASE Became(a, [t EXCEPT !.load = [step |-> "none", lists |-> t.lists, seen |-> TRUE]])
  <2> DEFINE u == [t EXCEPT !.load = [step |-> "none", lists |-> t.lists, seen |-> TRUE]]
  <2>1. TabInv(t) /\ DbOK(db)
    BY DEF AIInv
  <2>2. /\ DOMAIN u = Fields /\ u.load = [step |-> "none", lists |-> t.lists, seen |-> TRUE]
        /\ \A f \in Fields \ {"load"} : u[f] = t[f]
    BY <2>1 DEF TabInv, Fields, WriteOK, ReadsOK
  <2>3. Became(a, u) => AIInv'
    <3> HIDE DEF t, u
    <3>1. ListsOK(u) /\ ReadsOK(u)
      BY <1>1, <2>1, <2>2 DEF TabInv, ListsOK, ReadsOK, Fields, ReadStep
    <3>2. FormOK(u) /\ WriteOK(u)
      BY <1>1, <2>1, <2>2, NoEditFacts DEF TabInv, FormOK, WriteOK, WriteStep, Fields, NoWrite
    <3>3. FormIsPressed(u) /\ SeesItsWrites(u) /\ SeesItsView(u)
      BY <1>1, <2>1, <2>2, NoEditFacts DEF TabInv, FormIsPressed, SeesItsWrites, SeesItsView, Fields, NoWrite, ReadsOK
    <3>4. TabInv(u)
      BY <2>2, <3>1, <3>2, <3>3 DEF TabInv
    <3> QED BY <1>0, <2>1, <3>4, OneTabMoves
  <2> QED BY <1>1, <2>3
<1>2. CASE Became(a, [t EXCEPT !.account = [step |-> "none", mine |-> {}]])
  <2> DEFINE u == [t EXCEPT !.account = [step |-> "none", mine |-> {}]]
  <2>1. TabInv(t) /\ DbOK(db)
    BY DEF AIInv
  <2>2. /\ DOMAIN u = Fields /\ u.account = [step |-> "none", mine |-> {}]
        /\ \A f \in Fields \ {"account"} : u[f] = t[f]
    BY <2>1 DEF TabInv, Fields, WriteOK, ReadsOK
  <2>3. Became(a, u) => AIInv'
    <3> HIDE DEF t, u
    <3>1. ListsOK(u) /\ ReadsOK(u)
      BY <1>2, <2>1, <2>2 DEF TabInv, ListsOK, ReadsOK, Fields, ReadStep
    <3>2. FormOK(u) /\ WriteOK(u)
      BY <1>2, <2>1, <2>2, NoEditFacts DEF TabInv, FormOK, WriteOK, WriteStep, Fields, NoWrite
    <3>3. FormIsPressed(u) /\ SeesItsWrites(u) /\ SeesItsView(u)
      BY <1>2, <2>1, <2>2, NoEditFacts DEF TabInv, FormIsPressed, SeesItsWrites, SeesItsView, Fields, NoWrite, ReadsOK
    <3>4. TabInv(u)
      BY <2>2, <3>1, <3>2, <3>3 DEF TabInv
    <3> QED BY <1>0, <2>1, <3>4, OneTabMoves
  <2> QED BY <1>2, <2>3
<1> QED BY <1>1, <1>2 DEF ReadLost

\* A write is stored under the lock, or refused.
LEMMA WriteInv ==
  ASSUME AIInv, NEW a \in adminScene.who, Write(a)
  PROVE  AIInv'
<1> DEFINE t == tab[a]
<1>0. /\ TabInv(t) /\ DbOK(db) /\ t.write.step = "allowed" /\ UNCHANGED adminScene
      /\ AnEdit(t.write.request)
  BY DEF AIInv, Write, TabInv, WriteOK
<1>1. CASE /\ db' \in Outcomes(db, t.write.request)
           /\ Became(a, [t EXCEPT !.write.step = "done", !.seen = FALSE, !.load.seen = FALSE])
  <2> DEFINE u == [t EXCEPT !.write.step = "done", !.seen = FALSE, !.load.seen = FALSE]
  <2>1. DbOK(db')
    BY <1>0, <1>1, OutcomesOK
  <2>2. /\ DOMAIN u = Fields /\ u.write = [t.write EXCEPT !.step = "done"] /\ u.seen = FALSE
        /\ u.load = [t.load EXCEPT !.seen = FALSE]
        /\ \A f \in Fields \ {"write", "seen", "load"} : u[f] = t[f]
    BY <1>0 DEF TabInv, Fields, WriteOK, ReadsOK
  <2>3. Became(a, u)
    BY <1>1
  <2> HIDE DEF t, u
  <2>4. ListsOK(u) /\ ReadsOK(u)
    BY <1>0, <2>2 DEF TabInv, ListsOK, ReadsOK, Fields, ReadStep
  <2>5. FormOK(u) /\ WriteOK(u)
    BY <1>0, <2>2, NoEditFacts DEF TabInv, FormOK, WriteOK, WriteStep, Fields
  <2>6. FormIsPressed(u) /\ SeesItsWrites(u) /\ SeesItsView(u)
    BY <1>0, <2>2 DEF TabInv, FormIsPressed, SeesItsWrites, SeesItsView, Fields, WriteOK
  <2>7. TabInv(u)
    BY <2>2, <2>4, <2>5, <2>6 DEF TabInv
  <2> QED BY <1>0, <2>1, <2>3, <2>7, OneTabMoves
<1>2. CASE Became(a, [t EXCEPT !.write.step = "refused"]) /\ UNCHANGED db
  <2> DEFINE u == [t EXCEPT !.write.step = "refused"]
  <2>2. /\ DOMAIN u = Fields /\ u.write = [t.write EXCEPT !.step = "refused"]
        /\ \A f \in Fields \ {"write"} : u[f] = t[f]
    BY <1>0 DEF TabInv, Fields, WriteOK
  <2>3. Became(a, u)
    BY <1>2
  <2> HIDE DEF t, u
  <2>4. ListsOK(u) /\ ReadsOK(u)
    BY <1>0, <2>2 DEF TabInv, ListsOK, ReadsOK, Fields
  <2>5. FormOK(u) /\ WriteOK(u)
    BY <1>0, <2>2, NoEditFacts DEF TabInv, FormOK, WriteOK, WriteStep, Fields
  <2>6. FormIsPressed(u) /\ SeesItsWrites(u) /\ SeesItsView(u)
    BY <1>0, <2>2 DEF TabInv, FormIsPressed, SeesItsWrites, SeesItsView, Fields, WriteOK
  <2>7. TabInv(u)
    BY <2>2, <2>4, <2>5, <2>6 DEF TabInv
  <2> QED BY <1>0, <1>2, <2>3, <2>7, OneTabMoves
<1> QED BY <1>1, <1>2 DEF Write

\* A write that settles closes its sheet, and the loader looks at the account.
LEMMA SettleInv ==
  ASSUME AIInv, NEW a \in adminScene.who, Settle(a)
  PROVE  AIInv'
<1> DEFINE t == tab[a]
           c == [Closed(t) EXCEPT !.write = NoWrite]
           u == Loader(c)
<1>1. Became(a, u) /\ UNCHANGED <<adminScene, db>>
  BY DEF Settle
<1>2. TabInv(t) /\ DbOK(db)
  BY DEF AIInv
<1>3. t.write.step = "refreshing" /\ t.load.step = "none" /\ t.account.step = "none"
  BY DEF Settle, Refreshed
<1>4. /\ DOMAIN c = Fields /\ c.write = NoWrite
      /\ \/ c.edit = t.edit /\ c.pressed = t.pressed
         \/ c.edit = NoEdit /\ c.pressed = {}
      /\ \A f \in Fields \ {"write", "edit", "pressed"} : c[f] = t[f]
  BY <1>2 DEF TabInv, Fields, Closed
<1>5. /\ DOMAIN u = Fields /\ u.write = NoWrite
      /\ \/ u.edit = t.edit /\ u.pressed = t.pressed
         \/ u.edit = NoEdit /\ u.pressed = {}
      /\ \/ u.at = t.at /\ View \in t.mine
         \/ u.at = "home" /\ u.edit = NoEdit
      /\ \A f \in Fields \ {"write", "edit", "pressed", "at"} : u[f] = t[f]
  <2> HIDE DEF c
  <2>1. c.mine = t.mine /\ c.at = t.at
    BY <1>4 DEF Fields
  <2>2. CASE View \in c.mine
    <3>1. u = c
      BY <2>2 DEF Loader
    <3> HIDE DEF u
    <3> QED BY <1>4, <2>1, <2>2, <3>1
  <2>3. CASE View \notin c.mine
    <3>1. u = [c EXCEPT !.at = "home", !.edit = NoEdit, !.pressed = {}]
      BY <2>3 DEF Loader
    <3>2. /\ DOMAIN u = Fields /\ u.at = "home" /\ u.edit = NoEdit /\ u.pressed = {}
          /\ \A f \in Fields \ {"at", "edit", "pressed"} : u[f] = c[f]
      BY <1>4, <3>1 DEF Fields
    <3> HIDE DEF u
    <3> QED BY <1>4, <3>2 DEF Fields
  <2> QED BY <2>2, <2>3
<1> HIDE DEF t, u
<1>6. ListsOK(u) /\ ReadsOK(u)
  BY <1>2, <1>5 DEF TabInv, ListsOK, ReadsOK, Fields
<1>7. FormOK(u) /\ WriteOK(u)
  BY <1>2, <1>5, NoEditFacts DEF TabInv, FormOK, WriteOK, WriteStep, Fields, NoWrite
<1>8. FormIsPressed(u) /\ SeesItsWrites(u) /\ SeesItsView(u)
  BY <1>2, <1>3, <1>5, NoEditFacts DEF TabInv, FormIsPressed, SeesItsWrites, SeesItsView, Fields, NoWrite
<1>9. TabInv(u)
  BY <1>5, <1>6, <1>7, <1>8 DEF TabInv
<1> QED BY <1>1, <1>2, <1>9, OneTabMoves

\* A roles form goes on only if its account holds the roles that it held.
LEMMA ListsArriveInv ==
  ASSUME AIInv, NEW a \in adminScene.who, ListsArrive(a)
  PROVE  AIInv'
<1> DEFINE t == tab[a]
           l == t.load.lists
           f == AfterLists(t, l)
           load == [step |-> "none", lists |-> l, seen |-> TRUE]
           u == [f EXCEPT !.lists = l, !.seen = t.load.seen, !.stale = FALSE, !.load = load]
<1>1. Became(a, u) /\ UNCHANGED <<adminScene, db>> /\ t.load.step = "read"
  BY DEF ListsArrive
<1>2. TabInv(t) /\ DbOK(db)
  BY DEF AIInv
<1>3. /\ DOMAIN f = Fields /\ \A x \in Fields \ {"edit", "pressed", "write"} : f[x] = t[x]
      /\ \/ f = t /\ (t.edit.does = "setRoles" => l.held[t.edit.of] = t.lists.held[t.edit.of])
         \/ /\ f.edit = NoEdit /\ f.pressed = {}
            /\ f.write = [t.write EXCEPT !.open = FALSE]
         \/ /\ t.edit.does = "setRoles"
            /\ f.edit = [t.edit EXCEPT !.set = l.held[t.edit.of]] /\ f.pressed = {}
            /\ f.write = [t.write EXCEPT !.open = FALSE]
  BY <1>2 DEF TabInv, Fields, AfterLists, WriteOK
<1> HIDE DEF f, l
<1>4. /\ DOMAIN u = Fields /\ u.lists = l /\ u.seen = t.load.seen /\ u.stale = FALSE /\ u.load = load
      /\ \A x \in {"edit", "pressed", "write"} : u[x] = f[x]
      /\ u.at = t.at /\ u.mine = t.mine /\ u.account = t.account /\ u.writes = t.writes
  BY <1>3 DEF Fields
<1>5. DbOK(l) /\ t.load.seen \in BOOLEAN
  BY <1>2 DEF l, TabInv, ListsOK, ReadsOK
<1> HIDE DEF t, u
<1>6. ListsOK(u) /\ ReadsOK(u)
  <2>1. u.load.step = "none" /\ u.load.lists = l /\ u.load.seen = TRUE /\ DOMAIN u.load = {"step", "lists", "seen"}
    BY <1>4
  <2>2. ListsOK(u)
    BY <1>4, <1>5, <2>1 DEF ListsOK
  <2>3. ReadsOK(u)
    BY <1>2, <1>4, <1>5, <2>1 DEF TabInv, ReadsOK, ReadStep
  <2> QED BY <2>2, <2>3
<1>7. /\ u.write.step = t.write.step /\ u.write.request = t.write.request
      /\ DOMAIN u.write = {"step", "request", "open"}
      /\ u.write.open = t.write.open \/ u.write.open = FALSE
  BY <1>2, <1>3, <1>4 DEF TabInv, WriteOK
<1>8. FormOK(u) /\ WriteOK(u) /\ FormIsPressed(u)
  <2>1. CASE f = t /\ (t.edit.does = "setRoles" => l.held[t.edit.of] = t.lists.held[t.edit.of])
    <3>1. u.edit = t.edit /\ u.pressed = t.pressed /\ u.write = t.write
      BY <2>1, <1>4
    <3> QED BY <3>1, <2>1, <1>2, <1>4 DEF TabInv, FormOK, WriteOK, FormIsPressed
  <2>2. CASE f.edit = NoEdit /\ f.pressed = {} /\ f.write = [t.write EXCEPT !.open = FALSE]
    <3>1. u.edit = NoEdit /\ u.pressed = {} /\ u.write.open = FALSE
      BY <2>2, <1>2, <1>4 DEF TabInv, WriteOK
    <3> QED BY <3>1, <1>2, <1>4, <1>7, NoEditFacts DEF TabInv, FormOK, WriteOK, FormIsPressed
  <2>3. CASE /\ t.edit.does = "setRoles" /\ f.edit = [t.edit EXCEPT !.set = l.held[t.edit.of]]
             /\ f.pressed = {} /\ f.write = [t.write EXCEPT !.open = FALSE]
    <3>1. AnEdit(t.edit)
      BY <2>3, <1>2, NoEditFacts DEF TabInv, FormOK
    <3>2. /\ u.edit.does = "setRoles" /\ u.edit.of = t.edit.of /\ u.edit.set = l.held[t.edit.of]
          /\ DOMAIN u.edit = {"does", "of", "set"} /\ u.pressed = {} /\ u.write.open = FALSE
      BY <2>3, <3>1, <1>2, <1>4 DEF TabInv, WriteOK, AnEdit
    <3>3. AnEdit(u.edit)
      BY <3>1, <3>2, <2>3 DEF AnEdit
    <3>4. FormOK(u)
      BY <3>1, <3>3, <1>2, <1>4, NoEditFacts DEF TabInv, FormOK
    <3>5. WriteOK(u)
      BY <3>2, <3>3, <1>2, <1>4, <1>7, NoEditFacts DEF TabInv, WriteOK
    <3>6. FormIsPressed(u)
      BY <3>2, <1>4 DEF FormIsPressed
    <3> QED BY <3>4, <3>5, <3>6
  <2> QED BY <1>3, <2>1, <2>2, <2>3
<1>9. SeesItsWrites(u) /\ SeesItsView(u)
  BY <1>1, <1>2, <1>4, <1>7 DEF TabInv, SeesItsWrites, SeesItsView
<1>10. TabInv(u)
  BY <1>4, <1>6, <1>8, <1>9 DEF TabInv
<1> QED BY <1>1, <1>2, <1>10, OneTabMoves

\* A sign-in stores what it should, and moves no tab.
LEMMA SignInInv == ASSUME AIInv, SignIn PROVE AIInv'
<1>1. DbOK(db')
  <2>1. DbOK(db) /\ newcomer \in AdminAccount /\ \A a \in db.verified : a \in AdminAccount
    BY DEF AIInv, DbOK, AdminAccount
  <2>2. ASSUME NEW a \in db.verified, db' = claim_email_role_grants(db, a) PROVE DbOK(db')
    BY <2>1, <2>2, ClaimFacts
  <2>3. ASSUME NEW a \in db.verified, newcomer \notin db.verified,
               db' = claim_email_role_grants([db EXCEPT !.adopted = @ \cup {newcomer}], a)
        PROVE  DbOK(db')
    <3>1. DbOK([db EXCEPT !.adopted = @ \cup {newcomer}])
      BY <2>1, <2>3 DEF DbOK
    <3> QED BY <2>1, <2>3, <3>1, ClaimFacts
  <2>4. ASSUME newcomer \notin db.adopted,
               db' = claim_email_role_grants([db EXCEPT !.verified = @ \cup {newcomer}], newcomer)
        PROVE  DbOK(db')
    <3>1. DbOK([db EXCEPT !.verified = @ \cup {newcomer}])
      BY <2>1, <2>4 DEF DbOK
    <3> QED BY <2>1, <2>4, <3>1, ClaimFacts
  <2> QED BY <2>2, <2>3, <2>4 DEF SignIn
<1>2. UNCHANGED <<adminScene, tab>>
  BY DEF SignIn
<1> QED BY <1>1, <1>2 DEF AIInv
-----------------------------------------------------------------------------
\* The scenes' roles are what the API may have stored.
LEMMA InitAIInv == AdminInit => AIInv
<1> SUFFICES ASSUME AdminInit PROVE AIInv
  OBVIOUS
<1>1. PICK names \in SUBSET Role : /\ adminScene.roles \in [names -> SUBSET Permission]
                                   /\ adminScene.held \in [AdminAccount -> SUBSET names]
                                   /\ adminScene.granted \subseteq names
  BY AdminAssumption DEF AdminInit
<1>2. DbOK(db)
  BY <1>1 DEF AdminInit, DbOK, Permission, AdminAccount
<1>3. ASSUME NEW a \in adminScene.who PROVE TabInv(tab[a])
  <2> DEFINE t == tab[a]
  <2>1. /\ DOMAIN t = Fields /\ t.at = "admin" /\ t.lists = db /\ t.mine = permissions_of(db, a)
        /\ t.seen = TRUE /\ t.stale = FALSE /\ t.load = [step |-> "none", lists |-> db, seen |-> TRUE]
        /\ t.account = [step |-> "none", mine |-> {}] /\ t.edit = NoEdit /\ t.pressed = {}
        /\ t.write = NoWrite /\ t.writes = 0
    BY <1>3 DEF AdminInit, Fields
  <2>2. View \in t.mine
    <3>1. a \in AdminAccount /\ \E r \in adminScene.held[a] : View \in adminScene.roles[r]
      BY <1>3, AdminAssumption DEF AdminInit
    <3>2. db.held = adminScene.held /\ db.roles = adminScene.roles
      BY DEF AdminInit
    <3> QED BY <2>1, <3>1, <3>2 DEF permissions_of
  <2> HIDE DEF t
  <2>3. ListsOK(t) /\ ReadsOK(t)
    <3>1. t.load.step = "none" /\ t.load.lists = db /\ t.load.seen = TRUE /\ t.account.step = "none"
      BY <2>1
    <3>2. DOMAIN t.load = {"step", "lists", "seen"} /\ DOMAIN t.account = {"step", "mine"}
      BY <2>1
    <3>3. ListsOK(t)
      BY <1>2, <2>1, <3>1 DEF ListsOK
    <3>4. ReadsOK(t)
      BY <2>1, <3>1, <3>2 DEF ReadsOK, ReadStep
    <3> QED BY <3>3, <3>4
  <2>4. FormOK(t) /\ WriteOK(t)
    BY <2>1, AdminAssumption DEF FormOK, WriteOK, WriteStep, NoWrite
  <2>5. FormIsPressed(t) /\ SeesItsWrites(t) /\ SeesItsView(t)
    BY <2>1, <2>2, NoEditFacts DEF FormIsPressed, SeesItsWrites, SeesItsView, NoWrite
  <2>6. TabInv(t)
    BY <2>1, <2>3, <2>4, <2>5 DEF TabInv
  <2> QED BY <2>6 DEF t
<1>4. /\ adminScene \in AdminScenes
      /\ DOMAIN tab = adminScene.who /\ tab = [a \in adminScene.who |-> tab[a]]
  BY DEF AdminInit
<1> QED BY <1>2, <1>3, <1>4 DEF AIInv

\* Every step keeps the invariant.
LEMMA NextAIInv == AIInv /\ [AdminNext]_adminVars => AIInv'
<1> SUFFICES ASSUME AIInv, [AdminNext]_adminVars PROVE AIInv'
  OBVIOUS
<1>1. CASE SignIn
  BY <1>1, SignInInv
<1>2. CASE UNCHANGED adminVars
  BY <1>2 DEF adminVars, AIInv
<1>3. ASSUME NEW a \in adminScene.who,
             \/ Open(a) \/ Press(a) \/ Submit(a) \/ Cancel(a)
             \/ Check(a) \/ Write(a) \/ Answered(a) \/ Lost(a) \/ Settle(a)
      PROVE  AIInv'
  BY <1>3, OpenInv, PressInv, SubmitInv, CancelInv, CheckInv, WriteInv, AnsweredInv, LostInv, SettleInv
<1>4. ASSUME NEW a \in adminScene.who,
             \/ Focus(a) \/ ReadLists(a) \/ ListsArrive(a)
             \/ ReadAccount(a) \/ AccountArrives(a) \/ ReadLost(a)
      PROVE  AIInv'
  BY <1>4, FocusInv, ReadListsInv, ListsArriveInv, ReadAccountInv, AccountArrivesInv, ReadLostInv
<1> QED BY <1>1, <1>2, <1>3, <1>4 DEF AdminNext

-----------------------------------------------------------------------------
\* The inductive invariant of the admin page: what the API has stored and what each
\* tab was told of it are consistent, and a tab sees its own writes, its account's
\* permissions and what was pressed in its form.
THEOREM AdminIInv == AdminSpec => []AIInv
BY InitAIInv, NextAIInv, PTL DEF AdminSpec

\* Whatever administrators do in however many tabs, roles and forms are over
\* what exists, and a settled tab shows what it wrote, and may be on the page
\* (roles.py, queries.ts refreshAfterAdminWrite, useAdminWrite.ts).
THEOREM AdminPagesAreTrue == AdminSpec => []AdminInv
<1>1. AIInv => AdminInv
  <2> SUFFICES ASSUME AIInv PROVE AdminInv
    OBVIOUS
  <2>1. \A a \in adminScene.who : TabInv(tab[a])
    BY DEF AIInv
  <2>2. AdminTypeOK
    <3>1. DbOK(db)
      BY DEF AIInv
    <3>2. \A a \in adminScene.who :
            /\ tab[a].at \in {"admin", "home"} /\ tab[a].writes \in 0..MaxWrites
            /\ tab[a].write.step \in {"none", "sent", "allowed", "done", "refused", "refreshing"}
            /\ tab[a].at = "home" => tab[a].edit = NoEdit
            /\ tab[a].write.open => tab[a].edit # NoEdit /\ tab[a].write.step # "none"
      BY <2>1 DEF TabInv, FormOK, WriteOK, WriteStep
    <3> QED BY <3>1, <3>2 DEF AdminTypeOK, DbOK
  <2>3. RolesGrantWhatExists
    BY DEF AIInv, DbOK, RolesGrantWhatExists
  <2>4. ShowsWhatItWrote
    BY <2>1 DEF TabInv, SeesItsWrites, ShowsWhatItWrote
  <2>5. StaysWithTheView
    BY <2>1 DEF TabInv, SeesItsView, StaysWithTheView
  <2>6. FormIsOfTheShown
    BY <2>1 DEF TabInv, FormIsPressed, FormIsOfTheShown
  <2> QED BY <2>2, <2>3, <2>4, <2>5, <2>6 DEF AdminInv
<1> QED BY <1>1, AdminIInv, PTL

\* A step moves one tab, or is a sign-in. Only a write stores anything, and only a
\* write is done afterwards that wasn't before.
LEMMA StepsOfTabs ==
  ASSUME AIInv, AdminNext, ~SignIn
  PROVE  \E a \in adminScene.who :
           /\ \A b \in adminScene.who \ {a} : tab'[b] = tab[b]
           /\ \/ Write(a)
              \/ /\ UNCHANGED db
                 /\ tab[a].write.step = "allowed" => tab'[a].write.step # "done"
<1> PICK a \in adminScene.who :
       \/ Open(a) \/ Press(a) \/ Submit(a) \/ Cancel(a)
       \/ Check(a) \/ Write(a) \/ Answered(a) \/ Lost(a) \/ Settle(a)
       \/ Focus(a) \/ ReadLists(a) \/ ListsArrive(a) \/ ReadAccount(a) \/ AccountArrives(a) \/ ReadLost(a)
  BY DEF AdminNext
<1> DEFINE t == tab[a]
<1>1. DOMAIN t = Fields /\ DOMAIN t.write = {"step", "request", "open"}
  BY DEF AIInv, TabInv, WriteOK
<1>2. ASSUME NEW u, Became(a, u), UNCHANGED db, t.write.step = "allowed" => u.write.step # "done"
      PROVE  /\ \A b \in adminScene.who \ {a} : tab'[b] = tab[b]
             /\ UNCHANGED db
             /\ t.write.step = "allowed" => tab'[a].write.step # "done"
  BY <1>2 DEF Became, AIInv
<1>3. CASE Write(a)
  <2>1. \E u : Became(a, u)
    BY <1>3 DEF Write
  <2>2. \A b \in adminScene.who \ {a} : tab'[b] = tab[b]
    BY <2>1 DEF Became, AIInv
  <2> QED BY <1>3, <2>2
<1>4. SUFFICES ASSUME ~Write(a)
               PROVE  \E u : /\ Became(a, u) /\ UNCHANGED db
                             /\ t.write.step = "allowed" => u.write.step # "done"
  BY <1>2, <1>3
<1>5. CASE Open(a)
  <2> PICK e : Became(a, [t EXCEPT !.edit = e])
    BY <1>5 DEF Open
  <2>1. [t EXCEPT !.edit = e].write = t.write
    BY <1>1 DEF Fields
  <2> QED BY <1>5, <2>1 DEF Open
<1>6. CASE Press(a)
  <2> PICK x : Became(a, [t EXCEPT !.edit.set = Toggled(@ \cap Boxes(t), x),
                                   !.pressed = Toggled(@ \cap Boxes(t), x)])
    BY <1>6 DEF Press
  <2>1. [t EXCEPT !.edit.set = Toggled(@ \cap Boxes(t), x),
                  !.pressed = Toggled(@ \cap Boxes(t), x)].write = t.write
    BY <1>1 DEF Fields
  <2> QED BY <1>6, <2>1 DEF Press
<1>7. CASE Submit(a)
  BY <1>1, <1>7 DEF Submit, Fields
<1>8. CASE Cancel(a)
  <2> DEFINE u == [t EXCEPT !.edit = NoEdit, !.pressed = {}, !.write.open = FALSE]
  <2>1. Became(a, u) /\ UNCHANGED db
    BY <1>8 DEF Cancel
  <2>2. u.write.step = t.write.step
    BY <1>1 DEF Fields
  <2> HIDE DEF u
  <2> QED BY <2>1, <2>2
<1>9. CASE Check(a)
  BY <1>1, <1>9 DEF Check, Fields
<1>10. CASE Answered(a)
  BY <1>10 DEF Answered
<1>11. CASE Lost(a)
  BY <1>11 DEF Lost
<1>12. CASE Settle(a)
  BY <1>12 DEF Settle
<1>13. CASE Focus(a)
  BY <1>1, <1>13 DEF Focus, Fields
<1>14. CASE ReadLists(a)
  BY <1>1, <1>14 DEF ReadLists, Fields
<1>15. CASE ListsArrive(a)
  <2> DEFINE f == AfterLists(t, t.load.lists)
             u == [f EXCEPT !.lists = t.load.lists, !.seen = t.load.seen, !.stale = FALSE,
                            !.load = [step |-> "none", lists |-> t.load.lists, seen |-> TRUE]]
  <2>1. Became(a, u) /\ UNCHANGED db
    BY <1>15 DEF ListsArrive
  <2>2. DOMAIN f = Fields /\ f.write.step = t.write.step
    BY <1>1 DEF AfterLists, Fields
  <2> HIDE DEF f
  <2>3. u.write = f.write
    BY <2>2 DEF Fields
  <2> HIDE DEF u
  <2> QED BY <2>1, <2>2, <2>3
<1>16. CASE ReadAccount(a)
  BY <1>1, <1>16 DEF ReadAccount, Fields
<1>17. CASE AccountArrives(a)
  <2> DEFINE u == [t EXCEPT !.mine = t.account.mine, !.account = [step |-> "none", mine |-> {}]]
  <2>1. Became(a, u) /\ UNCHANGED db
    BY <1>17 DEF AccountArrives
  <2>2. u.write = t.write
    BY <1>1 DEF Fields
  <2> HIDE DEF u
  <2> QED BY <2>1, <2>2
<1>18. CASE ReadLost(a)
  BY <1>1, <1>18 DEF ReadLost, Fields
<1> QED BY <1>4, <1>5, <1>6, <1>7, <1>8, <1>9, <1>10, <1>11, <1>12, <1>13, <1>14, <1>15, <1>16, <1>17, <1>18

\* However stale the tabs: no write leaves nobody who may grant a role (roles.py
\* _require_an_administrator).
THEOREM WritesKeepAdministrators == AdminSpec => WritesKeepAnAdministrator
<1>1. ASSUME AIInv, AdminNext, db'.adopted = db.adopted, Administrators(db) # {}
      PROVE  Administrators(db') # {}
  <2>1. CASE ~SignIn
    <3> PICK a \in adminScene.who : Write(a) \/ UNCHANGED db
      BY <1>1, <2>1, StepsOfTabs
    <3>1. CASE UNCHANGED db
      BY <1>1, <3>1
    <3>2. ASSUME db' \in Outcomes(db, tab[a].write.request), tab[a].write.step = "allowed" PROVE Administrators(db') # {}
      <4>1. DbOK(db) /\ AnEdit(tab[a].write.request)
        BY <1>1, <3>2 DEF AIInv, TabInv, WriteOK
      <4> QED BY <1>1, <3>2, <4>1, AnAdministratorStays
    <3> QED BY <3>1, <3>2 DEF Write
  <2>2. CASE SignIn
    <3>1. PICK a, d : /\ a \in AdminAccount /\ d.held = db.held /\ d.roles = db.roles /\ d.adopted = db.adopted
                      /\ DbOK(d) /\ db' = claim_email_role_grants(d, a)
      <4>1. DbOK(db) /\ \A a \in db.verified : a \in AdminAccount
        BY <1>1 DEF AIInv, DbOK
      <4>2. ASSUME NEW a \in db.verified, db' = claim_email_role_grants(db, a)
            PROVE  \E b, d : /\ b \in AdminAccount /\ d.held = db.held /\ d.roles = db.roles /\ d.adopted = db.adopted
                             /\ DbOK(d) /\ db' = claim_email_role_grants(d, b)
        BY <4>1, <4>2
      <4>3. ASSUME NEW a \in db.verified, newcomer \notin db.verified \cup db.adopted
            PROVE  db' # claim_email_role_grants([db EXCEPT !.adopted = @ \cup {newcomer}], a)
        <5> DEFINE d == [db EXCEPT !.adopted = @ \cup {newcomer}]
        <5>1. DbOK(d) /\ d.adopted = db.adopted \cup {newcomer}
          BY <4>1, <4>3 DEF DbOK, AdminAccount
        <5> HIDE DEF d
        <5>2. claim_email_role_grants(d, a).adopted = db.adopted \cup {newcomer}
          BY <4>1, <5>1, ClaimFacts
        <5>3. newcomer \in db.adopted \cup {newcomer}
          OBVIOUS
        <5>4. db' # claim_email_role_grants(d, a)
          BY <1>1, <4>3, <5>2, <5>3
        <5> QED BY <5>4 DEF d
      <4>4. ASSUME newcomer \notin db.verified \cup db.adopted,
                   db' = claim_email_role_grants([db EXCEPT !.verified = @ \cup {newcomer}], newcomer)
            PROVE  \E b, d : /\ b \in AdminAccount /\ d.held = db.held /\ d.roles = db.roles /\ d.adopted = db.adopted
                             /\ DbOK(d) /\ db' = claim_email_role_grants(d, b)
        <5> DEFINE d == [db EXCEPT !.verified = @ \cup {newcomer}]
        <5>1. DbOK(d) /\ d.held = db.held /\ d.roles = db.roles /\ d.adopted = db.adopted /\ newcomer \in AdminAccount
          BY <4>1, <4>4 DEF DbOK, AdminAccount
        <5> QED BY <5>1, <4>4
      <4> QED BY <2>2, <4>2, <4>3, <4>4 DEF SignIn
    <3>2. /\ db'.roles = db.roles /\ db'.adopted = db.adopted
          /\ \A b \in AdminAccount : db.held[b] \subseteq db'.held[b]
      BY <3>1, ClaimFacts
    <3> QED BY <1>1, <3>2 DEF Administrators, permissions_of
  <2> QED BY <2>1, <2>2
<1>2. AIInv /\ [AdminNext]_adminVars =>
        [db'.adopted = db.adopted /\ Administrators(db) # {} => Administrators(db') # {}]_adminVars
  BY <1>1
<1> QED BY <1>2, AdminIInv, PTL DEF AdminSpec, WritesKeepAnAdministrator

\* What a write changes, its account may still change as it is stored (roles.py
\* _begin_write under RBAC_LOCK).
THEOREM OnlyTheAllowedWrites == AdminSpec => OnlyTheAllowedWrite
<1>1. ASSUME AIInv, AdminNext, NEW a \in adminScene.who,
             tab[a].write.step = "allowed", tab'[a].write.step = "done",
             tab[a].write.request.does # "revokeKey"
      PROVE  Needs(tab[a].write.request.does) \in permissions_of(db, a)
  <2>1. ~SignIn
    BY <1>1 DEF SignIn
  <2>2. Write(a)
    BY <1>1, <2>1, StepsOfTabs
  <2>3. Begins(db, a, tab[a].write.request.does)
    <3> DEFINE u == [tab[a] EXCEPT !.write.step = "refused"]
    <3>1. DOMAIN tab[a] = Fields /\ DOMAIN tab[a].write = {"step", "request", "open"}
      BY <1>1 DEF AIInv, TabInv, WriteOK
    <3>2. u.write.step = "refused"
      BY <3>1 DEF Fields
    <3> HIDE DEF u
    <3>3. Became(a, u) => tab'[a] = u
      BY <1>1 DEF Became, AIInv
    <3>4. ~Became(a, u)
      BY <1>1, <3>2, <3>3
    <3> QED BY <2>2, <3>4 DEF Write, u
  <2> QED BY <1>1, <2>3 DEF Begins, begin_write
<1>2. AIInv /\ [AdminNext]_adminVars =>
        [\A a \in adminScene.who :
           (db' # db /\ tab[a].write.step = "allowed" /\ tab'[a].write.step = "done"
              /\ tab[a].write.request.does # "revokeKey")
             => Needs(tab[a].write.request.does) \in permissions_of(db, a)]_adminVars
  BY <1>1
<1> QED BY <1>2, AdminIInv, PTL DEF AdminSpec, OnlyTheAllowedWrite

\* No write gives an account a role but that of a roles form.
LEMMA RolesComeByForms ==
  ASSUME NEW d, DbOK(d), NEW e, AnEdit(e), NEW w \in Outcomes(d, e),
         NEW a \in AdminAccount, NEW r \in w.held[a] \ d.held[a]
  PROVE  e.does = "setRoles" /\ e.of = a /\ r \in e.set
<1>1. CASE e.does \in {"createPermission", "updatePermission", "deletePermission", "revokeKey"}
  <2>1. w.held = d.held
    BY <1>1 DEF Outcomes, create_permission, update_permission, delete_permission, revoke_any_key, DbOK
  <2> QED BY <2>1
<1>2. CASE e.does \in {"createRole", "updateRole"}
  <2>1. w.held = d.held
    BY <1>2 DEF Outcomes, create_role, update_role, StillAdministered, DbOK
  <2> QED BY <2>1
<1>3. CASE e.does = "deleteRole"
  <2>1. w = WithoutRole(d, e.of)
    BY <1>3 DEF Outcomes, delete_role, StillAdministered
  <2>2. w.held[a] = d.held[a] \ {e.of}
    BY <2>1 DEF WithoutRole, DbOK
  <2> QED BY <2>2
<1>4. CASE e.does = "setRoles"
  <2>1. w = [d EXCEPT !.held[e.of] = e.set] /\ e.of \in d.verified
    BY <1>4 DEF Outcomes, set_account_roles, StillAdministered
  <2>2. w.held[a] = IF a = e.of THEN e.set ELSE d.held[a]
    BY <2>1 DEF DbOK
  <2> QED BY <1>4, <2>2
<1> QED BY <1>1, <1>2, <1>3, <1>4 DEF AnEdit, Edits, PermissionEdits, RoleEdits

\* A role that an administrator takes away stays away over sign-ins: an account comes
\* to hold one by a roles form, or once by its email's grant (roles.py
\* claim_email_role_grants).
THEOREM EmailGrantsServeOnce == AdminSpec => GrantsServeOnce
<1> DEFINE ByForm(a, r) ==
      \E b \in adminScene.who :
        /\ tab[b].write.step = "allowed" /\ tab'[b].write.step = "done"
        /\ tab[b].write.request.does = "setRoles" /\ tab[b].write.request.of = a
        /\ r \in tab[b].write.request.set
<1>1. ASSUME AIInv, AdminNext, NEW a \in AdminAccount, NEW r \in db'.held[a] \ db.held[a], ~SignIn
      PROVE  ByForm(a, r)
  <2> PICK b \in adminScene.who : Write(b) \/ UNCHANGED db
    BY <1>1, StepsOfTabs
  <2>1. Write(b) /\ db' # db
    BY <1>1
  <2>2. /\ db' \in Outcomes(db, tab[b].write.request) /\ tab[b].write.step = "allowed"
        /\ Became(b, [tab[b] EXCEPT !.write.step = "done", !.seen = FALSE, !.load.seen = FALSE])
    BY <2>1 DEF Write
  <2>3. tab'[b].write.step = "done"
    <3>1. DOMAIN tab[b] = Fields /\ DOMAIN tab[b].write = {"step", "request", "open"}
      BY <1>1 DEF AIInv, TabInv, WriteOK
    <3> QED BY <1>1, <2>2, <3>1 DEF Became, AIInv, Fields
  <2>4. DbOK(db) /\ AnEdit(tab[b].write.request)
    BY <1>1, <2>2 DEF AIInv, TabInv, WriteOK
  <2>5. /\ tab[b].write.request.does = "setRoles" /\ tab[b].write.request.of = a
        /\ r \in tab[b].write.request.set
    BY <1>1, <2>2, <2>4, RolesComeByForms
  <2> QED BY <2>2, <2>3, <2>5
<1>2. ASSUME AIInv, SignIn, NEW a \in AdminAccount, NEW r \in db'.held[a] \ db.held[a]
      PROVE  r \in db.granted /\ r \notin db'.granted
  <2>1. DbOK(db) /\ (\A b \in db.verified : b \in AdminAccount) /\ newcomer \in AdminAccount
    BY <1>2 DEF AIInv, DbOK, AdminAccount
  <2>2. ASSUME NEW b \in AdminAccount, NEW d, DbOK(d), d.held = db.held, d.granted = db.granted,
               db' = claim_email_role_grants(d, b)
        PROVE  r \in db.granted /\ r \notin db'.granted
    <3>1. db'.held[a] = d.held[a] \cup (IF a = b THEN d.granted ELSE {}) /\ db'.granted = {}
      BY <2>2, ClaimFacts
    <3> QED BY <1>2, <2>2, <3>1
  <2>3. ASSUME newcomer \notin db.verified
        PROVE  LET d == [db EXCEPT !.adopted = @ \cup {newcomer}] IN
               DbOK(d) /\ d.held = db.held /\ d.granted = db.granted
    BY <2>1, <2>3 DEF DbOK
  <2>4. ASSUME newcomer \notin db.adopted
        PROVE  LET d == [db EXCEPT !.verified = @ \cup {newcomer}] IN
               DbOK(d) /\ d.held = db.held /\ d.granted = db.granted
    BY <2>1, <2>4 DEF DbOK
  <2> QED BY <1>2, <2>1, <2>2, <2>3, <2>4 DEF SignIn
<1>3. AIInv /\ [AdminNext]_adminVars =>
        [\A a \in AdminAccount : \A r \in db'.held[a] \ db.held[a] :
           (r \in db.granted /\ r \notin db'.granted) \/ ByForm(a, r)]_adminVars
  BY <1>1, <1>2
<1>4. (\A a \in AdminAccount : \A r \in db'.held[a] \ db.held[a] :
         (r \in db.granted /\ r \notin db'.granted) \/ ByForm(a, r))
      <=> \A a \in AdminAccount : \A r \in db'.held[a] \ db.held[a] :
            \/ r \in db.granted /\ r \notin db'.granted
            \/ \E b \in adminScene.who :
                 /\ tab[b].write.step = "allowed" /\ tab'[b].write.step = "done"
                 /\ tab[b].write.request.does = "setRoles" /\ tab[b].write.request.of = a
                 /\ r \in tab[b].write.request.set
  OBVIOUS
<1> QED BY <1>3, <1>4, AdminIInv, PTL DEF AdminSpec, GrantsServeOnce

\* All of these at once.
THEOREM AdminWritesAreSafe == AdminSpec => AdminWrites
BY WritesKeepAdministrators, OnlyTheAllowedWrites, EmailGrantsServeOnce DEF AdminWrites

-----------------------------------------------------------------------------
(* A new match.                                                            *)

SetupFields == {"opponent", "bestOf", "rated", "attempt", "submit"}
PickerFields == {"screen", "text", "term", "timer", "wants", "focus"}

\* A match's details, or none yet.
AttemptOK(a) ==
  /\ DOMAIN a = {"id", "bestOf", "rated", "players"} /\ a.id \in 0 .. MaxPresses
  /\ a.id = 0 => a = NoAttempt
  /\ a.id # 0 => \E p \in Opponent : a.players = <<ownPlayer, p>>

\* The details that an attempt sent.
Details(a) == IF a.id = 0 THEN NoAttempt ELSE [a EXCEPT !.id = 0]

\* The form, and its opponent's picker.
FormInv ==
  /\ DOMAIN setup = SetupFields
  /\ setup.opponent \in Opponent \cup {Nobody}
  /\ setup.submit \in {"idle", "needsOpponent", "starting", "offline", "refused"}
  /\ setup.rated \in BOOLEAN /\ (setup.rated => setup.opponent # Nobody)
  /\ DOMAIN picker = PickerFields
  /\ picker.screen = "picked" <=> setup.opponent # Nobody
  /\ picker.screen = "search" /\ ~picker.timer => picker.term = picker.text

\* The last press that sent left its attempt in the form, and no other press
\* since its details were first sent had another id. A form that may send is the
\* one on the screen.
AttemptInv ==
  /\ AttemptOK(setup.attempt)
  /\ DOMAIN count = {"presses", "edits", "typed", "last", "ids"}
  /\ count.presses \in 0 .. MaxPresses
  /\ count.last = Details(setup.attempt)
  /\ count.ids = {setup.attempt.id} \ {0}
  /\ place = "form" /\ ~sending => drawn = setup
  /\ DOMAIN posting = {"step", "request"}
  /\ posting.step \in {"none", "sent", "made", "refused", "opening", "scoring", "overtaken"}
  /\ sending => posting.request = setup.attempt /\ setup.attempt.id # 0

\* The API has one match of an id.
MatchesInv == \A m, n \in matches : m.id = n.id => m = n

\* A refusal is of an opponent that merged.
RefusalInv ==
  /\ gone \subseteq Opponent /\ DOMAIN players = {"shows", "old"}
  /\ players.shows \subseteq Opponent
  /\ posting.step = "refused" => setup.attempt.players[2] \in gone
  /\ setup.submit = "refused" => setup.attempt.players[2] \in gone
  /\ RefusedIsNotOffered

\* The pad's page has no read from before it, and opens when start() no longer
\* waits for it.
PlaceInv ==
  /\ place \in {"form", "match", "pad", "shown", "elsewhere"}
  /\ place \in {"pad", "shown"} => ~sending
  /\ posting.step = "scoring" => place \in {"match", "elsewhere"}
  /\ posting.step = "overtaken" => place = "elsewhere"
  /\ place = "pad" => ~read.is
  /\ ShowsTheSaves

NInv == FormInv /\ AttemptInv /\ MatchesInv /\ RefusalInv /\ PlaceInv
-----------------------------------------------------------------------------
\* The control that mounts changes neither the search nor its wait.
LEMMA MountedPicker ==
  ASSUME DOMAIN picker = PickerFields, NEW screen, NEW wants
  PROVE  /\ DOMAIN Mounted(screen, wants) = PickerFields
         /\ Mounted(screen, wants).screen = screen
         /\ Mounted(screen, wants).text = picker.text /\ Mounted(screen, wants).term = picker.term
         /\ Mounted(screen, wants).timer = picker.timer
BY DEF Mounted, PickerFields

\* What a press makes of the form: an attempt of its details, the last one if it
\* has them.
LEMMA StartFacts ==
  ASSUME NInv, NewAssumption, count.presses < MaxPresses
  PROVE  LET new == start(setup, count.presses + 1) IN
         /\ DOMAIN new = SetupFields
         /\ new.opponent = setup.opponent /\ new.bestOf = setup.bestOf /\ new.rated = setup.rated
         /\ new.submit \in {"needsOpponent", "starting"}
         /\ new.submit = "needsOpponent" => new.attempt = setup.attempt
         /\ new.submit = "starting" =>
              /\ AttemptOK(new.attempt) /\ new.attempt.id # 0
              /\ \/ new.attempt = setup.attempt
                 \/ Details(new.attempt) # Details(setup.attempt)
<1> DEFINE details == [id |-> count.presses + 1, bestOf |-> setup.bestOf, rated |-> setup.rated,
                       players |-> <<ownPlayer, setup.opponent>>]
<1>1. CASE setup.opponent = Nobody
  BY <1>1 DEF NInv, FormInv, SetupFields, start
<1>2. CASE setup.opponent # Nobody
  <2> DEFINE new == start(setup, count.presses + 1)
  <2>1. /\ DOMAIN new = SetupFields
        /\ new.opponent = setup.opponent /\ new.bestOf = setup.bestOf /\ new.rated = setup.rated
        /\ new.submit = "starting"
        /\ new.attempt = IF sameDetails(setup.attempt, details) THEN setup.attempt ELSE details
    BY <1>2 DEF NInv, FormInv, SetupFields, start
  <2>2. count.presses \in Nat /\ MaxPresses \in Nat /\ count.presses + 1 \in 1 .. MaxPresses
    BY DEF NInv, AttemptInv, NewAssumption
  <2>3. AttemptOK(details) /\ details.id # 0
    BY <1>2, <2>2 DEF NInv, FormInv, AttemptOK
  <2>4. [details EXCEPT !.id = 0] # NoAttempt
    <3>1. [details EXCEPT !.id = 0].players = <<ownPlayer, setup.opponent>>
      OBVIOUS
    <3>2. NoAttempt.players = <<Nobody, Nobody>>
      BY DEF NoAttempt
    <3>3. <<ownPlayer, setup.opponent>> # <<Nobody, Nobody>>
      BY DEF NewAssumption
    <3> QED
      BY <3>1, <3>2, <3>3
  <2>5. AttemptOK(setup.attempt)
    BY DEF NInv, AttemptInv
  <2> HIDE DEF details, new
  <2> QED
    BY <2>1, <2>3, <2>4, <2>5 DEF sameDetails, AttemptOK, Details, new
<1> QED
  BY <1>1, <1>2 DEF NInv, FormInv

\* The press of Start keeps the invariant.
LEMMA StartKeeps == ASSUME NInv, Start PROVE NInv'
<1> DEFINE new == start(setup, count.presses + 1)
<1>1. /\ count.presses < MaxPresses /\ ~sending /\ drawn = setup /\ place = "form"
      /\ count.presses + 1 \in 0 .. MaxPresses
  BY NewAssumption DEF NInv, AttemptInv, Start
<1>2. /\ DOMAIN new = SetupFields
      /\ new.opponent = setup.opponent /\ new.bestOf = setup.bestOf /\ new.rated = setup.rated
      /\ new.submit \in {"needsOpponent", "starting"}
      /\ new.submit = "needsOpponent" => new.attempt = setup.attempt
      /\ new.submit = "starting" =>
           /\ AttemptOK(new.attempt) /\ new.attempt.id # 0
           /\ \/ new.attempt = setup.attempt
              \/ Details(new.attempt) # Details(setup.attempt)
  BY <1>1, StartFacts, NewAssumption
<1>3. \/ /\ new.submit = "starting" /\ CountSend(new.attempt)
         /\ posting' = [step |-> "sent", request |-> new.attempt] /\ setup' = new
      \/ /\ new.submit = "starting" /\ CountSend(new.attempt) /\ UNCHANGED posting
         /\ setup' = [new EXCEPT !.submit = "offline"] /\ drawn' = setup'
      \/ /\ new.submit # "starting" /\ setup' = new /\ drawn' = setup' /\ UNCHANGED posting
         /\ count' = [count EXCEPT !.presses = @ + 1]
  BY <1>1 DEF Start, Dispatch, DispatchOnly
<1>4. UNCHANGED <<newScene, matches, gone, picker, players, place, read, kept>>
  BY DEF Start
<1> HIDE DEF new
<1>5. /\ DOMAIN setup' = SetupFields
      /\ setup'.opponent = setup.opponent /\ setup'.bestOf = setup.bestOf
      /\ setup'.rated = setup.rated
      /\ setup'.submit \in {"needsOpponent", "starting", "offline"} /\ setup'.attempt = new.attempt
  BY <1>2, <1>3 DEF SetupFields
<1>6. /\ DOMAIN count' = DOMAIN count /\ count'.presses = count.presses + 1
      /\ count'.last = Details(new.attempt) /\ count'.ids = {new.attempt.id} \ {0}
      /\ AttemptOK(new.attempt)
  <2>1. CASE new.submit = "starting"
    <3>1. /\ DOMAIN count' = DOMAIN count /\ count'.presses = count.presses + 1
          /\ count'.last = [new.attempt EXCEPT !.id = 0]
          /\ count'.ids = IF count.last = [new.attempt EXCEPT !.id = 0]
                          THEN count.ids \cup {new.attempt.id} ELSE {new.attempt.id}
      BY <2>1, <1>3 DEF CountSend, NInv, AttemptInv
    <3> QED
      BY <3>1, <2>1, <1>2 DEF NInv, AttemptInv, Details
  <2>2. CASE new.submit = "needsOpponent"
    BY <2>2, <1>2, <1>3 DEF NInv, AttemptInv
  <2> QED
    BY <2>1, <2>2, <1>2
<1>7. FormInv'
  BY <1>4, <1>5 DEF NInv, FormInv
<1>8. AttemptInv'
  BY <1>1, <1>2, <1>3, <1>4, <1>5, <1>6 DEF NInv, AttemptInv, sending
<1>9. RefusalInv'
  BY <1>1, <1>3, <1>4, <1>5 DEF NInv, RefusalInv, RefusedIsNotOffered, AttemptInv, sending
<1>10. PlaceInv'
  BY <1>1, <1>3, <1>4 DEF NInv, PlaceInv, ShowsTheSaves, sending
<1> QED
  BY <1>4, <1>7, <1>8, <1>9, <1>10 DEF NInv, MatchesInv

\* A press on the form that changes no attempt keeps it.
LEMMA EditKeeps ==
  ASSUME NInv, BestOfField \/ RatedField \/ Pick \/ Change
  PROVE  NInv'
<1>1. /\ UNCHANGED <<newScene, posting, matches, gone, players, place, read, kept>>
      /\ drawn' = setup' /\ DOMAIN setup' = SetupFields /\ setup'.attempt = setup.attempt
      /\ setup'.submit \in {setup.submit, "idle"}
      /\ DOMAIN count' = DOMAIN count /\ count'.presses = count.presses /\ count'.last = count.last
      /\ count'.ids = count.ids
  BY DEF BestOfField, RatedField, Pick, Change, Dispatch, pick, clearOpponent, NInv, FormInv,
         AttemptInv,
     SetupFields
<1>2. FormInv'
  <2>1. CASE BestOfField \/ RatedField
    <3>1. /\ setup'.opponent = setup.opponent /\ UNCHANGED picker
          /\ \/ setup'.rated = setup.rated
             \/ setup'.rated = ~setup.rated /\ setup.opponent # Nobody
      BY <2>1 DEF BestOfField, RatedField, Dispatch, NInv, FormInv, SetupFields
    <3>2. setup'.rated \in BOOLEAN
      BY <3>1 DEF NInv, FormInv
    <3> QED
      BY <1>1, <3>1, <3>2 DEF NInv, FormInv
  <2>2. CASE Pick
    <3> PICK p \in players.shows : setup' = pick(setup, p) /\ picker' = Mounted("picked", "change")
      BY <2>2 DEF Pick, Dispatch
    <3>1. p \in Opponent /\ p # Nobody
      BY NewAssumption DEF NInv, RefusalInv
    <3>2. setup'.opponent = p /\ setup'.rated = setup.rated
      BY DEF pick, NInv, FormInv, SetupFields
    <3> QED
      BY <1>1, <3>1, <3>2, MountedPicker DEF NInv, FormInv
  <2>3. CASE Change
    <3>1. setup'.opponent = Nobody /\ setup'.rated = FALSE /\ picker' =
            Mounted("recent", "searchAll")
      BY <2>3 DEF Change, Dispatch, clearOpponent, NInv, FormInv, SetupFields
    <3>2. /\ DOMAIN picker' = PickerFields /\ picker'.screen = "recent"
      BY <3>1, MountedPicker DEF NInv, FormInv
    <3> QED
      BY <1>1, <3>1, <3>2 DEF NInv, FormInv
  <2> QED
    BY <2>1, <2>2, <2>3
<1>3. AttemptInv'
  BY <1>1 DEF NInv, AttemptInv, sending
<1>4. RefusalInv'
  BY <1>1 DEF NInv, RefusalInv, RefusedIsNotOffered
<1> QED
  BY <1>1, <1>2, <1>3, <1>4 DEF NInv, MatchesInv, PlaceInv, ShowsTheSaves, sending

\* The API's answer, and what becomes of it.
LEMMA CreateKeeps ==
  ASSUME NInv, Create \/ CreateLost \/ OpenMatch \/ Refused
  PROVE  NInv'
<1>1. CASE Create
  <2>1. /\ UNCHANGED <<newScene, setup, drawn, gone, picker, players, place, read, kept, count>>
        /\ DOMAIN posting' = DOMAIN posting /\ posting'.request = posting.request
        /\ posting.step = "sent"
        /\ posting'.step \in {"made", "refused"}
    BY <1>1 DEF Create, NInv, AttemptInv
  <2>2. MatchesInv'
    BY <1>1 DEF Create, Made, NInv, MatchesInv
  <2>3. posting'.step = "refused" => setup.attempt.players[2] \in gone
    <3> SUFFICES ASSUME posting'.step = "refused" PROVE setup.attempt.players[2] \in gone
      OBVIOUS
    <3>1. ~Playable(setup.attempt)
      BY <1>1, <2>1 DEF Create, NInv, AttemptInv, sending
    <3> PICK p \in Opponent : setup.attempt.players = <<ownPlayer, p>>
      BY <2>1 DEF NInv, AttemptInv, AttemptOK, sending
    <3>2. ownPlayer \notin gone
      BY NewAssumption DEF NInv, RefusalInv
    <3> QED
      BY <3>1, <3>2 DEF Playable
  <2> QED
    BY <2>1, <2>2, <2>3
    DEF NInv, FormInv, AttemptInv, RefusalInv, RefusedIsNotOffered, PlaceInv, ShowsTheSaves, sending
<1>2. CASE CreateLost
  BY <1>2
  DEF CreateLost, Dispatch, NoPost, NInv, FormInv, SetupFields, AttemptInv, MatchesInv, RefusalInv,
     RefusedIsNotOffered, PlaceInv, ShowsTheSaves, sending
<1>3. CASE OpenMatch
  BY <1>3 DEF OpenMatch, Opens, NoPost, NInv, FormInv, AttemptInv, MatchesInv, RefusalInv,
     RefusedIsNotOffered, PlaceInv, ShowsTheSaves, sending
<1>4. CASE Refused
  BY <1>4
  DEF Refused, AfterRefusal, Dispatch, NoPost, NInv, FormInv, SetupFields, AttemptInv, MatchesInv,
     RefusalInv, RefusedIsNotOffered, PlaceInv, ShowsTheSaves, sending
<1> QED
  BY <1>1, <1>2, <1>3, <1>4

\* The pages that start() opens, and those that a person leaves for.
LEMMA PagesKeep ==
  ASSUME NInv, MatchOpens \/ OpenPad \/ PadOvertaken \/ SaveGame \/ ShowMatch \/ Leave
  PROVE  NInv'
<1>1. /\ UNCHANGED <<setup, drawn, matches, gone, picker, players, count>> /\ place' # "form"
      /\ DOMAIN posting' = DOMAIN posting
      /\ posting'.step \in {posting.step, "none", "scoring", "overtaken"}
      /\ posting'.step # "none" => posting.step # "none" /\ posting'.request = posting.request
  BY DEF MatchOpens, OpenPad, PadOvertaken, SaveGame, ShowMatch, Leave, NoPost, NInv, AttemptInv,
     PlaceInv
<1>2. PlaceInv'
  BY DEF MatchOpens, OpenPad, PadOvertaken, AfterPad, Unread, SaveGame, ShowMatch, Leave, NoPost,
     NInv, AttemptInv, PlaceInv, ShowsTheSaves, sending
<1> QED
  BY <1>1, <1>2
  DEF NInv, FormInv, AttemptInv, MatchesInv, RefusalInv, RefusedIsNotOffered, sending

\* The list of opponents, merges and the search.
LEMMA OthersKeep ==
  ASSUME NInv, \/ Render \/ opponentsQuery \/ Merge
               \/ SearchAll \/ SearchBack \/ Type \/ SearchTimer
  PROVE  NInv'
<1>1. CASE Render
  BY <1>1
  DEF Render, NInv, FormInv, AttemptInv, MatchesInv, RefusalInv, RefusedIsNotOffered, PlaceInv,
     ShowsTheSaves, sending
<1>2. CASE opponentsQuery \/ Merge
  BY <1>2 DEF opponentsQuery, Merge, NInv, FormInv, AttemptInv, MatchesInv, RefusalInv,
     RefusedIsNotOffered, PlaceInv, ShowsTheSaves, sending
<1>3. CASE SearchAll \/ SearchBack \/ Type \/ SearchTimer
  <2>1. /\ UNCHANGED <<setup, drawn, posting, matches, gone, players, place, read, kept>>
        /\ DOMAIN count' = DOMAIN count /\ count'.presses = count.presses
        /\ count'.last = count.last
        /\ count'.ids = count.ids
    BY <1>3 DEF SearchAll, SearchBack, Type, SearchTimer, NInv, AttemptInv
  <2>2. /\ DOMAIN picker' = PickerFields /\ picker.screen # "picked" /\ picker'.screen # "picked"
        /\ picker'.screen = "search" /\ ~picker'.timer => picker'.term = picker'.text
    <3>1. CASE SearchAll
      BY <3>1, MountedPicker DEF SearchAll, NInv, FormInv, PickerFields
    <3>2. CASE SearchBack
      BY <3>2, MountedPicker DEF SearchBack, NInv, FormInv
    <3>3. CASE Type \/ SearchTimer
      BY <3>3 DEF Type, SearchTimer, AfterKey, NInv, FormInv, PickerFields
    <3> QED
      BY <1>3, <3>1, <3>2, <3>3
  <2> QED
    BY <2>1, <2>2
    DEF NInv, FormInv, AttemptInv, MatchesInv, RefusalInv, RefusedIsNotOffered, PlaceInv,
       ShowsTheSaves, sending
<1> QED
  BY <1>1, <1>2, <1>3

\* The invariant is inductive.
LEMMA NewNextInv == NInv /\ [NewNext]_newVars => NInv'
<1>1. ASSUME NInv, UNCHANGED newVars PROVE NInv'
  BY <1>1
  DEF newVars, NInv, FormInv, AttemptInv, MatchesInv, RefusalInv, RefusedIsNotOffered, PlaceInv,
     ShowsTheSaves, sending
<1>2. ASSUME NInv, NewNext PROVE NInv'
  BY <1>2, StartKeeps, EditKeeps, CreateKeeps, PagesKeep, OthersKeep DEF NewNext
<1> QED
  BY <1>1, <1>2

\* The form opens so.
LEMMA NewInitInv == NewInit => NInv
<1> SUFFICES ASSUME NewInit PROVE NInv
  OBVIOUS
<1>1. FormInv
  BY DEF NewInit, initialSetup, FormInv, SetupFields, PickerFields
<1>2. AttemptInv
  <2>1. AttemptOK(NoAttempt) /\ Details(NoAttempt) = NoAttempt /\ NoAttempt.id = 0
    <3>1. MaxPresses \in Nat
      BY NewAssumption
    <3> QED
      BY <3>1 DEF AttemptOK, NoAttempt, Details
  <2>2. /\ setup.attempt = NoAttempt /\ count.last = NoAttempt /\ count.ids = {}
        /\ DOMAIN count = {"presses", "edits", "typed", "last", "ids"} /\ count.presses = 0
        /\ drawn = setup /\ posting = NoPost
    BY DEF NewInit, initialSetup
  <2>3. 0 \in 0 .. MaxPresses
    BY NewAssumption
  <2> QED
    BY <2>1, <2>2, <2>3 DEF AttemptInv, NoPost, sending
<1>3. MatchesInv /\ RefusalInv /\ PlaceInv
  BY DEF NewInit, initialSetup, MatchesInv, RefusalInv, RefusedIsNotOffered, PlaceInv,
         ShowsTheSaves,
     NoPost, Unread
<1> QED
  BY <1>1, <1>2, <1>3 DEF NInv

\* The invariant implies what the run checks of each state.
LEMMA NInvFollows ==
  NInv => NewTypeOK /\ OneMatchEachSetup /\ ShowsTheSaves /\ RefusedIsNotOffered /\ SearchesTheText
<1> SUFFICES ASSUME NInv
             PROVE  NewTypeOK /\ OneMatchEachSetup /\ ShowsTheSaves /\ RefusedIsNotOffered /\ SearchesTheText
  OBVIOUS
<1>1. NewTypeOK
  BY DEF NInv, FormInv, AttemptInv, AttemptOK, RefusalInv, PlaceInv, NewTypeOK
<1>2. OneMatchEachSetup
  <2> DEFINE ones == {m \in matches : m.id \in count.ids}
  <2>1. \A m, n \in ones : m = n
    BY DEF NInv, AttemptInv, MatchesInv
  <2>2. CASE ones = {}
    BY <2>2, FS_EmptySet DEF OneMatchEachSetup
  <2>3. ASSUME NEW m \in ones PROVE OneMatchEachSetup
    <3>1. ones = {m}
      BY <2>1
    <3> QED
      BY <3>1, FS_Singleton DEF OneMatchEachSetup
  <2> QED
    BY <2>2, <2>3
<1> QED
  BY <1>1, <1>2 DEF NInv, FormInv, RefusalInv, PlaceInv, SearchesTheText

\* The invariant of a new match holds, whatever renders, answers and merges come
\* when.
THEOREM NewIInv == NewSpec => []NInv
<1> QED
  BY NewInitInv, NewNextInv, PTL DEF NewSpec

\* Once the person is away and start() opens nothing more, it stays so: a later
\* answer finds the form gone, and only a press on the form sends another.
LEMMA LeftStays ==
  ASSUME NInv, [NewNext]_newVars, place = "elsewhere", ~Opening
  PROVE  (place = "elsewhere" /\ ~Opening)'
<1>1. CASE UNCHANGED newVars
  BY <1>1 DEF newVars, Opening
<1>2. CASE Create \/ CreateLost \/ OpenMatch \/ Refused
  BY <1>2 DEF Create, CreateLost, OpenMatch, Opens, Refused, NoPost, Opening, NInv, AttemptInv
<1>3. CASE MatchOpens \/ OpenPad \/ PadOvertaken \/ SaveGame \/ ShowMatch \/ Leave
  BY <1>3 DEF MatchOpens, OpenPad, PadOvertaken, SaveGame, ShowMatch, Leave, NoPost, Opening
<1>4. CASE Start \/ BestOfField \/ RatedField \/ Pick \/ Change
  BY <1>4 DEF Start, BestOfField, RatedField, Pick, Change, MayEdit
<1>5. CASE \/ Render \/ opponentsQuery \/ Merge
           \/ SearchAll \/ SearchBack \/ Type \/ SearchTimer
  BY <1>5 DEF Render, opponentsQuery, Merge, SearchAll, SearchBack, Type, SearchTimer, Opening
<1> QED
  BY <1>1, <1>2, <1>3, <1>4, <1>5 DEF NewNext

\* A setup starts one match at most however often it is sent, a refused opponent is
\* no longer offered, the search finds what was typed, the pad's page shows its
\* saves, and a create that answers after the form was left opens nothing.
THEOREM NewMatchesAreSafe == NewSpec => NewSafe
<1>1. NInv /\ [NewNext]_newVars => [place = "elsewhere" /\ ~Opening => (place = "elsewhere" /\ ~Opening)']_newVars
  BY LeftStays
<1>2. NewSpec => LeftOpensNothing
  BY <1>1, NewIInv, PTL DEF NewSpec, LeftOpensNothing
<1> QED
  BY <1>2, NewIInv, NInvFollows, PTL DEF NewSafe

-----------------------------------------------------------------------------
(* The iOS app.                                                            *)

\* What else happens in the behaviour.
Overlaps == "overlaps" \in appScene
Cuts == "cutShort" \in appScene
\* Where a request is, and where one is that was answered.
Asked == {"made", "sent", "answered", "received"}
Told == {"answered", "received"}
\* A session's number that the API gave out, or none.
Issued(s) == s = 0 \/ (s \in Cookie /\ s <= started)

\* A request's parts.
CallOK(call) ==
  /\ DOMAIN call = {"at", "jar", "key", "account", "session", "login", "says"}
  /\ call.at \in Asked \cup {"none"}
  /\ Issued(call.jar.session)
  /\ call.key \in PhoneKey \cup {Nothing}
  /\ call.session = Nothing \/ Issued(call.session)
  /\ call.login = Nothing \/ call.login \in 0 .. SignInPresses

\* The parts of the app's and the API's state.
AppShape ==
  /\ appScene \in AppScenes
  /\ phase.is \in {"starting", "ready", "failed", "signedOut"}
  /\ phase.account \in AppAccount \cup {Nothing}
  /\ phase.guest => phase.is = "ready"
  /\ DOMAIN signInAt = {"step", "attempt", "start"}
  /\ signInAt.step \in {"idle", "begins", "page", "finishes", "starts"}
  /\ DOMAIN signOutAt = {"step", "awaits"}
  /\ signOutAt.step \in {"idle", "waits", "sent", "failed"}
  /\ keyRegistration \in StartCall \cup {0} /\ begun \in StartCall
  /\ DOMAIN registration = StartCall
  /\ \A n \in StartCall :
       /\ DOMAIN registration[n] = {"step", "account", "tries", "took"}
       /\ registration[n].step \in {"none", "waits", "sends", "done"}
       /\ registration[n].took \in BOOLEAN
  /\ DOMAIN calls = Caller /\ \A c \in Caller : CallOK(calls[c])
  /\ Issued(cookies.session) /\ cookies.login \in 0 .. SignInPresses
  /\ keychain \in PhoneKey \cup {Nothing}
  /\ DOMAIN presses = {"signIn", "signOut"} /\ presses.signIn \in 0 .. SignInPresses

\* Sessions and accounts begin one by one, a guest has the session it began
\* with, and each sign-in began an attempt at most.
Accounts ==
  /\ started \in Nat /\ (started # 0 => started \in Cookie)
  /\ accounts \in [Cookie -> AppAccount \cup {Nothing}] /\ expired \subseteq Cookie
  /\ Emailed \subseteq verified /\ verified \subseteq AppAccount
  /\ \A a \in verified \cap Cookie : a <= started
  /\ \A s \in Cookie : accounts[s] # Nothing => s <= started
  /\ \A s \in Cookie : accounts[s] \in Cookie => accounts[s] <= started
  /\ \A s \in Cookie : accounts[s] \in Cookie \ verified => accounts[s] = s
  /\ presses.signIn = 0 => verified = Emailed /\ \A s \in Cookie : accounts[s] \notin Emailed
  /\ keyOwner \in [PhoneKey -> AppAccount \cup {Nothing}]
  /\ attempts \in Seq(Cookie \cup {0})
  /\ Len(attempts) <= presses.signIn
  /\ signInAt.step = "begins" /\ calls[SignInCall].at \in {"made", "sent"}
       => Len(attempts) + 1 <= presses.signIn

\* A request is on its way while its task awaits it.
InStep ==
  /\ calls[SignOutCall].at # "none" <=> signOutAt.step = "sent"
  /\ calls[SignInCall].at # "none" <=> signInAt.step \in {"begins", "finishes"}
  /\ \A i \in StartCall : i > begun => calls[SessionCall(i)].at = "none"
  /\ signInAt.step # "idle" => presses.signIn >= 1
  /\ signInAt.step # "starts" => signInAt.start = 0
  /\ \A i \in StartCall : calls[SessionCall(i)].at \in Told
       => calls[SessionCall(i)].says.account \in AppAccount
  /\ \A n \in StartCall : calls[KeyCall(n)].at = "answered" => calls[KeyCall(n)].session = Nothing
  /\ signInAt.step = "finishes" /\ calls[SignInCall].at = "answered" =>
       calls[SignInCall].says = "signedIn" \/ calls[SignInCall].session = Nothing

\* Registrations begin in order, and each waits for the one before.
Chain ==
  /\ \A n \in StartCall : registration[n].step = "none" <=> n > keyRegistration
  /\ \A n \in StartCall : calls[KeyCall(n)].at # "none" <=> registration[n].step = "sends"
  /\ \A n \in StartCall : registration[n].step \in {"sends", "done"} =>
       \A m \in StartCall : m < n => registration[m].step = "done"
  /\ \A n \in StartCall : registration[n].took => registration[n].step = "done"
  /\ \A n \in StartCall : registration[n].step # "none" => registration[n].account \in AppAccount
  /\ \A n \in StartCall : registration[n].step = "sends" =>
       calls[KeyCall(n)].account = registration[n].account /\ calls[KeyCall(n)].key \in PhoneKey
  /\ phase.is = "ready"
       => keyRegistration # 0 /\ phase.account = registration[keyRegistration].account

\* The registration that sends has the Keychain's key.
KeyAtHand ==
  \A n \in StartCall :
    /\ registration[n].step = "sends"
    /\ Overlaps => phase.is = "ready" /\ n = keyRegistration
    => calls[KeyCall(n)].key = keychain

\* One thing at a time
Alone ==
  /\ \A i \in StartCall : calls[SessionCall(i)].at # "none" => i = begun /\ phase.is = "starting"
  /\ signInAt.step \in {"begins", "page", "finishes"} =>
       phase.is \in {"ready", "signedOut"} /\ signOutAt.step \notin {"waits", "sent"}
  /\ signInAt.step = "starts" => phase.is = "starting" /\ signInAt.start = begun
  /\ signOutAt.step \in {"waits", "sent"} =>
       phase.is = "ready" /\ signInAt.step = "idle" /\ signOutAt.awaits = keyRegistration

NoKeyOut == \A n \in StartCall : registration[n].step \in {"none", "done"}

\* The sign-out has the key
KeyLeaves ==
  /\ phase.is = "signedOut" => keychain = Nothing /\ NoKeyOut
  /\ signOutAt.step = "sent" => NoKeyOut /\ calls[SignOutCall].key = keychain
  /\ calls[SignOutCall].at \in Told /\ keychain # Nothing /\ calls[SignOutCall].says # Nothing
       /\ keyOwner[keychain] = calls[SignOutCall].says => keychain \in keysOut
  /\ \A k \in PhoneKey : keyOwner[k] # Nothing
       => k \in {keychain} \cup keysOut \cup keysRevoked \cup givenUp

\* A sign-in's answer has come, and its start() hasn't begun.
SignedIn ==
  /\ signInAt.step = "finishes" /\ calls[SignInCall].at = "received"
  /\ calls[SignInCall].says = "signedIn"

\* A sign-in or sign-out has the jar's session, and its answer brings it or ends it.
Jar ==
  /\ calls[SignInCall].at = "sent" => calls[SignInCall].jar.session = cookies.session
  /\ calls[SignOutCall].at = "sent" => calls[SignOutCall].jar.session = cookies.session
  /\ signInAt.step = "begins" /\ calls[SignInCall].at = "answered" =>
       calls[SignInCall].session \in {Nothing, cookies.session}
  /\ calls[SignOutCall].at = "answered" => calls[SignOutCall].session = 0
  /\ calls[SignOutCall].at \in Told => AccountOf(cookies.session) = Nothing

\* The jar's session is of the account to show, or that is shown.
SessionShown ==
  /\ \A i \in StartCall :
       calls[SessionCall(i)].at = "answered" =>
         calls[SessionCall(i)].session # Nothing /\ AccountOf(calls[SessionCall(i)].session) =
           calls[SessionCall(i)].says.account
  /\ \A i \in StartCall :
       calls[SessionCall(i)].at = "received"
         => AccountOf(cookies.session) = calls[SessionCall(i)].says.account
  /\ ~Cuts /\ phase.is = "ready" /\ ~SignedIn
       => AccountOf(cookies.session) \in {phase.account, Nothing}

\* The last registration took, or its answer says so.
Registered ==
  /\ keyRegistration # 0
  /\ \/ registration[keyRegistration].took
     \/ /\ calls[KeyCall(keyRegistration)].at \in Told
        /\ calls[KeyCall(keyRegistration)].says = "registered"
\* The key is the account's, out only if revoked. Or the account, a guest's, ended
\* with its sessions. Or the jar's session is another's.
Has(a) == keychain \in PhoneKey /\ keyOwner[keychain] = a /\ keychain \notin keysOut \ keysRevoked
Ended(a) == a \in Cookie /\ a <= started /\ a \notin verified /\ \A s \in Cookie : accounts[s] # a
Left(a) ==
  /\ AccountOf(cookies.session) # a
  /\ Cuts => presses.signIn = 1 /\ signInAt.step = "idle"

\* A key that was taken is the account's until the account ends or is left.
KeepsKey ==
  phase.is = "ready" /\ Registered /\ (Cuts => presses.signIn <= 1)
  => Has(phase.account) \/ Ended(phase.account) \/ Left(phase.account) \/ (~Cuts /\ SignedIn)
\* The same when things overlap and none fails.
KeepsKeyOverlapped ==
  phase.is = "ready" /\ Registered
  => Has(phase.account) \/ Ended(phase.account) \/ signOutAt.step \in {"waits", "sent"}

\* With nothing that overlaps, one thing runs at a time, and more is true.
AppIInv ==
  /\ AppShape /\ Accounts /\ InStep /\ Chain /\ KeyAtHand
  /\ ~Overlaps => Alone /\ KeyLeaves /\ Jar /\ SessionShown /\ KeepsKey
  /\ Overlaps /\ appScene \cap {"noSignal", "cutShort"} = {} => KeepsKeyOverlapped
-----------------------------------------------------------------------------
\* The requests are told apart.
LEMMA CallersDiffer ==
  /\ SignInCall \in Caller /\ SignOutCall \in Caller /\ SignInCall # SignOutCall
  /\ \A i \in StartCall :
       /\ SessionCall(i) \in Caller /\ KeyCall(i) \in Caller
       /\ SessionCall(i) \notin {SignInCall, SignOutCall}
       /\ KeyCall(i) \notin {SignInCall, SignOutCall}
       /\ \A j \in StartCall :
            /\ SessionCall(i) # KeyCall(j)
            /\ i # j => SessionCall(i) # SessionCall(j) /\ KeyCall(i) # KeyCall(j)
<1>1. /\ SignInCall \in Caller /\ SignOutCall \in Caller /\ SignInCall # SignOutCall
  BY DEF Caller, SignInCall, SignOutCall
<1>2. ASSUME NEW i \in StartCall
      PROVE  /\ SessionCall(i) \in Caller /\ KeyCall(i) \in Caller
             /\ SessionCall(i) \notin {SignInCall, SignOutCall}
             /\ KeyCall(i) \notin {SignInCall, SignOutCall}
             /\ \A j \in StartCall :
                  /\ SessionCall(i) # KeyCall(j)
                  /\ i # j => SessionCall(i) # SessionCall(j) /\ KeyCall(i) # KeyCall(j)
  BY DEF Caller, SignInCall, SignOutCall, SessionCall, KeyCall
<1> QED
  BY <1>1, <1>2

\* They are the sign-in's, the sign-out's, a start()'s or a registration's.
LEMMA CallerCases ==
  \A c \in Caller : c \in {SignInCall, SignOutCall}
    \/ \E i \in StartCall : c \in {SessionCall(i), KeyCall(i)}
BY DEF Caller, SignInCall, SignOutCall, SessionCall, KeyCall

\* A request's fields, and a step that changes one request only.
CallFields == {"at", "jar", "key", "account", "session", "login", "says"}
OnlyCall(c) == DOMAIN calls' = Caller /\ \A d \in Caller : d # c => calls'[d] = calls[d]

\* A request that gets the jar's cookies keeps the rest of it.
LEMMA InterceptsCall ==
  ASSUME AppShape, NEW c \in Caller, Intercepts(c)
  PROVE  /\ OnlyCall(c) /\ cookies' = cookies
         /\ DOMAIN calls'[c] = CallFields
         /\ calls[c].at = "made" /\ calls'[c].at = "sent" /\ calls'[c].jar = cookies
         /\ calls'[c].key = calls[c].key /\ calls'[c].account = calls[c].account
         /\ calls'[c].session = calls[c].session /\ calls'[c].login = calls[c].login
         /\ calls'[c].says = calls[c].says
BY DEF AppShape, CallOK, Intercepts, OnlyCall, CallFields

\* An answer's cookies go into the jar, and its other parts stay.
LEMMA AppliesCall ==
  ASSUME AppShape, NEW c \in Caller, Applies(c)
  PROVE  /\ OnlyCall(c)
         /\ DOMAIN calls'[c] = CallFields
         /\ calls[c].at = "answered" /\ calls'[c].at = "received" /\ calls'[c].jar = calls[c].jar
         /\ calls'[c].key = calls[c].key /\ calls'[c].account = calls[c].account
         /\ calls'[c].session = calls[c].session /\ calls'[c].login = calls[c].login
         /\ calls'[c].says = calls[c].says
         /\ cookies'.session =
              IF calls[c].session = Nothing THEN cookies.session ELSE calls[c].session
         /\ cookies'.login = IF calls[c].login = Nothing THEN cookies.login ELSE calls[c].login
BY DEF AppShape, CallOK, Applies, OnlyCall, CallFields

\* The API's answer keeps what the request asked.
LEMMA AnswersCall ==
  ASSUME AppShape, NEW c \in Caller, NEW session, NEW login, NEW says, Answer(c, session, login, says)
  PROVE  /\ OnlyCall(c)
         /\ DOMAIN calls'[c] = CallFields
         /\ calls'[c].at = "answered" /\ calls'[c].jar.session = 0
         /\ calls'[c].key = calls[c].key /\ calls'[c].account = calls[c].account
         /\ calls'[c].session = session /\ calls'[c].login = login /\ calls'[c].says = says
BY DEF AppShape, CallOK, Answer, OnlyCall, CallFields, NoCookies

\* The numbers of the first parts are numbers.
Numbers ==
  /\ keyRegistration # 0 => keyRegistration \in StartCall
  /\ keyRegistration \in Nat /\ begun \in Nat /\ begun \in StartCall
  /\ presses.signIn \in Nat /\ SignInPresses \in Nat

\* They are.
LEMMA NumbersOK == AppShape => Numbers
BY AppModelAssumption DEF AppShape, Numbers

\* The press of Sign out takes the account shown as it is, and waits for its
\* last registration.
LEMMA PressSignOutKeeps ==
  ASSUME AppIInv,
         PressSignOut, UNCHANGED <<appScene, cookies, apiVars>>
  PROVE  AppIInv'
<1>inv. AppShape /\ Accounts /\ InStep /\ Chain /\ KeyAtHand
  BY DEF AppIInv
<1>last. Numbers
  BY <1>inv, NumbersOK
<1>alone. ~Overlaps => Alone /\ KeyLeaves /\ Jar /\ SessionShown /\ KeepsKey
  BY DEF AppIInv
<1>same. /\ appScene' = appScene /\ phase' = phase /\ signInAt' = signInAt
         /\ keyRegistration' = keyRegistration /\ registration' = registration
         /\ calls' = calls /\ cookies' = cookies /\ keychain' = keychain /\ begun' = begun
         /\ started' = started
         /\ accounts' = accounts /\ expired' = expired /\ attempts' = attempts
         /\ verified' = verified /\ keyOwner' = keyOwner
         /\ keysOut' = keysOut /\ keysRevoked' = keysRevoked /\ leftAccount' = leftAccount
         /\ givenUp' = givenUp
  BY DEF PressSignOut, apiVars
<1>s1. /\ phase.is = "ready" /\ (SomethingRuns => Overlaps) /\ signOutAt.step \in {"idle", "failed"}
       /\ signOutAt' = [step |-> "waits", awaits |-> keyRegistration]
       /\ DOMAIN presses' = DOMAIN presses /\ presses'.signIn = presses.signIn
  BY DEF PressSignOut, MayPress, Overlaps, AppShape
<1>over. (Overlaps' <=> Overlaps) /\ (Cuts' <=> Cuts)
  BY DEF Overlaps, Cuts
<1>AppShape. AppShape'
  BY <1>inv, <1>same, <1>s1, <1>over DEF AppShape, CallOK, CallFields, Issued, Asked
<1>Accounts. Accounts'
  BY <1>inv, <1>same, <1>s1, <1>over DEF Accounts
<1>InStep. InStep'
  BY <1>inv, <1>same, <1>s1, <1>over DEF InStep, Told
<1>Chain. Chain'
  BY <1>inv, <1>same, <1>s1, <1>over DEF Chain
<1>KeyAtHand. KeyAtHand'
  BY <1>inv, <1>same, <1>s1, <1>over DEF KeyAtHand, Overlaps
<1>reg. Registered' => Registered
  BY <1>inv, <1>same, <1>s1 DEF Registered, Told
<1>has. \A a : (Has(a) => Has(a)') /\ (Ended(a) => Ended(a)')
  BY <1>inv, <1>same, <1>s1 DEF Has, Ended
<1>Alone. ~Overlaps => Alone'
  BY <1>alone, <1>inv, <1>same, <1>s1, <1>over DEF Alone, SomethingRuns
<1>KeyLeaves. ~Overlaps => KeyLeaves'
  BY <1>alone, <1>inv, <1>same, <1>s1, <1>over DEF KeyLeaves, NoKeyOut, Told
<1>Jar. ~Overlaps => Jar'
  BY <1>alone, <1>inv, <1>same, <1>s1, <1>over DEF Jar, AccountOf, Told
<1>SessionShown. ~Overlaps => SessionShown'
  BY <1>alone, <1>inv, <1>same, <1>s1, <1>over DEF SessionShown, AccountOf, SignedIn, Cuts
<1>KeepsKey. ~Overlaps => KeepsKey'
  BY <1>alone, <1>inv, <1>same, <1>s1, <1>over, <1>reg, <1>has
  DEF KeepsKey, Left, SignedIn, AccountOf
<1>Overlapped. Overlaps /\ appScene \cap {"noSignal", "cutShort"} = {} => KeepsKeyOverlapped'
  BY <1>inv, <1>same, <1>s1, <1>over, <1>reg, <1>has DEF AppIInv, KeepsKeyOverlapped
<1> QED
  BY <1>same, <1>over, <1>AppShape, <1>Accounts, <1>InStep, <1>Chain, <1>KeyAtHand, <1>Alone,
     <1>KeyLeaves, <1>Jar, <1>SessionShown, <1>KeepsKey, <1>Overlapped
  DEF AppIInv

\* The sign-out sends the key of the Keychain once the registration is done, and
\* then none is on its way.
LEMMA SignOutSendsKeeps ==
  ASSUME AppIInv,
         SignOutSends, UNCHANGED <<appScene, cookies, apiVars>>
  PROVE  AppIInv'
<1>inv. AppShape /\ Accounts /\ InStep /\ Chain /\ KeyAtHand
  BY DEF AppIInv
<1>last. Numbers
  BY <1>inv, NumbersOK
<1>alone. ~Overlaps => Alone /\ KeyLeaves /\ Jar /\ SessionShown /\ KeepsKey
  BY DEF AppIInv
<1>same. /\ appScene' = appScene /\ phase' = phase /\ signInAt' = signInAt
         /\ keyRegistration' = keyRegistration /\ registration' = registration
         /\ cookies' = cookies /\ keychain' = keychain /\ begun' = begun /\ presses' = presses
         /\ started' = started
         /\ accounts' = accounts /\ expired' = expired /\ attempts' = attempts
         /\ verified' = verified /\ keyOwner' = keyOwner
         /\ keysOut' = keysOut /\ keysRevoked' = keysRevoked /\ leftAccount' = leftAccount
         /\ givenUp' = givenUp
  BY DEF SignOutSends, apiVars
<1>s1. /\ signOutAt.step = "waits" /\ (signOutAt.awaits # 0
            => registration[signOutAt.awaits].step = "done")
       /\ DOMAIN signOutAt' = DOMAIN signOutAt /\ signOutAt'.step = "sent"
       /\ signOutAt'.awaits = signOutAt.awaits
  BY DEF SignOutSends
<1>s2. /\ OnlyCall(SignOutCall) /\ SignOutCall \in Caller /\ DOMAIN calls'[SignOutCall] = CallFields
       /\ calls'[SignOutCall].at = "made" /\ calls'[SignOutCall].jar.session = 0
       /\ calls'[SignOutCall].key = keychain
       /\ calls'[SignOutCall].account = Nothing /\ calls'[SignOutCall].session = Nothing
       /\ calls'[SignOutCall].login = Nothing
  BY <1>inv, CallersDiffer
  DEF SignOutSends, AppShape, OnlyCall, Request, NoCall, NoCookies, CallFields
<1>rest. /\ \A j \in StartCall : calls'[SessionCall(j)] = calls[SessionCall(j)]
         /\ \A j \in StartCall : calls'[KeyCall(j)] = calls[KeyCall(j)]
         /\ calls'[SignInCall] = calls[SignInCall]
  BY <1>s1, <1>s2, CallersDiffer DEF OnlyCall
<1>over. (Overlaps' <=> Overlaps) /\ (Cuts' <=> Cuts)
  BY DEF Overlaps, Cuts
<1>AppShape. AppShape'
  BY <1>inv, <1>same, <1>s1, <1>s2, <1>rest
  DEF AppShape, CallOK, CallFields, Issued, Asked, OnlyCall
<1>Accounts. Accounts'
  BY <1>inv, <1>same, <1>s1, <1>s2, <1>rest DEF Accounts
<1>InStep. InStep'
  BY <1>inv, <1>same, <1>s1, <1>s2, <1>rest DEF InStep, Told
<1>Chain. Chain'
  BY <1>inv, <1>same, <1>s1, <1>s2, <1>rest DEF Chain
<1>KeyAtHand. KeyAtHand'
  BY <1>inv, <1>same, <1>s1, <1>s2, <1>rest DEF KeyAtHand, Overlaps
<1>reg. Registered' => Registered
  BY <1>inv, <1>last, <1>same, <1>s1, <1>s2, <1>rest DEF Registered, Told, Numbers
<1>has. \A a : (Has(a) => Has(a)') /\ (Ended(a) => Ended(a)')
  BY <1>inv, <1>same, <1>s1, <1>s2 DEF Has, Ended
<1>Alone. ~Overlaps => Alone'
  BY <1>alone, <1>inv, <1>same, <1>s1, <1>s2, <1>rest DEF Alone
<1>KeyLeaves. ~Overlaps => KeyLeaves'
  <2>1. ~Overlaps => keyRegistration # 0 /\ registration[keyRegistration].step = "done"
    BY <1>inv, <1>alone, <1>s1 DEF Chain, Alone
  <2>2. ~Overlaps => NoKeyOut
    BY <2>1, <1>inv, AppModelAssumption DEF Chain, NoKeyOut, AppShape
  <2> QED
    BY <2>2, <1>alone, <1>inv, <1>same, <1>s2 DEF KeyLeaves, NoKeyOut, Told
<1>Jar. ~Overlaps => Jar'
  BY <1>alone, <1>inv, <1>same, <1>s1, <1>s2, <1>rest DEF Jar, AccountOf, Told
<1>SessionShown. ~Overlaps => SessionShown'
  BY <1>alone, <1>inv, <1>same, <1>s1, <1>s2, <1>rest DEF SessionShown, AccountOf, SignedIn, Cuts
<1>KeepsKey. ~Overlaps => KeepsKey'
  BY <1>alone, <1>inv, <1>same, <1>s1, <1>s2, <1>rest, <1>over, <1>reg, <1>has
  DEF KeepsKey, Left, SignedIn, AccountOf
<1>Overlapped. Overlaps /\ appScene \cap {"noSignal", "cutShort"} = {} => KeepsKeyOverlapped'
  BY <1>inv, <1>same, <1>s1, <1>s2, <1>rest, <1>reg, <1>has DEF AppIInv, KeepsKeyOverlapped
<1> QED
  BY <1>same, <1>over, <1>AppShape, <1>Accounts, <1>InStep, <1>Chain, <1>KeyAtHand, <1>Alone,
     <1>KeyLeaves, <1>Jar, <1>SessionShown, <1>KeepsKey, <1>Overlapped
  DEF AppIInv

\* A request takes the jar's cookies as they are.
LEMMA InterceptsKeeps ==
  ASSUME AppIInv, NEW c \in Caller,
         Intercepts(c), UNCHANGED <<appScene, appVars, apiVars>>
  PROVE  AppIInv'
<1>inv. AppShape /\ Accounts /\ InStep /\ Chain /\ KeyAtHand
  BY DEF AppIInv
<1>last. Numbers
  BY <1>inv, NumbersOK
<1>alone. ~Overlaps => Alone /\ KeyLeaves /\ Jar /\ SessionShown /\ KeepsKey
  BY DEF AppIInv
<1>same. /\ appScene' = appScene /\ phase' = phase /\ signInAt' = signInAt /\ signOutAt' = signOutAt
         /\ keyRegistration' = keyRegistration
         /\ registration' = registration /\ cookies' = cookies /\ keychain' = keychain
         /\ begun' = begun /\ presses' = presses
         /\ started' = started /\ accounts' = accounts /\ expired' = expired /\ attempts' = attempts
         /\ verified' = verified
         /\ keyOwner' = keyOwner /\ keysOut' = keysOut /\ keysRevoked' = keysRevoked
         /\ leftAccount' = leftAccount /\ givenUp' = givenUp
  BY DEF Intercepts, apiVars, appVars
<1>s1. /\ OnlyCall(c) /\ DOMAIN calls'[c] = CallFields
       /\ calls[c].at = "made" /\ calls'[c].at = "sent" /\ calls'[c].jar = cookies
       /\ calls'[c].key = calls[c].key /\ calls'[c].account = calls[c].account
       /\ calls'[c].session = calls[c].session /\ calls'[c].login = calls[c].login
       /\ calls'[c].says = calls[c].says
  BY <1>inv, InterceptsCall
<1>over. (Overlaps' <=> Overlaps) /\ (Cuts' <=> Cuts)
  BY DEF Overlaps, Cuts
<1>AppShape. AppShape'
  BY <1>inv, <1>same, <1>s1, <1>over DEF AppShape, CallOK, CallFields, Issued, Asked, OnlyCall
<1>Accounts. Accounts'
  BY <1>inv, <1>same, <1>s1, CallersDiffer, <1>over DEF Accounts, OnlyCall
<1>InStep. InStep'
  BY <1>inv, <1>same, <1>s1, CallersDiffer, <1>over DEF InStep, Told, OnlyCall
<1>Chain. Chain'
  BY <1>inv, <1>same, <1>s1, CallersDiffer, <1>over DEF Chain, OnlyCall
<1>KeyAtHand. KeyAtHand'
  BY <1>inv, <1>same, <1>s1, CallersDiffer, <1>over DEF KeyAtHand, Overlaps, OnlyCall
<1>reg. Registered' => Registered
  BY <1>inv, <1>last, <1>same, <1>s1, CallersDiffer DEF Registered, Told, OnlyCall, Numbers
<1>has. \A a : (Has(a) => Has(a)') /\ (Ended(a) => Ended(a)')
  BY <1>inv, <1>same, <1>s1 DEF Has, Ended
<1>Alone. ~Overlaps => Alone'
  BY <1>alone, <1>inv, <1>same, <1>s1, CallersDiffer, <1>over DEF Alone, OnlyCall
<1>KeyLeaves. ~Overlaps => KeyLeaves'
  BY <1>alone, <1>inv, <1>same, <1>s1, CallersDiffer, <1>over
  DEF KeyLeaves, NoKeyOut, Told, OnlyCall
<1>Jar. ~Overlaps => Jar'
  BY <1>alone, <1>inv, <1>same, <1>s1, CallersDiffer, <1>over DEF Jar, AccountOf, Told, OnlyCall
<1>SessionShown. ~Overlaps => SessionShown'
  BY <1>alone, <1>inv, <1>same, <1>s1, CallersDiffer, <1>over
  DEF SessionShown, AccountOf, SignedIn, Cuts, OnlyCall
<1>KeepsKey. ~Overlaps => KeepsKey'
  BY <1>alone, <1>inv, <1>same, <1>s1, CallersDiffer, <1>over, <1>reg, <1>has
  DEF KeepsKey, Left, SignedIn, AccountOf, OnlyCall
<1>Overlapped. Overlaps /\ appScene \cap {"noSignal", "cutShort"} = {} => KeepsKeyOverlapped'
  BY <1>inv, <1>same, <1>s1, <1>over, <1>reg, <1>has DEF AppIInv, KeepsKeyOverlapped, OnlyCall
<1> QED
  BY <1>same, <1>over, <1>AppShape, <1>Accounts, <1>InStep, <1>Chain, <1>KeyAtHand, <1>Alone,
     <1>KeyLeaves, <1>Jar, <1>SessionShown, <1>KeepsKey, <1>Overlapped
  DEF AppIInv

\* An answer's cookies reach the jar: a session of the account to show, or none.
LEMMA AppliesKeeps ==
  ASSUME AppIInv, NEW c \in Caller,
         Applies(c), UNCHANGED <<appScene, appVars, apiVars>>
  PROVE  AppIInv'
<1>inv. AppShape /\ Accounts /\ InStep /\ Chain /\ KeyAtHand
  BY DEF AppIInv
<1>last. Numbers
  BY <1>inv, NumbersOK
<1>alone. ~Overlaps => Alone /\ KeyLeaves /\ Jar /\ SessionShown /\ KeepsKey
  BY DEF AppIInv
<1>same. /\ appScene' = appScene /\ phase' = phase /\ signInAt' = signInAt /\ signOutAt' = signOutAt
         /\ keyRegistration' = keyRegistration
         /\ registration' = registration /\ keychain' = keychain /\ begun' = begun
         /\ presses' = presses /\ started' = started
         /\ accounts' = accounts /\ expired' = expired /\ attempts' = attempts
         /\ verified' = verified /\ keyOwner' = keyOwner
         /\ keysOut' = keysOut /\ keysRevoked' = keysRevoked /\ leftAccount' = leftAccount
         /\ givenUp' = givenUp
  BY DEF apiVars, appVars
<1>s1. /\ OnlyCall(c) /\ DOMAIN calls'[c] = CallFields
       /\ calls[c].at = "answered" /\ calls'[c].at = "received" /\ calls'[c].jar = calls[c].jar
       /\ calls'[c].key = calls[c].key /\ calls'[c].account = calls[c].account
       /\ calls'[c].session = calls[c].session /\ calls'[c].login = calls[c].login
       /\ calls'[c].says = calls[c].says
       /\ cookies'.session =
            IF calls[c].session = Nothing THEN cookies.session ELSE calls[c].session
       /\ cookies'.login = IF calls[c].login = Nothing THEN cookies.login ELSE calls[c].login
  BY <1>inv, AppliesCall
<1>over. (Overlaps' <=> Overlaps) /\ (Cuts' <=> Cuts)
  BY DEF Overlaps, Cuts
<1>AppShape. AppShape'
  BY <1>inv, <1>same, <1>s1, <1>over DEF AppShape, CallOK, CallFields, Issued, Asked, OnlyCall
<1>Accounts. Accounts'
  BY <1>inv, <1>same, <1>s1, CallersDiffer, <1>over DEF Accounts, OnlyCall
<1>InStep. InStep'
  BY <1>inv, <1>same, <1>s1, CallersDiffer, <1>over DEF InStep, Told, OnlyCall
<1>Chain. Chain'
  BY <1>inv, <1>same, <1>s1, CallersDiffer, <1>over DEF Chain, OnlyCall
<1>KeyAtHand. KeyAtHand'
  BY <1>inv, <1>same, <1>s1, CallersDiffer, <1>over DEF KeyAtHand, Overlaps, OnlyCall
<1>reg. Registered' => Registered
  BY <1>inv, <1>last, <1>same, <1>s1, CallersDiffer DEF Registered, Told, OnlyCall, Numbers
<1>has. \A a : (Has(a) => Has(a)') /\ (Ended(a) => Ended(a)')
  BY <1>inv, <1>same, <1>s1 DEF Has, Ended
<1>Alone. ~Overlaps => Alone'
  BY <1>alone, <1>inv, <1>same, <1>s1, CallersDiffer, <1>over DEF Alone, OnlyCall
<1>KeyLeaves. ~Overlaps => KeyLeaves'
  BY <1>alone, <1>inv, <1>same, <1>s1, CallersDiffer, <1>over
  DEF KeyLeaves, NoKeyOut, Told, OnlyCall
<1>Jar. ~Overlaps => Jar'
  <2> SUFFICES ASSUME ~Overlaps PROVE Jar'
    OBVIOUS
  <2>1. CASE cookies'.session = cookies.session
    BY <2>1, <1>alone, <1>inv, <1>same, <1>s1, CallersDiffer DEF Jar, AccountOf, Told, OnlyCall
  <2>2. CASE c = SignOutCall
    BY <2>2, <1>alone, <1>inv, <1>same, <1>s1, CallersDiffer
    DEF Jar, AccountOf, Told, OnlyCall, InStep, Alone
  <2>3. CASE c = SignInCall \/ \E i \in StartCall : c = SessionCall(i)
    BY <2>3, <1>alone, <1>inv, <1>same, <1>s1, CallersDiffer
    DEF Jar, AccountOf, Told, OnlyCall, InStep, Alone
  <2>4. CASE \E n \in StartCall : c = KeyCall(n)
    BY <2>4, <2>1, <1>inv, <1>s1 DEF InStep
  <2> QED
    BY <2>2, <2>3, <2>4, CallerCases
<1>SessionShown. ~Overlaps => SessionShown'
  <2> SUFFICES ASSUME ~Overlaps PROVE SessionShown'
    OBVIOUS
  <2>1. CASE cookies'.session = cookies.session /\ \A i \in StartCall : c # SessionCall(i)
    BY <2>1, <1>alone, <1>inv, <1>same, <1>s1, CallersDiffer
    DEF SessionShown, AccountOf, SignedIn, Cuts, OnlyCall
  <2>2. CASE c = SignOutCall
    BY <2>2, <1>alone, <1>inv, <1>same, <1>s1, CallersDiffer
    DEF SessionShown, Jar, AccountOf, SignedIn, Cuts, Told, OnlyCall, InStep, Alone
  <2>3. CASE c = SignInCall
    <3>1. \A i \in StartCall : calls'[SessionCall(i)].at = "none"
      BY <2>3, <1>alone, <1>inv, <1>s1, CallersDiffer DEF OnlyCall, InStep, Alone
    <3>2. CASE signInAt.step = "begins"
      BY <3>1, <3>2, <2>3, <1>alone, <1>inv, <1>same, <1>s1
      DEF SessionShown, Jar, AccountOf, SignedIn, Cuts
    <3>3. CASE signInAt.step = "finishes"
      BY <3>1, <2>3, <1>alone, <1>inv, <1>same, <1>s1
      DEF SessionShown, Jar, AccountOf, SignedIn, Cuts, InStep
    <3> QED
      BY <2>3, <3>2, <3>3, <1>inv, <1>s1 DEF InStep
  <2>4. CASE \E i \in StartCall : c = SessionCall(i)
    <3>1. PICK i \in StartCall : c = SessionCall(i)
      BY <2>4
    <3>2. \A j \in StartCall : j # i => calls'[SessionCall(j)].at = "none"
      BY <3>1, <1>alone, <1>inv, <1>s1, CallersDiffer DEF OnlyCall, Alone
    <3>3. phase.is = "starting" /\ AccountOf(cookies'.session) = calls'[SessionCall(i)].says.account
      BY <3>1, <1>alone, <1>s1 DEF Alone, SessionShown
    <3> QED
      BY <3>1, <3>2, <3>3, <1>s1, <1>same DEF SessionShown, AccountOf
  <2>5. CASE \E n \in StartCall : c = KeyCall(n)
    BY <2>5, <2>1, <1>inv, <1>s1, CallersDiffer DEF InStep
  <2> QED
    BY <2>2, <2>3, <2>4, <2>5, CallerCases
<1>KeepsKey. ~Overlaps => KeepsKey'
  <2> SUFFICES ASSUME ~Overlaps PROVE KeepsKey'
    OBVIOUS
  <2>1. CASE cookies'.session = cookies.session
    BY <2>1, <1>alone, <1>inv, <1>same, <1>s1, <1>over, <1>reg, <1>has, CallersDiffer
    DEF KeepsKey, Left, SignedIn, AccountOf, OnlyCall
  <2>2. CASE c = SignOutCall
    <3>1. AccountOf(cookies.session)' = Nothing
      BY <2>2, <1>alone, <1>s1, <1>same DEF Jar, AccountOf, Told
    <3>2. phase.is = "ready" => phase.account # Nothing
      BY <1>inv, AppModelAssumption DEF Chain, AppShape, AppAccount
    <3>3. signInAt.step = "idle" /\ presses.signIn \in Nat
      BY <2>2, <1>alone, <1>inv, <1>s1 DEF Alone, InStep, AppShape
    <3> QED
      BY <3>1, <3>2, <1>alone, <1>same, <1>over, <1>reg, <1>has DEF KeepsKey, Left, SignedIn
  <2>3. CASE c = SignInCall
    <3>1. CASE signInAt.step = "begins"
      BY <3>1, <2>1, <2>3, <1>alone, <1>s1 DEF Jar
    <3>2. CASE signInAt.step = "finishes"
      BY <3>2, <2>1, <2>3, <1>alone, <1>inv, <1>same, <1>s1, <1>over, <1>reg, <1>has
      DEF InStep, KeepsKey, Left, SignedIn
    <3> QED
      BY <2>3, <3>1, <3>2, <1>inv, <1>s1 DEF InStep
  <2>4. CASE \E i \in StartCall : c = SessionCall(i)
    BY <2>4, <1>alone, <1>inv, <1>same, <1>s1 DEF KeepsKey, Alone
  <2>5. CASE \E n \in StartCall : c = KeyCall(n)
    BY <2>5, <2>1, <1>inv, <1>s1 DEF InStep
  <2> QED
    BY <2>2, <2>3, <2>4, <2>5, CallerCases
<1>Overlapped. Overlaps /\ appScene \cap {"noSignal", "cutShort"} = {} => KeepsKeyOverlapped'
  BY <1>inv, <1>same, <1>s1, <1>over, <1>reg, <1>has DEF AppIInv, KeepsKeyOverlapped, OnlyCall
<1> QED
  BY <1>same, <1>over, <1>AppShape, <1>Accounts, <1>InStep, <1>Chain, <1>KeyAtHand, <1>Alone,
     <1>KeyLeaves, <1>Jar, <1>SessionShown, <1>KeepsKey, <1>Overlapped
  DEF AppIInv

\* A start() that a person asks for shows no account and leaves the key.
LEMMA PressStartKeeps ==
  ASSUME AppIInv,
         PressStart, UNCHANGED <<appScene, cookies, apiVars>>
  PROVE  AppIInv'
<1>inv. AppShape /\ Accounts /\ InStep /\ Chain /\ KeyAtHand
  BY DEF AppIInv
<1>last. Numbers
  BY <1>inv, NumbersOK
<1>alone. ~Overlaps => Alone /\ KeyLeaves /\ Jar /\ SessionShown /\ KeepsKey
  BY DEF AppIInv
<1>same. /\ appScene' = appScene /\ signInAt' = signInAt /\ signOutAt' = signOutAt
         /\ keyRegistration' = keyRegistration /\ registration' = registration
         /\ cookies' = cookies /\ keychain' = keychain /\ presses' = presses /\ started' = started
         /\ accounts' = accounts
         /\ expired' = expired /\ attempts' = attempts /\ verified' = verified
         /\ keyOwner' = keyOwner /\ keysOut' = keysOut
         /\ keysRevoked' = keysRevoked /\ givenUp' = givenUp
  BY DEF PressStart, apiVars, appVars
<1>s1. /\ phase.is \in {"signedOut", "failed"} /\ (SomethingRuns => Overlaps)
       /\ begun' = begun + 1 /\ begun' \in StartCall /\ phase' = Screen("starting")
       /\ phase'.is = "starting" /\ phase'.account = Nothing /\ phase'.guest = FALSE
  BY DEF PressStart, Starts, MayPress, Overlaps, Screen
<1>s2. /\ OnlyCall(SessionCall(begun')) /\ SessionCall(begun') \in Caller
       /\ DOMAIN calls'[SessionCall(begun')] = CallFields
       /\ calls'[SessionCall(begun')].at = "made" /\ calls'[SessionCall(begun')].jar.session = 0
       /\ calls'[SessionCall(begun')].key = Nothing
       /\ calls'[SessionCall(begun')].account = Nothing
       /\ calls'[SessionCall(begun')].session = Nothing
       /\ calls'[SessionCall(begun')].login = Nothing
  BY <1>inv, CallersDiffer
  DEF PressStart, Starts, AppShape, OnlyCall, Request, NoCall, NoCookies, CallFields
<1>rest. /\ \A j \in StartCall : j # begun' => calls'[SessionCall(j)] = calls[SessionCall(j)]
         /\ \A j \in StartCall : calls'[KeyCall(j)] = calls[KeyCall(j)]
         /\ calls'[SignInCall] = calls[SignInCall]
         /\ calls'[SignOutCall] = calls[SignOutCall]
  BY <1>s1, <1>s2, CallersDiffer DEF OnlyCall
<1>over. (Overlaps' <=> Overlaps) /\ (Cuts' <=> Cuts)
  BY DEF Overlaps, Cuts
<1>AppShape. AppShape'
  BY <1>inv, <1>same, <1>s1, <1>s2, <1>rest
  DEF AppShape, CallOK, CallFields, Issued, Asked, OnlyCall
<1>Accounts. Accounts'
  BY <1>inv, <1>same, <1>s1, <1>s2, <1>rest DEF Accounts
<1>InStep. InStep'
  BY <1>inv, <1>last, <1>same, <1>s1, <1>s2, <1>rest DEF InStep, Told, Numbers
<1>Chain. Chain'
  BY <1>inv, <1>same, <1>s1, <1>s2, <1>rest DEF Chain
<1>KeyAtHand. KeyAtHand'
  BY <1>inv, <1>same, <1>s1, <1>s2, <1>rest DEF KeyAtHand, Overlaps
<1>reg. Registered' => Registered
  BY <1>inv, <1>last, <1>same, <1>s1, <1>s2, <1>rest DEF Registered, Told, Numbers
<1>has. \A a : (Has(a) => Has(a)') /\ (Ended(a) => Ended(a)')
  BY <1>inv, <1>same, <1>s1, <1>s2 DEF Has, Ended
<1>Alone. ~Overlaps => Alone'
  BY <1>alone, <1>inv, <1>same, <1>s1, <1>s2, <1>rest DEF Alone, SomethingRuns
<1>KeyLeaves. ~Overlaps => KeyLeaves'
  BY <1>alone, <1>inv, <1>same, <1>s1, <1>s2, <1>rest DEF KeyLeaves, NoKeyOut, Told
<1>Jar. ~Overlaps => Jar'
  BY <1>alone, <1>inv, <1>same, <1>s1, <1>s2, <1>rest DEF Jar, AccountOf, Told
<1>SessionShown. ~Overlaps => SessionShown'
  BY <1>alone, <1>inv, <1>same, <1>s1, <1>s2, <1>rest DEF SessionShown, AccountOf, SignedIn, Cuts
<1>KeepsKey. ~Overlaps => KeepsKey'
  BY <1>alone, <1>inv, <1>same, <1>s1, <1>s2, <1>rest, <1>reg, <1>has
  DEF KeepsKey, Left, SignedIn, AccountOf
<1>Overlapped. Overlaps /\ appScene \cap {"noSignal", "cutShort"} = {} => KeepsKeyOverlapped'
  BY <1>inv, <1>same, <1>s1, <1>s2, <1>rest, <1>reg, <1>has DEF AppIInv, KeepsKeyOverlapped
<1> QED
  BY <1>same, <1>over, <1>AppShape, <1>Accounts, <1>InStep, <1>Chain, <1>KeyAtHand, <1>Alone,
     <1>KeyLeaves, <1>Jar, <1>SessionShown, <1>KeepsKey, <1>Overlapped
  DEF AppIInv

\* The account that shows is the jar's session's, and its registration is the next
\* one of the chain.
LEMMA SessionAnsweredKeeps ==
  ASSUME AppIInv, NEW i \in StartCall,
         SessionAnswered(i), UNCHANGED <<appScene, cookies, apiVars>>
  PROVE  AppIInv'
<1>inv. AppShape /\ Accounts /\ InStep /\ Chain /\ KeyAtHand
  BY DEF AppIInv
<1>last. Numbers
  BY <1>inv, NumbersOK
<1>alone. ~Overlaps => Alone /\ KeyLeaves /\ Jar /\ SessionShown /\ KeepsKey
  BY DEF AppIInv
<1>same. /\ appScene' = appScene /\ signOutAt' = signOutAt /\ cookies' = cookies
         /\ keychain' = keychain /\ begun' = begun
         /\ presses' = presses /\ started' = started /\ accounts' = accounts /\ expired' = expired
         /\ attempts' = attempts
         /\ verified' = verified /\ keyOwner' = keyOwner /\ keysOut' = keysOut
         /\ keysRevoked' = keysRevoked /\ leftAccount' = leftAccount
         /\ givenUp' = givenUp
  BY DEF SessionAnswered, StartEnds, apiVars, appVars
<1>s1. /\ calls[SessionCall(i)].at = "received"
       /\ keyRegistration' = keyRegistration + 1 /\ keyRegistration' \in StartCall
       /\ phase'.is = "ready" /\ phase'.account = calls[SessionCall(i)].says.account
       /\ signInAt' = IF signInAt.start = i THEN NoSignIn ELSE signInAt
       /\ DOMAIN NoSignIn = {"step", "attempt", "start"} /\ NoSignIn.step = "idle"
       /\ NoSignIn.start = 0
  BY DEF SessionAnswered, StartEnds, Receives, Ready, NoSignIn
<1>s2. /\ DOMAIN registration' = StartCall
       /\ \A n \in StartCall : n # keyRegistration' => registration'[n] = registration[n]
       /\ DOMAIN registration'[keyRegistration'] = {"step", "account", "tries", "took"}
       /\ registration'[keyRegistration'].step = "waits"
       /\ registration'[keyRegistration'].took = FALSE
       /\ registration'[keyRegistration'].account = calls[SessionCall(i)].says.account
  BY <1>inv DEF SessionAnswered, AppShape, NoRegistration
<1>s3. /\ OnlyCall(SessionCall(i)) /\ SessionCall(i) \in Caller
       /\ DOMAIN calls'[SessionCall(i)] = CallFields
       /\ calls'[SessionCall(i)].at = "none" /\ calls'[SessionCall(i)].jar.session = 0
       /\ calls'[SessionCall(i)].key = Nothing
       /\ calls'[SessionCall(i)].session = Nothing /\ calls'[SessionCall(i)].login = Nothing
  BY <1>inv, CallersDiffer
  DEF SessionAnswered, StartEnds, AppShape, OnlyCall, Request, NoCall, NoCookies, CallFields
<1>rest. /\ \A j \in StartCall : j # i => calls'[SessionCall(j)] = calls[SessionCall(j)]
         /\ \A j \in StartCall : calls'[KeyCall(j)] = calls[KeyCall(j)]
         /\ calls'[SignInCall] = calls[SignInCall]
         /\ calls'[SignOutCall] = calls[SignOutCall]
  BY <1>s1, <1>s2, <1>s3, CallersDiffer DEF OnlyCall
<1>over. (Overlaps' <=> Overlaps) /\ (Cuts' <=> Cuts)
  BY DEF Overlaps, Cuts
<1>AppShape. AppShape'
  <2>1. \A d \in Caller : CallOK(calls[d])'
    BY <1>inv, <1>s3, <1>same DEF AppShape, CallOK, OnlyCall, CallFields, Issued
  <2>2. \A n \in StartCall :
         /\ DOMAIN registration'[n] = {"step", "account", "tries", "took"}
         /\ registration'[n].step \in {"none", "waits", "sends", "done"}
         /\ registration'[n].took \in BOOLEAN
    BY <1>inv, <1>s2 DEF AppShape
  <2>3. calls[SessionCall(i)].says.account \in AppAccount
    BY <1>inv, <1>s1 DEF InStep, Told
  <2> QED
    BY <2>1, <2>2, <2>3, <1>inv, <1>same, <1>s1, <1>s2, <1>s3 DEF AppShape, OnlyCall, Issued
<1>Accounts. Accounts'
  BY <1>inv, <1>same, <1>s1, <1>s2, <1>s3, <1>rest DEF Accounts
<1>InStep. InStep'
  BY <1>inv, <1>same, <1>s1, <1>s2, <1>s3, <1>rest, AppModelAssumption DEF InStep, Told
<1>Chain. Chain'
  <2>1. /\ registration'[keyRegistration'].step = "waits"
        /\ calls[KeyCall(keyRegistration')].at = "none"
        /\ \A n \in StartCall : calls'[KeyCall(n)] = calls[KeyCall(n)]
    BY <1>inv, <1>s1, <1>s2, <1>last, <1>rest DEF Chain, AppShape, Numbers
  <2>2. calls[SessionCall(i)].says.account \in AppAccount
    BY <1>inv, <1>s1 DEF InStep, Told
  <2> QED
    BY <2>1, <2>2, <1>inv, <1>s1, <1>s2, <1>last, AppModelAssumption DEF Chain, Numbers
<1>KeyAtHand. KeyAtHand'
  <2>1. \A n \in StartCall : calls'[KeyCall(n)] = calls[KeyCall(n)]
    BY <1>rest
  <2> QED
    BY <2>1, <1>inv, <1>same, <1>s1, <1>s2, <1>over DEF KeyAtHand
<1>reg. ~Registered'
  <2>1. calls[KeyCall(keyRegistration')].at = "none" /\ calls'[KeyCall(keyRegistration')] =
          calls[KeyCall(keyRegistration')]
    BY <1>inv, <1>s1, <1>last, <1>rest DEF Chain, AppShape, Numbers
  <2> QED
    BY <2>1, <1>s2 DEF Registered, Told
<1>has. \A a : (Has(a) => Has(a)') /\ (Ended(a) => Ended(a)')
  BY <1>inv, <1>same, <1>s1, <1>s2, <1>s3 DEF Has, Ended
<1>Alone. ~Overlaps => Alone'
  BY <1>alone, <1>inv, <1>same, <1>s1, <1>s2, <1>s3, <1>rest DEF Alone
<1>KeyLeaves. ~Overlaps => KeyLeaves'
  BY <1>alone, <1>inv, <1>same, <1>s1, <1>s2, <1>s3, <1>rest DEF KeyLeaves, NoKeyOut, Told, Alone
<1>Jar. ~Overlaps => Jar'
  BY <1>alone, <1>inv, <1>same, <1>s1, <1>s2, <1>s3, <1>rest DEF Jar, AccountOf, Told
<1>SessionShown. ~Overlaps => SessionShown'
  BY <1>alone, <1>inv, <1>same, <1>s1, <1>s2, <1>s3, <1>rest
  DEF SessionShown, AccountOf, SignedIn, Cuts
<1>KeepsKey. ~Overlaps => KeepsKey'
  BY <1>alone, <1>inv, <1>same, <1>s1, <1>s2, <1>s3, <1>rest, <1>reg, <1>has
  DEF KeepsKey, Left, SignedIn, AccountOf
<1>Overlapped. Overlaps /\ appScene \cap {"noSignal", "cutShort"} = {} => KeepsKeyOverlapped'
  BY <1>inv, <1>same, <1>s1, <1>s2, <1>s3, <1>rest, <1>reg, <1>has DEF AppIInv, KeepsKeyOverlapped
<1> QED
  BY <1>same, <1>over, <1>AppShape, <1>Accounts, <1>InStep, <1>Chain, <1>KeyAtHand, <1>Alone,
     <1>KeyLeaves, <1>Jar, <1>SessionShown, <1>KeepsKey, <1>Overlapped
  DEF AppIInv

\* A start() that fails shows no account.
LEMMA SessionFailsKeeps ==
  ASSUME AppIInv, NEW i \in StartCall,
         SessionFails(i), UNCHANGED <<appScene, cookies, apiVars>>
  PROVE  AppIInv'
<1>inv. AppShape /\ Accounts /\ InStep /\ Chain /\ KeyAtHand
  BY DEF AppIInv
<1>last. Numbers
  BY <1>inv, NumbersOK
<1>alone. ~Overlaps => Alone /\ KeyLeaves /\ Jar /\ SessionShown /\ KeepsKey
  BY DEF AppIInv
<1>same. /\ appScene' = appScene /\ signOutAt' = signOutAt /\ keyRegistration' = keyRegistration
         /\ registration' = registration /\ cookies' = cookies
         /\ keychain' = keychain /\ begun' = begun /\ presses' = presses /\ started' = started
         /\ accounts' = accounts
         /\ expired' = expired /\ attempts' = attempts /\ verified' = verified
         /\ keyOwner' = keyOwner /\ keysOut' = keysOut
         /\ keysRevoked' = keysRevoked /\ leftAccount' = leftAccount /\ givenUp' = givenUp
  BY DEF SessionFails, StartEnds, apiVars, appVars
<1>s1. /\ calls[SessionCall(i)].at # "none"
       /\ phase'.is = "failed" /\ phase'.account = Nothing /\ phase'.guest = FALSE
       /\ signInAt' = IF signInAt.start = i THEN NoSignIn ELSE signInAt
       /\ DOMAIN NoSignIn = {"step", "attempt", "start"} /\ NoSignIn.step = "idle"
       /\ NoSignIn.start = 0
  BY DEF SessionFails, StartEnds, Fails, Screen, NoSignIn
<1>s2. /\ OnlyCall(SessionCall(i)) /\ SessionCall(i) \in Caller
       /\ DOMAIN calls'[SessionCall(i)] = CallFields
       /\ calls'[SessionCall(i)].at = "none" /\ calls'[SessionCall(i)].jar.session = 0
       /\ calls'[SessionCall(i)].key = Nothing
       /\ calls'[SessionCall(i)].session = Nothing /\ calls'[SessionCall(i)].login = Nothing
  BY <1>inv, CallersDiffer
  DEF SessionFails, StartEnds, AppShape, OnlyCall, Request, NoCall, NoCookies, CallFields
<1>rest. /\ \A j \in StartCall : j # i => calls'[SessionCall(j)] = calls[SessionCall(j)]
         /\ \A j \in StartCall : calls'[KeyCall(j)] = calls[KeyCall(j)]
         /\ calls'[SignInCall] = calls[SignInCall]
         /\ calls'[SignOutCall] = calls[SignOutCall]
  BY <1>s1, <1>s2, CallersDiffer DEF OnlyCall
<1>over. (Overlaps' <=> Overlaps) /\ (Cuts' <=> Cuts)
  BY DEF Overlaps, Cuts
<1>AppShape. AppShape'
  BY <1>inv, <1>same, <1>s1, <1>s2, <1>rest
  DEF AppShape, CallOK, CallFields, Issued, Asked, OnlyCall
<1>Accounts. Accounts'
  BY <1>inv, <1>same, <1>s1, <1>s2, <1>rest DEF Accounts
<1>InStep. InStep'
  BY <1>inv, <1>same, <1>s1, <1>s2, <1>rest, AppModelAssumption DEF InStep, Told
<1>Chain. Chain'
  BY <1>inv, <1>same, <1>s1, <1>s2, <1>rest DEF Chain
<1>KeyAtHand. KeyAtHand'
  BY <1>inv, <1>same, <1>s1, <1>s2, <1>rest DEF KeyAtHand, Overlaps
<1>reg. Registered' => Registered
  BY <1>inv, <1>last, <1>same, <1>s1, <1>s2, <1>rest DEF Registered, Told, Numbers
<1>has. \A a : (Has(a) => Has(a)') /\ (Ended(a) => Ended(a)')
  BY <1>inv, <1>same, <1>s1, <1>s2 DEF Has, Ended
<1>Alone. ~Overlaps => Alone'
  BY <1>alone, <1>inv, <1>same, <1>s1, <1>s2, <1>rest DEF Alone
<1>KeyLeaves. ~Overlaps => KeyLeaves'
  BY <1>alone, <1>inv, <1>same, <1>s1, <1>s2, <1>rest DEF KeyLeaves, NoKeyOut, Told
<1>Jar. ~Overlaps => Jar'
  BY <1>alone, <1>inv, <1>same, <1>s1, <1>s2, <1>rest DEF Jar, AccountOf, Told
<1>SessionShown. ~Overlaps => SessionShown'
  BY <1>alone, <1>inv, <1>same, <1>s1, <1>s2, <1>rest DEF SessionShown, AccountOf, SignedIn, Cuts
<1>KeepsKey. ~Overlaps => KeepsKey'
  BY <1>alone, <1>inv, <1>same, <1>s1, <1>s2, <1>rest, <1>reg, <1>has
  DEF KeepsKey, Left, SignedIn, AccountOf
<1>Overlapped. Overlaps /\ appScene \cap {"noSignal", "cutShort"} = {} => KeepsKeyOverlapped'
  BY <1>inv, <1>same, <1>s1, <1>s2, <1>rest, <1>reg, <1>has DEF AppIInv, KeepsKeyOverlapped
<1> QED
  BY <1>same, <1>over, <1>AppShape, <1>Accounts, <1>InStep, <1>Chain, <1>KeyAtHand, <1>Alone,
     <1>KeyLeaves, <1>Jar, <1>SessionShown, <1>KeepsKey, <1>Overlapped
  DEF AppIInv

\* A registration's first try takes the Keychain's key, and it is the only one that
\* tries.
LEMMA registerKeyKeeps ==
  ASSUME AppIInv, NEW n \in StartCall,
         registerKey(n), UNCHANGED <<appScene, cookies, apiVars>>
  PROVE  AppIInv'
<1>inv. AppShape /\ Accounts /\ InStep /\ Chain /\ KeyAtHand
  BY DEF AppIInv
<1>last. Numbers
  BY <1>inv, NumbersOK
<1>alone. ~Overlaps => Alone /\ KeyLeaves /\ Jar /\ SessionShown /\ KeepsKey
  BY DEF AppIInv
<1>same. /\ appScene' = appScene /\ phase' = phase /\ signInAt' = signInAt /\ signOutAt' = signOutAt
         /\ keyRegistration' = keyRegistration
         /\ cookies' = cookies /\ begun' = begun /\ presses' = presses /\ started' = started
         /\ accounts' = accounts
         /\ expired' = expired /\ attempts' = attempts /\ verified' = verified
         /\ keyOwner' = keyOwner /\ keysOut' = keysOut
         /\ keysRevoked' = keysRevoked /\ leftAccount' = leftAccount /\ givenUp' = givenUp
  BY DEF registerKey, apiVars
<1>s1. /\ registration[n].step = "waits" /\ (n # 1 => registration[n - 1].step = "done")
       /\ keychain' \in PhoneKey /\ (keychain # Nothing => keychain' = keychain)
  BY <1>inv DEF registerKey, Tries, NewKeys, AppShape
<1>s2. /\ DOMAIN registration' = StartCall
       /\ \A m \in StartCall : m # n => registration'[m] = registration[m]
       /\ DOMAIN registration'[n] = {"step", "account", "tries", "took"}
       /\ registration'[n].step = "sends" /\ registration'[n].took = registration[n].took
       /\ registration'[n].account = registration[n].account
  BY <1>inv DEF registerKey, Tries, AppShape
<1>s3. /\ OnlyCall(KeyCall(n)) /\ KeyCall(n) \in Caller /\ DOMAIN calls'[KeyCall(n)] = CallFields
       /\ calls'[KeyCall(n)].at = "made" /\ calls'[KeyCall(n)].jar.session = 0
       /\ calls'[KeyCall(n)].key = keychain'
       /\ calls'[KeyCall(n)].account = registration[n].account
       /\ calls'[KeyCall(n)].session = Nothing /\ calls'[KeyCall(n)].login = Nothing
  BY <1>inv, CallersDiffer
  DEF registerKey, Tries, AppShape, OnlyCall, Request, NoCall, NoCookies, CallFields
<1>rest. /\ \A j \in StartCall : calls'[SessionCall(j)] = calls[SessionCall(j)]
         /\ \A j \in StartCall : j # n => calls'[KeyCall(j)] = calls[KeyCall(j)]
         /\ calls'[SignInCall] = calls[SignInCall]
         /\ calls'[SignOutCall] = calls[SignOutCall]
  BY <1>s1, <1>s2, <1>s3, CallersDiffer DEF OnlyCall
<1>over. (Overlaps' <=> Overlaps) /\ (Cuts' <=> Cuts)
  BY DEF Overlaps, Cuts
<1>AppShape. AppShape'
  BY <1>inv, <1>same, <1>s1, <1>s2, <1>s3, <1>rest
  DEF AppShape, CallOK, CallFields, Issued, Asked, OnlyCall
<1>Accounts. Accounts'
  BY <1>inv, <1>same, <1>s1, <1>s2, <1>s3, <1>rest DEF Accounts
<1>InStep. InStep'
  BY <1>inv, <1>same, <1>s1, <1>s2, <1>s3, <1>rest DEF InStep, Told
<1>Chain. Chain'
  BY <1>inv, <1>last, <1>same, <1>s1, <1>s2, <1>s3, <1>rest, AppModelAssumption DEF Chain, Numbers
<1>KeyAtHand. KeyAtHand'
  <2>one. \A m \in StartCall : m # n => registration[m].step # "sends"
    <3> SUFFICES ASSUME NEW m \in StartCall, m # n, registration[m].step = "sends" PROVE FALSE
      OBVIOUS
    <3>1. CASE m > n
      BY <3>1, <1>inv, <1>s1 DEF Chain
    <3>2. CASE m < n
      BY <1>inv, <1>s1, AppModelAssumption DEF Chain
    <3> QED
      BY <3>1, <3>2, AppModelAssumption
  <2> QED
    BY <2>one, <1>inv, <1>same, <1>s1, <1>s2, <1>s3, <1>rest DEF KeyAtHand
<1>reg. Registered' => Registered
  BY <1>inv, <1>last, <1>same, <1>s1, <1>s2, <1>s3, <1>rest DEF Registered, Told, Numbers
<1>has. \A a : (Has(a) => Has(a)') /\ (Ended(a) => Ended(a)')
  BY <1>inv, <1>same, <1>s1, <1>s2, <1>s3, AppModelAssumption DEF Has, Ended
<1>Alone. ~Overlaps => Alone'
  BY <1>alone, <1>inv, <1>same, <1>s1, <1>s2, <1>s3, <1>rest DEF Alone
<1>KeyLeaves. ~Overlaps => KeyLeaves'
  <2>1. ~Overlaps => ~NoKeyOut
    BY <1>s1 DEF NoKeyOut
  <2> QED
    BY <2>1, <1>alone, <1>inv, <1>same, <1>s1, <1>s3, <1>rest, AppModelAssumption
    DEF KeyLeaves, InStep, Told
<1>Jar. ~Overlaps => Jar'
  BY <1>alone, <1>inv, <1>same, <1>s1, <1>s2, <1>s3, <1>rest DEF Jar, AccountOf, Told
<1>SessionShown. ~Overlaps => SessionShown'
  BY <1>alone, <1>inv, <1>same, <1>s1, <1>s2, <1>s3, <1>rest
  DEF SessionShown, AccountOf, SignedIn, Cuts
<1>KeepsKey. ~Overlaps => KeepsKey'
  BY <1>alone, <1>inv, <1>same, <1>s1, <1>s2, <1>s3, <1>rest, <1>over, <1>reg, <1>has
  DEF KeepsKey, Left, SignedIn, AccountOf
<1>Overlapped. Overlaps /\ appScene \cap {"noSignal", "cutShort"} = {} => KeepsKeyOverlapped'
  BY <1>inv, <1>same, <1>s1, <1>s2, <1>s3, <1>rest, <1>reg, <1>has DEF AppIInv, KeepsKeyOverlapped
<1> QED
  BY <1>same, <1>over, <1>AppShape, <1>Accounts, <1>InStep, <1>Chain, <1>KeyAtHand, <1>Alone,
     <1>KeyLeaves, <1>Jar, <1>SessionShown, <1>KeepsKey, <1>Overlapped
  DEF AppIInv

\* An answer ends the registration, or drops a key that the account can't use: the
\* history remembers it.
LEMMA KeyAnsweredKeeps ==
  ASSUME AppIInv, NEW n \in StartCall,
         KeyAnswered(n), UNCHANGED <<appScene, cookies, apiVars>>
  PROVE  AppIInv'
<1>inv. AppShape /\ Accounts /\ InStep /\ Chain /\ KeyAtHand
  BY DEF AppIInv
<1>last. Numbers
  BY <1>inv, NumbersOK
<1>alone. ~Overlaps => Alone /\ KeyLeaves /\ Jar /\ SessionShown /\ KeepsKey
  BY DEF AppIInv
<1>same. /\ appScene' = appScene /\ phase' = phase /\ signInAt' = signInAt /\ signOutAt' = signOutAt
         /\ keyRegistration' = keyRegistration
         /\ cookies' = cookies /\ begun' = begun /\ presses' = presses /\ started' = started
         /\ accounts' = accounts
         /\ expired' = expired /\ attempts' = attempts /\ verified' = verified
         /\ keyOwner' = keyOwner /\ keysOut' = keysOut
         /\ keysRevoked' = keysRevoked /\ leftAccount' = leftAccount
  BY DEF KeyAnswered, apiVars
<1>s1. /\ calls[KeyCall(n)].at = "received" /\ registration[n].step = "sends"
       /\ keychain' \in PhoneKey \cup {Nothing}
       /\ registration'[n].step = "sends"
            => keychain' # Nothing /\ calls[KeyCall(n)].says # "registered"
       /\ registration'[n].took => calls[KeyCall(n)].says = "registered"
       /\ calls[KeyCall(n)].says = "registered" => keychain' = keychain
       /\ (keychain' = keychain /\ givenUp' = givenUp)
            \/ givenUp' = givenUp \cup ({keychain} \ {Nothing})
  BY <1>inv DEF KeyAnswered, Tries, RegistrationEnds, NewKeys, Receives, AppShape, Chain
<1>s2. /\ DOMAIN registration' = StartCall
       /\ \A m \in StartCall : m # n => registration'[m] = registration[m]
       /\ DOMAIN registration'[n] = {"step", "account", "tries", "took"}
       /\ registration'[n].step \in {"sends", "done"} /\ registration'[n].took \in BOOLEAN
       /\ (registration'[n].took
            => registration'[n].step = "done") /\ registration'[n].account = registration[n].account
  BY <1>inv DEF KeyAnswered, Tries, RegistrationEnds, AppShape, Chain
<1>s3. /\ OnlyCall(KeyCall(n)) /\ KeyCall(n) \in Caller /\ DOMAIN calls'[KeyCall(n)] = CallFields
       /\ calls'[KeyCall(n)].jar.session = 0 /\ calls'[KeyCall(n)].session = Nothing
       /\ calls'[KeyCall(n)].login = Nothing
       /\ registration'[n].step = "sends"
            => calls'[KeyCall(n)].at = "made" /\ calls'[KeyCall(n)].key = keychain'
       /\ registration'[n].step = "sends" => calls'[KeyCall(n)].account = registration[n].account
       /\ registration'[n].step = "done"
            => calls'[KeyCall(n)].at = "none" /\ calls'[KeyCall(n)].key = Nothing
  BY <1>inv, CallersDiffer
  DEF KeyAnswered, Tries, RegistrationEnds, AppShape, OnlyCall, Request, NoCall, NoCookies,
      CallFields
<1>rest. /\ \A j \in StartCall : calls'[SessionCall(j)] = calls[SessionCall(j)]
         /\ \A j \in StartCall : j # n => calls'[KeyCall(j)] = calls[KeyCall(j)]
         /\ calls'[SignInCall] = calls[SignInCall]
         /\ calls'[SignOutCall] = calls[SignOutCall]
  BY <1>s1, <1>s2, <1>s3, CallersDiffer DEF OnlyCall
<1>over. (Overlaps' <=> Overlaps) /\ (Cuts' <=> Cuts)
  BY DEF Overlaps, Cuts
<1>AppShape. AppShape'
  BY <1>inv, <1>same, <1>s1, <1>s2, <1>s3, <1>rest
  DEF AppShape, CallOK, CallFields, Issued, Asked, OnlyCall
<1>Accounts. Accounts'
  BY <1>inv, <1>same, <1>s1, <1>s2, <1>s3, <1>rest DEF Accounts
<1>InStep. InStep'
  BY <1>inv, <1>same, <1>s1, <1>s2, <1>s3, <1>rest DEF InStep, Told
<1>Chain. Chain'
  BY <1>inv, <1>last, <1>same, <1>s1, <1>s2, <1>s3, <1>rest DEF Chain, Numbers
<1>KeyAtHand. KeyAtHand'
  <2>one. \A m \in StartCall : m # n => registration[m].step # "sends"
    <3> SUFFICES ASSUME NEW m \in StartCall, m # n, registration[m].step = "sends" PROVE FALSE
      OBVIOUS
    <3>1. CASE m > n
      BY <3>1, <1>inv, <1>s1 DEF Chain
    <3>2. CASE m < n
      BY <1>inv, <1>s1, AppModelAssumption DEF Chain
    <3> QED
      BY <3>1, <3>2, AppModelAssumption
  <2> QED
    BY <2>one, <1>inv, <1>same, <1>s1, <1>s2, <1>s3, <1>rest DEF KeyAtHand
<1>reg. Registered' => Registered
  BY <1>inv, <1>last, <1>same, <1>s1, <1>s2, <1>s3, <1>rest DEF Registered, Told, Numbers
<1>has. Registered' => \A a : (Has(a) => Has(a)') /\ (Ended(a) => Ended(a)')
  <2> SUFFICES ASSUME Registered' PROVE \A a : (Has(a) => Has(a)') /\ (Ended(a) => Ended(a)')
    OBVIOUS
  <2>1. n = keyRegistration
    <3>1. registration[keyRegistration].step \in {"sends", "done"}
      BY <1>reg, <1>inv, <1>last DEF Registered, Chain, Told, Numbers
    <3> QED
      BY <3>1, <1>reg, <1>inv, <1>last, <1>s1, AppModelAssumption DEF Registered, Chain, Numbers
  <2>2. keychain' = keychain
    BY <2>1, <1>s1, <1>s2, <1>s3, <1>same DEF Registered, Told
  <2> QED
    BY <2>2, <1>same DEF Has, Ended
<1>Alone. ~Overlaps => Alone'
  BY <1>alone, <1>inv, <1>same, <1>s1, <1>s2, <1>s3, <1>rest DEF Alone
<1>KeyLeaves. ~Overlaps => KeyLeaves'
  <2>1. ~Overlaps => ~NoKeyOut
    BY <1>s1 DEF NoKeyOut
  <2>2. \A k \in {keychain} \cup givenUp : k \in PhoneKey => k \in {keychain'} \cup givenUp'
    BY <1>s1, AppModelAssumption
  <2> QED
    BY <2>1, <2>2, <1>alone, <1>inv, <1>same, <1>s3, <1>rest DEF KeyLeaves, InStep, Told
<1>Jar. ~Overlaps => Jar'
  BY <1>alone, <1>inv, <1>same, <1>s1, <1>s2, <1>s3, <1>rest DEF Jar, AccountOf, Told
<1>SessionShown. ~Overlaps => SessionShown'
  BY <1>alone, <1>inv, <1>same, <1>s1, <1>s2, <1>s3, <1>rest
  DEF SessionShown, AccountOf, SignedIn, Cuts
<1>KeepsKey. ~Overlaps => KeepsKey'
  BY <1>alone, <1>inv, <1>same, <1>s1, <1>s2, <1>s3, <1>rest, <1>over, <1>reg, <1>has
  DEF KeepsKey, Left, SignedIn, AccountOf
<1>Overlapped. Overlaps /\ appScene \cap {"noSignal", "cutShort"} = {} => KeepsKeyOverlapped'
  BY <1>inv, <1>same, <1>s1, <1>s2, <1>s3, <1>rest, <1>reg, <1>has DEF AppIInv, KeepsKeyOverlapped
<1> QED
  BY <1>same, <1>over, <1>AppShape, <1>Accounts, <1>InStep, <1>Chain, <1>KeyAtHand, <1>Alone,
     <1>KeyLeaves, <1>Jar, <1>SessionShown, <1>KeepsKey, <1>Overlapped
  DEF AppIInv

\* A registration that fails didn't take, and keeps the key.
LEMMA KeyFailsKeeps ==
  ASSUME AppIInv, NEW n \in StartCall,
         KeyFails(n), UNCHANGED <<appScene, cookies, apiVars>>
  PROVE  AppIInv'
<1>inv. AppShape /\ Accounts /\ InStep /\ Chain /\ KeyAtHand
  BY DEF AppIInv
<1>last. Numbers
  BY <1>inv, NumbersOK
<1>alone. ~Overlaps => Alone /\ KeyLeaves /\ Jar /\ SessionShown /\ KeepsKey
  BY DEF AppIInv
<1>same. /\ appScene' = appScene /\ phase' = phase /\ signInAt' = signInAt /\ signOutAt' = signOutAt
         /\ keyRegistration' = keyRegistration
         /\ cookies' = cookies /\ keychain' = keychain /\ begun' = begun /\ presses' = presses
         /\ started' = started
         /\ accounts' = accounts /\ expired' = expired /\ attempts' = attempts
         /\ verified' = verified /\ keyOwner' = keyOwner
         /\ keysOut' = keysOut /\ keysRevoked' = keysRevoked /\ leftAccount' = leftAccount
         /\ givenUp' = givenUp
  BY DEF KeyFails, apiVars
<1>s1. /\ calls[KeyCall(n)].at # "none" /\ registration[n].step = "sends"
  BY <1>inv DEF KeyFails, Fails, Chain
<1>s2. /\ DOMAIN registration' = StartCall
       /\ \A m \in StartCall : m # n => registration'[m] = registration[m]
       /\ DOMAIN registration'[n] = {"step", "account", "tries", "took"}
       /\ registration'[n].step = "done" /\ registration'[n].took = FALSE
       /\ registration'[n].account = registration[n].account
  BY <1>inv DEF KeyFails, RegistrationEnds, AppShape
<1>s3. /\ OnlyCall(KeyCall(n)) /\ KeyCall(n) \in Caller /\ DOMAIN calls'[KeyCall(n)] = CallFields
       /\ calls'[KeyCall(n)].at = "none" /\ calls'[KeyCall(n)].jar.session = 0
       /\ calls'[KeyCall(n)].key = Nothing
       /\ calls'[KeyCall(n)].session = Nothing /\ calls'[KeyCall(n)].login = Nothing
  BY <1>inv, CallersDiffer
  DEF KeyFails, RegistrationEnds, AppShape, OnlyCall, Request, NoCall, NoCookies, CallFields
<1>rest. /\ \A j \in StartCall : calls'[SessionCall(j)] = calls[SessionCall(j)]
         /\ \A j \in StartCall : j # n => calls'[KeyCall(j)] = calls[KeyCall(j)]
         /\ calls'[SignInCall] = calls[SignInCall]
         /\ calls'[SignOutCall] = calls[SignOutCall]
  BY <1>s1, <1>s2, <1>s3, CallersDiffer DEF OnlyCall
<1>over. (Overlaps' <=> Overlaps) /\ (Cuts' <=> Cuts)
  BY DEF Overlaps, Cuts
<1>AppShape. AppShape'
  <2>1. \A d \in Caller : CallOK(calls[d])'
    BY <1>inv, <1>s3, <1>same DEF AppShape, CallOK, OnlyCall, CallFields, Issued, Asked
  <2>2. \A m \in StartCall :
         /\ DOMAIN registration'[m] = {"step", "account", "tries", "took"}
         /\ registration'[m].step \in {"none", "waits", "sends", "done"}
         /\ registration'[m].took \in BOOLEAN
    BY <1>inv, <1>s2 DEF AppShape
  <2> QED
    BY <2>1, <2>2, <1>inv, <1>same, <1>s1, <1>s2, <1>s3 DEF AppShape, OnlyCall, Issued
<1>Accounts. Accounts'
  BY <1>inv, <1>same, <1>s1, <1>s2, <1>s3, <1>rest DEF Accounts
<1>InStep. InStep'
  BY <1>inv, <1>same, <1>s1, <1>s2, <1>s3, <1>rest DEF InStep, Told
<1>Chain. Chain'
  BY <1>inv, <1>last, <1>same, <1>s1, <1>s2, <1>s3, <1>rest DEF Chain, Numbers
<1>KeyAtHand. KeyAtHand'
  BY <1>inv, <1>same, <1>s1, <1>s2, <1>s3, <1>rest DEF KeyAtHand, Overlaps
<1>reg. Registered' => Registered
  BY <1>inv, <1>last, <1>same, <1>s1, <1>s2, <1>s3, <1>rest DEF Registered, Told, Numbers
<1>has. \A a : (Has(a) => Has(a)') /\ (Ended(a) => Ended(a)')
  BY <1>inv, <1>same, <1>s1, <1>s2, <1>s3 DEF Has, Ended
<1>Alone. ~Overlaps => Alone'
  BY <1>alone, <1>inv, <1>same, <1>s1, <1>s2, <1>s3, <1>rest DEF Alone
<1>KeyLeaves. ~Overlaps => KeyLeaves'
  BY <1>alone, <1>inv, <1>same, <1>s1, <1>s2, <1>s3, <1>rest DEF KeyLeaves, NoKeyOut, Told
<1>Jar. ~Overlaps => Jar'
  BY <1>alone, <1>inv, <1>same, <1>s1, <1>s2, <1>s3, <1>rest DEF Jar, AccountOf, Told
<1>SessionShown. ~Overlaps => SessionShown'
  BY <1>alone, <1>inv, <1>same, <1>s1, <1>s2, <1>s3, <1>rest
  DEF SessionShown, AccountOf, SignedIn, Cuts
<1>KeepsKey. ~Overlaps => KeepsKey'
  BY <1>alone, <1>inv, <1>same, <1>s1, <1>s2, <1>s3, <1>rest, <1>over, <1>reg, <1>has
  DEF KeepsKey, Left, SignedIn, AccountOf
<1>Overlapped. Overlaps /\ appScene \cap {"noSignal", "cutShort"} = {} => KeepsKeyOverlapped'
  BY <1>inv, <1>same, <1>s1, <1>s2, <1>s3, <1>rest, <1>reg, <1>has DEF AppIInv, KeepsKeyOverlapped
<1> QED
  BY <1>same, <1>over, <1>AppShape, <1>Accounts, <1>InStep, <1>Chain, <1>KeyAtHand, <1>Alone,
     <1>KeyLeaves, <1>Jar, <1>SessionShown, <1>KeepsKey, <1>Overlapped
  DEF AppIInv

\* A sign-in begins while nothing else runs, or things overlap.
LEMMA PressSignInKeeps ==
  ASSUME AppIInv,
         PressSignIn, UNCHANGED <<appScene, cookies, apiVars>>
  PROVE  AppIInv'
<1>inv. AppShape /\ Accounts /\ InStep /\ Chain /\ KeyAtHand
  BY DEF AppIInv
<1>last. Numbers
  BY <1>inv, NumbersOK
<1>alone. ~Overlaps => Alone /\ KeyLeaves /\ Jar /\ SessionShown /\ KeepsKey
  BY DEF AppIInv
<1>same. /\ appScene' = appScene /\ phase' = phase /\ signOutAt' = signOutAt
         /\ keyRegistration' = keyRegistration /\ registration' = registration
         /\ cookies' = cookies /\ keychain' = keychain /\ begun' = begun /\ started' = started
         /\ accounts' = accounts
         /\ expired' = expired /\ attempts' = attempts /\ verified' = verified
         /\ keyOwner' = keyOwner /\ keysOut' = keysOut
         /\ keysRevoked' = keysRevoked /\ leftAccount' = leftAccount /\ givenUp' = givenUp
  BY DEF PressSignIn, apiVars
<1>s1. /\ phase.is = "signedOut" \/ phase.is = "ready"
       /\ (SomethingRuns => Overlaps) /\ signInAt.step = "idle"
       /\ DOMAIN signInAt' = {"step", "attempt", "start"} /\ signInAt'.step = "begins"
       /\ signInAt'.start = 0
       /\ DOMAIN presses' = DOMAIN presses /\ presses'.signIn = presses.signIn + 1
       /\ presses.signIn < SignInPresses
  BY <1>inv DEF PressSignIn, MayPress, Overlaps, AppShape, NoSignIn
<1>s2. /\ OnlyCall(SignInCall) /\ SignInCall \in Caller /\ DOMAIN calls'[SignInCall] = CallFields
       /\ calls'[SignInCall].at = "made" /\ calls'[SignInCall].jar.session = 0
       /\ calls'[SignInCall].key = Nothing
       /\ calls'[SignInCall].account = Nothing /\ calls'[SignInCall].session = Nothing
       /\ calls'[SignInCall].login = Nothing
  BY <1>inv, CallersDiffer
  DEF PressSignIn, AppShape, OnlyCall, Request, NoCall, NoCookies, CallFields
<1>rest. /\ \A j \in StartCall : calls'[SessionCall(j)] = calls[SessionCall(j)]
         /\ \A j \in StartCall : calls'[KeyCall(j)] = calls[KeyCall(j)]
         /\ calls'[SignOutCall] = calls[SignOutCall]
  BY <1>s1, <1>s2, CallersDiffer DEF OnlyCall
<1>over. (Overlaps' <=> Overlaps) /\ (Cuts' <=> Cuts)
  BY DEF Overlaps, Cuts
<1>AppShape. AppShape'
  BY <1>inv, <1>same, <1>s1, <1>s2, <1>rest, AppModelAssumption
  DEF AppShape, CallOK, CallFields, Issued, Asked, OnlyCall
<1>Accounts. Accounts'
  BY <1>inv, <1>last, <1>same, <1>s1, <1>s2, <1>rest DEF Accounts, Numbers
<1>InStep. InStep'
  BY <1>inv, <1>last, <1>same, <1>s1, <1>s2, <1>rest DEF InStep, Told, Numbers
<1>Chain. Chain'
  BY <1>inv, <1>same, <1>s1, <1>s2, <1>rest DEF Chain
<1>KeyAtHand. KeyAtHand'
  BY <1>inv, <1>same, <1>s1, <1>s2, <1>rest DEF KeyAtHand, Overlaps
<1>reg. Registered' => Registered
  BY <1>inv, <1>last, <1>same, <1>s1, <1>s2, <1>rest DEF Registered, Told, Numbers
<1>has. \A a : (Has(a) => Has(a)') /\ (Ended(a) => Ended(a)')
  BY <1>inv, <1>same, <1>s1, <1>s2 DEF Has, Ended
<1>Alone. ~Overlaps => Alone'
  BY <1>alone, <1>inv, <1>same, <1>s1, <1>s2, <1>rest DEF Alone, SomethingRuns
<1>KeyLeaves. ~Overlaps => KeyLeaves'
  BY <1>alone, <1>inv, <1>same, <1>s1, <1>s2, <1>rest DEF KeyLeaves, NoKeyOut, Told
<1>Jar. ~Overlaps => Jar'
  BY <1>alone, <1>inv, <1>same, <1>s1, <1>s2, <1>rest DEF Jar, AccountOf, Told
<1>SessionShown. ~Overlaps => SessionShown'
  BY <1>alone, <1>inv, <1>same, <1>s1, <1>s2, <1>rest DEF SessionShown, AccountOf, SignedIn, Cuts
<1>KeepsKey. ~Overlaps => KeepsKey'
  BY <1>alone, <1>inv, <1>last, <1>same, <1>s1, <1>s2, <1>rest, <1>over, <1>reg, <1>has
  DEF KeepsKey, Left, SignedIn, AccountOf, Numbers
<1>Overlapped. Overlaps /\ appScene \cap {"noSignal", "cutShort"} = {} => KeepsKeyOverlapped'
  BY <1>inv, <1>same, <1>s1, <1>s2, <1>rest, <1>reg, <1>has DEF AppIInv, KeepsKeyOverlapped
<1> QED
  BY <1>same, <1>over, <1>AppShape, <1>Accounts, <1>InStep, <1>Chain, <1>KeyAtHand, <1>Alone,
     <1>KeyLeaves, <1>Jar, <1>SessionShown, <1>KeepsKey, <1>Overlapped
  DEF AppIInv

\* The attempt's number shows the page.
LEMMA SignInBegunKeeps ==
  ASSUME AppIInv,
         SignInBegun, UNCHANGED <<appScene, cookies, apiVars>>
  PROVE  AppIInv'
<1>inv. AppShape /\ Accounts /\ InStep /\ Chain /\ KeyAtHand
  BY DEF AppIInv
<1>last. Numbers
  BY <1>inv, NumbersOK
<1>alone. ~Overlaps => Alone /\ KeyLeaves /\ Jar /\ SessionShown /\ KeepsKey
  BY DEF AppIInv
<1>same. /\ appScene' = appScene /\ phase' = phase /\ signOutAt' = signOutAt
         /\ keyRegistration' = keyRegistration /\ registration' = registration
         /\ cookies' = cookies /\ keychain' = keychain /\ begun' = begun /\ presses' = presses
         /\ started' = started
         /\ accounts' = accounts /\ expired' = expired /\ attempts' = attempts
         /\ verified' = verified /\ keyOwner' = keyOwner
         /\ keysOut' = keysOut /\ keysRevoked' = keysRevoked /\ leftAccount' = leftAccount
         /\ givenUp' = givenUp
  BY DEF SignInBegun, apiVars
<1>s1. /\ signInAt.step = "begins" /\ calls[SignInCall].at = "received"
       /\ DOMAIN signInAt' = {"step", "attempt", "start"} /\ signInAt'.step = "page"
       /\ signInAt'.start = signInAt.start
  BY <1>inv DEF SignInBegun, Receives, AppShape
<1>s2. /\ OnlyCall(SignInCall) /\ SignInCall \in Caller /\ DOMAIN calls'[SignInCall] = CallFields
       /\ calls'[SignInCall].at = "none" /\ calls'[SignInCall].jar.session = 0
       /\ calls'[SignInCall].key = Nothing
       /\ calls'[SignInCall].session = Nothing /\ calls'[SignInCall].login = Nothing
  BY <1>inv, CallersDiffer
  DEF SignInBegun, AppShape, OnlyCall, Request, NoCall, NoCookies, CallFields
<1>rest. /\ \A j \in StartCall : calls'[SessionCall(j)] = calls[SessionCall(j)]
         /\ \A j \in StartCall : calls'[KeyCall(j)] = calls[KeyCall(j)]
         /\ calls'[SignOutCall] = calls[SignOutCall]
  BY <1>s1, <1>s2, CallersDiffer DEF OnlyCall
<1>over. (Overlaps' <=> Overlaps) /\ (Cuts' <=> Cuts)
  BY DEF Overlaps, Cuts
<1>AppShape. AppShape'
  BY <1>inv, <1>same, <1>s1, <1>s2, <1>rest
  DEF AppShape, CallOK, CallFields, Issued, Asked, OnlyCall
<1>Accounts. Accounts'
  BY <1>inv, <1>same, <1>s1, <1>s2, <1>rest DEF Accounts
<1>InStep. InStep'
  BY <1>inv, <1>same, <1>s1, <1>s2, <1>rest DEF InStep, Told
<1>Chain. Chain'
  BY <1>inv, <1>same, <1>s1, <1>s2, <1>rest DEF Chain
<1>KeyAtHand. KeyAtHand'
  BY <1>inv, <1>same, <1>s1, <1>s2, <1>rest DEF KeyAtHand, Overlaps
<1>reg. Registered' => Registered
  BY <1>inv, <1>last, <1>same, <1>s1, <1>s2, <1>rest DEF Registered, Told, Numbers
<1>has. \A a : (Has(a) => Has(a)') /\ (Ended(a) => Ended(a)')
  BY <1>inv, <1>same, <1>s1, <1>s2 DEF Has, Ended
<1>Alone. ~Overlaps => Alone'
  BY <1>alone, <1>inv, <1>same, <1>s1, <1>s2, <1>rest DEF Alone
<1>KeyLeaves. ~Overlaps => KeyLeaves'
  BY <1>alone, <1>inv, <1>same, <1>s1, <1>s2, <1>rest DEF KeyLeaves, NoKeyOut, Told
<1>Jar. ~Overlaps => Jar'
  BY <1>alone, <1>inv, <1>same, <1>s1, <1>s2, <1>rest DEF Jar, AccountOf, Told
<1>SessionShown. ~Overlaps => SessionShown'
  BY <1>alone, <1>inv, <1>same, <1>s1, <1>s2, <1>rest DEF SessionShown, AccountOf, SignedIn, Cuts
<1>KeepsKey. ~Overlaps => KeepsKey'
  BY <1>alone, <1>inv, <1>same, <1>s1, <1>s2, <1>rest, <1>over, <1>reg, <1>has
  DEF KeepsKey, Left, SignedIn, AccountOf
<1>Overlapped. Overlaps /\ appScene \cap {"noSignal", "cutShort"} = {} => KeepsKeyOverlapped'
  BY <1>inv, <1>same, <1>s1, <1>s2, <1>rest, <1>reg, <1>has DEF AppIInv, KeepsKeyOverlapped
<1> QED
  BY <1>same, <1>over, <1>AppShape, <1>Accounts, <1>InStep, <1>Chain, <1>KeyAtHand, <1>Alone,
     <1>KeyLeaves, <1>Jar, <1>SessionShown, <1>KeepsKey, <1>Overlapped
  DEF AppIInv

\* The page sends the person back with the jar as it was, or they close it.
LEMMA PageReturnsKeeps ==
  ASSUME AppIInv,
         PageReturns, UNCHANGED <<appScene, cookies, apiVars>>
  PROVE  AppIInv'
<1>inv. AppShape /\ Accounts /\ InStep /\ Chain /\ KeyAtHand
  BY DEF AppIInv
<1>last. Numbers
  BY <1>inv, NumbersOK
<1>alone. ~Overlaps => Alone /\ KeyLeaves /\ Jar /\ SessionShown /\ KeepsKey
  BY DEF AppIInv
<1>same. /\ appScene' = appScene /\ phase' = phase /\ signOutAt' = signOutAt
         /\ keyRegistration' = keyRegistration /\ registration' = registration
         /\ cookies' = cookies /\ keychain' = keychain /\ begun' = begun /\ presses' = presses
         /\ started' = started
         /\ accounts' = accounts /\ expired' = expired /\ attempts' = attempts
         /\ verified' = verified /\ keyOwner' = keyOwner
         /\ keysOut' = keysOut /\ keysRevoked' = keysRevoked /\ leftAccount' = leftAccount
         /\ givenUp' = givenUp
  BY DEF PageReturns, apiVars
<1>s1. /\ signInAt.step = "page"
       /\ DOMAIN signInAt' = {"step", "attempt", "start"} /\ signInAt'.step \in {"finishes", "idle"}
       /\ signInAt'.start = 0
  BY <1>inv DEF PageReturns, NoSignIn, AppShape, InStep
<1>s2. /\ OnlyCall(SignInCall) /\ SignInCall \in Caller /\ DOMAIN calls'[SignInCall] = CallFields
       /\ signInAt'.step = "finishes"
            => calls'[SignInCall].at = "made" /\ calls'[SignInCall].session = Nothing
       /\ signInAt'.step = "finishes"
            => calls'[SignInCall].jar.session = 0 /\ calls'[SignInCall].key = Nothing
       /\ signInAt'.step = "finishes" => calls'[SignInCall].login = Nothing
       /\ signInAt'.step = "idle" => calls'[SignInCall] = calls[SignInCall]
  <2>1. CASE calls' = [calls EXCEPT ![SignInCall] = Request(Nothing, Nothing)] /\ signInAt'.step =
          "finishes"
    BY <2>1, <1>inv, CallersDiffer DEF AppShape, OnlyCall, Request, NoCall, NoCookies, CallFields
  <2>2. CASE calls' = calls /\ signInAt'.step = "idle"
    BY <2>2, <1>inv, CallersDiffer DEF AppShape, CallOK, OnlyCall, CallFields
  <2> QED
    BY <2>1, <2>2, <1>inv DEF PageReturns, NoSignIn, AppShape
<1>rest. /\ \A j \in StartCall : calls'[SessionCall(j)] = calls[SessionCall(j)]
         /\ \A j \in StartCall : calls'[KeyCall(j)] = calls[KeyCall(j)]
         /\ calls'[SignOutCall] = calls[SignOutCall]
  BY <1>s1, <1>s2, CallersDiffer DEF OnlyCall
<1>over. (Overlaps' <=> Overlaps) /\ (Cuts' <=> Cuts)
  BY DEF Overlaps, Cuts
<1>AppShape. AppShape'
  BY <1>inv, <1>same, <1>s1, <1>s2, <1>rest
  DEF AppShape, CallOK, CallFields, Issued, Asked, OnlyCall
<1>Accounts. Accounts'
  BY <1>inv, <1>same, <1>s1, <1>s2, <1>rest DEF Accounts
<1>InStep. InStep'
  BY <1>inv, <1>same, <1>s1, <1>s2, <1>rest DEF InStep, Told
<1>Chain. Chain'
  BY <1>inv, <1>same, <1>s1, <1>s2, <1>rest DEF Chain
<1>KeyAtHand. KeyAtHand'
  BY <1>inv, <1>same, <1>s1, <1>s2, <1>rest DEF KeyAtHand, Overlaps
<1>reg. Registered' => Registered
  BY <1>inv, <1>last, <1>same, <1>s1, <1>s2, <1>rest DEF Registered, Told, Numbers
<1>has. \A a : (Has(a) => Has(a)') /\ (Ended(a) => Ended(a)')
  BY <1>inv, <1>same, <1>s1, <1>s2 DEF Has, Ended
<1>Alone. ~Overlaps => Alone'
  BY <1>alone, <1>inv, <1>same, <1>s1, <1>s2, <1>rest DEF Alone
<1>KeyLeaves. ~Overlaps => KeyLeaves'
  BY <1>alone, <1>inv, <1>same, <1>s1, <1>s2, <1>rest DEF KeyLeaves, NoKeyOut, Told
<1>Jar. ~Overlaps => Jar'
  BY <1>alone, <1>inv, <1>same, <1>s1, <1>s2, <1>rest DEF Jar, AccountOf, Told
<1>SessionShown. ~Overlaps => SessionShown'
  BY <1>alone, <1>inv, <1>same, <1>s1, <1>s2, <1>rest DEF SessionShown, AccountOf, SignedIn, Cuts
<1>KeepsKey. ~Overlaps => KeepsKey'
  BY <1>alone, <1>inv, <1>same, <1>s1, <1>s2, <1>rest, <1>over, <1>reg, <1>has
  DEF KeepsKey, Left, SignedIn, AccountOf
<1>Overlapped. Overlaps /\ appScene \cap {"noSignal", "cutShort"} = {} => KeepsKeyOverlapped'
  BY <1>inv, <1>same, <1>s1, <1>s2, <1>rest, <1>reg, <1>has DEF AppIInv, KeepsKeyOverlapped
<1> QED
  BY <1>same, <1>over, <1>AppShape, <1>Accounts, <1>InStep, <1>Chain, <1>KeyAtHand, <1>Alone,
     <1>KeyLeaves, <1>Jar, <1>SessionShown, <1>KeepsKey, <1>Overlapped
  DEF AppIInv

\* A sign-in that fails may have changed the session: not the account's, or its
\* body was cut short.
LEMMA SignInFailsKeeps ==
  ASSUME AppIInv,
         SignInFails, UNCHANGED <<appScene, cookies, apiVars>>
  PROVE  AppIInv'
<1>inv. AppShape /\ Accounts /\ InStep /\ Chain /\ KeyAtHand
  BY DEF AppIInv
<1>last. Numbers
  BY <1>inv, NumbersOK
<1>alone. ~Overlaps => Alone /\ KeyLeaves /\ Jar /\ SessionShown /\ KeepsKey
  BY DEF AppIInv
<1>same. /\ appScene' = appScene /\ phase' = phase /\ signOutAt' = signOutAt
         /\ keyRegistration' = keyRegistration /\ registration' = registration
         /\ cookies' = cookies /\ keychain' = keychain /\ begun' = begun /\ presses' = presses
         /\ started' = started
         /\ accounts' = accounts /\ expired' = expired /\ attempts' = attempts
         /\ verified' = verified /\ keyOwner' = keyOwner
         /\ keysOut' = keysOut /\ keysRevoked' = keysRevoked /\ leftAccount' = leftAccount
         /\ givenUp' = givenUp
  BY DEF SignInFails, apiVars
<1>s1. /\ calls[SignInCall].at # "none"
       /\ signInAt' = NoSignIn
       /\ DOMAIN NoSignIn = {"step", "attempt", "start"} /\ NoSignIn.step = "idle"
       /\ NoSignIn.start = 0
       /\ "cutShort" \in appScene \/ calls[SignInCall].at # "received"
       /\ "noSignal" \in appScene \/ "cutShort" \in appScene
  BY DEF SignInFails, Fails, NoSignIn
<1>s2. /\ OnlyCall(SignInCall) /\ SignInCall \in Caller /\ DOMAIN calls'[SignInCall] = CallFields
       /\ calls'[SignInCall].at = "none" /\ calls'[SignInCall].jar.session = 0
       /\ calls'[SignInCall].key = Nothing
       /\ calls'[SignInCall].session = Nothing /\ calls'[SignInCall].login = Nothing
  BY <1>inv, CallersDiffer
  DEF SignInFails, AppShape, OnlyCall, Request, NoCall, NoCookies, CallFields
<1>rest. /\ \A j \in StartCall : calls'[SessionCall(j)] = calls[SessionCall(j)]
         /\ \A j \in StartCall : calls'[KeyCall(j)] = calls[KeyCall(j)]
         /\ calls'[SignOutCall] = calls[SignOutCall]
  BY <1>s1, <1>s2, CallersDiffer DEF OnlyCall
<1>over. (Overlaps' <=> Overlaps) /\ (Cuts' <=> Cuts)
  BY DEF Overlaps, Cuts
<1>AppShape. AppShape'
  BY <1>inv, <1>same, <1>s1, <1>s2, <1>rest
  DEF AppShape, CallOK, CallFields, Issued, Asked, OnlyCall
<1>Accounts. Accounts'
  BY <1>inv, <1>same, <1>s1, <1>s2, <1>rest DEF Accounts
<1>InStep. InStep'
  BY <1>inv, <1>same, <1>s1, <1>s2, <1>rest DEF InStep, Told
<1>Chain. Chain'
  BY <1>inv, <1>same, <1>s1, <1>s2, <1>rest DEF Chain
<1>KeyAtHand. KeyAtHand'
  BY <1>inv, <1>same, <1>s1, <1>s2, <1>rest DEF KeyAtHand, Overlaps
<1>reg. Registered' => Registered
  BY <1>inv, <1>last, <1>same, <1>s1, <1>s2, <1>rest DEF Registered, Told, Numbers
<1>has. \A a : (Has(a) => Has(a)') /\ (Ended(a) => Ended(a)')
  BY <1>inv, <1>same, <1>s1, <1>s2 DEF Has, Ended
<1>Alone. ~Overlaps => Alone'
  BY <1>alone, <1>inv, <1>same, <1>s1, <1>s2, <1>rest DEF Alone
<1>KeyLeaves. ~Overlaps => KeyLeaves'
  BY <1>alone, <1>inv, <1>same, <1>s1, <1>s2, <1>rest DEF KeyLeaves, NoKeyOut, Told
<1>Jar. ~Overlaps => Jar'
  BY <1>alone, <1>inv, <1>same, <1>s1, <1>s2, <1>rest DEF Jar, AccountOf, Told
<1>SessionShown. ~Overlaps => SessionShown'
  BY <1>alone, <1>inv, <1>same, <1>s1, <1>s2, <1>rest DEF SessionShown, AccountOf, SignedIn, Cuts
<1>KeepsKey. ~Overlaps => KeepsKey'
  BY <1>alone, <1>inv, <1>same, <1>s1, <1>s2, <1>rest, <1>reg, <1>has
  DEF KeepsKey, Left, SignedIn, AccountOf, Cuts
<1>Overlapped. Overlaps /\ appScene \cap {"noSignal", "cutShort"} = {} => KeepsKeyOverlapped'
  BY <1>inv, <1>same, <1>s1, <1>s2, <1>rest, <1>reg, <1>has DEF AppIInv, KeepsKeyOverlapped
<1> QED
  BY <1>same, <1>over, <1>AppShape, <1>Accounts, <1>InStep, <1>Chain, <1>KeyAtHand, <1>Alone,
     <1>KeyLeaves, <1>Jar, <1>SessionShown, <1>KeepsKey, <1>Overlapped
  DEF AppIInv

\* The sign-out that the API handled leaves no key, and the history keeps one that
\* another account had.
LEMMA SignOutAnsweredKeeps ==
  ASSUME AppIInv,
         SignOutAnswered, UNCHANGED <<appScene, cookies, apiVars>>
  PROVE  AppIInv'
<1>inv. AppShape /\ Accounts /\ InStep /\ Chain /\ KeyAtHand
  BY DEF AppIInv
<1>last. Numbers
  BY <1>inv, NumbersOK
<1>alone. ~Overlaps => Alone /\ KeyLeaves /\ Jar /\ SessionShown /\ KeepsKey
  BY DEF AppIInv
<1>same. /\ appScene' = appScene /\ signInAt' = signInAt /\ keyRegistration' = keyRegistration
         /\ registration' = registration /\ cookies' = cookies
         /\ begun' = begun /\ presses' = presses /\ started' = started /\ accounts' = accounts
         /\ expired' = expired
         /\ attempts' = attempts /\ verified' = verified /\ keyOwner' = keyOwner
         /\ keysOut' = keysOut /\ keysRevoked' = keysRevoked
  BY DEF SignOutAnswered, apiVars
<1>s1. /\ calls[SignOutCall].at = "received" /\ keychain' = Nothing
       /\ leftAccount' = calls[SignOutCall].says
       /\ phase'.is = "signedOut" /\ phase'.account = Nothing /\ phase'.guest = FALSE
       /\ DOMAIN signOutAt' = {"step", "awaits"} /\ signOutAt'.step = "idle"
       /\ givenUp' = givenUp
            \cup {k \in {keychain} \ {Nothing} : keyOwner[k] \notin {Nothing, calls[SignOutCall].says}}
  BY DEF SignOutAnswered, Receives, NoSignOut, Screen
<1>s2. /\ OnlyCall(SignOutCall) /\ SignOutCall \in Caller /\ DOMAIN calls'[SignOutCall] = CallFields
       /\ calls'[SignOutCall].at = "none" /\ calls'[SignOutCall].jar.session = 0
       /\ calls'[SignOutCall].key = Nothing
       /\ calls'[SignOutCall].session = Nothing /\ calls'[SignOutCall].login = Nothing
  BY <1>inv, CallersDiffer
  DEF SignOutAnswered, AppShape, OnlyCall, Request, NoCall, NoCookies, CallFields
<1>rest. /\ \A j \in StartCall : calls'[SessionCall(j)] = calls[SessionCall(j)]
         /\ \A j \in StartCall : calls'[KeyCall(j)] = calls[KeyCall(j)]
         /\ calls'[SignInCall] = calls[SignInCall]
  BY <1>s1, <1>s2, CallersDiffer DEF OnlyCall
<1>over. (Overlaps' <=> Overlaps) /\ (Cuts' <=> Cuts)
  BY DEF Overlaps, Cuts
<1>AppShape. AppShape'
  BY <1>inv, <1>same, <1>s1, <1>s2, <1>rest
  DEF AppShape, CallOK, CallFields, Issued, Asked, OnlyCall
<1>Accounts. Accounts'
  BY <1>inv, <1>same, <1>s1, <1>s2, <1>rest DEF Accounts
<1>InStep. InStep'
  BY <1>inv, <1>same, <1>s1, <1>s2, <1>rest DEF InStep, Told
<1>Chain. Chain'
  BY <1>inv, <1>same, <1>s1, <1>s2, <1>rest DEF Chain
<1>KeyAtHand. KeyAtHand'
  <2>1. signOutAt.step = "sent"
    BY <1>inv, <1>s1 DEF InStep
  <2>2. ~Overlaps => NoKeyOut
    BY <2>1, <1>alone DEF KeyLeaves
  <2> QED
    BY <2>2, <1>same, <1>s1, <1>over DEF KeyAtHand, NoKeyOut
<1>reg. Registered' => Registered
  BY <1>inv, <1>last, <1>same, <1>s1, <1>s2, <1>rest DEF Registered, Told, Numbers
<1>has. phase'.is = "ready" => \A a : (Has(a) => Has(a)') /\ (Ended(a) => Ended(a)')
  BY <1>inv, <1>same, <1>s1, <1>s2 DEF Has, Ended
<1>Alone. ~Overlaps => Alone'
  BY <1>alone, <1>inv, <1>same, <1>s1, <1>s2, <1>rest DEF Alone, InStep
<1>KeyLeaves. ~Overlaps => KeyLeaves'
  <2> SUFFICES ASSUME ~Overlaps PROVE KeyLeaves'
    OBVIOUS
  <2>1. signOutAt.step = "sent" /\ NoKeyOut
    BY <1>inv, <1>alone, <1>s1 DEF InStep, KeyLeaves
  <2>2. ASSUME NEW k \in PhoneKey, keyOwner[k] # Nothing
        PROVE  k \in keysOut \cup keysRevoked \cup givenUp'
    BY <2>2, <1>alone, <1>s1, AppModelAssumption DEF KeyLeaves, Told
  <2> QED
    BY <2>1, <2>2, <1>same, <1>s1 DEF KeyLeaves, NoKeyOut, Told
<1>Jar. ~Overlaps => Jar'
  BY <1>alone, <1>inv, <1>same, <1>s1, <1>s2, <1>rest DEF Jar, AccountOf, Told
<1>SessionShown. ~Overlaps => SessionShown'
  BY <1>alone, <1>inv, <1>same, <1>s1, <1>s2, <1>rest DEF SessionShown, AccountOf, SignedIn, Cuts
<1>KeepsKey. ~Overlaps => KeepsKey'
  BY <1>alone, <1>inv, <1>same, <1>s1, <1>s2, <1>rest, <1>reg, <1>has
  DEF KeepsKey, Left, SignedIn, AccountOf
<1>Overlapped. Overlaps /\ appScene \cap {"noSignal", "cutShort"} = {} => KeepsKeyOverlapped'
  BY <1>inv, <1>same, <1>s1, <1>s2, <1>rest, <1>reg, <1>has DEF AppIInv, KeepsKeyOverlapped
<1> QED
  BY <1>same, <1>over, <1>AppShape, <1>Accounts, <1>InStep, <1>Chain, <1>KeyAtHand, <1>Alone,
     <1>KeyLeaves, <1>Jar, <1>SessionShown, <1>KeepsKey, <1>Overlapped
  DEF AppIInv

\* A sign-out that fails may have ended the session, and the key with it.
LEMMA SignOutFailsKeeps ==
  ASSUME AppIInv,
         SignOutFails, UNCHANGED <<appScene, cookies, apiVars>>
  PROVE  AppIInv'
<1>inv. AppShape /\ Accounts /\ InStep /\ Chain /\ KeyAtHand
  BY DEF AppIInv
<1>last. Numbers
  BY <1>inv, NumbersOK
<1>alone. ~Overlaps => Alone /\ KeyLeaves /\ Jar /\ SessionShown /\ KeepsKey
  BY DEF AppIInv
<1>same. /\ appScene' = appScene /\ phase' = phase /\ signInAt' = signInAt
         /\ keyRegistration' = keyRegistration /\ registration' = registration
         /\ cookies' = cookies /\ keychain' = keychain /\ begun' = begun /\ presses' = presses
         /\ started' = started
         /\ accounts' = accounts /\ expired' = expired /\ attempts' = attempts
         /\ verified' = verified /\ keyOwner' = keyOwner
         /\ keysOut' = keysOut /\ keysRevoked' = keysRevoked /\ leftAccount' = leftAccount
         /\ givenUp' = givenUp
  BY DEF SignOutFails, apiVars
<1>s1. /\ calls[SignOutCall].at # "none" /\ signOutAt.step = "sent"
       /\ "noSignal" \in appScene \/ "cutShort" \in appScene
       /\ DOMAIN signOutAt' = {"step", "awaits"} /\ signOutAt'.step = "failed"
  BY <1>inv DEF SignOutFails, Fails, NoSignOut, InStep
<1>s2. /\ OnlyCall(SignOutCall) /\ SignOutCall \in Caller /\ DOMAIN calls'[SignOutCall] = CallFields
       /\ calls'[SignOutCall].at = "none" /\ calls'[SignOutCall].jar.session = 0
       /\ calls'[SignOutCall].key = Nothing
       /\ calls'[SignOutCall].session = Nothing /\ calls'[SignOutCall].login = Nothing
  BY <1>inv, CallersDiffer
  DEF SignOutFails, AppShape, OnlyCall, Request, NoCall, NoCookies, CallFields
<1>rest. /\ \A j \in StartCall : calls'[SessionCall(j)] = calls[SessionCall(j)]
         /\ \A j \in StartCall : calls'[KeyCall(j)] = calls[KeyCall(j)]
         /\ calls'[SignInCall] = calls[SignInCall]
  BY <1>s1, <1>s2, CallersDiffer DEF OnlyCall
<1>over. (Overlaps' <=> Overlaps) /\ (Cuts' <=> Cuts)
  BY DEF Overlaps, Cuts
<1>AppShape. AppShape'
  BY <1>inv, <1>same, <1>s1, <1>s2, <1>rest
  DEF AppShape, CallOK, CallFields, Issued, Asked, OnlyCall
<1>Accounts. Accounts'
  BY <1>inv, <1>same, <1>s1, <1>s2, <1>rest DEF Accounts
<1>InStep. InStep'
  BY <1>inv, <1>same, <1>s1, <1>s2, <1>rest DEF InStep, Told
<1>Chain. Chain'
  BY <1>inv, <1>same, <1>s1, <1>s2, <1>rest DEF Chain
<1>KeyAtHand. KeyAtHand'
  BY <1>inv, <1>same, <1>s1, <1>s2, <1>rest DEF KeyAtHand, Overlaps
<1>reg. Registered' => Registered
  BY <1>inv, <1>last, <1>same, <1>s1, <1>s2, <1>rest DEF Registered, Told, Numbers
<1>has. \A a : (Has(a) => Has(a)') /\ (Ended(a) => Ended(a)')
  BY <1>inv, <1>same, <1>s1, <1>s2 DEF Has, Ended
<1>Alone. ~Overlaps => Alone'
  BY <1>alone, <1>inv, <1>same, <1>s1, <1>s2, <1>rest DEF Alone
<1>KeyLeaves. ~Overlaps => KeyLeaves'
  BY <1>alone, <1>inv, <1>same, <1>s1, <1>s2, <1>rest DEF KeyLeaves, NoKeyOut, Told
<1>Jar. ~Overlaps => Jar'
  BY <1>alone, <1>inv, <1>same, <1>s1, <1>s2, <1>rest DEF Jar, AccountOf, Told
<1>SessionShown. ~Overlaps => SessionShown'
  BY <1>alone, <1>inv, <1>same, <1>s1, <1>s2, <1>rest DEF SessionShown, AccountOf, SignedIn, Cuts
<1>KeepsKey. ~Overlaps => KeepsKey'
  BY <1>alone, <1>inv, <1>same, <1>s1, <1>s2, <1>rest, <1>over, <1>reg, <1>has
  DEF KeepsKey, Left, SignedIn, AccountOf
<1>Overlapped. Overlaps /\ appScene \cap {"noSignal", "cutShort"} = {} => KeepsKeyOverlapped'
  BY <1>inv, <1>same, <1>s1, <1>s2, <1>rest, <1>reg, <1>has DEF AppIInv, KeepsKeyOverlapped
<1> QED
  BY <1>same, <1>over, <1>AppShape, <1>Accounts, <1>InStep, <1>Chain, <1>KeyAtHand, <1>Alone,
     <1>KeyLeaves, <1>Jar, <1>SessionShown, <1>KeepsKey, <1>Overlapped
  DEF AppIInv

\* Its alert goes, and nothing else does.
LEMMA dismissSignOutFailureKeeps ==
  ASSUME AppIInv,
         dismissSignOutFailure, UNCHANGED <<appScene, cookies, apiVars>>
  PROVE  AppIInv'
<1>inv. AppShape /\ Accounts /\ InStep /\ Chain /\ KeyAtHand
  BY DEF AppIInv
<1>last. Numbers
  BY <1>inv, NumbersOK
<1>alone. ~Overlaps => Alone /\ KeyLeaves /\ Jar /\ SessionShown /\ KeepsKey
  BY DEF AppIInv
<1>same. /\ appScene' = appScene /\ phase' = phase /\ signInAt' = signInAt
         /\ keyRegistration' = keyRegistration /\ registration' = registration
         /\ calls' = calls /\ cookies' = cookies /\ keychain' = keychain /\ begun' = begun
         /\ presses' = presses
         /\ started' = started /\ accounts' = accounts /\ expired' = expired /\ attempts' = attempts
         /\ verified' = verified
         /\ keyOwner' = keyOwner /\ keysOut' = keysOut /\ keysRevoked' = keysRevoked
         /\ leftAccount' = leftAccount /\ givenUp' = givenUp
  BY DEF dismissSignOutFailure, apiVars
<1>s1. /\ signOutAt.step = "failed"
       /\ DOMAIN signOutAt' = {"step", "awaits"} /\ signOutAt'.step = "idle"
  BY DEF dismissSignOutFailure, NoSignOut
<1>over. (Overlaps' <=> Overlaps) /\ (Cuts' <=> Cuts)
  BY DEF Overlaps, Cuts
<1>AppShape. AppShape'
  BY <1>inv, <1>same, <1>s1, <1>over DEF AppShape, CallOK, CallFields, Issued, Asked, OnlyCall
<1>Accounts. Accounts'
  BY <1>inv, <1>same, <1>s1, <1>over DEF Accounts, OnlyCall
<1>InStep. InStep'
  BY <1>inv, <1>same, <1>s1, <1>over DEF InStep, Told, OnlyCall
<1>Chain. Chain'
  BY <1>inv, <1>same, <1>s1, <1>over DEF Chain, OnlyCall
<1>KeyAtHand. KeyAtHand'
  BY <1>inv, <1>same, <1>s1, <1>over DEF KeyAtHand, Overlaps, OnlyCall
<1>reg. Registered' => Registered
  BY <1>inv, <1>same, <1>s1 DEF Registered, Told, OnlyCall
<1>has. \A a : (Has(a) => Has(a)') /\ (Ended(a) => Ended(a)')
  BY <1>inv, <1>same, <1>s1 DEF Has, Ended
<1>Alone. ~Overlaps => Alone'
  BY <1>alone, <1>inv, <1>same, <1>s1, <1>over DEF Alone, OnlyCall
<1>KeyLeaves. ~Overlaps => KeyLeaves'
  BY <1>alone, <1>inv, <1>same, <1>s1, <1>over DEF KeyLeaves, NoKeyOut, Told, OnlyCall
<1>Jar. ~Overlaps => Jar'
  BY <1>alone, <1>inv, <1>same, <1>s1, <1>over DEF Jar, AccountOf, Told, OnlyCall
<1>SessionShown. ~Overlaps => SessionShown'
  BY <1>alone, <1>inv, <1>same, <1>s1, <1>over DEF SessionShown, AccountOf, SignedIn, Cuts, OnlyCall
<1>KeepsKey. ~Overlaps => KeepsKey'
  BY <1>alone, <1>inv, <1>same, <1>s1, <1>over, <1>reg, <1>has
  DEF KeepsKey, Left, SignedIn, AccountOf, OnlyCall
<1>Overlapped. Overlaps /\ appScene \cap {"noSignal", "cutShort"} = {} => KeepsKeyOverlapped'
  BY <1>inv, <1>same, <1>s1, <1>over, <1>reg, <1>has DEF AppIInv, KeepsKeyOverlapped, OnlyCall
<1> QED
  BY <1>same, <1>over, <1>AppShape, <1>Accounts, <1>InStep, <1>Chain, <1>KeyAtHand, <1>Alone,
     <1>KeyLeaves, <1>Jar, <1>SessionShown, <1>KeepsKey, <1>Overlapped
  DEF AppIInv

\* An app that opens again begins with the jar and the key, and no request.
LEMMA RelaunchKeeps ==
  ASSUME AppIInv,
         Relaunch, UNCHANGED <<appScene, cookies, apiVars>>
  PROVE  AppIInv'
<1>inv. AppShape /\ Accounts /\ InStep /\ Chain /\ KeyAtHand
  BY DEF AppIInv
<1>last. Numbers
  BY <1>inv, NumbersOK
<1>alone. ~Overlaps => Alone /\ KeyLeaves /\ Jar /\ SessionShown /\ KeepsKey
  BY DEF AppIInv
<1>same. /\ appScene' = appScene /\ cookies' = cookies /\ keychain' = keychain /\ presses' = presses
         /\ started' = started
         /\ accounts' = accounts /\ expired' = expired /\ attempts' = attempts
         /\ verified' = verified /\ keyOwner' = keyOwner
         /\ keysOut' = keysOut /\ keysRevoked' = keysRevoked /\ givenUp' = givenUp
  BY DEF Relaunch, apiVars, appVars
<1>s1. /\ begun' = begun + 1 /\ begun' \in StartCall /\ phase' = Screen("starting")
       /\ phase'.is = "starting" /\ phase'.account = Nothing /\ phase'.guest = FALSE
       /\ signInAt' = NoSignIn
       /\ DOMAIN NoSignIn = {"step", "attempt", "start"} /\ NoSignIn.step = "idle"
       /\ NoSignIn.start = 0
       /\ DOMAIN signOutAt' = {"step", "awaits"} /\ signOutAt'.step = "idle"
       /\ keyRegistration' = 0 /\ DOMAIN registration' = StartCall
       /\ \A n \in StartCall : registration'[n].step = "none" /\ registration'[n].took = FALSE
       /\ \A n \in StartCall : DOMAIN registration'[n] = {"step", "account", "tries", "took"}
  BY DEF Relaunch, Starts, NoSignIn, NoSignOut, NoRegistration, Screen
<1>s2. /\ DOMAIN calls' = Caller
       /\ \A d \in Caller : DOMAIN calls'[d] = CallFields /\ calls'[d].at \in {"none", "made"}
       /\ \A d \in Caller : d # SessionCall(begun') => calls'[d].at = "none"
       /\ \A d \in Caller : calls'[d].jar.session = 0 /\ calls'[d].key = Nothing
       /\ \A d \in Caller : calls'[d].session = Nothing /\ calls'[d].login = Nothing
  BY DEF Relaunch, Starts, OnlyCall, Request, NoCall, NoCookies, CallFields
<1>over. (Overlaps' <=> Overlaps) /\ (Cuts' <=> Cuts)
  BY DEF Overlaps, Cuts
<1>AppShape. AppShape'
  <2>1. \A d \in Caller : CallOK(calls[d])'
    BY <1>s2 DEF CallOK, CallFields, Issued, Asked
  <2> QED
    BY <2>1, <1>inv, <1>same, <1>s1, <1>s2 DEF AppShape, Issued
<1>Accounts. Accounts'
  BY <1>inv, <1>same, <1>s1, <1>s2, <1>over DEF Accounts, OnlyCall
<1>InStep. InStep'
  BY <1>inv, <1>same, <1>s1, <1>s2, CallersDiffer, <1>over DEF InStep, Told, OnlyCall
<1>Chain. Chain'
  BY <1>inv, <1>same, <1>s1, <1>s2, CallersDiffer, AppModelAssumption, <1>over DEF Chain, OnlyCall
<1>KeyAtHand. KeyAtHand'
  BY <1>inv, <1>same, <1>s1, <1>s2, <1>over DEF KeyAtHand, Overlaps, OnlyCall
<1>reg. Registered' => Registered
  BY <1>inv, <1>same, <1>s1, <1>s2 DEF Registered, Told, OnlyCall
<1>has. \A a : (Has(a) => Has(a)') /\ (Ended(a) => Ended(a)')
  BY <1>inv, <1>same, <1>s1, <1>s2 DEF Has, Ended
<1>Alone. ~Overlaps => Alone'
  BY <1>alone, <1>inv, <1>same, <1>s1, <1>s2, CallersDiffer, <1>over DEF Alone, OnlyCall
<1>KeyLeaves. ~Overlaps => KeyLeaves'
  BY <1>alone, <1>inv, <1>same, <1>s1, <1>s2, CallersDiffer, <1>over
  DEF KeyLeaves, NoKeyOut, Told, OnlyCall
<1>Jar. ~Overlaps => Jar'
  BY <1>alone, <1>inv, <1>same, <1>s1, <1>s2, CallersDiffer, <1>over
  DEF Jar, AccountOf, Told, OnlyCall
<1>SessionShown. ~Overlaps => SessionShown'
  BY <1>alone, <1>inv, <1>same, <1>s1, <1>s2, CallersDiffer, <1>over
  DEF SessionShown, AccountOf, SignedIn, Cuts, OnlyCall
<1>KeepsKey. ~Overlaps => KeepsKey'
  BY <1>alone, <1>inv, <1>same, <1>s1, <1>s2, <1>over, <1>reg, <1>has
  DEF KeepsKey, Left, SignedIn, AccountOf, OnlyCall
<1>Overlapped. Overlaps /\ appScene \cap {"noSignal", "cutShort"} = {} => KeepsKeyOverlapped'
  BY <1>inv, <1>same, <1>s1, <1>s2, <1>over, <1>reg, <1>has
  DEF AppIInv, KeepsKeyOverlapped, OnlyCall
<1> QED
  BY <1>same, <1>over, <1>AppShape, <1>Accounts, <1>InStep, <1>Chain, <1>KeyAtHand, <1>Alone,
     <1>KeyLeaves, <1>Jar, <1>SessionShown, <1>KeepsKey, <1>Overlapped
  DEF AppIInv

\* A sign-in that took starts the session of its account.
LEMMA SignedInAndStartsKeeps ==
  ASSUME AppIInv,
         SignInFinished, calls[SignInCall].says =
           "signedIn", UNCHANGED <<appScene, cookies, apiVars>>
  PROVE  AppIInv'
<1>inv. AppShape /\ Accounts /\ InStep /\ Chain /\ KeyAtHand
  BY DEF AppIInv
<1>last. Numbers
  BY <1>inv, NumbersOK
<1>alone. ~Overlaps => Alone /\ KeyLeaves /\ Jar /\ SessionShown /\ KeepsKey
  BY DEF AppIInv
<1>same. /\ appScene' = appScene /\ signOutAt' = signOutAt /\ keyRegistration' = keyRegistration
         /\ registration' = registration /\ cookies' = cookies
         /\ keychain' = keychain /\ presses' = presses /\ started' = started /\ accounts' = accounts
         /\ expired' = expired
         /\ attempts' = attempts /\ verified' = verified /\ keyOwner' = keyOwner
         /\ keysOut' = keysOut /\ keysRevoked' = keysRevoked
         /\ givenUp' = givenUp
  BY DEF SignInFinished, apiVars, appVars
<1>s1. /\ begun' = begun + 1 /\ begun' \in StartCall /\ phase' = Screen("starting")
       /\ phase'.is = "starting" /\ phase'.account = Nothing /\ phase'.guest = FALSE
       /\ signInAt.step = "finishes" /\ calls[SignInCall].at = "received"
  BY DEF SignInFinished, Starts, Receives, Screen
<1>s2. /\ DOMAIN signInAt' = {"step", "attempt", "start"} /\ signInAt'.step = "starts"
       /\ signInAt'.start = begun'
  BY <1>inv DEF SignInFinished, AppShape
<1>s3. /\ DOMAIN calls' = Caller
       /\ \A d \in Caller : d \notin {SignInCall, SessionCall(begun')} => calls'[d] = calls[d]
       /\ DOMAIN calls'[SignInCall] = CallFields /\ DOMAIN calls'[SessionCall(begun')] = CallFields
       /\ calls'[SignInCall].at = "none" /\ calls'[SessionCall(begun')].at = "made"
       /\ \A d \in {SignInCall, SessionCall(begun')} : calls'[d].jar.session = 0 /\ calls'[d].key =
            Nothing
       /\ \A d \in {SignInCall, SessionCall(begun')} : calls'[d].session =
            Nothing /\ calls'[d].login = Nothing
  <2>1. calls' = [[calls EXCEPT ![SignInCall] = NoCall] EXCEPT ![SessionCall(begun')] =
          Request(Nothing, Nothing)]
    BY DEF SignInFinished, Starts
  <2>2. DOMAIN calls = Caller
    BY <1>inv DEF AppShape
  <2> QED
    BY <2>1, <2>2, <1>s1, CallersDiffer DEF Request, NoCall, NoCookies, CallFields
<1>s4. /\ \A j \in StartCall : j # begun' => calls'[SessionCall(j)] = calls[SessionCall(j)]
       /\ \A j \in StartCall : calls'[KeyCall(j)] = calls[KeyCall(j)]
       /\ calls'[SignOutCall] = calls[SignOutCall]
  BY <1>s1, <1>s3, CallersDiffer
<1>over. (Overlaps' <=> Overlaps) /\ (Cuts' <=> Cuts)
  BY DEF Overlaps, Cuts
<1>AppShape. AppShape'
  BY <1>inv, <1>last, <1>same, <1>s1, <1>s2, <1>s3, <1>s4, <1>over
  DEF AppShape, CallOK, CallFields, Issued, Asked, Numbers
<1>Accounts. Accounts'
  BY <1>inv, <1>same, <1>s1, <1>s2, <1>s3, <1>s4, <1>over DEF Accounts
<1>InStep. InStep'
  BY <1>inv, <1>last, <1>same, <1>s1, <1>s2, <1>s3, <1>s4, <1>over DEF InStep, Told, Numbers
<1>Chain. Chain'
  BY <1>inv, <1>same, <1>s1, <1>s2, <1>s3, <1>s4, <1>over DEF Chain
<1>KeyAtHand. KeyAtHand'
  BY <1>inv, <1>same, <1>s1, <1>s2, <1>s3, <1>s4, <1>over DEF KeyAtHand, Overlaps
<1>reg. Registered' => Registered
  BY <1>inv, <1>last, <1>same, <1>s1, <1>s2, <1>s3, <1>s4 DEF Registered, Told, Numbers
<1>has. \A a : (Has(a) => Has(a)') /\ (Ended(a) => Ended(a)')
  BY <1>inv, <1>same, <1>s1, <1>s2, <1>s3, <1>s4 DEF Has, Ended
<1>Alone. ~Overlaps => Alone'
  BY <1>alone, <1>inv, <1>same, <1>s1, <1>s2, <1>s3, <1>s4, <1>over DEF Alone
<1>KeyLeaves. ~Overlaps => KeyLeaves'
  BY <1>alone, <1>inv, <1>same, <1>s1, <1>s2, <1>s3, <1>s4, <1>over DEF KeyLeaves, NoKeyOut, Told
<1>Jar. ~Overlaps => Jar'
  BY <1>alone, <1>inv, <1>same, <1>s1, <1>s2, <1>s3, <1>s4, <1>over DEF Jar, AccountOf, Told
<1>SessionShown. ~Overlaps => SessionShown'
  BY <1>alone, <1>inv, <1>same, <1>s1, <1>s2, <1>s3, <1>s4, <1>over
  DEF SessionShown, AccountOf, SignedIn, Cuts
<1>KeepsKey. ~Overlaps => KeepsKey'
  BY <1>alone, <1>inv, <1>same, <1>s1, <1>s2, <1>s3, <1>s4, <1>over, <1>reg, <1>has
  DEF KeepsKey, Left, SignedIn, AccountOf
<1>Overlapped. Overlaps /\ appScene \cap {"noSignal", "cutShort"} = {} => KeepsKeyOverlapped'
  BY <1>inv, <1>same, <1>s1, <1>s2, <1>s3, <1>s4, <1>over, <1>reg, <1>has
  DEF AppIInv, KeepsKeyOverlapped
<1> QED
  BY <1>same, <1>over, <1>AppShape, <1>Accounts, <1>InStep, <1>Chain, <1>KeyAtHand, <1>Alone,
     <1>KeyLeaves, <1>Jar, <1>SessionShown, <1>KeepsKey, <1>Overlapped
  DEF AppIInv

\* A refused one leaves the session shown.
LEMMA SignInRefusedKeeps ==
  ASSUME AppIInv,
         SignInFinished, calls[SignInCall].says # "signedIn", UNCHANGED <<appScene, cookies, apiVars>>
  PROVE  AppIInv'
<1>inv. AppShape /\ Accounts /\ InStep /\ Chain /\ KeyAtHand
  BY DEF AppIInv
<1>last. Numbers
  BY <1>inv, NumbersOK
<1>alone. ~Overlaps => Alone /\ KeyLeaves /\ Jar /\ SessionShown /\ KeepsKey
  BY DEF AppIInv
<1>same. /\ appScene' = appScene /\ phase' = phase /\ signOutAt' = signOutAt
         /\ keyRegistration' = keyRegistration /\ registration' = registration
         /\ cookies' = cookies /\ keychain' = keychain /\ begun' = begun /\ presses' = presses
         /\ started' = started
         /\ accounts' = accounts /\ expired' = expired /\ attempts' = attempts
         /\ verified' = verified /\ keyOwner' = keyOwner
         /\ keysOut' = keysOut /\ keysRevoked' = keysRevoked /\ leftAccount' = leftAccount
         /\ givenUp' = givenUp
  BY DEF SignInFinished, apiVars
<1>s1. /\ signInAt.step = "finishes" /\ calls[SignInCall].at = "received"
       /\ signInAt' = NoSignIn
       /\ DOMAIN NoSignIn = {"step", "attempt", "start"} /\ NoSignIn.step = "idle"
       /\ NoSignIn.start = 0
  BY DEF SignInFinished, Receives, NoSignIn
<1>s2. /\ OnlyCall(SignInCall) /\ SignInCall \in Caller /\ DOMAIN calls'[SignInCall] = CallFields
       /\ calls'[SignInCall].at = "none" /\ calls'[SignInCall].jar.session = 0
       /\ calls'[SignInCall].key = Nothing
       /\ calls'[SignInCall].session = Nothing /\ calls'[SignInCall].login = Nothing
  BY <1>inv, CallersDiffer
  DEF SignInFinished, AppShape, OnlyCall, Request, NoCall, NoCookies, CallFields
<1>rest. /\ \A j \in StartCall : calls'[SessionCall(j)] = calls[SessionCall(j)]
         /\ \A j \in StartCall : calls'[KeyCall(j)] = calls[KeyCall(j)]
         /\ calls'[SignOutCall] = calls[SignOutCall]
  BY <1>s1, <1>s2, CallersDiffer DEF OnlyCall
<1>over. (Overlaps' <=> Overlaps) /\ (Cuts' <=> Cuts)
  BY DEF Overlaps, Cuts
<1>AppShape. AppShape'
  BY <1>inv, <1>same, <1>s1, <1>s2, <1>rest
  DEF AppShape, CallOK, CallFields, Issued, Asked, OnlyCall
<1>Accounts. Accounts'
  BY <1>inv, <1>same, <1>s1, <1>s2, <1>rest DEF Accounts
<1>InStep. InStep'
  BY <1>inv, <1>same, <1>s1, <1>s2, <1>rest DEF InStep, Told
<1>Chain. Chain'
  BY <1>inv, <1>same, <1>s1, <1>s2, <1>rest DEF Chain
<1>KeyAtHand. KeyAtHand'
  BY <1>inv, <1>same, <1>s1, <1>s2, <1>rest DEF KeyAtHand, Overlaps
<1>reg. Registered' => Registered
  BY <1>inv, <1>last, <1>same, <1>s1, <1>s2, <1>rest DEF Registered, Told, Numbers
<1>has. \A a : (Has(a) => Has(a)') /\ (Ended(a) => Ended(a)')
  BY <1>inv, <1>same, <1>s1, <1>s2 DEF Has, Ended
<1>Alone. ~Overlaps => Alone'
  BY <1>alone, <1>inv, <1>same, <1>s1, <1>s2, <1>rest DEF Alone
<1>KeyLeaves. ~Overlaps => KeyLeaves'
  BY <1>alone, <1>inv, <1>same, <1>s1, <1>s2, <1>rest DEF KeyLeaves, NoKeyOut, Told
<1>Jar. ~Overlaps => Jar'
  BY <1>alone, <1>inv, <1>same, <1>s1, <1>s2, <1>rest DEF Jar, AccountOf, Told
<1>SessionShown. ~Overlaps => SessionShown'
  BY <1>alone, <1>inv, <1>same, <1>s1, <1>s2, <1>rest DEF SessionShown, AccountOf, SignedIn, Cuts
<1>KeepsKey. ~Overlaps => KeepsKey'
  BY <1>alone, <1>inv, <1>same, <1>s1, <1>s2, <1>rest, <1>over, <1>reg, <1>has
  DEF KeepsKey, Left, SignedIn, AccountOf
<1>Overlapped. Overlaps /\ appScene \cap {"noSignal", "cutShort"} = {} => KeepsKeyOverlapped'
  BY <1>inv, <1>same, <1>s1, <1>s2, <1>rest, <1>reg, <1>has DEF AppIInv, KeepsKeyOverlapped
<1> QED
  BY <1>same, <1>over, <1>AppShape, <1>Accounts, <1>InStep, <1>Chain, <1>KeyAtHand, <1>Alone,
     <1>KeyLeaves, <1>Jar, <1>SessionShown, <1>KeepsKey, <1>Overlapped
  DEF AppIInv

\* The API resumes the jar's session with its account.
LEMMA ResumesKeeps ==
  ASSUME AppIInv, NEW i \in StartCall,
         ServeStart(i), started' = started, UNCHANGED <<appScene, appVars, cookies>>
  PROVE  AppIInv'
<1>inv. AppShape /\ Accounts /\ InStep /\ Chain /\ KeyAtHand
  BY DEF AppIInv
<1>last. Numbers
  BY <1>inv, NumbersOK
<1>alone. ~Overlaps => Alone /\ KeyLeaves /\ Jar /\ SessionShown /\ KeepsKey
  BY DEF AppIInv
<1>same. /\ appScene' = appScene /\ phase' = phase /\ signInAt' = signInAt /\ signOutAt' = signOutAt
         /\ keyRegistration' = keyRegistration
         /\ registration' = registration /\ cookies' = cookies /\ keychain' = keychain
         /\ begun' = begun /\ presses' = presses
         /\ started' = started /\ accounts' = accounts /\ expired' = expired /\ attempts' = attempts
         /\ verified' = verified
         /\ keyOwner' = keyOwner /\ keysOut' = keysOut /\ keysRevoked' = keysRevoked
         /\ leftAccount' = leftAccount /\ givenUp' = givenUp
  BY <1>inv DEF ServeStart, Accounts, apiVars, appVars
<1>s1. /\ calls[SessionCall(i)].at = "sent"
       /\ SignedInTo(calls[SessionCall(i)].jar.session) # Nothing
       /\ accounts[calls[SessionCall(i)].jar.session] \in AppAccount
       /\ calls[SessionCall(i)].jar.session \in Cookie
       /\ calls[SessionCall(i)].jar.session <= started
  <2>1. calls[SessionCall(i)].at = "sent" /\ SignedInTo(calls[SessionCall(i)].jar.session) # Nothing
    BY <1>inv DEF ServeStart, Accounts
  <2>2. Issued(calls[SessionCall(i)].jar.session)
    BY <1>inv, CallersDiffer DEF AppShape, CallOK
  <2> QED
    BY <2>1, <2>2, <1>inv DEF Issued, SignedInTo, AccountOf, Accounts
<1>s2. /\ OnlyCall(SessionCall(i)) /\ SessionCall(i) \in Caller
       /\ DOMAIN calls'[SessionCall(i)] = CallFields
       /\ calls'[SessionCall(i)].at = "answered" /\ calls'[SessionCall(i)].jar.session = 0
       /\ calls'[SessionCall(i)].key = calls[SessionCall(i)].key
       /\ calls'[SessionCall(i)].account = calls[SessionCall(i)].account
       /\ calls'[SessionCall(i)].session = calls[SessionCall(i)].jar.session
       /\ calls'[SessionCall(i)].login = Nothing
       /\ calls'[SessionCall(i)].says.account = accounts[calls[SessionCall(i)].jar.session]
  BY <1>inv, <1>s1, <1>same, CallersDiffer, AnswersCall DEF ServeStart, Shown, Accounts
<1>rest. /\ \A j \in StartCall : j # i => calls'[SessionCall(j)] = calls[SessionCall(j)]
         /\ \A j \in StartCall : calls'[KeyCall(j)] = calls[KeyCall(j)]
         /\ calls'[SignInCall] = calls[SignInCall]
         /\ calls'[SignOutCall] = calls[SignOutCall]
  BY <1>s1, <1>s2, CallersDiffer DEF OnlyCall
<1>over. (Overlaps' <=> Overlaps) /\ (Cuts' <=> Cuts)
  BY DEF Overlaps, Cuts
<1>AppShape. AppShape'
  BY <1>inv, <1>same, <1>s1, <1>s2, <1>rest
  DEF AppShape, CallOK, CallFields, Issued, Asked, OnlyCall
<1>Accounts. Accounts'
  BY <1>inv, <1>same, <1>s1, <1>s2, <1>rest DEF Accounts
<1>InStep. InStep'
  BY <1>inv, <1>same, <1>s1, <1>s2, <1>rest DEF InStep, Told
<1>Chain. Chain'
  BY <1>inv, <1>same, <1>s1, <1>s2, <1>rest DEF Chain
<1>KeyAtHand. KeyAtHand'
  BY <1>inv, <1>same, <1>s1, <1>s2, <1>rest DEF KeyAtHand, Overlaps
<1>reg. Registered' => Registered
  BY <1>inv, <1>last, <1>same, <1>s1, <1>s2, <1>rest DEF Registered, Told, Numbers
<1>has. \A a : (Has(a) => Has(a)') /\ (Ended(a) => Ended(a)')
  BY <1>inv, <1>same, <1>s1, <1>s2 DEF Has, Ended
<1>Alone. ~Overlaps => Alone'
  BY <1>alone, <1>inv, <1>same, <1>s1, <1>s2, <1>rest DEF Alone
<1>KeyLeaves. ~Overlaps => KeyLeaves'
  BY <1>alone, <1>inv, <1>same, <1>s1, <1>s2, <1>rest DEF KeyLeaves, NoKeyOut, Told
<1>Jar. ~Overlaps => Jar'
  BY <1>alone, <1>inv, <1>same, <1>s1, <1>s2, <1>rest DEF Jar, AccountOf, Told
<1>SessionShown. ~Overlaps => SessionShown'
  BY <1>alone, <1>inv, <1>same, <1>s1, <1>s2, <1>rest, AppModelAssumption
  DEF SessionShown, AccountOf, SignedIn, Cuts
<1>KeepsKey. ~Overlaps => KeepsKey'
  BY <1>alone, <1>inv, <1>same, <1>s1, <1>s2, <1>rest, <1>over, <1>reg, <1>has
  DEF KeepsKey, Left, SignedIn, AccountOf
<1>Overlapped. Overlaps /\ appScene \cap {"noSignal", "cutShort"} = {} => KeepsKeyOverlapped'
  BY <1>inv, <1>same, <1>s1, <1>s2, <1>rest, <1>reg, <1>has DEF AppIInv, KeepsKeyOverlapped
<1> QED
  BY <1>same, <1>over, <1>AppShape, <1>Accounts, <1>InStep, <1>Chain, <1>KeyAtHand, <1>Alone,
     <1>KeyLeaves, <1>Jar, <1>SessionShown, <1>KeepsKey, <1>Overlapped
  DEF AppIInv

\* Or it begins a guest's, of a number not used before.
LEMMA BeginsGuestKeeps ==
  ASSUME AppIInv, NEW i \in StartCall,
         ServeStart(i), started' # started, UNCHANGED <<appScene, appVars, cookies>>
  PROVE  AppIInv'
<1>inv. AppShape /\ Accounts /\ InStep /\ Chain /\ KeyAtHand
  BY DEF AppIInv
<1>last. Numbers
  BY <1>inv, NumbersOK
<1>alone. ~Overlaps => Alone /\ KeyLeaves /\ Jar /\ SessionShown /\ KeepsKey
  BY DEF AppIInv
<1>same. /\ appScene' = appScene /\ phase' = phase /\ signInAt' = signInAt /\ signOutAt' = signOutAt
         /\ keyRegistration' = keyRegistration
         /\ registration' = registration /\ cookies' = cookies /\ keychain' = keychain
         /\ begun' = begun /\ presses' = presses
         /\ expired' = expired /\ attempts' = attempts /\ verified' = verified
         /\ keyOwner' = keyOwner /\ keysOut' = keysOut
         /\ keysRevoked' = keysRevoked /\ leftAccount' = leftAccount /\ givenUp' = givenUp
  BY DEF ServeStart, appVars
<1>s1. /\ calls[SessionCall(i)].at = "sent"
       /\ started' = started + 1 /\ started' \in Cookie /\ started' \notin Emailed
       /\ accounts' = [s \in Cookie |-> IF s = started' THEN started'
            ELSE IF s = calls[SessionCall(i)].jar.session THEN Nothing ELSE accounts[s]]
  BY <1>inv DEF ServeStart, Accounts
<1>s2. /\ OnlyCall(SessionCall(i)) /\ SessionCall(i) \in Caller
       /\ DOMAIN calls'[SessionCall(i)] = CallFields
       /\ calls'[SessionCall(i)].at = "answered" /\ calls'[SessionCall(i)].jar.session = 0
       /\ calls'[SessionCall(i)].key = calls[SessionCall(i)].key
       /\ calls'[SessionCall(i)].account = calls[SessionCall(i)].account
       /\ calls'[SessionCall(i)].session = started'
       /\ calls'[SessionCall(i)].login = Nothing
       /\ calls'[SessionCall(i)].says.account = started'
  BY <1>inv, CallersDiffer, AnswersCall DEF ServeStart, Shown, Accounts
<1>rest. /\ \A j \in StartCall : j # i => calls'[SessionCall(j)] = calls[SessionCall(j)]
         /\ \A j \in StartCall : calls'[KeyCall(j)] = calls[KeyCall(j)]
         /\ calls'[SignInCall] = calls[SignInCall]
         /\ calls'[SignOutCall] = calls[SignOutCall]
  BY <1>s1, <1>s2, CallersDiffer DEF OnlyCall
<1>over. (Overlaps' <=> Overlaps) /\ (Cuts' <=> Cuts)
  BY DEF Overlaps, Cuts
<1>AppShape. AppShape'
  <2>1. started' \in Cookie /\ started' <= started' /\ \A s \in Cookie : s <= started
          => s <= started'
    BY <1>inv, <1>s1, AppModelAssumption DEF Accounts
  <2>2. \A d \in Caller : CallOK(calls[d])'
    BY <2>1, <1>inv, <1>s2 DEF AppShape, CallOK, OnlyCall, CallFields, Asked, Issued
  <2> QED
    BY <2>1, <2>2, <1>inv, <1>same, <1>s2 DEF AppShape, OnlyCall, Issued
<1>Accounts. Accounts'
  <2>1. started' \in Nat /\ accounts' \in [Cookie -> AppAccount \cup {Nothing}]
    BY <1>inv, <1>s1 DEF Accounts, AppAccount
  <2>2. \A s \in Cookie : accounts'[s] \in {accounts[s], Nothing}
          \/ (s = started' /\ accounts'[s] = started')
    BY <1>s1
  <2>a. /\ \A s \in Cookie : accounts[s] # Nothing => s <= started
        /\ \A s \in Cookie : accounts[s] \in Cookie => accounts[s] <= started
        /\ \A s \in Cookie : accounts[s] \in Cookie \ verified => accounts[s] = s
        /\ \A c \in verified \cap Cookie : c <= started
        /\ started \in Nat /\ Cookie \subseteq Nat /\ Nothing \notin Cookie
    BY <1>inv, AppModelAssumption DEF Accounts
  <2>b. started' <= started' /\ \A c \in Cookie : c <= started => c <= started'
    BY <1>inv, <1>s1 DEF Accounts
  <2>3. \A s \in Cookie : accounts'[s] # Nothing => s <= started' /\ (accounts'[s] \in Cookie
          => accounts'[s] <= started')
    BY <2>2, <2>a, <2>b
  <2>4. \A s \in Cookie : accounts'[s] \in Cookie \ verified => accounts'[s] = s
    BY <2>a, <1>s1
  <2>5. \A a \in verified \cap Cookie : a <= started'
    BY <2>a, <2>b
  <2> QED
    BY <2>1, <2>3, <2>4, <2>5, <1>inv, <1>same, <1>s1, <1>s2, <1>rest, AppModelAssumption
    DEF Accounts
<1>InStep. InStep'
  BY <1>inv, <1>same, <1>s1, <1>s2, <1>rest DEF InStep, Told, AppAccount
<1>Chain. Chain'
  BY <1>inv, <1>same, <1>s1, <1>s2, <1>rest DEF Chain
<1>KeyAtHand. KeyAtHand'
  BY <1>inv, <1>same, <1>s1, <1>s2, <1>rest DEF KeyAtHand, Overlaps
<1>reg. Registered' => Registered
  BY <1>inv, <1>last, <1>same, <1>s1, <1>s2, <1>rest DEF Registered, Told, Numbers
<1>has. \A a : (Has(a) => Has(a)') /\ (Ended(a) => Ended(a)')
  <2>1. \A a : Has(a) => Has(a)'
    BY <1>same DEF Has
  <2>2. \A a : Ended(a) => Ended(a)'
    BY <1>inv, <1>same, <1>s1 DEF Ended, Accounts
  <2> QED
    BY <2>1, <2>2
<1>Alone. ~Overlaps => Alone'
  BY <1>alone, <1>inv, <1>same, <1>s1, <1>s2, <1>rest DEF Alone
<1>KeyLeaves. ~Overlaps => KeyLeaves'
  BY <1>alone, <1>inv, <1>same, <1>s1, <1>s2, <1>rest DEF KeyLeaves, NoKeyOut, Told
<1>Jar. ~Overlaps => Jar'
  BY <1>alone, <1>inv, <1>same, <1>s1, <1>s2, <1>rest DEF Jar, AccountOf, Told, Alone, InStep
<1>SessionShown. ~Overlaps => SessionShown'
  BY <1>alone, <1>inv, <1>same, <1>s1, <1>s2, <1>rest, AppModelAssumption
  DEF SessionShown, AccountOf, SignedIn, Cuts, Alone, InStep
<1>KeepsKey. ~Overlaps => KeepsKey'
  BY <1>alone, <1>inv, <1>same, <1>s1, <1>s2, <1>rest, <1>reg, <1>has
  DEF KeepsKey, Left, SignedIn, AccountOf, Alone
<1>Overlapped. Overlaps /\ appScene \cap {"noSignal", "cutShort"} = {} => KeepsKeyOverlapped'
  BY <1>inv, <1>same, <1>s1, <1>s2, <1>rest, <1>reg, <1>has DEF AppIInv, KeepsKeyOverlapped
<1> QED
  BY <1>same, <1>over, <1>AppShape, <1>Accounts, <1>InStep, <1>Chain, <1>KeyAtHand, <1>Alone,
     <1>KeyLeaves, <1>Jar, <1>SessionShown, <1>KeepsKey, <1>Overlapped
  DEF AppIInv

\* A key that the API takes is the account's that asked, and is the Keychain's.
LEMMA ServeKeyKeeps ==
  ASSUME AppIInv, NEW n \in StartCall,
         ServeKey(n), UNCHANGED <<appScene, appVars, cookies>>
  PROVE  AppIInv'
<1>inv. AppShape /\ Accounts /\ InStep /\ Chain /\ KeyAtHand
  BY DEF AppIInv
<1>last. Numbers
  BY <1>inv, NumbersOK
<1>alone. ~Overlaps => Alone /\ KeyLeaves /\ Jar /\ SessionShown /\ KeepsKey
  BY DEF AppIInv
<1>same. /\ appScene' = appScene /\ phase' = phase /\ signInAt' = signInAt /\ signOutAt' = signOutAt
         /\ keyRegistration' = keyRegistration
         /\ registration' = registration /\ cookies' = cookies /\ keychain' = keychain
         /\ begun' = begun /\ presses' = presses
         /\ started' = started /\ accounts' = accounts /\ expired' = expired /\ attempts' = attempts
         /\ verified' = verified
         /\ keysRevoked' = keysRevoked /\ leftAccount' = leftAccount /\ givenUp' = givenUp
  BY DEF ServeKey, appVars
<1>s1. /\ calls[KeyCall(n)].at = "sent" /\ registration[n].step = "sends"
       /\ calls[KeyCall(n)].key \in PhoneKey /\ calls[KeyCall(n)].account \in AppAccount
       /\ calls[KeyCall(n)].account = registration[n].account
  BY <1>inv DEF ServeKey, Chain, AppShape
<1>s2. /\ OnlyCall(KeyCall(n)) /\ KeyCall(n) \in Caller /\ DOMAIN calls'[KeyCall(n)] = CallFields
       /\ calls'[KeyCall(n)].at = "answered" /\ calls'[KeyCall(n)].jar.session = 0
       /\ calls'[KeyCall(n)].key = calls[KeyCall(n)].key
       /\ calls'[KeyCall(n)].account = calls[KeyCall(n)].account
       /\ calls'[KeyCall(n)].session = Nothing
       /\ calls'[KeyCall(n)].login = Nothing
  BY <1>inv, CallersDiffer, AnswersCall DEF ServeKey
<1>s3. /\ \/ /\ keyOwner' = keyOwner /\ keysOut' = keysOut /\ calls'[KeyCall(n)].says # "registered"
          \/ /\ keyOwner[calls[KeyCall(n)].key] \in {Nothing, calls[KeyCall(n)].account}
             /\ keyOwner' = [keyOwner EXCEPT ![calls[KeyCall(n)].key] = calls[KeyCall(n)].account]
             /\ keysOut' =
                  IF calls[KeyCall(n)].key \in keysRevoked THEN keysOut
                    ELSE keysOut \ {calls[KeyCall(n)].key}
             /\ (calls'[KeyCall(n)].says = "registered" => calls[KeyCall(n)].key \notin keysRevoked)
  BY <1>inv, CallersDiffer, AnswersCall DEF ServeKey
<1>rest. /\ \A j \in StartCall : calls'[SessionCall(j)] = calls[SessionCall(j)]
         /\ \A j \in StartCall : j # n => calls'[KeyCall(j)] = calls[KeyCall(j)]
         /\ calls'[SignInCall] = calls[SignInCall]
         /\ calls'[SignOutCall] = calls[SignOutCall]
  BY <1>s1, <1>s2, CallersDiffer DEF OnlyCall
<1>over. (Overlaps' <=> Overlaps) /\ (Cuts' <=> Cuts)
  BY DEF Overlaps, Cuts
<1>AppShape. AppShape'
  BY <1>inv, <1>same, <1>s1, <1>s2, <1>s3, <1>rest
  DEF AppShape, CallOK, CallFields, Issued, Asked, OnlyCall
<1>Accounts. Accounts'
  BY <1>inv, <1>last, <1>same, <1>s1, <1>s2, <1>s3, <1>rest DEF Accounts, Numbers
<1>InStep. InStep'
  BY <1>inv, <1>same, <1>s1, <1>s2, <1>s3, <1>rest DEF InStep, Told
<1>Chain. Chain'
  BY <1>inv, <1>same, <1>s1, <1>s2, <1>s3, <1>rest DEF Chain
<1>KeyAtHand. KeyAtHand'
  BY <1>inv, <1>same, <1>s1, <1>s2, <1>s3, <1>rest DEF KeyAtHand, Overlaps
<1>reg. Registered' => Registered \/ (n = keyRegistration /\ calls'[KeyCall(n)].says = "registered")
  BY <1>inv, <1>last, <1>same, <1>s1, <1>s2, <1>s3, <1>rest DEF Registered, Told, Numbers
<1>has. \A a \in AppAccount : (Has(a) => Has(a)') /\ (Ended(a) => Ended(a)')
  <2>1. \A a : Ended(a) => Ended(a)'
    BY <1>same DEF Ended
  <2>2. ASSUME NEW a \in AppAccount, Has(a) PROVE Has(a)'
    BY <2>2, <1>inv, <1>same, <1>s1, <1>s3, AppModelAssumption DEF Has, Accounts, AppAccount
  <2> QED
    BY <2>1, <2>2
<1>new. calls'[KeyCall(n)].says = "registered" /\ calls[KeyCall(n)].key = keychain
          => \A a : a = calls[KeyCall(n)].account => Has(a)'
  BY <1>inv, <1>same, <1>s1, <1>s3 DEF Has, Accounts
<1>Alone. ~Overlaps => Alone'
  BY <1>alone, <1>inv, <1>same, <1>s1, <1>s2, <1>s3, <1>rest DEF Alone
<1>KeyLeaves. ~Overlaps => KeyLeaves'
  <2> SUFFICES ASSUME ~Overlaps PROVE KeyLeaves'
    OBVIOUS
  <2>1. ~NoKeyOut /\ calls[KeyCall(n)].key = keychain
    BY <1>inv, <1>s1 DEF NoKeyOut, KeyAtHand
  <2>2. \A k \in PhoneKey : keyOwner'[k] # Nothing
          => k \in {keychain} \cup keysOut' \cup keysRevoked \cup givenUp
    BY <2>1, <1>alone, <1>inv, <1>s3 DEF KeyLeaves, Accounts
  <2> QED
    BY <2>1, <2>2, <1>alone, <1>inv, <1>same, <1>s2, <1>rest DEF KeyLeaves, NoKeyOut, InStep, Told
<1>Jar. ~Overlaps => Jar'
  BY <1>alone, <1>inv, <1>same, <1>s1, <1>s2, <1>s3, <1>rest DEF Jar, AccountOf, Told
<1>SessionShown. ~Overlaps => SessionShown'
  BY <1>alone, <1>inv, <1>same, <1>s1, <1>s2, <1>s3, <1>rest
  DEF SessionShown, AccountOf, SignedIn, Cuts
<1>KeepsKey. ~Overlaps => KeepsKey'
  <2>ready. phase.is = "ready" => phase.account \in AppAccount /\ phase.account # Nothing
    BY <1>inv, <1>last, AppModelAssumption DEF Chain, AppAccount, Numbers
  <2>1. CASE Registered
    BY <2>1, <2>ready, <1>alone, <1>same, <1>s2, <1>rest, <1>over, <1>has
    DEF KeepsKey, Left, SignedIn, AccountOf
  <2>2. CASE n = keyRegistration /\ calls'[KeyCall(n)].says = "registered"
    <3>1. phase.is = "ready"
            => phase.account = calls[KeyCall(n)].account /\ calls[KeyCall(n)].key = keychain
      BY <2>2, <1>inv, <1>s1 DEF Chain, KeyAtHand
    <3> QED
      BY <2>2, <3>1, <1>new, <1>same DEF KeepsKey
  <2> QED
    BY <2>1, <2>2, <1>reg DEF KeepsKey
<1>Overlapped. Overlaps /\ appScene \cap {"noSignal", "cutShort"} = {} => KeepsKeyOverlapped'
  <2>ready. phase.is = "ready" => phase.account \in AppAccount /\ phase.account # Nothing
    BY <1>inv, <1>last, AppModelAssumption DEF Chain, AppAccount, Numbers
  <2>1. CASE Registered
    BY <2>1, <2>ready, <1>same, <1>has DEF AppIInv, KeepsKeyOverlapped
  <2>2. CASE n = keyRegistration /\ calls'[KeyCall(n)].says = "registered"
    <3>1. phase.is = "ready"
            => phase.account = calls[KeyCall(n)].account /\ calls[KeyCall(n)].key = keychain
      BY <2>2, <1>inv, <1>s1 DEF Chain, KeyAtHand
    <3> QED
      BY <2>2, <3>1, <1>new, <1>same DEF KeepsKeyOverlapped
  <2> QED
    BY <2>1, <2>2, <1>reg DEF KeepsKeyOverlapped
<1> QED
  BY <1>same, <1>over, <1>AppShape, <1>Accounts, <1>InStep, <1>Chain, <1>KeyAtHand, <1>Alone,
     <1>KeyLeaves, <1>Jar, <1>SessionShown, <1>KeepsKey, <1>Overlapped
  DEF AppIInv

\* An attempt is the next one.
LEMMA ServeLoginKeeps ==
  ASSUME AppIInv,
         ServeLogin, UNCHANGED <<appScene, appVars, cookies>>
  PROVE  AppIInv'
<1>inv. AppShape /\ Accounts /\ InStep /\ Chain /\ KeyAtHand
  BY DEF AppIInv
<1>last. Numbers
  BY <1>inv, NumbersOK
<1>alone. ~Overlaps => Alone /\ KeyLeaves /\ Jar /\ SessionShown /\ KeepsKey
  BY DEF AppIInv
<1>same. /\ appScene' = appScene /\ phase' = phase /\ signInAt' = signInAt /\ signOutAt' = signOutAt
         /\ keyRegistration' = keyRegistration
         /\ registration' = registration /\ cookies' = cookies /\ keychain' = keychain
         /\ begun' = begun /\ presses' = presses
         /\ started' = started /\ accounts' = accounts /\ expired' = expired /\ verified' = verified
         /\ keyOwner' = keyOwner
         /\ keysOut' = keysOut /\ keysRevoked' = keysRevoked /\ leftAccount' = leftAccount
         /\ givenUp' = givenUp
  BY DEF ServeLogin, appVars
<1>s1. /\ signInAt.step = "begins" /\ calls[SignInCall].at = "sent"
  BY DEF ServeLogin
<1>s2. /\ OnlyCall(SignInCall) /\ SignInCall \in Caller /\ DOMAIN calls'[SignInCall] = CallFields
       /\ calls'[SignInCall].at = "answered" /\ calls'[SignInCall].jar.session = 0
       /\ calls'[SignInCall].key = calls[SignInCall].key
       /\ calls'[SignInCall].account = calls[SignInCall].account
       /\ calls'[SignInCall].session \in {Nothing, calls[SignInCall].jar.session}
  BY <1>inv, CallersDiffer, AnswersCall DEF ServeLogin
<1>s3. /\ calls'[SignInCall].login \in {Nothing, Len(attempts) + 1}
       /\ attempts' \in Seq(Cookie \cup {0}) /\ Len(attempts') = Len(attempts) + 1
       /\ Len(attempts) \in Nat
  <2>1. Issued(calls[SignInCall].jar.session)
    BY <1>inv, CallersDiffer DEF AppShape, CallOK
  <2> QED
    BY <2>1, <1>inv, CallersDiffer, AnswersCall DEF ServeLogin, Issued, Accounts
<1>rest. /\ \A j \in StartCall : calls'[SessionCall(j)] = calls[SessionCall(j)]
         /\ \A j \in StartCall : calls'[KeyCall(j)] = calls[KeyCall(j)]
         /\ calls'[SignOutCall] = calls[SignOutCall]
  BY <1>s1, <1>s2, CallersDiffer DEF OnlyCall
<1>over. (Overlaps' <=> Overlaps) /\ (Cuts' <=> Cuts)
  BY DEF Overlaps, Cuts
<1>AppShape. AppShape'
  <2>1. Len(attempts) + 1 \in 0 .. SignInPresses
    BY <1>inv, <1>s1, AppModelAssumption DEF Accounts, AppShape
  <2>2. \A d \in Caller : CallOK(calls[d])'
    <3>1. CallOK(calls[SignInCall])'
      BY <2>1, <1>inv, <1>s1, <1>s2, <1>s3, <1>same DEF AppShape, CallOK, CallFields, Issued, Asked
    <3> QED
      BY <3>1, <1>inv, <1>s2, <1>same DEF AppShape, CallOK, OnlyCall, Issued
  <2> QED
    BY <2>2, <1>inv, <1>same, <1>s2 DEF AppShape, OnlyCall, Issued
<1>Accounts. Accounts'
  BY <1>inv, <1>same, <1>s1, <1>s2, <1>s3, <1>rest DEF Accounts
<1>InStep. InStep'
  BY <1>inv, <1>same, <1>s1, <1>s2, <1>rest DEF InStep, Told
<1>Chain. Chain'
  BY <1>inv, <1>same, <1>s1, <1>s2, <1>rest DEF Chain
<1>KeyAtHand. KeyAtHand'
  BY <1>inv, <1>same, <1>s1, <1>s2, <1>rest DEF KeyAtHand, Overlaps
<1>reg. Registered' => Registered
  BY <1>inv, <1>last, <1>same, <1>s1, <1>s2, <1>rest DEF Registered, Told, Numbers
<1>has. \A a : (Has(a) => Has(a)') /\ (Ended(a) => Ended(a)')
  BY <1>inv, <1>same, <1>s1, <1>s2 DEF Has, Ended
<1>Alone. ~Overlaps => Alone'
  BY <1>alone, <1>inv, <1>same, <1>s1, <1>s2, <1>rest DEF Alone
<1>KeyLeaves. ~Overlaps => KeyLeaves'
  BY <1>alone, <1>inv, <1>same, <1>s1, <1>s2, <1>rest DEF KeyLeaves, NoKeyOut, Told
<1>Jar. ~Overlaps => Jar'
  BY <1>alone, <1>inv, <1>same, <1>s1, <1>s2, <1>rest DEF Jar, AccountOf, Told
<1>SessionShown. ~Overlaps => SessionShown'
  BY <1>alone, <1>inv, <1>same, <1>s1, <1>s2, <1>rest DEF SessionShown, AccountOf, SignedIn, Cuts
<1>KeepsKey. ~Overlaps => KeepsKey'
  BY <1>alone, <1>inv, <1>same, <1>s1, <1>s2, <1>rest, <1>over, <1>reg, <1>has
  DEF KeepsKey, Left, SignedIn, AccountOf
<1>Overlapped. Overlaps /\ appScene \cap {"noSignal", "cutShort"} = {} => KeepsKeyOverlapped'
  BY <1>inv, <1>same, <1>s1, <1>s2, <1>rest, <1>reg, <1>has DEF AppIInv, KeepsKeyOverlapped
<1> QED
  BY <1>same, <1>over, <1>AppShape, <1>Accounts, <1>InStep, <1>Chain, <1>KeyAtHand, <1>Alone,
     <1>KeyLeaves, <1>Jar, <1>SessionShown, <1>KeepsKey, <1>Overlapped
  DEF AppIInv

\* A refused sign-in changes no account's sessions or keys.
LEMMA RefusesKeeps ==
  ASSUME AppIInv,
         ServeFinish, started' = started, UNCHANGED <<appScene, appVars, cookies>>
  PROVE  AppIInv'
<1>inv. AppShape /\ Accounts /\ InStep /\ Chain /\ KeyAtHand
  BY DEF AppIInv
<1>last. Numbers
  BY <1>inv, NumbersOK
<1>alone. ~Overlaps => Alone /\ KeyLeaves /\ Jar /\ SessionShown /\ KeepsKey
  BY DEF AppIInv
<1>same. /\ appScene' = appScene /\ phase' = phase /\ signInAt' = signInAt /\ signOutAt' = signOutAt
         /\ keyRegistration' = keyRegistration
         /\ registration' = registration /\ cookies' = cookies /\ keychain' = keychain
         /\ begun' = begun /\ presses' = presses
         /\ started' = started /\ accounts' = accounts /\ expired' = expired /\ attempts' = attempts
         /\ verified' = verified
         /\ keyOwner' = keyOwner /\ keysOut' = keysOut /\ keysRevoked' = keysRevoked
         /\ leftAccount' = leftAccount /\ givenUp' = givenUp
  BY <1>inv DEF ServeFinish, Accounts, apiVars, appVars
<1>s1. /\ signInAt.step = "finishes" /\ calls[SignInCall].at = "sent"
  BY DEF ServeFinish
<1>s2. /\ OnlyCall(SignInCall) /\ SignInCall \in Caller /\ DOMAIN calls'[SignInCall] = CallFields
       /\ calls'[SignInCall].at = "answered" /\ calls'[SignInCall].jar.session = 0
       /\ calls'[SignInCall].key = calls[SignInCall].key
       /\ calls'[SignInCall].account = calls[SignInCall].account
       /\ calls'[SignInCall].session = Nothing
       /\ calls'[SignInCall].says = "refused"
       /\ calls'[SignInCall].login \in {Nothing, 0}
  BY <1>inv, CallersDiffer, AnswersCall DEF ServeFinish, Accounts
<1>rest. /\ \A j \in StartCall : calls'[SessionCall(j)] = calls[SessionCall(j)]
         /\ \A j \in StartCall : calls'[KeyCall(j)] = calls[KeyCall(j)]
         /\ calls'[SignOutCall] = calls[SignOutCall]
  BY <1>s1, <1>s2, CallersDiffer DEF OnlyCall
<1>over. (Overlaps' <=> Overlaps) /\ (Cuts' <=> Cuts)
  BY DEF Overlaps, Cuts
<1>AppShape. AppShape'
  BY <1>inv, <1>same, <1>s1, <1>s2, <1>rest, AppModelAssumption
  DEF AppShape, CallOK, CallFields, Issued, Asked, OnlyCall
<1>Accounts. Accounts'
  BY <1>inv, <1>same, <1>s1, <1>s2, <1>rest DEF Accounts
<1>InStep. InStep'
  BY <1>inv, <1>same, <1>s1, <1>s2, <1>rest DEF InStep, Told
<1>Chain. Chain'
  BY <1>inv, <1>same, <1>s1, <1>s2, <1>rest DEF Chain
<1>KeyAtHand. KeyAtHand'
  BY <1>inv, <1>same, <1>s1, <1>s2, <1>rest DEF KeyAtHand, Overlaps
<1>reg. Registered' => Registered
  BY <1>inv, <1>last, <1>same, <1>s1, <1>s2, <1>rest DEF Registered, Told, Numbers
<1>has. \A a : (Has(a) => Has(a)') /\ (Ended(a) => Ended(a)')
  BY <1>inv, <1>same, <1>s1, <1>s2 DEF Has, Ended
<1>Alone. ~Overlaps => Alone'
  BY <1>alone, <1>inv, <1>same, <1>s1, <1>s2, <1>rest DEF Alone
<1>KeyLeaves. ~Overlaps => KeyLeaves'
  BY <1>alone, <1>inv, <1>same, <1>s1, <1>s2, <1>rest DEF KeyLeaves, NoKeyOut, Told
<1>Jar. ~Overlaps => Jar'
  BY <1>alone, <1>inv, <1>same, <1>s1, <1>s2, <1>rest DEF Jar, AccountOf, Told
<1>SessionShown. ~Overlaps => SessionShown'
  BY <1>alone, <1>inv, <1>same, <1>s1, <1>s2, <1>rest DEF SessionShown, AccountOf, SignedIn, Cuts
<1>KeepsKey. ~Overlaps => KeepsKey'
  BY <1>alone, <1>inv, <1>same, <1>s1, <1>s2, <1>rest, <1>over, <1>reg, <1>has
  DEF KeepsKey, Left, SignedIn, AccountOf
<1>Overlapped. Overlaps /\ appScene \cap {"noSignal", "cutShort"} = {} => KeepsKeyOverlapped'
  BY <1>inv, <1>same, <1>s1, <1>s2, <1>rest, <1>reg, <1>has DEF AppIInv, KeepsKeyOverlapped
<1> QED
  BY <1>same, <1>over, <1>AppShape, <1>Accounts, <1>InStep, <1>Chain, <1>KeyAtHand, <1>Alone,
     <1>KeyLeaves, <1>Jar, <1>SessionShown, <1>KeepsKey, <1>Overlapped
  DEF AppIInv

\* A sign-in that adopts the guest takes its keys and ends its sessions: the account
\* shown has ended, or the answer is on its way.
LEMMA SignsInKeeps ==
  ASSUME AppIInv,
         ServeFinish, started' # started, UNCHANGED <<appScene, appVars, cookies>>
  PROVE  AppIInv'
<1>inv. AppShape /\ Accounts /\ InStep /\ Chain /\ KeyAtHand
  BY DEF AppIInv
<1>last. Numbers
  BY <1>inv, NumbersOK
<1>alone. ~Overlaps => Alone /\ KeyLeaves /\ Jar /\ SessionShown /\ KeepsKey
  BY DEF AppIInv
<1> DEFINE current == SignedInTo(calls[SignInCall].jar.session)
<1> DEFINE guest == {current} \ (verified \cup {Nothing})
<1>same. /\ appScene' = appScene /\ phase' = phase /\ signInAt' = signInAt /\ signOutAt' = signOutAt
         /\ keyRegistration' = keyRegistration
         /\ registration' = registration /\ cookies' = cookies /\ keychain' = keychain
         /\ begun' = begun /\ presses' = presses
         /\ expired' = expired /\ attempts' = attempts /\ keysOut' = keysOut
         /\ keysRevoked' = keysRevoked /\ leftAccount' = leftAccount
         /\ givenUp' = givenUp
  BY DEF ServeFinish, appVars
<1>s1. /\ signInAt.step = "finishes" /\ calls[SignInCall].at = "sent"
       /\ started' = started + 1 /\ started' \in Cookie
  BY DEF ServeFinish, Accounts
<1>s2. /\ OnlyCall(SignInCall) /\ SignInCall \in Caller /\ DOMAIN calls'[SignInCall] = CallFields
       /\ calls'[SignInCall].at = "answered" /\ calls'[SignInCall].jar.session = 0
       /\ calls'[SignInCall].key = calls[SignInCall].key
       /\ calls'[SignInCall].account = calls[SignInCall].account
       /\ calls'[SignInCall].session = started'
       /\ calls'[SignInCall].says = "signedIn"
       /\ calls'[SignInCall].login \in {Nothing, 0}
  BY <1>inv, CallersDiffer, AnswersCall DEF ServeFinish, Accounts
<1>s3. PICK account \in verified \cup guest :
         /\ accounts' = [s \in Cookie |->
              IF s = started' THEN account
              ELSE IF (s = calls[SignInCall].jar.session /\ current # Nothing)
                \/ accounts[s] \in guest
                   THEN Nothing ELSE accounts[s]]
         /\ keyOwner' = [k \in PhoneKey |-> IF keyOwner[k] \in guest THEN account ELSE keyOwner[k]]
         /\ verified' = verified \cup {account}
  BY DEF ServeFinish
<1>s4. /\ current # Nothing => \E s \in Cookie : accounts[s] = current
       /\ guest = {} \/ guest = {current}
       /\ guest \subseteq Cookie \ verified /\ \A g \in guest : g <= started /\ g # Nothing
  <2>1. Issued(calls[SignInCall].jar.session)
    BY <1>inv, CallersDiffer DEF AppShape, CallOK
  <2>2. current # Nothing => \E s \in Cookie : accounts[s] = current
    BY <2>1 DEF Issued, SignedInTo, AccountOf
  <2> QED
    BY <2>2, <1>inv DEF Accounts, AppAccount
<1> HIDE DEF current, guest
<1>s5. /\ \A s \in Cookie : s # started' => accounts'[s] \in {Nothing, accounts[s]}
       /\ \A s \in Cookie : accounts[s] \in guest /\ s # started' => accounts'[s] = Nothing
       /\ accounts'[started'] = account /\ accounts' \in [Cookie -> AppAccount \cup {Nothing}]
       /\ account \in AppAccount
       /\ account # Nothing /\ (account \in Cookie => account <= started)
       /\ \A c \in Cookie : c <= started => c <= started' /\ c # started'
       /\ started' <= started'
  BY <1>inv, <1>s1, <1>s3, <1>s4, AppModelAssumption DEF Accounts, AppAccount
<1>rest. /\ \A j \in StartCall : calls'[SessionCall(j)] = calls[SessionCall(j)]
         /\ \A j \in StartCall : calls'[KeyCall(j)] = calls[KeyCall(j)]
         /\ calls'[SignOutCall] = calls[SignOutCall]
  BY <1>s1, <1>s2, <1>s3, <1>s4, CallersDiffer DEF OnlyCall
<1>over. (Overlaps' <=> Overlaps) /\ (Cuts' <=> Cuts)
  BY DEF Overlaps, Cuts
<1>AppShape. AppShape'
  <2>1. CallOK(calls[SignInCall])'
    BY <1>inv, <1>s1, <1>s2, AppModelAssumption DEF AppShape, CallOK, CallFields, Asked, Issued
  <2>2. \A d \in Caller : CallOK(calls[d])'
    BY <1>inv, <1>s1, <1>s2, <1>s5, <2>1 DEF AppShape, CallOK, OnlyCall, Issued
  <2> QED
    BY <2>2, <1>inv, <1>same, <1>s1, <1>s2, <1>s5 DEF AppShape, OnlyCall, Issued
<1>Accounts. Accounts'
  <2>1. started' \in Nat /\ presses.signIn # 0 /\ verified' \subseteq AppAccount /\ Emailed \subseteq verified'
    BY <1>inv, <1>s1, <1>s3, <1>s5 DEF Accounts, InStep
  <2>2. \A s \in Cookie : accounts'[s] # Nothing => s <= started'
    BY <1>inv, <1>s5 DEF Accounts
  <2>3. \A s \in Cookie : accounts'[s] \in Cookie => accounts'[s] <= started'
    BY <1>inv, <1>s5 DEF Accounts
  <2>4. \A s \in Cookie : accounts'[s] \in Cookie \ verified' => accounts'[s] = s
    BY <1>inv, <1>s3, AppModelAssumption DEF Accounts
  <2>5. \A a \in verified' \cap Cookie : a <= started'
    BY <1>inv, <1>s3, <1>s5 DEF Accounts
  <2>6. keyOwner' \in [PhoneKey -> AppAccount \cup {Nothing}]
    BY <1>inv, <1>s3, <1>s5 DEF Accounts
  <2>7. /\ expired \subseteq Cookie /\ attempts \in Seq(Cookie \cup {0})
        /\ Len(attempts) <= presses.signIn
    BY <1>inv DEF Accounts
  <2> QED
    BY <2>1, <2>2, <2>3, <2>4, <2>5, <2>6, <2>7, <1>same, <1>s1, <1>s2, <1>s5 DEF Accounts
<1>InStep. InStep'
  BY <1>inv, <1>same, <1>s1, <1>s2, <1>s3, <1>s4, <1>s5, <1>rest DEF InStep, Told
<1>Chain. Chain'
  BY <1>inv, <1>same, <1>s1, <1>s2, <1>s3, <1>s4, <1>s5, <1>rest DEF Chain
<1>KeyAtHand. KeyAtHand'
  BY <1>inv, <1>same, <1>s1, <1>s2, <1>s3, <1>s4, <1>s5, <1>rest DEF KeyAtHand, Overlaps
<1>reg. Registered' => Registered
  BY <1>inv, <1>last, <1>same, <1>s1, <1>s2, <1>s3, <1>s4, <1>s5, <1>rest
  DEF Registered, Told, Numbers
<1>has. \A a \in AppAccount : (Has(a) => Has(a)' \/ Ended(a)') /\ (Ended(a) => Ended(a)')
  <2>1. ASSUME NEW a \in AppAccount, Ended(a) PROVE Ended(a)'
    <3>1. a # account /\ a # Nothing
      BY <2>1, <1>s3, <1>s4, AppModelAssumption DEF Ended
    <3> QED
      BY <2>1, <3>1, <1>s3, <1>s5 DEF Ended
  <2>2. ASSUME NEW a \in AppAccount, Has(a), a \notin guest \/ a = account PROVE Has(a)'
    BY <2>2, <1>same, <1>s3 DEF Has
  <2>3. ASSUME NEW a \in AppAccount, a \in guest, a # account PROVE Ended(a)'
    BY <2>3, <1>s3, <1>s4, <1>s5 DEF Ended
  <2> QED
    BY <2>1, <2>2, <2>3
<1>Alone. ~Overlaps => Alone'
  BY <1>alone, <1>inv, <1>same, <1>s1, <1>s2, <1>s3, <1>s4, <1>s5, <1>rest DEF Alone
<1>KeyLeaves. ~Overlaps => KeyLeaves'
  <2> SUFFICES ASSUME ~Overlaps PROVE KeyLeaves'
    OBVIOUS
  <2>1. \A k \in PhoneKey : keyOwner'[k] # Nothing => keyOwner[k] # Nothing
    BY <1>s3, <1>s4
  <2>2. calls[SignOutCall].at = "none"
    BY <1>alone, <1>inv, <1>s1 DEF Alone, InStep
  <2> QED
    BY <2>1, <2>2, <1>alone, <1>same, <1>rest DEF KeyLeaves, NoKeyOut, Told
<1>Jar. ~Overlaps => Jar'
  BY <1>alone, <1>inv, <1>same, <1>s1, <1>s2, <1>s3, <1>s4, <1>s5, <1>rest
  DEF Jar, AccountOf, Told, InStep, Alone
<1>SessionShown. ~Overlaps => SessionShown'
  <2> SUFFICES ASSUME ~Overlaps PROVE SessionShown'
    OBVIOUS
  <2>1. \A i \in StartCall : calls'[SessionCall(i)].at = "none"
    BY <1>alone, <1>inv, <1>s1, <1>rest DEF Alone, AppShape, CallOK, Asked
  <2>2. AccountOf(cookies.session)' \in {Nothing, AccountOf(cookies.session)}
    BY <1>inv, <1>s5 DEF AccountOf, AppShape, Issued
  <2> QED
    BY <2>1, <2>2, <1>alone, <1>same, <1>over, <1>s1 DEF SessionShown, SignedIn
<1>KeepsKey. ~Overlaps => KeepsKey'
  <2>ready. phase.is = "ready" => phase.account \in AppAccount /\ phase.account # Nothing
    BY <1>inv, <1>last, AppModelAssumption DEF Chain, AppAccount, Numbers
  <2>1. AccountOf(cookies.session)' \in {Nothing, AccountOf(cookies.session)}
    BY <1>inv, <1>s5 DEF AccountOf, AppShape, Issued
  <2>2. \A a : Left(a) /\ a # Nothing => Left(a)'
    BY <2>1, <1>same, <1>over DEF Left
  <2>3. ~SignedIn
    BY <1>s1 DEF SignedIn
  <2> QED
    BY <2>2, <2>3, <2>ready, <1>alone, <1>same, <1>over, <1>reg, <1>has DEF KeepsKey
<1>Overlapped. Overlaps /\ appScene \cap {"noSignal", "cutShort"} = {} => KeepsKeyOverlapped'
  <2>ready. phase.is = "ready" => phase.account \in AppAccount /\ phase.account # Nothing
    BY <1>inv, <1>last, AppModelAssumption DEF Chain, AppAccount, Numbers
  <2> QED
    BY <2>ready, <1>same, <1>reg, <1>has DEF AppIInv, KeepsKeyOverlapped
<1> QED
  BY <1>same, <1>over, <1>AppShape, <1>Accounts, <1>InStep, <1>Chain, <1>KeyAtHand, <1>Alone,
     <1>KeyLeaves, <1>Jar, <1>SessionShown, <1>KeepsKey, <1>Overlapped
  DEF AppIInv

\* The sign-out's key goes out with the session, if it is its account's.
LEMMA ServeLogoutKeeps ==
  ASSUME AppIInv,
         ServeLogout, UNCHANGED <<appScene, appVars, cookies>>
  PROVE  AppIInv'
<1>inv. AppShape /\ Accounts /\ InStep /\ Chain /\ KeyAtHand
  BY DEF AppIInv
<1>last. Numbers
  BY <1>inv, NumbersOK
<1>alone. ~Overlaps => Alone /\ KeyLeaves /\ Jar /\ SessionShown /\ KeepsKey
  BY DEF AppIInv
<1>same. /\ appScene' = appScene /\ phase' = phase /\ signInAt' = signInAt /\ signOutAt' = signOutAt
         /\ keyRegistration' = keyRegistration
         /\ registration' = registration /\ cookies' = cookies /\ keychain' = keychain
         /\ begun' = begun /\ presses' = presses
         /\ started' = started /\ expired' = expired /\ attempts' = attempts /\ verified' = verified
         /\ keyOwner' = keyOwner
         /\ keysRevoked' = keysRevoked /\ leftAccount' = leftAccount /\ givenUp' = givenUp
  BY DEF ServeLogout, appVars
<1>s1. /\ calls[SignOutCall].at = "sent" /\ signOutAt.step = "sent"
       /\ keysOut' = keysOut
            \cup {k \in {calls[SignOutCall].key} \ {Nothing} : AccountOf(calls[SignOutCall].jar.session) # Nothing /\ keyOwner[k] = AccountOf(calls[SignOutCall].jar.session)}
       /\ accounts' = [s \in Cookie |-> IF s = calls[SignOutCall].jar.session THEN Nothing
            ELSE accounts[s]]
  BY <1>inv DEF ServeLogout, InStep
<1>s2. /\ OnlyCall(SignOutCall) /\ SignOutCall \in Caller /\ DOMAIN calls'[SignOutCall] = CallFields
       /\ calls'[SignOutCall].at = "answered" /\ calls'[SignOutCall].jar.session = 0
       /\ calls'[SignOutCall].key = calls[SignOutCall].key
       /\ calls'[SignOutCall].account = calls[SignOutCall].account
       /\ calls'[SignOutCall].session = 0
       /\ calls'[SignOutCall].login = Nothing
       /\ calls'[SignOutCall].says = AccountOf(calls[SignOutCall].jar.session)
  BY <1>inv, CallersDiffer, AnswersCall DEF ServeLogout
<1>rest. /\ \A j \in StartCall : calls'[SessionCall(j)] = calls[SessionCall(j)]
         /\ \A j \in StartCall : calls'[KeyCall(j)] = calls[KeyCall(j)]
         /\ calls'[SignInCall] = calls[SignInCall]
  BY <1>s1, <1>s2, CallersDiffer DEF OnlyCall
<1>over. (Overlaps' <=> Overlaps) /\ (Cuts' <=> Cuts)
  BY DEF Overlaps, Cuts
<1>AppShape. AppShape'
  BY <1>inv, <1>same, <1>s1, <1>s2, <1>rest
  DEF AppShape, CallOK, CallFields, Issued, Asked, OnlyCall
<1>Accounts. Accounts'
  BY <1>inv, <1>same, <1>s1, <1>s2, <1>rest, AppModelAssumption DEF Accounts
<1>InStep. InStep'
  BY <1>inv, <1>same, <1>s1, <1>s2, <1>rest DEF InStep, Told
<1>Chain. Chain'
  BY <1>inv, <1>same, <1>s1, <1>s2, <1>rest DEF Chain
<1>KeyAtHand. KeyAtHand'
  BY <1>inv, <1>same, <1>s1, <1>s2, <1>rest DEF KeyAtHand, Overlaps
<1>reg. Registered' => Registered
  BY <1>inv, <1>last, <1>same, <1>s1, <1>s2, <1>rest DEF Registered, Told, Numbers
<1>has. \A a \in AppAccount : Ended(a) => Ended(a)'
  BY <1>same, <1>s1, AppModelAssumption DEF Ended, AppAccount
<1>Alone. ~Overlaps => Alone'
  BY <1>alone, <1>inv, <1>same, <1>s1, <1>s2, <1>rest DEF Alone
<1>KeyLeaves. ~Overlaps => KeyLeaves'
  BY <1>alone, <1>inv, <1>same, <1>s1, <1>s2, <1>rest DEF KeyLeaves, NoKeyOut, Told
<1>Jar. ~Overlaps => Jar'
  <2> SUFFICES ASSUME ~Overlaps PROVE Jar'
    OBVIOUS
  <2>1. calls[SignOutCall].jar.session = cookies.session
    BY <1>alone, <1>s1 DEF Jar
  <2>2. AccountOf(cookies.session)' = Nothing
    BY <2>1, <1>inv, <1>s1 DEF AccountOf, AppShape, Issued
  <2> QED
    BY <2>2, <1>alone, <1>same, <1>s1, <1>s2, <1>rest DEF Jar
<1>SessionShown. ~Overlaps => SessionShown'
  <2> SUFFICES ASSUME ~Overlaps PROVE SessionShown'
    OBVIOUS
  <2>1. calls[SignOutCall].jar.session = cookies.session
    BY <1>alone, <1>s1 DEF Jar
  <2>2. AccountOf(cookies.session)' = Nothing
    BY <2>1, <1>inv, <1>s1 DEF AccountOf, AppShape, Issued
  <2>3. \A i \in StartCall : calls'[SessionCall(i)].at = "none"
    BY <1>alone, <1>inv, <1>s1, <1>rest DEF Alone, AppShape, CallOK, Asked
  <2> QED
    BY <2>2, <2>3 DEF SessionShown
<1>KeepsKey. ~Overlaps => KeepsKey'
  <2>ready. phase.is = "ready" => phase.account \in AppAccount /\ phase.account # Nothing
    BY <1>inv, <1>last, AppModelAssumption DEF Chain, AppAccount, Numbers
  <2> SUFFICES ASSUME ~Overlaps, phase.is = "ready", Registered, Cuts => presses.signIn <= 1
              PROVE  Has(phase.account)' \/ Ended(phase.account)' \/ Left(phase.account)'
                \/ (~Cuts /\ SignedIn')
    BY <1>reg, <1>same, <1>over DEF KeepsKey
  <2>1. calls[SignOutCall].jar.session = cookies.session /\ Issued(cookies.session)
    BY <1>alone, <1>inv, <1>s1 DEF Jar, AppShape
  <2>2. AccountOf(cookies.session)' = Nothing
    BY <2>1, <1>s1 DEF AccountOf, Issued
  <2>3. signInAt.step = "idle"
    BY <1>alone, <1>s1 DEF Alone
  <2>4. CASE ~Cuts \/ presses.signIn = 1
    BY <2>2, <2>3, <2>4, <2>ready, <1>same, <1>over DEF Left
  <2>5. CASE Cuts /\ presses.signIn = 0 /\ AccountOf(cookies.session) = phase.account
    <3>1. cookies.session \in Cookie /\ accounts[cookies.session] = phase.account
      BY <2>1, <2>5, <2>ready DEF AccountOf, Issued
    <3>2. phase.account \in Cookie \ verified /\ phase.account <= started
      BY <2>5, <2>ready, <3>1, <1>inv, AppModelAssumption DEF Accounts, AppAccount
    <3>3. \A s \in Cookie : accounts[s] = phase.account => s = cookies.session
      BY <3>1, <3>2, <1>inv DEF Accounts
    <3>4. \A s \in Cookie : accounts'[s] # phase.account
      BY <2>1, <3>3, <1>s1, <2>ready
    <3> QED
      BY <3>2, <3>4, <1>same DEF Ended
  <2>6. CASE AccountOf(cookies.session) # phase.account
    <3>1. Has(phase.account) => Has(phase.account)'
      BY <2>1, <2>6, <1>s1, <1>same DEF Has
    <3>2. Left(phase.account) => Left(phase.account)'
      BY <2>2, <2>ready, <1>same, <1>over DEF Left
    <3>3. SignedIn' <=> SignedIn
      BY <1>same, <1>rest DEF SignedIn
    <3> QED
      BY <3>1, <3>2, <3>3, <2>ready, <1>has, <1>same, <1>alone DEF KeepsKey
  <2> QED
    BY <2>4, <2>5, <2>6, <1>last DEF Numbers
<1>Overlapped. Overlaps /\ appScene \cap {"noSignal", "cutShort"} = {} => KeepsKeyOverlapped'
  BY <1>inv, <1>same, <1>s1, <1>s2, <1>rest, <1>reg, <1>has DEF AppIInv, KeepsKeyOverlapped
<1> QED
  BY <1>same, <1>over, <1>AppShape, <1>Accounts, <1>InStep, <1>Chain, <1>KeyAtHand, <1>Alone,
     <1>KeyLeaves, <1>Jar, <1>SessionShown, <1>KeepsKey, <1>Overlapped
  DEF AppIInv

\* An expired session is still of its account, and the keys stay.
LEMMA ExpiresKeeps ==
  ASSUME AppIInv,
         Expires, UNCHANGED <<appScene, appVars, cookies>>
  PROVE  AppIInv'
<1>inv. AppShape /\ Accounts /\ InStep /\ Chain /\ KeyAtHand
  BY DEF AppIInv
<1>last. Numbers
  BY <1>inv, NumbersOK
<1>alone. ~Overlaps => Alone /\ KeyLeaves /\ Jar /\ SessionShown /\ KeepsKey
  BY DEF AppIInv
<1>same. /\ appScene' = appScene /\ phase' = phase /\ signInAt' = signInAt /\ signOutAt' = signOutAt
         /\ keyRegistration' = keyRegistration
         /\ registration' = registration /\ calls' = calls /\ cookies' = cookies
         /\ keychain' = keychain /\ begun' = begun
         /\ presses' = presses /\ started' = started /\ accounts' = accounts /\ attempts' = attempts
         /\ verified' = verified
         /\ keyOwner' = keyOwner /\ keysOut' = keysOut /\ keysRevoked' = keysRevoked
         /\ leftAccount' = leftAccount /\ givenUp' = givenUp
  BY DEF Expires, appVars
<1>s1. /\ expired' \subseteq Cookie
  BY <1>inv DEF Expires, Accounts, AppShape, Issued, SignedInTo, AccountOf
<1>over. (Overlaps' <=> Overlaps) /\ (Cuts' <=> Cuts)
  BY DEF Overlaps, Cuts
<1>AppShape. AppShape'
  BY <1>inv, <1>same, <1>s1, <1>over DEF AppShape, CallOK, CallFields, Issued, Asked
<1>Accounts. Accounts'
  BY <1>inv, <1>same, <1>s1, <1>over DEF Accounts
<1>InStep. InStep'
  BY <1>inv, <1>same, <1>s1, <1>over DEF InStep, Told
<1>Chain. Chain'
  BY <1>inv, <1>same, <1>s1, <1>over DEF Chain
<1>KeyAtHand. KeyAtHand'
  BY <1>inv, <1>same, <1>s1, <1>over DEF KeyAtHand, Overlaps
<1>reg. Registered' => Registered
  BY <1>inv, <1>same, <1>s1 DEF Registered, Told
<1>has. \A a : (Has(a) => Has(a)') /\ (Ended(a) => Ended(a)')
  BY <1>inv, <1>same, <1>s1 DEF Has, Ended
<1>Alone. ~Overlaps => Alone'
  BY <1>alone, <1>inv, <1>same, <1>s1, <1>over DEF Alone
<1>KeyLeaves. ~Overlaps => KeyLeaves'
  BY <1>alone, <1>inv, <1>same, <1>s1, <1>over DEF KeyLeaves, NoKeyOut, Told
<1>Jar. ~Overlaps => Jar'
  BY <1>alone, <1>inv, <1>same, <1>s1, <1>over DEF Jar, AccountOf, Told
<1>SessionShown. ~Overlaps => SessionShown'
  BY <1>alone, <1>inv, <1>same, <1>s1, <1>over DEF SessionShown, AccountOf, SignedIn, Cuts
<1>KeepsKey. ~Overlaps => KeepsKey'
  BY <1>alone, <1>inv, <1>same, <1>s1, <1>over, <1>reg, <1>has
  DEF KeepsKey, Left, SignedIn, AccountOf
<1>Overlapped. Overlaps /\ appScene \cap {"noSignal", "cutShort"} = {} => KeepsKeyOverlapped'
  BY <1>inv, <1>same, <1>s1, <1>over, <1>reg, <1>has DEF AppIInv, KeepsKeyOverlapped
<1> QED
  BY <1>same, <1>over, <1>AppShape, <1>Accounts, <1>InStep, <1>Chain, <1>KeyAtHand, <1>Alone,
     <1>KeyLeaves, <1>Jar, <1>SessionShown, <1>KeepsKey, <1>Overlapped
  DEF AppIInv

\* A revoked key is still its account's.
LEMMA RevokedKeeps ==
  ASSUME AppIInv, NEW k \in PhoneKey,
         Revoked(k), UNCHANGED <<appScene, appVars, cookies>>
  PROVE  AppIInv'
<1>inv. AppShape /\ Accounts /\ InStep /\ Chain /\ KeyAtHand
  BY DEF AppIInv
<1>last. Numbers
  BY <1>inv, NumbersOK
<1>alone. ~Overlaps => Alone /\ KeyLeaves /\ Jar /\ SessionShown /\ KeepsKey
  BY DEF AppIInv
<1>same. /\ appScene' = appScene /\ phase' = phase /\ signInAt' = signInAt /\ signOutAt' = signOutAt
         /\ keyRegistration' = keyRegistration
         /\ registration' = registration /\ calls' = calls /\ cookies' = cookies
         /\ keychain' = keychain /\ begun' = begun
         /\ presses' = presses /\ started' = started /\ accounts' = accounts /\ expired' = expired
         /\ attempts' = attempts
         /\ verified' = verified /\ keyOwner' = keyOwner /\ keysOut' = keysOut
         /\ leftAccount' = leftAccount /\ givenUp' = givenUp
  BY DEF Revoked, appVars
<1>s1. /\ keysRevoked' = keysRevoked \cup {k}
  BY DEF Revoked
<1>over. (Overlaps' <=> Overlaps) /\ (Cuts' <=> Cuts)
  BY DEF Overlaps, Cuts
<1>AppShape. AppShape'
  BY <1>inv, <1>same, <1>s1, <1>over DEF AppShape, CallOK, CallFields, Issued, Asked
<1>Accounts. Accounts'
  BY <1>inv, <1>same, <1>s1, <1>over DEF Accounts
<1>InStep. InStep'
  BY <1>inv, <1>same, <1>s1, <1>over DEF InStep, Told
<1>Chain. Chain'
  BY <1>inv, <1>same, <1>s1, <1>over DEF Chain
<1>KeyAtHand. KeyAtHand'
  BY <1>inv, <1>same, <1>s1, <1>over DEF KeyAtHand, Overlaps
<1>reg. Registered' => Registered
  BY <1>inv, <1>same, <1>s1 DEF Registered, Told
<1>has. \A a : (Has(a) => Has(a)') /\ (Ended(a) => Ended(a)')
  BY <1>inv, <1>same, <1>s1 DEF Has, Ended
<1>Alone. ~Overlaps => Alone'
  BY <1>alone, <1>inv, <1>same, <1>s1, <1>over DEF Alone
<1>KeyLeaves. ~Overlaps => KeyLeaves'
  BY <1>alone, <1>inv, <1>same, <1>s1, <1>over DEF KeyLeaves, NoKeyOut, Told
<1>Jar. ~Overlaps => Jar'
  BY <1>alone, <1>inv, <1>same, <1>s1, <1>over DEF Jar, AccountOf, Told
<1>SessionShown. ~Overlaps => SessionShown'
  BY <1>alone, <1>inv, <1>same, <1>s1, <1>over DEF SessionShown, AccountOf, SignedIn, Cuts
<1>KeepsKey. ~Overlaps => KeepsKey'
  BY <1>alone, <1>inv, <1>same, <1>s1, <1>over, <1>reg, <1>has
  DEF KeepsKey, Left, SignedIn, AccountOf
<1>Overlapped. Overlaps /\ appScene \cap {"noSignal", "cutShort"} = {} => KeepsKeyOverlapped'
  BY <1>inv, <1>same, <1>s1, <1>over, <1>reg, <1>has DEF AppIInv, KeepsKeyOverlapped
<1> QED
  BY <1>same, <1>over, <1>AppShape, <1>Accounts, <1>InStep, <1>Chain, <1>KeyAtHand, <1>Alone,
     <1>KeyLeaves, <1>Jar, <1>SessionShown, <1>KeepsKey, <1>Overlapped
  DEF AppIInv

\* The app begins so.
LEMMA AppInitInv == AppInit => AppIInv
<1> SUFFICES ASSUME AppInit PROVE AppIInv
  OBVIOUS
<1>1. /\ \A n \in StartCall : n \in Nat /\ n > 0 /\ ~(n <= 0) /\ (n > 1 <=> n # 1)
      /\ 0 \in 0 .. SignInPresses
  BY AppModelAssumption
<1>2. begun = 1 /\ begun \in StartCall /\ started = 0 /\ presses.signIn = 0
  BY AppModelAssumption DEF AppInit
<1>3. \A c \in Caller : c # SessionCall(1) => calls[c] = NoCall
  BY DEF AppInit
<1>4. calls[SessionCall(1)] = Request(Nothing, Nothing)
  BY <1>2, CallersDiffer DEF AppInit
<1>5. AppShape
  <2>1. CallOK(NoCall) /\ CallOK(Request(Nothing, Nothing))
    BY DEF CallOK, Request, NoCall, NoCookies, Asked, Issued
  <2>2. \A c \in Caller : CallOK(calls[c])
    BY <2>1, <1>3, <1>4
  <2> QED
    BY <2>2, <1>1, <1>2
    DEF AppInit, AppShape, Screen, NoSignIn, NoSignOut, NoRegistration, NoCookies,
       Issued
<1>6. Accounts
  BY <1>2, <1>3, CallersDiffer, AppModelAssumption DEF AppInit, Accounts, AppAccount, NoSignIn
<1>7. InStep
  BY <1>1, <1>2, <1>3, <1>4, CallersDiffer
  DEF AppInit, InStep, Request, NoCall, NoSignIn, NoSignOut, Told
<1>8. Chain /\ KeyAtHand
  BY <1>1, <1>2, <1>3, CallersDiffer DEF AppInit, Chain, KeyAtHand, NoRegistration, NoCall, Screen
<1>9. Alone /\ KeyLeaves /\ Jar
  BY <1>1, <1>2, <1>3, CallersDiffer
  DEF AppInit, Alone, KeyLeaves, NoKeyOut, Jar, NoRegistration, NoSignIn, NoSignOut, NoCall, Screen, Told
<1>10. SessionShown /\ KeepsKey /\ KeepsKeyOverlapped
  BY <1>1, <1>2, <1>3, <1>4, CallersDiffer
  DEF AppInit, SessionShown, KeepsKey, KeepsKeyOverlapped, Screen, Request, NoCall
<1> QED
  BY <1>5, <1>6, <1>7, <1>8, <1>9, <1>10 DEF AppIInv

\* A step of the app's own turns keeps it.
LEMMA AppTurnInv ==
  ASSUME AppIInv, AppTurn, UNCHANGED <<appScene, cookies, apiVars>>
  PROVE  AppIInv'
<1>1. CASE \E i \in StartCall : \/ SessionAnswered(i) \/ SessionFails(i)
                                \/ registerKey(i) \/ KeyAnswered(i) \/ KeyFails(i)
  BY <1>1, SessionAnsweredKeeps, SessionFailsKeeps, registerKeyKeeps, KeyAnsweredKeeps,
     KeyFailsKeeps
<1>2. CASE PressStart \/ PressSignIn \/ PressSignOut \/ Relaunch
  BY <1>2, PressStartKeeps, PressSignInKeeps, PressSignOutKeeps, RelaunchKeeps
<1>3. CASE SignInBegun \/ PageReturns \/ SignInFinished \/ SignInFails
  BY <1>3, SignInBegunKeeps, PageReturnsKeeps, SignedInAndStartsKeeps, SignInRefusedKeeps,
     SignInFailsKeeps
<1>4. CASE SignOutSends \/ SignOutAnswered \/ SignOutFails \/ dismissSignOutFailure
  BY <1>4, SignOutSendsKeeps, SignOutAnsweredKeeps, SignOutFailsKeeps, dismissSignOutFailureKeeps
<1> QED
  BY <1>1, <1>2, <1>3, <1>4 DEF AppTurn

\* Nor does the API break it.
LEMMA ApiTurnInv ==
  ASSUME AppIInv, ApiTurn, UNCHANGED <<appScene, appVars, cookies>>
  PROVE  AppIInv'
<1>1. CASE \E i \in StartCall : ServeStart(i) \/ ServeKey(i)
  BY <1>1, ResumesKeeps, BeginsGuestKeeps, ServeKeyKeeps
<1>2. CASE ServeLogin \/ ServeFinish \/ ServeLogout
  BY <1>2, ServeLoginKeeps, RefusesKeeps, SignsInKeeps, ServeLogoutKeeps
<1>3. CASE Expires \/ \E k \in PhoneKey : Revoked(k)
  BY <1>3, ExpiresKeeps, RevokedKeeps
<1> QED
  BY <1>1, <1>2, <1>3 DEF ApiTurn

\* The invariant is inductive.
LEMMA AppNextInv ==
  ASSUME AppIInv, [AppNext]_phoneVars
  PROVE  AppIInv'
<1>1. CASE UNCHANGED phoneVars
  BY <1>1 DEF phoneVars, appVars, apiVars, AppIInv, AppShape, Accounts, InStep, Chain, KeyAtHand,
     Alone, KeyLeaves, Jar, SessionShown, KeepsKey, KeepsKeyOverlapped, Overlaps, Cuts, CallOK,
     Issued, NoKeyOut, SignedIn, AccountOf, Registered, Has, Ended, Left
<1>2. CASE AppNext
  BY <1>2, AppTurnInv, ApiTurnInv, InterceptsKeeps, AppliesKeeps DEF AppNext
<1> QED
  BY <1>1, <1>2

\* The invariant implies what the run checks.
LEMMA AppInvFollows == AppIInv => AppModelInv
<1> SUFFICES ASSUME AppIInv PROVE AppModelInv
  OBVIOUS
<1>1. AppTypeOK
  BY DEF AppIInv, AppShape, Accounts, CallOK, Issued, Asked, AppTypeOK
<1>2. SignedOutForGood
  BY AppModelAssumption DEF AppIInv, KeyLeaves, SignedOutForGood, LiveKeys, Overlaps
<1>3. ShowsItsSession
  BY DEF AppIInv, SessionShown, SignedIn, ShowsItsSession, SomethingRuns, SignedInTo, Overlaps, Cuts
<1>4. KeyIsTheAccounts
  <2> SUFFICES ASSUME
        phase.is = "ready", ~SomethingRuns,
        Overlaps => appScene \cap {"noSignal", "cutShort"} = {}, Cuts => presses.signIn <= 1,
        Registered, SignedInTo(cookies.session) = phase.account
      PROVE  keychain # Nothing /\ keychain \in LiveKeys(phase.account) \cup keysRevoked
    BY DEF KeyIsTheAccounts, Overlaps, Cuts, Registered
  <2>1. phase.account \in AppAccount
    BY AppModelAssumption DEF AppIInv, AppShape, Chain
  <2>2. AccountOf(cookies.session) = phase.account /\ cookies.session \in Cookie
    BY <2>1, AppModelAssumption DEF AppIInv, AppShape, Issued, SignedInTo, AccountOf, AppAccount
  <2>3. ~Ended(phase.account) /\ ~Left(phase.account) /\ ~SignedIn
    BY <2>2, AppModelAssumption DEF Ended, Left, SignedIn, SomethingRuns, AccountOf
  <2>4. Has(phase.account)
    BY <2>3 DEF AppIInv, KeepsKey, KeepsKeyOverlapped, SomethingRuns
  <2> QED
    BY <2>4, AppModelAssumption DEF Has, LiveKeys
<1> QED
  BY <1>1, <1>2, <1>3, <1>4 DEF AppModelInv

\* The app's registrations form a chain of which one tries at a time, with the
\* Keychain's key, and with nothing overlapping the key and the session are the
\* account's shown: for every number of starts, sign-ins, sign-outs, sessions and
\* keys, and whatever fails, expires, is revoked or is killed.
THEOREM PhoneIInv == AppSpec => []AppIInv
<1> QED
  BY AppInitInv, AppNextInv, PTL DEF AppSpec

\* Once signed out the app has no key and left none live on the account, at rest it
\* shows its session's account, and the key that the API took is that account's.
THEOREM PhoneIsTrue == AppSpec => []AppModelInv
<1> QED
  BY PhoneIInv, AppInvFollows, PTL
=============================================================================
