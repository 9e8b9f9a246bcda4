------------------------------ MODULE MCPages -------------------------------
(***************************************************************************)
(* "Is this you?", the admin page's writes, a new match, and the iOS app's *)
(* session and key, one of them at a time.                                 *)
(***************************************************************************)
EXTENDS PlayerReview, Admin, NewMatch, AppModel

CONSTANTS m, x, acc

VARIABLE part

\* Administration: what each behaviour begins with.  `may` adds what else
\* happens in it.
Scene(roles, held, granted, who, edits, may) ==
  [presses |-> 1, roles |-> roles, held |-> held, granted |-> granted, who |-> who, edits |-> edits, may |-> may]
OneRole == [admin |-> BuiltIn]
TwoRoles == [admin |-> BuiltIn, user |-> {}]
Holding(ann, bob, guest) == [a |-> ann, b |-> bob, g |-> guest]

MCAdminScenes == {
  Scene(TwoRoles, Holding({"admin"}, {"admin"}, {"user"}), {}, {"a", "b"}, {"setRoles"}, {"focus"}),
  Scene(TwoRoles, Holding({"admin"}, {"user"}, {"user"}), {"user"}, {"a"}, {"setRoles", "deleteRole"},
        {"signIn", "lost", "leave"}),
  Scene(TwoRoles, Holding({"admin"}, {"admin"}, {}), {}, {"a", "b"}, {"updateRole", "deletePermission", "deleteRole"}, {}),
  Scene(TwoRoles, Holding({"admin"}, {}, {}), {}, {"a"}, Edits \ {"setRoles"}, {"focus", "leave"}),
  Scene(OneRole, Holding({"admin"}, {"admin"}, {}), {}, {"a", "b"}, {"revokeKey", "setRoles"}, {})}

\* What isn't looked at starts in one of its states.
PagesInit ==
  /\ part \in {"review", "admin", "new", "app"}
  /\ AdminInit /\ (part # "admin" => adminScene = CHOOSE s \in AdminScenes : TRUE)
  /\ NewInit /\ (part # "new" => newScene = CHOOSE s \in NewScenes : TRUE)
  /\ AppInit /\ (part # "app" => appScene = CHOOSE s \in AppScenes : TRUE)
  /\ ReviewInit
  /\ part # "review" =>
       reviewScene = (CHOOSE s \in ReviewScenes : TRUE) /\ scored = {} /\ asked[me] = {} /\ self = 1

PagesNext ==
  /\ UNCHANGED part
  /\ \/ part = "review" /\ ReviewNext /\ UNCHANGED <<adminVars, newVars, phoneVars>>
     \/ part = "admin" /\ AdminNext /\ UNCHANGED <<playerVars, reviewVars, newVars, phoneVars>>
     \/ part = "new" /\ NewNext /\ UNCHANGED <<playerVars, reviewVars, adminVars, phoneVars>>
     \/ part = "app" /\ AppNext /\ UNCHANGED <<playerVars, reviewVars, adminVars, newVars>>

PagesSpec == PagesInit /\ [][PagesNext]_<<part, playerVars, reviewVars, adminVars, newVars, phoneVars>>
=============================================================================
