---------------------------- MODULE SignInProofs ----------------------------
(***************************************************************************)
(* Proofs about sign-in for any accounts, browsers, tabs and identities:   *)
(* whatever requests overlap, an email has one account and an adopted      *)
(* guest nothing, an attempt serves once, and SignIn implements Accounts.  *)
(***************************************************************************)
EXTENDS SignIn, TLAPS

\* A transaction has a lock, or will have it before its next statement.
Locked(h, l) == \E m \in h : Covers(m, l)
Asked(h, w, l) == l \in w \/ Locked(h, l)

\* No two transactions have locks that conflict.
LocksExclude ==
  \A r, q \in Request : r # q =>
    \A l \in held[r], m \in held[q] : ~Conflict(l, m)

Places == {"idle", "valid", "found", "resume", "attempt", "browser", "email",
           "account", "sessions", "commit", "write", "answered", "done"}
OwnerFound == {"AlreadySignedIn", "AdoptGuest", "SwitchAccount"}

RequestType ==
  [at : Places, route : Routes \cup {None}, browser : Browser \cup {None},
   token : Session \cup {None}, login : Attempt \cup {None},
   attempt : Attempt \cup {None}, found : Account \cup {None},
   current : Account \cup {None}, guest : BOOLEAN, sub : Sub \cup {None},
   outcome : Outcomes \cup {None}, into : Account \cup {None},
   hasSelf : BOOLEAN, doomed : SUBSET Session,
   answer : [session : SUBSET (Session \cup {None}), login : SUBSET (Attempt \cup {None})]]

RowTypes ==
  /\ AccountsTypeOK
  /\ selves \in [Account -> Nat] /\ owners \subseteq Account
  /\ sessionOf \in [Session -> Account \cup {None}]
  /\ attempts \in [Attempt -> AttemptRows \cup {None}]
  /\ identity \in [Sub -> Account \cup {None}]
  /\ born \in [Session -> {"guest", "verified", None}]
  /\ began \in [Attempt -> Browser \cup {None}]
  /\ signedIn \subseteq Attempt \X Request \X Browser

Types ==
  /\ RowTypes
  /\ jar \in [Browser -> Cookies]
  /\ req \in [Request -> RequestType]
  /\ waits = [r \in Request |-> waits[r]] /\ held = [r \in Request |-> held[r]]

-----------------------------------------------------------------------------
\* What a transaction may rely on from a statement to the next: q is its
\* request, h the locks it has and w those it waits for.

\* A callback past its attempt's row, past its browser's check, past
\* resolve_login(), and past Doomed.
InCallback(q) ==
  \/ q.at \in {"browser", "email", "account"}
  \/ q.at \in {"sessions", "commit"} /\ q.route = "callback"
SigningIn(q) == InCallback(q) /\ q.at # "browser"
Resolved(q) == InCallback(q) /\ q.at \notin {"browser", "email"}
Ending(q) == InCallback(q) /\ q.at \in {"sessions", "commit"}

\* A request has its browser, and the account its session's row joined to.
FoundInv(q, h, w) ==
  /\ q.at \in {"idle", "answered", "done"} => h = {} /\ w = {}
  /\ q.at \notin {"idle", "done"} => q.browser # None
  /\ q.found # None => q.token # None
  /\ q.found # None /\ q.at \in {"found", "browser"} =>
       Asked(h, w, ForUpdate("accounts", q.found))
  /\ q.found # None /\ (q.at = "resume" \/ SigningIn(q)) =>
       Locked(h, ForUpdate("accounts", q.found))
  /\ q.at = "resume" => q.found # None /\ kind[q.found] # "adopted"
  /\ q.at = "write" => q.found # None

\* A callback's attempt isn't used, and its own browser began it. A guest it
\* found is still one.
AttemptInv(q, h, w) ==
  /\ q.at = "attempt" => /\ q.attempt # None
                         /\ Asked(h, w, ForUpdate("login_attempts", q.attempt))
  /\ InCallback(q) => /\ q.attempt # None /\ attempts[q.attempt] # None
                      /\ Locked(h, ForUpdate("login_attempts", q.attempt))
  /\ SigningIn(q) => /\ q.sub # None
                     /\ began[q.attempt] = q.browser
                     /\ q.current # None => q.current = q.found
                     /\ q.guest => q.current # None /\ kind[q.current] = "guest"

\* An owner that was found has the email, and one that wasn't is still missing.
OutcomeInv(q, h, w) ==
  /\ q.at = "email" => Asked(h, w, ForUpdate("emails", mail[q.sub]))
  /\ q.at = "account" /\ q.outcome = "AdoptGuest" => Asked(h, w, ForUpdate("accounts", q.into))
  /\ Resolved(q) =>
       /\ Locked(h, ForUpdate("emails", mail[q.sub]))
       /\ q.outcome # None
       /\ q.outcome \in {"AdoptGuest", "VerifyInPlace"} => q.guest
       /\ q.outcome \in {"CreateAccount", "VerifyInPlace"} => ~Owned(mail[q.sub])
       /\ q.outcome = "CreateAccount" => ~q.guest
       /\ q.outcome = "VerifyInPlace" => q.into = q.current
       /\ q.outcome \in OwnerFound => q.into # None /\ email[q.into] = mail[q.sub]

\* The sessions that end are all of a guest's, and whether the account that
\* adopts has a self player is still so.
EndingInv(q, h, w) ==
  Ending(q) =>
    /\ q.guest => \A s \in Session : sessionOf[s] = q.current => s \in q.doomed
    /\ q.outcome = "AdoptGuest" => /\ Locked(h, ForUpdate("accounts", q.into))
                                   /\ q.hasSelf <=> selves[q.into] > 0

RequestInv(q, h, w) ==
  FoundInv(q, h, w) /\ AttemptInv(q, h, w) /\ OutcomeInv(q, h, w) /\ EndingInv(q, h, w)

RequestsInv == \A r \in Request : RequestInv(req[r], held[r], waits[r])

-----------------------------------------------------------------------------
\* A browser has a session or a login's cookie, or an answer brings it one.
Carries(b, s) ==
  \/ jar[b].session = s
  \/ \E r \in Request : req[r].browser = b /\ (req[r].token = s \/ s \in req[r].answer.session)

CarriesLogin(b, a) ==
  \/ jar[b].login = a
  \/ \E r \in Request : req[r].browser = b /\ (req[r].login = a \/ a \in req[r].answer.login)

\* A session is one browser's, which began the attempts that are bound to it.
CookiesInv ==
  /\ \A b \in Browser, s \in Session : Carries(b, s) =>
       /\ born[s] # None
       /\ \A c \in Browser : Carries(c, s) => b = c
       /\ \A a \in Attempt : attempts[a] # None /\ attempts[a].session = s => began[a] = b
  /\ \A b \in Browser, a \in Attempt : CarriesLogin(b, a) => began[a] = b

\* The row of an attempt has its session's row, and goes as it signs in.
AttemptRowsInv ==
  /\ \A a \in Attempt : attempts[a] # None =>
       /\ began[a] # None
       /\ attempts[a].session # None =>
            attempts[a].withSession /\ sessionOf[attempts[a].session] # None
  /\ \A x \in signedIn : attempts[x[1]] = None /\ began[x[1]] = x[3]

\* The inductive invariant.
IInv ==
  /\ Types /\ LocksExclude /\ RequestsInv
  /\ CookiesInv /\ AttemptRowsInv /\ AttemptsServeOnce
  /\ OneAccountPerEmail /\ IdentitiesMatch /\ NothingLeftBehind /\ OneSelfPlayer
  /\ GuestSessionsEnd

-----------------------------------------------------------------------------
\* A step changes what it has locked, a row nobody has yet, or what no other
\* request relies on.
Respects(r) ==
  /\ \A a \in Attempt : attempts[a] # None /\ attempts'[a] = None =>
       Locked(held[r], ForUpdate("login_attempts", a))
  /\ \A a \in Attempt : began[a] # None => began'[a] = began[a]
  /\ \A a \in Account : kind'[a] # kind[a] =>
       \/ kind[a] = "absent" /\ kind'[a] # "adopted"
       \/ Locked(held[r], ForUpdate("accounts", a))
  /\ \A a \in Account : email[a] # None => email'[a] = email[a]
  /\ \A e \in Email : Owned(e)' => Owned(e) \/ Locked(held[r], ForUpdate("emails", e))
  /\ \A s \in Session, a \in Account : sessionOf'[s] = a /\ sessionOf[s] # a =>
       kind[a] # "guest" \/ Locked(held[r], ForUpdate("accounts", a))
  /\ \A a \in Account : email[a] # None /\ selves'[a] # selves[a] =>
       Locked(held[r], ForUpdate("accounts", a))

\* Only request r moves.
OnlyMoves(r) ==
  \A x \in Request \ {r} : req'[x] = req[x] /\ held'[x] = held[x] /\ waits'[x] = waits[x]

LEMMA Exclusion ==
  ASSUME LocksExclude, NEW r \in Request, NEW x \in Request, r # x,
         NEW table, NEW row,
         Locked(held[r], ForUpdate(table, row)), Locked(held[x], ForUpdate(table, row))
  PROVE  FALSE
BY DEF LocksExclude, Locked, Covers, Conflict, ForUpdate

\* What a request relies on, the steps of the others leave alone.
LEMMA OthersUndisturbed ==
  ASSUME SignInAssumption, AccountsAssumption, Types, LocksExclude, NEW r \in Request,
         NEW x \in Request, x # r,
         OnlyMoves(r), Respects(r),
         RequestInv(req[x], held[x], waits[x])
  PROVE  RequestInv(req[x], held[x], waits[x])'
<1> DEFINE q == req[x]
           h == held[x]
           w == waits[x]
<1>1. /\ req'[x] = q /\ held'[x] = h /\ waits'[x] = w
      /\ q \in RequestType
  BY DEF OnlyMoves, Types
<1>2. \A l : Locked(h, l)' <=> Locked(h, l)
  BY <1>1 DEF Locked, Covers
<1>3. \A l : Asked(h, w, l)' <=> Asked(h, w, l)
  BY <1>1, <1>2 DEF Asked
<1>4. FoundInv(q, h, w)'
  <2>1. q.at = "resume" => kind'[q.found] # "adopted"
    <3> SUFFICES ASSUME q.at = "resume" PROVE kind'[q.found] # "adopted"
      OBVIOUS
    <3>1. q.found \in Account /\ kind[q.found] # "adopted" /\ Locked(h, ForUpdate("accounts", q.found))
      BY <1>1 DEF RequestInv, FoundInv, RequestType
    <3>2. ~Locked(held[r], ForUpdate("accounts", q.found))
      BY <3>1, Exclusion
    <3> QED BY <3>1, <3>2 DEF Respects
  <2> QED BY <1>1, <1>2, <1>3, <2>1 DEF RequestInv, FoundInv, SigningIn, InCallback
<1>5. AttemptInv(q, h, w)'
  <2>1. InCallback(q) => attempts'[q.attempt] # None
    <3> SUFFICES ASSUME InCallback(q) PROVE attempts'[q.attempt] # None
      OBVIOUS
    <3>1. q.attempt \in Attempt /\ attempts[q.attempt] # None /\ Locked(h, ForUpdate("login_attempts", q.attempt))
      BY <1>1 DEF RequestInv, AttemptInv, RequestType
    <3>2. ~Locked(held[r], ForUpdate("login_attempts", q.attempt))
      BY <3>1, Exclusion
    <3> QED BY <3>1, <3>2 DEF Respects
  <2>2. SigningIn(q) => began'[q.attempt] = q.browser
    <3> SUFFICES ASSUME SigningIn(q) PROVE began'[q.attempt] = q.browser
      OBVIOUS
    <3>1. q.attempt \in Attempt /\ began[q.attempt] = q.browser /\ q.browser # None
      BY <1>1 DEF RequestInv, AttemptInv, FoundInv, SigningIn, InCallback, RequestType
    <3> QED BY <3>1 DEF Respects
  <2>3. SigningIn(q) /\ q.guest => kind'[q.current] = "guest"
    <3> SUFFICES ASSUME SigningIn(q), q.guest PROVE kind'[q.current] = "guest"
      OBVIOUS
    <3>1. q.current \in Account /\ kind[q.current] = "guest" /\ Locked(h, ForUpdate("accounts", q.current))
      BY <1>1 DEF RequestInv, AttemptInv, FoundInv, RequestType
    <3>2. ~Locked(held[r], ForUpdate("accounts", q.current))
      BY <3>1, Exclusion
    <3> QED BY <3>1, <3>2 DEF Respects
  <2> QED BY <1>1, <1>2, <1>3, <2>1, <2>2, <2>3 DEF RequestInv, AttemptInv, SigningIn, InCallback
<1>6. OutcomeInv(q, h, w)'
  <2>1. Resolved(q) => mail[q.sub] \in Email /\ mail[q.sub] # None /\ Locked(h, ForUpdate("emails", mail[q.sub]))
    BY <1>1
       DEF RequestInv, AttemptInv, OutcomeInv, SigningIn, Resolved, RequestType,
           SignInAssumption, AccountsAssumption
  <2>2. Resolved(q) /\ q.outcome \in {"CreateAccount", "VerifyInPlace"} => ~Owned(mail[q.sub])'
    <3> SUFFICES ASSUME Resolved(q), q.outcome \in {"CreateAccount", "VerifyInPlace"}
                 PROVE  ~Owned(mail[q.sub])'
      OBVIOUS
    <3>1. ~Locked(held[r], ForUpdate("emails", mail[q.sub]))
      BY <2>1, Exclusion
    <3>2. ~Owned(mail[q.sub])
      BY DEF RequestInv, OutcomeInv
    <3>3. \A a \in Account : email'[a] # mail[q.sub]
      BY <2>1, <3>1, <3>2 DEF Respects, Owned
    <3> QED BY <1>1, <3>3 DEF Owned
  <2>3. Resolved(q) /\ q.outcome \in OwnerFound => email'[q.into] = mail[q.sub]
    <3>1. Resolved(q) /\ q.outcome \in OwnerFound => q.into \in Account /\ email[q.into] = mail[q.sub] /\ email[q.into] # None
      BY <1>1, <2>1 DEF RequestInv, OutcomeInv, RequestType
    <3> QED BY <3>1 DEF Respects
  <2>4. Owned(mail[q.sub])' <=> \E a \in Account : email'[a] = mail[q.sub]
    BY <1>1 DEF Owned
  <2> QED BY <1>1, <1>2, <1>3, <2>1, <2>2, <2>3 DEF RequestInv, OutcomeInv, Resolved, InCallback
<1>7. EndingInv(q, h, w)'
  <2> SUFFICES ASSUME Ending(q) PROVE EndingInv(q, h, w)'
    BY <1>1 DEF EndingInv, Ending, InCallback
  <2>1. SigningIn(q) /\ Resolved(q)
    BY DEF Ending, SigningIn, Resolved
  <2>2. q.guest => \A s \in Session : sessionOf'[s] = q.current => s \in q.doomed
    <3> SUFFICES ASSUME q.guest, NEW s \in Session, sessionOf'[s] = q.current PROVE s \in q.doomed
      OBVIOUS
    <3>1. q.current \in Account /\ kind[q.current] = "guest" /\ Locked(h, ForUpdate("accounts", q.current))
      BY <1>1, <2>1 DEF RequestInv, AttemptInv, FoundInv, RequestType
    <3>2. ~Locked(held[r], ForUpdate("accounts", q.current))
      BY <3>1, Exclusion
    <3>3. sessionOf[s] = q.current
      BY <3>1, <3>2 DEF Respects
    <3> QED BY <3>3 DEF RequestInv, EndingInv
  <2>3. q.outcome = "AdoptGuest" => selves'[q.into] = selves[q.into]
    <3> SUFFICES ASSUME q.outcome = "AdoptGuest" PROVE selves'[q.into] = selves[q.into]
      OBVIOUS
    <3>1. q.into \in Account /\ email[q.into] = mail[q.sub] /\ mail[q.sub] # None
      BY <1>1, <2>1
         DEF RequestInv, AttemptInv, OutcomeInv, OwnerFound, RequestType, SignInAssumption,
             AccountsAssumption
    <3>2. Locked(h, ForUpdate("accounts", q.into))
      BY DEF RequestInv, EndingInv
    <3>3. ~Locked(held[r], ForUpdate("accounts", q.into))
      BY <3>2, Exclusion
    <3> QED BY <3>1, <3>3 DEF Respects
  <2> QED BY <1>1, <1>2, <2>2, <2>3 DEF RequestInv, EndingInv
<1> QED BY <1>1, <1>4, <1>5, <1>6, <1>7 DEF RequestInv

-----------------------------------------------------------------------------
\* What a statement and an end of a transaction do to requests and locks.
Moves(r) ==
  /\ req' = [req EXCEPT ![r] = req'[r]]
  /\ held' = [held EXCEPT ![r] = held'[r]]
  /\ waits' = [waits EXCEPT ![r] = waits'[r]]

AnswerType == [session : SUBSET (Session \cup {None}), login : SUBSET (Attempt \cup {None})]

\* The answer of r, and nothing else, brings a browser a cookie.
Delivers(b, answer) ==
  /\ \A c \in Browser, s \in Session :
       Carries(c, s)' => Carries(c, s) \/ (c = b /\ s \in answer.session)
  /\ \A c \in Browser, a \in Attempt :
       CarriesLogin(c, a)' => CarriesLogin(c, a) \/ (c = b /\ a \in answer.login)

LEMMA StatementMoves ==
  ASSUME Types, NEW r \in Request, NEW STATE q, q \in RequestType, NEW STATE locks,
         Statement(r, q, locks)
  PROVE  /\ Moves(r) /\ OnlyMoves(r)
         /\ req'[r] = q /\ held' = held /\ jar' = jar
         /\ \A l : Locked(held[r], l)' <=> Locked(held[r], l)
         /\ \A l \in locks : Asked(held'[r], waits'[r], l)
<1>1. /\ req' = [req EXCEPT ![r] = q] /\ held' = held /\ jar' = jar
      /\ waits' = [waits EXCEPT ![r] = {l \in locks : \A m \in held[r] : ~Covers(m, l)}]
  BY DEF Statement
<1>2. req'[r] = q /\ waits'[r] = {l \in locks : \A m \in held[r] : ~Covers(m, l)}
  BY <1>1 DEF Types
<1>3. Moves(r) /\ OnlyMoves(r)
  BY <1>1, <1>2 DEF Types, Moves, OnlyMoves
<1>4. \A l : Locked(held[r], l)' <=> Locked(held[r], l)
  BY <1>1 DEF Locked, Covers
<1>5. \A l \in locks : Asked(held'[r], waits'[r], l)
  BY <1>1, <1>2 DEF Asked, Locked
<1> QED BY <1>1, <1>2, <1>3, <1>4, <1>5

LEMMA EndMoves ==
  ASSUME Types, LocksExclude, NEW r \in Request, NEW STATE b, b \in Browser, NEW STATE answer,
         answer \in AnswerType,
         End(r, b, answer), SignInAssumption
  PROVE  /\ Moves(r) /\ OnlyMoves(r) /\ jar' = jar
         /\ req'[r] \in RequestType /\ LocksExclude'
         /\ RequestInv(req[r], held[r], waits[r])'
         /\ Delivers(b, answer)
<1>1. /\ req' = [req EXCEPT ![r] = [NoRequest EXCEPT !.at = "answered", !.browser = b, !.answer = answer]]
      /\ waits' = [waits EXCEPT ![r] = {}] /\ held' = [held EXCEPT ![r] = {}] /\ jar' = jar
  BY DEF End
<1>2. /\ req'[r] = [NoRequest EXCEPT !.at = "answered", !.browser = b, !.answer = answer]
      /\ held'[r] = {} /\ waits'[r] = {}
  BY <1>1 DEF Types
<1>3. Moves(r) /\ OnlyMoves(r)
  BY <1>1, <1>2 DEF Types, Moves, OnlyMoves
<1>4. /\ req'[r] \in RequestType
      /\ req'[r].at = "answered" /\ req'[r].browser = b /\ req'[r].answer = answer
      /\ req'[r].token = None /\ req'[r].login = None /\ req'[r].found = None
  <2>1. "answered" \in Places
    BY DEF Places
  <2>2. req'[r] = [at |-> "answered", route |-> None, browser |-> b, token |-> None, login |-> None,
                   attempt |-> None, found |-> None, current |-> None, guest |-> FALSE, sub |-> None,
                   outcome |-> None, into |-> None, hasSelf |-> FALSE, doomed |-> {},
                   answer |-> answer]
    BY <1>2, ZenonT(40) DEF NoRequest
  <2>3. req'[r] \in RequestType
    BY <2>1, <2>2 DEF RequestType, AnswerType
  <2> QED BY <2>2, <2>3
<1>5. LocksExclude'
  BY <1>2, <1>3 DEF LocksExclude, OnlyMoves
<1>6. RequestInv(req[r], held[r], waits[r])'
  BY <1>2, <1>4 DEF RequestInv, FoundInv, AttemptInv, OutcomeInv, EndingInv,
                    SigningIn, Resolved, Ending, InCallback
<1>7. Delivers(b, answer)
  <2>1. None \notin Session \cup Attempt
    BY DEF SignInAssumption
  <2> QED BY <1>1, <1>3, <1>4, <2>1 DEF Delivers, Carries, CarriesLogin, OnlyMoves
<1> QED BY <1>1, <1>3, <1>4, <1>5, <1>6, <1>7

-----------------------------------------------------------------------------
\* A step that changes no row keeps the invariant when it keeps its own part.
LEMMA QuietStep ==
  ASSUME SignInAssumption, AccountsAssumption, IInv, NEW r \in Request,
         UNCHANGED <<dbVars, historyVars>>, Moves(r),
         req'[r] \in RequestType, jar' \in [Browser -> Cookies],
         LocksExclude', RequestInv(req[r], held[r], waits[r])',
         \A b \in Browser, s \in Session : Carries(b, s)' => Carries(b, s),
         \A b \in Browser, a \in Attempt : CarriesLogin(b, a)' => CarriesLogin(b, a)
  PROVE  IInv'
<1>1. /\ kind' = kind /\ email' = email /\ selves' = selves /\ owners' = owners
      /\ sessionOf' = sessionOf /\ attempts' = attempts /\ identity' = identity
      /\ born' = born /\ began' = began /\ signedIn' = signedIn
  BY DEF dbVars, historyVars, accountVars
<1>2. Types'
  BY <1>1 DEF IInv, Types, RowTypes, AccountsTypeOK, Moves
<1>3. OnlyMoves(r)
  BY DEF IInv, Types, Moves, OnlyMoves
<1>4. Respects(r)
  BY <1>1 DEF Respects, Owned
<1>5. RequestsInv'
  <2> SUFFICES ASSUME NEW x \in Request, x # r PROVE RequestInv(req[x], held[x], waits[x])'
    BY DEF RequestsInv
  <2> QED BY <1>3, <1>4, OthersUndisturbed DEF IInv, RequestsInv
<1>6. CookiesInv'
  BY <1>1 DEF IInv, CookiesInv
<1>7. /\ AttemptRowsInv' /\ AttemptsServeOnce' /\ OneAccountPerEmail'
      /\ IdentitiesMatch' /\ NothingLeftBehind' /\ OneSelfPlayer' /\ GuestSessionsEnd'
  BY <1>1 DEF IInv, AttemptRowsInv, AttemptsServeOnce, OneAccountPerEmail, IdentitiesMatch,
              NothingLeftBehind, OneSelfPlayer, GuestSessionsEnd
<1> QED BY <1>2, <1>5, <1>6, <1>7 DEF IInv

\* A request keeps its browser's cookies to itself, or comes with those it has.
SameCookies(r, q) ==
  \/ /\ q.browser = req[r].browser /\ q.token = req[r].token
     /\ q.login = req[r].login /\ q.answer = req[r].answer
  \/ /\ q.browser \in Browser /\ q.answer = NoCookies
     /\ q.token = jar[q.browser].session /\ q.login = jar[q.browser].login

LEMMA StatementStep ==
  ASSUME SignInAssumption, AccountsAssumption, IInv, NEW r \in Request,
         UNCHANGED <<dbVars, historyVars>>, NEW STATE q, q \in RequestType, NEW STATE locks,
         Statement(r, q, locks), SameCookies(r, q), RequestInv(req[r], held[r], waits[r])'
  PROVE  IInv'
<1>1. Types /\ LocksExclude
  BY DEF IInv
<1>2. Moves(r) /\ OnlyMoves(r) /\ req'[r] = q /\ held' = held /\ jar' = jar
  BY <1>1, StatementMoves
<1>3. LocksExclude'
  BY <1>1, <1>2 DEF LocksExclude
<1>4. \A b \in Browser, s \in Session : Carries(b, s)' => Carries(b, s)
  BY <1>1, <1>2 DEF Carries, SameCookies, NoCookies, OnlyMoves
<1>5. \A b \in Browser, a \in Attempt : CarriesLogin(b, a)' => CarriesLogin(b, a)
  BY <1>1, <1>2 DEF CarriesLogin, SameCookies, NoCookies, OnlyMoves
<1>6. jar' \in [Browser -> Cookies]
  BY <1>1, <1>2 DEF Types
<1> QED BY <1>2, <1>3, <1>4, <1>5, <1>6, QuietStep

LEMMA EndStep ==
  ASSUME SignInAssumption, AccountsAssumption, IInv, NEW r \in Request,
         UNCHANGED <<dbVars, historyVars>>,
         NEW STATE b, b \in Browser, NEW STATE answer, answer \in AnswerType,
         End(r, b, answer),
         \A s \in Session : s \notin answer.session,
         \A a \in Attempt : a \notin answer.login
  PROVE  IInv'
<1>1. Types /\ LocksExclude
  BY DEF IInv
<1>2. /\ Moves(r) /\ jar' = jar /\ req'[r] \in RequestType /\ LocksExclude'
      /\ RequestInv(req[r], held[r], waits[r])' /\ Delivers(b, answer)
  BY <1>1, EndMoves
<1>3. jar' \in [Browser -> Cookies]
  BY <1>1, <1>2 DEF Types
<1> QED BY <1>2, <1>3, QuietStep DEF Delivers

-----------------------------------------------------------------------------
\* The steps of a request that change no row.
LEMMA ReadyHasLocks ==
  ASSUME NEW r \in Request, NEW at, Ready(r, at)
  PROVE  req[r].at = at /\ \A l : Asked(held[r], waits[r], l) => Locked(held[r], l)
BY DEF Ready, Asked

CameFrom(q, b) ==
  /\ q \in RequestType /\ q.browser = b
  /\ q.token = jar[b].session /\ q.login = jar[b].login /\ q.answer = NoCookies
  /\ q.current = None /\ q.found = None /\ q.attempt = None /\ ~q.guest

LEMMA FromBrowser ==
  ASSUME Types, NEW b \in Browser, NEW route \in Routes
  PROVE  CameFrom(From(b, route), b)
<1>1. jar[b] \in Cookies
  BY DEF Types
<1>2. jar[b].session \in Session \cup {None} /\ jar[b].login \in Attempt \cup {None}
  BY <1>1 DEF Cookies
<1> QED BY <1>2 DEF CameFrom, From, NoRequest, NoCookies, RequestType, Places

LEMMA AccountOfType ==
  ASSUME Types, NEW token \in Session \cup {None}
  PROVE  AccountOf(token) \in Account \cup {None} /\ (AccountOf(token) # None => token # None)
BY DEF Types, RowTypes, AccountOf

\* find_session() on the way to `at`, from a request q whose locks are kept.
LEMMA FindSessionStep ==
  ASSUME SignInAssumption, AccountsAssumption, IInv, NEW r \in Request,
         UNCHANGED <<dbVars, historyVars>>, NEW STATE q, q \in RequestType, NEW at \in {"found",
         "browser"},
         FindSession(r, q, at), SameCookies(r, q), q.browser # None,
         at = "browser" => /\ q.attempt # None /\ attempts[q.attempt] # None
                           /\ Locked(held[r], ForUpdate("login_attempts", q.attempt))
  PROVE  IInv'
<1> DEFINE found == AccountOf(q.token)
           n == [q EXCEPT !.at = at, !.found = found]
           locks == IF found = None THEN {} ELSE {ForUpdate("accounts", found)}
<1>1. Statement(r, n, locks)
  BY DEF FindSession
<1>2. Types
  BY DEF IInv
<1>3. found \in Account \cup {None} /\ (found # None => q.token # None)
  BY <1>2, AccountOfType DEF RequestType
<1> HIDE DEF found
<1>4. /\ n.at = at /\ n.found = found /\ n.token = q.token
      /\ n.browser = q.browser /\ n.login = q.login /\ n.answer = q.answer
      /\ n.attempt = q.attempt
  BY DEF RequestType
<1>5. n \in RequestType
  <2>1. at \in Places
    BY DEF Places
  <2> QED BY <1>3, <2>1 DEF RequestType
<1> HIDE DEF n
<1>6. SameCookies(r, n)
  BY <1>4 DEF SameCookies
<1>7. /\ req'[r] = n
      /\ \A l : Locked(held[r], l)' <=> Locked(held[r], l)
      /\ \A l \in locks : Asked(held'[r], waits'[r], l)
  BY <1>1, <1>2, <1>5, StatementMoves
<1>8. attempts' = attempts
  BY DEF dbVars
<1>9. FoundInv(req[r], held[r], waits[r])'
  BY <1>3, <1>4, <1>7 DEF FoundInv, SigningIn, InCallback
<1>10. AttemptInv(req[r], held[r], waits[r])'
  BY <1>4, <1>7, <1>8 DEF AttemptInv, SigningIn, InCallback
<1>11. OutcomeInv(req[r], held[r], waits[r])' /\ EndingInv(req[r], held[r], waits[r])'
  BY <1>4, <1>7 DEF OutcomeInv, EndingInv, Resolved, Ending, InCallback
<1> HIDE DEF locks
<1> QED BY <1>1, <1>5, <1>6, <1>9, <1>10, <1>11, StatementStep DEF RequestInv

LEMMA StartSessionKeeps ==
  ASSUME SignInAssumption, AccountsAssumption, IInv, NEW r \in Request, NEW b \in Browser,
         StartSession(r, b)
  PROVE  IInv'
<1> DEFINE q == From(b, "session")
<1>1. UNCHANGED <<dbVars, historyVars>> /\ FindSession(r, q, "found")
  BY DEF StartSession
<1>2. Types /\ "session" \in Routes
  BY DEF StartSession, Comes, IInv
<1>3. CameFrom(q, b)
  BY <1>2, FromBrowser
<1> HIDE DEF q
<1>4. q \in RequestType /\ SameCookies(r, q) /\ q.browser # None
  BY <1>3 DEF CameFrom, SameCookies, SignInAssumption
<1> QED BY <1>1, <1>4, FindSessionStep

LEMMA LoginStartsSessionKeeps ==
  ASSUME SignInAssumption, AccountsAssumption, IInv, NEW r \in Request, LoginStartsSession(r)
  PROVE  IInv'
<1>1. UNCHANGED <<dbVars, historyVars>> /\ FindSession(r, req[r], "found") /\ req[r].at = "valid"
  BY DEF LoginStartsSession, Ready
<1>2. req[r] \in RequestType /\ req[r].browser # None
  BY <1>1 DEF IInv, Types, RequestsInv, RequestInv, FoundInv
<1> QED BY <1>1, <1>2, FindSessionStep DEF SameCookies

LEMMA LoginKeeps ==
  ASSUME SignInAssumption, AccountsAssumption, IInv, NEW r \in Request, NEW b \in Browser,
         Login(r, b)
  PROVE  IInv'
<1> DEFINE q == From(b, "login")
           n == [q EXCEPT !.at = "valid"]
<1>1. UNCHANGED <<dbVars, historyVars>> /\ Statement(r, n, {})
  BY DEF Login
<1>2. Types /\ "login" \in Routes
  BY DEF Login, Comes, IInv
<1>3. CameFrom(q, b)
  BY <1>2, FromBrowser
<1> HIDE DEF q
<1>4. n \in RequestType /\ n.at = "valid" /\ CameFrom(n, b)
  BY <1>3 DEF CameFrom, RequestType, Places
<1> HIDE DEF n
<1>5. req'[r] = n
  BY <1>1, <1>2, <1>4, StatementMoves
<1>6. RequestInv(req[r], held[r], waits[r])'
  BY <1>4, <1>5 DEF RequestInv, FoundInv, AttemptInv, OutcomeInv, EndingInv,
                    SigningIn, Resolved, Ending, InCallback, CameFrom, SignInAssumption
<1>7. SameCookies(r, n)
  BY <1>4 DEF CameFrom, SameCookies
<1> QED BY <1>1, <1>4, <1>6, <1>7, StatementStep

LEMMA ResumeKeeps ==
  ASSUME SignInAssumption, AccountsAssumption, IInv, NEW r \in Request, Resume(r)
  PROVE  IInv'
<1> DEFINE q == req[r]
           n == [q EXCEPT !.at = "resume"]
           locks == {ForUpdate("sessions", q.token)}
<1>1. /\ UNCHANGED <<dbVars, historyVars>> /\ Statement(r, n, locks)
      /\ Ready(r, "found") /\ Acts(q.found)
  BY DEF Resume
<1>2. Types /\ q \in RequestType /\ RequestInv(q, held[r], waits[r]) /\ kind' = kind
  BY <1>1 DEF IInv, Types, RequestsInv, dbVars, accountVars
<1>3. /\ n \in RequestType /\ n.at = "resume" /\ n.browser = q.browser /\ n.token = q.token
      /\ n.login = q.login /\ n.answer = q.answer /\ n.found = q.found
  BY <1>2 DEF RequestType, Places
<1> HIDE DEF n, locks
<1>4. /\ req'[r] = n
      /\ \A l : Locked(held[r], l)' <=> Locked(held[r], l)
  BY <1>1, <1>2, <1>3, StatementMoves
<1>5. q.at = "found" /\ \A l : Asked(held[r], waits[r], l) => Locked(held[r], l)
  BY <1>1, ReadyHasLocks
<1>6. FoundInv(req[r], held[r], waits[r])'
  BY <1>1, <1>2, <1>3, <1>4, <1>5 DEF RequestInv, FoundInv, Acts, SigningIn, InCallback
<1>7. RequestInv(req[r], held[r], waits[r])'
  BY <1>3, <1>4, <1>6 DEF RequestInv, AttemptInv, OutcomeInv, EndingInv,
                    SigningIn, Resolved, Ending, InCallback
<1>8. SameCookies(r, n)
  BY <1>3 DEF SameCookies
<1> QED BY <1>1, <1>3, <1>7, <1>8, StatementStep

LEMMA CallbackKeeps ==
  ASSUME SignInAssumption, AccountsAssumption, IInv, NEW r \in Request, NEW b \in Browser,
         NEW a \in Attempt, Callback(r, b, a)
  PROVE  IInv'
<1> DEFINE q == From(b, "callback")
           n == [q EXCEPT !.at = "attempt", !.attempt = a]
           locks == {ForUpdate("login_attempts", a)}
<1>1. UNCHANGED <<dbVars, historyVars>> /\ Statement(r, n, locks)
  BY DEF Callback
<1>2. Types /\ "callback" \in Routes
  BY DEF Callback, Comes, IInv
<1>3. CameFrom(q, b)
  BY <1>2, FromBrowser
<1> HIDE DEF q
<1>4. q \in RequestType
  BY <1>3 DEF CameFrom
<1>5. n \in RequestType
  <2>1. "attempt" \in Places
    BY DEF Places
  <2> QED BY <1>4, <2>1, ZenonT(40) DEF RequestType
<1>6. /\ n.at = "attempt" /\ n.attempt = a
      /\ n.browser = b /\ n.found = None
  BY <1>3, <1>4 DEF CameFrom, RequestType
<1>7. SameCookies(r, n)
  BY <1>3 DEF CameFrom, SameCookies, RequestType
<1> HIDE DEF n
<1>8. req'[r] = n /\ \A l \in locks : Asked(held'[r], waits'[r], l)
  BY <1>1, <1>2, <1>5, StatementMoves
<1>9. None \notin Attempt \cup Browser
  BY DEF SignInAssumption
<1>10. RequestInv(req[r], held[r], waits[r])'
  BY <1>6, <1>8, <1>9 DEF RequestInv, FoundInv, AttemptInv, OutcomeInv, EndingInv,
                    SigningIn, Resolved, Ending, InCallback
<1> HIDE DEF locks
<1> QED BY <1>1, <1>5, <1>7, <1>10, StatementStep

LEMMA FindBrowserKeeps ==
  ASSUME SignInAssumption, AccountsAssumption, IInv, NEW r \in Request, FindBrowser(r)
  PROVE  IInv'
<1>1. /\ UNCHANGED <<dbVars, historyVars>> /\ FindSession(r, req[r], "browser")
      /\ Ready(r, "attempt") /\ attempts[req[r].attempt] # None
  BY DEF FindBrowser
<1>2. req[r] \in RequestType /\ RequestInv(req[r], held[r], waits[r])
  BY DEF IInv, Types, RequestsInv
<1>3. req[r].at = "attempt" /\ \A l : Asked(held[r], waits[r], l) => Locked(held[r], l)
  BY <1>1, ReadyHasLocks
<1>4. /\ req[r].browser # None /\ req[r].attempt # None
      /\ Locked(held[r], ForUpdate("login_attempts", req[r].attempt))
  BY <1>2, <1>3 DEF RequestInv, FoundInv, AttemptInv
<1>5. SameCookies(r, req[r])
  BY DEF SameCookies
<1> QED BY <1>1, <1>2, <1>4, <1>5, FindSessionStep

\* Its browser's check says that it began the attempt.
LEMMA RightBrowserBegan ==
  ASSUME SignInAssumption, IInv, NEW r \in Request, Ready(r, "browser"), RightBrowser(req[r])
  PROVE  began[req[r].attempt] = req[r].browser
<1> DEFINE q == req[r]
           a == q.attempt
<1>1. /\ q.at = "browser" /\ q \in RequestType
      /\ RequestInv(q, held[r], waits[r])
  BY DEF Ready, IInv, Types, RequestsInv
<1>2. a \in Attempt /\ attempts[a] # None /\ q.browser \in Browser /\ (q.found # None => q.token # None)
  BY <1>1 DEF RequestInv, FoundInv, AttemptInv, InCallback, RequestType
<1>3. CASE attempts[a].withSession
  <2>1. q.found # None /\ q.token = attempts[a].session
    BY <1>3 DEF RightBrowser, Acts
  <2>2. q.token \in Session /\ Carries(q.browser, q.token)
    BY <1>1, <1>2, <2>1 DEF RequestType, Carries
  <2>3. \A x \in Attempt : attempts[x] # None /\ attempts[x].session = q.token => began[x] = q.browser
    BY <1>2, <2>2 DEF IInv, CookiesInv
  <2> QED BY <1>2, <2>1, <2>3
<1>4. CASE ~attempts[a].withSession
  <2>1. q.login = a
    BY <1>4 DEF RightBrowser
  <2>2. CarriesLogin(q.browser, a)
    BY <2>1 DEF CarriesLogin
  <2>3. \A b \in Browser, x \in Attempt : CarriesLogin(b, x) => began[x] = b
    BY DEF IInv, CookiesInv
  <2> QED BY <1>2, <2>2, <2>3
<1> QED BY <1>3, <1>4

\* The types of what Exchanges, Resolve and EndSessions read.
LEMMA ExchangedType ==
  ASSUME NEW q \in RequestType, NEW sub \in Sub, NEW current \in Account \cup {None},
         NEW guest \in BOOLEAN
  PROVE  [q EXCEPT !.at = "email", !.sub = sub, !.current = current, !.guest = guest]
           \in RequestType
<1> SUFFICES ASSUME NEW n, n = [q EXCEPT !.at = "email", !.sub = sub, !.current = current,
                    !.guest = guest]
             PROVE  n \in RequestType
  OBVIOUS
<1> DEFINE m == [at |-> "email", route |-> q.route, browser |-> q.browser, token |-> q.token,
                 login |-> q.login, attempt |-> q.attempt, found |-> q.found,
                 current |-> current, guest |-> guest, sub |-> sub, outcome |-> q.outcome,
                 into |-> q.into, hasSelf |-> q.hasSelf, doomed |-> q.doomed,
                 answer |-> q.answer]
<1>1. m \in RequestType
  BY DEF RequestType, Places
<1>2. n = m
  BY DEF RequestType
<1> QED BY <1>1, <1>2

LEMMA ResolvedType ==
  ASSUME NEW q \in RequestType, NEW outcome \in Outcomes, NEW into \in Account \cup {None}
  PROVE  [q EXCEPT !.at = "account", !.outcome = outcome, !.into = into] \in RequestType
<1> SUFFICES ASSUME NEW n, n = [q EXCEPT !.at = "account", !.outcome = outcome, !.into = into]
             PROVE  n \in RequestType
  OBVIOUS
<1> DEFINE m == [at |-> "account", route |-> q.route, browser |-> q.browser, token |-> q.token,
                 login |-> q.login, attempt |-> q.attempt, found |-> q.found,
                 current |-> q.current, guest |-> q.guest, sub |-> q.sub, outcome |-> outcome,
                 into |-> into, hasSelf |-> q.hasSelf, doomed |-> q.doomed,
                 answer |-> q.answer]
<1>1. m \in RequestType
  BY DEF RequestType, Places
<1>2. n = m
  BY DEF RequestType
<1> QED BY <1>1, <1>2

LEMMA EndingType ==
  ASSUME NEW q \in RequestType, NEW doomed \in SUBSET Session, NEW hasSelf \in BOOLEAN
  PROVE  [q EXCEPT !.at = "sessions", !.doomed = doomed, !.hasSelf = hasSelf] \in RequestType
<1> SUFFICES ASSUME NEW n, n = [q EXCEPT !.at = "sessions", !.doomed = doomed,
                    !.hasSelf = hasSelf]
             PROVE  n \in RequestType
  OBVIOUS
<1> DEFINE m == [at |-> "sessions", route |-> q.route, browser |-> q.browser, token |-> q.token,
                 login |-> q.login, attempt |-> q.attempt, found |-> q.found,
                 current |-> q.current, guest |-> q.guest, sub |-> q.sub, outcome |-> q.outcome,
                 into |-> q.into, hasSelf |-> hasSelf, doomed |-> doomed,
                 answer |-> q.answer]
<1>1. m \in RequestType
  BY DEF RequestType, Places
<1>2. n = m
  BY DEF RequestType
<1> QED BY <1>1, <1>2

LEMMA ExchangesKeeps ==
  ASSUME SignInAssumption, AccountsAssumption, IInv, NEW r \in Request, NEW sub \in Sub,
         Exchanges(r, sub)
  PROVE  IInv'
<1> DEFINE q == req[r]
           current == IF Acts(q.found) THEN q.found ELSE None
           guest == current # None /\ kind[current] = "guest"
           n == [q EXCEPT !.at = "email", !.sub = sub, !.current = current, !.guest = guest]
           locks == EmailLock(sub)
<1>1. /\ UNCHANGED <<dbVars, historyVars>> /\ Statement(r, n, locks)
      /\ Ready(r, "browser") /\ RightBrowser(q)
  BY DEF Exchanges
<1>2. /\ Types /\ q \in RequestType /\ RequestInv(q, held[r], waits[r])
      /\ kind' = kind /\ attempts' = attempts /\ began' = began
  BY <1>1 DEF IInv, Types, RequestsInv, dbVars, accountVars, historyVars
<1>3. current \in Account \cup {None} /\ guest \in BOOLEAN
  BY <1>2 DEF RequestType
<1> HIDE DEF current, guest
<1>4. /\ n.at = "email" /\ n.browser = q.browser /\ n.token = q.token
      /\ n.login = q.login /\ n.answer = q.answer /\ n.found = q.found /\ n.attempt = q.attempt
      /\ n.current = current /\ n.guest = guest /\ n.sub = sub
  BY <1>2 DEF RequestType
<1>5. n \in RequestType
  BY <1>2, <1>3, ExchangedType
<1> HIDE DEF n
<1>6. /\ req'[r] = n
      /\ \A l : Locked(held[r], l)' <=> Locked(held[r], l)
      /\ \A l \in locks : Asked(held'[r], waits'[r], l)
  BY <1>1, <1>2, <1>5, StatementMoves
<1>7. q.at = "browser" /\ \A l : Asked(held[r], waits[r], l) => Locked(held[r], l)
  BY <1>1, ReadyHasLocks
<1>8. began[q.attempt] = q.browser
  BY <1>1, RightBrowserBegan
<1>9. FoundInv(req[r], held[r], waits[r])'
  BY <1>2, <1>4, <1>6, <1>7 DEF RequestInv, FoundInv, SigningIn, InCallback
<1>10. AttemptInv(req[r], held[r], waits[r])'
  <2>1. None \notin Sub
    BY DEF SignInAssumption
  <2>2. /\ current # None => current = q.found
        /\ guest => current # None /\ kind[current] = "guest"
    BY DEF current, guest
  <2> QED BY <1>2, <1>4, <1>6, <1>7, <1>8, <2>1, <2>2
             DEF RequestInv, AttemptInv, SigningIn, InCallback
<1>11. OutcomeInv(req[r], held[r], waits[r])' /\ EndingInv(req[r], held[r], waits[r])'
  BY <1>4, <1>6 DEF OutcomeInv, EndingInv, Resolved, Ending, InCallback, EmailLock
<1>12. SameCookies(r, n)
  BY <1>4 DEF SameCookies
<1> HIDE DEF locks
<1> QED BY <1>1, <1>5, <1>9, <1>10, <1>11, <1>12, StatementStep DEF RequestInv

\* An owner that is found has the email, and is found where there is one.
LEMMA OwnerFacts ==
  ASSUME SignInAssumption, AccountsAssumption, Types, IdentitiesMatch, NEW sub \in Sub
  PROVE  /\ Owner(sub) \in Account \cup {None}
         /\ Owner(sub) # None => email[Owner(sub)] = mail[sub]
         /\ Owner(sub) = None => ~Owned(mail[sub])
<1>1. CASE identity[sub] # None
  BY <1>1 DEF Owner, Types, RowTypes, IdentitiesMatch
<1>2. CASE identity[sub] = None /\ ~Owned(mail[sub])
  BY <1>2 DEF Owner
<1>3. CASE identity[sub] = None /\ Owned(mail[sub])
  <2>1. Owner(sub) = CHOOSE a \in Account : email[a] = mail[sub]
    BY <1>3 DEF Owner
  <2>2. \E a \in Account : email[a] = mail[sub]
    BY <1>3 DEF Owned
  <2>3. Owner(sub) \in Account /\ email[Owner(sub)] = mail[sub]
    BY <2>1, <2>2
  <2> QED BY <2>3, <1>3 DEF SignInAssumption
<1> QED BY <1>1, <1>2, <1>3

\* What resolve_login() concludes from an owner.
LEMMA OutcomeFacts ==
  ASSUME NEW q \in RequestType, NEW owner \in Account \cup {None}, None \notin Account
  PROVE  /\ Outcome(q, owner) \in Outcomes
         /\ Outcome(q, owner) \in {"AdoptGuest", "VerifyInPlace"} => q.guest
         /\ Outcome(q, owner) = "CreateAccount" => ~q.guest
         /\ Outcome(q, owner) \in {"CreateAccount", "VerifyInPlace"} => owner = None
         /\ Outcome(q, owner) \in OwnerFound => owner # None
<1>1. q.guest \in BOOLEAN
  BY DEF RequestType
<1>2. CASE q.current # None /\ owner = q.current
  <2>1. Outcome(q, owner) = "AlreadySignedIn"
    BY <1>1, <1>2 DEF Outcome
  <2> QED BY <1>2, <2>1 DEF Outcomes, OwnerFound
<1>3. CASE ~(q.current # None /\ owner = q.current) /\ owner = None /\ q.guest
  <2>1. Outcome(q, owner) = "VerifyInPlace"
    BY <1>3 DEF Outcome
  <2> QED BY <1>3, <2>1 DEF Outcomes, OwnerFound
<1>4. CASE ~(q.current # None /\ owner = q.current) /\ owner = None /\ ~q.guest
  <2>1. Outcome(q, owner) = "CreateAccount"
    BY <1>4 DEF Outcome
  <2> QED BY <1>4, <2>1 DEF Outcomes, OwnerFound
<1>5. CASE ~(q.current # None /\ owner = q.current) /\ owner # None /\ q.guest
  <2>1. Outcome(q, owner) = "AdoptGuest"
    BY <1>5 DEF Outcome
  <2> QED BY <1>5, <2>1 DEF Outcomes, OwnerFound
<1>6. CASE ~(q.current # None /\ owner = q.current) /\ owner # None /\ ~q.guest
  <2>1. Outcome(q, owner) = "SwitchAccount"
    BY <1>6 DEF Outcome
  <2> QED BY <1>6, <2>1 DEF Outcomes, OwnerFound
<1> QED BY <1>2, <1>3, <1>4, <1>5, <1>6

LEMMA ResolveKeeps ==
  ASSUME SignInAssumption, AccountsAssumption, IInv, NEW r \in Request, Resolve(r)
  PROVE  IInv'
<1> DEFINE q == req[r]
           owner == Owner(q.sub)
           outcome == Outcome(q, owner)
           into == IF outcome = "VerifyInPlace" THEN q.current ELSE owner
           n == [q EXCEPT !.at = "account", !.outcome = outcome, !.into = into]
           locks == OutcomeLocks(outcome, into)
<1>1. UNCHANGED <<dbVars, historyVars>> /\ Statement(r, n, locks) /\ Ready(r, "email")
  BY DEF Resolve
<1>2. /\ Types /\ IdentitiesMatch /\ q \in RequestType /\ RequestInv(q, held[r], waits[r])
      /\ kind' = kind /\ email' = email /\ attempts' = attempts /\ began' = began
  BY <1>1 DEF IInv, Types, RequestsInv, dbVars, accountVars, historyVars
<1>3. q.at = "email" /\ \A l : Asked(held[r], waits[r], l) => Locked(held[r], l)
  BY <1>1, ReadyHasLocks
<1>4. q.sub \in Sub /\ None \notin Account \cup Outcomes
  BY <1>2, <1>3 DEF RequestInv, AttemptInv, SigningIn, InCallback, RequestType, SignInAssumption
<1>5. /\ owner \in Account \cup {None}
      /\ owner # None => email[owner] = mail[q.sub]
      /\ owner = None => ~Owned(mail[q.sub])
  BY <1>2, <1>4, OwnerFacts
<1> HIDE DEF owner
<1>6. /\ outcome \in Outcomes
      /\ outcome \in {"AdoptGuest", "VerifyInPlace"} => q.guest
      /\ outcome = "CreateAccount" => ~q.guest
      /\ outcome \in {"CreateAccount", "VerifyInPlace"} => owner = None
      /\ outcome \in OwnerFound => owner # None
  BY <1>2, <1>4, <1>5, OutcomeFacts
<1> HIDE DEF outcome
<1>7. into \in Account \cup {None}
  BY <1>2, <1>5 DEF RequestType
<1>8. /\ outcome = "VerifyInPlace" => into = q.current
      /\ outcome \in OwnerFound => into = owner
  BY DEF OwnerFound
<1> HIDE DEF into
<1>9. /\ n.at = "account" /\ n.browser = q.browser /\ n.token = q.token
      /\ n.login = q.login /\ n.answer = q.answer /\ n.found = q.found /\ n.attempt = q.attempt
      /\ n.current = q.current /\ n.guest = q.guest /\ n.sub = q.sub
      /\ n.outcome = outcome /\ n.into = into
  BY <1>2 DEF RequestType
<1>10. n \in RequestType
  BY <1>2, <1>6, <1>7, ResolvedType
<1> HIDE DEF n
<1>11. /\ req'[r] = n
       /\ \A l : Locked(held[r], l)' <=> Locked(held[r], l)
       /\ \A l \in locks : Asked(held'[r], waits'[r], l)
  BY <1>1, <1>2, <1>10, StatementMoves
<1>12. FoundInv(req[r], held[r], waits[r])'
  BY <1>2, <1>3, <1>9, <1>11 DEF RequestInv, FoundInv, SigningIn, InCallback
<1>13. AttemptInv(req[r], held[r], waits[r])'
  BY <1>2, <1>3, <1>9, <1>11 DEF RequestInv, AttemptInv, SigningIn, InCallback
<1>14. OutcomeInv(req[r], held[r], waits[r])'
  <2>1. Locked(held[r], ForUpdate("emails", mail[q.sub]))
    BY <1>2, <1>3 DEF RequestInv, OutcomeInv
  <2>2. outcome = "AdoptGuest" => ForUpdate("accounts", into) \in locks
    BY DEF OutcomeLocks
  <2>3. outcome # None
    BY <1>4, <1>6
  <2>4. Owned(mail[req[r].sub])' <=> Owned(mail[q.sub])
    BY <1>2, <1>9, <1>11 DEF Owned
  <2> QED BY <1>2, <1>3, <1>5, <1>6, <1>8, <1>9, <1>11, <2>1, <2>2, <2>3, <2>4
          DEF OutcomeInv, Resolved, InCallback
<1>15. EndingInv(req[r], held[r], waits[r])'
  BY <1>9, <1>11 DEF EndingInv, Ending, InCallback
<1>16. SameCookies(r, n)
  BY <1>9 DEF SameCookies
<1> HIDE DEF locks
<1> QED BY <1>1, <1>10, <1>12, <1>13, <1>14, <1>15, <1>16, StatementStep DEF RequestInv

LEMMA EndSessionsKeeps ==
  ASSUME SignInAssumption, AccountsAssumption, IInv, NEW r \in Request, EndSessions(r)
  PROVE  IInv'
<1> DEFINE q == req[r]
           doomed == Doomed(q)
           hasSelf == q.into # None /\ selves[q.into] > 0
           n == [q EXCEPT !.at = "sessions", !.doomed = doomed, !.hasSelf = hasSelf]
           locks == {ForUpdate("sessions", s) : s \in doomed}
<1>1. UNCHANGED <<dbVars, historyVars>> /\ Statement(r, n, locks) /\ Ready(r, "account")
  BY DEF EndSessions
<1>2. /\ Types /\ q \in RequestType /\ RequestInv(q, held[r], waits[r])
      /\ kind' = kind /\ email' = email /\ selves' = selves /\ sessionOf' = sessionOf
      /\ attempts' = attempts /\ began' = began
  BY <1>1 DEF IInv, Types, RequestsInv, dbVars, accountVars, historyVars
<1>3. q.at = "account" /\ \A l : Asked(held[r], waits[r], l) => Locked(held[r], l)
  BY <1>1, ReadyHasLocks
<1>4. doomed \in SUBSET Session /\ hasSelf \in BOOLEAN
  BY DEF Doomed
<1>5. q.guest => q.current # None /\ \A s \in Session : sessionOf[s] = q.current => s \in doomed
  BY <1>2, <1>3 DEF RequestInv, AttemptInv, SigningIn, InCallback, Doomed
<1>6. q.outcome = "AdoptGuest" => /\ Locked(held[r], ForUpdate("accounts", q.into))
                                  /\ hasSelf <=> selves[q.into] > 0
  BY <1>2, <1>3 DEF RequestInv, OutcomeInv, Resolved, InCallback, OwnerFound
<1> HIDE DEF doomed, hasSelf
<1>7. /\ n.at = "sessions" /\ n.browser = q.browser /\ n.token = q.token
      /\ n.login = q.login /\ n.answer = q.answer /\ n.found = q.found /\ n.attempt = q.attempt
      /\ n.current = q.current /\ n.guest = q.guest /\ n.sub = q.sub
      /\ n.outcome = q.outcome /\ n.into = q.into /\ n.doomed = doomed /\ n.hasSelf = hasSelf
  BY <1>2 DEF RequestType
<1>8. n \in RequestType
  BY <1>2, <1>4, EndingType
<1> HIDE DEF n
<1>9. req'[r] = n /\ \A l : Locked(held[r], l)' <=> Locked(held[r], l)
  BY <1>1, <1>2, <1>8, StatementMoves
<1>10. FoundInv(req[r], held[r], waits[r])'
  BY <1>2, <1>3, <1>7, <1>9 DEF RequestInv, FoundInv, SigningIn, InCallback
<1>11. AttemptInv(req[r], held[r], waits[r])'
  BY <1>2, <1>3, <1>7, <1>9 DEF RequestInv, AttemptInv, SigningIn, InCallback
<1>12. OutcomeInv(req[r], held[r], waits[r])'
  <2>1. Owned(mail[req[r].sub])' <=> Owned(mail[q.sub])
    BY <1>2, <1>7, <1>9 DEF Owned
  <2> QED BY <1>2, <1>3, <1>7, <1>9, <2>1 DEF RequestInv, OutcomeInv, Resolved, InCallback
<1>13. EndingInv(req[r], held[r], waits[r])'
  BY <1>2, <1>5, <1>6, <1>7, <1>9 DEF EndingInv, Ending, InCallback
<1>14. SameCookies(r, n)
  BY <1>7 DEF SameCookies
<1> HIDE DEF locks
<1> QED BY <1>1, <1>8, <1>10, <1>11, <1>12, <1>13, <1>14, StatementStep DEF RequestInv

LEMMA LogoutKeeps ==
  ASSUME SignInAssumption, AccountsAssumption, IInv, NEW r \in Request, NEW b \in Browser,
         Logout(r, b)
  PROVE  IInv'
<1> DEFINE q == From(b, "logout")
           doomed == {s \in Session : s = q.token /\ sessionOf[s] # None}
           n == [q EXCEPT !.at = "sessions", !.doomed = doomed]
           locks == {ForUpdate("sessions", s) : s \in doomed}
<1>1. UNCHANGED <<dbVars, historyVars>> /\ Statement(r, n, locks)
  BY DEF Logout
<1>2. Types /\ "logout" \in Routes
  BY DEF Logout, Comes, IInv
<1>3. CameFrom(q, b) /\ q.route = "logout"
  BY <1>2, FromBrowser DEF From, NoRequest
<1> HIDE DEF q
<1>4. doomed \in SUBSET Session /\ q \in RequestType
  BY <1>3 DEF CameFrom
<1> HIDE DEF doomed
<1>5. n \in RequestType
  <2>1. "sessions" \in Places
    BY DEF Places
  <2> QED BY <1>4, <2>1, ZenonT(40) DEF RequestType
<1>6. n.at = "sessions" /\ n.route = "logout" /\ n.browser = b /\ n.found = None
  BY <1>3, <1>4 DEF CameFrom, RequestType
<1>7. SameCookies(r, n)
  BY <1>3, <1>4 DEF CameFrom, SameCookies, RequestType
<1> HIDE DEF n, locks
<1>8. req'[r] = n
  BY <1>1, <1>2, <1>5, StatementMoves
<1>9. RequestInv(req[r], held[r], waits[r])'
  BY <1>6, <1>8 DEF RequestInv, FoundInv, AttemptInv, OutcomeInv, EndingInv,
                    SigningIn, Resolved, Ending, InCallback, SignInAssumption
<1> QED BY <1>1, <1>5, <1>7, <1>9, StatementStep

LEMMA CascadeKeeps ==
  ASSUME SignInAssumption, AccountsAssumption, IInv, NEW r \in Request, Cascade(r)
  PROVE  IInv'
<1> DEFINE q == req[r]
           n == [q EXCEPT !.at = "commit"]
           locks == {ForUpdate("login_attempts", a) : a \in AttemptsOf(q.doomed)}
<1>1. UNCHANGED <<dbVars, historyVars>> /\ Statement(r, n, locks) /\ Ready(r, "sessions")
  BY DEF Cascade
<1>2. /\ Types /\ q \in RequestType /\ RequestInv(q, held[r], waits[r])
      /\ kind' = kind /\ email' = email /\ selves' = selves /\ sessionOf' = sessionOf
      /\ attempts' = attempts /\ began' = began
  BY <1>1 DEF IInv, Types, RequestsInv, dbVars, accountVars, historyVars
<1>3. q.at = "sessions"
  BY <1>1, ReadyHasLocks
<1>4. /\ n.at = "commit" /\ n.route = q.route /\ n.browser = q.browser /\ n.token = q.token
      /\ n.login = q.login /\ n.answer = q.answer /\ n.found = q.found /\ n.attempt = q.attempt
      /\ n.current = q.current /\ n.guest = q.guest /\ n.sub = q.sub
      /\ n.outcome = q.outcome /\ n.into = q.into /\ n.doomed = q.doomed /\ n.hasSelf = q.hasSelf
  BY <1>2 DEF RequestType
<1>5. n \in RequestType
  BY <1>2 DEF RequestType, Places
<1> HIDE DEF n
<1>6. req'[r] = n /\ \A l : Locked(held[r], l)' <=> Locked(held[r], l)
  BY <1>1, <1>2, <1>5, StatementMoves
<1>7. /\ InCallback(n) <=> InCallback(q)
      /\ SigningIn(n) <=> SigningIn(q)
      /\ Resolved(n) <=> Resolved(q)
      /\ Ending(n) <=> Ending(q)
  BY <1>3, <1>4 DEF Ending, Resolved, SigningIn, InCallback
<1>8. FoundInv(req[r], held[r], waits[r])'
  BY <1>2, <1>3, <1>4, <1>6, <1>7 DEF RequestInv, FoundInv
<1>9. AttemptInv(req[r], held[r], waits[r])'
  BY <1>2, <1>3, <1>4, <1>6, <1>7 DEF RequestInv, AttemptInv
<1>10. OutcomeInv(req[r], held[r], waits[r])'
  <2>1. Owned(mail[req[r].sub])' <=> Owned(mail[q.sub])
    BY <1>2, <1>4, <1>6 DEF Owned
  <2> QED BY <1>2, <1>3, <1>4, <1>6, <1>7, <2>1 DEF RequestInv, OutcomeInv
<1>11. EndingInv(req[r], held[r], waits[r])'
  BY <1>2, <1>3, <1>4, <1>6, <1>7 DEF RequestInv, EndingInv
<1>12. SameCookies(r, n)
  BY <1>4 DEF SameCookies
<1> HIDE DEF locks
<1> QED BY <1>1, <1>5, <1>8, <1>9, <1>10, <1>11, <1>12, StatementStep DEF RequestInv

LEMMA WriteKeeps ==
  ASSUME SignInAssumption, AccountsAssumption, IInv, NEW r \in Request, NEW b \in Browser,
         Write(r, b)
  PROVE  IInv'
<1> DEFINE q == From(b, "write")
           account == AccountOf(jar[b].session)
           n == [q EXCEPT !.at = "write", !.found = account]
           locks == {ForShare("accounts", account)}
<1>1. UNCHANGED <<dbVars, historyVars>> /\ Statement(r, n, locks)
  BY DEF Write
<1>2. Types /\ "write" \in Routes
  BY DEF Write, Comes, IInv
<1>3. CameFrom(q, b)
  BY <1>2, FromBrowser
<1> HIDE DEF q
<1>4. q \in RequestType /\ q.token \in Session \cup {None} /\ q.token = jar[b].session
  BY <1>3 DEF CameFrom, RequestType
<1>5. account \in Account \cup {None} /\ (account # None => q.token # None) /\ account # None
  BY <1>2, <1>4, AccountOfType DEF Write, Acts
<1> HIDE DEF account
<1>6. n \in RequestType
  BY <1>4, <1>5, ZenonT(40) DEF RequestType, Places
<1>7. n.at = "write" /\ n.browser = b /\ n.found = account /\ n.token = q.token
  BY <1>3, <1>4 DEF CameFrom, RequestType
<1>8. SameCookies(r, n)
  BY <1>3, <1>4 DEF CameFrom, SameCookies, RequestType
<1> HIDE DEF n, locks
<1>9. req'[r] = n
  BY <1>1, <1>2, <1>6, StatementMoves
<1>10. RequestInv(req[r], held[r], waits[r])'
  BY <1>5, <1>7, <1>9 DEF RequestInv, FoundInv, AttemptInv, OutcomeInv, EndingInv,
                          SigningIn, Resolved, Ending, InCallback, SignInAssumption
<1> QED BY <1>1, <1>6, <1>8, <1>10, StatementStep

\* An answer that changes nothing brings no cookie, but may take the login's.
LEMMA RefusedStep ==
  ASSUME SignInAssumption, AccountsAssumption, IInv, NEW r \in Request, req[r].at \notin {"idle",
         "done"},
         UNCHANGED <<dbVars, historyVars>>,
         \/ End(r, req[r].browser, NoCookies)
         \/ End(r, req[r].browser, ForgetLogin(req[r]))
  PROVE  IInv'
<1>1. req[r] \in RequestType /\ req[r].browser # None
  BY DEF IInv, Types, RequestsInv, RequestInv, FoundInv
<1>2. req[r].browser \in Browser
  BY <1>1 DEF RequestType
<1>3. None \notin Session /\ None \notin Attempt
  BY DEF SignInAssumption
<1>4. \A answer \in {NoCookies, ForgetLogin(req[r])} :
        /\ answer \in AnswerType
        /\ \A s \in Session : s \notin answer.session
        /\ \A a \in Attempt : a \notin answer.login
  BY <1>3 DEF NoCookies, ForgetLogin, AnswerType
<1>5. CASE End(r, req[r].browser, NoCookies)
  BY <1>2, <1>4, <1>5, EndStep
<1>6. CASE End(r, req[r].browser, ForgetLogin(req[r]))
  BY <1>2, <1>4, <1>6, EndStep
<1> QED BY <1>5, <1>6

LEMMA RefusalsKeep ==
  ASSUME SignInAssumption, AccountsAssumption, IInv, NEW r \in Request,
         ResumesNothing(r) \/ Replayed(r) \/ WrongBrowser(r) \/ WriteRefused(r)
  PROVE  IInv'
<1>1. CASE ResumesNothing(r)
  BY <1>1, RefusedStep DEF ResumesNothing, Ready
<1>2. CASE Replayed(r)
  BY <1>2, RefusedStep DEF Replayed, Ready
<1>3. CASE WrongBrowser(r)
  BY <1>3, RefusedStep DEF WrongBrowser, Ready
<1>4. CASE WriteRefused(r)
  BY <1>4, RefusedStep DEF WriteRefused, Ready
<1> QED BY <1>1, <1>2, <1>3, <1>4

\* A request that is done relies on nothing.
LEMMA DoneStep ==
  ASSUME SignInAssumption, AccountsAssumption, IInv, NEW r \in Request,
         UNCHANGED <<dbVars, historyVars>>,
         req' = [req EXCEPT ![r] = [NoRequest EXCEPT !.at = "done"]],
         waits' = [waits EXCEPT ![r] = {}], held' = [held EXCEPT ![r] = {}],
         jar' \in [Browser -> Cookies],
         \A b \in Browser, s \in Session : jar'[b].session = s => Carries(b, s),
         \A b \in Browser, a \in Attempt : jar'[b].login = a => CarriesLogin(b, a)
  PROVE  IInv'
<1>1. Types /\ LocksExclude
  BY DEF IInv
<1>2. /\ req'[r] = [NoRequest EXCEPT !.at = "done"] /\ held'[r] = {} /\ waits'[r] = {}
      /\ Moves(r) /\ OnlyMoves(r)
  BY <1>1 DEF Types, Moves, OnlyMoves
<1>3. /\ req'[r] \in RequestType /\ req'[r].at = "done" /\ req'[r].found = None
      /\ req'[r].browser = None /\ req'[r].token = None /\ req'[r].login = None
      /\ req'[r].answer = NoCookies
  <2> DEFINE n == [NoRequest EXCEPT !.at = "done"]
  <2>1. /\ n.at = "done" /\ n.found = None /\ n.browser = None /\ n.token = None
        /\ n.login = None /\ n.answer = NoCookies
    BY DEF NoRequest
  <2>2. NoRequest \in RequestType
    BY DEF NoRequest, NoCookies, RequestType, Places
  <2>3. n \in RequestType
    BY <2>2 DEF RequestType, Places
  <2> QED BY <1>2, <2>1, <2>3
<1>4. LocksExclude'
  BY <1>1, <1>2 DEF LocksExclude, OnlyMoves
<1>5. RequestInv(req[r], held[r], waits[r])'
  BY <1>2, <1>3 DEF RequestInv, FoundInv, AttemptInv, OutcomeInv, EndingInv,
                    SigningIn, Resolved, Ending, InCallback
<1>6. None \notin Browser
  BY DEF SignInAssumption
<1>7. \A b \in Browser, s \in Session : Carries(b, s)' => Carries(b, s)
  BY <1>2, <1>3, <1>6 DEF Carries, OnlyMoves
<1>8. \A b \in Browser, a \in Attempt : CarriesLogin(b, a)' => CarriesLogin(b, a)
  BY <1>2, <1>3, <1>6 DEF CarriesLogin, OnlyMoves
<1> QED BY <1>2, <1>3, <1>4, <1>5, <1>7, <1>8, QuietStep

LEMMA AbortKeeps ==
  ASSUME SignInAssumption, AccountsAssumption, IInv, NEW r \in Request, Abort(r)
  PROVE  IInv'
<1>1. /\ UNCHANGED <<dbVars, historyVars>> /\ jar' = jar
      /\ req' = [req EXCEPT ![r] = [NoRequest EXCEPT !.at = "done"]]
      /\ waits' = [waits EXCEPT ![r] = {}] /\ held' = [held EXCEPT ![r] = {}]
  BY DEF Abort
<1>2. /\ jar' \in [Browser -> Cookies]
      /\ \A b \in Browser, s \in Session : jar'[b].session = s => Carries(b, s)
      /\ \A b \in Browser, a \in Attempt : jar'[b].login = a => CarriesLogin(b, a)
  BY <1>1 DEF IInv, Types, Carries, CarriesLogin
<1> QED BY <1>1, <1>2, DoneStep

\* An answer's request has no lock left.
LEMMA AnsweredHasNone ==
  ASSUME IInv, NEW r \in Request, req[r].at = "answered", UNCHANGED <<waits, held>>
  PROVE  waits' = [waits EXCEPT ![r] = {}] /\ held' = [held EXCEPT ![r] = {}]
BY DEF IInv, Types, RequestsInv, RequestInv, FoundInv

LEMMA LoseAnswerKeeps ==
  ASSUME SignInAssumption, AccountsAssumption, IInv, NEW r \in Request, LoseAnswer(r)
  PROVE  IInv'
<1>1. /\ UNCHANGED <<dbVars, historyVars>> /\ jar' = jar /\ UNCHANGED <<waits, held>>
      /\ req' = [req EXCEPT ![r] = [NoRequest EXCEPT !.at = "done"]] /\ req[r].at = "answered"
  BY DEF LoseAnswer
<1>2. waits' = [waits EXCEPT ![r] = {}] /\ held' = [held EXCEPT ![r] = {}]
  BY <1>1, AnsweredHasNone
<1>3. /\ jar' \in [Browser -> Cookies]
      /\ \A b \in Browser, s \in Session : jar'[b].session = s => Carries(b, s)
      /\ \A b \in Browser, a \in Attempt : jar'[b].login = a => CarriesLogin(b, a)
  BY <1>1 DEF IInv, Types, Carries, CarriesLogin
<1> QED BY <1>1, <1>2, <1>3, DoneStep

\* A browser's cookies are those it had, or the answer's.
LEMMA AnsweredCookies ==
  ASSUME NEW old \in Cookies, NEW answer \in AnswerType, NEW new,
         new = [c \in {"session", "login"} |->
                  IF answer[c] = {} THEN old[c] ELSE CHOOSE v \in answer[c] : TRUE]
  PROVE  /\ new \in Cookies
         /\ new.session = old.session \/ new.session \in answer.session
         /\ new.login = old.login \/ new.login \in answer.login
<1>1. /\ new.session = old.session \/ new.session \in answer.session
      /\ new.login = old.login \/ new.login \in answer.login
  OBVIOUS
<1>2. new = [session |-> new.session, login |-> new.login]
  OBVIOUS
<1> QED BY <1>1, <1>2 DEF Cookies, AnswerType

LEMMA AnsweredKeeps ==
  ASSUME SignInAssumption, AccountsAssumption, IInv, NEW r \in Request, Answered(r)
  PROVE  IInv'
<1> DEFINE b == req[r].browser
           answer == req[r].answer
           cookies == [c \in {"session", "login"} |->
                         IF answer[c] = {} THEN jar[b][c] ELSE CHOOSE v \in answer[c] : TRUE]
<1>1. /\ UNCHANGED <<dbVars, historyVars>> /\ UNCHANGED <<waits, held>>
      /\ jar' = [jar EXCEPT ![b] = cookies]
      /\ req' = [req EXCEPT ![r] = [NoRequest EXCEPT !.at = "done"]] /\ req[r].at = "answered"
  BY DEF Answered
<1>2. waits' = [waits EXCEPT ![r] = {}] /\ held' = [held EXCEPT ![r] = {}]
  BY <1>1, AnsweredHasNone
<1>3. req[r] \in RequestType /\ b # None /\ jar \in [Browser -> Cookies]
  BY <1>1 DEF IInv, Types, RequestsInv, RequestInv, FoundInv
<1>4. b \in Browser /\ answer.session \subseteq Session \cup {None} /\ answer.login \subseteq Attempt \cup {None}
  BY <1>3 DEF RequestType
<1>5. jar[b] \in Cookies /\ answer \in AnswerType
  BY <1>3, <1>4 DEF RequestType, AnswerType
<1>6. /\ cookies \in Cookies
      /\ cookies.session = jar[b].session \/ cookies.session \in answer.session
      /\ cookies.login = jar[b].login \/ cookies.login \in answer.login
  BY <1>5, AnsweredCookies
<1> HIDE DEF cookies
<1>7. jar' \in [Browser -> Cookies]
  BY <1>1, <1>3, <1>6
<1>8. \A c \in Browser : jar'[c] = IF c = b THEN cookies ELSE jar[c]
  BY <1>1, <1>3
<1>9. \A c \in Browser, s \in Session : jar'[c].session = s => Carries(c, s)
  BY <1>6, <1>8 DEF Carries
<1>10. \A c \in Browser, a \in Attempt : jar'[c].login = a => CarriesLogin(c, a)
  BY <1>6, <1>8 DEF CarriesLogin
<1> QED BY <1>1, <1>2, <1>7, <1>9, <1>10, DoneStep

LEMMA TakeKeeps ==
  ASSUME SignInAssumption, AccountsAssumption, IInv, NEW r \in Request, NEW l \in waits[r],
         Take(r, l)
  PROVE  IInv'
<1>1. /\ UNCHANGED <<dbVars, historyVars>> /\ jar' = jar /\ req' = req
      /\ held' = [held EXCEPT ![r] = @ \cup {l}] /\ waits' = [waits EXCEPT ![r] = @ \ {l}]
      /\ \A q \in Request \ {r} : ~Blocks(q, l)
  BY DEF Take
<1>2. Types /\ LocksExclude
  BY DEF IInv
<1>3. held'[r] = held[r] \cup {l} /\ waits'[r] = waits[r] \ {l} /\ OnlyMoves(r) /\ Moves(r)
  BY <1>1, <1>2 DEF Types, OnlyMoves, Moves
<1>4. LocksExclude'
  <2> SUFFICES ASSUME NEW x \in Request, NEW y \in Request, x # y,
                      NEW m \in held'[x], NEW k \in held'[y]
               PROVE  ~Conflict(m, k)
    BY DEF LocksExclude
  <2>1. \A q \in Request \ {r} : \A m1 \in held[q] : ~Conflict(l, m1) /\ ~Conflict(m1, l)
    BY <1>1 DEF Blocks, Conflict
  <2>2. CASE x = r
    BY <1>2, <1>3, <2>1, <2>2 DEF LocksExclude, OnlyMoves
  <2>3. CASE x # r
    BY <1>2, <1>3, <2>1, <2>3 DEF LocksExclude, OnlyMoves
  <2> QED BY <2>2, <2>3
<1>5. req[r] \in RequestType /\ RequestInv(req[r], held[r], waits[r])
  BY DEF IInv, Types, RequestsInv
<1>6. /\ \A k : Locked(held[r], k) => Locked(held[r], k)'
      /\ \A k : Asked(held[r], waits[r], k) => Asked(held[r], waits[r], k)'
  <2>1. Covers(l, l)
    BY DEF Covers
  <2> QED BY <1>3, <2>1 DEF Asked, Locked, Covers
<1>7. RequestInv(req[r], held[r], waits[r])'
  <2>1. /\ kind' = kind /\ email' = email /\ selves' = selves /\ sessionOf' = sessionOf
        /\ attempts' = attempts /\ began' = began /\ req'[r] = req[r]
    BY <1>1 DEF dbVars, accountVars, historyVars
  <2>2. FoundInv(req[r], held[r], waits[r])'
    <3>1. req[r].at \notin {"idle", "answered", "done"}
      BY <1>5 DEF RequestInv, FoundInv
    <3> QED BY <1>5, <1>6, <2>1, <3>1 DEF RequestInv, FoundInv, SigningIn, InCallback
  <2>3. AttemptInv(req[r], held[r], waits[r])'
    BY <1>5, <1>6, <2>1 DEF RequestInv, AttemptInv, SigningIn, InCallback
  <2>4. OutcomeInv(req[r], held[r], waits[r])'
    <3>1. Owned(mail[req[r].sub])' <=> Owned(mail[req[r].sub])
      BY <2>1 DEF Owned
    <3> QED BY <1>5, <1>6, <2>1, <3>1 DEF RequestInv, OutcomeInv, Resolved, InCallback
  <2>5. EndingInv(req[r], held[r], waits[r])'
    BY <1>5, <1>6, <2>1 DEF RequestInv, EndingInv, Ending, InCallback
  <2> QED BY <2>2, <2>3, <2>4, <2>5 DEF RequestInv
<1>8. /\ \A b \in Browser, s \in Session : Carries(b, s)' => Carries(b, s)
      /\ \A b \in Browser, a \in Attempt : CarriesLogin(b, a)' => CarriesLogin(b, a)
  BY <1>1 DEF Carries, CarriesLogin
<1>9. req'[r] \in RequestType /\ jar' \in [Browser -> Cookies]
  BY <1>1, <1>2, <1>5 DEF Types
<1> QED BY <1>1, <1>3, <1>4, <1>7, <1>8, <1>9, QuietStep

-----------------------------------------------------------------------------
\* The steps that commit.
LEMMA CommitStep ==
  ASSUME SignInAssumption, AccountsAssumption, IInv, NEW r \in Request,
         NEW STATE b, b \in Browser, NEW STATE answer, answer \in AnswerType,
         End(r, b, answer), Respects(r), RowTypes'
  PROVE  Types' /\ LocksExclude' /\ RequestsInv' /\ Delivers(b, answer)
<1>1. Types /\ LocksExclude
  BY DEF IInv
<1>2. /\ Moves(r) /\ OnlyMoves(r) /\ jar' = jar
      /\ req'[r] \in RequestType /\ LocksExclude'
      /\ RequestInv(req[r], held[r], waits[r])'
      /\ Delivers(b, answer)
  BY <1>1, EndMoves
<1>3. Types'
  BY <1>1, <1>2 DEF Types, Moves
<1>4. RequestsInv'
  <2> SUFFICES ASSUME NEW x \in Request, x # r PROVE RequestInv(req[x], held[x], waits[x])'
    BY <1>2 DEF RequestsInv
  <2> QED BY <1>1, <1>2, OthersUndisturbed DEF IInv, RequestsInv
<1> QED BY <1>2, <1>3, <1>4

\* A session's cookie goes to the browser that has it, or it is a new session,
\* and a new attempt is bound to its browser's.
LEMMA CookiesStep ==
  ASSUME SignInAssumption, IInv,
         NEW STATE b, b \in Browser, NEW STATE answer, answer \in AnswerType,
         Delivers(b, answer),
         \A a \in Attempt : began[a] # None => began'[a] = began[a],
         \A s \in Session : born[s] # None => born'[s] # None,
         \A s \in Session : s \in answer.session =>
           Carries(b, s) \/ (born[s] = None /\ born'[s] # None),
         \A a \in Attempt : a \in answer.login => began'[a] = b,
         \A a \in Attempt, s \in Session : attempts'[a] # None /\ attempts'[a].session = s =>
           \/ attempts[a] # None /\ attempts[a].session = s
           \/ began'[a] = b /\ s \in answer.session
  PROVE  CookiesInv'
<1>1. None \notin Browser /\ None \notin Session
  BY DEF SignInAssumption
<1>2. \A a \in Attempt, s \in Session : attempts[a] # None /\ attempts[a].session = s =>
        born[s] # None /\ began[a] # None
  <2> SUFFICES ASSUME NEW a \in Attempt, NEW s \in Session, attempts[a] # None,
                      attempts[a].session = s
               PROVE  born[s] # None /\ began[a] # None
    OBVIOUS
  <2>1. sessionOf[s] # None /\ began[a] # None
    BY <1>1 DEF IInv, AttemptRowsInv
  <2>2. kind[sessionOf[s]] = born[s] /\ sessionOf[s] \in Account
    BY <2>1 DEF IInv, GuestSessionsEnd, Types, RowTypes
  <2>3. kind[sessionOf[s]] \in {"absent", "guest", "verified", "adopted"}
    BY <2>2 DEF IInv, Types, RowTypes, AccountsTypeOK
  <2>4. kind[sessionOf[s]] # "adopted"
    BY <2>2 DEF IInv, NothingLeftBehind
  <2> QED BY <2>1, <2>2, <2>3, <2>4 DEF SignInAssumption
<1>3. \A c \in Browser, s \in Session : Carries(c, s) =>
        /\ born[s] # None
        /\ \A d \in Browser : Carries(d, s) => c = d
        /\ \A a \in Attempt : attempts[a] # None /\ attempts[a].session = s => began[a] = c
  BY DEF IInv, CookiesInv
<1>4. \A c \in Browser, a \in Attempt : CarriesLogin(c, a) => began[a] = c
  BY DEF IInv, CookiesInv
<1>5. ASSUME NEW c \in Browser, NEW s \in Session, Carries(c, s)'
      PROVE  /\ born'[s] # None
             /\ \A d \in Browser : Carries(d, s)' => c = d
             /\ \A a \in Attempt : attempts'[a] # None /\ attempts'[a].session = s => began'[a] = c
  <2>1. /\ Carries(c, s) \/ (c = b /\ s \in answer.session)
        /\ \A d \in Browser : Carries(d, s)' => Carries(d, s) \/ (d = b /\ s \in answer.session)
    BY <1>5 DEF Delivers
  <2>2. CASE Carries(c, s)
    BY <1>1, <1>2, <1>3, <2>1, <2>2
  <2>3. CASE c = b /\ s \in answer.session
    BY <1>1, <1>2, <1>3, <2>1, <2>3
  <2> QED BY <2>1, <2>2, <2>3
<1>6. \A c \in Browser, a \in Attempt : CarriesLogin(c, a)' => began'[a] = c
  BY <1>1, <1>4 DEF Delivers
<1> HIDE DEF Carries, CarriesLogin
<1> QED BY <1>5, <1>6 DEF CookiesInv

LEMMA NoRequestType == NoRequest \in RequestType
BY DEF NoRequest, NoCookies, RequestType, Places

\* An answer's cookies.
LEMMA AnswerTypes ==
  ASSUME SignInAssumption, NEW q \in RequestType
  PROVE  /\ NoCookies \in AnswerType /\ ForgetLogin(q) \in AnswerType
         /\ \A s \in Session \cup {None} :
              /\ [NoCookies EXCEPT !.session = {s}] \in AnswerType
              /\ [NoCookies EXCEPT !.session = {s}].session = {s}
              /\ [NoCookies EXCEPT !.session = {s}].login = {}
              /\ [ForgetLogin(q) EXCEPT !.session = {s}] \in AnswerType
              /\ [ForgetLogin(q) EXCEPT !.session = {s}].session = {s}
              /\ [ForgetLogin(q) EXCEPT !.session = {s}].login \subseteq {None}
         /\ \A a \in Attempt :
              /\ [NoCookies EXCEPT !.login = {a}] \in AnswerType
              /\ [NoCookies EXCEPT !.login = {a}].session = {}
              /\ [NoCookies EXCEPT !.login = {a}].login = {a}
         /\ NoCookies.session = {} /\ NoCookies.login = {}
         /\ ForgetLogin(q).session = {} /\ ForgetLogin(q).login \subseteq {None}
BY DEF NoCookies, ForgetLogin, AnswerType

LEMMA NewAreNew ==
  /\ \A a \in NewAccount : a \in Account /\ kind[a] = "absent"
  /\ \A s \in NewSession : s \in Session /\ born[s] = None
  /\ \A a \in NewAttempt : a \in Attempt /\ began[a] = None
BY DEF NewAccount, NewSession, NewAttempt, FirstOf

\* A session's row whose number isn't used yet.
LEMMA UnusedSession ==
  ASSUME SignInAssumption, IInv, NEW s \in Session, born[s] = None
  PROVE  sessionOf[s] = None
<1> SUFFICES ASSUME sessionOf[s] # None PROVE FALSE
  OBVIOUS
<1>1. sessionOf[s] \in Account /\ kind[sessionOf[s]] = None
  BY DEF IInv, GuestSessionsEnd, Types, RowTypes
<1>2. kind[sessionOf[s]] \in {"absent", "guest", "verified"}
  BY <1>1 DEF IInv, Types, RowTypes, AccountsTypeOK, NothingLeftBehind
<1> QED BY <1>1, <1>2 DEF SignInAssumption

\* A login adds its attempt, and no row else.
Adds(b, session) ==
  \A a \in Attempt :
    \/ attempts'[a] = attempts[a] /\ began'[a] = began[a]
    \/ /\ began[a] = None /\ began'[a] = b
       /\ attempts'[a] = [session |-> session, withSession |-> session # None]

LEMMA AddAttemptAdds ==
  ASSUME SignInAssumption, Types, NEW STATE b, b \in Browser,
         NEW STATE session, session \in Session \cup {None},
         NEW a \in NewAttempt, AddAttempt(a, b, session)
  PROVE  /\ Adds(b, session)
         /\ attempts' \in [Attempt -> AttemptRows \cup {None}]
         /\ began' \in [Attempt -> Browser \cup {None}]
         /\ began'[a] = b
<1>1. a \in Attempt /\ began[a] = None
  BY NewAreNew
<1>2. [session |-> session, withSession |-> session # None] \in AttemptRows
  BY DEF AttemptRows
<1>3. /\ attempts' = [attempts EXCEPT ![a] = [session |-> session, withSession |-> session # None]]
      /\ began' = [began EXCEPT ![a] = b]
  BY DEF AddAttempt
<1> QED BY <1>1, <1>2, <1>3 DEF Adds, Types, RowTypes

LEMMA BeganAdds ==
  ASSUME SignInAssumption, Types, NEW r \in Request, req[r].browser \in Browser,
         NEW STATE session, session \in Session, Began(r, session)
  PROVE  /\ Adds(req[r].browser, session)
         /\ attempts' \in [Attempt -> AttemptRows \cup {None}]
         /\ began' \in [Attempt -> Browser \cup {None}]
<1>1. CASE req[r].route = "login"
  <2>1. PICK a \in NewAttempt : AddAttempt(a, req[r].browser, session)
    BY <1>1 DEF Began
  <2> QED BY <2>1, AddAttemptAdds
<1>2. CASE req[r].route # "login"
  BY <1>2 DEF Began, Adds, Types, RowTypes
<1> QED BY <1>1, <1>2

\* A step that ends no session and has the added attempts' session, if any.
SessionsStay(session) ==
  /\ signedIn' = signedIn
  /\ \A s \in Session : sessionOf[s] # None => sessionOf'[s] # None
  /\ session # None => sessionOf'[session] # None

\* Attempts have their browser and a session that is there, and serve once; those
\* that were there stay, and new ones are of the browser and the session.
AttemptsKeep(b, session) ==
  /\ AttemptRowsInv' /\ AttemptsServeOnce'
  /\ \A a \in Attempt : began[a] # None => began'[a] = began[a]
  /\ \A a \in Attempt : attempts[a] # None => attempts'[a] # None
  /\ \A a \in Attempt, s \in Session : attempts'[a] # None /\ attempts'[a].session = s =>
       \/ attempts[a] # None /\ attempts[a].session = s
       \/ began'[a] = b /\ s = session

\* Adding attempts keeps what the invariant says of them.
LEMMA AddsKeeps ==
  ASSUME SignInAssumption, IInv, NEW STATE b, b \in Browser,
         NEW STATE session, session \in Session \cup {None},
         Adds(b, session), SessionsStay(session)
  PROVE  AttemptsKeep(b, session)
<1> USE DEF SessionsStay
<1>1. None \notin Browser /\ None \notin Session
  BY DEF SignInAssumption
<1>2. \A a \in Attempt : attempts[a] # None =>
        /\ began[a] # None
        /\ attempts[a].session # None => attempts[a].withSession /\ sessionOf[attempts[a].session] # None
  BY DEF IInv, AttemptRowsInv
<1>3. \A a \in Attempt : attempts[a] # None => attempts[a].session \in Session \cup {None}
  BY DEF IInv, Types, RowTypes, AttemptRows
<1>4. /\ \A a \in Attempt : began[a] # None => began'[a] = began[a] /\ attempts'[a] = attempts[a]
      /\ \A a \in Attempt : attempts[a] # None => attempts'[a] # None
  BY <1>1, <1>2 DEF Adds
<1>5. ASSUME NEW a \in Attempt, attempts'[a] # None
      PROVE  /\ began'[a] # None
             /\ attempts'[a].session # None =>
                  attempts'[a].withSession /\ sessionOf'[attempts'[a].session] # None
  <2>1. CASE attempts'[a] = attempts[a] /\ began'[a] = began[a]
    BY <1>2, <1>3, <1>5, <2>1
  <2>2. CASE /\ began[a] = None /\ began'[a] = b
             /\ attempts'[a] = [session |-> session, withSession |-> session # None]
    <3>1. attempts'[a].session = session /\ began'[a] # None
      BY <1>1, <2>2
    <3>2. attempts'[a].withSession = (session # None)
      BY <2>2
    <3> QED BY <3>1, <3>2
  <2> QED BY <2>1, <2>2 DEF Adds
<1>6. \A x \in signedIn : x[1] \in Attempt /\ attempts[x[1]] = None /\ began[x[1]] = x[3] /\ x[3] \in Browser
  BY DEF IInv, AttemptRowsInv, Types, RowTypes
<1>7. ASSUME NEW x \in signedIn PROVE attempts'[x[1]] = None /\ began'[x[1]] = x[3]
  <2>1. x[1] \in Attempt /\ attempts[x[1]] = None /\ began[x[1]] = x[3] /\ began[x[1]] # None
    BY <1>1, <1>6
  <2> QED BY <2>1, <1>4
<1>8. AttemptRowsInv'
  BY <1>5, <1>7 DEF AttemptRowsInv
<1>9. AttemptsServeOnce'
  BY <1>7 DEF IInv, AttemptsServeOnce
<1>10. \A a \in Attempt, s \in Session : attempts'[a] # None /\ attempts'[a].session = s =>
         \/ attempts[a] # None /\ attempts[a].session = s
         \/ began'[a] = b /\ s = session
  BY DEF Adds
<1> QED BY <1>4, <1>8, <1>9, <1>10 DEF AttemptsKeep

LEMMA LoginWithNoSessionKeeps ==
  ASSUME SignInAssumption, AccountsAssumption, IInv, NEW r \in Request, NEW b \in Browser,
         LoginWithNoSession(r, b)
  PROVE  IInv' /\ Respects(r)
<1>1. PICK a \in NewAttempt : /\ AddAttempt(a, b, None)
                              /\ End(r, b, [NoCookies EXCEPT !.login = {a}])
  BY DEF LoginWithNoSession
<1>2. /\ kind' = kind /\ email' = email /\ selves' = selves /\ owners' = owners
      /\ sessionOf' = sessionOf /\ identity' = identity /\ born' = born /\ signedIn' = signedIn
  BY DEF LoginWithNoSession, accountVars
<1>3. Types /\ a \in Attempt
  BY NewAreNew DEF IInv
<1>4. /\ Adds(b, None) /\ began'[a] = b
      /\ attempts' \in [Attempt -> AttemptRows \cup {None}]
      /\ began' \in [Attempt -> Browser \cup {None}]
  BY <1>1, <1>3, AddAttemptAdds
<1>5. /\ AttemptRowsInv' /\ AttemptsServeOnce'
      /\ \A x \in Attempt : began[x] # None => began'[x] = began[x]
      /\ \A x \in Attempt : attempts[x] # None => attempts'[x] # None
      /\ \A x \in Attempt, s \in Session : attempts'[x] # None /\ attempts'[x].session = s =>
           \/ attempts[x] # None /\ attempts[x].session = s
           \/ began'[x] = b /\ s = None
  <2>1. SessionsStay(None) /\ None \in Session \cup {None}
    BY <1>2 DEF SessionsStay
  <2>2. AttemptsKeep(b, None)
    BY <2>1, <1>4, AddsKeeps
  <2> QED BY <2>2 DEF AttemptsKeep
<1> DEFINE answer == [NoCookies EXCEPT !.login = {a}]
<1>6. answer \in AnswerType /\ answer.session = {} /\ answer.login = {a}
  BY <1>3, NoRequestType, AnswerTypes
<1> HIDE DEF answer
<1>7. Respects(r)
  BY <1>2, <1>5 DEF Respects, Owned
<1>8. RowTypes'
  BY <1>2, <1>3, <1>4 DEF Types, RowTypes, AccountsTypeOK
<1>9. Types' /\ LocksExclude' /\ RequestsInv' /\ Delivers(b, answer)
  BY <1>1, <1>6, <1>7, <1>8, CommitStep DEF answer
<1>10. CookiesInv'
  BY <1>2, <1>4, <1>5, <1>6, <1>9, CookiesStep DEF SignInAssumption
<1>11. /\ OneAccountPerEmail' /\ IdentitiesMatch' /\ NothingLeftBehind' /\ OneSelfPlayer'
       /\ GuestSessionsEnd'
  BY <1>2 DEF IInv, OneAccountPerEmail, IdentitiesMatch, NothingLeftBehind, OneSelfPlayer,
              GuestSessionsEnd
<1> QED BY <1>5, <1>7, <1>9, <1>10, <1>11 DEF IInv

LEMMA ResumedKeeps ==
  ASSUME SignInAssumption, AccountsAssumption, IInv, NEW r \in Request, Resumed(r)
  PROVE  IInv' /\ Respects(r)
<1> DEFINE q == req[r]
           answer == [NoCookies EXCEPT !.session = {q.token}]
<1>1. /\ Ready(r, "resume") /\ sessionOf[q.token] # None
      /\ selves' = [selves EXCEPT ![q.found] = IF @ = 0 THEN 1 ELSE @]
      /\ Began(r, q.token) /\ End(r, q.browser, answer)
      /\ kind' = kind /\ email' = email /\ owners' = owners
      /\ sessionOf' = sessionOf /\ identity' = identity /\ born' = born /\ signedIn' = signedIn
  BY DEF Resumed, accountVars
<1>2. Types /\ q \in RequestType /\ RequestInv(q, held[r], waits[r])
  BY DEF IInv, Types, RequestsInv
<1>3. q.at = "resume"
  BY <1>1, ReadyHasLocks
<1>4. /\ q.browser \in Browser /\ q.found \in Account /\ q.token \in Session
      /\ kind[q.found] # "adopted" /\ Locked(held[r], ForUpdate("accounts", q.found))
  BY <1>2, <1>3 DEF RequestInv, FoundInv, RequestType
<1>5. /\ Adds(q.browser, q.token)
      /\ attempts' \in [Attempt -> AttemptRows \cup {None}]
      /\ began' \in [Attempt -> Browser \cup {None}]
  BY <1>1, <1>2, <1>4, BeganAdds
<1>6. /\ AttemptRowsInv' /\ AttemptsServeOnce'
      /\ \A x \in Attempt : began[x] # None => began'[x] = began[x]
      /\ \A x \in Attempt : attempts[x] # None => attempts'[x] # None
      /\ \A x \in Attempt, s \in Session : attempts'[x] # None /\ attempts'[x].session = s =>
           \/ attempts[x] # None /\ attempts[x].session = s
           \/ began'[x] = q.browser /\ s = q.token
  <2>1. SessionsStay(q.token)
    BY <1>1 DEF SessionsStay
  <2>2. AttemptsKeep(q.browser, q.token)
    BY <2>1, <1>4, <1>5, AddsKeeps
  <2> QED BY <2>2 DEF AttemptsKeep
<1>7. answer \in AnswerType /\ answer.session = {q.token} /\ answer.login = {}
  BY <1>4, NoRequestType, AnswerTypes
<1> HIDE DEF answer
<1>8. /\ selves' \in [Account -> Nat]
      /\ \A a \in Account : a # q.found => selves'[a] = selves[a]
      /\ selves[q.found] <= 1 => selves'[q.found] <= 1
  BY <1>1, <1>2, <1>4 DEF Types, RowTypes
<1>9. Respects(r)
  BY <1>1, <1>4, <1>6, <1>8 DEF Respects, Owned
<1>10. RowTypes'
  BY <1>1, <1>2, <1>5, <1>8 DEF Types, RowTypes, AccountsTypeOK
<1>11. Types' /\ LocksExclude' /\ RequestsInv' /\ Delivers(q.browser, answer)
  BY <1>1, <1>4, <1>7, <1>9, <1>10, CommitStep
<1>12. Carries(q.browser, q.token)
  BY DEF Carries
<1>13. CookiesInv'
  BY <1>1, <1>4, <1>6, <1>7, <1>11, <1>12, CookiesStep
<1>14. /\ OneAccountPerEmail' /\ IdentitiesMatch' /\ GuestSessionsEnd'
  BY <1>1 DEF IInv, OneAccountPerEmail, IdentitiesMatch, GuestSessionsEnd
<1>15. NothingLeftBehind' /\ OneSelfPlayer'
  BY <1>1, <1>4, <1>8 DEF IInv, NothingLeftBehind, OneSelfPlayer
<1> QED BY <1>6, <1>9, <1>11, <1>13, <1>14, <1>15 DEF IInv

LEMMA StartsGuestKeeps ==
  ASSUME SignInAssumption, AccountsAssumption, IInv, NEW r \in Request, StartsGuest(r)
  PROVE  IInv' /\ Respects(r)
<1> DEFINE b == req[r].browser
<1>1. PICK a \in NewAccount, s \in NewSession :
        /\ kind' = [kind EXCEPT ![a] = "guest"]
        /\ selves' = [selves EXCEPT ![a] = 1]
        /\ sessionOf' = [sessionOf EXCEPT ![s] = a]
        /\ born' = [born EXCEPT ![s] = "guest"]
        /\ Began(r, s)
        /\ End(r, b, [NoCookies EXCEPT !.session = {s}])
  BY DEF StartsGuest
<1> DEFINE answer == [NoCookies EXCEPT !.session = {s}]
<1>2. /\ Ready(r, "found") /\ email' = email /\ owners' = owners
      /\ identity' = identity /\ signedIn' = signedIn
  BY DEF StartsGuest
<1>3. Types /\ req[r] \in RequestType /\ RequestInv(req[r], held[r], waits[r])
  BY DEF IInv, Types, RequestsInv
<1>4. b \in Browser
  BY <1>2, <1>3 DEF Ready, RequestInv, FoundInv, RequestType
<1>5. /\ a \in Account /\ kind[a] = "absent" /\ s \in Session /\ born[s] = None
      /\ sessionOf[s] = None
  BY NewAreNew, UnusedSession
<1>6. /\ \A x \in Account : kind'[x] = IF x = a THEN "guest" ELSE kind[x]
      /\ \A x \in Account : selves'[x] = IF x = a THEN 1 ELSE selves[x]
      /\ \A t \in Session : sessionOf'[t] = IF t = s THEN a ELSE sessionOf[t]
      /\ \A t \in Session : born'[t] = IF t = s THEN "guest" ELSE born[t]
  BY <1>1, <1>3, <1>5 DEF Types, RowTypes, AccountsTypeOK
<1>7. /\ Adds(b, s)
      /\ attempts' \in [Attempt -> AttemptRows \cup {None}]
      /\ began' \in [Attempt -> Browser \cup {None}]
  BY <1>1, <1>3, <1>4, <1>5, BeganAdds
<1>8. None \notin Account /\ None \notin {"absent", "guest", "verified"}
  BY DEF SignInAssumption
<1>9. /\ \A t \in Session : sessionOf[t] # None => sessionOf'[t] # None
      /\ sessionOf'[s] # None
  BY <1>5, <1>6, <1>8
<1>10. /\ AttemptRowsInv' /\ AttemptsServeOnce'
       /\ \A x \in Attempt : began[x] # None => began'[x] = began[x]
       /\ \A x \in Attempt : attempts[x] # None => attempts'[x] # None
       /\ \A x \in Attempt, t \in Session : attempts'[x] # None /\ attempts'[x].session = t =>
            \/ attempts[x] # None /\ attempts[x].session = t
            \/ began'[x] = b /\ t = s
  <2>1. SessionsStay(s)
    BY <1>2, <1>9 DEF SessionsStay
  <2>2. AttemptsKeep(b, s)
    BY <2>1, <1>4, <1>5, <1>7, AddsKeeps
  <2> QED BY <2>2 DEF AttemptsKeep
<1>11. answer \in AnswerType /\ answer.session = {s} /\ answer.login = {}
  BY <1>5, NoRequestType, AnswerTypes
<1> HIDE DEF answer
<1>12. email[a] = None
  BY <1>5 DEF IInv, OneAccountPerEmail
<1>13. Respects(r)
  BY <1>2, <1>5, <1>6, <1>10, <1>12 DEF Respects, Owned
<1>14. RowTypes'
  BY <1>1, <1>2, <1>3, <1>5, <1>7 DEF Types, RowTypes, AccountsTypeOK
<1>15. Types' /\ LocksExclude' /\ RequestsInv' /\ Delivers(b, answer)
  BY <1>1, <1>4, <1>11, <1>13, <1>14, CommitStep DEF answer
<1>16. CookiesInv'
  <2>1. \A t \in Session : born[t] # None => born'[t] # None
    BY <1>6, <1>8
  <2>2. \A t \in Session : t \in answer.session => born[t] = None /\ born'[t] # None
    BY <1>5, <1>6, <1>8, <1>11
  <2> QED BY <1>4, <1>10, <1>11, <1>15, <2>1, <2>2, CookiesStep
<1>17. OneAccountPerEmail' /\ IdentitiesMatch'
  BY <1>2, <1>6, <1>12 DEF IInv, OneAccountPerEmail, IdentitiesMatch
<1>18. NothingLeftBehind' /\ OneSelfPlayer'
  BY <1>2, <1>5, <1>6 DEF IInv, NothingLeftBehind, OneSelfPlayer
<1>19. GuestSessionsEnd'
  <2> SUFFICES ASSUME NEW t \in Session, sessionOf'[t] # None
               PROVE  kind'[sessionOf'[t]] = born'[t]
    BY DEF GuestSessionsEnd
  <2>1. CASE t = s
    BY <1>5, <1>6, <2>1
  <2>2. CASE t # s
    <3>1. sessionOf[t] \in Account /\ kind[sessionOf[t]] = born[t] /\ sessionOf'[t] = sessionOf[t]
      BY <1>3, <1>6, <2>2 DEF IInv, GuestSessionsEnd, Types, RowTypes
    <3>2. kind[sessionOf[t]] # "absent"
      BY <1>3, <1>8, <3>1 DEF Types, RowTypes
    <3>3. sessionOf[t] # a
      BY <1>5, <3>2
    <3>4. kind'[sessionOf[t]] = kind[sessionOf[t]]
      BY <1>6, <3>1, <3>3
    <3>5. born'[t] = born[t]
      BY <1>6, <2>2
    <3> QED BY <3>1, <3>4, <3>5
  <2> QED BY <2>1, <2>2
<1> QED BY <1>10, <1>13, <1>15, <1>16, <1>17, <1>18, <1>19 DEF IInv

LEMMA FailsKeeps ==
  ASSUME SignInAssumption, AccountsAssumption, IInv, NEW r \in Request, Fails(r)
  PROVE  IInv' /\ Respects(r)
<1> DEFINE q == req[r]
           answer == ForgetLogin(q)
<1>1. /\ Ready(r, "browser")
      /\ attempts' = [attempts EXCEPT ![q.attempt] = None]
      /\ End(r, q.browser, answer)
      /\ kind' = kind /\ email' = email /\ selves' = selves /\ owners' = owners
      /\ sessionOf' = sessionOf /\ identity' = identity
      /\ born' = born /\ began' = began /\ signedIn' = signedIn
  BY DEF Fails, accountVars, historyVars
<1>2. Types /\ q \in RequestType /\ RequestInv(q, held[r], waits[r])
  BY DEF IInv, Types, RequestsInv
<1>3. q.at = "browser"
  BY <1>1, ReadyHasLocks
<1>4. /\ q.browser \in Browser /\ q.attempt \in Attempt
      /\ Locked(held[r], ForUpdate("login_attempts", q.attempt))
  BY <1>2, <1>3 DEF RequestInv, FoundInv, AttemptInv, InCallback, RequestType
<1>5. \A a \in Attempt : attempts'[a] = IF a = q.attempt THEN None ELSE attempts[a]
  BY <1>1, <1>2, <1>4 DEF Types, RowTypes
<1>6. Respects(r)
  BY <1>1, <1>4, <1>5 DEF Respects, Owned
<1>7. RowTypes'
  BY <1>1, <1>2, <1>4 DEF Types, RowTypes, AccountsTypeOK
<1>8. /\ answer \in AnswerType
      /\ \A s \in Session : s \notin answer.session
      /\ \A a \in Attempt : a \notin answer.login
  BY <1>2, AnswerTypes DEF SignInAssumption
<1> HIDE DEF answer
<1>9. Types' /\ LocksExclude' /\ RequestsInv' /\ Delivers(q.browser, answer)
  BY <1>1, <1>4, <1>6, <1>7, <1>8, CommitStep
<1>10. CookiesInv'
  BY <1>1, <1>4, <1>5, <1>8, <1>9, CookiesStep
<1>11. AttemptRowsInv'
  <2>1. AttemptRowsInv /\ \A x \in signedIn : x[1] \in Attempt
    BY DEF IInv, Types, RowTypes
  <2>2. \A a \in Attempt : attempts'[a] # None => attempts'[a] = attempts[a]
    BY <1>5
  <2>3. \A a \in Attempt : attempts'[a] # None =>
          /\ began'[a] # None
          /\ attempts'[a].session # None =>
               attempts'[a].withSession /\ sessionOf'[attempts'[a].session] # None
    BY <1>1, <2>1, <2>2 DEF AttemptRowsInv
  <2>4. ASSUME NEW x \in signedIn' PROVE attempts'[x[1]] = None /\ began'[x[1]] = x[3]
    <3>1. x \in signedIn /\ began' = began
      BY <1>1
    <3>2. x[1] \in Attempt /\ attempts[x[1]] = None /\ began[x[1]] = x[3]
      BY <3>1, <2>1 DEF AttemptRowsInv
    <3> DEFINE a == x[1]
    <3>3. a \in Attempt /\ attempts[a] = None
      BY <3>2
    <3> HIDE DEF a
    <3>4. attempts'[a] = None
      BY <3>3, <1>5
    <3> QED BY <3>1, <3>2, <3>4 DEF a
  <2> QED BY <2>3, <2>4 DEF AttemptRowsInv
<1>12. /\ AttemptsServeOnce' /\ OneAccountPerEmail' /\ IdentitiesMatch' /\ NothingLeftBehind'
       /\ OneSelfPlayer' /\ GuestSessionsEnd'
  <2>1. AttemptsServeOnce' /\ IdentitiesMatch'
    BY <1>1 DEF IInv, AttemptsServeOnce, IdentitiesMatch
  <2>2. OneAccountPerEmail' /\ OneSelfPlayer'
    BY <1>1 DEF IInv, OneAccountPerEmail, OneSelfPlayer
  <2>3. NothingLeftBehind' /\ GuestSessionsEnd'
    BY <1>1 DEF IInv, NothingLeftBehind, GuestSessionsEnd
  <2> QED BY <2>1, <2>2, <2>3
<1> QED BY <1>6, <1>9, <1>10, <1>11, <1>12 DEF IInv

LEMMA WritesKeeps ==
  ASSUME SignInAssumption, AccountsAssumption, IInv, NEW r \in Request, Writes(r)
  PROVE  IInv' /\ Respects(r)
<1> DEFINE q == req[r]
<1>1. /\ Ready(r, "write") /\ kind[q.found] # "adopted"
      /\ owners' = owners \cup {q.found} /\ End(r, q.browser, NoCookies)
      /\ kind' = kind /\ email' = email /\ selves' = selves
      /\ sessionOf' = sessionOf /\ identity' = identity /\ attempts' = attempts
      /\ born' = born /\ began' = began /\ signedIn' = signedIn
  BY DEF Writes, MayWrite, accountVars, historyVars
<1>2. Types /\ q \in RequestType /\ RequestInv(q, held[r], waits[r])
  BY DEF IInv, Types, RequestsInv
<1>3. q.at = "write"
  BY <1>1, ReadyHasLocks
<1>4. q.browser \in Browser /\ q.found \in Account
  BY <1>2, <1>3 DEF RequestInv, FoundInv, RequestType
<1>5. Respects(r)
  BY <1>1 DEF Respects, Owned
<1>6. RowTypes'
  BY <1>1, <1>2, <1>4 DEF Types, RowTypes, AccountsTypeOK
<1>7. NoCookies \in AnswerType /\ NoCookies.session = {} /\ NoCookies.login = {}
  BY <1>2, AnswerTypes
<1>8. Types' /\ LocksExclude' /\ RequestsInv' /\ Delivers(q.browser, NoCookies)
  BY <1>1, <1>4, <1>5, <1>6, <1>7, CommitStep
<1>9. CookiesInv'
  BY <1>1, <1>4, <1>7, <1>8, CookiesStep
<1>10. /\ AttemptRowsInv' /\ AttemptsServeOnce' /\ OneAccountPerEmail' /\ IdentitiesMatch'
       /\ OneSelfPlayer' /\ GuestSessionsEnd'
  <2>1. AttemptRowsInv' /\ AttemptsServeOnce'
    BY <1>1 DEF IInv, AttemptRowsInv, AttemptsServeOnce
  <2>2. OneAccountPerEmail' /\ IdentitiesMatch' /\ OneSelfPlayer' /\ GuestSessionsEnd'
    BY <1>1 DEF IInv, OneAccountPerEmail, IdentitiesMatch, OneSelfPlayer, GuestSessionsEnd
  <2> QED BY <2>1, <2>2
<1>11. NothingLeftBehind'
  BY <1>1 DEF IInv, NothingLeftBehind
<1> QED BY <1>5, <1>8, <1>9, <1>10, <1>11 DEF IInv

-----------------------------------------------------------------------------
\* The attempts of sessions that end keep their rows.
LEMMA DetachedFacts ==
  ASSUME SignInAssumption, Types, NEW STATE ended
  PROVE  /\ Detached(ended) \in [Attempt -> AttemptRows \cup {None}]
         /\ \A a \in Attempt : Detached(ended)[a] = None <=> attempts[a] = None
         /\ \A a \in Attempt : attempts[a] # None =>
              /\ Detached(ended)[a].withSession = attempts[a].withSession
              /\ Detached(ended)[a].session # None =>
                   /\ Detached(ended)[a].session = attempts[a].session
                   /\ attempts[a].session \notin ended
<1>1. \A a \in Attempt : Detached(ended)[a] =
        IF attempts[a] # None /\ attempts[a].session \in ended
        THEN [attempts[a] EXCEPT !.session = None] ELSE attempts[a]
  BY DEF Detached
<1>2. \A a \in Attempt : attempts[a] # None => attempts[a] \in AttemptRows
  BY DEF Types, RowTypes
<1>3. \A row \in AttemptRows : /\ [row EXCEPT !.session = None] \in AttemptRows
                               /\ [row EXCEPT !.session = None].session = None
                               /\ [row EXCEPT !.session = None].withSession = row.withSession
  BY DEF AttemptRows
<1>4. None \notin AttemptRows
  BY DEF SignInAssumption
<1>5. \A a \in Attempt : Detached(ended)[a] \in AttemptRows \cup {None}
  BY <1>1, <1>2, <1>3
<1>6. Detached(ended) = [a \in Attempt |-> Detached(ended)[a]]
  BY DEF Detached
<1> DEFINE rows == Detached(ended)
<1> HIDE DEF rows
<1>7. rows \in [Attempt -> AttemptRows \cup {None}]
  <2>1. rows = [a \in Attempt |-> rows[a]] /\ \A a \in Attempt : rows[a] \in AttemptRows \cup {None}
    BY <1>5, <1>6 DEF rows
  <2> QED BY <2>1
<1>8. ASSUME NEW a \in Attempt PROVE Detached(ended)[a] = None <=> attempts[a] = None
  <2>1. CASE attempts[a] = None
    BY <1>1, <2>1
  <2>2. CASE attempts[a] # None
    <3>1. attempts[a] \in AttemptRows /\ [attempts[a] EXCEPT !.session = None] \in AttemptRows
      BY <1>2, <1>3, <2>2
    <3> QED BY <1>1, <1>4, <2>2, <3>1
  <2> QED BY <2>1, <2>2
<1>9. ASSUME NEW a \in Attempt, attempts[a] # None
      PROVE  /\ Detached(ended)[a].withSession = attempts[a].withSession
             /\ Detached(ended)[a].session # None =>
                  /\ Detached(ended)[a].session = attempts[a].session
                  /\ attempts[a].session \notin ended
  <2>1. attempts[a] \in AttemptRows
    BY <1>2, <1>9
  <2>2. CASE attempts[a].session \in ended
    <3>1. Detached(ended)[a] = [attempts[a] EXCEPT !.session = None]
      BY <1>1, <1>9, <2>2
    <3> QED BY <3>1, <2>1, <1>3
  <2>3. CASE attempts[a].session \notin ended
    <3>1. Detached(ended)[a] = attempts[a]
      BY <1>1, <2>3
    <3> QED BY <3>1, <2>3
  <2> QED BY <2>2, <2>3
<1> QED BY <1>7, <1>8, <1>9 DEF rows

LEMMA SignsOutKeeps ==
  ASSUME SignInAssumption, AccountsAssumption, IInv, NEW r \in Request, SignsOut(r)
  PROVE  IInv' /\ Respects(r)
<1> DEFINE q == req[r]
           answer == [NoCookies EXCEPT !.session = {None}]
           rows == Detached(q.doomed)
<1>1. /\ Ready(r, "commit")
      /\ sessionOf' = [s \in Session |-> IF s \in q.doomed THEN None ELSE sessionOf[s]]
      /\ attempts' = rows /\ End(r, q.browser, answer)
      /\ kind' = kind /\ email' = email /\ selves' = selves /\ owners' = owners
      /\ identity' = identity /\ born' = born /\ began' = began /\ signedIn' = signedIn
  BY DEF SignsOut, accountVars, historyVars
<1>2. Types /\ q \in RequestType /\ RequestInv(q, held[r], waits[r])
  BY DEF IInv, Types, RequestsInv
<1>3. q.at = "commit"
  BY <1>1, ReadyHasLocks
<1>4. q.browser \in Browser
  BY <1>2, <1>3 DEF RequestInv, FoundInv, RequestType
<1>5. /\ rows \in [Attempt -> AttemptRows \cup {None}]
      /\ \A a \in Attempt : rows[a] = None <=> attempts[a] = None
      /\ \A a \in Attempt : attempts[a] # None =>
           /\ rows[a].withSession = attempts[a].withSession
           /\ rows[a].session # None =>
                rows[a].session = attempts[a].session /\ attempts[a].session \notin q.doomed
  BY <1>2, DetachedFacts
<1> HIDE DEF rows
<1>6. None \notin Session /\ None \notin Attempt /\ None \notin Account
  BY DEF SignInAssumption
<1>7. Respects(r)
  BY <1>1, <1>5, <1>6 DEF Respects, Owned
<1>8. RowTypes'
  BY <1>1, <1>2, <1>5 DEF Types, RowTypes, AccountsTypeOK
<1>9. /\ answer \in AnswerType
      /\ \A s \in Session : s \notin answer.session
      /\ \A a \in Attempt : a \notin answer.login
  <2>1. None \in Session \cup {None}
    OBVIOUS
  <2>2. answer \in AnswerType /\ answer.session = {None} /\ answer.login = {}
    BY <1>2, <2>1, AnswerTypes
  <2> QED BY <1>6, <2>2
<1> HIDE DEF answer
<1>10. Types' /\ LocksExclude' /\ RequestsInv' /\ Delivers(q.browser, answer)
  BY <1>1, <1>4, <1>7, <1>8, <1>9, CommitStep
<1>11. CookiesInv'
  BY <1>1, <1>4, <1>5, <1>6, <1>9, <1>10, CookiesStep
<1>12. AttemptRowsInv'
  <2>1. \A a \in Attempt : attempts'[a] # None =>
          /\ began'[a] # None
          /\ attempts'[a].session # None =>
               attempts'[a].withSession /\ sessionOf'[attempts'[a].session] # None
    <3> SUFFICES ASSUME NEW a \in Attempt, rows[a] # None
                 PROVE  /\ began[a] # None
                        /\ rows[a].session # None =>
                             rows[a].withSession /\ sessionOf'[rows[a].session] # None
      BY <1>1
    <3>1. /\ attempts[a] # None /\ began[a] # None
          /\ attempts[a].session # None =>
               attempts[a].withSession /\ sessionOf[attempts[a].session] # None
      BY <1>5 DEF IInv, AttemptRowsInv
    <3>2. attempts[a].session \in Session \cup {None}
      BY <1>2, <3>1 DEF Types, RowTypes, AttemptRows
    <3> QED BY <1>1, <1>5, <3>1, <3>2
  <2>2. \A x \in signedIn : attempts'[x[1]] = None /\ began'[x[1]] = x[3]
    BY <1>1, <1>2, <1>5 DEF IInv, AttemptRowsInv, Types, RowTypes
  <2> QED BY <1>1, <2>1, <2>2 DEF AttemptRowsInv
<1>13. /\ AttemptsServeOnce' /\ OneAccountPerEmail' /\ IdentitiesMatch' /\ OneSelfPlayer'
  BY <1>1 DEF IInv, AttemptsServeOnce, OneAccountPerEmail, IdentitiesMatch, OneSelfPlayer
<1>14. NothingLeftBehind' /\ GuestSessionsEnd'
  BY <1>1, <1>6 DEF IInv, NothingLeftBehind, GuestSessionsEnd
<1> QED BY <1>7, <1>10, <1>11, <1>12, <1>13, <1>14 DEF IInv

-----------------------------------------------------------------------------
\* What _sign_in() may rely on as it commits.
CommitFacts(q, h) ==
  /\ q.browser \in Browser /\ q.attempt \in Attempt /\ q.sub \in Sub
  /\ mail[q.sub] \in Email /\ mail[q.sub] # None
  /\ attempts[q.attempt] # None /\ began[q.attempt] = q.browser
  /\ Locked(h, ForUpdate("login_attempts", q.attempt))
  /\ Locked(h, ForUpdate("emails", mail[q.sub]))
  /\ q.doomed \subseteq Session /\ q.guest \in BOOLEAN /\ q.hasSelf \in BOOLEAN
  /\ q.guest => /\ q.current \in Account /\ kind[q.current] = "guest"
                /\ Locked(h, ForUpdate("accounts", q.current))
                /\ \A s \in Session : sessionOf[s] = q.current => s \in q.doomed
  /\ q.outcome \in Outcomes
  /\ q.outcome \in {"AdoptGuest", "VerifyInPlace"} => q.guest
  /\ q.outcome \in {"CreateAccount", "VerifyInPlace"} => ~Owned(mail[q.sub])
  /\ q.outcome = "CreateAccount" => ~q.guest
  /\ q.outcome = "VerifyInPlace" => q.into = q.current
  /\ q.outcome \in OwnerFound => q.into \in Account /\ email[q.into] = mail[q.sub]
  /\ q.outcome = "AdoptGuest" => /\ Locked(h, ForUpdate("accounts", q.into))
                                 /\ q.hasSelf <=> selves[q.into] > 0

LEMMA CommitsOnFacts ==
  ASSUME SignInAssumption, AccountsAssumption, IInv, NEW r \in Request,
         Ready(r, "commit"), req[r].route = "callback"
  PROVE  CommitFacts(req[r], held[r])
<1> DEFINE q == req[r]
<1>1. q \in RequestType /\ RequestInv(q, held[r], waits[r]) /\ q.at = "commit"
  BY DEF Ready, IInv, Types, RequestsInv
<1>2. InCallback(q) /\ SigningIn(q) /\ Resolved(q) /\ Ending(q)
  BY <1>1 DEF Ending, Resolved, SigningIn, InCallback
<1>3. /\ q.browser \in Browser /\ q.attempt \in Attempt /\ q.sub \in Sub
      /\ attempts[q.attempt] # None /\ began[q.attempt] = q.browser
      /\ Locked(held[r], ForUpdate("login_attempts", q.attempt))
      /\ q.guest => q.current \in Account /\ kind[q.current] = "guest" /\ q.current = q.found
      /\ q.found # None => Locked(held[r], ForUpdate("accounts", q.found))
  BY <1>1, <1>2 DEF RequestInv, FoundInv, AttemptInv, RequestType
<1>4. q.guest => Locked(held[r], ForUpdate("accounts", q.current))
  BY <1>3 DEF SignInAssumption
<1>5. mail[q.sub] \in Email /\ mail[q.sub] # None
  BY <1>3 DEF SignInAssumption, AccountsAssumption
<1>6. q.doomed \subseteq Session /\ q.guest \in BOOLEAN /\ q.hasSelf \in BOOLEAN
  BY <1>1 DEF RequestType
<1>7. /\ Locked(held[r], ForUpdate("emails", mail[q.sub]))
      /\ q.outcome \in Outcomes
      /\ q.outcome \in {"AdoptGuest", "VerifyInPlace"} => q.guest
      /\ q.outcome \in {"CreateAccount", "VerifyInPlace"} => ~Owned(mail[q.sub])
      /\ q.outcome = "CreateAccount" => ~q.guest
      /\ q.outcome = "VerifyInPlace" => q.into = q.current
      /\ q.outcome \in OwnerFound => q.into \in Account /\ email[q.into] = mail[q.sub]
  BY <1>1, <1>2 DEF RequestInv, OutcomeInv, RequestType
<1>8. /\ q.guest => \A s \in Session : sessionOf[s] = q.current => s \in q.doomed
      /\ q.outcome = "AdoptGuest" => /\ Locked(held[r], ForUpdate("accounts", q.into))
                                     /\ q.hasSelf <=> selves[q.into] > 0
  BY <1>1, <1>2 DEF RequestInv, EndingInv
<1> QED BY <1>3, <1>4, <1>5, <1>6, <1>7, <1>8 DEF CommitFacts

\* What a commit that signs in account a makes of the accounts.
SignsInTo(q, h, a) ==
  /\ a \in Account /\ kind'[a] = "verified" /\ email'[a] = mail[q.sub]
  /\ AccountsTypeOK' /\ selves' \in [Account -> Nat] /\ owners' \subseteq Account
  /\ OneAccountPerEmail'
  /\ [AccountsNext]_accountVars
  /\ \A x \in Account : kind'[x] # kind[x] =>
       \/ x = a /\ kind[x] = "absent"
       \/ q.guest /\ x = q.current
  /\ \A x \in Account : email[x] # None => email'[x] = email[x]
  /\ \A e \in Email : Owned(e)' => Owned(e) \/ e = mail[q.sub]
  /\ \A x \in Account : selves'[x] <= 1
  /\ \A x \in Account : email[x] # None /\ selves'[x] # selves[x] =>
       Locked(h, ForUpdate("accounts", x))
  /\ \A x \in Account : kind'[x] = "adopted" =>
       /\ selves'[x] = 0 /\ x \notin owners' /\ x # a
       /\ kind[x] = "adopted" \/ (q.guest /\ x = q.current)

LEMMA StaysSignedIn ==
  ASSUME SignInAssumption, AccountsAssumption, IInv, NEW STATE q, NEW STATE h, CommitFacts(q, h),
         q.outcome \in {"AlreadySignedIn", "SwitchAccount"},
         UNCHANGED <<accountVars, selves, owners>>
  PROVE  SignsInTo(q, h, q.into)
<1>1. kind' = kind /\ email' = email /\ selves' = selves /\ owners' = owners
  BY DEF accountVars
<1>2. q.into \in Account /\ email[q.into] = mail[q.sub] /\ mail[q.sub] # None
  BY DEF CommitFacts, OwnerFound
<1>3. kind[q.into] = "verified"
  BY <1>2 DEF IInv, OneAccountPerEmail
<1>4. RowTypes /\ OneAccountPerEmail
  BY DEF IInv, Types
<1>5. \A x \in Account : kind[x] = "adopted" => selves[x] = 0 /\ x \notin owners
  BY DEF IInv, NothingLeftBehind
<1>6. \A x \in Account : selves[x] <= 1
  BY DEF IInv, OneSelfPlayer
<1>7. OneAccountPerEmail' /\ AccountsTypeOK' /\ [AccountsNext]_accountVars
  BY <1>1, <1>4 DEF RowTypes, AccountsTypeOK, OneAccountPerEmail, accountVars
<1> QED BY <1>1, <1>2, <1>3, <1>4, <1>5, <1>6, <1>7 DEF SignsInTo, RowTypes, Owned

LEMMA GetsEmail ==
  ASSUME SignInAssumption, AccountsAssumption, IInv, NEW STATE q, NEW STATE h, CommitFacts(q, h),
         q.outcome \in {"VerifyInPlace", "CreateAccount"},
         NEW a \in Destination(q), GivesEmail(a, q.sub)
  PROVE  SignsInTo(q, h, a)
<1>1. /\ kind' = [kind EXCEPT ![a] = "verified"]
      /\ email' = [email EXCEPT ![a] = mail[q.sub]]
      /\ selves' = selves /\ owners' = owners
  BY DEF GivesEmail
<1>2. /\ a \in Account /\ kind[a] \in {"absent", "guest"}
      /\ kind[a] = "absent" \/ (q.guest /\ a = q.current)
  <2>1. CASE q.outcome = "VerifyInPlace"
    BY <2>1 DEF Destination, CommitFacts
  <2>2. CASE q.outcome = "CreateAccount"
    BY <2>2, NewAreNew DEF Destination
  <2> QED BY <2>1, <2>2
<1>3. mail[q.sub] \in Email /\ mail[q.sub] # None /\ ~Owned(mail[q.sub])
  BY DEF CommitFacts
<1>4. RowTypes /\ OneAccountPerEmail
  BY DEF IInv, Types
<1>5. email[a] = None
  BY <1>2, <1>4 DEF OneAccountPerEmail
<1>6. /\ \A x \in Account : kind'[x] = IF x = a THEN "verified" ELSE kind[x]
      /\ \A x \in Account : email'[x] = IF x = a THEN mail[q.sub] ELSE email[x]
  BY <1>1, <1>2, <1>4 DEF RowTypes, AccountsTypeOK
<1>7. AccountsTypeOK'
  BY <1>1, <1>2, <1>3, <1>4 DEF RowTypes, AccountsTypeOK
<1>8. OneAccountPerEmail'
  BY <1>2, <1>3, <1>4, <1>6 DEF OneAccountPerEmail, Owned
<1>9. [AccountsNext]_accountVars
  BY <1>1, <1>2, <1>3 DEF AccountsNext, GetEmail
<1>10. \A e \in Email : Owned(e)' => Owned(e) \/ e = mail[q.sub]
  BY <1>6 DEF Owned
<1>11. \A x \in Account : kind[x] = "adopted" => selves[x] = 0 /\ x \notin owners
  BY DEF IInv, NothingLeftBehind
<1>12. \A x \in Account : selves[x] <= 1
  BY DEF IInv, OneSelfPlayer
<1>13. /\ \A x \in Account : kind'[x] # kind[x] =>
            \/ x = a /\ kind[x] = "absent"
            \/ q.guest /\ x = q.current
       /\ \A x \in Account : email[x] # None => email'[x] = email[x]
  BY <1>2, <1>5, <1>6
<1>14. \A x \in Account : kind'[x] = "adopted" => kind[x] = "adopted" /\ x # a
  BY <1>6
<1>15. /\ kind'[a] = "verified" /\ email'[a] = mail[q.sub]
       /\ selves' \in [Account -> Nat] /\ owners' \subseteq Account
  BY <1>1, <1>2, <1>4, <1>6 DEF RowTypes
<1> QED BY <1>1, <1>2, <1>7, <1>8, <1>9, <1>10, <1>11, <1>12, <1>13, <1>14, <1>15 DEF SignsInTo

LEMMA HandsOver ==
  ASSUME SignInAssumption, AccountsAssumption, IInv, NEW STATE q, NEW STATE h, CommitFacts(q, h),
         q.outcome = "AdoptGuest",
         NEW played \in BOOLEAN, HandOver(q.current, q.into, q.hasSelf, played)
  PROVE  SignsInTo(q, h, q.into)
<1> DEFINE g == q.current
           a == q.into
<1>1. /\ kind' = [kind EXCEPT ![g] = "adopted"]
      /\ selves' = [selves EXCEPT ![g] = 0,
                                  ![a] = IF q.hasSelf \/ played THEN @ ELSE @ + selves[g]]
      /\ owners' = IF g \in owners THEN (owners \ {g}) \cup {a} ELSE owners
      /\ email' = email
  BY DEF HandOver
<1>2. /\ q.guest /\ g \in Account /\ kind[g] = "guest"
      /\ a \in Account /\ email[a] = mail[q.sub] /\ mail[q.sub] \in Email /\ mail[q.sub] # None
      /\ Locked(h, ForUpdate("accounts", a)) /\ Locked(h, ForUpdate("accounts", g))
      /\ q.hasSelf <=> selves[a] > 0
      /\ q.hasSelf \in BOOLEAN
  BY DEF CommitFacts, OwnerFound
<1>3. RowTypes /\ OneAccountPerEmail
  BY DEF IInv, Types
<1>4. kind[a] = "verified" /\ a # g
  BY <1>2, <1>3 DEF OneAccountPerEmail
<1>5. email[g] = None
  BY <1>2, <1>3 DEF OneAccountPerEmail
<1>6. \A x \in Account : kind'[x] = IF x = g THEN "adopted" ELSE kind[x]
  BY <1>1, <1>3 DEF RowTypes, AccountsTypeOK
<1>7. \A x \in Account : selves'[x] = IF x = a THEN (IF q.hasSelf \/ played THEN selves[a]
                                                     ELSE selves[a] + selves[g])
                                      ELSE IF x = g THEN 0 ELSE selves[x]
  BY <1>1, <1>2, <1>3, <1>4 DEF RowTypes
<1>8. \A x \in Account : selves[x] \in Nat /\ selves[x] <= 1
  BY <1>3 DEF RowTypes, IInv, OneSelfPlayer
<1> HIDE DEF g, a
<1>9. \A x \in Account : selves'[x] \in Nat /\ selves'[x] <= 1
  <2> DEFINE kept == q.hasSelf \/ played
  <2>1. ~kept => ~(selves[a] > 0)
    BY <1>2, Zenon
  <2>2. selves'[a] = IF kept THEN selves[a] ELSE selves[a] + selves[g]
    BY <1>2, <1>7
  <2>3. \A x \in Account \ {a} : selves'[x] = IF x = g THEN 0 ELSE selves[x]
    BY <1>7
  <2> HIDE DEF kept
  <2>4. selves'[a] \in Nat /\ selves'[a] <= 1
    BY <1>2, <1>8, <2>1, <2>2
  <2> QED BY <1>2, <1>8, <2>3, <2>4
<1>10. selves' \in [Account -> Nat] /\ owners' \subseteq Account
  BY <1>1, <1>2, <1>3, <1>9 DEF RowTypes
<1>11. AccountsTypeOK'
  BY <1>1, <1>2, <1>3 DEF RowTypes, AccountsTypeOK
<1>12. OneAccountPerEmail'
  BY <1>1, <1>3, <1>5, <1>6 DEF OneAccountPerEmail
<1>13. [AccountsNext]_accountVars
  <2>1. Owned(mail[q.sub])
    BY <1>2 DEF Owned
  <2> QED BY <1>1, <1>2, <2>1 DEF AccountsNext, Adopt
<1>14. \A x \in Account : kind'[x] = "adopted" =>
         /\ selves'[x] = 0 /\ x \notin owners' /\ x # a
         /\ kind[x] = "adopted" \/ (q.guest /\ x = g)
  <2>1. \A x \in Account : kind[x] = "adopted" => selves[x] = 0 /\ x \notin owners
    BY DEF IInv, NothingLeftBehind
  <2>2. \A x \in Account : kind'[x] = "adopted" => x = g \/ (x # g /\ kind[x] = "adopted")
    BY <1>6
  <2>3. \A x \in Account : kind[x] = "adopted" => x # a
    BY <1>4
  <2>4. g # a /\ g \notin owners' /\ selves'[g] = 0
    BY <1>1, <1>2, <1>4, <1>7
  <2>5. \A x \in Account : x # a /\ x # g => (x \in owners' => x \in owners) /\ selves'[x] = selves[x]
    BY <1>1, <1>7
  <2> QED BY <1>2, <2>1, <2>2, <2>3, <2>4, <2>5
<1>15. \A x \in Account : selves'[x] # selves[x] => Locked(h, ForUpdate("accounts", x))
  BY <1>2, <1>7
<1>16. \A e \in Email : Owned(e)' => Owned(e)
  BY <1>1 DEF Owned
<1> QED BY <1>1, <1>2, <1>4, <1>6, <1>9, <1>10, <1>11, <1>12, <1>13, <1>14, <1>15, <1>16
           DEF SignsInTo, g, a

LEMMA SignsInCases ==
  ASSUME SignInAssumption, AccountsAssumption, IInv, NEW r \in Request, SignsIn(r)
  PROVE  \E a \in Account, s \in Session :
           /\ SignsInTo(req[r], held[r], a) /\ CommitFacts(req[r], held[r])
           /\ born[s] = None
           /\ sessionOf' = [t \in Session |-> IF t = s THEN a
                                              ELSE IF t \in req[r].doomed THEN None ELSE sessionOf[t]]
           /\ identity' = [identity EXCEPT ![req[r].sub] = IF @ = None THEN a ELSE @]
           /\ born' = [born EXCEPT ![s] = "verified"]
           /\ End(r, req[r].browser, [ForgetLogin(req[r]) EXCEPT !.session = {s}])
<1> DEFINE q == req[r]
<1>1. CommitFacts(q, held[r])
  BY CommitsOnFacts DEF SignsIn
<1>2. PICK a \in Destination(q), s \in NewSession :
        /\ CASE q.outcome = "AdoptGuest" ->
                  \E played \in BOOLEAN : HandOver(q.current, a, q.hasSelf, played)
             [] q.outcome \in {"VerifyInPlace", "CreateAccount"} -> GivesEmail(a, q.sub)
             [] OTHER -> UNCHANGED <<accountVars, selves, owners>>
        /\ sessionOf' = [t \in Session |-> IF t = s THEN a
                                           ELSE IF t \in q.doomed THEN None ELSE sessionOf[t]]
        /\ identity' = [identity EXCEPT ![q.sub] = IF @ = None THEN a ELSE @]
        /\ born' = [born EXCEPT ![s] = "verified"]
        /\ End(r, q.browser, [ForgetLogin(q) EXCEPT !.session = {s}])
  BY DEF SignsIn
<1>3. s \in Session /\ born[s] = None
  BY NewAreNew
<1>4. SignsInTo(q, held[r], a)
  <2>1. CASE q.outcome = "AdoptGuest"
    <3>1. a = q.into /\ \E played \in BOOLEAN : HandOver(q.current, a, q.hasSelf, played)
      BY <1>2, <2>1 DEF Destination
    <3> QED BY <1>1, <2>1, <3>1, HandsOver
  <2>2. CASE q.outcome \in {"VerifyInPlace", "CreateAccount"}
    <3>1. GivesEmail(a, q.sub)
      BY <1>2, <2>2
    <3> QED BY <1>1, <2>2, <3>1, GetsEmail
  <2>3. CASE q.outcome \in {"AlreadySignedIn", "SwitchAccount"}
    <3>1. a = q.into /\ UNCHANGED <<accountVars, selves, owners>>
      BY <1>2, <2>3 DEF Destination
    <3> QED BY <1>1, <2>3, <3>1, StaysSignedIn
  <2> QED BY <1>1, <2>1, <2>2, <2>3 DEF CommitFacts, Outcomes
<1> QED BY <1>1, <1>2, <1>3, <1>4 DEF SignsInTo

LEMMA SignsInKeeps ==
  ASSUME SignInAssumption, AccountsAssumption, IInv, NEW r \in Request, SignsIn(r)
  PROVE  IInv' /\ Respects(r) /\ [AccountsNext]_accountVars
<1> DEFINE q == req[r]
           h == held[r]
           rows == Detached(q.doomed)
<1>1. PICK a \in Account, s \in Session :
        /\ SignsInTo(q, h, a) /\ CommitFacts(q, h)
        /\ born[s] = None
        /\ sessionOf' = [t \in Session |-> IF t = s THEN a
                                           ELSE IF t \in q.doomed THEN None ELSE sessionOf[t]]
        /\ identity' = [identity EXCEPT ![q.sub] = IF @ = None THEN a ELSE @]
        /\ born' = [born EXCEPT ![s] = "verified"]
        /\ End(r, q.browser, [ForgetLogin(q) EXCEPT !.session = {s}])
  BY SignsInCases
<1> DEFINE answer == [ForgetLogin(q) EXCEPT !.session = {s}]
<1>2. /\ attempts' = [rows EXCEPT ![q.attempt] = None]
      /\ signedIn' = signedIn \cup {<<q.attempt, r, q.browser>>}
      /\ began' = began
  BY DEF SignsIn
<1>3. Types /\ q \in RequestType
  BY DEF IInv, Types
<1>4. /\ q.browser \in Browser /\ q.attempt \in Attempt /\ q.sub \in Sub
      /\ q.doomed \subseteq Session
      /\ mail[q.sub] \in Email /\ mail[q.sub] # None
      /\ attempts[q.attempt] # None /\ began[q.attempt] = q.browser
      /\ Locked(h, ForUpdate("login_attempts", q.attempt))
      /\ Locked(h, ForUpdate("emails", mail[q.sub]))
      /\ q.guest => /\ q.current \in Account /\ kind[q.current] = "guest"
                    /\ Locked(h, ForUpdate("accounts", q.current))
                    /\ \A t \in Session : sessionOf[t] = q.current => t \in q.doomed
  BY <1>1 DEF CommitFacts
<1>5. None \notin Session /\ None \notin Attempt /\ None \notin Account /\ None \notin Browser
      /\ None \notin {"absent", "guest", "verified"}
  BY DEF SignInAssumption
<1>6. /\ rows \in [Attempt -> AttemptRows \cup {None}]
      /\ \A x \in Attempt : rows[x] = None <=> attempts[x] = None
      /\ \A x \in Attempt : attempts[x] # None =>
           /\ rows[x].withSession = attempts[x].withSession
           /\ rows[x].session # None =>
                rows[x].session = attempts[x].session /\ attempts[x].session \notin q.doomed
  BY <1>3, DetachedFacts
<1> HIDE DEF rows
<1>7. \A x \in Attempt : attempts'[x] = IF x = q.attempt THEN None ELSE rows[x]
  BY <1>2, <1>4, <1>6
<1>8. /\ \A t \in Session : sessionOf'[t] = IF t = s THEN a
                                            ELSE IF t \in q.doomed THEN None ELSE sessionOf[t]
      /\ \A t \in Session : born'[t] = IF t = s THEN "verified" ELSE born[t]
  BY <1>1, <1>3 DEF Types, RowTypes
<1>9. sessionOf[s] = None
  BY <1>1, UnusedSession
<1>10. \A x \in Sub : identity'[x] = identity[x] \/ (x = q.sub /\ identity[x] = None /\ identity'[x] = a)
  BY <1>1, <1>3, <1>4 DEF Types, RowTypes
<1>11. /\ kind'[a] = "verified" /\ email'[a] = mail[q.sub]
       /\ AccountsTypeOK' /\ selves' \in [Account -> Nat] /\ owners' \subseteq Account
       /\ OneAccountPerEmail' /\ [AccountsNext]_accountVars
       /\ \A x \in Account : kind'[x] # kind[x] =>
            \/ x = a /\ kind[x] = "absent"
            \/ q.guest /\ x = q.current
       /\ \A x \in Account : email[x] # None => email'[x] = email[x]
       /\ \A e \in Email : Owned(e)' => Owned(e) \/ e = mail[q.sub]
       /\ \A x \in Account : selves'[x] <= 1
       /\ \A x \in Account : email[x] # None /\ selves'[x] # selves[x] =>
            Locked(h, ForUpdate("accounts", x))
       /\ \A x \in Account : kind'[x] = "adopted" =>
            /\ selves'[x] = 0 /\ x \notin owners' /\ x # a
            /\ kind[x] = "adopted" \/ (q.guest /\ x = q.current)
  BY <1>1 DEF SignsInTo
<1>12. kind[a] = "guest" => q.guest /\ a = q.current
  BY <1>11
<1>13. Respects(r)
  <2>1. \A x \in Attempt : attempts[x] # None /\ attempts'[x] = None =>
          Locked(h, ForUpdate("login_attempts", x))
    BY <1>4, <1>6, <1>7
  <2>2. \A x \in Account : kind'[x] # kind[x] =>
          \/ kind[x] = "absent" /\ kind'[x] # "adopted"
          \/ Locked(h, ForUpdate("accounts", x))
    BY <1>4, <1>11
  <2>3. \A e \in Email : Owned(e)' => Owned(e) \/ Locked(h, ForUpdate("emails", e))
    BY <1>4, <1>11
  <2>4. \A t \in Session, x \in Account : sessionOf'[t] = x /\ sessionOf[t] # x =>
          kind[x] # "guest" \/ Locked(h, ForUpdate("accounts", x))
    BY <1>4, <1>5, <1>8, <1>12
  <2> QED BY <1>2, <1>11, <2>1, <2>2, <2>3, <2>4 DEF Respects
<1>14. RowTypes'
  <2>1. attempts' \in [Attempt -> AttemptRows \cup {None}]
    BY <1>2, <1>4, <1>6
  <2>2. sessionOf' \in [Session -> Account \cup {None}]
    BY <1>1, <1>3 DEF Types, RowTypes
  <2>3. identity' \in [Sub -> Account \cup {None}]
    BY <1>1, <1>3 DEF Types, RowTypes
  <2>4. born' \in [Session -> {"guest", "verified", None}]
    BY <1>1, <1>3 DEF Types, RowTypes
  <2>5. signedIn' \subseteq Attempt \X Request \X Browser
    BY <1>2, <1>3, <1>4 DEF Types, RowTypes
  <2> QED BY <1>2, <1>3, <1>11, <2>1, <2>2, <2>3, <2>4, <2>5 DEF Types, RowTypes
<1>15. /\ answer \in AnswerType /\ answer.session = {s} /\ \A x \in Attempt : x \notin answer.login
  <2>1. s \in Session \cup {None}
    OBVIOUS
  <2>2. answer \in AnswerType /\ answer.session = {s} /\ answer.login \subseteq {None}
    BY <1>3, <2>1, AnswerTypes
  <2> QED BY <1>5, <2>2
<1>16. End(r, q.browser, answer)
  BY <1>1
<1> HIDE DEF answer
<1>17. Types' /\ LocksExclude' /\ RequestsInv' /\ Delivers(q.browser, answer)
  BY <1>4, <1>13, <1>14, <1>15, <1>16, CommitStep
<1>18. CookiesInv'
  <2>1. \A t \in Session : born[t] # None => born'[t] # None
    BY <1>5, <1>8
  <2>2. \A t \in Session : t \in answer.session => born[t] = None /\ born'[t] # None
    BY <1>1, <1>5, <1>8, <1>15
  <2>3. \A x \in Attempt, t \in Session : attempts'[x] # None /\ attempts'[x].session = t =>
          attempts[x] # None /\ attempts[x].session = t
    BY <1>5, <1>6, <1>7
  <2> QED BY <1>2, <1>4, <1>15, <1>17, <2>1, <2>2, <2>3, CookiesStep
<1>19. AttemptRowsInv'
  <2>1. ASSUME NEW x \in Attempt, attempts'[x] # None
        PROVE  /\ began'[x] # None
               /\ attempts'[x].session # None =>
                    attempts'[x].withSession /\ sessionOf'[attempts'[x].session] # None
    <3>1. attempts'[x] = rows[x] /\ attempts[x] # None
      BY <1>6, <1>7, <2>1
    <3>2. /\ began[x] # None
          /\ attempts[x].session # None =>
               attempts[x].withSession /\ sessionOf[attempts[x].session] # None
      BY <3>1 DEF IInv, AttemptRowsInv
    <3>3. attempts[x].session \in Session \cup {None}
      BY <1>3, <3>1 DEF Types, RowTypes, AttemptRows
    <3> DEFINE t == attempts'[x].session
    <3>4. ASSUME t # None
          PROVE  attempts'[x].withSession /\ sessionOf'[t] # None
      <4>1. /\ t = attempts[x].session /\ t \in Session /\ t \notin q.doomed
            /\ attempts'[x].withSession = attempts[x].withSession
        BY <1>6, <3>1, <3>3, <3>4
      <4>2. attempts[x].withSession /\ sessionOf[t] # None
        BY <3>2, <3>4, <4>1
      <4> HIDE DEF t
      <4>3. sessionOf'[t] = a \/ sessionOf'[t] = sessionOf[t]
        BY <1>8, <4>1
      <4> QED BY <1>5, <4>1, <4>2, <4>3
    <3> QED BY <1>2, <3>2, <3>4
  <2>2. \A x \in signedIn : attempts'[x[1]] = None /\ began'[x[1]] = x[3]
    BY <1>2, <1>3, <1>6, <1>7 DEF IInv, AttemptRowsInv, Types, RowTypes
  <2>3. \A x \in signedIn' : attempts'[x[1]] = None /\ began'[x[1]] = x[3]
    <3> SUFFICES ASSUME NEW x \in signedIn'
                 PROVE  attempts'[x[1]] = None /\ began'[x[1]] = x[3]
      OBVIOUS
    <3>1. CASE x \in signedIn
      BY <2>2, <3>1
    <3>2. CASE x = <<q.attempt, r, q.browser>>
      <4>1. x[1] = q.attempt /\ x[3] = q.browser
        BY <3>2
      <4> QED BY <1>2, <1>4, <1>7, <4>1
    <3> QED BY <1>2, <3>1, <3>2
  <2> QED BY <2>1, <2>3 DEF AttemptRowsInv
<1>20. AttemptsServeOnce'
  <2>1. \A x \in signedIn : x[1] # q.attempt
    BY <1>4 DEF IInv, AttemptRowsInv
  <2>2. \A x \in signedIn' : x \in signedIn \/ (x = <<q.attempt, r, q.browser>>)
    BY <1>2
  <2>3. \A x, y \in signedIn' : x[1] = y[1] => x = y
    BY <2>1, <2>2 DEF IInv, AttemptsServeOnce
  <2> QED BY <1>19, <2>3 DEF AttemptsServeOnce, AttemptRowsInv
<1>21. IdentitiesMatch'
  <2>1. \A x \in Sub : identity[x] # None =>
          identity[x] \in Account /\ email[identity[x]] = mail[x] /\ mail[x] # None
    BY <1>3 DEF IInv, IdentitiesMatch, Types, RowTypes, SignInAssumption, AccountsAssumption
  <2> SUFFICES ASSUME NEW x \in Sub, identity'[x] # None
               PROVE  email'[identity'[x]] = mail[x]
    BY DEF IdentitiesMatch
  <2>2. CASE identity'[x] = identity[x]
    <3>1. /\ identity[x] \in Account /\ email[identity[x]] = mail[x]
          /\ email[identity[x]] # None
      BY <2>1, <2>2
    <3>2. email'[identity[x]] = email[identity[x]]
      BY <1>11, <3>1
    <3> QED BY <2>2, <3>1, <3>2
  <2>3. CASE x = q.sub /\ identity'[x] = a
    BY <1>11, <2>3
  <2> QED BY <1>10, <2>2, <2>3
<1>22. NothingLeftBehind'
  <2> SUFFICES ASSUME NEW x \in Account, kind'[x] = "adopted", NEW t \in Session
               PROVE  selves'[x] = 0 /\ x \notin owners' /\ sessionOf'[t] # x
    BY <1>11 DEF NothingLeftBehind
  <2>1. /\ selves'[x] = 0 /\ x \notin owners' /\ x # a
        /\ kind[x] = "adopted" \/ (q.guest /\ x = q.current)
    BY <1>11
  <2>2. sessionOf[t] = x => t \in q.doomed
    BY <1>4, <2>1 DEF IInv, NothingLeftBehind
  <2>3. sessionOf'[t] # x
    BY <1>5, <1>8, <2>1, <2>2
  <2> QED BY <2>1, <2>3
<1>23. OneSelfPlayer'
  BY <1>11 DEF OneSelfPlayer
<1>24. GuestSessionsEnd'
  <2> SUFFICES ASSUME NEW t \in Session, sessionOf'[t] # None
               PROVE  kind'[sessionOf'[t]] = born'[t]
    BY DEF GuestSessionsEnd
  <2>1. CASE t = s
    BY <1>8, <1>11, <2>1
  <2>2. CASE t # s
    <3>1. sessionOf'[t] = sessionOf[t] /\ t \notin q.doomed /\ born'[t] = born[t]
      BY <1>8, <2>2
    <3>2. sessionOf[t] \in Account /\ kind[sessionOf[t]] = born[t]
      BY <1>3, <3>1 DEF IInv, GuestSessionsEnd, Types, RowTypes
    <3>3. kind[sessionOf[t]] # "absent"
      BY <1>3, <1>5, <3>2 DEF Types, RowTypes
    <3>4. q.guest => sessionOf[t] # q.current
      BY <1>4, <3>1
    <3>5. kind'[sessionOf[t]] = kind[sessionOf[t]]
      BY <1>11, <3>2, <3>3, <3>4
    <3> QED BY <3>1, <3>2, <3>5
  <2> QED BY <2>1, <2>2
<1> QED BY <1>11, <1>13, <1>17, <1>18, <1>19, <1>20, <1>21, <1>22, <1>23, <1>24 DEF IInv

-----------------------------------------------------------------------------
LEMMA IInvInit ==
  ASSUME SignInAssumption, AccountsAssumption, Init
  PROVE  IInv
<1>1. None \notin Account /\ None \notin Session /\ None \notin Attempt /\ None \notin Browser
  BY DEF SignInAssumption
<1>2. Types
  <2>1. RowTypes
    BY DEF Init, RowTypes, AccountsTypeOK
  <2>2. NoRequest \in RequestType
    BY NoRequestType
  <2>3. jar \in [Browser -> Cookies]
    <3>1. [session |-> None, login |-> None] \in Cookies
      BY DEF Cookies
    <3> QED BY <3>1 DEF Init
  <2> QED BY <2>1, <2>2, <2>3 DEF Init, Types
<1>3. LocksExclude
  BY DEF Init, LocksExclude
<1>4. RequestsInv
  <2> SUFFICES ASSUME NEW r \in Request PROVE RequestInv(req[r], held[r], waits[r])
    BY DEF RequestsInv
  <2>1. req[r] = NoRequest /\ held[r] = {} /\ waits[r] = {}
    BY DEF Init
  <2>2. NoRequest.at = "idle" /\ NoRequest.found = None
    BY DEF NoRequest
  <2> QED BY <2>1, <2>2 DEF RequestInv, FoundInv, AttemptInv, OutcomeInv, EndingInv,
                            SigningIn, Resolved, Ending, InCallback
<1>5. CookiesInv
  <2>1. \A r \in Request : /\ req[r].browser = None /\ req[r].token = None /\ req[r].login = None
                           /\ req[r].answer.session = {} /\ req[r].answer.login = {}
    BY DEF Init, NoRequest, NoCookies
  <2>2. \A b \in Browser : jar[b].session = None /\ jar[b].login = None
    BY DEF Init
  <2>3. \A b \in Browser, s \in Session : ~Carries(b, s)
    BY <1>1, <2>1, <2>2 DEF Carries
  <2>4. \A b \in Browser, a \in Attempt : ~CarriesLogin(b, a)
    BY <1>1, <2>1, <2>2 DEF CarriesLogin
  <2> QED BY <2>3, <2>4 DEF CookiesInv
<1>6. AttemptRowsInv /\ AttemptsServeOnce
  BY DEF Init, AttemptRowsInv, AttemptsServeOnce
<1>7. OneAccountPerEmail /\ IdentitiesMatch
  BY DEF Init, OneAccountPerEmail, IdentitiesMatch
<1>8. NothingLeftBehind /\ OneSelfPlayer /\ GuestSessionsEnd
  BY DEF Init, NothingLeftBehind, OneSelfPlayer, GuestSessionsEnd
<1> QED BY <1>2, <1>3, <1>4, <1>5, <1>6, <1>7, <1>8 DEF IInv

LEMMA ArrivesKeeps ==
  ASSUME SignInAssumption, AccountsAssumption, IInv, NEW r \in Request, Arrives(r)
  PROVE  IInv'
BY StartSessionKeeps, LoginKeeps, LoginWithNoSessionKeeps, LogoutKeeps, WriteKeeps, CallbackKeeps
   DEF Arrives

LEMMA RunsKeeps ==
  ASSUME SignInAssumption, AccountsAssumption, IInv, NEW r \in Request, Runs(r)
  PROVE  IInv'
<1>1. CASE \E l \in waits[r] : Take(r, l)
  BY <1>1, TakeKeeps
<1>2. CASE \/ LoginStartsSession(r) \/ Resume(r) \/ Resumed(r) \/ StartsGuest(r)
  BY <1>2, LoginStartsSessionKeeps, ResumeKeeps, ResumedKeeps, StartsGuestKeeps
<1>3. CASE ResumesNothing(r) \/ Replayed(r) \/ WrongBrowser(r) \/ WriteRefused(r)
  BY <1>3, RefusalsKeep
<1>4. CASE FindBrowser(r) \/ Fails(r) \/ \E sub \in Sub : Exchanges(r, sub)
  BY <1>4, FindBrowserKeeps, FailsKeeps, ExchangesKeeps
<1>5. CASE Resolve(r) \/ EndSessions(r) \/ Cascade(r) \/ SignsOut(r) \/ SignsIn(r) \/ Writes(r)
  BY <1>5, ResolveKeeps, EndSessionsKeeps, CascadeKeeps, SignsOutKeeps, SignsInKeeps, WritesKeeps
<1>6. CASE Abort(r) \/ Answered(r) \/ LoseAnswer(r)
  BY <1>6, AbortKeeps, AnsweredKeeps, LoseAnswerKeeps
<1> QED BY <1>1, <1>2, <1>3, <1>4, <1>5, <1>6 DEF Runs

\* A stutter changes nothing the invariant is about.
LEMMA StutterKeeps ==
  ASSUME IInv, UNCHANGED vars
  PROVE  IInv'
<1>1. /\ kind' = kind /\ email' = email /\ selves' = selves /\ owners' = owners
      /\ sessionOf' = sessionOf /\ identity' = identity /\ attempts' = attempts
      /\ born' = born /\ began' = began /\ signedIn' = signedIn
      /\ req' = req /\ waits' = waits /\ held' = held /\ jar' = jar
  BY DEF vars, dbVars, accountVars, historyVars
<1>2. Types' /\ LocksExclude'
  BY <1>1 DEF IInv, Types, RowTypes, AccountsTypeOK, LocksExclude
<1>3. RequestsInv'
  BY <1>1 DEF IInv, RequestsInv, RequestInv, FoundInv, AttemptInv, OutcomeInv, EndingInv,
              Locked, Asked, Owned
<1>4. CookiesInv' /\ AttemptRowsInv' /\ AttemptsServeOnce'
  BY <1>1 DEF IInv, CookiesInv, Carries, CarriesLogin, AttemptRowsInv, AttemptsServeOnce
<1>5. OneAccountPerEmail' /\ IdentitiesMatch' /\ NothingLeftBehind' /\ OneSelfPlayer'
      /\ GuestSessionsEnd'
  BY <1>1 DEF IInv, OneAccountPerEmail, IdentitiesMatch, NothingLeftBehind, OneSelfPlayer,
              GuestSessionsEnd
<1> QED BY <1>2, <1>3, <1>4, <1>5 DEF IInv

LEMMA NextKeeps ==
  ASSUME SignInAssumption, AccountsAssumption, IInv, [Next]_vars
  PROVE  IInv'
BY ArrivesKeeps, RunsKeeps, StutterKeeps DEF Next

LEMMA IInvImplies ==
  ASSUME IInv
  PROVE  SignInInv
<1>1. Types /\ RequestsInv /\ AttemptRowsInv
  BY DEF IInv
<1>2. \A a \in Attempt : attempts[a] # None /\ attempts[a].session # None =>
        attempts[a].withSession /\ sessionOf[attempts[a].session] # None
  BY <1>1 DEF AttemptRowsInv
<1>3. ASSUME NEW r \in Request
      PROVE  /\ req[r].browser \in Browser \cup {None}
             /\ req[r].token \in Session \cup {None}
             /\ req[r].doomed \subseteq Session
             /\ req[r].at \in {"idle", "answered", "done"} => held[r] = {}
  <2>1. req[r] \in RequestType /\ FoundInv(req[r], held[r], waits[r])
    BY <1>1 DEF Types, RequestsInv, RequestInv
  <2> QED BY <2>1 DEF RequestType, FoundInv
<1>4. TypeOK
  BY <1>1, <1>2, <1>3 DEF Types, RowTypes, TypeOK
<1> QED BY <1>4 DEF IInv, SignInInv

-----------------------------------------------------------------------------
\* The inductive invariant holds in every state: what each request read stays
\* true under its locks until it commits, a session belongs to one browser, and
\* the rows are consistent.
THEOREM SpecIInv == Spec => []IInv
<1> USE SignInAssumption, AccountsAssumption
<1>1. Init => IInv
  BY IInvInit
<1>2. IInv /\ [Next]_vars => IInv'
  BY NextKeeps
<1> QED BY <1>1, <1>2, PTL DEF Spec

\* Whatever requests overlap, in however many tabs and browsers, a login's email
\* is its account's, an adopted account keeps nothing, an account has at most one
\* self player, and a guest's sessions end with the guest (finish_sign_in(),
\* start_session(), lock_account_for_write()).
THEOREM SignInIsConsistent == Spec => []SignInInv
<1>1. IInv => SignInInv
  BY IInvImplies
<1> QED BY <1>1, SpecIInv, PTL

\* One account for each email, in the transactions' own model: the advisory lock
\* of _sign_in() is held from the search for the owner to the commit.
THEOREM SignInOneAccountPerEmail == Spec => []OneAccountPerEmail
<1>1. IInv => OneAccountPerEmail
  BY DEF IInv
<1> QED BY <1>1, SpecIInv, PTL

\* An attempt signs in at most once, and only the browser that began it, however
\* often and wherever its callback runs.
THEOREM SignInServesOnce == Spec => []AttemptsServeOnce
<1>1. IInv => AttemptsServeOnce
  BY DEF IInv
<1> QED BY <1>1, SpecIInv, PTL

\* No two transactions have conflicting locks at once, so what a statement locked
\* is its own until the commit.
THEOREM SignInLocksExclude == Spec => []LocksExclude
<1>1. IInv => LocksExclude
  BY DEF IInv
<1> QED BY <1>1, SpecIInv, PTL

-----------------------------------------------------------------------------
\* Every step of a request is a step of Accounts or leaves accounts alone.
LEMMA ArrivesImplements ==
  ASSUME NEW r \in Request, Arrives(r)
  PROVE  UNCHANGED accountVars
BY
   DEF Arrives, StartSession, Login, LoginWithNoSession, Logout, Write, Callback, dbVars,
       accountVars

LEMMA RunsImplements ==
  ASSUME SignInAssumption, AccountsAssumption, IInv, NEW r \in Request, Runs(r)
  PROVE  [AccountsNext]_accountVars
<1>1. CASE \E l \in waits[r] : Take(r, l)
  BY <1>1 DEF Take, dbVars
<1>2. CASE LoginStartsSession(r) \/ Resume(r) \/ Resumed(r) \/ ResumesNothing(r)
  BY <1>2 DEF LoginStartsSession, Resume, Resumed, ResumesNothing, dbVars
<1>3. CASE StartsGuest(r)
  <2>1. PICK a \in NewAccount : kind' = [kind EXCEPT ![a] = "guest"] /\ email' = email
    BY <1>3 DEF StartsGuest
  <2>2. a \in Account /\ kind[a] = "absent"
    BY NewAreNew
  <2> QED BY <2>1, <2>2 DEF AccountsNext, StartGuest
<1>4. CASE Replayed(r) \/ FindBrowser(r) \/ WrongBrowser(r) \/ Fails(r)
  BY <1>4 DEF Replayed, FindBrowser, WrongBrowser, Fails, dbVars
<1>5. CASE (\E sub \in Sub : Exchanges(r, sub)) \/ Resolve(r) \/ EndSessions(r) \/ Cascade(r)
  BY <1>5 DEF Exchanges, Resolve, EndSessions, Cascade, dbVars
<1>6. CASE SignsOut(r) \/ Writes(r) \/ WriteRefused(r)
  BY <1>6 DEF SignsOut, Writes, WriteRefused, dbVars
<1>7. CASE SignsIn(r)
  BY <1>7, SignsInKeeps
<1>8. CASE Abort(r) \/ Answered(r) \/ LoseAnswer(r)
  BY <1>8 DEF Abort, Answered, LoseAnswer, dbVars
<1> QED BY <1>1, <1>2, <1>3, <1>4, <1>5, <1>6, <1>7, <1>8 DEF Runs

\* Sign-in implements Accounts: the outcome that resolve_login() chose, from an
\* owner found or missing, is a step of Accounts when the transaction commits.
THEOREM SignInImplementsAccounts == Spec => ImplementsAccounts
<1> USE SignInAssumption, AccountsAssumption
<1>1. Init => AccountsInit
  <2>1. ASSUME Init PROVE AccountsTypeOK /\ OneAccountPerEmail
    BY <2>1, IInvInit DEF IInv, Types, RowTypes
  <2> QED BY <2>1 DEF AccountsInit, OneAccountPerEmail
<1>2. IInv /\ [Next]_vars => [AccountsNext]_accountVars
  <2> SUFFICES ASSUME IInv, [Next]_vars PROVE [AccountsNext]_accountVars
    OBVIOUS
  <2>1. CASE UNCHANGED vars
    BY <2>1 DEF vars, dbVars
  <2>2. ASSUME NEW r \in Request, Arrives(r) PROVE [AccountsNext]_accountVars
    BY <2>2, ArrivesImplements
  <2>3. ASSUME NEW r \in Request, Runs(r) PROVE [AccountsNext]_accountVars
    BY <2>3, RunsImplements
  <2> QED BY <2>1, <2>2, <2>3 DEF Next
<1> QED BY <1>1, <1>2, SpecIInv, PTL DEF Spec, ImplementsAccounts, AccountsSpec

-----------------------------------------------------------------------------
\* A step that leaves the database alone respects every lock.
LEMMA QuietRespects ==
  ASSUME NEW r \in Request, UNCHANGED <<dbVars, historyVars>>
  PROVE  Respects(r)
BY DEF Respects, dbVars, accountVars, historyVars, Owned

LEMMA ArrivesRespects ==
  ASSUME SignInAssumption, AccountsAssumption, IInv, NEW r \in Request, Arrives(r)
  PROVE  OnlyMoves(r) /\ Respects(r)
<1>1. PICK b \in Browser : \/ StartSession(r, b) \/ Login(r, b) \/ LoginWithNoSession(r, b)
                           \/ Logout(r, b) \/ Write(r, b)
                           \/ \E a \in Attempt : Callback(r, b, a)
  BY DEF Arrives
<1>2. Types
  BY DEF IInv
<1>3. CASE LoginWithNoSession(r, b)
  <2>1. OnlyMoves(r)
    BY <1>2, <1>3 DEF LoginWithNoSession, End, OnlyMoves, Types
  <2> QED BY <1>3, <2>1, LoginWithNoSessionKeeps
<1>4. CASE StartSession(r, b) \/ Login(r, b)
  BY <1>2, <1>4, QuietRespects DEF StartSession, Login, FindSession, Statement, OnlyMoves, Types
<1>5. CASE Logout(r, b) \/ Write(r, b)
  BY <1>2, <1>5, QuietRespects DEF Logout, Write, Statement, OnlyMoves, Types
<1>6. CASE \E a \in Attempt : Callback(r, b, a)
  BY <1>2, <1>6, QuietRespects DEF Callback, Statement, OnlyMoves, Types
<1> QED BY <1>1, <1>3, <1>4, <1>5, <1>6

LEMMA RunsRespects ==
  ASSUME SignInAssumption, AccountsAssumption, IInv, NEW r \in Request, Runs(r)
  PROVE  OnlyMoves(r) /\ Respects(r)
<1>1. Types
  BY DEF IInv
<1>2. CASE \E l \in waits[r] : Take(r, l)
  BY <1>1, <1>2, QuietRespects DEF Take, OnlyMoves, Types
<1>3. CASE LoginStartsSession(r) \/ Resume(r) \/ FindBrowser(r)
  BY <1>1, <1>3, QuietRespects
     DEF LoginStartsSession, Resume, FindBrowser, FindSession, Statement, OnlyMoves, Types
<1>4. CASE (\E sub \in Sub : Exchanges(r, sub)) \/ Resolve(r) \/ EndSessions(r) \/ Cascade(r)
  BY <1>1, <1>4, QuietRespects
     DEF Exchanges, Resolve, EndSessions, Cascade, Statement, OnlyMoves, Types
<1>5. CASE ResumesNothing(r) \/ Replayed(r) \/ WrongBrowser(r) \/ WriteRefused(r)
  BY <1>1, <1>5, QuietRespects
     DEF ResumesNothing, Replayed, WrongBrowser, WriteRefused, End, OnlyMoves, Types
<1>6. CASE Abort(r) \/ Answered(r) \/ LoseAnswer(r)
  BY <1>1, <1>6, QuietRespects DEF Abort, Answered, LoseAnswer, OnlyMoves, Types
<1>7. CASE Resumed(r) \/ StartsGuest(r)
  <2>1. OnlyMoves(r)
    BY <1>1, <1>7 DEF Resumed, StartsGuest, End, OnlyMoves, Types
  <2> QED BY <1>7, <2>1, ResumedKeeps, StartsGuestKeeps
<1>8. CASE Fails(r) \/ Writes(r)
  <2>1. OnlyMoves(r)
    BY <1>1, <1>8 DEF Fails, Writes, End, OnlyMoves, Types
  <2> QED BY <1>8, <2>1, FailsKeeps, WritesKeeps
<1>9. CASE SignsOut(r) \/ SignsIn(r)
  <2>1. OnlyMoves(r)
    BY <1>1, <1>9 DEF SignsOut, SignsIn, End, OnlyMoves, Types
  <2> QED BY <1>9, <2>1, SignsOutKeeps, SignsInKeeps
<1> QED BY <1>2, <1>3, <1>4, <1>5, <1>6, <1>7, <1>8, <1>9 DEF Runs

\* The discipline that makes the rest true: a step moves one request, and takes an
\* attempt, changes an account, gives one an email or moves a guest's session
\* only if its transaction locked that row or email, or nobody had it yet.
THEOREM StepsRespectLocks == Spec => [][\E r \in Request : OnlyMoves(r) /\ Respects(r)]_vars
<1> USE SignInAssumption, AccountsAssumption
<1>1. IInv /\ [Next]_vars => [\E r \in Request : OnlyMoves(r) /\ Respects(r)]_vars
  BY ArrivesRespects, RunsRespects DEF Next
<1> QED BY <1>1, SpecIInv, PTL DEF Spec
=============================================================================
