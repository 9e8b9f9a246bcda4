------------------------------- MODULE SignIn -------------------------------
(***************************************************************************)
(* Sessions and sign-in: start_session(), begin_sign_in(),                 *)
(* finish_sign_in(), a sign-out, and a write as an account, each a         *)
(* Postgres transaction at READ COMMITTED whose locks are steps. The tabs  *)
(* of a browser share its cookies, and answers arrive in any order.        *)
(*                                                                         *)
(* A statement reads the committed state and then locks rows. It waits     *)
(* for rows that others hold, and sees those it locks as they were left,   *)
(* but the rows joined to them as its snapshot has them. Writes show when  *)
(* a transaction commits.                                                  *)
(***************************************************************************)
EXTENDS Naturals, Accounts

CONSTANTS
  Session, Attempt,  \* numbered in the order they are made, as accounts are
  Request, Browser,
  Sub, mail,         \* the provider's identities, and each one's verified email
  Routes             \* what requests do in the runs of a model

\* The rows of login_attempts, whose session_id may be null.
AttemptRows == [session : Session \cup {None}, withSession : BOOLEAN]

\* What a sign-in does: LoginOutcome.
Outcomes == {"AlreadySignedIn", "VerifyInPlace", "CreateAccount", "AdoptGuest",
             "SwitchAccount"}

ASSUME SignInAssumption ==
  /\ Account \subseteq Nat /\ Session \subseteq Nat /\ Attempt \subseteq Nat
  /\ None \notin Nat \cup Sub \cup Browser \cup AttemptRows
  /\ None \notin {"absent", "guest", "verified"} \cup Outcomes
  /\ mail \in [Sub -> Email]
  /\ Routes \subseteq {"session", "login", "callback", "logout", "write",
                       "otherBrowser", "lostAnswer"}

VARIABLES
  selves,     \* how many self players each account has
  owners,     \* accounts that own something else, such as a signing key
  sessionOf,  \* sessions.account_id, None without a row
  attempts,   \* login_attempts, None without a row
  identity,   \* identities.account_id by sub
  req,        \* each request: where it is, what it came with and what it read
  waits,      \* the locks its statement waits for
  held,       \* the locks its transaction has
  jar,        \* each browser's session and login cookies
  born,       \* history: a session's account kind when it began
  began,      \* history: the browser that began an attempt
  signedIn    \* history: the attempts and requests that signed in

dbVars == <<accountVars, selves, owners, sessionOf, attempts, identity>>
historyVars == <<born, began, signedIn>>
vars == <<dbVars, req, waits, held, jar, historyVars>>

Cookies == [session : Session \cup {None}, login : Attempt \cup {None}]
\* What an answer sets each cookie to, if it does.
NoCookies == [session |-> {}, login |-> {}]
NoRequest ==
  [at |-> "idle", route |-> None, browser |-> None, token |-> None, login |-> None,
   attempt |-> None, found |-> None, current |-> None, guest |-> FALSE, sub |-> None,
   outcome |-> None, into |-> None, hasSelf |-> FALSE, doomed |-> {},
   answer |-> NoCookies]

-----------------------------------------------------------------------------
\* Locks are a table's row, or the advisory lock of an email.
ForUpdate(table, row) == <<table, row, "update">>
ForShare(table, row) == <<table, row, "share">>

Conflict(l, m) == l[1] = m[1] /\ l[2] = m[2] /\ "update" \in {l[3], m[3]}

Covers(m, l) == m[1] = l[1] /\ m[2] = l[2] /\ m[3] \in {"update", l[3]}

Blocks(q, l) == \E m \in held[q] : Conflict(l, m)

Take(r, l) ==
  /\ l \in waits[r]
  /\ \A q \in Request \ {r} : ~Blocks(q, l)
  /\ held' = [held EXCEPT ![r] = @ \cup {l}]
  /\ waits' = [waits EXCEPT ![r] = @ \ {l}]
  /\ UNCHANGED <<dbVars, req, jar, historyVars>>

WaitsFor(r, q) == r # q /\ \E l \in waits[r] : Blocks(q, l)

\* Transactions in a circle of waits.
Deadlocked(S) ==
  /\ S # {}
  /\ \A r \in S : (\E q \in S : WaitsFor(r, q)) /\ (\E q \in S : WaitsFor(q, r))

\* The next statement of a transaction, with the locks it needs.
Statement(r, q, locks) ==
  /\ req' = [req EXCEPT ![r] = q]
  /\ waits' = [waits EXCEPT ![r] = {l \in locks : \A m \in held[r] : ~Covers(m, l)}]
  /\ UNCHANGED <<held, jar>>

\* Mutant of End: the transaction stays open behind the answer.
EndOpen(r, b, answer) ==
  /\ req' = [req EXCEPT ![r] = [NoRequest EXCEPT !.at = "answered", !.browser = b,
                                                 !.answer = answer]]
  /\ waits' = [waits EXCEPT ![r] = {}]
  /\ UNCHANGED <<held, jar>>

\* It commits, or a refusal changes nothing, and the answer sets cookies.
End(r, b, answer) ==
  /\ req' = [req EXCEPT ![r] = [NoRequest EXCEPT !.at = "answered", !.browser = b,
                                                 !.answer = answer]]
  /\ waits' = [waits EXCEPT ![r] = {}]
  /\ held' = [held EXCEPT ![r] = {}]
  /\ UNCHANGED jar

\* Postgres aborts one of a circle, which answers 500.
Abort(r) ==
  /\ \E S \in SUBSET Request : r \in S /\ Deadlocked(S)
  /\ req' = [req EXCEPT ![r] = [NoRequest EXCEPT !.at = "done"]]
  /\ waits' = [waits EXCEPT ![r] = {}]
  /\ held' = [held EXCEPT ![r] = {}]
  /\ UNCHANGED <<dbVars, jar, historyVars>>

\* The browser has the answer, and its cookies.
Answered(r) ==
  /\ req[r].at = "answered"
  /\ jar' = [jar EXCEPT ![req[r].browser] =
               [c \in {"session", "login"} |->
                  IF req[r].answer[c] = {} THEN @[c] ELSE CHOOSE v \in req[r].answer[c] : TRUE]]
  /\ req' = [req EXCEPT ![r] = [NoRequest EXCEPT !.at = "done"]]
  /\ UNCHANGED <<dbVars, waits, held, historyVars>>

\* The transaction committed, but the browser left before its answer.
LoseAnswer(r) ==
  /\ req[r].at = "answered" /\ "lostAnswer" \in Routes
  /\ req' = [req EXCEPT ![r] = [NoRequest EXCEPT !.at = "done"]]
  /\ UNCHANGED <<dbVars, waits, held, jar, historyVars>>

-----------------------------------------------------------------------------
\* The next row of a table, of those never used.
FirstOf(ids) == {i \in ids : \A j \in ids : i <= j}
NewAccount == FirstOf({a \in Account : kind[a] = "absent"})
NewSession == FirstOf({s \in Session : born[s] = None})
NewAttempt == FirstOf({a \in Attempt : began[a] = None})

AccountOf(token) == IF token = None THEN None ELSE sessionOf[token]

\* current_account() isn't None: an adopted account is never current.
Acts(a) == a # None /\ kind[a] # "adopted"

\* A request from a browser, with the browser's cookies.
From(b, route) ==
  [NoRequest EXCEPT !.route = route, !.browser = b,
                    !.token = jar[b].session, !.login = jar[b].login]
Comes(r, route) == req[r].at = "idle" /\ route \in Routes
Ready(r, at) == req[r].at = at /\ waits[r] = {}

\* find_session() with its lock: the account row the session's row joins to.
FindSession(r, q, at) ==
  LET found == AccountOf(q.token) IN
  Statement(r, [q EXCEPT !.at = at, !.found = found],
            IF found = None THEN {} ELSE {ForUpdate("accounts", found)})

StartSession(r, b) ==
  /\ Comes(r, "session")
  /\ FindSession(r, From(b, "session"), "found")
  /\ UNCHANGED <<dbVars, historyVars>>

\* begin_sign_in() for a valid session, found with no lock.
Login(r, b) ==
  /\ Comes(r, "login") /\ Acts(AccountOf(jar[b].session))
  /\ Statement(r, [From(b, "login") EXCEPT !.at = "valid"], {})
  /\ UNCHANGED <<dbVars, historyVars>>

AddAttempt(a, b, session) ==
  /\ attempts' = [attempts EXCEPT
       ![a] = [session |-> session, withSession |-> session # None]]
  /\ began' = [began EXCEPT ![a] = b]

\* begin_sign_in() without one, which the login cookie proves.
LoginWithNoSession(r, b) ==
  /\ Comes(r, "login") /\ ~Acts(AccountOf(jar[b].session))
  /\ \E a \in NewAttempt :
       /\ AddAttempt(a, b, None)
       /\ End(r, b, [NoCookies EXCEPT !.login = {a}])
  /\ UNCHANGED <<accountVars, selves, owners, sessionOf, identity, born, signedIn>>

\* begin_sign_in() calls start_session(), which finds the session again.
LoginStartsSession(r) ==
  /\ Ready(r, "valid")
  /\ FindSession(r, req[r], "found")
  /\ UNCHANGED <<dbVars, historyVars>>

\* What a login adds to start_session().
Began(r, session) ==
  IF req[r].route = "login" THEN \E a \in NewAttempt : AddAttempt(a, req[r].browser, session)
  ELSE UNCHANGED <<attempts, began>>

\* start_session() for a valid session moves its expiry.
Resume(r) ==
  /\ Ready(r, "found") /\ Acts(req[r].found)
  /\ Statement(r, [req[r] EXCEPT !.at = "resume"], {ForUpdate("sessions", req[r].token)})
  /\ UNCHANGED <<dbVars, historyVars>>

\* ensure_self_player().
Resumed(r) ==
  LET q == req[r] IN
  /\ Ready(r, "resume") /\ sessionOf[q.token] # None
  /\ selves' = [selves EXCEPT ![q.found] = IF @ = 0 THEN 1 ELSE @]
  /\ Began(r, q.token)
  /\ End(r, q.browser, [NoCookies EXCEPT !.session = {q.token}])
  /\ UNCHANGED <<accountVars, owners, sessionOf, identity, born, signedIn>>

\* The session's row went while this waited for its account or the row. The
\* ORM's UPDATE finds none, and the request fails.
ResumesNothing(r) ==
  /\ Ready(r, "resume") /\ sessionOf[req[r].token] = None
  /\ End(r, req[r].browser, NoCookies)
  /\ UNCHANGED <<dbVars, historyVars>>

\* start_session() without a valid session: a guest account, its session and
\* its self player.
StartsGuest(r) ==
  LET b == req[r].browser IN
  /\ Ready(r, "found") /\ ~Acts(req[r].found)
  /\ \E a \in NewAccount, s \in NewSession :
       /\ kind' = [kind EXCEPT ![a] = "guest"]
       /\ selves' = [selves EXCEPT ![a] = 1]
       /\ sessionOf' = [sessionOf EXCEPT ![s] = a]
       /\ born' = [born EXCEPT ![s] = "guest"]
       /\ Began(r, s)
       /\ End(r, b, [NoCookies EXCEPT !.session = {s}])
  /\ UNCHANGED <<email, owners, identity, signedIn>>
-----------------------------------------------------------------------------
\* The provider sends a browser back, perhaps again, and perhaps not the one
\* that began. finish_sign_in() locks the attempt.
Callback(r, b, a) ==
  /\ Comes(r, "callback")
  /\ began[a] # None /\ (b = began[a] \/ "otherBrowser" \in Routes)
  /\ Statement(r, [From(b, "callback") EXCEPT !.at = "attempt", !.attempt = a],
               {ForUpdate("login_attempts", a)})
  /\ UNCHANGED <<dbVars, historyVars>>

\* The answer's login cookie, but for a callback from another browser.
ForgetLogin(q) ==
  IF q.login = None THEN NoCookies ELSE [NoCookies EXCEPT !.login = {None}]

Replayed(r) ==
  /\ Ready(r, "attempt") /\ attempts[req[r].attempt] = None
  /\ End(r, req[r].browser, ForgetLogin(req[r]))
  /\ UNCHANGED <<dbVars, historyVars>>

FindBrowser(r) ==
  /\ Ready(r, "attempt") /\ attempts[req[r].attempt] # None
  /\ FindSession(r, req[r], "browser")
  /\ UNCHANGED <<dbVars, historyVars>>

\* Mutant of RightBrowser: whoever has the URL may finish.
AnyBrowser(q) == TRUE

RightBrowser(q) ==
  LET attempt == attempts[q.attempt] IN
  IF attempt.withSession THEN Acts(q.found) /\ q.token = attempt.session
  ELSE q.login = q.attempt

WrongBrowser(r) ==
  /\ Ready(r, "browser") /\ ~RightBrowser(req[r])
  /\ End(r, req[r].browser, NoCookies)
  /\ UNCHANGED <<dbVars, historyVars>>

\* Expired, cancelled, or the provider's token isn't good: only the attempt
\* goes.
Fails(r) ==
  /\ Ready(r, "browser") /\ RightBrowser(req[r])
  /\ attempts' = [attempts EXCEPT ![req[r].attempt] = None]
  /\ End(r, req[r].browser, ForgetLogin(req[r]))
  /\ UNCHANGED <<accountVars, selves, owners, sessionOf, identity, historyVars>>

\* Mutant of EmailLock: sign-ins with one email don't take turns.
NoEmailLock(sub) == {}

EmailLock(sub) == {ForUpdate("emails", mail[sub])}

\* The code is exchanged, and _sign_in() takes the email's advisory lock.
Exchanges(r, sub) ==
  LET q == req[r]
      current == IF Acts(q.found) THEN q.found ELSE None
  IN /\ Ready(r, "browser") /\ RightBrowser(q)
     /\ Statement(r, [q EXCEPT !.at = "email", !.sub = sub, !.current = current,
                               !.guest = current # None /\ kind[current] = "guest"],
                  EmailLock(sub))
     /\ UNCHANGED <<dbVars, historyVars>>

\* The account with the sub, or else the one with the email.
Owner(sub) ==
  IF identity[sub] # None \/ ~Owned(mail[sub]) THEN identity[sub]
  ELSE CHOOSE a \in Account : email[a] = mail[sub]

\* resolve_login().
Outcome(q, owner) ==
  CASE q.current # None /\ owner = q.current -> "AlreadySignedIn"
    [] owner = None /\ q.guest               -> "VerifyInPlace"
    [] owner = None /\ ~q.guest              -> "CreateAccount"
    [] owner \notin {None, q.current} /\ q.guest -> "AdoptGuest"
    [] OTHER                                 -> "SwitchAccount"

\* hand_over_players() locks the account that adopts. The foreign key of a new
\* session holds its account.
OutcomeLocks(outcome, into) ==
  CASE outcome = "AdoptGuest"    -> {ForUpdate("accounts", into)}
    [] outcome = "SwitchAccount" -> {ForShare("accounts", into)}
    [] OTHER                     -> {}

Resolve(r) ==
  LET q == req[r]
      owner == Owner(q.sub)
      outcome == Outcome(q, owner)
      into == IF outcome = "VerifyInPlace" THEN q.current ELSE owner
  IN /\ Ready(r, "email")
     /\ Statement(r, [q EXCEPT !.at = "account", !.outcome = outcome, !.into = into],
                  OutcomeLocks(outcome, into))
     /\ UNCHANGED <<dbVars, historyVars>>

\* The sessions that end: all of a guest account's in convert_guest(), or the
\* browser's in _replace_session().
Doomed(q) ==
  IF q.current = None THEN {}
  ELSE {s \in Session : IF q.guest THEN sessionOf[s] = q.current
                        ELSE s = q.token /\ sessionOf[s] # None}

EndSessions(r) ==
  LET q == req[r]
      doomed == Doomed(q)
  IN /\ Ready(r, "account")
     /\ Statement(r, [q EXCEPT !.at = "sessions", !.doomed = doomed,
                               !.hasSelf = q.into # None /\ selves[q.into] > 0],
                  {ForUpdate("sessions", s) : s \in doomed})
     /\ UNCHANGED <<dbVars, historyVars>>

\* sign_out_device(), for a device with no key.
Logout(r, b) ==
  LET q == From(b, "logout")
      doomed == {s \in Session : s = q.token /\ sessionOf[s] # None}
  IN /\ Comes(r, "logout")
     /\ Statement(r, [q EXCEPT !.at = "sessions", !.doomed = doomed],
                  {ForUpdate("sessions", s) : s \in doomed})
     /\ UNCHANGED <<dbVars, historyVars>>

\* The attempts of sessions that still had a row: ON DELETE SET NULL updates
\* them.
AttemptsOf(doomed) ==
  {a \in Attempt : attempts[a] # None /\ attempts[a].session \in {s \in doomed : sessionOf[s] # None}}

Cascade(r) ==
  /\ Ready(r, "sessions")
  /\ Statement(r, [req[r] EXCEPT !.at = "commit"],
               {ForUpdate("login_attempts", a) : a \in AttemptsOf(req[r].doomed)})
  /\ UNCHANGED <<dbVars, historyVars>>

Detached(ended) ==
  [a \in Attempt |-> IF attempts[a] # None /\ attempts[a].session \in ended
                     THEN [attempts[a] EXCEPT !.session = None] ELSE attempts[a]]

SignsOut(r) ==
  LET q == req[r] IN
  /\ Ready(r, "commit") /\ q.route = "logout"
  /\ sessionOf' = [s \in Session |-> IF s \in q.doomed THEN None ELSE sessionOf[s]]
  /\ attempts' = Detached(q.doomed)
  /\ End(r, q.browser, [NoCookies EXCEPT !.session = {None}])
  /\ UNCHANGED <<accountVars, selves, owners, identity, historyVars>>

Destination(q) == IF q.outcome = "CreateAccount" THEN NewAccount ELSE {q.into}

\* adopt_guest(): players and all else that moves go to `into`. A player that
\* has played asks "Is this you?" first, and one that hasn't is merged.
HandOver(guest, into, hasSelf, played) ==
  /\ kind' = [kind EXCEPT ![guest] = "adopted"]
  /\ selves' = [selves EXCEPT ![guest] = 0,
                              ![into] = IF hasSelf \/ played THEN @ ELSE @ + selves[guest]]
  /\ owners' = IF guest \in owners THEN (owners \ {guest}) \cup {into} ELSE owners
  /\ UNCHANGED email

GivesEmail(a, sub) ==
  /\ kind' = [kind EXCEPT ![a] = "verified"]
  /\ email' = [email EXCEPT ![a] = mail[sub]]
  /\ UNCHANGED <<selves, owners>>

\* _sign_in() commits.
SignsIn(r) ==
  LET q == req[r] IN
  /\ Ready(r, "commit") /\ q.route = "callback"
  /\ \E a \in Destination(q), s \in NewSession :
       /\ CASE q.outcome = "AdoptGuest" ->
                 \E played \in BOOLEAN : HandOver(q.current, a, q.hasSelf, played)
            [] q.outcome \in {"VerifyInPlace", "CreateAccount"} -> GivesEmail(a, q.sub)
            [] OTHER -> UNCHANGED <<accountVars, selves, owners>>
       /\ sessionOf' = [t \in Session |-> IF t = s THEN a
                                          ELSE IF t \in q.doomed THEN None ELSE sessionOf[t]]
       /\ identity' = [identity EXCEPT ![q.sub] = IF @ = None THEN a ELSE @]
       /\ born' = [born EXCEPT ![s] = "verified"]
       /\ End(r, q.browser, [ForgetLogin(q) EXCEPT !.session = {s}])
  /\ attempts' = [Detached(q.doomed) EXCEPT ![q.attempt] = None]
  /\ signedIn' = signedIn \cup {<<q.attempt, r, q.browser>>}
  /\ UNCHANGED began

-----------------------------------------------------------------------------
\* A route that writes as an account: RequestAccount takes no lock, and
\* lock_account_for_write() does.
Write(r, b) ==
  LET account == AccountOf(jar[b].session) IN
  /\ Comes(r, "write") /\ Acts(account)
  /\ Statement(r, [From(b, "write") EXCEPT !.at = "write", !.found = account],
               {ForShare("accounts", account)})
  /\ UNCHANGED <<dbVars, historyVars>>

\* Mutant of MayWrite: doesn't look again.
MayWriteAnyway(account) == TRUE

MayWrite(account) == kind[account] # "adopted"

Writes(r) ==
  LET q == req[r] IN
  /\ Ready(r, "write") /\ MayWrite(q.found)
  /\ owners' = owners \cup {q.found}
  /\ End(r, q.browser, NoCookies)
  /\ UNCHANGED <<accountVars, selves, sessionOf, attempts, identity, historyVars>>

\* AccountAdopted.
WriteRefused(r) ==
  /\ Ready(r, "write") /\ ~MayWrite(req[r].found)
  /\ End(r, req[r].browser, NoCookies)
  /\ UNCHANGED <<dbVars, historyVars>>

-----------------------------------------------------------------------------
Init ==
  /\ kind = [a \in Account |-> "absent"] /\ email = [a \in Account |-> None]
  /\ selves = [a \in Account |-> 0] /\ owners = {}
  /\ sessionOf = [s \in Session |-> None]
  /\ attempts = [a \in Attempt |-> None]
  /\ identity = [s \in Sub |-> None]
  /\ req = [r \in Request |-> NoRequest]
  /\ waits = [r \in Request |-> {}] /\ held = [r \in Request |-> {}]
  /\ jar = [b \in Browser |-> [session |-> None, login |-> None]]
  /\ born = [s \in Session |-> None]
  /\ began = [a \in Attempt |-> None]
  /\ signedIn = {}

Arrives(r) ==
  \E b \in Browser :
    \/ StartSession(r, b) \/ Login(r, b) \/ LoginWithNoSession(r, b)
    \/ Logout(r, b) \/ Write(r, b)
    \/ \E a \in Attempt : Callback(r, b, a)

\* What a request does once it came.
Runs(r) ==
  \/ \E l \in waits[r] : Take(r, l)
  \/ LoginStartsSession(r) \/ Resume(r) \/ Resumed(r) \/ ResumesNothing(r) \/ StartsGuest(r)
  \/ Replayed(r) \/ FindBrowser(r) \/ WrongBrowser(r) \/ Fails(r)
  \/ \E sub \in Sub : Exchanges(r, sub)
  \/ Resolve(r) \/ EndSessions(r) \/ Cascade(r) \/ SignsOut(r) \/ SignsIn(r)
  \/ Writes(r) \/ WriteRefused(r)
  \/ Abort(r) \/ Answered(r) \/ LoseAnswer(r)

Next == \E r \in Request : Arrives(r) \/ Runs(r)
Spec == Init /\ [][Next]_vars

\* A request that came runs on.
Fairness == \A r \in Request : WF_vars(Runs(r))
-----------------------------------------------------------------------------
\* The types of every variable, and the database's foreign keys: an attempt's
\* session and an identity's account have their rows.
TypeOK ==
  /\ AccountsTypeOK
  /\ selves \in [Account -> Nat] /\ owners \subseteq Account
  /\ sessionOf \in [Session -> Account \cup {None}]
  /\ attempts \in [Attempt -> AttemptRows \cup {None}]
  /\ \A a \in Attempt : attempts[a] # None /\ attempts[a].session # None =>
       attempts[a].withSession /\ sessionOf[attempts[a].session] # None
  /\ identity \in [Sub -> Account \cup {None}]
  /\ jar \in [Browser -> Cookies]
  /\ born \in [Session -> {"guest", "verified", None}]
  /\ began \in [Attempt -> Browser \cup {None}]
  /\ \A r \in Request : /\ req[r].browser \in Browser \cup {None}
                        /\ req[r].token \in Session \cup {None}
                        /\ req[r].doomed \subseteq Session
                        /\ req[r].at \in {"idle", "answered", "done"} => held[r] = {}

\* A login's verified email is its account's: "Its verified email is its
\* account's email" (models.py). So no guest or adopted account has one.
IdentitiesMatch ==
  \A s \in Sub : identity[s] # None => email[identity[s]] = mail[s]

\* A session that began as a guest's ends when the guest signs in, in every
\* browser: "a copied guest cookie stops working" (sessions.py).
GuestSessionsEnd ==
  \A s \in Session : sessionOf[s] # None => kind[sessionOf[s]] = born[s]

\* An attempt signs in once, and only the browser that began it, however often
\* and wherever its callback runs.
AttemptsServeOnce ==
  \A x, y \in signedIn : x[3] = began[x[1]] /\ (x[1] = y[1] => x = y)

\* An adopted account keeps nothing: no session, no self player, and no write
\* that was on its way as its guest signed in.
NothingLeftBehind ==
  \A a \in Account : kind[a] = "adopted" =>
    /\ selves[a] = 0 /\ a \notin owners
    /\ \A s \in Session : sessionOf[s] # a

\* One self player for an account, whoever gives it one meanwhile.
OneSelfPlayer == \A a \in Account : selves[a] <= 1

\* Sign-in implements the outcomes of Accounts: an owner found or not found is
\* still so at the commit.
ImplementsAccounts == AccountsSpec

\* Every request ends, as locks are given back and circles of waits are broken.
RequestsEnd == \A r \in Request : req[r].at # "idle" ~> req[r].at = "done"

\* Two tabs' sign-ins take turns, and the second's "callback gets `WrongBrowser`
\* and answers `failed`" (docs/accounts.md).
TabsTakeTurns ==
  ~\E S \in SUBSET {r \in Request : req[r].route = "callback"} : Deadlocked(S)

\* Whatever requests overlap, an email has one account, an account one self
\* player, and an adopted guest nothing.
SignInInv ==
  /\ TypeOK /\ IdentitiesMatch /\ NothingLeftBehind /\ OneSelfPlayer
  /\ GuestSessionsEnd
=============================================================================
