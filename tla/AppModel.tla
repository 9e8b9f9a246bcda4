------------------------------ MODULE AppModel ------------------------------
(***************************************************************************)
(* The iOS app's session and signing key: AppModel.swift, whose methods    *)
(* and key registrations are tasks of the main actor, with the cookie jar  *)
(* and the Keychain, against what the API does of sessions and keys.  A    *)
(* task runs until it awaits, so a step is a turn of the main actor, one of *)
(* the cookie middleware, which runs beside it, or the API's handling of   *)
(* one request.  The API handles no request after the app gave up on it.   *)
(***************************************************************************)
EXTENDS Naturals, FiniteSets, Sequences

CONSTANTS
  StartCall,   \* start() calls, numbered in their order
  Cookie,      \* sessions, numbered, and the guest accounts that they start with
  Emailed,     \* accounts that have an email from the start
  PhoneKey,    \* the keys that the device may make, numbered
  Nothing,
  SignInPresses,  \* bounds the sign-ins of a behaviour
  SignOutPresses, \* and its sign-outs
  AppScenes    \* what else happens in a behaviour, a set of choices

ASSUME AppModelAssumption ==
  /\ StartCall \subseteq Nat \ {0} /\ 1 \in StartCall
  /\ \A i \in StartCall : i = 1 \/ i - 1 \in StartCall
  /\ Cookie \subseteq Nat \ {0} /\ \A c \in Cookie : c = 1 \/ c - 1 \in Cookie
  /\ PhoneKey \subseteq Nat
  /\ Nothing \notin Cookie \cup Emailed \cup PhoneKey \cup {0} /\ Emailed \cap Cookie = {}
  /\ SignInPresses \in Nat /\ SignOutPresses \in Nat
  /\ AppScenes \subseteq SUBSET {"overlaps", "noSignal", "cutShort", "expiry",
                                  "revocation", "relaunch"}

AppAccount == Cookie \cup Emailed

VARIABLES
  appScene,        \* the choice of AppScenes that a behaviour keeps
  phase,           \* what the app shows, and of `ready` the account, and whether it's a guest's
  signInAt,        \* where its one sign-in is, its attempt and its start()
  signOutAt,       \* where its one sign-out is, and the registration it waits for
  keyRegistration, \* the last registration, or 0: how many the app has begun
  registration,    \* the registrations of the device's key, each awaiting the one before
  calls,           \* the requests on their way: where each is, and the jar it was sent with
  cookies,         \* the jar: the session's cookie and the login's, or 0
  keychain,        \* the device's key, or Nothing
  begun,           \* how many times start() was called
  presses,         \* how many sign-ins and sign-outs there were
  started,         \* the API: how many sessions have started
  accounts,        \* each session's account, Nothing before it starts and after it ends
  expired,         \* the sessions whose time is over
  attempts,        \* each login attempt's session, 0 for none
  verified,        \* the accounts with an email
  keyOwner, keysOut, keysRevoked,  \* the API's keys
  leftAccount,     \* history: the account that the last sign-out ended on the API
  givenUp          \* history: the keys it deleted that may be live on another account

appVars == <<phase, signInAt, signOutAt, keyRegistration, registration, keychain, begun, presses,
             leftAccount, givenUp>>
apiVars == <<started, accounts, expired, attempts, verified, keyOwner, keysOut, keysRevoked>>
phoneVars == <<appScene, appVars, calls, cookies, apiVars>>

Ready(shown) == [is |-> "ready", account |-> shown.account, guest |-> shown.guest]
Screen(is) == [is |-> is, account |-> Nothing, guest |-> FALSE]

\* The requests: of a start(), of its registration, of the sign-in and the sign-out.
SessionCall(i) == <<"session", i>>
KeyCall(n) == <<"key", n>>
SignInCall == <<"signIn">>
SignOutCall == <<"signOut">>
Caller == ({"session", "key"} \X StartCall) \cup {SignInCall, SignOutCall}

NoCookies == [session |-> 0, login |-> 0]
NoCall == [at |-> "none", jar |-> NoCookies, key |-> Nothing, account |-> Nothing,
           session |-> Nothing, login |-> Nothing, says |-> Nothing]
Request(key, account) == [NoCall EXCEPT !.at = "made", !.key = key, !.account = account]

NoSignIn == [step |-> "idle", attempt |-> 0, start |-> 0]
NoSignOut == [step |-> "idle", awaits |-> 0]
NoRegistration == [step |-> "none", account |-> Nothing, tries |-> 0, took |-> FALSE]

AccountOf(session) == IF session = 0 THEN Nothing ELSE accounts[session]
SignedInTo(session) == IF session \in expired THEN Nothing ELSE AccountOf(session)
LiveKeys(a) == {k \in PhoneKey : keyOwner[k] = a /\ k \notin keysOut \cup keysRevoked}
SomethingRuns ==
  \/ \E i \in StartCall : calls[SessionCall(i)].at # "none"
  \/ signInAt.step # "idle" \/ signOutAt.step \in {"waits", "sent"}

\* What a person starts while something runs is the scene "overlaps". Over the
\* sign-in's page they can't press anything.
MayPress ==
  /\ signInAt.step # "page"
  /\ SomethingRuns => "overlaps" \in appScene

-----------------------------------------------------------------------------
(* CookieMiddleware. *)

\* A request takes the jar's cookies.
Intercepts(c) ==
  /\ calls[c].at = "made"
  /\ calls' = [calls EXCEPT ![c].at = "sent", ![c].jar = cookies]
  /\ UNCHANGED cookies

\* CookieJar.apply(): an answer's Set-Cookie headers go into the jar. Nothing
\* stands for no header, 0 for a cookie that expired.
Applies(c) ==
  LET Kept(new, old) == IF new = Nothing THEN old ELSE new
  IN /\ calls[c].at = "answered"
     /\ calls' = [calls EXCEPT ![c].at = "received"]
     /\ cookies' = [session |-> Kept(calls[c].session, cookies.session),
                    login |-> Kept(calls[c].login, cookies.login)]

Receives(c) == calls[c].at = "received"

\* No signal, a timeout or a 5xx: the API may have handled the request. Or the
\* headers arrived, and the body didn't.
Fails(c) ==
  \/ "noSignal" \in appScene /\ calls[c].at \in {"made", "sent", "answered"}
  \/ "cutShort" \in appScene /\ calls[c].at = "received"

-----------------------------------------------------------------------------
(* The app. *)

\* start(), up to its request. `after` is the calls when what led to it is done.
Starts(after) ==
  /\ begun + 1 \in StartCall
  /\ begun' = begun + 1
  /\ phase' = Screen("starting")
  /\ calls' = [after EXCEPT ![SessionCall(begun')] = Request(Nothing, Nothing)]
  /\ leftAccount' = Nothing

\* playAsGuest(), and Try again of FailureView.
PressStart ==
  /\ MayPress /\ phase.is \in {"signedOut", "failed"}
  /\ Starts(calls)
  /\ UNCHANGED <<signInAt, signOutAt, keyRegistration, registration, keychain, presses, givenUp>>

\* A start() ends, and with it the sign-in that awaits it.
StartEnds(i) ==
  /\ calls' = [calls EXCEPT ![SessionCall(i)] = NoCall]
  /\ signInAt' = IF signInAt.start = i THEN NoSignIn ELSE signInAt
  /\ UNCHANGED <<signOutAt, keychain, begun, presses, leftAccount, givenUp>>

\* The account shows, and its key's registration waits for the last one. There
\* are no more registrations than start() calls.
SessionAnswered(i) ==
  LET shown == calls[SessionCall(i)].says
  IN /\ Receives(SessionCall(i)) /\ keyRegistration + 1 \in StartCall
     /\ phase' = Ready(shown)
     /\ keyRegistration' = keyRegistration + 1
     /\ registration' = [registration EXCEPT ![keyRegistration'] =
          [NoRegistration EXCEPT !.step = "waits", !.account = shown.account]]
     /\ StartEnds(i)

SessionFails(i) ==
  /\ Fails(SessionCall(i))
  /\ phase' = Screen("failed")
  /\ StartEnds(i)
  /\ UNCHANGED <<keyRegistration, registration>>

\* What keys.create() makes: the first key that nobody has seen, if any is left.
NewKeys ==
  LET unseen == {k \in PhoneKey : /\ keyOwner[k] = Nothing /\ keychain # k
                                 /\ \A c \in Caller : calls[c].key # k}
  IN {k \in unseen : \A other \in unseen : k <= other}

\* One try of registerKey(), with the stored key or a new one.
Tries(n, stored) ==
  /\ keychain' \in IF stored = Nothing THEN NewKeys ELSE {stored}
  /\ registration' = [registration EXCEPT ![n].step = "sends", ![n].tries = @ + 1]
  /\ calls' = [calls EXCEPT ![KeyCall(n)] = Request(keychain', registration[n].account)]

RegistrationEnds(n, took) ==
  /\ registration' = [registration EXCEPT ![n].step = "done", ![n].took = took]
  /\ calls' = [calls EXCEPT ![KeyCall(n)] = NoCall]

registerKey(n) ==
  /\ registration[n].step = "waits"
  /\ n # 1 => registration[n - 1].step = "done"
  /\ Tries(n, keychain)
  /\ UNCHANGED <<phase, signInAt, signOutAt, keyRegistration, begun, presses, leftAccount, givenUp>>

\* A key that the account can't use goes, and a new one gets the second try.
KeyAnswered(n) ==
  LET useless == calls[KeyCall(n)].says \in {"revoked", "ownedElsewhere"}
  IN /\ Receives(KeyCall(n))
     /\ \/ /\ useless /\ registration[n].tries = 1 /\ Tries(n, Nothing)
        \/ /\ useless /\ registration[n].tries = 2
           /\ RegistrationEnds(n, FALSE) /\ keychain' = Nothing
        \/ /\ ~useless
           /\ RegistrationEnds(n, calls[KeyCall(n)].says = "registered") /\ UNCHANGED keychain
     /\ givenUp' = IF useless THEN givenUp \cup ({keychain} \ {Nothing}) ELSE givenUp
     /\ UNCHANGED <<phase, signInAt, signOutAt, keyRegistration, begun, presses, leftAccount>>

KeyFails(n) ==
  /\ Fails(KeyCall(n)) /\ RegistrationEnds(n, FALSE)
  /\ UNCHANGED <<phase, signInAt, signOutAt, keyRegistration, keychain, begun, presses, leftAccount,
                 givenUp>>

\* A guest's menu and the screen after a sign-out have Sign in.
PressSignIn ==
  /\ MayPress /\ signInAt.step = "idle" /\ presses.signIn < SignInPresses
  /\ phase.is = "signedOut" \/ phase.guest
  /\ signInAt' = [NoSignIn EXCEPT !.step = "begins"]
  /\ presses' = [presses EXCEPT !.signIn = @ + 1]
  /\ calls' = [calls EXCEPT ![SignInCall] = Request(Nothing, Nothing)]
  /\ UNCHANGED <<phase, signOutAt, keyRegistration, registration, keychain, begun, leftAccount,
                 givenUp>>

\* The provider's page opens.
SignInBegun ==
  /\ signInAt.step = "begins" /\ Receives(SignInCall)
  /\ signInAt' = [signInAt EXCEPT !.step = "page", !.attempt = calls[SignInCall].says]
  /\ calls' = [calls EXCEPT ![SignInCall] = NoCall]
  /\ UNCHANGED <<phase, signOutAt, keyRegistration, registration, keychain, begun, presses,
                 leftAccount, givenUp>>

\* It sends the person back, or they close it.
PageReturns ==
  /\ signInAt.step = "page"
  /\ \/ /\ signInAt' = [signInAt EXCEPT !.step = "finishes"]
        /\ calls' = [calls EXCEPT ![SignInCall] = Request(Nothing, Nothing)]
     \/ signInAt' = NoSignIn /\ UNCHANGED calls
  /\ UNCHANGED <<phase, signOutAt, keyRegistration, registration, keychain, begun, presses,
                 leftAccount, givenUp>>

\* Signed in, it starts again. Refused, it says why.
SignInFinished ==
  LET after == [calls EXCEPT ![SignInCall] = NoCall]
  IN /\ signInAt.step = "finishes" /\ Receives(SignInCall)
     /\ \/ /\ calls[SignInCall].says = "signedIn" /\ Starts(after)
           /\ signInAt' = [signInAt EXCEPT !.step = "starts", !.start = begun']
        \/ /\ calls[SignInCall].says = "refused" /\ calls' = after /\ signInAt' = NoSignIn
           /\ UNCHANGED <<phase, begun, leftAccount>>
     /\ UNCHANGED <<signOutAt, keyRegistration, registration, keychain, presses, givenUp>>

SignInFails ==
  /\ Fails(SignInCall)
  /\ signInAt' = NoSignIn /\ calls' = [calls EXCEPT ![SignInCall] = NoCall]
  /\ UNCHANGED <<phase, signOutAt, keyRegistration, registration, keychain, begun, presses,
                 leftAccount, givenUp>>

\* signOut(), also by Try again of its alert.
PressSignOut ==
  /\ MayPress /\ signOutAt.step \in {"idle", "failed"} /\ presses.signOut < SignOutPresses
  /\ phase.is = "ready"
  /\ signOutAt' = [step |-> "waits", awaits |-> keyRegistration]
  /\ presses' = [presses EXCEPT !.signOut = @ + 1]
  /\ UNCHANGED <<phase, signInAt, keyRegistration, registration, calls, keychain, begun,
                 leftAccount, givenUp>>

\* Mutant of SignOutSends: doesn't wait for the registration.
SignOutSendsAtOnce ==
  /\ signOutAt.step = "waits"
  /\ signOutAt' = [signOutAt EXCEPT !.step = "sent"]
  /\ calls' = [calls EXCEPT ![SignOutCall] = Request(keychain, Nothing)]
  /\ UNCHANGED <<phase, signInAt, keyRegistration, registration, keychain, begun, presses,
                 leftAccount, givenUp>>

SignOutSends ==
  /\ signOutAt.step = "waits"
  /\ signOutAt.awaits # 0 => registration[signOutAt.awaits].step = "done"
  /\ signOutAt' = [signOutAt EXCEPT !.step = "sent"]
  /\ calls' = [calls EXCEPT ![SignOutCall] = Request(keychain, Nothing)]
  /\ UNCHANGED <<phase, signInAt, keyRegistration, registration, keychain, begun, presses,
                 leftAccount, givenUp>>

SignOutAnswered ==
  /\ Receives(SignOutCall)
  /\ keychain' = Nothing /\ signOutAt' = NoSignOut /\ phase' = Screen("signedOut")
  /\ calls' = [calls EXCEPT ![SignOutCall] = NoCall]
  /\ leftAccount' = calls[SignOutCall].says
  /\ givenUp' = givenUp \cup
       {k \in {keychain} \ {Nothing} : keyOwner[k] \notin {Nothing, leftAccount'}}
  /\ UNCHANGED <<signInAt, keyRegistration, registration, begun, presses>>

SignOutFails ==
  /\ Fails(SignOutCall)
  /\ signOutAt' = [NoSignOut EXCEPT !.step = "failed"]
  /\ calls' = [calls EXCEPT ![SignOutCall] = NoCall]
  /\ UNCHANGED <<phase, signInAt, keyRegistration, registration, keychain, begun, presses,
                 leftAccount, givenUp>>

dismissSignOutFailure ==
  /\ signOutAt.step = "failed" /\ signOutAt' = NoSignOut
  /\ UNCHANGED <<phase, signInAt, keyRegistration, registration, calls, keychain, begun,
                 presses, leftAccount, givenUp>>

\* iOS ends the app at any time, and opens it again. The Keychain keeps the jar
\* and the key.
Relaunch ==
  /\ "relaunch" \in appScene
  /\ UNCHANGED <<keychain, presses, givenUp>>
  /\ Starts([c \in Caller |-> NoCall])
  /\ signInAt' = NoSignIn /\ signOutAt' = NoSignOut /\ keyRegistration' = 0
  /\ registration' = [i \in StartCall |-> NoRegistration]

-----------------------------------------------------------------------------
(* The API, one request at a time. The sessions, adoptions and keys of        *)
(* SignIn and DeviceKeys, as far as this device sees them.                  *)

\* Its answer to a request, with the cookies that it sets.
Answer(c, session, login, says) ==
  calls' = [calls EXCEPT ![c].at = "answered", ![c].jar = NoCookies, ![c].session = session,
                         ![c].login = login, ![c].says = says]

\* What an answer shows of an account.
Shown(a) == [account |-> a, guest |-> a \notin verified]

\* start_session(): the cookie's account, or a new guest.
ServeStart(i) ==
  LET session == calls[SessionCall(i)].jar.session
  IN /\ calls[SessionCall(i)].at = "sent"
     /\ \/ /\ SignedInTo(session) # Nothing
           /\ Answer(SessionCall(i), session, Nothing, Shown(accounts[session]))
           /\ UNCHANGED <<started, accounts>>
        \/ /\ SignedInTo(session) = Nothing /\ started + 1 \in Cookie
           /\ started' = started + 1
           /\ accounts' = [s \in Cookie |-> IF s = started' THEN started'
                                            ELSE IF s = session THEN Nothing ELSE accounts[s]]
           /\ Answer(SessionCall(i), started', Nothing, Shown(started'))
     /\ UNCHANGED <<expired, attempts, verified, keyOwner, keysOut, keysRevoked>>

\* app_login(): the attempt is the session's, or the login cookie's.
ServeLogin ==
  LET session == calls[SignInCall].jar.session
      ofSession == SignedInTo(session) # Nothing
      attempt == Len(attempts) + 1
  IN /\ signInAt.step = "begins" /\ calls[SignInCall].at = "sent"
     /\ attempts' = Append(attempts, IF ofSession THEN session ELSE 0)
     /\ Answer(SignInCall, IF ofSession THEN session ELSE Nothing,
               IF ofSession THEN Nothing ELSE attempt, attempt)
     /\ UNCHANGED <<started, accounts, expired, verified, keyOwner, keysOut, keysRevoked>>

\* The jar isn't the one that the attempt began with: WrongBrowser.
WrongJar(attempt, jar) ==
  IF attempts[attempt] = 0 THEN jar.login # attempt
  ELSE SignedInTo(jar.session) = Nothing \/ jar.session # attempts[attempt]

\* app_finish(): refused, or signed in to a session of an account with an email.
\* The guest of the jar's session, if any, gets the email or is adopted, with its
\* keys. Its other sessions end with it.
ServeFinish ==
  LET jar == calls[SignInCall].jar
      current == SignedInTo(jar.session)
      guest == {current} \ (verified \cup {Nothing})
      spent == IF jar.login = 0 THEN Nothing ELSE 0
  IN /\ signInAt.step = "finishes" /\ calls[SignInCall].at = "sent"
     /\ \/ /\ Answer(SignInCall, Nothing,
                     IF WrongJar(signInAt.attempt, jar) THEN Nothing ELSE spent, "refused")
           /\ UNCHANGED <<started, accounts, verified, keyOwner>>
        \/ /\ ~WrongJar(signInAt.attempt, jar) /\ started + 1 \in Cookie
           /\ started' = started + 1
           /\ \E account \in verified \cup guest :
                /\ accounts' = [s \in Cookie |->
                     IF s = started' THEN account
                     ELSE IF (s = jar.session /\ current # Nothing) \/ accounts[s] \in guest
                          THEN Nothing ELSE accounts[s]]
                /\ keyOwner' = [k \in PhoneKey |->
                     IF keyOwner[k] \in guest THEN account ELSE keyOwner[k]]
                /\ verified' = verified \cup {account}
           /\ Answer(SignInCall, started', spent, "signedIn")
     /\ UNCHANGED <<expired, attempts, keysOut, keysRevoked>>

\* register(): 401 without a session, 422 for a proof for another account, 409
\* for another account's key.
ServeKey(n) ==
  LET call == calls[KeyCall(n)]
      Says(answer) == Answer(KeyCall(n), Nothing, Nothing, answer)
  IN /\ call.at = "sent"
     /\ \/ /\ SignedInTo(call.jar.session) # call.account
           /\ Says("failed") /\ UNCHANGED <<keyOwner, keysOut>>
        \/ /\ SignedInTo(call.jar.session) = call.account
           /\ keyOwner[call.key] \notin {Nothing, call.account}
           /\ Says("ownedElsewhere") /\ UNCHANGED <<keyOwner, keysOut>>
        \/ /\ SignedInTo(call.jar.session) = call.account
           /\ keyOwner[call.key] \in {Nothing, call.account}
           /\ keyOwner' = [keyOwner EXCEPT ![call.key] = call.account]
           /\ keysOut' = IF call.key \in keysRevoked THEN keysOut ELSE keysOut \ {call.key}
           /\ Says(IF call.key \in keysRevoked THEN "revoked" ELSE "registered")
     /\ UNCHANGED <<started, accounts, expired, attempts, verified, keysRevoked>>

\* sign_out_device(): the key, if it is the account's, then the session, expired
\* or not.
ServeLogout ==
  LET call == calls[SignOutCall]
      owner == AccountOf(call.jar.session)
  IN /\ call.at = "sent"
     /\ keysOut' = keysOut \cup
          {k \in {call.key} \ {Nothing} : owner # Nothing /\ keyOwner[k] = owner}
     /\ accounts' = [s \in Cookie |-> IF s = call.jar.session THEN Nothing ELSE accounts[s]]
     /\ Answer(SignOutCall, 0, Nothing, owner)
     /\ UNCHANGED <<started, expired, attempts, verified, keyOwner, keysRevoked>>

\* The session ends by itself, or its account revokes one of its keys.
Expires ==
  /\ "expiry" \in appScene /\ SignedInTo(cookies.session) # Nothing
  /\ expired' = expired \cup {cookies.session}
  /\ UNCHANGED <<calls, started, accounts, attempts, verified, keyOwner, keysOut, keysRevoked>>

Revoked(k) ==
  /\ "revocation" \in appScene /\ keyOwner[k] # Nothing /\ k \notin keysRevoked
  /\ keysRevoked' = keysRevoked \cup {k}
  /\ UNCHANGED <<calls, started, accounts, expired, attempts, verified, keyOwner, keysOut>>

-----------------------------------------------------------------------------
\* RootView starts the session when it appears.
AppInit ==
  /\ appScene \in AppScenes
  /\ phase = Screen("starting") /\ begun = 1
  /\ cookies = NoCookies /\ keychain = Nothing
  /\ calls = [c \in Caller |-> IF c = SessionCall(1) THEN Request(Nothing, Nothing)
                               ELSE NoCall]
  /\ signInAt = NoSignIn /\ signOutAt = NoSignOut
  /\ keyRegistration = 0 /\ registration = [i \in StartCall |-> NoRegistration]
  /\ presses = [signIn |-> 0, signOut |-> 0] /\ leftAccount = Nothing /\ givenUp = {}
  /\ started = 0 /\ accounts = [s \in Cookie |-> Nothing] /\ expired = {}
  /\ attempts = <<>> /\ verified = Emailed
  /\ keyOwner = [k \in PhoneKey |-> Nothing] /\ keysOut = {} /\ keysRevoked = {}

AppTurn ==
  \/ PressStart \/ PressSignIn \/ PressSignOut \/ Relaunch
  \/ \E i \in StartCall :
       \/ SessionAnswered(i) \/ SessionFails(i)
       \/ registerKey(i) \/ KeyAnswered(i) \/ KeyFails(i)
  \/ SignInBegun \/ PageReturns \/ SignInFinished \/ SignInFails
  \/ SignOutSends \/ SignOutAnswered \/ SignOutFails \/ dismissSignOutFailure

ApiTurn ==
  \/ \E i \in StartCall : ServeStart(i) \/ ServeKey(i)
  \/ ServeLogin \/ ServeFinish \/ ServeLogout
  \/ Expires \/ \E k \in PhoneKey : Revoked(k)

AppNext ==
  /\ UNCHANGED appScene
  /\ \/ AppTurn /\ UNCHANGED <<cookies, apiVars>>
     \/ (\E c \in Caller : Intercepts(c) \/ Applies(c)) /\ UNCHANGED <<appVars, apiVars>>
     \/ ApiTurn /\ UNCHANGED <<appVars, cookies>>

AppTypeOK ==
  /\ appScene \in AppScenes
  /\ phase.is \in {"starting", "ready", "failed", "signedOut"}
  /\ phase.account \in AppAccount \cup {Nothing}
  /\ signInAt.step \in {"idle", "begins", "page", "finishes", "starts"}
  /\ signOutAt.step \in {"idle", "waits", "sent", "failed"}
  /\ keyRegistration \in StartCall \cup {0}
  /\ \A i \in StartCall : registration[i].step \in {"none", "waits", "sends", "done"}
  /\ \A c \in Caller : calls[c].at \in {"none", "made", "sent", "answered", "received"}
  /\ cookies.session \in Cookie \cup {0} /\ cookies.login \in 0 .. SignInPresses
  /\ keychain \in PhoneKey \cup {Nothing}
  /\ accounts \in [Cookie -> AppAccount \cup {Nothing}] /\ verified \subseteq AppAccount
  /\ expired \subseteq Cookie
  /\ keyOwner \in [PhoneKey -> AppAccount \cup {Nothing}]

AppSpec == AppInit /\ [][AppNext]_phoneVars
-----------------------------------------------------------------------------
\* AppModel.swift says that a registration that answers late can't bring back a
\* key after its sign-out: once the app shows that it signed out, and until it
\* starts again, it has no key, and no key it had is live on the account that it
\* left, but those it had deleted for another account, as it must when a session
\* expired. A sign-in during the sign-out may break it: see README.md.
SignedOutForGood ==
  phase.is = "signedOut" /\ "overlaps" \notin appScene =>
    keychain = Nothing /\ (leftAccount # Nothing => LiveKeys(leftAccount) \subseteq givenUp)

\* The jar's session is the account's that the app shows, or there is none any
\* more, whatever requests and answers were lost, and wherever the app was
\* killed. Two starts at once may break it, and so may a sign-in's answer whose
\* cookie arrived and whose body didn't: see README.md.
ShowsItsSession ==
  /\ phase.is = "ready" /\ ~SomethingRuns
  /\ appScene \cap {"overlaps", "cutShort"} = {}
  => SignedInTo(cookies.session) \in {phase.account, Nothing}

\* After a registration that the API took, the device's key is one that the
\* account shown has, live unless someone revoked it, through sign-ins and
\* registrations that answer late. A sign-out that the API handled and that
\* failed in the app breaks it until the next start, if something else overlapped
\* it, or if a second sign-in is cut short after it: see README.md.
KeyIsTheAccounts ==
  /\ phase.is = "ready" /\ ~SomethingRuns
  /\ "overlaps" \in appScene => appScene \cap {"noSignal", "cutShort"} = {}
  /\ "cutShort" \in appScene => presses.signIn <= 1
  /\ keyRegistration # 0 /\ registration[keyRegistration].took
  /\ SignedInTo(cookies.session) = phase.account
  => keychain # Nothing /\ keychain \in LiveKeys(phase.account) \cup keysRevoked

AppModelInv == AppTypeOK /\ SignedOutForGood /\ ShowsItsSession /\ KeyIsTheAccounts
=============================================================================
