--------------------------- MODULE ClientSession ---------------------------
(***************************************************************************)
(* The account that each tab of the web client shows: sessionQuery() over  *)
(* TanStack Query, the account saved for an offline load, the sign-out and *)
(* a sign-in's return.  The tabs share the cookie and the saved account.   *)
(* A tab has at most one POST /v1/session on its way (startSession()), and *)
(* any number of runs of the query function may wait for it.  The browser  *)
(* keeps one key per profile, which DeviceKeys models.                     *)
(***************************************************************************)
EXTENDS Naturals, FiniteSets

CONSTANTS
  Tab,
  Pass,      \* sessions, and the guest accounts that they start with
  Person,    \* verified accounts
  Nobody,
  MaxTries,  \* bounds shouldRetry()'s failure count, 3 in the code
  SessionScenes \* the sets of what may happen besides page loads in one behaviour:
                \* "twoTabs", "refresh", "failures", "badGateway", "signOut", "signIn"

ASSUME ClientSessionAssumption ==
  /\ Pass \subseteq Nat \ {0} /\ \A p \in Pass : p = 1 \/ p - 1 \in Pass
  /\ Nobody \notin Pass \cup Person /\ MaxTries \in Nat

VARIABLES
  sessionScene,
  jar,       \* the cookie's session, or 0
  passes,    \* how many sessions have started
  accountOf, \* each session's account
  valid,     \* the sessions that haven't ended
  saved,     \* localStorage's account, or Nobody
  data,      \* each tab's account in the query cache, or Nobody
  request,   \* its POST /v1/session, if one is on its way
  runs,      \* its runs of the query function that wait for the request
  listens,   \* whether its page waits for the browser's `online` event
  leaving,   \* the step of its sign-out
  last,      \* history: how its last request ended, and with which account, or
             \* the saved account that a run of it had read
  unheard,   \* history: the guests that its requests started and no answer named yet
  overtaken, \* history: accounts whose answer was on its way when the session ended
  signedOut  \* history: accounts that a sign-out forgot, until a session of theirs answers

sessionVars == <<sessionScene, jar, passes, accountOf, valid, saved, data, request, runs, listens, leaving,
                 last, unheard, overtaken, signedOut>>
histories == <<last, unheard, overtaken, signedOut>>
service == <<sessionScene, jar, passes, accountOf, valid>>

PageAccount == Pass \cup Person
NoRequest == [step |-> "none", pass |-> 0]
NoOutcome == [kind |-> "none", account |-> Nobody]
Outcome(how, account) == [kind |-> how, account |-> account]
\* A run of the query: the saved account it read, whether the query still
\* takes its result, how often the query has failed, and where it waits.
Run(was, tries) == [saved |-> was, current |-> TRUE, tries |-> tries, step |-> "racing"]
Fetching(t) == \E r \in runs[t] : r.current

SessionInit ==
  /\ sessionScene \in SessionScenes
  /\ jar = 0 /\ passes = 0 /\ accountOf = [p \in Pass |-> Nobody] /\ valid = {}
  /\ saved \in {Nobody} \cup Person
  /\ data = [t \in Tab |-> Nobody] /\ request = [t \in Tab |-> NoRequest]
  /\ runs = [t \in Tab |-> {}] /\ listens = [t \in Tab |-> FALSE]
  /\ leaving = [t \in Tab |-> "no"]
  /\ last = [t \in Tab |-> NoOutcome] /\ unheard = [t \in Tab |-> {}] /\ overtaken = {} /\ signedOut = {}
-----------------------------------------------------------------------------
\* A run of the query joins the request on its way, or sends one.
startSession(t) ==
  request' = IF request[t].step = "none" THEN [request EXCEPT ![t].step = "sent"] ELSE request

\* A new run of the query function in place of the ones it had.
queryFn(t, kept, tries) ==
  /\ startSession(t)
  /\ runs' = [runs EXCEPT ![t] = kept \cup {Run(saved, tries)}]

\* The `_authenticated` route's loader. A preload without data stops.
Load(t) ==
  /\ leaving[t] = "no" /\ data[t] = Nobody /\ ~Fetching(t)
  /\ "twoTabs" \in sessionScene \/ \A u \in Tab \ {t} : runs[u] = {} /\ data[u] = Nobody
  /\ queryFn(t, runs[t], 0)
  /\ UNCHANGED <<service, saved, data, listens, leaving, histories>>

\* refetchQueries() and invalidateQueries(): for the `online` event, a refused
\* board (Root) or an admin write. It cancels the run it finds if the query has
\* data. Without data, it waits for that run.
Refetch(t) ==
  IF data[t] = Nobody /\ Fetching(t) THEN UNCHANGED <<request, runs>>
  ELSE queryFn(t, {[r EXCEPT !.current = FALSE] : r \in {x \in runs[t] : x.step # "waiting"}}, 0)

refreshSession(t) ==
  /\ "refresh" \in sessionScene /\ leaving[t] = "no" /\ data[t] # Nobody
  /\ Refetch(t)
  /\ UNCHANGED <<service, saved, data, listens, leaving, histories>>

Online(t) ==
  /\ listens[t] /\ leaving[t] = "no"
  /\ listens' = [listens EXCEPT ![t] = FALSE]
  /\ Refetch(t)
  /\ UNCHANGED <<service, saved, data, leaving, histories>>

\* Mutant of Slow: the run doesn't follow the request that it gave up on.
SlowAlone(t) ==
  \E r \in runs[t] :
    /\ r.step = "racing" /\ r.saved # Nobody
    /\ runs' = [runs EXCEPT ![t] = @ \ {r}]
    /\ data' = IF r.current THEN [data EXCEPT ![t] = r.saved] ELSE data
    /\ UNCHANGED <<service, saved, request, listens, leaving, histories>>

\* OFFLINE_AFTER_MS passes first. The run ends with the saved account, and
\* what it left behind follows the request.
Slow(t) ==
  \E r \in runs[t] :
    /\ r.step = "racing" /\ r.saved # Nobody
    /\ runs' = [runs EXCEPT ![t] = (@ \ {r}) \cup {[r EXCEPT !.step = "following", !.current = FALSE]}]
    /\ data' = IF r.current THEN [data EXCEPT ![t] = r.saved] ELSE data
    /\ UNCHANGED <<service, saved, request, listens, leaving, histories>>

\* TanStack runs the query function again after a failure and a pause.
Retry(t) ==
  \E r \in runs[t] :
    /\ r.step = "waiting" /\ r.current
    /\ queryFn(t, runs[t] \ {r}, r.tries)
    /\ UNCHANGED <<service, saved, data, listens, leaving, histories>>
-----------------------------------------------------------------------------
(* The API's POST /v1/session. *)

\* start_session(): the cookie's account, or a new guest.
ServeSession(t) ==
  /\ request[t].step = "sent"
  /\ IF jar \in valid
     THEN /\ request' = [request EXCEPT ![t] = [step |-> "served", pass |-> jar]]
          /\ UNCHANGED <<passes, accountOf, valid, unheard>>
     ELSE /\ passes + 1 \in Pass /\ passes' = passes + 1
          /\ accountOf' = [accountOf EXCEPT ![passes'] = passes']
          /\ valid' = valid \cup {passes'}
          /\ unheard' = [unheard EXCEPT ![t] = @ \cup {passes'}]
          /\ request' = [request EXCEPT ![t] = [step |-> "served", pass |-> passes']]
  /\ UNCHANGED <<sessionScene, jar, saved, data, runs, listens, leaving, last, overtaken, signedOut>>

\* The answer arrives with its cookie. The account is saved, and every run and
\* every run that was slow takes it.
Answered(t) ==
  LET account == accountOf[request[t].pass] IN
  /\ request[t].step = "served"
  /\ jar' = request[t].pass /\ saved' = account
  /\ data' = IF \E r \in runs[t] : r.current \/ r.step = "following"
             THEN [data EXCEPT ![t] = account] ELSE data
  /\ runs' = [runs EXCEPT ![t] = {r \in @ : r.step = "waiting"}]
  /\ request' = [request EXCEPT ![t] = NoRequest]
  /\ last' = [last EXCEPT ![t] = Outcome("answered", account)]
  /\ unheard' = [unheard EXCEPT ![t] = @ \ {request[t].pass}]
  /\ signedOut' = IF request[t].pass \in valid THEN signedOut \ {account} ELSE signedOut
  /\ UNCHANGED <<sessionScene, passes, accountOf, valid, listens, leaving, overtaken>>

\* Whether a failed request makes a run wait for the `online` event: it
\* read a saved account, and raced the request or was slow.
Listener(t, how) ==
  how = "unreachable" /\ \E r \in runs[t] : r.step \in {"racing", "following"} /\ r.saved # Nobody

\* A 4xx comes back the same.
shouldRetry(failureCount, how) == how # "refused" /\ failureCount < MaxTries

\* A request that fails, served or not: no response or a 502 to 504
\* ("unreachable"), another 5xx ("broken") or a 4xx such as 429 ("refused").
Failed(t, how) ==
  /\ "failures" \in sessionScene \/ (how = "unreachable" /\ "badGateway" \in sessionScene)
  /\ \/ request[t].step = "sent"
     \/ request[t].step = "served" /\ how = "unreachable"
  /\ LET Back(r) == r.saved # Nobody /\ how = "unreachable"   \* shows the saved account
         Again(r) == ~Back(r) /\ shouldRetry(r.tries, how)
         racing == {r \in runs[t] : r.step = "racing" /\ r.current}
     IN /\ data' = [data EXCEPT ![t] = IF \E r \in racing : Back(r)
                                       THEN (CHOOSE r \in racing : Back(r)).saved ELSE @]
        /\ runs' = [runs EXCEPT ![t] =
             {[r EXCEPT !.step = "waiting", !.tries = @ + 1] : r \in {x \in racing : Again(x)}}
             \cup {r \in @ : r.step = "waiting"}]
  /\ listens' = [listens EXCEPT ![t] = @ \/ Listener(t, how)]
  /\ request' = [request EXCEPT ![t] = NoRequest]
  /\ \E account \in {r.saved : r \in {x \in runs[t] : x.step # "waiting"}} \cup {Nobody} :
       /\ account = Nobody => \A r \in runs[t] : r.step = "waiting" \/ r.saved = Nobody
       /\ last' = [last EXCEPT ![t] = Outcome(how, account)]
  /\ unheard' = [unheard EXCEPT ![t] = @ \ {request[t].pass}]
  /\ UNCHANGED <<service, saved, leaving, overtaken, signedOut>>
-----------------------------------------------------------------------------
(* Sign-out and sign-in. *)

\* useSignOut(), offered to the account shown. It takes no second press.
logout(t) ==
  /\ "signOut" \in sessionScene /\ data[t] # Nobody /\ leaving[t] = "no"
  /\ leaving' = [leaving EXCEPT ![t] = "sent"]
  /\ UNCHANGED <<service, saved, data, request, runs, listens, histories>>

\* The cookie's session ends while answers of it are on their way.
Overtakes ==
  overtaken' = IF \E t \in Tab : request[t] = [step |-> "served", pass |-> jar]
               THEN overtaken \cup {accountOf[jar]} ELSE overtaken

\* sign_out_device(), as far as sessions go.
EndSession(t) ==
  /\ leaving[t] = "sent"
  /\ leaving' = [leaving EXCEPT ![t] = "ended"]
  /\ valid' = valid \ {jar} /\ Overtakes
  /\ UNCHANGED <<sessionScene, jar, passes, accountOf, saved, data, request, runs, listens, last, unheard, signedOut>>

LogoutFails(t) ==
  /\ leaving[t] \in {"sent", "ended"}
  /\ leaving' = [leaving EXCEPT ![t] = "no"]
  /\ UNCHANGED <<service, saved, data, request, runs, listens, histories>>

\* forgetAccount()
Forgets(t) == saved' = Nobody

\* The browser leaves the page, and what the page waited for with it.
LeftPage(t) ==
  /\ data' = [data EXCEPT ![t] = Nobody] /\ request' = [request EXCEPT ![t] = NoRequest]
  /\ runs' = [runs EXCEPT ![t] = {}] /\ listens' = [listens EXCEPT ![t] = FALSE]
  /\ last' = [last EXCEPT ![t] = NoOutcome] /\ unheard' = [unheard EXCEPT ![t] = {}]

\* The answer expires the cookie, and leavePage() ends at /signed-out, which
\* starts no session.
LoggedOut(t) ==
  /\ leaving[t] = "ended"
  /\ jar' = 0 /\ Forgets(t) /\ LeftPage(t)
  /\ leaving' = [leaving EXCEPT ![t] = "no"]
  /\ signedOut' = signedOut \cup {data[t]}
  /\ UNCHANGED <<sessionScene, passes, accountOf, valid, overtaken>>

\* The callback of a sign-in redirects the tab. A guest's session ends with the
\* guest, which `who` adopts.
SignInReturns(t, who) ==
  /\ "signIn" \in sessionScene /\ leaving[t] = "no" /\ passes + 1 \in Pass
  /\ jar \in valid => accountOf[jar] \notin Person
  /\ passes' = passes + 1 /\ jar' = passes'
  /\ accountOf' = [accountOf EXCEPT ![passes'] = who]
  /\ valid' = (valid \ {jar}) \cup {passes'}
  /\ LeftPage(t) /\ Overtakes
  /\ UNCHANGED <<sessionScene, saved, leaving, signedOut>>
-----------------------------------------------------------------------------
SessionNext ==
  \E t \in Tab :
    \/ Load(t) \/ refreshSession(t) \/ Online(t) \/ Slow(t) \/ Retry(t)
    \/ ServeSession(t) \/ Answered(t)
    \/ \E how \in {"unreachable", "broken", "refused"} : Failed(t, how)
    \/ logout(t) \/ EndSession(t) \/ LogoutFails(t) \/ LoggedOut(t)
    \/ \E who \in Person : SignInReturns(t, who)

SessionTypeOK ==
  /\ sessionScene \in SessionScenes
  /\ jar \in Pass \cup {0} /\ passes \in Pass \cup {0} /\ valid \subseteq Pass
  /\ accountOf \in [Pass -> PageAccount \cup {Nobody}]
  /\ saved \in PageAccount \cup {Nobody} /\ data \in [Tab -> PageAccount \cup {Nobody}]
  /\ request \in [Tab -> [step : {"none", "sent", "served"}, pass : Pass \cup {0}]]
  /\ runs \in [Tab -> SUBSET [saved : PageAccount \cup {Nobody}, current : BOOLEAN, tries : 0 .. MaxTries,
                              step : {"racing", "following", "waiting"}]]
  /\ listens \in [Tab -> BOOLEAN] /\ leaving \in [Tab -> {"no", "sent", "ended"}]
  /\ last \in [Tab -> [kind : {"none", "answered", "unreachable", "broken", "refused"},
                       account : PageAccount \cup {Nobody}]]
  /\ overtaken \subseteq PageAccount /\ signedOut \subseteq PageAccount
  /\ unheard \in [Tab -> SUBSET Pass]

SessionSpec == SessionInit /\ [][SessionNext]_sessionVars
-----------------------------------------------------------------------------
Settled(t) == request[t] = NoRequest /\ ~Fetching(t)

(* Whatever order runs, refetches and the 2 seconds come in, a tab whose   *)
(* last request was answered ends up with the account of that answer, and  *)
(* never with a saved one that a run read before it.                       *)
AnswerIsShown ==
  \A t \in Tab : Settled(t) /\ last[t].kind = "answered" => data[t] = last[t].account

(* A tab that fell back on a saved account because the API couldn't be     *)
(* reached always waits for the browser to come back online, whether the   *)
(* request failed before or after the tab gave up on it.                   *)
NeverStranded ==
  \A t \in Tab :
    Settled(t) /\ last[t].kind = "unreachable" /\ last[t].account # Nobody => listens[t]

(* After a sign-out, no offline load shows the account that signed out,    *)
(* but for an answer that was already on its way to another tab            *)
(* (queries.ts:154-157).                                                   *)
ForgottenStaysForgotten ==
  saved \in signedOut => saved \in overtaken

(* Retries, refetches and slow runs of a tab never have the API start a    *)
(* second guest account before it heard of the first, unless the first     *)
(* answer was lost.                                                        *)
OneGuestEach == \A t \in Tab : Cardinality(unheard[t]) <= 1

\* A tab shows the account of its last answer, waits for the network when it
\* shows a saved one, never shows one that signed out, and starts no guest twice.
SessionInv ==
  /\ SessionTypeOK /\ AnswerIsShown /\ NeverStranded
  /\ ForgottenStaysForgotten /\ OneGuestEach
=============================================================================
