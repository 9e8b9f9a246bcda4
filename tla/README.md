# FortyMM in TLA+

FortyMM records table tennis matches. Devices keep a match's score, sign its
result and send it; the other side's device signs it too, and the server keeps
the chain of results. Behind that are accounts: everyone starts as a guest with
one player, signs in later, perhaps on several devices, and finds that some of
the players they now manage are the same person. Administrators give roles, and
end keys. In front of it is a web client that works without a network, in
several tabs, and across its own updates. This directory holds TLA+ modules for
the parts of that where order matters, TLC configurations that check them on
small instances, and TLAPS proofs for any number of accounts, players, matches,
results, requests, tabs, pages and points.

Server paths below are relative to `api/src/fortymm_api/`, and those of the web
client to `web-client/src/`.

## The system

| Component | State | Operations | Module |
| --- | --- | --- | --- |
| Players and "Is this you?" (`services/players.py`, `services/adoption.py`) | `players`, `player_managers` (relationship, `adopted_from`) | answer Yes, No, Not mine or "the same as"; hand a guest's players over | `Players` |
| Player merge (`services/player_merge.py`) | `players.merged_into`, the rows that follow it | merge two players of one account | `Players`, `MergeLocks` |
| Matches (`services/matches.py`) | `matches`, `match_sides`, `match_side_players`, `match_submissions` | create a match, push a board, hold the sides | `Players`, `MatchResults`, `MergeLocks` |
| Match results (`services/match_results.py`) | `match_results`, `match_approvals`, `matches.current_result_id` | record a signed result, accept it, override it | `MatchResults` |
| Match state (`services/match_reads.py`) | none | what a match shows | `MatchStates` |
| Signing keys (`services/signing_keys.py`) | `signing_keys` | register under the cap, sign out, revoke, move with an adopted guest | `DeviceKeys`, `MatchResults`, `Admin` |
| Sessions (`services/sessions.py`) | `sessions`, `guest_account_counts` | start, find and end a session | `SignIn`, `ClientSession` |
| Sign-in (`services/sign_in.py`) | `login_attempts`, `identities`, `accounts` | begin and finish a login; five outcomes | `Accounts`, `SignIn` |
| Roles (`services/roles.py`) | `roles`, `role_permissions`, `account_roles`, `email_role_grants` | edit roles and permissions, assign them, claim grants by email | `Admin` |
| Rules of a game (`services/match_results.py`, `scoring/board.ts`) | none | is a score final, does a game decide a match | `ScoreRules`, `PlayedMatch` |
| Signed result format (`signed_results.py`, `signing/*.ts`) | none | encode, decode, sign and verify | `WireCodes`, `SignedFormat`, `ResultWire` |
| Web client: sending scores (`scoring/sync.ts`, `results.ts`, `boards.ts`) | localStorage outbox, one sync per match | send boards and results, retry, drop | `MatchSync` |
| Web client: pad and approval (`pages/scoring/`, `pages/matches/`) | the URL, history entries | score, undo, submit, sign, approve a link | `ScorePages` |
| Web client: device key (`signing/deviceKey.ts`) | one key and a sign-out record in IndexedDB | make, register, replace, take, restore | `DeviceKeys` |
| Web client: session (`api/queries.ts`, `savedSession.ts`) | the session's query, the saved account | start, retry, fall back, sign out | `ClientSession` |
| Web client: "Is this you?" (`pages/adoption/`) | the review's queue, the players query | ask, answer, look again after a refusal | `PlayerReview` |
| Web client: admin (`pages/admin/`) | the admin queries, open forms, views and searches | edit, write, refetch; list and search | `Admin`, `AdminLists` |
| Web client: new match (`pages/matches/newMatch/`) | the set-up, the picker | set up, start, search an opponent | `NewMatch` |
| Service worker (`serviceWorker.ts`, `pages/UpdateNotice.tsx`) | the registration, each tab's notice | watch, tell, reload | `AppUpdate` |
| Widgets (`components/`) | focus, timers, highlights | toasts, tooltip, date picker, combobox, palette, menubar | `Toasts`, `Tooltips`, `DatePicker`, `Combobox`, `CommandPalette`, `Menubar` |
| Account menu (`pages/userMenu/`, `pages/useSignOut.ts`) | the open menu or dialog, requests to sign out | open, choose, ask a guest, sign out | `UserMenu` |
| iOS client: session and key (`AppModel.swift`, `CookieJar.swift`, `DeviceKeyStore.swift`) | phase, sign-in and sign-out in flight, the last registration; cookies and key in the Keychain | start, register, sign in, sign out | `AppModel` |
| Opponents, player admin, match lists, edge worker, iOS views, gallery, tooling | | | see "Not modelled" |

How they interact. Every route is one call of a service in one Postgres
transaction at READ COMMITTED, so all interaction on the server is through
tables and row locks. In the browser it is through what tabs share (the cookie,
localStorage, IndexedDB, the service worker's registration) and through the
query cache of each tab:

- Sign-in ends in adoption, adoption in merges, and a merge needs to know whom
  its players played, which results decide.
- A result is accepted by its signatures. Which signatures count depends on who
  manages a player now, which sign-in, adoption, merges and answers change.
- A match names players that may be merged later. Everything that reads a side
  resolves it with `coalesce(merged_into, id)`.
- A device is out of touch for any time. It names the players, the head and the
  key it knew, and sends the same thing again until it gets an answer.
- The pad's URL holds its scores. A submit signs them into an envelope, queues
  it in the outbox and goes to a page with a link, which the opponent's device
  opens, approves and queues in turn.
- Every session's answer starts a registration of the device's key, and every
  sign-out takes the key away while its request runs.
- Pages show cached lists, write, and read again; other tabs do the same.

What is hard, and what makes each part correct:

- **Merges** are one step deep through any chain; two who played each other
  never merge; nobody but the one manager can merge a player; an account never
  loses the player that is its person; no question is left that can't be
  answered.
- **A first result and a merge of its sides** race. Each must see the other,
  without waiting for each other for ever.
- **The chain** must not fork when two devices answer one head, must not accept
  history, and must take a retry whatever has happened since.
- **Acceptance** needs both sides where it should, also when a match becomes
  final while a correction waits.
- **Sign-in**: one attempt is used once and by the browser that began it; two
  tabs and two browsers with one email end in one account.
- **Keys**: at most the cap stay live, a sign-out leaves none of its browser's
  keys live, and a registration leaves one that works.
- **Roles**: somebody always administers, by any interleaving of stale forms.
- **Sessions in a browser**: a slow or lost answer makes no second guest, shows
  no account that signed out, and strands no page on a saved one.
- **The outbox**: nothing sent is lost, a late answer doesn't confirm newer
  scores, boards go before results and results oldest first, retries go on as
  long as they can succeed and no longer.
- **Back, reloads and links** keep the result that was signed, so that the next
  one corrects it.
- **An ending** is the same in Python, in TypeScript and at the table.
- **Bytes** have one reading, and are the same from both encoders.
- **Lists and forms** are of what the API holds, whatever overlapped.
- **An update** is told to the tab it leaves behind, and a reload gets it.

The hazards in `PROJECT.json` give the line where each of these bites.

## Modules

| Module | What it models |
| --- | --- |
| `Players` | accounts, players, managers, questions, merges, sign-in's effect on them, making matches |
| `MatchResults` (extends `Players`) | keys, results, approvals, overrides, boards |
| `MatchStates` | the abstract specification of what a match shows |
| `MergeLocks` | row locks of `sides_are_one_player()` against `merge_players()` |
| `Accounts` | the abstract specification of what sign-in does to accounts |
| `SignIn` (extends `Accounts`) | sessions, login attempts, cookies and the locks of their transactions |
| `MatchSync` | the web client's outbox: the tabs of one device that send a match's boards and results |
| `DeviceKeys` | the browser's key in IndexedDB, and the API's keys under their cap |
| `ClientSession` | the account that each tab shows: session query, saved account, sign-out |
| `ScoreRules` | the rules of games and endings, once as the client and once as the API has them |
| `PlayedMatch` (extends `ScoreRules`) | a match at the table, point by point: the reference for the rules |
| `ScorePages` (extends `ScoreRules`) | the pad, the link's page and the approval, with history and outbox |
| `PlayerReview` (extends `Players`) | the page "Is this you?" in one tab beside others |
| `Admin` | administrators' tabs over roles, permissions, grants and revocation |
| `AdminLists` | the admin page's lists, views and searches as React transitions over a query cache |
| `NewMatch` | the new match form, Start and its answer, the opponent picker |
| `AppModel` | the iOS app: starts, registrations, sign-in and sign-out on the main actor, the cookie jar and the Keychain |
| `AppUpdate` | a new build: service worker and tabs |
| `WireCodes` | a signed result's heads of items, and its QR text and link |
| `SignedFormat` (extends `WireCodes`), `ResultWire` | the codec's operators, and a result from one device to another |
| `Toasts`, `Tooltips`, `DatePicker`, `Combobox`, `CommandPalette`, `Menubar`, `UserMenu` | widgets |
| `Widgets` (extends them) | the widgets side by side, and what is so of all |
| `PlayersProofs`, `MatchResultsProofs`, `SignInProofs`, `MatchSyncProofs`, `BrowserProofs`, `ScoringProofs`, `ClientProofs`, `AppProofs` | theorems and their proofs |
| `MCPlayers`, `MCMatchResults`, `MCMergeLocks`, `MCMatchSync`, `MCSignIn`, `MCBrowser`, `MCScores`, `MCPages`, `MCApp` | instances for TLC |

Some instances hold several components that share nothing: `MCBrowser`,
`MCScores`, `MCPages` and `MCApp` choose at the start which of them a behaviour
is of (`part`), and leave the others still. The state space is the sum of
theirs. Many modules have a constant of *scenes*: each is a set of
what may go wrong, or be done, in one behaviour. All at once is more than TLC
can explore, and the scenes are those where the properties are at stake.

### Players

Players are numbers, in the order of `(created_at, id)` that decides which of
two survives a merge. A new player may be any number that isn't made yet, so a
`created_at` need not follow the order of commits: it is the time a transaction
started, and the database may have it either way.

| Variable | Code |
| --- | --- |
| `kind` | `accounts`: no row, no email, an email, or `adopted_into` |
| `made`, `merged` | `players` and `merged_into` |
| `relation` | `player_managers.relationship` |
| `asked` | the rows with `adopted_from` |
| `details` | `matches`, `match_settings`, `match_sides`, `match_side_players` |
| `creating` | a `create_match()` call between its reads and its inserts |
| `scored` | the matches with a row in `match_results` |

One action is one transaction: `start_session()` (`StartGuest`,
`ResumeSession`), the outcomes of `_sign_in()` that change accounts or players
(`CreateAccount`, `VerifyInPlace`, `AdoptGuest`), and `answer_question()`
(`AnswerSameAs`, `AnswerYes`, `AnswerNo`). Each takes the account's row and
its `player_managers` rows FOR UPDATE first, so two of one account take
turns; `Free` is that lock against a `create_match()` in progress, which holds
its account FOR SHARE. Calls that return early or refuse change nothing and are
left out. `create_match()` is two actions because it doesn't lock the players it read.
`FirstResult` stands for `record_result()` and `override_result()` here, and
`MatchResults` shows that they are that step.

`Survivor` is the single `coalesce(merged_into, id)` of the code, not
a walk of a chain: that one step is enough is what `OneStepToSurvivor` says.

### MatchResults and MatchStates

A payload is a model value that decodes, by the constant `says`, to a match,
the result it replaces, its players and terms, and whether its games are a
legal ending. `replaces` is a SHA-256 of earlier bytes, so a payload can only
name one that existed before: the constant `rank`. A signature is a key, a
side, and whether its bytes verify, with a second good signature of the same
bytes told apart from the recorded one. A key's owner and `revoked_at` decide
whether it verifies; adoption moves a guest's keys with its players.

`RecordResult` is `record_result()` with every check, `_signers()`,
`_insert_result()` and `_accept_if_approved()`. The order of the checks only
decides which refusal is logged, so they are one conjunction, `Acceptable`.
`OverrideResult` encodes a payload of the server's own. `PushBoard` keeps that
a board was accepted, which is all `match_state()` asks of it.

`MatchStates` says what a match may show and how that may change: not started,
live, awaiting a side, disputed by a side, final. It knows no chain, no key and
no player. `MatchResults` maps its `shown` to `match_state()` and its `settled`
to `current_result_id`, and the run `match_results` checks the refinement
`ShowsMatchStates`. A match starts as one that shows no scores, or some of a
board. What it found to be allowed: a final match goes back to
awaiting when a side signs a correction, and one side may replace its own
pending scores.

### MergeLocks

The modules above take a result and a merge as one step each.
`MergeLocks` is the reason they may: it has every row lock of
`sides_are_one_player()` and `merge_players()` as a step, with a statement that
finds its rows in the committed state, locks them one by one, waits for holders
and sees a row as the other left it. Requests lock FOR SHARE and merges FOR
UPDATE. Postgres aborts one transaction of a wait cycle.

### SignIn and Accounts

`Accounts` is what the rest of the system believes of a sign-in: a guest starts, an
account gets an email that no other has, or a guest is adopted by the account
that has it. `SignIn` has the transactions that do so, and implements it.

| Variable | Code |
| --- | --- |
| `kind`, `email` | `accounts` |
| `selves` | how many `player_managers` rows with `self` an account has |
| `owners` | accounts that own anything else that adoption moves |
| `sessionOf`, `attempts`, `identity` | `sessions`, `login_attempts`, `identities` |
| `req[r]` | a request: its cookies as they were sent, the statement it is at, and what it read |
| `waits[r]`, `held[r]` | the row and advisory locks its statement waits for, and those its transaction has |
| `jar` | each browser's session and login cookies |

One action is one statement that reads or locks; what a transaction writes shows
when it commits, in its last action. A statement that locks reads the committed
state first, and `Take` gives it one row at a time. Of `find_session()` that means:
the account is as its last holder left it, and the session's row as the
statement found it, so it may be gone (`ResumesNothing`). The foreign key of a
login attempt is a lock too: deleting a session updates its attempts
(`Cascade`). A circle of waits is broken by aborting one of its requests.

| Code | Actions |
| --- | --- |
| `start_session()` | `StartSession`, then `Resume`, `Resumed` or `ResumesNothing`, or `StartsGuest` |
| `begin_sign_in()` | `LoginWithNoSession`; or `Login`, `LoginStartsSession` and the above |
| `finish_sign_in()` | `Callback`, `Replayed`, `FindBrowser`, `WrongBrowser`, `Fails`, `Exchanges` |
| `_sign_in()` | `Resolve`, `EndSessions`, `Cascade`, `SignsIn` |
| `sign_out_device()` | `Logout`, `Cascade`, `SignsOut` |
| `lock_account_for_write()` and a write | `Write`, `Writes`, `WriteRefused` |

A request's cookies are those at its start, and its answer's cookies come when
they come (`Answered`) or never (`LoseAnswer`), so tabs of a browser overtake
each other. `Players` takes a sign-in as one step; `NothingLeftBehind`,
`OneSelfPlayer` and `ImplementsAccounts` are why it may.

### MatchSync

Files here are under `web-client/src/scoring/`. Each tab has a `MatchSync`
object (`sync.ts`) and its boards in memory (`boards.ts`); the results wait in
localStorage, which tabs share (`results.ts`). JavaScript runs a callback to its
end, so one action is one callback.

| Variable | Code |
| --- | --- |
| `boards[t]` | `pending`, `synced` and `refused` in `boards.ts` |
| `sync[t]` | the tab's `MatchSync`, if held: its `state`, what it sends, the answer that waits to be read, and the `stale` results of this pass |
| `holders[t]` | who holds it: `Root` for a match with something to send, and the scoring page |
| `enabled` | tabs with a session loaded: `signedIn`, `resultsEnabled` |
| `jobs[t]` | `queueResult()` and `removeResult()` calls that wait for the Web Lock |
| `outbox`, `memory[t]`, `news` | localStorage, the `fallback` of a tab whose storage failed, and storage events not heard yet |
| `late` | requests on their way that nothing waits for |
| `head`, `signed`, `board` | the server: the chain's head, the signatures of each payload, the last board |

`saved()` and `kick` are `Saved` and `Kicked`, which end in `Step`, as the code's
do in `step()`. An answer is two actions: the server handles the request
(`ServerReplies`), and the tab reads the answer after its `await` (`BoardTaken`,
`BoardRefused`, `ResultSettled`, `NextInPass`, `Retries`), with anything in
between. `Write` is the callback of the Web Lock: read, change, write, tell the
listeners. `Release` by the last holder is `stop()`, and leaves the request to
its fate in `late`, as a timeout does.

The server is what the outbox sees of `record_result()` and `push_board()` for
a rated match: `Accepts` has a retry, a signature of the head and a result that
replaces the head. `OtherPhone` is the opponent.

What can go wrong is in a scene: its `trouble` names what a behaviour has, of a
network that goes (`offline`), answers and requests that are lost or late
(`lost`), 5xx and 429 (`busy`), a session that goes (`session`), a scoring page
that opens and closes (`page`), an account or key that may not score yet
(`permission`), results over a day old (`days`), and a lock that is slower than
the server (`slowLock`). Without `slowLock` a tab's jobs are done before the
server answers it. The scene also says which tabs are open and which results
the server refuses for good.

### DeviceKeys

One browser's key and the API's keys. The IndexedDB record (`stored`, and `mark`
for the sign-out record) is shared by its tabs; one update of it is one
transaction, so one step. `StartSession` is a session's answer reaching a tab;
what follows is `registerDeviceKey()`, `createKey()` and `replaceKey()` of
`signing/deviceKey.ts`, with `require_account()` and `register()` of the API
between them as separate reads and commits, so that a logout, an adoption, a
revocation or another tab may come between any two. A sign-out is `takeKey()`,
`sign_out_device()` in two steps (the session it read, and its commit), and
`release()` or `restore()`. `register()` has the cap (`past_the_cap`): the
oldest live keys beyond `LIVE_KEY_LIMIT` are signed out, never the one that
registers. `SignOutGetsOld` is `SIGN_OUT_MS` passing; `CloseTab` is a tab
that goes between the two halves of its sign-out.

### ClientSession

`sessionQuery()` over TanStack Query. A tab has one request to
`POST /v1/session` at most (`startSession()` shares it), and any number of runs
of the query function that wait for it: `Load` and `Retry` start one, and
`refreshSession` and `Online` a new one in place of the one there was. `Slow`
is the two seconds after which a run with a saved account ends with it, and
goes on to follow the request (`raceSession()`). `Failed` sorts failures as
`classifyFailure()` and `shouldRetry()` do. `LoggedOut`, `SignInReturns` and
their `LeftPage` are full page loads, which end what a tab waited for.

### ScoreRules and PlayedMatch

`ScoreRules` has the rules twice, as pure operators: `checkGame()`,
`parseGameScore()`, `reviewBoard()` and `planPress()` as the pad has them, and
`_final_winner()`, `_unfinished()` and `check_ending()` as the API does.
`PlayedMatch` is neither: it plays points, and a game or a match is over by the
laws of the game. It is the reference definition that both are checked against,
and proved for any number of points.

### ScorePages

Each device has a page, the history entries under it, and an outbox; an entry's
scores are in its URL, as a draft or as a signed envelope. `Save`, `Clear`,
`Strip` and `Back` move through the pad; `Submit` puts the games into the URL,
then signs (`Sign`), which queues the envelope and leaves under the new page a
pad that holds it. `OpenLink` opens the envelope that another device shows;
`Approve` and `Approved` sign it, queue the link's result before the approved
one, and put the approved one in its place. `SendCheck`, `Verdict` and `Watch`
are the page's own check with the server (`ServerCheck.tsx`): the send, its
verdict by the outbox of that moment, and the effect that looks again before it
listens. `Send` is `MatchSync`'s pass in one step, and the API is what
`MatchResults` has of a chain, with the keys left out.

### PlayerReview

The page's queue, its current question and step, one answer at a time, and the
players query whose lists it renders. `AnswerQuestion` is `Players`' own
actions, so what is asked, offered and refused is judged by the module that the
proofs are about. `PressAnswer` cancels a fetch on its way (`cancelQueries()`);
a refusal refetches before it says anything (`AnswerRefused`, `Checked`). A list
and an answer are read and arrive in separate steps, and either may be lost.

### Admin and AdminLists

`Admin` has the database as one record and each administrator's tab as another.
A write is `Submit`, the route's check (`Check`), the service under `RBAC_LOCK`
(`Write`), its answer (`Answered`, `Lost`), and the refetch after it, which is
two reads that arrive when they do. Forms start from the lists that the tab had
(`Offered`), which may be out of date. `SignIn` adopts the guest or claims an
email's roles without `RBAC_LOCK`.

`AdminLists` has what the page lists. `cache` and `reading` are the query
client's, by key; `Renders` is a React render of what is asked (`page.asked`)
over that cache. `Transitioned` is `startTransition()`: the list from before
stays (`page.shown`) until the new one has data, and the error boundary takes
over when it fails. A request is read and arrives in separate steps, and
sign-ins, merges, revocations and sign-outs change what the next one reads.

### NewMatch

The form with its attempt's id, `drawn` for what React last rendered, so that a
second press may see the form from before the first, and the create on its way.
`Refused` takes an opponent who merged out of the set-up and asks for the list
again. Start opens two pages, the match and then its pad, and `posting` tells
which one the router is on its way to. `start()` looks at `left` once, before
the first (`OpenMatch`); while that match's chunk and read load, the person may
`Leave`, and `MatchOpens` goes on to the pad all the same. A leave during the
second navigation overtakes it (`PadOvertaken`). The router isn't under `src/`;
an overtaken `navigate()` is taken to resolve like any other, as TanStack
Router's does. `place`, `read` and `kept` follow the pages, down to what the
match page shows after the pad. The picker has its screens, the
control with focus, and the search's debounce timer.

### AppModel

A task of the main actor runs until it awaits, so `SessionAnswered` is the rest
of `start()` with the task it makes. `keyRegistration` counts those tasks, and
`registration[n]` is the n-th: it waits for the one before it (`previous`), then
tries up to two keys. `signOutAt.awaits` is the `keyRegistration` that
`signOut()` read before its await. `phase` has what the API said of the account,
so that only a guest's menu has Sign in. A call is made by the
app, sent with the jar's cookies (`Intercepts`), served, its cookies kept
(`Applies`) and received, each a step of its own, since the middleware doesn't run on
the main actor. It may fail at any of them. The API's part
(`ServeStart`, `ServeFinish`, `ServeKey`, `ServeLogout`, ...) is what `SignIn` and
`DeviceKeys` have in full, each in one step. What the app gave up on isn't handled
after that. A behaviour has one kind of trouble or two (`appScene`).
`overlaps` lets the person start something while something else still runs.
`leftAccount` and `givenUp` are history: the account that the last sign-out ended,
and the keys that the app deleted because another account had them, or had
revoked them.

What the properties leave out, TLC showed to be so:

- A session that expires leaves its key live on its account. The next account's
  registration is told so, deletes the key and makes another, so `SignedOutForGood`
  allows the keys of `givenUp`.
- A guest signs in, and the answer is cut short, so it still shows as a guest. It
  signs out, which the API handles and the app doesn't learn. It signs in again to
  the same account, and that answer is cut short too. Now the jar has a session of
  the account shown, and the Keychain a key that it signed out, until the app
  starts again. So `KeyIsTheAccounts` allows one sign-in with `cutShort`.
- With `overlaps` and lost answers, a sign-out may take away the key that a
  sign-in beside it registered, and its answer be lost. So `KeyIsTheAccounts`
  takes `overlaps` without them.

### AppUpdate

`reg` is the browser's registration: the builds that install, wait and are
active. A tab has its build, whether a worker controls it, and its notice
(`apply()` is the reducer of `serviceWorker.ts`). `watch` is what the page does
on load, `Installed`, `Activate` and `SkipWaiting` are the browser, `reload` and
`dismiss` the two buttons. The browser serves a controlled tab from the active
build and others from the newest, which is what `vite.config.ts` and the edge
worker arrange.

### WireCodes, SignedFormat and ResultWire

`WireCodes` and `SignedFormat` are the codec, byte by byte. `WireCodes` has
heads of 1 to 9 bytes, and base45 and base64url text; `SignedFormat` has map
order, the reader with its refusals, payloads and envelopes. A number is its
big-endian bytes, so 2^53 is exact. The reader recurs, so `SignedFormat` is
TLC's only. `ResultWire` takes a result from one device to another: signed,
shown as text, a byte or a character of it wrong, read, verified and signed
again. SHA-256 and ECDSA are free: a signature is 64 bytes that only its key
makes for its message.

### Widgets

| Module | Code | What a step is |
| --- | --- | --- |
| `Toasts` | `ToastProvider.tsx` | a toast raised, its time passing, pointer and focus coming and going, Undo, and the live region's timer |
| `Tooltips` | `TooltipProvider.tsx`, `tooltipContext.ts` | hover with its delay, keyboard focus, blur, Esc, a scroll |
| `DatePicker` | `dates.ts`, `calendarState.ts`, `Calendar.tsx`, `DateField.tsx`, `InlineCalendar.tsx` | typing, Enter, blur, the popup, the grid's keys; a date is a day's number, with `Date`'s overflow of months |
| `Combobox` | `Combobox.tsx` | keys, pointer, the blur's timer and the count's timer |
| `CommandPalette` | `CommandPalette.tsx`, `ModalDialog.tsx` | opening, query, keys, the timer that runs a command, a page that changes under it |
| `Menubar` | `Menubar.tsx`, `Menu.tsx`, `singleSelect.ts` | keys on tops and commands, hover and presses, where the focus is |
| `Widgets` | | all of them, side by side: none reads or writes what another holds |
| `UserMenu` | `UserMenu.tsx`, `useSignOut.ts`, `leavePage.ts` | the chip, its items, the guest's dialog, requests to sign out, a session that changes under the menu |

React renders after an event's handlers, so an event is one step. What the
browser does with the focus when what has it goes (it is nowhere) is in the step
that takes it away.

## Runs

| Run | What it shows | Bounds |
| --- | --- | --- |
| `players` | the invariants of accounts and merges, in any order of their steps | 3 accounts, 4 players, 2 matches, 1 kind of terms |
| `match_results` | one chain, the right current result, both sides where both are needed, retries and sides while players merge; every step is one that `Players` and `MatchStates` allow | 2 matches, 3 accounts, 3 players, 2 keys, 8 payloads in chains of up to 3 |
| `merge_locks` | locks make a result and a merge take turns, and every request ends | 2 requests, whose matches share a player, with 3 players of one account and 2 of another, both of which merge |
| `create_race` | finding: a new match can name a merged player | 3 accounts, 3 players, 1 match |
| `match_sync` | the pad never takes a board for sent that the server lacks; no stored result is lost; no change fails to wake a sync; a 429 is waited out | 4 scenes: 1 tab with a page, a reload, a busy server, permission; 2 tabs with slow locks, or with sessions that go; a result and its correction |
| `sync_settles` | every board and result gets its answer, and the sync doesn't rest before | 1 tab, a result and its approval, a rival of another phone; lost answers, no network, days |
| `sign_in` | every step is an outcome of `Accounts`; an attempt serves its browser once; nothing stays on an adopted guest; one self player | from nothing, from a guest's two tabs, or from a guest's phone beside a signed-in laptop: 2 browsers, 3 identities for 2 emails, 3 requests |
| `sign_in_ends` | every request ends | a guest with 2 attempts, 1 identity, 3 requests |
| `browser` | a sign-out leaves no live key, a registration heals, the cap holds; the answer is shown, nobody is stranded, one guest each | 3 keys and one of another device, cap 1, 2 sign-outs, 2 registrations; 2 tabs, 2 sessions, 1 retry |
| `scores` | the two languages agree with the game; submitted results are endings, kept by Back and reloads, signed once, in an order that can land | games to 13 points, matches of 1, 3 and 5 games; 2 players and a spectator, 2 results, 3 history entries |
| `pages` | questions are asked, answered and shown once; somebody administers, and forms and lists are true; one match per set-up; the iOS app's sign-out outlasts late registrations, and it shows the account whose session and key it holds | 4 players, 1 match, 1 change by others; 2 administrators and a guest, 2 roles, 1 write each; 3 presses, 2 edits; 3 starts, 3 sessions, 3 keys, 1 sign-in, 2 sign-outs |
| `app` | a list is of the view and search the page names, says whether more match, and settles; a stale tab is told and gets the new build; bytes decode to what was signed or not at all; highlight, focus, choice and sign-out stay true | 3 accounts, 3 players, 1 key in pages of one row, up to 3 presses and 3 changes; 2 tabs, 3 builds, 2 loads each; 2 results, items at each head's edge, 37 places for a wrong byte; 4 toasts, 3 triggers, 2 years and 7 keys, 3 options of which two share a name, menus of 3, 1 and 2 commands |

`PROJECT.json` lists each run's properties, and for each one a mutation of the
code's model that breaks it. What a run lists is, for most components, one
conjunction of named parts at the end of its module (`PlayersInv`, `KeysInv`,
`WireInv`, ...): one says what is always so, another what a step never does.
Each part is stated in words above its definition. `WidgetsSafe` has those of
seven small modules.

Why the bounds are enough. A merge has two players, and what goes wrong with
one comes from a third merged before it or from a second match: four players
and two matches have chains of three merges and copies on both sides. Three
accounts are a guest, the account that adopts it and another that the second
match is against. Accounts and matches are alike, so they are symmetric; players
aren't, as their order decides merges. No liveness is checked with symmetry.

A chain of three has a first result, a counter or correction, and its own
correction, which is every case of `SidesNeeded`, `Disputes` and `FitsChain`: they
look one result back. The table of payloads has two rivals at each depth, rated
and unrated, and one that is no ending. `ResultsInit` starts after the sign-ins
that `players` explores, in states those steps reach: an account that
adopted a guest whose player is in a match, and so has been asked about it,
about to meet a guest or an account.

Three requests are a session's start, a login and a callback, or two of one;
three overlap in every way around one account or one email, and it takes
two to race and a third to change what both read. Sessions, accounts and
attempts are as many as the requests can make. `TabsInit` and `AdoptInit` start
after the requests that lead there: a guest whose two tabs each clicked Sign
in; a guest's phone and a signed-in laptop that both did.

An outbox of two results has an older one that waits for a newer one, the case
that `stale` is for. Two tabs are enough for one to change what the other has
read. Drafts, reloads and failed writes happen once in a behaviour at most.

A browser's key is replaced when it is another account's, and one more may be
made meanwhile: three. A cap of 1 is passed by the second key. Two tabs race;
two sessions are one that ends and the next. One retry has a first failure,
a retry and a last failure; the code's limit is 3, and only the count differs.

Games to 13 points have 10:10, 11:10, 11:11 and 13:11, every edge of the rules;
the theorems of `ScoringProofs` have the rest. Three history entries are a
pad, a submission and the pad that it goes back to. A spectator is a device that
may open a link, but not sign.

Of the three scenes of "Is this you?", one loses answers, one has another tab,
and in one a tab is alone and loses nothing, so that it may raise no false alarm.

Two administrators race; a third adds nothing, as writes are under one lock. A
page of one row has more, exactly one, and none to show. A date picker's two
years have a leap year and its 29 February, a month's end either way and the
year's; seven keys open, move twice, change the month, pick and leave, or check
a text, type the old one back and leave the field twice. Four toasts are one more
than show. Three builds are a tab's own, one that waits and one that comes as the
tab reloads.

Deadlock checking is on for the runs of `Players` and `MatchResults`, where
something can always happen. It is off for `MergeLocks`, whose requests and
accounts may all be done, for `SignIn`, where each request is used once, for
`MatchSync`, where all may be sent, and for the client's runs, where a person
may have done all that the bounds allow.

## Fairness

`merge_locks`, `sign_in_ends`, `sync_settles` and `app` check liveness.
In `MergeLocks`, `FairSpec` assumes that a transaction that
began runs on (weak fairness of its statements), that Postgres breaks each wait
cycle (weak fairness of `Abort`, its deadlock detector, which aborts a
transaction on the cycle and none that merely waits for one), and that a row's waiters
queue, so one that waits gets the row in the end (strong fairness of
`LockRow`). Nobody must send a request or answer a question: no fairness for
`BeginRequest` and `BeginMerge`. `RequestsEnd` then says that the loop of
`sides_are_one_player()` ends whatever merges do. It ends because each time
round a survivor has become an older player.

In `SignIn`, a request that came runs on (weak fairness of `Runs`): threads run,
and Postgres grants free locks and breaks circles. Nobody has to send one.
Each request runs once, so nobody is overtaken for ever.

In `MatchSync`, `FairSpec` assumes that what the browser owes a tab happens
(weak fairness of the lock, storage events, timers, `Root`'s effect, the
failure of a request, and waking while online), and that the server answers a
request sent again and again and one of its answers arrives (strong fairness of
`ServerReplies` and of reading it). Strong, because each try may time out first.
Days pass. Nobody has to save, sign or connect: `AllSettles`, which is
`ResultsSettle` and `BoardsSettle`, is for a device that in the end stays online with a session
(`Served`), and the other phone may do what it likes. `days` is what ends the
retries of a result the server never takes.

In `AdminLists`, whose liveness is `AppListsSettle`, a request that was sent is read by the API and answered, or
fails (weak fairness of `Ends`): `fetch` has a timeout. Nobody has to press
anything, Try again included: an alert is an end.

## Finding with a run

`create_race`. `create_match()` reads `merged_into` of its players without a
lock, and inserts them later. A merge that commits between the two isn't
seen: the inserts' foreign keys only wait for the merge's row lock. The match
then names a merged player, though the docstring and `docs/matches-api.md`
say that a new match doesn't. Everything else resolves sides when it reads
them, so the rest of the properties still hold; but the two sides may be one
player from the start, and such a match never takes a result.

## Disagreements without a run

These came up while modelling: a doc or a comment says one thing, and the model
of the code shows another. Where a definition is named, adding it to the given
configuration shows it. They aren't runs, since each only repeats what the line
says; several are harmless.

| Where | What happens | Shown by |
| --- | --- | --- |
| `services/matches.py:271` | `sides_are_one_player()` says it and a merge never wait for each other. When a merge moves a survivor while it waits, it goes round again and keeps the first pass's locks, so its next survivor may be older than one it holds. A second merge of those two holds the older and waits for the younger. Postgres aborts one; a retry works. | `NoDeadlock` in `MCMergeLocks.cfg` |
| `services/sign_in.py:243` | The docs say that of two tabs' sign-ins from one session the second gets `WrongBrowser`. A callback locks its attempt, then the account; ending the session locks all its attempts, the other tab's too. If that tab's callback waits for the account by then, they deadlock, and one gets a 500. The first holds its locks while it exchanges the code with the provider. | `TabsTakeTurns` in `MCSignInEnds.cfg` |
| `services/signing_keys.py:268` | `sign_out_device()` signs the key out before it ends the session so as not to deadlock with an adoption. Ending the session also waits for the session's attempts, one of which the adopting callback holds, and that callback then waits for the session. | `SignIn` |
| `services/sign_in.py:154` | `begin_sign_in()` finds the session without a lock, and `start_session()` finds it again. A callback that ends it in between makes the login start a guest account, which the docs say only `POST /v1/session` does. | `SignIn` |
| `scoring/sync.ts:142` | "Any result settling, or any wait, starts a new pass": only a failed send and a settled result of this tab do. If another tab sends what a stale result waited for, this tab rests on a result the server would now take, until it reloads or sends something else. The same happens to one tab whose removals wait for the Web Lock longer than its next answer takes. | `RestsWhenDone` with `Scenes <- Quiet` and two tabs in `MCMatchSync.cfg` |
| `scoring/results.ts:6`, `:34` | Each change reads the outbox afresh, "so that two tabs don't undo each other". After one failed write a tab reads its memory instead but still writes to localStorage, over what another tab stored since. | `ResultsStay` with `Scenes <- StorageFull` in `MCMatchSync.cfg` |
| `scoring/results.ts:6` | Of the results in an outbox "each replaces the one before it". A pad may be worked on while its result still signs, so an outbox may hold two that replace the same head; one of them is refused after a day. | the scenes with `workOn`, and `GiveUp`, in `ScorePages` |
| `scoring/sync.ts` | An older board "can't land after a newer one of the same tab". A send that timed out may: the request goes on, and the server keeps the board it handles last. | `late` in `MatchSync` |
| `docs/web-client-data.md:135` | "No key stays live on the account that signed out": a second sign-out, a tab closed between the halves of one, a sign-in, or a registration that had read the session before the logout ended it, leaves one. | `NoKeyStaysLive` in `MCBrowser.cfg` |
| `services/signing_keys.py` `revoke_any_key()` | The other admin writes check the permission again under their lock; this one checks it in the route alone. | `OnlyTheAllowedWrite` leaves it out |
| `ownership.py:38` | "Only a verified account grants a role". A guest holds the default role that a new account gets. If an administrator gives that role `account_roles.manage`, a guest may grant too. | the guard of `WritesKeepAnAdministrator`; no scene of `MCPages` has a guest's tab |
| `docs/accounts.md:380` | "No write may leave zero accounts holding `account_roles.manage`". Such a guest may be the last one that does, and its roles don't move when it is adopted. | `SignIn` of `Admin` |
| `api/queries.ts:140` | A slow `POST /v1/session` that answers after its page was left still makes its guest, and the browser keeps the cookie of whichever answer came last. | `overtaken` in `ClientSession` |
| `serviceWorker.ts:89` | "A worker that installs while another is active is a newer build, in any tab." A tab loaded by Shift+Reload has the network's build already, and is told of its own. | `InstallsAreNewer` as an invariant in `MCApp.cfg` |
| `pages/adoption/PlayerReview.tsx` | The players query refetches on focus while an answer saves, and its list from before may show the answered question again for as long as the answer takes. | the scene `focusWhileSaving` |
| `pages/adoption/PlayerReview.tsx` | A refusal whose refetch is lost is judged by the list from before. | `CheckLost` |
| `pages/matches/NewMatch.tsx:70` | "A create that answers after the person left the page opens nothing" (line 38). That's so of the answer, and `LeftOpensNothing` says it. But `left` isn't looked at again after the match's navigation: a person who presses Cancel or a link while the match opens is taken to its pad. | `Leave` between `OpenMatch` and `MatchOpens` in `NewMatch`; `LeftOpensNothing` without `~Opening`, in `MCPages.cfg` |
| `pages/matches/newMatch/` | A refusal that comes after the person picked another opponent still takes that opponent out. One's own player that merged makes every Start fail until a reload. | `NewMatch` |
| `signing/cbor.ts` | The client reads numbers up to 2^53 - 1, the API up to 2^64 - 1: the client calls an envelope malformed that the API takes. No field is that large. | `EdgesReadBack` |
| `components/TooltipProvider.tsx` | Leaving a trigger hides whatever tooltip shows, also that of the focused one. One whose trigger unmounts stays. | `FocusedKeepsItsTooltip` in `MCApp.cfg` |
| `components/Calendar.tsx` | "Page Up and Page Down a month": from 31 January Page Down goes to 3 March. The tab stop may be on a day before `min`. | `KeysMoveFromTheFocused` leaves it out |
| `components/DateField.tsx` | After Enter took another date, the text that the field had before, typed back, isn't checked on blur or later: the field says one date and has picked another. Alt+↓ opens the calendar over a text that wasn't checked. An emptied field isn't reported to `onChange`. | `FieldSaysThePicked`, `entered`, `jumped` |
| `AppModel.swift:36` | "A sign-out waits for it, so a registration that answers late can't bring back a key after its sign-out." It waits for the registration there was when it began. A sign-in that finishes meanwhile, begun before it, starts the session again and registers: the app shows that it is signed out with a key in the Keychain, live on the new account, whose session the app has lost. | `SignedOutForGood` without its condition, in `MCPages.cfg` |
| `CookieMiddleware.swift:25` | An answer's cookies are kept before its body is read. If the body of a sign-in's answer is lost, the app says that the sign-in failed and shows the guest, and the jar has the session of the account. The next start puts it right. | `ShowsItsSession` without `cutShort`, in `MCPages.cfg` |
| `AppModel.swift:54` | Two starts at once, such as Play as a guest during a sign-in that has lost its session, each start a guest, and the app may show one and keep the cookie of the other. | `ShowsItsSession` without `overlaps`, with 4 sessions |
| `components/QueryBoundary.tsx` | After an error alert, other views and searches show nothing until Try again: the boundary has no `resetKeys`. | `SearchShows` in `MCApp.cfg` |
| `components/Combobox.tsx:194` | A blur's timer closes the list also when the field has the focus again by then. Esc empties the chosen option without telling `onChange`. With nothing found, the highlight names an option that isn't there. | `LateCloseSpares` in `MCApp.cfg` |
| `components/CommandPalette.tsx:109` | A command "runs after the palette closes, so the command can move focus". The shortcut may open it again before the timer. | `RunsUnderNoPalette` in `MCApp.cfg` |
| `components/Menubar.tsx` | Esc doesn't close a menu after a press on its divider, which takes the focus out of the bar. | `EscapeReachesTheOpen` in `MCApp.cfg` |
| `pages/userMenu/UserMenu.tsx:161` | The dialog's Sign out is busy but not off while it's leaving: a second press sends a second request. | `DialogSignsOutOnce` in `MCApp.cfg` |

## Proofs

TLC checks an instance. TLAPS proves the theorems below for any constants that
the modules' `ASSUME`s allow. TLC evaluates the assumptions in every run. They
are about names, and about what a scene may hold; none limits what happens in
it:

- players, accounts, sessions and attempts are numbers, so that rows have an order, and
  the tokens of `DeviceKeys` and `ClientSession`, and the starts and sessions of
  `AppModel`, are numbered from 1 on;
- `None`, `NoKey`, `NoOwner`, `Nobody` and the like are no other value, and a
  request of `MergeLocks` is no account;
- a payload's `replaces` has a lower rank (it names it by its hash), each
  envelope has a signature, and an identity (`Sub`) has one email;
- the players of `MergeLocks`, and those with a question in `PlayerReview`, are
  finitely many, a match is the best of 1, 3, 5 or 7 games, and an input of the
  pad has what its rule tells apart.

`PlayersProofs`, for any accounts, players, matches and terms:

| Theorem | Property |
| --- | --- |
| `ManagersStayInOrder` | `PlayersInv`: `PlayersTypeOK`, `OneManager`, `QuestionsAnswerable`, `GuestsOwnOnePlayer` |
| `SidesStayApart` | `SidesApart` |
| `MergesAreOneStep` | `OneStepToSurvivor` |
| `PlayersStayOne` | `StaysOnePlayer` |
| `SelfPlayersStay` | `KeepsASelfPlayer` |

All rest on the invariant `IInv`, the conjunction of the invariants above with
`OnlyMade` (rows and merges are of players that exist) and `MatchesMadeOnce` (a
match being made isn't there yet). None is inductive without the others. A merge
keeps everyone else one step from a survivor only because both players are
unmerged; they are because questions are about unmerged players
(`QuestionsAnswerable`) and self players are never merged (`OneManager`); those
two survive a merge only because no other account has a row for the merged
player (`OneManager` again); and an adoption keeps that only because a guest has
one player, its self (`GuestsOwnOnePlayer`). `SidesApart` follows from
`MergeKeepsSidesApart`: if a merge put both sides of a scored match together,
the sides were the original's and the copy's, so each had played the other.

The same module has `PlayerReview`, "Is this you?", for any account, players,
matches, answers and other tabs' answers:

| Theorem | Property |
| --- | --- |
| `ReviewIInv` | the inductive invariant |
| `ReviewIsSafe` | `ReviewSafe`: `ReviewTypeOK`, `OffersAreTaken`, `NoFalseAlarm`, `SelfIsTheLists`, `AnsweredStaysAnswered`, unless a focus fetches while an answer saves |

`ReviewInv` has the account's part from `IInv`, and adds that answers only
take questions away, and leave the account a player of its own (`AnswerStep`).
So a list that the API read has at least today's questions. That it has no more
than the tab's list (`Between`) is `LoadInv` and `SaveInv`: a press cancels the
fetch before it, and no other starts until the answer is back. The scene
"focusWhileSaving" starts one. It is the one condition of the theorem, and the
disagreements above say what happens there. For `OffersAreTaken` and
`NoFalseAlarm` a tab that is alone and loses nothing must have the API's list but
while its answer is on its way back (`AloneInv`). The page tells two players who
played each other from one's list of opponents and the API from the other's,
so it takes `OpponentsMutual`: who played whom is the same from either side.

`MatchResultsProofs`, for any keys, payloads and envelopes:

| Theorem | Property |
| --- | --- |
| `ResultsTakePlayersSteps` | `TakesPlayersSteps` |
| `ResultsImplementPlayers` | `Spec => PlayersSpec`, so all of the above holds of whole systems |
| `ResultsKeepSidesApart` | `SidesApart`, with results, overrides and keys |
| `StoredResultsStay` | `ResultsInv`: `TypeOK`, `ApprovalsNameTheirSide`, `RetryAccepted` |

They rest on `RInv`: what a result was checked for when it was stored (its
details resolve to the match's, its match has a result) stays so, because two
players that became one stay one (`OnePlayerStep`), and a signature that counted
names its side for the same reason.

The same module, for any payloads in chains of any length:

| Theorem | Property |
| --- | --- |
| `ResultsStayOneChain` | `ChainInv`: `OneChain`, `PendingHeadHasOneSide`, `CurrentIsNewestAccepted` |
| `BothSidesSettle` | `SettledByBothSides` |
| `HistoryNeverChanges` | `HistoryStays` |
| `MatchesShowTheirStates` | `ShowsMatchStates`: `MatchResults` implements `MatchStates` |

`CInv` is the first two with `HeadIsNewest`: no result of a match has a higher
rank than its head. Without it, a new head's rank says nothing of the results
below it, and so not that the accepted one is the newest. `NewHead` is the lemma
that the rest is built on: a result that replaces the head is the only head
afterwards, and other matches' heads are as they were. `SettledByBothSides` must
hold with the chain, since whether a result needed both sides is asked of the
result it replaced. The refinement has its state mapped by `ShownByHead`: what
`match_state()` computes from chain, approvals and keys depends on the head, its
predecessor and the board alone. It then goes step by step: an accepted head is
final, a pending one awaits or disputes, a board starts play; every step of
`Players` leaves it (`OthersShowTheSame`), since it touches neither a chain nor
the side that a signature was stored for.

`SignInProofs`, for any number of accounts, browsers, identities, attempts and
requests:

| Theorem | Property |
| --- | --- |
| `SpecIInv` | the inductive invariant |
| `SignInIsConsistent` | `SignInInv`: `TypeOK`, `IdentitiesMatch`, `NothingLeftBehind`, `OneSelfPlayer`, `GuestSessionsEnd` |
| `SignInOneAccountPerEmail` | no two accounts have one email, in `SignIn`'s own variables |
| `SignInServesOnce` | `AttemptsServeOnce` |
| `SignInLocksExclude` | conflicting locks exclude each other |
| `SignInImplementsAccounts` | `ImplementsAccounts`: `SignIn` implements `Accounts` |
| `StepsRespectLocks` | a step moves one request, and changes only rows it locked or that nobody had |

The argument is the one that the code's comments make, statement by statement.
What a transaction read under a lock (the attempt's row, the guest's account,
the email under its advisory lock, the owner or that there is none) stays true
until it commits. Each request has that as an invariant of its place in the
handler (`RequestsInv`). Others keep it because they respect its locks
(`StepsRespectLocks`), and the locks exclude each other. Cookies need an
invariant of their own: a session is one browser's, in its jar or in an answer
to it (`CookiesInv`), and an attempt's row goes as it signs in
(`AttemptRowsInv`). Without these an attempt could be served to two browsers.
The refinement follows: `resolve_login()` chose an outcome by what was read,
that is still so at the commit, and the commit is that outcome's step of
`Accounts`. All other steps leave accounts alone.

`MatchSyncProofs`, for any tabs, drafts, envelopes and scenes:

| Theorem | Property |
| --- | --- |
| `SyncIInv` | the inductive invariant |
| `SyncIsSafe` | `SyncInv`: `TypeOK`, `SyncedBoardsLanded`, `NothingForgotten` |
| `RateLimitsWait` | `RateLimitWaits` |
| `ResultsStayUntilAWriteFails` | `ResultsStay` while storage has refused no write |
| `OneTabRestsWhenDone` | `RestsWhenDone` with one tab, and a lock faster than the server |

`IInv` says of each tab that a board being sent has one waiting, and an ok for
it is true (`SendsPending`); that what waits is the newest save
(`PendingIsNewest`), so a tab that says synced means it; and that an idle sync
has a job or a storage event to come, or nothing to send (`WillWake`). The last
is `NothingForgotten` without its "at rest". `ResultsStay` needs `StoreInv`
besides: every answer told is true, and a removal that waits for the Web Lock is
of an envelope the server has or won't take. It says so only until a write
fails. After that the tab reads its memory, and the property is false, as the
disagreements above say of `scoring/results.ts:6`. No scene of the run
`match_sync` has such a write.

`RestsWhenDone` is proved for the devices that it is true of, and the proof says
why. A pass that found a result stale skips it, and ends only when nothing is
left that it doesn't skip. So there must be another result to send, and it must
stay in the queue until it is sent (`PassGoesOn`): then it settles, or it stops the
pass, and both start a new one. A second tab may take that result out. So may
this tab, if a removal that waited for the Web Lock is done only after the
server's next answer ("slowLock"). TLC has a counterexample for each, so the
theorem needs both conditions. Refused writes, reloads, lost answers, ended
sessions and removed permissions don't matter.

`BrowserProofs`, for any tabs, keys, members, sessions and a cap of any size:

| Theorem | Property |
| --- | --- |
| `KeysSpecIInv` | the inductive invariant of `DeviceKeys` |
| `KeysAreConsistent` | `KeysInv`: `KeysTypeOK`, `SignOutLeavesNoKey` |
| `RegistrationsHeal`, `RegistrationsKeepTheCap`, `RegistrationsKeepKeys` | `KeysKept`: `RegistrationHeals`, `CapKept` |
| `SessionsAreConsistent` | `SessionInv`: `SessionTypeOK`, `AnswerIsShown`, `NeverStranded`, `ForgottenStaysForgotten`, `OneGuestEach` |

`KInv` says why a sign-out that nothing overlapped leaves no key: while its mark
runs nothing is stored, and a registration on its way carries the key being
signed out, or none (`AloneInv`). Of a registration that only registrations
overlapped (`CalmInv`): its key is the stored one, or it is another account's or
revoked. Then the stored one is neither, and no other account is about to get
it. The cap is a lemma about the oldest keys: those that make room are never the
newest. `SInv` is about the answers still on their way. A request has a run of
the query that will take its answer, now or after its wait (`RunsInv`). The pass
of an answer is valid, or a sign-out overtook it (`RequestInv`). So a tab with
no request shows its last answer, or listens.

`ScoringProofs`, for any points, and matches, histories and queues of any
length:

| Theorem | What it says |
| --- | --- |
| `FinalScoresAgree` | the pad's `checkGame()` and the API's `_final_winner()` take the same scores |
| `FinalScoresArePlayed` | a score is final exactly when the game is over and wasn't a point earlier |
| `PlayReadsAlike` | `ScoresReadAlike`: at each point of play both languages know whether the game is over |
| `MatchesEndAlike` | `EndsAlike`: the pad calls a match decided when play did, with the games played, and the API takes those |
| `PagesIInv` | the inductive invariant of `ScorePages` |
| `PadsAreSafe` | `PadInv`: `PagesTypeOK`, `SubmitsEndings`, `BackHoldsTheSigned`, `DecidingScoreKept` |
| `LinksAreSafe` | `LinksInv`: `SignsOnce`, `NothingOrphaned`, `WaitingIsQueued` |

`PlayReadsAlike` needs the invariant `EndsAtOnce`: a game ends as soon as it
may, so a lead of more than 2 is one at 11. Scores that play can't reach, such
as 14:9, are why the property isn't true of all pairs of numbers.
`MatchesEndAlike` adds `MatchInv`: the games before the last leave the match
undecided, so there are no more than `bestOf`. Both sides' ways of counting then
find the last game and no earlier one. `filled` is a recursive function, and
equal to its argument when that has no gap. The proof takes the first place
where it wouldn't be, since induction isn't available.

`PagesInv` holds of whole histories where `PadInv` is about what is shown. Every
board in a page, a history, a result or at the API has no gap and only final
scores, so `planPress()` submits endings alone (`ReviewFacts`, `PressFacts`).
Every submission anywhere in a history lies on the pad that holds it, since Back
may reach any of them. What a mutation works on is on its page; queued and
checked fragments are of signed results; a page that listens has its envelope in
the outbox.

The same module has `MergeLocks`, the locks under which a match's first result
is recorded, for any number of requests, accounts and players:

| Theorem | Property |
| --- | --- |
| `LocksKeepSidesApart` | `LocksInv`: `TypeOK`, `ScoredSidesApart`, `HeldSurvivorsAreTheSides` |
| `CheckedSidesAreHeld` | `CheckedSidesStay` |

`LInv` adds that conflicting locks exclude each other, that a row a statement
found is locked or still to be locked (`HoldsFound`), that an account merges two
unmerged players of its own (`MergesPairs`), and `FindsSurvivors`: as long as no
row that a request found is merged, its sides resolve to those rows. That one is
what the loop of `sides_are_one_player()` looks for after it waited, and it is
why its last check never fails. The order of the locks isn't used: it is about
deadlocks only.

`ClientProofs`, for any roles, permissions, keys, administrators and tabs, and
any number of writes and boxes pressed:

| Theorem | Property |
| --- | --- |
| `AdminIInv` | the inductive invariant |
| `AdminPagesAreTrue` | `AdminInv`: `AdminTypeOK`, `RolesGrantWhatExists`, `ShowsWhatItWrote`, `StaysWithTheView`, `FormIsOfTheShown` |
| `WritesKeepAdministrators`, `OnlyTheAllowedWrites`, `EmailGrantsServeOnce`, `AdminWritesAreSafe` | `AdminWrites`: `WritesKeepAnAdministrator`, `OnlyTheAllowedWrite`, `GrantsServeOnce` |

`AIInv` says of each snapshot of the lists, shown or on its way, what it says of
the database (`DbOK`), since it was read from it at once. `FormIsPressed` is why
a roles form takes away nothing it didn't show: what it would save is what the
account held in the lists shown, but for the boxes pressed. Of all roles, not
only those shown, as a role may come and go while the form stays.
`SeesItsWrites` counts lists on their way too: until a write is stored, what
arrives has the last one, as `refreshAfterAdminWrite()` cancels the reads from
before it. `SeesItsView` says that permissions arrive only while a write
refreshes, so the loader sees each change. The assumption on the scenes is that
their roles are well-formed, and that who has the page open may see it.
`WritesKeepAdministrators` has a case for each service: the ones that may take a
role away count who is left, and the others keep each role's grant and who holds
it.

It also has `AppModel`, for any number of starts, sessions, keys, sign-ins and
sign-outs, and any sets of trouble:

| Theorem | Property |
| --- | --- |
| `PhoneIInv` | the inductive invariant |
| `PhoneIsTrue` | `AppModelInv`: `AppTypeOK`, `SignedOutForGood`, `ShowsItsSession`, `KeyIsTheAccounts` |

`AppIInv` has parts that are always true and parts that need that nothing
overlaps. Always: registrations form a chain, of which only one tries at a time,
and the account shown is the last one's (`Chain`); the one that tries has the
key of the Keychain (`KeyAtHand`); a guest has only the session it began with,
and each attempt belongs to a sign-in that was pressed (`Accounts`). With
nothing overlapping, one thing runs at a time (`Alone`), so a sign-out waits for
the last registration there is. From there `KeyLeaves` says that the request of a
sign-out carries the Keychain's key, and that every key an account has is at
hand, signed out, revoked or in `givenUp`. `Jar` follows the cookie: a sign-in's
and a sign-out's request carry the jar's, and once the API handled a sign-out the
jar's session is nobody's. `SessionShown` says that an answered start names the
account of the session that it set. `KeepsKey` is why the key stays: what can
take it from the account shown (a sign-out whose answer was lost, an adoption of
the guest, a sign-in to another account) also ends the session in the jar, or ends
the account (`Ended`, `Left`). It is weaker where an answer may be cut short,
since a sign-in's cookie may then be another account's.
The two guards of `KeyIsTheAccounts` come from there: without either, TLC finds
the states that the invariant would have to exclude. Each action has a lemma that
it keeps the invariant (`PressStartKeeps`, ...), with a step for each part.

And `NewMatch`, for any players, opponents, lengths and words:

| Theorem | Property |
| --- | --- |
| `NewIInv` | the inductive invariant |
| `NewMatchesAreSafe` | `NewSafe`: `NewTypeOK`, `OneMatchEachSetup`, `ShowsTheSaves`, `RefusedIsNotOffered`, `SearchesTheText`, `LeftOpensNothing` |

`AttemptInv` is why a setup makes one match: until a change of the form, every press
sends the attempt that the first one left in it, with one id; and while a form
may send, it is the one on the screen. The API has one match of an id
(`MatchesInv`). A refusal, on its way or shown, is of an opponent that merged
(`RefusalInv`), and a list of opponents read since then has no such player. The pad's
page has no read of the match from before the pad, and a pad that a leave
overtook has left its person elsewhere (`PlaceInv`). A page that the person went
to before the answer stays (`LeftStays`), which is `LeftOpensNothing`. It says
nothing of a person who leaves while the match opens, whom the code takes to its
pad.

`AppProofs`, for any tabs, deploys and loads:

| Theorem | Property |
| --- | --- |
| `UpdateIInv` | the inductive invariant of `AppUpdate` |
| `StaleTabsAreTold`, `ReloadsAreNew`, `BuildsGoByAPress`, `UpdatesAreSafe` | `UpdateSafe`: `UpdateTypeOK`, `NoticeIsTrue`, `ReloadingWaits`, `StaleTabIsTold`, `ReloadIsNew`, `TakesOverByAPress` |

`UInv` keeps the registration's workers in the order of their builds
(`WorkersOK`): a check finds only a build that is newer than all of them. Of a
page it says (`PageOK`) that a controlled one is no newer than the active worker,
and of that worker's build if it says nothing; and that a page which tells of a build,
or will, is older than it (`Told`). A page without a worker may be of the newest
build itself, as the browser loads it from the network. Its notice is about a
newer build than the registration's first, and no more. That is less than
`serviceWorker.ts` says of it, as the disagreements above have it. Each step
leaves a page its load, closes it or loads another (`PageSteps`), and `Told` of the
page that pressed is what its reload brings.

It also has `AdminLists`, for any accounts, players, keys, searches and size of a
page:

| Theorem | Property |
| --- | --- |
| `ListsSpecIInv` | the inductive invariant of `AdminLists` |
| `ListsStay`, `ListsAreWhole`, `ListsAreSafe` | `ListsSafe`: `ListsTypeOK`, `ListIsOfTheNamed`, `ControlNamesTheView`, `RevokerIsNamed`, `LoadingKeepsTheList`, `SaysIfMoreMatch` |

`ListsIInv` says of the client that each page it has, or that is on its way, fits
the query it is kept under (`CacheFits`, `ReadingFits`). So answers may come in
any order, and what shows is of what the page names. Of the database it says
(`RowsOK`) that an account which wasn't adopted owns unmerged players of its own,
which a merge and an adoption keep only together, and that a key is revoked by
its owner or by an account with an email: an adopted guest's revocations move
with its keys. From the first follows that no player is merged into itself, so the
page of a merged player leads to another one. `PageOrMore` is the lemma about "one
row more than a page": with n+1 found the first n are a full page and not all of
them, with fewer they are all. It needs that the order has no ties, as the
queries order by id in the end.

And `Widgets`, for any configuration of each, and any order of keys, presses and
timers:

| Theorem | Property |
| --- | --- |
| `WidgetsAreSafe` | `WidgetsSafe`: `ToastsSafe`, `DatesSafe`, `MenubarSafe`, `UserMenuSafe`, `TipsInv`, `ComboInv`, `PaletteInv` |

Each widget has its invariant and a lemma that it holds (`ToastsHold`,
`DatesHold`, ...). `TipsInv` is inductive as it stands. The others need the shapes of
what they hold, and more: `ToastsIInv`, that none of the toasts that show was undone
and that the region is empty while its timer runs; `BarInv`, that a command with the
focus is of the open menu; `ComboIInv`, that the i-th line of the list is an option
that was found (`IthPlace`, that a set of n places has an i-th one for each i up
to n). `DateIInv` adds that a text which nobody checked since the field took
the focus was the picked day's when it did. It rests on the calendar:
`MonthStep` is that a month starts where the one before it ends, from the rule of
leap years and what the years' leap days add up to (`LeapStep`), so a day is of
exactly one month (`MonthOfDay`, `DaysOfMonth`), which has it on its screen
(`OnScreen`), and what `parseDate()` reads, `longDate()` writes as the same day and
month (`ParseReads`). The years are at least 100, as `Date` takes smaller ones for
the 20th century's, and those typed are among the modelled ones.

The proof is also why `entered`, the history that `FieldSaysThePicked` leaves out,
lasts until another check or pick. After Enter took another date, the text that the
field had taken focus with is typed back; it isn't checked when the field loses
the focus, or when it takes and loses it again. That takes seven keys, which is the
run's bound: with six, TLC finds nothing wrong with a shorter history.

Of the codec, `AppProofs` has what needs no recursion (`WireCodes`): an
envelope's QR text and its link read back as its bytes, for every sequence of
bytes (`TextsReadBack`), an accepted text is the one that its bytes are written as
(`TextsAreOneForm`), and the shortest head of an item reads back as its major
type and its number, with anything after it (`HeadReadsBack`). A text is cut into
groups, of three characters for two bytes or of four for three. A group is worth
its bytes (`GroupIsPair`, `GroupIsTriple`), by the arithmetic of digits
(`DigitsOf`, `DigitsBack`, `SextetsOf`); a last, shorter group counts zeros for
what it lacks, and what the two lengths have to do with each other
(`LinkLength`) says that it lacks nothing of a byte. A head's padding is what the
reader strips, because a number's first byte isn't zero (`StripOf`, `PaddedIs`).
`btoa()` and `atob()` are modelled as base 64 by their specification, and a
JavaScript engine's limit on the arguments of one call, which `base64url()` meets
at tens of thousands of bytes, is left out.

Out of the prover's reach, and so TLC's for good: liveness (`RequestsEnd` of
both, `AllSettles`, `AppListsSettle`), and that a whole item, payload or envelope
reads back, as the reader of items is recursive (`SignedFormat`, so `ResultWire`
and its `WireInv`).

## Not modelled

- Of the server: a session's expiry, which `start_session()` and
  `authenticate()` take as they take an adopted account's session; the exchange
  of the code and each way it may fail; the guest limit by network; display
  names, renaming and how handles are drawn; reads that only read (opponents,
  lists of matches, histories). `MergeLocks` has no key locks of
  `create_match()`'s inserts. That two accounts never share an email is what
  `Accounts` promises, and a unique index enforces.
- Leagues: there is no code beyond the tables and what a merge repoints.
- Of the web client: how long the outbox waits, what its strip shows, and how
  matches share the storage (the server in `MatchSync` is for a rated match with
  two accounts); pages that only show; the carousel, the code field and the split
  view; the generated route tree; the edge worker, which serves files.
- ECDSA and SHA-256 themselves, and WebCrypto's and IndexedDB's failures.
- The iOS client's views, and its codec of signed results, which nothing calls
  yet. In `AppModel`: the guest limit and the cap on keys, which other modules have; a
  Keychain that refuses to save; requests that the API handles after the app
  gave up on them; other devices of the account.
- The design system's gallery, bundle and references, tests, tooling, and
  deployment: no behaviour of the program is in them.

## What is left to do

1. `MergeLocks` with the key locks of `create_match()`, and `MatchSync` with
   `MatchResults` as its server.
2. The guest limit of `sessions.py`, as a counter by network and day.
3. `AppModel` with `SignIn` and `DeviceKeys` as its server, in place of its own
   short API, and with requests that arrive late.
