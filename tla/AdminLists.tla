----------------------------- MODULE AdminLists -----------------------------
(***************************************************************************)
(* What the admin page lists: accounts by view and search, players by name *)
(* and signing keys by account (AccountsSection.tsx, PlayersSection.tsx,   *)
(* SigningKeysSection.tsx), and one player's page (PlayerAdmin.tsx), while *)
(* accounts sign in, players merge and keys end.  A search or a view is a  *)
(* React transition, so the list from before stays until the new one is    *)
(* there.                                                                  *)
(*                                                                         *)
(* A page is the set of its rows, without their order.  The roles that an  *)
(* account's row names are Admin's.  A section's texts are trimmed.        *)
(***************************************************************************)
EXTENDS FiniteSets, Naturals

CONSTANTS
  Account, Player, Key,
  None,           \* null
  SearchText, Blank,    \* what may be searched for, and no search
  Holding,        \* the emails, by their accounts, and the names, by their players, that contain each text
  Rank,           \* the order that a list is in
  PageSize,       \* ACCOUNT_PAGE_SIZE, PLAYER_PAGE_SIZE and KEY_PAGE_SIZE
  ListScenes      \* the accounts and keys at the start, the sections looked at, whether requests fail,
                  \* and bounds on what the visitor presses and what happens to the accounts

ASSUME ListsAssumption ==
  /\ PageSize \in Nat \ {0}
  /\ Blank \notin SearchText /\ Holding \in [SearchText -> SUBSET (Account \cup Player)]
  /\ None \notin Account \cup Player \cup Key /\ Rank \in [Account \cup Player \cup Key -> Nat]
  /\ \A S \in {Account, Player, Key} : IsFiniteSet(S) /\ \A x, y \in S : Rank[x] = Rank[y] => x = y
  /\ \A s \in ListScenes :
       /\ s.verified \subseteq Account /\ s.self \in [Account -> Player] /\ s.owner \in [Key -> Account]
       /\ \A a, b \in Account : s.self[a] = s.self[b] => a = b
       /\ s.sections \subseteq {"accounts", "players", "keys"}
       /\ s.presses \in Nat /\ s.events \in Nat

VARIABLES
  listScene,
  stored,   \* accounts, players and keys in the database
  cache,    \* the query client's data of each query
  failed,   \* the queries that ended in an error and have no data
  reading,  \* the requests on their way, with the page that they bring once it's read
  page,     \* the section that shows, and how
  presses, events

listVars == <<listScene, stored, cache, failed, reading, page, presses, events>>
-----------------------------------------------------------------------------
(* The API (services/roles.py, player_admin.py, signing_keys.py).          *)

\* The account's email or its self player's name contains the text.  A guest
\* has no email.
Finds(d, a, text) ==
  text = Blank \/ (a \in d.verified /\ a \in Holding[text]) \/ d.self[a] \in Holding[text]

InView(d, a, view) == CASE view = "verified" -> a \in d.verified
                        [] view = "guests" -> a \notin d.verified
                        [] view = "all" -> TRUE

ManagersOf(d, p) == {a \in Account \ d.adopted : d.self[a] = p \/ p \in d.managed[a]}

\* The accounts, players or keys that a query asks for.
Matching(d, query) ==
  CASE query.section = "accounts" ->
         {a \in Account \ d.adopted : InView(d, a, query.view) /\ Finds(d, a, query.text)}
    [] query.section = "players" ->
         {p \in Player : d.mergedInto[p] = None /\ (query.text = Blank \/ p \in Holding[query.text])}
    [] query.section = "keys" -> {k \in Key : Finds(d, d.owner[k], query.text)}
    [] query.section = "player" -> {query.of}

AccountRow(d, a) == [of |-> a, guest |-> a \notin d.verified]

\* A player's row names the account that plays as it.
PlayerRow(d, p) ==
  [of |-> p, plays |-> {a \in Account \ d.adopted : d.self[a] = p}, managers |-> Cardinality(ManagersOf(d, p))]

\* KeyStateCell(): who revoked it is an account by its email, which a guest
\* doesn't have.
KeyState(d, k) == CASE d.revokedBy[k] # None -> "revoked"
                    [] d.revokedBy[k] = None /\ k \in d.signedOut -> "signed_out"
                    [] OTHER -> "live"
Revoker(d, k) ==
  CASE d.revokedBy[k] = d.owner[k] -> "the owner"
    [] d.revokedBy[k] # d.owner[k] /\ d.revokedBy[k] \in d.verified -> "an administrator"
    [] OTHER -> "nobody"
KeyRow(d, k) ==
  [of |-> k, owner |-> d.owner[k], guest |-> d.owner[k] \notin d.verified, state |-> KeyState(d, k), by |-> Revoker(d, k)]

\* A player's own page: the player that stands for it now, and who manages it.
PlayerDetail(d, p) == [of |-> p, mergedInto |-> d.mergedInto[p], managers |-> ManagersOf(d, p)]

Row(d, section, x) == CASE section = "accounts" -> AccountRow(d, x)
                        [] section = "players" -> PlayerRow(d, x)
                        [] section = "keys" -> KeyRow(d, x)
                        [] section = "player" -> PlayerDetail(d, x)

\* The first of them in the list's order.
FirstOf(found, n) == {x \in found : Cardinality({y \in found : Rank[y] < Rank[x]}) < n}

\* list_accounts(), list_players(), find_keys(): one row more than the page
\* holds, which says whether more match.
ReadPage(d, query) ==
  LET found == FirstOf(Matching(d, query), PageSize + 1) IN
  [rows |-> {Row(d, query.section, x) : x \in FirstOf(found, PageSize)}, more |-> Cardinality(found) > PageSize]

\* adopt_guest(): the guest's keys, and what it revoked, become the account's,
\* and its player one that the account manages.
Moved(d, guest, into) ==
  [d EXCEPT !.adopted = @ \cup {guest}, !.owner = [k \in Key |-> IF @[k] = guest THEN into ELSE @[k]],
            !.revokedBy = [k \in Key |-> IF @[k] = guest THEN into ELSE @[k]],
            !.managed[into] = @ \cup {d.self[guest]}]
-----------------------------------------------------------------------------
(* The page.                                                               *)

Views == <<"verified", "guests", "all">>
Asked(section, view, text) == [section |-> section, view |-> view, text |-> text, of |-> None]
PlayerPage(p) == [section |-> "player", view |-> "all", text |-> Blank, of |-> p]

\* Mutant of queryKey: the view is left out.
queryKeyUnviewed(query) == IF query.section = "accounts" THEN [query EXCEPT !.view = "all"] ELSE query

\* The query's key, which has all that the request depends on.
queryKey(query) == query

HasData(c, query) == queryKey(query) \in DOMAIN c
Put(f, q, v) == [x \in DOMAIN f \cup {q} |-> IF x = q THEN v ELSE f[x]]
Drop(f, q) == [x \in DOMAIN f \ {q} |-> f[x]]

\* What Accounts(), Players(), SigningKeys() and Player() show.
Listed == cache[queryKey(page.shown)]

\* React renders `asked`, with what the client holds.  A transition that
\* suspends keeps the list, and an error stays until Try again.
Rendered(p, c, f) ==
  CASE p.phase = "error" -> [p EXCEPT !.shown = p.asked]
    [] p.phase # "error" /\ HasData(c, p.asked) -> [p EXCEPT !.shown = p.asked, !.phase = "list"]
    [] p.phase # "error" /\ ~HasData(c, p.asked) /\ queryKey(p.asked) \in f -> [p EXCEPT !.shown = p.asked, !.phase = "error"]
    [] p.phase = "skeleton" /\ ~HasData(c, p.asked) /\ queryKey(p.asked) \notin f -> [p EXCEPT !.shown = p.asked]
    [] OTHER -> p

\* What a suspended component waits for is on its way.
Suspended(p, c, f) == p.phase # "error" /\ ~HasData(c, p.asked) /\ queryKey(p.asked) \notin f
Asking(p, c, f) ==
  IF Suspended(p, c, f) /\ queryKey(p.asked) \notin DOMAIN reading
  THEN Put(reading, queryKey(p.asked), [step |-> "asked", of |-> p.asked]) ELSE reading

Renders(p, c, f) == page' = Rendered(p, c, f) /\ reading' = Asking(Rendered(p, c, f), c, f)

\* The section as it opens: its first view, and no search.
OpenedSection(section) == Asked(section, Views[1], Blank)

\* A section that opens renders at once, with nothing from before.
Mounted(query) == [control |-> 1, asked |-> query, shown |-> query, phase |-> "skeleton"]

ListsInit ==
  /\ listScene \in ListScenes
  /\ stored = [verified |-> listScene.verified, adopted |-> {}, self |-> listScene.self,
               managed |-> [a \in Account |-> {}], mergedInto |-> [p \in Player |-> None],
               owner |-> listScene.owner, revokedBy |-> [k \in Key |-> None], signedOut |-> {}]
  /\ cache = <<>> /\ failed = {} /\ presses = 0 /\ events = 0
  /\ \E section \in listScene.sections :
       /\ page = Mounted(OpenedSection(section))
       /\ reading = [q \in {OpenedSection(section)} |-> [step |-> "asked", of |-> q]]

Press == presses < listScene.presses /\ presses' = presses + 1 /\ UNCHANGED <<listScene, stored, cache>>

\* startTransition()
Transitioned(query) == [page EXCEPT !.asked = query]

\* select(): a click turns a radio on, and so does a key from any other one,
\* outside the transition that onChange() starts.
Selected(p, i) == [p EXCEPT !.control = i]

\* onView(): the radios of the accounts.
onView(i) ==
  /\ Press /\ page.asked.section = "accounts" /\ i # page.control
  /\ Renders(Selected(Transitioned([page.asked EXCEPT !.view = Views[i]]), i), cache, failed)
  /\ UNCHANGED <<failed, events>>

\* onSubmit(): the search form.
onSubmit(text) ==
  /\ Press /\ page.asked.section # "player" /\ text # page.asked.text
  /\ Renders(Transitioned([page.asked EXCEPT !.text = text]), cache, failed)
  /\ UNCHANGED <<failed, events>>

\* The section that was there is gone, with its state.
Reopened(section) == Mounted(OpenedSection(section))

\* Another tab of the page, or Back to it from a player's.
OpenTab(section) ==
  /\ Press /\ section \in listScene.sections /\ section # page.asked.section
  /\ Renders(Reopened(section), cache, failed) /\ UNCHANGED <<failed, events>>

\* A player's page, from its row or from the page of a player that merged
\* into it.  The router may keep that page until the other is there.
OpenPlayer(p) ==
  /\ Press /\ page.phase = "list"
  /\ \E row \in Listed.rows :
       \/ /\ page.shown.section = "players" /\ row.of = p
          /\ Renders(Mounted(PlayerPage(p)), cache, failed)
       \/ /\ page.shown.section = "player" /\ row.mergedInto = p
          /\ \/ Renders(Mounted(PlayerPage(p)), cache, failed)
             \/ Renders([page EXCEPT !.asked = PlayerPage(p)], cache, failed)
  /\ UNCHANGED <<failed, events>>

\* Try again: the boundary and its failed queries are reset.
TryAgain ==
  /\ Press /\ page.phase = "error" /\ failed' = failed \ {queryKey(page.asked)}
  /\ Renders([page EXCEPT !.phase = "skeleton"], cache, failed') /\ UNCHANGED events

\* The list that shows is read again: it mounted with old data, or the page
\* got the focus.
ReadAgain ==
  /\ Press /\ page.phase = "list" /\ queryKey(page.shown) \notin DOMAIN reading
  /\ reading' = Put(reading, queryKey(page.shown), [step |-> "asked", of |-> page.shown])
  /\ UNCHANGED <<failed, page, events>>

\* A query that nothing shows is forgotten in time.
Forget(q) ==
  /\ q \in DOMAIN cache \cup failed /\ q \notin DOMAIN reading \cup {queryKey(page.shown), queryKey(page.asked)}
  /\ cache' = Drop(cache, q) /\ failed' = failed \ {q}
  /\ UNCHANGED <<listScene, stored, reading, page, presses, events>>

\* GET /v1/admin/...
ReadByApi(q) ==
  /\ reading[q].step = "asked"
  /\ reading' = [reading EXCEPT ![q] = [step |-> "read", of |-> @.of, page |-> ReadPage(stored, @.of)]]
  /\ UNCHANGED <<listScene, stored, cache, failed, page, presses, events>>

\* The answer comes, or the request and its retries have failed: a query with
\* data keeps it.
Arrive(q) ==
  /\ reading[q].step = "read" /\ cache' = Put(cache, q, reading[q].page) /\ failed' = failed \ {q}
  /\ page' = Rendered(page, cache', failed') /\ reading' = Drop(reading, q)
  /\ UNCHANGED <<listScene, stored, presses, events>>

\* Mutant of Errors: nobody hears of it.
ErrorsQuietly(q) == failed

Errors(q) == IF q \in DOMAIN cache THEN failed ELSE failed \cup {q}

Fail(q) ==
  /\ listScene.fails /\ failed' = Errors(q)
  /\ page' = Rendered(page, cache, failed') /\ reading' = Drop(reading, q)
  /\ UNCHANGED <<listScene, stored, cache, presses, events>>
-----------------------------------------------------------------------------
(* Meanwhile, elsewhere.                                                   *)

Happens == events < listScene.events /\ events' = events + 1 /\ UNCHANGED <<listScene, cache, failed, reading, page, presses>>

\* A guest signs in, to an account of its own or to one that adopts it.
SignsIn ==
  /\ Happens
  /\ \E guest \in Account \ (stored.verified \cup stored.adopted) :
       \/ stored' = [stored EXCEPT !.verified = @ \cup {guest}]
       \/ \E into \in stored.verified : stored' = Moved(stored, guest, into)

\* The older player stands for both, and the other's managers manage it.
Merged(d, a, older, other) ==
  [d EXCEPT !.mergedInto = [q \in Player |-> IF q = other \/ @[q] = other THEN older ELSE @[q]],
            !.self = [b \in Account |-> IF @[b] = other THEN older ELSE @[b]],
            !.managed = [b \in Account |-> IF b = a \/ other \notin @[b] THEN @[b] \ {older, other}
                                           ELSE (@[b] \ {other}) \cup {older}]]

\* An account answers that a player it manages is its own.
Merges ==
  /\ Happens
  /\ \E a \in stored.verified, p \in Player :
       /\ p \in stored.managed[a]
       /\ \/ stored' = Merged(stored, a, p, stored.self[a])
          \/ stored' = Merged(stored, a, stored.self[a], p)

\* A key's owner, or an administrator, revokes it, and a device signs out.
Revokes ==
  /\ Happens
  /\ \E k \in Key :
       /\ stored.revokedBy[k] = None
       /\ \E a \in stored.verified \cup {stored.owner[k]} : stored' = [stored EXCEPT !.revokedBy[k] = a]
SignsOut == Happens /\ \E k \in Key \ stored.signedOut : stored' = [stored EXCEPT !.signedOut = @ \cup {k}]

ListsNext ==
  \/ \E i \in 1..3 : onView(i)
  \/ \E text \in SearchText \cup {Blank} : onSubmit(text)
  \/ \E section \in {"accounts", "players", "keys"} : OpenTab(section)
  \/ \E p \in Player : OpenPlayer(p)
  \/ TryAgain \/ ReadAgain
  \/ \E q \in DOMAIN reading : ReadByApi(q) \/ Arrive(q) \/ Fail(q)
  \/ \E q \in DOMAIN cache \cup failed : Forget(q)
  \/ SignsIn \/ Merges \/ Revokes \/ SignsOut

\* Every request ends, by its answer, an error or the browser.
Ends == \E q \in DOMAIN reading : ReadByApi(q) \/ Arrive(q)

ListsSpec == ListsInit /\ [][ListsNext]_listVars /\ WF_listVars(Ends)
-----------------------------------------------------------------------------
(* Properties.                                                             *)

\* A list that shows has been read, and is no longer than a page.
ListsTypeOK ==
  /\ page.phase \in {"list", "skeleton", "error"} /\ page.control \in 1..3
  /\ page.phase = "list" => queryKey(page.shown) \in DOMAIN cache
  /\ failed \cap DOMAIN cache = {}
  /\ \A q \in DOMAIN cache : Cardinality(cache[q].rows) <= PageSize

\* The rows that show are those of the view and the search that the page names
\* with them, however many were asked for since and in whatever order their
\* answers came (queries.ts adminAccountsQuery, AccountsSection.tsx).
ListIsOfTheNamed ==
  page.phase = "list" =>
    \A row \in Listed.rows :
      /\ page.shown.section = "accounts" =>
           /\ row.guest => page.shown.view # "verified"
           /\ ~row.guest => page.shown.view # "guests"
      /\ page.shown.section = "players" => page.shown.text = Blank \/ row.of \in Holding[page.shown.text]
      /\ page.shown.section = "keys" => "owner" \in DOMAIN row
      /\ page.shown.section = "player" => row.of = page.shown.of

\* Once no other list is awaited, the radio that is on names the view that
\* shows, also when the section was left and opened again.
ControlNamesTheView ==
  page.shown = page.asked /\ page.shown.section = "accounts" => page.shown.view = Views[page.control]

\* A view or a search never takes the list away before the next one is there:
\* only another section, another player or an error does.
LoadingKeepsTheList ==
  [][page.phase = "list" /\ page'.phase = "skeleton" =>
       page'.shown.section # page.shown.section \/ page'.shown.of # page.shown.of]_listVars

\* A page that doesn't say that more match holds every match of that moment,
\* and one that does is full (services/roles.py list_accounts).
SaysIfMoreMatch ==
  [][\A q \in DOMAIN reading \cap DOMAIN reading' :
       reading[q].step = "asked" /\ reading'[q].step = "read" =>
         LET got == {row.of : row \in reading'[q].page.rows} IN
         IF reading'[q].page.more THEN Cardinality(got) = PageSize /\ got # Matching(stored, q)
         ELSE got = Matching(stored, q)]_listVars

\* A revoked key's row says who revoked it, also after the guest that did was
\* adopted (SigningKeysSection.tsx KeyStateCell, ownership.py:33).
RevokerIsNamed ==
  \A q \in DOMAIN cache : q.section = "keys" =>
    \A row \in cache[q].rows : row.state = "revoked" => row.by # "nobody"

\* What the visitor asked for is shown in the end, or the alert that it
\* couldn't be read: a list never stays awaited.
ListsSettle == (page.shown # page.asked \/ page.phase = "skeleton") ~> (page.shown = page.asked /\ page.phase # "skeleton")

\* A search shows its list in the end.  It doesn't after an error: the alert
\* stays over every later view and search until Try again.
SearchShows == \A text \in SearchText : page.asked.text = text ~> (page.asked.text # text \/ page.phase = "list")

\* A list is of the view and search that the page names, whole or marked as
\* more, and stays until the next is there.
ListsSafe ==
  /\ [](ListsTypeOK /\ ListIsOfTheNamed /\ ControlNamesTheView
        /\ RevokerIsNamed)
  /\ LoadingKeepsTheList /\ SaysIfMoreMatch
=============================================================================
