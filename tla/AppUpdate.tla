------------------------------ MODULE AppUpdate -----------------------------
(***************************************************************************)
(* A new build of the web client and the tabs of one browser: the service  *)
(* worker's registration, and each tab's AppUpdate (serviceWorker.ts),     *)
(* which says that the app has been updated and reloads on a press.  A     *)
(* build stands for its worker, whose install downloads the build's files. *)
(* A browser gives a controlled tab the active worker's build, and any     *)
(* other tab the newest one.                                               *)
(***************************************************************************)
EXTENDS Naturals, FiniteSets

CONSTANTS
  Tab,
  MaxBuild, MaxVisits,  \* bound one behaviour: deploys, and each tab's loads
  UpdateScenes          \* what happens in one: a set of sets of UpdateHappening

UpdateHappening == {"shiftReload", "installFails", "close"}

ASSUME UpdateAssumption ==
  {MaxBuild, MaxVisits} \subseteq Nat \ {0} /\ \A s \in UpdateScenes : s \subseteq UpdateHappening

VARIABLES
  updateScene,
  net,   \* the newest build that is deployed
  reg,   \* the registration's workers by build, 0 for none, and its first
  tab   \* each tab: its build, whether a worker controls it, what its AppUpdate
         \* hears and shows, and the worker whose change reloads it

updateVars == <<updateScene, net, reg, tab>>

Largest(a, b) == IF a > b THEN a ELSE b
Newest == Largest(reg.active, Largest(reg.waiting, reg.installing))

NoPage == [open |-> FALSE, build |-> 0, controlled |-> FALSE, watching |-> FALSE, hears |-> {},
           phase |-> "none", awaits |-> 0, by |-> "nobody", visits |-> 0]

\* Mutant of transition: a dismissed notice stays so.
transitionOnce(phase, event) ==
  CASE event = "worker-waiting" /\ phase = "none" -> "ready"
    [] event = "controller-changed" /\ phase = "none" -> "ready"
    [] event = "dismiss" /\ phase = "ready" -> "dismissed"
    [] event = "reload" /\ phase = "ready" -> "reloading"
    [] OTHER -> phase

transition(phase, event) ==
  CASE event = "worker-waiting" /\ phase = "none" -> "ready"
    [] event = "controller-changed" /\ phase # "reloading" -> "ready"
    [] event = "dismiss" /\ phase = "ready" -> "dismissed"
    [] event = "reload" /\ phase = "ready" -> "reloading"
    [] OTHER -> phase

apply(p, event) == [p EXCEPT !.phase = transition(@, event)]

\* onceInstalled(): at once, or when the worker's install ends.
onceInstalled(p, r, worker) ==
  IF worker = 0 THEN p
  ELSE IF worker = r.waiting THEN apply(p, "worker-waiting")
  ELSE [p EXCEPT !.hears = @ \cup {worker}]

\* A tab loads, on a path that a worker answers or, with none or by a
\* Shift-reload, from the network.
Loads(p, r, by) ==
  LET controlled == r.active # 0 /\ by # "shift" IN
  [NoPage EXCEPT !.open = TRUE, !.build = IF controlled THEN r.active ELSE net, !.controlled = controlled,
     !.by = by, !.visits = p.visits + 1]
-----------------------------------------------------------------------------
UpdateInit ==
  /\ updateScene \in UpdateScenes /\ net = 1
  /\ reg = [installing |-> 0, waiting |-> 0, active |-> 0, first |-> 0]
  /\ tab = [t \in Tab |-> NoPage]

Deploy ==
  /\ net < MaxBuild /\ net' = net + 1
  /\ UNCHANGED <<updateScene, reg, tab>>

\* Someone opens the app or reloads it.
Visit(t) ==
  /\ tab[t].visits < MaxVisits
  /\ \E by \in {"person", "shift"} :
       /\ by = "shift" => "shiftReload" \in updateScene
       /\ tab' = [tab EXCEPT ![t] = Loads(@, reg, by)]
  /\ UNCHANGED <<updateScene, net, reg>>

LeavesApp(t) ==
  /\ "close" \in updateScene /\ tab[t].open
  /\ tab' = [tab EXCEPT ![t] = [NoPage EXCEPT !.visits = tab[t].visits]]
  /\ UNCHANGED <<updateScene, net, reg>>

\* register() after the page's load: the registration's first worker starts
\* its install, or the tab watches the workers that there are.
watch(t) ==
  /\ tab[t].open /\ ~tab[t].watching
  /\ reg' = IF Newest = 0 THEN [reg EXCEPT !.installing = net, !.first = IF @ = 0 THEN net ELSE @] ELSE reg
  /\ tab' = [tab EXCEPT ![t] =
       LET p == [tab[t] EXCEPT !.watching = TRUE] IN
       IF p.controlled THEN onceInstalled(onceInstalled(p, reg, reg.waiting), reg, reg.installing) ELSE p]
  /\ UNCHANGED <<updateScene, net>>

\* A worker that installs while another is active.
updatefound(p, worker) == IF p.watching /\ reg.active # 0 THEN onceInstalled(p, reg, worker) ELSE p

\* A tab's check, or the browser's own, finds another /sw.js.
check ==
  /\ reg.first # 0 /\ reg.installing = 0 /\ net # Newest
  /\ reg' = [reg EXCEPT !.installing = net]
  /\ tab' = [t \in Tab |-> updatefound(tab[t], net)]
  /\ UNCHANGED <<updateScene, net>>

\* VitePWA without skipWaiting: a worker that installed waits, but the first.
AfterInstall ==
  IF reg.active = 0 THEN [reg EXCEPT !.installing = 0, !.active = reg.installing]
  ELSE [reg EXCEPT !.installing = 0, !.waiting = reg.installing]

\* The install ends: the tabs that hear of it say so, and those that await the
\* worker it replaced reload.
Installed ==
  /\ reg.installing # 0 /\ reg' = AfterInstall
  /\ tab' = [t \in Tab |->
       LET p == tab[t] IN
       IF p.awaits # 0 THEN Loads(p, reg, "notice")
       ELSE IF reg.installing \in p.hears THEN apply([p EXCEPT !.hears = @ \ {reg.installing}], "worker-waiting")
       ELSE p]
  /\ UNCHANGED <<updateScene, net>>

InstallFails ==
  /\ "installFails" \in updateScene /\ reg.installing # 0
  /\ reg' = [reg EXCEPT !.installing = 0]
  /\ tab' = [t \in Tab |-> [tab[t] EXCEPT !.hears = @ \ {reg.installing}]]
  /\ UNCHANGED <<updateScene, net>>

\* The waiting worker takes over: what a tab that it reloads, or controls,
\* becomes.
TakenOver(p, r) ==
  IF p.awaits # 0 THEN Loads(p, r, "notice")
  ELSE IF p.controlled THEN apply(p, "controller-changed")
  ELSE p

\* With no tab of the old build, the browser activates it.
Activate ==
  /\ reg.waiting # 0 /\ \A t \in Tab : ~tab[t].controlled
  /\ reg' = [reg EXCEPT !.active = reg.waiting, !.waiting = 0]
  /\ tab' = [t \in Tab |-> TakenOver(tab[t], reg')]
  /\ UNCHANGED <<updateScene, net>>

\* SKIP_WAITING reaches it.
SkipWaiting ==
  /\ reg.waiting # 0 /\ \E t \in Tab : tab[t].awaits = reg.waiting
  /\ reg' = [reg EXCEPT !.active = reg.waiting, !.waiting = 0]
  /\ tab' = [t \in Tab |-> TakenOver(tab[t], reg')]
  /\ UNCHANGED <<updateScene, net>>

\* reload(): the waiting worker's change reloads the page.  With none it
\* reloads at once.
AfterPress(p) ==
  IF reg.waiting = 0 THEN Loads(p, reg, "notice")
  ELSE [apply(p, "reload") EXCEPT !.awaits = reg.waiting]

reload(t) ==
  /\ tab[t].phase = "ready" /\ tab' = [tab EXCEPT ![t] = AfterPress(@)]
  /\ UNCHANGED <<updateScene, net, reg>>

\* UpdateNotice's other button.
dismiss(t) ==
  /\ tab[t].phase = "ready" /\ tab' = [tab EXCEPT ![t] = apply(@, "dismiss")]
  /\ UNCHANGED <<updateScene, net, reg>>

UpdateNext ==
  \/ Deploy \/ check \/ Installed \/ InstallFails \/ Activate \/ SkipWaiting
  \/ \E t \in Tab : Visit(t) \/ LeavesApp(t) \/ watch(t) \/ reload(t) \/ dismiss(t)

UpdateSpec == UpdateInit /\ [][UpdateNext]_updateVars
-----------------------------------------------------------------------------
(* Properties.                                                             *)

\* Workers are in the order of their builds, and a tab that isn't open hears,
\* shows and awaits nothing.
UpdateTypeOK ==
  /\ net \in 1..MaxBuild
  /\ reg.waiting # 0 => reg.active \in 1..(reg.waiting - 1)
  /\ reg.installing # 0 => Largest(reg.active, reg.waiting) < reg.installing
  /\ Newest <= net
  /\ \A t \in Tab :
       /\ tab[t].build \in 0..net /\ tab[t].visits \in Nat /\ tab[t].hears \subseteq {reg.installing} \ {0}
       /\ tab[t].phase \in {"none", "ready", "dismissed", "reloading"}
       /\ tab[t].phase = "reloading" <=> tab[t].awaits # 0
       /\ ~tab[t].open => tab[t] = [NoPage EXCEPT !.visits = tab[t].visits]

Stale(t) == tab[t].controlled /\ tab[t].build # reg.active

\* A tab whose build isn't the active one any more, so that its files are gone
\* and its next route fails, shows the notice, dismissed before or not, until
\* it's dismissed from then on (#153).
StaleTabIsTold ==
  [][\A t \in Tab :
       Stale(t)' => \/ tab'[t].phase \in {"ready", "reloading"}
                    \/ tab'[t].phase = "dismissed" /\ Stale(t)]_updateVars

\* A notice tells of a build that is there: newer than a controlled tab's, and
\* in any tab never the first, which is the page's own.
NoticeIsTrue ==
  \A t \in Tab :
    tab[t].phase = "ready" =>
      Largest(reg.waiting, reg.active) > IF tab[t].controlled THEN tab[t].build ELSE reg.first

\* A tab that says "Reloading..." awaits a worker that still waits, so it
\* reloads.
ReloadingWaits == \A t \in Tab : tab[t].awaits # 0 => tab[t].awaits = reg.waiting

\* A notice's Reload doesn't bring a controlled tab back on its old build, nor
\* any tab on an older one, unless a yet newer worker took the awaited one's
\* place in the same step.
ReloadIsNew ==
  [][\A t \in Tab :
       tab'[t].visits # tab[t].visits /\ tab'[t].by = "notice" =>
         \/ tab'[t].build > tab[t].build
         \/ ~tab[t].controlled /\ tab'[t].build = tab[t].build
         \/ reg'.waiting > reg.waiting]_updateVars

\* A worker takes over from the build of a tab only by a press in one, so a tab
\* keeps the files it was loaded with until someone chooses (vite.config.ts).
TakesOverByAPress ==
  [][reg'.active # reg.active /\ (\E t \in Tab : tab[t].controlled) =>
       \E t \in Tab : tab[t].phase = "reloading"]_updateVars

\* serviceWorker.ts: "A worker that installs while another is active is a newer
\* build, in any tab."
InstallsAreNewer ==
  \A t \in Tab : tab[t].phase = "ready" => Largest(reg.waiting, reg.active) > tab[t].build

\* A build goes only by a press, a tab whose build is gone is told, of a build
\* that is there, and a reload gets it.
UpdateSafe ==
  /\ [](UpdateTypeOK /\ NoticeIsTrue /\ ReloadingWaits)
  /\ StaleTabIsTold /\ ReloadIsNew /\ TakesOverByAPress
=============================================================================
