------------------------------ MODULE AppProofs -----------------------------
(***************************************************************************)
(* What holds of AppUpdate for any tabs, deploys and loads: a tab whose    *)
(* build is gone is told, of a build that is there, and a notice's Reload  *)
(* gets it (UpdateSafe).  The invariant keeps the registration's workers   *)
(* in the order of their builds, every controlled page no newer than the   *)
(* active worker, and a page that says nothing on the active build.        *)
(*                                                                         *)
(* And of AdminLists, for any accounts, players, keys, searches and page   *)
(* size: a list is of the view and search that the page names, whole or    *)
(* marked as more (ListsSafe).  Every page that the API read fits its      *)
(* query and is kept under it, so it doesn't matter when it arrives.       *)
(*                                                                         *)
(* And of the widgets, one after the other (WidgetsSafe): each has its     *)
(* invariant.  The date picker's rests on the calendar's arithmetic, that  *)
(* the months follow each other without a gap, for any years.              *)
(*                                                                         *)
(* And of the bytes and texts of a signed result, of whatever length: what *)
(* is written is what is read.  They are groups of digits, two bytes to    *)
(* three of base 45 and three to four of base 64.                          *)
(***************************************************************************)
EXTENDS AppUpdate, AdminLists, Widgets, WireCodes, FiniteSetTheorems, WellFoundedInduction, SequenceTheorems, TLAPS

\* What a tab's page is, open or not.
Pages ==
  [open : BOOLEAN, build : Nat, controlled : BOOLEAN, watching : BOOLEAN, hears : SUBSET Nat,
   phase : {"none", "ready", "dismissed", "reloading"}, awaits : Nat,
   by : {"nobody", "person", "shift", "notice"}, visits : Nat]

\* The registration's workers are in the order of their builds, none older than
\* the first, and one waits or installs as an update beside an active one only.
WorkersOK(r, n) ==
  /\ r \in [installing : 0..n, waiting : 0..n, active : 0..n, first : 0..n]
  /\ r.waiting # 0 => r.active # 0 /\ r.active < r.waiting
  /\ r.installing # 0 =>
       r.active < r.installing /\ r.waiting < r.installing /\ r.first <= r.installing
  /\ r.active # 0 => r.first <= r.active
  /\ r.first = 0 => r.active = 0 /\ r.installing = 0

\* What a notice tells of: a build newer than a controlled tab's, and no older than any tab's.
Told(p, r) ==
  LET newest == Largest(r.waiting, r.active) IN
  IF p.controlled THEN p.build < newest ELSE p.build <= newest /\ r.first < newest

\* A page, with the registration's workers and the newest build.
PageOK(p, r, n) ==
  /\ p \in Pages /\ p.build <= n
  /\ ~p.open => p = [NoPage EXCEPT !.visits = p.visits]
  /\ p.controlled => r.active # 0 /\ p.build <= r.active
  /\ p.hears \subseteq {r.installing} \ {0}
  /\ p.hears # {} => r.active # 0 /\ (~p.controlled => p.build <= r.installing)
  /\ p.phase = "reloading" <=> p.awaits # 0
  /\ p.awaits # 0 => p.awaits = r.waiting
  /\ p.phase # "none" => Told(p, r)
  /\ p.controlled /\ p.build # r.active => p.phase # "none"

\* The inductive invariant of AppUpdate.
UInv ==
  /\ net \in 1..MaxBuild /\ WorkersOK(reg, net)
  /\ tab \in [Tab -> Pages] /\ \A t \in Tab : PageOK(tab[t], reg, net)
-------------------------------------------------------------------------------
\* A page that loads shows the build of the active worker, or the newest.
LEMMA LoadsOK ==
  ASSUME NEW p \in Pages, NEW r, NEW r2, NEW by \in {"person", "shift", "notice"},
         net \in Nat, WorkersOK(r, net), r2.active = r.active
  PROVE  PageOK(Loads(p, r, by), r2, net)
<1> DEFINE q == Loads(p, r, by)
           controlled == r.active # 0 /\ by # "shift"
           build == IF controlled THEN r.active ELSE net
<1>1. r.active \in Nat /\ r.active <= net /\ p.visits \in Nat
  BY DEF WorkersOK, Pages
<1>2. q = [NoPage EXCEPT !.open = TRUE, !.build = build, !.controlled = controlled, !.by = by,
             !.visits = p.visits + 1]
  BY DEF Loads
<1>3. /\ controlled \in BOOLEAN /\ build \in Nat /\ build <= net
      /\ controlled => r2.active # 0 /\ build = r2.active
  BY <1>1
<1> HIDE DEF q, controlled, build
<1>4. q = [open |-> TRUE, build |-> build, controlled |-> controlled,
           watching |-> FALSE, hears |-> {}, phase |-> "none", awaits |-> 0, by |-> by,
           visits |-> p.visits + 1]
  BY <1>2 DEF NoPage
<1>5. /\ q.open = TRUE /\ q.build = build /\ q.controlled = controlled
      /\ q.hears = {} /\ q.phase = "none" /\ q.awaits = 0
  BY <1>4
<1>6. q \in Pages
  BY <1>1, <1>3, <1>4 DEF Pages
<1>7. q.build <= net /\ (q.controlled => r2.active # 0 /\ q.build = r2.active)
  BY <1>3, <1>5
<1>8. PageOK(q, r2, net)
  BY <1>3, <1>5, <1>6, <1>7 DEF PageOK
<1> QED BY <1>8 DEF q

\* A page that hears of nothing new while a worker starts its install.
LEMMA StillOK ==
  ASSUME NEW p, NEW r, NEW r2, NEW n \in Nat, NEW n2 \in Nat, n <= n2,
         PageOK(p, r, n), WorkersOK(r, n),
         r2.active = r.active, r2.waiting = r.waiting,
         r2.first = r.first \/ r.first = 0, r2.installing = r.installing \/ r.installing = 0
  PROVE  PageOK(p, r2, n2)
<1>1. /\ p \in Pages /\ p.build \in Nat /\ p.build <= n2
      /\ r.active \in Nat /\ r.waiting \in Nat /\ r.installing \in Nat /\ r.first \in Nat
  BY DEF PageOK, Pages, WorkersOK
<1>2. p.hears \subseteq {r2.installing} \ {0}
  BY DEF PageOK
<1>3. p.hears # {} => r2.active # 0 /\ (~p.controlled => p.build <= r2.installing)
  BY DEF PageOK
<1>4. p.phase # "none" => Told(p, r2)
  <2>1. r.first = 0 => Largest(r.waiting, r.active) = 0
    BY <1>1 DEF WorkersOK, Largest
  <2> QED BY <1>1, <2>1 DEF PageOK, Told, Largest
<1> QED BY <1>1, <1>2, <1>3, <1>4 DEF PageOK

\* A page hears of a worker.
LEMMA OnceInstalledOK ==
  ASSUME NEW p, NEW r, NEW n \in Nat, NEW worker, PageOK(p, r, n), WorkersOK(r, n), p.open,
         worker \in {r.waiting, r.installing}, worker # 0 => r.active # 0,
         ~p.controlled => worker = r.installing /\ p.build <= worker
  PROVE  /\ PageOK(onceInstalled(p, r, worker), r, n)
         /\ onceInstalled(p, r, worker).open
         /\ onceInstalled(p, r, worker).controlled = p.controlled
         /\ onceInstalled(p, r, worker).build = p.build
<1>1. /\ p \in Pages /\ p.build \in Nat /\ p.phase \in {"none", "ready", "dismissed", "reloading"}
      /\ r.active \in Nat /\ r.waiting \in Nat /\ r.installing \in Nat /\ r.first \in Nat
  BY DEF PageOK, Pages, WorkersOK
<1>2. CASE worker = 0
  BY <1>2 DEF onceInstalled
<1>3. CASE worker # 0 /\ worker = r.waiting
  <2> DEFINE q == apply(p, "worker-waiting")
  <2>1. onceInstalled(p, r, worker) = q
    BY <1>3 DEF onceInstalled
  <2>2. /\ q = [p EXCEPT !.phase = q.phase]
        /\ q.phase = IF p.phase = "none" THEN "ready" ELSE p.phase
    BY <1>1 DEF apply, transition, Pages
  <2> HIDE DEF q
  <2>3. /\ q \in Pages /\ q.open = p.open /\ q.build = p.build /\ q.controlled = p.controlled
        /\ q.hears = p.hears /\ q.awaits = p.awaits
    BY <1>1, <2>2 DEF Pages
  <2>4. p.controlled /\ p.build <= r.active /\ r.active < r.waiting
    BY <1>1, <1>3 DEF PageOK, WorkersOK
  <2>5. Told(q, r)
    BY <1>1, <2>3, <2>4 DEF Told, Largest
  <2>6. q.phase = "reloading" <=> q.awaits # 0
    BY <2>2, <2>3 DEF PageOK
  <2> QED BY <2>1, <2>2, <2>3, <2>5, <2>6 DEF PageOK
<1>4. CASE worker # 0 /\ worker # r.waiting
  <2> DEFINE q == [p EXCEPT !.hears = @ \cup {worker}]
  <2>1. onceInstalled(p, r, worker) = q
    BY <1>4 DEF onceInstalled
  <2>2. /\ q \in Pages /\ q.open = p.open /\ q.build = p.build /\ q.controlled = p.controlled
        /\ q.hears = p.hears \cup {worker} /\ q.awaits = p.awaits /\ q.phase = p.phase
    BY <1>1, <1>4 DEF Pages
  <2> HIDE DEF q
  <2>3. q.hears \subseteq {r.installing} \ {0}
    BY <1>4, <2>2 DEF PageOK
  <2>4. Told(p, r) => Told(q, r)
    BY <2>2 DEF Told
  <2> QED BY <1>4, <2>1, <2>2, <2>3, <2>4 DEF PageOK
<1> QED BY <1>2, <1>3, <1>4

\* A browser that never opened the app satisfies the invariant.
LEMMA UInit == UpdateInit => UInv
<1> SUFFICES ASSUME UpdateInit PROVE UInv
  OBVIOUS
<1>1. WorkersOK(reg, net) /\ net \in 1..MaxBuild
  BY UpdateAssumption DEF UpdateInit, WorkersOK
<1>2. NoPage \in Pages
  BY DEF NoPage, Pages
<1>3. PageOK(NoPage, reg, net)
  BY <1>1, <1>2 DEF PageOK, NoPage, WorkersOK
<1> QED BY <1>1, <1>2, <1>3 DEF UpdateInit, UInv

\* The tab's page changes alone.
LEMMA OnePageStep ==
  ASSUME UInv, NEW t \in Tab, NEW q, tab' = [tab EXCEPT ![t] = q], UNCHANGED <<net, reg>>,
         PageOK(q, reg, net)
  PROVE  UInv'
<1>1. q \in Pages
  BY DEF PageOK
<1> QED BY <1>1 DEF UInv

\* A deploy makes no worker: the pages go on as they were.
LEMMA DeployKeeps == UInv /\ Deploy => UInv'
<1> SUFFICES ASSUME UInv, Deploy PROVE UInv'
  OBVIOUS
<1>0. net \in Nat /\ net' \in Nat /\ net <= net' /\ net' \in 1..MaxBuild
  BY UpdateAssumption DEF UInv, Deploy
<1>1. WorkersOK(reg, net')
  BY <1>0 DEF UInv, WorkersOK
<1>2. \A t \in Tab : PageOK(tab[t], reg, net')
  BY <1>0, StillOK DEF UInv
<1> QED BY <1>0, <1>1, <1>2 DEF UInv, Deploy

\* A page that loads shows a build that isn't newer than its worker's.
LEMMA VisitKeeps == ASSUME UInv, NEW t \in Tab, Visit(t) PROVE UInv'
<1>1. PICK by \in {"person", "shift"} : tab' = [tab EXCEPT ![t] = Loads(@, reg, by)]
  BY DEF Visit
<1>2. tab[t] \in Pages /\ net \in Nat /\ WorkersOK(reg, net)
  BY DEF UInv
<1>3. PageOK(Loads(tab[t], reg, by), reg, net)
  BY <1>2, LoadsOK
<1> QED BY <1>1, <1>3, OnePageStep DEF Visit, UInv

\* A tab that closes hears, shows and awaits nothing.
LEMMA LeavesKeeps == ASSUME UInv, NEW t \in Tab, LeavesApp(t) PROVE UInv'
<1> DEFINE q == [NoPage EXCEPT !.visits = tab[t].visits]
<1>1. tab[t] \in Pages /\ net \in Nat
  BY DEF UInv
<1>2. /\ q \in Pages /\ q = [NoPage EXCEPT !.visits = q.visits] /\ ~q.controlled
      /\ q.hears = {} /\ q.phase = "none" /\ q.awaits = 0 /\ q.build = 0
  BY <1>1 DEF Pages, NoPage
<1>3. PageOK(q, reg, net)
  <2> HIDE DEF q
  <2> QED BY <1>1, <1>2 DEF PageOK
<1> QED BY <1>3, OnePageStep DEF LeavesApp

\* register() starts the first install, or hears of the workers there are.
LEMMA watchKeeps == ASSUME UInv, NEW t \in Tab, watch(t) PROVE UInv'
<1> DEFINE p == [tab[t] EXCEPT !.watching = TRUE]
           q == IF p.controlled THEN onceInstalled(onceInstalled(p, reg, reg.waiting), reg, reg.installing)
                ELSE p
<1>0. /\ tab[t] \in Pages /\ net \in Nat /\ net # 0
      /\ WorkersOK(reg, net) /\ PageOK(tab[t], reg, net)
      /\ tab[t].open /\ net' = net /\ tab' = [tab EXCEPT ![t] = q]
      /\ reg' = IF Newest = 0
                THEN [reg EXCEPT !.installing = net, !.first = IF @ = 0 THEN net ELSE @]
                ELSE reg
  BY DEF UInv, watch
<1>1. /\ p \in Pages /\ p.open /\ p.build = tab[t].build /\ p.controlled = tab[t].controlled
      /\ p.hears = tab[t].hears /\ p.phase = tab[t].phase /\ p.awaits = tab[t].awaits
  BY <1>0 DEF Pages
<1>2. PageOK(p, reg, net)
  <2> HIDE DEF p
  <2> QED BY <1>0, <1>1 DEF PageOK, Told
<1> HIDE DEF p
<1>3. PageOK(q, reg, net)
  <2>1. CASE p.controlled
    <3>1. reg.active # 0
      BY <1>2, <2>1 DEF PageOK
    <3> DEFINE o == onceInstalled(p, reg, reg.waiting)
    <3>2. PageOK(o, reg, net) /\ o.open /\ o.controlled
      BY <1>0, <1>1, <1>2, <2>1, <3>1, OnceInstalledOK
    <3> HIDE DEF o
    <3>3. PageOK(onceInstalled(o, reg, reg.installing), reg, net)
      BY <1>0, <3>1, <3>2, OnceInstalledOK
    <3> QED BY <2>1, <3>3 DEF o
  <2> QED BY <1>2, <2>1
<1> HIDE DEF q
<1>4. WorkersOK(reg', net) /\ reg'.active = reg.active /\ reg'.waiting = reg.waiting
      /\ (reg'.first = reg.first \/ reg.first = 0)
      /\ (reg'.installing = reg.installing \/ reg.installing = 0)
  <2>1. CASE Newest = 0
    <3>1. reg.active = 0 /\ reg.waiting = 0 /\ reg.installing = 0
      BY <1>0, <2>1 DEF Newest, Largest, WorkersOK
    <3>2. /\ reg' \in [installing : 0..net, waiting : 0..net, active : 0..net, first : 0..net]
          /\ reg'.installing = net /\ reg'.first = (IF reg.first = 0 THEN net ELSE reg.first)
          /\ reg'.active = reg.active /\ reg'.waiting = reg.waiting
      <4>1. reg \in [installing : 0..net, waiting : 0..net, active : 0..net, first : 0..net]
        BY <1>0 DEF WorkersOK
      <4>2. reg' = [reg EXCEPT !.installing = net, !.first = IF reg.first = 0 THEN net ELSE reg.first]
        BY <1>0, <2>1, <4>1
      <4>3. net \in 0..net /\ reg.first \in 0..net
        BY <1>0, <4>1
      <4> QED BY <4>1, <4>2, <4>3
    <3>3. reg.first \in 0..net
      BY <1>0 DEF WorkersOK
    <3> QED BY <1>0, <3>1, <3>2, <3>3 DEF WorkersOK
  <2>2. CASE Newest # 0
    BY <1>0, <2>2
  <2> QED BY <2>1, <2>2
<1>5. \A u \in Tab : PageOK(tab'[u], reg', net')
  <2>1. \A u \in Tab : PageOK(tab'[u], reg, net)
    BY <1>0, <1>3 DEF UInv
  <2> SUFFICES ASSUME NEW u \in Tab PROVE PageOK(tab'[u], reg', net)
    BY <1>0
  <2>2. PageOK(tab'[u], reg, net) /\ net <= net
    BY <1>0, <2>1
  <2>3. reg'.active = reg.active /\ reg'.waiting = reg.waiting
    BY <1>4
  <2>4. net \in Nat /\ WorkersOK(reg, net) /\ net' = net
    BY <1>0
  <2>5. PageOK(tab'[u], reg', net)
    BY <1>4, <2>2, <2>3, <2>4, StillOK
  <2> QED BY <2>4, <2>5
<1>6. tab' \in [Tab -> Pages]
  BY <1>0, <1>3 DEF UInv, PageOK
<1> QED BY <1>0, <1>4, <1>5, <1>6 DEF UInv

\* The newest build's install starts, and the pages that watch hear of it.
LEMMA checkKeeps == UInv /\ check => UInv'
<1> SUFFICES ASSUME UInv, check PROVE UInv'
  OBVIOUS
<1>0. /\ net \in Nat /\ net # 0 /\ WorkersOK(reg, net) /\ net' = net
      /\ reg.first # 0 /\ reg.installing = 0 /\ net # Newest
      /\ reg' = [reg EXCEPT !.installing = net] /\ tab' = [t \in Tab |-> updatefound(tab[t], net)]
  BY DEF UInv, check
<1>1. /\ reg' \in [installing : 0..net, waiting : 0..net, active : 0..net, first : 0..net]
      /\ reg'.installing = net /\ reg'.first = reg.first
      /\ reg'.active = reg.active /\ reg'.waiting = reg.waiting
  BY <1>0 DEF WorkersOK
<1>2. reg.active < net /\ reg.waiting < net
  BY <1>0 DEF Newest, Largest, WorkersOK
<1>3. WorkersOK(reg', net)
  BY <1>0, <1>1, <1>2 DEF WorkersOK
<1>4. ASSUME NEW t \in Tab PROVE PageOK(updatefound(tab[t], net), reg', net)
  <2> DEFINE p == tab[t]
  <2>1. PageOK(p, reg, net)
    BY DEF UInv
  <2>2. PageOK(p, reg', net)
    BY <1>0, <1>1, <2>1, StillOK
  <2>3. CASE p.watching /\ reg.active # 0
    <3>1. p.open /\ p.build <= net
      BY <2>1, <2>3 DEF PageOK, NoPage
    <3>2. onceInstalled(p, reg, net) = onceInstalled(p, reg', net)
      BY <1>1 DEF onceInstalled
    <3>3. PageOK(onceInstalled(p, reg', net), reg', net)
      BY <1>0, <1>1, <1>3, <2>2, <2>3, <3>1, OnceInstalledOK
    <3> QED BY <2>3, <3>2, <3>3 DEF updatefound
  <2> QED BY <2>2, <2>3 DEF updatefound
<1>5. tab' \in [Tab -> Pages]
  BY <1>0, <1>4 DEF PageOK
<1> QED BY <1>0, <1>3, <1>4, <1>5 DEF UInv

\* An installed worker is newer than the build of any page that it tells.
LEMMA InstalledKeeps == UInv /\ Installed => UInv'
<1> SUFFICES ASSUME UInv, Installed PROVE UInv'
  OBVIOUS
<1> DEFINE after(p) ==
      IF p.awaits # 0 THEN Loads(p, reg, "notice")
      ELSE IF reg.installing \in p.hears
           THEN apply([p EXCEPT !.hears = @ \ {reg.installing}], "worker-waiting")
      ELSE p
<1>0. /\ net \in Nat /\ WorkersOK(reg, net) /\ net' = net /\ reg.installing # 0
      /\ reg' = AfterInstall /\ tab' = [t \in Tab |-> after(tab[t])]
  BY DEF UInv, Installed
<1>1. /\ reg.installing \in 1..net /\ reg.waiting \in 0..net
      /\ reg.active \in 0..net /\ reg.first \in 0..net
      /\ reg.active < reg.installing /\ reg.waiting < reg.installing /\ reg.first <= reg.installing
      /\ reg.first # 0
  BY <1>0 DEF WorkersOK
<1>2. /\ reg' \in [installing : 0..net, waiting : 0..net, active : 0..net, first : 0..net]
      /\ reg'.installing = 0 /\ reg'.first = reg.first
      /\ reg'.active = IF reg.active = 0 THEN reg.installing ELSE reg.active
      /\ reg'.waiting = IF reg.active = 0 THEN reg.waiting ELSE reg.installing
  <2>1. reg \in [installing : 0..net, waiting : 0..net, active : 0..net, first : 0..net]
    BY <1>0 DEF WorkersOK
  <2>2. CASE reg.active = 0
    <3>1. reg' = [reg EXCEPT !.installing = 0, !.active = reg.installing]
      BY <1>0, <2>2 DEF AfterInstall
    <3> QED BY <1>1, <2>1, <2>2, <3>1
  <2>3. CASE reg.active # 0
    <3>1. reg' = [reg EXCEPT !.installing = 0, !.waiting = reg.installing]
      BY <1>0, <2>3 DEF AfterInstall
    <3>2. reg.installing \in 0..net
      BY <1>1
    <3>3. 0 \in 0..net
      BY <1>0
    <3>4. reg' \in [installing : 0..net, waiting : 0..net, active : 0..net, first : 0..net]
      BY <2>1, <3>1, <3>2, <3>3
    <3>5. /\ reg'.installing = 0 /\ reg'.first = reg.first
          /\ reg'.active = reg.active /\ reg'.waiting = reg.installing
      BY <2>1, <3>1
    <3> QED BY <2>3, <3>4, <3>5
  <2> QED BY <2>2, <2>3
<1>3. WorkersOK(reg', net)
  <2>1. reg.active = 0 => reg.waiting = 0
    BY <1>0 DEF WorkersOK
  <2>2. reg.active # 0 => reg.first <= reg.active
    BY <1>0 DEF WorkersOK
  <2> QED BY <1>1, <1>2, <2>1, <2>2 DEF WorkersOK
<1>4. ASSUME NEW t \in Tab PROVE PageOK(after(tab[t]), reg', net)
  <2> DEFINE p == tab[t]
  <2>0. PageOK(p, reg, net) /\ p \in Pages
    BY DEF UInv
  <2> HIDE DEF p
  <2>1. CASE reg.active = 0
    <3>1. reg.waiting = 0
      BY <1>0, <2>1 DEF WorkersOK
    <3>2. ~p.controlled /\ p.hears = {} /\ p.awaits = 0
      BY <2>0, <2>1, <3>1 DEF PageOK
    <3>3. p.phase = "none"
      BY <1>1, <2>0, <2>1, <3>1, <3>2 DEF PageOK, Told, Largest
    <3>4. after(p) = p
      BY <3>2
    <3>5. PageOK(p, reg', net)
      BY <1>2, <2>0, <3>2, <3>3 DEF PageOK
    <3> QED BY <3>4, <3>5 DEF p
  <2>2. CASE reg.active # 0 /\ p.awaits # 0
    <3>1. PageOK(Loads(p, reg, "notice"), reg', net)
      BY <1>0, <1>2, <2>0, <2>2, LoadsOK
    <3> QED BY <2>2, <3>1 DEF p
  <2>3. CASE reg.active # 0 /\ p.awaits = 0
    <3> DEFINE heard == reg.installing \in p.hears
               q == after(p)
    <3>1. heard => q = [p EXCEPT !.hears = {},
                                 !.phase = IF p.phase = "none" THEN "ready" ELSE p.phase]
      <4> SUFFICES ASSUME heard
                   PROVE  q = [p EXCEPT !.hears = {},
                                 !.phase = IF p.phase = "none" THEN "ready" ELSE p.phase]
        OBVIOUS
      <4>1. p.hears \ {reg.installing} = {}
        BY <2>0 DEF PageOK
      <4>2. q = apply([p EXCEPT !.hears = {}], "worker-waiting")
        BY <2>3, <4>1
      <4> QED BY <2>0, <4>2 DEF apply, transition, Pages
    <3>2. ~heard => q = p /\ p.hears = {}
      <4> SUFFICES ASSUME ~heard PROVE q = p /\ p.hears = {}
        OBVIOUS
      <4>1. q = p
        BY <2>3
      <4> QED BY <4>1, <2>0 DEF PageOK
    <3>3. /\ q \in Pages /\ q.open = p.open /\ q.build = p.build /\ q.controlled = p.controlled
          /\ q.hears = {} /\ q.awaits = p.awaits
          /\ q.phase = IF heard /\ p.phase = "none" THEN "ready" ELSE p.phase
          /\ heard \/ q = p
      BY <2>0, <3>1, <3>2 DEF Pages
    <3>4. heard => p.open /\ (~p.controlled => p.build <= reg.installing)
      <4>1. p.hears # {} => p.open
        BY <2>0 DEF PageOK, NoPage
      <4> QED BY <2>0, <4>1 DEF PageOK
    <3> HIDE DEF q
    <3>5. Told(q, reg') \/ q.phase = "none"
      <4>1. Largest(reg'.waiting, reg'.active) = reg.installing
        BY <1>1, <1>2, <2>3 DEF Largest
      <4>2. Largest(reg.waiting, reg.active) < reg.installing /\ reg.first < reg.installing
        BY <1>0, <1>1, <2>3 DEF Largest, WorkersOK
      <4>3. Largest(reg.waiting, reg.active) \in Nat /\ p.build \in Nat
        BY <1>1, <2>0 DEF Largest, Pages
      <4>4. CASE heard /\ p.phase = "none"
        <5>1. p.controlled => p.build < reg.installing
          BY <1>1, <2>0, <4>3 DEF PageOK
        <5> QED BY <1>1, <1>2, <3>3, <3>4, <4>1, <4>2, <4>3, <4>4, <5>1 DEF Told
      <4>5. CASE p.phase # "none"
        <5>1. Told(p, reg)
          BY <2>0, <4>5 DEF PageOK
        <5> QED BY <1>1, <1>2, <3>3, <4>1, <4>2, <4>3, <5>1 DEF Told
      <4>6. CASE ~heard /\ p.phase = "none"
        BY <3>3, <4>6
      <4> QED BY <4>4, <4>5, <4>6
    <3>6. PageOK(q, reg', net)
      BY <1>2, <2>0, <2>3, <3>3, <3>4, <3>5 DEF PageOK
    <3> QED BY <3>6 DEF p, q
  <2> QED BY <2>1, <2>2, <2>3
<1> HIDE DEF after
<1>5. tab' \in [Tab -> Pages]
  BY <1>0, <1>4 DEF PageOK
<1> QED BY <1>0, <1>3, <1>4, <1>5 DEF UInv
\* A failed install is forgotten by the pages that heard of it.
LEMMA InstallFailsKeeps == UInv /\ InstallFails => UInv'
<1> SUFFICES ASSUME UInv, InstallFails PROVE UInv'
  OBVIOUS
<1>1. /\ net \in Nat /\ WorkersOK(reg, net) /\ net' = net /\ reg' = [reg EXCEPT !.installing = 0]
      /\ tab' = [t \in Tab |-> [tab[t] EXCEPT !.hears = @ \ {reg.installing}]]
  BY DEF UInv, InstallFails
<1>2. /\ reg' \in [installing : 0..net, waiting : 0..net, active : 0..net, first : 0..net]
      /\ reg'.installing = 0 /\ reg'.first = reg.first
      /\ reg'.active = reg.active /\ reg'.waiting = reg.waiting
  <2>1. /\ reg \in [installing : 0..net, waiting : 0..net, active : 0..net, first : 0..net]
        /\ 0 \in 0..net
    BY <1>1 DEF WorkersOK
  <2> QED BY <1>1, <2>1
<1>3. WorkersOK(reg', net)
  BY <1>1, <1>2 DEF WorkersOK
<1>4. ASSUME NEW t \in Tab PROVE PageOK([tab[t] EXCEPT !.hears = @ \ {reg.installing}], reg', net)
  <2> DEFINE p == tab[t]
             q == [p EXCEPT !.hears = {}]
  <2>1. PageOK(p, reg, net) /\ p \in Pages
    BY DEF UInv
  <2>2. [p EXCEPT !.hears = @ \ {reg.installing}] = q
    <3>1. p.hears \ {reg.installing} = {}
      BY <2>1 DEF PageOK
    <3> QED BY <3>1
  <2> HIDE DEF p
  <2>3. /\ q \in Pages /\ q.open = p.open /\ q.build = p.build /\ q.controlled = p.controlled
        /\ q.hears = {} /\ q.awaits = p.awaits /\ q.phase = p.phase
    BY <2>1 DEF Pages
  <2>4. ~p.open => q = p
    <3>1. ~p.open => p.hears = {}
      BY <2>1 DEF PageOK, NoPage
    <3> QED BY <2>1, <3>1 DEF Pages
  <2> HIDE DEF q
  <2>5. Told(p, reg) => Told(q, reg')
    BY <1>2, <2>3 DEF Told
  <2>6. PageOK(q, reg', net)
    BY <1>2, <2>1, <2>3, <2>4, <2>5 DEF PageOK
  <2> QED BY <2>2, <2>6 DEF p
<1>5. tab' \in [Tab -> Pages]
  BY <1>1, <1>4 DEF PageOK
<1> QED BY <1>1, <1>3, <1>4, <1>5 DEF UInv

\* The waiting worker takes over.
LEMMA TakeOverKeeps ==
  ASSUME UInv, reg.waiting # 0, reg' = [reg EXCEPT !.active = reg.waiting, !.waiting = 0],
         tab' = [t \in Tab |-> TakenOver(tab[t], reg')], net' = net
  PROVE  UInv'
<1>1. net \in Nat /\ WorkersOK(reg, net)
  BY DEF UInv
<1>2. /\ reg' \in [installing : 0..net, waiting : 0..net, active : 0..net, first : 0..net]
      /\ reg'.installing = reg.installing /\ reg'.first = reg.first
      /\ reg'.active = reg.waiting /\ reg'.waiting = 0
  <2>1. /\ reg \in [installing : 0..net, waiting : 0..net, active : 0..net, first : 0..net]
        /\ 0 \in 0..net
    BY <1>1 DEF WorkersOK
  <2> QED BY <2>1
<1>3. /\ reg.waiting \in 1..net /\ reg.active \in 1..net /\ reg.active < reg.waiting
      /\ reg.first \in 0..net /\ reg.first <= reg.active
  BY <1>1 DEF WorkersOK
<1>4. WorkersOK(reg', net)
  BY <1>1, <1>2, <1>3 DEF WorkersOK
<1>5. ASSUME NEW t \in Tab PROVE PageOK(TakenOver(tab[t], reg'), reg', net)
  <2> DEFINE p == tab[t]
  <2>1. PageOK(p, reg, net) /\ p \in Pages
    BY DEF UInv
  <2> HIDE DEF p
  <2>2. CASE p.awaits # 0
    <3>1. PageOK(Loads(p, reg', "notice"), reg', net)
      BY <1>1, <1>4, <2>1, LoadsOK
    <3> QED BY <2>2, <3>1 DEF TakenOver, p
  <2>3. CASE p.awaits = 0 /\ p.controlled
    <3> DEFINE q == apply(p, "controller-changed")
    <3>1. p.phase # "reloading" /\ p.open
      BY <2>1, <2>3 DEF PageOK, NoPage
    <3>2. q = [p EXCEPT !.phase = "ready"]
      BY <2>1, <3>1 DEF apply, transition, Pages
    <3>3. /\ q \in Pages /\ q.open = p.open /\ q.build = p.build /\ q.controlled = p.controlled
          /\ q.hears = p.hears /\ q.awaits = p.awaits /\ q.phase = "ready"
      BY <2>1, <3>2 DEF Pages
    <3> HIDE DEF q
    <3>4. p.build \in Nat /\ p.build <= reg.active
      BY <2>1, <2>3 DEF PageOK, Pages
    <3>5. Told(q, reg') /\ p.build <= reg.waiting
      BY <1>2, <1>3, <2>3, <3>3, <3>4 DEF Told, Largest
    <3>6. PageOK(q, reg', net)
      BY <1>2, <1>3, <2>1, <2>3, <3>1, <3>3, <3>4, <3>5 DEF PageOK
    <3> QED BY <2>3, <3>6 DEF TakenOver, p, q
  <2>4. CASE p.awaits = 0 /\ ~p.controlled
    <3>1. Told(p, reg) => Told(p, reg')
      <4>1. /\ Largest(reg.waiting, reg.active) = reg.waiting
            /\ Largest(reg'.waiting, reg'.active) = reg.waiting
        BY <1>2, <1>3 DEF Largest
      <4> QED BY <1>2, <4>1, <2>4 DEF Told
    <3>2. PageOK(p, reg', net)
      BY <1>2, <1>3, <2>1, <2>4, <3>1 DEF PageOK
    <3> QED BY <2>4, <3>2 DEF TakenOver, p
  <2> QED BY <2>2, <2>3, <2>4
<1>6. tab' \in [Tab -> Pages]
  BY <1>5 DEF PageOK
<1> QED BY <1>4, <1>5, <1>6 DEF UInv

\* A press of Reload loads the active build, or awaits the waiting one.
LEMMA reloadKeeps == ASSUME UInv, NEW t \in Tab, reload(t) PROVE UInv'
<1> DEFINE p == tab[t]
<1>1. /\ PageOK(p, reg, net) /\ p \in Pages /\ net \in Nat /\ WorkersOK(reg, net)
      /\ p.phase = "ready" /\ tab' = [tab EXCEPT ![t] = AfterPress(p)]
  BY DEF UInv, reload
<1> HIDE DEF p
<1>2. CASE reg.waiting = 0
  <2>1. PageOK(Loads(p, reg, "notice"), reg, net)
    BY <1>1, LoadsOK
  <2>2. AfterPress(p) = Loads(p, reg, "notice")
    BY <1>2 DEF AfterPress
  <2> QED BY <1>1, <2>1, <2>2, OnePageStep DEF reload
<1>3. CASE reg.waiting # 0
  <2> DEFINE q == AfterPress(p)
  <2>1. q = [p EXCEPT !.phase = "reloading", !.awaits = reg.waiting]
    BY <1>1, <1>3 DEF AfterPress, apply, transition, Pages
  <2>2. reg.waiting \in Nat
    BY <1>1 DEF WorkersOK
  <2>3. /\ q \in Pages /\ q.open = p.open /\ q.build = p.build /\ q.controlled = p.controlled
        /\ q.hears = p.hears /\ q.awaits = reg.waiting /\ q.phase = "reloading"
    BY <1>1, <2>1, <2>2 DEF Pages
  <2>4. p.open
    BY <1>1 DEF PageOK, NoPage
  <2> HIDE DEF q
  <2>5. Told(q, reg)
    BY <1>1, <2>3 DEF PageOK, Told
  <2>6. PageOK(q, reg, net)
    BY <1>1, <1>3, <2>3, <2>4, <2>5 DEF PageOK
  <2> QED BY <1>1, <2>6, OnePageStep DEF reload, q
<1> QED BY <1>2, <1>3

\* A dismissed notice stays one that was shown.
LEMMA dismissKeeps == ASSUME UInv, NEW t \in Tab, dismiss(t) PROVE UInv'
<1> DEFINE p == tab[t]
           q == apply(p, "dismiss")
<1>1. /\ PageOK(p, reg, net) /\ p \in Pages /\ p.phase = "ready" /\ tab' = [tab EXCEPT ![t] = q]
  BY DEF UInv, dismiss
<1> HIDE DEF p
<1>2. q = [p EXCEPT !.phase = "dismissed"]
  BY <1>1 DEF apply, transition
<1>3. /\ q \in Pages /\ q.open = p.open /\ q.build = p.build /\ q.controlled = p.controlled
      /\ q.hears = p.hears /\ q.awaits = p.awaits /\ q.phase = "dismissed"
  BY <1>1, <1>2 DEF Pages
<1>4. p.open
  BY <1>1 DEF PageOK, NoPage
<1> HIDE DEF q
<1>5. Told(q, reg)
  BY <1>1, <1>3 DEF PageOK, Told
<1>6. PageOK(q, reg, net)
  BY <1>1, <1>3, <1>4, <1>5 DEF PageOK
<1> QED BY <1>1, <1>6, OnePageStep DEF dismiss

\* Every step keeps the invariant.
LEMMA UpdateNextInv == UInv /\ [UpdateNext]_updateVars => UInv'
<1> SUFFICES ASSUME UInv, [UpdateNext]_updateVars PROVE UInv'
  OBVIOUS
<1>1. CASE Deploy \/ check \/ Installed \/ InstallFails
  BY <1>1, DeployKeeps, checkKeeps, InstalledKeeps, InstallFailsKeeps
<1>2. CASE Activate \/ SkipWaiting
  BY <1>2, TakeOverKeeps DEF Activate, SkipWaiting
<1>3. CASE \E t \in Tab : Visit(t) \/ LeavesApp(t) \/ watch(t) \/ reload(t) \/ dismiss(t)
  BY <1>3, VisitKeeps, LeavesKeeps, watchKeeps, reloadKeeps, dismissKeeps
<1>4. CASE UNCHANGED updateVars
  BY <1>4 DEF updateVars, UInv
<1> QED BY <1>1, <1>2, <1>3, <1>4 DEF UpdateNext

\* For any tabs, deploys, visits and happenings the registration's workers are in
\* the order of their builds, and a tab knows those that it has to.
THEOREM UpdateIInv == UpdateSpec => []UInv
<1> QED BY UInit, UpdateNextInv, PTL DEF UpdateSpec

\* The state properties of UpdateSafe follow from the invariant.
LEMMA UInvSafe == UInv => UpdateTypeOK /\ NoticeIsTrue /\ ReloadingWaits
<1> SUFFICES ASSUME UInv PROVE UpdateTypeOK /\ NoticeIsTrue /\ ReloadingWaits
  OBVIOUS
<1>1. /\ WorkersOK(reg, net) /\ net \in 1..MaxBuild /\ net \in Nat
      /\ \A t \in Tab : PageOK(tab[t], reg, net) /\ tab[t] \in Pages
  BY DEF UInv
<1>2. /\ reg.installing \in 0..net /\ reg.waiting \in 0..net
      /\ reg.active \in 0..net /\ reg.first \in 0..net
  BY <1>1 DEF WorkersOK
<1>3. /\ reg.waiting # 0 => reg.active \in 1..(reg.waiting - 1)
      /\ reg.installing # 0 => Largest(reg.active, reg.waiting) < reg.installing
      /\ Newest <= net
  BY <1>1, <1>2 DEF WorkersOK, Largest, Newest
<1>4. UpdateTypeOK
  <2> SUFFICES ASSUME NEW t \in Tab
               PROVE  /\ tab[t].build \in 0..net /\ tab[t].visits \in Nat
                      /\ tab[t].hears \subseteq {reg.installing} \ {0}
                      /\ tab[t].phase \in {"none", "ready", "dismissed", "reloading"}
                      /\ tab[t].phase = "reloading" <=> tab[t].awaits # 0
                      /\ ~tab[t].open => tab[t] = [NoPage EXCEPT !.visits = tab[t].visits]
    BY <1>1, <1>3 DEF UpdateTypeOK
  <2>1. PageOK(tab[t], reg, net) /\ tab[t] \in Pages
    BY <1>1
  <2>2. tab[t].build \in 0..net
    BY <1>1, <2>1 DEF PageOK, Pages
  <2> QED BY <2>1, <2>2 DEF PageOK, Pages
<1>5. NoticeIsTrue
  BY <1>1 DEF NoticeIsTrue, PageOK, Told, Largest, Pages
<1>6. ReloadingWaits
  BY <1>1 DEF ReloadingWaits, PageOK
<1> QED BY <1>4, <1>5, <1>6
-------------------------------------------------------------------------------
\* The page is the load that it was.
SameLoad(p, q) == q.build = p.build /\ q.controlled = p.controlled /\ q.visits = p.visits

\* A page that hears of a worker is the same load, and tells of no less.
LEMMA TellsOfTheLoad ==
  ASSUME NEW p \in Pages, NEW r, NEW worker \in Nat, NEW event,
         transition(p.phase, event) \in {"none", "ready", "dismissed", "reloading"}
  PROVE  /\ SameLoad(p, apply(p, event))
         /\ SameLoad(p, onceInstalled(p, r, worker)) /\ onceInstalled(p, r, worker) \in Pages
<1>1. /\ SameLoad(p, apply(p, event)) /\ SameLoad(p, apply(p, "worker-waiting"))
  BY DEF apply, SameLoad, Pages
<1>2. transition(p.phase, "worker-waiting") \in {"none", "ready", "dismissed", "reloading"}
  BY DEF transition, Pages
<1>3. apply(p, "worker-waiting") \in Pages
  BY <1>2 DEF apply, Pages
<1>4. worker \in Nat => /\ SameLoad(p, [p EXCEPT !.hears = @ \cup {worker}])
                        /\ [p EXCEPT !.hears = @ \cup {worker}] \in Pages
  BY DEF SameLoad, Pages
<1>5. SameLoad(p, p)
  BY DEF SameLoad
<1> QED BY <1>1, <1>3, <1>4, <1>5 DEF onceInstalled

\* What a load brings.
LEMMA LoadsFacts ==
  ASSUME NEW p \in Pages, NEW r, NEW by \in {"person", "shift", "notice"}
  PROVE  /\ Loads(p, r, by).phase = "none" /\ Loads(p, r, by).by = by
         /\ r.active # 0 /\ by # "shift" => Loads(p, r, by).build = r.active
BY DEF Loads, NoPage

\* What a notice's Reload brings: a newer build, in a tab without a worker at least
\* the same one, or a newer worker took the awaited one's place.
BringsNew(p, q, r, r2) ==
  \/ q.build > p.build
  \/ ~p.controlled /\ q.build = p.build
  \/ r2.waiting > r.waiting

\* A step of a tab leaves its page's load, closes it or loads another one.
PageStep(p, q, r, r2) ==
  \/ SameLoad(p, q) /\ (q.phase = "dismissed" /\ p.controlled => r2.active = r.active)
  \/ q.phase = "none" /\ q.visits = p.visits
  \/ q.phase = "none" /\ (q.by = "notice" => BringsNew(p, q, r, r2))

\* Every step of the app is one of these for every tab.
LEMMA PageSteps ==
  ASSUME UInv, UpdateNext, NEW t \in Tab
  PROVE  PageStep(tab[t], tab'[t], reg, reg')
<1> DEFINE p == tab[t]
<1>0. /\ p \in Pages /\ PageOK(p, reg, net) /\ WorkersOK(reg, net) /\ net \in Nat /\ SameLoad(p, p)
      /\ DOMAIN tab = Tab
  BY DEF UInv, SameLoad
<1>1. /\ reg.installing \in Nat /\ reg.waiting \in Nat /\ reg.active \in Nat /\ reg.first \in Nat
      /\ p.build \in Nat
  BY <1>0 DEF WorkersOK, Pages
<1>2. CASE Deploy
  BY <1>0, <1>2 DEF Deploy, PageStep
<1>3. ASSUME NEW u \in Tab, Visit(u) PROVE PageStep(p, tab'[t], reg, reg')
  <2>1. PICK by \in {"person", "shift"} : tab' = [tab EXCEPT ![u] = Loads(@, reg, by)]
    BY <1>3 DEF Visit
  <2>2. CASE u = t
    <3>1. tab'[t] = Loads(p, reg, by)
      BY <1>0, <2>1, <2>2
    <3>2. Loads(p, reg, by).phase = "none" /\ Loads(p, reg, by).by = by
      <4>1. by \in {"person", "shift", "notice"}
        OBVIOUS
      <4> QED BY <1>0, <4>1, LoadsFacts
    <3>3. by # "notice"
      OBVIOUS
    <3> QED BY <3>1, <3>2, <3>3 DEF PageStep
  <2>3. CASE u # t
    <3>1. tab'[t] = p /\ reg' = reg
      BY <1>3, <2>1, <2>3 DEF Visit
    <3> QED BY <1>0, <3>1 DEF PageStep
  <2> QED BY <2>2, <2>3
<1>4. ASSUME NEW u \in Tab, LeavesApp(u) PROVE PageStep(p, tab'[t], reg, reg')
  <2>1. CASE u = t
    <3>1. tab'[t] = [NoPage EXCEPT !.visits = p.visits]
      BY <1>0, <1>4, <2>1 DEF LeavesApp
    <3> QED BY <3>1 DEF PageStep, NoPage
  <2>2. CASE u # t
    <3>1. tab'[t] = p /\ reg' = reg
      BY <1>4, <2>2 DEF LeavesApp
    <3> QED BY <1>0, <3>1 DEF PageStep
  <2> QED BY <2>1, <2>2
<1>5. ASSUME NEW u \in Tab, watch(u) PROVE PageStep(p, tab'[t], reg, reg')
  <2>1. reg'.active = reg.active
    <3>1. reg \in [installing : 0..net, waiting : 0..net, active : 0..net, first : 0..net]
      BY <1>0 DEF WorkersOK
    <3> QED BY <1>5, <3>1 DEF watch
  <2>2. CASE u = t
    <3> DEFINE w == [p EXCEPT !.watching = TRUE]
               o == onceInstalled(w, reg, reg.waiting)
               q == onceInstalled(o, reg, reg.installing)
    <3>1. w \in Pages /\ SameLoad(p, w)
      BY <1>0 DEF Pages, SameLoad
    <3>2. tab'[t] = IF w.controlled THEN q ELSE w
      BY <1>0, <1>5, <2>2 DEF watch
    <3> HIDE DEF w
    <3>3. \A x \in Pages : transition(x.phase, "dismiss") \in {"none", "ready", "dismissed", "reloading"}
      BY DEF transition, Pages
    <3>4. SameLoad(w, o) /\ o \in Pages
      BY <1>1, <3>1, <3>3, TellsOfTheLoad
    <3> HIDE DEF o
    <3>5. SameLoad(o, q)
      BY <1>1, <3>3, <3>4, TellsOfTheLoad
    <3> HIDE DEF q
    <3> QED BY <2>1, <3>1, <3>2, <3>4, <3>5 DEF PageStep, SameLoad
  <2>3. CASE u # t
    <3>1. tab'[t] = p
      BY <1>5, <2>3 DEF watch
    <3> QED BY <1>0, <2>1, <3>1 DEF PageStep
  <2> QED BY <2>2, <2>3
<1>6. CASE check
  <2>1. reg'.active = reg.active /\ tab'[t] = updatefound(p, net)
    <3>1. reg \in [installing : 0..net, waiting : 0..net, active : 0..net, first : 0..net]
      BY <1>0 DEF WorkersOK
    <3> QED BY <1>6, <3>1 DEF check
  <2>2. transition(p.phase, "dismiss") \in {"none", "ready", "dismissed", "reloading"}
    BY <1>0 DEF transition, Pages
  <2>3. SameLoad(p, onceInstalled(p, reg, net))
    BY <1>0, <2>2, TellsOfTheLoad
  <2> QED BY <1>0, <2>1, <2>3 DEF updatefound, PageStep
<1>7. CASE Installed
  <2>0. reg \in [installing : 0..net, waiting : 0..net, active : 0..net, first : 0..net]
    BY <1>0 DEF WorkersOK
  <2>1. p.controlled => reg'.active = reg.active
    <3>1. p.controlled => reg.active # 0
      BY <1>0 DEF PageOK
    <3> QED BY <1>7, <2>0, <3>1 DEF Installed, AfterInstall
  <2>2. CASE p.awaits # 0
    <3>1. tab'[t] = Loads(p, reg, "notice")
      BY <1>7, <2>2 DEF Installed
    <3>2. reg.waiting # 0 /\ reg.active # 0 /\ reg.waiting < reg.installing
      BY <1>0, <1>7, <2>2 DEF PageOK, WorkersOK, Installed
    <3>3. reg'.waiting = reg.installing
      BY <1>7, <2>0, <3>2 DEF Installed, AfterInstall
    <3> QED BY <1>0, <1>1, <3>1, <3>2, <3>3, LoadsFacts DEF PageStep, BringsNew
  <2>3. CASE p.awaits = 0 /\ reg.installing \in p.hears
    <3> DEFINE w == [p EXCEPT !.hears = @ \ {reg.installing}]
    <3>1. tab'[t] = apply(w, "worker-waiting")
      BY <1>7, <2>3 DEF Installed
    <3>2. w \in Pages /\ SameLoad(p, w)
      BY <1>0 DEF Pages, SameLoad
    <3> HIDE DEF w
    <3>3. transition(w.phase, "worker-waiting") \in {"none", "ready", "dismissed", "reloading"}
      BY <3>2 DEF transition, Pages
    <3>4. SameLoad(w, apply(w, "worker-waiting"))
      BY <1>1, <3>2, <3>3, TellsOfTheLoad
    <3> QED BY <2>1, <3>1, <3>2, <3>4 DEF PageStep, SameLoad
  <2>4. CASE p.awaits = 0 /\ reg.installing \notin p.hears
    <3>1. tab'[t] = p
      BY <1>7, <2>4 DEF Installed
    <3> QED BY <1>0, <2>1, <3>1 DEF PageStep
  <2> QED BY <2>2, <2>3, <2>4
<1>8. CASE InstallFails
  <2>1. reg'.active = reg.active /\ tab'[t] = [p EXCEPT !.hears = @ \ {reg.installing}]
    <3>1. reg \in [installing : 0..net, waiting : 0..net, active : 0..net, first : 0..net]
      BY <1>0 DEF WorkersOK
    <3> QED BY <1>8, <3>1 DEF InstallFails
  <2> QED BY <1>0, <2>1 DEF PageStep, SameLoad, Pages
<1>9. CASE Activate \/ SkipWaiting
  <2>0. /\ reg.waiting # 0 /\ reg' = [reg EXCEPT !.active = reg.waiting, !.waiting = 0]
        /\ tab'[t] = TakenOver(p, reg')
    BY <1>9 DEF Activate, SkipWaiting
  <2>1. reg'.active = reg.waiting
    <3>1. reg \in [installing : 0..net, waiting : 0..net, active : 0..net, first : 0..net]
      BY <1>0 DEF WorkersOK
    <3> QED BY <2>0, <3>1
  <2>2. CASE p.awaits # 0
    <3>1. tab'[t] = Loads(p, reg', "notice")
      BY <2>0, <2>2 DEF TakenOver
    <3>2. tab'[t].phase = "none" /\ tab'[t].build = reg.waiting
      <4>1. /\ Loads(p, reg', "notice").phase = "none"
            /\ reg'.active # 0 => Loads(p, reg', "notice").build = reg'.active
        BY <1>0, LoadsFacts
      <4> QED BY <2>0, <2>1, <3>1, <4>1
    <3>3. p.phase = "reloading" /\ Told(p, reg) /\ Largest(reg.waiting, reg.active) = reg.waiting
      BY <1>0, <1>1, <2>0, <2>2 DEF PageOK, WorkersOK, Largest
    <3>4. p.controlled => p.build < reg.waiting
      BY <3>3 DEF Told
    <3>5. ~p.controlled => p.build <= reg.waiting
      BY <3>3 DEF Told
    <3> QED BY <1>1, <3>2, <3>4, <3>5 DEF PageStep, BringsNew
  <2>3. CASE p.awaits = 0 /\ p.controlled
    <3>1. tab'[t] = apply(p, "controller-changed")
      BY <2>0, <2>3 DEF TakenOver
    <3>2. p.phase # "reloading"
      BY <1>0, <2>3 DEF PageOK
    <3>3. tab'[t] = [p EXCEPT !.phase = "ready"]
      BY <1>0, <3>1, <3>2 DEF apply, transition, Pages
    <3> QED BY <1>0, <3>3 DEF PageStep, SameLoad, Pages
  <2>4. CASE p.awaits = 0 /\ ~p.controlled
    <3>1. tab'[t] = p
      BY <2>0, <2>4 DEF TakenOver
    <3> QED BY <1>0, <2>4, <3>1 DEF PageStep
  <2> QED BY <2>2, <2>3, <2>4
<1>10. ASSUME NEW u \in Tab, reload(u) PROVE PageStep(p, tab'[t], reg, reg')
  <2>0. reg' = reg /\ tab' = [tab EXCEPT ![u] = AfterPress(@)] /\ tab[u].phase = "ready"
    BY <1>10 DEF reload
  <2>1. CASE u # t
    BY <1>0, <2>0, <2>1 DEF PageStep
  <2>2. CASE u = t /\ reg.waiting = 0
    <3>1. tab'[t] = Loads(p, reg, "notice")
      BY <1>0, <2>0, <2>2 DEF AfterPress
    <3>2. Told(p, reg) /\ Largest(reg.waiting, reg.active) = reg.active
      BY <1>0, <1>1, <2>0, <2>2 DEF PageOK, Largest
    <3>3. /\ reg.active # 0 /\ p.build <= reg.active /\ (p.controlled => p.build < reg.active)
      BY <1>1, <3>2 DEF Told
    <3>4. tab'[t].phase = "none" /\ tab'[t].build = reg.active
      BY <1>0, <3>1, <3>3, LoadsFacts
    <3> QED BY <1>1, <3>3, <3>4 DEF PageStep, BringsNew
  <2>3. CASE u = t /\ reg.waiting # 0
    <3>1. tab'[t] = [p EXCEPT !.phase = "reloading", !.awaits = reg.waiting]
      BY <1>0, <2>0, <2>3 DEF AfterPress, apply, transition, Pages
    <3> QED BY <1>0, <2>0, <3>1 DEF PageStep, SameLoad, Pages
  <2> QED BY <2>1, <2>2, <2>3
<1>11. ASSUME NEW u \in Tab, dismiss(u) PROVE PageStep(p, tab'[t], reg, reg')
  <2>0. reg' = reg /\ tab' = [tab EXCEPT ![u] = apply(@, "dismiss")] /\ tab[u].phase = "ready"
    BY <1>11 DEF dismiss
  <2>1. CASE u # t
    BY <1>0, <2>0, <2>1 DEF PageStep
  <2>2. CASE u = t
    <3>1. tab'[t] = [p EXCEPT !.phase = "dismissed"]
      BY <1>0, <2>0, <2>2 DEF apply, transition
    <3> QED BY <1>0, <2>0, <3>1 DEF PageStep, SameLoad, Pages
  <2> QED BY <2>1, <2>2
<1> QED BY <1>2, <1>3, <1>4, <1>5, <1>6, <1>7, <1>8, <1>9, <1>10, <1>11 DEF UpdateNext

\* What a step of the app does to a stale tab, and what a reload brings.
LEMMA UpdateSteps ==
  ASSUME UInv, UInv', UpdateNext, NEW t \in Tab
  PROVE  /\ Stale(t)' => \/ tab'[t].phase \in {"ready", "reloading"}
                         \/ tab'[t].phase = "dismissed" /\ Stale(t)
         /\ tab'[t].visits # tab[t].visits /\ tab'[t].by = "notice" =>
              \/ tab'[t].build > tab[t].build
              \/ ~tab[t].controlled /\ tab'[t].build = tab[t].build
              \/ reg'.waiting > reg.waiting
<1>1. PageStep(tab[t], tab'[t], reg, reg')
  BY PageSteps
<1>2. /\ tab'[t].phase \in {"none", "ready", "dismissed", "reloading"}
      /\ Stale(t)' => tab'[t].phase # "none"
  BY DEF UInv, PageOK, Stale, Pages
<1>3. tab[t].controlled \in BOOLEAN
  BY DEF UInv, Pages
<1> QED BY <1>1, <1>2, <1>3 DEF PageStep, SameLoad, BringsNew, Stale

\* A stale tab shows the notice until it is dismissed from then on.
THEOREM StaleTabsAreTold == UpdateSpec => StaleTabIsTold
<1>1. UInv /\ UInv' /\ [UpdateNext]_updateVars =>
        [\A t \in Tab :
           Stale(t)' => \/ tab'[t].phase \in {"ready", "reloading"}
                        \/ tab'[t].phase = "dismissed" /\ Stale(t)]_updateVars
  BY UpdateSteps
<1> QED BY <1>1, UpdateIInv, PTL DEF UpdateSpec, StaleTabIsTold

\* A notice's Reload brings a newer build.
THEOREM ReloadsAreNew == UpdateSpec => ReloadIsNew
<1>1. UInv /\ UInv' /\ [UpdateNext]_updateVars =>
        [\A t \in Tab :
           tab'[t].visits # tab[t].visits /\ tab'[t].by = "notice" =>
             \/ tab'[t].build > tab[t].build
             \/ ~tab[t].controlled /\ tab'[t].build = tab[t].build
             \/ reg'.waiting > reg.waiting]_updateVars
  BY UpdateSteps
<1> QED BY <1>1, UpdateIInv, PTL DEF UpdateSpec, ReloadIsNew

\* The active worker changes under a tab that it controls only by a press.
THEOREM BuildsGoByAPress == UpdateSpec => TakesOverByAPress
<1> DEFINE byPress == reg'.active # reg.active /\ (\E t \in Tab : tab[t].controlled) =>
                        \E t \in Tab : tab[t].phase = "reloading"
<1>1. ASSUME UInv, UpdateNext PROVE byPress
  <2>1. CASE UNCHANGED reg
    BY <2>1
  <2>2. CASE check
    <3>1. reg'.active = reg.active
      BY <1>1, <2>2 DEF check, UInv, WorkersOK
    <3> QED BY <3>1
  <2>3. CASE Installed
    <3>1. reg.active = 0 => \A t \in Tab : ~tab[t].controlled
      BY <1>1 DEF UInv, PageOK
    <3>2. reg.active # 0 => reg'.active = reg.active
      BY <1>1, <2>3 DEF Installed, AfterInstall, UInv, WorkersOK
    <3> QED BY <3>1, <3>2
  <2>4. CASE InstallFails
    <3>1. reg'.active = reg.active
      BY <1>1, <2>4 DEF InstallFails, UInv, WorkersOK
    <3> QED BY <3>1
  <2>5. CASE Activate
    BY <2>5 DEF Activate
  <2>6. CASE SkipWaiting
    <3>1. PICK t \in Tab : tab[t].awaits = reg.waiting /\ reg.waiting # 0
      BY <2>6 DEF SkipWaiting
    <3>2. tab[t].phase = "reloading"
      BY <1>1, <3>1 DEF UInv, PageOK
    <3> QED BY <3>2
  <2>7. ASSUME NEW t \in Tab, watch(t) PROVE byPress
    <3>1. reg'.active = reg.active
      BY <1>1, <2>7 DEF watch, UInv, WorkersOK
    <3> QED BY <3>1
  <2> QED
    BY <1>1, <2>1, <2>2, <2>3, <2>4, <2>5, <2>6, <2>7
       DEF UpdateNext, Deploy, Visit, LeavesApp, reload, dismiss
<1>2. UInv /\ [UpdateNext]_updateVars => [byPress]_updateVars
  BY <1>1
<1> QED BY <1>2, UpdateIInv, PTL DEF UpdateSpec, TakesOverByAPress

\* A build goes only by a press, a tab whose build is gone is told, of a build that is
\* there, and a reload gets it, for any tabs, deploys and visits.
THEOREM UpdatesAreSafe == UpdateSpec => UpdateSafe
<1>1. UpdateSpec => [](UpdateTypeOK /\ NoticeIsTrue /\ ReloadingWaits)
  BY UInvSafe, UpdateIInv, PTL
<1> QED BY <1>1, StaleTabsAreTold, ReloadsAreNew, BuildsGoByAPress DEF UpdateSafe
-------------------------------------------------------------------------------
\* What the page asks for: a section's list, or a player's page.
ListQuery ==
  [section : {"accounts", "players", "keys"}, view : {"verified", "guests", "all"},
   text : SearchText \cup {Blank}, of : {None}] \cup {PlayerPage(p) : p \in Player}

ListPages ==
  [control : 1..3, asked : ListQuery, shown : ListQuery, phase : {"list", "skeleton", "error"}]

\* Players of an account.
Own(d, a) == {d.self[a]} \cup d.managed[a]

\* The rows: a player is one account's, and isn't merged while it is; who revoked
\* a key is its owner, or has an email.
DbTypes(d) ==
  d \in [verified : SUBSET Account, adopted : SUBSET Account, self : [Account -> Player],
         managed : [Account -> SUBSET Player], mergedInto : [Player -> Player \cup {None}],
         owner : [Key -> Account], revokedBy : [Key -> Account \cup {None}],
         signedOut : SUBSET Key]

PlayersOwned(d) ==
  /\ \A a \in Account \ d.adopted :
       d.self[a] \notin d.managed[a] /\ \A p \in Own(d, a) : d.mergedInto[p] = None
  /\ \A a, b \in Account \ d.adopted : a # b => Own(d, a) \cap Own(d, b) = {}
  /\ \A p \in Player : d.mergedInto[p] # p

RowsOK(d) ==
  /\ DbTypes(d) /\ d.verified \cap d.adopted = {} /\ PlayersOwned(d)
  /\ \A k \in Key :
       d.revokedBy[k] = None \/ d.revokedBy[k] = d.owner[k] \/ d.revokedBy[k] \in d.verified

\* A row is of what the query asks for.
RowFits(q, row) ==
  /\ q.section = "accounts" =>
       (row.guest => q.view # "verified") /\ (~row.guest => q.view # "guests")
  /\ q.section = "players" => q.text = Blank \/ row.of \in Holding[q.text]
  /\ q.section = "keys" => "owner" \in DOMAIN row /\ (row.state = "revoked" => row.by # "nobody")
  /\ q.section = "player" => row.of = q.of /\ row.mergedInto # row.of

PageFits(q, read) ==
  /\ IsFiniteSet(read.rows) /\ Cardinality(read.rows) <= PageSize
  /\ \A row \in read.rows : RowFits(q, row)

\* What the client holds, and the queries that failed.
CacheFits(c, f) ==
  /\ DOMAIN c \subseteq ListQuery /\ \A q \in DOMAIN c : PageFits(q, c[q])
  /\ f \cap DOMAIN c = {}

\* What is on its way is of the query that it was asked for.
ReadingFits(r) ==
  /\ DOMAIN r \subseteq ListQuery
  /\ \A q \in DOMAIN r : r[q].of = q /\ (r[q].step = "read" => PageFits(q, r[q].page))

\* What shows was read, and is of the section that is asked for.
PageShows(p, c) ==
  /\ p \in ListPages /\ p.shown.section = p.asked.section
  /\ p.phase = "list" => p.shown \in DOMAIN c
  /\ p.asked.section = "accounts" => p.asked.view = Views[p.control]

\* The inductive invariant of AdminLists.
ListsIInv ==
  /\ RowsOK(stored) /\ CacheFits(cache, failed)
  /\ ReadingFits(reading) /\ PageShows(page, cache)
-------------------------------------------------------------------------------
\* A set of natural numbers has a least one.
LEMMA SmallestOf ==
  ASSUME NEW T \in SUBSET Nat, T # {}
  PROVE  \E x \in T : \A y \in T : x <= y
<1> DEFINE R == OpToRel(<, Nat)
<1>1. \A x, y \in Nat : x < y => <<x, y>> \in R
  BY DEF OpToRel
<1>2. IsWellFoundedOn(R, Nat)
  BY NatLessThanWellFounded
<1>3. PICK x \in T : \A y \in T : <<y, x>> \notin R
  <2> HIDE DEF R
  <2> QED BY <1>2, WFMin
<1>4. \A y \in T : ~(y < x)
  BY <1>1, <1>3
<1> QED BY <1>4

\* How many of them come before x.
Earlier(S, x) == {y \in S : Rank[y] < Rank[x]}

\* They are listed in an order.
Ranked(S) ==
  /\ IsFiniteSet(S) /\ \A x \in S : Rank[x] \in Nat
  /\ \A x, y \in S : Rank[x] = Rank[y] => x = y

\* Fewer come before the earlier of two.
LEMMA EarlierIsFewer ==
  ASSUME NEW S, Ranked(S), NEW x \in S, NEW y \in S, Rank[x] < Rank[y]
  PROVE  /\ Cardinality(Earlier(S, x)) \in Nat /\ Cardinality(Earlier(S, y)) \in Nat
         /\ Cardinality(Earlier(S, x)) < Cardinality(Earlier(S, y))
<1> DEFINE E == Earlier(S, x)  F == Earlier(S, y)
<1>1. /\ E \in SUBSET S /\ F \in SUBSET S /\ x \notin E
  BY DEF Earlier, Ranked
<1>2. E \cup {x} \in SUBSET F
  BY DEF Earlier, Ranked
<1> HIDE DEF E, F
<1>3. /\ IsFiniteSet(E) /\ IsFiniteSet(F)
  BY <1>1, FS_Subset DEF Ranked
<1>4. Cardinality(E \cup {x}) = Cardinality(E) + 1 /\ Cardinality(E \cup {x}) <= Cardinality(F)
  BY <1>1, <1>2, <1>3, FS_AddElement, FS_Subset
<1>5. Cardinality(E) \in Nat /\ Cardinality(F) \in Nat
  BY <1>3, FS_CardinalityType
<1> QED BY <1>4, <1>5 DEF E, F

\* The first n of a list are at most n.
LEMMA FirstOfFew ==
  ASSUME NEW S, Ranked(S), NEW n \in Nat
  PROVE  /\ FirstOf(S, n) \in SUBSET S /\ IsFiniteSet(FirstOf(S, n))
         /\ Cardinality(FirstOf(S, n)) \in Nat /\ Cardinality(FirstOf(S, n)) <= n
<1> DEFINE F == FirstOf(S, n)
           c(x) == Cardinality(Earlier(S, x))
<1>1. F \in SUBSET S /\ \A x \in F : c(x) < n
  BY DEF FirstOf, Earlier
<1>2. IsFiniteSet(F) /\ Cardinality(F) \in Nat
  BY <1>1, FS_Subset, FS_CardinalityType DEF Ranked
<1>3. \A x \in S : c(x) \in Nat
  <2> SUFFICES ASSUME NEW x \in S PROVE c(x) \in Nat
    OBVIOUS
  <2>1. Earlier(S, x) \in SUBSET S
    BY DEF Earlier
  <2> QED BY <2>1, FS_Subset, FS_CardinalityType DEF Ranked
<1>4. CASE F = {}
  BY <1>2, <1>4, FS_EmptySet
<1>5. CASE F # {}
  <2> DEFINE left == {n - c(x) : x \in F}
  <2>1. left \in SUBSET Nat /\ left # {}
    BY <1>1, <1>3, <1>5
  <2>2. PICK l \in left : \A k \in left : l <= k
    <3> HIDE DEF left
    <3> QED BY <2>1, SmallestOf
  <2>8. PICK x \in F : \A y \in F : n - c(x) <= n - c(y)
    BY <2>2
  <2>3. \A y \in F : c(y) <= c(x)
    <3> HIDE DEF c, F
    <3> QED BY <1>1, <1>3, <2>8
  <2>4. F \ {x} \in SUBSET Earlier(S, x)
    <3> SUFFICES ASSUME NEW y \in F \ {x} PROVE y \in Earlier(S, x)
      OBVIOUS
    <3>1. x \in S /\ y \in S /\ Rank[x] \in Nat /\ Rank[y] \in Nat /\ Rank[x] # Rank[y]
      BY <1>1 DEF Ranked
    <3>2. CASE Rank[x] < Rank[y]
      <4>1. c(x) < c(y)
        BY <3>1, <3>2, EarlierIsFewer
      <4> QED BY <1>3, <2>3, <3>1, <4>1
    <3> QED BY <3>1, <3>2 DEF Earlier
  <2>5. Earlier(S, x) \in SUBSET S
    BY DEF Earlier
  <2>6. IsFiniteSet(Earlier(S, x)) /\ Cardinality(F \ {x}) <= c(x)
    BY <2>4, <2>5, FS_Subset DEF Ranked
  <2>7. Cardinality(F \ {x}) = Cardinality(F) - 1
    BY <1>2, FS_RemoveElement
  <2>9. c(x) \in Nat /\ c(x) < n
    BY <1>1, <1>3
  <2>10. Cardinality(F) <= n
    <3> HIDE DEF F, c
    <3> QED BY <1>2, <2>6, <2>7, <2>9
  <2> QED BY <1>1, <1>2, <2>10
<1> HIDE DEF F
<1> QED BY <1>1, <1>2, <1>4, <1>5 DEF F

\* Fewer than n are all of them.
LEMMA FirstOfAll ==
  ASSUME NEW S, Ranked(S), NEW n \in Nat, Cardinality(FirstOf(S, n)) < n
  PROVE  FirstOf(S, n) = S
<1> DEFINE F == FirstOf(S, n)
<1>1. F \in SUBSET S /\ IsFiniteSet(F) /\ Cardinality(F) \in Nat
  BY FirstOfFew
<1>2. SUFFICES ASSUME S \ F # {} PROVE FALSE
  BY <1>1
<1> DEFINE ranks == {Rank[x] : x \in S \ F}
<1>3. ranks \in SUBSET Nat /\ ranks # {}
  BY <1>2 DEF Ranked
<1>9. PICK r \in ranks : \A k \in ranks : r <= k
  <2> HIDE DEF ranks
  <2> QED BY <1>3, SmallestOf
<1>4. PICK x \in S \ F : \A y \in S \ F : Rank[x] <= Rank[y]
  BY <1>9
<1>5. Earlier(S, x) \in SUBSET F
  BY <1>4 DEF Earlier, Ranked
<1> HIDE DEF F
<1>6. Cardinality(Earlier(S, x)) <= Cardinality(F) /\ Cardinality(Earlier(S, x)) \in Nat
  BY <1>1, <1>5, FS_Subset, FS_CardinalityType
<1>7. Cardinality(Earlier(S, x)) < n
  BY <1>1, <1>6 DEF F
<1>8. x \in FirstOf(S, n)
  BY <1>4, <1>7 DEF FirstOf, Earlier
<1> QED BY <1>4, <1>8 DEF F

\* One row more than a page, and the page of them: all, or a full page and more.
LEMMA PageOrMore ==
  ASSUME NEW S, Ranked(S), NEW n \in Nat, NEW fetched, fetched = FirstOf(S, n + 1)
  PROVE  /\ FirstOf(fetched, n) \in SUBSET S /\ Cardinality(FirstOf(fetched, n)) <= n
         /\ IsFiniteSet(FirstOf(fetched, n))
         /\ IF Cardinality(fetched) > n
            THEN Cardinality(FirstOf(fetched, n)) = n /\ FirstOf(fetched, n) # S
            ELSE FirstOf(fetched, n) = S
<1> DEFINE G == FirstOf(fetched, n)
<1>1. /\ fetched \in SUBSET S /\ IsFiniteSet(fetched) /\ Cardinality(fetched) \in Nat
      /\ Cardinality(fetched) <= n + 1
  BY FirstOfFew
<1>2. Ranked(fetched)
  BY <1>1 DEF Ranked
<1>3. /\ G \in SUBSET fetched /\ IsFiniteSet(G) /\ Cardinality(G) \in Nat /\ Cardinality(G) <= n
  BY <1>2, FirstOfFew
<1>4. Cardinality(G) < n => G = fetched
  BY <1>2, FirstOfAll
<1>5. CASE Cardinality(fetched) > n
  <2>1. Cardinality(G) = n
    <3> HIDE DEF G
    <3> QED BY <1>1, <1>3, <1>4, <1>5
  <2>2. G # S
    <3> HIDE DEF G
    <3>1. G # fetched
      BY <1>1, <1>3, <1>5
    <3> QED BY <1>1, <1>3, <3>1
  <2> QED BY <1>1, <1>3, <1>5, <2>1, <2>2
<1>6. CASE ~(Cardinality(fetched) > n)
  <2>1. Cardinality(fetched) < n + 1
    BY <1>1, <1>6
  <2>2. fetched = S
    BY <2>1, FirstOfAll
  <2>3. G = fetched
    <3>1. CASE Cardinality(G) < n
      BY <1>4, <3>1
    <3>2. CASE Cardinality(G) = n
      <4> HIDE DEF G
      <4>1. Cardinality(G) = Cardinality(fetched)
        <5>1. Cardinality(G) <= Cardinality(fetched)
          BY <1>1, <1>3, FS_Subset
        <5> QED BY <1>1, <1>3, <1>6, <3>2, <5>1
      <4> QED BY <1>1, <1>3, <4>1, FS_Subset
    <3> HIDE DEF G
    <3> QED BY <1>3, <3>1, <3>2
  <2> QED BY <1>1, <1>3, <1>6, <2>2, <2>3
<1> QED BY <1>5, <1>6

\* What a query asks for has an order.
LEMMA MatchingRanked ==
  ASSUME NEW d, DbTypes(d), NEW q \in ListQuery
  PROVE  Ranked(Matching(d, q))
<1>1. /\ q.section \in {"accounts", "players", "keys", "player"}
      /\ q.section = "player" => q.of \in Player
  BY DEF ListQuery, PlayerPage
<1>2. ASSUME NEW X \in {Account, Player, Key}, NEW S \in SUBSET X PROVE Ranked(S)
  <2>1. X \subseteq Account \cup Player \cup Key /\ IsFiniteSet(X)
        /\ \A x, y \in X : Rank[x] = Rank[y] => x = y
    BY ListsAssumption
  <2>2. IsFiniteSet(S)
    BY <2>1, FS_Subset
  <2>3. \A x \in S : Rank[x] \in Nat
    BY <2>1, ListsAssumption
  <2> QED BY <2>1, <2>2, <2>3 DEF Ranked
<1>3. CASE q.section = "accounts"
  <2>1. Matching(d, q) \in SUBSET Account
    BY <1>3 DEF Matching
  <2> QED BY <1>2, <2>1
<1>4. CASE q.section = "players"
  <2>1. Matching(d, q) \in SUBSET Player
    BY <1>4 DEF Matching
  <2> QED BY <1>2, <2>1
<1>5. CASE q.section = "keys"
  <2>1. Matching(d, q) \in SUBSET Key
    BY <1>5 DEF Matching
  <2> QED BY <1>2, <2>1
<1>6. CASE q.section = "player"
  <2>1. Matching(d, q) \in SUBSET Player
    BY <1>1, <1>6 DEF Matching
  <2> QED BY <1>2, <2>1
<1> QED BY <1>1, <1>3, <1>4, <1>5, <1>6

\* A row is of what it was read for, and fits the query.
LEMMA RowsFit ==
  ASSUME NEW d, RowsOK(d), NEW q \in ListQuery, NEW x \in Matching(d, q)
  PROVE  Row(d, q.section, x).of = x /\ RowFits(q, Row(d, q.section, x))
<1>1. /\ q.section \in {"accounts", "players", "keys", "player"}
      /\ q.section = "player" => q.of \in Player
  BY DEF ListQuery, PlayerPage
<1>2. CASE q.section = "accounts"
  <2>1. /\ Row(d, q.section, x) = AccountRow(d, x) /\ x \in Account /\ InView(d, x, q.view)
        /\ q.view \in {"verified", "guests", "all"}
    BY <1>2 DEF Row, Matching, ListQuery, PlayerPage
  <2>2. AccountRow(d, x).of = x /\ (AccountRow(d, x).guest <=> x \notin d.verified)
    BY DEF AccountRow
  <2> QED BY <1>2, <2>1, <2>2 DEF RowFits, InView
<1>3. CASE q.section = "players"
  <2>1. Row(d, q.section, x) = PlayerRow(d, x) /\ (q.text = Blank \/ x \in Holding[q.text])
    BY <1>3 DEF Row, Matching
  <2>2. PlayerRow(d, x).of = x
    BY DEF PlayerRow
  <2> QED BY <1>3, <2>1, <2>2 DEF RowFits
<1>4. CASE q.section = "keys"
  <2>1. Row(d, q.section, x) = KeyRow(d, x) /\ x \in Key
    BY <1>4 DEF Row, Matching
  <2>2. /\ KeyRow(d, x).of = x /\ "owner" \in DOMAIN KeyRow(d, x)
        /\ KeyRow(d, x).state = KeyState(d, x) /\ KeyRow(d, x).by = Revoker(d, x)
    BY DEF KeyRow
  <2>3. KeyState(d, x) = "revoked" => Revoker(d, x) # "nobody"
    <3>1. KeyState(d, x) = "revoked" => d.revokedBy[x] # None
      BY DEF KeyState
    <3>2. d.revokedBy[x] = None \/ d.revokedBy[x] = d.owner[x] \/ d.revokedBy[x] \in d.verified
      BY <2>1 DEF RowsOK
    <3>3. d.revokedBy[x] = d.owner[x] => Revoker(d, x) = "the owner"
      BY DEF Revoker
    <3>4. d.revokedBy[x] # d.owner[x] /\ d.revokedBy[x] \in d.verified =>
            Revoker(d, x) = "an administrator"
      BY DEF Revoker
    <3> QED BY <3>1, <3>2, <3>3, <3>4
  <2> QED BY <1>4, <2>1, <2>2, <2>3 DEF RowFits
<1>5. CASE q.section = "player"
  <2>1. Row(d, q.section, x) = PlayerDetail(d, x) /\ x = q.of /\ x \in Player
    BY <1>1, <1>5 DEF Row, Matching
  <2>2. PlayerDetail(d, x).of = x /\ PlayerDetail(d, x).mergedInto = d.mergedInto[x]
    BY DEF PlayerDetail
  <2>3. d.mergedInto[x] # x
    BY <2>1 DEF RowsOK, PlayersOwned
  <2> QED BY <1>5, <2>1, <2>2, <2>3 DEF RowFits
<1> QED BY <1>1, <1>2, <1>3, <1>4, <1>5

\* A page of what matches, and whether there is more.
Whole(d, q, read) ==
  LET got == {row.of : row \in read.rows} IN
  IF read.more THEN Cardinality(got) = PageSize /\ got # Matching(d, q)
  ELSE got = Matching(d, q)

\* What the API reads for a query fits it, and says whether it is whole.
LEMMA ReadPageFits ==
  ASSUME NEW d, RowsOK(d), NEW q \in ListQuery
  PROVE  PageFits(q, ReadPage(d, q)) /\ Whole(d, q, ReadPage(d, q))
<1> DEFINE M == Matching(d, q)
           fetched == FirstOf(M, PageSize + 1)
           G == FirstOf(fetched, PageSize)
           read == ReadPage(d, q)
<1>1. Ranked(M) /\ PageSize \in Nat
  BY MatchingRanked, ListsAssumption DEF RowsOK
<1>2. /\ read.rows = {Row(d, q.section, x) : x \in G}
      /\ read.more = (Cardinality(fetched) > PageSize)
  BY DEF ReadPage
<1>3. /\ G \in SUBSET M /\ Cardinality(G) <= PageSize /\ IsFiniteSet(G)
      /\ IF Cardinality(fetched) > PageSize THEN Cardinality(G) = PageSize /\ G # M ELSE G = M
  <2> HIDE DEF M
  <2> QED BY <1>1, PageOrMore
<1> HIDE DEF M, fetched, G, read
<1>4. \A x \in G : Row(d, q.section, x).of = x /\ RowFits(q, Row(d, q.section, x))
  BY <1>3, RowsFit DEF M
<1>5. {row.of : row \in read.rows} = G
  BY <1>2, <1>4
<1>6. IsFiniteSet(read.rows) /\ Cardinality(read.rows) <= PageSize
  <2> DEFINE f == [x \in G |-> Row(d, q.section, x)]
  <2>1. f \in Surjection(G, read.rows)
    BY <1>2 DEF Surjection
  <2>2. IsFiniteSet(read.rows) /\ Cardinality(read.rows) <= Cardinality(G)
    <3> HIDE DEF f
    <3> QED BY <1>3, <2>1, FS_Surjection
  <2>3. Cardinality(read.rows) \in Nat /\ Cardinality(G) \in Nat
    BY <1>3, <2>2, FS_CardinalityType
  <2> QED BY <1>1, <1>3, <2>2, <2>3
<1>7. PageFits(q, read)
  BY <1>2, <1>4, <1>6 DEF PageFits
<1>8. Whole(d, q, read)
  BY <1>2, <1>3, <1>5 DEF Whole, M
<1> QED BY <1>7, <1>8 DEF read

\* An adoption leaves each account the owner of players of its own.
LEMMA AdoptsRows ==
  ASSUME NEW d, RowsOK(d),
         NEW guest \in Account \ (d.verified \cup d.adopted), NEW into \in d.verified
  PROVE  RowsOK(Moved(d, guest, into))
<1> DEFINE e == Moved(d, guest, into)
           mine == [d.managed EXCEPT ![into] = @ \cup {d.self[guest]}]
<1>1. /\ DbTypes(d) /\ PlayersOwned(d) /\ d.verified \cap d.adopted = {}
      /\ into \in Account \ d.adopted /\ guest \in Account \ d.adopted /\ guest # into
      /\ d.self \in [Account -> Player] /\ d.managed \in [Account -> SUBSET Player]
      /\ d.owner \in [Key -> Account] /\ d.revokedBy \in [Key -> Account \cup {None}]
      /\ d.adopted \in SUBSET Account /\ d.verified \in SUBSET Account
  BY DEF RowsOK, DbTypes
<1>2. /\ e = [d EXCEPT !.adopted = d.adopted \cup {guest},
                       !.owner = [k \in Key |-> IF d.owner[k] = guest THEN into ELSE d.owner[k]],
                       !.revokedBy =
                         [k \in Key |-> IF d.revokedBy[k] = guest THEN into ELSE d.revokedBy[k]],
                       !.managed = mine]
  BY <1>1 DEF Moved, DbTypes
<1>3. /\ mine \in [Account -> SUBSET Player] /\ mine[into] = d.managed[into] \cup {d.self[guest]}
      /\ \A a \in Account \ {into} : mine[a] = d.managed[a]
  BY <1>1
<1> HIDE DEF e, mine
<1>4. /\ e.verified = d.verified /\ e.adopted = d.adopted \cup {guest} /\ e.self = d.self
      /\ e.managed = mine
      /\ e.mergedInto = d.mergedInto
      /\ e.owner = [k \in Key |-> IF d.owner[k] = guest THEN into ELSE d.owner[k]]
      /\ e.revokedBy = [k \in Key |-> IF d.revokedBy[k] = guest THEN into ELSE d.revokedBy[k]]
  BY <1>1, <1>2 DEF DbTypes
<1>5. DbTypes(e)
  BY <1>1, <1>2, <1>3 DEF DbTypes
<1>6. PlayersOwned(e)
  <2>1. /\ Own(e, into) = Own(d, into) \cup {d.self[guest]}
        /\ \A a \in Account \ {into} : Own(e, a) = Own(d, a)
    BY <1>3, <1>4 DEF Own
  <2>2. d.self[guest] \in Own(d, guest) /\ d.self[into] \in Own(d, into)
    BY DEF Own
  <2>3. \A a \in Account \ d.adopted :
          d.self[a] \notin d.managed[a] /\ \A p \in Own(d, a) : d.mergedInto[p] = None
    BY <1>1 DEF PlayersOwned
  <2>4. \A a, b \in Account \ d.adopted : a # b => Own(d, a) \cap Own(d, b) = {}
    BY <1>1 DEF PlayersOwned
  <2>5. d.self[into] # d.self[guest]
    BY <1>1, <2>2, <2>4
  <2>6. ASSUME NEW a \in Account \ e.adopted
        PROVE  e.self[a] \notin e.managed[a] /\ \A p \in Own(e, a) : e.mergedInto[p] = None
    BY <1>1, <1>3, <1>4, <2>1, <2>2, <2>3, <2>5
  <2>7. ASSUME NEW a \in Account \ e.adopted, NEW b \in Account \ e.adopted, a # b
        PROVE  Own(e, a) \cap Own(e, b) = {}
    <3>1. a \in Account \ d.adopted /\ b \in Account \ d.adopted /\ a # guest /\ b # guest
      BY <1>4
    <3>2. Own(d, a) \cap Own(d, b) = {}
      BY <2>4, <2>7, <3>1
    <3>3. Own(d, a) \cap Own(d, guest) = {} /\ Own(d, b) \cap Own(d, guest) = {}
      BY <1>1, <2>4, <3>1
    <3> QED BY <2>1, <2>2, <2>7, <3>1, <3>2, <3>3
  <2>8. \A p \in Player : e.mergedInto[p] # p
    BY <1>1, <1>4 DEF PlayersOwned
  <2> QED BY <2>6, <2>7, <2>8 DEF PlayersOwned
<1>7. e.verified \cap e.adopted = {}
  BY <1>1, <1>4
<1>8. ASSUME NEW k \in Key
      PROVE  e.revokedBy[k] = None \/ e.revokedBy[k] = e.owner[k] \/ e.revokedBy[k] \in e.verified
  <2>1. d.revokedBy[k] = None \/ d.revokedBy[k] = d.owner[k] \/ d.revokedBy[k] \in d.verified
    BY DEF RowsOK
  <2>2. /\ e.owner[k] = IF d.owner[k] = guest THEN into ELSE d.owner[k]
        /\ e.revokedBy[k] = IF d.revokedBy[k] = guest THEN into ELSE d.revokedBy[k]
    BY <1>4
  <2>3. guest # None
    BY ListsAssumption
  <2> QED BY <1>4, <2>1, <2>2, <2>3
<1> QED BY <1>5, <1>6, <1>7, <1>8 DEF RowsOK, e

\* A merge leaves each account the owner of unmerged players of its own.
LEMMA MergesRows ==
  ASSUME NEW d, RowsOK(d), NEW a \in d.verified,
         NEW older \in Player, NEW other \in Player, older # other,
         older \in Own(d, a), other \in Own(d, a), d.self[a] \in {older, other}
  PROVE  RowsOK(Merged(d, a, older, other))
<1> DEFINE e == Merged(d, a, older, other)
           into == [q \in Player |->
                      IF q = other \/ d.mergedInto[q] = other THEN older ELSE d.mergedInto[q]]
           self == [b \in Account |-> IF d.self[b] = other THEN older ELSE d.self[b]]
           managed == [b \in Account |->
                         IF b = a \/ other \notin d.managed[b] THEN d.managed[b] \ {older, other}
                         ELSE (d.managed[b] \ {other}) \cup {older}]
<1>1. /\ DbTypes(d) /\ PlayersOwned(d) /\ d.verified \cap d.adopted = {}
      /\ a \in Account \ d.adopted
      /\ d.self \in [Account -> Player] /\ d.managed \in [Account -> SUBSET Player]
      /\ d.mergedInto \in [Player -> Player \cup {None}] /\ None \notin Player
  BY ListsAssumption DEF RowsOK, DbTypes
<1>2. e = [d EXCEPT !.mergedInto = into, !.self = self, !.managed = managed]
  BY <1>1 DEF Merged, DbTypes
<1> HIDE DEF e
<1>3. /\ e.verified = d.verified /\ e.adopted = d.adopted /\ e.owner = d.owner
      /\ e.revokedBy = d.revokedBy
      /\ e.mergedInto = into /\ e.self = self /\ e.managed = managed
  BY <1>1, <1>2 DEF DbTypes
<1>4. DbTypes(e)
  <2>1. /\ e.mergedInto \in [Player -> Player \cup {None}] /\ e.self \in [Account -> Player]
        /\ e.managed \in [Account -> SUBSET Player]
    BY <1>1, <1>3
  <2> QED BY <1>1, <1>2, <1>3, <2>1 DEF DbTypes
<1>5. PlayersOwned(e)
  <2>1. d.mergedInto[older] = None /\ d.mergedInto[other] = None
    BY <1>1 DEF PlayersOwned
  <2>2. \A b \in Account \ d.adopted : b # a => Own(d, b) \cap Own(d, a) = {}
    BY <1>1 DEF PlayersOwned
  <2>3. /\ e.self[a] = older /\ e.managed[a] = d.managed[a] \ {older, other}
        /\ Own(e, a) \in SUBSET (Own(d, a) \ {other})
    BY <1>1, <1>3 DEF Own
  <2>4. ASSUME NEW b \in Account \ d.adopted, b # a
        PROVE  e.self[b] = d.self[b] /\ e.managed[b] = d.managed[b] /\ Own(e, b) = Own(d, b)
               /\ other \notin Own(d, b)
    <3>1. older \notin Own(d, b) /\ other \notin Own(d, b)
      BY <2>2, <2>4
    <3>2. d.self[b] # other /\ other \notin d.managed[b] /\ older \notin d.managed[b]
      BY <3>1 DEF Own
    <3>3. e.self[b] = d.self[b] /\ e.managed[b] = d.managed[b]
      BY <1>3, <3>2
    <3> QED BY <3>1, <3>3 DEF Own
  <2>5. \A b \in Account \ d.adopted : \A p \in Own(d, b) : d.mergedInto[p] = None /\ p \in Player
    BY <1>1 DEF PlayersOwned, Own
  <2>6. ASSUME NEW b \in Account \ d.adopted
        PROVE  e.self[b] \notin e.managed[b] /\ \A p \in Own(e, b) : e.mergedInto[p] = None
    <3>1. Own(e, b) \in SUBSET (Own(d, b) \ {other})
      BY <2>3, <2>4
    <3>2. \A p \in Own(e, b) : e.mergedInto[p] = None
      BY <1>1, <1>3, <2>5, <3>1
    <3>3. e.self[b] \notin e.managed[b]
      BY <1>1, <2>3, <2>4 DEF PlayersOwned
    <3> QED BY <3>2, <3>3
  <2>7. ASSUME NEW b \in Account \ d.adopted, NEW c \in Account \ d.adopted, b # c
        PROVE  Own(e, b) \cap Own(e, c) = {}
    <3>1. Own(d, b) \cap Own(d, c) = {}
      BY <1>1, <2>7 DEF PlayersOwned
    <3> QED BY <2>3, <2>4, <2>7, <3>1
  <2>8. \A p \in Player : e.mergedInto[p] # p
    BY <1>1, <1>3, <2>1 DEF PlayersOwned
  <2> QED BY <1>3, <2>6, <2>7, <2>8 DEF PlayersOwned
<1> QED BY <1>3, <1>4, <1>5 DEF RowsOK, e

\* What happens elsewhere keeps the rows.
LEMMA ElsewhereKeepsRows ==
  RowsOK(stored) /\ (SignsIn \/ Merges \/ Revokes \/ SignsOut) => RowsOK(stored')
<1> SUFFICES ASSUME RowsOK(stored), SignsIn \/ Merges \/ Revokes \/ SignsOut PROVE RowsOK(stored')
  OBVIOUS
<1>1. DbTypes(stored) /\ PlayersOwned(stored) /\ stored.verified \cap stored.adopted = {}
  BY DEF RowsOK
<1>2. CASE SignsIn
  <2>1. PICK guest \in Account \ (stored.verified \cup stored.adopted) :
          \/ stored' = [stored EXCEPT !.verified = @ \cup {guest}]
          \/ \E into \in stored.verified : stored' = Moved(stored, guest, into)
    BY <1>2 DEF SignsIn
  <2>2. CASE stored' = [stored EXCEPT !.verified = @ \cup {guest}]
    <3>1. /\ DbTypes(stored') /\ stored'.verified = stored.verified \cup {guest}
          /\ stored'.adopted = stored.adopted
          /\ stored'.self = stored.self /\ stored'.managed = stored.managed
          /\ stored'.mergedInto = stored.mergedInto /\ stored'.owner = stored.owner
          /\ stored'.revokedBy = stored.revokedBy
      BY <1>1, <2>1, <2>2 DEF DbTypes
    <3>2. PlayersOwned(stored')
      BY <1>1, <3>1 DEF PlayersOwned, Own
    <3> QED BY <1>1, <2>1, <3>1, <3>2 DEF RowsOK
  <2>3. CASE \E into \in stored.verified : stored' = Moved(stored, guest, into)
    BY <2>3, AdoptsRows
  <2> QED BY <2>1, <2>2, <2>3
<1>3. CASE Merges
  <2>1. PICK a \in stored.verified, p \in Player :
          /\ p \in stored.managed[a]
          /\ \/ stored' = Merged(stored, a, p, stored.self[a])
             \/ stored' = Merged(stored, a, stored.self[a], p)
    BY <1>3 DEF Merges
  <2>2. a \in Account \ stored.adopted /\ stored.self[a] \in Player
    BY <1>1 DEF DbTypes
  <2>3. stored.self[a] # p /\ p \in Own(stored, a) /\ stored.self[a] \in Own(stored, a)
    BY <1>1, <2>1, <2>2 DEF PlayersOwned, Own
  <2> QED BY <2>1, <2>2, <2>3, MergesRows
<1>4. CASE Revokes
  <2>1. PICK k \in Key :
          \E a \in stored.verified \cup {stored.owner[k]} :
            stored' = [stored EXCEPT !.revokedBy[k] = a]
    BY <1>4 DEF Revokes
  <2>2. PICK a \in stored.verified \cup {stored.owner[k]} :
          stored' = [stored EXCEPT !.revokedBy[k] = a]
    BY <2>1
  <2>3. a \in Account /\ stored.revokedBy \in [Key -> Account \cup {None}]
    BY <1>1, <2>2 DEF DbTypes
  <2>4. /\ DbTypes(stored') /\ stored'.verified = stored.verified
        /\ stored'.adopted = stored.adopted
        /\ stored'.self = stored.self /\ stored'.managed = stored.managed
        /\ stored'.mergedInto = stored.mergedInto
        /\ stored'.owner = stored.owner /\ stored'.revokedBy = [stored.revokedBy EXCEPT ![k] = a]
    BY <1>1, <2>2, <2>3 DEF DbTypes
  <2>5. PlayersOwned(stored')
    BY <1>1, <2>4 DEF PlayersOwned, Own
  <2>6. \A l \in Key : stored'.revokedBy[l] = IF l = k THEN a ELSE stored.revokedBy[l]
    BY <2>3, <2>4
  <2> QED BY <1>1, <2>2, <2>4, <2>5, <2>6 DEF RowsOK
<1>5. CASE SignsOut
  <2>1. PICK k \in Key : stored' = [stored EXCEPT !.signedOut = @ \cup {k}]
    BY <1>5 DEF SignsOut
  <2>2. /\ DbTypes(stored') /\ stored'.verified = stored.verified
        /\ stored'.adopted = stored.adopted
        /\ stored'.self = stored.self /\ stored'.managed = stored.managed
        /\ stored'.mergedInto = stored.mergedInto
        /\ stored'.owner = stored.owner /\ stored'.revokedBy = stored.revokedBy
    BY <1>1, <2>1 DEF DbTypes
  <2>3. PlayersOwned(stored')
    BY <1>1, <2>2 DEF PlayersOwned, Own
  <2> QED BY <1>1, <2>2, <2>3 DEF RowsOK
<1> QED BY <1>2, <1>3, <1>4, <1>5

\* React shows what is asked for as soon as it is there, and doesn't take a list away.
LEMMA RenderedShows ==
  ASSUME NEW p, NEW c, NEW f, PageShows(p, c)
  PROVE  /\ PageShows(Rendered(p, c, f), c)
         /\ p.phase = "list" => Rendered(p, c, f).phase # "skeleton"
         /\ p.phase = "skeleton" => Rendered(p, c, f).shown = p.asked
<1> DEFINE q == Rendered(p, c, f)
<1>1. /\ p \in ListPages /\ p.phase \in {"list", "skeleton", "error"}
      /\ p.asked \in ListQuery /\ p.shown \in ListQuery
  BY DEF PageShows, ListPages
<1>2. CASE p.phase = "error"
  <2>1. q = [p EXCEPT !.shown = p.asked]
    BY <1>2 DEF Rendered
  <2> QED BY <1>1, <1>2, <2>1 DEF PageShows, ListPages
<1>3. CASE p.phase # "error" /\ HasData(c, p.asked)
  <2>1. q = [p EXCEPT !.shown = p.asked, !.phase = "list"]
    BY <1>3 DEF Rendered
  <2>2. /\ q \in ListPages /\ q.shown = p.asked /\ q.asked = p.asked /\ q.phase = "list"
        /\ q.control = p.control
    BY <1>1, <2>1 DEF ListPages
  <2>3. p.asked \in DOMAIN c
    BY <1>3 DEF HasData, queryKey
  <2> HIDE DEF q
  <2>4. PageShows(q, c)
    BY <2>2, <2>3 DEF PageShows
  <2> QED BY <2>2, <2>4 DEF q
<1>4. CASE p.phase # "error" /\ ~HasData(c, p.asked) /\ queryKey(p.asked) \in f
  <2>1. q = [p EXCEPT !.shown = p.asked, !.phase = "error"]
    BY <1>4 DEF Rendered
  <2>2. /\ q \in ListPages /\ q.shown = p.asked /\ q.asked = p.asked /\ q.phase = "error"
        /\ q.control = p.control
    BY <1>1, <2>1 DEF ListPages
  <2> HIDE DEF q
  <2>4. PageShows(q, c)
    BY <2>2 DEF PageShows
  <2> QED BY <2>2, <2>4 DEF q
<1>5. CASE p.phase = "skeleton" /\ ~HasData(c, p.asked) /\ queryKey(p.asked) \notin f
  <2>1. q = [p EXCEPT !.shown = p.asked]
    BY <1>5 DEF Rendered
  <2>2. /\ q \in ListPages /\ q.shown = p.asked /\ q.asked = p.asked /\ q.phase = "skeleton"
        /\ q.control = p.control
    BY <1>1, <1>5, <2>1 DEF ListPages
  <2> HIDE DEF q
  <2>4. PageShows(q, c)
    BY <2>2 DEF PageShows
  <2> QED BY <1>5, <2>2, <2>4 DEF q
<1>6. CASE p.phase = "list" /\ ~HasData(c, p.asked) /\ queryKey(p.asked) \notin f
  <2>1. q = p
    BY <1>6 DEF Rendered
  <2> QED BY <1>6, <2>1
<1> QED BY <1>1, <1>2, <1>3, <1>4, <1>5, <1>6

\* A request that starts has the query of its key, and leaves the others.
LEMMA AskedFits ==
  ASSUME ReadingFits(reading), NEW q \in ListQuery, q \notin DOMAIN reading,
         NEW r, r = Put(reading, q, [step |-> "asked", of |-> q])
  PROVE  ReadingFits(r) /\ \A x \in DOMAIN reading : r[x] = reading[x]
<1>1. DOMAIN r = DOMAIN reading \cup {q} /\ r[q] = [step |-> "asked", of |-> q]
  BY DEF Put
<1>2. \A x \in DOMAIN reading : r[x] = reading[x]
  BY DEF Put
<1>3. r[q].step = "asked" /\ r[q].of = q
  BY <1>1
<1> HIDE DEF Put
<1> QED BY <1>1, <1>2, <1>3 DEF ReadingFits

\* What a suspended component waits for is asked for.
LEMMA AskingFits ==
  ASSUME ReadingFits(reading), NEW p, NEW c, NEW f, p.asked \in ListQuery
  PROVE  ReadingFits(Asking(p, c, f)) /\ \A x \in DOMAIN reading : Asking(p, c, f)[x] = reading[x]
<1>1. CASE Suspended(p, c, f) /\ p.asked \notin DOMAIN reading
  <2>1. Asking(p, c, f) = Put(reading, p.asked, [step |-> "asked", of |-> p.asked])
    BY <1>1 DEF Asking, queryKey
  <2> QED BY <1>1, <2>1, AskedFits
<1>2. CASE ~(Suspended(p, c, f) /\ p.asked \notin DOMAIN reading)
  <2>1. Asking(p, c, f) = reading
    BY <1>2 DEF Asking, queryKey
  <2> QED BY <2>1
<1> QED BY <1>1, <1>2

\* A request that goes on its way isn't answered by it.
Unanswered == \A q \in DOMAIN reading : reading'[q] = reading[q]

\* A step that renders the page keeps the invariant.
LEMMA RendersKeeps ==
  ASSUME ListsIInv, NEW p, PageShows(p, cache), Renders(p, cache, failed'),
         UNCHANGED <<stored, cache>>,
         failed' \subseteq failed
  PROVE  /\ ListsIInv' /\ Unanswered
         /\ p.phase = "list" => page'.phase # "skeleton"
         /\ p.phase = "skeleton" => page'.shown = p.asked
<1>1. page' = Rendered(p, cache, failed') /\ reading' = Asking(page', cache, failed')
  BY DEF Renders
<1>2. /\ PageShows(page', cache)
      /\ p.phase = "list" => page'.phase # "skeleton"
      /\ p.phase = "skeleton" => page'.shown = p.asked
  BY <1>1, RenderedShows
<1>3. page'.asked \in ListQuery
  BY <1>2 DEF PageShows, ListPages
<1>4. ReadingFits(reading') /\ Unanswered
  BY <1>1, <1>3, AskingFits DEF ListsIInv, Unanswered
<1>5. CacheFits(cache, failed')
  BY DEF ListsIInv, CacheFits
<1> QED BY <1>2, <1>4, <1>5 DEF ListsIInv

\* A section or a page that opens shows nothing from before.
LEMMA MountedShows ==
  ASSUME NEW q \in ListQuery, q.section = "accounts" => q.view = "verified"
  PROVE  PageShows(Mounted(q), cache) /\ Mounted(q).phase = "skeleton" /\ Mounted(q).asked = q
<1>1. Mounted(q) \in ListPages
  BY DEF Mounted, ListPages
<1>2. /\ Mounted(q).phase = "skeleton" /\ Mounted(q).asked = q /\ Mounted(q).shown = q
      /\ Mounted(q).control = 1
  BY DEF Mounted
<1>3. Views[1] = "verified"
  BY DEF Views
<1> QED BY <1>1, <1>2, <1>3 DEF PageShows

\* What a section opens with is a query.
LEMMA OpenedIsAQuery ==
  ASSUME NEW section \in {"accounts", "players", "keys"}
  PROVE  /\ OpenedSection(section) \in ListQuery /\ OpenedSection(section).view = "verified"
         /\ OpenedSection(section).section = section
BY DEF OpenedSection, Asked, ListQuery, Views

\* A player's page is a query.
LEMMA PlayerIsAQuery ==
  ASSUME NEW p \in Player
  PROVE  PlayerPage(p) \in ListQuery /\ PlayerPage(p).section = "player" /\ PlayerPage(p).of = p
BY DEF PlayerPage, ListQuery

-------------------------------------------------------------------------------
\* What LoadingKeepsTheList says of a step.
KeepsTheList ==
  page.phase = "list" /\ page'.phase = "skeleton" =>
    page'.shown.section # page.shown.section \/ page'.shown.of # page.shown.of

\* What SaysIfMoreMatch says of a step.
ReadsWhole ==
  \A q \in DOMAIN reading \cap DOMAIN reading' :
    reading[q].step = "asked" /\ reading'[q].step = "read" => Whole(stored, q, reading'[q].page)

\* A step of the page keeps the invariant, and is one that the properties allow.
StepFits == ListsIInv' /\ KeepsTheList /\ ReadsWhole

\* Requests that stay as they were aren't answered.
LEMMA UnansweredReads == Unanswered => ReadsWhole
BY DEF Unanswered, ReadsWhole

\* The page's first section shows nothing yet, and each account has its player.
LEMMA ListsInitInv == ListsInit => ListsIInv
<1> SUFFICES ASSUME ListsInit PROVE ListsIInv
  OBVIOUS
<1>1. PICK section \in listScene.sections :
        /\ page = Mounted(OpenedSection(section))
        /\ reading = [q \in {OpenedSection(section)} |-> [step |-> "asked", of |-> q]]
  BY DEF ListsInit
<1>2. /\ listScene.verified \subseteq Account /\ listScene.self \in [Account -> Player]
      /\ listScene.owner \in [Key -> Account] /\ section \in {"accounts", "players", "keys"}
      /\ \A a, b \in Account : listScene.self[a] = listScene.self[b] => a = b
  BY ListsAssumption DEF ListsInit
<1>3. RowsOK(stored)
  <2>1. /\ stored.verified = listScene.verified /\ stored.adopted = {}
        /\ stored.self = listScene.self
        /\ stored.managed = [a \in Account |-> {}] /\ stored.mergedInto = [p \in Player |-> None]
        /\ stored.owner = listScene.owner /\ stored.revokedBy = [k \in Key |-> None]
    BY DEF ListsInit
  <2>2. DbTypes(stored)
    BY <1>2 DEF ListsInit, DbTypes
  <2>3. PlayersOwned(stored)
    <3>1. \A a \in Account : Own(stored, a) = {listScene.self[a]}
      BY <2>1 DEF Own
    <3>2. \A p \in Player : stored.mergedInto[p] = None /\ None # p
      BY <2>1, ListsAssumption
    <3> QED BY <1>2, <2>1, <3>1, <3>2 DEF PlayersOwned
  <2> QED BY <2>1, <2>2, <2>3 DEF RowsOK
<1>4. CacheFits(cache, failed)
  BY DEF ListsInit, CacheFits
<1>5. ReadingFits(reading)
  BY <1>1, <1>2, OpenedIsAQuery DEF ReadingFits
<1>6. PageShows(page, cache)
  BY <1>1, <1>2, OpenedIsAQuery, MountedShows
<1> QED BY <1>3, <1>4, <1>5, <1>6 DEF ListsIInv

\* Another view is asked for, and its radio is on.
LEMMA onViewFits == ASSUME ListsIInv, NEW i \in 1..3, onView(i) PROVE StepFits
<1> DEFINE asked == [page.asked EXCEPT !.view = Views[i]]
           p == Selected(Transitioned(asked), i)
<1>1. /\ Renders(p, cache, failed) /\ UNCHANGED <<stored, cache, failed>>
      /\ page.asked.section = "accounts"
      /\ PageShows(page, cache)
  BY DEF onView, Press, ListsIInv
<1>2. /\ page \in ListPages /\ page.asked \in ListQuery /\ page.shown \in ListQuery
      /\ Views[i] \in {"verified", "guests", "all"}
  BY <1>1 DEF PageShows, ListPages, Views
<1>3. asked \in ListQuery /\ asked.section = "accounts" /\ asked.view = Views[i]
  BY <1>1, <1>2 DEF ListQuery, PlayerPage
<1>4. /\ p = [page EXCEPT !.asked = asked, !.control = i]
  BY <1>2 DEF Selected, Transitioned, ListPages
<1> HIDE DEF asked, p
<1>5. /\ p \in ListPages /\ p.asked = asked /\ p.control = i /\ p.shown = page.shown
      /\ p.phase = page.phase
  BY <1>2, <1>3, <1>4 DEF ListPages
<1>6. PageShows(p, cache)
  BY <1>1, <1>3, <1>5 DEF PageShows
<1>7. ListsIInv' /\ Unanswered /\ (page.phase = "list" => page'.phase # "skeleton")
  BY <1>1, <1>5, <1>6, RendersKeeps
<1> QED BY <1>7, UnansweredReads DEF StepFits, KeepsTheList

\* Another search is asked for.
LEMMA onSubmitFits ==
  ASSUME ListsIInv, NEW text \in SearchText \cup {Blank}, onSubmit(text)
  PROVE  StepFits
<1> DEFINE asked == [page.asked EXCEPT !.text = text]
           p == Transitioned(asked)
<1>1. /\ Renders(p, cache, failed) /\ UNCHANGED <<stored, cache, failed>>
      /\ page.asked.section # "player"
      /\ PageShows(page, cache)
  BY DEF onSubmit, Press, ListsIInv
<1>2. page \in ListPages /\ page.asked \in ListQuery /\ page.shown \in ListQuery
  BY <1>1 DEF PageShows, ListPages
<1>3. asked \in ListQuery /\ asked.section = page.asked.section /\ asked.view = page.asked.view
  BY <1>1, <1>2 DEF ListQuery, PlayerPage
<1>4. p = [page EXCEPT !.asked = asked]
  BY DEF Transitioned
<1> HIDE DEF asked, p
<1>5. /\ p \in ListPages /\ p.asked = asked /\ p.control = page.control
      /\ p.shown = page.shown /\ p.phase = page.phase
  BY <1>2, <1>3, <1>4 DEF ListPages
<1>6. PageShows(p, cache)
  BY <1>1, <1>3, <1>5 DEF PageShows
<1>7. ListsIInv' /\ Unanswered /\ (page.phase = "list" => page'.phase # "skeleton")
  BY <1>1, <1>5, <1>6, RendersKeeps
<1> QED BY <1>7, UnansweredReads DEF StepFits, KeepsTheList

\* Another section has nothing to keep.
LEMMA OpenTabFits ==
  ASSUME ListsIInv, NEW section \in {"accounts", "players", "keys"}, OpenTab(section)
  PROVE  StepFits
<1> DEFINE q == OpenedSection(section)
<1>1. /\ Renders(Mounted(q), cache, failed) /\ UNCHANGED <<stored, cache, failed>>
      /\ section # page.shown.section
  BY DEF OpenTab, Reopened, Press, ListsIInv, PageShows
<1>2. /\ q \in ListQuery /\ q.section = section /\ PageShows(Mounted(q), cache)
      /\ Mounted(q).phase = "skeleton" /\ Mounted(q).asked = q
  BY OpenedIsAQuery, MountedShows
<1> HIDE DEF q
<1>3. ListsIInv' /\ Unanswered /\ page'.shown = q
  BY <1>1, <1>2, RendersKeeps
<1> QED BY <1>1, <1>2, <1>3, UnansweredReads DEF StepFits, KeepsTheList

\* A player's page is of another player than the one it was opened from.
LEMMA OpenPlayerFits == ASSUME ListsIInv, NEW p \in Player, OpenPlayer(p) PROVE StepFits
<1> DEFINE q == PlayerPage(p)
<1>1. /\ page.phase = "list" /\ UNCHANGED <<stored, cache, failed>> /\ PageShows(page, cache)
      /\ CacheFits(cache, failed)
  BY DEF OpenPlayer, Press, ListsIInv
<1>2. PICK row \in Listed.rows :
       \/ /\ page.shown.section = "players" /\ row.of = p
          /\ Renders(Mounted(q), cache, failed)
       \/ /\ page.shown.section = "player" /\ row.mergedInto = p
          /\ \/ Renders(Mounted(q), cache, failed)
             \/ Renders([page EXCEPT !.asked = q], cache, failed)
  BY DEF OpenPlayer
<1>3. /\ q \in ListQuery /\ q.section = "player" /\ q.of = p /\ PageShows(Mounted(q), cache)
      /\ Mounted(q).phase = "skeleton" /\ Mounted(q).asked = q
  BY PlayerIsAQuery, MountedShows
<1>4. RowFits(page.shown, row)
  BY <1>1, <1>2 DEF Listed, queryKey, PageShows, CacheFits, PageFits
<1> HIDE DEF q
<1>5. CASE Renders(Mounted(q), cache, failed)
  <2>1. ListsIInv' /\ Unanswered /\ page'.shown = q
    BY <1>1, <1>3, <1>5, RendersKeeps
  <2>2. q.section # page.shown.section \/ q.of # page.shown.of
    BY <1>2, <1>3, <1>4 DEF RowFits
  <2> QED BY <2>1, <2>2, UnansweredReads DEF StepFits, KeepsTheList
<1>6. CASE page.shown.section = "player" /\ Renders([page EXCEPT !.asked = q], cache, failed)
  <2> DEFINE r == [page EXCEPT !.asked = q]
  <2>1. r \in ListPages /\ r.asked = q /\ r.shown = page.shown /\ r.phase = page.phase
    BY <1>1, <1>3 DEF PageShows, ListPages
  <2> HIDE DEF r
  <2>2. PageShows(r, cache)
    BY <1>1, <1>3, <1>6, <2>1 DEF PageShows
  <2>3. Renders(r, cache, failed)
    BY <1>6 DEF r
  <2>4. ListsIInv' /\ Unanswered /\ page'.phase # "skeleton"
    BY <1>1, <2>1, <2>2, <2>3, RendersKeeps
  <2> QED BY <2>4, UnansweredReads DEF StepFits, KeepsTheList
<1> QED BY <1>2, <1>5, <1>6

\* Try again: the page was an alert, not a list.
LEMMA TryAgainFits == ListsIInv /\ TryAgain => StepFits
<1> SUFFICES ASSUME ListsIInv, TryAgain PROVE StepFits
  OBVIOUS
<1> DEFINE p == [page EXCEPT !.phase = "skeleton"]
<1>1. /\ page.phase = "error" /\ failed' \subseteq failed /\ Renders(p, cache, failed')
      /\ UNCHANGED <<stored, cache>> /\ PageShows(page, cache)
  BY DEF TryAgain, Press, ListsIInv
<1>2. /\ p \in ListPages /\ p.asked = page.asked /\ p.shown = page.shown
      /\ p.control = page.control
      /\ p.phase = "skeleton"
  BY <1>1 DEF PageShows, ListPages
<1> HIDE DEF p
<1>3. PageShows(p, cache)
  BY <1>1, <1>2 DEF PageShows
<1>4. ListsIInv' /\ Unanswered
  BY <1>1, <1>3, RendersKeeps
<1> QED BY <1>1, <1>4, UnansweredReads DEF StepFits, KeepsTheList

\* The list that shows is read again.
LEMMA ReadAgainFits == ListsIInv /\ ReadAgain => StepFits
<1> SUFFICES ASSUME ListsIInv, ReadAgain PROVE StepFits
  OBVIOUS
<1>1. /\ page.shown \notin DOMAIN reading /\ UNCHANGED <<stored, cache, failed, page>>
      /\ reading' = Put(reading, page.shown, [step |-> "asked", of |-> page.shown])
      /\ page.shown \in ListQuery
  BY DEF ReadAgain, Press, queryKey, ListsIInv, PageShows, ListPages
<1>2. ReadingFits(reading') /\ Unanswered
  BY <1>1, AskedFits DEF ListsIInv, Unanswered
<1>3. ListsIInv'
  BY <1>1, <1>2 DEF ListsIInv
<1> QED BY <1>1, <1>2, <1>3, UnansweredReads DEF StepFits, KeepsTheList

\* What is forgotten doesn't show.
LEMMA ForgetFits == ASSUME ListsIInv, NEW q, Forget(q) PROVE StepFits
<1>1. /\ cache' = Drop(cache, q) /\ failed' = failed \ {q} /\ UNCHANGED <<stored, reading, page>>
      /\ q # page.shown
  BY DEF Forget, queryKey
<1>2. DOMAIN cache' = DOMAIN cache \ {q} /\ \A x \in DOMAIN cache' : cache'[x] = cache[x]
  BY <1>1 DEF Drop
<1>3. CacheFits(cache', failed')
  BY <1>1, <1>2 DEF ListsIInv, CacheFits
<1>4. PageShows(page, cache')
  BY <1>1, <1>2 DEF ListsIInv, PageShows
<1>5. Unanswered
  BY <1>1 DEF Unanswered
<1>6. ListsIInv'
  BY <1>1, <1>3, <1>4 DEF ListsIInv
<1> QED BY <1>1, <1>5, <1>6, UnansweredReads DEF StepFits, KeepsTheList

\* The API reads a page of what matches, and whether there is more.
LEMMA ReadByApiFits == ASSUME ListsIInv, NEW q \in DOMAIN reading, ReadByApi(q) PROVE StepFits
<1> DEFINE answer == [step |-> "read", of |-> reading[q].of,
                      page |-> ReadPage(stored, reading[q].of)]
<1>1. /\ reading' = [reading EXCEPT ![q] = answer] /\ UNCHANGED <<stored, cache, failed, page>>
      /\ ReadingFits(reading) /\ RowsOK(stored)
  BY DEF ReadByApi, ListsIInv
<1>2. reading[q].of = q /\ q \in ListQuery
  BY <1>1 DEF ReadingFits
<1>3. PageFits(q, ReadPage(stored, q)) /\ Whole(stored, q, ReadPage(stored, q))
  BY <1>1, <1>2, ReadPageFits
<1>4. answer.of = q /\ answer.page = ReadPage(stored, q)
  BY <1>2
<1> HIDE DEF answer
<1>5. /\ DOMAIN reading' = DOMAIN reading /\ reading'[q] = answer
      /\ \A x \in DOMAIN reading \ {q} : reading'[x] = reading[x]
  BY <1>1
<1>6. ReadingFits(reading')
  BY <1>1, <1>3, <1>4, <1>5 DEF ReadingFits
<1>7. ReadsWhole
  BY <1>3, <1>4, <1>5 DEF ReadsWhole
<1>8. ListsIInv'
  BY <1>1, <1>6 DEF ListsIInv
<1> QED BY <1>1, <1>7, <1>8 DEF StepFits, KeepsTheList

\* A request that isn't on its way any more leaves the others.
LEMMA DroppedFits ==
  ASSUME ReadingFits(reading), NEW q, reading' = Drop(reading, q)
  PROVE  ReadingFits(reading') /\ ReadsWhole
<1>1. /\ DOMAIN reading' = DOMAIN reading \ {q}
      /\ \A x \in DOMAIN reading' : reading'[x] = reading[x]
  BY DEF Drop
<1> QED BY <1>1 DEF ReadingFits, ReadsWhole

\* An answer brings what its query asks for.
LEMMA ArriveFits == ASSUME ListsIInv, NEW q \in DOMAIN reading, Arrive(q) PROVE StepFits
<1>1. /\ reading[q].step = "read" /\ cache' = Put(cache, q, reading[q].page)
      /\ failed' = failed \ {q}
      /\ page' = Rendered(page, cache', failed') /\ reading' = Drop(reading, q)
      /\ UNCHANGED stored
  BY DEF Arrive
<1>2. q \in ListQuery /\ PageFits(q, reading[q].page)
  BY <1>1 DEF ListsIInv, ReadingFits
<1>3. /\ DOMAIN cache' = DOMAIN cache \cup {q} /\ cache'[q] = reading[q].page
      /\ \A x \in DOMAIN cache \ {q} : cache'[x] = cache[x]
  BY <1>1 DEF Put
<1>4. CacheFits(cache', failed')
  BY <1>1, <1>2, <1>3 DEF ListsIInv, CacheFits
<1>5. PageShows(page, cache')
  BY <1>3 DEF ListsIInv, PageShows
<1>6. PageShows(page', cache') /\ (page.phase = "list" => page'.phase # "skeleton")
  BY <1>1, <1>5, RenderedShows
<1>7. ReadingFits(reading') /\ ReadsWhole
  BY <1>1, DroppedFits DEF ListsIInv
<1>8. ListsIInv'
  BY <1>1, <1>4, <1>6, <1>7 DEF ListsIInv
<1> QED BY <1>6, <1>7, <1>8 DEF StepFits, KeepsTheList

\* A request that failed leaves what the client has.
LEMMA FailFits == ASSUME ListsIInv, NEW q \in DOMAIN reading, Fail(q) PROVE StepFits
<1>1. /\ failed' = Errors(q) /\ page' = Rendered(page, cache, failed')
      /\ reading' = Drop(reading, q)
      /\ UNCHANGED <<stored, cache>>
  BY DEF Fail
<1>2. CacheFits(cache, failed')
  BY <1>1 DEF ListsIInv, CacheFits, Errors
<1>3. PageShows(page', cache) /\ (page.phase = "list" => page'.phase # "skeleton")
  BY <1>1, RenderedShows DEF ListsIInv
<1>4. ReadingFits(reading') /\ ReadsWhole
  BY <1>1, DroppedFits DEF ListsIInv
<1>5. ListsIInv'
  BY <1>1, <1>2, <1>3, <1>4 DEF ListsIInv
<1> QED BY <1>3, <1>4, <1>5 DEF StepFits, KeepsTheList

\* What happens elsewhere doesn't reach the page by itself.
LEMMA ElsewhereFits == ListsIInv /\ (SignsIn \/ Merges \/ Revokes \/ SignsOut) => StepFits
<1> SUFFICES ASSUME ListsIInv, SignsIn \/ Merges \/ Revokes \/ SignsOut PROVE StepFits
  OBVIOUS
<1>1. UNCHANGED <<cache, failed, reading, page>>
  BY DEF SignsIn, Merges, Revokes, SignsOut, Happens
<1>2. RowsOK(stored')
  BY ElsewhereKeepsRows DEF ListsIInv
<1>3. ListsIInv' /\ Unanswered
  BY <1>1, <1>2 DEF ListsIInv, Unanswered
<1> QED BY <1>1, <1>3, UnansweredReads DEF StepFits, KeepsTheList

\* Every step fits.
LEMMA ListsSteps == ListsIInv /\ ListsNext => StepFits
<1> SUFFICES ASSUME ListsIInv, ListsNext PROVE StepFits
  OBVIOUS
<1>1. ASSUME NEW q \in DOMAIN reading, ReadByApi(q) \/ Arrive(q) \/ Fail(q) PROVE StepFits
  BY <1>1, ReadByApiFits, ArriveFits, FailFits
<1>2. CASE TryAgain \/ ReadAgain \/ SignsIn \/ Merges \/ Revokes \/ SignsOut
  BY <1>2, TryAgainFits, ReadAgainFits, ElsewhereFits
<1> QED
  BY <1>1, <1>2, onViewFits, onSubmitFits, OpenTabFits, OpenPlayerFits, ForgetFits DEF ListsNext

\* Nothing that the page shows changes in a stuttering step.
LEMMA ListsStutter == ListsIInv /\ UNCHANGED listVars => ListsIInv'
BY DEF ListsIInv, listVars

\* The inductive invariant holds, for any accounts, players, keys and searches.
THEOREM ListsSpecIInv == ListsSpec => []ListsIInv
<1>1. ListsIInv /\ [ListsNext]_listVars => ListsIInv'
  BY ListsSteps, ListsStutter DEF StepFits
<1> QED BY <1>1, ListsInitInv, PTL DEF ListsSpec

\* What the invariant says of a list that shows, and of its control.
LEMMA ListsIInvSafe ==
  ListsIInv => ListsTypeOK /\ ListIsOfTheNamed /\ ControlNamesTheView /\ RevokerIsNamed
<1> SUFFICES ASSUME ListsIInv
             PROVE  ListsTypeOK /\ ListIsOfTheNamed /\ ControlNamesTheView /\ RevokerIsNamed
  OBVIOUS
<1>1. PageShows(page, cache) /\ CacheFits(cache, failed)
  BY DEF ListsIInv
<1>2. ListsTypeOK
  BY <1>1 DEF ListsTypeOK, PageShows, ListPages, queryKey, CacheFits, PageFits
<1>3. ListIsOfTheNamed
  <2> SUFFICES ASSUME page.phase = "list", NEW row \in Listed.rows
               PROVE  /\ page.shown.section = "accounts" =>
                           /\ row.guest => page.shown.view # "verified"
                           /\ ~row.guest => page.shown.view # "guests"
                      /\ page.shown.section = "players" =>
                           page.shown.text = Blank \/ row.of \in Holding[page.shown.text]
                      /\ page.shown.section = "keys" => "owner" \in DOMAIN row
                      /\ page.shown.section = "player" => row.of = page.shown.of
    BY DEF ListIsOfTheNamed
  <2>1. RowFits(page.shown, row)
    BY <1>1 DEF PageShows, Listed, queryKey, CacheFits, PageFits
  <2> QED BY <2>1 DEF RowFits
<1>4. ControlNamesTheView
  BY <1>1 DEF PageShows, ControlNamesTheView
<1>5. RevokerIsNamed
  BY <1>1 DEF RevokerIsNamed, CacheFits, PageFits, RowFits
<1> QED BY <1>2, <1>3, <1>4, <1>5

\* A view or a search keeps the list until the next one is there.
THEOREM ListsStay == ListsSpec => LoadingKeepsTheList
<1>1. ListsIInv /\ [ListsNext]_listVars =>
        [page.phase = "list" /\ page'.phase = "skeleton" =>
           page'.shown.section # page.shown.section \/ page'.shown.of # page.shown.of]_listVars
  BY ListsSteps DEF StepFits, KeepsTheList
<1> QED BY <1>1, ListsSpecIInv, PTL DEF ListsSpec, LoadingKeepsTheList

\* A page holds every match of its moment, or is full and says that there are more.
THEOREM ListsAreWhole == ListsSpec => SaysIfMoreMatch
<1>1. ListsIInv /\ [ListsNext]_listVars =>
        [\A q \in DOMAIN reading \cap DOMAIN reading' :
           reading[q].step = "asked" /\ reading'[q].step = "read" =>
             LET got == {row.of : row \in reading'[q].page.rows} IN
             IF reading'[q].page.more
             THEN Cardinality(got) = PageSize /\ got # Matching(stored, q)
             ELSE got = Matching(stored, q)]_listVars
  BY ListsSteps DEF StepFits, ReadsWhole, Whole
<1> QED BY <1>1, ListsSpecIInv, PTL DEF ListsSpec, SaysIfMoreMatch

\* A list is of the view and search that the page names, whole or marked as more,
\* and stays until the next is there, for any accounts, players, keys and searches.
THEOREM ListsAreSafe == ListsSpec => ListsSafe
<1>1. ListsSpec => [](ListsTypeOK /\ ListIsOfTheNamed /\ ControlNamesTheView /\ RevokerIsNamed)
  BY ListsIInvSafe, ListsSpecIInv, PTL
<1> QED BY <1>1, ListsStay, ListsAreWhole DEF ListsSafe
-------------------------------------------------------------------------------
\* The tooltip: what TipsInv says is inductive.
LEMMA TipsStep == TipsInv /\ [TipsNext]_tipVars => TipsInv'
<1> SUFFICES ASSUME TipsInv, [TipsNext]_tipVars
             PROVE  TipsInv'
  OBVIOUS
<1> USE TooltipsAssumption DEF TipsInv, ShownOnItsTrigger, HiddenStaysHidden
<1>1. CASE Rested
  BY <1>1 DEF Rested
<1>2. CASE leave
  BY <1>2 DEF leave, Left
<1>3. CASE Blur
  BY <1>3 DEF Blur, hide
<1>4. CASE Hides
  BY <1>4 DEF Hides, hide
<1>5. ASSUME NEW t \in Trigger, hover(t)
      PROVE  TipsInv'
  BY <1>5 DEF hover
<1>6. ASSUME NEW t \in Trigger, focus(t)
      PROVE  TipsInv'
  BY <1>6 DEF focus, hide
<1>7. CASE UNCHANGED tipVars
  BY <1>7 DEF tipVars
<1> QED BY <1>1, <1>2, <1>3, <1>4, <1>5, <1>6, <1>7 DEF TipsNext

\* The tooltip that shows, or is to come, is of the trigger that the pointer
\* or the focus is on, and one that was hidden stays so (TooltipProvider.tsx).
LEMMA TipsHold == TipsSpec => []TipsInv
<1>1. TipsInit => TipsInv
  BY DEF TipsInit, TipsInv, ShownOnItsTrigger, HiddenStaysHidden
<1> QED BY <1>1, TipsStep, PTL DEF TipsSpec
-------------------------------------------------------------------------------
\* Where a roving group's keys lead is in the group.
LEMMA KeysStayInside ==
  ASSUME NEW index \in Nat \ {0}, NEW n \in Nat \ {0}
  PROVE  /\ keyTargets(index, n) \subseteq 1..n
         /\ (index - 1) % n \in 0..n - 1
  BY DEF keyTargets

\* The menubar: a command with the focus is of the open menu.
BarInv ==
  /\ bar \in [current : Menus, opened : Menus \cup {0}] /\ TabStopIsOpened
  /\ at \in (Menus \cup {0}) \X Nat
  /\ at[1] = 0 => at[2] = 0
  /\ at[2] # 0 => at[1] = bar.opened /\ at[2] \in 1..Commands[at[1]]

\* What the top menus and their commands are.
LEMMA MenusAre ==
  /\ Menus = 1..Len(Commands) /\ Len(Commands) \in Nat \ {0} /\ \A m \in Menus : Commands[m] \in Nat \ {0}
  BY MenubarAssumption DEF Menus

\* Opening a menu, which gives one of its commands, or its top, the focus.
LEMMA OpensOK ==
  ASSUME BarInv, NEW m \in Menus, NEW command \in 0..Commands[m], OpenAt(m, command)
  PROVE  BarInv' /\ at' # Elsewhere
  BY MenusAre DEF BarInv, OpenAt, Showing, Focus, TabStopIsOpened, Elsewhere

\* Closing the open menu, which gives its top the focus.
LEMMA ClosesOK ==
  ASSUME BarInv, CloseToTop
  PROVE  BarInv' /\ at' # Elsewhere
  BY MenusAre DEF BarInv, CloseToTop, Focus, Back, TabStopIsOpened, Elsewhere

\* Where a top's key leads.
LEMMA StepsOK ==
  ASSUME BarInv, NEW m \in Menus, StepTo(m)
  PROVE  BarInv' /\ at' # Elsewhere
<1>1. CASE OpenFirst(m)
  BY <1>1, OpensOK, MenusAre DEF OpenFirst
<1>2. CASE bar.opened = 0 /\ bar' = [bar EXCEPT !.current = m] /\ Focus(m, 0, 0)
  BY <1>2, MenusAre DEF BarInv, Focus, TabStopIsOpened, Elsewhere
<1> QED BY <1>1, <1>2 DEF StepTo

\* The keys keep the invariant, and the focus in the bar.
LEMMA BarKeys ==
  ASSUME BarInv, TopKey \/ CommandKey
  PROVE  BarInv' /\ at' # Elsewhere
<1>1. at \in (Menus \cup {0}) \X Nat
  BY DEF BarInv
<1>2. CASE TopKey
  <2>1. at[1] \in Menus /\ at[1] \in Nat \ {0}
    BY <1>1, <1>2, MenusAre DEF TopKey, OnTop
  <2>2. ASSUME NEW m \in keyTargets(at[1], Len(Commands)), StepTo(m)
        PROVE  BarInv' /\ at' # Elsewhere
    <3>1. m \in Menus
      BY <2>1, KeysStayInside, MenusAre
    <3> QED BY <2>2, <3>1, StepsOK
  <2>3. CASE OpenFirst(at[1]) \/ OpenAt(at[1], Commands[at[1]])
    <3>1. 1 \in 0..Commands[at[1]] /\ Commands[at[1]] \in 0..Commands[at[1]]
      BY <2>1, MenusAre
    <3> QED BY <2>1, <2>3, <3>1, OpensOK DEF OpenFirst
  <2> QED BY <1>2, <2>2, <2>3, ClosesOK DEF TopKey
<1>3. CASE CommandKey
  <2>1. at[1] = bar.opened /\ at[1] \in Menus /\ at[2] \in 1..Commands[at[1]] /\ at[1] \in Nat
    BY <1>1, <1>3, MenusAre DEF BarInv, CommandKey, OnCommand
  <2>2. ASSUME NEW command \in keyTargets(at[2], Commands[at[1]]),
               Focus(at[1], command, bar.opened), UNCHANGED bar
        PROVE  BarInv' /\ at' # Elsewhere
    <3>1. at[2] \in Nat \ {0} /\ Commands[at[1]] \in Nat \ {0}
      BY <2>1, MenusAre
    <3>2. command \in 1..Commands[at[1]]
      BY <2>2, <3>1, KeysStayInside
    <3> QED BY <2>1, <2>2, <3>2, MenusAre DEF BarInv, Focus, TabStopIsOpened, Elsewhere
  <2>3. ASSUME NEW m \in Nat \ {0}, OpenFirst(wrap(m))
        PROVE  BarInv' /\ at' # Elsewhere
    <3>1. wrap(m) \in Menus
      BY KeysStayInside, MenusAre DEF wrap
    <3>2. 1 \in 0..Commands[wrap(m)]
      BY <3>1, MenusAre
    <3> QED BY <2>3, <3>1, <3>2, OpensOK DEF OpenFirst
  <2>4. at[1] + 1 \in Nat \ {0} /\ at[1] + Len(Commands) - 1 \in Nat \ {0}
    BY <2>1, MenusAre
  <2> QED BY <1>3, <2>2, <2>3, <2>4, ClosesOK DEF CommandKey
<1> QED BY <1>2, <1>3

\* No step breaks the menubar's invariant.
LEMMA BarStep == BarInv /\ [MenubarNext]_menubarVars => BarInv'
<1> SUFFICES ASSUME BarInv, [MenubarNext]_menubarVars
             PROVE  BarInv'
  OBVIOUS
<1>1. CASE TopKey \/ CommandKey
  BY <1>1, BarKeys
<1>2. CASE TabKey
  BY <1>2, MenusAre DEF TabKey, BarInv, TabStopIsOpened, OnCommand, Elsewhere
<1>3. CASE ClickCommand
  BY <1>3, ClosesOK DEF ClickCommand
<1>4. CASE PressDivider \/ PressOutside
  BY <1>4, MenusAre DEF PressDivider, PressOutside, BarInv, TabStopIsOpened, Elsewhere
<1>5. ASSUME NEW m \in Menus, Hover(m) \/ ClickTop(m)
      PROVE  BarInv'
  <2>1. 1 \in 0..Commands[m]
    BY MenusAre
  <2> QED BY <1>5, <2>1, OpensOK, ClosesOK DEF Hover, ClickTop, OpenFirst
<1>6. ASSUME NEW m \in Menus, PressTop(m)
      PROVE  BarInv'
  BY <1>6, MenusAre DEF PressTop, Focus, BarInv, TabStopIsOpened
<1>7. ASSUME NEW command, PressCommand(command)
      PROVE  BarInv'
  BY <1>7, MenusAre DEF PressCommand, Focus, BarInv, TabStopIsOpened
<1>8. CASE UNCHANGED menubarVars
  BY <1>8 DEF menubarVars, BarInv, TabStopIsOpened
<1> QED BY <1>1, <1>2, <1>3, <1>4, <1>5, <1>6, <1>7, <1>8 DEF MenubarNext

\* The open menu has the tab stop, and no key but Tab leaves the focus on
\* nothing (Menubar.tsx, Menu.tsx).
LEMMA MenubarHolds == MenubarSpec => MenubarSafe
<1>1. MenubarInit => BarInv
  BY MenusAre DEF MenubarInit, BarInv, TabStopIsOpened, Elsewhere
<1>2. BarInv /\ [MenubarNext]_menubarVars => [TopKey \/ CommandKey => at' # Elsewhere]_menubarVars
  BY BarKeys
<1>3. BarInv => TabStopIsOpened
  BY DEF BarInv
<1> QED BY <1>1, <1>2, <1>3, BarStep, PTL DEF MenubarSpec, MenubarSafe, KeysKeepTheFocus
-------------------------------------------------------------------------------
\* The account menu: what shows, and the requests to sign out.
MenuInv ==
  /\ menu \in [open : BOOLEAN, asking : BOOLEAN] /\ ~(menu.open /\ menu.asking)
  /\ outs \in Seq({"pending", "done", "failed"})

\* The latest request is of one of these.
LEMMA LatestIs ==
  ASSUME MenuInv
  PROVE  latest \in {"none", "pending", "done", "failed"}
  BY DEF MenuInv, latest, Last

\* No step breaks the account menu's invariant, and the steps keep its promises.
LEMMA MenuStep ==
  ASSUME MenuInv, UserMenuNext
  PROVE  /\ MenuInv'
         /\ Len(outs') > Len(outs) /\ account.guest => menu.asking
         /\ Len(outs') > Len(outs) /\ ~menu.asking => latest \in {"none", "failed"}
         /\ EscapeMenu \/ KeepPlaying => on' = "chip"
<1> DEFINE Goal ==
      /\ MenuInv'
      /\ Len(outs') > Len(outs) => ~account.guest \/ menu.asking
      /\ Len(outs') > Len(outs) => menu.asking \/ latest \in {"none", "failed"}
<1>1. ASSUME UNCHANGED outs, menu' \in [open : BOOLEAN, asking : BOOLEAN], ~(menu'.open /\ menu'.asking)
      PROVE  Goal
  BY <1>1 DEF MenuInv
<1> HIDE DEF Goal
<1>2. EscapeMenu \/ KeepPlaying => on' = "chip"
  BY DEF EscapeMenu, KeepPlaying, Closing, Becomes, Fixed
<1> SUFFICES Goal
  BY <1>2 DEF Goal, MenuInv
<1>3. CASE PressChip
  BY <1>1, <1>3 DEF PressChip, Becomes, MenuInv
<1>4. CASE EscapeMenu \/ KeepPlaying
  BY <1>1, <1>4 DEF EscapeMenu, KeepPlaying, Becomes, MenuInv
<1>5. CASE MenuKey \/ FollowSignIn \/ BrowserLeaves \/ LayoutChanges
  BY <1>1, <1>5 DEF MenuKey, FollowSignIn, BrowserLeaves, LayoutChanges, MenuInv
<1>6. CASE FocusChip \/ FollowLink
  BY <1>1, <1>6 DEF FocusChip, FollowLink, Becomes, MenuInv
<1>7. ASSUME NEW press \in BOOLEAN, FocusElsewhere(press)
      PROVE  Goal
  BY <1>1, <1>7 DEF FocusElsewhere, Becomes, MenuInv
<1>8. CASE PressSignOut
  <2>1. CASE AsksFirst /\ UNCHANGED outs /\ Becomes([open |-> FALSE, asking |-> TRUE], "dialog")
    BY <1>1, <2>1 DEF Becomes
  <2>2. CASE ~AsksFirst /\ signOut /\ Becomes(menu, "signOut") /\ ~leaving
    BY <2>2, LatestIs DEF AsksFirst, signOut, Becomes, leaving, MenuInv, Goal
  <2> QED BY <1>8, <2>1, <2>2 DEF PressSignOut
<1>9. CASE ConfirmSignOut
  BY <1>9 DEF ConfirmSignOut, signOut, MenuInv, Goal
<1>10. CASE SessionChanges
  BY <1>1, <1>10 DEF SessionChanges, MenuInv
<1>11. ASSUME NEW i \in DOMAIN outs, NEW how \in {"done", "failed"}, SignOutAnswers(i, how)
       PROVE  Goal
  BY <1>11 DEF SignOutAnswers, MenuInv, Goal
<1> QED BY <1>3, <1>4, <1>5, <1>6, <1>7, <1>8, <1>9, <1>10, <1>11 DEF UserMenuNext

\* A guest is asked first, one press signs out once, and whoever closes the
\* menu or the dialog by a key is back on the chip (UserMenu.tsx).
LEMMA UserMenuHolds == UserMenuSpec => UserMenuSafe
<1>1. UserMenuInit => MenuInv
  BY DEF UserMenuInit, MenuInv
<1>2. MenuInv /\ [UserMenuNext]_userMenuVars => MenuInv'
  BY MenuStep DEF userMenuVars, MenuInv
<1>3. MenuInv /\ [UserMenuNext]_userMenuVars =>
        /\ [Len(outs') > Len(outs) /\ account.guest => menu.asking]_userMenuVars
        /\ [Len(outs') > Len(outs) /\ ~menu.asking => latest \in {"none", "failed"}]_userMenuVars
        /\ [/\ ~(menu'.open /\ menu'.asking)
            /\ (EscapeMenu \/ KeepPlaying => on' = "chip")]_userMenuVars
  BY MenuStep DEF MenuInv
<1> QED BY <1>1, <1>2, <1>3, PTL
        DEF UserMenuSpec, UserMenuSafe, GuestsAreAsked, MenuSignsOutOnce, ClosesToTheChip
-------------------------------------------------------------------------------
\* The palette: its commands are a list, and the highlight a place in it.
Listings == Seq(UNION {Range(list) : list \in Lists})
Palettes == [open : BOOLEAN, commands : Listings, query : Query, chosen : Nat \ {0}]
PaletteIInv ==
  /\ palette \in Palettes
  /\ listed \in Lists /\ ran \in Nat
  /\ PaletteInv

\* Finitely many commands show, and the highlight is on one if any does.
LEMMA LinesAre ==
  ASSUME PaletteIInv
  PROVE  /\ lines \in Nat /\ (shown # {} => lines # 0)
         /\ active \in Nat \ {0} /\ (lines # 0 => active <= lines)
<1>1. IsFiniteSet(DOMAIN palette.commands)
  <2>1. DOMAIN palette.commands = 1..Len(palette.commands) /\ Len(palette.commands) \in Nat
    BY DEF PaletteIInv, Palettes, Listings
  <2> QED BY <2>1, FS_Interval
<1>2. IsFiniteSet(shown)
  BY <1>1, FS_Subset DEF shown
<1>3. lines \in Nat /\ (lines = 0 <=> shown = {})
  BY <1>2, FS_CardinalityType, FS_EmptySet DEF lines
<1> QED BY <1>3 DEF active, PaletteIInv, Palettes

\* The keys and the pointer leave the highlight on a command that shows.
LEMMA HighlightMoves ==
  ASSUME PaletteIInv, NEW i \in Nat \ {0}, i = 1 \/ i <= lines,
         palette' = [palette EXCEPT !.chosen = i], UNCHANGED <<listed, ran>>
  PROVE  PaletteIInv'
<1>1. UNCHANGED <<palette.open, palette.commands, palette.query>> /\ palette'.chosen = i
  BY DEF PaletteIInv, Palettes
<1>2. lines' = lines
  BY <1>1 DEF lines, shown
<1> QED BY <1>1, <1>2 DEF PaletteIInv, Palettes, PaletteInv, HighlightIsShown, RunsOnce

\* No step breaks the palette's invariant.
LEMMA PaletteStep == PaletteIInv /\ [PaletteNext]_paletteVars => PaletteIInv'
<1> SUFFICES ASSUME PaletteIInv, [PaletteNext]_paletteVars
             PROVE  PaletteIInv'
  OBVIOUS
<1>1. ASSUME NEW text \in Query, OpenPalette(text)
      PROVE  PaletteIInv'
  <2>1. listed \in Listings
    <3>1. listed \in Lists /\ listed \in Seq(Range(listed))
      BY PaletteAssumption DEF PaletteIInv
    <3>2. Range(listed) \subseteq UNION {Range(list) : list \in Lists}
      BY <3>1
    <3> QED BY <3>1, <3>2 DEF Listings
  <2> QED BY <1>1, <2>1 DEF OpenPalette, Opened, PaletteIInv, Palettes, PaletteInv, HighlightIsShown, RunsOnce
<1>2. CASE Shortcut
  BY <1>1, <1>2, PaletteAssumption DEF Shortcut
<1>3. ASSUME palette' = Shut, UNCHANGED listed, ran' = ran \/ (palette.open /\ ran' = ran + 1)
      PROVE  PaletteIInv'
  <2>1. /\ UNCHANGED <<palette.commands, palette.query, palette.chosen>> /\ palette'.open = FALSE
    BY <1>3 DEF PaletteIInv, Palettes, Shut
  <2>2. lines' = lines
    BY <2>1 DEF lines, shown
  <2>3. PaletteInv'
    BY <1>3, <2>1, <2>2 DEF PaletteIInv, PaletteInv, HighlightIsShown, RunsOnce
  <2>4. palette' \in Palettes
    BY <1>3 DEF Shut, PaletteIInv, Palettes
  <2> QED BY <1>3, <2>3, <2>4 DEF PaletteIInv
<1>4. CASE ClosePalette
  BY <1>3, <1>4 DEF ClosePalette, Shut
<1>5. CASE SearchPalette
  <2>1. UNCHANGED <<listed, ran>>
    BY <1>5 DEF SearchPalette
  <2>2. ASSUME NEW text \in Query, Queried(text)
        PROVE  PaletteIInv'
    <3>1. palette'.open = palette.open /\ palette'.chosen = 1
      BY <2>2 DEF Queried, PaletteIInv, Palettes
    <3>2. PaletteInv'
      BY <2>1, <3>1 DEF PaletteIInv, PaletteInv, HighlightIsShown, RunsOnce
    <3>3. palette' \in Palettes
      <4> DEFINE p == [palette EXCEPT !.query = text]
      <4>1. p \in Palettes
        BY DEF PaletteIInv, Palettes
      <4>2. palette' = [p EXCEPT !.chosen = 1]
        BY <2>2 DEF Queried
      <4> HIDE DEF p
      <4> QED BY <4>1, <4>2 DEF Palettes
    <3> QED BY <2>1, <3>2, <3>3 DEF PaletteIInv
  <2>3. ASSUME NEW by \in Nat, Stepped(by)
        PROVE  PaletteIInv'
    <3>1. ((active - 1 + by) % lines) + 1 \in 1..lines
      BY <2>3, LinesAre DEF Stepped
    <3>2. lines \in Nat /\ palette' = [palette EXCEPT !.chosen = ((active - 1 + by) % lines) + 1]
      BY <2>3, LinesAre DEF Stepped
    <3> QED BY <2>1, <3>1, <3>2, HighlightMoves
  <2>4. ASSUME NEW i \in 1..lines, Pointed(i)
        PROVE  PaletteIInv'
    BY <2>1, <2>4, LinesAre, HighlightMoves DEF Pointed
  <2>5. ASSUME Stepped(lines - 1)
        PROVE  lines - 1 \in Nat
    BY <2>5, LinesAre DEF Stepped
  <2> QED BY <1>5, <2>2, <2>3, <2>4, <2>5 DEF SearchPalette
<1>6. ASSUME NEW i, RunAt(i)
      PROVE  PaletteIInv'
  BY <1>3, <1>6 DEF RunAt
<1>7. CASE RunTimer \/ PageChanges \/ UNCHANGED paletteVars
  BY <1>7 DEF RunTimer, PageChanges, paletteVars, PaletteIInv, PaletteInv, HighlightIsShown, lines, shown, RunsOnce
<1> QED BY <1>1, <1>2, <1>4, <1>5, <1>6, <1>7 DEF PaletteNext

\* The highlight is on the first command, or one that shows, and an opening
\* runs one command at most (CommandPalette.tsx).
LEMMA PaletteHolds == PaletteSpec => []PaletteInv
<1>1. PaletteInit => PaletteIInv
  <2> SUFFICES ASSUME PaletteInit
               PROVE  PaletteIInv
    OBVIOUS
  <2>1. PaletteInv
    <3>1. palette.chosen = 1 /\ ran = 0
      BY DEF PaletteInit
    <3> QED BY <3>1 DEF PaletteInv, HighlightIsShown, RunsOnce
  <2>2. <<>> \in Listings
    BY DEF Listings
  <2>3. "" \in Query
    BY PaletteAssumption
  <2>4. palette \in Palettes
    <3>1. \A l \in Listings, text \in Query :
            [open |-> FALSE, commands |-> l, query |-> text, chosen |-> 1] \in Palettes
      BY DEF Palettes
    <3> QED BY <2>2, <2>3, <3>1 DEF PaletteInit
  <2>5. listed \in Lists /\ ran = 0
    BY DEF PaletteInit
  <2> QED BY <2>1, <2>4, <2>5 DEF PaletteIInv
<1>2. PaletteIInv => PaletteInv
  BY DEF PaletteIInv
<1> QED BY <1>1, <1>2, PaletteStep, PTL DEF PaletteSpec
-------------------------------------------------------------------------------
\* Of the places found, an i-th one is there for every i up to their number.
LEMMA IthPlace ==
  ASSUME NEW n \in Nat, NEW S \in SUBSET (1..n), NEW i \in 1..Cardinality(S)
  PROVE  \E place \in S : Cardinality(S \cap 1..place) = i
<1> DEFINE To(p) == S \cap 1..p
           T == {p \in 1..n : Cardinality(To(p)) >= i}
<1>1. IsFiniteSet(S) /\ Cardinality(S) \in Nat
  <2>1. IsFiniteSet(1..n)
    BY FS_Interval
  <2> QED BY <2>1, FS_Subset, FS_CardinalityType
<1>2. \A p \in Nat : IsFiniteSet(To(p)) /\ Cardinality(To(p)) \in Nat
  <2> SUFFICES ASSUME NEW p \in Nat
               PROVE  IsFiniteSet(To(p)) /\ Cardinality(To(p)) \in Nat
    OBVIOUS
  <2>1. To(p) \subseteq S
    OBVIOUS
  <2> QED BY <1>1, <2>1, FS_Subset, FS_CardinalityType
<1>3. i \in Nat \ {0} /\ i <= Cardinality(S)
  BY <1>1
<1>4. /\ To(0) = {} /\ To(n) = S
      /\ \A p \in Nat \ {0} : To(p) = To(p - 1) \cup ({p} \cap S) /\ p \notin To(p - 1)
  <2>1. To(0) = {}
    <3>1. 1..0 = {}
      OBVIOUS
    <3> QED BY <3>1
  <2>2. To(n) = S
    OBVIOUS
  <2>3. ASSUME NEW p \in Nat \ {0}
        PROVE  To(p) = To(p - 1) \cup ({p} \cap S) /\ p \notin To(p - 1)
    <3>1. 1..p = (1..(p - 1)) \cup {p} /\ p \notin 1..(p - 1)
      OBVIOUS
    <3> QED BY <3>1
  <2> QED BY <2>1, <2>2, <2>3
<1> HIDE DEF To
<1>5. n \in T
  BY <1>1, <1>3, <1>4, FS_EmptySet
<1>6. PICK p \in T : \A q \in T : p <= q
  <2> HIDE DEF T
  <2>1. T \in SUBSET Nat
    BY DEF T
  <2> QED BY <1>5, <2>1, SmallestOf
<1>7. p \in Nat \ {0} /\ p \in 1..n /\ Cardinality(To(p)) >= i
  BY <1>6
<1>8. Cardinality(To(p - 1)) < i
  <2>1. CASE p = 1
    BY <1>3, <1>4, <2>1, FS_EmptySet
  <2>2. CASE p # 1
    <3>1. p - 1 \in 1..n /\ p - 1 \notin T /\ p - 1 \in Nat
      BY <1>6, <1>7, <2>2
    <3> QED BY <1>2, <1>3, <3>1
  <2> QED BY <2>1, <2>2
<1>9. p - 1 \in Nat
  BY <1>7
<1>10. p \in S
  <2>1. Cardinality(To(p)) # Cardinality(To(p - 1))
    BY <1>2, <1>3, <1>7, <1>8, <1>9
  <2>2. To(p) # To(p - 1)
    BY <2>1
  <2> QED BY <1>4, <1>7, <2>2
<1>11. Cardinality(To(p)) = Cardinality(To(p - 1)) + 1
  <2>1. To(p) = To(p - 1) \cup {p} /\ p \notin To(p - 1)
    BY <1>4, <1>7, <1>10
  <2> QED BY <1>2, <1>9, <2>1, FS_AddElement
<1>12. Cardinality(To(p)) = i
  BY <1>2, <1>3, <1>7, <1>8, <1>9, <1>11
<1> QED BY <1>10, <1>12 DEF To

\* What is picked from the list is one of the options that the text found.
LEMMA NthIsFound ==
  ASSUME NEW i \in 1..count
  PROVE  Nth(i) \in Option /\ Nth(i) \in Includes[combo.text]
<1>1. DOMAIN options = 1..Len(options) /\ Len(options) \in Nat
  <2>1. options \in Seq(Option)
    BY ComboAssumption
  <2> QED BY <2>1
<1>2. found \in SUBSET (1..Len(options)) /\ i \in 1..Cardinality(found)
  BY <1>1 DEF found, FoundBy, count
<1>3. \E place \in found : Cardinality(found \cap 1..place) = i
  BY <1>1, <1>2, IthPlace
<1>4. PICK place \in found : Nth(i) = options[place]
  BY <1>3 DEF Nth
<1> QED BY <1>1, <1>2, <1>4 DEF found, FoundBy, Option, Range

\* The combobox: its list is of what its text finds.
Fields == [text : Typed, open : BOOLEAN, active : Nat, chosen : Option \cup {NoOption}]
ComboIInv ==
  /\ combo \in Fields
  /\ focused \in BOOLEAN /\ closing \in Nat
  /\ ComboInv

\* A text finds none or some of the options.
LEMMA CountIs ==
  ASSUME NEW text
  PROVE  Cardinality(FoundBy(text)) \in Nat /\ (Cardinality(FoundBy(text)) = 0 <=> FoundBy(text) = {})
<1>1. DOMAIN options = 1..Len(options) /\ Len(options) \in Nat
  <2>1. options \in Seq(Option)
    BY ComboAssumption
  <2> QED BY <2>1
<1>2. IsFiniteSet(FoundBy(text))
  <2>1. IsFiniteSet(DOMAIN options)
    BY <1>1, FS_Interval
  <2> QED BY <2>1, FS_Subset DEF FoundBy
<1> QED BY <1>2, FS_CardinalityType, FS_EmptySet

\* What the field and its list become: each way to change them keeps what the
\* highlight, the choice and the count say.
LEMMA ShowsOK ==
  ASSUME ComboIInv, NEW c \in Fields, Shows(c),
         c.active <= (IF FoundBy(c.text) = {} THEN 1 ELSE Cardinality(FoundBy(c.text))),
         ~c.open => c.active = 0,
         c.chosen # NoOption => c.text = NameOf[c.chosen] /\ reported' = c.chosen,
         focused' \in BOOLEAN, closing' \in Nat, c.open /\ ~focused' => closing' > 0
  PROVE  ComboIInv'
<1>1. combo' = c /\ count' = Cardinality(FoundBy(c.text))
  BY DEF Shows, count, found
<1>2. count' = 0 <=> FoundBy(c.text) = {}
  BY <1>1, CountIs
<1>3. counting' # NoCount => c.open /\ counting' = count'
  <2>1. CASE c = [combo EXCEPT !.chosen = c.chosen]
    <3>1. c.text = combo.text /\ c.open = combo.open /\ counting' = counting
      BY <2>1 DEF ComboIInv, Fields, Shows, Recounted
    <3> QED BY <1>1, <3>1 DEF ComboIInv, ComboInv, CountsTheShown, count, found
  <2>2. CASE c # [combo EXCEPT !.chosen = c.chosen]
    BY <1>1, <2>2 DEF Shows, Recounted
  <2> QED BY <2>1, <2>2
<1> QED BY <1>1, <1>2, <1>3 DEF ComboIInv, ComboInv, HighlightIsFound, FieldSaysTheChosen, CountsTheShown, LeftListCloses

\* No step breaks the combobox's invariant.
LEMMA ComboStep == ComboIInv /\ [ComboNext]_comboVars => ComboIInv'
<1> SUFFICES ASSUME ComboIInv, [ComboNext]_comboVars
             PROVE  ComboIInv'
  OBVIOUS
<1>1. /\ count = Cardinality(FoundBy(combo.text)) /\ count \in Nat
      /\ count = 0 <=> FoundBy(combo.text) = {}
      /\ combo.active \in Nat /\ combo.open \in BOOLEAN /\ closing \in Nat /\ focused \in BOOLEAN
  BY CountIs DEF count, found, ComboIInv, Fields
<1>2. ASSUME NEW text \in Typed, Shows(typed(text)), UNCHANGED closing, focused' = TRUE
      PROVE  ComboIInv'
  <2>1. Cardinality(FoundBy(text)) \in Nat /\ (Cardinality(FoundBy(text)) = 0 <=> FoundBy(text) = {})
    BY CountIs
  <2> DEFINE c == typed(text)
  <2>2. /\ c \in Fields /\ c.text = text /\ c.open /\ c.active \in {0, 1} /\ c.chosen = NoOption
    BY DEF typed, Fields
  <2>3. Shows(c)
    BY <1>2
  <2> HIDE DEF c
  <2> QED BY <1>1, <1>2, <2>1, <2>2, <2>3, ShowsOK
<1>3. ASSUME NEW text \in Typed, Types(text) \/ search(text)
      PROVE  ComboIInv'
  BY <1>2, <1>3 DEF Types, search
\* The list is opened, closed or its highlight moved.
<1>4. /\ combo.active <= (IF count = 0 THEN 1 ELSE count) /\ (~combo.open => combo.active = 0)
      /\ combo.open /\ ~focused => closing > 0
      /\ combo.chosen # NoOption => combo.text = NameOf[combo.chosen] /\ reported = combo.chosen
  BY DEF ComboIInv, ComboInv, HighlightIsFound, FieldSaysTheChosen, LeftListCloses
<1>5. ASSUME NEW c \in Fields, Shows(c), c.text = combo.text, c.chosen = combo.chosen, UNCHANGED reported,
             c.active <= (IF count = 0 THEN 1 ELSE count), ~c.open => c.active = 0,
             focused' \in BOOLEAN, closing' \in Nat, c.open /\ ~focused' => closing' > 0
      PROVE  ComboIInv'
  BY <1>1, <1>4, <1>5, ShowsOK
<1>6. combo \in Fields /\ closed \in Fields /\ closed.text = combo.text /\ closed.chosen = combo.chosen
      /\ closed.open = FALSE /\ closed.active = 0
  BY DEF ComboIInv, Fields, closed
<1>7. ASSUME NEW clicked \in BOOLEAN, FocusField(clicked)
      PROVE  ComboIInv'
  <2> DEFINE c == IF clicked THEN [combo EXCEPT !.open = TRUE] ELSE combo
  <2>1. c \in Fields /\ c.text = combo.text /\ c.chosen = combo.chosen /\ c.active = combo.active
        /\ (combo.open => c.open)
    BY <1>6 DEF Fields
  <2> HIDE DEF c
  <2> QED BY <1>1, <1>4, <1>5, <1>7, <2>1 DEF FocusField, c
<1>8. ASSUME NEW i \in Nat, i <= (IF count = 0 THEN 1 ELSE count), focused \/ combo.open,
             Shows([combo EXCEPT !.open = TRUE, !.active = i]), UNCHANGED <<focused, closing, reported>>
      PROVE  ComboIInv'
  <2> DEFINE c == [combo EXCEPT !.open = TRUE, !.active = i]
  <2>1. c \in Fields /\ c.text = combo.text /\ c.chosen = combo.chosen /\ c.active = i /\ c.open
    BY <1>6 DEF Fields
  <2> HIDE DEF c
  <2>2. Shows(c)
    BY <1>8 DEF c
  <2> QED BY <1>1, <1>4, <1>5, <1>8, <2>1, <2>2
<1>9. ASSUME NEW i \in 1..count, combo.open,
             Shows([combo EXCEPT !.active = i]), UNCHANGED <<focused, closing, reported>>
      PROVE  ComboIInv'
  <2> DEFINE c == [combo EXCEPT !.active = i]
  <2>1. c \in Fields /\ c.text = combo.text /\ c.chosen = combo.chosen /\ c.active = i /\ c.open
    BY <1>6, <1>9 DEF Fields
  <2> HIDE DEF c
  <2>2. Shows(c)
    BY <1>9 DEF c
  <2> QED BY <1>1, <1>4, <1>5, <1>9, <2>1, <2>2
<1>10. CASE ArrowDown
  <2>1. CASE ~combo.open /\ Shows([combo EXCEPT !.open = TRUE, !.active = 1])
    <3> DEFINE i == 1
    <3>1. i \in Nat /\ i <= (IF count = 0 THEN 1 ELSE count) /\ Shows([combo EXCEPT !.open = TRUE, !.active = i])
      BY <1>1, <2>1
    <3> HIDE DEF i
    <3> QED BY <1>8, <1>10, <3>1 DEF ArrowDown
  <2>2. CASE combo.open /\ count > 0 /\ Shows([combo EXCEPT !.active = (@ % count) + 1])
    <3> DEFINE i == (combo.active % count) + 1
    <3>1. i \in 1..count
      BY <1>1, <2>2
    <3>2. Shows([combo EXCEPT !.active = i])
      BY <2>2
    <3> HIDE DEF i
    <3> QED BY <1>1, <1>10, <2>2, <3>1, <3>2, <1>9 DEF ArrowDown
  <2> QED BY <1>10, <2>1, <2>2 DEF ArrowDown
<1>11. CASE ArrowUp
  <2>1. CASE ~combo.open /\ Shows([combo EXCEPT !.open = TRUE, !.active = count])
    <3> DEFINE i == count
    <3>1. i \in Nat /\ i <= (IF count = 0 THEN 1 ELSE count) /\ Shows([combo EXCEPT !.open = TRUE, !.active = i])
      BY <1>1, <2>1
    <3> HIDE DEF i
    <3> QED BY <1>8, <1>11, <3>1 DEF ArrowUp
  <2>2. CASE combo.open /\ count > 0 /\ Shows([combo EXCEPT !.active = ((@ + 2 * count - 2) % count) + 1])
    <3> DEFINE i == ((combo.active + 2 * count - 2) % count) + 1
    <3>1. i \in 1..count
      <4>1. combo.active + 2 * count - 2 \in Nat
        BY <1>1, <2>2
      <4>2. \A n \in Nat : (n % count) + 1 \in 1..count
        BY <1>1, <2>2
      <4> QED BY <4>1, <4>2
    <3>2. Shows([combo EXCEPT !.active = i])
      BY <2>2
    <3> HIDE DEF i
    <3> QED BY <1>1, <1>11, <2>2, <3>1, <3>2, <1>9 DEF ArrowUp
  <2> QED BY <1>11, <2>1, <2>2 DEF ArrowUp
<1>12. ASSUME NEW i, pick(i), UNCHANGED <<focused, closing>>
       PROVE  ComboIInv'
  <2>1. CASE i \in 1..count
    <3> DEFINE c == [text |-> NameOf[Nth(i)], open |-> FALSE, active |-> 0, chosen |-> Nth(i)]
    <3>1. Shows(c) /\ reported' = Nth(i)
      BY <1>12, <2>1 DEF pick
    <3>2. \A n \in Nat : 0 <= (IF FoundBy(c.text) = {} THEN 1 ELSE Cardinality(FoundBy(c.text)))
      BY CountIs
    <3>3. Nth(i) \in Option /\ c \in Fields
      BY <2>1, NthIsFound, ComboAssumption DEF Fields
    <3> QED BY <1>1, <1>12, <3>1, <3>2, <3>3, ShowsOK
  <2>2. CASE i \notin 1..count
    BY <1>1, <1>4, <1>5, <1>6, <1>12, <2>2 DEF pick
  <2> QED BY <2>1, <2>2
<1>13. CASE EnterKey
  BY <1>12, <1>13 DEF EnterKey
<1>14. ASSUME NEW i, ClickOption(i)
       PROVE  ComboIInv'
  BY <1>12, <1>14 DEF ClickOption
<1>15. ASSUME NEW i, PointTo(i)
       PROVE  ComboIInv'
  BY <1>9, <1>15 DEF PointTo
<1>16. CASE Escape
  <2>1. CASE combo.open /\ Shows(closed)
    BY <1>1, <1>4, <1>5, <1>6, <1>16, <2>1 DEF Escape
  <2>2. CASE ~combo.open /\ Shows(Cleared)
    <3>1. Cleared \in Fields /\ Cleared.text = "" /\ Cleared.open = combo.open /\ Cleared.active = 0
          /\ Cleared.chosen = NoOption
      BY <1>4, <1>6, <2>2, ComboAssumption DEF Cleared, Fields
    <3>2. Cardinality(FoundBy(Cleared.text)) \in Nat
      BY CountIs
    <3>3. UNCHANGED <<focused, closing, reported>> /\ focused
      BY <1>16 DEF Escape
    <3>4. focused' \in BOOLEAN /\ closing' \in Nat
      BY <1>1, <3>3
    <3>5. Cleared.active <= (IF FoundBy(Cleared.text) = {} THEN 1 ELSE Cardinality(FoundBy(Cleared.text)))
      <4>1. \A n \in Nat, b \in BOOLEAN : 0 <= (IF b THEN 1 ELSE n)
        OBVIOUS
      <4> QED BY <3>1, <3>2, <4>1
    <3> QED BY <2>2, <3>1, <3>4, <3>5, ShowsOK
  <2> QED BY <1>16, <2>1, <2>2 DEF Escape
<1>17. ASSUME NEW byTab \in BOOLEAN, LeaveCombo(byTab)
       PROVE  ComboIInv'
  <2>1. UNCHANGED reported /\ focused' = FALSE /\ closing' = closing + 1
    BY <1>17 DEF LeaveCombo, Blurs
  <2>2. Shows(closed) \/ Shows(combo)
    BY <1>17 DEF LeaveCombo
  <2>3. focused' \in BOOLEAN /\ closing' \in Nat /\ closing' > 0
    <3>1. focused' \in BOOLEAN
      BY <2>1
    <3>2. closing' \in Nat /\ closing' > 0
      BY <1>1, <2>1
    <3> QED BY <3>1, <3>2
  <2>4. CASE Shows(closed)
    BY <1>1, <1>5, <1>6, <2>1, <2>3, <2>4
  <2>5. CASE Shows(combo)
    BY <1>4, <1>5, <1>6, <2>1, <2>3, <2>5
  <2> QED BY <2>2, <2>4, <2>5
<1>18. CASE CloseTimer
  BY <1>1, <1>4, <1>5, <1>6, <1>18 DEF CloseTimer
<1>19. CASE CountTimer
  BY <1>19 DEF CountTimer, ComboIInv, ComboInv, HighlightIsFound, FieldSaysTheChosen,
               CountsTheShown, LeftListCloses, count, found
<1>20. CASE UNCHANGED comboVars
  BY <1>20 DEF comboVars, ComboIInv, ComboInv, HighlightIsFound, FieldSaysTheChosen,
               CountsTheShown, LeftListCloses, count, found
<1> QED BY <1>3, <1>7, <1>10, <1>11, <1>13, <1>14, <1>15, <1>16, <1>17, <1>18, <1>19, <1>20 DEF ComboNext

\* Highlight, choice, text and count are of the list that shows, and a list
\* that the focus left is about to close (Combobox.tsx).
LEMMA ComboHolds == ComboSpec => []ComboInv
<1>1. ComboInit => ComboIInv
  <2> SUFFICES ASSUME ComboInit
               PROVE  ComboIInv
    OBVIOUS
  <2>1. count \in Nat
    BY CountIs DEF count, found
  <2>2. combo \in Fields
    BY ComboAssumption DEF ComboInit, Fields
  <2>3. combo.open = FALSE /\ combo.active = 0 /\ combo.chosen = NoOption
    BY DEF ComboInit
  <2>4. focused = FALSE /\ closing = 0 /\ counting = NoCount
    BY DEF ComboInit
  <2>5. focused \in BOOLEAN /\ closing \in Nat
    BY <2>4
  <2>6. /\ combo.active <= (IF count = 0 THEN 1 ELSE count) /\ (~combo.open => combo.active = 0)
        /\ ~combo.open
    BY <2>1, <2>3
  <2> QED BY <2>2, <2>3, <2>4, <2>5, <2>6 DEF ComboIInv, ComboInv, HighlightIsFound, FieldSaysTheChosen,
                      CountsTheShown, LeftListCloses
<1>2. ComboIInv => ComboInv
  BY DEF ComboIInv
<1> QED BY <1>1, <1>2, ComboStep, PTL DEF ComboSpec
-------------------------------------------------------------------------------
\* The toasts: none that shows was undone, and the region is empty while its
\* timer runs.
ToastStates ==
  [id : Nat \ {0}, undo : BOOLEAN, hovered : BOOLEAN, focused : BOOLEAN, left : 0..TOAST_MS]
Words == Message \cup {"", "Undone"}
ShownOK(ts, n, done) ==
  /\ ts \in Seq(ToastStates) /\ Len(ts) <= MAX_TOASTS
  /\ \A i, j \in DOMAIN ts : i < j => ts[i].id < ts[j].id
  /\ \A i \in DOMAIN ts : ts[i].id \in 1..n /\ done[ts[i].id] = 0
ToastsIInv ==
  /\ raised \in 0..MaxRaised /\ undone \in [1..MaxRaised -> {0, 1}]
  /\ \A id \in 1..MaxRaised : id > raised => undone[id] = 0
  /\ ShownOK(toasts, raised, undone)
  /\ announcement \in Words /\ announcing \in Words /\ (announcing # "" => announcement = "")

\* Without the i-th toast the others stay, in order.
LEMMA WithoutOne ==
  ASSUME NEW ts \in Seq(ToastStates), NEW i \in DOMAIN ts, NEW n, NEW done, ShownOK(ts, n, done)
  PROVE  /\ ShownOK(RemoveAt(ts, i), n, done)
         /\ \A j \in DOMAIN RemoveAt(ts, i) : RemoveAt(ts, i)[j].id # ts[i].id
         /\ \A j \in DOMAIN ts : j # i => \E k \in DOMAIN RemoveAt(ts, i) : RemoveAt(ts, i)[k] = ts[j]
<1> DEFINE s == RemoveAt(ts, i)
           from(j) == IF j < i THEN j ELSE j + 1
<1>1. Len(ts) \in Nat /\ DOMAIN ts = 1..Len(ts) /\ i \in 1..Len(ts) /\ \A j \in 1..Len(ts) : ts[j] \in ToastStates
  OBVIOUS
<1>2. s \in Seq(ToastStates) /\ Len(s) = Len(ts) - 1 /\ \A j \in 1..Len(ts) - 1 : s[j] = ts[from(j)]
  <2> DEFINE a == SubSeq(ts, 1, i - 1)
             b == SubSeq(ts, i + 1, Len(ts))
  <2>1. a \in Seq(ToastStates) /\ Len(a) = i - 1 /\ \A j \in 1..i - 1 : a[j] = ts[j]
    BY <1>1, SubSeqProperties
  <2>2. b \in Seq(ToastStates) /\ Len(b) = Len(ts) - i /\ \A j \in 1..Len(ts) - i : b[j] = ts[i + j]
    BY <1>1, SubSeqProperties
  <2>3. s = a \o b
    BY DEF RemoveAt
  <2> HIDE DEF a, b, s
  <2>4. s \in Seq(ToastStates) /\ Len(s) = Len(ts) - 1
    <3>1. s \in Seq(ToastStates) /\ Len(s) = Len(a) + Len(b)
      BY <2>1, <2>2, <2>3, ConcatProperties
    <3> QED BY <1>1, <2>1, <2>2, <3>1
  <2>5. ASSUME NEW j \in 1..Len(ts) - 1
        PROVE  s[j] = ts[from(j)]
    <3>1. j \in 1..Len(a) + Len(b) /\ s[j] = IF j <= Len(a) THEN a[j] ELSE b[j - Len(a)]
      BY <1>1, <2>1, <2>2, <2>3, ConcatProperties
    <3>2. CASE j < i
      BY <1>1, <2>1, <3>1, <3>2
    <3>3. CASE ~(j < i)
      <4>1. j - Len(a) \in 1..Len(ts) - i /\ i + (j - Len(a)) = j + 1
        BY <1>1, <2>1, <3>3
      <4>2. s[j] = b[j - Len(a)]
        BY <1>1, <2>1, <3>1, <3>3
      <4>3. b[j - Len(a)] = ts[i + (j - Len(a))]
        BY <2>2, <4>1
      <4> QED BY <3>3, <4>1, <4>2, <4>3
    <3> QED BY <3>2, <3>3
  <2> QED BY <2>4, <2>5
<1>3. DOMAIN s = 1..Len(ts) - 1
  BY <1>1, <1>2
<1> HIDE DEF s
<1>4. \A j \in 1..Len(ts) - 1 : from(j) \in 1..Len(ts) /\ from(j) # i
  BY <1>1
<1>5. \A j, k \in 1..Len(ts) - 1 : j < k => from(j) < from(k)
  BY <1>1
<1>6. \A j \in 1..Len(ts) : ts[j].id \in Nat
  BY <1>1 DEF ToastStates
<1>7. ShownOK(s, n, done)
  BY <1>1, <1>2, <1>3, <1>4, <1>5 DEF ShownOK, MAX_TOASTS
<1>8. \A j \in DOMAIN s : s[j].id # ts[i].id
  <2> SUFFICES ASSUME NEW j \in DOMAIN s
               PROVE  s[j].id # ts[i].id
    OBVIOUS
  <2>1. from(j) \in 1..Len(ts) /\ (from(j) < i \/ i < from(j)) /\ s[j] = ts[from(j)]
    BY <1>1, <1>2, <1>3, <1>4
  <2> HIDE DEF from
  <2> QED BY <1>1, <1>6, <2>1 DEF ShownOK
<1>9. ASSUME NEW j \in DOMAIN ts, j # i
      PROVE  \E k \in DOMAIN s : s[k] = ts[j]
  <2>1. CASE j < i
    BY <1>1, <1>2, <1>3, <2>1
  <2>2. CASE j > i
    <3>1. j - 1 \in 1..Len(ts) - 1 /\ from(j - 1) = j
      BY <1>1, <2>2
    <3> QED BY <1>2, <1>3, <3>1
  <2> QED BY <1>1, <1>9, <2>1, <2>2
<1> QED BY <1>7, <1>8, <1>9 DEF s

\* Without the first ones the others stay, in order.
LEMMA LastOnes ==
  ASSUME NEW ts \in Seq(ToastStates), NEW d \in Nat, d <= Len(ts)
  PROVE  LET s == SubSeq(ts, 1 + d, Len(ts)) IN
         s \in Seq(ToastStates) /\ Len(s) = Len(ts) - d /\ \A i \in 1..Len(ts) - d : s[i] = ts[d + i]
<1> DEFINE s == SubSeq(ts, 1 + d, Len(ts))
<1>1. 1 + d \in Int /\ Len(ts) \in Nat /\ Len(ts) - (1 + d) + 1 = Len(ts) - d
  OBVIOUS
<1>2. \A i \in 1 + d..Len(ts) : ts[i] \in ToastStates
  <2>1. \A i \in 1 + d..Len(ts) : i \in 1..Len(ts)
    BY <1>1
  <2> QED BY <2>1
<1>3. /\ s \in Seq(ToastStates) /\ Len(s) = IF 1 + d <= Len(ts) THEN Len(ts) - (1 + d) + 1 ELSE 0
      /\ \A i \in 1..Len(ts) - (1 + d) + 1 : s[i] = ts[1 + d + i - 1]
  BY <1>1, <1>2, SubSeqProperties
<1> HIDE DEF s
<1>4. Len(s) = Len(ts) - d
  BY <1>1, <1>3
<1>5. ASSUME NEW i \in 1..Len(ts) - d
      PROVE  s[i] = ts[d + i]
  <2>1. 1 + d + i - 1 = d + i
    BY <1>1
  <2> QED BY <1>1, <1>3, <2>1
<1> QED BY <1>3, <1>4, <1>5 DEF s

\* A new toast comes last, and the oldest leaves if there would be too many.
LEMMA RoomOK ==
  ASSUME ToastsIInv, NEW toast \in ToastStates, toast.id = raised + 1, raised < MaxRaised
  PROVE  /\ ShownOK(Append(Room, toast), raised + 1, undone)
         /\ \A i \in DOMAIN toasts : (\A j \in DOMAIN Append(Room, toast) : Append(Room, toast)[j].id # toasts[i].id) =>
              i = 1 /\ Len(toasts) = MAX_TOASTS
<1> DEFINE d == IF Len(toasts) < MAX_TOASTS THEN 0 ELSE Len(toasts) - (MAX_TOASTS - 1)
           n == Len(toasts) - d
           s == Append(Room, toast)
<1>1. /\ Len(toasts) \in Nat /\ DOMAIN toasts = 1..Len(toasts) /\ Len(toasts) <= 3
      /\ \A i \in 1..Len(toasts) : toasts[i] \in ToastStates
  <2>1. toasts \in Seq(ToastStates) /\ Len(toasts) <= 3
    BY DEF ToastsIInv, ShownOK, MAX_TOASTS
  <2> QED BY <2>1
<1>2. d \in {0, 1} /\ (d = 1 => Len(toasts) = 3) /\ n \in 0..2 /\ d + n = Len(toasts)
  BY <1>1 DEF MAX_TOASTS
<1>3. Room \in Seq(ToastStates) /\ Len(Room) = n /\ \A i \in 1..n : Room[i] = toasts[d + i]
  <2>1. Room = SubSeq(toasts, 1 + d, Len(toasts))
    BY DEF Room
  <2>2. d \in Nat /\ d <= Len(toasts)
    BY <1>1, <1>2
  <2> HIDE DEF d
  <2>3. toasts \in Seq(ToastStates)
    BY DEF ToastsIInv, ShownOK
  <2> QED BY <2>1, <2>2, <2>3, LastOnes
<1> HIDE DEF d, n
<1>4. /\ s \in Seq(ToastStates) /\ Len(s) = n + 1 /\ DOMAIN s = 1..n + 1
      /\ s[n + 1] = toast /\ \A i \in 1..n : s[i] = toasts[d + i]
  BY <1>2, <1>3
<1> HIDE DEF s
<1>5. \A i \in 1..n : d + i \in 1..Len(toasts)
  BY <1>1, <1>2
<1>6. /\ raised \in Nat /\ undone[raised + 1] = 0
      /\ \A i \in 1..Len(toasts) : toasts[i].id \in 1..raised /\ undone[toasts[i].id] = 0
      /\ \A i, j \in 1..Len(toasts) : i < j => toasts[i].id < toasts[j].id
  <2>1. raised \in Nat /\ raised + 1 \in 1..MaxRaised /\ raised + 1 > raised
    <3>1. raised \in 0..MaxRaised /\ MaxRaised \in Nat
      BY ToastsAssumption DEF ToastsIInv
    <3> QED BY <3>1
  <2>2. undone[raised + 1] = 0
    BY <2>1 DEF ToastsIInv
  <2> QED BY <1>1, <2>1, <2>2 DEF ToastsIInv, ShownOK
<1>7. \A i \in 1..n + 1 : s[i].id \in 1..raised + 1 /\ undone[s[i].id] = 0
  BY <1>2, <1>4, <1>5, <1>6
<1>8. ASSUME NEW i \in 1..n + 1, NEW j \in 1..n + 1, i < j
      PROVE  s[i].id < s[j].id
  <2>1. CASE j = n + 1
    BY <1>2, <1>4, <1>5, <1>6, <1>8, <2>1
  <2>2. CASE j # n + 1
    <3>1. i \in 1..n /\ j \in 1..n /\ d + i < d + j
      BY <1>2, <1>8, <2>2
    <3> QED BY <1>4, <1>5, <1>6, <3>1
  <2> QED BY <2>1, <2>2
<1>9. ShownOK(s, raised + 1, undone)
  BY <1>2, <1>4, <1>7, <1>8 DEF ShownOK, MAX_TOASTS
<1>10. ASSUME NEW i \in DOMAIN toasts, \A j \in DOMAIN s : s[j].id # toasts[i].id
       PROVE  i = 1 /\ Len(toasts) = MAX_TOASTS
  <2>1. i - d \notin 1..n
    <3>1. i - d \in 1..n => s[i - d] = toasts[i] /\ i - d \in DOMAIN s
      BY <1>1, <1>2, <1>4
    <3> QED BY <1>10, <3>1
  <2> QED BY <1>1, <1>2, <2>1 DEF MAX_TOASTS
<1> QED BY <1>9, <1>10 DEF s

\* Each step keeps the invariant, a toast in use leaves only by its buttons or
\* for newer ones, and the region is emptied before it says anything.
HeldStays ==
  \A i \in DOMAIN toasts :
    (toasts[i].hovered \/ toasts[i].focused) /\ (\A j \in DOMAIN toasts' : toasts'[j].id # IdOf(i)) =>
      IdOf(i) \in pressed' \/ (raised' # raised /\ i = 1 /\ Len(toasts) = MAX_TOASTS)
SaidAnew == announcement' # "" /\ announcement' # announcement => announcement = ""

\* The toasts are the same, whatever their timers and the pointer do.
LEMMA SameToasts ==
  ASSUME ToastsIInv, UNCHANGED <<raised, undone, pressed, announcement, announcing>>,
         NEW f \in [DOMAIN toasts -> ToastStates], \A i \in DOMAIN toasts : f[i].id = toasts[i].id,
         toasts' = f
  PROVE  ToastsIInv' /\ HeldStays /\ SaidAnew
<1>1. /\ toasts \in Seq(ToastStates) /\ DOMAIN toasts = 1..Len(toasts) /\ Len(toasts) \in Nat
  <2>1. toasts \in Seq(ToastStates)
    BY DEF ToastsIInv, ShownOK
  <2> QED BY <2>1
<1>2. f \in Seq(ToastStates) /\ Len(f) = Len(toasts) /\ DOMAIN f = DOMAIN toasts
  BY <1>1
<1>3. ShownOK(f, raised, undone)
  BY <1>1, <1>2 DEF ToastsIInv, ShownOK
<1> QED BY <1>2, <1>3 DEF ToastsIInv, HeldStays, SaidAnew, IdOf

\* One toast leaves, by its time or by a button of its own.
LEMMA OneLeaves ==
  ASSUME ToastsIInv, NEW i \in DOMAIN toasts, toasts' = Without(i), UNCHANGED raised,
         (UNCHANGED pressed /\ ~Held(toasts[i])) \/ pressed' = pressed \cup {IdOf(i)}
  PROVE  ShownOK(toasts', raised, undone) /\ HeldStays /\ \A j \in DOMAIN toasts' : toasts'[j].id # IdOf(i)
<1>1. ShownOK(toasts, raised, undone)
  BY DEF ToastsIInv
<1>2. toasts \in Seq(ToastStates)
  BY <1>1 DEF ShownOK
<1>3. /\ ShownOK(toasts', raised, undone) /\ \A j \in DOMAIN toasts' : toasts'[j].id # toasts[i].id
      /\ \A j \in DOMAIN toasts : j # i => \E k \in DOMAIN toasts' : toasts'[k] = toasts[j]
  BY <1>1, <1>2, WithoutOne DEF Without
<1> QED BY <1>3 DEF HeldStays, IdOf, Held

\* No step breaks the toasts' invariant, or what a step may not do.
LEMMA ToastsStep ==
  ASSUME ToastsIInv, ToastsNext
  PROVE  ToastsIInv' /\ HeldStays /\ SaidAnew
<1>1. /\ toasts \in Seq(ToastStates) /\ DOMAIN toasts = 1..Len(toasts) /\ Len(toasts) \in Nat
      /\ \A i \in DOMAIN toasts : toasts[i] \in ToastStates
  <2>1. toasts \in Seq(ToastStates)
    BY DEF ToastsIInv, ShownOK
  <2> QED BY <2>1
<1>2. TOAST_MS \in Nat \ {0} /\ MaxRaised \in Nat /\ raised \in 0..MaxRaised /\ raised \in Nat
  <2>1. TOAST_MS \in Nat \ {0} /\ MaxRaised \in Nat
    BY ToastsAssumption
  <2>2. raised \in 0..MaxRaised
    BY DEF ToastsIInv
  <2> QED BY <2>1, <2>2
<1>3. UNCHANGED toasts => HeldStays
  BY DEF HeldStays, IdOf
<1>4. CASE showToast
  <2>1. PICK undo \in BOOLEAN :
          toasts' = Append(Room, [id |-> raised', undo |-> undo, hovered |-> FALSE, focused |-> FALSE,
                                  left |-> TOAST_MS])
    BY <1>4 DEF showToast
  <2> DEFINE toast == [id |-> raised', undo |-> undo, hovered |-> FALSE, focused |-> FALSE, left |-> TOAST_MS]
  <2>2. raised < MaxRaised /\ raised' = raised + 1 /\ UNCHANGED <<undone, pressed, announcement, announcing>>
    BY <1>4 DEF showToast
  <2>3. toast \in ToastStates /\ toast.id = raised + 1
    BY <1>2, <2>2 DEF ToastStates
  <2>4. toasts' = Append(Room, toast)
    BY <2>1
  <2> HIDE DEF toast
  <2>5. /\ ShownOK(toasts', raised', undone)
        /\ \A i \in DOMAIN toasts : (\A j \in DOMAIN toasts' : toasts'[j].id # toasts[i].id) =>
              i = 1 /\ Len(toasts) = MAX_TOASTS
    BY <2>2, <2>3, <2>4, RoomOK
  <2>6. raised' \in 0..MaxRaised /\ raised' # raised /\ \A id \in 1..MaxRaised : id > raised' => id > raised
    BY <1>2, <2>2
  <2>7. ToastsIInv'
    BY <2>2, <2>5, <2>6 DEF ToastsIInv
  <2>8. HeldStays
    BY <2>5, <2>6 DEF HeldStays, IdOf
  <2> QED BY <2>2, <2>7, <2>8 DEF SaidAnew
<1>5. ASSUME NEW part \in {"hovered", "focused"}, Points(part)
      PROVE  ToastsIInv' /\ HeldStays /\ SaidAnew
  <2>1. PICK i \in 0..Len(toasts) : toasts' = [j \in DOMAIN toasts |-> Changed(toasts[j], part, j = i)]
    BY <1>5 DEF Points
  <2>2. ASSUME NEW j \in DOMAIN toasts
        PROVE  Changed(toasts[j], part, j = i) \in ToastStates /\ Changed(toasts[j], part, j = i).id = toasts[j].id
    <3>1. toasts[j] \in ToastStates /\ TOAST_MS \in 0..TOAST_MS /\ (j = i) \in BOOLEAN
      BY <1>1, <1>2
    <3> QED BY <3>1 DEF Changed, ToastStates
  <2>3. UNCHANGED <<raised, undone, pressed, announcement, announcing>>
    BY <1>5 DEF Points
  <2> QED BY <2>1, <2>2, <2>3, SameToasts
<1>6. CASE Pass
  <2> DEFINE aged(i) == IF Held(toasts[i]) THEN toasts[i] ELSE [toasts[i] EXCEPT !.left = @ - 1]
  <2>1. toasts' = [i \in DOMAIN toasts |-> aged(i)] /\ UNCHANGED <<raised, undone, pressed, announcement, announcing>>
    BY <1>6 DEF Pass
  <2>2. ASSUME NEW i \in DOMAIN toasts
        PROVE  aged(i) \in ToastStates /\ aged(i).id = toasts[i].id
    <3>1. toasts[i] \in ToastStates /\ (~Held(toasts[i]) => toasts[i].left > 0)
      BY <1>1, <1>6 DEF Pass
    <3> QED BY <1>2, <3>1 DEF ToastStates
  <2> HIDE DEF aged
  <2> QED BY <2>1, <2>2, SameToasts
<1>7. CASE Announce
  <2>1. PICK message \in Message : announcement' = "" /\ announcing' = message
    BY <1>7 DEF Announce, announce
  <2>2. UNCHANGED <<toasts, raised, undone, pressed>>
    BY <1>7 DEF Announce
  <2> QED BY <1>3, <2>1, <2>2 DEF ToastsIInv, Words, SaidAnew
<1>8. CASE AnnounceTimer
  BY <1>3, <1>8 DEF AnnounceTimer, ToastsIInv, Words, SaidAnew
<1>9. ASSUME NEW i \in DOMAIN toasts, Times(i)
      PROVE  ToastsIInv' /\ HeldStays /\ SaidAnew
  <2>1. ShownOK(toasts', raised, undone) /\ HeldStays
    BY <1>9, OneLeaves DEF Times
  <2> QED BY <1>9, <2>1 DEF Times, ToastsIInv, SaidAnew
<1>10. ASSUME NEW i \in DOMAIN toasts, dismissToast(i)
       PROVE  ToastsIInv' /\ HeldStays /\ SaidAnew
  <2>1. ShownOK(toasts', raised, undone) /\ HeldStays
    BY <1>10, OneLeaves DEF dismissToast
  <2> QED BY <1>10, <2>1 DEF dismissToast, ToastsIInv, SaidAnew
<1>11. ASSUME NEW i \in DOMAIN toasts, Undo(i)
       PROVE  ToastsIInv' /\ HeldStays /\ SaidAnew
  <2>1. /\ ShownOK(toasts', raised, undone) /\ HeldStays
        /\ \A j \in DOMAIN toasts' : toasts'[j].id # IdOf(i)
    BY <1>11, OneLeaves DEF Undo, AfterUndo
  <2>2. IdOf(i) \in 1..raised /\ IdOf(i) \in 1..MaxRaised /\ undone[IdOf(i)] = 0
    <3>1. IdOf(i) \in 1..raised /\ undone[IdOf(i)] = 0
      BY DEF ToastsIInv, ShownOK, IdOf
    <3> QED BY <1>2, <3>1
  <2>3. undone' = [undone EXCEPT ![IdOf(i)] = 1]
    BY <1>11, <2>2 DEF Undo
  <2>4. undone' \in [1..MaxRaised -> {0, 1}] /\ \A id \in 1..MaxRaised : id > raised => undone'[id] = 0
    <3>1. undone \in [1..MaxRaised -> {0, 1}] /\ \A id \in 1..MaxRaised : id > raised => undone[id] = 0
      BY DEF ToastsIInv
    <3>2. ~(IdOf(i) > raised)
      BY <1>2, <2>2
    <3> QED BY <2>2, <2>3, <3>1, <3>2
  <2>5. ShownOK(toasts', raised, undone')
    <3>1. \A j \in DOMAIN toasts' : toasts'[j].id \in 1..MaxRaised
      BY <1>2, <2>1 DEF ShownOK
    <3> QED BY <2>1, <2>2, <2>3, <3>1 DEF ShownOK, ToastsIInv
  <2>6. announcement' = "" /\ announcing' = "Undone" /\ raised' = raised
    BY <1>11 DEF Undo, announce
  <2> QED BY <2>1, <2>4, <2>5, <2>6 DEF ToastsIInv, Words, SaidAnew
<1> QED BY <1>4, <1>5, <1>6, <1>7, <1>8, <1>9, <1>10, <1>11 DEF ToastsNext

\* A toast in use stays, each undo runs once, and what is said is said anew
\* (ToastProvider.tsx).
LEMMA ToastsHold == ToastsSpec => ToastsSafe
<1>1. ToastsInit => ToastsIInv
  <2> SUFFICES ASSUME ToastsInit
               PROVE  ToastsIInv
    OBVIOUS
  <2>1. toasts \in Seq(ToastStates) /\ Len(toasts) = 0 /\ DOMAIN toasts = {} /\ raised = 0
    <3>1. toasts = <<>> /\ raised = 0
      BY DEF ToastsInit
    <3> QED BY <3>1
  <2>2. undone \in [1..MaxRaised -> {0, 1}] /\ \A id \in 1..MaxRaised : undone[id] = 0
    <3>1. undone = [id \in 1..MaxRaised |-> 0]
      BY DEF ToastsInit
    <3> QED BY <3>1
  <2>3. ShownOK(toasts, raised, undone)
    BY <2>1 DEF ShownOK, MAX_TOASTS
  <2>4. announcement = "" /\ announcing = "" /\ "" \in Words
    BY DEF ToastsInit, Words
  <2>5. raised \in 0..MaxRaised
    <3>1. MaxRaised \in Nat
      BY ToastsAssumption
    <3> QED BY <2>1, <3>1
  <2> QED BY <2>2, <2>3, <2>4, <2>5 DEF ToastsIInv
<1>2. ToastsIInv /\ [ToastsNext]_toastVars => ToastsIInv'
  BY ToastsStep DEF toastVars, ToastsIInv
<1>3. ToastsIInv => ToastsTypeOK /\ UndoOnce
  <2> SUFFICES ASSUME ToastsIInv
               PROVE  ToastsTypeOK /\ UndoOnce
    OBVIOUS
  <2>1. toasts \in Seq(ToastStates) /\ \A i \in DOMAIN toasts : toasts[i] \in ToastStates
    <3>1. toasts \in Seq(ToastStates)
      BY DEF ToastsIInv, ShownOK
    <3> QED BY <3>1
  <2>2. \A i \in DOMAIN toasts : toasts[i].left \in 0..TOAST_MS
    BY <2>1 DEF ToastStates
  <2>3. \A id \in 1..MaxRaised : undone[id] <= 1
    <3>1. undone \in [1..MaxRaised -> {0, 1}]
      BY DEF ToastsIInv
    <3>2. \A id \in 1..MaxRaised : undone[id] = 0 \/ undone[id] = 1
      BY <3>1
    <3> QED BY <3>2
  <2> QED BY <2>2, <2>3 DEF ToastsIInv, ShownOK, ToastsTypeOK, UndoOnce, IdOf, Words
<1>4. ToastsIInv /\ [ToastsNext]_toastVars => [HeldStays]_toastVars /\ [SaidAnew]_toastVars
  BY ToastsStep
<1> QED BY <1>1, <1>2, <1>3, <1>4, PTL
        DEF ToastsSpec, ToastsSafe, HeldToastStays, HeldStays, AnnouncedAsNew, SaidAnew
-------------------------------------------------------------------------------
\* What the years' leap days add up to, one year on.
LEMMA LeapStep ==
  ASSUME NEW y \in Nat, y >= 1
  PROVE  LeapsTo(y) = LeapsTo(y - 1) + (IF Leap(y) THEN 1 ELSE 0)
<1>1. (y \div 4) - ((y - 1) \div 4) = IF y % 4 = 0 THEN 1 ELSE 0
  BY SMT
<1>2. (y \div 100) - ((y - 1) \div 100) = IF y % 100 = 0 THEN 1 ELSE 0
  BY SMT
<1>3. (y \div 400) - ((y - 1) \div 400) = IF y % 400 = 0 THEN 1 ELSE 0
  BY SMT
<1>4. (y % 400 = 0 => y % 100 = 0) /\ (y % 100 = 0 => y % 4 = 0)
  BY SMT
<1>5. /\ y \div 4 \in Int /\ (y - 1) \div 4 \in Int /\ y \div 100 \in Int /\ (y - 1) \div 100 \in Int
      /\ y \div 400 \in Int /\ (y - 1) \div 400 \in Int
  BY SMT
<1> QED BY <1>1, <1>2, <1>3, <1>4, <1>5 DEF LeapsTo, Leap

\* A month's number is its year's and its index in it.
LEMMA PartsOfMonth ==
  ASSUME NEW k \in Nat
  PROVE  /\ k % 12 \in 0..11 /\ k \div 12 \in Nat /\ k = 12 * (k \div 12) + (k % 12)
         /\ k % 12 < 11 => (k + 1) % 12 = (k % 12) + 1 /\ (k + 1) \div 12 = k \div 12
         /\ k % 12 = 11 => (k + 1) % 12 = 0 /\ (k + 1) \div 12 = (k \div 12) + 1
BY SMT

\* The months follow each other without a gap.
LEMMA MonthStep ==
  ASSUME NEW k \in Nat, k >= 12
  PROVE  DaysBefore(k + 1) = DaysBefore(k) + MonthLength(k)
<1> DEFINE y == k \div 12
           i == k % 12
           Before == <<0, 31, 59, 90, 120, 151, 181, 212, 243, 273, 304, 334>>
<1>1. y \in Nat /\ i \in 0..11 /\ y >= 1
  BY PartsOfMonth, SMT
<1>2. LeapsTo(y) = LeapsTo(y - 1) + (IF Leap(y) THEN 1 ELSE 0)
  BY <1>1, LeapStep
<1>3. LeapsTo(y) \in Int /\ LeapsTo(y - 1) \in Int /\ LeapsTo(FirstYear - 1) \in Int /\ FirstYear \in Nat
  BY <1>1, DatePickerAssumption DEF LeapsTo
<1>4. CASE i = 11
  <2>1. (k + 1) % 12 = 0 /\ (k + 1) \div 12 = y + 1
    BY <1>4, PartsOfMonth
  <2>2. ((k + 1) \div 12) - 1 = y
    BY <2>1, <1>1
  <2>3. DaysBefore(k + 1) = 365 * (y + 1 - FirstYear) + LeapsTo(y) - LeapsTo(FirstYear - 1)
    <3> DEFINE z == (k + 1) \div 12
               h == (k + 1) % 12
    <3>1. DaysBefore(k + 1) = Before[h + 1] + (IF h > 1 /\ Leap(z) THEN 1 ELSE 0)
            + 365 * (z - FirstYear) + LeapsTo(z - 1) - LeapsTo(FirstYear - 1)
      BY DEF DaysBefore
    <3>2. h = 0 /\ z = y + 1 /\ z - 1 = y
      BY <2>1, <2>2
    <3> HIDE DEF z, h, y
    <3>3. Before[h + 1] = 0
      BY <3>2
    <3>4. (IF h > 1 /\ Leap(z) THEN 1 ELSE 0) = 0
      BY <3>2
    <3> QED BY <3>1, <3>2, <3>3, <3>4, <1>1, <1>3
  <2>4. DaysBefore(k) = 334 + (IF Leap(y) THEN 1 ELSE 0) + 365 * (y - FirstYear) + LeapsTo(y - 1) - LeapsTo(FirstYear - 1)
    BY <1>1, <1>3, <1>4 DEF DaysBefore
  <2>5. MonthLength(k) = 31
    BY <1>4 DEF MonthLength
  <2> QED BY <2>3, <2>4, <2>5, <1>1, <1>2, <1>3
<1>5. CASE i < 11
  <2>1. (k + 1) % 12 = i + 1 /\ (k + 1) \div 12 = y
    BY <1>5, PartsOfMonth
  <2> QED BY <2>1, <1>1, <1>3, <1>5 DEF DaysBefore, MonthLength
<1> QED BY <1>1, <1>4, <1>5

\* The first day is the first month's.
LEMMA FirstMonthStarts ==
  /\ 12 * FirstYear \in Months /\ DaysBefore(12 * FirstYear) = 0
  /\ Months \subseteq Nat /\ \A k \in Months : k >= 12 /\ k \div 12 \in FirstYear..LastYear
<1>1. FirstYear \in Nat /\ LastYear \in Nat /\ 100 <= FirstYear /\ FirstYear <= LastYear
  BY DatePickerAssumption
<1>2. (12 * FirstYear) % 12 = 0 /\ (12 * FirstYear) \div 12 = FirstYear
  BY <1>1, SMT
<1>3. LeapsTo(FirstYear - 1) \in Int
  BY <1>1 DEF LeapsTo
<1>4. DaysBefore(12 * FirstYear) = 0
  BY <1>1, <1>2, <1>3 DEF DaysBefore
<1>5. 12 * FirstYear \in Months /\ Months \subseteq Nat /\ \A k \in Months : k >= 12
  BY <1>1 DEF Months
<1>6. ASSUME NEW k \in Months
      PROVE  k \div 12 \in FirstYear..LastYear
  BY <1>1 DEF Months
<1> QED BY <1>4, <1>5, <1>6

\* A month has 28 to 31 days, and the days before it are a whole number.
LEMMA MonthNumbers ==
  ASSUME NEW k \in Nat
  PROVE  MonthLength(k) \in 28..31 /\ DaysBefore(k) \in Int
<1>1. k \div 12 \in Nat /\ k % 12 \in 0..11
  BY PartsOfMonth
<1>2. LeapsTo(k \div 12 - 1) \in Int /\ LeapsTo(FirstYear - 1) \in Int /\ FirstYear \in Nat
  BY <1>1, DatePickerAssumption DEF LeapsTo
<1>3. DaysBefore(k) \in Int
  BY <1>1, <1>2 DEF DaysBefore
<1> QED BY <1>1, <1>3 DEF MonthLength

\* An earlier month has ended before a later one starts.
LEMMA EarlierEnds ==
  ASSUME NEW j \in Nat, j >= 12, NEW k \in Nat, j < k
  PROVE  DaysBefore(j) + MonthLength(j) <= DaysBefore(k)
<1> DEFINE Bad == {n \in Nat : j < n /\ ~(DaysBefore(j) + MonthLength(j) <= DaysBefore(n))}
<1>1. SUFFICES ASSUME Bad # {}
               PROVE  FALSE
  OBVIOUS
<1>2. PICK n \in Bad : \A m \in Bad : n <= m
  BY <1>1, SmallestOf
<1>3. CASE n = j + 1
  BY <1>3, MonthStep, MonthNumbers
<1>4. CASE n # j + 1
  <2>1. n - 1 \in Nat /\ j < n - 1 /\ n - 1 >= 12 /\ n - 1 < n /\ n - 1 + 1 = n
    BY <1>4
  <2>2. n - 1 \notin Bad
    BY <2>1, <1>2
  <2>3. DaysBefore(j) + MonthLength(j) <= DaysBefore(n - 1)
    BY <2>1, <2>2
  <2>4. DaysBefore(n) = DaysBefore(n - 1) + MonthLength(n - 1)
    BY <2>1, MonthStep
  <2>5. /\ MonthLength(n - 1) \in 28..31 /\ DaysBefore(n - 1) \in Int
        /\ MonthLength(j) \in 28..31 /\ DaysBefore(j) \in Int
    BY <2>1, MonthNumbers
  <2> QED BY <2>3, <2>4, <2>5
<1> QED BY <1>3, <1>4

\* A day is one of exactly one month, the one that monthOf() says.
LEMMA MonthOfDay ==
  ASSUME NEW d \in Days
  PROVE  /\ monthOf(d) \in Months
         /\ DaysBefore(monthOf(d)) < d /\ d <= DaysBefore(monthOf(d)) + MonthLength(monthOf(d))
<1> DEFINE last == 12 * LastYear + 11
           Reach == {k \in Months : d <= DaysBefore(k) + MonthLength(k)}
<1>1. FirstYear \in Nat /\ LastYear \in Nat /\ 100 <= FirstYear /\ FirstYear <= LastYear
  BY DatePickerAssumption
<1>2. last \in Months /\ last \in Nat /\ last % 12 = 11
  BY <1>1 DEF Months
<1>3. MonthLength(last) = 31
  BY <1>2 DEF MonthLength
<1>4. d \in Nat /\ d >= 1 /\ d <= DaysBefore(last) + 31
  BY <1>2, MonthNumbers DEF Days
<1>5. last \in Reach /\ Reach \subseteq Nat
  BY <1>2, <1>3, <1>4, FirstMonthStarts
<1>6. PICK k \in Reach : \A m \in Reach : k <= m
  BY <1>5, SmallestOf
<1>7. DaysBefore(k) < d
  <2>1. CASE k = 12 * FirstYear
    BY <2>1, <1>4, FirstMonthStarts
  <2>2. CASE k # 12 * FirstYear
    <3>1. k - 1 \in Months /\ k - 1 < k /\ k - 1 + 1 = k
      BY <2>2, <1>1 DEF Months
    <3>2. k - 1 \notin Reach
      BY <3>1, <1>5, <1>6
    <3>3. ~(d <= DaysBefore(k - 1) + MonthLength(k - 1))
      BY <3>1, <3>2
    <3>4. k - 1 \in Nat /\ k - 1 >= 12
      BY <3>1, FirstMonthStarts
    <3>5. DaysBefore(k) = DaysBefore(k - 1) + MonthLength(k - 1)
      BY <3>1, <3>4, MonthStep
    <3>6. DaysBefore(k - 1) \in Int /\ MonthLength(k - 1) \in 28..31
      BY <3>4, MonthNumbers
    <3> QED BY <3>3, <3>5, <3>6, <1>4
  <2> QED BY <2>1, <2>2
<1>8. \E m \in Months : DaysBefore(m) < d /\ d <= DaysBefore(m) + MonthLength(m)
  BY <1>7
<1> QED BY <1>8, Zenon DEF monthOf

\* A day is in Days exactly when it is one of a month's, and then
\* monthOf() finds that month.
LEMMA DaysOfMonth ==
  ASSUME NEW k \in Months, NEW i \in 1..MonthLength(k)
  PROVE  DaysBefore(k) + i \in Days /\ monthOf(DaysBefore(k) + i) = k
<1> DEFINE last == 12 * LastYear + 11
           d == DaysBefore(k) + i
           m == monthOf(d)
<1>1. FirstYear \in Nat /\ LastYear \in Nat /\ 100 <= FirstYear /\ FirstYear <= LastYear
  BY DatePickerAssumption
<1>2. k \in Nat /\ k >= 12 /\ 12 * FirstYear \in Nat /\ 12 * FirstYear >= 12 /\ last \in Nat
  BY <1>1, FirstMonthStarts
<1>3. /\ DaysBefore(k) \in Int /\ MonthLength(k) \in 28..31 /\ DaysBefore(last) \in Int
      /\ MonthLength(12 * FirstYear) \in 28..31
  BY <1>2, MonthNumbers
<1>4. DaysBefore(k) >= 0
  <2>1. CASE k = 12 * FirstYear
    BY <2>1, FirstMonthStarts
  <2>2. CASE 12 * FirstYear < k
    BY <2>2, <1>2, <1>3, EarlierEnds, FirstMonthStarts
  <2> QED BY <2>1, <2>2, <1>1 DEF Months
<1>5. DaysBefore(k) + MonthLength(k) <= DaysBefore(last) + 31
  <2>1. CASE k = last
    BY <2>1, <1>3
  <2>2. CASE k < last
    BY <2>2, <1>2, <1>3, EarlierEnds
  <2> QED BY <2>1, <2>2, <1>1 DEF Months
<1>6. d \in Days
  BY <1>3, <1>4, <1>5 DEF Days
<1>7. m \in Months /\ DaysBefore(m) < d /\ d <= DaysBefore(m) + MonthLength(m)
  BY <1>6, MonthOfDay
<1>8. m \in Nat /\ m >= 12 /\ DaysBefore(m) \in Int /\ MonthLength(m) \in 28..31
  BY <1>7, FirstMonthStarts, MonthNumbers
<1> HIDE DEF m
<1>9. ~(m < k)
  BY <1>2, <1>3, <1>7, <1>8, EarlierEnds
<1>10. ~(k < m)
  BY <1>2, <1>3, <1>7, <1>8, EarlierEnds
<1>11. m = k
  BY <1>2, <1>8, <1>9, <1>10
<1> QED BY <1>6, <1>11 DEF m

\* What the date field may say, and the records the calendar may be.
FieldTexts ==
  {text \in [day : Nat, month : Nat, year : Nat \cup {NoDate}, full : BOOLEAN] :
     text.year # NoDate => fullYear(text.year) \in FirstYear..LastYear} \cup {NoDate}
Calendars ==
  [selected : Days \cup {NoDate}, focused : Days, month : Months,
   text : FieldTexts, error : BOOLEAN, reported : Days \cup {NoDate}]

\* A calendar shows the day that takes the focus, and has picked a day that the
\* config allows; it says what is picked unless it shows an error.
CalendarOK(f) ==
  /\ f \in Calendars /\ f.focused \in Grid(f.month)
  /\ f.selected # NoDate => f.selected >= min /\ f.reported = f.selected
Says(f) == ~f.error => f.text = TextOf(f.selected)

\* The date picker's inductive invariant: besides its properties, a text that
\* nobody checked since the field took focus was the picked day's.
DateIInv ==
  /\ inline \in BOOLEAN /\ entered \in BOOLEAN /\ jumped \in BOOLEAN
  /\ CalendarOK(field) /\ domDay \in Days /\ focusIn \in {"page", "input", "button", "head", "day"}
  /\ textOnFocus \in FieldTexts
  /\ ~inline /\ focusIn # "input" /\ ~entered => Says(field)
  /\ focusIn = "input" /\ ~entered /\ ~field.error => textOnFocus = TextOf(field.selected)
  /\ KeysMoveFromTheFocused

\* A day is on its own month's screen, and so is a month's first one.
LEMMA OnScreen ==
  /\ \A d \in Days : d \in Grid(monthOf(d)) /\ monthOf(d) \in Months
  /\ \A k \in Months : DaysBefore(k) + 1 \in Grid(k) \cap Days
<1>1. FirstWeekday \in 0..6
  BY DatePickerAssumption
<1>2. ASSUME NEW k \in Months, NEW i \in 1..31
      PROVE  DaysBefore(k) + i \in Grid(k)
  <2>1. DaysBefore(k) \in Int
    BY FirstMonthStarts, MonthNumbers
  <2>2. Weekday(DaysBefore(k) + 1) \in 0..6
    BY <1>1, <2>1 DEF Weekday
  <2> HIDE DEF Weekday
  <2> QED BY <2>1, <2>2 DEF Grid
<1>3. ASSUME NEW d \in Days
      PROVE  d \in Grid(monthOf(d)) /\ monthOf(d) \in Months
  <2>1. /\ monthOf(d) \in Months
        /\ DaysBefore(monthOf(d)) < d /\ d <= DaysBefore(monthOf(d)) + MonthLength(monthOf(d))
    BY MonthOfDay
  <2>2. DaysBefore(monthOf(d)) \in Int /\ MonthLength(monthOf(d)) \in 28..31
    BY <2>1, FirstMonthStarts, MonthNumbers
  <2>4. d \in Int
    BY DEF Days
  <2>3. d - DaysBefore(monthOf(d)) \in 1..31 /\ DaysBefore(monthOf(d)) + (d - DaysBefore(monthOf(d))) = d
    BY <2>1, <2>2, <2>4
  <2> QED BY <2>1, <2>3, <1>2
<1>4. ASSUME NEW k \in Months
      PROVE  DaysBefore(k) + 1 \in Grid(k) \cap Days
  <2>1. MonthLength(k) \in 28..31
    BY FirstMonthStarts, MonthNumbers
  <2>2. 1 \in 1..31 /\ 1 \in 1..MonthLength(k)
    BY <2>1
  <2> QED BY <2>2, <1>2, DaysOfMonth
<1> QED BY <1>3, <1>4

\* LongDate() writes a text that reads as its day.
LEMMA LongIsText ==
  ASSUME NEW d \in Days
  PROVE  Long(d) \in FieldTexts /\ TextOf(d) = Long(d) /\ TextOf(NoDate) = NoDate
<1> DEFINE k == monthOf(d)
<1>1. k \in Months /\ DaysBefore(k) < d
  BY MonthOfDay
<1> HIDE DEF k
<1>2. k \in Nat /\ k \div 12 \in FirstYear..LastYear /\ FirstYear \in Nat /\ 100 <= FirstYear /\ LastYear \in Nat
  BY <1>1, FirstMonthStarts, DatePickerAssumption
<1>3. DaysBefore(k) \in Int /\ d \in Int
  BY <1>2, MonthNumbers DEF Days
<1>4. d - DaysBefore(k) \in Nat /\ (k % 12) + 1 \in Nat /\ k \div 12 \in Nat
  BY <1>1, <1>2, <1>3
<1>5. fullYear(k \div 12) \in FirstYear..LastYear
  BY <1>2, <1>4 DEF fullYear
<1>6. Long(d) = [day |-> d - DaysBefore(k), month |-> (k % 12) + 1, year |-> k \div 12, full |-> TRUE]
  BY DEF Long, k
<1>7. Long(d) \in FieldTexts
  BY <1>4, <1>5, <1>6 DEF FieldTexts
<1>8. d # NoDate
  BY <1>3, DatePickerAssumption
<1> QED BY <1>7, <1>8 DEF TextOf

\* A text is read as a day there is, of that month, or not at all.
LEMMA ParseReads ==
  ASSUME NEW text \in FieldTexts, text # NoDate, NEW year \in FirstYear..LastYear,
         parseDate(text, year) # NoDate
  PROVE  /\ parseDate(text, year) \in Days
         /\ Long(parseDate(text, year)).day = text.day /\ Long(parseDate(text, year)).month = text.month
<1> DEFINE y == fullYear(IF text.year = NoDate THEN year ELSE text.year)
           k == 12 * y + text.month - 1
           d == DaysBefore(k) + text.day
<1>1. FirstYear \in Nat /\ LastYear \in Nat /\ 100 <= FirstYear
  BY DatePickerAssumption
<1>2. text.day \in Nat /\ text.month \in Nat /\ (text.year # NoDate => fullYear(text.year) \in FirstYear..LastYear)
  BY DEF FieldTexts
<1>3. y \in FirstYear..LastYear
  BY <1>1, <1>2 DEF fullYear
<1> HIDE DEF y
<1>4. text.month \in 1..12 /\ text.day \in 1..MonthLength(k) /\ parseDate(text, year) = d
  BY DEF parseDate, y
<1>5. k \in Months /\ k % 12 = text.month - 1
  BY <1>1, <1>2, <1>3, <1>4 DEF Months
<1> HIDE DEF k
<1>6. d \in Days /\ monthOf(d) = k
  BY <1>4, <1>5, DaysOfMonth
<1>7. DaysBefore(k) \in Int
  BY <1>5, FirstMonthStarts, MonthNumbers
<1>8. Long(d).day = d - DaysBefore(k) /\ Long(d).month = (k % 12) + 1
  BY <1>6 DEF Long
<1>9. d - DaysBefore(k) = text.day /\ (k % 12) + 1 = text.month
  BY <1>2, <1>5, <1>7
<1> QED BY <1>4, <1>6, <1>8, <1>9

\* The calendar that check() leaves, whatever the field said.
LEMMA CheckedOK ==
  ASSUME CalendarOK(field)
  PROVE  /\ CalendarOK(checked) /\ Says(checked)
         /\ checked.selected \notin {field.selected, NoDate} =>
              /\ Long(checked.selected).day = field.text.day
              /\ Long(checked.selected).month = field.text.month
<1> DEFINE date == parseDate(field.text, field.month \div 12)
           new == [selected |-> date, focused |-> date, month |-> monthOf(date),
                   text |-> Long(date), error |-> FALSE, reported |-> date]
<1>1. field \in Calendars /\ field.month \in Months /\ field.text \in FieldTexts /\ min \in Int
  BY DatePickerAssumption DEF CalendarOK, Calendars, Days
<1>2. field.month \div 12 \in FirstYear..LastYear
  BY <1>1, FirstMonthStarts
<1>3. CASE field.text = NoDate
  <2>1. checked = [field EXCEPT !.selected = NoDate, !.error = FALSE]
    BY <1>3 DEF checked
  <2>2. /\ checked \in Calendars /\ checked.selected = NoDate /\ checked.text = NoDate
        /\ checked.focused = field.focused /\ checked.month = field.month
    BY <1>1, <1>3, <2>1 DEF Calendars
  <2> QED BY <2>2 DEF CalendarOK, Says, TextOf
<1>4. CASE field.text # NoDate /\ (date = NoDate \/ date < min)
  <2>1. checked = [field EXCEPT !.error = TRUE]
    BY <1>4 DEF checked
  <2>2. /\ checked \in Calendars /\ checked.selected = field.selected /\ checked.error = TRUE
        /\ checked.focused = field.focused /\ checked.month = field.month /\ checked.reported = field.reported
    BY <1>1, <2>1 DEF Calendars
  <2> QED BY <2>2 DEF CalendarOK, Says
<1>5. CASE field.text # NoDate /\ ~(date = NoDate \/ date < min)
  <2>1. checked = new
    BY <1>5 DEF checked
  <2>2. date \in Days /\ Long(date).day = field.text.day /\ Long(date).month = field.text.month
    BY <1>1, <1>2, <1>5, ParseReads
  <2>3. Long(date) \in FieldTexts /\ TextOf(date) = Long(date) /\ monthOf(date) \in Months /\ date \in Grid(monthOf(date))
    BY <2>2, LongIsText, OnScreen
  <2>4. date >= min
    BY <1>1, <1>5, <2>2 DEF Days
  <2> HIDE DEF date
  <2>5. new \in Calendars
    BY <2>2, <2>3 DEF Calendars
  <2> QED BY <2>1, <2>2, <2>3, <2>4, <2>5 DEF CalendarOK, Says
<1> QED BY <1>3, <1>4, <1>5

\* What losing the focus leaves.
LEMMA BlurredOK ==
  ASSUME CalendarOK(field)
  PROVE  /\ CalendarOK(Blurred) /\ (Blurred = field \/ Says(Blurred))
         /\ focusIn # "input" \/ field.text = textOnFocus => Blurred = field
         /\ Blurred.selected \notin {field.selected, NoDate} =>
              /\ Long(Blurred.selected).day = field.text.day
              /\ Long(Blurred.selected).month = field.text.month
BY CheckedOK DEF Blurred

\* The calendars that moving to a day or a month and picking a day leave.
LEMMA MovedOK ==
  ASSUME CalendarOK(field)
  PROVE  /\ \A d \in Days : /\ CalendarOK(Focused(d)) /\ Focused(d).focused = d
                            /\ Focused(d).selected = field.selected /\ (Says(field) => Says(Focused(d)))
         /\ \A k \in Months : /\ CalendarOK(Shown(k)) /\ Shown(k).selected = field.selected
                              /\ (Says(field) => Says(Shown(k)))
         /\ \A d \in Grid(field.month) \cap Days :
              d >= min => CalendarOK(Picked(d)) /\ Picked(d).focused = d /\ Says(Picked(d))
<1>1. field \in Calendars
  BY DEF CalendarOK
<1>2. ASSUME NEW d \in Days
      PROVE  /\ CalendarOK(Focused(d)) /\ Focused(d).focused = d
             /\ Focused(d).selected = field.selected /\ (Says(field) => Says(Focused(d)))
  <2>1. monthOf(d) \in Months /\ d \in Grid(monthOf(d))
    BY OnScreen
  <2>2. /\ Focused(d) \in Calendars /\ Focused(d).focused = d /\ Focused(d).month = monthOf(d)
        /\ Focused(d).selected = field.selected /\ Focused(d).reported = field.reported
        /\ Focused(d).text = field.text /\ Focused(d).error = field.error
    BY <1>1, <2>1 DEF Focused, Calendars
  <2> QED BY <2>1, <2>2 DEF CalendarOK, Says
<1>3. ASSUME NEW k \in Months
      PROVE  CalendarOK(Shown(k)) /\ Shown(k).selected = field.selected /\ (Says(field) => Says(Shown(k)))
  <2> DEFINE d == DaysBefore(k) + 1
  <2>1. d \in Grid(k) /\ d \in Days
    BY OnScreen
  <2>2. Shown(k) = [field EXCEPT !.focused = d, !.month = k]
    BY DEF Shown
  <2> HIDE DEF d
  <2>3. /\ Shown(k) \in Calendars /\ Shown(k).focused = d /\ Shown(k).month = k
        /\ Shown(k).selected = field.selected /\ Shown(k).reported = field.reported
        /\ Shown(k).text = field.text /\ Shown(k).error = field.error
    BY <1>1, <2>1, <2>2 DEF Calendars
  <2> QED BY <2>1, <2>3 DEF CalendarOK, Says
<1>4. ASSUME NEW d \in Grid(field.month) \cap Days, d >= min
      PROVE  CalendarOK(Picked(d)) /\ Picked(d).focused = d /\ Says(Picked(d))
  <2>1. Long(d) \in FieldTexts /\ TextOf(d) = Long(d)
    BY LongIsText
  <2>2. /\ Picked(d) \in Calendars /\ Picked(d).focused = d /\ Picked(d).month = field.month
        /\ Picked(d).selected = d /\ Picked(d).reported = d /\ Picked(d).text = Long(d)
    BY <1>1, <2>1 DEF Picked, Calendars
  <2> QED BY <1>4, <2>1, <2>2 DEF CalendarOK, Says
<1> QED BY <1>2, <1>3, <1>4

\* Where asking for the focus puts it.
LEMMA LandsOK ==
  ASSUME NEW new, FocusDay(new), domDay \in Days, new.focused \in Days, focusIn \in {"page", "button", "head", "day"}
  PROVE  /\ domDay' \in Days /\ focusIn' \in {"page", "button", "head", "day"}
         /\ focusIn' = "day" => domDay' = new.focused \/ new.focused < min
<1>1. focusIn' = Lands(new.focused, new.month)[1] /\ domDay' = Lands(new.focused, new.month)[2]
  BY DEF FocusDay
<1>2. CASE new.focused >= min
  BY <1>1, <1>2 DEF Lands
<1>3. CASE ~(new.focused >= min)
  <2>1. new.focused < min
    BY <1>3, DatePickerAssumption DEF Days
  <2> QED BY <1>1, <1>3, <2>1 DEF Lands
<1> QED BY <1>2, <1>3

\* The date picker starts as its invariant says.
LEMMA DateStarts ==
  ASSUME DateInit
  PROVE  DateIInv
<1>1. PICK value \in Values : field = initialCalendar(value)
  BY DEF DateInit
<1> DEFINE first == IF value = NoDate THEN today ELSE value
<1>2. /\ value \in Days \cup {NoDate} /\ today \in Days /\ (value # NoDate => value >= min)
  BY DatePickerAssumption
<1>3. first \in Days
  BY <1>2
<1>4. field = [selected |-> value, focused |-> first, month |-> monthOf(first),
               text |-> TextOf(value), error |-> FALSE, reported |-> value]
  BY <1>1 DEF initialCalendar
<1> HIDE DEF first
<1>5. TextOf(value) \in FieldTexts
  <2>1. CASE value = NoDate
    BY <2>1, LongIsText DEF TextOf, FieldTexts
  <2>2. CASE value \in Days
    BY <2>2, LongIsText
  <2> QED BY <2>1, <2>2, <1>2
<1>6. first \in Grid(monthOf(first)) /\ monthOf(first) \in Months
  BY <1>3, OnScreen
<1>7. field \in Calendars
  BY <1>2, <1>3, <1>4, <1>5, <1>6 DEF Calendars
<1>8. CalendarOK(field) /\ Says(field)
  BY <1>2, <1>4, <1>6, <1>7 DEF CalendarOK, Says
<1>9. textOnFocus \in FieldTexts /\ domDay \in Days
  BY <1>3, <1>4, <1>5 DEF DateInit
<1> QED BY <1>8, <1>9 DEF DateInit, DateIInv, KeysMoveFromTheFocused

\* The date picker: no step breaks its invariant, and a day that is typed is
\* that day.
LEMMA DateStep ==
  ASSUME DateIInv, [DateNext]_dateVars
  PROVE  /\ DateIInv'
         /\ focusIn = "input" /\ field'.selected \notin {field.selected, NoDate} =>
              LET read == Long(field'.selected) IN read.day = field.text.day /\ read.month = field.text.month
<1> DEFINE Reads == focusIn = "input" /\ field'.selected \notin {field.selected, NoDate} =>
                      LET read == Long(field'.selected) IN read.day = field.text.day /\ read.month = field.text.month
           Goal == DateIInv' /\ Reads
<1> SUFFICES Goal
  OBVIOUS
<1>1. /\ inline \in BOOLEAN /\ entered \in BOOLEAN /\ jumped \in BOOLEAN
      /\ CalendarOK(field) /\ domDay \in Days /\ focusIn \in {"page", "input", "button", "head", "day"}
      /\ textOnFocus \in FieldTexts
      /\ ~inline /\ focusIn # "input" /\ ~entered => Says(field)
      /\ focusIn = "input" /\ ~entered /\ ~field.error => textOnFocus = TextOf(field.selected)
      /\ KeysMoveFromTheFocused
  BY DEF DateIInv
<1>2. field \in Calendars
  BY <1>1 DEF CalendarOK
<1>3. field.focused \in Days /\ field.text \in FieldTexts
  BY <1>2 DEF Calendars
<1>4. CASE FocusInput
  BY <1>1, <1>3, <1>4 DEF FocusInput, Does, DateIInv, Says, KeysMoveFromTheFocused
<1>5. CASE TypesDate
  <2>1. PICK text \in Texts \cup {NoDate, textOnFocus} : field' = [field EXCEPT !.text = text]
    BY <1>5 DEF TypesDate
  <2>2. text \in FieldTexts
    BY <1>1, DatePickerAssumption DEF FieldTexts
  <2>3. /\ field' \in Calendars /\ field'.selected = field.selected /\ field'.focused = field.focused
        /\ field'.month = field.month /\ field'.reported = field.reported /\ field'.error = field.error
    BY <1>2, <2>1, <2>2 DEF Calendars
  <2>4. CalendarOK(field)'
    BY <1>1, <2>3 DEF CalendarOK
  <2> QED BY <1>1, <1>5, <2>3, <2>4 DEF TypesDate, Does, DateIInv, KeysMoveFromTheFocused
<1>6. CASE Enter
  <2>1. CalendarOK(field)' /\ Says(field)' /\ Reads
    BY <1>1, <1>6, CheckedOK DEF Enter
  <2>2. focusIn = "input" /\ focusIn' = "input" /\ UNCHANGED <<domDay, textOnFocus, jumped, inline>>
        /\ entered' = (field'.text # textOnFocus)
    BY <1>6 DEF Enter, Does
  <2> QED BY <1>1, <2>1, <2>2 DEF DateIInv, KeysMoveFromTheFocused, Says
\* Where the field is left: it says what is picked, or shows an error.
<1>7. ASSUME field' = Blurred, entered' = (entered /\ (focusIn = "input" => field.text = textOnFocus))
      PROVE  /\ CalendarOK(field)' /\ Reads
             /\ ~inline /\ ~entered' => Says(field)'
             /\ focusIn # "input" => field' = field
  <2>1. CalendarOK(field)' /\ Reads /\ (field' = field \/ Says(field)')
    BY <1>1, <1>7, BlurredOK
  <2>2. focusIn # "input" \/ field.text = textOnFocus => field' = field
    BY <1>1, <1>7, BlurredOK
  <2>3. ASSUME ~inline, ~entered'
        PROVE  Says(field)'
    <3>1. CASE focusIn = "input" /\ field.text # textOnFocus
      BY <1>1, <1>7, <3>1, CheckedOK DEF Blurred
    <3>2. CASE focusIn = "input" /\ field.text = textOnFocus
      BY <1>1, <1>7, <2>2, <2>3, <3>2 DEF Says
    <3>3. CASE focusIn # "input"
      BY <1>1, <1>7, <2>2, <2>3, <3>3
    <3> QED BY <3>1, <3>2, <3>3
  <2> QED BY <2>1, <2>2, <2>3
<1>8. CASE openCalendarByKey
  <2>1. CASE field.focused < min
    BY <1>1, <1>8, <2>1 DEF openCalendarByKey, Does, DateIInv, KeysMoveFromTheFocused
  <2>2. CASE ~(field.focused < min)
    <3>1. /\ focusIn = "input" /\ field' = Blurred /\ domDay' = field.focused
          /\ focusIn' \in {"day", "page"} /\ jumped' = (field'.focused # field.focused)
          /\ entered' = (entered /\ field.text = textOnFocus) /\ UNCHANGED <<inline, textOnFocus>>
      BY <1>8, <2>2 DEF openCalendarByKey, Does
    <3>2. CalendarOK(field)' /\ Reads /\ (~inline /\ ~entered' => Says(field)')
      BY <1>7, <3>1
    <3> QED BY <1>1, <1>3, <3>1, <3>2 DEF DateIInv, KeysMoveFromTheFocused
  <2> QED BY <2>1, <2>2
<1>9. CASE LeaveField \/ closeCalendar
  <2>1. /\ field' = Blurred /\ entered' = (entered /\ (focusIn = "input" => field.text = textOnFocus))
        /\ focusIn' \in {"page", "button"} /\ UNCHANGED <<inline, textOnFocus, domDay>> /\ jumped' = FALSE
    BY <1>9 DEF LeaveField, closeCalendar, Does
  <2>2. CalendarOK(field)' /\ Reads /\ (~inline /\ ~entered' => Says(field)')
    BY <1>7, <2>1
  <2> QED BY <1>1, <2>1, <2>2 DEF DateIInv, KeysMoveFromTheFocused
<1>10. CASE Toggle
  <2>1. /\ focusIn = "button" /\ UNCHANGED <<inline, field, textOnFocus, entered>> /\ jumped' = FALSE
        /\ UNCHANGED <<focusIn, domDay>> \/ FocusDay(field)
    BY <1>10 DEF Toggle, Does
  <2>2. /\ domDay' \in Days /\ focusIn' \in {"page", "button", "head", "day"}
        /\ focusIn' = "day" => domDay' = field.focused \/ field.focused < min
    BY <1>1, <1>3, <2>1, LandsOK
  <2> QED BY <1>1, <2>1, <2>2 DEF DateIInv, KeysMoveFromTheFocused
<1>11. CASE TabToDay
  BY <1>1, <1>3, <1>11 DEF TabToDay, Does, DateIInv, KeysMoveFromTheFocused
<1>12. ASSUME NEW delta \in {-1, 1}, showMonth(delta)
       PROVE  Goal
  <2>1. /\ focusIn # "input" /\ field.month + delta \in Months /\ field' = Shown(field.month + delta)
        /\ focusIn' = "head" /\ jumped' = FALSE /\ UNCHANGED <<inline, textOnFocus, domDay, entered>>
    BY <1>12 DEF showMonth, Does
  <2>2. CalendarOK(field)' /\ (Says(field) => Says(field)')
    BY <1>1, <2>1, MovedOK
  <2> QED BY <1>1, <2>1, <2>2 DEF DateIInv, KeysMoveFromTheFocused
<1>13. ASSUME NEW d, moveFocus(d), focusIn # "input"
       PROVE  Goal
  <2>1. /\ d \in Days /\ field' = Focused(d) /\ FocusDay(field')
        /\ jumped' = FALSE /\ UNCHANGED <<inline, textOnFocus, entered>>
    BY <1>13 DEF moveFocus, Does
  <2>2. CalendarOK(field)' /\ (Says(field) => Says(field)') /\ field'.focused = d
    BY <1>1, <2>1, MovedOK
  <2>3. /\ domDay' \in Days /\ focusIn' \in {"page", "button", "head", "day"}
        /\ focusIn' = "day" => domDay' = field'.focused \/ field'.focused < min
    BY <1>1, <1>13, <2>1, <2>2, LandsOK
  <2> QED BY <1>1, <1>13, <2>1, <2>2, <2>3 DEF DateIInv, KeysMoveFromTheFocused
<1>14. ASSUME NEW d, pickDay(d)
       PROVE  Goal
  <2>1. /\ focusIn # "input" /\ d \in Grid(field.month) \cap Days /\ d >= min /\ field' = Picked(d)
        /\ entered' = FALSE /\ jumped' = FALSE /\ UNCHANGED <<inline, textOnFocus>>
        /\ FocusDay(field') \/ (focusIn' = "button" /\ UNCHANGED domDay)
    BY <1>14 DEF pickDay, Does
  <2>2. CalendarOK(field)' /\ Says(field)' /\ field'.focused = d
    BY <1>1, <2>1, MovedOK
  <2>3. /\ domDay' \in Days /\ focusIn' \in {"page", "button", "head", "day"}
        /\ focusIn' = "day" => domDay' = field'.focused \/ field'.focused < min
    BY <1>1, <2>1, <2>2, LandsOK
  <2> QED BY <1>1, <2>1, <2>2, <2>3 DEF DateIInv, KeysMoveFromTheFocused
<1>15. CASE DayKey \/ Today \/ PickDay
  BY <1>13, <1>14, <1>15 DEF DayKey, Today, PickDay
<1>16. CASE UNCHANGED dateVars
  BY <1>1, <1>16 DEF dateVars, DateIInv, CalendarOK, Says, KeysMoveFromTheFocused
<1> QED BY <1>4, <1>5, <1>6, <1>8, <1>9, <1>10, <1>11, <1>12, <1>15, <1>16 DEF DateNext

\* Field, calendar and keys agree on the day that is picked.
LEMMA DatesHold == DateSpec => DatesSafe
<1>1. DateInit => DateIInv
  BY DateStarts
<1>2. DateIInv /\ [DateNext]_dateVars =>
        DateIInv' /\ (focusIn = "input" /\ field'.selected \notin {field.selected, NoDate} =>
          LET read == Long(field'.selected) IN read.day = field.text.day /\ read.month = field.text.month)
  BY DateStep
<1>3. DateIInv => FocusedDayIsShown /\ PickedIsAllowed /\ FieldSaysThePicked /\ KeysMoveFromTheFocused
  <2> SUFFICES ASSUME DateIInv
               PROVE  FocusedDayIsShown /\ PickedIsAllowed /\ FieldSaysThePicked /\ KeysMoveFromTheFocused
    OBVIOUS
  <2>1. field \in Calendars
    BY DEF DateIInv, CalendarOK
  <2>2. field.month \in Months /\ field.focused \in Days /\ field.selected \in Days \cup {NoDate}
    BY <2>1 DEF Calendars
  <2> QED BY <2>2 DEF DateIInv, CalendarOK, Says, FocusedDayIsShown, PickedIsAllowed, FieldSaysThePicked
<1> QED BY <1>1, <1>2, <1>3, PTL DEF DateSpec, DatesSafe, ReadsTheTyped
-------------------------------------------------------------------------------
\* What the widgets show, hold and do stays true to what was pressed, typed,
\* pointed to and chosen, for any configuration of theirs.
THEOREM WidgetsAreSafe == WidgetsSpec => WidgetsSafe
<1>1. ToastsSpec => ToastsSafe
  BY ToastsHold
<1>2. DateSpec => DatesSafe
  BY DatesHold
<1>3. MenubarSpec => MenubarSafe
  BY MenubarHolds
<1>4. UserMenuSpec => UserMenuSafe
  BY UserMenuHolds
<1>5. TipsSpec /\ ComboSpec /\ PaletteSpec => [](TipsInv /\ ComboInv /\ PaletteInv)
  BY TipsHold, ComboHolds, PaletteHolds, PTL
<1> QED BY <1>1, <1>2, <1>3, <1>4, <1>5 DEF WidgetsSpec, WidgetsSafe
-------------------------------------------------------------------------------
\* Bytes.
Byte == 0..255

\* A sequence that TLC evaluates once is that sequence.
LEMMA TupleIs ==
  ASSUME NEW n \in Nat, NEW S, NEW s \in [1..n -> S]
  PROVE  Tuple(s) = s /\ s \in Seq(S) /\ Len(s) = n
<1>1. s \in Seq(S)
  BY SeqDef
<1> QED BY <1>1, ConcatEmptySeq DEF Tuple

\* A byte is a number below 256.
LEMMA ByteIs == Byte \subseteq Nat /\ (\A b \in Byte : b < 256) /\ (\A b \in Nat : b < 256 => b \in Byte)
BY SMT DEF Byte

\* Two bytes are three digits of base 45, and one is two.
LEMMA DigitsOf ==
  ASSUME NEW n \in Nat, n < 65536
  PROVE  /\ n % 45 \in 0..44 /\ (n \div 45) % 45 \in 0..44 /\ n \div 2025 \in 0..44
         /\ n = (n % 45) + 45 * ((n \div 45) % 45) + 2025 * (n \div 2025)
         /\ n < 256 => n \div 2025 = 0
<1>1. n = 45 * (n \div 45) + (n % 45) /\ n % 45 \in 0..44 /\ n \div 45 \in Nat
  BY SMT
<1>2. n \div 45 = 45 * ((n \div 45) \div 45) + ((n \div 45) % 45) /\ (n \div 45) % 45 \in 0..44
  BY <1>1, SMT
<1>3. n \div 2025 = (n \div 45) \div 45
  BY SMT
<1>4. n \div 2025 \in 0..44
  BY SMT
<1>5. n < 256 => n \div 2025 = 0
  BY SMT
<1> QED BY <1>1, <1>2, <1>3, <1>4, <1>5, SMT

\* And what three digits are worth has these digits.
LEMMA DigitsBack ==
  ASSUME NEW a \in 0..44, NEW b \in 0..44, NEW c \in 0..44
  PROVE  /\ a + 45 * b + 2025 * c \in Nat
         /\ (a + 45 * b + 2025 * c) % 45 = a
         /\ ((a + 45 * b + 2025 * c) \div 45) % 45 = b
         /\ (a + 45 * b + 2025 * c) \div 2025 = c
<1> DEFINE n == a + 45 * b + 2025 * c
<1>1. n \in Nat /\ n \div 45 = b + 45 * c /\ n % 45 = a
  BY SMT
<1>2. (b + 45 * c) % 45 = b
  BY SMT
<1>3. n \div 2025 = c
  BY SMT
<1> QED BY <1>1, <1>2, <1>3, SMT

\* Two bytes are a number, which has them.
LEMMA WordOf ==
  ASSUME NEW x \in Byte, NEW y \in Byte
  PROVE  /\ x * 256 + y \in Nat /\ x * 256 + y < 65536
         /\ (x * 256 + y) \div 256 = x /\ (x * 256 + y) % 256 = y
<1>1. x \in Nat /\ x < 256 /\ y \in Nat /\ y < 256
  BY ByteIs, SMT
<1>2. x * 256 + y \in Nat /\ x * 256 + y < 65536
  BY <1>1, SMT
<1>3. (x * 256 + y) \div 256 = x /\ (x * 256 + y) % 256 = y
  BY <1>1, SMT
<1> QED BY <1>2, <1>3, SMT

\* Bytes, in pairs.
LEMMA PairIs ==
  ASSUME NEW bytes \in Seq(Byte), NEW g \in Nat, 2 * g + 1 <= Len(bytes)
  PROVE  /\ Pair(bytes, g) \in Nat /\ Pair(bytes, g) < 65536
         /\ 2 * g + 2 > Len(bytes) => Pair(bytes, g) = bytes[2 * g + 1] /\ Pair(bytes, g) < 256
         /\ 2 * g + 2 <= Len(bytes) =>
              Pair(bytes, g) \div 256 = bytes[2 * g + 1] /\ Pair(bytes, g) % 256 = bytes[2 * g + 2]
<1> DEFINE x == bytes[2 * g + 1]
           y == bytes[2 * g + 2]
           p == Pair(bytes, g)
           whole == 2 * g + 2 <= Len(bytes)
<1>1. x \in Byte /\ (whole => y \in Byte)
  BY ElementOfSeq, SMT
<1>2. p = IF whole THEN x * 256 + y ELSE x
  BY DEF Pair
<1>3. 2 * g + 2 > Len(bytes) <=> ~whole
  BY SMT
<1> HIDE DEF x, y, p, whole
<1>4. CASE whole
  <2>1. /\ x * 256 + y \in Nat /\ x * 256 + y < 65536
        /\ (x * 256 + y) \div 256 = x /\ (x * 256 + y) % 256 = y
    BY <1>1, <1>4, WordOf
  <2>2. p \in Nat /\ p < 65536 /\ p \div 256 = x /\ p % 256 = y
    BY <1>2, <1>4, <2>1, SMT
  <2> QED BY <1>3, <1>4, <2>2, SMT DEF x, y, p, whole
<1>5. CASE ~whole
  <2>1. x \in Nat /\ x < 256
    BY <1>1, ByteIs
  <2>2. p = x /\ p \in Nat /\ p < 256 /\ p < 65536
    BY <1>2, <1>5, <2>1, SMT
  <2> QED BY <1>3, <1>5, <2>2, SMT DEF x, y, p, whole
<1> QED BY <1>4, <1>5

\* A QR text is in the alphabet, and has three characters for two bytes.
LEMMA Base45Is ==
  ASSUME NEW bytes \in Seq(Byte)
  PROVE  LET text == base45(bytes) IN
         /\ text \in Seq(0..44)
         /\ Len(text) = 3 * (Len(bytes) \div 2) + 2 * (Len(bytes) % 2)
         /\ \A k \in 1..Len(text) :
              LET n == Pair(bytes, (k - 1) \div 3) IN
              /\ k % 3 = 1 => text[k] = n % 45
              /\ k % 3 = 2 => text[k] = (n \div 45) % 45
              /\ k % 3 = 0 => text[k] = n \div 2025
<1> DEFINE L == Len(bytes)
           T == 3 * (L \div 2) + 2 * (L % 2)
           char(k) == LET n == Pair(bytes, (k - 1) \div 3) IN
             CASE k % 3 = 1 -> n % 45 [] k % 3 = 2 -> (n \div 45) % 45 [] k % 3 = 0 -> n \div 2025
           s == [k \in 1..T |-> char(k)]
<1>1. L \in Nat /\ T \in Nat
  BY SMT
<1>2. ASSUME NEW k \in 1..T
      PROVE  /\ char(k) \in 0..44
             /\ LET n == Pair(bytes, (k - 1) \div 3) IN
                /\ k % 3 = 1 => char(k) = n % 45
                /\ k % 3 = 2 => char(k) = (n \div 45) % 45
                /\ k % 3 = 0 => char(k) = n \div 2025
  <2> DEFINE g == (k - 1) \div 3
             n == Pair(bytes, g)
  <2>1. g \in Nat /\ 2 * g + 1 <= L /\ k % 3 \in 0..2
    BY <1>1, SMT
  <2>2. n \in Nat /\ n < 65536
    BY <2>1, PairIs, SMT
  <2> HIDE DEF n
  <2>3. n % 45 \in 0..44 /\ (n \div 45) % 45 \in 0..44 /\ n \div 2025 \in 0..44
    BY <2>2, DigitsOf
  <2>4. char(k) = CASE k % 3 = 1 -> n % 45 [] k % 3 = 2 -> (n \div 45) % 45 [] k % 3 = 0 -> n \div 2025
    BY DEF n
  <2> HIDE DEF char, g
  <2> QED BY <2>1, <2>3, <2>4 DEF n, g
<1> HIDE DEF char, T
<1>3. s \in [1..T -> 0..44]
  <2>1. \A k \in 1..T : char(k) \in 0..44
    BY <1>2
  <2> QED BY <2>1
<1> HIDE DEF s
<1>4. Tuple(s) = s /\ s \in Seq(0..44) /\ Len(s) = T
  BY <1>1, <1>3, TupleIs, Zenon
<1>5. base45(bytes) = s
  <2>1. base45(bytes) = Tuple(s)
    BY DEF base45, s, char, T
  <2> QED BY <1>4, <2>1
<1>6. \A k \in 1..T : s[k] = char(k)
  BY DEF s
<1>7. ASSUME NEW k \in 1..Len(base45(bytes))
      PROVE  LET n == Pair(bytes, (k - 1) \div 3) IN
              /\ k % 3 = 1 => base45(bytes)[k] = n % 45
              /\ k % 3 = 2 => base45(bytes)[k] = (n \div 45) % 45
              /\ k % 3 = 0 => base45(bytes)[k] = n \div 2025
  <2>1. k \in 1..T
    BY <1>4, <1>5
  <2>2. base45(bytes)[k] = char(k)
    BY <1>5, <1>6, <2>1
  <2> QED BY <1>2, <2>1, <2>2
<1> QED BY <1>4, <1>5, <1>7 DEF T

\* A group of a QR text is worth its pair of bytes.
LEMMA GroupIsPair ==
  ASSUME NEW bytes \in Seq(Byte), NEW g \in Nat, 2 * g + 1 <= Len(bytes)
  PROVE  /\ Group45(base45(bytes), g) = Pair(bytes, g)
         /\ Whole45(base45(bytes), g) <=> 2 * g + 2 <= Len(bytes)
<1> DEFINE text == base45(bytes)
           L == Len(bytes)
           n == Pair(bytes, g)
<1>1. /\ text \in Seq(0..44) /\ Len(text) = 3 * (L \div 2) + 2 * (L % 2)
      /\ \A k \in 1..Len(text) :
           LET m == Pair(bytes, (k - 1) \div 3) IN
           /\ k % 3 = 1 => text[k] = m % 45
           /\ k % 3 = 2 => text[k] = (m \div 45) % 45
           /\ k % 3 = 0 => text[k] = m \div 2025
  BY Base45Is
<1> HIDE DEF text
<1>2. L \in Nat /\ DOMAIN text = 1..Len(text)
  BY <1>1
<1>3. 3 * g + 2 <= Len(text) /\ (3 * g + 3 <= Len(text) <=> 2 * g + 2 <= L)
  BY <1>1, <1>2, SMT
<1>4. /\ (3 * g + 1) % 3 = 1 /\ (3 * g + 1 - 1) \div 3 = g
      /\ (3 * g + 2) % 3 = 2 /\ (3 * g + 2 - 1) \div 3 = g
      /\ (3 * g + 3) % 3 = 0 /\ (3 * g + 3 - 1) \div 3 = g
  BY SMT
<1>5. text[3 * g + 1] = n % 45
  <2> DEFINE k == 3 * g + 1
  <2>a. k \in 1..Len(text)
    BY <1>1, <1>3, SMT
  <2>1. k \in 1..Len(text) /\ k % 3 = 1 /\ (k - 1) \div 3 = g
    BY <1>4, <2>a, SMT
  <2> HIDE DEF k
  <2>2. text[k] = Pair(bytes, (k - 1) \div 3) % 45
    BY <1>1, <2>1, SMT
  <2> QED BY <2>1, <2>2, Zenon DEF k, n
<1>6. At(text, 3 * g + 2) = (n \div 45) % 45
  <2> DEFINE k == 3 * g + 2
  <2>a. k \in 1..Len(text)
    BY <1>1, <1>3, SMT
  <2>1. k \in 1..Len(text) /\ k % 3 = 2 /\ (k - 1) \div 3 = g
    BY <1>4, <2>a, SMT
  <2> HIDE DEF k
  <2>2. text[k] = (Pair(bytes, (k - 1) \div 3) \div 45) % 45
    BY <1>1, <2>1, SMT
  <2>3. At(text, k) = text[k]
    BY <1>2, <2>1, Zenon DEF At
  <2> QED BY <2>1, <2>2, <2>3, Zenon DEF k, n
<1>7. 2 * g + 2 <= L => At(text, 3 * g + 3) = n \div 2025
  <2> SUFFICES ASSUME 2 * g + 2 <= L PROVE At(text, 3 * g + 3) = n \div 2025
    OBVIOUS
  <2> DEFINE k == 3 * g + 3
  <2>a. k \in 1..Len(text)
    BY <1>1, <1>3, SMT
  <2>1. k \in 1..Len(text) /\ k % 3 = 0 /\ (k - 1) \div 3 = g
    BY <1>4, <2>a, SMT
  <2> HIDE DEF k
  <2>2. text[k] = Pair(bytes, (k - 1) \div 3) \div 2025
    BY <1>1, <2>1, SMT
  <2>3. At(text, k) = text[k]
    BY <1>2, <2>1, Zenon DEF At
  <2> QED BY <2>1, <2>2, <2>3 DEF k, n
<1>8. ~(2 * g + 2 <= L) => At(text, 3 * g + 3) = 0
  BY <1>2, <1>3 DEF At
<1>9. n \in Nat /\ n < 65536 /\ (~(2 * g + 2 <= L) => n < 256)
  BY <1>2, PairIs, SMT
<1> HIDE DEF n
<1>10. Group45(text, g) = n
  <2>1. n = (n % 45) + 45 * ((n \div 45) % 45) + 2025 * (n \div 2025) /\ (n < 256 => n \div 2025 = 0)
    BY <1>9, DigitsOf
  <2>2. At(text, 3 * g + 3) = n \div 2025
    BY <1>7, <1>8, <1>9, <2>1
  <2> QED BY <1>5, <1>6, <2>1, <2>2 DEF Group45
<1> QED BY <1>3, <1>10 DEF Whole45, n, text

\* A QR text's groups are the bytes' pairs.
LEMMA QrReadsBack ==
  ASSUME NEW bytes \in Seq(Byte)
  PROVE  fromBase45(base45(bytes)) = [ok |-> TRUE, bytes |-> bytes]
<1> DEFINE text == base45(bytes)
           L == Len(bytes)
           size == 2 * (Len(text) \div 3) + (IF Len(text) % 3 = 2 THEN 1 ELSE 0)
           byte(i) == LET g == (i - 1) \div 2 IN
             IF ~Whole45(text, g) THEN Group45(text, g)
             ELSE IF i % 2 = 1 THEN Group45(text, g) \div 256 ELSE Group45(text, g) % 256
           s == [i \in 1..size |-> byte(i)]
<1>1. /\ text \in Seq(0..44) /\ Len(text) = 3 * (L \div 2) + 2 * (L % 2)
  BY Base45Is
<1> HIDE DEF text
<1>2. L \in Nat /\ Len(text) \in Nat /\ Len(text) % 3 # 1 /\ size = L
  <2> DEFINE h == L \div 2
             T == Len(text)
  <2>1. L \in Nat /\ h \in Nat /\ ((L % 2 = 0 /\ L = 2 * h) \/ (L % 2 = 1 /\ L = 2 * h + 1))
    <3>1. L \in Nat
      BY LenProperties
    <3>2. ASSUME NEW m \in Nat
          PROVE  m \div 2 \in Nat /\ ((m % 2 = 0 /\ m = 2 * (m \div 2)) \/ (m % 2 = 1 /\ m = 2 * (m \div 2) + 1))
      <4> DEFINE q == m \div 2
                 r == m % 2
      <4>1. q \in Nat /\ m = 2 * q + r
        BY SMT
      <4>2. r \in 0..1
        BY SMT
      <4> HIDE DEF q, r
      <4>3. q \in Nat /\ ((r = 0 /\ m = 2 * q) \/ (r = 1 /\ m = 2 * q + 1))
        BY <4>1, <4>2, SMT
      <4> QED BY <4>3, Zenon DEF q, r
    <3> QED BY <3>1, <3>2, Zenon
  <2>2. T = 3 * h + 2 * (L % 2)
    BY <1>1
  <2> HIDE DEF h, T
  <2>3. CASE L % 2 = 0 /\ L = 2 * h
    <3>1. T = 3 * h
      BY <2>1, <2>2, <2>3, SMT
    <3>2. T \in Nat /\ T % 3 = 0 /\ T \div 3 = h
      BY <2>1, <3>1, SMT
    <3> QED BY <2>1, <2>3, <3>2, SMT DEF T
  <2>4. CASE L % 2 = 1 /\ L = 2 * h + 1
    <3>1. T = 3 * h + 2
      BY <2>1, <2>2, <2>4, SMT
    <3>2. T \in Nat /\ T % 3 = 2 /\ T \div 3 = h
      BY <2>1, <3>1, SMT
    <3> QED BY <2>1, <2>4, <3>2, SMT DEF T
  <2> QED BY <2>1, <2>3, <2>4
<1>3. \A i \in DOMAIN text : text[i] < 45
  <2>1. \A i \in 1..Len(text) : text[i] \in 0..44
    BY <1>1, ElementOfSeq
  <2>2. DOMAIN text = 1..Len(text)
    BY <1>1
  <2>3. \A i \in DOMAIN text : text[i] \in 0..44
    BY <2>1, <2>2
  <2>4. \A x \in 0..44 : x < 45
    BY SMT
  <2> QED BY <2>3, <2>4
<1>4. \A g \in Nat : 2 * g + 1 <= L =>
        Group45(text, g) = Pair(bytes, g) /\ (Whole45(text, g) <=> 2 * g + 2 <= L)
  BY GroupIsPair DEF text
<1>5. ASSUME NEW g \in 0..((Len(text) + 2) \div 3) - 1
      PROVE  groupFits(Group45(text, g), Whole45(text, g))
  <2>1. g \in Nat /\ 2 * g + 1 <= L
    BY <1>1, <1>2, SMT
  <2>2. Group45(text, g) = Pair(bytes, g) /\ (Whole45(text, g) <=> 2 * g + 2 <= L)
    BY <1>4, <2>1
  <2>3. Pair(bytes, g) \in Nat /\ Pair(bytes, g) < 65536 /\ (2 * g + 2 > L => Pair(bytes, g) < 256)
    BY <2>1, PairIs, SMT
  <2> QED BY <1>2, <2>1, <2>2, <2>3, SMT DEF groupFits
<1>6. ASSUME NEW i \in 1..L
      PROVE  byte(i) = bytes[i]
  <2> DEFINE g == (i - 1) \div 2
  <2>1. g \in Nat /\ 2 * g + 1 <= L
    BY <1>2, SMT
  <2>2. Group45(text, g) = Pair(bytes, g) /\ (Whole45(text, g) <=> 2 * g + 2 <= L)
    BY <1>4, <2>1
  <2>3. /\ 2 * g + 2 > L => Pair(bytes, g) = bytes[2 * g + 1]
        /\ 2 * g + 2 <= L => Pair(bytes, g) \div 256 = bytes[2 * g + 1] /\ Pair(bytes, g) % 256 = bytes[2 * g + 2]
    BY <2>1, PairIs
  <2>4. (i % 2 = 1 => i = 2 * g + 1) /\ (i % 2 # 1 => i = 2 * g + 2)
    BY SMT
  <2>5. byte(i) = IF ~Whole45(text, g) THEN Group45(text, g)
                  ELSE IF i % 2 = 1 THEN Group45(text, g) \div 256 ELSE Group45(text, g) % 256
    OBVIOUS
  <2> HIDE DEF g, byte
  <2>6. CASE 2 * g + 2 <= L
    BY <2>2, <2>3, <2>4, <2>5, <2>6
  <2>7. CASE ~(2 * g + 2 <= L)
    <3>1. i = 2 * g + 1
      BY <1>2, <2>1, <2>4, <2>7
    <3> QED BY <1>2, <2>1, <2>2, <2>3, <2>5, <2>7, <3>1
  <2> QED BY <2>6, <2>7
<1> HIDE DEF byte, size
<1>7. s \in [1..L -> Byte] /\ s = bytes
  <2>1. bytes \in [1..L -> Byte]
    BY SMT
  <2>2. s = [i \in 1..L |-> bytes[i]]
    BY <1>2, <1>6
  <2> QED BY <2>1, <2>2
<1>8. Tuple(s) = bytes
  BY <1>2, <1>7, TupleIs
<1> QED BY <1>2, <1>3, <1>5, <1>8 DEF fromBase45, byte, size, text

\* A text whose characters are all in the QR alphabet.
InAlphabet(text) == text \in Seq(Nat) /\ \A i \in DOMAIN text : text[i] < 45

\* What a QR text's characters tell of a group.
LEMMA GroupOf ==
  ASSUME NEW text, InAlphabet(text), NEW g \in Nat, 3 * g + 2 <= Len(text)
  PROVE  /\ Group45(text, g) \in Nat
         /\ Group45(text, g) % 45 = text[3 * g + 1]
         /\ (Group45(text, g) \div 45) % 45 = text[3 * g + 2]
         /\ 3 * g + 3 <= Len(text) => Group45(text, g) \div 2025 = text[3 * g + 3]
<1>0. text \in Seq(Nat) /\ \A i \in DOMAIN text : text[i] < 45
  BY DEF InAlphabet
<1> DEFINE a == text[3 * g + 1]
           b == At(text, 3 * g + 2)
           c == At(text, 3 * g + 3)
<1>1. \A i \in Nat : 0 < i /\ i <= Len(text) => i \in DOMAIN text /\ text[i] \in 0..44 /\ At(text, i) = text[i]
  <2>1. DOMAIN text = 1..Len(text) /\ (\A i \in 1..Len(text) : text[i] \in Nat) /\ Len(text) \in Nat
    BY <1>0, ElementOfSeq, LenProperties
  <2>2. \A x \in Nat : x < 45 => x \in 0..44
    BY SMT
  <2>3. \A i \in Nat : 0 < i /\ i <= Len(text) => i \in 1..Len(text)
    BY <2>1, SMT
  <2> QED BY <1>0, <2>1, <2>2, <2>3 DEF At
<1>2. \A i \in Nat : ~(i <= Len(text)) => At(text, i) = 0
  BY <1>0, SMT DEF At
<1>3. /\ 3 * g + 1 \in Nat /\ 0 < 3 * g + 1 /\ 3 * g + 1 <= Len(text)
      /\ 3 * g + 2 \in Nat /\ 0 < 3 * g + 2 /\ 3 * g + 3 \in Nat /\ 0 < 3 * g + 3
  BY <1>0, LenProperties, SMT
<1>4. a \in 0..44 /\ b \in 0..44 /\ c \in 0..44 /\ b = text[3 * g + 2] /\ (3 * g + 3 <= Len(text) => c = text[3 * g + 3])
  <2>1. 0 \in 0..44
    BY SMT
  <2>2. a \in 0..44 /\ b \in 0..44 /\ b = text[3 * g + 2]
    BY <1>1, <1>3, Zenon
  <2>3. CASE 3 * g + 3 <= Len(text)
    BY <1>1, <1>3, <2>2, <2>3, Zenon
  <2>4. CASE ~(3 * g + 3 <= Len(text))
    BY <1>2, <1>3, <2>1, <2>2, <2>4, Zenon
  <2> QED BY <2>3, <2>4
<1>5. Group45(text, g) = a + 45 * b + 2025 * c
  BY DEF Group45
<1> DEFINE n == Group45(text, g)
<1> HIDE DEF a, b, c, n
<1>6. n \in Nat /\ n % 45 = a /\ (n \div 45) % 45 = b /\ n \div 2025 = c
  <2>1. n = a + 45 * b + 2025 * c
    BY <1>5 DEF n
  <2>2. a \in 0..44 /\ b \in 0..44 /\ c \in 0..44
    BY <1>4
  <2>3. /\ a + 45 * b + 2025 * c \in Nat
        /\ (a + 45 * b + 2025 * c) % 45 = a
        /\ ((a + 45 * b + 2025 * c) \div 45) % 45 = b
        /\ (a + 45 * b + 2025 * c) \div 2025 = c
    BY <2>2, DigitsBack
  <2> QED BY <2>1, <2>3, SMT
<1>7. (3 * g + 3 <= Len(text)) => n \div 2025 = text[3 * g + 3]
  BY <1>4, <1>6
<1>8. n % 45 = text[3 * g + 1]
  BY <1>6 DEF a
<1> QED BY <1>4, <1>6, <1>7, <1>8, SMT DEF n

\* A number's half, and what is left.
LEMMA Halves ==
  ASSUME NEW m \in Nat
  PROVE  m \div 2 \in Nat /\ ((m % 2 = 0 /\ m = 2 * (m \div 2)) \/ (m % 2 = 1 /\ m = 2 * (m \div 2) + 1))
<1> DEFINE q == m \div 2
           r == m % 2
<1>1. q \in Nat /\ m = 2 * q + r
  BY SMT
<1>2. r \in 0..1
  BY SMT
<1> HIDE DEF q, r
<1>3. q \in Nat /\ ((r = 0 /\ m = 2 * q) \/ (r = 1 /\ m = 2 * q + 1))
  BY <1>1, <1>2, SMT
<1> QED BY <1>3, Zenon DEF q, r

\* A third, likewise.
LEMMA Thirds ==
  ASSUME NEW m \in Nat
  PROVE  /\ m \div 3 \in Nat
         /\ \/ m % 3 = 0 /\ m = 3 * (m \div 3)
            \/ m % 3 = 1 /\ m = 3 * (m \div 3) + 1
            \/ m % 3 = 2 /\ m = 3 * (m \div 3) + 2
<1> DEFINE q == m \div 3
           r == m % 3
<1>1. q \in Nat /\ m = 3 * q + r
  BY SMT
<1>2. r \in 0..2
  BY SMT
<1> HIDE DEF q, r
<1>3. q \in Nat /\ (\/ r = 0 /\ m = 3 * q
                    \/ r = 1 /\ m = 3 * q + 1
                    \/ r = 2 /\ m = 3 * q + 2)
  BY <1>1, <1>2, SMT
<1> QED BY <1>3, Zenon DEF q, r

\* An accepted QR text is the one its bytes are written as.
LEMMA QrIsOneForm ==
  ASSUME NEW text \in Seq(Nat), fromBase45(text).ok
  PROVE  fromBase45(text).bytes \in Seq(Byte) /\ base45(fromBase45(text).bytes) = text
<1> DEFINE T == Len(text)
           size == 2 * (T \div 3) + (IF T % 3 = 2 THEN 1 ELSE 0)
           byte(i) == LET g == (i - 1) \div 2 IN
             IF ~Whole45(text, g) THEN Group45(text, g)
             ELSE IF i % 2 = 1 THEN Group45(text, g) \div 256 ELSE Group45(text, g) % 256
           s == [i \in 1..size |-> byte(i)]
<1>1. /\ T % 3 # 1 /\ \A i \in DOMAIN text : text[i] < 45
      /\ \A g \in 0..((T + 2) \div 3) - 1 : groupFits(Group45(text, g), Whole45(text, g))
      /\ fromBase45(text).bytes = Tuple(s)
  BY DEF fromBase45, NotText
<1>2. T \in Nat /\ size \in Nat /\ (\A g \in Nat : 2 * g + 1 <= size <=> 3 * g + 2 <= T)
      /\ (\A g \in Nat : 2 * g + 2 <= size <=> 3 * g + 3 <= T)
      /\ T = 3 * (size \div 2) + 2 * (size % 2)
  <2> DEFINE h == T \div 3
  <2>1. T \in Nat /\ h \in Nat /\ ((T % 3 = 0 /\ T = 3 * h) \/ (T % 3 = 2 /\ T = 3 * h + 2))
    <3>1. T \in Nat
      BY LenProperties
    <3> QED BY <1>1, <3>1, Thirds, Zenon
  <2>2. size = 2 * h + (IF T % 3 = 2 THEN 1 ELSE 0)
    OBVIOUS
  <2> HIDE DEF h, size, T
  <2>3. CASE T % 3 = 0 /\ T = 3 * h
    <3>1. size = 2 * h
      BY <2>1, <2>2, <2>3, SMT
    <3>2. size \in Nat /\ size \div 2 = h /\ size % 2 = 0
      BY <2>1, <3>1, SMT
    <3>3. T = 3 * h
      BY <2>3
    <3> QED BY <2>1, <3>1, <3>2, <3>3, SMT
  <2>4. CASE T % 3 = 2 /\ T = 3 * h + 2
    <3>1. size = 2 * h + 1
      BY <2>1, <2>2, <2>4, SMT
    <3>2. size \in Nat /\ size \div 2 = h /\ size % 2 = 1
      BY <2>1, <3>1, SMT
    <3>3. T = 3 * h + 2
      BY <2>4
    <3> QED BY <2>1, <3>1, <3>2, <3>3, SMT
  <2> QED BY <2>1, <2>3, <2>4
<1>3. ASSUME NEW g \in Nat, 2 * g + 1 <= size
      PROVE  /\ Group45(text, g) \in Nat
             /\ Group45(text, g) < 65536
             /\ ~Whole45(text, g) => Group45(text, g) < 256
             /\ Whole45(text, g) <=> 2 * g + 2 <= size
  <2> HIDE DEF size
  <2>1. 3 * g + 2 <= T
    BY <1>2, <1>3
  <2>2. Whole45(text, g) <=> 2 * g + 2 <= size
    BY <1>2 DEF Whole45
  <2>3. Group45(text, g) \in Nat
    <3>1. InAlphabet(text)
      BY <1>1 DEF InAlphabet
    <3> QED BY <2>1, <3>1, GroupOf
  <2>4. groupFits(Group45(text, g), Whole45(text, g))
    <3>1. g \in 0..((T + 2) \div 3) - 1
      BY <1>2, <2>1, SMT
    <3> QED BY <1>1, <3>1
  <2>5. Group45(text, g) < 65536 /\ (~Whole45(text, g) => Group45(text, g) < 256)
    BY <2>3, <2>4, SMT DEF groupFits
  <2> QED BY <2>2, <2>3, <2>5
<1> HIDE DEF size
<1>4. ASSUME NEW i \in 1..size
      PROVE  byte(i) \in Byte
  <2> DEFINE g == (i - 1) \div 2
             n == Group45(text, g)
  <2>1. g \in Nat /\ 2 * g + 1 <= size
    BY <1>2, SMT
  <2>2. n \in Nat /\ n < 65536 /\ (~Whole45(text, g) => n < 256)
    BY <1>3, <2>1
  <2>3. byte(i) = IF ~Whole45(text, g) THEN n ELSE IF i % 2 = 1 THEN n \div 256 ELSE n % 256
    OBVIOUS
  <2> HIDE DEF byte, g, n
  <2>4. n \div 256 \in Byte /\ n % 256 \in Byte
    BY <2>2, SMT DEF Byte
  <2> QED BY <2>2, <2>3, <2>4, ByteIs
<1> HIDE DEF byte
<1>5. s \in [1..size -> Byte]
  BY <1>4
<1>6. \A i \in 1..size : s[i] = byte(i)
  OBVIOUS
<1> HIDE DEF s
<1>7. fromBase45(text).bytes = s /\ s \in Seq(Byte) /\ Len(s) = size
  <2>1. Tuple(s) = s /\ s \in Seq(Byte) /\ Len(s) = size
    BY <1>2, <1>5, TupleIs, Zenon
  <2> QED BY <1>1, <2>1 DEF s
<1>8. ASSUME NEW g \in Nat, 2 * g + 1 <= size
      PROVE  Pair(s, g) = Group45(text, g)
  <2> DEFINE n == Group45(text, g)
  <2>1. n \in Nat /\ n < 65536 /\ (~Whole45(text, g) => n < 256) /\ (Whole45(text, g) <=> 2 * g + 2 <= size)
    BY <1>3, <1>8
  <2>2. byte(2 * g + 1) = IF ~Whole45(text, g) THEN n ELSE n \div 256
    <3>1. (2 * g + 1 - 1) \div 2 = g /\ (2 * g + 1) % 2 = 1
      BY SMT
    <3> QED BY <3>1 DEF byte
  <2>3. byte(2 * g + 2) = IF ~Whole45(text, g) THEN n ELSE n % 256
    <3>1. (2 * g + 2 - 1) \div 2 = g /\ (2 * g + 2) % 2 # 1
      BY SMT
    <3> QED BY <3>1 DEF byte
  <2>4. s[2 * g + 1] = byte(2 * g + 1)
    <3>1. 2 * g + 1 \in 1..size
      BY <1>2, <1>8
    <3> QED BY <1>6, <3>1
  <2> HIDE DEF n
  <2>5. CASE 2 * g + 2 <= size
    <3>1. 2 * g + 2 \in 1..size
      BY <1>2, <2>5
    <3>2. s[2 * g + 2] = byte(2 * g + 2)
      BY <1>6, <3>1
    <3>3. Pair(s, g) = (n \div 256) * 256 + (n % 256)
      <4>1. Pair(s, g) = s[2 * g + 1] * 256 + s[2 * g + 2]
        BY <1>7, <2>5, SMT DEF Pair
      <4>2. Whole45(text, g)
        BY <2>1, <2>5
      <4> QED BY <2>2, <2>3, <2>4, <3>2, <4>1, <4>2, SMT
    <3>4. (n \div 256) * 256 + (n % 256) = n
      BY <2>1, SMT
    <3> QED BY <3>3, <3>4 DEF n
  <2>6. CASE ~(2 * g + 2 <= size)
    <3>1. Pair(s, g) = s[2 * g + 1]
      BY <1>7, <2>6, SMT DEF Pair
    <3>2. ~Whole45(text, g)
      BY <2>1, <2>6
    <3> QED BY <2>2, <2>4, <3>1, <3>2, SMT DEF n
  <2> QED BY <2>5, <2>6
<1>9. ASSUME NEW k \in 1..T
      PROVE  base45(s)[k] = text[k]
  <2> DEFINE g == (k - 1) \div 3
  <2>1. k \in 1..Len(base45(s))
    BY <1>2, <1>7, Base45Is
  <2>2. LET n == Pair(s, (k - 1) \div 3) IN
        /\ k % 3 = 1 => base45(s)[k] = n % 45
        /\ k % 3 = 2 => base45(s)[k] = (n \div 45) % 45
        /\ k % 3 = 0 => base45(s)[k] = n \div 2025
    BY <1>7, <2>1, Base45Is
  <2>3. k - 1 \in Nat
    BY <1>2, SMT
  <2>4. /\ g \in Nat
        /\ \/ k % 3 = 1 /\ k = 3 * g + 1
           \/ k % 3 = 2 /\ k = 3 * g + 2
           \/ k % 3 = 0 /\ k = 3 * g + 3
    BY <2>3, SMT
  <2>5. 3 * g + 2 <= T
    <3> HIDE DEF g
    <3>1. k # 3 * g + 1 \/ k < T
      <4> SUFFICES ASSUME k = 3 * g + 1, ~(k < T) PROVE FALSE
        OBVIOUS
      <4>1. T = 3 * g + 1
        BY <1>2, <2>4, SMT
      <4>2. T % 3 = 1
        BY <2>4, <4>1, SMT
      <4> QED BY <1>1, <4>2
    <3> QED BY <1>2, <2>4, <3>1, SMT
  <2>6. Pair(s, g) = Group45(text, g)
    BY <1>2, <1>8, <2>4, <2>5, Zenon
  <2>7. /\ Group45(text, g) % 45 = text[3 * g + 1]
        /\ (Group45(text, g) \div 45) % 45 = text[3 * g + 2]
        /\ 3 * g + 3 <= Len(text) => Group45(text, g) \div 2025 = text[3 * g + 3]
    <3>1. g \in Nat /\ 3 * g + 2 <= Len(text)
      BY <2>4, <2>5
    <3>2. InAlphabet(text)
      BY <1>1 DEF InAlphabet
    <3> HIDE DEF g
    <3> QED BY <3>1, <3>2, GroupOf
  <2> HIDE DEF g
  <2> DEFINE n == Pair(s, g)
  <2>a. /\ k % 3 = 1 => base45(s)[k] = n % 45
        /\ k % 3 = 2 => base45(s)[k] = (n \div 45) % 45
        /\ k % 3 = 0 => base45(s)[k] = n \div 2025
    BY <2>2 DEF g
  <2>b. /\ n % 45 = text[3 * g + 1]
        /\ (n \div 45) % 45 = text[3 * g + 2]
        /\ 3 * g + 3 <= Len(text) => n \div 2025 = text[3 * g + 3]
    BY <2>6, <2>7, SMT
  <2> HIDE DEF n
  <2>8. /\ k % 3 = 1 => base45(s)[k] = text[3 * g + 1]
        /\ k % 3 = 2 => base45(s)[k] = text[3 * g + 2]
        /\ k % 3 = 0 /\ 3 * g + 3 <= Len(text) => base45(s)[k] = text[3 * g + 3]
    BY <2>a, <2>b, SMT
  <2>9. k <= Len(text)
    BY <1>2
  <2> QED BY <2>4, <2>8, <2>9, Zenon
<1>10. base45(s) \in Seq(0..44) /\ Len(base45(s)) = T
  BY <1>2, <1>7, Base45Is
<1>11. base45(s) = text
  <2>1. base45(s) = [k \in 1..T |-> base45(s)[k]] /\ text = [k \in 1..T |-> text[k]]
    BY <1>10
  <2> QED BY <1>9, <2>1
<1> QED BY <1>7, <1>11

\* Three bytes are a number, which has them.
LEMMA BytesOf ==
  ASSUME NEW x \in Byte, NEW y \in Byte, NEW z \in Byte
  PROVE  /\ x * 65536 + y * 256 + z \in Nat /\ x * 65536 + y * 256 + z < 16777216
         /\ (x * 65536 + y * 256 + z) \div 65536 = x
         /\ ((x * 65536 + y * 256 + z) \div 256) % 256 = y
         /\ (x * 65536 + y * 256 + z) % 256 = z
<1> DEFINE n == x * 65536 + y * 256 + z
<1>1. x \in Nat /\ x < 256 /\ y \in Nat /\ y < 256 /\ z \in Nat /\ z < 256
  BY ByteIs, SMT
<1>2. n \in Nat /\ n < 16777216
  BY <1>1, SMT
<1>3. n \div 65536 = x
  BY <1>1, SMT
<1>4. n \div 256 = x * 256 + y /\ n % 256 = z
  BY <1>1, SMT
<1>5. (x * 256 + y) % 256 = y
  BY <1>1, SMT
<1> QED BY <1>2, <1>3, <1>4, <1>5, SMT

\* And four digits of base 64.
LEMMA SextetsOf ==
  ASSUME NEW n \in Nat, n < 16777216
  PROVE  /\ n \div 262144 \in 0..63 /\ (n \div 4096) % 64 \in 0..63
         /\ (n \div 64) % 64 \in 0..63 /\ n % 64 \in 0..63
         /\ n = (n \div 262144) * 262144 + ((n \div 4096) % 64) * 4096 + ((n \div 64) % 64) * 64 + (n % 64)
         /\ n % 65536 = 0 => (n \div 64) % 64 = 0
         /\ n % 256 = 0 => n % 64 = 0
<1>1. n = 64 * (n \div 64) + (n % 64) /\ n % 64 \in 0..63 /\ n \div 64 \in Nat
  BY SMT
<1>2. n \div 64 = 64 * ((n \div 64) \div 64) + ((n \div 64) % 64) /\ (n \div 64) % 64 \in 0..63 /\ (n \div 64) \div 64 \in Nat
  BY <1>1, SMT
<1>3. n \div 4096 = (n \div 64) \div 64
  BY SMT
<1>4. /\ n \div 4096 = 64 * ((n \div 4096) \div 64) + ((n \div 4096) % 64) /\ (n \div 4096) % 64 \in 0..63
      /\ n \div 4096 \in Nat
  BY SMT
<1>5. n \div 262144 = (n \div 4096) \div 64 /\ n \div 262144 \in 0..63
  BY SMT
<1>6. n % 256 = 0 => n % 64 = 0
  BY SMT
<1>7. n % 65536 = 0 => (n \div 64) % 64 = 0
  BY SMT
<1> DEFINE a == n \div 262144
           b == (n \div 4096) % 64
           c == (n \div 64) % 64
           d == n % 64
           u == n \div 64
           v == n \div 4096
<1>8. n = 64 * u + d /\ u = 64 * v + c /\ v = 64 * a + b /\ a \in 0..63 /\ b \in 0..63 /\ c \in 0..63 /\ d \in 0..63
      /\ u \in Nat /\ v \in Nat
  BY <1>1, <1>2, <1>3, <1>4, <1>5, SMT
<1> HIDE DEF a, b, c, d, u, v
<1>9. n = a * 262144 + b * 4096 + c * 64 + d
  BY <1>8, SMT
<1> QED BY <1>6, <1>7, <1>8, <1>9, SMT DEF a, b, c, d

\* Bytes, in triples, with zeros after the last.
LEMMA TripleIs ==
  ASSUME NEW bytes \in Seq(Byte), NEW g \in Nat, 3 * g + 1 <= Len(bytes)
  PROVE  /\ Triple(bytes, g) \in Nat /\ Triple(bytes, g) < 16777216
         /\ Triple(bytes, g) \div 65536 = bytes[3 * g + 1]
         /\ (Triple(bytes, g) \div 256) % 256 = At(bytes, 3 * g + 2)
         /\ Triple(bytes, g) % 256 = At(bytes, 3 * g + 3)
         /\ ~(3 * g + 2 <= Len(bytes)) => (Triple(bytes, g) \div 64) % 64 = 0
         /\ ~(3 * g + 3 <= Len(bytes)) => Triple(bytes, g) % 64 = 0
<1> DEFINE x == bytes[3 * g + 1]
           y == At(bytes, 3 * g + 2)
           z == At(bytes, 3 * g + 3)
           t == Triple(bytes, g)
           two == 3 * g + 2 <= Len(bytes)
           three == 3 * g + 3 <= Len(bytes)
<1>1. x \in Byte /\ (two => y \in Byte) /\ (three => z \in Byte)
  BY ElementOfSeq, SMT DEF At
<1>2. (~two => y = 0) /\ (~three => z = 0)
  BY SMT DEF At
<1>3. (three => two) /\ 0 \in Byte
  BY SMT DEF Byte
<1>4. t = x * 65536 + y * 256 + z
  BY DEF Triple
<1> HIDE DEF x, y, z, t, two, three
<1>5. x \in Byte /\ y \in Byte /\ z \in Byte
  BY <1>1, <1>2, <1>3
<1>6. /\ x * 65536 + y * 256 + z \in Nat /\ x * 65536 + y * 256 + z < 16777216
      /\ (x * 65536 + y * 256 + z) \div 65536 = x
      /\ ((x * 65536 + y * 256 + z) \div 256) % 256 = y
      /\ (x * 65536 + y * 256 + z) % 256 = z
  BY <1>5, BytesOf
<1>7. t \in Nat /\ t < 16777216 /\ t \div 65536 = x /\ (t \div 256) % 256 = y /\ t % 256 = z
  BY <1>4, <1>6, SMT
<1>8. ~three => t % 64 = 0
  <2>1. t % 256 = 0 => t % 64 = 0
    BY <1>7, SextetsOf
  <2> QED BY <1>2, <1>7, <2>1
<1>9. ~two => (t \div 64) % 64 = 0
  <2>1. t % 65536 = 0 => (t \div 64) % 64 = 0
    BY <1>7, SextetsOf
  <2>2. x \in Nat
    BY <1>5, ByteIs
  <2>3. y = 0 /\ z = 0 => t = x * 65536
    BY <1>4, <2>2, SMT
  <2>4. t = x * 65536 => t % 65536 = 0
    BY <2>2, SMT
  <2> QED BY <1>2, <1>3, <2>1, <2>3, <2>4
<1> QED BY <1>7, <1>8, <1>9, SMT DEF x, y, z, t, two, three

\* How long a link is.
LinkSize(L) == (8 * L + 5) \div 6

\* And that it has the characters of each of the bytes.
LEMMA LinkLength ==
  ASSUME NEW L \in Nat
  PROVE  /\ LinkSize(L) \in Nat /\ LinkSize(L) % 4 # 1 /\ (6 * LinkSize(L)) \div 8 = L
         /\ \A g \in Nat : /\ 3 * g + 1 <= L <=> 4 * g + 2 <= LinkSize(L)
                           /\ 3 * g + 1 <= L <=> 4 * g + 1 <= LinkSize(L)
                           /\ 3 * g + 2 <= L <=> 4 * g + 3 <= LinkSize(L)
                           /\ 3 * g + 3 <= L <=> 4 * g + 4 <= LinkSize(L)
<1> DEFINE T == LinkSize(L)
<1>0. T = (8 * L + 5) \div 6
  BY DEF LinkSize
<1> HIDE DEF T
<1> DEFINE h == L \div 3
<1>1. h \in Nat /\ \/ L = 3 * h
                   \/ L = 3 * h + 1
                   \/ L = 3 * h + 2
  BY Thirds
<1> HIDE DEF h
<1>2. CASE L = 3 * h
  <2>1. T = 4 * h
    BY <1>0, <1>1, <1>2, SMT
  <2>2. T % 4 = 0 /\ (6 * T) \div 8 = 3 * h
    BY <1>1, <2>1, SMT
  <2>3. ASSUME NEW g \in Nat
        PROVE  /\ 3 * g + 1 <= L <=> 4 * g + 2 <= T
               /\ 3 * g + 1 <= L <=> 4 * g + 1 <= T
               /\ 3 * g + 2 <= L <=> 4 * g + 3 <= T
               /\ 3 * g + 3 <= L <=> 4 * g + 4 <= T
    BY <1>1, <1>2, <2>1, SMT
  <2>4. T \in Nat /\ T % 4 # 1 /\ (6 * T) \div 8 = L
    BY <1>1, <1>2, <2>1, <2>2, SMT
  <2> QED BY <2>3, <2>4 DEF T
<1>3. CASE L = 3 * h + 1
  <2>1. T = 4 * h + 2
    BY <1>0, <1>1, <1>3, SMT
  <2>2. T % 4 = 2 /\ (6 * T) \div 8 = 3 * h + 1
    BY <1>1, <2>1, SMT
  <2>3. ASSUME NEW g \in Nat
        PROVE  /\ 3 * g + 1 <= L <=> 4 * g + 2 <= T
               /\ 3 * g + 1 <= L <=> 4 * g + 1 <= T
               /\ 3 * g + 2 <= L <=> 4 * g + 3 <= T
               /\ 3 * g + 3 <= L <=> 4 * g + 4 <= T
    BY <1>1, <1>3, <2>1, SMT
  <2>4. T \in Nat /\ T % 4 # 1 /\ (6 * T) \div 8 = L
    BY <1>1, <1>3, <2>1, <2>2, SMT
  <2> QED BY <2>3, <2>4 DEF T
<1>4. CASE L = 3 * h + 2
  <2>1. T = 4 * h + 3
    BY <1>0, <1>1, <1>4, SMT
  <2>2. T % 4 = 3 /\ (6 * T) \div 8 = 3 * h + 2
    BY <1>1, <2>1, SMT
  <2>3. ASSUME NEW g \in Nat
        PROVE  /\ 3 * g + 1 <= L <=> 4 * g + 2 <= T
               /\ 3 * g + 1 <= L <=> 4 * g + 1 <= T
               /\ 3 * g + 2 <= L <=> 4 * g + 3 <= T
               /\ 3 * g + 3 <= L <=> 4 * g + 4 <= T
    BY <1>1, <1>4, <2>1, SMT
  <2>4. T \in Nat /\ T % 4 # 1 /\ (6 * T) \div 8 = L
    BY <1>1, <1>4, <2>1, <2>2, SMT
  <2> QED BY <2>3, <2>4 DEF T
<1> QED BY <1>1, <1>2, <1>3, <1>4 DEF T

\* A link is in the alphabet, and has four characters for three bytes.
LEMMA Base64Is ==
  ASSUME NEW bytes \in Seq(Byte)
  PROVE  LET text == base64url(bytes) IN
         /\ text \in Seq(0..63)
         /\ Len(text) = LinkSize(Len(bytes))
         /\ \A k \in 1..Len(text) :
              LET n == Triple(bytes, (k - 1) \div 4) IN
              /\ k % 4 = 1 => text[k] = n \div 262144
              /\ k % 4 = 2 => text[k] = (n \div 4096) % 64
              /\ k % 4 = 3 => text[k] = (n \div 64) % 64
              /\ k % 4 = 0 => text[k] = n % 64
<1> DEFINE L == Len(bytes)
           T == LinkSize(L)
           char(k) == LET n == Triple(bytes, (k - 1) \div 4) IN
             CASE k % 4 = 1 -> n \div 262144 [] k % 4 = 2 -> (n \div 4096) % 64
               [] k % 4 = 3 -> (n \div 64) % 64 [] k % 4 = 0 -> n % 64
           s == [k \in 1..T |-> char(k)]
<1>1. L \in Nat /\ T \in Nat /\ (\A g \in Nat : 3 * g + 1 <= L <=> 4 * g + 1 <= T)
  <2>1. L \in Nat
    BY LenProperties
  <2> HIDE DEF L
  <2> QED BY <2>1, LinkLength
<1>2. ASSUME NEW k \in 1..T
      PROVE  /\ char(k) \in 0..63
             /\ LET n == Triple(bytes, (k - 1) \div 4) IN
                /\ k % 4 = 1 => char(k) = n \div 262144
                /\ k % 4 = 2 => char(k) = (n \div 4096) % 64
                /\ k % 4 = 3 => char(k) = (n \div 64) % 64
                /\ k % 4 = 0 => char(k) = n % 64
  <2> DEFINE g == (k - 1) \div 4
             n == Triple(bytes, g)
  <2>1. g \in Nat /\ 3 * g + 1 <= L /\ k % 4 \in 0..3
    <3>1. g \in Nat /\ 4 * g + 1 <= k /\ k % 4 \in 0..3
      BY SMT
    <3>2. 4 * g + 1 <= T
      <4> HIDE DEF g, T
      <4> QED BY <1>1, <3>1, SMT
    <3> QED BY <1>1, <3>1, <3>2
  <2>2. n \in Nat /\ n < 16777216
    BY <2>1, TripleIs, SMT
  <2> HIDE DEF n
  <2>3. /\ n \div 262144 \in 0..63 /\ (n \div 4096) % 64 \in 0..63
        /\ (n \div 64) % 64 \in 0..63 /\ n % 64 \in 0..63
    BY <2>2, SextetsOf
  <2>4. char(k) = CASE k % 4 = 1 -> n \div 262144 [] k % 4 = 2 -> (n \div 4096) % 64
                    [] k % 4 = 3 -> (n \div 64) % 64 [] k % 4 = 0 -> n % 64
    BY DEF n
  <2> HIDE DEF char, g
  <2> QED BY <2>1, <2>3, <2>4 DEF n, g
<1> HIDE DEF char, T
<1>3. s \in [1..T -> 0..63]
  <2>1. \A k \in 1..T : char(k) \in 0..63
    BY <1>2
  <2> QED BY <2>1
<1> HIDE DEF s
<1>4. Tuple(s) = s /\ s \in Seq(0..63) /\ Len(s) = T
  BY <1>1, <1>3, TupleIs, Zenon
<1>5. base64url(bytes) = s
  <2>1. base64url(bytes) = Tuple(s)
    BY DEF base64url, s, char, T, LinkSize
  <2> QED BY <1>4, <2>1
<1>6. \A k \in 1..T : s[k] = char(k)
  BY DEF s
<1>7. ASSUME NEW k \in 1..Len(base64url(bytes))
      PROVE  LET n == Triple(bytes, (k - 1) \div 4) IN
              /\ k % 4 = 1 => base64url(bytes)[k] = n \div 262144
              /\ k % 4 = 2 => base64url(bytes)[k] = (n \div 4096) % 64
              /\ k % 4 = 3 => base64url(bytes)[k] = (n \div 64) % 64
              /\ k % 4 = 0 => base64url(bytes)[k] = n % 64
  <2>1. k \in 1..T
    BY <1>4, <1>5
  <2>2. base64url(bytes)[k] = char(k)
    BY <1>5, <1>6, <2>1
  <2> QED BY <1>2, <2>1, <2>2
<1> QED BY <1>4, <1>5, <1>7 DEF T

\* A group of a link is worth its three bytes.
LEMMA GroupIsTriple ==
  ASSUME NEW bytes \in Seq(Byte), NEW g \in Nat, 3 * g + 1 <= Len(bytes)
  PROVE  Group64(base64url(bytes), g) = Triple(bytes, g)
<1> DEFINE text == base64url(bytes)
           L == Len(bytes)
           T == Len(text)
           n == Triple(bytes, g)
<1>1. /\ text \in Seq(0..63) /\ T = LinkSize(L)
      /\ \A k \in 1..T :
           LET m == Triple(bytes, (k - 1) \div 4) IN
           /\ k % 4 = 1 => text[k] = m \div 262144
           /\ k % 4 = 2 => text[k] = (m \div 4096) % 64
           /\ k % 4 = 3 => text[k] = (m \div 64) % 64
           /\ k % 4 = 0 => text[k] = m % 64
  BY Base64Is
<1> HIDE DEF text
<1>2. L \in Nat /\ DOMAIN text = 1..T /\ T \in Nat
  BY <1>1
<1> HIDE DEF T
<1>3. 4 * g + 2 <= T /\ (3 * g + 2 <= L <=> 4 * g + 3 <= T) /\ (3 * g + 3 <= L <=> 4 * g + 4 <= T)
  <2> HIDE DEF L
  <2>1. 3 * g + 1 <= L
    BY DEF L
  <2>2. T = LinkSize(L)
    BY <1>1
  <2> QED BY <1>2, <2>1, <2>2, LinkLength
<1>4. /\ (4 * g + 1) % 4 = 1 /\ (4 * g + 1 - 1) \div 4 = g
      /\ (4 * g + 2) % 4 = 2 /\ (4 * g + 2 - 1) \div 4 = g
      /\ (4 * g + 3) % 4 = 3 /\ (4 * g + 3 - 1) \div 4 = g
      /\ (4 * g + 4) % 4 = 0 /\ (4 * g + 4 - 1) \div 4 = g
  BY SMT
<1>5. text[4 * g + 1] = n \div 262144
  <2> DEFINE k == 4 * g + 1
  <2>1. k \in 1..T /\ k % 4 = 1 /\ (k - 1) \div 4 = g
    BY <1>2, <1>3, <1>4, SMT
  <2> HIDE DEF k
  <2>2. text[k] = Triple(bytes, (k - 1) \div 4) \div 262144
    BY <1>1, <2>1, SMT
  <2> QED BY <2>1, <2>2, SMT DEF k, n
<1>6. At(text, 4 * g + 2) = (n \div 4096) % 64
  <2> DEFINE k == 4 * g + 2
  <2>1. k \in 1..T /\ k % 4 = 2 /\ (k - 1) \div 4 = g
    BY <1>2, <1>3, <1>4, SMT
  <2> HIDE DEF k
  <2>2. text[k] = (Triple(bytes, (k - 1) \div 4) \div 4096) % 64
    BY <1>1, <2>1, SMT
  <2>3. At(text, k) = text[k]
    BY <1>2, <2>1, Zenon DEF At
  <2> QED BY <2>1, <2>2, <2>3, SMT DEF k, n
<1>7. 3 * g + 2 <= L => At(text, 4 * g + 3) = (n \div 64) % 64
  <2> SUFFICES ASSUME 3 * g + 2 <= L PROVE At(text, 4 * g + 3) = (n \div 64) % 64
    OBVIOUS
  <2> DEFINE k == 4 * g + 3
  <2>1. k \in 1..T /\ k % 4 = 3 /\ (k - 1) \div 4 = g
    BY <1>2, <1>3, <1>4, SMT
  <2> HIDE DEF k
  <2>2. text[k] = (Triple(bytes, (k - 1) \div 4) \div 64) % 64
    BY <1>1, <2>1, SMT
  <2>3. At(text, k) = text[k]
    BY <1>2, <2>1, Zenon DEF At
  <2> QED BY <2>1, <2>2, <2>3, SMT DEF k, n
<1>8. 3 * g + 3 <= L => At(text, 4 * g + 4) = n % 64
  <2> SUFFICES ASSUME 3 * g + 3 <= L PROVE At(text, 4 * g + 4) = n % 64
    OBVIOUS
  <2> DEFINE k == 4 * g + 4
  <2>1. k \in 1..T /\ k % 4 = 0 /\ (k - 1) \div 4 = g
    BY <1>2, <1>3, <1>4, SMT
  <2> HIDE DEF k
  <2>2. text[k] = Triple(bytes, (k - 1) \div 4) % 64
    BY <1>1, <2>1, SMT
  <2>3. At(text, k) = text[k]
    BY <1>2, <2>1, Zenon DEF At
  <2> QED BY <2>1, <2>2, <2>3, SMT DEF k, n
<1>9. (~(3 * g + 2 <= L) => At(text, 4 * g + 3) = 0) /\ (~(3 * g + 3 <= L) => At(text, 4 * g + 4) = 0)
  BY <1>2, <1>3, SMT DEF At
<1>10. /\ n \in Nat /\ n < 16777216
       /\ ~(3 * g + 2 <= L) => (n \div 64) % 64 = 0
       /\ ~(3 * g + 3 <= L) => n % 64 = 0
  BY TripleIs
<1> HIDE DEF n, L
<1>11. At(text, 4 * g + 3) = (n \div 64) % 64 /\ At(text, 4 * g + 4) = n % 64
  BY <1>7, <1>8, <1>9, <1>10, SMT
<1>12. n = (n \div 262144) * 262144 + ((n \div 4096) % 64) * 4096 + ((n \div 64) % 64) * 64 + (n % 64)
  BY <1>10, SextetsOf
<1>13. Group64(text, g) = (n \div 262144) * 262144 + ((n \div 4096) % 64) * 4096 + ((n \div 64) % 64) * 64 + (n % 64)
  BY <1>5, <1>6, <1>11, SMT DEF Group64
<1> QED BY <1>12, <1>13, SMT DEF n, text

\* A link reads back as its bytes.
LEMMA LinkReadsBack ==
  ASSUME NEW bytes \in Seq(Byte)
  PROVE  fromBase64url(base64url(bytes)) = [ok |-> TRUE, bytes |-> bytes]
<1> DEFINE text == base64url(bytes)
           L == Len(bytes)
           T == Len(text)
           byte(i) == LET n == Group64(text, (i - 1) \div 3) IN
             CASE i % 3 = 1 -> n \div 65536 [] i % 3 = 2 -> (n \div 256) % 256 [] i % 3 = 0 -> n % 256
           size == (6 * T) \div 8
           s == [i \in 1..size |-> byte(i)]
<1>1. text \in Seq(0..63) /\ T = LinkSize(L)
  BY Base64Is
<1>2. L \in Nat /\ T % 4 # 1 /\ size = L
  <2>1. L \in Nat
    BY LenProperties
  <2> HIDE DEF L, T
  <2> QED BY <1>1, <2>1, LinkLength, SMT
<1>3. \A g \in Nat : 3 * g + 1 <= L => Group64(text, g) = Triple(bytes, g)
  BY GroupIsTriple
<1> HIDE DEF text
<1>4. \A i \in DOMAIN text : text[i] < 64
  <2>1. \A i \in 1..Len(text) : text[i] \in 0..63
    BY <1>1, ElementOfSeq
  <2>2. DOMAIN text = 1..Len(text)
    BY <1>1
  <2>3. \A x \in 0..63 : x < 64
    BY SMT
  <2> QED BY <2>1, <2>2, <2>3
<1>5. ASSUME NEW i \in 1..L
      PROVE  byte(i) = bytes[i]
  <2> DEFINE g == (i - 1) \div 3
             n == Triple(bytes, g)
  <2>1. /\ g \in Nat
        /\ \/ i % 3 = 1 /\ i = 3 * g + 1
           \/ i % 3 = 2 /\ i = 3 * g + 2
           \/ i % 3 = 0 /\ i = 3 * g + 3
    <3>1. i - 1 \in Nat
      BY <1>2, SMT
    <3> QED BY <3>1, SMT
  <2>2. 3 * g + 1 <= L
    <3> HIDE DEF g
    <3> QED BY <1>2, <2>1, SMT
  <2>3. Group64(text, g) = n
    BY <1>3, <2>1, <2>2
  <2>4. byte(i) = CASE i % 3 = 1 -> n \div 65536 [] i % 3 = 2 -> (n \div 256) % 256 [] i % 3 = 0 -> n % 256
    BY <2>3
  <2>5. /\ n \div 65536 = bytes[3 * g + 1]
        /\ (n \div 256) % 256 = At(bytes, 3 * g + 2)
        /\ n % 256 = At(bytes, 3 * g + 3)
    BY <2>1, <2>2, TripleIs
  <2>6. At(bytes, i) = bytes[i]
    BY <1>2, SMT DEF At
  <2> HIDE DEF g, n, byte
  <2>7. CASE i % 3 = 1 /\ i = 3 * g + 1
    BY <2>4, <2>5, <2>7, SMT
  <2>8. CASE i % 3 = 2 /\ i = 3 * g + 2
    BY <2>4, <2>5, <2>6, <2>8, SMT
  <2>9. CASE i % 3 = 0 /\ i = 3 * g + 3
    BY <2>4, <2>5, <2>6, <2>9, SMT
  <2> QED BY <2>1, <2>7, <2>8, <2>9
<1> HIDE DEF byte, size
<1>6. s \in [1..L -> Byte] /\ s = bytes
  <2>1. bytes \in [1..L -> Byte]
    BY SMT
  <2>2. s = [i \in 1..L |-> bytes[i]]
    BY <1>2, <1>5
  <2> QED BY <2>1, <2>2
<1> HIDE DEF s
<1>7. Tuple(s) = bytes
  BY <1>2, <1>6, TupleIs, Zenon
<1>8. unpacked(text) = bytes
  <2>1. unpacked(text) = Tuple(s)
    BY DEF unpacked, s, byte, size
  <2> QED BY <1>7, <2>1
<1>9. base64url(unpacked(text)) = text
  BY <1>8 DEF text
<1> QED BY <1>2, <1>4, <1>8, <1>9 DEF fromBase64url, text

\* A digit of base 64, or the zero past the end.
LEMMA SextetAt ==
  ASSUME NEW text \in Seq(Nat), \A i \in DOMAIN text : text[i] < 64, NEW i \in Nat
  PROVE  At(text, i) \in 0..63
<1>1. CASE i \in DOMAIN text
  <2>1. text[i] \in Nat /\ text[i] < 64
    BY <1>1
  <2>2. At(text, i) = text[i]
    BY <1>1 DEF At
  <2>3. \A x \in Nat : x < 64 => x \in 0..63
    BY SMT
  <2> QED BY <2>1, <2>2, <2>3
<1>2. CASE i \notin DOMAIN text
  BY <1>2, SMT DEF At
<1> QED BY <1>1, <1>2

\* What atob() reads are bytes.
LEMMA UnpackedBytes ==
  ASSUME NEW text \in Seq(Nat), \A i \in DOMAIN text : text[i] < 64
  PROVE  unpacked(text) \in Seq(Byte)
<1> DEFINE T == Len(text)
           size == (6 * T) \div 8
           byte(i) == LET n == Group64(text, (i - 1) \div 3) IN
             CASE i % 3 = 1 -> n \div 65536 [] i % 3 = 2 -> (n \div 256) % 256 [] i % 3 = 0 -> n % 256
           s == [i \in 1..size |-> byte(i)]
<1>1. T \in Nat
  BY LenProperties
<1>2. size \in Nat /\ \A g \in Nat : 3 * g + 1 <= size => 4 * g + 1 <= T
  <2> HIDE DEF T
  <2>1. size \in Nat /\ 8 * size <= 6 * T
    BY <1>1, SMT
  <2> HIDE DEF size
  <2>2. ASSUME NEW g \in Nat, 3 * g + 1 <= size
        PROVE  4 * g + 1 <= T
    BY <1>1, <2>1, <2>2, SMT
  <2> QED BY <2>1, <2>2
<1> HIDE DEF T, size
<1>3. ASSUME NEW i \in 1..size
      PROVE  byte(i) \in Byte
  <2> DEFINE g == (i - 1) \div 3
             n == Group64(text, g)
             a == text[4 * g + 1]
             b == At(text, 4 * g + 2)
             c == At(text, 4 * g + 3)
             d == At(text, 4 * g + 4)
  <2>1. g \in Nat /\ 3 * g + 1 <= i /\ i % 3 \in 0..2
    <3>1. i - 1 \in Nat
      BY <1>2, SMT
    <3> QED BY <3>1, SMT
  <2>2. 3 * g + 1 <= size
    <3> HIDE DEF g
    <3> QED BY <1>2, <2>1, SMT
  <2>3. 4 * g + 1 \in DOMAIN text
    <3>1. 4 * g + 1 <= T
      BY <1>2, <2>1, <2>2
    <3>2. DOMAIN text = 1..T
      BY LenProperties DEF T
    <3> HIDE DEF g
    <3> QED BY <1>1, <2>1, <3>1, <3>2, SMT
  <2>4. At(text, 4 * g + 1) = a
    BY <2>3 DEF At
  <2>5. 4 * g + 1 \in Nat /\ 4 * g + 2 \in Nat /\ 4 * g + 3 \in Nat /\ 4 * g + 4 \in Nat
    <3> HIDE DEF g
    <3> QED BY <2>1, SMT
  <2>6. a \in 0..63 /\ b \in 0..63 /\ c \in 0..63 /\ d \in 0..63
    BY <2>4, <2>5, SextetAt
  <2>7. n = a * 262144 + b * 4096 + c * 64 + d
    BY DEF Group64
  <2>8. byte(i) = CASE i % 3 = 1 -> n \div 65536 [] i % 3 = 2 -> (n \div 256) % 256 [] i % 3 = 0 -> n % 256
    OBVIOUS
  <2> HIDE DEF a, b, c, d, n, g, byte
  <2>9. n \in Nat /\ n < 16777216
    BY <2>6, <2>7, SMT
  <2>10. n \div 65536 \in Byte /\ (n \div 256) % 256 \in Byte /\ n % 256 \in Byte
    <3>1. n \div 65536 \in Byte
      BY <2>9, SMT DEF Byte
    <3>2. (n \div 256) \in Nat
      BY <2>9, SMT
    <3>3. \A m \in Nat : m % 256 \in Byte
      BY SMT DEF Byte
    <3>4. n % 256 \in Byte
      BY <2>9, SMT DEF Byte
    <3> QED BY <3>1, <3>2, <3>3, <3>4
  <2> QED BY <2>1, <2>8, <2>10, SMT
<1> HIDE DEF byte
<1>4. s \in [1..size -> Byte]
  BY <1>3
<1> HIDE DEF s
<1>5. Tuple(s) \in Seq(Byte)
  BY <1>2, <1>4, TupleIs
<1>6. unpacked(text) = Tuple(s)
  BY DEF unpacked, s, byte, size, T
<1> QED BY <1>5, <1>6

\* Texts of an alphabet and one past its end.
ScanTexts == [prefix : {"qr", "link", "other"}, text : Seq(Nat)]

\* The two texts of an envelope both read back as its bytes (text.ts), so a QR code or a
\* link gives the signed result it was made of, of whatever length.
THEOREM TextsReadBack ==
  ASSUME NEW envelope \in Seq(Byte)
  PROVE  /\ envelopeFromText(qrText(envelope)) = [ok |-> TRUE, bytes |-> envelope]
         /\ envelopeFromText(link(envelope)) = [ok |-> TRUE, bytes |-> envelope]
<1>1. envelopeFromText(qrText(envelope)) = fromBase45(base45(envelope))
  BY DEF envelopeFromText, qrText
<1>2. envelopeFromText(link(envelope)) = fromBase64url(base64url(envelope))
  BY DEF envelopeFromText, link
<1> QED BY <1>1, <1>2, QrReadsBack, LinkReadsBack

\* And no other text is taken: an accepted one is the QR text or the link that its bytes are
\* written as, so an envelope has one form of each.
THEOREM TextsAreOneForm ==
  ASSUME NEW t \in ScanTexts, envelopeFromText(t).ok
  PROVE  LET envelope == envelopeFromText(t).bytes IN
         envelope \in Seq(Byte) /\ t \in {qrText(envelope), link(envelope)}
<1>1. CASE t.prefix = "qr"
  <2>1. envelopeFromText(t) = fromBase45(t.text)
    BY <1>1 DEF envelopeFromText
  <2>2. t.text \in Seq(Nat)
    BY DEF ScanTexts
  <2>3. fromBase45(t.text).bytes \in Seq(Byte) /\ base45(fromBase45(t.text).bytes) = t.text
    BY <2>1, <2>2, QrIsOneForm
  <2>4. t = [prefix |-> "qr", text |-> t.text]
    BY <1>1 DEF ScanTexts
  <2> QED BY <2>1, <2>3, <2>4 DEF qrText
<1>2. CASE t.prefix = "link"
  <2>1. envelopeFromText(t) = fromBase64url(t.text)
    BY <1>2 DEF envelopeFromText
  <2>2. t.text \in Seq(Nat)
    BY DEF ScanTexts
  <2>3. /\ \A i \in DOMAIN t.text : t.text[i] < 64
        /\ base64url(unpacked(t.text)) = t.text
        /\ fromBase64url(t.text).bytes = unpacked(t.text)
    <3> DEFINE fits == /\ \A i \in DOMAIN t.text : t.text[i] < 64
                       /\ Len(t.text) % 4 # 1 /\ base64url(unpacked(t.text)) = t.text
    <3>1. fromBase64url(t.text) = IF fits THEN [ok |-> TRUE, bytes |-> unpacked(t.text)] ELSE NotText
      BY DEF fromBase64url
    <3> HIDE DEF fits
    <3>2. fits
      BY <2>1, <3>1 DEF NotText
    <3>3. fromBase64url(t.text).bytes = unpacked(t.text)
      BY <3>1, <3>2
    <3> QED BY <3>2, <3>3 DEF fits
  <2>4. unpacked(t.text) \in Seq(Byte)
    BY <2>2, <2>3, UnpackedBytes
  <2>5. t = [prefix |-> "link", text |-> t.text]
    BY <1>2 DEF ScanTexts
  <2> QED BY <2>1, <2>3, <2>4, <2>5 DEF link
<1>3. CASE t.prefix \notin {"qr", "link"}
  BY <1>3 DEF envelopeFromText, NotText
<1> QED BY <1>1, <1>2, <1>3

\* The bytes of a number, none of them a zero at the front.
IsNumber(digits) == digits \in Seq(Byte) /\ (Len(digits) > 0 => digits[1] # 0)

\* A number's zeros at the front are only those before it.
LEMMA StripOf ==
  ASSUME NEW digits, IsNumber(digits), NEW zeros \in Seq({0})
  PROVE  Strip(zeros \o digits) = digits
<1> DEFINE w == zeros \o digits
           n == Len(zeros)
           L == Len(digits)
<1>1. n \in Nat /\ L \in Nat /\ zeros \in Seq(Byte) /\ digits \in Seq(Byte) /\ (\A i \in 1..n : zeros[i] = 0)
  <2>1. 0 \in Byte
    BY SMT DEF Byte
  <2> QED BY <2>1, SMT DEF IsNumber
<1>2. /\ w \in Seq(Byte) /\ Len(w) = n + L
      /\ \A i \in 1..n + L : w[i] = IF i <= n THEN zeros[i] ELSE digits[i - n]
  BY <1>1, ConcatProperties
<1> HIDE DEF w, n, L
<1>3. n \in Zeros(w)
  <2>1. n \in 0..Len(w) /\ \A i \in 1..n : i \in 1..n + L /\ i <= n
    BY <1>1, <1>2, SMT
  <2> QED BY <1>1, <1>2, <2>1 DEF Zeros
<1>4. ASSUME NEW m \in Zeros(w)
      PROVE  m <= n
  <2>1. m \in 0..n + L /\ \A i \in 1..m : w[i] = 0
    BY <1>2 DEF Zeros
  <2> SUFFICES ASSUME ~(m <= n) PROVE FALSE
    OBVIOUS
  <2>2. n + 1 \in 1..m /\ n + 1 \in 1..n + L /\ ~(n + 1 <= n) /\ L > 0 /\ n + 1 - n = 1
    BY <1>1, <2>1, SMT
  <2>3. w[n + 1] = digits[1] /\ w[n + 1] = 0
    <3> DEFINE j == n + 1
    <3>1. j \in 1..m /\ j \in 1..n + L /\ ~(j <= n) /\ j - n = 1
      BY <1>1, <2>2, SMT
    <3> HIDE DEF j
    <3>2. w[j] = IF j <= n THEN zeros[j] ELSE digits[j - n]
      BY <1>2, <3>1, Zenon
    <3>3. w[j] = digits[1]
      BY <3>1, <3>2
    <3>4. w[j] = 0
      BY <2>1, <3>1, Zenon
    <3> QED BY <3>3, <3>4 DEF j
  <2> QED BY <2>2, <2>3 DEF IsNumber, L
<1> DEFINE most == CHOOSE m \in Zeros(w) : \A k \in Zeros(w) : k <= m
<1>5. most = n
  <2>1. most \in Zeros(w) /\ \A k \in Zeros(w) : k <= most
    BY <1>3, <1>4
  <2>2. Zeros(w) \subseteq Nat
    BY <1>1, <1>2, SMT DEF Zeros
  <2> HIDE DEF most
  <2>3. n <= most /\ most <= n /\ most \in Nat
    BY <1>3, <1>4, <2>1, <2>2
  <2> QED BY <1>1, <2>3, SMT
<1>6. Strip(w) = SubSeq(w, n + 1, n + L)
  <2>1. Strip(w) = SubSeq(w, most + 1, Len(w))
    BY DEF Strip
  <2> HIDE DEF most
  <2> QED BY <1>2, <1>5, <2>1
<1>7. \A i \in n + 1..n + L : w[i] \in Byte
  <2>1. \A i \in n + 1..n + L : i \in 1..Len(w)
    BY <1>1, <1>2, SMT
  <2> QED BY <1>2, <2>1, ElementOfSeq
<1>8. /\ Strip(w) \in Seq(Byte)
      /\ Len(Strip(w)) = IF n + 1 <= n + L THEN n + L - (n + 1) + 1 ELSE 0
      /\ \A i \in 1..n + L - (n + 1) + 1 : Strip(w)[i] = w[n + 1 + i - 1]
  BY <1>1, <1>6, <1>7, SubSeqProperties
<1>9. Len(Strip(w)) = L
  BY <1>1, <1>8, SMT
<1>10. ASSUME NEW i \in 1..L
       PROVE  Strip(w)[i] = digits[i]
  <2>1. i \in 1..n + L - (n + 1) + 1 /\ n + 1 + i - 1 = n + i /\ n + i \in 1..n + L /\ ~(n + i <= n) /\ n + i - n = i
    BY <1>1, SMT
  <2> DEFINE j == n + i
  <2>2. Strip(w)[i] = w[j]
    BY <1>8, <2>1
  <2>3. j \in 1..n + L /\ ~(j <= n) /\ j - n = i
    BY <1>1, SMT
  <2> HIDE DEF j
  <2>4. w[j] = IF j <= n THEN zeros[j] ELSE digits[j - n]
    BY <1>2, <2>3, Zenon
  <2> QED BY <2>2, <2>3, <2>4
<1> QED BY <1>1, <1>8, <1>9, <1>10, SeqEqual DEF w, L

\* A part of bytes.
LEMMA PartIs ==
  ASSUME NEW s \in Seq(Byte), NEW m \in Nat, NEW k \in Nat, 0 < m, k <= Len(s)
  PROVE  /\ SubSeq(s, m, k) \in Seq(Byte)
         /\ Len(SubSeq(s, m, k)) = IF m <= k THEN k - m + 1 ELSE 0
         /\ \A i \in 1..k - m + 1 : SubSeq(s, m, k)[i] = s[m + i - 1]
<1>1. \A i \in m..k : s[i] \in Byte
  <2>1. \A i \in m..k : i \in 1..Len(s)
    BY LenProperties, SMT
  <2> QED BY <2>1, ElementOfSeq
<1>2. m \in Int /\ k \in Int
  BY SMT
<1> QED BY <1>1, <1>2, SubSeqProperties

\* A head's first byte.
LEMMA HeadByte ==
  ASSUME NEW major \in 0..7, NEW info \in 0..31
  PROVE  /\ major * 32 + info \in Byte
         /\ (major * 32 + info) \div 32 = major /\ (major * 32 + info) % 32 = info
<1>1. major * 32 + info \in Byte
  BY SMT DEF Byte
<1>2. (major * 32 + info) \div 32 = major
  BY SMT
<1>3. (major * 32 + info) % 32 = info
  BY SMT
<1> QED BY <1>1, <1>2, <1>3

\* A head whose number is in the bytes after the first.
LEMMA ArgumentOf ==
  ASSUME NEW major \in 0..7, NEW info \in 24..27, NEW bytes \in Seq(Byte), NEW rest \in Seq(Byte),
         Len(bytes) = sizeOf(info), isSafeInteger(Strip(bytes))
  PROVE  LET whole == (<<major * 32 + info>> \o bytes) \o rest IN
         /\ whole[1] \div 32 = major
         /\ argument(whole, 1) = [ok |-> TRUE, digits |-> Strip(bytes), at |-> 2 + Len(bytes)]
<1> DEFINE whole == (<<major * 32 + info>> \o bytes) \o rest
           first == <<major * 32 + info>>
           n == Len(bytes)
           r == Len(rest)
<1>1. /\ major * 32 + info \in Byte
      /\ (major * 32 + info) \div 32 = major /\ (major * 32 + info) % 32 = info
      /\ ~(info < 24) /\ info < 28
  <2>1. info \in 0..31 /\ ~(info < 24) /\ info < 28
    BY SMT
  <2> QED BY <2>1, HeadByte
<1>2. first \in Seq(Byte) /\ Len(first) = 1 /\ first[1] = major * 32 + info
  BY <1>1
<1> HIDE DEF first
<1>3. n \in Nat /\ r \in Nat
  BY LenProperties
<1>4. /\ first \o bytes \in Seq(Byte) /\ Len(first \o bytes) = 1 + n
      /\ \A i \in 1..1 + n : (first \o bytes)[i] = IF i <= 1 THEN first[i] ELSE bytes[i - 1]
  <2> DEFINE both == first \o bytes
  <2>1. /\ both \in Seq(Byte) /\ Len(both) = Len(first) + Len(bytes)
        /\ \A i \in 1..Len(first) + Len(bytes) :
             both[i] = IF i <= Len(first) THEN first[i] ELSE bytes[i - Len(first)]
    BY <1>2, ConcatProperties, Zenon
  <2> HIDE DEF both
  <2>2. /\ both \in Seq(Byte) /\ Len(both) = 1 + n
        /\ \A i \in 1..1 + n : both[i] = IF i <= 1 THEN first[i] ELSE bytes[i - 1]
    BY <1>2, <2>1
  <2> QED BY <2>2 DEF both
<1> DEFINE both == first \o bytes
<1>a. whole = both \o rest
  BY DEF first
<1> HIDE DEF both, n, r, whole
<1>5. /\ whole \in Seq(Byte) /\ Len(whole) = 1 + n + r
      /\ \A i \in 1..1 + n + r : whole[i] = IF i <= 1 + n THEN both[i] ELSE rest[i - (1 + n)]
  <2>1. whole = both \o rest /\ both \in Seq(Byte) /\ Len(both) = 1 + n /\ Len(rest) = r
    BY <1>4, <1>a DEF both, r
  <2>2. /\ whole \in Seq(Byte) /\ Len(whole) = Len(both) + Len(rest)
        /\ \A i \in 1..Len(both) + Len(rest) :
             whole[i] = IF i <= Len(both) THEN both[i] ELSE rest[i - Len(both)]
    BY <2>1, ConcatProperties, Zenon
  <2> QED BY <2>1, <2>2
<1>6. \A i \in 1..1 + n : whole[i] = IF i <= 1 THEN first[i] ELSE bytes[i - 1]
  <2>1. \A i \in 1..1 + n : i \in 1..1 + n + r /\ i <= 1 + n
    BY <1>3, SMT
  <2>2. \A i \in 1..1 + n : both[i] = IF i <= 1 THEN first[i] ELSE bytes[i - 1]
    BY <1>4 DEF both
  <2>3. \A i \in 1..1 + n : whole[i] = both[i]
    BY <1>5, <2>1
  <2> QED BY <2>2, <2>3
<1>7. whole[1] = major * 32 + info
  <2>1. 1 \in 1..1 + n /\ 1 <= 1
    BY <1>3, SMT
  <2> QED BY <1>2, <1>6, <2>1
<1>8. SubSeq(whole, 2, 1 + n) = bytes
  <2>2. /\ SubSeq(whole, 2, 1 + n) \in Seq(Byte)
        /\ Len(SubSeq(whole, 2, 1 + n)) = IF 2 <= 1 + n THEN (1 + n) - 2 + 1 ELSE 0
        /\ \A i \in 1..((1 + n) - 2 + 1) : SubSeq(whole, 2, 1 + n)[i] = whole[2 + i - 1]
    <3>1. 2 \in Nat /\ 1 + n \in Nat /\ 0 < 2 /\ 1 + n <= Len(whole)
      BY <1>3, <1>5, SMT
    <3> QED BY <1>5, <3>1, PartIs
  <2>3. Len(SubSeq(whole, 2, 1 + n)) = n
    BY <1>3, <2>2, SMT
  <2>4. ASSUME NEW i \in 1..n
        PROVE  SubSeq(whole, 2, 1 + n)[i] = bytes[i]
    <3> DEFINE j == i + 1
    <3>1. i \in 1..((1 + n) - 2 + 1) /\ 2 + i - 1 = j /\ j \in 1..1 + n /\ ~(j <= 1) /\ j - 1 = i
      BY <1>3, SMT
    <3>2. SubSeq(whole, 2, 1 + n)[i] = whole[j]
      BY <2>2, <3>1
    <3> HIDE DEF j
    <3>3. whole[j] = bytes[j - 1]
      BY <1>6, <3>1, Zenon
    <3> QED BY <3>1, <3>2, <3>3
  <2> DEFINE taken == SubSeq(whole, 2, 1 + n)
  <2> HIDE DEF taken
  <2>5. taken \in Seq(Byte) /\ Len(taken) = n /\ \A i \in 1..n : taken[i] = bytes[i]
    BY <2>2, <2>3, <2>4 DEF taken
  <2>6. taken = bytes
    BY <2>5, SeqEqual DEF n
  <2> QED BY <2>6 DEF taken
<1>9. HasBytes(whole, 2, n)
  BY <1>3, <1>5, SMT DEF HasBytes
<1>10. whole[1] % 32 = info /\ whole[1] \div 32 = major
  BY <1>1, <1>7
<1>11. argument(whole, 1) = [ok |-> TRUE, digits |-> Strip(bytes), at |-> 2 + n]
  <2>1. sizeOf(whole[1] % 32) = n
    BY <1>10 DEF n
  <2>2. 1 + 1 = 2 /\ 1 + 1 + n = 2 + n
    BY <1>3, SMT
  <2> DEFINE digits == Strip(SubSeq(whole, 2, 1 + n))
  <2>3. digits = Strip(bytes) /\ isSafeInteger(digits)
    BY <1>8
  <2> HIDE DEF digits
  <2>4. argument(whole, 1) = [ok |-> TRUE, digits |-> digits, at |-> 2 + n]
    BY <1>1, <1>9, <1>10, <2>1, <2>2, <2>3 DEF argument, digits
  <2> QED BY <2>3, <2>4
<1> QED BY <1>10, <1>11 DEF n, whole

\* A head whose number is in its first byte.
LEMMA ArgumentInFirst ==
  ASSUME NEW major \in 0..7, NEW info \in 0..23, NEW rest \in Seq(Byte)
  PROVE  LET whole == <<major * 32 + info>> \o rest IN
         whole[1] \div 32 = major /\ argument(whole, 1) = [ok |-> TRUE, digits |-> Digits(info), at |-> 2]
<1> DEFINE whole == <<major * 32 + info>> \o rest
           first == <<major * 32 + info>>
<1>1. /\ major * 32 + info \in Byte
      /\ (major * 32 + info) \div 32 = major /\ (major * 32 + info) % 32 = info /\ info < 24
  <2>1. info \in 0..31 /\ info < 24
    BY SMT
  <2> QED BY <2>1, HeadByte
<1>2. first \in Seq(Byte) /\ Len(first) = 1 /\ first[1] = major * 32 + info
  BY <1>1
<1>a. whole = first \o rest
  OBVIOUS
<1> HIDE DEF first, whole
<1>3. whole[1] = major * 32 + info
  <2>1. \A i \in 1..Len(first) + Len(rest) :
          (first \o rest)[i] = IF i <= Len(first) THEN first[i] ELSE rest[i - Len(first)]
    BY <1>2, ConcatProperties, Zenon
  <2>2. \A i \in 1..Len(first) + Len(rest) : whole[i] = IF i <= Len(first) THEN first[i] ELSE rest[i - Len(first)]
    BY <1>a, <2>1, Zenon
  <2>3. 1 \in 1..Len(first) + Len(rest) /\ 1 <= Len(first)
    BY <1>2, LenProperties, SMT
  <2> QED BY <1>2, <2>2, <2>3
<1>4. whole[1] % 32 = info /\ whole[1] \div 32 = major
  BY <1>1, <1>3
<1>5. sizeOf(info) = 0 /\ 1 + 1 + 0 = 2
  <2>1. info # 24 /\ info # 25 /\ info # 26 /\ info # 27
    BY <1>1, SMT
  <2>2. sizeOf(info) = 0
    BY <2>1, Zenon DEF sizeOf
  <2> QED BY <2>2, SMT
<1> QED BY <1>1, <1>4, <1>5 DEF argument, whole

\* The zeros that a number is padded with.
LEMMA PaddedIs ==
  ASSUME NEW digits, IsNumber(digits), NEW size \in Nat, Len(digits) <= size
  PROVE  Padded(digits, size) \in Seq(Byte) /\ Len(Padded(digits, size)) = size /\ Strip(Padded(digits, size)) = digits
<1> DEFINE zeros == [i \in 1..size - Len(digits) |-> 0]
           n == size - Len(digits)
<1>1. digits \in Seq(Byte) /\ Len(digits) \in Nat
  BY LenProperties DEF IsNumber
<1>2. n \in Nat
  BY <1>1, SMT
<1>3. zeros \in [1..n -> {0}]
  BY SMT
<1> HIDE DEF zeros
<1>4. zeros \in Seq({0}) /\ Len(zeros) = n
  <2> HIDE DEF n
  <2> QED BY <1>2, <1>3, TupleIs, Zenon
<1>5. zeros \in Seq(Byte)
  <2>1. {0} \subseteq Byte
    BY SMT DEF Byte
  <2> QED BY <1>4, <2>1, SMT
<1>6. Padded(digits, size) = zeros \o digits
  BY DEF Padded, zeros
<1>7. zeros \o digits \in Seq(Byte) /\ Len(zeros \o digits) = Len(zeros) + Len(digits)
  BY <1>1, <1>5, ConcatProperties, Zenon
<1>8. Strip(zeros \o digits) = digits
  BY <1>4, StripOf
<1> QED BY <1>1, <1>4, <1>6, <1>7, <1>8, SMT

\* The shortest head reads back as its major type and its number, wherever the number fits
\* and whatever comes after it (cbor.ts), so what writes an item and what reads it agree on
\* where it ends.
THEOREM HeadReadsBack ==
  ASSUME NEW major \in 0..7, NEW digits, IsNumber(digits), isSafeInteger(digits), NEW rest \in Seq(Byte)
  PROVE  LET whole == head(major, digits) \o rest IN
         /\ whole[1] \div 32 = major
         /\ argument(whole, 1) = [ok |-> TRUE, digits |-> digits, at |-> 1 + Len(head(major, digits))]
<1> DEFINE type == major * 32
           h == head(major, digits)
           whole == h \o rest
           L == Len(digits)
           Reads == /\ whole[1] \div 32 = major
                    /\ argument(whole, 1) = [ok |-> TRUE, digits |-> digits, at |-> 1 + Len(h)]
<1>1. digits \in Seq(Byte) /\ L \in 0..7 /\ (L = 0 <=> digits = <<>>)
  <2>1. digits \in Seq(Byte) /\ L \in Nat /\ (L = 0 <=> digits = <<>>)
    BY LenProperties, EmptySeq DEF IsNumber
  <2>2. L < 7 \/ L = 7
    BY DEF isSafeInteger
  <2> HIDE DEF L
  <2>3. L \in 0..7
    BY <2>1, <2>2, SMT
  <2> QED BY <2>1, <2>3
<1>2. digits = <<>> => L = 0
  BY <1>1
<1>3. h = CASE digits = <<>> -> <<type>>
            [] L = 1 -> IF InFirst(digits[1]) THEN <<type + digits[1]>> ELSE <<type + 24>> \o digits
            [] L = 2 -> <<type + 25>> \o digits
            [] L \in 3..4 -> <<type + 26>> \o Padded(digits, 4)
            [] L > 4 -> <<type + 27>> \o Padded(digits, 8)
  BY DEF head
<1>4. ASSUME NEW info \in 24..27, NEW bytes \in Seq(Byte), Len(bytes) = sizeOf(info), Strip(bytes) = digits,
             h = <<type + info>> \o bytes
      PROVE  Reads
  <2>1. whole = (<<major * 32 + info>> \o bytes) \o rest
    BY <1>4
  <2>2. isSafeInteger(Strip(bytes))
    BY <1>4
  <2>3. /\ whole[1] \div 32 = major
        /\ argument(whole, 1) = [ok |-> TRUE, digits |-> Strip(bytes), at |-> 2 + Len(bytes)]
    <3> DEFINE w == (<<major * 32 + info>> \o bytes) \o rest
    <3>1. /\ w[1] \div 32 = major
          /\ argument(w, 1) = [ok |-> TRUE, digits |-> Strip(bytes), at |-> 2 + Len(bytes)]
      BY <1>4, <2>2, ArgumentOf
    <3> HIDE DEF whole
    <3> QED BY <2>1, <3>1
  <2> HIDE DEF whole
  <2>4. Len(h) = 1 + Len(bytes) /\ Len(bytes) \in Nat
    <3>1. type + info \in Byte
      <4>1. info \in 0..31
        BY SMT
      <4> QED BY <4>1, HeadByte
    <3> DEFINE first == <<type + info>>
    <3>2. first \in Seq(Byte) /\ Len(first) = 1
      BY <3>1
    <3> HIDE DEF first
    <3>3. Len(first \o bytes) = Len(first) + Len(bytes)
      BY <3>2, ConcatProperties, Zenon
    <3>4. h = first \o bytes
      BY <1>4 DEF first
    <3> QED BY <3>2, <3>3, <3>4, LenProperties
  <2> HIDE DEF h
  <2>5. 2 + Len(bytes) = 1 + Len(h)
    BY <2>4, SMT
  <2> QED BY <1>4, <2>3, <2>5
<1>5. ASSUME NEW info \in 0..23, Digits(info) = digits, h = <<type + info>>
      PROVE  Reads
  <2>1. whole = <<major * 32 + info>> \o rest
    BY <1>5
  <2>2. whole[1] \div 32 = major /\ argument(whole, 1) = [ok |-> TRUE, digits |-> Digits(info), at |-> 2]
    <3> DEFINE w == <<major * 32 + info>> \o rest
    <3>1. w[1] \div 32 = major /\ argument(w, 1) = [ok |-> TRUE, digits |-> Digits(info), at |-> 2]
      BY ArgumentInFirst
    <3> HIDE DEF whole
    <3> QED BY <2>1, <3>1
  <2> HIDE DEF whole
  <2>3. 1 + Len(h) = 2
    BY <1>5
  <2> QED BY <1>5, <2>2, <2>3
<1> SUFFICES Reads
  OBVIOUS
<1> HIDE DEF Reads, h, L
<1>6. Strip(digits) = digits
  <2>1. <<>> \in Seq({0}) /\ <<>> \o digits = digits
    BY <1>1, EmptySeq, ConcatEmptySeq
  <2> QED BY <2>1, StripOf
<1>7. CASE L = 0
  <2>1. h = <<type>> /\ type + 0 = type
    BY <1>1, <1>3, <1>7, SMT
  <2>2. Digits(0) = digits /\ 0 \in 0..23
    BY <1>1, <1>7, SMT DEF Digits
  <2> QED BY <1>5, <2>1, <2>2
<1>8. CASE L = 1
  <2> DEFINE d == digits[1]
  <2>1. d \in Byte /\ d # 0 /\ digits = <<d>> /\ digits # <<>>
    <3>1. d \in Byte /\ d # 0
      BY <1>1, <1>8, ElementOfSeq DEF IsNumber, L
    <3>2. digits = <<d>>
      BY <1>1, <1>8 DEF L
    <3> QED BY <1>1, <1>8, <3>1, <3>2
  <2>2. h = IF InFirst(d) THEN <<type + d>> ELSE <<type + 24>> \o digits
    BY <1>3, <1>8, <2>1, SMT
  <2>3. CASE InFirst(d)
    <3>1. d \in 0..23
      <4> HIDE DEF d
      <4> QED BY <2>1, <2>3, SMT DEF InFirst, Byte
    <3>2. Digits(d) = digits
      <4> HIDE DEF d
      <4> QED BY <2>1, <3>1, SMT DEF Digits
    <3> QED BY <1>5, <2>2, <2>3, <3>1, <3>2
  <2>4. CASE ~InFirst(d)
    <3>1. 24 \in 24..27 /\ sizeOf(24) = 1
      BY SMT DEF sizeOf
    <3> QED BY <1>1, <1>4, <1>6, <1>8, <2>2, <2>4, <3>1 DEF L
  <2> QED BY <2>3, <2>4
<1>9. CASE L = 2
  <2>1. h = <<type + 25>> \o digits
    BY <1>1, <1>3, <1>9, SMT
  <2>2. 25 \in 24..27 /\ sizeOf(25) = 2
    BY SMT DEF sizeOf
  <2> QED BY <1>1, <1>4, <1>6, <1>9, <2>1, <2>2 DEF L
<1>10. CASE L \in 3..4
  <2>1. h = <<type + 26>> \o Padded(digits, 4)
    BY <1>1, <1>3, <1>10, SMT
  <2>2. 26 \in 24..27 /\ sizeOf(26) = 4 /\ 4 \in Nat /\ L <= 4
    BY <1>10, SMT DEF sizeOf
  <2>3. Padded(digits, 4) \in Seq(Byte) /\ Len(Padded(digits, 4)) = 4 /\ Strip(Padded(digits, 4)) = digits
    BY <2>2, PaddedIs DEF L
  <2> QED BY <1>4, <2>1, <2>2, <2>3
<1>11. CASE L \in 5..7
  <2>1. h = <<type + 27>> \o Padded(digits, 8)
    BY <1>1, <1>3, <1>11, SMT
  <2>2. 27 \in 24..27 /\ sizeOf(27) = 8 /\ 8 \in Nat /\ L <= 8
    BY <1>11, SMT DEF sizeOf
  <2>3. Padded(digits, 8) \in Seq(Byte) /\ Len(Padded(digits, 8)) = 8 /\ Strip(Padded(digits, 8)) = digits
    BY <2>2, PaddedIs DEF L
  <2> QED BY <1>4, <2>1, <2>2, <2>3
<1>12. L = 0 \/ L = 1 \/ L = 2 \/ L \in 3..4 \/ L \in 5..7
  BY <1>1, SMT
<1> QED BY <1>7, <1>8, <1>9, <1>10, <1>11, <1>12
=============================================================================
