------------------------------- MODULE MCApp --------------------------------
(***************************************************************************)
(* The admin page's lists, the app's own update, a signed result's bytes, and *)
(* what the pages share: toasts, the tooltip, the date picker, the combobox, *)
(* the palette, the menubar and the account menu.  One of them at a time.  *)
(***************************************************************************)
EXTENDS AdminLists, AppUpdate, ResultWire, Widgets, TLC

CONSTANTS acc1, acc2, guest, key1

VARIABLE part

\* Two verified accounts and a guest, each with its player, and a key of the
\* guest's, in pages of one row.
MCHolding == [x |-> {acc1, 3}]
MCRank == (acc1 :> 1) @@ (acc2 :> 2) @@ (guest :> 3) @@ (1 :> 1) @@ (2 :> 2) @@ (3 :> 3) @@ (key1 :> 1)

Starts(sections, fails, pressing, happening) ==
  [verified |-> {acc1, acc2}, self |-> (acc1 :> 1) @@ (acc2 :> 2) @@ (guest :> 3), owner |-> (key1 :> guest),
   sections |-> sections, fails |-> fails, presses |-> pressing, events |-> happening]
MCListScenes == {
  Starts({"accounts"}, TRUE, 3, 0), Starts({"accounts"}, FALSE, 2, 1), Starts({"players"}, FALSE, 2, 2),
  Starts({"keys"}, FALSE, 1, 3), Starts({"accounts", "keys"}, FALSE, 3, 0)}

\* Two results, and items at the edges of every length.
Filled(n, byte) == [i \in 1..n |-> byte]
Signed(bestOf, games, retiredBy, replaces) ==
  [match |-> Filled(16, 9), bestOf |-> bestOf, rated |-> TRUE, players |-> <<Filled(16, 1), Filled(16, 2)>>,
   games |-> games, retiredBy |-> retiredBy, replaces |-> replaces]
MCWritten == {
  [issuedAt |-> <<104, 10, 20, 30>>,
   result |-> Signed(3, <<<<Digits(11), Digits(0)>>, <<Digits(24), Digits(26)>>>>, 2, <<>>)],
  [issuedAt |-> MAX_IAT, result |-> Signed(1, <<<<Digits(300), Digits(23)>>>>, 1, Filled(32, 255))]}
Edges == {<<>>, <<1>>, <<23>>, <<24>>, <<255>>, <<1, 0>>, <<255, 255>>, <<1, 0, 0>>, <<255, 255, 255, 255>>,
          <<1, 0, 0, 0, 0>>, MAX_SAFE_INTEGER, <<32, 0, 0, 0, 0, 0, 0>>, <<1, 0, 0, 0, 0, 0, 0, 0>>}
Nested[n \in 0..16] == IF n = 0 THEN List(<<>>) ELSE List(<<Nested[n - 1]>>)
MCEdgeItems ==
  {Uint(d) : d \in Edges} \cup {Item(NEGATIVE, d, <<>>) : d \in Edges}
  \cup {Bytes(Filled(n, 7)) : n \in {0, 23, 24, 255, 256}} \cup {Text(Filled(n, 65)) : n \in {0, 23, 24, 255, 256}}
  \cup {List([i \in 1..n |-> Small(i)]) : n \in {0, 23, 24, 30}} \cup {Nested[n] : n \in {15, 16}}
  \cup {Map(<<Small(1), Small(2), Minus(1), Small(1), Text(<<49>>), Bool(TRUE)>>), Item(TAG, Digits(98), <<Bool(FALSE)>>)}
MCPlaces == 1..8 \cup 98..118 \cup {61 * i : i \in 1..8}

\* 26 January 2028 is today and 27 December 2027 the first day that may be
\* picked.  30 February isn't a day, 29 February is one in 2028 only, and
\* 1 December 2027 is too early.
TypedDate(day, month, year) == [day |-> day, month |-> month, year |-> year, full |-> FALSE]
MCTexts == {TypedDate(30, 2, 28), TypedDate(29, 2, NoDate), TypedDate(1, 12, 2027), TypedDate(0, 0, NoDate)}

\* Three options and what finds them.
MCOptions == <<"ann", "bo", "ann2">>

\* The names are Ann, Bo and Ann again, of another club, which "b" finds.
MCNames == [ann |-> "ann", bo |-> "bo", ann2 |-> "ann"]
MCIncludes ==
  [word \in {"", "a", "b", "z", "ann", "bo"} |->
     CASE word = "" -> Range(MCOptions) [] word \in {"a", "ann"} -> {"ann", "ann2"}
       [] word = "b" -> {"bo", "ann2"} [] word = "bo" -> {"bo"} [] OTHER -> {}]

\* A menu of one command, and longer ones.
MCCommands == <<3, 1, 2>>

\* A guest, an account, and an administrator's.
MCSignedIn == {[guest |-> TRUE, admin |-> FALSE], [guest |-> FALSE, admin |-> FALSE], [guest |-> FALSE, admin |-> TRUE]}

\* A page of matches has one command more than the others.
MCLists == {<<"home", "rank">>, <<"match", "home", "rank">>}
MCFoundIn == [word \in {"", "h", "zz"} |->
                CASE word = "" -> {"home", "rank", "match"} [] word = "h" -> {"home", "match"} [] OTHER -> {}]

\* What isn't looked at starts in one of its states.
AppInit ==
  /\ part \in {"lists", "update", "wire", "toasts", "tooltip", "date", "combo", "palette", "menubar", "account"}
  /\ ListsInit /\ (part # "lists" => listScene = CHOOSE s \in ListScenes : TRUE)
  /\ UpdateInit /\ (part # "update" => updateScene = CHOOSE s \in UpdateScenes : TRUE)
  /\ WireInit /\ (part # "wire" => written.item = Small(1))
  /\ DateInit /\ (part # "date" => inline /\ field.selected = NoDate)
  /\ PaletteInit /\ (part # "palette" => listed = CHOOSE list \in Lists : TRUE)
  /\ UserMenuInit /\ (part # "account" => narrow /\ account = CHOOSE a \in SignedIn : TRUE)
  /\ ToastsInit /\ TipsInit /\ ComboInit /\ MenubarInit

AppNext ==
  /\ UNCHANGED part
  /\ \/ part = "lists" /\ ListsNext
     \/ part = "update" /\ UpdateNext
     \/ part = "wire" /\ WireNext
     \/ part = "toasts" /\ ToastsNext
     \/ part = "tooltip" /\ TipsNext
     \/ part = "date" /\ DateNext
     \/ part = "combo" /\ ComboNext
     \/ part = "palette" /\ PaletteNext
     \/ part = "menubar" /\ MenubarNext
     \/ part = "account" /\ UserMenuNext
  /\ part # "lists" => UNCHANGED listVars
  /\ part # "update" => UNCHANGED updateVars
  /\ part # "wire" => UNCHANGED wireVars
  /\ part # "toasts" => UNCHANGED toastVars
  /\ part # "tooltip" => UNCHANGED tipVars
  /\ part # "date" => UNCHANGED dateVars
  /\ part # "combo" => UNCHANGED comboVars
  /\ part # "palette" => UNCHANGED paletteVars
  /\ part # "menubar" => UNCHANGED menubarVars
  /\ part # "account" => UNCHANGED userMenuVars

appVars == <<part, listVars, updateVars, wireVars, toastVars, tipVars, dateVars, comboVars, paletteVars, menubarVars, userMenuVars>>

AppSpec == AppInit /\ [][AppNext]_appVars /\ WF_listVars(part = "lists" /\ Ends)

\* What the visitor asked the admin page for is shown in the end, or an alert.
AppListsSettle == part = "lists" => ListsSettle
=============================================================================
