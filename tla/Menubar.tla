------------------------------- MODULE Menubar ------------------------------
(***************************************************************************)
(* A row of menus for the keyboard and the pointer (Menubar.tsx, Menu.tsx):*)
(* one top is the bar's tab stop, at most one menu is open, and the focus  *)
(* is on a top, on a command of a menu that shows, or elsewhere.           *)
(***************************************************************************)
EXTENDS Naturals, Sequences

CONSTANTS
  Commands  \* how many commands each menu has

ASSUME MenubarAssumption == Commands \in Seq(Nat \ {0}) /\ Commands # <<>>

VARIABLES
  bar,  \* current, the tab stop, and opened, the open menu or 0
  at    \* the menu and command that have the focus: 0 for its top

menubarVars == <<bar, at>>
Menus == DOMAIN Commands
Elsewhere == <<0, 0>>
wrap(menu) == ((menu - 1) % Len(Commands)) + 1

\* Where a roving group's arrows, Home and End lead from one of `count`.
keyTargets(index, count) == {(index % count) + 1, ((index + count - 2) % count) + 1, 1, count}

MenubarInit == bar = [current |-> 1, opened |-> 0] /\ at = Elsewhere

\* The browser takes the focus from a command that doesn't show.
Focus(menu, command, opened) ==
  at' = IF command > 0 /\ menu # opened THEN Elsewhere ELSE <<menu, command>>

Showing(menu) == [current |-> menu, opened |-> menu]

\* open(), and the effect that gives a command the focus once it shows.
OpenAt(menu, command) == bar' = Showing(menu) /\ Focus(menu, command, menu)
OpenFirst(menu) == OpenAt(menu, 1)

Back == <<bar.opened, 0>>

\* close(true)
CloseToTop == bar.opened # 0 /\ bar' = [bar EXCEPT !.opened = 0] /\ Focus(Back[1], Back[2], 0)

\* step()
StepTo(menu) ==
  \/ bar.opened # 0 /\ OpenFirst(menu)
  \/ bar.opened = 0 /\ bar' = [bar EXCEPT !.current = menu] /\ Focus(menu, 0, 0)

OnTop == at[1] # 0 /\ at[2] = 0
OnCommand == at[2] # 0

\* The keys of a top: the arrows, Home and End, Enter and Space, and Esc.
TopKey ==
  /\ OnTop
  /\ \/ \E menu \in keyTargets(at[1], Len(Commands)) : StepTo(menu)
     \/ OpenFirst(at[1]) \/ OpenAt(at[1], Commands[at[1]])
     \/ CloseToTop

\* The keys of a command.
CommandKey ==
  /\ OnCommand
  /\ \/ \E command \in keyTargets(at[2], Commands[at[1]]) :
          Focus(at[1], command, bar.opened) /\ UNCHANGED bar
     \/ CloseToTop
     \/ OpenFirst(wrap(at[1] + 1)) \/ OpenFirst(wrap(at[1] + Len(Commands) - 1))

\* Tab closes the menu of a command, but not that of a top, and moves on, or
\* back to the tab stop.
TabKey ==
  \/ /\ OnCommand /\ bar' = [bar EXCEPT !.opened = 0]
     /\ at' \in {Elsewhere, <<bar.current, 0>>}
  \/ /\ ~OnCommand /\ at' \in {Elsewhere, <<bar.current, 0>>} \ {at} /\ UNCHANGED bar

\* The pointer: over a top while a menu is open, on a top, and on a command.
Hover(menu) == bar.opened \notin {0, menu} /\ OpenFirst(menu)
PressTop(menu) == Focus(menu, 0, bar.opened) /\ UNCHANGED bar
ClickTop(menu) == IF bar.opened = menu THEN CloseToTop ELSE OpenFirst(menu)
PressCommand(command) ==
  bar.opened # 0 /\ command \in 1..Commands[bar.opened] /\ Focus(bar.opened, command, bar.opened) /\ UNCHANGED bar
ClickCommand == OnCommand /\ CloseToTop

\* A press on a divider leaves the menu open, one outside the bar closes it.
PressDivider == bar.opened # 0 /\ at' = Elsewhere /\ UNCHANGED bar
PressOutside == bar.opened # 0 /\ bar' = [bar EXCEPT !.opened = 0] /\ at' = Elsewhere

MenubarNext ==
  \/ TopKey \/ CommandKey \/ TabKey \/ ClickCommand \/ PressDivider \/ PressOutside
  \/ \E menu \in Menus : Hover(menu) \/ PressTop(menu) \/ ClickTop(menu)
  \/ \E command \in 1..Commands[IF bar.opened = 0 THEN 1 ELSE bar.opened] : PressCommand(command)

MenubarSpec == MenubarInit /\ [][MenubarNext]_menubarVars
-----------------------------------------------------------------------------
(* Properties.                                                             *)

\* The open menu is the bar's tab stop, however it was opened: Tab from one
\* of its commands leads out of the bar, and Shift+Tab to its own top.
TabStopIsOpened == bar.opened # 0 => bar.current = bar.opened

\* No key but Tab takes the focus out of the bar: what a key hides, moves or
\* opens never leaves the visitor on nothing.
KeysKeepTheFocus == [][TopKey \/ CommandKey => at' # Elsewhere]_menubarVars

\* "Esc closes it back to the bar": Esc reaches an open menu.  It doesn't
\* after a press on a divider, which takes the focus out of the bar.
EscapeReachesTheOpen == bar.opened # 0 => at # Elsewhere

\* The open menu has the tab stop, and keys leave the focus on what shows.
MenubarSafe == []TabStopIsOpened /\ KeysKeepTheFocus
=============================================================================
