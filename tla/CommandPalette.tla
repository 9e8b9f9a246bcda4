--------------------------- MODULE CommandPalette ---------------------------
(***************************************************************************)
(* The command palette (CommandPalette.tsx): a modal dialog over the       *)
(* commands that the page listed as it opened, found by a query.  Enter or *)
(* a click closes it and runs a command by a timer, so that the command    *)
(* can move the focus.                                                     *)
(***************************************************************************)
EXTENDS Naturals, SequencesExt

CONSTANTS
  Lists,    \* the lists of commands that the page may have
  Query,    \* what may be typed; "" is the empty field
  FoundIn,  \* the commands that each query finds by their label, hint or keywords
  MaxRuns   \* bound: timers that are due

ASSUME PaletteAssumption ==
  /\ Lists # {} /\ \A list \in Lists : list \in Seq(Range(list))
  /\ "" \in Query /\ MaxRuns \in Nat \ {0}

VARIABLES
  palette,  \* open, and the commands, query and chosen index (from 1)
  listed,     \* what listCommands() would return now
  due,      \* the commands whose timers are due, in order
  ran       \* history: how many commands were set to run since the palette opened

paletteVars == <<palette, listed, due, ran>>

\* The places of the commands that show, how many, and the i-th of them.
shown == {place \in DOMAIN palette.commands : palette.commands[place] \in FoundIn[palette.query]}
lines == Cardinality(shown)
Line(i) == palette.commands[CHOOSE place \in shown : Cardinality(shown \cap 1..place) = i]
active == IF palette.chosen <= lines THEN palette.chosen ELSE 1

PaletteInit ==
  /\ listed \in Lists
  /\ palette = [open |-> FALSE, commands |-> <<>>, query |-> "", chosen |-> 1]
  /\ due = <<>> /\ ran = 0

Opened(text) == [open |-> TRUE, commands |-> listed, query |-> text, chosen |-> 1]

\* open(): also of a palette that's open already.
OpenPalette(text) ==
  palette' = Opened(text) /\ ran' = (IF palette.open THEN ran ELSE 0) /\ UNCHANGED <<listed, due>>

\* The shortcut opens and closes it, Esc and a press on the backdrop close it.
Shortcut == ~palette.open /\ OpenPalette("")
ClosePalette == palette.open /\ palette' = [palette EXCEPT !.open = FALSE] /\ UNCHANGED <<listed, due, ran>>

\* The search field, the arrows, which wrap, and the pointer.
Queried(text) == palette.open /\ palette' = [palette EXCEPT !.query = text, !.chosen = 1]
Stepped(by) ==
  /\ palette.open /\ shown # {}
  /\ palette' = [palette EXCEPT !.chosen = ((active - 1 + by) % lines) + 1]
Pointed(i) == palette.open /\ i \in 1..lines \ {active} /\ palette' = [palette EXCEPT !.chosen = i]

SearchPalette ==
  /\ \/ \E text \in Query : Queried(text)
     \/ Stepped(1) \/ Stepped(lines - 1)
     \/ \E i \in 1..lines : Pointed(i)
  /\ UNCHANGED <<listed, due, ran>>

Shut == [palette EXCEPT !.open = FALSE]

\* run(): of the highlighted command by Enter, or of the clicked one.
RunAt(i) ==
  /\ palette.open /\ i \in 1..lines /\ Len(due) < MaxRuns
  /\ palette' = Shut /\ due' = Append(due, Line(i)) /\ ran' = ran + 1 /\ UNCHANGED listed

RunTimer == due # <<>> /\ due' = Tail(due) /\ UNCHANGED <<palette, listed, ran>>

\* The page's commands change: its players, or where it is.
PageChanges == listed' \in Lists \ {listed} /\ UNCHANGED <<palette, due, ran>>

PaletteNext ==
  \/ \E text \in Query : OpenPalette(text)
  \/ Shortcut \/ ClosePalette \/ SearchPalette \/ RunTimer \/ PageChanges
  \/ RunAt(active) \/ \E i \in 1..lines : RunAt(i)

PaletteSpec == PaletteInit /\ [][PaletteNext]_paletteVars
-----------------------------------------------------------------------------
(* Properties.                                                             *)

\* The highlight is on the first command until a key or the pointer moves it
\* to another that shows: neither a query nor a page with other commands
\* leaves it on a command that nobody chose, or that the list doesn't have.
HighlightIsShown == palette.chosen = 1 \/ palette.chosen <= lines

\* An opening runs one command at most, and has closed by then: a second
\* Enter or click finds no palette, and the command may move the focus.
RunsOnce == ran <= 1 /\ (ran = 1 => ~palette.open)

\* "Runs after the palette closes, so the command can move focus": the
\* command doesn't run under a palette that opened again.  It does, where the
\* shortcut or the page comes before its timer.
RunsUnderNoPalette == [][RunTimer => ~palette.open]_paletteVars

\* The palette runs one command, of those that it shows.
PaletteInv == HighlightIsShown /\ RunsOnce
=============================================================================
