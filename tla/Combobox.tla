------------------------------ MODULE Combobox ------------------------------
(***************************************************************************)
(* The searchable player picker (Combobox.tsx): a field whose list filters *)
(* as its text changes, with a highlight that the keys and the pointer     *)
(* move.  A blur closes the list by a timer, and another timer reads out   *)
(* how many were found.                                                    *)
(***************************************************************************)
EXTENDS Naturals, SequencesExt

CONSTANTS
  options,   \* the options, in order
  NameOf,    \* each one's name
  Typed,     \* what may be typed; "" is the empty field
  Includes,  \* the options whose name or club includes each text, trimmed and without accents
  NoOption,
  MaxBlurs   \* bound: blurs whose timers are due

Option == Range(options)

ASSUME ComboAssumption ==
  /\ NoOption \notin Option /\ "" \in Typed /\ MaxBlurs \in Nat
  /\ options \in Seq(Option) /\ NameOf \in [Option -> Typed] /\ Includes \in [Typed -> SUBSET Option]

VARIABLES
  combo,     \* text, open, active (an index of the list, 0 for none) and chosen
  focused,   \* the field is document.activeElement
  closing,   \* how many blurs' timers are due
  counting,  \* what the count's timer will say, if it runs
  counted,   \* what it said last
  reported   \* what onChange() got last

comboVars == <<combo, focused, closing, counting, counted, reported>>

NoCount == Len(options) + 1

\* The places of the options that are found, and the i-th one of the list.
FoundBy(text) == {place \in DOMAIN options : options[place] \in Includes[text]}
found == FoundBy(combo.text)
count == Cardinality(found)
Nth(i) == options[CHOOSE place \in found : Cardinality(found \cap 1..place) = i]

\* The count's effect: whatever changes clears its timer, and an open list
\* starts another.
Recounted(c) ==
  IF c = [combo EXCEPT !.chosen = c.chosen] THEN counting
  ELSE IF c.open THEN Cardinality(FoundBy(c.text)) ELSE NoCount

Shows(c) == combo' = c /\ counting' = Recounted(c) /\ UNCHANGED counted

\* type()
typed(text) ==
  [text |-> text, open |-> TRUE, active |-> IF text = "" THEN 0 ELSE 1, chosen |-> NoOption]

closed == [combo EXCEPT !.open = FALSE, !.active = 0]

\* pick(): an index that the list doesn't have does nothing.
pick(i) ==
  IF i \in 1..count
  THEN /\ Shows([text |-> NameOf[Nth(i)], open |-> FALSE, active |-> 0, chosen |-> Nth(i)])
       /\ reported' = Nth(i)
  ELSE Shows(combo) /\ UNCHANGED reported

ComboInit ==
  /\ combo = [text |-> "", open |-> FALSE, active |-> 0, chosen |-> NoOption]
  /\ focused = FALSE /\ closing = 0 /\ counting = NoCount /\ counted = NoCount /\ reported = NoOption

\* The visitor types, or the page does: search() focuses the field first.
Types(text) == focused /\ text # combo.text /\ Shows(typed(text)) /\ UNCHANGED <<focused, closing, reported>>
search(text) == focused' = TRUE /\ Shows(typed(text)) /\ UNCHANGED <<closing, reported>>

\* The field gets the focus by the keyboard, or by a click, which opens it.
FocusField(clicked) ==
  /\ ~focused \/ (clicked /\ ~combo.open)
  /\ focused' = TRUE /\ Shows(IF clicked THEN [combo EXCEPT !.open = TRUE] ELSE combo)
  /\ UNCHANGED <<closing, reported>>

ArrowDown ==
  /\ focused
  /\ \/ ~combo.open /\ Shows([combo EXCEPT !.open = TRUE, !.active = 1])
     \/ combo.open /\ count > 0 /\ Shows([combo EXCEPT !.active = (@ % count) + 1])
  /\ UNCHANGED <<focused, closing, reported>>

\* From no highlight, (active - 1 + count) % count is the last but one.
ArrowUp ==
  /\ focused
  /\ \/ ~combo.open /\ Shows([combo EXCEPT !.open = TRUE, !.active = count])
     \/ combo.open /\ count > 0 /\ Shows([combo EXCEPT !.active = ((@ + 2 * count - 2) % count) + 1])
  /\ UNCHANGED <<focused, closing, reported>>

EnterKey == focused /\ combo.open /\ combo.active > 0 /\ pick(combo.active) /\ UNCHANGED <<focused, closing>>

Cleared == [combo EXCEPT !.text = "", !.chosen = NoOption]

\* Esc closes the list, then clears the field.
Escape ==
  /\ focused
  /\ \/ combo.open /\ Shows(closed)
     \/ ~combo.open /\ combo.text # "" /\ Shows(Cleared)
  /\ UNCHANGED <<focused, closing, reported>>

\* onBlur()
Blurs == closing + 1

\* Tab closes the list and leaves the field, a press elsewhere only leaves it.
LeaveCombo(byTab) ==
  /\ focused /\ closing < MaxBlurs /\ focused' = FALSE /\ closing' = Blurs
  /\ Shows(IF byTab THEN closed ELSE combo) /\ UNCHANGED reported

CloseTimer == closing > 0 /\ closing' = closing - 1 /\ Shows(closed) /\ UNCHANGED <<focused, reported>>

\* The pointer on the list keeps the focus where it is.
PointTo(i) ==
  /\ combo.open /\ i \in 1..count /\ i # combo.active /\ Shows([combo EXCEPT !.active = i])
  /\ UNCHANGED <<focused, closing, reported>>
ClickOption(i) == combo.open /\ i \in 1..count /\ pick(i) /\ UNCHANGED <<focused, closing>>

CountTimer ==
  /\ counting # NoCount /\ counted' = counting /\ counting' = NoCount
  /\ UNCHANGED <<combo, focused, closing, reported>>

ComboNext ==
  \/ \E text \in Typed : Types(text) \/ search(text)
  \/ \E b \in BOOLEAN : FocusField(b) \/ LeaveCombo(b)
  \/ ArrowDown \/ ArrowUp \/ EnterKey \/ Escape \/ CloseTimer \/ CountTimer
  \/ \E i \in DOMAIN options : PointTo(i) \/ ClickOption(i)

ComboSpec == ComboInit /\ [][ComboNext]_comboVars
-----------------------------------------------------------------------------
(* Properties.                                                             *)

\* The highlight is on an option that the list has, whatever changed the list
\* under it, and a closed list has none.  A list that found nothing has its
\* highlight on the first all the same.
HighlightIsFound ==
  /\ combo.active <= (IF count = 0 THEN 1 ELSE count)
  /\ ~combo.open => combo.active = 0

\* The option that is ticked is the one whose name the field holds, and the
\* one that the page heard of last: no key, click or late timer parts them.
FieldSaysTheChosen ==
  combo.chosen # NoOption => combo.text = NameOf[combo.chosen] /\ reported = combo.chosen

\* The count that will be read out is of the list that shows, however often
\* the text changed within the delay, and nothing is counted once it closed.
CountsTheShown == counting # NoCount => combo.open /\ counting = count

\* A list whose field the focus has left is about to close.
LeftListCloses == combo.open /\ ~focused => closing > 0

\* A blur's timer doesn't close the list of a field that has the focus again.
\* It does: search() or a key may come between the blur and its timer.
LateCloseSpares == [][CloseTimer /\ focused => combo' = combo]_comboVars

\* Highlight, choice, text and count are of the list that shows, which closes
\* with its field.
ComboInv == HighlightIsFound /\ FieldSaysTheChosen /\ CountsTheShown /\ LeftListCloses
=============================================================================
