----------------------------- MODULE DatePicker -----------------------------
(***************************************************************************)
(* The date picker (dates.ts, calendarState.ts, Calendar.tsx,              *)
(* DateField.tsx, InlineCalendar.tsx): a field to type a date in with its  *)
(* calendar in a popup, or the calendar alone.  A date is a day's number,  *)
(* counted from the first modelled year's 1 January, and a month is        *)
(* 12 * year + its index, as Date's parts add up.                          *)
(***************************************************************************)
EXTENDS Integers

CONSTANTS
  NoDate,
  FirstYear, LastYear,  \* bound: the years there are
  FirstWeekday,         \* the first one's 1 January, with Monday as 0
  today, min,           \* the picker's config
  Values,               \* the values it may start with, NoDate among them
  Texts,                \* what the user types: [day, month, year, full]; year may be NoDate
  Picks,                \* bound: the days they press
  MaxKeys               \* bound: what they do

Months == 12 * FirstYear .. 12 * LastYear + 11
Leap(year) == year % 4 = 0 /\ (year % 100 # 0 \/ year % 400 = 0)
MonthLength(k) ==
  CASE k % 12 = 1 -> IF Leap(k \div 12) THEN 29 ELSE 28
    [] k % 12 \in {3, 5, 8, 10} -> 30
    [] OTHER -> 31

\* The days before month `k`: of its year's months, and of the years since the first.
LeapsTo(year) == (year \div 4) - (year \div 100) + (year \div 400)
DaysBefore(k) ==
  LET year == k \div 12 IN
  <<0, 31, 59, 90, 120, 151, 181, 212, 243, 273, 304, 334>>[(k % 12) + 1]
    + (IF k % 12 > 1 /\ Leap(year) THEN 1 ELSE 0)
    + 365 * (year - FirstYear) + LeapsTo(year - 1) - LeapsTo(FirstYear - 1)

Days == 1..DaysBefore(12 * LastYear + 11) + 31
monthOf(d) == CHOOSE k \in Months : DaysBefore(k) < d /\ d <= DaysBefore(k) + MonthLength(k)
Weekday(d) == (d - 1 + FirstWeekday) % 7

\* A year as parseDate() reads it: of two digits it's in this century.
fullYear(year) == IF year < 100 THEN year + 2000 ELSE year

ASSUME DatePickerAssumption ==
  /\ FirstYear \in Nat /\ LastYear \in Nat /\ 100 <= FirstYear /\ FirstYear <= LastYear
  /\ FirstWeekday \in 0..6 /\ MaxKeys \in Nat
  /\ {today, min} \cup Picks \subseteq Days /\ Values \subseteq Days \cup {NoDate}
  /\ NoDate \notin Int /\ \A value \in Values \ {NoDate} : value >= min
  /\ Texts \subseteq [day : Nat, month : Nat, year : Nat \cup {NoDate}, full : BOOLEAN]
  /\ \A text \in Texts : text.year # NoDate => fullYear(text.year) \in FirstYear..LastYear

VARIABLES
  inline,       \* InlineCalendar, or DateField
  field,        \* the calendar's state, the field's text and error, and what onChange said last
  open,         \* the popup
  textOnFocus,
  focusIn, domDay,   \* where document.activeElement is, and which day if it's one
  entered,      \* history: Enter has checked another text than the field took focus with
  jumped,       \* history: the popup took focus from a text it hadn't checked
  keys

dateVars == <<inline, field, open, textOnFocus, focusIn, domDay, entered, jumped, keys>>

\* longDate().
Long(d) ==
  LET k == monthOf(d) IN [day |-> d - DaysBefore(k), month |-> (k % 12) + 1, year |-> k \div 12, full |-> TRUE]
TextOf(value) == IF value = NoDate THEN NoDate ELSE Long(value)

parseDate(text, fallbackYear) ==
  LET k == 12 * fullYear(IF text.year = NoDate THEN fallbackYear ELSE text.year) + text.month - 1
  IN IF text.month \in 1..12 /\ text.day \in 1..MonthLength(k) THEN DaysBefore(k) + text.day ELSE NoDate

\* weeksOf(): the 42 days on screen, Monday first.
Grid(k) == LET first == DaysBefore(k) + 1 - Weekday(DaysBefore(k) + 1) IN first..first + 41

initialCalendar(value) ==
  LET focused == IF value = NoDate THEN today ELSE value
  IN [selected |-> value, focused |-> focused, month |-> monthOf(focused),
      text |-> TextOf(value), error |-> FALSE, reported |-> value]

\* calendarReducer()'s actions.
Focused(d) == [field EXCEPT !.focused = d, !.month = monthOf(d)]

Shown(k) == [field EXCEPT !.focused = DaysBefore(k) + 1, !.month = k]

\* Mutant of Picked: the field keeps its text.
PickedKeeping(d) == [field EXCEPT !.selected = d, !.focused = d, !.reported = d, !.error = FALSE]

\* `pick`, with the field's onPick.
Picked(d) == [field EXCEPT !.selected = d, !.focused = d, !.reported = d, !.error = FALSE, !.text = Long(d)]

\* check(), with the reducer's `type`.
checked ==
  LET date == parseDate(field.text, field.month \div 12)
  IN IF field.text = NoDate THEN [field EXCEPT !.selected = NoDate, !.error = FALSE]
     ELSE IF date = NoDate \/ date < min THEN [field EXCEPT !.error = TRUE]
     ELSE [selected |-> date, focused |-> date, month |-> monthOf(date),
           text |-> Long(date), error |-> FALSE, reported |-> date]

\* The input's onBlur.
Blurred == IF focusIn = "input" /\ field.text # textOnFocus THEN checked ELSE field

\* Where the focus is once it was asked to go to `d` and the grid shows month
\* `k`: a disabled day doesn't take it, and one that's gone drops it.
Lands(d, k) == IF d >= min THEN <<"day", d>>
               ELSE IF focusIn = "day" /\ domDay \notin Grid(k) THEN <<"page", domDay>> ELSE <<focusIn, domDay>>

\* The layout effect that focusDay() asks for, with the state it renders.
FocusDay(new) == LET lands == Lands(new.focused, new.month) IN focusIn' = lands[1] /\ domDay' = lands[2]

Visible == inline \/ open
Does == keys < MaxKeys /\ keys' = keys + 1 /\ UNCHANGED inline

DateInit ==
  /\ inline \in BOOLEAN /\ field \in {initialCalendar(value) : value \in Values}
  /\ open = FALSE /\ textOnFocus = field.text /\ focusIn = "page" /\ domDay = field.focused
  /\ entered = FALSE /\ jumped = FALSE /\ keys = 0

FocusInput ==
  /\ Does /\ ~inline /\ focusIn # "input" /\ focusIn' = "input"
  /\ textOnFocus' = field.text /\ jumped' = FALSE
  /\ UNCHANGED <<field, open, domDay, entered>>

\* The user types over the text.
TypesDate ==
  /\ Does /\ focusIn = "input"
  /\ \E text \in Texts \cup {NoDate, textOnFocus} : field' = [field EXCEPT !.text = text]
  /\ UNCHANGED <<open, textOnFocus, focusIn, domDay, entered, jumped>>

Enter ==
  /\ Does /\ focusIn = "input" /\ field' = checked /\ entered' = (field'.text # textOnFocus)
  /\ UNCHANGED <<open, textOnFocus, focusIn, domDay, jumped>>

\* Alt+Down: the day takes focus, so the field's text is checked after it.
openCalendarByKey ==
  /\ Does /\ focusIn = "input" /\ open' = TRUE
  /\ IF field.focused < min THEN UNCHANGED <<field, focusIn, domDay, entered, jumped>>
     ELSE /\ field' = Blurred /\ domDay' = field.focused
          /\ focusIn' = IF field.focused \in Grid(field'.month) THEN "day" ELSE "page"
          /\ jumped' = (field'.focused # field.focused)
          /\ entered' = (entered /\ field.text = textOnFocus)
  /\ UNCHANGED textOnFocus

\* The focus leaves where it is, by Tab or a press; one outside closes the popup.
LeaveField ==
  /\ Does /\ focusIn' \in {"page", "button"} /\ (inline => focusIn' = "page")
  /\ field' = Blurred /\ entered' = (entered /\ (focusIn = "input" => field.text = textOnFocus))
  /\ open' \in {open, FALSE} /\ (focusIn' = "button" => open' = open)
  /\ <<focusIn', open'>> # <<focusIn, open>>
  /\ jumped' = FALSE /\ UNCHANGED <<textOnFocus, domDay>>

\* Esc, in the field or in the popup.
closeCalendar ==
  /\ Does /\ open /\ focusIn \in {"input", "day", "head"} /\ open' = FALSE /\ focusIn' = "button" /\ field' = Blurred
  /\ entered' = (entered /\ (focusIn = "input" => field.text = textOnFocus))
  /\ jumped' = FALSE /\ UNCHANGED <<textOnFocus, domDay>>

\* The calendar's button.
Toggle ==
  /\ Does /\ ~inline /\ focusIn = "button" /\ open' = ~open /\ jumped' = FALSE
  /\ IF open THEN UNCHANGED <<focusIn, domDay>> ELSE FocusDay(field)
  /\ UNCHANGED <<field, textOnFocus, entered>>

\* Tab to the grid's one tab stop.
TabToDay ==
  /\ Does /\ Visible /\ focusIn \notin {"input", "day"} /\ field.focused >= min
  /\ focusIn' = "day" /\ domDay' = field.focused /\ jumped' = FALSE
  /\ UNCHANGED <<field, open, textOnFocus, entered>>

showMonth(delta) ==
  /\ Does /\ Visible /\ focusIn # "input" /\ field.month + delta \in Months
  /\ field' = Shown(field.month + delta) /\ focusIn' = "head" /\ jumped' = FALSE
  /\ UNCHANGED <<open, textOnFocus, domDay, entered>>

moveFocus(d) ==
  /\ Does /\ Visible /\ d \in Days /\ field' = Focused(d) /\ FocusDay(field') /\ jumped' = FALSE
  /\ UNCHANGED <<open, textOnFocus, entered>>

\* onKeyDown(): from the day that has the focus, as Date takes its parts, so
\* a day that the next month doesn't have is one of the month after it.
KeyTargets ==
  LET k == monthOf(domDay)
      turned == {k + delta : delta \in {-1, 1}} \cap Months
  IN {domDay + step : step \in {-1, 1, -7, 7}} \cup {DaysBefore(next) + domDay - DaysBefore(k) : next \in turned}
       \cup {domDay - Weekday(domDay), domDay + 6 - Weekday(domDay)}

DayKey == focusIn = "day" /\ \E d \in KeyTargets : moveFocus(d)
Today == focusIn # "input" /\ moveFocus(today)

\* A press of a day, or Enter on the one that has the focus.
pickDay(d) ==
  /\ Does /\ Visible /\ focusIn # "input" /\ d \in Grid(field.month) \cap Days /\ d >= min
  /\ field' = Picked(d) /\ entered' = FALSE /\ jumped' = FALSE /\ open' = FALSE
  /\ IF inline THEN FocusDay(field') ELSE focusIn' = "button" /\ UNCHANGED domDay
  /\ UNCHANGED textOnFocus

PickDay == \E d \in Picks \cup (IF focusIn = "day" THEN {domDay} ELSE {}) : pickDay(d)

DateNext ==
  \/ FocusInput \/ TypesDate \/ Enter \/ openCalendarByKey \/ LeaveField \/ closeCalendar \/ Toggle
  \/ TabToDay \/ (\E delta \in {-1, 1} : showMonth(delta)) \/ DayKey \/ Today \/ PickDay

DateSpec == DateInit /\ [][DateNext]_dateVars
-----------------------------------------------------------------------------
(* Properties.                                                             *)

\* The day that takes the focus is always one of those on screen.
FocusedDayIsShown ==
  /\ field.month \in Months /\ field.focused \in Grid(field.month) \cap Days
  /\ field.selected \in Days \cup {NoDate} /\ domDay \in Days
  /\ focusIn \in {"page", "input", "button", "head", "day"}

\* What is picked, however it was, is a day the config allows, and the parent
\* was told of it.
PickedIsAllowed == field.selected # NoDate => field.selected >= min /\ field.reported = field.selected

\* Once the field has lost the focus without an error, it says the picked day,
\* or nothing when none is.  Not so once Enter has checked another text and the
\* user typed back the one they found: nothing checks that one, then or when
\* the field takes and loses the focus again.
FieldSaysThePicked ==
  ~inline /\ focusIn # "input" /\ ~field.error /\ ~entered => field.text = TextOf(field.selected)

\* The keys move from the day with the tab stop, unless that one can't be
\* picked or the popup took focus from a text that wasn't checked yet.
KeysMoveFromTheFocused == focusIn = "day" => domDay = field.focused \/ field.focused < min \/ jumped

\* A day that was typed is read as that day of that month or not at all.
ReadsTheTyped ==
  [][focusIn = "input" /\ field'.selected \notin {field.selected, NoDate} =>
       LET read == Long(field'.selected) IN read.day = field.text.day /\ read.month = field.text.month]_dateVars

\* Field, calendar and keys agree on the day that is picked.
DatesSafe ==
  /\ [](FocusedDayIsShown /\ PickedIsAllowed /\ FieldSaysThePicked
        /\ KeysMoveFromTheFocused)
  /\ ReadsTheTyped
=============================================================================
