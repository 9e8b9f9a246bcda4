------------------------------- MODULE Toasts -------------------------------
(***************************************************************************)
(* The app's toasts and its polite live region (ToastProvider.tsx): a      *)
(* toast leaves by its time, which starts again when the pointer and the   *)
(* focus have left it, by a button of its own, or for newer ones.          *)
(***************************************************************************)
EXTENDS Naturals, SequencesExt

CONSTANTS
  TOAST_MS,   \* how many units of time a toast stays
  Message,    \* what other parts of the app announce
  MaxRaised   \* bound: toasts raised

ASSUME ToastsAssumption == TOAST_MS \in Nat \ {0} /\ MaxRaised \in Nat /\ "" \notin Message

VARIABLES
  toasts,        \* oldest first
  raised,        \* lastId
  undone,        \* how often each toast's undo ran
  pressed,       \* history: the toasts whose buttons were pressed
  announcement,  \* what the live region says
  announcing     \* what its timer holds

toastVars == <<toasts, raised, undone, pressed, announcement, announcing>>

MAX_TOASTS == 3

\* The timer's effect: no timer while the toast is hovered or focused.
Held(toast) == toast.hovered \/ toast.focused

\* A toast whose `part` may have changed: the effect runs again if it did.
Changed(toast, part, now) ==
  IF toast[part] = now THEN toast ELSE [toast EXCEPT ![part] = now, !.left = TOAST_MS]

\* The others, as an id is of one toast.
Without(i) == RemoveAt(toasts, i)
IdOf(i) == toasts[i].id

ToastsInit ==
  /\ toasts = <<>> /\ raised = 0 /\ undone = [id \in 1..MaxRaised |-> 0] /\ pressed = {}
  /\ announcement = "" /\ announcing = ""

\* announce(): empties the region, and fills it once its timer fires.
announce(message) == announcement' = "" /\ announcing' = message

\* The toasts that stay when a new one comes.
Room == SubSeq(toasts, 1 + (IF Len(toasts) < MAX_TOASTS THEN 0 ELSE Len(toasts) - (MAX_TOASTS - 1)), Len(toasts))

showToast ==
  /\ raised < MaxRaised /\ raised' = raised + 1
  /\ \E undo \in BOOLEAN :
       toasts' = Append(Room, [id |-> raised', undo |-> undo, hovered |-> FALSE, focused |-> FALSE, left |-> TOAST_MS])
  /\ UNCHANGED <<undone, pressed, announcement, announcing>>

\* The pointer, or the focus, goes to toast `i`, or to none of them.
Points(part) ==
  /\ \E i \in 0..Len(toasts) : toasts' = [j \in DOMAIN toasts |-> Changed(toasts[j], part, j = i)]
  /\ UNCHANGED <<raised, undone, pressed, announcement, announcing>>

\* A unit of time goes by, and every timer that is due fires first.
Pass ==
  /\ announcing = "" /\ \A i \in DOMAIN toasts : ~Held(toasts[i]) => toasts[i].left > 0
  /\ toasts' = [i \in DOMAIN toasts |-> IF Held(toasts[i]) THEN toasts[i] ELSE [toasts[i] EXCEPT !.left = @ - 1]]
  /\ UNCHANGED <<raised, undone, pressed, announcement, announcing>>

Times(i) == ~Held(toasts[i]) /\ toasts[i].left = 0 /\ toasts' = Without(i) /\ UNCHANGED <<raised, undone, pressed, announcement, announcing>>

dismissToast(i) ==
  /\ toasts' = Without(i) /\ pressed' = pressed \cup {IdOf(i)}
  /\ UNCHANGED <<raised, undone, announcement, announcing>>

AfterUndo(i) == Without(i)

Undo(i) ==
  /\ toasts[i].undo /\ undone' = [undone EXCEPT ![IdOf(i)] = @ + 1]
  /\ pressed' = pressed \cup {IdOf(i)} /\ toasts' = AfterUndo(i) /\ announce("Undone")
  /\ UNCHANGED raised

\* Another part of the app announces something.
Announce == \E message \in Message : announce(message) /\ UNCHANGED <<toasts, raised, undone, pressed>>

AnnounceTimer ==
  /\ announcing # "" /\ announcement' = announcing /\ announcing' = ""
  /\ UNCHANGED <<toasts, raised, undone, pressed>>

ToastsNext ==
  \/ showToast \/ Points("hovered") \/ Points("focused") \/ Pass \/ Announce \/ AnnounceTimer
  \/ \E i \in DOMAIN toasts : Times(i) \/ dismissToast(i) \/ Undo(i)

ToastsSpec == ToastsInit /\ [][ToastsNext]_toastVars
-----------------------------------------------------------------------------
(* Properties.                                                             *)

\* At most three toasts show, each once and in the order they were raised.
ToastsTypeOK ==
  /\ Len(toasts) <= MAX_TOASTS /\ raised \in 0..MaxRaised
  /\ \A i, j \in DOMAIN toasts : i < j => IdOf(i) < IdOf(j)
  /\ \A i \in DOMAIN toasts : toasts[i].left \in 0..TOAST_MS /\ IdOf(i) \in 1..raised
  /\ announcement \in Message \cup {"", "Undone"} /\ announcing \in Message \cup {"", "Undone"}

\* A toast under the pointer or with the focus leaves only by its own buttons,
\* or when two newer ones are there and a third comes: never by its time.
HeldToastStays ==
  [][\A i \in DOMAIN toasts :
       (toasts[i].hovered \/ toasts[i].focused) /\ (\A j \in DOMAIN toasts' : toasts'[j].id # IdOf(i)) =>
         IdOf(i) \in pressed' \/ (raised' # raised /\ i = 1 /\ Len(toasts) = MAX_TOASTS)]_toastVars

\* What a toast undoes is undone once, however its buttons are pressed.
UndoOnce == \A id \in 1..MaxRaised : undone[id] <= 1

\* The live region is empty before it says anything, so a reader reads the
\* same words again.
AnnouncedAsNew == [][announcement' # "" /\ announcement' # announcement => announcement = ""]_toastVars

\* A toast in use stays, undo runs once, and what is said is said anew.
ToastsSafe == [](ToastsTypeOK /\ UndoOnce) /\ HeldToastStays /\ AnnouncedAsNew
=============================================================================
