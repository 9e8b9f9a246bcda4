------------------------------ MODULE Tooltips ------------------------------
(***************************************************************************)
(* The page's one tooltip (TooltipProvider.tsx, tooltipContext.ts): the    *)
(* pointer rests on a trigger, the focus comes to one by the keyboard, and *)
(* Esc, a scroll, a blur and leaving hide it.                              *)
(***************************************************************************)
CONSTANTS Trigger, Nothing

ASSUME TooltipsAssumption == Nothing \notin Trigger

VARIABLES
  tip,    \* the trigger whose tooltip shows
  waiting,  \* the trigger that the hover timer is for
  pointed,  \* the trigger under the pointer
  focusedOn,  \* document.activeElement, if it's a trigger
  still     \* history: hidden, and since then nothing pointed to or focused

tipVars == <<tip, waiting, pointed, focusedOn, still>>

TipsInit == tip = Nothing /\ waiting = Nothing /\ pointed = Nothing /\ focusedOn = Nothing /\ still = TRUE

hide == tip' = Nothing /\ waiting' = Nothing

\* hover(), as the pointer comes on a trigger.
hover(t) ==
  /\ pointed = Nothing /\ pointed' = t /\ waiting' = t /\ still' = FALSE
  /\ UNCHANGED <<tip, focusedOn>>

\* The pointer has rested there for TOOLTIP_DELAY_MS.
Rested ==
  /\ waiting # Nothing /\ tip' = waiting /\ waiting' = Nothing
  /\ UNCHANGED <<pointed, focusedOn, still>>

\* The timer, once the pointer has left.
Left == Nothing

leave ==
  /\ pointed # Nothing /\ pointed' = Nothing /\ waiting' = Left
  /\ tip' = IF focusedOn # pointed THEN Nothing ELSE tip
  /\ UNCHANGED <<focusedOn, still>>

\* The focus comes to a trigger, from another perhaps, by a key or a click on
\* it: only :focus-visible shows its tooltip.
focus(t) ==
  /\ focusedOn # t /\ focusedOn' = t
  /\ \/ tip' = t /\ waiting' = IF focusedOn = Nothing THEN waiting ELSE Nothing
     \/ pointed = t /\ IF focusedOn = Nothing THEN UNCHANGED <<tip, waiting>> ELSE hide
  /\ still' = FALSE /\ UNCHANGED pointed

\* The trigger's onBlur.
Blur == focusedOn # Nothing /\ focusedOn' = Nothing /\ hide /\ still' = TRUE /\ UNCHANGED pointed

\* Esc or a scroll, which it listens to while a tooltip shows.
Hides == tip # Nothing /\ hide /\ still' = TRUE /\ UNCHANGED <<pointed, focusedOn>>

TipsNext == Rested \/ leave \/ Blur \/ Hides \/ \E t \in Trigger : hover(t) \/ focus(t)

TipsSpec == TipsInit /\ [][TipsNext]_tipVars
-----------------------------------------------------------------------------
(* Properties.                                                             *)

\* The tooltip that shows is of the trigger under the pointer or with the
\* focus, and the one to come is of the trigger under the pointer.
ShownOnItsTrigger ==
  /\ {tip, waiting, pointed, focusedOn} \subseteq Trigger \cup {Nothing}
  /\ tip \in {Nothing, pointed, focusedOn} /\ waiting \in {Nothing, pointed}

\* A tooltip that was hidden stays so until the pointer or the focus comes to
\* a trigger: no timer from before brings one back.
HiddenStaysHidden == still => tip = Nothing /\ waiting = Nothing

\* A trigger that the keyboard focused keeps its tooltip while the pointer
\* passes over another.  It doesn't: leave() hides whatever shows.
FocusedKeepsItsTooltip == [][leave /\ tip = focusedOn => tip' = tip]_tipVars

\* The tooltip follows the pointer and the focus, and no timer revives it.
TipsInv == ShownOnItsTrigger /\ HiddenStaysHidden
=============================================================================
