------------------------------- MODULE Widgets ------------------------------
(***************************************************************************)
(* What the pages share: toasts, the tooltip, the date picker, the         *)
(* combobox, the palette, the menubar and the account menu.  None reads or *)
(* writes what another holds, so they run side by side.                    *)
(***************************************************************************)
EXTENDS Toasts, Tooltips, DatePicker, Combobox, CommandPalette, Menubar, UserMenu

WidgetsSpec ==
  ToastsSpec /\ TipsSpec /\ DateSpec /\ ComboSpec /\ PaletteSpec /\ MenubarSpec /\ UserMenuSpec
-----------------------------------------------------------------------------
(* Properties.                                                             *)

\* What the widgets show, hold and do stays true to what was pressed, typed,
\* pointed to and chosen, in any order with their timers (components/).
WidgetsSafe ==
  /\ ToastsSafe /\ DatesSafe /\ MenubarSafe /\ UserMenuSafe
  /\ [](TipsInv /\ ComboInv /\ PaletteInv)
=============================================================================
