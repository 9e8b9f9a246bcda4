------------------------------ MODULE UserMenu ------------------------------
(***************************************************************************)
(* The account's menu at the topbar's end (UserMenu.tsx): a chip that      *)
(* opens it, the dialog that asks a guest before it signs out, and the     *)
(* requests that sign out (useSignOut.ts).                                 *)
(***************************************************************************)
EXTENDS Naturals, SequencesExt

CONSTANTS
  SignedIn,  \* the accounts that the session may be of: [guest, admin]
  MaxOuts    \* bound: requests to sign out

ASSUME UserMenuAssumption ==
  SignedIn \subseteq [guest : BOOLEAN, admin : BOOLEAN] /\ SignedIn # {} /\ MaxOuts \in Nat \ {0}

VARIABLES
  account,  \* the session's, as the query has it
  narrow,   \* the layout is the narrow one
  menu,     \* open, the menu, and asking, the dialog
  on,       \* what has the focus
  outs,     \* the requests to sign out: pending, done or failed
  gone      \* the browser left for the identity provider

userMenuVars == <<account, narrow, menu, on, outs, gone>>

\* The items in order.
Items(a, n) ==
  (IF a.admin THEN <<"admin">> ELSE <<>>) \o (IF n THEN <<"app">> ELSE <<>>)
  \o (IF a.guest THEN <<"signIn">> ELSE <<>>) \o <<"signOut">>
items == Items(account, narrow)

latest == IF outs = <<>> THEN "none" ELSE Last(outs)

leaving == latest \in {"pending", "done"}

\* The browser takes the focus from what doesn't show any more.
Fixed(where, m, a, n) ==
  IF \/ where \in Range(Items(a, n)) /\ m.open
     \/ where = "dialog" /\ m.asking
     \/ where \in {"chip", "elsewhere"}
  THEN where ELSE "elsewhere"
Becomes(m, where) == menu' = m /\ on' = Fixed(where, m, account, narrow)

UserMenuInit ==
  /\ account \in SignedIn /\ narrow \in BOOLEAN
  /\ menu = [open |-> FALSE, asking |-> FALSE] /\ on = "elsewhere" /\ outs = <<>> /\ gone = FALSE

Here == ~gone /\ UNCHANGED <<account, narrow, gone>>

\* The chip, which a modal dialog covers, and the effect that gives the first
\* item the focus.
PressChip ==
  /\ Here /\ ~menu.asking /\ UNCHANGED outs
  /\ Becomes([menu EXCEPT !.open = ~@], IF menu.open THEN "chip" ELSE Head(items))

\* Esc reaches the menu from the chip or an item.
EscapeMenu ==
  /\ Here /\ menu.open /\ on # "elsewhere" /\ UNCHANGED outs
  /\ Becomes([menu EXCEPT !.open = FALSE], "chip")

\* The arrows, Home and End, on an item.
MenuKey ==
  /\ Here /\ menu.open /\ on \in Range(items) /\ UNCHANGED <<menu, outs>>
  /\ LET index == CHOOSE i \in DOMAIN items : items[i] = on IN
       on' \in {items[(index % Len(items)) + 1], items[((index + Len(items) - 2) % Len(items)) + 1],
                Head(items), Last(items)}

\* Tab, or a press, takes the focus somewhere else: a press out of the menu
\* closes it.
FocusElsewhere(press) ==
  /\ Here /\ ~menu.asking /\ (on # "elsewhere" \/ (press /\ menu.open)) /\ UNCHANGED outs
  /\ Becomes(IF press THEN [menu EXCEPT !.open = FALSE] ELSE menu, "elsewhere")
FocusChip == Here /\ ~menu.asking /\ on # "chip" /\ Becomes(menu, "chip") /\ UNCHANGED outs

\* Administration, or an app's page in a new tab.
FollowLink ==
  /\ Here /\ menu.open /\ {"admin", "app"} \cap Range(items) # {} /\ UNCHANGED outs
  /\ Becomes([menu EXCEPT !.open = FALSE], "elsewhere")

\* Sign in is another page.
FollowSignIn ==
  /\ ~gone /\ account.guest /\ (menu.open \/ menu.asking)
  /\ gone' = TRUE /\ UNCHANGED <<account, narrow, menu, on, outs>>

signOut == Len(outs) < MaxOuts /\ outs' = Append(outs, "pending")

AsksFirst == account.guest

\* The menu's Sign out.
PressSignOut ==
  /\ Here /\ menu.open /\ ~leaving
  /\ \/ ~AsksFirst /\ signOut /\ Becomes(menu, "signOut")
     \/ AsksFirst /\ UNCHANGED outs /\ Becomes([open |-> FALSE, asking |-> TRUE], "dialog")

\* The dialog's Sign out, which is busy while it's leaving, but not off.
ConfirmSignOut == Here /\ menu.asking /\ signOut /\ UNCHANGED <<menu, on>>

\* onClose(): by Keep playing, Esc or the backdrop.
Closing == "chip"
KeepPlaying == Here /\ menu.asking /\ UNCHANGED outs /\ Becomes([menu EXCEPT !.asking = FALSE], Closing)

\* A request's answer: the browser is about to leave, or the menu says that it
\* failed.  leaving and failed are about the latest request only.
SignOutAnswers(i, how) ==
  Here /\ outs[i] = "pending" /\ outs' = [outs EXCEPT ![i] = how] /\ UNCHANGED <<menu, on>>
BrowserLeaves ==
  ~gone /\ "done" \in Range(outs) /\ gone' = TRUE /\ UNCHANGED <<account, narrow, menu, on, outs>>

\* The session is read again: another tab may have signed in or out.  The
\* dialog goes with the guest.
SessionChanges ==
  \E a \in SignedIn \ {account} : LET m == [menu EXCEPT !.asking = @ /\ a.guest] IN
    /\ ~gone /\ account' = a /\ menu' = m /\ on' = Fixed(on, m, a, narrow) /\ UNCHANGED <<narrow, outs, gone>>
LayoutChanges ==
  /\ ~gone /\ narrow' = ~narrow /\ on' = Fixed(on, menu, account, narrow')
  /\ UNCHANGED <<account, menu, outs, gone>>

UserMenuNext ==
  \/ PressChip \/ EscapeMenu \/ MenuKey \/ FocusChip \/ FollowLink \/ FollowSignIn
  \/ \E press \in BOOLEAN : FocusElsewhere(press)
  \/ PressSignOut \/ ConfirmSignOut \/ KeepPlaying \/ SessionChanges \/ LayoutChanges
  \/ BrowserLeaves \/ \E i \in DOMAIN outs : SignOutAnswers(i, "done") \/ SignOutAnswers(i, "failed")

UserMenuSpec == UserMenuInit /\ [][UserMenuNext]_userMenuVars
-----------------------------------------------------------------------------
(* Properties.                                                             *)

\* A guest account that the menu shows is signed out only from the dialog
\* that says what is lost, also when the session changed under the menu.
GuestsAreAsked == [][Len(outs') > Len(outs) /\ account.guest => menu.asking]_userMenuVars

\* The menu signs out once: its item stays off from the press until the
\* browser has left, or the request failed.
MenuSignsOutOnce ==
  [][Len(outs') > Len(outs) /\ ~menu.asking => latest \in {"none", "failed"}]_userMenuVars

\* The dialog and the menu don't show at once, and whoever closes either by
\* the keyboard is back on the chip: the item that opened the dialog is
\* hidden by then.
ClosesToTheChip ==
  [][/\ ~(menu'.open /\ menu'.asking)
     /\ (EscapeMenu \/ KeepPlaying => on' = "chip")]_userMenuVars

\* The dialog's button is off while it's leaving, as the menu's is.  It's
\* only busy: a second press sends a second request.
DialogSignsOutOnce ==
  [][Len(outs') > Len(outs) => latest \in {"none", "failed"}]_userMenuVars

\* A guest is asked, and one press signs out once and closes to the chip.
UserMenuSafe == GuestsAreAsked /\ MenuSignsOutOnce /\ ClosesToTheChip
=============================================================================
