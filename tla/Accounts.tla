------------------------------ MODULE Accounts ------------------------------
(***************************************************************************)
(* What sign-in promises of accounts: each outcome of resolve_login() in   *)
(* services/sign_in.py, and a guest's start in services/sessions.py, as    *)
(* one step. No transaction, lock, session or cookie. SignIn implements it.*)
(***************************************************************************)
CONSTANTS Account, Email, None

ASSUME AccountsAssumption == None \notin Email

VARIABLES
  kind,  \* absent, guest, verified, or adopted (adopted_into is set)
  email

accountVars == <<kind, email>>

AccountsTypeOK ==
  /\ kind \in [Account -> {"absent", "guest", "verified", "adopted"}]
  /\ email \in [Account -> Email \cup {None}]

AccountsInit ==
  /\ AccountsTypeOK
  /\ \A a \in Account : kind[a] = "verified" <=> email[a] # None
  /\ \A a, b \in Account : email[a] = email[b] /\ email[a] # None => a = b

Owned(e) == \E a \in Account : email[a] = e

\* A guest account starts.
StartGuest(a) ==
  /\ kind[a] = "absent"
  /\ kind' = [kind EXCEPT ![a] = "guest"]
  /\ UNCHANGED email

\* CreateAccount, or VerifyInPlace for a guest: the email has no account yet.
GetEmail(a, e) ==
  /\ kind[a] \in {"absent", "guest"} /\ ~Owned(e)
  /\ kind' = [kind EXCEPT ![a] = "verified"]
  /\ email' = [email EXCEPT ![a] = e]

\* AdoptGuest.
Adopt(a) ==
  /\ kind[a] = "guest" /\ \E e \in Email : Owned(e)
  /\ kind' = [kind EXCEPT ![a] = "adopted"]
  /\ UNCHANGED email

AccountsNext ==
  \E a \in Account : StartGuest(a) \/ Adopt(a) \/ \E e \in Email : GetEmail(a, e)

AccountsSpec == AccountsInit /\ [][AccountsNext]_accountVars
-----------------------------------------------------------------------------
\* One account for each email: "two sign-ins with one new email take turns,
\* and they make one account" (docs/accounts.md).
OneAccountPerEmail ==
  /\ \A a \in Account : kind[a] = "verified" <=> email[a] # None
  /\ \A a, b \in Account : email[a] = email[b] /\ email[a] # None => a = b
=============================================================================
