----------------------------- MODULE DeviceKeys -----------------------------
(***************************************************************************)
(* The signing key that a browser keeps in IndexedDB, and the keys that    *)
(* the API holds for accounts.  Each session answer in a tab starts a      *)
(* registration (registerDeviceKey()), which may make or replace the       *)
(* key.  A sign-out takes the key away while its request runs (takeKey()). *)
(* The tabs share the IndexedDB record and the session cookie.  An update  *)
(* of the record is one transaction.  A request is a read of the session,  *)
(* and later a commit, and its answer may be lost.                         *)
(***************************************************************************)
EXTENDS Naturals, SequencesExt

CONSTANTS
  Kid,           \* the keys that this browser may make
  OtherKid,      \* the keys of other devices
  Token,         \* sessions, and the guest accounts that they start with
  Member,        \* verified accounts
  Registration, SignOut,
  NoKey, NoOwner,
  LIVE_KEY_LIMIT,
  MaxSignOuts,   \* bounds the sign-outs of a run
  KeyScenes      \* what else happens in a run of the model, a set of choices

Owner == Token \cup Member
AnyKid == Kid \cup OtherKid

ASSUME DeviceKeysAssumption ==
  /\ Token \subseteq Nat \ {0} /\ \A t \in Token : t = 1 \/ t - 1 \in Token
  /\ Token \cap Member = {}
  /\ LIVE_KEY_LIMIT \in Nat \ {0} /\ MaxSignOuts \in Nat
  /\ Kid \cap OtherKid = {} /\ NoKey \notin AnyKid /\ NoOwner \notin Owner
  /\ KeyScenes \subseteq SUBSET {"expiry", "revocation", "otherDevice", "slowSignOut", "closedTab",
                                 "twoRegistrations", "twoSignOuts"}

VARIABLES
  keyScene, \* the choice of KeyScenes that a behaviour keeps
  stored,   \* the browser's `device` record, a key or NoKey
  mark,     \* its `sign-out` record. `since` is "old" after SIGN_OUT_MS
  cookie,   \* the session the browser's cookie names, or 0
  issued,   \* how many sessions have started
  holder,   \* each session's account, NoOwner before it starts and after it ends
  adopted,  \* the guest accounts that another account adopted
  keyOf,    \* the API's keys: each one's account, or NoOwner
  out,      \* the keys with a signed_out_at
  revoked,  \* the keys with a revoked_at
  byAge,    \* the registered keys in created_at order, the oldest first
  reg,      \* the registrations: step, account, key, sign-out count and start
  signing,  \* the sign-outs: step, key taken, count, session and its account
  calm,     \* history: the registrations that nothing has disturbed
  alone     \* history: the sign-outs that nothing has overlapped

keyVars == <<keyScene, stored, mark, cookie, issued, holder, adopted, keyOf, out, revoked, byAge,
          reg, signing, calm, alone>>
browser == <<keyScene, stored, mark>>
sessions == <<cookie, issued, holder, adopted>>
keys == <<keyOf, out, revoked, byAge>>

Live(a) == {k \in AnyKid : keyOf[k] = a /\ k \notin out \cup revoked}
Account(t) == IF t = 0 THEN NoOwner ELSE holder[t]
Unmade == {k \in Kid : /\ keyOf[k] = NoOwner /\ stored # k
                       /\ \A r \in Registration : reg[r].key # k
                       /\ \A s \in SignOut : signing[s].key # k}
IdleRegistration == [step |-> "idle", account |-> NoOwner, key |-> NoKey, count |-> 0, start |-> 0]
IdleSignOut == [step |-> "idle", key |-> NoKey, count |-> 0, session |-> 0, account |-> NoOwner]

(* What may disturb a registration or a sign-out that is on its way. *)
Disturb == calm' = {} /\ UNCHANGED alone
DisturbAll == calm' = {} /\ alone' = {}
Undisturbed == UNCHANGED <<calm, alone>>

KeysInit ==
  /\ keyScene \in KeyScenes
  /\ stored = NoKey /\ mark = [count |-> 0, since |-> "none"]
  /\ cookie = 0 /\ issued = 0 /\ holder = [t \in Token |-> NoOwner] /\ adopted = {}
  /\ keyOf = [k \in AnyKid |-> NoOwner] /\ out = {} /\ revoked = {} /\ byAge = <<>>
  /\ reg = [r \in Registration |-> IdleRegistration]
  /\ signing = [s \in SignOut |-> IdleSignOut]
  /\ calm = {} /\ alone = {}
-----------------------------------------------------------------------------
(* One transaction of the browser's record. *)

\* Mutant of mayStore: checks only that no sign-out began meanwhile.
mayStoreIfCounted(started) == mark.count = started

mayStore(started) == mark.since # "running" /\ mark.count = started

\* The session's answer has reached a tab, which reads the record.
registerDeviceKey(r) ==
  /\ reg[r].step = "answered"
  /\ reg' = [reg EXCEPT ![r].step = IF stored = NoKey THEN "making" ELSE "sending",
                        ![r].key = stored, ![r].count = mark.count]
  /\ calm' = IF mark.since = "none" /\ Account(cookie) = reg[r].account THEN calm \cup {r} ELSE calm
  /\ UNCHANGED <<browser, sessions, keys, signing, alone>>

\* A registration goes on with the key now stored: the fresh one, if it may
\* store that, or what it found, if anything.
GoesOn(r, may, step) ==
  /\ \/ may /\ stored' \in Unmade
     \/ ~may /\ UNCHANGED stored
  /\ reg' = [reg EXCEPT ![r] = IF stored' = NoKey THEN IdleRegistration
                               ELSE [@ EXCEPT !.key = stored', !.step = step]]
  /\ calm' = IF stored' = NoKey THEN calm \ {r}
             ELSE IF stored' # stored /\ r \notin calm THEN {} ELSE calm
  /\ UNCHANGED <<keyScene, mark, sessions, keys, signing, alone>>

createKey(r) ==
  /\ reg[r].step = "making"
  /\ GoesOn(r, stored = NoKey /\ mayStore(reg[r].count), "sending")

\* Mutant of replaceKey: replaces whatever key is stored.
replaceKeyAnyway(r) ==
  /\ reg[r].step = "replacing"
  /\ GoesOn(r, stored # NoKey /\ mayStore(reg[r].count), "sendingAgain")

replaceKey(r) ==
  /\ reg[r].step = "replacing"
  /\ GoesOn(r, stored = reg[r].key /\ mayStore(reg[r].count), "sendingAgain")

takeKey(s) ==
  /\ signing[s].step = "idle" /\ cookie # 0
  /\ mark.count < IF "twoSignOuts" \in keyScene THEN MaxSignOuts ELSE 1
  /\ signing' = [signing EXCEPT ![s] = [step |-> "taken", key |-> stored, count |-> mark.count + 1,
                                        session |-> 0, account |-> NoOwner]]
  /\ stored' = NoKey
  /\ mark' = [count |-> mark.count + 1, since |-> "running"]
  /\ calm' = {}
  /\ alone' = IF /\ \A other \in SignOut : signing[other].step = "idle"
                 /\ mark.since = "none"
                 /\ \A k \in Kid \ {stored} :
                      k \notin Live(Account(cookie)) /\ \A r \in Registration : reg[r].key # k
              THEN {s} ELSE {}
  /\ UNCHANGED <<keyScene, sessions, keys, reg>>

\* release(), and restore() with `putBack`.
end(s, putBack) ==
  /\ mark' = IF mark.count = signing[s].count THEN [mark EXCEPT !.since = "none"] ELSE mark
  /\ stored' = IF putBack /\ signing[s].key # NoKey /\ stored = NoKey THEN signing[s].key ELSE stored
  /\ signing' = [signing EXCEPT ![s] = IdleSignOut]
  /\ alone' = alone \ {s} /\ calm' = {}
  /\ UNCHANGED <<keyScene, sessions, keys, reg>>

release(s) == signing[s].step = "ended" /\ end(s, FALSE)
restore(s) == signing[s].step = "failed" /\ end(s, TRUE)

\* A tab closed mid-logout. The request it sent may have been served.
CloseTab(s) ==
  /\ "closedTab" \in keyScene /\ signing[s].step \in {"taken", "failed", "ended"}
  /\ signing' = [signing EXCEPT ![s] = IdleSignOut]
  /\ DisturbAll /\ UNCHANGED <<browser, sessions, keys, reg>>

\* SIGN_OUT_MS after the sign-out record was set.
SignOutGetsOld ==
  /\ "slowSignOut" \in keyScene /\ mark.since = "running"
  /\ mark' = [mark EXCEPT !.since = "old"]
  /\ DisturbAll /\ UNCHANGED <<keyScene, stored, sessions, keys, reg, signing>>
-----------------------------------------------------------------------------
(* Sessions: POST /v1/session, and a sign-in's callback. *)

\* start_session(): the cookie's account, or else a new guest account.
StartSession(r) ==
  /\ reg[r].step = "idle"
  /\ "twoRegistrations" \in keyScene \/ \A other \in Registration : reg[other].step = "idle"
  /\ \/ /\ Account(cookie) # NoOwner
        /\ UNCHANGED sessions
     \/ /\ Account(cookie) = NoOwner /\ issued + 1 \in Token
        /\ issued' = issued + 1 /\ cookie' = issued'
        /\ holder' = [holder EXCEPT ![issued'] = issued']
        /\ UNCHANGED adopted
  /\ reg' = [reg EXCEPT ![r].step = "answered", ![r].account = holder'[cookie']]
  /\ UNCHANGED <<browser, keys, signing>> /\ Undisturbed

\* A guest's session adopts the guest: the keys move to the member.
SignInAs(m) ==
  LET guest == Account(cookie) IN
  /\ guest \notin Member /\ issued + 1 \in Token
  /\ issued' = issued + 1 /\ cookie' = issued'
  /\ holder' = [t \in Token |-> IF t = issued' THEN m
                               ELSE IF holder[t] = guest THEN NoOwner ELSE holder[t]]
  /\ adopted' = adopted \cup ({guest} \ {NoOwner})
  /\ keyOf' = [k \in AnyKid |-> IF guest # NoOwner /\ keyOf[k] = guest THEN m ELSE keyOf[k]]
  /\ DisturbAll /\ UNCHANGED <<browser, out, revoked, byAge, reg, signing>>

Expire ==
  /\ "expiry" \in keyScene /\ Account(cookie) # NoOwner
  /\ holder' = [holder EXCEPT ![cookie] = NoOwner]
  /\ DisturbAll /\ UNCHANGED <<browser, cookie, issued, adopted, keys, reg, signing>>
-----------------------------------------------------------------------------
(* POST /v1/account/signing-keys. *)

\* The request finds its session, or answers 401. A proof for another account
\* answers 422. Either ends the registration as kept.
require_account(r) ==
  /\ reg[r].step \in {"sending", "sendingAgain"}
  /\ reg' = [reg EXCEPT ![r] =
       IF Account(cookie) # reg[r].account THEN IdleRegistration
       ELSE [reg[r] EXCEPT !.step = IF @ = "sending" THEN "served" ELSE "servedAgain",
                           !.start = Len(byAge)]]
  /\ calm' = IF Account(cookie) # reg[r].account THEN calm \ {r} ELSE calm
  /\ UNCHANGED <<browser, sessions, keys, signing, alone>>

\* The account's live keys past the cap, all but `keeping` and the newest others.
\* `live`, `age`: the rows as the registration left them.
past_the_cap(keeping, live, age) ==
  LET Newer(k) == {j \in live \ {keeping} : \E x, y \in DOMAIN age : x > y /\ age[x] = j /\ age[y] = k}
  IN {k \in live \ {keeping} : Cardinality(Newer(k)) >= LIVE_KEY_LIMIT - 1}

\* register_key() for a key and a live account. `start` is how many keys had a
\* row when the transaction started, which is the created_at of a new row.
register_key(k, a, start) ==
  IF keyOf[k] \notin {NoOwner, a} THEN UNCHANGED keys
  ELSE /\ keyOf' = [keyOf EXCEPT ![k] = a]
       /\ IF keyOf[k] = a THEN UNCHANGED byAge
          ELSE \E at \in start .. Len(byAge) : byAge' = InsertAt(byAge, at + 1, k)
       /\ out' = IF k \in revoked THEN out
                 ELSE LET back == out \ {k}
                          live == {j \in AnyKid : keyOf'[j] = a} \ (back \cup revoked)
                      IN back \cup past_the_cap(k, live, byAge')
       /\ UNCHANGED revoked

\* The answer is a 409 or names a revoked key ("replace"), or not ("kept").
register(r) ==
  LET mine == reg[r].key
      lost == reg[r].account \in adopted
      replace == keyOf[mine] \notin {NoOwner, reg[r].account} \/ mine \in revoked
      done == [reg EXCEPT ![r] = IdleRegistration]
  IN /\ reg[r].step \in {"served", "servedAgain"}
     /\ IF lost THEN UNCHANGED keys ELSE register_key(mine, reg[r].account, reg[r].start)
     /\ \/ /\ reg[r].step = "served" /\ replace /\ ~lost
           /\ reg' = [reg EXCEPT ![r].step = "replacing"]
           /\ UNCHANGED calm
        \/ /\ reg[r].step = "served" => ~replace \/ lost
           /\ reg' = done
           /\ calm' = calm \ {r}
     /\ UNCHANGED <<browser, sessions, signing, alone>>

\* The answer is lost, and so is what it would have changed here.
RegisterUnanswered(r) ==
  /\ reg[r].step \in {"served", "servedAgain"}
  /\ \/ UNCHANGED keys
     \/ reg[r].account \notin adopted /\ register_key(reg[r].key, reg[r].account, reg[r].start)
  /\ reg' = [reg EXCEPT ![r] = IdleRegistration]
  /\ calm' = calm \ {r}
  /\ UNCHANGED <<browser, sessions, signing, alone>>

\* Another of the account's devices registers its key.
OtherRegisters(k, a) ==
  /\ "otherDevice" \in keyScene /\ a \notin adopted /\ k \in OtherKid
  /\ keyOf[k] \in {NoOwner, a} /\ k \notin Live(a)
  /\ register_key(k, a, Len(byAge))
  /\ Disturb /\ UNCHANGED <<browser, sessions, reg, signing>>

\* revoke_key() by its account or revoke_any_key() by an administrator.
revoke(k) ==
  /\ "revocation" \in keyScene /\ keyOf[k] # NoOwner /\ k \notin revoked
  /\ revoked' = revoked \cup {k}
  /\ Disturb /\ UNCHANGED <<browser, sessions, keyOf, out, byAge, reg, signing>>
-----------------------------------------------------------------------------
(* POST /v1/auth/logout with the key that was taken. *)

\* session_account() of sign_out_device().
LogoutReads(s) ==
  /\ signing[s].step = "taken"
  /\ signing' = [signing EXCEPT ![s].step = "reading", ![s].session = cookie,
                                ![s].account = Account(cookie)]
  /\ UNCHANGED <<browser, sessions, keys, reg>> /\ Undisturbed

\* The rest of it. A registration that has read the session goes on.
sign_out_device(s) ==
  LET owner == signing[s].account
      gone == signing[s].session
  IN /\ signing[s].step = "reading"
     /\ out' = IF owner # NoOwner /\ signing[s].key \in AnyKid /\ keyOf[signing[s].key] = owner
               THEN out \cup {signing[s].key} ELSE out
     /\ holder' = IF gone = 0 THEN holder ELSE [holder EXCEPT ![gone] = NoOwner]
     /\ \/ signing' = [signing EXCEPT ![s].step = "ended"] /\ cookie' = 0
        \/ signing' = [signing EXCEPT ![s].step = "failed"] /\ UNCHANGED cookie
     /\ calm' = {}
     /\ alone' = IF \E r \in Registration : reg[r].step \in {"served", "servedAgain"}
                 THEN {} ELSE alone
     /\ UNCHANGED <<browser, issued, adopted, keyOf, revoked, byAge, reg>>

\* The request fails, before it reaches the API.
LogoutLost(s) ==
  /\ signing[s].step = "taken"
  /\ signing' = [signing EXCEPT ![s].step = "failed"]
  /\ UNCHANGED <<browser, sessions, keys, reg>> /\ Undisturbed
-----------------------------------------------------------------------------
KeysNext ==
  \/ \E r \in Registration :
       \/ StartSession(r) \/ registerDeviceKey(r) \/ createKey(r) \/ replaceKey(r)
       \/ require_account(r) \/ register(r) \/ RegisterUnanswered(r)
  \/ \E s \in SignOut :
       \/ takeKey(s) \/ release(s) \/ restore(s) \/ CloseTab(s)
       \/ LogoutReads(s) \/ sign_out_device(s) \/ LogoutLost(s)
  \/ SignOutGetsOld \/ Expire
  \/ \E m \in Member : SignInAs(m)
  \/ \E k \in AnyKid : revoke(k) \/ \E m \in Member : OtherRegisters(k, m)

KeysTypeOK ==
  /\ keyScene \in KeyScenes
  /\ stored \in Kid \cup {NoKey}
  /\ mark \in [count : Nat, since : {"none", "running", "old"}]
  /\ cookie \in Token \cup {0} /\ issued \in Token \cup {0}
  /\ holder \in [Token -> Owner \cup {NoOwner}] /\ adopted \subseteq Token
  /\ keyOf \in [AnyKid -> Owner \cup {NoOwner}]
  /\ out \subseteq AnyKid /\ revoked \subseteq AnyKid /\ byAge \in Seq(AnyKid)
  /\ reg \in [Registration -> [step : {"idle", "answered", "making", "sending", "served",
                                       "replacing", "sendingAgain", "servedAgain"},
                               account : Owner \cup {NoOwner}, key : Kid \cup {NoKey},
                               count : Nat, start : Nat]]
  /\ signing \in [SignOut -> [step : {"idle", "taken", "reading", "ended", "failed"},
                              key : Kid \cup {NoKey}, count : Nat,
                              session : Token \cup {0}, account : Owner \cup {NoOwner}]]
  /\ calm \subseteq Registration /\ alone \subseteq SignOut

KeysSpec == KeysInit /\ [][KeysNext]_keyVars
-----------------------------------------------------------------------------
(* A sign-out that nothing overlapped leaves none of this browser's keys    *)
(* live on the account that it signed out, whatever the other tabs'        *)
(* registrations did meanwhile.  Overlaps are a second sign-out, a tab     *)
(* closed mid-logout, SIGN_OUT_MS, a sign-in, or a registration that had   *)
(* read the session when the logout ended it.                              *)
SignOutLeavesNoKey ==
  \A s \in alone :
    signing[s].step = "ended" /\ signing[s].account # NoOwner => Live(signing[s].account) \cap Kid = {}

(* docs/web-client-data.md: "So no key stays live on the account that       *)
(* signed out", once the sign-out is over.                                  *)
NoKeyStaysLive ==
  \A s \in SignOut :
    signing[s].step = "ended" /\ signing[s].account # NoOwner /\ mark.since # "old"
    => Live(signing[s].account) \cap Kid = {}

(* A registration that is answered, and that nothing but other             *)
(* registrations disturbed, leaves this browser with a key that is live on *)
(* the session's account, whoever owned the stored key before, revoked or  *)
(* signed out.                                                             *)
RegistrationHeals ==
  [][\A r \in calm, a \in Owner :
       register(r) /\ reg[r].account = a /\ reg'[r].step = "idle" => stored \in Live(a)']_keyVars

(* A registration of a key that isn't revoked never leaves its account     *)
(* past the cap, whatever an adoption moved in, and never signs its own    *)
(* key out, however old its transaction is.                                *)
CapKept ==
  [][\A r \in Registration, a \in Owner \ adopted, k \in Kid \ revoked :
       /\ register(r) /\ reg[r].account = a /\ reg[r].key = k /\ keyOf[k] \in {NoOwner, a}
       => k \in Live(a)' /\ Cardinality(Live(a)') <= LIVE_KEY_LIMIT]_keyVars

\* A sign-out that nothing disturbs leaves no key of its browser live.
KeysInv == KeysTypeOK /\ SignOutLeavesNoKey

\* A registration leaves a key that works, and the cap.
KeysKept == RegistrationHeals /\ CapKept
=============================================================================
