--------------------------- MODULE BrowserProofs ---------------------------
(***************************************************************************)
(* Proofs about one browser's device key and about the account that its    *)
(* tabs show, for any keys, sessions, members, tabs and scenes.            *)
(***************************************************************************)
EXTENDS DeviceKeys, ClientSession, FiniteSetTheorems, WellFoundedInduction,
        SequenceTheorems, TLAPS

\* A set of numbers has a least one.
LEMMA LeastNat ==
  ASSUME NEW T, T \subseteq Nat, T # {}
  PROVE  \E x \in T : \A y \in T : x <= y
<1> DEFINE R == {ss \in Nat \X Nat : ss[1] < ss[2]}
<1>1. R = OpToRel(<, Nat)
  BY DEF OpToRel
<1>2. IsWellFoundedOn(R, Nat)
  BY <1>1, NatLessThanWellFounded
<1>3. PICK x \in T : \A y \in T : <<y, x>> \notin R
  <2> HIDE DEF R
  <2> QED BY <1>2, WFMin
<1>4. \A y \in T : ~(y < x)
  BY <1>3
<1> QED BY <1>4

\* InsertAt() puts one member in and keeps the others.
LEMMA InsertAtFacts ==
  ASSUME NEW S, NEW q \in Seq(S), NEW e \in S, NEW at \in 0 .. Len(q)
  PROVE  /\ InsertAt(q, at + 1, e) \in Seq(S)
         /\ Len(InsertAt(q, at + 1, e)) = Len(q) + 1
         /\ ToSet(InsertAt(q, at + 1, e)) = ToSet(q) \cup {e}
<1> DEFINE a == SubSeq(q, 1, at)
           o == <<e>>
           b == SubSeq(q, at + 1, Len(q))
           ao == a \o o
           r == ao \o b
<1>0. (at + 1) - 1 = at /\ Len(q) \in Nat /\ at \in Nat
  OBVIOUS
<1>1. InsertAt(q, at + 1, e) = r
  BY <1>0 DEF InsertAt
<1>2. a \in Seq(S) /\ Len(a) = at /\ \A i \in 1 .. at : a[i] = q[i]
  OBVIOUS
<1>3. o \in Seq(S) /\ Len(o) = 1 /\ o[1] = e
  OBVIOUS
<1>4. b \in Seq(S) /\ Len(b) = Len(q) - at /\ \A i \in 1 .. Len(q) - at : b[i] = q[i + at]
  OBVIOUS
<1> HIDE DEF a, o, b
<1>5. ao \in Seq(S) /\ Len(ao) = at + 1
      /\ \A i \in 1 .. at + 1 : ao[i] = IF i <= at THEN q[i] ELSE e
  <2>1. ao \in Seq(S) /\ Len(ao) = Len(a) + Len(o)
        /\ \A i \in 1 .. Len(a) + Len(o) : ao[i] = IF i <= Len(a) THEN a[i] ELSE o[i - Len(a)]
    BY <1>2, <1>3, ConcatProperties, Zenon
  <2>2. ASSUME NEW i \in 1 .. at + 1
        PROVE  ao[i] = IF i <= at THEN q[i] ELSE e
    <3>1. ao[i] = IF i <= at THEN a[i] ELSE o[i - at]
      BY <2>1, <1>2, <1>3
    <3>2. CASE i <= at
      BY <3>1, <3>2, <1>2
    <3>3. CASE ~(i <= at)
      <4>1. i - at = 1
        BY <3>3
      <4> QED BY <4>1, <3>1, <3>3, <1>3
    <3> QED BY <3>2, <3>3
  <2> QED BY <2>1, <2>2, <1>2, <1>3
<1> HIDE DEF ao
<1>6. r \in Seq(S) /\ Len(r) = Len(q) + 1
      /\ \A i \in 1 .. Len(q) + 1 : r[i] = IF i <= at + 1 THEN ao[i] ELSE b[i - (at + 1)]
  <2>1. r \in Seq(S) /\ Len(r) = Len(ao) + Len(b)
        /\ \A i \in 1 .. Len(ao) + Len(b) : r[i] = IF i <= Len(ao) THEN ao[i] ELSE b[i - Len(ao)]
    BY <1>5, <1>4, ConcatProperties, Zenon
  <2>2. Len(ao) + Len(b) = Len(q) + 1
    BY <1>5, <1>4
  <2> QED BY <2>1, <2>2, <1>5
<1> HIDE DEF r
<1>7. \A i \in 1 .. Len(q) + 1 :
        r[i] = IF i <= at THEN q[i] ELSE IF i = at + 1 THEN e ELSE q[i - 1]
  <2> TAKE i \in 1 .. Len(q) + 1
  <2>1. CASE i <= at + 1
    BY <2>1, <1>5, <1>6
  <2>2. CASE ~(i <= at + 1)
    <3>1. i - (at + 1) \in 1 .. Len(q) - at /\ i - (at + 1) + at = i - 1
      BY <2>2
    <3>2. r[i] = b[i - (at + 1)]
      BY <2>2, <1>6
    <3>3. b[i - (at + 1)] = q[i - 1]
      BY <3>1, <1>4
    <3> QED BY <3>2, <3>3, <2>2
  <2> QED BY <2>1, <2>2
<1>8. DOMAIN r = 1 .. Len(q) + 1 /\ DOMAIN q = 1 .. Len(q)
  BY <1>6
<1>9. ToSet(r) \subseteq ToSet(q) \cup {e}
  <2> SUFFICES ASSUME NEW i \in 1 .. Len(q) + 1 PROVE r[i] \in ToSet(q) \cup {e}
    BY <1>8 DEF ToSet
  <2>1. CASE i <= at
    BY <2>1, <1>7, <1>8 DEF ToSet
  <2>2. CASE i = at + 1
    BY <2>2, <1>7
  <2>3. CASE i > at + 1
    <3>1. i - 1 \in DOMAIN q /\ r[i] = q[i - 1]
      BY <2>3, <1>7, <1>8
    <3> QED BY <3>1 DEF ToSet
  <2> QED BY <2>1, <2>2, <2>3
<1>10. ToSet(q) \cup {e} \subseteq ToSet(r)
  <2>1. e \in ToSet(r)
    <3>1. at + 1 \in DOMAIN r /\ r[at + 1] = e
      BY <1>7, <1>8
    <3> QED BY <3>1 DEF ToSet
  <2>2. ASSUME NEW i \in 1 .. Len(q) PROVE q[i] \in ToSet(r)
    <3>1. CASE i <= at
      <4>1. i \in DOMAIN r /\ r[i] = q[i]
        BY <3>1, <1>7, <1>8
      <4> QED BY <4>1 DEF ToSet
    <3>2. CASE ~(i <= at)
      <4>1. i + 1 \in DOMAIN r /\ r[i + 1] = q[i]
        BY <3>2, <1>7, <1>8
      <4> QED BY <4>1 DEF ToSet
    <3> QED BY <3>1, <3>2
  <2> QED BY <2>1, <2>2, <1>8 DEF ToSet
<1> QED BY <1>1, <1>6, <1>9, <1>10
-----------------------------------------------------------------------------
(* The device key. *)

\* The types of the browser, the sessions, the API's keys and the calls.
BrowserTypes ==
  /\ keyScene \in KeyScenes /\ stored \in Kid \cup {NoKey}
  /\ mark \in [count : Nat, since : {"none", "running", "old"}]
  /\ calm \subseteq Registration /\ alone \subseteq SignOut
SessionTypes ==
  /\ cookie \in Token \cup {0} /\ issued \in Token \cup {0}
  /\ holder \in [Token -> Owner \cup {NoOwner}] /\ adopted \subseteq Token
RowTypes ==
  /\ keyOf \in [AnyKid -> Owner \cup {NoOwner}]
  /\ out \subseteq AnyKid /\ revoked \subseteq AnyKid /\ byAge \in Seq(AnyKid)
Registrations ==
  [step : {"idle", "answered", "making", "sending", "served", "replacing", "sendingAgain", "servedAgain"},
   account : Owner \cup {NoOwner}, key : Kid \cup {NoKey}, count : Nat, start : Nat]
SignOuts ==
  [step : {"idle", "taken", "reading", "ended", "failed"}, key : Kid \cup {NoKey}, count : Nat,
   session : Token \cup {0}, account : Owner \cup {NoOwner}]
CallTypes == reg \in [Registration -> Registrations] /\ signing \in [SignOut -> SignOuts]

\* Sessions are numbered as they start. No account but one of a session that
\* started appears anywhere.
Begun(a) == a \in Token => a <= issued
SessionsInv ==
  /\ cookie <= issued
  /\ \A t \in Token : /\ t > issued => holder[t] = NoOwner
                      /\ Begun(holder[t]) /\ holder[t] \notin adopted
  /\ \A a \in adopted : a <= issued

\* A key that was signed out or revoked was registered, and has an age.
RowsInv ==
  \A k \in AnyKid : /\ Begun(keyOf[k])
                    /\ k \in out \cup revoked => keyOf[k] # NoOwner
                    /\ keyOf[k] # NoOwner => k \in ToSet(byAge)

\* A registration has a key from when it has read or stored one, and an account
\* from its session.
Served(r) == reg[r].step \in {"served", "servedAgain"}
HasKey(r) == reg[r].step \in {"sending", "served", "replacing", "sendingAgain", "servedAgain"}
CallsInv ==
  /\ \A r \in Registration :
       /\ Begun(reg[r].account)
       /\ reg[r].step # "idle" => reg[r].account # NoOwner
       /\ IF HasKey(r) THEN reg[r].key \in Kid ELSE reg[r].key = NoKey
  /\ \A s \in SignOut : Begun(signing[s].account) /\ signing[s].session <= issued

\* While a sign-out is the only one and its mark stands, nothing is stored, and a
\* registration carries its key or none: so none but that key can be live on the
\* account, and signing it out leaves none. After that no registration that the
\* API still handles is that account's.
OnlyKey(a, k) == a # NoOwner => Live(a) \cap Kid \subseteq {k}
AloneInv(s) ==
  /\ signing[s].step # "idle" /\ \A o \in SignOut \ {s} : signing[o].step = "idle"
  /\ stored = NoKey /\ mark.since = "running"
  /\ \A r \in Registration : reg[r].key \in {signing[s].key, NoKey}
  /\ signing[s].step = "taken" => OnlyKey(Account(cookie), signing[s].key)
  /\ signing[s].step = "reading" => OnlyKey(signing[s].account, signing[s].key)
  /\ signing[s].step = "ended" /\ signing[s].account # NoOwner =>
       /\ Live(signing[s].account) \cap Kid = {}
       /\ Account(cookie) # signing[s].account
       /\ \A r \in Registration : Served(r) => reg[r].account # signing[s].account

\* An account's registration loses a key that's another's or revoked, and keeps
\* one that is neither and that no other account is about to get.
Lost(k, a) == keyOf[k] \notin {NoOwner, a} \/ k \in revoked
Kept(k, a) == /\ keyOf[k] \in {NoOwner, a} /\ k \notin revoked
              /\ \A q \in Registration : Served(q) /\ reg[q].key = k => reg[q].account = a

\* A registration that only others overlap has the stored key, or one that it
\* loses when another has already stored one that it keeps. So the first answer
\* sends it to the stored key, and the second finds a key that works.
CalmInv(r) ==
  LET a == reg[r].account
      k == reg[r].key
  IN /\ reg[r].step \notin {"idle", "answered"}
     /\ Account(cookie) = a /\ mark.since = "none" /\ mark.count = reg[r].count
     /\ reg[r].step # "making" => stored # NoKey
     /\ reg[r].step \in {"sending", "served", "replacing"}
          => k = stored \/ (Lost(k, a) /\ Kept(stored, a))
     /\ reg[r].step = "replacing" => Lost(k, a)
     /\ reg[r].step \in {"sendingAgain", "servedAgain"} => k = stored /\ Kept(k, a)

\* The inductive invariant of the keys.
KInv ==
  /\ KeysTypeOK /\ SessionsInv /\ RowsInv /\ CallsInv
  /\ \A s \in alone : AloneInv(s)
  /\ \A r \in calm : CalmInv(r)

\* The conjuncts of KeysTypeOK, by what they are about.
LEMMA TypeParts == KeysTypeOK <=> BrowserTypes /\ SessionTypes /\ RowTypes /\ CallTypes
BY DEF KeysTypeOK, BrowserTypes, SessionTypes, RowTypes, CallTypes, Registrations, SignOuts

\* The same after a step.
LEMMA TypePartsAfter == KeysTypeOK' <=> BrowserTypes' /\ SessionTypes' /\ RowTypes' /\ CallTypes'
BY DEF KeysTypeOK, BrowserTypes, SessionTypes, RowTypes, CallTypes, Registrations, SignOuts

\* The members of a sequence are finitely many.
LEMMA ToSetFinite ==
  ASSUME NEW S, NEW q \in Seq(S)
  PROVE  IsFiniteSet(ToSet(q))
<1>1. q \in Surjection(1 .. Len(q), ToSet(q))
  BY DEF Surjection, ToSet
<1>2. IsFiniteSet(1 .. Len(q))
  BY FS_Interval
<1> QED BY <1>1, <1>2, FS_Surjection

\* The keys that a registration keeps are its own and at most LIVE_KEY_LIMIT - 1
\* others: of those, one is the oldest, and the rest are newer than it.
LEMMA CapLemma ==
  ASSUME NEW live, NEW age \in Seq(AnyKid), live \subseteq ToSet(age), NEW keeping \in live
  PROVE  Cardinality(live \ past_the_cap(keeping, live, age)) <= LIVE_KEY_LIMIT
<1> DEFINE Newer(k) == {j \in live \ {keeping} : \E x, y \in DOMAIN age :
  x > y /\ age[x] = j /\ age[y] = k}
           Rest == {k \in live \ {keeping} : ~(Cardinality(Newer(k)) >= LIVE_KEY_LIMIT - 1)}
           At == {x \in DOMAIN age : age[x] \in Rest}
<1>1. IsFiniteSet(live)
  BY ToSetFinite, FS_Subset
<1>2. Cardinality(live \ past_the_cap(keeping, live, age)) = Cardinality(Rest \cup {keeping})
  <2>1. live \ past_the_cap(keeping, live, age) = Rest \cup {keeping}
    BY DEF past_the_cap
  <2> HIDE DEF Rest
  <2> QED BY <2>1, Zenon
<1>3. IsFiniteSet(Rest) /\ Cardinality(Rest) \in Nat /\ Cardinality(Rest \cup {keeping}) <= Cardinality(Rest) + 1
  <2>1. IsFiniteSet(Rest)
    BY <1>1, FS_Subset
  <2> HIDE DEF Rest
  <2>2. Cardinality(Rest) \in Nat
    BY <2>1, FS_CardinalityType
  <2>3. Cardinality(Rest \cup {keeping}) = IF keeping \in Rest
          THEN Cardinality(Rest) ELSE Cardinality(Rest) + 1
    BY <2>1, FS_AddElement
  <2> QED BY <2>1, <2>2, <2>3
<1>4. LIVE_KEY_LIMIT \in Nat \ {0}
  BY DeviceKeysAssumption
<1>7. Cardinality(Rest \cup {keeping}) \in Nat
  <2> HIDE DEF Rest
  <2>1. IsFiniteSet(Rest \cup {keeping})
    BY <1>3, FS_AddElement
  <2> QED BY <2>1, FS_CardinalityType
<1>5. CASE Rest = {}
  <2>1. Cardinality(Rest) = 0
    BY <1>5, FS_EmptySet
  <2> HIDE DEF Rest
  <2> QED BY <2>1, <1>2, <1>3, <1>4, <1>7
<1>6. CASE Rest # {}
  <2>1. At \subseteq Nat /\ At # {}
    <3>1. PICK k \in Rest : TRUE
      BY <1>6
    <3>2. k \in ToSet(age)
      OBVIOUS
    <3>3. PICK x \in DOMAIN age : age[x] = k
      BY <3>2 DEF ToSet
    <3>4. DOMAIN age \subseteq Nat
      OBVIOUS
    <3> HIDE DEF Rest
    <3> QED BY <3>1, <3>3, <3>4
  <2>2. PICK p \in At : \A x \in At : p <= x
    <3> HIDE DEF At
    <3> QED BY <2>1, LeastNat
  <2> DEFINE old == age[p]
  <2>3. p \in DOMAIN age /\ p \in Nat /\ old \in Rest
    OBVIOUS
  <2>4. Rest \ {old} \subseteq Newer(old)
    <3> SUFFICES ASSUME NEW j \in Rest \ {old} PROVE j \in Newer(old)
      OBVIOUS
    <3>1. PICK x \in DOMAIN age : age[x] = j
      BY DEF ToSet
    <3>2. x \in At /\ x \in Nat /\ x # p
      BY <3>1
    <3>3. x > p
      BY <3>2, <2>2, <2>3
    <3> QED BY <3>1, <3>3, <2>3
  <2>5. IsFiniteSet(Newer(old)) /\ Cardinality(Newer(old)) \in Nat
    <3>1. Newer(old) \subseteq live
      OBVIOUS
    <3> HIDE DEF Newer, old
    <3>2. IsFiniteSet(Newer(old))
      BY <3>1, <1>1, FS_Subset
    <3> QED BY <3>2, FS_CardinalityType
  <2>6. ~(Cardinality(Newer(old)) >= LIVE_KEY_LIMIT - 1)
    BY <2>3
  <2> HIDE DEF Newer, old, Rest
  <2>7. Cardinality(Rest \ {old}) = Cardinality(Rest) - 1
    BY <1>3, <2>3, FS_RemoveElement
  <2>8. Cardinality(Rest \ {old}) <= Cardinality(Newer(old))
    BY <2>4, <2>5, FS_Subset
  <2>9. Cardinality(Rest) <= LIVE_KEY_LIMIT - 1
    BY <2>5, <2>6, <2>7, <2>8, <1>3, <1>4
  <2> QED BY <2>9, <1>2, <1>3, <1>4, <1>7
<1> QED BY <1>5, <1>6

\* What register_key() leaves in the account's rows.
LEMMA RegisterKeyFacts ==
  ASSUME RowTypes, RowsInv, NEW k \in AnyKid, NEW a \in Owner, NEW start \in Nat, register_key(k,
         a, start)
  PROVE  /\ RowTypes' /\ revoked' = revoked
         /\ \A j \in AnyKid \ {k} : keyOf'[j] = keyOf[j]
         /\ keyOf'[k] = IF keyOf[k] = NoOwner THEN a ELSE keyOf[k]
         /\ \A j \in AnyKid : /\ j \in out' \cup revoked' => keyOf'[j] # NoOwner
                              /\ keyOf'[j] # NoOwner => j \in ToSet(byAge')
         /\ \A b \in Owner : Live(b)' \subseteq Live(b) \cup (IF b = a THEN {k} ELSE {})
         /\ keyOf[k] \in {NoOwner, a} /\ k \notin revoked
            => k \in Live(a)' /\ Cardinality(Live(a)') <= LIVE_KEY_LIMIT
<1>0. NoOwner \notin Owner
  BY DeviceKeysAssumption
<1>1. CASE keyOf[k] \notin {NoOwner, a}
  <2>1. keyOf' = keyOf /\ out' = out /\ revoked' = revoked /\ byAge' = byAge
    BY <1>1, Zenon DEF register_key, keys
  <2> QED BY <2>1, <1>1 DEF RowTypes, RowsInv, Live
<1>2. CASE keyOf[k] \in {NoOwner, a}
  <2> DEFINE back == out \ {k}
             live == {j \in AnyKid : keyOf'[j] = a} \ (back \cup revoked)
             past == past_the_cap(k, live, byAge')
  <2>1. /\ keyOf' = [keyOf EXCEPT ![k] = a] /\ revoked' = revoked
        /\ keyOf[k] = a => byAge' = byAge
        /\ keyOf[k] # a => \E at \in start .. Len(byAge) : byAge' = InsertAt(byAge, at + 1, k)
        /\ out' = IF k \in revoked THEN out ELSE back \cup past
    BY <1>2, Zenon DEF register_key
  <2>2. past \subseteq live \ {k} /\ past \subseteq AnyKid
    BY DEF past_the_cap
  <2> HIDE DEF past
  <2>3. keyOf' \in [AnyKid -> Owner \cup {NoOwner}] /\ keyOf'[k] = a /\ \A j \in AnyKid \ {k} :
          keyOf'[j] = keyOf[j]
    BY <2>1 DEF RowTypes
  <2>4. byAge' \in Seq(AnyKid) /\ ToSet(byAge') = ToSet(byAge) \cup {k}
    <3>1. CASE keyOf[k] = a
      BY <3>1, <2>1, <1>0 DEF RowTypes, RowsInv
    <3>2. CASE keyOf[k] # a
      <4>1. PICK at \in start .. Len(byAge) : byAge' = InsertAt(byAge, at + 1, k)
        BY <3>2, <2>1
      <4>2. at \in 0 .. Len(byAge) /\ byAge \in Seq(AnyKid)
        BY DEF RowTypes
      <4> QED BY <4>1, <4>2, InsertAtFacts
    <3> QED BY <3>1, <3>2
  <2>5. out' \subseteq AnyKid /\ out' \subseteq out \cup past /\ (out \ {k}) \subseteq out'
    BY <2>1, <2>2 DEF RowTypes
  <2>6. RowTypes'
    BY <2>1, <2>3, <2>4, <2>5 DEF RowTypes
  <2>7. \A j \in AnyKid : /\ j \in out' \cup revoked' => keyOf'[j] # NoOwner
                          /\ keyOf'[j] # NoOwner => j \in ToSet(byAge')
    <3> TAKE j \in AnyKid
    <3>1. j \in past => keyOf'[j] = a
      BY <2>2
    <3> QED BY <3>1, <2>1, <2>3, <2>4, <2>5, <1>0 DEF RowsInv
  <2>8. ASSUME NEW b \in Owner
        PROVE  Live(b)' \subseteq Live(b) \cup (IF b = a THEN {k} ELSE {})
    BY <2>1, <2>3, <2>5 DEF Live
  <2>9. ASSUME k \notin revoked
        PROVE  k \in Live(a)' /\ Cardinality(Live(a)') <= LIVE_KEY_LIMIT
    <3>1. out' = back \cup past
      BY <2>1, <2>9
    <3>2. k \in live
      BY <2>3, <2>9
    <3>3. Live(a)' = live \ past
      BY <3>1, <2>1 DEF Live
    <3>4. live \subseteq ToSet(byAge')
      <4>1. \A j \in AnyKid : keyOf'[j] = a => j \in ToSet(byAge')
        BY <2>7, <1>0
      <4> QED BY <4>1
    <3> HIDE DEF live
    <3>5. Cardinality(live \ past) <= LIVE_KEY_LIMIT
      BY <3>2, <3>4, <2>4, CapLemma DEF past
    <3>6. Cardinality(Live(a)') <= LIVE_KEY_LIMIT
      BY <3>3, <3>5, Zenon
    <3> QED BY <3>2, <3>3, <3>6, <2>2
  <2> QED BY <2>1, <2>3, <2>6, <2>7, <2>8, <2>9, <1>2, <1>0
<1> QED BY <1>1, <1>2

\* Nothing about the sessions and the API's rows changes.
LEMMA ServerStays ==
  ASSUME KInv, UNCHANGED <<sessions, keys>>
  PROVE  /\ SessionTypes' /\ RowTypes' /\ SessionsInv' /\ RowsInv'
         /\ \A a : Begun(a)' <=> Begun(a)
         /\ \A a : Live(a)' = Live(a) /\ \A k : Lost(k, a)' <=> Lost(k, a)
         /\ Account(cookie)' = Account(cookie)
<1>1. SessionTypes /\ RowTypes /\ SessionsInv /\ RowsInv
  BY TypeParts DEF KInv
<1>2. /\ cookie' = cookie /\ issued' = issued /\ holder' = holder /\ adopted' = adopted
      /\ keyOf' = keyOf /\ out' = out /\ revoked' = revoked /\ byAge' = byAge
  BY DEF sessions, keys
<1> QED BY <1>1, <1>2 DEF SessionTypes, RowTypes, SessionsInv, RowsInv, Begun, Live, Lost, Account

\* One registration moves to another step.
LEMMA RegistrationMoves ==
  ASSUME CallTypes, CallsInv, NEW r \in Registration, NEW rec \in Registrations,
         reg' = [reg EXCEPT ![r] = rec], UNCHANGED <<signing, issued>>,
         Begun(rec.account), rec.step # "idle" => rec.account # NoOwner,
         IF rec.step \in {"sending", "served", "replacing", "sendingAgain", "servedAgain"}
         THEN rec.key \in Kid ELSE rec.key = NoKey
  PROVE  /\ CallTypes' /\ CallsInv' /\ reg'[r] = rec
         /\ \A q \in Registration \ {r} : reg'[q] = reg[q]
<1>1. reg'[r] = rec /\ \A q \in Registration \ {r} : reg'[q] = reg[q]
  BY DEF CallTypes
<1>2. CallTypes'
  BY DEF CallTypes
<1>3. \A q \in Registration : IF q = r THEN reg'[q] = rec ELSE reg'[q] = reg[q]
  BY <1>1
<1>4. \A q \in Registration :
        /\ Begun(reg[q].account)'
        /\ reg'[q].step # "idle" => reg'[q].account # NoOwner
        /\ IF HasKey(q)' THEN reg'[q].key \in Kid ELSE reg'[q].key = NoKey
  <2> TAKE q \in Registration
  <2>1. CASE q = r
    BY <2>1, <1>1 DEF Begun, HasKey
  <2>2. CASE q # r
    <3>1. reg'[q] = reg[q]
      BY <2>2, <1>3
    <3> QED BY <3>1 DEF CallsInv, Begun, HasKey
  <2> QED BY <2>1, <2>2
<1>5. \A s \in SignOut : Begun(signing[s].account)' /\ signing'[s].session <= issued'
  BY DEF CallsInv, Begun
<1> QED BY <1>1, <1>2, <1>4, <1>5 DEF CallsInv

\* A registration's step that changes nothing else but the history `calm`.
LEMMA CallMoves ==
  ASSUME KInv, NEW r \in Registration, NEW rec \in Registrations,
         reg' = [reg EXCEPT ![r] = rec], UNCHANGED <<browser, sessions, keys, signing, alone>>,
         Begun(rec.account), rec.step # "idle" => rec.account # NoOwner,
         IF rec.step \in {"sending", "served", "replacing", "sendingAgain", "servedAgain"}
         THEN rec.key \in Kid ELSE rec.key = NoKey,
         rec.key \in {reg[r].key, stored, NoKey},
         rec.step \in {"served", "servedAgain"} =>
           \/ Served(r) /\ rec.account = reg[r].account /\ rec.key = reg[r].key
           \/ rec.account = Account(cookie),
         calm' \subseteq calm \cup {r}, r \in calm' => CalmInv(r)'
  PROVE  KInv'
<1>0. BrowserTypes /\ SessionTypes /\ RowTypes /\ CallTypes /\ SessionsInv /\ RowsInv /\ CallsInv
  BY TypeParts DEF KInv
<1>1. /\ stored' = stored /\ mark' = mark /\ keyScene' = keyScene /\ signing' = signing
      /\ alone' = alone
      /\ issued' = issued /\ keyOf' = keyOf /\ revoked' = revoked
  BY DEF browser, sessions, keys
<1>2. CallTypes' /\ CallsInv' /\ reg'[r] = rec /\ \A q \in Registration \ {r} : reg'[q] = reg[q]
  BY <1>0, <1>1, RegistrationMoves
<1>3. /\ SessionTypes' /\ RowTypes' /\ SessionsInv' /\ RowsInv'
      /\ \A a : Live(a)' = Live(a) /\ \A k : Lost(k, a)' <=> Lost(k, a)
      /\ Account(cookie)' = Account(cookie)
  BY ServerStays
<1>4. BrowserTypes'
  BY <1>0, <1>1 DEF BrowserTypes
<1>5. \A q \in Registration :
        /\ reg'[q].key \in {reg[q].key, stored, NoKey}
        /\ Served(q)' => \/ Served(q) /\ reg'[q].account = reg[q].account /\ reg'[q].key = reg[q].key
                         \/ reg'[q].account = Account(cookie)
  <2> TAKE q \in Registration
  <2>1. CASE q = r
    BY <2>1, <1>2 DEF Served
  <2>2. CASE q # r
    BY <2>2, <1>2 DEF Served
  <2> QED BY <2>1, <2>2
<1>6. ASSUME NEW s \in alone' PROVE AloneInv(s)'
  <2>1. AloneInv(s)
    BY <1>1, <1>6 DEF KInv
  <2>2. \A a, k : OnlyKey(a, k)' <=> OnlyKey(a, k)
    BY <1>3 DEF OnlyKey
  <2> QED BY <2>1, <2>2, <1>1, <1>3, <1>5 DEF AloneInv
<1>7. ASSUME NEW q \in calm', q # r PROVE CalmInv(q)'
  <2>1. q \in Registration /\ CalmInv(q) /\ reg'[q] = reg[q]
    BY <1>7, <1>0, <1>2 DEF KInv, BrowserTypes
  <2>2. Account(cookie) = reg[q].account
    BY <2>1 DEF CalmInv
  <2>3. ASSUME NEW k, NEW a, a = Account(cookie), Kept(k, a) PROVE Kept(k, a)'
    BY <1>1, <1>3, <1>5, <2>3 DEF Kept
  <2> DEFINE a == reg[q].account
             k == reg[q].key
  <2>4. Kept(k, a) => Kept(k, a)'
    BY <2>1, <2>2, <2>3
  <2>5. Kept(stored, a) => Kept(stored, a)'
    BY <2>1, <2>2, <2>3, <1>1
  <2>6. Lost(k, a)' <=> Lost(k, a)
    BY <2>1, <1>3
  <2> QED BY <2>1, <2>4, <2>5, <2>6, <1>1, <1>3 DEF CalmInv
<1>8. \A q \in calm' : CalmInv(q)'
  BY <1>7
<1> QED BY <1>2, <1>3, <1>4, <1>6, <1>8, TypePartsAfter DEF KInv

\* registerDeviceKey() keeps the inductive invariant.
LEMMA RegisterDeviceKeyStep ==
  ASSUME KInv, NEW r \in Registration, registerDeviceKey(r)
  PROVE  KInv'
<1> DEFINE rec == [reg[r] EXCEPT !.step = IF stored = NoKey THEN "making" ELSE "sending",
                                 !.key = stored, !.count = mark.count]
           undisturbed == mark.since = "none" /\ Account(cookie) = reg[r].account
<1>0. BrowserTypes /\ SessionTypes /\ CallTypes /\ CallsInv
  BY TypeParts DEF KInv
<1>1. /\ reg[r].step = "answered" /\ UNCHANGED <<browser, sessions, keys, signing, alone>>
      /\ reg' = [reg EXCEPT ![r].step = IF stored = NoKey THEN "making" ELSE "sending",
                            ![r].key = stored, ![r].count = mark.count]
      /\ calm' = IF undisturbed THEN calm \cup {r} ELSE calm
  BY Zenon DEF registerDeviceKey
<1>2. rec \in Registrations /\ reg' = [reg EXCEPT ![r] = rec]
  BY <1>0, <1>1 DEF CallTypes, Registrations, BrowserTypes
<1>3. /\ rec.step = IF stored = NoKey THEN "making" ELSE "sending"
      /\ rec.key = stored /\ rec.count = mark.count /\ rec.account = reg[r].account
  BY <1>0 DEF CallTypes, Registrations
<1> HIDE DEF rec
<1>4. Begun(rec.account) /\ rec.account # NoOwner /\ (stored # NoKey => rec.key \in Kid)
  BY <1>0, <1>1, <1>3 DEF CallsInv, BrowserTypes
<1>5. calm' \subseteq calm \cup {r} /\ (r \in calm' => r \in calm \/ undisturbed)
  <2>1. CASE undisturbed
    BY <2>1, <1>1, Zenon
  <2>2. CASE ~undisturbed
    BY <2>2, <1>1, Zenon
  <2> QED BY <2>1, <2>2
<1>6. ASSUME r \in calm' PROVE CalmInv(r)'
  <2>1. ~(r \in calm)
    BY <1>1 DEF KInv, CalmInv
  <2>2. undisturbed
    BY <2>1, <1>5, <1>6
  <2>3. /\ reg'[r].step = IF stored = NoKey THEN "making" ELSE "sending"
        /\ reg'[r].key = stored /\ reg'[r].count = mark.count /\ reg'[r].account = reg[r].account
    BY <1>0, <1>2, <1>3 DEF CallTypes
  <2>4. Account(cookie)' = Account(cookie) /\ stored' = stored /\ mark' = mark
    BY <1>1, ServerStays DEF browser
  <2> QED BY <2>2, <2>3, <2>4 DEF CalmInv
<1> QED BY <1>1, <1>2, <1>3, <1>4, <1>5, <1>6, CallMoves

\* createKey() and replaceKey() keep the inductive invariant.
LEMMA GoesOnStep ==
  ASSUME KInv, NEW r \in Registration, NEW may, NEW step, GoesOn(r, may, step),
         \/ /\ step = "sending" /\ reg[r].step = "making"
            /\ may <=> stored = NoKey /\ mayStore(reg[r].count)
         \/ /\ step = "sendingAgain" /\ reg[r].step = "replacing"
            /\ may <=> stored = reg[r].key /\ mayStore(reg[r].count)
  PROVE  KInv'
<1> DEFINE rec == IF stored' = NoKey THEN IdleRegistration
                  ELSE [reg[r] EXCEPT !.key = stored', !.step = step]
<1>0. /\ BrowserTypes /\ SessionTypes /\ RowTypes /\ CallTypes /\ SessionsInv /\ RowsInv
      /\ CallsInv
      /\ NoKey \notin AnyKid /\ NoOwner \notin Owner
  BY TypeParts, DeviceKeysAssumption DEF KInv
<1>1. /\ \/ may /\ stored' \in Unmade
         \/ ~may /\ stored' = stored
      /\ reg' = [reg EXCEPT ![r] = rec]
      /\ calm' = IF stored' = NoKey THEN calm \ {r}
                 ELSE IF stored' # stored /\ r \notin calm THEN {} ELSE calm
      /\ keyScene' = keyScene /\ mark' = mark /\ signing' = signing /\ alone' = alone
      /\ UNCHANGED <<sessions, keys>> /\ issued' = issued /\ keyOf' = keyOf /\ revoked' = revoked
  BY Zenon DEF GoesOn, sessions, keys
<1>2. /\ stored' \in Kid \cup {NoKey} /\ (stored' = NoKey => ~may)
      /\ may => stored' \in Kid /\ stored' # stored
  BY <1>0, <1>1 DEF Unmade, AnyKid, BrowserTypes
<1>3. /\ reg[r].account \in Owner \cup {NoOwner} /\ reg[r].account # NoOwner
      /\ Begun(reg[r].account)
      /\ reg[r] \in Registrations
  BY <1>0 DEF CallTypes, CallsInv, Registrations
<1>4. /\ rec \in Registrations
      /\ stored' = NoKey => rec.step = "idle" /\ rec.key = NoKey /\ rec.account = NoOwner
      /\ stored' # NoKey => /\ rec.step = step /\ rec.key = stored' /\ rec.account = reg[r].account
                            /\ rec.count = reg[r].count
      /\ Begun(rec.account)
  <2>1. CASE stored' = NoKey
    <3>1. NoOwner \notin Token /\ 0 \in Nat
      BY <1>0 DEF Owner
    <3> QED BY <2>1, <3>1 DEF IdleRegistration, Registrations, Begun
  <2>2. CASE stored' # NoKey
    BY <2>2, <1>2, <1>3 DEF Registrations
  <2> QED BY <2>1, <2>2
<1> HIDE DEF rec
<1>5. CallTypes' /\ CallsInv' /\ reg'[r] = rec /\ \A q \in Registration \ {r} : reg'[q] = reg[q]
  BY <1>0, <1>1, <1>2, <1>3, <1>4, RegistrationMoves
<1>6. r \in calm => /\ Account(cookie) = reg[r].account /\ mark.since = "none" /\ mark.count = reg[r].count
                    /\ reg[r].step # "making" => stored # NoKey
                    /\ reg[r].step = "replacing" =>
                         /\ Lost(reg[r].key, reg[r].account)
                         /\ reg[r].key = stored \/ Kept(stored, reg[r].account)
  BY DEF KInv, CalmInv
<1>7. /\ SessionTypes' /\ RowTypes' /\ SessionsInv' /\ RowsInv'
      /\ \A a : \A k : Lost(k, a)' <=> Lost(k, a)
      /\ Account(cookie)' = Account(cookie)
  BY <1>1, ServerStays
<1>8. CASE stored' = stored
  <2>1. ~may /\ UNCHANGED <<browser, sessions, keys, signing, alone>>
    BY <1>8, <1>1, <1>2 DEF browser
  <2>2. calm' \subseteq calm /\ (r \in calm' => r \in calm /\ stored # NoKey)
    BY <1>8, <1>1
  <2>3. ASSUME r \in calm' PROVE CalmInv(r)'
    <3>1. r \in calm /\ stored' = stored /\ stored # NoKey
      BY <2>2, <2>3, <1>8
    <3>2. /\ reg'[r].step = step /\ reg'[r].key = stored /\ reg'[r].account = reg[r].account
          /\ reg'[r].count = reg[r].count
      BY <3>1, <1>4, <1>5
    <3>3. CASE step = "sending"
      BY <3>1, <3>2, <3>3, <1>1, <1>6, <1>7 DEF CalmInv
    <3>4. CASE step = "sendingAgain"
      <4>1. reg[r].step = "replacing" /\ stored # reg[r].key
        BY <3>1, <3>4, <2>1, <1>6 DEF mayStore
      <4>2. Kept(stored, reg[r].account)
        BY <4>1, <3>1, <1>6
      <4> DEFINE a == reg[r].account
                 k == stored
      <4>3. Kept(k, a)'
        <5>1. \A q \in Registration : Served(q)'
                => Served(q) /\ reg'[q].key = reg[q].key /\ reg'[q].account = reg[q].account
          BY <3>2, <3>4, <1>5 DEF Served
        <5> QED BY <5>1, <4>2, <1>1, <3>1, <3>2 DEF Kept
      <4> QED BY <4>3, <3>1, <3>2, <3>4, <1>1, <1>6, <1>7 DEF CalmInv
    <3> QED BY <3>3, <3>4
  <2>4. /\ rec.step # "idle" => rec.account # NoOwner
        /\ IF rec.step \in {"sending", "served", "replacing", "sendingAgain", "servedAgain"}
           THEN rec.key \in Kid ELSE rec.key = NoKey
        /\ rec.key \in {reg[r].key, stored, NoKey} /\ rec.step \notin {"served", "servedAgain"}
    BY <1>2, <1>3, <1>4, <1>8
  <2> QED BY <1>1, <1>4, <2>1, <2>2, <2>3, <2>4, CallMoves
<1>9. CASE stored' # stored
  <2>1. may /\ stored' \in Unmade /\ stored' \in Kid /\ stored' # NoKey /\ mark.since # "running"
    BY <1>9, <1>1, <1>2, <1>0 DEF mayStore, AnyKid
  <2>2. alone' = {}
    BY <2>1, <1>1 DEF KInv, AloneInv
  <2>3. BrowserTypes'
    BY <1>0, <1>1, <1>2, <2>2 DEF BrowserTypes
  <2>5. ASSUME NEW k, NEW a, k = stored' PROVE Kept(k, a)'
    <3>1. keyOf'[k] = NoOwner /\ k \notin revoked'
      BY <2>1, <2>5, <1>1, <1>0 DEF Unmade, RowsInv, AnyKid
    <3>2. \A q \in Registration : Served(q)' => reg'[q].key # k
      <4> TAKE q \in Registration
      <4>1. CASE q = r
        BY <4>1, <1>4, <1>5, <2>1 DEF Served
      <4>2. CASE q # r
        BY <4>2, <1>5, <2>1, <2>5 DEF Unmade
      <4> QED BY <4>1, <4>2
    <3> QED BY <3>1, <3>2 DEF Kept
  <2>6. ASSUME NEW q \in calm' PROVE CalmInv(q)'
    <3>1. r \in calm /\ q \in calm /\ q \in Registration /\ CalmInv(q) /\ CalmInv(r)
      BY <2>1, <2>6, <1>1, <1>9, <1>0 DEF KInv, BrowserTypes
    <3>2. Account(cookie)' = reg[q].account /\ mark' = mark /\ mark.since = "none" /\ mark.count = reg[q].count
      BY <3>1, <1>1, <1>7 DEF CalmInv
    <3>3. CASE q = r
      <4>1. /\ reg'[r].step = step /\ reg'[r].key = stored' /\ reg'[r].account = reg[r].account
            /\ reg'[r].count = reg[r].count
        BY <2>1, <1>4, <1>5
      <4> DEFINE a == reg'[r].account
                 k == reg'[r].key
      <4>2. step \in {"sending", "sendingAgain"}
        OBVIOUS
      <4>3. Kept(reg[r].key, reg[r].account)'
        BY <4>1, <2>5
      <4> QED BY <4>1, <4>2, <4>3, <3>2, <3>3, <2>1 DEF CalmInv
    <3>4. CASE q # r
      <4>1. reg'[q] = reg[q]
        BY <3>1, <3>4, <1>5
      <4> DEFINE a == reg[q].account
                 k == reg[q].key
      <4>2. CASE reg[q].step = "making"
        BY <4>1, <4>2, <3>2, <3>1 DEF CalmInv
      <4>3. CASE reg[q].step # "making"
        <5>1. stored # NoKey
          BY <4>3, <3>1 DEF CalmInv
        <5>2. stored = reg[r].key /\ reg[r].step = "replacing"
          BY <5>1, <2>1
        <5>3. Lost(stored, a) /\ ~Kept(stored, a)
          BY <5>2, <3>1 DEF CalmInv, Kept, Lost
        <5>4. k = stored /\ Lost(k, a) /\ reg[q].step \in {"sending", "served", "replacing"}
          BY <5>3, <4>3, <3>1, <1>0 DEF CalmInv, CallTypes, Registrations
        <5>5. Kept(stored, reg[q].account)'
          BY <2>5
        <5>6. Lost(k, a)'
          BY <5>4, <4>1, <1>7
        <5> QED BY <5>4, <5>5, <5>6, <4>1, <3>2, <2>1 DEF CalmInv
      <4> QED BY <4>2, <4>3
    <3> QED BY <3>3, <3>4
  <2> QED BY <1>5, <1>7, <2>2, <2>3, <2>6, TypePartsAfter DEF KInv
<1> QED BY <1>8, <1>9

\* createKey() keeps the inductive invariant.
LEMMA CreateKeyStep ==
  ASSUME KInv, NEW r \in Registration, createKey(r)
  PROVE  KInv'
<1> DEFINE may == stored = NoKey /\ mayStore(reg[r].count)
<1>1. reg[r].step = "making" /\ GoesOn(r, may, "sending")
  BY DEF createKey
<1> QED BY <1>1, GoesOnStep

\* replaceKey() keeps it.
LEMMA ReplaceKeyStep ==
  ASSUME KInv, NEW r \in Registration, replaceKey(r)
  PROVE  KInv'
<1> DEFINE may == stored = reg[r].key /\ mayStore(reg[r].count)
<1>1. reg[r].step = "replacing" /\ GoesOn(r, may, "sendingAgain")
  BY DEF replaceKey
<1> QED BY <1>1, GoesOnStep

\* A registration that ends, and that nothing else shows.
LEMMA CallEnds ==
  ASSUME KInv, NEW r \in Registration, reg' = [reg EXCEPT ![r] = IdleRegistration],
         UNCHANGED <<browser, sessions, keys, signing, alone>>, calm' = calm \ {r}
  PROVE  KInv'
<1>1. IdleRegistration \in Registrations
  BY DEF IdleRegistration, Registrations
<1>2. /\ IdleRegistration.step = "idle" /\ IdleRegistration.key = NoKey
      /\ IdleRegistration.account = NoOwner
  BY DEF IdleRegistration
<1>3. Begun(NoOwner)
  BY DeviceKeysAssumption DEF Begun, Owner
<1> QED BY <1>1, <1>2, <1>3, CallMoves

\* require_account() keeps the inductive invariant.
LEMMA RequireAccountStep ==
  ASSUME KInv, NEW r \in Registration, require_account(r)
  PROVE  KInv'
<1> DEFINE next == IF reg[r].step = "sending" THEN "served" ELSE "servedAgain"
           rec == [reg[r] EXCEPT !.step = next, !.start = Len(byAge)]
<1>0. BrowserTypes /\ SessionTypes /\ RowTypes /\ CallTypes /\ CallsInv
  BY TypeParts DEF KInv
<1>1. /\ reg[r].step \in {"sending", "sendingAgain"}
      /\ UNCHANGED <<browser, sessions, keys, signing, alone>>
      /\ reg' = [reg EXCEPT ![r] = IF Account(cookie) # reg[r].account THEN IdleRegistration ELSE rec]
      /\ calm' = IF Account(cookie) # reg[r].account THEN calm \ {r} ELSE calm
  <2>1. /\ reg[r].step \in {"sending", "sendingAgain"}
        /\ UNCHANGED <<browser, sessions, keys, signing, alone>>
        /\ calm' = IF Account(cookie) # reg[r].account THEN calm \ {r} ELSE calm
    BY Zenon DEF require_account
  <2>2. reg' = [reg EXCEPT ![r] = IF Account(cookie) # reg[r].account THEN IdleRegistration ELSE rec]
    BY Zenon DEF require_account
  <2> QED BY <2>1, <2>2
<1>2. CASE Account(cookie) # reg[r].account
  <2>1. reg' = [reg EXCEPT ![r] = IdleRegistration] /\ calm' = calm \ {r}
    BY <1>1, <1>2
  <2> QED BY <2>1, <1>1, CallEnds
<1>3. CASE Account(cookie) = reg[r].account
  <2>1. reg' = [reg EXCEPT ![r] = rec] /\ calm' = calm
    <3> HIDE DEF rec
    <3> QED BY <1>1, <1>3
  <2>2. rec \in Registrations
    <3>1. Len(byAge) \in Nat
      BY <1>0 DEF RowTypes
    <3> QED BY <3>1, <1>0 DEF CallTypes, Registrations
  <2>3. /\ rec.step = next /\ rec.account = reg[r].account /\ rec.key = reg[r].key
        /\ rec.count = reg[r].count
        /\ reg[r].account # NoOwner /\ Begun(reg[r].account) /\ reg[r].key \in Kid
    BY <1>0, <1>1 DEF CallTypes, Registrations, CallsInv, HasKey
  <2> HIDE DEF rec
  <2>4. ASSUME r \in calm' PROVE CalmInv(r)'
    <3>1. r \in calm /\ CalmInv(r)
      BY <2>1, <2>4 DEF KInv
    <3>2. /\ reg'[r].step = next /\ reg'[r].account = reg[r].account /\ reg'[r].key = reg[r].key
          /\ reg'[r].count = reg[r].count /\ \A q \in Registration \ {r} : reg'[q] = reg[q]
      BY <1>0, <2>1, <2>3 DEF CallTypes
    <3>3. /\ Account(cookie)' = Account(cookie) /\ \A k, a : Lost(k, a)' <=> Lost(k, a)
          /\ stored' = stored /\ mark' = mark /\ keyOf' = keyOf /\ revoked' = revoked
      BY <1>1, ServerStays DEF browser, keys
    <3> DEFINE a == reg[r].account
               k == reg[r].key
    <3>4. Kept(k, a) => Kept(k, a)'
      BY <3>2, <3>3 DEF Kept, Served
    <3>5. Kept(stored, a) => Kept(stored, a)'
      BY <3>2, <3>3 DEF Kept, Served
    <3>6. Lost(k, a) => Lost(k, a)'
      BY <3>2, <3>3
    <3> QED BY <3>1, <3>2, <3>3, <3>4, <3>5, <3>6, <1>1 DEF CalmInv
  <2> QED BY <1>1, <1>3, <2>1, <2>2, <2>3, <2>4, CallMoves
<1> QED BY <1>2, <1>3

\* A commit of register_key() keeps the inductive invariant.
LEMMA RegisterKeyStep ==
  ASSUME KInv, NEW r \in Registration, Served(r), reg[r].account \notin adopted,
         register_key(reg[r].key, reg[r].account, reg[r].start),
         UNCHANGED <<browser, sessions, signing, alone>>,
         NEW rec \in Registrations, reg' = [reg EXCEPT ![r] = rec], calm' \subseteq calm,
         \/ rec = IdleRegistration /\ r \notin calm'
         \/ /\ rec.step = "replacing" /\ rec.key = reg[r].key /\ rec.account = reg[r].account
            /\ rec.count = reg[r].count
            /\ reg[r].step = "served" /\ Lost(reg[r].key, reg[r].account)
  PROVE  KInv'
<1> DEFINE a == reg[r].account
           k == reg[r].key
<1>0. /\ BrowserTypes /\ SessionTypes /\ RowTypes /\ CallTypes /\ SessionsInv /\ RowsInv
      /\ CallsInv
      /\ NoKey \notin AnyKid /\ NoOwner \notin Owner
  BY TypeParts, DeviceKeysAssumption DEF KInv
<1>1. /\ k \in Kid /\ k \in AnyKid /\ a \in Owner /\ Begun(a) /\ reg[r].start \in Nat
      /\ reg[r] \in Registrations
  BY <1>0 DEF CallTypes, CallsInv, Registrations, HasKey, Served, AnyKid
<1>2. /\ RowTypes' /\ revoked' = revoked
      /\ \A j \in AnyKid \ {k} : keyOf'[j] = keyOf[j]
      /\ keyOf'[k] = IF keyOf[k] = NoOwner THEN a ELSE keyOf[k]
      /\ \A j \in AnyKid : /\ j \in out' \cup revoked' => keyOf'[j] # NoOwner
                           /\ keyOf'[j] # NoOwner => j \in ToSet(byAge')
      /\ \A b \in Owner : Live(b)' \subseteq Live(b) \cup (IF b = a THEN {k} ELSE {})
  BY <1>0, <1>1, RegisterKeyFacts
<1>3. /\ stored' = stored /\ mark' = mark /\ keyScene' = keyScene /\ signing' = signing
      /\ alone' = alone
      /\ cookie' = cookie /\ issued' = issued /\ holder' = holder /\ adopted' = adopted
      /\ calm' \subseteq calm
  BY DEF browser, sessions
<1>4. SessionTypes' /\ SessionsInv' /\ BrowserTypes' /\ Account(cookie)' = Account(cookie)
  BY <1>0, <1>3 DEF SessionTypes, SessionsInv, BrowserTypes, Begun, Account
<1>5. RowsInv'
  BY <1>0, <1>1, <1>2, <1>3 DEF RowsInv, Begun
<1>6. \/ rec.step = "idle" /\ rec.key = NoKey /\ rec.account = NoOwner /\ r \notin calm'
      \/ rec.step = "replacing" /\ rec.key = k /\ rec.account = a /\ rec.count = reg[r].count
         /\ reg[r].step = "served" /\ Lost(k, a)
  BY DEF IdleRegistration
<1>7. CallTypes' /\ CallsInv' /\ reg'[r] = rec /\ \A q \in Registration \ {r} : reg'[q] = reg[q]
  <2>1. Begun(NoOwner)
    BY <1>0 DEF Begun, Owner
  <2>2. /\ Begun(rec.account) /\ (rec.step # "idle" => rec.account # NoOwner)
        /\ IF rec.step \in {"sending", "served", "replacing", "sendingAgain", "servedAgain"}
           THEN rec.key \in Kid ELSE rec.key = NoKey
    BY <2>1, <1>0, <1>1, <1>6
  <2> QED BY <2>2, <1>0, <1>3, RegistrationMoves
<1>8. \A q \in Registration : /\ Served(q)' => Served(q) /\ reg'[q] = reg[q]
                              /\ reg'[q].key \in {reg[q].key, NoKey}
  BY <1>6, <1>7 DEF Served
<1>9. ASSUME NEW s \in alone' PROVE AloneInv(s)'
  <2>1. AloneInv(s) /\ s \in SignOut
    BY <1>0, <1>3, <1>9 DEF KInv, BrowserTypes
  <2>2. k = signing[s].key
    BY <2>1, <1>0, <1>1 DEF AloneInv, AnyKid
  <2>3. ASSUME NEW b \in Owner \cup {NoOwner}, NEW j, j = k, OnlyKey(b, j) PROVE OnlyKey(b, j)'
    BY <2>3, <1>0, <1>2 DEF OnlyKey
  <2>4. signing[s].step = "ended" /\ signing[s].account # NoOwner => signing[s].account # a
    BY <2>1 DEF AloneInv
  <2>5. Account(cookie) \in Owner \cup {NoOwner} /\ signing[s].account \in Owner \cup {NoOwner}
    BY <2>1, <1>0 DEF CallTypes, SignOuts, Account, SessionTypes
  <2>6. signing[s].step = "ended" /\ signing[s].account # NoOwner
          => (Live(signing[s].account) \cap Kid)' = {}
    <3> SUFFICES ASSUME signing[s].step = "ended", signing[s].account # NoOwner
                 PROVE  (Live(signing[s].account) \cap Kid)' = {}
      OBVIOUS
    <3>1. Live(signing[s].account) \cap Kid = {}
      BY <2>1 DEF AloneInv
    <3>2. ASSUME NEW b \in Owner, b # a PROVE Live(b)' \subseteq Live(b)
      BY <3>2, <1>2
    <3> QED BY <3>1, <3>2, <2>4, <2>5, <1>3
  <2>7. signing[s].step = "taken" => OnlyKey(Account(cookie), signing[s].key)'
    BY <2>1, <2>2, <2>3, <2>5, <1>3, <1>4 DEF AloneInv
  <2>8. signing[s].step = "reading" => OnlyKey(signing[s].account, signing[s].key)'
    BY <2>1, <2>2, <2>3, <2>5, <1>3 DEF AloneInv
  <2>9. \A q \in Registration : reg'[q].key \in {signing[s].key, NoKey}
    BY <2>1, <1>8 DEF AloneInv
  <2> QED BY <2>1, <2>6, <2>7, <2>8, <2>9, <1>3, <1>4, <1>8 DEF AloneInv
<1>10. ASSUME NEW j \in AnyKid, NEW b, Lost(j, b) PROVE Lost(j, b)'
  BY <1>10, <1>0, <1>1, <1>2 DEF Lost
<1>11. ASSUME NEW j \in AnyKid, NEW b, Kept(j, b) PROVE Kept(j, b)'
  <2>1. j = k => a = b
    BY <1>11 DEF Kept
  <2>2. keyOf'[j] \in {NoOwner, b}
    BY <2>1, <1>11, <1>2 DEF Kept
  <2> QED BY <2>2, <1>11, <1>2, <1>8 DEF Kept
<1>12. ASSUME NEW q \in calm' PROVE CalmInv(q)'
  <2>1. q \in calm /\ q \in Registration /\ CalmInv(q)
    BY <1>0, <1>3, <1>12 DEF KInv, BrowserTypes
  <2>2. CASE q = r
    <3>1. reg'[r].step = "replacing" /\ reg'[r].key = k /\ reg'[r].account = a /\ reg'[r].count = reg[r].count
          /\ reg[r].step = "served" /\ Lost(k, a)
      BY <2>2, <1>6, <1>7, <1>12
    <3>2. stored \in AnyKid
      BY <3>1, <2>1, <2>2, <1>0 DEF CalmInv, BrowserTypes, AnyKid
    <3>3. k = stored \/ Kept(stored, a)'
      BY <3>1, <3>2, <2>1, <2>2, <1>3, <1>11 DEF CalmInv
    <3>4. Lost(k, a)'
      BY <3>1, <1>1, <1>10
    <3> QED BY <3>1, <3>3, <3>4, <2>1, <2>2, <1>3, <1>4 DEF CalmInv
  <2>3. CASE q # r
    <3>1. reg'[q] = reg[q]
      BY <2>1, <2>3, <1>7
    <3> DEFINE b == reg[q].account
               j == reg[q].key
    <3>2. HasKey(q) => j \in AnyKid
      BY <2>1, <1>0 DEF CallsInv, AnyKid
    <3>3. HasKey(q) /\ Lost(j, b) => Lost(j, b)'
      BY <3>1, <3>2, <1>10
    <3>4. HasKey(q) /\ Kept(j, b) => Kept(j, b)'
      BY <3>1, <3>2, <1>11
    <3>5. HasKey(q) /\ Kept(stored, b) => Kept(stored, b)'
      <4>1. HasKey(q) => stored \in AnyKid
        BY <2>1, <1>0 DEF CalmInv, BrowserTypes, HasKey, AnyKid
      <4> QED BY <4>1, <3>1, <1>3, <1>11
    <3> QED BY <2>1, <3>1, <3>3, <3>4, <3>5, <1>3, <1>4 DEF CalmInv, HasKey
  <2> QED BY <2>2, <2>3
<1> QED BY <1>2, <1>4, <1>5, <1>7, <1>9, <1>12, TypePartsAfter DEF KInv

\* register() keeps the inductive invariant.
LEMMA RegisterStep ==
  ASSUME KInv, NEW r \in Registration, register(r)
  PROVE  KInv'
<1> DEFINE a == reg[r].account
           k == reg[r].key
           rec == [reg[r] EXCEPT !.step = "replacing"]
           replace == keyOf[k] \notin {NoOwner, a} \/ k \in revoked
<1>0. BrowserTypes /\ CallTypes
  BY TypeParts DEF KInv
<1>1. /\ Served(r) /\ UNCHANGED <<browser, sessions, signing, alone>>
      /\ IF a \in adopted THEN UNCHANGED keys ELSE register_key(k, a, reg[r].start)
      /\ \/ /\ reg[r].step = "served" /\ replace /\ a \notin adopted
            /\ reg' = [reg EXCEPT ![r].step = "replacing"]
            /\ calm' = calm
         \/ /\ reg' = [reg EXCEPT ![r] = IdleRegistration]
            /\ calm' = calm \ {r}
  BY Zenon DEF register, Served
<1>2. CASE a \in adopted
  <2>1. /\ UNCHANGED <<browser, sessions, keys, signing, alone>>
        /\ reg' = [reg EXCEPT ![r] = IdleRegistration] /\ calm' = calm \ {r}
    BY <1>1, <1>2, Zenon
  <2> QED BY <2>1, CallEnds
<1>3. CASE a \notin adopted
  <2>1. register_key(k, a, reg[r].start)
    BY <1>1, <1>3
  <2>2. CASE reg' = [reg EXCEPT ![r] = IdleRegistration] /\ calm' = calm \ {r}
    <3>1. IdleRegistration \in Registrations /\ calm' \subseteq calm /\ r \notin calm'
      BY <2>2 DEF IdleRegistration, Registrations
    <3> QED BY <3>1, <2>1, <2>2, <1>1, <1>3, RegisterKeyStep
  <2>3. CASE /\ reg[r].step = "served" /\ replace
             /\ reg' = [reg EXCEPT ![r].step = "replacing"] /\ calm' = calm
    <3>1. rec \in Registrations /\ reg' = [reg EXCEPT ![r] = rec] /\ calm' \subseteq calm
      BY <1>0, <2>3 DEF CallTypes, Registrations
    <3>2. /\ rec.step = "replacing" /\ rec.key = k /\ rec.account = a /\ rec.count = reg[r].count
          /\ Lost(k, a)
      BY <1>0, <2>3 DEF CallTypes, Registrations, Lost
    <3> HIDE DEF rec
    <3> QED BY <3>1, <3>2, <2>1, <2>3, <1>1, <1>3, RegisterKeyStep
  <2> QED BY <1>1, <2>2, <2>3
<1> QED BY <1>2, <1>3

\* RegisterUnanswered() keeps the inductive invariant.
LEMMA RegisterUnansweredStep ==
  ASSUME KInv, NEW r \in Registration, RegisterUnanswered(r)
  PROVE  KInv'
<1>1. /\ Served(r) /\ UNCHANGED <<browser, sessions, signing, alone>>
      /\ reg' = [reg EXCEPT ![r] = IdleRegistration]
      /\ calm' = calm \ {r}
      /\ \/ UNCHANGED keys
         \/ reg[r].account \notin adopted /\ register_key(reg[r].key, reg[r].account, reg[r].start)
  BY Zenon DEF RegisterUnanswered, Served
<1>2. CASE UNCHANGED keys
  <2>1. UNCHANGED <<browser, sessions, keys, signing, alone>>
    BY <1>1, <1>2
  <2> QED BY <1>1, <2>1, CallEnds
<1>3. CASE reg[r].account \notin adopted /\ register_key(reg[r].key, reg[r].account, reg[r].start)
  <2>1. IdleRegistration \in Registrations /\ calm' \subseteq calm /\ r \notin calm'
    BY <1>1 DEF IdleRegistration, Registrations
  <2> QED BY <2>1, <1>1, <1>3, RegisterKeyStep
<1> QED BY <1>1, <1>2, <1>3

\* StartSession() keeps the inductive invariant.
LEMMA StartSessionStep ==
  ASSUME KInv, NEW r \in Registration, StartSession(r)
  PROVE  KInv'
<1> DEFINE fresh == issued + 1
           rec == [reg[r] EXCEPT !.step = "answered", !.account = holder'[cookie']]
<1>0. /\ BrowserTypes /\ SessionTypes /\ RowTypes /\ CallTypes /\ SessionsInv /\ RowsInv
      /\ CallsInv
      /\ NoOwner \notin Owner /\ Token \subseteq Nat \ {0} /\ Token \cap Member = {}
  BY TypeParts, DeviceKeysAssumption DEF KInv
<1>1. /\ reg[r].step = "idle"
      /\ \/ Account(cookie) # NoOwner /\ UNCHANGED sessions
         \/ /\ Account(cookie) = NoOwner /\ fresh \in Token
            /\ issued' = fresh /\ cookie' = issued'
            /\ holder' = [holder EXCEPT ![issued'] = issued']
            /\ adopted' = adopted
      /\ reg' = [reg EXCEPT ![r].step = "answered", ![r].account = holder'[cookie']]
      /\ stored' = stored /\ mark' = mark /\ keyScene' = keyScene /\ signing' = signing
      /\ keyOf' = keyOf /\ out' = out /\ revoked' = revoked /\ byAge' = byAge
      /\ calm' = calm /\ alone' = alone
  BY Zenon DEF StartSession, browser, keys, Undisturbed
<1>2. CASE Account(cookie) # NoOwner /\ UNCHANGED sessions
  <2>1. cookie' = cookie /\ issued' = issued /\ holder' = holder /\ adopted' = adopted /\ cookie \in Token
    BY <1>0, <1>2 DEF sessions, Account, SessionTypes
  <2>2. holder'[cookie'] = Account(cookie) /\ holder[cookie] \in Owner /\ Begun(holder[cookie])
    BY <2>1, <1>0, <1>2 DEF Account, SessionTypes, SessionsInv
  <2>3. rec \in Registrations /\ reg' = [reg EXCEPT ![r] = rec]
    BY <2>1, <2>2, <1>0, <1>1 DEF CallTypes, Registrations
  <2>4. rec.step = "answered" /\ rec.account = Account(cookie) /\ rec.key = NoKey /\ rec.account # NoOwner
        /\ Begun(rec.account)
    BY <2>1, <2>2, <1>0, <1>1, <1>2 DEF CallTypes, Registrations, CallsInv, HasKey
  <2> HIDE DEF rec
  <2>5. UNCHANGED <<browser, sessions, keys, signing, alone>> /\ calm' \subseteq calm \cup {r}
    BY <1>1, <1>2 DEF browser, keys
  <2>6. r \notin calm'
    BY <1>1 DEF KInv, CalmInv
  <2> QED BY <2>3, <2>4, <2>5, <2>6, CallMoves
<1>3. CASE Account(cookie) = NoOwner /\ fresh \in Token
  <2>1. /\ issued' = fresh /\ cookie' = fresh /\ adopted' = adopted /\ issued \in Nat
        /\ holder' = [holder EXCEPT ![fresh] = fresh]
        /\ holder' \in [Token -> Owner \cup {NoOwner}] /\ holder'[fresh] = fresh
        /\ \A t \in Token \ {fresh} : holder'[t] = holder[t]
        /\ fresh \in Owner /\ fresh # 0 /\ fresh # NoOwner
    <3>1. issued' = fresh /\ cookie' = fresh /\ adopted' = adopted /\ holder' = [holder EXCEPT ![fresh] = fresh]
      BY <1>1, <1>3
    <3>2. fresh \in Owner /\ fresh # 0 /\ fresh # NoOwner /\ issued \in Nat
      BY <1>0, <1>3 DEF SessionTypes, Owner
    <3> QED BY <3>1, <3>2, <1>0, <1>3 DEF SessionTypes
  <2>2. \A b : Begun(b) => Begun(b)'
    BY <2>1, <1>0 DEF Begun
  <2>3. SessionTypes' /\ SessionsInv'
    <3>1. SessionTypes'
      BY <2>1, <1>0, <1>3 DEF SessionTypes
    <3>2. fresh \notin adopted
      BY <2>1, <1>0 DEF SessionsInv, SessionTypes
    <3>3. ASSUME NEW t \in Token
          PROVE  /\ t > fresh => holder'[t] = NoOwner
                 /\ Begun(holder[t])' /\ holder'[t] \notin adopted
      <4>1. CASE t = fresh
        BY <4>1, <3>2, <2>1 DEF Begun
      <4>2. CASE t # fresh
        <5>1. Begun(holder[t])'
          BY <4>2, <2>1, <2>2, <1>0 DEF SessionsInv
        <5> QED BY <5>1, <4>2, <2>1, <1>0 DEF SessionsInv
      <4> QED BY <4>1, <4>2
    <3>4. \A b \in adopted : b <= fresh
      BY <2>1, <1>0 DEF SessionsInv, SessionTypes
    <3> QED BY <3>1, <3>3, <3>4, <2>1 DEF SessionsInv
  <2>4. RowTypes' /\ RowsInv'
    BY <2>2, <1>0, <1>1 DEF RowTypes, RowsInv
  <2>5. rec \in Registrations /\ reg' = [reg EXCEPT ![r] = rec]
    <3>1. holder'[cookie'] = fresh
      BY <2>1
    <3>2. reg[r] \in Registrations
      BY <1>0 DEF CallTypes
    <3>3. rec \in Registrations
      BY <3>1, <3>2, <2>1 DEF Registrations
    <3> QED BY <3>3, <1>0, <1>1 DEF CallTypes, Registrations
  <2>6. rec.step = "answered" /\ rec.account = fresh /\ rec.key = NoKey
    <3>1. holder'[cookie'] = fresh
      BY <2>1
    <3> QED BY <3>1, <1>0, <1>1 DEF CallTypes, Registrations, CallsInv, HasKey
  <2> HIDE DEF rec
  <2>7. reg'[r] = rec /\ \A q \in Registration \ {r} : reg'[q] = reg[q]
    BY <2>5, <1>0 DEF CallTypes
  <2>8. CallTypes' /\ BrowserTypes'
    BY <2>5, <1>0, <1>1 DEF CallTypes, BrowserTypes
  <2>9. CallsInv'
    <3>1. ASSUME NEW q \in Registration
          PROVE  /\ Begun(reg[q].account)'
                 /\ reg'[q].step # "idle" => reg'[q].account # NoOwner
                 /\ IF HasKey(q)' THEN reg'[q].key \in Kid ELSE reg'[q].key = NoKey
      <4>1. CASE q = r
        BY <4>1, <2>1, <2>6, <2>7 DEF Begun, HasKey
      <4>2. CASE q # r
        <5>1. reg'[q] = reg[q]
          BY <4>2, <2>7
        <5>2. Begun(reg[q].account)'
          BY <5>1, <2>2, <1>0 DEF CallsInv
        <5> QED BY <5>1, <5>2, <1>0 DEF CallsInv, HasKey
      <4> QED BY <4>1, <4>2
    <3>2. ASSUME NEW s \in SignOut
          PROVE  Begun(signing[s].account)' /\ signing'[s].session <= issued'
      <4>1. signing[s].session \in Nat
        <5>1. signing[s] \in SignOuts
          BY <1>0 DEF CallTypes
        <5>2. signing[s].session \in Token \cup {0}
          BY <5>1 DEF SignOuts
        <5>3. \A t \in Token \cup {0} : t \in Nat
          BY <1>0
        <5> QED BY <5>2, <5>3, Zenon
      <4> QED BY <4>1, <2>1, <1>0, <1>1 DEF CallsInv, Begun
    <3> QED BY <3>1, <3>2 DEF CallsInv
  <2>10. calm = {}
    <3> SUFFICES ASSUME NEW q \in calm PROVE FALSE
      OBVIOUS
    <3>1. CalmInv(q) /\ q \in Registration
      BY <1>0 DEF KInv, BrowserTypes
    <3>2. reg[q].account # NoOwner
      BY <3>1, <1>0 DEF CalmInv, CallsInv
    <3> QED BY <3>1, <3>2, <1>3 DEF CalmInv
  <2>11. ASSUME NEW s \in alone' PROVE AloneInv(s)'
    <3>1. AloneInv(s) /\ s \in SignOut
      BY <1>0, <1>1, <2>11 DEF KInv, BrowserTypes
    <3>2. \A b : Live(b)' = Live(b)
      BY <1>1 DEF Live
    <3>3. Account(cookie)' = fresh
      BY <2>1 DEF Account
    <3>4. Live(fresh) = {}
      BY <2>1, <1>0, <1>3 DEF Live, RowsInv, Begun
    <3>5. signing[s].account # fresh
      BY <3>1, <2>1, <1>0, <1>3 DEF CallsInv, Begun
    <3>6. \A q \in Registration : reg'[q].key \in {reg[q].key, NoKey} /\ (Served(q)'
            => Served(q) /\ reg'[q] = reg[q])
      BY <2>6, <2>7 DEF Served
    <3>7. OnlyKey(Account(cookie), signing[s].key)'
      BY <3>2, <3>3, <3>4 DEF OnlyKey
    <3>8. OnlyKey(signing[s].account, signing[s].key)' <=> OnlyKey(signing[s].account, signing[s].key)
      BY <3>2, <1>1 DEF OnlyKey
    <3> QED BY <3>1, <3>2, <3>3, <3>5, <3>6, <3>7, <3>8, <1>1 DEF AloneInv
  <2> QED BY <2>3, <2>4, <2>8, <2>9, <2>10, <2>11, <1>1, TypePartsAfter DEF KInv
<1> QED BY <1>1, <1>2, <1>3

\* One sign-out moves to another step.
LEMMA SignOutMoves ==
  ASSUME CallTypes, CallsInv, NEW s \in SignOut, NEW rec \in SignOuts,
         signing' = [signing EXCEPT ![s] = rec], UNCHANGED <<reg, issued>>,
         Begun(rec.account), rec.session <= issued
  PROVE  /\ CallTypes' /\ CallsInv' /\ signing'[s] = rec
         /\ \A o \in SignOut \ {s} : signing'[o] = signing[o]
<1>1. signing'[s] = rec /\ \A o \in SignOut \ {s} : signing'[o] = signing[o]
  BY DEF CallTypes
<1>2. CallTypes'
  BY DEF CallTypes
<1>3. ASSUME NEW o \in SignOut
      PROVE  Begun(signing[o].account)' /\ signing'[o].session <= issued'
  <2>1. CASE o = s
    BY <2>1, <1>1 DEF Begun
  <2>2. CASE o # s
    BY <2>2, <1>1 DEF CallsInv, Begun
  <2> QED BY <2>1, <2>2
<1>4. \A q \in Registration :
        /\ Begun(reg[q].account)'
        /\ reg'[q].step # "idle" => reg'[q].account # NoOwner
        /\ IF HasKey(q)' THEN reg'[q].key \in Kid ELSE reg'[q].key = NoKey
  BY DEF CallsInv, Begun, HasKey
<1> QED BY <1>1, <1>2, <1>3, <1>4 DEF CallsInv

\* An idle sign-out is one.
LEMMA IdleSignOutFacts ==
  ASSUME SessionTypes
  PROVE  /\ IdleSignOut \in SignOuts /\ Begun(IdleSignOut.account)
         /\ IdleSignOut.session <= issued /\ IdleSignOut.step = "idle"
<1>1. NoOwner \notin Token /\ Token \subseteq Nat \ {0}
  BY DeviceKeysAssumption DEF Owner
<1>2. issued \in Nat
  BY <1>1 DEF SessionTypes
<1> QED BY <1>1, <1>2 DEF IdleSignOut, SignOuts, Begun

\* takeKey() keeps the inductive invariant.
LEMMA TakeKeyStep ==
  ASSUME KInv, NEW s \in SignOut, takeKey(s)
  PROVE  KInv'
<1> DEFINE rec == [step |-> "taken", key |-> stored, count |-> mark.count + 1,
                   session |-> 0, account |-> NoOwner]
           first == /\ \A other \in SignOut : signing[other].step = "idle"
                    /\ mark.since = "none"
                    /\ \A k \in Kid \ {stored} :
                         k \notin Live(Account(cookie)) /\ \A r \in Registration : reg[r].key # k
<1>0. /\ BrowserTypes /\ SessionTypes /\ RowTypes /\ CallTypes /\ SessionsInv /\ RowsInv
      /\ CallsInv
      /\ NoOwner \notin Owner /\ Token \subseteq Nat \ {0}
  BY TypeParts, DeviceKeysAssumption DEF KInv
<1>1. /\ signing' = [signing EXCEPT ![s] = rec] /\ stored' = NoKey
      /\ mark' = [count |-> mark.count + 1, since |-> "running"]
      /\ calm' = {} /\ alone' = IF first THEN {s} ELSE {}
      /\ keyScene' = keyScene /\ reg' = reg /\ UNCHANGED <<sessions, keys>> /\ issued' = issued
  BY Zenon DEF takeKey, sessions
<1>2. /\ SessionTypes' /\ RowTypes' /\ SessionsInv' /\ RowsInv'
      /\ \A a : Live(a)' = Live(a) /\ Account(cookie)' = Account(cookie)
  BY <1>1, ServerStays
<1>3. mark.count \in Nat /\ issued \in Nat
  BY <1>0 DEF BrowserTypes, SessionTypes
<1>4. /\ rec \in SignOuts /\ Begun(rec.account) /\ rec.session <= issued
      /\ rec.step = "taken" /\ rec.key = stored
  BY <1>0, <1>3 DEF SignOuts, BrowserTypes, Begun, Owner
<1> HIDE DEF rec
<1>5. CallTypes' /\ CallsInv' /\ signing'[s] = rec /\ \A o \in SignOut \ {s} : signing'[o] = signing[o]
  BY <1>0, <1>1, <1>4, SignOutMoves
<1>6. alone' \subseteq {s} /\ (s \in alone' => first)
  BY <1>1
<1>7. BrowserTypes'
  BY <1>0, <1>1, <1>3, <1>6 DEF BrowserTypes
<1>8. ASSUME NEW o \in alone' PROVE AloneInv(o)'
  <2>1. o = s /\ first
    BY <1>6, <1>8
  <2>2. \A r \in Registration : reg[r].key \in Kid \cup {NoKey}
    BY <1>0 DEF CallTypes, Registrations
  <2>3. OnlyKey(Account(cookie), signing[s].key)'
    BY <2>1, <1>2, <1>4, <1>5 DEF OnlyKey
  <2>4. \A r \in Registration : reg'[r].key \in {signing'[s].key, NoKey}
    BY <2>1, <2>2, <1>1, <1>4, <1>5
  <2> QED BY <2>1, <2>3, <2>4, <1>1, <1>4, <1>5 DEF AloneInv
<1> QED BY <1>1, <1>2, <1>5, <1>7, <1>8, TypePartsAfter DEF KInv

\* release() and restore() keep the inductive invariant.
LEMMA EndStep ==
  ASSUME KInv, NEW s \in SignOut, NEW putBack \in BOOLEAN, end(s, putBack),
         signing[s].step # "idle"
  PROVE  KInv'
<1>0. /\ BrowserTypes /\ SessionTypes /\ RowTypes /\ CallTypes /\ SessionsInv /\ RowsInv
      /\ CallsInv
  BY TypeParts DEF KInv
<1>1. /\ mark' = IF mark.count = signing[s].count THEN [mark EXCEPT !.since = "none"] ELSE mark
      /\ stored' = IF putBack /\ signing[s].key # NoKey /\ stored = NoKey
           THEN signing[s].key ELSE stored
      /\ signing' = [signing EXCEPT ![s] = IdleSignOut]
      /\ alone' = alone \ {s} /\ calm' = {} /\ keyScene' = keyScene /\ reg' = reg
      /\ UNCHANGED <<sessions, keys>> /\ issued' = issued
  BY Zenon DEF end, sessions
<1>2. SessionTypes' /\ RowTypes' /\ SessionsInv' /\ RowsInv'
  BY <1>1, ServerStays
<1>3. CallTypes' /\ CallsInv'
  BY <1>0, <1>1, IdleSignOutFacts, SignOutMoves
<1>4. signing[s] \in SignOuts
  BY <1>0 DEF CallTypes
<1>5. BrowserTypes'
  BY <1>0, <1>1, <1>4 DEF BrowserTypes, SignOuts
<1>6. alone' = {}
  <2> SUFFICES ASSUME NEW o \in alone, o # s PROVE FALSE
    BY <1>1
  <2> QED BY DEF KInv, AloneInv
<1> QED BY <1>1, <1>2, <1>3, <1>5, <1>6, TypePartsAfter DEF KInv

\* What disturbs everything keeps the inductive invariant if it keeps its
\* other parts.
LEMMA DisturbedStep ==
  ASSUME KeysTypeOK', SessionsInv', RowsInv', CallsInv', calm' = {}, alone' = {}
  PROVE  KInv'
BY DEF KInv

\* CloseTab() keeps the inductive invariant.
LEMMA CloseTabStep ==
  ASSUME KInv, NEW s \in SignOut, CloseTab(s)
  PROVE  KInv'
<1>0. BrowserTypes /\ SessionTypes /\ CallTypes /\ CallsInv
  BY TypeParts DEF KInv
<1>1. /\ signing' = [signing EXCEPT ![s] = IdleSignOut] /\ calm' = {} /\ alone' = {}
      /\ UNCHANGED <<sessions, keys>> /\ reg' = reg /\ issued' = issued
      /\ keyScene' = keyScene /\ stored' = stored /\ mark' = mark
  BY Zenon DEF CloseTab, DisturbAll, browser, sessions
<1>2. SessionTypes' /\ RowTypes' /\ SessionsInv' /\ RowsInv'
  BY <1>1, ServerStays
<1>3. CallTypes' /\ CallsInv'
  BY <1>0, <1>1, IdleSignOutFacts, SignOutMoves
<1>4. BrowserTypes'
  BY <1>0, <1>1 DEF BrowserTypes
<1> QED BY <1>1, <1>2, <1>3, <1>4, DisturbedStep, TypePartsAfter

\* SignOutGetsOld keeps it.
LEMMA SignOutGetsOldStep ==
  ASSUME KInv, SignOutGetsOld
  PROVE  KInv'
<1>0. BrowserTypes /\ CallTypes /\ CallsInv
  BY TypeParts DEF KInv
<1>1. /\ mark' = [mark EXCEPT !.since = "old"] /\ calm' = {} /\ alone' = {}
      /\ UNCHANGED <<sessions, keys>> /\ reg' = reg /\ signing' = signing /\ issued' = issued
      /\ keyScene' = keyScene /\ stored' = stored
  BY Zenon DEF SignOutGetsOld, DisturbAll, sessions
<1>2. SessionTypes' /\ RowTypes' /\ SessionsInv' /\ RowsInv'
  BY <1>1, ServerStays
<1>3. CallTypes' /\ CallsInv'
  BY <1>0, <1>1 DEF CallTypes, CallsInv, Begun, HasKey
<1>4. BrowserTypes'
  BY <1>0, <1>1 DEF BrowserTypes
<1> QED BY <1>1, <1>2, <1>3, <1>4, DisturbedStep, TypePartsAfter

\* A session's end keeps what is said of the sessions.
LEMMA ExpireStep ==
  ASSUME KInv, Expire
  PROVE  KInv'
<1>0. BrowserTypes /\ SessionTypes /\ RowTypes /\ CallTypes /\ SessionsInv /\ RowsInv /\ CallsInv
      /\ NoOwner \notin Owner
  BY TypeParts, DeviceKeysAssumption DEF KInv
<1>1. /\ holder' = [holder EXCEPT ![cookie] = NoOwner] /\ calm' = {} /\ alone' = {}
      /\ reg' = reg /\ signing' = signing /\ issued' = issued /\ cookie' = cookie
      /\ adopted' = adopted
      /\ keyScene' = keyScene /\ stored' = stored /\ mark' = mark
      /\ keyOf' = keyOf /\ out' = out /\ revoked' = revoked /\ byAge' = byAge
  BY Zenon DEF Expire, DisturbAll, browser, keys
<1>2. SessionTypes' /\ RowTypes' /\ CallTypes' /\ BrowserTypes'
  BY <1>0, <1>1 DEF SessionTypes, RowTypes, CallTypes, BrowserTypes
<1>3. RowsInv' /\ CallsInv'
  BY <1>0, <1>1 DEF RowsInv, CallsInv, Begun, HasKey
<1>4. SessionsInv'
  <2>1. NoOwner \notin adopted /\ NoOwner \notin Token
    BY <1>0 DEF SessionTypes, Owner
  <2>2. \A t \in Token : holder'[t] = NoOwner \/ holder'[t] = holder[t]
    BY <1>0, <1>1 DEF SessionTypes
  <2> QED BY <2>1, <2>2, <1>0, <1>1 DEF SessionsInv, Begun
<1> QED BY <1>1, <1>2, <1>3, <1>4, DisturbedStep, TypePartsAfter

\* SignInAs() keeps the inductive invariant.
LEMMA SignInAsStep ==
  ASSUME KInv, NEW m \in Member, SignInAs(m)
  PROVE  KInv'
<1> DEFINE guest == Account(cookie)
           fresh == issued + 1
<1>0. BrowserTypes /\ SessionTypes /\ RowTypes /\ CallTypes /\ SessionsInv /\ RowsInv /\ CallsInv
      /\ NoOwner \notin Owner /\ Token \subseteq Nat \ {0} /\ Token \cap Member = {}
  BY TypeParts, DeviceKeysAssumption DEF KInv
<1>1. /\ guest \notin Member /\ fresh \in Token /\ issued' = fresh /\ cookie' = fresh
      /\ holder' = [t \in Token |-> IF t = issued' THEN m ELSE IF holder[t] = guest
           THEN NoOwner ELSE holder[t]]
      /\ adopted' = adopted \cup ({guest} \ {NoOwner})
      /\ keyOf' = [k \in AnyKid |-> IF guest # NoOwner /\ keyOf[k] = guest THEN m ELSE keyOf[k]]
      /\ calm' = {} /\ alone' = {} /\ reg' = reg /\ signing' = signing
      /\ keyScene' = keyScene /\ stored' = stored /\ mark' = mark
      /\ out' = out /\ revoked' = revoked /\ byAge' = byAge
  BY Zenon DEF SignInAs, DisturbAll, browser
<1>2. guest \in Owner \cup {NoOwner} /\ Begun(guest) /\ (guest # NoOwner => guest \in Token)
      /\ issued \in Nat /\ NoOwner \notin Token /\ m \in Owner /\ m \notin Token
  <2>1. issued \in Nat /\ NoOwner \notin Token /\ m \in Owner /\ m \notin Token
    BY <1>0 DEF SessionTypes, Owner
  <2>2. CASE cookie = 0
    BY <2>1, <2>2 DEF Account, Begun
  <2>3. CASE cookie # 0
    <3>1. cookie \in Token
      BY <2>3, <1>0 DEF SessionTypes
    <3>2. guest = holder[cookie]
      BY <2>3 DEF Account
    <3>3. holder[cookie] \in Owner \cup {NoOwner} /\ Begun(holder[cookie])
      BY <3>1, <1>0 DEF SessionTypes, SessionsInv
    <3> QED BY <3>2, <3>3, <2>1, <1>1 DEF Owner
  <2> QED BY <2>2, <2>3
<1> HIDE DEF guest
<1>3. SessionTypes' /\ RowTypes' /\ CallTypes' /\ BrowserTypes'
  BY <1>0, <1>1, <1>2 DEF SessionTypes, RowTypes, CallTypes, BrowserTypes
<1>4. ASSUME NEW b, Begun(b) PROVE Begun(b)'
  <2>1. \A t \in Token : t <= issued => t <= fresh
    BY <1>0, <1>2
  <2> QED BY <2>1, <1>1, <1>4 DEF Begun
<1>5. RowsInv'
  <2>1. ASSUME NEW k \in AnyKid
        PROVE  /\ keyOf'[k] = keyOf[k] \/ (keyOf'[k] = m /\ keyOf[k] = guest /\ guest # NoOwner)
               /\ Begun(keyOf[k])'
    <3>1. keyOf'[k] = keyOf[k] \/ (keyOf'[k] = m /\ keyOf[k] = guest /\ guest # NoOwner)
      BY <1>1
    <3>2. Begun(keyOf[k])
      BY <1>0 DEF RowsInv
    <3> QED BY <3>1, <3>2, <1>2, <1>4 DEF Begun
  <2> QED BY <2>1, <1>0, <1>1, <1>2 DEF RowsInv
<1>6. CallsInv'
  <2>1. \A s \in SignOut : signing[s].session <= fresh
    <3> TAKE s \in SignOut
    <3>1. signing[s] \in SignOuts
      BY <1>0 DEF CallTypes
    <3>2. signing[s].session \in Token \cup {0} /\ \A t \in Token \cup {0} : t \in Nat
      BY <3>1, <1>0 DEF SignOuts
    <3>3. signing[s].session \in Nat
      BY <3>2, Zenon
    <3> QED BY <3>3, <1>0, <1>2 DEF CallsInv
  <2>2. \A r \in Registration : Begun(reg[r].account)'
    BY <1>0, <1>1, <1>4 DEF CallsInv
  <2>3. \A s \in SignOut : Begun(signing[s].account)'
    BY <1>0, <1>1, <1>4 DEF CallsInv
  <2> QED BY <2>1, <2>2, <2>3, <1>0, <1>1 DEF CallsInv, HasKey
<1>7. SessionsInv'
  <2>1. m \notin adopted' /\ NoOwner \notin adopted'
    BY <1>0, <1>1, <1>2 DEF SessionTypes
  <2>2. ASSUME NEW t \in Token
        PROVE  /\ t > fresh => holder'[t] = NoOwner
               /\ Begun(holder[t])' /\ holder'[t] \notin adopted'
    <3>1. CASE holder'[t] = m /\ t = fresh
      BY <3>1, <2>1, <1>0, <1>2 DEF Begun
    <3>2. CASE holder'[t] = NoOwner
      BY <3>2, <2>1, <1>2 DEF Begun
    <3>3. CASE holder'[t] = holder[t] /\ holder[t] # guest
      <4>1. Begun(holder[t]) /\ holder[t] \notin adopted /\ (t > issued => holder[t] = NoOwner)
        BY <1>0 DEF SessionsInv
      <4>2. t > fresh => t > issued
        BY <1>0, <1>2
      <4> QED BY <3>3, <4>1, <4>2, <1>1, <1>4
    <3> QED BY <3>1, <3>2, <3>3, <1>1
  <2>3. \A b \in adopted' : b <= fresh
    BY <1>0, <1>1, <1>2 DEF SessionsInv, SessionTypes, Begun
  <2> QED BY <2>2, <2>3, <1>0, <1>1, <1>2 DEF SessionsInv
<1> QED BY <1>1, <1>3, <1>5, <1>6, <1>7, DisturbedStep, TypePartsAfter

\* Rows that change and add no live key of this browser keep the inductive
\* invariant of what runs alone.
LEMMA RowsMove ==
  ASSUME KInv, RowTypes', RowsInv', \A b \in Owner : Live(b)' \cap Kid \subseteq Live(b),
         UNCHANGED <<browser, sessions, reg, signing>>, Disturb
  PROVE  KInv'
<1>0. /\ BrowserTypes /\ SessionTypes /\ CallTypes /\ SessionsInv /\ CallsInv
      /\ NoOwner \notin Owner
  BY TypeParts, DeviceKeysAssumption DEF KInv
<1>1. /\ stored' = stored /\ mark' = mark /\ keyScene' = keyScene /\ signing' = signing
      /\ alone' = alone
      /\ cookie' = cookie /\ issued' = issued /\ holder' = holder /\ adopted' = adopted
      /\ reg' = reg /\ calm' = {}
  BY DEF browser, sessions, Disturb
<1>2. SessionTypes' /\ SessionsInv' /\ BrowserTypes' /\ CallTypes' /\ Account(cookie)' = Account(cookie)
  BY <1>0, <1>1 DEF SessionTypes, SessionsInv, BrowserTypes, CallTypes, Begun, Account
<1>3. CallsInv'
  BY <1>0, <1>1 DEF CallsInv, Begun, HasKey
<1>4. ASSUME NEW s \in alone' PROVE AloneInv(s)'
  <2>1. AloneInv(s) /\ s \in SignOut
    BY <1>0, <1>1, <1>4 DEF KInv, BrowserTypes
  <2>2. Account(cookie) \in Owner \cup {NoOwner} /\ signing[s].account \in Owner \cup {NoOwner}
    BY <2>1, <1>0 DEF CallTypes, SignOuts, Account, SessionTypes
  <2>3. ASSUME NEW b \in Owner \cup {NoOwner}, NEW j, OnlyKey(b, j) PROVE OnlyKey(b, j)'
    BY <2>3 DEF OnlyKey
  <2>4. signing[s].step = "ended" /\ signing[s].account # NoOwner
          => (Live(signing[s].account) \cap Kid)' = {}
    BY <2>1, <2>2, <1>1 DEF AloneInv
  <2>5. signing[s].step = "taken" => OnlyKey(Account(cookie), signing[s].key)'
    BY <2>1, <2>2, <2>3, <1>1, <1>2 DEF AloneInv
  <2>6. signing[s].step = "reading" => OnlyKey(signing[s].account, signing[s].key)'
    BY <2>1, <2>2, <2>3, <1>1 DEF AloneInv
  <2> QED BY <2>1, <2>4, <2>5, <2>6, <1>1, <1>2 DEF AloneInv, Served
<1> QED BY <1>1, <1>2, <1>3, <1>4, TypePartsAfter DEF KInv

\* revoke() keeps the inductive invariant.
LEMMA RevokeStep ==
  ASSUME KInv, NEW k \in AnyKid, revoke(k)
  PROVE  KInv'
<1>0. RowTypes /\ RowsInv
  BY TypeParts DEF KInv
<1>1. /\ keyOf[k] # NoOwner /\ revoked' = revoked \cup {k} /\ keyOf' = keyOf /\ out' = out
      /\ byAge' = byAge
      /\ Disturb /\ UNCHANGED <<browser, sessions, reg, signing>> /\ issued' = issued
  BY Zenon DEF revoke, sessions
<1>2. RowTypes' /\ RowsInv'
  BY <1>0, <1>1 DEF RowTypes, RowsInv, Begun
<1>3. \A b \in Owner : Live(b)' \cap Kid \subseteq Live(b)
  BY <1>1 DEF Live
<1> QED BY <1>1, <1>2, <1>3, RowsMove

\* OtherRegisters() keeps the inductive invariant.
LEMMA OtherRegistersStep ==
  ASSUME KInv, NEW k \in AnyKid, NEW m \in Member, OtherRegisters(k, m)
  PROVE  KInv'
<1>0. RowTypes /\ RowsInv /\ SessionTypes /\ Kid \cap OtherKid = {} /\ Token \cap Member = {}
  BY TypeParts, DeviceKeysAssumption DEF KInv
<1>1. /\ k \in OtherKid /\ register_key(k, m, Len(byAge))
      /\ Disturb /\ UNCHANGED <<browser, sessions, reg, signing>> /\ issued' = issued
  BY Zenon DEF OtherRegisters, sessions
<1>2. m \in Owner /\ Begun(m) /\ Len(byAge) \in Nat
  BY <1>0 DEF Owner, Begun, RowTypes
<1>3. /\ RowTypes' /\ revoked' = revoked
      /\ \A j \in AnyKid \ {k} : keyOf'[j] = keyOf[j]
      /\ keyOf'[k] = IF keyOf[k] = NoOwner THEN m ELSE keyOf[k]
      /\ \A j \in AnyKid : /\ j \in out' \cup revoked' => keyOf'[j] # NoOwner
                           /\ keyOf'[j] # NoOwner => j \in ToSet(byAge')
      /\ \A b \in Owner : Live(b)' \subseteq Live(b) \cup (IF b = m THEN {k} ELSE {})
  BY <1>0, <1>1, <1>2, RegisterKeyFacts
<1>4. RowsInv'
  BY <1>0, <1>1, <1>2, <1>3 DEF RowsInv, Begun
<1>5. \A b \in Owner : Live(b)' \cap Kid \subseteq Live(b)
  BY <1>0, <1>1, <1>3
<1> QED BY <1>1, <1>3, <1>4, <1>5, RowsMove

\* LogoutReads() keeps the inductive invariant.
LEMMA LogoutReadsStep ==
  ASSUME KInv, NEW s \in SignOut, LogoutReads(s)
  PROVE  KInv'
<1> DEFINE rec == [signing[s] EXCEPT !.step = "reading", !.session = cookie, !.account = Account(cookie)]
<1>0. /\ BrowserTypes /\ SessionTypes /\ RowTypes /\ CallTypes /\ SessionsInv /\ RowsInv
      /\ CallsInv
      /\ NoOwner \notin Token
  BY TypeParts, DeviceKeysAssumption DEF KInv, Owner
<1>1. /\ signing[s].step = "taken" /\ UNCHANGED <<sessions, keys>> /\ reg' = reg
      /\ signing' = [signing EXCEPT ![s].step = "reading", ![s].session = cookie, ![s].account = Account(cookie)]
      /\ stored' = stored /\ mark' = mark /\ keyScene' = keyScene /\ calm' = calm
      /\ alone' = alone
      /\ issued' = issued /\ keyOf' = keyOf /\ revoked' = revoked
  BY Zenon DEF LogoutReads, Undisturbed, browser, sessions, keys
<1>2. Account(cookie) \in Owner \cup {NoOwner} /\ Begun(Account(cookie)) /\ cookie \in Token \cup {0} /\ cookie <= issued
  BY <1>0 DEF Account, SessionTypes, SessionsInv, Begun
<1>3. rec \in SignOuts /\ signing' = [signing EXCEPT ![s] = rec]
  <2>1. signing[s] \in SignOuts
    BY <1>0 DEF CallTypes
  <2>2. rec \in SignOuts
    BY <2>1, <1>2 DEF SignOuts
  <2> QED BY <2>2, <1>0, <1>1 DEF CallTypes, SignOuts
<1>4. rec.step = "reading" /\ rec.session = cookie /\ rec.account = Account(cookie) /\ rec.key = signing[s].key
  BY <1>0 DEF CallTypes, SignOuts
<1> HIDE DEF rec
<1>5. CallTypes' /\ CallsInv' /\ signing'[s] = rec /\ \A o \in SignOut \ {s} : signing'[o] = signing[o]
  <2>1. Begun(rec.account) /\ rec.session <= issued
    BY <1>2, <1>4
  <2> QED BY <2>1, <1>0, <1>1, <1>3, SignOutMoves
<1>6. /\ SessionTypes' /\ RowTypes' /\ SessionsInv' /\ RowsInv'
      /\ \A a : Live(a)' = Live(a) /\ \A k : Lost(k, a)' <=> Lost(k, a)
      /\ Account(cookie)' = Account(cookie)
  BY <1>1, ServerStays
<1>7. BrowserTypes'
  BY <1>0, <1>1 DEF BrowserTypes
<1>8. ASSUME NEW o \in alone' PROVE AloneInv(o)'
  <2>1. AloneInv(o) /\ o = s
    BY <1>1, <1>8, <1>0 DEF KInv, AloneInv, BrowserTypes
  <2>2. ASSUME NEW a, NEW k, OnlyKey(a, k) PROVE OnlyKey(a, k)'
    BY <2>2, <1>6 DEF OnlyKey
  <2>3. OnlyKey(signing[s].account, signing[s].key)'
    BY <2>1, <2>2, <1>1, <1>4, <1>5 DEF AloneInv
  <2> QED BY <2>1, <2>3, <1>1, <1>4, <1>5 DEF AloneInv
<1>9. ASSUME NEW q \in calm' PROVE CalmInv(q)'
  <2>1. CalmInv(q)
    BY <1>1, <1>9 DEF KInv
  <2>2. \A k, a : Kept(k, a)' <=> Kept(k, a)
    BY <1>1 DEF Kept, Served
  <2> QED BY <2>1, <2>2, <1>1, <1>6 DEF CalmInv
<1> QED BY <1>5, <1>6, <1>7, <1>8, <1>9, TypePartsAfter DEF KInv

\* LogoutLost() keeps the inductive invariant.
LEMMA LogoutLostStep ==
  ASSUME KInv, NEW s \in SignOut, LogoutLost(s)
  PROVE  KInv'
<1> DEFINE rec == [signing[s] EXCEPT !.step = "failed"]
<1>0. BrowserTypes /\ SessionTypes /\ RowTypes /\ CallTypes /\ SessionsInv /\ RowsInv /\ CallsInv
  BY TypeParts DEF KInv
<1>1. /\ signing[s].step = "taken" /\ UNCHANGED <<sessions, keys>> /\ reg' = reg
      /\ signing' = [signing EXCEPT ![s].step = "failed"]
      /\ stored' = stored /\ mark' = mark /\ keyScene' = keyScene /\ calm' = calm
      /\ alone' = alone
      /\ issued' = issued /\ keyOf' = keyOf /\ revoked' = revoked
  BY Zenon DEF LogoutLost, Undisturbed, browser, sessions, keys
<1>2. signing[s] \in SignOuts
  BY <1>0 DEF CallTypes
<1>3. rec \in SignOuts /\ signing' = [signing EXCEPT ![s] = rec]
  BY <1>0, <1>1, <1>2 DEF CallTypes, SignOuts
<1>4. rec.step = "failed" /\ rec.session = signing[s].session /\ rec.account = signing[s].account
      /\ rec.key = signing[s].key
  BY <1>2 DEF SignOuts
<1> HIDE DEF rec
<1>5. CallTypes' /\ CallsInv' /\ signing'[s] = rec /\ \A o \in SignOut \ {s} : signing'[o] = signing[o]
  <2>1. Begun(rec.account) /\ rec.session <= issued
    BY <1>0, <1>4 DEF CallsInv
  <2> QED BY <2>1, <1>0, <1>1, <1>3, SignOutMoves
<1>6. /\ SessionTypes' /\ RowTypes' /\ SessionsInv' /\ RowsInv'
      /\ \A a : \A k : Lost(k, a)' <=> Lost(k, a)
      /\ Account(cookie)' = Account(cookie)
  BY <1>1, ServerStays
<1>7. BrowserTypes'
  BY <1>0, <1>1 DEF BrowserTypes
<1>8. ASSUME NEW o \in alone' PROVE AloneInv(o)'
  <2>1. AloneInv(o) /\ o = s
    BY <1>1, <1>8, <1>0 DEF KInv, AloneInv, BrowserTypes
  <2> QED BY <2>1, <1>1, <1>4, <1>5 DEF AloneInv
<1>9. ASSUME NEW q \in calm' PROVE CalmInv(q)'
  <2>1. CalmInv(q)
    BY <1>1, <1>9 DEF KInv
  <2>2. \A k, a : Kept(k, a)' <=> Kept(k, a)
    BY <1>1 DEF Kept, Served
  <2> QED BY <2>1, <2>2, <1>1, <1>6 DEF CalmInv
<1> QED BY <1>5, <1>6, <1>7, <1>8, <1>9, TypePartsAfter DEF KInv

\* sign_out_device() keeps the inductive invariant.
LEMMA SignOutDeviceStep ==
  ASSUME KInv, NEW s \in SignOut, sign_out_device(s)
  PROVE  KInv'
<1> DEFINE owner == signing[s].account
           gone == signing[s].session
           mine == signing[s].key
           next == IF signing' = [signing EXCEPT ![s].step = "ended"] /\ cookie' = 0
             THEN "ended" ELSE "failed"
           rec == [signing[s] EXCEPT !.step = next]
           served == \E r \in Registration : Served(r)
<1>0. /\ BrowserTypes /\ SessionTypes /\ RowTypes /\ CallTypes /\ SessionsInv /\ RowsInv
      /\ CallsInv
      /\ NoOwner \notin Owner /\ NoKey \notin AnyKid
  BY TypeParts, DeviceKeysAssumption DEF KInv
<1>1. /\ signing[s].step = "reading"
      /\ out' = IF owner # NoOwner /\ mine \in AnyKid /\ keyOf[mine] = owner
           THEN out \cup {mine} ELSE out
      /\ holder' = IF gone = 0 THEN holder ELSE [holder EXCEPT ![gone] = NoOwner]
      /\ \/ signing' = [signing EXCEPT ![s].step = "ended"] /\ cookie' = 0
         \/ signing' = [signing EXCEPT ![s].step = "failed"] /\ cookie' = cookie
      /\ calm' = {}
      /\ alone' = IF served THEN {} ELSE alone
      /\ stored' = stored /\ mark' = mark /\ keyScene' = keyScene /\ reg' = reg
      /\ issued' = issued /\ adopted' = adopted /\ keyOf' = keyOf /\ revoked' = revoked
      /\ byAge' = byAge
  BY Zenon DEF sign_out_device, browser, Served
<1>2. signing[s] \in SignOuts
  BY <1>0 DEF CallTypes
<1>3. /\ signing' = [signing EXCEPT ![s].step = next]
      /\ next = "ended" => cookie' = 0
      /\ next = "failed" => cookie' = cookie
      /\ next \in {"ended", "failed"}
  BY <1>1, Zenon
<1> HIDE DEF next
<1>4. rec \in SignOuts /\ signing' = [signing EXCEPT ![s] = rec]
  BY <1>0, <1>2, <1>3 DEF CallTypes, SignOuts
<1>5. rec.step = next /\ rec.session = gone /\ rec.account = owner /\ rec.key = mine
  BY <1>2 DEF SignOuts
<1> HIDE DEF rec
<1>6. CallTypes' /\ CallsInv' /\ signing'[s] = rec /\ \A o \in SignOut \ {s} : signing'[o] = signing[o]
  <2>1. Begun(rec.account) /\ rec.session <= issued
    BY <1>0, <1>5 DEF CallsInv
  <2> QED BY <2>1, <1>0, <1>1, <1>4, SignOutMoves
<1>7. gone \in Token \cup {0} /\ owner \in Owner \cup {NoOwner} /\ mine \in Kid \cup {NoKey}
  BY <1>2 DEF SignOuts
<1>8. /\ holder' \in [Token -> Owner \cup {NoOwner}]
      /\ \A t \in Token : holder'[t] = NoOwner \/ holder'[t] = holder[t]
  BY <1>0, <1>1, <1>7 DEF SessionTypes
<1>9. SessionTypes' /\ SessionsInv'
  <2>1. NoOwner \notin adopted /\ NoOwner \notin Token
    BY <1>0 DEF SessionTypes, Owner
  <2>2. SessionTypes'
    BY <1>0, <1>1, <1>3, <1>8 DEF SessionTypes
  <2>3. \A t \in Token : /\ t > issued => holder'[t] = NoOwner
                         /\ Begun(holder[t])' /\ holder'[t] \notin adopted
    BY <2>1, <1>0, <1>1, <1>8 DEF SessionsInv, Begun
  <2>4. cookie' <= issued
    <3>1. \A t \in Token \cup {0} : 0 <= t
      BY DeviceKeysAssumption
    <3> QED BY <3>1, <1>0, <1>3 DEF SessionsInv, SessionTypes
  <2> QED BY <2>2, <2>3, <2>4, <1>0, <1>1 DEF SessionsInv
<1>10. RowTypes' /\ RowsInv'
  BY <1>0, <1>1 DEF RowTypes, RowsInv, Begun
<1>11. BrowserTypes'
  BY <1>0, <1>1 DEF BrowserTypes
<1>12. ASSUME NEW o \in alone' PROVE AloneInv(o)'
  <2>1. AloneInv(o) /\ o = s /\ ~served
    <3>1. o \in alone /\ ~served
      BY <1>1, <1>12, Zenon
    <3>2. AloneInv(o) /\ o \in SignOut
      BY <3>1, <1>0 DEF KInv, BrowserTypes
    <3>3. o = s
      BY <3>2, <1>1 DEF AloneInv
    <3> QED BY <3>1, <3>2, <3>3
  <2>2. OnlyKey(owner, mine)
    BY <2>1, <1>1 DEF AloneInv
  <2>3. ASSUME NEW b \in Owner, b = owner, NEW k \in Kid, k \in Live(b)' PROVE FALSE
    <3>1. keyOf[k] = b /\ k \notin out' \cup revoked /\ k \in AnyKid
      BY <2>3, <1>1 DEF Live
    <3>2. out \subseteq out'
      BY <1>1
    <3>3. k \in Live(b)
      BY <3>1, <3>2 DEF Live
    <3>4. k = mine
      BY <3>3, <2>2, <2>3, <1>0 DEF OnlyKey
    <3>5. out' = out \cup {mine}
      BY <3>1, <3>4, <2>3, <1>0, <1>1
    <3> QED BY <3>1, <3>4, <3>5
  <2>4. /\ signing'[s].account = owner /\ signing'[s].key = mine /\ signing'[s].step = next
    BY <1>5, <1>6
  <2>5. next = "ended" /\ owner # NoOwner => (Live(signing[s].account) \cap Kid)' = {}
    <3> SUFFICES ASSUME owner # NoOwner, NEW k \in Kid, k \in Live(signing[s].account)'
                 PROVE  FALSE
      OBVIOUS
    <3>1. owner \in Owner /\ k \in Live(owner)'
      BY <2>4, <1>7
    <3> QED BY <3>1, <2>3, <2>4
  <2>6. next = "ended" => Account(cookie)' = NoOwner
    BY <1>3 DEF Account
  <2>7. \A r \in Registration : ~Served(r)'
    BY <2>1, <1>1 DEF Served
  <2> QED BY <2>1, <2>4, <2>5, <2>6, <2>7, <1>1, <1>3, <1>6 DEF AloneInv
<1> QED BY <1>1, <1>6, <1>9, <1>10, <1>11, <1>12, TypePartsAfter DEF KInv

\* The inductive invariant holds at first.
LEMMA InitKInv == KeysInit => KInv
<1> SUFFICES ASSUME KeysInit PROVE KInv
  OBVIOUS
<1>0. NoOwner \notin Owner /\ Token \subseteq Nat \ {0}
  BY DeviceKeysAssumption
<1>1. /\ keyScene \in KeyScenes /\ stored = NoKey /\ mark = [count |-> 0, since |-> "none"]
      /\ cookie = 0 /\ issued = 0 /\ holder = [t \in Token |-> NoOwner] /\ adopted = {}
      /\ keyOf = [k \in AnyKid |-> NoOwner] /\ out = {} /\ revoked = {} /\ byAge = <<>>
      /\ reg = [r \in Registration |-> IdleRegistration]
      /\ signing = [s \in SignOut |-> IdleSignOut] /\ calm = {} /\ alone = {}
  BY DEF KeysInit
<1>2. /\ IdleRegistration \in Registrations
      /\ IdleRegistration.step = "idle" /\ IdleRegistration.key = NoKey
      /\ IdleRegistration.account = NoOwner
  BY DEF IdleRegistration, Registrations
<1>3. /\ IdleSignOut \in SignOuts /\ IdleSignOut.session = 0 /\ IdleSignOut.account = NoOwner
  BY DEF IdleSignOut, SignOuts
<1>4. BrowserTypes /\ SessionTypes /\ CallTypes
  BY <1>1, <1>2, <1>3 DEF BrowserTypes, SessionTypes, CallTypes
<1>5. RowTypes
  BY <1>1 DEF RowTypes
<1>6. SessionsInv /\ RowsInv
  BY <1>0, <1>1 DEF SessionsInv, RowsInv, Begun, Owner
<1>7. CallsInv
  BY <1>0, <1>1, <1>2, <1>3 DEF CallsInv, Begun, Owner, HasKey
<1> QED BY <1>1, <1>4, <1>5, <1>6, <1>7, TypeParts DEF KInv

\* Every step keeps it.
LEMMA NextKInv == KInv /\ [KeysNext]_keyVars => KInv'
<1> SUFFICES ASSUME KInv, [KeysNext]_keyVars PROVE KInv'
  OBVIOUS
<1>1. ASSUME NEW r \in Registration,
             \/ StartSession(r) \/ registerDeviceKey(r) \/ createKey(r) \/ replaceKey(r)
             \/ require_account(r) \/ register(r) \/ RegisterUnanswered(r)
      PROVE  KInv'
  BY <1>1, StartSessionStep, RegisterDeviceKeyStep, CreateKeyStep, ReplaceKeyStep, RequireAccountStep,
     RegisterStep, RegisterUnansweredStep
<1>2. ASSUME NEW s \in SignOut, takeKey(s) \/ release(s) \/ restore(s) \/ CloseTab(s)
      PROVE  KInv'
  <2>1. CASE release(s)
    <3>1. signing[s].step # "idle" /\ end(s, FALSE)
      BY <2>1 DEF release
    <3> QED BY <3>1, EndStep
  <2>2. CASE restore(s)
    <3>1. signing[s].step # "idle" /\ end(s, TRUE)
      BY <2>2 DEF restore
    <3> QED BY <3>1, EndStep
  <2> QED BY <1>2, <2>1, <2>2, TakeKeyStep, CloseTabStep
<1>3. ASSUME NEW s \in SignOut, LogoutReads(s) \/ sign_out_device(s) \/ LogoutLost(s)
      PROVE  KInv'
  BY <1>3, LogoutReadsStep, SignOutDeviceStep, LogoutLostStep
<1>4. CASE SignOutGetsOld \/ Expire
  BY <1>4, SignOutGetsOldStep, ExpireStep
<1>5. CASE \E m \in Member : SignInAs(m)
  BY <1>5, SignInAsStep
<1>6. CASE \E k \in AnyKid : revoke(k) \/ \E m \in Member : OtherRegisters(k, m)
  BY <1>6, RevokeStep, OtherRegistersStep
<1>7. CASE UNCHANGED keyVars
  <2>1. /\ stored' = stored /\ mark' = mark /\ keyScene' = keyScene /\ signing' = signing
        /\ alone' = alone
        /\ cookie' = cookie /\ issued' = issued /\ holder' = holder /\ adopted' = adopted
        /\ reg' = reg /\ calm' = calm
        /\ keyOf' = keyOf /\ out' = out /\ revoked' = revoked /\ byAge' = byAge
    BY <1>7 DEF keyVars
  <2>2. KeysTypeOK' /\ SessionsInv' /\ RowsInv' /\ CallsInv'
    BY <2>1 DEF KInv, KeysTypeOK, SessionsInv, RowsInv, CallsInv, Begun, HasKey
  <2>3. ASSUME NEW s \in alone PROVE AloneInv(s)'
    <3>1. AloneInv(s)
      BY <2>3 DEF KInv
    <3> QED BY <2>1, <3>1 DEF AloneInv, OnlyKey, Live, Account, Served
  <2>4. ASSUME NEW r \in calm PROVE CalmInv(r)'
    <3>1. CalmInv(r)
      BY <2>4 DEF KInv
    <3> QED BY <2>1, <3>1 DEF CalmInv, Lost, Kept, Account, Served
  <2> QED BY <2>1, <2>2, <2>3, <2>4 DEF KInv
<1> QED BY <1>1, <1>2, <1>3, <1>4, <1>5, <1>6, <1>7 DEF KeysNext

\* The inductive invariant of the keys.
THEOREM KeysSpecIInv == KeysSpec => []KInv
<1> QED BY InitKInv, NextKInv, PTL DEF KeysSpec

\* A sign-out that nothing overlapped leaves no key of its browser live on
\* the account that it signed out.
THEOREM KeysAreConsistent == KeysSpec => []KeysInv
<1>1. KInv => KeysInv
  BY DEF KInv, KeysInv, SignOutLeavesNoKey, AloneInv
<1> QED BY <1>1, KeysSpecIInv, PTL

\* A commit of register() leaves a key that isn't revoked live and the
\* account within the cap.
LEMMA RegisterCommits ==
  ASSUME KInv, NEW r \in Registration, NEW a \in Owner, NEW k \in AnyKid, register(r),
         reg[r].account = a, reg[r].key = k, a \notin adopted, k \notin revoked, keyOf[k] \in {NoOwner, a}
  PROVE  k \in Live(a)' /\ Cardinality(Live(a)') <= LIVE_KEY_LIMIT
<1>0. RowTypes /\ RowsInv /\ CallTypes
  BY TypeParts DEF KInv
<1>1. register_key(k, a, reg[r].start)
  BY Zenon DEF register
<1>2. reg[r].start \in Nat
  BY <1>0 DEF CallTypes, Registrations
<1> QED BY <1>0, <1>1, <1>2, RegisterKeyFacts

\* A registration that is answered and that nothing but other registrations
\* disturbed leaves a key that works.
THEOREM RegistrationsHeal == KeysSpec => RegistrationHeals
<1>1. ASSUME KInv, NEW r \in calm, NEW a \in Owner, register(r), reg[r].account = a, reg'[r].step = "idle"
      PROVE  stored \in Live(a)'
  <2>0. BrowserTypes /\ SessionTypes /\ CallTypes /\ SessionsInv /\ CallsInv /\ NoOwner \notin Owner
    BY <1>1, TypeParts, DeviceKeysAssumption DEF KInv
  <2>1. r \in Registration /\ CalmInv(r) /\ reg[r].step \in {"served", "servedAgain"}
    BY <1>1, <2>0 DEF KInv, BrowserTypes, register
  <2>2. a \notin adopted
    <3>1. cookie \in Token /\ holder[cookie] = a
      BY <2>0, <2>1, <1>1 DEF CalmInv, Account, SessionTypes
    <3> QED BY <3>1, <2>0 DEF SessionsInv
  <2>3. reg[r].key \in Kid /\ reg[r].key \in AnyKid
    BY <2>0, <2>1 DEF CallsInv, HasKey, AnyKid
  <2>4. ~Lost(reg[r].key, a)
    <3>1. CASE reg[r].step = "servedAgain"
      BY <3>1, <2>1, <1>1 DEF CalmInv, Kept, Lost
    <3>2. CASE reg[r].step = "served"
      <4>1. reg' # [reg EXCEPT ![r].step = "replacing"]
        <5>1. reg' = [reg EXCEPT ![r].step = "replacing"] => reg'[r].step = "replacing"
          BY <2>0, <2>1 DEF CallTypes, Registrations
        <5> QED BY <5>1, <1>1
      <4>2. ~(keyOf[reg[r].key] \notin {NoOwner, reg[r].account} \/ reg[r].key \in revoked)
        BY <4>1, <3>2, <2>2, <1>1 DEF register
      <4> QED BY <4>2, <1>1 DEF Lost
    <3> QED BY <3>1, <3>2, <2>1
  <2>5. stored = reg[r].key
    BY <2>1, <2>4, <1>1 DEF CalmInv
  <2> QED BY <2>1, <2>2, <2>3, <2>4, <2>5, <1>1, RegisterCommits DEF Lost
<1>2. KInv /\ [KeysNext]_keyVars
      => [\A r \in calm, a \in Owner :
            register(r) /\ reg[r].account = a /\ reg'[r].step = "idle" => stored \in Live(a)']_keyVars
  BY <1>1
<1> QED BY <1>2, KeysSpecIInv, PTL DEF KeysSpec, RegistrationHeals

\* A registration of a key that isn't revoked never leaves its account past
\* the cap, and never signs its own key out.
THEOREM RegistrationsKeepTheCap == KeysSpec => CapKept
<1>1. ASSUME KInv, NEW r \in Registration, NEW a \in Owner \ adopted, NEW k \in Kid \ revoked,
             register(r), reg[r].account = a, reg[r].key = k, keyOf[k] \in {NoOwner, a}
      PROVE  k \in Live(a)' /\ Cardinality(Live(a)') <= LIVE_KEY_LIMIT
  <2>1. a \in Owner /\ a \notin adopted /\ k \in AnyKid /\ k \notin revoked
    BY DEF AnyKid
  <2> QED BY <2>1, <1>1, RegisterCommits
<1>2. KInv /\ [KeysNext]_keyVars
      => [\A r \in Registration, a \in Owner \ adopted, k \in Kid \ revoked :
            /\ register(r) /\ reg[r].account = a /\ reg[r].key = k /\ keyOf[k] \in {NoOwner, a}
            => k \in Live(a)' /\ Cardinality(Live(a)') <= LIVE_KEY_LIMIT]_keyVars
  BY <1>1
<1> QED BY <1>2, KeysSpecIInv, PTL DEF KeysSpec, CapKept

\* Both together.
THEOREM RegistrationsKeepKeys == KeysSpec => KeysKept
BY RegistrationsHeal, RegistrationsKeepTheCap DEF KeysKept
-----------------------------------------------------------------------------
(* The account that the tabs show. *)

RunSet == [saved : PageAccount \cup {Nobody}, current : BOOLEAN, tries : 0 .. MaxTries,
           step : {"racing", "following", "waiting"}]

\* The types of the service and the tabs.
ServiceTypes ==
  /\ sessionScene \in SessionScenes
  /\ jar \in Pass \cup {0} /\ passes \in Pass \cup {0} /\ valid \subseteq Pass
  /\ accountOf \in [Pass -> PageAccount \cup {Nobody}]
  /\ saved \in PageAccount \cup {Nobody}
  /\ overtaken \subseteq PageAccount /\ signedOut \subseteq PageAccount
TabTypes ==
  /\ data \in [Tab -> PageAccount \cup {Nobody}]
  /\ request \in [Tab -> [step : {"none", "sent", "served"}, pass : Pass \cup {0}]]
  /\ runs \in [Tab -> SUBSET RunSet]
  /\ listens \in [Tab -> BOOLEAN] /\ leaving \in [Tab -> {"no", "sent", "ended"}]
  /\ last \in [Tab -> [kind : {"none", "answered", "unreachable", "broken", "refused"},
                       account : PageAccount \cup {Nobody}]]
  /\ unheard \in [Tab -> SUBSET Pass]

\* Passes are numbered as they start, and one that did has an account.
Issued(p) == p \in Pass /\ p <= passes
PassesInv ==
  /\ jar <= passes /\ \A p \in valid : p <= passes
  /\ \A p \in Pass : p <= passes => accountOf[p] # Nobody

\* An answer on its way is of a pass that is valid or that a sign-out overtook,
\* and the only one that its tab has yet to hear.
RequestInv(t) ==
  /\ request[t].step = "served" => /\ Issued(request[t].pass)
                                   /\ request[t].pass \in valid \/ accountOf[request[t].pass] \in overtaken
  /\ request[t].step # "served" => request[t].pass = 0
  /\ unheard[t] \subseteq IF request[t].step = "served" THEN {request[t].pass} ELSE {}

\* A request on its way has a run that will take its answer: the query's current
\* one, or one that follows it after its wait is over.
RunsInv(t) ==
  /\ IF request[t].step = "none" THEN \A r \in runs[t] : r.step = "waiting"
     ELSE \E r \in runs[t] : r.current \/ r.step = "following"
  /\ leaving[t] # "no" => data[t] # Nobody

\* A tab that waits for nothing shows its last answer, or listens for the network.
ShownInv(t) ==
  request[t].step = "none" /\ ~Fetching(t) =>
    /\ last[t].kind = "answered" => data[t] = last[t].account
    /\ last[t].kind = "unreachable" /\ last[t].account # Nobody => listens[t]

TabInv(t) == RequestInv(t) /\ RunsInv(t) /\ ShownInv(t)

\* The inductive invariant of the sessions.
SInv ==
  /\ ServiceTypes /\ TabTypes /\ PassesInv
  /\ \A t \in Tab : TabInv(t)
  /\ ForgottenStaysForgotten

\* The passes are numbers.
LEMMA PassNumbers ==
  ASSUME ServiceTypes
  PROVE  /\ passes \in Nat /\ jar \in Nat /\ (\A p \in Pass : p \in Nat /\ p # 0)
         /\ Nobody \notin PageAccount
         /\ Pass \subseteq PageAccount /\ Person \subseteq PageAccount /\ MaxTries \in Nat
BY ClientSessionAssumption DEF ServiceTypes, PageAccount

\* The inductive invariant holds at first.
LEMMA InitSInv == SessionInit => SInv
<1> SUFFICES ASSUME SessionInit PROVE SInv
  OBVIOUS
<1>1. /\ sessionScene \in SessionScenes
      /\ jar = 0 /\ passes = 0 /\ accountOf = [p \in Pass |-> Nobody] /\ valid = {}
      /\ saved \in {Nobody} \cup Person
      /\ data = [t \in Tab |-> Nobody] /\ request = [t \in Tab |-> NoRequest]
      /\ runs = [t \in Tab |-> {}] /\ listens = [t \in Tab |-> FALSE]
      /\ leaving = [t \in Tab |-> "no"]
      /\ last = [t \in Tab |-> NoOutcome] /\ unheard = [t \in Tab |-> {}] /\ overtaken = {}
      /\ signedOut = {}
  BY DEF SessionInit
<1>2. ServiceTypes
  BY <1>1 DEF ServiceTypes, PageAccount
<1>3. TabTypes
  BY <1>1 DEF TabTypes, NoRequest, NoOutcome
<1>4. PassesInv
  BY <1>1, ClientSessionAssumption DEF PassesInv
<1>5. ASSUME NEW t \in Tab PROVE TabInv(t)
  BY <1>1 DEF TabInv, RequestInv, RunsInv, ShownInv, NoRequest, NoOutcome
<1> QED BY <1>1, <1>2, <1>3, <1>4, <1>5 DEF SInv, ForgottenStaysForgotten

\* A tab that a step leaves alone.
LEMMA TabStays ==
  ASSUME NEW u \in Tab, TabInv(u), request'[u] = request[u], runs'[u] = runs[u],
         data'[u] = data[u],
         listens'[u] = listens[u], leaving'[u] = leaving[u], last'[u] = last[u], unheard'[u] = unheard[u],
         request[u].step = "served" =>
           /\ Issued(request[u].pass)' /\ accountOf'[request[u].pass] = accountOf[request[u].pass]
           /\ request[u].pass \in valid => request[u].pass \in valid' \/ accountOf[request[u].pass] \in overtaken'
           /\ overtaken \subseteq overtaken'
  PROVE  TabInv(u)'
<1>1. RequestInv(u)'
  BY DEF TabInv, RequestInv
<1>2. RunsInv(u)' /\ ShownInv(u)'
  BY DEF TabInv, RunsInv, ShownInv, Fetching
<1> QED BY <1>1, <1>2 DEF TabInv

\* What a new run of the query leaves.
LEMMA QueryFacts ==
  ASSUME SInv, NEW t \in Tab, NEW kept \in SUBSET RunSet, NEW tries \in 0 .. MaxTries, queryFn(t,
         kept, tries)
  PROVE  /\ request' \in [Tab -> [step : {"none", "sent", "served"}, pass : Pass \cup {0}]]
         /\ runs' \in [Tab -> SUBSET RunSet]
         /\ request'[t].step = IF request[t].step = "none" THEN "sent" ELSE request[t].step
         /\ request'[t].pass = request[t].pass
         /\ runs'[t] = kept \cup {Run(saved, tries)} /\ Run(saved, tries).current
         /\ \A u \in Tab \ {t} : request'[u] = request[u] /\ runs'[u] = runs[u]
<1>1. Run(saved, tries) \in RunSet /\ Run(saved, tries).current
  BY DEF Run, RunSet, SInv, ServiceTypes
<1>2. /\ request' = IF request[t].step = "none" THEN [request EXCEPT ![t].step = "sent"] ELSE request
      /\ runs' = [runs EXCEPT ![t] = kept \cup {Run(saved, tries)}]
  BY Zenon DEF queryFn, startSession
<1>3. TabTypes
  BY DEF SInv
<1>4. /\ runs' \in [Tab -> SUBSET RunSet] /\ runs'[t] = kept \cup {Run(saved, tries)}
      /\ \A u \in Tab \ {t} : runs'[u] = runs[u]
  BY <1>1, <1>2, <1>3 DEF TabTypes
<1>5. CASE request[t].step = "none"
  <2>1. request' = [request EXCEPT ![t].step = "sent"]
    BY <1>2, <1>5
  <2>2. request[t] \in [step : {"none", "sent", "served"}, pass : Pass \cup {0}]
    BY <1>3 DEF TabTypes
  <2> DEFINE sent == [request[t] EXCEPT !.step = "sent"]
  <2>3. /\ sent \in [step : {"none", "sent", "served"}, pass : Pass \cup {0}]
        /\ sent.step = "sent" /\ sent.pass = request[t].pass
    BY <2>2
  <2> HIDE DEF sent
  <2>4. request' = [request EXCEPT ![t] = sent]
    BY <2>1 DEF sent
  <2>5. /\ request' \in [Tab -> [step : {"none", "sent", "served"}, pass : Pass \cup {0}]]
        /\ request'[t] = sent /\ \A u \in Tab \ {t} : request'[u] = request[u]
    BY <2>3, <2>4, <1>3 DEF TabTypes
  <2> QED BY <2>3, <2>5, <1>1, <1>4, <1>5
<1>6. CASE request[t].step # "none"
  <2>1. request' = request
    BY <1>2, <1>6
  <2> QED BY <2>1, <1>1, <1>3, <1>4, <1>6 DEF TabTypes
<1> QED BY <1>5, <1>6

\* A new run in a tab keeps the inductive invariant.
LEMMA QueryStep ==
  ASSUME SInv, NEW t \in Tab, NEW kept \in SUBSET RunSet, NEW tries \in 0 .. MaxTries, queryFn(t,
         kept, tries),
         UNCHANGED <<service, saved, data, leaving, histories>>,
         listens' \in [Tab -> BOOLEAN], \A u \in Tab \ {t} : listens'[u] = listens[u]
  PROVE  SInv'
<1>1. /\ sessionScene' = sessionScene /\ jar' = jar /\ passes' = passes /\ accountOf' = accountOf
      /\ valid' = valid
      /\ saved' = saved /\ data' = data /\ leaving' = leaving
      /\ last' = last /\ unheard' = unheard /\ overtaken' = overtaken /\ signedOut' = signedOut
  BY DEF service, histories
<1>2. /\ request' \in [Tab -> [step : {"none", "sent", "served"}, pass : Pass \cup {0}]]
      /\ runs' \in [Tab -> SUBSET RunSet]
      /\ request'[t].step = IF request[t].step = "none" THEN "sent" ELSE request[t].step
      /\ request'[t].pass = request[t].pass
      /\ runs'[t] = kept \cup {Run(saved, tries)} /\ Run(saved, tries).current
      /\ \A u \in Tab \ {t} : request'[u] = request[u] /\ runs'[u] = runs[u]
  BY QueryFacts
<1>3. ServiceTypes' /\ TabTypes' /\ PassesInv' /\ ForgottenStaysForgotten'
  BY <1>1, <1>2 DEF SInv, ServiceTypes, TabTypes, PassesInv, ForgottenStaysForgotten
<1>4. ASSUME NEW u \in Tab PROVE TabInv(u)'
  <2>1. TabInv(u)
    BY DEF SInv
  <2>2. CASE u # t
    BY <2>1, <2>2, <1>1, <1>2, TabStays DEF TabInv, RequestInv, Issued
  <2>3. CASE u = t
    <3>1. RequestInv(u)'
      BY <2>1, <2>3, <1>1, <1>2 DEF TabInv, RequestInv, Issued
    <3>2. request'[t].step # "none" /\ \E r \in runs'[t] : r.current
      BY <1>2, <2>3
    <3> QED BY <2>1, <2>3, <3>1, <3>2, <1>1 DEF TabInv, RunsInv, ShownInv
  <2> QED BY <2>2, <2>3
<1> QED BY <1>3, <1>4 DEF SInv

\* Load() keeps the inductive invariant.
LEMMA LoadStep ==
  ASSUME SInv, NEW t \in Tab, Load(t)
  PROVE  SInv'
<1>1. queryFn(t, runs[t], 0) /\ UNCHANGED <<service, saved, data, leaving, histories>> /\ listens' = listens
  BY Zenon DEF Load
<1>2. runs[t] \in SUBSET RunSet /\ 0 \in 0 .. MaxTries /\ listens \in [Tab -> BOOLEAN]
  BY PassNumbers DEF SInv, TabTypes
<1> QED BY <1>1, <1>2, QueryStep

\* Refetch() keeps it.
LEMMA RefetchStep ==
  ASSUME SInv, NEW t \in Tab, Refetch(t), UNCHANGED <<service, saved, data, leaving, histories>>,
         listens' \in [Tab -> BOOLEAN], \A u \in Tab \ {t} : listens'[u] = listens[u]
  PROVE  SInv'
<1> DEFINE kept == {[r EXCEPT !.current = FALSE] : r \in {x \in runs[t] : x.step # "waiting"}}
<1>1. CASE ~(data[t] = Nobody /\ Fetching(t))
  <2>1. queryFn(t, kept, 0)
    BY <1>1 DEF Refetch
  <2>2. runs[t] \subseteq RunSet /\ 0 \in 0 .. MaxTries
    BY PassNumbers DEF SInv, TabTypes
  <2>3. kept \in SUBSET RunSet
    BY <2>2 DEF RunSet
  <2> QED BY <2>1, <2>2, <2>3, QueryStep
<1>2. CASE data[t] = Nobody /\ Fetching(t)
  <2>1. request' = request /\ runs' = runs
    BY <1>2 DEF Refetch
  <2>2. /\ sessionScene' = sessionScene /\ jar' = jar /\ passes' = passes
        /\ accountOf' = accountOf /\ valid' = valid
        /\ saved' = saved /\ data' = data /\ leaving' = leaving
        /\ last' = last /\ unheard' = unheard /\ overtaken' = overtaken /\ signedOut' = signedOut
    BY DEF service, histories
  <2>3. ServiceTypes' /\ TabTypes' /\ PassesInv' /\ ForgottenStaysForgotten'
    BY <2>1, <2>2 DEF SInv, ServiceTypes, TabTypes, PassesInv, ForgottenStaysForgotten
  <2>4. ASSUME NEW u \in Tab PROVE TabInv(u)'
    <3>1. TabInv(u)
      BY DEF SInv
    <3>2. CASE u # t
      BY <3>1, <3>2, <2>1, <2>2, TabStays DEF TabInv, RequestInv, Issued
    <3>3. CASE u = t
      <4>1. Fetching(t)'
        BY <1>2, <2>1 DEF Fetching
      <4> QED BY <3>1, <3>3, <4>1, <2>1, <2>2 DEF TabInv, RequestInv, RunsInv, ShownInv, Issued
    <3> QED BY <3>2, <3>3
  <2> QED BY <2>3, <2>4 DEF SInv
<1> QED BY <1>1, <1>2

\* refreshSession() keeps the inductive invariant.
LEMMA RefreshSessionStep ==
  ASSUME SInv, NEW t \in Tab, refreshSession(t)
  PROVE  SInv'
<1>1. Refetch(t) /\ UNCHANGED <<service, saved, data, leaving, histories>> /\ listens' = listens
  BY Zenon DEF refreshSession
<1>2. listens \in [Tab -> BOOLEAN]
  BY DEF SInv, TabTypes
<1> QED BY <1>1, <1>2, RefetchStep

\* Online() keeps it.
LEMMA OnlineStep ==
  ASSUME SInv, NEW t \in Tab, Online(t)
  PROVE  SInv'
<1>1. /\ Refetch(t) /\ UNCHANGED <<service, saved, data, leaving, histories>>
      /\ listens' = [listens EXCEPT ![t] = FALSE]
  BY Zenon DEF Online
<1>2. listens' \in [Tab -> BOOLEAN] /\ \A u \in Tab \ {t} : listens'[u] = listens[u]
  BY <1>1 DEF SInv, TabTypes
<1> QED BY <1>1, <1>2, RefetchStep

\* Retry() keeps it.
LEMMA RetryStep ==
  ASSUME SInv, NEW t \in Tab, Retry(t)
  PROVE  SInv'
<1>1. PICK r \in runs[t] : /\ r.step = "waiting" /\ r.current
                           /\ queryFn(t, runs[t] \ {r}, r.tries)
                           /\ UNCHANGED <<service, saved, data, listens, leaving, histories>>
  BY Zenon DEF Retry
<1>2. runs[t] \ {r} \in SUBSET RunSet /\ r \in RunSet
  BY DEF SInv, TabTypes
<1>3. r.tries \in 0 .. MaxTries /\ listens \in [Tab -> BOOLEAN]
  BY <1>2 DEF RunSet, SInv, TabTypes
<1>4. UNCHANGED <<service, saved, data, leaving, histories>> /\ listens' = listens
  BY <1>1
<1> QED BY <1>1, <1>2, <1>3, <1>4, QueryStep

\* Slow() keeps it.
LEMMA SlowStep ==
  ASSUME SInv, NEW t \in Tab, Slow(t)
  PROVE  SInv'
<1>1. PICK r \in runs[t] :
        /\ r.step = "racing" /\ r.saved # Nobody
        /\ runs' = [runs EXCEPT ![t] = (@ \ {r}) \cup {[r EXCEPT !.step = "following", !.current = FALSE]}]
        /\ data' = IF r.current THEN [data EXCEPT ![t] = r.saved] ELSE data
        /\ UNCHANGED <<service, saved, request, listens, leaving, histories>>
  BY Zenon DEF Slow
<1> DEFINE slow == [r EXCEPT !.step = "following", !.current = FALSE]
<1>2. /\ sessionScene' = sessionScene /\ jar' = jar /\ passes' = passes /\ accountOf' = accountOf
      /\ valid' = valid
      /\ saved' = saved /\ leaving' = leaving /\ request' = request /\ listens' = listens
      /\ last' = last /\ unheard' = unheard /\ overtaken' = overtaken /\ signedOut' = signedOut
  BY <1>1 DEF service, histories
<1>3. r \in RunSet /\ TabTypes
  BY DEF SInv, TabTypes
<1>4. slow \in RunSet /\ slow.step = "following" /\ r.saved \in PageAccount \cup {Nobody}
  BY <1>3 DEF RunSet
<1> HIDE DEF slow
<1>5. /\ runs' \in [Tab -> SUBSET RunSet] /\ runs'[t] = (runs[t] \ {r}) \cup {slow}
      /\ \A u \in Tab \ {t} : runs'[u] = runs[u]
  BY <1>1, <1>3, <1>4 DEF TabTypes, slow
<1>6. /\ data' \in [Tab -> PageAccount \cup {Nobody}] /\ \A u \in Tab \ {t} : data'[u] = data[u]
      /\ data'[t] = r.saved \/ data'[t] = data[t]
  BY <1>1, <1>3, <1>4 DEF TabTypes
<1>7. ServiceTypes' /\ TabTypes' /\ PassesInv' /\ ForgottenStaysForgotten'
  BY <1>2, <1>5, <1>6 DEF SInv, ServiceTypes, TabTypes, PassesInv, ForgottenStaysForgotten
<1>8. ASSUME NEW u \in Tab PROVE TabInv(u)'
  <2>1. TabInv(u)
    BY DEF SInv
  <2>2. CASE u # t
    BY <2>1, <2>2, <1>2, <1>5, <1>6, TabStays DEF TabInv, RequestInv, Issued
  <2>3. CASE u = t
    <3>1. request[t].step # "none"
      BY <2>1, <2>3, <1>1 DEF TabInv, RunsInv
    <3>2. RequestInv(u)'
      BY <2>1, <2>3, <1>2 DEF TabInv, RequestInv, Issued
    <3>3. RunsInv(u)'
      BY <2>1, <2>3, <3>1, <1>1, <1>2, <1>4, <1>5, <1>6 DEF TabInv, RunsInv
    <3> QED BY <2>3, <3>1, <3>2, <3>3, <1>2 DEF TabInv, ShownInv
  <2> QED BY <2>2, <2>3
<1> QED BY <1>7, <1>8 DEF SInv

\* ServeSession() keeps the inductive invariant.
LEMMA ServeSessionStep ==
  ASSUME SInv, NEW t \in Tab, ServeSession(t)
  PROVE  SInv'
<1> DEFINE fresh == passes + 1
           rec(p) == [step |-> "served", pass |-> p]
<1>0. /\ ServiceTypes /\ TabTypes /\ PassesInv
      /\ passes \in Nat /\ jar \in Nat /\ (\A p \in Pass : p \in Nat /\ p # 0)
      /\ Nobody \notin PageAccount
      /\ Pass \subseteq PageAccount
  BY PassNumbers DEF SInv
<1>1. /\ request[t].step = "sent"
      /\ sessionScene' = sessionScene /\ jar' = jar /\ saved' = saved /\ data' = data
      /\ runs' = runs
      /\ listens' = listens /\ leaving' = leaving /\ last' = last
      /\ overtaken' = overtaken /\ signedOut' = signedOut
      /\ \/ /\ jar \in valid /\ request' = [request EXCEPT ![t] = rec(jar)]
            /\ passes' = passes /\ accountOf' = accountOf /\ valid' = valid /\ unheard' = unheard
         \/ /\ fresh \in Pass /\ passes' = fresh
            /\ accountOf' = [accountOf EXCEPT ![fresh] = fresh]
            /\ valid' = valid \cup {fresh}
            /\ unheard' = [unheard EXCEPT ![t] = @ \cup {fresh}]
            /\ request' = [request EXCEPT ![t] = rec(fresh)]
  BY DEF ServeSession
<1>2. PICK p \in Pass :
        /\ request' = [request EXCEPT ![t] = rec(p)] /\ p \in valid' /\ p <= passes'
        /\ passes <= passes'
        /\ passes' \in Pass /\ valid' \subseteq valid \cup {p} /\ valid \subseteq valid'
        /\ accountOf' \in [Pass -> PageAccount \cup {Nobody}]
        /\ \A o \in Pass : (o <= passes => accountOf'[o] = accountOf[o])
                           /\ (o <= passes' /\ o > passes => accountOf'[o] # Nobody)
        /\ unheard' \in [Tab -> SUBSET Pass] /\ unheard'[t] \subseteq unheard[t] \cup {p}
        /\ \A u \in Tab \ {t} : unheard'[u] = unheard[u]
  <2>1. CASE /\ jar \in valid /\ request' = [request EXCEPT ![t] = rec(jar)]
             /\ passes' = passes /\ accountOf' = accountOf /\ valid' = valid /\ unheard' = unheard
    <3>1. jar \in Pass /\ jar <= passes /\ passes \in Pass
      BY <2>1, <1>0 DEF ServiceTypes, PassesInv
    <3>2. \A o \in Pass : (o <= passes => accountOf'[o] = accountOf[o])
                          /\ (o <= passes' /\ o > passes => accountOf'[o] # Nobody)
      BY <2>1, <1>0
    <3>3. unheard' \in [Tab -> SUBSET Pass] /\ accountOf' \in [Pass -> PageAccount \cup {Nobody}]
      BY <2>1, <1>0 DEF TabTypes, ServiceTypes
    <3>4. /\ jar \in valid' /\ jar <= passes' /\ passes <= passes' /\ passes' \in Pass
          /\ valid' \subseteq valid \cup {jar} /\ valid \subseteq valid'
          /\ unheard'[t] \subseteq unheard[t] \cup {jar}
          /\ \A u \in Tab \ {t} : unheard'[u] = unheard[u]
      BY <2>1, <3>1, <1>0
    <3> HIDE DEF rec
    <3> QED BY <2>1, <3>1, <3>2, <3>3, <3>4
  <2>2. CASE /\ fresh \in Pass /\ passes' = fresh
             /\ accountOf' = [accountOf EXCEPT ![fresh] = fresh]
             /\ valid' = valid \cup {fresh}
             /\ unheard' = [unheard EXCEPT ![t] = @ \cup {fresh}]
             /\ request' = [request EXCEPT ![t] = rec(fresh)]
    <3>1. /\ accountOf' \in [Pass -> PageAccount \cup {Nobody}]
          /\ \A o \in Pass : (o <= passes => accountOf'[o] = accountOf[o])
                             /\ (o <= passes' /\ o > passes => accountOf'[o] # Nobody)
      <4>1. accountOf' \in [Pass -> PageAccount \cup {Nobody}]
        BY <2>2, <1>0 DEF ServiceTypes
      <4>2. ASSUME NEW o \in Pass PROVE accountOf'[o] = IF o = fresh THEN fresh ELSE accountOf[o]
        BY <2>2, <1>0 DEF ServiceTypes
      <4>3. fresh # Nobody /\ ~(fresh <= passes) /\ \A o \in Pass : o <= passes' /\ o > passes
              => o = fresh
        BY <2>2, <1>0
      <4> QED BY <4>1, <4>2, <4>3
    <3>2. /\ unheard' \in [Tab -> SUBSET Pass] /\ unheard'[t] = unheard[t] \cup {fresh}
          /\ \A u \in Tab \ {t} : unheard'[u] = unheard[u]
      BY <2>2, <1>0 DEF TabTypes
    <3>3. fresh \in valid' /\ fresh <= passes' /\ passes <= passes' /\ valid \subseteq valid'
      BY <2>2, <1>0
    <3> QED BY <2>2, <3>1, <3>2, <3>3
  <2> QED BY <1>1, <2>1, <2>2
<1>3. /\ request' \in [Tab -> [step : {"none", "sent", "served"}, pass : Pass \cup {0}]]
      /\ request'[t].step = "served" /\ request'[t].pass = p
      /\ \A u \in Tab \ {t} : request'[u] = request[u]
  BY <1>0, <1>2 DEF TabTypes
<1>4. ServiceTypes' /\ TabTypes' /\ PassesInv' /\ ForgottenStaysForgotten'
  <2>1. ServiceTypes' /\ TabTypes'
    BY <1>0, <1>1, <1>2, <1>3 DEF ServiceTypes, TabTypes
  <2>2. passes' \in Nat
    BY <1>0, <1>2
  <2>3. jar' <= passes'
    BY <2>2, <1>0, <1>1, <1>2 DEF PassesInv
  <2>4. \A o \in valid' : o <= passes'
    BY <2>2, <1>0, <1>2 DEF PassesInv, ServiceTypes
  <2>5. \A o \in Pass : o <= passes' => accountOf'[o] # Nobody
    <3> TAKE o \in Pass
    <3>1. CASE o <= passes
      BY <3>1, <1>0, <1>2 DEF PassesInv
    <3>2. CASE o > passes
      BY <3>2, <1>2
    <3> QED BY <3>1, <3>2, <1>0
  <2> QED BY <2>1, <2>3, <2>4, <2>5, <1>1 DEF PassesInv, SInv, ForgottenStaysForgotten
<1>5. ASSUME NEW u \in Tab PROVE TabInv(u)'
  <2>1. TabInv(u)
    BY DEF SInv
  <2>2. CASE u # t
    <3>1. request[u].step = "served" =>
            /\ Issued(request[u].pass)'
            /\ accountOf'[request[u].pass] = accountOf[request[u].pass]
            /\ request[u].pass \in valid
                 => request[u].pass \in valid' \/ accountOf[request[u].pass] \in overtaken'
            /\ overtaken \subseteq overtaken'
      <4> SUFFICES ASSUME request[u].step = "served"
                   PROVE  /\ Issued(request[u].pass)'
                          /\ accountOf'[request[u].pass] = accountOf[request[u].pass]
                          /\ request[u].pass \in valid => request[u].pass \in valid'
        BY <1>1
      <4>1. request[u].pass \in Pass /\ request[u].pass <= passes
        BY <2>1 DEF TabInv, RequestInv, Issued
      <4>2. request[u].pass <= passes'
        BY <4>1, <1>0, <1>2
      <4> QED BY <4>1, <4>2, <2>2, <1>2, <1>3 DEF Issued
    <3> QED BY <2>1, <2>2, <3>1, <1>1, <1>2, <1>3, TabStays
  <2>3. CASE u = t
    <3>1. unheard[t] = {}
      BY <2>1, <2>3, <1>1 DEF TabInv, RequestInv
    <3>2. RequestInv(u)'
      BY <2>3, <3>1, <1>2, <1>3 DEF RequestInv, Issued
    <3>3. RunsInv(u)'
      BY <2>1, <2>3, <1>1, <1>3 DEF TabInv, RunsInv
    <3> QED BY <2>3, <3>2, <3>3, <1>3 DEF TabInv, ShownInv
  <2> QED BY <2>2, <2>3
<1> QED BY <1>4, <1>5 DEF SInv

\* A tab without a request, whose runs wait, after its request was answered,
\* failed or left.
LEMMA RequestOver ==
  ASSUME NEW t \in Tab, request'[t] = NoRequest, unheard'[t] = {},
         \A r \in runs'[t] : r.step = "waiting",
         leaving'[t] # "no" => data'[t] # Nobody,
         ~Fetching(t)' => /\ last'[t].kind = "answered" => data'[t] = last'[t].account
                          /\ last'[t].kind = "unreachable" /\ last'[t].account # Nobody => listens'[t]
  PROVE  TabInv(t)'
<1>1. NoRequest.step = "none" /\ NoRequest.pass = 0
  BY DEF NoRequest
<1> QED BY <1>1 DEF TabInv, RequestInv, RunsInv, ShownInv

\* Answered() keeps the inductive invariant.
LEMMA AnsweredStep ==
  ASSUME SInv, NEW t \in Tab, Answered(t)
  PROVE  SInv'
<1> DEFINE p == request[t].pass
           account == accountOf[p]
           some == \E r \in runs[t] : r.current \/ r.step = "following"
<1>0. /\ ServiceTypes /\ TabTypes /\ PassesInv /\ TabInv(t)
      /\ passes \in Nat /\ jar \in Nat /\ (\A o \in Pass : o \in Nat /\ o # 0)
      /\ Nobody \notin PageAccount
  BY PassNumbers DEF SInv
<1>1. /\ request[t].step = "served" /\ jar' = p /\ saved' = account
      /\ data' = IF some THEN [data EXCEPT ![t] = account] ELSE data
      /\ runs' = [runs EXCEPT ![t] = {r \in @ : r.step = "waiting"}]
      /\ request' = [request EXCEPT ![t] = NoRequest]
      /\ last' = [last EXCEPT ![t] = Outcome("answered", account)]
      /\ unheard' = [unheard EXCEPT ![t] = @ \ {p}]
      /\ signedOut' = IF p \in valid THEN signedOut \ {account} ELSE signedOut
      /\ sessionScene' = sessionScene /\ passes' = passes /\ accountOf' = accountOf
      /\ valid' = valid
      /\ listens' = listens /\ leaving' = leaving /\ overtaken' = overtaken
  BY Zenon DEF Answered
<1>2. p \in Pass /\ p <= passes /\ (p \in valid \/ account \in overtaken) /\ some
      /\ unheard[t] \subseteq {p} /\ account # Nobody /\ account \in PageAccount
  BY <1>0, <1>1 DEF TabInv, RequestInv, RunsInv, Issued, PassesInv, ServiceTypes
<1>3. /\ data' = [data EXCEPT ![t] = account] /\ data' \in [Tab -> PageAccount \cup {Nobody}]
      /\ data'[t] = account /\ \A u \in Tab \ {t} : data'[u] = data[u]
  BY <1>0, <1>1, <1>2 DEF TabTypes
<1> HIDE DEF some
<1>4. /\ runs' \in [Tab -> SUBSET RunSet] /\ (\A r \in runs'[t] : r.step = "waiting")
      /\ \A u \in Tab \ {t} : runs'[u] = runs[u]
  BY <1>0, <1>1 DEF TabTypes
<1>5. /\ request' \in [Tab -> [step : {"none", "sent", "served"}, pass : Pass \cup {0}]]
      /\ request'[t] = NoRequest /\ \A u \in Tab \ {t} : request'[u] = request[u]
  BY <1>0, <1>1 DEF TabTypes, NoRequest
<1>6. /\ last' \in [Tab -> [kind : {"none", "answered", "unreachable", "broken", "refused"},
                            account : PageAccount \cup {Nobody}]]
      /\ last'[t].kind = "answered" /\ last'[t].account = account
      /\ \A u \in Tab \ {t} : last'[u] = last[u]
  BY <1>0, <1>1, <1>2 DEF TabTypes, Outcome
<1>7. /\ unheard' \in [Tab -> SUBSET Pass] /\ unheard'[t] = {}
      /\ \A u \in Tab \ {t} : unheard'[u] = unheard[u]
  BY <1>0, <1>1, <1>2 DEF TabTypes
<1>8. ServiceTypes' /\ TabTypes' /\ PassesInv'
  BY <1>0, <1>1, <1>2, <1>3, <1>4, <1>5, <1>6, <1>7 DEF ServiceTypes, TabTypes, PassesInv
<1>9. ForgottenStaysForgotten'
  BY <1>1, <1>2 DEF ForgottenStaysForgotten
<1>10. ASSUME NEW u \in Tab PROVE TabInv(u)'
  <2>1. TabInv(u)
    BY DEF SInv
  <2>2. CASE u # t
    BY <2>1, <2>2, <1>1, <1>3, <1>4, <1>5, <1>6, <1>7, TabStays DEF TabInv, RequestInv, Issued
  <2>3. CASE u = t
    BY <2>3, <1>2, <1>3, <1>4, <1>5, <1>6, <1>7, RequestOver
  <2> QED BY <2>2, <2>3
<1> QED BY <1>8, <1>9, <1>10 DEF SInv

\* Failed() keeps the inductive invariant.
LEMMA FailedStep ==
  ASSUME SInv, NEW t \in Tab, NEW how \in {"unreachable", "broken", "refused"}, Failed(t, how)
  PROVE  SInv'
<1> DEFINE Back(r) == r.saved # Nobody /\ how = "unreachable"
           Again(r) == ~Back(r) /\ shouldRetry(r.tries, how)
           racing == {r \in runs[t] : r.step = "racing" /\ r.current}
           retried == {[r EXCEPT !.step = "waiting", !.tries = @ + 1] : r \in {x \in racing : Again(x)}}
           shows == IF \E r \in racing : Back(r) THEN (CHOOSE r \in racing : Back(r)).saved ELSE data[t]
           left == retried \cup {r \in runs[t] : r.step = "waiting"}
<1>0. /\ ServiceTypes /\ TabTypes /\ PassesInv /\ TabInv(t)
      /\ passes \in Nat /\ jar \in Nat /\ (\A o \in Pass : o \in Nat /\ o # 0)
      /\ Nobody \notin PageAccount
      /\ MaxTries \in Nat
  BY PassNumbers DEF SInv
<1>1. /\ data' = [data EXCEPT ![t] = shows]
      /\ runs' = [runs EXCEPT ![t] = left]
      /\ listens' = [listens EXCEPT ![t] = @ \/ Listener(t, how)]
      /\ request' = [request EXCEPT ![t] = NoRequest]
      /\ unheard' = [unheard EXCEPT ![t] = @ \ {request[t].pass}]
      /\ UNCHANGED <<service, saved, leaving, overtaken, signedOut>>
  BY Zenon DEF Failed
<1>2. PICK account \in {r.saved : r \in {x \in runs[t] : x.step # "waiting"}} \cup {Nobody} :
        last' = [last EXCEPT ![t] = Outcome(how, account)]
  BY Zenon DEF Failed
<1>3. /\ sessionScene' = sessionScene /\ jar' = jar /\ passes' = passes /\ accountOf' = accountOf
      /\ valid' = valid
      /\ saved' = saved /\ leaving' = leaving /\ overtaken' = overtaken /\ signedOut' = signedOut
  BY <1>1 DEF service
<1>4. runs[t] \subseteq RunSet
  BY <1>0 DEF TabTypes
<1>5. shows \in PageAccount \cup {Nobody} /\ (data[t] # Nobody => shows # Nobody)
  <2>1. CASE \E r \in racing : Back(r)
    <3> DEFINE back == CHOOSE r \in racing : Back(r)
    <3>1. back \in racing /\ Back(back)
      BY <2>1, Zenon
    <3>2. shows = back.saved
      BY <2>1, Zenon
    <3> HIDE DEF back, shows
    <3>3. back \in RunSet /\ back.saved # Nobody
      BY <3>1, <1>4
    <3> QED BY <3>2, <3>3 DEF RunSet
  <2>2. CASE ~ \E r \in racing : Back(r)
    <3>1. shows = data[t]
      BY <2>2, Zenon
    <3> QED BY <3>1, <1>0 DEF TabTypes
  <2> QED BY <2>1, <2>2
<1>6. left \subseteq RunSet /\ \A r \in left : r.step = "waiting"
  <2>1. ASSUME NEW r \in runs[t], Again(r)
        PROVE  [r EXCEPT !.step = "waiting", !.tries = @ + 1] \in RunSet
               /\ [r EXCEPT !.step = "waiting", !.tries = @ + 1].step = "waiting"
    <3>1. r \in RunSet /\ r.tries < MaxTries
      BY <2>1, <1>4 DEF shouldRetry
    <3>2. r.tries + 1 \in 0 .. MaxTries
      BY <3>1, <1>0 DEF RunSet
    <3> QED BY <3>1, <3>2 DEF RunSet
  <2> QED BY <2>1, <1>4
<1> HIDE DEF shows, left
<1>7. /\ data' \in [Tab -> PageAccount \cup {Nobody}]
      /\ data'[t] = shows /\ \A u \in Tab \ {t} : data'[u] = data[u]
  BY <1>0, <1>1, <1>5 DEF TabTypes
<1>8. /\ runs' \in [Tab -> SUBSET RunSet] /\ runs'[t] = left
      /\ \A u \in Tab \ {t} : runs'[u] = runs[u]
  BY <1>0, <1>1, <1>6 DEF TabTypes
<1>9. /\ request' \in [Tab -> [step : {"none", "sent", "served"}, pass : Pass \cup {0}]]
      /\ request'[t] = NoRequest /\ \A u \in Tab \ {t} : request'[u] = request[u]
  BY <1>0, <1>1 DEF TabTypes, NoRequest
<1>10. account \in PageAccount \cup {Nobody}
       /\ (how = "unreachable" /\ account # Nobody => Listener(t, how))
  <2>1. CASE account = Nobody
    BY <2>1
  <2>2. CASE account # Nobody
    <3>1. PICK r \in runs[t] : r.step # "waiting" /\ account = r.saved
      BY <2>2
    <3>2. r.step \in {"racing", "following"} /\ r.saved \in PageAccount \cup {Nobody}
      BY <3>1, <1>4 DEF RunSet
    <3> QED BY <3>1, <3>2, <2>2 DEF Listener
  <2> QED BY <2>1, <2>2
<1>11. /\ last' \in [Tab -> [kind : {"none", "answered", "unreachable", "broken", "refused"},
                             account : PageAccount \cup {Nobody}]]
       /\ last'[t].kind = how /\ last'[t].account = account
       /\ \A u \in Tab \ {t} : last'[u] = last[u]
  BY <1>0, <1>2, <1>10 DEF TabTypes, Outcome
<1>12. /\ unheard' \in [Tab -> SUBSET Pass] /\ unheard'[t] = {}
       /\ \A u \in Tab \ {t} : unheard'[u] = unheard[u]
  BY <1>0, <1>1 DEF TabTypes, TabInv, RequestInv
<1>13. /\ listens' \in [Tab -> BOOLEAN] /\ (Listener(t, how) => listens'[t])
       /\ \A u \in Tab \ {t} : listens'[u] = listens[u]
  <2>1. Listener(t, how) \in BOOLEAN
    BY DEF Listener
  <2>2. listens[t] \in BOOLEAN
    BY <1>0 DEF TabTypes
  <2>3. (listens[t] \/ Listener(t, how)) \in BOOLEAN
    OBVIOUS
  <2>4. listens' \in [Tab -> BOOLEAN] /\ \A u \in Tab \ {t} : listens'[u] = listens[u]
    BY <1>0, <1>1, <2>3 DEF TabTypes
  <2>5. listens'[t] = (listens[t] \/ Listener(t, how))
    BY <1>0, <1>1, Zenon DEF TabTypes
  <2> QED BY <2>4, <2>5
<1>14. ServiceTypes' /\ TabTypes' /\ PassesInv' /\ ForgottenStaysForgotten'
  BY <1>0, <1>3, <1>7, <1>8, <1>9, <1>11, <1>12, <1>13
     DEF ServiceTypes, TabTypes, PassesInv, SInv, ForgottenStaysForgotten
<1>15. ASSUME NEW u \in Tab PROVE TabInv(u)'
  <2>1. TabInv(u)
    BY DEF SInv
  <2>2. CASE u # t
    BY <2>1, <2>2, <1>3, <1>7, <1>8, <1>9, <1>11, <1>12, <1>13, TabStays
       DEF TabInv, RequestInv, Issued
  <2>3. CASE u = t
    <3>1. leaving'[t] # "no" => data'[t] # Nobody
      BY <1>0, <1>3, <1>5, <1>7 DEF TabInv, RunsInv
    <3> QED BY <2>3, <3>1, <1>6, <1>8, <1>9, <1>10, <1>11, <1>12, <1>13, RequestOver
  <2> QED BY <2>2, <2>3
<1> QED BY <1>14, <1>15 DEF SInv

\* logout() and LogoutFails() keep the inductive invariant.
LEMMA LeavingStep ==
  ASSUME SInv, NEW t \in Tab, logout(t) \/ LogoutFails(t)
  PROVE  SInv'
<1>0. ServiceTypes /\ TabTypes
  BY DEF SInv
<1>1. /\ \/ leaving' = [leaving EXCEPT ![t] = "sent"] /\ data[t] # Nobody
         \/ leaving' = [leaving EXCEPT ![t] = "no"]
      /\ UNCHANGED <<service, saved, data, request, runs, listens, histories>>
  BY DEF logout, LogoutFails
<1>2. /\ sessionScene' = sessionScene /\ jar' = jar /\ passes' = passes /\ accountOf' = accountOf
      /\ valid' = valid
      /\ saved' = saved /\ data' = data /\ request' = request /\ runs' = runs
      /\ listens' = listens
      /\ last' = last /\ unheard' = unheard /\ overtaken' = overtaken /\ signedOut' = signedOut
  BY <1>1 DEF service, histories
<1>3. ServiceTypes' /\ TabTypes' /\ PassesInv' /\ ForgottenStaysForgotten'
  BY <1>0, <1>1, <1>2 DEF SInv, ServiceTypes, TabTypes, PassesInv, ForgottenStaysForgotten
<1>4. ASSUME NEW u \in Tab PROVE TabInv(u)'
  <2>1. TabInv(u)
    BY DEF SInv
  <2>2. RequestInv(u)' /\ ShownInv(u)'
    BY <2>1, <1>2 DEF TabInv, RequestInv, ShownInv, Issued, Fetching
  <2>3. RunsInv(u)'
    BY <2>1, <1>0, <1>1, <1>2 DEF TabInv, RunsInv, TabTypes
  <2> QED BY <2>2, <2>3 DEF TabInv
<1> QED BY <1>3, <1>4 DEF SInv

\* What a session's end leaves of the answers on their way.
LEMMA OvertakesFacts ==
  ASSUME SInv, Overtakes
  PROVE  /\ overtaken \subseteq overtaken' /\ overtaken' \subseteq PageAccount
         /\ \A u \in Tab : request[u].step = "served" /\ request[u].pass = jar
              => accountOf[jar] \in overtaken'
<1> DEFINE late == \E t \in Tab : request[t] = [step |-> "served", pass |-> jar]
<1>0. /\ ServiceTypes /\ TabTypes /\ PassesInv /\ (\A u \in Tab : TabInv(u))
      /\ \A o \in Pass : o \in Nat /\ o # 0
  BY PassNumbers DEF SInv
<1>1. overtaken' = IF late THEN overtaken \cup {accountOf[jar]} ELSE overtaken
  BY DEF Overtakes
<1>2. late => accountOf[jar] \in PageAccount
  <2> SUFFICES ASSUME NEW t \in Tab, request[t] = [step |-> "served", pass |-> jar]
               PROVE  accountOf[jar] \in PageAccount
    OBVIOUS
  <2>1. request[t].step = "served" /\ request[t].pass = jar
    OBVIOUS
  <2>2. Issued(jar)
    BY <2>1, <1>0 DEF TabInv, RequestInv
  <2> QED BY <2>2, <1>0 DEF Issued, PassesInv, ServiceTypes
<1>3. ASSUME NEW u \in Tab, request[u].step = "served", request[u].pass = jar PROVE late
  <2>1. request[u] = [step |-> "served", pass |-> jar]
    BY <1>0, <1>3 DEF TabTypes
  <2> QED BY <2>1
<1> HIDE DEF late
<1> QED BY <1>0, <1>1, <1>2, <1>3 DEF ServiceTypes

\* EndSession() keeps the inductive invariant.
LEMMA EndSessionStep ==
  ASSUME SInv, NEW t \in Tab, EndSession(t)
  PROVE  SInv'
<1>0. ServiceTypes /\ TabTypes /\ PassesInv
  BY DEF SInv
<1>1. /\ leaving[t] = "sent" /\ leaving' = [leaving EXCEPT ![t] = "ended"]
      /\ valid' = valid \ {jar} /\ Overtakes
      /\ sessionScene' = sessionScene /\ jar' = jar /\ passes' = passes /\ accountOf' = accountOf
      /\ saved' = saved /\ data' = data /\ request' = request /\ runs' = runs
      /\ listens' = listens
      /\ last' = last /\ unheard' = unheard /\ signedOut' = signedOut
  BY Zenon DEF EndSession
<1>2. /\ overtaken \subseteq overtaken' /\ overtaken' \subseteq PageAccount
      /\ \A u \in Tab : request[u].step = "served" /\ request[u].pass = jar
           => accountOf[jar] \in overtaken'
  BY <1>1, OvertakesFacts
<1>3. ServiceTypes' /\ TabTypes' /\ PassesInv' /\ ForgottenStaysForgotten'
  BY <1>0, <1>1, <1>2 DEF SInv, ServiceTypes, TabTypes, PassesInv, ForgottenStaysForgotten
<1>4. ASSUME NEW u \in Tab PROVE TabInv(u)'
  <2>1. TabInv(u)
    BY DEF SInv
  <2>2. ShownInv(u)'
    BY <2>1, <1>1 DEF TabInv, ShownInv, Fetching
  <2>3. RunsInv(u)'
    BY <2>1, <1>0, <1>1 DEF TabInv, RunsInv, TabTypes
  <2>4. RequestInv(u)'
    BY <2>1, <1>1, <1>2 DEF TabInv, RequestInv, Issued
  <2> QED BY <2>2, <2>3, <2>4 DEF TabInv
<1> QED BY <1>3, <1>4 DEF SInv

\* A page that its browser leaves.
LEMMA LeftPageFacts ==
  ASSUME TabTypes, NEW t \in Tab, LeftPage(t)
  PROVE  /\ data' \in [Tab -> PageAccount \cup {Nobody}]
         /\ request' \in [Tab -> [step : {"none", "sent", "served"}, pass : Pass \cup {0}]]
         /\ runs' \in [Tab -> SUBSET RunSet] /\ listens' \in [Tab -> BOOLEAN]
         /\ last' \in [Tab -> [kind : {"none", "answered", "unreachable", "broken", "refused"},
                               account : PageAccount \cup {Nobody}]]
         /\ unheard' \in [Tab -> SUBSET Pass]
         /\ request'[t] = NoRequest /\ unheard'[t] = {} /\ runs'[t] = {} /\ last'[t].kind = "none"
         /\ \A u \in Tab \ {t} :
              /\ request'[u] = request[u] /\ runs'[u] = runs[u] /\ data'[u] = data[u]
              /\ listens'[u] = listens[u] /\ last'[u] = last[u] /\ unheard'[u] = unheard[u]
BY DEF LeftPage, TabTypes, NoRequest, NoOutcome

\* LoggedOut() keeps the inductive invariant.
LEMMA LoggedOutStep ==
  ASSUME SInv, NEW t \in Tab, LoggedOut(t)
  PROVE  SInv'
<1>0. ServiceTypes /\ TabTypes /\ PassesInv /\ TabInv(t) /\ Nobody \notin PageAccount /\ passes \in Nat
  BY PassNumbers DEF SInv
<1>1. /\ leaving[t] = "ended" /\ leaving' = [leaving EXCEPT ![t] = "no"]
      /\ jar' = 0 /\ saved' = Nobody /\ LeftPage(t)
      /\ signedOut' = signedOut \cup {data[t]}
      /\ sessionScene' = sessionScene /\ passes' = passes /\ accountOf' = accountOf
      /\ valid' = valid /\ overtaken' = overtaken
  BY Zenon DEF LoggedOut, Forgets
<1>2. data[t] \in PageAccount
  BY <1>0, <1>1 DEF TabInv, RunsInv, TabTypes
<1>3. leaving' \in [Tab -> {"no", "sent", "ended"}] /\ leaving'[t] = "no" /\ \A u \in Tab \ {t} :
        leaving'[u] = leaving[u]
  BY <1>0, <1>1 DEF TabTypes
<1>4. ServiceTypes' /\ PassesInv' /\ ForgottenStaysForgotten'
  BY <1>0, <1>1, <1>2 DEF ServiceTypes, PassesInv, ForgottenStaysForgotten
<1>5. TabTypes'
  BY <1>0, <1>1, <1>3, LeftPageFacts DEF TabTypes
<1>6. ASSUME NEW u \in Tab PROVE TabInv(u)'
  <2>1. TabInv(u)
    BY DEF SInv
  <2>2. CASE u # t
    <3>1. /\ data'[u] = data[u] /\ request'[u] = request[u] /\ runs'[u] = runs[u]
          /\ listens'[u] = listens[u] /\ last'[u] = last[u] /\ unheard'[u] = unheard[u]
          /\ leaving'[u] = leaving[u]
      BY <2>2, <1>0, <1>1, <1>3, LeftPageFacts
    <3> QED BY <2>1, <3>1, <1>0, <1>1, TabStays DEF TabInv, RequestInv, Issued
  <2>3. CASE u = t
    BY <2>3, <1>0, <1>1, <1>3, LeftPageFacts, RequestOver
  <2> QED BY <2>2, <2>3
<1> QED BY <1>4, <1>5, <1>6 DEF SInv

\* SignInReturns() keeps the inductive invariant.
LEMMA SignInReturnsStep ==
  ASSUME SInv, NEW t \in Tab, NEW who \in Person, SignInReturns(t, who)
  PROVE  SInv'
<1> DEFINE fresh == passes + 1
<1>0. /\ ServiceTypes /\ TabTypes /\ PassesInv /\ Nobody \notin PageAccount
      /\ passes \in Nat /\ jar \in Nat /\ (\A o \in Pass : o \in Nat /\ o # 0)
      /\ Person \subseteq PageAccount
  BY PassNumbers DEF SInv
<1>1. /\ leaving[t] = "no" /\ fresh \in Pass
      /\ passes' = fresh /\ jar' = fresh
      /\ accountOf' = [accountOf EXCEPT ![fresh] = who]
      /\ valid' = (valid \ {jar}) \cup {fresh}
      /\ LeftPage(t) /\ Overtakes
      /\ sessionScene' = sessionScene /\ saved' = saved /\ leaving' = leaving
      /\ signedOut' = signedOut
  BY Zenon DEF SignInReturns
<1>2. /\ overtaken \subseteq overtaken' /\ overtaken' \subseteq PageAccount
      /\ \A u \in Tab : request[u].step = "served" /\ request[u].pass = jar
           => accountOf[jar] \in overtaken'
  BY <1>1, OvertakesFacts
<1>3. /\ accountOf' \in [Pass -> PageAccount \cup {Nobody}]
      /\ \A o \in Pass : accountOf'[o] = IF o = fresh THEN who ELSE accountOf[o]
      /\ who # Nobody
  BY <1>0, <1>1 DEF ServiceTypes
<1>4. ServiceTypes' /\ ForgottenStaysForgotten'
  BY <1>0, <1>1, <1>2, <1>3 DEF SInv, ServiceTypes, ForgottenStaysForgotten
<1>5. PassesInv'
  <2>1. \A o \in valid' : o <= fresh
    BY <1>0, <1>1 DEF PassesInv, ServiceTypes
  <2>2. \A o \in Pass : o <= fresh => accountOf'[o] # Nobody
    <3> TAKE o \in Pass
    <3>1. CASE o = fresh
      BY <3>1, <1>3
    <3>2. CASE o # fresh
      <4>1. o <= fresh => o <= passes
        BY <3>2, <1>0
      <4> QED BY <3>2, <4>1, <1>0, <1>3 DEF PassesInv
    <3> QED BY <3>1, <3>2
  <2>3. fresh <= fresh
    BY <1>0
  <2> QED BY <2>1, <2>2, <2>3, <1>1 DEF PassesInv
<1>6. TabTypes'
  BY <1>0, <1>1, LeftPageFacts DEF TabTypes
<1>7. ASSUME NEW u \in Tab PROVE TabInv(u)'
  <2>1. TabInv(u)
    BY DEF SInv
  <2>2. CASE u # t
    <3>1. request[u].step = "served" =>
            /\ Issued(request[u].pass)'
            /\ accountOf'[request[u].pass] = accountOf[request[u].pass]
            /\ request[u].pass \in valid
                 => request[u].pass \in valid' \/ accountOf[request[u].pass] \in overtaken'
            /\ overtaken \subseteq overtaken'
      <4> SUFFICES ASSUME request[u].step = "served"
                   PROVE  /\ Issued(request[u].pass)'
                          /\ accountOf'[request[u].pass] = accountOf[request[u].pass]
                          /\ request[u].pass \in valid
                             => request[u].pass \in valid' \/ accountOf[request[u].pass] \in overtaken'
        BY <1>2
      <4>1. request[u].pass \in Pass /\ request[u].pass <= passes
        BY <2>1 DEF TabInv, RequestInv, Issued
      <4>2. request[u].pass <= fresh /\ request[u].pass # fresh /\ request'[u] = request[u]
        BY <4>1, <2>2, <1>0, <1>1, LeftPageFacts
      <4>3. request[u].pass = jar => accountOf[request[u].pass] \in overtaken'
        BY <1>2
      <4> QED BY <4>1, <4>2, <4>3, <1>1, <1>3 DEF Issued
    <3> QED BY <2>1, <2>2, <3>1, <1>0, <1>1, LeftPageFacts, TabStays
  <2>3. CASE u = t
    BY <2>3, <1>0, <1>1, LeftPageFacts, RequestOver
  <2> QED BY <2>2, <2>3
<1> QED BY <1>4, <1>5, <1>6, <1>7 DEF SInv

\* Every step keeps the inductive invariant.
LEMMA NextSInv == SInv /\ [SessionNext]_sessionVars => SInv'
<1> SUFFICES ASSUME SInv, [SessionNext]_sessionVars PROVE SInv'
  OBVIOUS
<1>1. ASSUME NEW t \in Tab, Load(t) \/ refreshSession(t) \/ Online(t) \/ Slow(t) \/ Retry(t)
      PROVE  SInv'
  BY <1>1, LoadStep, RefreshSessionStep, OnlineStep, SlowStep, RetryStep
<1>2. ASSUME NEW t \in Tab,
             \/ ServeSession(t) \/ Answered(t)
             \/ \E how \in {"unreachable", "broken", "refused"} : Failed(t, how)
      PROVE  SInv'
  BY <1>2, ServeSessionStep, AnsweredStep, FailedStep
<1>3. ASSUME NEW t \in Tab,
             \/ logout(t) \/ EndSession(t) \/ LogoutFails(t) \/ LoggedOut(t)
             \/ \E who \in Person : SignInReturns(t, who)
      PROVE  SInv'
  BY <1>3, LeavingStep, EndSessionStep, LoggedOutStep, SignInReturnsStep
<1>4. CASE UNCHANGED sessionVars
  <2>1. /\ sessionScene' = sessionScene /\ jar' = jar /\ passes' = passes
        /\ accountOf' = accountOf
        /\ valid' = valid /\ saved' = saved /\ data' = data /\ request' = request /\ runs' = runs
        /\ listens' = listens /\ leaving' = leaving
        /\ last' = last /\ unheard' = unheard /\ overtaken' = overtaken /\ signedOut' = signedOut
    BY <1>4 DEF sessionVars
  <2>2. ServiceTypes' /\ TabTypes' /\ PassesInv' /\ ForgottenStaysForgotten'
    BY <2>1 DEF SInv, ServiceTypes, TabTypes, PassesInv, ForgottenStaysForgotten
  <2>3. ASSUME NEW u \in Tab PROVE TabInv(u)'
    BY <2>1, TabStays DEF SInv, TabInv, RequestInv, Issued
  <2> QED BY <2>2, <2>3 DEF SInv
<1> QED BY <1>1, <1>2, <1>3, <1>4 DEF SessionNext

\* The inductive invariant of the tabs and sessions.
THEOREM SessionIInv == SessionSpec => []SInv
BY InitSInv, NextSInv, PTL DEF SessionSpec

\* A tab shows the account of its last answer, waits for the network when it
\* shows a saved one, never shows one that signed out, and starts no guest twice.
THEOREM SessionsAreConsistent == SessionSpec => []SessionInv
<1>1. SInv => SessionInv
  <2> SUFFICES ASSUME SInv PROVE SessionInv
    OBVIOUS
  <2>1. SessionTypeOK
    BY DEF SInv, ServiceTypes, TabTypes, SessionTypeOK, RunSet
  <2>2. NoRequest.step = "none"
    BY DEF NoRequest
  <2>3. AnswerIsShown /\ NeverStranded
    BY <2>2 DEF SInv, TabInv, ShownInv, AnswerIsShown, NeverStranded, Settled
  <2>4. ASSUME NEW t \in Tab PROVE Cardinality(unheard[t]) <= 1
    <3> DEFINE one == {request[t].pass}
    <3>1. unheard[t] \subseteq one
      BY DEF SInv, TabInv, RequestInv
    <3>2. IsFiniteSet(one) /\ Cardinality(one) = 1
      BY FS_Singleton
    <3> HIDE DEF one
    <3>3. Cardinality(unheard[t]) <= Cardinality(one)
      BY <3>1, <3>2, FS_Subset
    <3> QED BY <3>2, <3>3
  <2> QED BY <2>1, <2>3, <2>4 DEF SInv, SessionInv, OneGuestEach
<1> QED BY <1>1, SessionIInv, PTL
=============================================================================
