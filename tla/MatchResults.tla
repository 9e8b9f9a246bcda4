---------------------------- MODULE MatchResults ----------------------------
(***************************************************************************)
(* A match's results: record_result() and override_result() in             *)
(* services/match_results.py, push_board() in services/matches.py, and     *)
(* what match_state() in services/match_reads.py shows of them. Players    *)
(* brings the players and their managers, who decide which signatures      *)
(* count.                                                                  *)
(*                                                                         *)
(* Every write to a match holds its row FOR UPDATE and the side players    *)
(* FOR SHARE, so one action is one committed transaction. A refused        *)
(* request only writes a line of the log, which is left out.               *)
(***************************************************************************)
EXTENDS Players

CONSTANTS
  Key,      \* ids of signing keys
  Payload,  \* the distinct bytes devices and the server encode, each a result
  says,     \* what each payload decodes to
  rank,     \* orders payloads so that `replaces`, a hash, names earlier bytes
  Rated,    \* the terms of rated matches
  Envelope  \* the sets of signatures a device may send with a payload

Side == {1, 2}

Content ==
  [match : Match, replaces : Payload \cup {None}, details : Details, legal : BOOLEAN]

\* One signature of an envelope. ECDSA has many good signatures of the same
\* bytes: the ones a slot records are called "first", any other good ones
\* "second".
Signature == [key : Key, side : Side, bytes : {"first", "second", "bad"}]

ASSUME ResultsAssumption ==
  /\ None \notin Key \cup Payload
  /\ Rated \subseteq Terms
  /\ says \in [Payload -> Content]
  /\ rank \in [Payload -> Nat]
  /\ Envelope \subseteq SUBSET Signature
  /\ \A p \in Payload : says[p].replaces # None => rank[says[p].replaces] < rank[p]

VARIABLES
  owner,      \* signing_keys.account_id, None for a key nobody registered
  revoked,    \* the keys with revoked_at
  results,    \* match_results, each named by its payload
  overrides,  \* those an administrator imposed
  accepted,   \* those with accepted_at
  current,    \* matches.current_result_id
  approvals,  \* match_approvals, by result
  boards      \* the matches with an accepted board in match_submissions

keyVars == <<owner, revoked>>
resultVars == <<results, overrides, accepted, current, approvals, boards>>
vars == <<playerVars, keyVars, resultVars>>

-----------------------------------------------------------------------------
\* A result's counted signature: one for each key and side. `player` is the
\* survivor it approved for at the time.
Approval == [key : Key, side : Side, player : Player]

MatchOf(p) == says[p].match
Replaces(p) == says[p].replaces
NameOn(p, side) == says[p].details.players[side]

\* _head(): the match's result that nothing replaces.
Heads(m) == {p \in results : MatchOf(p) = m} \ {Replaces(q) : q \in results}
Head(m) ==
  LET heads == Heads(m) IN IF heads = {} THEN None ELSE CHOOSE p \in heads : TRUE

SidesOf(counted) == {a.side : a \in counted}

\* _recorded_signatures()
Recorded(p, s) == \E a \in approvals[p] : a.key = s.key /\ a.side = s.side

\* verification_keys(): signed-out keys still verify, revoked ones don't.
Verifies(k) == owner[k] # None /\ k \notin revoked

\* _authority(): the key's account plays as the player's survivor, or manages
\* it, with no open question about it.
HasAuthority(k, player) ==
  /\ Verifies(k)
  /\ relation[owner[k]][Survivor(player)] # "none"
  /\ Survivor(player) \notin asked[owner[k]]

\* match_differences()
SameDetails(m, d) == Resolved(d) = Resolved(details[m])

\* The approvals an envelope brings that aren't counted yet: _signers().
Signers(p, sigs) == {s \in sigs : ~Recorded(p, s)}

\* What _signers() adds to a result's approvals.
NewApprovals(p, sigs) ==
  {[key |-> s.key, side |-> s.side, player |-> Survivor(NameOn(p, s.side))] :
     s \in Signers(p, sigs)}

\* Mutants of FitsChain: a stored result takes signatures at any time, and a
\* retry needs the head.
FitsStored(m, p, sigs) == p \in results \/ Replaces(p) = Head(m)
FitsHead(m, p, sigs) == IF p \in results THEN p = Head(m) ELSE Replaces(p) = Head(m)

\* New approvals are for the head, or for a new result that replaces it. The
\* refusals are not_head and stale.
FitsChain(m, p, sigs) ==
  IF p \in results THEN Signers(p, sigs) = {} \/ p = Head(m) ELSE Replaces(p) = Head(m)

\* Mutant of Acceptable: doesn't ask whether the sides are one player.
AcceptableOfAnySides(m, p, sigs) ==
  /\ MatchOf(p) = m
  /\ FitsChain(m, p, sigs)
  /\ says[p].legal
  /\ \A s \in sigs :
       \/ Recorded(p, s) /\ s.bytes = "first"
       \/ Verifies(s.key) /\ s.bytes # "bad"
  /\ SameDetails(m, says[p].details)
  /\ \A s \in Signers(p, sigs) : HasAuthority(s.key, NameOn(p, s.side))

\* What record_result() asks of a result before it stores it or its signatures.
\* The order of its checks only decides which refusal it logs. A retry of
\* recorded signatures passes whatever happened to their keys since.
Acceptable(m, p, sigs) ==
  /\ MatchOf(p) = m                        \* wrong_match
  /\ FitsChain(m, p, sigs)
  /\ says[p].legal                         \* illegal_ending
  /\ \A s \in sigs :                       \* unknown_key, bad_signature
       \/ Recorded(p, s) /\ s.bytes = "first"
       \/ Verifies(s.key) /\ s.bytes # "bad"
  /\ ~OnePlayer(m)                         \* same_player
  /\ SameDetails(m, says[p].details)       \* match_differs
  /\ \A s \in Signers(p, sigs) : HasAuthority(s.key, NameOn(p, s.side))  \* no_authority

\* Mutant of SidesNeeded: one side may correct a final unrated match.
SidesNeededByTerms(m, p) == IF says[p].details.terms \in Rated THEN 2 ELSE 1

\* Both sides settle a rated match, or a correction of a final one.
SidesNeeded(m, p) == IF says[p].details.terms \in Rated \/ current[m] # None THEN 2 ELSE 1

-----------------------------------------------------------------------------
Accept(m, p) ==
  /\ accepted' = accepted \cup {p}
  /\ current' = [current EXCEPT ![m] = p]

\* _accept_if_approved(), with the result's approvals so far.
AcceptIfApproved(m, p, counted) ==
  IF p \notin accepted /\ Cardinality(SidesOf(counted)) >= SidesNeeded(m, p)
    THEN Accept(m, p)
    ELSE UNCHANGED <<accepted, current>>

\* record_result(): a new result, or new signatures on the head. A retry that
\* brings neither returns before it writes.
RecordResult(m, p, sigs) ==
  /\ details[m] # None
  /\ Acceptable(m, p, sigs)
  /\ Signers(p, sigs) # {}
  /\ \A s \in Signers(p, sigs) : s.bytes # "second"
  /\ LET counted == approvals[p] \cup NewApprovals(p, sigs)
     IN /\ results' = results \cup {p}
        /\ approvals' = [approvals EXCEPT ![p] = counted]
        /\ scored' = scored \cup {m}
        /\ AcceptIfApproved(m, p, counted)
  /\ UNCHANGED <<kind, made, merged, relation, asked, details, creating,
                 keyVars, overrides, boards>>

\* override_result(): the server encodes a payload of its own that replaces the
\* head, and it counts at once.
OverrideResult(m, p) ==
  /\ details[m] # None
  /\ ~OnePlayer(m)
  /\ says[p] = [match |-> m, replaces |-> Head(m), details |-> Resolved(details[m]),
                legal |-> TRUE]
  /\ p \notin results
  /\ results' = results \cup {p}
  /\ overrides' = overrides \cup {p}
  /\ scored' = scored \cup {m}
  /\ Accept(m, p)
  /\ UNCHANGED <<kind, made, merged, relation, asked, details, creating,
                 keyVars, approvals, boards>>

\* push_board() with the match's details: refused once the match is final.
PushBoard(m) ==
  /\ details[m] # None /\ current[m] = None
  /\ boards' = boards \cup {m}
  /\ UNCHANGED <<playerVars, keyVars, results, overrides, accepted, current, approvals>>

-----------------------------------------------------------------------------
\* register_key(): a key belongs to the account that registered it first.
RegisterKey(k, a) ==
  /\ kind[a] \in {"guest", "verified"} /\ Free(a)
  /\ owner[k] = None
  /\ owner' = [owner EXCEPT ![k] = a]
  /\ UNCHANGED <<playerVars, revoked, resultVars>>

\* revoke_key(), revoke_any_key() or another of the account's devices.
RevokeKey(k) ==
  /\ owner[k] # None
  /\ revoked' = revoked \cup {k}
  /\ UNCHANGED <<playerVars, owner, resultVars>>

\* adopt_guest(): the guest's keys move with its players.
Adopt(guest, into) ==
  /\ AdoptGuest(guest, into)
  /\ owner' = [k \in Key |-> IF owner[k] = guest THEN into ELSE owner[k]]
  /\ UNCHANGED <<revoked, resultVars>>

-----------------------------------------------------------------------------
Init ==
  /\ PlayersInit
  /\ owner = [k \in Key |-> None]
  /\ revoked = {}
  /\ results = {}
  /\ overrides = {}
  /\ accepted = {}
  /\ current = [m \in Match |-> None]
  /\ approvals = [p \in Payload |-> {}]
  /\ boards = {}

\* What happens to accounts, players and keys between two requests of a match.
WorldStep ==
  \/ (AccountStep \/ CreateStep) /\ UNCHANGED <<keyVars, resultVars>>
  \/ \E guest, into \in Account : Adopt(guest, into)
  \/ \E k \in Key : RevokeKey(k) \/ \E a \in Account : RegisterKey(k, a)

ResultStep ==
  \E m \in Match :
    \/ \E p \in Payload, sigs \in Envelope : RecordResult(m, p, sigs)
    \/ \E p \in Payload : OverrideResult(m, p)
    \/ PushBoard(m)

Next == WorldStep \/ ResultStep

Spec == Init /\ [][Next]_vars
-----------------------------------------------------------------------------
TypeOK ==
  /\ PlayersTypeOK
  /\ owner \in [Key -> Account \cup {None}]
  /\ revoked \subseteq Key
  /\ overrides \subseteq results /\ accepted \subseteq results
  /\ results \subseteq Payload
  /\ current \in [Match -> Payload \cup {None}]
  /\ approvals \in [Payload -> SUBSET Approval]
  /\ boards \subseteq Match

\* A match's results are one chain: each replaces a stored one, no two replace
\* the same, and a match with a result has exactly one head.
OneChain ==
  /\ \A p \in results : Replaces(p) # None =>
       Replaces(p) \in results /\ MatchOf(Replaces(p)) = MatchOf(p)
  /\ \A p, q \in results :
       MatchOf(p) = MatchOf(q) /\ Replaces(p) = Replaces(q) => p = q
  /\ \A m \in Match : m \in scored <=> Heads(m) # {}
  /\ \A m \in Match : \A p, q \in Heads(m) : p = q

\* match_state() takes the one side that approved a pending head, and fails if
\* there are none or two.
PendingHeadHasOneSide ==
  \A m \in Match : \A p \in Heads(m) \ accepted :
    \E side \in Side : SidesOf(approvals[p]) = {side}

\* The current result is the newest one accepted, so whatever is newer than
\* it is pending, and a match is final exactly when something was accepted.
CurrentIsNewestAccepted ==
  \A m \in Match :
    LET of == {p \in accepted : MatchOf(p) = m}
    IN IF of = {} THEN current[m] = None
       ELSE current[m] \in of /\ \A p \in of \ {current[m]} : rank[p] < rank[current[m]]

\* One side alone settles only the first result of an unrated match. Any
\* other result counts because both sides signed it or an administrator
\* imposed it.
SettledByBothSides ==
  \A p \in accepted \ overrides :
    \/ SidesOf(approvals[p]) = Side
    \/ /\ says[p].details.terms \notin Rated
       /\ SidesOf(approvals[p]) # {}
       /\ \A q \in accepted : MatchOf(q) = MatchOf(p) => rank[q] >= rank[p]

\* An exact retry of what was recorded is accepted, whatever happened since to
\* the keys, the players, their managers and the chain.
RetryAccepted ==
  \A p \in results : \A sigs \in Envelope :
    /\ sigs # {}
    /\ \A s \in sigs : Recorded(p, s) /\ s.bytes = "first"
    => Acceptable(MatchOf(p), p, sigs)

\* Every signature counts for the player on the side it was given for, however
\* the players merged since.
ApprovalsNameTheirSide ==
  \A p \in results : \A a \in approvals[p] :
    Survivor(a.player) = Survivor(details[MatchOf(p)].players[a.side])

\* Only a match's head gains approvals or is accepted. A replaced result is
\* history.
OnlyTheHeadChanges ==
  [][\A p \in Payload :
       approvals'[p] # approvals[p] \/ (p \in accepted' \ accepted)
         => p = Head(MatchOf(p))']_vars

\* A final match stays final, and its current result only moves forward.
CurrentMovesForward ==
  [][\A m \in Match : current[m] # None /\ current'[m] # current[m] =>
       current'[m] # None /\ rank[current'[m]] > rank[current[m]]]_vars

-----------------------------------------------------------------------------
\* Mutant of Disputes: a correction of a final match disputes it too.
DisputesAnything(q, signer) == q # None /\ SidesOf(approvals[q]) = Side \ {signer}

\* A pending head by `signer` disputes what it replaces.
Disputes(q, signer) ==
  q # None /\ q \notin accepted /\ SidesOf(approvals[q]) = Side \ {signer}

\* match_state(), of a match's head and its newest board.
Shown(m) ==
  LET head == Head(m)
      signer == CHOOSE side \in Side : SidesOf(approvals[head]) = {side}
  IN IF head = None
       THEN [state |-> IF m \in boards THEN "live" ELSE "not_started"]
     ELSE IF head \in accepted
       THEN [state |-> "final"]
     ELSE [state |-> IF Disputes(Replaces(head), signer) THEN "disputed" ELSE "awaiting",
           signer |-> signer]

States == INSTANCE MatchStates
  WITH shown <- [m \in Match |-> Shown(m)],
       settled <- {m \in Match : current[m] # None}

\* What the matches show moves only as MatchStates allows.
ShowsMatchStates == States!Spec

\* To accounts and players, results are Players' own steps: a match gets its
\* first result only while its sides are two players.
TakesPlayersSteps == [][PlayersNext]_playerVars

\* What was stored stays of its side and its players, and is taken again,
\* whoever merges and signs in since.
ResultsInv == TypeOK /\ ApprovalsNameTheirSide /\ RetryAccepted

\* A match's results are one chain, its head is decided or waits for one side,
\* and its current result is the newest that was accepted.
ChainInv == OneChain /\ PendingHeadHasOneSide /\ CurrentIsNewestAccepted

\* No late signature or override changes a result that was replaced, or takes
\* the current result back to an older one.
HistoryStays == OnlyTheHeadChanges /\ CurrentMovesForward
=============================================================================
