------------------------- MODULE MatchResultsProofs -------------------------
(***************************************************************************)
(* Proofs that results take only the steps of Players, so that what        *)
(* PlayersProofs shows of merges holds for whole systems, and that what a  *)
(* device was told is recorded stays so: each result keeps naming its      *)
(* match, and each signature its side, whoever merges afterwards.  Then    *)
(* that a match's results stay one chain, that only its head gains         *)
(* signatures, that two sides settle what two sides must, and that what a  *)
(* match shows moves as MatchStates says.                                  *)
(***************************************************************************)
EXTENDS MatchResults, PlayersProofs, FiniteSetTheorems

\* What record_result() and override_result() checked when they stored a
\* result, which no later step may undo.
Stored(p) ==
  /\ MatchOf(p) \in scored /\ details[MatchOf(p)] # None
  /\ says[p].legal
  /\ SameDetails(MatchOf(p), says[p].details)

\* The signature counts for the side it was given for.
Counted(p, a) == Survivor(a.player) = Survivor(details[MatchOf(p)].players[a.side])

\* The inductive invariant, beside Players' IInv.
RInv ==
  /\ TypeOK
  /\ \A p \in results : Stored(p)
  /\ \A p \in Payload \ results : approvals[p] = {}
  /\ ApprovalsNameTheirSide

-----------------------------------------------------------------------------
\* A result is the first one of its match, checked like FirstResult, or leaves
\* accounts, players and matches alone.
LEMMA StepsAreOfPlayers == [Next]_vars => [PlayersNext]_playerVars
<1> SUFFICES ASSUME [Next]_vars
             PROVE  [PlayersNext]_playerVars
  OBVIOUS
<1>1. CASE WorldStep
  BY <1>1 DEF WorldStep, PlayersNext, Adopt, RevokeKey, RegisterKey
<1>2. ASSUME NEW m \in Match, details[m] # None, ~OnePlayer(m), scored' = scored \cup {m},
             UNCHANGED <<kind, made, merged, relation, asked, details, creating>>
      PROVE  [PlayersNext]_playerVars
  <2>1. CASE m \in scored
    BY <1>2, <2>1 DEF playerVars
  <2>2. CASE m \notin scored
    BY <1>2, <2>2 DEF FirstResult, PlayersNext
  <2> QED BY <2>1, <2>2
<1>3. ASSUME NEW m \in Match, NEW p \in Payload, NEW sigs \in Envelope, RecordResult(m, p, sigs)
      PROVE  [PlayersNext]_playerVars
  BY <1>2, <1>3 DEF RecordResult, Acceptable
<1>4. ASSUME NEW m \in Match, NEW p \in Payload, OverrideResult(m, p)
      PROVE  [PlayersNext]_playerVars
  BY <1>2, <1>4 DEF OverrideResult
<1>5. ASSUME NEW m \in Match, PushBoard(m)
      PROVE  [PlayersNext]_playerVars
  BY <1>5 DEF PushBoard
<1>6. CASE UNCHANGED vars
  BY <1>6 DEF vars
<1> QED BY <1>1, <1>3, <1>4, <1>5, <1>6 DEF Next, ResultStep

\* Results, overrides, boards and keys do to accounts and players only what
\* Players says, with both sides checked before a match's first result.
THEOREM ResultsTakePlayersSteps == Spec => TakesPlayersSteps
BY StepsAreOfPlayers, PTL DEF Spec, TakesPlayersSteps

\* So MatchResults implements Players.
THEOREM ResultsImplementPlayers == Spec => PlayersSpec
<1>1. Init => PlayersInit
  BY DEF Init
<1> QED BY <1>1, StepsAreOfPlayers, PTL DEF Spec, PlayersSpec

\* No match that records results, of whatever payloads and signatures, ever
\* has both its sides become one player.
THEOREM ResultsKeepSidesApart == Spec => []SidesApart
BY ResultsImplementPlayers, SidesStayApart, PTL

-----------------------------------------------------------------------------
\* What Players' steps leave of a match and of what its details resolve to.
LEMMA MatchesStay ==
  ASSUME IInv, [PlayersNext]_playerVars
  PROVE  /\ scored \subseteq scored'
         /\ \A m \in Match : details[m] # None => details'[m] = details[m]
<1>1. ASSUME NEW a \in Account,
             \/ \E p \in Player : StartGuest(a, p) \/ AnswerYes(a, p)
             \/ ResumeSession(a) \/ CreateAccount(a) \/ VerifyInPlace(a)
             \/ \E p, target \in Player : AnswerSameAs(a, p, target)
             \/ \E p \in Player, leaves \in {"managed", "none"} : AnswerNo(a, p, leaves)
             \/ \E guest \in Account : AdoptGuest(guest, a)
      PROVE  UNCHANGED <<details, scored>>
  BY <1>1 DEF StartGuest, AnswerYes, ResumeSession, CreateAccount, VerifyInPlace,
              AnswerSameAs, AnswerNo, AdoptGuest
<1>2. ASSUME NEW m \in Match, FinishCreate(m)
      PROVE  scored' = scored /\ \A n \in Match : details[n] # None => details'[n] = details[n]
  BY <1>2 DEF FinishCreate, IInv, PlayersTypeOK, MatchesMadeOnce
<1>3. ASSUME NEW m \in Match, \/ \E a \in Account, d \in Details : BeginCreate(a, m, d)
                              \/ FirstResult(m)
      PROVE  details' = details /\ scored \subseteq scored'
  BY <1>3 DEF BeginCreate, FirstResult
<1>4. CASE UNCHANGED playerVars
  BY <1>4 DEF playerVars
<1>5. CASE AccountStep
  BY <1>1, <1>5 DEF AccountStep
<1> QED BY <1>1, <1>2, <1>3, <1>4, <1>5 DEF PlayersNext, CreateStep

\* Details that resolve to the same players and terms go on to.
LEMMA ResolvedStays ==
  ASSUME IInv, [PlayersNext]_playerVars, NEW d \in Details, NEW e \in Details,
         Resolved(d) = Resolved(e)
  PROVE  (Resolved(d) = Resolved(e))'
<1>1. d.players[1] \in Player /\ d.players[2] \in Player
  BY DEF Details
<1>2. e.players[1] \in Player /\ e.players[2] \in Player
  BY DEF Details
<1>3. /\ d.terms = e.terms
      /\ Survivor(d.players[1]) = Survivor(e.players[1])
      /\ Survivor(d.players[2]) = Survivor(e.players[2])
  <2>1. Resolved(d).terms = d.terms /\ Resolved(e).terms = e.terms
    BY DEF Resolved, Details
  <2>2. /\ Resolved(d).players = <<Survivor(d.players[1]), Survivor(d.players[2])>>
        /\ Resolved(e).players = <<Survivor(e.players[1]), Survivor(e.players[2])>>
    BY DEF Resolved, Details
  <2> QED BY <2>1, <2>2
<1>4. /\ Survivor(d.players[1])' = Survivor(e.players[1])'
      /\ Survivor(d.players[2])' = Survivor(e.players[2])'
  BY <1>1, <1>2, <1>3, OnePlayerStep
<1> QED BY <1>3, <1>4 DEF Resolved, Details

\* A survivor is its own survivor.
LEMMA SurvivorsAreTheirOwn ==
  ASSUME IInv, NEW p \in Player
  PROVE  Survivor(p) \in Player /\ Survivor(Survivor(p)) = Survivor(p)
BY PlayersAssumption DEF IInv, PlayersTypeOK, OneStepToSurvivor, Survivor

-----------------------------------------------------------------------------
\* Facts about payloads that need no state.
LEMMA PayloadFacts ==
  ASSUME NEW p \in Payload
  PROVE  /\ MatchOf(p) \in Match /\ says[p].details \in Details
         /\ says[p].details.players[1] \in Player /\ says[p].details.players[2] \in Player
BY ResultsAssumption DEF MatchOf, Content, Details

LEMMA DetailsFacts ==
  ASSUME IInv, NEW m \in Match, details[m] # None
  PROVE  /\ details[m] \in Details
         /\ details[m].players[1] \in Player /\ details[m].players[2] \in Player
BY DEF IInv, PlayersTypeOK, Details

\* What was stored and counted stays right, whatever happens to the players.
LEMMA StoredStays ==
  ASSUME IInv, RInv, [PlayersNext]_playerVars, NEW p \in results
  PROVE  /\ Stored(p)'
         /\ \A a \in approvals[p] : Counted(p, a)'
<1> DEFINE m == MatchOf(p)
<1>1. p \in Payload /\ Stored(p)
  BY DEF RInv, TypeOK
<1>2. m \in Match /\ says[p].details \in Details
  BY <1>1, PayloadFacts
<1>3. m \in scored /\ details[m] # None /\ says[p].legal
      /\ Resolved(says[p].details) = Resolved(details[m])
  BY <1>1 DEF Stored, SameDetails
<1>4. m \in scored' /\ details'[m] = details[m]
  BY <1>2, <1>3, MatchesStay
<1> HIDE DEF m
<1>5. /\ details[m] \in Details
      /\ details[m].players[1] \in Player /\ details[m].players[2] \in Player
  BY <1>2, <1>3, DetailsFacts
<1>6. PICK d \in Details : d = details[m]
  BY <1>5
<1>7. PICK e \in Details : e = says[p].details
  BY <1>2
<1>8. (Resolved(e) = Resolved(d))'
  BY <1>3, <1>6, <1>7, ResolvedStays
<1>9. Stored(p)'
  <2>1. (Resolved(says[p].details) = Resolved(details[m]))'
    BY <1>4, <1>6, <1>7, <1>8 DEF Resolved, Survivor
  <2>2. m = MatchOf(p)
    BY DEF m
  <2> QED BY <1>3, <1>4, <2>1, <2>2 DEF Stored, SameDetails, MatchOf
<1>10. ASSUME NEW a \in approvals[p]
       PROVE  Counted(p, a)'
  <2>1. a.player \in Player /\ a.side \in Side
    BY <1>1 DEF RInv, TypeOK, Approval
  <2>2. Survivor(a.player) = Survivor(details[m].players[a.side])
    BY DEF RInv, ApprovalsNameTheirSide, m
  <2>3. PICK q \in Player : q = details[m].players[a.side]
    BY <1>5, <2>1 DEF Side
  <2>4. (Survivor(a.player) = Survivor(q))'
    BY <2>1, <2>2, <2>3, OnePlayerStep
  <2>5. m = MatchOf(p)
    BY DEF m
  <2>6. q = details'[m].players[a.side]
    BY <1>4, <2>3
  <2> QED BY <2>4, <2>5, <2>6 DEF Counted, Survivor, MatchOf
<1> QED BY <1>9, <1>10

\* A step that stores no result and counts no signature.
LEMMA OtherStepsKeepRInv ==
  ASSUME IInv, IInv', RInv, [PlayersNext]_playerVars,
         owner' \in [Key -> Account \cup {None}], revoked' \subseteq Key,
         boards' \subseteq Match,
         UNCHANGED <<results, overrides, accepted, current, approvals>>
  PROVE  RInv'
<1>1. TypeOK'
  BY DEF RInv, TypeOK, IInv
<1>2. \A p \in results' : Stored(p)'
  BY StoredStays
<1>3. ApprovalsNameTheirSide'
  BY StoredStays DEF ApprovalsNameTheirSide, Counted
<1> QED BY <1>1, <1>2, <1>3 DEF RInv

\* What record_result() adds is stored as it was checked, and counts for the
\* player its side resolves to.
LEMMA RecordKeepsRInv ==
  ASSUME IInv, IInv', RInv,
         NEW m \in Match, NEW p \in Payload, NEW sigs \in Envelope, RecordResult(m, p, sigs)
  PROVE  RInv'
<1>1. [PlayersNext]_playerVars
  <2>1. [Next]_vars
    BY DEF Next, ResultStep
  <2> QED BY <2>1, StepsAreOfPlayers
<1>2. /\ results' = results \cup {p} /\ scored' = scored \cup {m}
      /\ approvals' = [approvals EXCEPT ![p] = approvals[p] \cup NewApprovals(p, sigs)]
      /\ UNCHANGED <<merged, details, owner, revoked, overrides, boards>>
  BY DEF RecordResult, keyVars
<1>3. /\ MatchOf(p) = m /\ says[p].legal /\ details[m] # None
      /\ Resolved(says[p].details) = Resolved(details[m])
  BY DEF RecordResult, Acceptable, SameDetails
<1>4. \A q \in Player : Survivor(q)' = Survivor(q)
  BY <1>2 DEF Survivor
<1>5. /\ says[p].details \in Details
      /\ says[p].details.players[1] \in Player /\ says[p].details.players[2] \in Player
  BY PayloadFacts
<1>6. NewApprovals(p, sigs) \subseteq Approval
  <2> SUFFICES ASSUME NEW s \in sigs
               PROVE  [key |-> s.key, side |-> s.side,
                       player |-> Survivor(NameOn(p, s.side))] \in Approval
    BY DEF NewApprovals, Signers
  <2>1. s.key \in Key /\ s.side \in Side
    BY ResultsAssumption DEF Signature
  <2>2. NameOn(p, s.side) \in Player
    BY <1>5, <2>1 DEF NameOn, Side
  <2> QED BY <2>1, <2>2, SurvivorsAreTheirOwn DEF Approval
<1>7. TypeOK'
  <2>1. accepted' \subseteq accepted \cup {p} /\ current' \in [Match -> Payload \cup {None}]
    BY DEF RecordResult, AcceptIfApproved, Accept, RInv, TypeOK
  <2>2. approvals' \in [Payload -> SUBSET Approval]
    BY <1>2, <1>6 DEF RInv, TypeOK
  <2> QED BY <1>2, <2>1, <2>2 DEF RInv, TypeOK, IInv
<1>8. ASSUME NEW q \in results'
      PROVE  Stored(q)'
  <2>1. CASE q \in results
    BY <1>1, <2>1, StoredStays
  <2>2. CASE q = p
    BY <1>2, <1>3, <2>2 DEF Stored, SameDetails, Resolved, Survivor
  <2> QED BY <1>2, <2>1, <2>2
<1>9. ApprovalsNameTheirSide'
  <2> SUFFICES ASSUME NEW q \in results', NEW a \in approvals'[q]
               PROVE  Counted(q, a)'
    BY DEF ApprovalsNameTheirSide, Counted
  <2>1. CASE a \in approvals[q]
    <3>1. q \in results
      BY <1>2, <2>1 DEF RInv
    <3> QED BY <1>1, <2>1, <3>1, StoredStays
  <2>2. CASE a \notin approvals[q]
    <3>1. q = p /\ a \in NewApprovals(p, sigs)
      BY <1>2, <2>2 DEF RInv, TypeOK
    <3>2. PICK s \in sigs : a.side = s.side /\ a.player = Survivor(NameOn(p, s.side))
      BY <3>1 DEF NewApprovals, Signers
    <3>3. s.side \in Side
      BY ResultsAssumption DEF Signature
    <3>4. NameOn(p, s.side) \in Player /\ details[m].players[s.side] \in Player
      BY <1>3, <1>5, <3>3, DetailsFacts DEF NameOn, Side
    <3>5. Survivor(NameOn(p, s.side)) = Survivor(details[m].players[s.side])
      <4>1. /\ Survivor(says[p].details.players[1]) = Survivor(details[m].players[1])
            /\ Survivor(says[p].details.players[2]) = Survivor(details[m].players[2])
        BY <1>3, <1>5, DetailsFacts DEF Resolved, Details
      <4> QED BY <3>3, <4>1 DEF NameOn, Side
    <3>6. Survivor(a.player) = Survivor(details[m].players[a.side])
      BY <3>2, <3>4, <3>5, SurvivorsAreTheirOwn
    <3> QED BY <1>2, <1>3, <3>1, <3>6 DEF Counted, Survivor, MatchOf
  <2> QED BY <2>1, <2>2
<1>10. \A q \in Payload \ results' : approvals'[q] = {}
  BY <1>2 DEF RInv, TypeOK
<1> QED BY <1>7, <1>8, <1>9, <1>10 DEF RInv

\* An administrator's result names the survivors of the match's sides.
LEMMA OverrideKeepsRInv ==
  ASSUME IInv, IInv', RInv,
         NEW m \in Match, NEW p \in Payload, OverrideResult(m, p)
  PROVE  RInv'
<1>1. [PlayersNext]_playerVars
  <2>1. [Next]_vars
    BY DEF Next, ResultStep
  <2> QED BY <2>1, StepsAreOfPlayers
<1>2. /\ results' = results \cup {p} /\ scored' = scored \cup {m} /\ p \notin results
      /\ overrides' = overrides \cup {p} /\ accepted' = accepted \cup {p}
      /\ current' = [current EXCEPT ![m] = p]
      /\ UNCHANGED <<merged, details, owner, revoked, approvals, boards>>
  BY DEF OverrideResult, keyVars, Accept
<1>3. MatchOf(p) = m /\ says[p].legal /\ details[m] # None
      /\ says[p].details = Resolved(details[m])
  BY DEF OverrideResult, MatchOf
<1>4. Resolved(Resolved(details[m])) = Resolved(details[m])
  <2>1. PICK d \in Details : d = details[m]
    BY <1>3, DetailsFacts
  <2>2. d.players[1] \in Player /\ d.players[2] \in Player
    BY DEF Details
  <2>3. PICK x \in Player, y \in Player :
          /\ x = Survivor(d.players[1]) /\ y = Survivor(d.players[2])
          /\ Survivor(x) = x /\ Survivor(y) = y
    BY <2>2, SurvivorsAreTheirOwn
  <2>4. Resolved(d) = [d EXCEPT !.players = <<x, y>>]
    BY <2>3 DEF Resolved
  <2>5. Resolved(d).players = <<x, y>>
    BY <2>4 DEF Details
  <2>6. Resolved(Resolved(d)) = [Resolved(d) EXCEPT !.players = <<x, y>>]
    BY <2>3, <2>5 DEF Resolved
  <2> QED BY <2>1, <2>4, <2>6 DEF Details
<1>5. TypeOK'
  BY <1>2 DEF RInv, TypeOK, IInv
<1>6. ASSUME NEW q \in results'
      PROVE  /\ Stored(q)'
             /\ \A a \in approvals'[q] : Counted(q, a)'
  <2>1. CASE q \in results
    BY <1>1, <1>2, <2>1, StoredStays
  <2>2. CASE q = p
    <3>1. approvals'[p] = {}
      BY <1>2 DEF RInv
    <3>2. Stored(p)'
      BY <1>2, <1>3, <1>4 DEF Stored, SameDetails, Resolved, Survivor
    <3> QED BY <2>2, <3>1, <3>2
  <2> QED BY <1>2, <2>1, <2>2
<1>7. ApprovalsNameTheirSide'
  BY <1>6 DEF ApprovalsNameTheirSide, Counted
<1> QED BY <1>2, <1>5, <1>6, <1>7 DEF RInv

LEMMA InitRInv == Init => RInv
BY InitIInv, ResultsAssumption DEF Init, RInv, TypeOK, ApprovalsNameTheirSide, IInv

LEMMA NextRInv == IInv /\ IInv' /\ RInv /\ [Next]_vars => RInv'
<1> SUFFICES ASSUME IInv, IInv', RInv, [Next]_vars
             PROVE  RInv'
  OBVIOUS
<1>1. [PlayersNext]_playerVars
  BY StepsAreOfPlayers
<1>2. TypeOK
  BY DEF RInv
<1>3. CASE WorldStep
  <2>1. UNCHANGED resultVars
    BY <1>3 DEF WorldStep, Adopt, RevokeKey, RegisterKey
  <2>2. owner' \in [Key -> Account \cup {None}] /\ revoked' \subseteq Key
    BY <1>2, <1>3 DEF WorldStep, Adopt, RevokeKey, RegisterKey, TypeOK, keyVars
  <2> QED BY <1>1, <1>2, <2>1, <2>2, OtherStepsKeepRInv DEF resultVars, TypeOK
<1>4. ASSUME NEW m \in Match, PushBoard(m)
      PROVE  RInv'
  BY <1>1, <1>2, <1>4, OtherStepsKeepRInv DEF PushBoard, TypeOK, keyVars
<1>5. CASE UNCHANGED vars
  BY <1>1, <1>2, <1>5, OtherStepsKeepRInv DEF vars, resultVars, keyVars, TypeOK
<1> QED BY <1>3, <1>4, <1>5, RecordKeepsRInv, OverrideKeepsRInv DEF Next, ResultStep

LEMMA RInvariance == Spec => [](IInv /\ RInv)
<1>1. Spec => []IInv
  BY ResultsImplementPlayers, Invariance, PTL
<1> QED BY <1>1, InitRInv, NextRInv, PTL DEF Spec

-----------------------------------------------------------------------------
\* Every stored row of results, approvals and keys is of its type.
THEOREM ResultTypesAreCorrect == Spec => []TypeOK
BY RInvariance, PTL DEF RInv

\* A signature that counted keeps counting for the side it was given for,
\* through any chain of merges.
THEOREM ApprovalsStayOnTheirSide == Spec => []ApprovalsNameTheirSide
BY RInvariance, PTL DEF RInv

\* record_result() accepts an exact retry of what it recorded, whatever
\* happened since: no key, manager, merge or later result can refuse it.
THEOREM RetriesAreAccepted == Spec => []RetryAccepted
<1>1. IInv /\ RInv => RetryAccepted
  <2> SUFFICES ASSUME IInv, RInv, NEW p \in results, NEW sigs \in Envelope,
                      \A s \in sigs : Recorded(p, s) /\ s.bytes = "first"
               PROVE  Acceptable(MatchOf(p), p, sigs)
    BY DEF RetryAccepted
  <2>1. Stored(p)
    BY DEF RInv
  <2>2. ~OnePlayer(MatchOf(p))
    BY <2>1 DEF IInv, SidesApart, Stored
  <2>3. Signers(p, sigs) = {}
    BY DEF Signers
  <2> QED BY <2>1, <2>2, <2>3 DEF Acceptable, FitsChain, Stored
<1> QED BY <1>1, RInvariance, PTL

\* What was stored keeps its sides and players and is taken again, for good.
THEOREM StoredResultsStay == Spec => []ResultsInv
BY ResultTypesAreCorrect, ApprovalsStayOnTheirSide, RetriesAreAccepted, PTL DEF ResultsInv

-----------------------------------------------------------------------------
(* The chain of a match's results.                                         *)

\* A match's head is its newest result.
HeadIsNewest ==
  \A m \in Match : \A p \in Heads(m) : \A q \in results :
    MatchOf(q) = m /\ q # p => rank[q] < rank[p]

\* The inductive invariant, beside IInv and RInv.
CInv == ChainInv /\ HeadIsNewest /\ SettledByBothSides

-----------------------------------------------------------------------------
\* A match's head is its only one, and is None before its first result.
LEMMA HeadFacts ==
  ASSUME OneChain, NEW m \in Match
  PROVE  /\ Heads(m) # {} => Head(m) \in Heads(m) /\ Heads(m) = {Head(m)}
         /\ Heads(m) = {} => Head(m) = None
BY DEF OneChain, Head

\* A result that replaces the head is the chain's new head and nothing else's.
LEMMA NewHead ==
  ASSUME IInv, RInv, OneChain, HeadIsNewest, NEW m \in Match, NEW p \in Payload \ results,
         MatchOf(p) = m, Replaces(p) = Head(m), results' = results \cup {p}
  PROVE  /\ Heads(m)' = {p} /\ Head(m)' = p
         /\ \A n \in Match \ {m} : Heads(n)' = Heads(n) /\ Head(n)' = Head(n)
         /\ \A q \in results : MatchOf(q) = m => rank[q] < rank[p] /\ Replaces(q) # Head(m)
         /\ Head(m) # None => Head(m) \in results /\ MatchOf(Head(m)) = m
         /\ \A q \in results' : Replaces(q) # p
<1>1. /\ Heads(m) # {} => Head(m) \in Heads(m) /\ Heads(m) = {Head(m)}
      /\ Heads(m) = {} => Head(m) = None
  BY HeadFacts
<1>2. None \notin Payload /\ results \subseteq Payload
  BY ResultsAssumption DEF RInv, TypeOK
<1>3. Head(m) # None => Head(m) \in results /\ MatchOf(Head(m)) = m
  BY <1>1 DEF Heads
<1>4. \A q \in results : MatchOf(q) = m => Heads(m) # {}
  BY DEF RInv, Stored, OneChain
<1>5. ASSUME NEW q \in results, MatchOf(q) = m
      PROVE  rank[q] < rank[p] /\ Replaces(q) # Head(m)
  <2>1. Head(m) \in Heads(m) /\ Head(m) # None /\ Head(m) \in Payload
    BY <1>1, <1>2, <1>4, <1>5 DEF Heads
  <2>2. Replaces(q) # Head(m)
    BY <2>1 DEF Heads
  <2>3. rank[Head(m)] < rank[p] /\ rank[p] \in Nat /\ rank[Head(m)] \in Nat /\ rank[q] \in Nat
    BY <1>2, <2>1, ResultsAssumption DEF Replaces
  <2>4. q = Head(m) \/ rank[q] < rank[Head(m)]
    BY <1>5, <2>1 DEF HeadIsNewest
  <2> QED BY <2>2, <2>3, <2>4
<1>6. ASSUME NEW q \in results'
      PROVE  Replaces(q) # p
  <2>1. CASE q \in results
    <3>1. Replaces(q) = None \/ Replaces(q) \in results
      BY <2>1 DEF OneChain
    <3> QED BY <1>2, <3>1
  <2>2. CASE q = p
    <3>1. Replaces(p) = None \/ Replaces(p) \in results
      BY <1>3
    <3> QED BY <1>2, <2>2, <3>1
  <2> QED BY <2>1, <2>2
<1>7. Heads(m)' = {p}
  <2>1. p \in Heads(m)'
    BY <1>6 DEF Heads, MatchOf, Replaces
  <2>2. ASSUME NEW q \in Heads(m)', q # p
        PROVE  FALSE
    <3>1. q \in results /\ MatchOf(q) = m /\ q \notin {Replaces(r) : r \in results} /\ q # Replaces(p)
      BY <2>2 DEF Heads, MatchOf, Replaces
    <3>2. q \in Heads(m)
      BY <3>1 DEF Heads
    <3> QED BY <1>1, <3>1, <3>2
  <2> QED BY <2>1, <2>2
<1>8. Head(m)' = p
  BY <1>7 DEF Head
<1>9. ASSUME NEW n \in Match \ {m}
      PROVE  Heads(n)' = Heads(n) /\ Head(n)' = Head(n)
  <2>1. ASSUME NEW q \in results, MatchOf(q) = n
        PROVE  q # Head(m)
    BY <1>3, <1>2, <2>1
  <2>2. Heads(n)' = Heads(n)
    BY <2>1 DEF Heads, MatchOf, Replaces
  <2> QED BY <2>2 DEF Head
<1> QED BY <1>3, <1>5, <1>6, <1>7, <1>8, <1>9

\* Of two sides, those that are some but not both are one.
LEMMA OneSideOfTwo ==
  ASSUME NEW S \in SUBSET Side, S # {}
  PROVE  /\ S = Side \/ \E side \in Side : S = {side}
         /\ S = Side => Cardinality(S) = 2
         /\ Cardinality(S) \in {1, 2}
         /\ Cardinality(S) = 2 => S = Side
<1>1. S = {1, 2} \/ S = {1} \/ S = {2}
  BY DEF Side
<1>2. Cardinality({1}) = 1 /\ Cardinality({2}) = 1
  BY FS_Singleton
<1>3. Cardinality({1, 2}) = 2
  <2>1. IsFiniteSet({1})
    BY FS_Singleton
  <2>2. Cardinality({1} \cup {2}) = Cardinality({1}) + 1
    BY <2>1, FS_AddElement, 2 \notin {1}
  <2>3. {1} \cup {2} = {1, 2}
    OBVIOUS
  <2> QED BY <1>2, <2>2, <2>3
<1> QED BY <1>1, <1>2, <1>3 DEF Side

\* The head that a result's signatures are for, once they are stored.
LEMMA RecordedHead ==
  ASSUME IInv, RInv, CInv, NEW m \in Match, NEW p \in Payload, NEW sigs \in Envelope,
         RecordResult(m, p, sigs)
  PROVE  /\ Heads(m)' = {p} /\ Head(m)' = p
         /\ \A n \in Match \ {m} : Heads(n)' = Heads(n) /\ Head(n)' = Head(n)
         /\ p \in results => Head(m) = p /\ Heads(m) = {p}
<1>1. MatchOf(p) = m /\ FitsChain(m, p, sigs) /\ Signers(p, sigs) # {} /\ results' = results \cup {p}
  BY DEF RecordResult, Acceptable
<1>2. OneChain /\ HeadIsNewest
  BY DEF CInv, ChainInv
<1>3. CASE p \notin results
  <2>1. Replaces(p) = Head(m)
    BY <1>1, <1>3 DEF FitsChain
  <2> QED BY <1>1, <1>2, <1>3, <2>1, NewHead
<1>4. CASE p \in results
  <2>1. p = Head(m)
    BY <1>1, <1>4 DEF FitsChain
  <2>2. Heads(m) = {p}
    BY <1>2, <2>1, HeadFacts, ResultsAssumption
  <2>3. results' = results
    BY <1>1, <1>4
  <2>4. \A n \in Match : Heads(n)' = Heads(n) /\ Head(n)' = Head(n)
    BY <2>3 DEF Heads, Head, MatchOf, Replaces
  <2> QED BY <2>1, <2>2, <2>4
<1> QED BY <1>3, <1>4

\* What record_result() does to its result's sides: they settle it, or it was
\* settled before, or one side of two waits.
LEMMA RecordFacts ==
  ASSUME RInv, NEW m \in Match, NEW p \in Payload, NEW sigs \in Envelope,
         RecordResult(m, p, sigs)
  PROVE  /\ SidesOf(approvals'[p]) \in SUBSET Side /\ SidesOf(approvals'[p]) # {}
         /\ approvals[p] \subseteq approvals'[p]
         /\ \A q \in Payload \ {p} : approvals'[q] = approvals[q]
         /\ \/ /\ accepted' = accepted /\ current' = current
               /\ p \in accepted \/ \E side \in Side : SidesOf(approvals'[p]) = {side}
            \/ /\ p \notin accepted /\ Accept(m, p)
               /\ \/ SidesOf(approvals'[p]) = Side
                  \/ says[p].details.terms \notin Rated /\ current[m] = None
<1> DEFINE counted == approvals[p] \cup NewApprovals(p, sigs)
<1>1. approvals' = [approvals EXCEPT ![p] = counted] /\ AcceptIfApproved(m, p, counted)
  BY DEF RecordResult
<1>2. approvals'[p] = counted /\ \A q \in Payload \ {p} : approvals'[q] = approvals[q]
  BY <1>1 DEF RInv, TypeOK
<1>3. SidesOf(counted) \in SUBSET Side
  <2>1. SidesOf(approvals[p]) \subseteq Side
    BY DEF RInv, TypeOK, SidesOf, Approval
  <2>2. SidesOf(NewApprovals(p, sigs)) \subseteq Side
    BY ResultsAssumption DEF NewApprovals, Signers, Signature, SidesOf
  <2> QED BY <2>1, <2>2 DEF SidesOf
<1>4. SidesOf(counted) # {}
  <2>1. NewApprovals(p, sigs) # {}
    BY DEF RecordResult, NewApprovals
  <2> QED BY <2>1 DEF SidesOf
<1>5. SidesNeeded(m, p) \in {1, 2}
      /\ (SidesNeeded(m, p) = 1 => says[p].details.terms \notin Rated /\ current[m] = None)
  BY DEF SidesNeeded
<1>6. /\ Cardinality(SidesOf(counted)) \in {1, 2}
      /\ Cardinality(SidesOf(counted)) = 2 => SidesOf(counted) = Side
      /\ SidesOf(counted) = Side \/ \E side \in Side : SidesOf(counted) = {side}
      /\ SidesOf(counted) = Side => Cardinality(SidesOf(counted)) = 2
  <2>1. PICK S \in SUBSET Side : S = SidesOf(counted)
    BY <1>3
  <2> QED BY <1>4, <2>1, OneSideOfTwo
<1>7. CASE p \notin accepted /\ Cardinality(SidesOf(counted)) >= SidesNeeded(m, p)
  <2>1. Accept(m, p)
    BY <1>1, <1>7 DEF AcceptIfApproved
  <2>2. \/ SidesOf(counted) = Side
        \/ says[p].details.terms \notin Rated /\ current[m] = None
    BY <1>5, <1>7, <1>6
  <2> QED BY <1>2, <1>3, <1>4, <1>7, <2>1, <2>2
<1>8. CASE ~(p \notin accepted /\ Cardinality(SidesOf(counted)) >= SidesNeeded(m, p))
  <2>1. accepted' = accepted /\ current' = current
    BY <1>1, <1>8 DEF AcceptIfApproved
  <2>2. p \in accepted \/ \E side \in Side : SidesOf(counted) = {side}
    BY <1>5, <1>8, <1>6
  <2> QED BY <1>2, <1>3, <1>4, <2>1, <2>2
<1> QED BY <1>7, <1>8

-----------------------------------------------------------------------------
\* A new head continues the chain.
LEMMA ChainGrows ==
  ASSUME IInv, RInv, CInv, NEW m \in Match, NEW p \in Payload \ results,
         MatchOf(p) = m, Replaces(p) = Head(m),
         results' = results \cup {p}, scored' = scored \cup {m}
  PROVE  OneChain' /\ HeadIsNewest'
<1>1. OneChain /\ HeadIsNewest
  BY DEF CInv, ChainInv
<1>2. /\ Heads(m)' = {p}
      /\ \A n \in Match \ {m} : Heads(n)' = Heads(n)
      /\ \A q \in results : MatchOf(q) = m => rank[q] < rank[p] /\ Replaces(q) # Head(m)
      /\ Head(m) # None => Head(m) \in results /\ MatchOf(Head(m)) = m
  BY <1>1, NewHead
<1>3. \A q \in results' : Replaces(q) # None =>
        Replaces(q) \in results' /\ MatchOf(Replaces(q)) = MatchOf(q)
  BY <1>1, <1>2 DEF OneChain
<1>4. \A q, r \in results' : MatchOf(q) = MatchOf(r) /\ Replaces(q) = Replaces(r) => q = r
  BY <1>1, <1>2 DEF OneChain
<1>5. \A n \in Match : (n \in scored' <=> Heads(n)' # {}) /\ \A q, r \in Heads(n)' : q = r
  BY <1>1, <1>2 DEF OneChain
<1>6. OneChain'
  BY <1>3, <1>4, <1>5 DEF OneChain, MatchOf, Replaces
<1>7. HeadIsNewest'
  <2> SUFFICES ASSUME NEW n \in Match, NEW h \in Heads(n)', NEW q \in results', MatchOf(q) = n, q # h
               PROVE  rank[q] < rank[h]
    BY DEF HeadIsNewest, MatchOf
  <2>1. CASE n = m
    BY <1>2, <2>1
  <2>2. CASE n # m
    BY <1>1, <1>2, <2>2 DEF HeadIsNewest
  <2> QED BY <2>1, <2>2
<1> QED BY <1>6, <1>7

\* What is accepted as its match's head is the newest accepted.
LEMMA AcceptKeepsCurrent ==
  ASSUME RInv, CInv, NEW m \in Match, NEW p \in Payload, MatchOf(p) = m, Accept(m, p),
         accepted \subseteq results', HeadIsNewest', Heads(m)' = {p}
  PROVE  CurrentIsNewestAccepted'
<1>1. accepted' = accepted \cup {p} /\ current' = [current EXCEPT ![m] = p]
  BY DEF Accept
<1>2. CurrentIsNewestAccepted /\ current \in [Match -> Payload \cup {None}]
  BY DEF CInv, ChainInv, RInv, TypeOK
<1>3. \A q \in accepted : MatchOf(q) = m /\ q # p => rank[q] < rank[p]
  BY DEF HeadIsNewest, MatchOf
<1>4. ASSUME NEW n \in Match
      PROVE  LET of == {q \in accepted' : MatchOf(q) = n}
             IN IF of = {} THEN current'[n] = None
                ELSE current'[n] \in of /\ \A q \in of \ {current'[n]} : rank[q] < rank[current'[n]]
  <2>1. CASE n = m
    <3>1. current'[n] = p
      BY <1>1, <1>2, <2>1
    <3> QED BY <1>1, <1>3, <2>1, <3>1
  <2>2. CASE n # m
    <3>1. current'[n] = current[n]
      BY <1>1, <1>2, <2>2
    <3>2. {q \in accepted' : MatchOf(q) = n} = {q \in accepted : MatchOf(q) = n}
      BY <1>1, <2>2
    <3> QED BY <1>2, <3>1, <3>2 DEF CurrentIsNewestAccepted
  <2> QED BY <2>1, <2>2
<1> QED BY <1>4 DEF CurrentIsNewestAccepted, MatchOf

\* record_result() keeps the chain, its newest result and its pending head.
LEMMA RecordKeepsCInv ==
  ASSUME IInv, RInv, CInv, NEW m \in Match, NEW p \in Payload, NEW sigs \in Envelope,
         RecordResult(m, p, sigs)
  PROVE  CInv'
<1>1. /\ MatchOf(p) = m /\ FitsChain(m, p, sigs) /\ Signers(p, sigs) # {}
      /\ results' = results \cup {p} /\ scored' = scored \cup {m}
      /\ overrides' = overrides
  BY DEF RecordResult, Acceptable
<1>2. /\ Heads(m)' = {p} /\ \A n \in Match \ {m} : Heads(n)' = Heads(n)
      /\ p \in results => Heads(m) = {p}
  BY RecordedHead
<1>3. OneChain' /\ HeadIsNewest'
  <2>1. CASE p \notin results
    <3>1. Replaces(p) = Head(m)
      BY <1>1, <2>1 DEF FitsChain
    <3> QED BY <1>1, <2>1, <3>1, ChainGrows
  <2>2. CASE p \in results
    <3>1. m \in scored
      BY <1>1, <2>2 DEF RInv, Stored
    <3>2. UNCHANGED <<results, scored>>
      BY <1>1, <2>2, <3>1
    <3> QED BY <3>2 DEF CInv, ChainInv, OneChain, HeadIsNewest, Heads, MatchOf, Replaces
  <2> QED BY <2>1, <2>2
<1>4. /\ SidesOf(approvals'[p]) \in SUBSET Side /\ SidesOf(approvals'[p]) # {}
      /\ approvals[p] \subseteq approvals'[p]
      /\ \A q \in Payload \ {p} : approvals'[q] = approvals[q]
      /\ \/ /\ accepted' = accepted /\ current' = current
            /\ p \in accepted \/ \E side \in Side : SidesOf(approvals'[p]) = {side}
         \/ /\ p \notin accepted /\ Accept(m, p)
            /\ \/ SidesOf(approvals'[p]) = Side
               \/ says[p].details.terms \notin Rated /\ current[m] = None
  BY RecordFacts
<1>5. accepted \subseteq accepted' /\ accepted \subseteq results /\ results \subseteq Payload
  BY <1>4 DEF Accept, RInv, TypeOK
<1>6. PendingHeadHasOneSide'
  <2> SUFFICES ASSUME NEW n \in Match, NEW h \in Heads(n)' \ accepted'
               PROVE  \E side \in Side : SidesOf(approvals'[h]) = {side}
    BY DEF PendingHeadHasOneSide, SidesOf
  <2>1. CASE n = m
    BY <1>2, <1>4, <2>1 DEF Accept
  <2>2. CASE n # m
    <3>1. h \in Heads(n) \ accepted /\ h # p /\ h \in Payload
      BY <1>1, <1>2, <1>5, <2>2 DEF Heads
    <3> QED BY <1>4, <3>1 DEF CInv, ChainInv, PendingHeadHasOneSide
  <2> QED BY <2>1, <2>2
<1>7. CurrentIsNewestAccepted'
  <2>1. CASE accepted' = accepted /\ current' = current
    BY <2>1 DEF CInv, ChainInv, CurrentIsNewestAccepted, MatchOf
  <2>2. CASE Accept(m, p)
    BY <1>1, <1>2, <1>3, <1>5, <2>2, AcceptKeepsCurrent
  <2> QED BY <1>4, <2>1, <2>2
<1>8. SettledByBothSides'
  <2> SUFFICES ASSUME NEW q \in accepted' \ overrides'
               PROVE  \/ SidesOf(approvals'[q]) = Side
                      \/ /\ says[q].details.terms \notin Rated
                         /\ SidesOf(approvals'[q]) # {}
                         /\ \A r \in accepted' : MatchOf(r) = MatchOf(q) => rank[r] >= rank[q]
    BY DEF SettledByBothSides, SidesOf, MatchOf
  <2>1. q \in Payload /\ \A r \in accepted' : r \in Payload /\ rank[r] \in Nat
    BY <1>4, <1>5, ResultsAssumption DEF Accept
  <2>2. \A r \in accepted : MatchOf(r) = m /\ r # p => rank[r] < rank[p]
    BY <1>2, <1>3, <1>1, <1>5 DEF HeadIsNewest, MatchOf
  <2>3. CASE q \in accepted
    <3>1. \/ SidesOf(approvals[q]) = Side
          \/ /\ says[q].details.terms \notin Rated
             /\ SidesOf(approvals[q]) # {}
             /\ \A r \in accepted : MatchOf(r) = MatchOf(q) => rank[r] >= rank[q]
      BY <1>1, <2>3 DEF CInv, SettledByBothSides
    <3>2. SidesOf(approvals[q]) \subseteq SidesOf(approvals'[q])
          /\ SidesOf(approvals'[q]) \subseteq Side
      <4>1. SidesOf(approvals[q]) \subseteq Side
        BY <2>1 DEF RInv, TypeOK, SidesOf, Approval
      <4> QED BY <1>4, <2>1, <4>1 DEF SidesOf
    <3>3. \A r \in accepted' : r \in accepted \/ (r = p /\ MatchOf(r) = m)
      BY <1>1, <1>4 DEF Accept
    <3>4. \A r \in accepted' : r \notin accepted /\ MatchOf(r) = MatchOf(q) => rank[r] >= rank[q]
      BY <2>1, <2>2, <2>3, <3>3
    <3> QED BY <3>1, <3>2, <3>4
  <2>4. CASE q \notin accepted
    <3>1. q = p /\ p \notin accepted /\ accepted' = accepted \cup {p}
      BY <1>4, <2>4 DEF Accept
    <3>2. CASE SidesOf(approvals'[p]) = Side
      BY <3>1, <3>2
    <3>3. CASE says[p].details.terms \notin Rated /\ current[m] = None
      <4>1. \A r \in accepted : MatchOf(r) # m
        <5> SUFFICES ASSUME NEW r \in accepted, MatchOf(r) = m PROVE FALSE
          OBVIOUS
        <5>1. current[m] \in {x \in accepted : MatchOf(x) = m}
          BY DEF CInv, ChainInv, CurrentIsNewestAccepted
        <5> QED BY <1>5, <3>3, <5>1, ResultsAssumption
      <4> QED BY <1>1, <1>4, <2>1, <3>1, <3>3, <4>1
    <3> QED BY <1>4, <3>1, <3>2, <3>3
  <2> QED BY <2>3, <2>4
<1> QED BY <1>3, <1>6, <1>7, <1>8 DEF CInv, ChainInv

\* override_result() replaces the head and settles the match.
LEMMA OverrideKeepsCInv ==
  ASSUME IInv, RInv, CInv, NEW m \in Match, NEW p \in Payload, OverrideResult(m, p)
  PROVE  CInv'
<1>1. /\ MatchOf(p) = m /\ Replaces(p) = Head(m) /\ p \notin results
      /\ results' = results \cup {p} /\ scored' = scored \cup {m}
      /\ overrides' = overrides \cup {p} /\ Accept(m, p) /\ approvals' = approvals
  BY DEF OverrideResult, MatchOf, Replaces
<1>2. OneChain /\ HeadIsNewest
  BY DEF CInv, ChainInv
<1>3. OneChain' /\ HeadIsNewest'
  BY <1>1, ChainGrows
<1>4. Heads(m)' = {p} /\ \A n \in Match \ {m} : Heads(n)' = Heads(n)
  BY <1>1, <1>2, NewHead
<1>5. accepted \subseteq results /\ results \subseteq Payload /\ accepted' = accepted \cup {p}
  BY <1>1 DEF RInv, TypeOK, Accept
<1>6. PendingHeadHasOneSide'
  <2> SUFFICES ASSUME NEW n \in Match, NEW h \in Heads(n)' \ accepted'
               PROVE  \E side \in Side : SidesOf(approvals[h]) = {side}
    BY <1>1 DEF PendingHeadHasOneSide, SidesOf
  <2>1. n # m /\ h \in Heads(n) \ accepted
    BY <1>4, <1>5
  <2> QED BY <2>1 DEF CInv, ChainInv, PendingHeadHasOneSide
<1>7. CurrentIsNewestAccepted'
  BY <1>1, <1>3, <1>4, <1>5, AcceptKeepsCurrent
<1>8. SettledByBothSides'
  <2> SUFFICES ASSUME NEW q \in accepted \ overrides
               PROVE  \/ SidesOf(approvals[q]) = Side
                      \/ /\ says[q].details.terms \notin Rated
                         /\ SidesOf(approvals[q]) # {}
                         /\ \A r \in accepted \cup {p} : MatchOf(r) = MatchOf(q) => rank[r] >= rank[q]
    BY <1>1, <1>5 DEF SettledByBothSides, SidesOf, MatchOf
  <2>1. MatchOf(q) = m => rank[p] >= rank[q]
    <3>1. q \in results' /\ q # p /\ p \in Heads(m)' /\ rank[p] \in Nat /\ rank[q] \in Nat
      BY <1>1, <1>4, <1>5, ResultsAssumption
    <3> QED BY <1>3, <3>1 DEF HeadIsNewest, MatchOf
  <2> QED BY <1>1, <2>1 DEF CInv, SettledByBothSides
<1> QED BY <1>3, <1>6, <1>7, <1>8 DEF CInv, ChainInv

\* Nothing else touches results, approvals or what they settled.
LEMMA OtherStepsKeepCInv ==
  ASSUME CInv, UNCHANGED <<results, overrides, accepted, current, approvals, scored>>
  PROVE  CInv'
<1>1. OneChain' /\ HeadIsNewest'
  BY DEF CInv, ChainInv, OneChain, HeadIsNewest, Heads, MatchOf, Replaces
<1>2. PendingHeadHasOneSide'
  BY DEF CInv, ChainInv, PendingHeadHasOneSide, Heads, MatchOf, Replaces, SidesOf
<1>3. CurrentIsNewestAccepted'
  BY DEF CInv, ChainInv, CurrentIsNewestAccepted, MatchOf
<1>4. SettledByBothSides'
  BY DEF CInv, SettledByBothSides, MatchOf, SidesOf
<1> QED BY <1>1, <1>2, <1>3, <1>4 DEF CInv, ChainInv

LEMMA InitCInv == Init => CInv
BY DEF Init, PlayersInit, CInv, ChainInv, OneChain, PendingHeadHasOneSide, CurrentIsNewestAccepted,
       HeadIsNewest, SettledByBothSides, Heads

\* What a step that is no result's leaves.
LEMMA WorldLeavesResults ==
  ASSUME [Next]_vars, ~ResultStep
  PROVE  UNCHANGED <<resultVars, scored>>
<1>1. CASE WorldStep
  <2>1. CASE AccountStep /\ UNCHANGED resultVars
    BY <2>1 DEF AccountStep, StartGuest, ResumeSession, CreateAccount, VerifyInPlace, AnswerYes,
                AnswerSameAs, AnswerNo, AdoptGuest
  <2>2. CASE CreateStep /\ UNCHANGED resultVars
    BY <2>2 DEF CreateStep, BeginCreate, FinishCreate
  <2>3. CASE \E guest, into \in Account : Adopt(guest, into)
    BY <2>3 DEF Adopt, AdoptGuest
  <2>4. CASE \E k \in Key : RevokeKey(k) \/ \E a \in Account : RegisterKey(k, a)
    BY <2>4 DEF RevokeKey, RegisterKey, playerVars
  <2> QED BY <1>1, <2>1, <2>2, <2>3, <2>4 DEF WorldStep
<1>2. CASE UNCHANGED vars
  BY <1>2 DEF vars, playerVars
<1> QED BY <1>1, <1>2 DEF Next

LEMMA NextCInv == IInv /\ RInv /\ CInv /\ [Next]_vars => CInv'
<1> SUFFICES ASSUME IInv, RInv, CInv, [Next]_vars
             PROVE  CInv'
  OBVIOUS
<1>1. ASSUME NEW m \in Match, PushBoard(m)
      PROVE  CInv'
  BY <1>1, OtherStepsKeepCInv DEF PushBoard, playerVars
<1>2. CASE ~ResultStep
  BY <1>2, WorldLeavesResults, OtherStepsKeepCInv DEF resultVars
<1> QED BY <1>1, <1>2, RecordKeepsCInv, OverrideKeepsCInv DEF ResultStep

LEMMA CInvariance == Spec => [](IInv /\ RInv /\ CInv)
BY RInvariance, InitCInv, NextCInv, PTL DEF Spec

-----------------------------------------------------------------------------
\* The results of a match are one chain, its head is decided or waits for one
\* side, and its current result is the newest that was accepted, whatever
\* devices send in any order (match_results.py, match_state()).
THEOREM ResultsStayOneChain == Spec => []ChainInv
BY CInvariance, PTL DEF CInv

\* No result of a rated match and no correction of a final one ever counts by
\* one side's signature alone (match_results.py _sides_needed).
THEOREM BothSidesSettle == Spec => []SettledByBothSides
BY CInvariance, PTL DEF CInv

-----------------------------------------------------------------------------
\* A result that a request stores or signs is its match's head then, and newer
\* than the current one if it becomes that.
LEMMA StepsKeepHistory ==
  ASSUME IInv, RInv, CInv, CInv', [Next]_vars
  PROVE  /\ \A p \in Payload :
              approvals'[p] # approvals[p] \/ (p \in accepted' \ accepted) => p = Head(MatchOf(p))'
         /\ \A m \in Match : current[m] # None /\ current'[m] # current[m] =>
              current'[m] # None /\ rank[current'[m]] > rank[current[m]]
<1>1. ASSUME NEW m \in Match, NEW p \in Payload, MatchOf(p) = m, Heads(m)' = {p}, Head(m)' = p,
             \A q \in Payload \ {p} : approvals'[q] = approvals[q],
             results \subseteq results',
             \/ accepted' = accepted /\ current' = current
             \/ Accept(m, p)
      PROVE  /\ \A q \in Payload :
                  approvals'[q] # approvals[q] \/ (q \in accepted' \ accepted)
                    => q = Head(MatchOf(q))'
             /\ \A n \in Match : current[n] # None /\ current'[n] # current[n] =>
                  current'[n] # None /\ rank[current'[n]] > rank[current[n]]
  <2>1. \A q \in Payload : approvals'[q] # approvals[q] \/ (q \in accepted' \ accepted) => q = p
    BY <1>1 DEF Accept
  <2>2. p = Head(MatchOf(p))'
    BY <1>1 DEF MatchOf
  <2>3. ASSUME NEW n \in Match, current[n] # None, current'[n] # current[n]
        PROVE  current'[n] # None /\ rank[current'[n]] > rank[current[n]]
    <3>1. Accept(m, p)
      BY <1>1, <2>3
    <3>2. n = m /\ current'[m] = p /\ p # None /\ current[m] # p
      BY <2>3, <3>1, ResultsAssumption DEF Accept, RInv, TypeOK
    <3>3. current[m] \in accepted /\ MatchOf(current[m]) = m
      BY <2>3, <3>2 DEF CInv, ChainInv, CurrentIsNewestAccepted
    <3>4. current[m] \in results' /\ rank[p] \in Nat /\ rank[current[m]] \in Nat
      BY <1>1, <3>3, ResultsAssumption DEF RInv, TypeOK
    <3>5. rank[current[m]] < rank[p]
      BY <1>1, <3>2, <3>3, <3>4 DEF CInv, HeadIsNewest, MatchOf
    <3> QED BY <3>2, <3>4, <3>5
  <2> QED BY <2>1, <2>2, <2>3
<1>2. ASSUME NEW m \in Match, NEW p \in Payload, NEW sigs \in Envelope, RecordResult(m, p, sigs)
      PROVE  /\ MatchOf(p) = m /\ Heads(m)' = {p} /\ Head(m)' = p
             /\ \A q \in Payload \ {p} : approvals'[q] = approvals[q]
             /\ results \subseteq results'
             /\ \/ accepted' = accepted /\ current' = current
                \/ Accept(m, p)
  <2>1. MatchOf(p) = m /\ results \subseteq results'
    BY <1>2 DEF RecordResult, Acceptable
  <2> QED BY <1>2, <2>1, RecordedHead, RecordFacts
<1>3. ASSUME NEW m \in Match, NEW p \in Payload, OverrideResult(m, p)
      PROVE  /\ MatchOf(p) = m /\ Heads(m)' = {p} /\ Head(m)' = p
             /\ \A q \in Payload \ {p} : approvals'[q] = approvals[q]
             /\ results \subseteq results' /\ Accept(m, p)
  <2>1. /\ MatchOf(p) = m /\ Replaces(p) = Head(m) /\ p \notin results
        /\ results' = results \cup {p} /\ Accept(m, p) /\ approvals' = approvals
    BY <1>3 DEF OverrideResult, MatchOf, Replaces
  <2> QED BY <2>1, NewHead DEF CInv, ChainInv
<1>4. CASE UNCHANGED <<approvals, accepted, current>>
  BY <1>4
<1>5. ASSUME NEW m \in Match, PushBoard(m)
      PROVE  UNCHANGED <<approvals, accepted, current>>
  BY <1>5 DEF PushBoard
<1>6. CASE ~ResultStep
  BY <1>4, <1>6, WorldLeavesResults DEF resultVars
<1> QED BY <1>1, <1>2, <1>3, <1>4, <1>5, <1>6 DEF ResultStep

\* A replaced result gains no signature and is never accepted, and the current
\* result never goes back (match_results.py, not_head and stale).
THEOREM HistoryNeverChanges == Spec => HistoryStays
<1>1. IInv /\ RInv /\ CInv /\ CInv' /\ [Next]_vars =>
        /\ [\A p \in Payload :
             approvals'[p] # approvals[p] \/ (p \in accepted' \ accepted)
               => p = Head(MatchOf(p))']_vars
        /\ [\A m \in Match : current[m] # None /\ current'[m] # current[m] =>
             current'[m] # None /\ rank[current'[m]] > rank[current[m]]]_vars
  BY StepsKeepHistory
<1> QED BY <1>1, CInvariance, PTL DEF Spec, HistoryStays, OnlyTheHeadChanges, CurrentMovesForward

-----------------------------------------------------------------------------
\* What a match shows, by its head.
ShownByHead ==
  \A m \in Match :
    /\ Heads(m) = {} => Shown(m) = IF m \in boards THEN States!Live ELSE States!NotStarted
    /\ \A p \in Payload : Heads(m) = {p} /\ p \in accepted => Shown(m) = States!Final
    /\ \A p \in Payload, side \in Side :
         Heads(m) = {p} /\ p \notin accepted /\ SidesOf(approvals[p]) = {side} =>
           Shown(m) = IF Disputes(Replaces(p), side) THEN States!Disputed(side) ELSE States!Awaiting(side)

LEMMA ShowsByHead == ShownByHead
<1> SUFFICES ASSUME NEW m \in Match
             PROVE  /\ Heads(m) = {} => Shown(m) = IF m \in boards THEN States!Live ELSE States!NotStarted
                    /\ \A p \in Payload : Heads(m) = {p} /\ p \in accepted => Shown(m) = States!Final
                    /\ \A p \in Payload, side \in Side :
                         Heads(m) = {p} /\ p \notin accepted /\ SidesOf(approvals[p]) = {side} =>
                           Shown(m) = IF Disputes(Replaces(p), side)
                                      THEN States!Disputed(side) ELSE States!Awaiting(side)
  BY DEF ShownByHead
<1>1. ASSUME Heads(m) = {}
      PROVE  Shown(m) = IF m \in boards THEN States!Live ELSE States!NotStarted
  <2>1. Head(m) = None
    BY <1>1 DEF Head
  <2> QED BY <2>1 DEF Shown, States!Live, States!NotStarted
<1>2. ASSUME NEW p \in Payload, Heads(m) = {p}
      PROVE  Head(m) = p /\ p # None
  BY <1>2, ResultsAssumption DEF Head
<1>3. ASSUME NEW p \in Payload, Heads(m) = {p}, p \in accepted
      PROVE  Shown(m) = States!Final
  <2>1. Head(m) = p /\ p # None
    BY <1>2, <1>3
  <2> QED BY <1>3, <2>1 DEF Shown, States!Final
<1>4. ASSUME NEW p \in Payload, NEW side \in Side,
             Heads(m) = {p}, p \notin accepted, SidesOf(approvals[p]) = {side}
      PROVE  Shown(m) = IF Disputes(Replaces(p), side) THEN States!Disputed(side) ELSE States!Awaiting(side)
  <2> DEFINE signer == CHOOSE t \in Side : SidesOf(approvals[p]) = {t}
  <2>1. SidesOf(approvals[p]) = {signer}
    BY <1>4
  <2>2. signer = side
    BY <1>4, <2>1
  <2>3. Head(m) = p /\ p # None
    BY <1>2, <1>4
  <2>4. Shown(m) = [state |-> IF Disputes(Replaces(p), signer) THEN "disputed" ELSE "awaiting",
                    signer |-> signer]
    BY <1>4, <2>3 DEF Shown
  <2> HIDE DEF signer
  <2> QED BY <2>2, <2>4 DEF States!Disputed, States!Awaiting
<1> QED BY <1>1, <1>3, <1>4

LEMMA ShowsByHeadNext == ShownByHead'
BY ShowsByHead, PTL

\* A match whose results and board nothing touches shows the same.
LEMMA OthersShowTheSame ==
  ASSUME RInv, CInv, NEW n \in Match, Heads(n)' = Heads(n), n \in boards' <=> n \in boards,
         \A q \in Payload : MatchOf(q) = n =>
           approvals'[q] = approvals[q] /\ (q \in accepted' <=> q \in accepted)
  PROVE  Shown(n)' = Shown(n)
<1>1. ShownByHead /\ ShownByHead'
  BY ShowsByHead, ShowsByHeadNext
<1>2. CASE Heads(n) = {}
  BY <1>1, <1>2 DEF ShownByHead
<1>3. CASE Heads(n) # {}
  <2>1. PICK p \in Payload : Heads(n) = {p} /\ p \in results /\ MatchOf(p) = n
    BY <1>3, HeadFacts DEF CInv, ChainInv, Heads, RInv, TypeOK
  <2>2. CASE p \in accepted
    BY <1>1, <2>1, <2>2 DEF ShownByHead
  <2>3. CASE p \notin accepted
    <3>1. PICK side \in Side : SidesOf(approvals[p]) = {side}
      BY <2>1, <2>3 DEF CInv, ChainInv, PendingHeadHasOneSide
    <3>2. SidesOf(approvals'[p]) = {side} /\ p \notin accepted'
      BY <2>1, <2>3, <3>1
    <3>3. Replaces(p) # None => Replaces(p) \in Payload /\ MatchOf(Replaces(p)) = n
      BY <2>1 DEF CInv, ChainInv, OneChain, RInv, TypeOK
    <3>4. Disputes(Replaces(p), side)' <=> Disputes(Replaces(p), side)
      BY <3>3 DEF Disputes, Replaces, SidesOf
    <3>5. Shown(n) = IF Disputes(Replaces(p), side) THEN States!Disputed(side) ELSE States!Awaiting(side)
      BY <1>1, <2>1, <2>3, <3>1 DEF ShownByHead
    <3>6. Shown(n)' = IF Disputes(Replaces(p), side)' THEN States!Disputed(side) ELSE States!Awaiting(side)
      <4>1. (SidesOf(approvals[p]) = {side})' /\ Heads(n)' = {p}
        BY <2>1, <3>2 DEF SidesOf
      <4> QED BY <1>1, <3>2, <4>1 DEF ShownByHead, Replaces
    <3> QED BY <3>4, <3>5, <3>6
  <2> QED BY <2>2, <2>3
<1> QED BY <1>2, <1>3

\* A step that changes what one match shows, if it does as MatchStates says.
LEMMA ShownSteps ==
  ASSUME NEW m \in Match, current \in [Match -> Payload \cup {None}],
         current' \in [Match -> Payload \cup {None}],
         \A n \in Match \ {m} : Shown(n)' = Shown(n) /\ current'[n] = current[n],
         \/ Shown(m)' = Shown(m) /\ current'[m] = current[m]
         \/ Shown(m)' = States!Final /\ current'[m] # None
         \/ Shown(m) = States!NotStarted /\ Shown(m)' = States!Live /\ current'[m] = current[m]
         \/ /\ current'[m] = current[m]
            /\ \E side \in Side : Shown(m)' =
                 IF \E other \in Side \ {side} :
                      Shown(m) \in {States!Awaiting(other), States!Disputed(other)}
                 THEN States!Disputed(side) ELSE States!Awaiting(side)
  PROVE  [States!Next]_(States!vars)
<1> DEFINE show == [n \in Match |-> Shown(n)]
           final == {n \in Match : current[n] # None}
<1>1. show' = [show EXCEPT ![m] = Shown(m)']
  OBVIOUS
<1>2. CASE Shown(m)' = Shown(m) /\ current'[m] = current[m]
  <2>1. \A n \in Match : Shown(n)' = Shown(n) /\ current'[n] = current[n]
    BY <1>2
  <2>2. show' = show /\ final' = final
    BY <2>1
  <2> QED BY <2>2 DEF States!vars
<1>3. CASE Shown(m)' = States!Final /\ current'[m] # None
  <2>1. final' = final \cup {m}
    BY <1>3
  <2>2. States!Settle(m)
    BY <1>1, <1>3, <2>1 DEF States!Settle
  <2> QED BY <2>2 DEF States!Next
<1>4. CASE Shown(m) = States!NotStarted /\ Shown(m)' = States!Live /\ current'[m] = current[m]
  <2>1. final' = final
    BY <1>4
  <2>2. show[m] = States!NotStarted
    BY <1>4
  <2>3. States!KeepScore(m)
    BY <1>1, <1>4, <2>1, <2>2 DEF States!KeepScore
  <2> QED BY <2>3 DEF States!Next
<1>5. ASSUME current'[m] = current[m], NEW side \in Side,
             Shown(m)' =
                 IF \E other \in Side \ {side} :
                      Shown(m) \in {States!Awaiting(other), States!Disputed(other)}
                 THEN States!Disputed(side) ELSE States!Awaiting(side)
      PROVE  States!Next
  <2>1. final' = final
    BY <1>5
  <2>2. show[m] = Shown(m)
    OBVIOUS
  <2>3. States!Propose(m, side)
    BY <1>1, <1>5, <2>1, <2>2 DEF States!Propose
  <2> QED BY <2>3 DEF States!Next
<1> QED BY <1>2, <1>3, <1>4, <1>5

\* What record_result() does to a match shows as one of MatchStates' steps:
\* proposed scores, a settled match, or nothing.
LEMMA RecordShows ==
  ASSUME IInv, RInv, RInv', CInv, CInv', NEW m \in Match, NEW p \in Payload, NEW sigs \in Envelope,
         RecordResult(m, p, sigs)
  PROVE  [States!Next]_(States!vars)
<1>1. /\ MatchOf(p) = m /\ FitsChain(m, p, sigs) /\ results' = results \cup {p} /\ boards' = boards
      /\ Signers(p, sigs) # {}
  BY DEF RecordResult, Acceptable
<1>2. /\ Heads(m)' = {p} /\ \A n \in Match \ {m} : Heads(n)' = Heads(n)
      /\ p \in results => Heads(m) = {p}
  BY RecordedHead
<1>3. /\ SidesOf(approvals'[p]) \in SUBSET Side /\ SidesOf(approvals'[p]) # {}
      /\ approvals[p] \subseteq approvals'[p]
      /\ \A q \in Payload \ {p} : approvals'[q] = approvals[q]
      /\ \/ /\ accepted' = accepted /\ current' = current
            /\ p \in accepted \/ \E side \in Side : SidesOf(approvals'[p]) = {side}
         \/ /\ p \notin accepted /\ Accept(m, p)
  BY RecordFacts
<1>4. current \in [Match -> Payload \cup {None}] /\ current' \in [Match -> Payload \cup {None}]
  BY DEF RInv, TypeOK
<1>5. \A n \in Match \ {m} : Shown(n)' = Shown(n) /\ current'[n] = current[n]
  <2> SUFFICES ASSUME NEW n \in Match \ {m} PROVE Shown(n)' = Shown(n) /\ current'[n] = current[n]
    OBVIOUS
  <2>1. \A q \in Payload : MatchOf(q) = n =>
          approvals'[q] = approvals[q] /\ (q \in accepted' <=> q \in accepted)
    BY <1>1, <1>3 DEF Accept
  <2>2. Shown(n)' = Shown(n)
    BY <1>1, <1>2, <2>1, OthersShowTheSame
  <2> QED BY <1>3, <1>4, <2>2 DEF Accept
<1>6. ShownByHead /\ ShownByHead'
  BY ShowsByHead, ShowsByHeadNext
<1>7. CASE p \in accepted
  <2>1. p \in results /\ accepted' = accepted /\ current' = current
    BY <1>3, <1>7 DEF RInv, TypeOK
  <2>2. Shown(m) = States!Final /\ Shown(m)' = States!Final
    BY <1>2, <1>6, <1>7, <2>1 DEF ShownByHead
  <2> QED BY <1>4, <1>5, <2>1, <2>2, ShownSteps
<1>8. CASE Accept(m, p)
  <2>1. Shown(m)' = States!Final
    BY <1>2, <1>6, <1>8 DEF ShownByHead, Accept
  <2>2. current'[m] # None
    BY <1>4, <1>8, ResultsAssumption DEF Accept
  <2> QED BY <1>4, <1>5, <2>1, <2>2, ShownSteps
<1>9. ASSUME p \notin accepted, accepted' = accepted, current' = current,
             NEW side \in Side, SidesOf(approvals'[p]) = {side}
      PROVE  [States!Next]_(States!vars)
  <2>1. Shown(m)' = IF Disputes(Replaces(p), side)' THEN States!Disputed(side) ELSE States!Awaiting(side)
    <3>1. (SidesOf(approvals[p]) = {side})'
      BY <1>9 DEF SidesOf
    <3> QED BY <1>2, <1>6, <1>9, <3>1 DEF ShownByHead, Replaces
  <2>2. Replaces(p) # p /\ (Replaces(p) # None => Replaces(p) \in Payload)
    <3>1. Replaces(p) # None => Replaces(p) \in Payload /\ rank[Replaces(p)] < rank[p]
      BY ResultsAssumption DEF Replaces, Content
    <3> QED BY <3>1, ResultsAssumption
  <2>3. Disputes(Replaces(p), side)' <=> Disputes(Replaces(p), side)
    BY <1>3, <1>9, <2>2 DEF Disputes, Replaces, SidesOf
  <2>4. CASE p \in results
    <3>1. Heads(m) = {p}
      BY <1>2, <2>4
    <3>2. PICK s \in Side : SidesOf(approvals[p]) = {s}
      BY <1>9, <3>1 DEF CInv, ChainInv, PendingHeadHasOneSide
    <3>3. SidesOf(approvals[p]) = {side}
      BY <1>3, <1>9, <3>2 DEF SidesOf
    <3>4. Shown(m) = IF Disputes(Replaces(p), side) THEN States!Disputed(side) ELSE States!Awaiting(side)
      BY <1>6, <1>9, <3>1, <3>3 DEF ShownByHead
    <3> QED BY <1>4, <1>5, <1>9, <2>1, <2>3, <3>4, ShownSteps
  <2>5. CASE p \notin results
    <3>1. Replaces(p) = Head(m)
      BY <1>1, <2>5 DEF FitsChain
    <3>2. (\E other \in Side \ {side} : Shown(m) \in {States!Awaiting(other), States!Disputed(other)})
            <=> Disputes(Replaces(p), side)
      <4>1. CASE Heads(m) = {}
        <5>1. Head(m) = None
          BY <4>1, HeadFacts DEF CInv, ChainInv
        <5>2. Shown(m) \in {States!Live, States!NotStarted}
          BY <1>6, <4>1 DEF ShownByHead
        <5> QED BY <3>1, <5>1, <5>2 DEF Disputes, States!Live, States!NotStarted, States!Awaiting, States!Disputed
      <4>2. CASE Heads(m) # {}
        <5>1. /\ Heads(m) = {Head(m)} /\ Head(m) \in Payload /\ Head(m) # None
          BY <4>2, HeadFacts, ResultsAssumption DEF CInv, ChainInv, Heads, RInv, TypeOK
        <5>2. CASE Head(m) \in accepted
          <6>1. Shown(m) = States!Final
            BY <1>6, <5>1, <5>2 DEF ShownByHead
          <6>2. \A other \in Side : Shown(m) \notin {States!Awaiting(other), States!Disputed(other)}
            BY <6>1 DEF States!Final, States!Awaiting, States!Disputed
          <6>3. ~Disputes(Replaces(p), side)
            BY <3>1, <5>2 DEF Disputes
          <6> QED BY <6>2, <6>3
        <5>3. CASE Head(m) \notin accepted
          <6>1. PICK s \in Side : SidesOf(approvals[Head(m)]) = {s}
            BY <5>1, <5>3 DEF CInv, ChainInv, PendingHeadHasOneSide
          <6>2. Shown(m) \in {States!Awaiting(s), States!Disputed(s)}
            BY <1>6, <5>1, <5>3, <6>1 DEF ShownByHead
          <6>3. \A other \in Side : Shown(m) \in {States!Awaiting(other), States!Disputed(other)} <=> other = s
            BY <6>2 DEF States!Awaiting, States!Disputed
          <6>4. Disputes(Replaces(p), side) <=> {s} = Side \ {side}
            BY <3>1, <5>1, <5>3, <6>1 DEF Disputes
          <6> QED BY <6>3, <6>4 DEF Side
        <5> QED BY <5>2, <5>3
      <4> QED BY <4>1, <4>2
    <3> QED BY <1>4, <1>5, <1>9, <2>1, <2>3, <3>2, ShownSteps
  <2> QED BY <2>4, <2>5
<1> QED BY <1>3, <1>7, <1>8, <1>9

LEMMA OverrideShows ==
  ASSUME IInv, RInv, RInv', CInv, NEW m \in Match, NEW p \in Payload, OverrideResult(m, p)
  PROVE  [States!Next]_(States!vars)
<1>1. /\ MatchOf(p) = m /\ Replaces(p) = Head(m) /\ p \notin results /\ boards' = boards
      /\ results' = results \cup {p} /\ Accept(m, p) /\ approvals' = approvals
  BY DEF OverrideResult, MatchOf, Replaces
<1>2. Heads(m)' = {p} /\ \A n \in Match \ {m} : Heads(n)' = Heads(n)
  BY <1>1, NewHead DEF CInv, ChainInv
<1>3. current \in [Match -> Payload \cup {None}] /\ current' \in [Match -> Payload \cup {None}]
  BY DEF RInv, TypeOK
<1>4. \A n \in Match \ {m} : Shown(n)' = Shown(n) /\ current'[n] = current[n]
  <2> SUFFICES ASSUME NEW n \in Match \ {m} PROVE Shown(n)' = Shown(n) /\ current'[n] = current[n]
    OBVIOUS
  <2>1. \A q \in Payload : MatchOf(q) = n => (q \in accepted' <=> q \in accepted)
    BY <1>1 DEF Accept
  <2>2. Shown(n)' = Shown(n)
    BY <1>1, <1>2, <2>1, OthersShowTheSame
  <2> QED BY <1>1, <1>3, <2>2 DEF Accept
<1>5. Shown(m)' = States!Final
  BY <1>1, <1>2, ShowsByHeadNext DEF ShownByHead, Accept
<1>6. current'[m] # None
  BY <1>1, <1>3, ResultsAssumption DEF Accept
<1> QED BY <1>3, <1>4, <1>5, <1>6, ShownSteps

LEMMA BoardShows ==
  ASSUME RInv, RInv', CInv, NEW m \in Match, PushBoard(m)
  PROVE  [States!Next]_(States!vars)
<1>1. boards' = boards \cup {m} /\ UNCHANGED <<results, accepted, current, approvals>> /\ current[m] = None
  BY DEF PushBoard
<1>2. \A n \in Match : Heads(n)' = Heads(n)
  BY <1>1 DEF Heads, MatchOf, Replaces
<1>3. \A n \in Match \ {m} : Shown(n)' = Shown(n) /\ current'[n] = current[n]
  BY <1>1, <1>2, OthersShowTheSame
<1>4. current \in [Match -> Payload \cup {None}] /\ current' \in [Match -> Payload \cup {None}]
  BY DEF RInv, TypeOK
<1>5. ShownByHead /\ ShownByHead'
  BY ShowsByHead, ShowsByHeadNext
<1>6. CASE Heads(m) = {}
  <2>1. Shown(m)' = States!Live
    BY <1>1, <1>2, <1>5, <1>6 DEF ShownByHead
  <2>2. Shown(m) \in {States!Live, States!NotStarted}
    BY <1>5, <1>6 DEF ShownByHead
  <2> QED BY <1>1, <1>3, <1>4, <2>1, <2>2, ShownSteps
<1>7. CASE Heads(m) # {} /\ m \notin boards
  <2>1. PICK p \in Payload : Heads(m) = {p} /\ p \in results /\ MatchOf(p) = m
    BY <1>7, HeadFacts DEF CInv, ChainInv, Heads, RInv, TypeOK
  <2>2. CASE p \in accepted
    <3>1. Shown(m) = States!Final /\ Shown(m)' = States!Final
      BY <1>1, <1>2, <1>5, <2>1, <2>2 DEF ShownByHead
    <3> QED BY <1>1, <1>3, <1>4, <3>1, ShownSteps
  <2>3. CASE p \notin accepted
    <3>1. PICK side \in Side : SidesOf(approvals[p]) = {side}
      BY <2>1, <2>3 DEF CInv, ChainInv, PendingHeadHasOneSide
    <3>2. (SidesOf(approvals[p]) = {side})' /\ Heads(m)' = {p} /\ p \notin accepted'
      BY <1>1, <1>2, <2>1, <2>3, <3>1 DEF SidesOf
    <3>3. Disputes(Replaces(p), side)' <=> Disputes(Replaces(p), side)
      BY <1>1 DEF Disputes, Replaces, SidesOf
    <3>4. Shown(m) = IF Disputes(Replaces(p), side) THEN States!Disputed(side) ELSE States!Awaiting(side)
      BY <1>5, <2>1, <2>3, <3>1 DEF ShownByHead
    <3>5. Shown(m)' = IF Disputes(Replaces(p), side)' THEN States!Disputed(side) ELSE States!Awaiting(side)
      BY <1>5, <3>2 DEF ShownByHead, Replaces
    <3>6. Shown(m)' = Shown(m)
      BY <3>3, <3>4, <3>5
    <3> QED BY <1>1, <1>3, <1>4, <3>6, ShownSteps
  <2> QED BY <2>2, <2>3
<1>8. CASE m \in boards
  <2>1. Shown(m)' = Shown(m)
    BY <1>1, <1>2, <1>8, OthersShowTheSame
  <2> QED BY <1>1, <1>3, <1>4, <2>1, ShownSteps
<1> QED BY <1>6, <1>7, <1>8

LEMMA NextShows ==
  ASSUME IInv, RInv, RInv', CInv, CInv', [Next]_vars
  PROVE  [States!Next]_(States!vars)
<1>1. CASE ~ResultStep
  <2>1. UNCHANGED <<results, accepted, current, approvals, boards>>
    BY <1>1, WorldLeavesResults DEF resultVars
  <2>2. \A n \in Match : Heads(n)' = Heads(n)
    BY <2>1 DEF Heads, MatchOf, Replaces
  <2>3. \A n \in Match : Shown(n)' = Shown(n)
    BY <2>1, <2>2, OthersShowTheSame
  <2> QED BY <2>1, <2>3 DEF States!vars
<1> QED BY <1>1, RecordShows, OverrideShows, BoardShows DEF ResultStep

LEMMA InitShows == Init => States!Init
<1> SUFFICES ASSUME Init PROVE States!Init
  OBVIOUS
<1>1. results = {} /\ boards = {} /\ current = [m \in Match |-> None]
  BY DEF Init
<1>2. \A m \in Match : Shown(m) = States!NotStarted
  BY <1>1, ShowsByHead DEF ShownByHead, Heads
<1> QED BY <1>1, <1>2 DEF States!Init

\* What a match shows, by match_state() over chains, keys and merges, only
\* moves as MatchStates says: a final match is never live or not started again,
\* and only the other side's pending scores are disputed.
THEOREM MatchesShowTheirStates == Spec => ShowsMatchStates
BY CInvariance, InitShows, NextShows, PTL DEF Spec, ShowsMatchStates, States!Spec
=============================================================================
