--------------------------- MODULE PlayersProofs ---------------------------
(***************************************************************************)
(* Proofs that Players keeps its invariants for every set of accounts,     *)
(* players and matches. None of them is inductive alone. A merge is one    *)
(* step because nobody else manages the players it merges, and those are   *)
(* the right players because guests own one player and self players are    *)
(* never merged. IInv holds them together.                                 *)
(*                                                                         *)
(* And about "Is this you?", for any account, players, matches and answers *)
(* in other tabs. A list on its way to the tab has every question that the *)
(* account still has and none that the tab's list hasn't, so a question    *)
(* seen answered stays answered. The list of a tab that is alone is the    *)
(* API's, so the API takes what the page offers.                           *)
(***************************************************************************)
EXTENDS Players, PlayerReview, FiniteSetTheorems, WellFoundedInduction, TLAPS

Row == [Player -> {"none", "self", "managed"}]

\* Only players that exist have a row, or are merged.
OnlyMade ==
  /\ \A a \in Account, p \in Player : relation[a][p] # "none" => p \in made
  /\ \A p \in Player : merged[p] # None => p \in made

\* A match with a result was made, and one being made wasn't yet.
MatchesMadeOnce ==
  \A m \in Match :
    /\ creating[m] # None => details[m] = None
    /\ m \in scored => details[m] # None

\* The inductive invariant.
IInv ==
  /\ PlayersTypeOK
  /\ OnlyMade
  /\ OneStepToSurvivor
  /\ OneManager
  /\ QuestionsAnswerable
  /\ GuestsOwnOnePlayer
  /\ MatchesMadeOnce
  /\ SidesApart

-----------------------------------------------------------------------------
\* Of two players, one is the original and the other the copy.
LEMMA Pair ==
  ASSUME NEW p \in Player, NEW q \in Player, p # q
  PROVE  /\ {Original(p, q), Copy(p, q)} = {p, q}
         /\ Original(p, q) < Copy(p, q)
         /\ Original(p, q) \in Player /\ Copy(p, q) \in Player
  BY PlayersAssumption DEF Original, Copy

\* A merge of two players that aren't merged keeps the merges one step deep,
\* and touches nobody that wasn't one of the two or merged into one.
LEMMA MergeIsOneStep ==
  ASSUME PlayersTypeOK, OneStepToSurvivor,
         NEW p \in Player, NEW q \in Player, p # q,
         p \in made, q \in made, merged[p] = None, merged[q] = None,
         merged' = Repointed(p, q), made \subseteq made'
  PROVE  /\ merged' \in [Player -> Player \cup {None}]
         /\ OneStepToSurvivor'
         /\ \A r \in Player \ {Copy(p, q)} : merged[r] = None => merged'[r] = None
         /\ merged'[Copy(p, q)] = Original(p, q)
<1> DEFINE o == Original(p, q)
           c == Copy(p, q)
<1>1. o \in Player /\ c \in Player /\ o # c /\ o < c /\ {o, c} = {p, q}
  BY Pair, PlayersAssumption
<1>2. merged[o] = None /\ merged[c] = None /\ o \in made /\ c \in made
  BY <1>1
<1>3. None \notin Player
  BY PlayersAssumption
<1>4. merged' = [r \in Player |-> IF r = c \/ merged[r] = c THEN o ELSE merged[r]]
  BY DEF Repointed
<1> HIDE DEF o, c
<1>5. merged' \in [Player -> Player \cup {None}]
  BY <1>1, <1>4 DEF PlayersTypeOK
<1>6. \A r \in Player \ {c} : merged[r] = None => merged'[r] = None
  BY <1>1, <1>3, <1>4
<1>7. merged'[c] = o
  BY <1>1, <1>4
<1>8. OneStepToSurvivor'
  <2> SUFFICES ASSUME NEW r \in Player, merged'[r] # None
               PROVE  merged'[r] \in made' /\ merged'[merged'[r]] = None /\ merged'[r] < r
    BY DEF OneStepToSurvivor
  <2>1. CASE r = c
    BY <2>1, <1>1, <1>2, <1>6, <1>7
  <2>2. CASE r # c /\ merged[r] = c
    <3>1. c < r /\ merged'[r] = o
      BY <2>2, <1>1, <1>3, <1>4 DEF OneStepToSurvivor
    <3>2. o < r
      BY <3>1, <1>1, PlayersAssumption
    <3> QED BY <3>1, <3>2, <1>1, <1>2, <1>6
  <2>3. CASE r # c /\ merged[r] # c
    <3>1. merged'[r] = merged[r]
      BY <2>3, <1>4
    <3>2. merged[r] \in Player /\ merged[r] \in made /\ merged[merged[r]] = None /\ merged[r] < r
      BY <3>1 DEF OneStepToSurvivor, PlayersTypeOK
    <3> QED BY <3>1, <3>2, <2>3, <1>6
  <2> QED BY <2>1, <2>2, <2>3
<1> QED BY <1>5, <1>6, <1>7, <1>8 DEF o, c

\* Two players stay one player through it, and two that are apart become one
\* only by standing on both sides of the merge.
LEMMA MergeOfSurvivors ==
  ASSUME PlayersTypeOK, OneStepToSurvivor,
         NEW p \in Player, NEW q \in Player, p # q,
         merged[p] = None, merged[q] = None,
         merged' = Repointed(p, q)
  PROVE  \A r \in Player : Survivor(r)' = IF Survivor(r) = Copy(p, q)
                                           THEN Original(p, q) ELSE Survivor(r)
<1>1. Original(p, q) \in Player /\ Copy(p, q) \in Player /\ merged[Copy(p, q)] = None
  BY Pair
<1>2. None \notin Player
  BY PlayersAssumption
<1> QED
  BY <1>1, <1>2 DEF Survivor, Repointed, PlayersTypeOK

\* Nobody who played each other becomes one player through a merge that asks.
LEMMA MergeKeepsSidesApart ==
  ASSUME PlayersTypeOK, OneStepToSurvivor, MatchesMadeOnce, SidesApart,
         NEW p \in Player, NEW q \in Player, p # q,
         merged[p] = None, merged[q] = None,
         ~PlayedEachOther(p, q), merged' = Repointed(p, q),
         UNCHANGED <<details, scored>>
  PROVE  SidesApart'
<1> DEFINE o == Original(p, q)
           c == Copy(p, q)
<1> SUFFICES ASSUME NEW m \in scored, OnePlayer(m)'
             PROVE  FALSE
  BY DEF SidesApart
<1>1. m \in Match /\ details[m] \in Details
  BY DEF MatchesMadeOnce, PlayersTypeOK
<1>2. PICK x \in Player, y \in Player : details[m].players = <<x, y>>
  BY <1>1 DEF Details
<1>3. Survivor(x) # Survivor(y)
  BY <1>2 DEF SidesApart, OnePlayer
<1>4. Survivor(x)' = Survivor(y)'
  BY <1>2 DEF OnePlayer
<1>5. o \in Player /\ c \in Player /\ o # c
  BY Pair, PlayersAssumption
<1> HIDE DEF o, c
<1>6. \A r \in Player : Survivor(r)' = IF Survivor(r) = c THEN o ELSE Survivor(r)
  BY MergeOfSurvivors DEF o, c
<1>7. \/ Survivor(x) = c /\ Survivor(y) = o
      \/ Survivor(x) = o /\ Survivor(y) = c
  BY <1>2, <1>3, <1>4, <1>5, <1>6
<1>8. c \notin Opponents(o)
  BY DEF PlayedEachOther, o, c
<1>9. ASSUME NEW s \in Player, NEW t \in Player, Survivor(s) = o, Survivor(t) = c,
             <<x, y>> \in {<<s, t>>, <<t, s>>}
      PROVE  FALSE
  <2>1. Opposed(s, t)
    BY <1>2, <1>9 DEF Opposed
  <2>2. s = o \/ merged[s] = o
    BY <1>9 DEF Survivor
  <2> QED BY <2>1, <2>2, <1>8, <1>9 DEF Opponents
<1> QED BY <1>2, <1>7, <1>9

-----------------------------------------------------------------------------
\* An account's rows may change to rows of players it managed already, or that
\* were just made, with one self player among them that isn't merged.
LEMMA RowChange ==
  ASSUME IInv,
         NEW a \in Account, NEW row \in Row,
         relation' = [relation EXCEPT ![a] = row],
         made \subseteq made', made' \subseteq Player,
         \A p \in Player : row[p] # "none" => relation[a][p] # "none" \/ p \in made' \ made,
         \A p, q \in Player : row[p] = "self" /\ row[q] = "self" => p = q,
         \A p \in Player : row[p] = "self" => merged'[p] = None,
         \A b \in Account \ {a}, p \in Player :
           relation[b][p] = "self" => merged'[p] = None
  PROVE  /\ relation' \in [Account -> Row]
         /\ \A b \in Account, p \in Player : relation'[b][p] # "none" => p \in made'
         /\ OneManager'
<1>1. relation \in [Account -> Row]
  BY DEF IInv, PlayersTypeOK, Row
<1>2. /\ relation' \in [Account -> Row]
      /\ relation'[a] = row
      /\ \A b \in Account \ {a} : relation'[b] = relation[b]
  BY <1>1
<1>3. \A b \in Account, p \in Player : relation'[b][p] # "none" => p \in made'
  BY <1>2 DEF IInv, OnlyMade
<1>4. \A p \in Player, b, d \in Account :
        relation'[b][p] # "none" /\ relation'[d][p] # "none" => b = d
  BY <1>2 DEF IInv, OnlyMade, OneManager
<1>5. \A b \in Account : \A p, q \in SelfPlayers(b)' : p = q
  BY <1>2 DEF IInv, OneManager, SelfPlayers
<1>6. \A b \in Account : \A p \in SelfPlayers(b)' : merged'[p] = None
  BY <1>2 DEF SelfPlayers
<1> QED BY <1>2, <1>3, <1>4, <1>5, <1>6 DEF OneManager

\* ensure_self_player() adds at most a new player to the rows it is given, and
\* leaves a self player among them.
LEMMA SelfEnsured ==
  ASSUME PlayersTypeOK, NEW a \in Account, NEW row \in Row, EnsureSelf(a, row),
         \A p \in Player : row[p] # "none" => p \in made,
         \A p, q \in Player : row[p] = "self" /\ row[q] = "self" => p = q
  PROVE  \E new \in Row :
           /\ relation' = [relation EXCEPT ![a] = new]
           /\ made \subseteq made' /\ made' \subseteq Player
           /\ \A p \in made : new[p] = row[p]
           /\ \A p \in Player \ made : new[p] # "none" => p \in made'
           /\ \A p, q \in Player : new[p] = "self" /\ new[q] = "self" => p = q
           /\ \E p \in Player : new[p] = "self"
           /\ (\E p \in Player : row[p] = "self") => new = row
<1>1. made \subseteq Player
  BY DEF PlayersTypeOK
<1>2. CASE /\ \E p \in Player : row[p] = "self"
           /\ relation' = [relation EXCEPT ![a] = row]
           /\ UNCHANGED made
  BY <1>1, <1>2
<1>3. ASSUME \A p \in Player : row[p] # "self",
             NEW p \in Player \ made, made' = made \cup {p},
             relation' = [relation EXCEPT ![a] = [row EXCEPT ![p] = "self"]]
      PROVE  \E new \in Row :
               /\ relation' = [relation EXCEPT ![a] = new]
               /\ made \subseteq made' /\ made' \subseteq Player
               /\ \A r \in made : new[r] = row[r]
               /\ \A r \in Player \ made : new[r] # "none" => r \in made'
               /\ \A r, q \in Player : new[r] = "self" /\ new[q] = "self" => r = q
               /\ \E r \in Player : new[r] = "self"
               /\ (\E r \in Player : row[r] = "self") => new = row
  <2> DEFINE new == [row EXCEPT ![p] = "self"]
  <2>1. new \in Row /\ new[p] = "self" /\ \A r \in Player \ {p} : new[r] = row[r]
    BY DEF Row
  <2> HIDE DEF new
  <2>2. relation' = [relation EXCEPT ![a] = new]
    BY <1>3 DEF new
  <2>3. \A r \in made : new[r] = row[r]
    BY <1>1, <1>3, <2>1
  <2>4. \A r, q \in Player : new[r] = "self" /\ new[q] = "self" => r = q
    BY <1>3, <2>1
  <2>5. \A r \in Player \ made : new[r] # "none" => r \in made'
    BY <1>3, <2>1
  <2> QED BY <1>1, <1>3, <2>1, <2>2, <2>3, <2>4, <2>5
<1> QED BY <1>2, <1>3 DEF EnsureSelf

-----------------------------------------------------------------------------
\* The initial state.
LEMMA InitIInv == PlayersInit => IInv
BY PlayersAssumption
DEF PlayersInit, IInv, PlayersTypeOK, OnlyMade, OneStepToSurvivor, OneManager, SelfPlayers,
    QuestionsAnswerable, GuestsOwnOnePlayer, Managed, MatchesMadeOnce, SidesApart

\* The steps that make a match and give it its first result leave the accounts
\* and their players alone.
LEMMA MatchStepsKeepIInv ==
  ASSUME IInv, NEW m \in Match,
         \/ \E a \in Account, d \in Details : BeginCreate(a, m, d)
         \/ FinishCreate(m)
         \/ FirstResult(m)
  PROVE  IInv'
<1> USE DEF IInv
<1>1. UNCHANGED <<kind, made, merged, relation, asked>>
  BY DEF BeginCreate, FinishCreate, FirstResult
<1>2. /\ OnlyMade' /\ OneStepToSurvivor' /\ OneManager' /\ QuestionsAnswerable'
      /\ GuestsOwnOnePlayer'
  BY <1>1 DEF OnlyMade, OneStepToSurvivor, OneManager, SelfPlayers, QuestionsAnswerable,
              GuestsOwnOnePlayer, Managed
<1>3. \A n \in Match : details[n] # None => OnePlayer(n)' = OnePlayer(n) \/ details'[n] # details[n]
  BY <1>1 DEF OnePlayer, Survivor
<1>4. CASE \E a \in Account, d \in Details : BeginCreate(a, m, d)
  <2>1. PICK a \in Account, d \in Details : BeginCreate(a, m, d)
    BY <1>4
  <2>2. PlayersTypeOK'
    BY <2>1, <1>1 DEF PlayersTypeOK, BeginCreate, Creation
  <2>3. MatchesMadeOnce'
    BY <2>1 DEF MatchesMadeOnce, BeginCreate, PlayersTypeOK
  <2>4. SidesApart'
    BY <2>1, <1>1 DEF SidesApart, OnePlayer, Survivor, BeginCreate
  <2> QED BY <1>2, <2>2, <2>3, <2>4
<1>5. CASE FinishCreate(m)
  <2>1. creating[m] \in Creation /\ details[m] = None
    BY <1>5 DEF FinishCreate, PlayersTypeOK, MatchesMadeOnce
  <2>2. creating[m].details \in Details /\ creating[m].details # None
    BY <2>1, PlayersAssumption DEF Creation
  <2>3. PlayersTypeOK'
    BY <1>5, <1>1, <2>2 DEF PlayersTypeOK, FinishCreate
  <2>4. MatchesMadeOnce'
    BY <1>5, <2>2 DEF MatchesMadeOnce, FinishCreate, PlayersTypeOK
  <2>5. m \notin scored
    BY <2>1 DEF MatchesMadeOnce, PlayersTypeOK
  <2>6. \A n \in scored : details'[n] = details[n] /\ scored' = scored
    BY <1>5, <2>5 DEF FinishCreate, PlayersTypeOK
  <2>7. SidesApart'
    BY <1>1, <1>5, <2>6 DEF SidesApart, OnePlayer, Survivor, FinishCreate
  <2> QED BY <1>2, <2>3, <2>4, <2>7
<1>6. CASE FirstResult(m)
  <2>1. PlayersTypeOK' /\ MatchesMadeOnce'
    BY <1>6, <1>1 DEF PlayersTypeOK, MatchesMadeOnce, FirstResult
  <2>2. SidesApart'
    BY <1>6, <1>1 DEF SidesApart, OnePlayer, Survivor, FirstResult
  <2> QED BY <1>2, <2>1, <2>2
<1> QED BY <1>4, <1>5, <1>6

-----------------------------------------------------------------------------
\* While nobody merges, the matches keep their sides.
LEMMA NoMergeKeepsSides ==
  ASSUME IInv, UNCHANGED <<merged, details, creating, scored>>, made \subseteq made'
  PROVE  /\ MatchesMadeOnce' /\ SidesApart' /\ OneStepToSurvivor'
         /\ \A p \in Player : merged'[p] # None => p \in made'
BY DEF IInv, MatchesMadeOnce, SidesApart, OnePlayer, Survivor, OneStepToSurvivor, OnlyMade

LEMMA StartGuestKeepsIInv ==
  ASSUME IInv, NEW a \in Account, NEW p \in Player, StartGuest(a, p)
  PROVE  IInv'
<1>1. /\ relation[a] \in Row /\ \A q \in Player : relation[a][q] = "none"
      /\ asked[a] = {} /\ kind[a] = "absent"
  BY DEF IInv, PlayersTypeOK, Row, GuestsOwnOnePlayer, Managed, StartGuest
<1>2. PICK row \in Row : row = [relation[a] EXCEPT ![p] = "self"]
  BY <1>1 DEF Row
<1>3. row[p] = "self" /\ \A q \in Player \ {p} : row[q] = "none"
  BY <1>1, <1>2 DEF Row
<1>4. relation' = [relation EXCEPT ![a] = row] /\ made' = made \cup {p} /\ p \notin made
  BY <1>2 DEF StartGuest
<1>5. made' \subseteq Player /\ merged' = merged /\ merged[p] = None
  BY <1>4 DEF StartGuest, IInv, PlayersTypeOK, OnlyMade
<1>6. /\ relation' \in [Account -> Row]
      /\ \A b \in Account, q \in Player : relation'[b][q] # "none" => q \in made'
      /\ OneManager'
  <2>1. \A b \in Account \ {a}, q \in Player : relation[b][q] = "self" => merged'[q] = None
    BY <1>5 DEF IInv, OneManager, SelfPlayers
  <2>2. \A q \in Player : row[q] # "none" => relation[a][q] # "none" \/ q \in made' \ made
    BY <1>3, <1>4
  <2>3. \A q \in Player : row[q] = "self" => merged'[q] = None
    BY <1>3, <1>5
  <2>4. \A q, r \in Player : row[q] = "self" /\ row[r] = "self" => q = r
    BY <1>3
  <2>5. made \subseteq made'
    BY <1>4
  <2>6. relation' = [relation EXCEPT ![a] = row] /\ made' \subseteq Player
    BY <1>4, <1>5
  <2> QED BY <2>1, <2>2, <2>3, <2>4, <2>5, <2>6, RowChange, ZenonT(60)
<1>7. MatchesMadeOnce' /\ SidesApart' /\ OneStepToSurvivor' /\ OnlyMade'
  BY <1>4, <1>6, NoMergeKeepsSides DEF StartGuest, OnlyMade
<1>8. PlayersTypeOK'
  BY <1>5, <1>6 DEF StartGuest, IInv, PlayersTypeOK, Row
<1>9. \A b \in Account \ {a} : relation'[b] = relation[b] /\ kind'[b] = kind[b]
  BY <1>4 DEF StartGuest, IInv, PlayersTypeOK
<1>10. relation'[a] = row /\ kind'[a] = "guest" /\ asked' = asked
  BY <1>4 DEF StartGuest, IInv, PlayersTypeOK
<1>11. QuestionsAnswerable'
  BY <1>1, <1>5, <1>9, <1>10 DEF IInv, QuestionsAnswerable
<1>12. GuestsOwnOnePlayer'
  <2>1. Managed(a)' = {p} /\ SelfPlayers(a)' = {p}
    BY <1>3, <1>10 DEF Managed, SelfPlayers
  <2>2. \A b \in Account \ {a} : Managed(b)' = Managed(b) /\ SelfPlayers(b)' = SelfPlayers(b)
    BY <1>9 DEF Managed, SelfPlayers
  <2> QED BY <1>1, <1>9, <1>10, <2>1, <2>2 DEF IInv, GuestsOwnOnePlayer
<1> QED BY <1>6, <1>7, <1>8, <1>11, <1>12 DEF IInv

\* Steps that change the kind of one account, or what it is asked, and no row.
LEMMA RowsUnchangedKeepsIInv ==
  ASSUME IInv, NEW a \in Account, kind[a] \in {"absent", "guest"},
         kind' = [kind EXCEPT ![a] = "verified"],
         NEW S \in SUBSET Managed(a), asked' = [asked EXCEPT ![a] = @ \cup S],
         \A p \in S : merged[p] = None,
         UNCHANGED <<made, merged, relation, details, creating, scored>>
  PROVE  IInv'
<1>1. PlayersTypeOK'
  BY DEF IInv, PlayersTypeOK, Managed
<1>2. MatchesMadeOnce' /\ SidesApart' /\ OneStepToSurvivor' /\ OnlyMade' /\ OneManager'
  BY NoMergeKeepsSides DEF IInv, OnlyMade, OneManager, SelfPlayers
<1>3. QuestionsAnswerable'
  BY DEF IInv, QuestionsAnswerable, Managed, PlayersTypeOK
<1>4. GuestsOwnOnePlayer'
  BY DEF IInv, GuestsOwnOnePlayer, Managed, SelfPlayers, PlayersTypeOK
<1> QED BY <1>1, <1>2, <1>3, <1>4 DEF IInv

LEMMA VerifyKeepsIInv ==
  ASSUME IInv, NEW a \in Account, VerifyInPlace(a) \/ CreateAccount(a)
  PROVE  IInv'
<1>1. CASE VerifyInPlace(a)
  <2> DEFINE S == {p \in Managed(a) : HasPlayed(p)}
  <2>1. \A p \in S : merged[p] = None
    BY <1>1 DEF VerifyInPlace, IInv, GuestsOwnOnePlayer, OneManager
  <2>2. S \in SUBSET Managed(a) /\ asked' = [asked EXCEPT ![a] = @ \cup S]
    BY <1>1 DEF VerifyInPlace
  <2> HIDE DEF S
  <2> QED BY <1>1, <2>1, <2>2, RowsUnchangedKeepsIInv DEF VerifyInPlace
<1>2. CASE CreateAccount(a)
  <2>1. {} \in SUBSET Managed(a) /\ asked' = [asked EXCEPT ![a] = @ \cup {}]
    BY <1>2 DEF CreateAccount, IInv, PlayersTypeOK
  <2> QED BY <1>2, <2>1, RowsUnchangedKeepsIInv DEF CreateAccount
<1> QED BY <1>1, <1>2

-----------------------------------------------------------------------------
\* ensure_self_player() for an account whose rows became `row`, when neither a
\* guest's rows change nor a question stays open about what left them.
LEMMA EnsureSelfKeepsIInv ==
  ASSUME IInv, NEW a \in Account, kind[a] \in {"guest", "verified"}, kind' = kind,
         NEW row \in Row, EnsureSelf(a, row),
         kind[a] = "guest" => row = relation[a],
         \A p \in Player : row[p] # "none" => relation[a][p] # "none",
         \A p, q \in Player : row[p] = "self" /\ row[q] = "self" => p = q,
         merged' \in [Player -> Player \cup {None}],
         \A p \in Player : merged'[p] # None => p \in made,
         \A p \in Player : row[p] = "self" => merged'[p] = None,
         \A p \in Player : relation[a][p] = "none" /\ merged[p] = None => merged'[p] = None,
         asked' \in [Account -> SUBSET Player],
         \A b \in Account \ {a} : asked'[b] = asked[b],
         asked'[a] \subseteq asked[a],
         \A p \in asked'[a] : row[p] # "none" /\ merged'[p] = None,
         UNCHANGED <<details, creating, scored>>
  PROVE  /\ PlayersTypeOK' /\ OnlyMade' /\ OneManager' /\ QuestionsAnswerable'
         /\ GuestsOwnOnePlayer' /\ MatchesMadeOnce' /\ made \subseteq made'
<1>1. \A p \in Player : row[p] # "none" => p \in made
  BY DEF IInv, OnlyMade
<1>2. PlayersTypeOK
  BY DEF IInv
<1>3. PICK new \in Row :
        /\ relation' = [relation EXCEPT ![a] = new]
        /\ made \subseteq made' /\ made' \subseteq Player
        /\ \A p \in made : new[p] = row[p]
        /\ \A p \in Player \ made : new[p] # "none" => p \in made'
        /\ \A p, q \in Player : new[p] = "self" /\ new[q] = "self" => p = q
        /\ \E p \in Player : new[p] = "self"
        /\ (\E p \in Player : row[p] = "self") => new = row
  BY <1>1, <1>2, SelfEnsured, Zenon
<1>4. relation \in [Account -> Row]
  BY DEF IInv, PlayersTypeOK, Row
<1>5. relation'[a] = new /\ \A b \in Account \ {a} : relation'[b] = relation[b]
  BY <1>3, <1>4
<1>6. \A p \in Player : new[p] = "self" => merged'[p] = None
  BY <1>3
<1>7. \A b \in Account \ {a}, p \in Player :
        relation[b][p] # "none" => relation[a][p] = "none"
  BY DEF IInv, OneManager
<1>8. /\ relation' \in [Account -> Row]
      /\ \A b \in Account, p \in Player : relation'[b][p] # "none" => p \in made'
      /\ OneManager'
  <2>1. \A p \in Player : new[p] # "none" => relation[a][p] # "none" \/ p \in made' \ made
    BY <1>3
  <2>2. \A b \in Account \ {a}, p \in Player : relation[b][p] = "self" => merged'[p] = None
    <3>1. \A b \in Account, p \in Player : relation[b][p] = "self" => merged[p] = None
      BY DEF IInv, OneManager, SelfPlayers
    <3> QED BY <3>1, <1>7
  <2> QED BY <1>3, <1>6, <2>1, <2>2, RowChange, Zenon
<1>9. PlayersTypeOK' /\ OnlyMade'
  BY <1>3, <1>8 DEF IInv, PlayersTypeOK, OnlyMade, Row
<1>10. QuestionsAnswerable'
  <2> SUFFICES ASSUME NEW b \in Account, NEW p \in asked'[b]
               PROVE  relation'[b][p] # "none" /\ merged'[p] = None
    BY DEF QuestionsAnswerable
  <2>1. CASE b = a
    BY <2>1, <1>1, <1>3, <1>5
  <2>2. CASE b # a
    <3>1. p \in asked[b] /\ p \in Player /\ relation[b][p] # "none" /\ merged[p] = None
      BY <2>2 DEF IInv, QuestionsAnswerable, PlayersTypeOK
    <3> QED BY <2>2, <3>1, <1>5, <1>7
  <2> QED BY <2>1, <2>2
<1>11. GuestsOwnOnePlayer'
  <2>1. kind[a] = "guest" => new = relation[a]
    BY <1>3 DEF IInv, GuestsOwnOnePlayer, SelfPlayers
  <2>2. \A b \in Account : kind[b] \in {"guest", "absent", "adopted"} =>
          /\ Managed(b)' = Managed(b) /\ SelfPlayers(b)' = SelfPlayers(b)
          /\ asked'[b] \subseteq asked[b]
    BY <1>5, <2>1 DEF Managed, SelfPlayers
  <2> QED BY <2>2 DEF IInv, GuestsOwnOnePlayer
<1>12. MatchesMadeOnce'
  BY DEF IInv, MatchesMadeOnce
<1> QED BY <1>3, <1>8, <1>9, <1>10, <1>11, <1>12

LEMMA ResumeKeepsIInv ==
  ASSUME IInv, NEW a \in Account, ResumeSession(a)
  PROVE  IInv'
<1>1. PICK row \in Row : row = relation[a]
  BY DEF IInv, PlayersTypeOK, Row
<1>2. /\ EnsureSelf(a, row) /\ kind[a] \in {"guest", "verified"}
      /\ UNCHANGED <<kind, merged, asked, details, creating, scored>>
  BY <1>1 DEF ResumeSession
<1>3. PlayersTypeOK /\ OneStepToSurvivor /\ OneManager /\ QuestionsAnswerable /\ OnlyMade
  BY DEF IInv
<1>4. \A p, q \in Player : row[p] = "self" /\ row[q] = "self" => p = q
  BY <1>1, <1>3 DEF OneManager, SelfPlayers
<1>5. \A p \in Player : row[p] = "self" => merged'[p] = None
  BY <1>1, <1>2, <1>3 DEF OneManager, SelfPlayers
<1>6. \A p \in asked'[a] : row[p] # "none" /\ merged'[p] = None
  BY <1>1, <1>2, <1>3 DEF QuestionsAnswerable
<1>7. /\ merged' \in [Player -> Player \cup {None}]
      /\ \A p \in Player : merged'[p] # None => p \in made
      /\ asked' \in [Account -> SUBSET Player]
  BY <1>2, <1>3 DEF PlayersTypeOK, OnlyMade
<1>8. /\ PlayersTypeOK' /\ OnlyMade' /\ OneManager' /\ QuestionsAnswerable'
      /\ GuestsOwnOnePlayer' /\ MatchesMadeOnce' /\ made \subseteq made'
  BY <1>1, <1>2, <1>4, <1>5, <1>6, <1>7, EnsureSelfKeepsIInv
<1>9. SidesApart' /\ OneStepToSurvivor'
  BY <1>2, <1>8, NoMergeKeepsSides
<1> QED BY <1>8, <1>9 DEF IInv

\* What the answers share: the player has an open question, so its account is
\* no guest, and the question is about a player that exists and isn't merged.
LEMMA Asked ==
  ASSUME IInv, NEW a \in Account, NEW p \in Player, Answerable(a, p)
  PROVE  /\ kind[a] = "verified" /\ p \in made /\ merged[p] = None
         /\ relation[a] \in Row /\ relation[a][p] # "none"
BY DEF IInv, PlayersTypeOK, OnlyMade, GuestsOwnOnePlayer, Answerable, Row

LEMMA MergeIntoKeepsIInv ==
  ASSUME IInv, NEW a \in Account, NEW p \in Player, NEW into \in Player,
         p # into, Answerable(a, p),
         relation[a][into] # "none", merged[into] = None,
         MergeInto(a, p, into),
         UNCHANGED <<kind, details, creating, scored>>
  PROVE  IInv'
<1> DEFINE o == Original(p, into)
           c == Copy(p, into)
<1>1. /\ PlayersTypeOK /\ OneStepToSurvivor /\ OneManager /\ QuestionsAnswerable
      /\ OnlyMade /\ MatchesMadeOnce /\ SidesApart
  BY DEF IInv
<1>2. /\ kind[a] = "verified" /\ p \in made /\ merged[p] = None
      /\ relation[a] \in Row /\ relation[a][p] # "none" /\ into \in made
  BY Asked, <1>1 DEF OnlyMade
<1>3. /\ {o, c} = {p, into} /\ o # c /\ o \in Player /\ c \in Player
  BY Pair, PlayersAssumption
<1>4. /\ ~PlayedEachOther(p, into) /\ merged' = Repointed(p, into)
      /\ asked' = [asked EXCEPT ![a] = @ \ {p, into}]
      /\ EnsureSelf(a, MergedRow(relation[a], p, into))
  BY DEF MergeInto, Close
<1>5. PICK row \in Row : row = MergedRow(relation[a], p, into)
  BY <1>2 DEF MergedRow, Row
<1>6. EnsureSelf(a, row)
  BY <1>4, <1>5
<1>7. /\ row[c] = "managed" /\ row[o] = relation[a][into]
      /\ \A r \in Player \ {o, c} : row[r] = relation[a][r]
  BY <1>2, <1>3, <1>5 DEF MergedRow, Row
<1>8. made \subseteq made'
  BY <1>4 DEF EnsureSelf
<1>9. /\ merged' \in [Player -> Player \cup {None}]
      /\ OneStepToSurvivor'
      /\ \A r \in Player \ {c} : merged[r] = None => merged'[r] = None
  BY <1>1, <1>2, <1>4, <1>8, MergeIsOneStep
<1>10. SidesApart'
  BY <1>1, <1>2, <1>4, MergeKeepsSidesApart
<1> HIDE DEF o, c
<1>11. \A r \in Player : row[r] # "none" => relation[a][r] # "none"
  BY <1>2, <1>3, <1>7
<1>12. \A r, q \in Player : row[r] = "self" /\ row[q] = "self" => r = q
  BY <1>1, <1>3, <1>7 DEF OneManager, SelfPlayers
<1>13. \A r \in Player : row[r] = "self" => merged'[r] = None
  BY <1>1, <1>2, <1>3, <1>7, <1>9 DEF OneManager, SelfPlayers
<1>14. \A r \in Player : relation[a][r] = "none" /\ merged[r] = None => merged'[r] = None
  BY <1>2, <1>3, <1>9
<1>15. /\ asked' \in [Account -> SUBSET Player]
       /\ \A b \in Account \ {a} : asked'[b] = asked[b]
       /\ asked'[a] \subseteq asked[a]
  BY <1>1, <1>4 DEF PlayersTypeOK
<1>16. \A r \in asked'[a] : row[r] # "none" /\ merged'[r] = None
  <2> SUFFICES ASSUME NEW r \in asked'[a]
               PROVE  row[r] # "none" /\ merged'[r] = None
    OBVIOUS
  <2>1. r \in asked[a] /\ r \notin {p, into} /\ r \in Player
    BY <1>1, <1>4 DEF PlayersTypeOK
  <2>2. relation[a][r] # "none" /\ merged[r] = None
    BY <1>1, <2>1 DEF QuestionsAnswerable
  <2> QED BY <1>3, <1>7, <1>9, <2>1, <2>2
<1>17. \A r \in Player : merged'[r] # None => r \in made
  <2>1. \A r \in Player \ {c} : merged'[r] # None => merged[r] # None
    BY <1>9
  <2> QED BY <1>1, <1>2, <1>3, <2>1 DEF OnlyMade
<1>18. /\ PlayersTypeOK' /\ OnlyMade' /\ OneManager' /\ QuestionsAnswerable'
       /\ GuestsOwnOnePlayer' /\ MatchesMadeOnce'
  <2>1. kind[a] \in {"guest", "verified"} /\ kind' = kind /\ (kind[a] = "guest" => row = relation[a])
    BY <1>2
  <2> QED BY <1>6, <1>9, <1>11, <1>12, <1>13, <1>14, <1>15, <1>16, <1>17, <2>1,
             EnsureSelfKeepsIInv, Zenon
<1> QED BY <1>9, <1>10, <1>18 DEF IInv

LEMMA AnswersKeepIInv ==
  ASSUME IInv, NEW a \in Account, NEW p \in Player,
         \/ \E target \in Player : AnswerSameAs(a, p, target)
         \/ AnswerYes(a, p)
         \/ \E leaves \in {"managed", "none"} : AnswerNo(a, p, leaves)
  PROVE  IInv'
<1>1. /\ PlayersTypeOK /\ OneStepToSurvivor /\ OneManager /\ QuestionsAnswerable /\ OnlyMade
  BY DEF IInv
<1>2. Answerable(a, p) /\ UNCHANGED <<kind, details, creating, scored>>
  BY DEF AnswerSameAs, AnswerYes, AnswerNo
<1>3. /\ kind[a] = "verified" /\ p \in made /\ merged[p] = None
      /\ relation[a] \in Row /\ relation[a][p] # "none"
  BY <1>2, Asked
\* The answers that merge nobody.
<1>4. ASSUME NEW row \in Row, EnsureSelf(a, row), merged' = merged, Close(a, {p}),
             \A r \in Player \ {p} : row[r] = "none" <=> relation[a][r] = "none",
             \A r, q \in Player : row[r] = "self" /\ row[q] = "self" => r = q,
             \A r \in Player : row[r] = "self" => merged[r] = None
      PROVE  IInv'
  <2>1. /\ asked' \in [Account -> SUBSET Player]
        /\ \A b \in Account \ {a} : asked'[b] = asked[b]
        /\ asked'[a] = asked[a] \ {p}
    BY <1>1, <1>4 DEF Close, PlayersTypeOK
  <2>2. \A r \in asked'[a] : row[r] # "none" /\ merged'[r] = None
    BY <1>1, <1>4, <2>1 DEF QuestionsAnswerable, PlayersTypeOK
  <2>3. \A r \in Player : row[r] # "none" => relation[a][r] # "none"
    BY <1>3, <1>4
  <2>4. /\ merged' \in [Player -> Player \cup {None}]
        /\ \A r \in Player : merged'[r] # None => r \in made
        /\ \A r \in Player : row[r] = "self" => merged'[r] = None
        /\ \A r \in Player : relation[a][r] = "none" /\ merged[r] = None => merged'[r] = None
    BY <1>1, <1>4 DEF PlayersTypeOK, OnlyMade
  <2>5. kind[a] \in {"guest", "verified"} /\ kind' = kind /\ (kind[a] = "guest" => row = relation[a])
    BY <1>2, <1>3
  <2>6. asked'[a] \subseteq asked[a]
    BY <2>1
  <2>7. /\ PlayersTypeOK' /\ OnlyMade' /\ OneManager' /\ QuestionsAnswerable'
        /\ GuestsOwnOnePlayer' /\ MatchesMadeOnce' /\ made \subseteq made'
    BY <1>2, <1>4, <2>1, <2>2, <2>3, <2>4, <2>5, <2>6, EnsureSelfKeepsIInv, Zenon
  <2>8. SidesApart' /\ OneStepToSurvivor'
    BY <1>2, <1>4, <2>7, NoMergeKeepsSides
  <2> QED BY <2>7, <2>8 DEF IInv
<1>5. ASSUME NEW target \in Player, AnswerSameAs(a, p, target)
      PROVE  IInv'
  BY <1>2, <1>5, MergeIntoKeepsIInv DEF AnswerSameAs
<1>6. CASE AnswerYes(a, p)
  <2> DEFINE own == SelfPlayers(a) \ {p}
  <2>1. \A s \in own : s \in Player /\ s # p /\ relation[a][s] = "self" /\ merged[s] = None
    BY <1>1 DEF OneManager, SelfPlayers
  <2>2. ASSUME NEW s \in own, MergeInto(a, p, s)
        PROVE  IInv'
    BY <1>2, <2>1, <2>2, MergeIntoKeepsIInv
  <2>3. ASSUME EnsureSelf(a, [q \in Player |-> CASE q = p -> "self"
                                                  [] q \in own -> "managed"
                                                  [] OTHER -> relation[a][q]]),
               Close(a, {p}), merged' = merged
        PROVE  IInv'
    <3>1. PICK row \in Row : row = [q \in Player |-> CASE q = p -> "self"
                                                       [] q \in own -> "managed"
                                                       [] OTHER -> relation[a][q]]
      BY <1>3 DEF Row
    <3>2. row[p] = "self" /\ \A q \in Player \ {p} : row[q] # "self"
      BY <1>3, <3>1 DEF SelfPlayers
    <3>3. \A r \in Player \ {p} : row[r] = "none" <=> relation[a][r] = "none"
      BY <2>1, <3>1
    <3> QED BY <1>3, <1>4, <2>3, <3>1, <3>2, <3>3
  <2> QED BY <1>6, <2>2, <2>3 DEF AnswerYes
<1>7. ASSUME NEW leaves \in {"managed", "none"}, AnswerNo(a, p, leaves)
      PROVE  IInv'
  <2>1. PICK row \in Row : row = [relation[a] EXCEPT ![p] = leaves]
    BY <1>3 DEF Row
  <2>2. row[p] = leaves /\ \A r \in Player \ {p} : row[r] = relation[a][r]
    BY <1>3, <2>1 DEF Row
  <2>3. \A r, q \in Player : row[r] = "self" /\ row[q] = "self" => r = q
    BY <1>1, <2>2 DEF OneManager, SelfPlayers
  <2>4. \A r \in Player : row[r] = "self" => merged[r] = None
    BY <1>1, <2>2 DEF OneManager, SelfPlayers
  <2>5. EnsureSelf(a, row) /\ merged' = merged /\ Close(a, {p})
    BY <1>7, <2>1 DEF AnswerNo
  <2> QED BY <1>4, <2>2, <2>3, <2>4, <2>5
<1> QED BY <1>5, <1>6, <1>7

-----------------------------------------------------------------------------
NoRows == [p \in Player |-> "none"]

\* The rows after a guest's only player went to another account, whose rows
\* became `row`.
LEMMA HandOverKeepsIInv ==
  ASSUME IInv, NEW guest \in Account, NEW into \in Account,
         kind[guest] = "guest", kind[into] = "verified",
         kind' = [kind EXCEPT ![guest] = "adopted"],
         NEW row \in Row,
         relation' = [relation EXCEPT ![into] = row, ![guest] = NoRows],
         \A r \in Player : row[r] # "none" => r \in Managed(guest) \/ relation[into][r] # "none",
         \A r, q \in Player : row[r] = "self" /\ row[q] = "self" => r = q,
         \A r \in Player : row[r] = "self" => merged'[r] = None,
         merged' \in [Player -> Player \cup {None}],
         \A r \in Player : merged'[r] # None => r \in made,
         \A r \in Player \ Managed(guest) :
           relation[into][r] = "none" /\ merged[r] = None => merged'[r] = None,
         asked' \in [Account -> SUBSET Player],
         \A b \in Account \ {into} : asked'[b] = asked[b],
         \A r \in asked'[into] : row[r] # "none" /\ merged'[r] = None,
         UNCHANGED <<made, details, creating, scored>>
  PROVE  /\ PlayersTypeOK' /\ OnlyMade' /\ OneManager' /\ QuestionsAnswerable'
         /\ GuestsOwnOnePlayer' /\ MatchesMadeOnce'
<1>1. /\ PlayersTypeOK /\ OneManager /\ QuestionsAnswerable /\ OnlyMade
      /\ GuestsOwnOnePlayer /\ MatchesMadeOnce /\ guest # into
  BY DEF IInv
<1>2. relation \in [Account -> Row]
  BY <1>1 DEF PlayersTypeOK, Row
<1>3. PICK p \in Player : Managed(guest) = {p}
  BY <1>1 DEF GuestsOwnOnePlayer
<1>4. /\ relation[guest][p] # "none" /\ asked[guest] = {}
      /\ \A r \in Player \ {p} : relation[guest][r] = "none"
      /\ p \in made
  BY <1>1, <1>3 DEF Managed, GuestsOwnOnePlayer, OnlyMade
<1>5. /\ relation' \in [Account -> Row]
      /\ relation'[into] = row
      /\ \A r \in Player : relation'[guest][r] = "none"
      /\ \A b \in Account \ {guest, into} : relation'[b] = relation[b]
  BY <1>1, <1>2 DEF NoRows, Row
<1>6. \A b \in Account \ {guest, into}, r \in Player :
        relation[b][r] # "none" => r # p /\ relation[into][r] = "none"
  BY <1>1, <1>4 DEF OneManager
<1>7. PlayersTypeOK'
  BY <1>1, <1>5 DEF PlayersTypeOK, Row
<1>8. OnlyMade'
  BY <1>3, <1>1, <1>4, <1>5 DEF OnlyMade
<1>9. OneManager'
  <2>1. \A r \in Player, b, d \in Account :
          relation'[b][r] # "none" /\ relation'[d][r] # "none" => b = d
    <3> SUFFICES ASSUME NEW r \in Player, NEW b \in Account, NEW d \in Account,
                        relation'[b][r] # "none", relation'[d][r] # "none"
                 PROVE  b = d
      OBVIOUS
    <3>1. b # guest /\ d # guest
      BY <1>5
    <3>2. CASE b = into /\ d = into
      BY <3>2
    <3>3. CASE b # into /\ d # into
      BY <3>1, <3>3, <1>1, <1>5 DEF OneManager
    <3>4. CASE b = into /\ d # into
      BY <1>3, <3>1, <3>4, <1>5, <1>6
    <3>5. CASE b # into /\ d = into
      BY <1>3, <3>1, <3>5, <1>5, <1>6
    <3> QED BY <3>2, <3>3, <3>4, <3>5
  <2>2. ASSUME NEW b \in Account, NEW r \in Player, relation'[b][r] = "self"
        PROVE  merged'[r] = None
    <3>1. b # guest
      BY <1>5, <2>2
    <3>2. CASE b = into
      BY <3>2, <1>5, <2>2
    <3>3. CASE b # into
      BY <1>3, <3>1, <3>3, <1>1, <1>5, <1>6, <2>2 DEF OneManager, SelfPlayers
    <3> QED BY <3>2, <3>3
  <2>3. ASSUME NEW b \in Account, NEW r \in Player, NEW q \in Player,
               relation'[b][r] = "self", relation'[b][q] = "self"
        PROVE  r = q
    <3>1. b # guest
      BY <1>5, <2>3
    <3>2. CASE b = into
      BY <3>2, <1>5, <2>3
    <3>3. CASE b # into
      BY <3>1, <3>3, <1>1, <1>5, <2>3 DEF OneManager, SelfPlayers
    <3> QED BY <3>2, <3>3
  <2>4. \A b \in Account : \A r \in SelfPlayers(b)' : merged'[r] = None
    BY <2>2 DEF SelfPlayers
  <2>5. \A b \in Account : \A r, q \in SelfPlayers(b)' : r = q
    BY <2>3 DEF SelfPlayers
  <2> QED BY <2>1, <2>4, <2>5 DEF OneManager
<1>10. QuestionsAnswerable'
  <2> SUFFICES ASSUME NEW b \in Account, NEW r \in asked'[b]
               PROVE  relation'[b][r] # "none" /\ merged'[r] = None
    BY DEF QuestionsAnswerable
  <2>1. CASE b = into
    BY <2>1, <1>5
  <2>2. CASE b # into
    <3>1. r \in asked[b] /\ b # guest /\ r \in Player
      BY <2>2, <1>1, <1>4 DEF PlayersTypeOK
    <3>2. relation[b][r] # "none" /\ merged[r] = None
      BY <1>1, <3>1 DEF QuestionsAnswerable
    <3> QED BY <1>3, <2>2, <3>1, <3>2, <1>5, <1>6
  <2> QED BY <2>1, <2>2
<1>11. GuestsOwnOnePlayer'
  <2>1. \A b \in Account \ {guest, into} :
          /\ kind'[b] = kind[b] /\ asked'[b] = asked[b]
          /\ Managed(b)' = Managed(b) /\ SelfPlayers(b)' = SelfPlayers(b)
    BY <1>1, <1>5 DEF PlayersTypeOK, Managed, SelfPlayers
  <2>2. kind'[guest] = "adopted" /\ Managed(guest)' = {} /\ asked'[guest] = {}
    BY <1>1, <1>4, <1>5 DEF PlayersTypeOK, Managed
  <2>3. kind'[into] = "verified"
    BY <1>1 DEF PlayersTypeOK
  <2> QED BY <1>1, <2>1, <2>2, <2>3 DEF GuestsOwnOnePlayer
<1>12. MatchesMadeOnce'
  BY <1>1 DEF MatchesMadeOnce
<1> QED BY <1>7, <1>8, <1>9, <1>10, <1>11, <1>12

LEMMA AdoptGuestKeepsIInv ==
  ASSUME IInv, NEW guest \in Account, NEW into \in Account, AdoptGuest(guest, into)
  PROVE  IInv'
<1>1. /\ PlayersTypeOK /\ OneStepToSurvivor /\ OneManager /\ QuestionsAnswerable
      /\ OnlyMade /\ GuestsOwnOnePlayer /\ MatchesMadeOnce /\ SidesApart
  BY DEF IInv
<1>2. /\ kind[guest] = "guest" /\ kind[into] = "verified" /\ guest # into
      /\ kind' = [kind EXCEPT ![guest] = "adopted"]
      /\ UNCHANGED <<made, details, creating, scored>>
  BY DEF AdoptGuest
<1>3. PICK p \in Player : p \in Managed(guest) /\ HandOver(guest, into, p)
  BY DEF AdoptGuest, Managed
<1>4. Managed(guest) = {p} /\ SelfPlayers(guest) = {p} /\ asked[guest] = {}
  BY <1>1, <1>2, <1>3 DEF GuestsOwnOnePlayer
<1>5. /\ p \in made /\ merged[p] = None /\ relation[guest][p] # "none"
      /\ relation[into][p] = "none" /\ relation[into] \in Row
  BY <1>1, <1>2, <1>4 DEF OnlyMade, OneManager, Managed, PlayersTypeOK, Row
<1>6. [relation[guest] EXCEPT ![p] = "none"] = NoRows
  BY <1>1, <1>4 DEF PlayersTypeOK, Managed, NoRows
\* The rows when the guest's player joins them as it is.
<1>7. ASSUME NEW row \in Row, merged' = merged,
             relation' = [relation EXCEPT ![into] = row, ![guest] = NoRows],
             row[p] # "none",
             \A r \in Player \ {p} : row[r] = "none" <=> relation[into][r] = "none",
             \A r, q \in Player : row[r] = "self" /\ row[q] = "self" => r = q,
             \A r \in Player : row[r] = "self" => merged[r] = None,
             asked' \in [Account -> SUBSET Player],
             \A b \in Account \ {into} : asked'[b] = asked[b],
             asked'[into] \subseteq asked[into] \cup {p}
      PROVE  IInv'
  <2>1. \A r \in asked'[into] : row[r] # "none" /\ merged'[r] = None
    BY <1>1, <1>5, <1>7 DEF QuestionsAnswerable, PlayersTypeOK
  <2>2. /\ merged' \in [Player -> Player \cup {None}]
        /\ \A r \in Player : merged'[r] # None => r \in made
        /\ \A r \in Player : row[r] = "self" => merged'[r] = None
        /\ \A r \in Player \ Managed(guest) :
             relation[into][r] = "none" /\ merged[r] = None => merged'[r] = None
    BY <1>1, <1>7 DEF PlayersTypeOK, OnlyMade
  <2>3. \A r \in Player : row[r] # "none" => r \in Managed(guest) \/ relation[into][r] # "none"
    BY <1>4, <1>7
  <2>4. /\ PlayersTypeOK' /\ OnlyMade' /\ OneManager' /\ QuestionsAnswerable'
        /\ GuestsOwnOnePlayer' /\ MatchesMadeOnce'
    BY <1>2, <1>4, <1>7, <2>1, <2>2, <2>3, HandOverKeepsIInv, Zenon
  <2>5. SidesApart' /\ OneStepToSurvivor'
    BY <1>2, <1>7, NoMergeKeepsSides
  <2> QED BY <2>4, <2>5 DEF IInv
\* It stays a player of its own, and asks who it is.
<1>8. ASSUME relation' = [relation EXCEPT ![into] = [relation[into] EXCEPT ![p] = "managed"],
                                          ![guest] = NoRows],
             asked' = [asked EXCEPT ![into] = @ \cup {p}], merged' = merged
      PROVE  IInv'
  <2>1. PICK row \in Row : row = [relation[into] EXCEPT ![p] = "managed"]
    BY <1>5 DEF Row
  <2>2. row[p] = "managed" /\ \A r \in Player \ {p} : row[r] = relation[into][r]
    BY <1>5, <2>1 DEF Row
  <2>3. /\ \A r, q \in Player : row[r] = "self" /\ row[q] = "self" => r = q
        /\ \A r \in Player : row[r] = "self" => merged[r] = None
    BY <1>1, <2>2 DEF OneManager, SelfPlayers
  <2>4. /\ asked' \in [Account -> SUBSET Player]
        /\ \A b \in Account \ {into} : asked'[b] = asked[b]
        /\ asked'[into] \subseteq asked[into] \cup {p}
    BY <1>1, <1>8 DEF PlayersTypeOK
  <2>5. relation' = [relation EXCEPT ![into] = row, ![guest] = NoRows]
    BY <1>8, <2>1
  <2> QED BY <1>7, <1>8, <2>2, <2>3, <2>4, <2>5, ZenonT(60)
\* It takes the place of a self player that isn't confirmed.
<1>9. ASSUME relation' = [relation EXCEPT
               ![into] = [q \in Player |-> IF q \in SelfPlayers(into) THEN "managed"
                                           ELSE [relation[into] EXCEPT ![p] = "self"][q]],
               ![guest] = NoRows],
             asked' = asked, merged' = merged
      PROVE  IInv'
  <2>1. PICK row \in Row :
          row = [q \in Player |-> IF q \in SelfPlayers(into) THEN "managed"
                                  ELSE [relation[into] EXCEPT ![p] = "self"][q]]
    BY <1>5 DEF Row
  <2>2. row[p] = "self" /\ \A r \in Player \ {p} : row[r] # "self"
    BY <1>5, <2>1 DEF SelfPlayers, Row
  <2>3. \A r \in Player \ {p} : row[r] = "none" <=> relation[into][r] = "none"
    BY <1>5, <2>1 DEF SelfPlayers, Row
  <2>4. /\ \A r, q \in Player : row[r] = "self" /\ row[q] = "self" => r = q
        /\ \A r \in Player : row[r] = "self" => merged[r] = None
    BY <1>5, <2>2
  <2>5. /\ asked' \in [Account -> SUBSET Player]
        /\ \A b \in Account \ {into} : asked'[b] = asked[b]
        /\ asked'[into] \subseteq asked[into] \cup {p}
    BY <1>1, <1>9 DEF PlayersTypeOK
  <2>6. relation' = [relation EXCEPT ![into] = row, ![guest] = NoRows]
    BY <1>9, <2>1
  <2> QED BY <1>7, <1>9, <2>2, <2>3, <2>4, <2>5, <2>6
\* It merges with the confirmed self player.
<1>10. ASSUME NEW s \in Player, s \in SelfPlayers(into), ~PlayedEachOther(p, s),
             relation' = [relation EXCEPT
               ![into] = MergedRow([relation[into] EXCEPT ![p] = "managed"], p, s),
               ![guest] = NoRows],
             merged' = Repointed(p, s),
             asked' = [asked EXCEPT ![into] = @ \ {p, s}]
      PROVE  IInv'
  <2> DEFINE o == Original(p, s)
             c == Copy(p, s)
  <2>1. /\ s \in Player /\ s # p /\ relation[into][s] = "self" /\ merged[s] = None
        /\ s \in made
    BY <1>1, <1>5, <1>10 DEF SelfPlayers, OneManager, OnlyMade
  <2>2. {o, c} = {p, s} /\ o # c /\ o \in Player /\ c \in Player
    BY <2>1, Pair, PlayersAssumption
  <2>3. PICK row \in Row : row = MergedRow([relation[into] EXCEPT ![p] = "managed"], p, s)
    <3>1. [relation[into] EXCEPT ![p] = "managed"] \in Row
      BY <1>5 DEF Row
    <3>2. MergedRow([relation[into] EXCEPT ![p] = "managed"], p, s) \in Row
      BY <2>1, <3>1 DEF MergedRow, Row
    <3> QED BY <3>2
  <2>4. /\ row[c] = "managed" /\ row[o] = "self"
        /\ \A r \in Player \ {o, c} : row[r] = relation[into][r]
    BY <1>5, <2>1, <2>2, <2>3 DEF MergedRow, Row
  <2>5. /\ merged' \in [Player -> Player \cup {None}]
        /\ OneStepToSurvivor'
        /\ \A r \in Player \ {c} : merged[r] = None => merged'[r] = None
    BY <1>1, <1>2, <1>5, <1>10, <2>1, MergeIsOneStep
  <2>6. SidesApart'
    BY <1>1, <1>2, <1>5, <1>10, <2>1, MergeKeepsSidesApart
  <2> HIDE DEF o, c
  <2>7. \A r \in Player : row[r] # "none" => r \in Managed(guest) \/ relation[into][r] # "none"
    BY <1>4, <2>1, <2>2, <2>4
  <2>8. \A r \in Player : row[r] = "self" <=> r = o
    BY <1>1, <2>1, <2>2, <2>4 DEF OneManager, SelfPlayers
  <2>9. /\ \A r, q \in Player : row[r] = "self" /\ row[q] = "self" => r = q
        /\ \A r \in Player : row[r] = "self" => merged'[r] = None
    BY <1>5, <2>1, <2>2, <2>5, <2>8
  <2>10. \A r \in Player \ Managed(guest) :
            relation[into][r] = "none" /\ merged[r] = None => merged'[r] = None
    BY <1>4, <2>1, <2>2, <2>5
  <2>11. \A r \in Player : merged'[r] # None => r \in made
    BY <1>1, <1>5, <2>1, <2>2, <2>5 DEF OnlyMade
  <2>12. /\ asked' \in [Account -> SUBSET Player]
         /\ \A b \in Account \ {into} : asked'[b] = asked[b]
         /\ asked'[into] = asked[into] \ {p, s}
    BY <1>1, <1>10 DEF PlayersTypeOK
  <2>13. ASSUME NEW r \in asked'[into]
         PROVE  row[r] # "none" /\ merged'[r] = None
    <3>1. r \in Player /\ r \notin {o, c} /\ r \in asked[into]
      BY <1>1, <2>2, <2>12 DEF PlayersTypeOK
    <3>2. relation[into][r] # "none" /\ merged[r] = None
      BY <1>1, <3>1 DEF QuestionsAnswerable
    <3> QED BY <2>4, <2>5, <3>1, <3>2
  <2>14. relation' = [relation EXCEPT ![into] = row, ![guest] = NoRows]
    BY <1>10, <2>3
  <2>15. \A r \in asked'[into] : row[r] # "none" /\ merged'[r] = None
    BY <2>13
  <2>16. /\ PlayersTypeOK' /\ OnlyMade' /\ OneManager' /\ QuestionsAnswerable'
         /\ GuestsOwnOnePlayer' /\ MatchesMadeOnce'
    <3>1. /\ merged' \in [Player -> Player \cup {None}]
          /\ asked' \in [Account -> SUBSET Player]
          /\ \A b \in Account \ {into} : asked'[b] = asked[b]
      BY <2>5, <2>12
    <3> QED BY <1>2, <2>7, <2>9, <2>10, <2>11, <2>14, <2>15, <3>1, HandOverKeepsIInv, Zenon
  <2> QED BY <2>5, <2>6, <2>16 DEF IInv
<1>11. SelfPlayers(into) \subseteq Player
  BY DEF SelfPlayers
<1> QED BY <1>3, <1>6, <1>8, <1>9, <1>10, <1>11 DEF HandOver, Close

-----------------------------------------------------------------------------
LEMMA NextIInv == IInv /\ [PlayersNext]_playerVars => IInv'
<1> SUFFICES ASSUME IInv, [PlayersNext]_playerVars
             PROVE  IInv'
  OBVIOUS
<1>1. ASSUME NEW a \in Account, NEW p \in Player, StartGuest(a, p)
      PROVE  IInv'
  BY <1>1, StartGuestKeepsIInv
<1>2. ASSUME NEW a \in Account, ResumeSession(a)
      PROVE  IInv'
  BY <1>2, ResumeKeepsIInv
<1>3. ASSUME NEW a \in Account, CreateAccount(a) \/ VerifyInPlace(a)
      PROVE  IInv'
  BY <1>3, VerifyKeepsIInv
<1>4. ASSUME NEW a \in Account, NEW p \in Player,
             \/ \E target \in Player : AnswerSameAs(a, p, target)
             \/ AnswerYes(a, p)
             \/ \E leaves \in {"managed", "none"} : AnswerNo(a, p, leaves)
      PROVE  IInv'
  BY <1>4, AnswersKeepIInv
<1>5. ASSUME NEW guest \in Account, NEW into \in Account, AdoptGuest(guest, into)
      PROVE  IInv'
  BY <1>5, AdoptGuestKeepsIInv
<1>6. ASSUME NEW m \in Match,
             \/ \E a \in Account, d \in Details : BeginCreate(a, m, d)
             \/ FinishCreate(m)
             \/ FirstResult(m)
      PROVE  IInv'
  BY <1>6, MatchStepsKeepIInv
<1>7. CASE UNCHANGED playerVars
  BY <1>7 DEF playerVars, IInv, PlayersTypeOK, OnlyMade, OneStepToSurvivor, OneManager,
              SelfPlayers, QuestionsAnswerable, GuestsOwnOnePlayer, Managed, MatchesMadeOnce,
              SidesApart, OnePlayer, Survivor
<1> QED BY <1>1, <1>2, <1>3, <1>4, <1>5, <1>6, <1>7 DEF PlayersNext, AccountStep, CreateStep

THEOREM Invariance == PlayersSpec => []IInv
BY InitIInv, NextIInv, PTL DEF PlayersSpec

\* Each row of an account stays of its type: services/players.py and
\* services/sign_in.py write no other relationship, and no player twice.
THEOREM TypesAreCorrect == PlayersSpec => []PlayersTypeOK
BY Invariance, PTL DEF IInv

\* Whatever merges an account asks for, in whatever order with the results of
\* its matches, no match with a result has one player on both its sides.
THEOREM SidesStayApart == PlayersSpec => []SidesApart
BY Invariance, PTL DEF IInv

\* merged_into is one step deep after any chain of merges.
THEOREM MergesAreOneStep == PlayersSpec => []OneStepToSurvivor
BY Invariance, PTL DEF IInv

\* Handing over and splitting players never gives one to two accounts, nor
\* leaves an account with a merged player as its self.
THEOREM ManagersAreUnique == PlayersSpec => []OneManager
BY Invariance, PTL DEF IInv

\* No answer, merge or adoption strands another player's open question.
THEOREM QuestionsStayAnswerable == PlayersSpec => []QuestionsAnswerable
BY Invariance, PTL DEF IInv

\* The loop over a guest's rows in hand_over_players() runs exactly once.
THEOREM GuestsStaySingle == PlayersSpec => []GuestsOwnOnePlayer
BY Invariance, PTL DEF IInv

\* Whoever signs in, answers and merges, a player has one account and an open
\* question can be answered.
THEOREM ManagersStayInOrder == PlayersSpec => []PlayersInv
BY Invariance, PTL DEF IInv, PlayersInv

-----------------------------------------------------------------------------
\* A step repoints no player, or merges two that weren't merged.
LEMMA MergesInAStep ==
  ASSUME IInv, PlayersNext
  PROVE  \/ merged' = merged
         \/ \E p, q \in Player : /\ p # q /\ merged[p] = None /\ merged[q] = None
                                 /\ merged' = Repointed(p, q)
<1>1. OneManager /\ GuestsOwnOnePlayer /\ PlayersTypeOK
  BY DEF IInv
<1>2. ASSUME NEW guest \in Account, NEW into \in Account, AdoptGuest(guest, into),
             merged' # merged
      PROVE  \E p, q \in Player : /\ p # q /\ merged[p] = None /\ merged[q] = None
                                  /\ merged' = Repointed(p, q)
  <2>1. PICK p \in Managed(guest), s \in SelfPlayers(into) : merged' = Repointed(p, s)
    BY <1>2 DEF AdoptGuest, HandOver
  <2>2. kind[guest] = "guest" /\ guest # into
    BY <1>2 DEF AdoptGuest
  <2>3. p \in Player /\ p \in SelfPlayers(guest) /\ merged[p] = None
    BY <1>1, <2>1, <2>2 DEF GuestsOwnOnePlayer, OneManager
  <2>4. s \in Player /\ merged[s] = None /\ s # p
    BY <1>1, <2>1, <2>2, <2>3 DEF OneManager, SelfPlayers
  <2> QED BY <2>1, <2>3, <2>4
<1>3. ASSUME NEW a \in Account, NEW p \in Player, NEW target \in Player,
             AnswerSameAs(a, p, target)
      PROVE  p # target /\ merged[p] = None /\ merged[target] = None
             /\ merged' = Repointed(p, target)
  BY <1>3 DEF AnswerSameAs, Answerable, MergeInto
<1>4. ASSUME NEW a \in Account, NEW p \in Player, AnswerYes(a, p), merged' # merged
      PROVE  \E q \in Player : /\ p # q /\ merged[p] = None /\ merged[q] = None
                               /\ merged' = Repointed(p, q)
  <2>1. PICK s \in SelfPlayers(a) \ {p} : merged' = Repointed(p, s)
    BY <1>4 DEF AnswerYes, MergeInto
  <2>2. merged[p] = None
    BY <1>4 DEF AnswerYes, Answerable
  <2>3. s \in Player /\ merged[s] = None
    BY <1>1, <2>1 DEF OneManager, SelfPlayers
  <2> QED BY <2>1, <2>2, <2>3
<1> DEFINE Merges(p, q) == /\ p # q /\ merged[p] = None /\ merged[q] = None
                           /\ merged' = Repointed(p, q)
<1>5. ASSUME NEW a \in Account,
             \/ \E p \in Player : StartGuest(a, p)
             \/ ResumeSession(a) \/ CreateAccount(a) \/ VerifyInPlace(a)
             \/ \E p \in Player, leaves \in {"managed", "none"} : AnswerNo(a, p, leaves)
      PROVE  merged' = merged
  BY <1>5 DEF StartGuest, ResumeSession, CreateAccount, VerifyInPlace, AnswerNo
<1>6. ASSUME NEW m \in Match,
             \/ \E a \in Account, d \in Details : BeginCreate(a, m, d)
             \/ FinishCreate(m) \/ FirstResult(m)
      PROVE  merged' = merged
  BY <1>6 DEF BeginCreate, FinishCreate, FirstResult
<1> SUFFICES ASSUME merged' # merged
             PROVE  \E p, q \in Player : Merges(p, q)
  OBVIOUS
<1>7. CASE AccountStep
  <2>1. PICK a \in Account :
          \/ \E p, target \in Player : AnswerSameAs(a, p, target)
          \/ \E p \in Player : AnswerYes(a, p)
    BY <1>5, <1>7 DEF AccountStep
  <2> QED BY <1>3, <1>4, <2>1
<1> QED BY <1>2, <1>6, <1>7 DEF PlayersNext, CreateStep

LEMMA OnePlayerStep ==
  ASSUME IInv, [PlayersNext]_playerVars, NEW p \in Player, NEW q \in Player,
         Survivor(p) = Survivor(q)
  PROVE  (Survivor(p) = Survivor(q))'
<1>1. CASE merged' = merged
  BY <1>1 DEF Survivor
<1>2. ASSUME NEW r \in Player, NEW s \in Player, r # s, merged[r] = None, merged[s] = None,
             merged' = Repointed(r, s)
      PROVE  (Survivor(p) = Survivor(q))'
  <2>1. PlayersTypeOK /\ OneStepToSurvivor
    BY DEF IInv
  <2>2. \A t \in Player : Survivor(t)' = IF Survivor(t) = Copy(r, s)
                                           THEN Original(r, s) ELSE Survivor(t)
    BY <1>2, <2>1, MergeOfSurvivors
  <2> QED BY <2>2
<1>3. CASE UNCHANGED playerVars
  BY <1>1, <1>3 DEF playerVars
<1> QED BY <1>1, <1>2, <1>3, MergesInAStep

\* A result sent before its players merged, and sent again after, still names
\* the match's two sides: what is one player stays one.
THEOREM PlayersStayOne == PlayersSpec => StaysOnePlayer
<1>1. IInv /\ [PlayersNext]_playerVars
        => [\A p, q \in Player : Survivor(p) = Survivor(q)
                                   => (Survivor(p) = Survivor(q))']_playerVars
  BY OnePlayerStep
<1> QED BY <1>1, Invariance, PTL DEF PlayersSpec, StaysOnePlayer

-----------------------------------------------------------------------------
LEMMA EnsureSelfLeavesOne ==
  ASSUME PlayersTypeOK, NEW a \in Account, NEW row \in Row, EnsureSelf(a, row)
  PROVE  SelfPlayers(a)' # {} /\ \A b \in Account \ {a} : SelfPlayers(b)' = SelfPlayers(b)
<1>1. PICK new \in Row : relation' = [relation EXCEPT ![a] = new] /\ \E p \in Player : new[p] = "self"
  <2>1. CASE \E p \in Player : row[p] = "self"
    BY <2>1 DEF EnsureSelf
  <2>2. ASSUME NEW p \in Player, relation' = [relation EXCEPT ![a] = [row EXCEPT ![p] = "self"]]
        PROVE  \E new \in Row : /\ relation' = [relation EXCEPT ![a] = new]
                                /\ \E q \in Player : new[q] = "self"
    <3>1. PICK new \in Row : new = [row EXCEPT ![p] = "self"]
      BY DEF Row
    <3>2. new[p] = "self"
      BY <3>1 DEF Row
    <3> QED BY <2>2, <3>1, <3>2
  <2> QED BY <2>1, <2>2 DEF EnsureSelf
<1>2. relation'[a] = new /\ \A b \in Account \ {a} : relation'[b] = relation[b]
  BY <1>1 DEF PlayersTypeOK
<1> QED BY <1>1, <1>2 DEF SelfPlayers

\* Only the guest that is adopted loses its self player.
LEMMA AdoptionLeavesOne ==
  ASSUME IInv, NEW guest \in Account, NEW into \in Account, AdoptGuest(guest, into),
         NEW a \in Account, a # guest, SelfPlayers(a) # {}
  PROVE  SelfPlayers(a)' # {}
<1>1. PlayersTypeOK /\ OneManager /\ GuestsOwnOnePlayer
  BY DEF IInv
<1>2. /\ kind[guest] = "guest" /\ kind[into] = "verified" /\ guest # into
  BY DEF AdoptGuest
<1>3. PICK p \in Player : p \in Managed(guest) /\ HandOver(guest, into, p)
  BY DEF AdoptGuest, Managed
<1>4. relation[into] \in Row /\ relation[into][p] = "none"
  BY <1>1, <1>2, <1>3 DEF OneManager, Managed, PlayersTypeOK, Row
<1>5. ASSUME NEW row \in Row,
             relation' = [relation EXCEPT ![into] = row, ![guest] = [@ EXCEPT ![p] = "none"]],
             SelfPlayers(into) # {} => \E q \in Player : row[q] = "self"
      PROVE  SelfPlayers(a)' # {}
  <2>1. relation'[into] = row /\ \A b \in Account \ {guest, into} : relation'[b] = relation[b]
    BY <1>1, <1>2, <1>5 DEF PlayersTypeOK
  <2> QED BY <1>5, <2>1 DEF SelfPlayers
<1>6. ASSUME relation' = [relation EXCEPT ![into] = [relation[into] EXCEPT ![p] = "managed"],
                                          ![guest] = [@ EXCEPT ![p] = "none"]]
      PROVE  SelfPlayers(a)' # {}
  <2>1. PICK row \in Row : row = [relation[into] EXCEPT ![p] = "managed"]
    BY <1>4 DEF Row
  <2>2. \A q \in Player \ {p} : row[q] = relation[into][q]
    BY <1>4, <2>1 DEF Row
  <2> QED BY <1>4, <1>5, <1>6, <2>1, <2>2, ZenonT(60) DEF SelfPlayers
<1>7. ASSUME relation' = [relation EXCEPT
               ![into] = [q \in Player |-> IF q \in SelfPlayers(into) THEN "managed"
                                           ELSE [relation[into] EXCEPT ![p] = "self"][q]],
               ![guest] = [@ EXCEPT ![p] = "none"]]
      PROVE  SelfPlayers(a)' # {}
  <2>1. PICK row \in Row :
          row = [q \in Player |-> IF q \in SelfPlayers(into) THEN "managed"
                                  ELSE [relation[into] EXCEPT ![p] = "self"][q]]
    BY <1>4 DEF Row
  <2>2. row[p] = "self"
    BY <1>4, <2>1 DEF SelfPlayers, Row
  <2> QED BY <1>5, <1>7, <2>1, <2>2
<1>8. ASSUME NEW s \in SelfPlayers(into),
             relation' = [relation EXCEPT
               ![into] = MergedRow([relation[into] EXCEPT ![p] = "managed"], p, s),
               ![guest] = [@ EXCEPT ![p] = "none"]]
      PROVE  SelfPlayers(a)' # {}
  <2>1. s \in Player /\ s # p /\ relation[into][s] = "self"
    BY <1>4 DEF SelfPlayers
  <2>2. [relation[into] EXCEPT ![p] = "managed"] \in Row
    BY <1>4 DEF Row
  <2>3. PICK row \in Row : row = MergedRow([relation[into] EXCEPT ![p] = "managed"], p, s)
    BY <2>1, <2>2 DEF MergedRow, Row
  <2>4. row[Original(p, s)] = "self" /\ Original(p, s) \in Player
    BY <1>4, <2>1, <2>3, Pair, PlayersAssumption DEF MergedRow, Row
  <2> QED BY <1>5, <1>8, <2>3, <2>4
<1> QED BY <1>3, <1>6, <1>7, <1>8 DEF HandOver

\* Answering questions and adopting guests never costs an account the player
\* that stands for its person.
THEOREM SelfPlayersStay == PlayersSpec => KeepsASelfPlayer
<1>1. ASSUME IInv, [PlayersNext]_playerVars, NEW b \in Account,
             SelfPlayers(b) # {}, kind'[b] # "adopted"
      PROVE  SelfPlayers(b)' # {}
  <2>1. PlayersTypeOK
    BY <1>1 DEF IInv
  <2>2. ASSUME NEW a \in Account, NEW row \in Row, EnsureSelf(a, row)
        PROVE  SelfPlayers(b)' # {}
    BY <1>1, <2>1, <2>2, EnsureSelfLeavesOne
  <2>3. CASE relation' = relation
    BY <1>1, <2>3 DEF SelfPlayers
  <2>4. ASSUME NEW a \in Account, NEW p \in Player, StartGuest(a, p)
        PROVE  SelfPlayers(b)' # {}
    BY <1>1, <2>1, <2>4 DEF StartGuest, SelfPlayers, PlayersTypeOK
  <2>5. ASSUME NEW a \in Account, ResumeSession(a)
        PROVE  SelfPlayers(b)' # {}
    BY <2>1, <2>2, <2>5 DEF ResumeSession, PlayersTypeOK, Row
  <2>6. ASSUME NEW a \in Account, NEW p \in Player, NEW into \in Player, MergeInto(a, p, into)
        PROVE  SelfPlayers(b)' # {}
    <3>1. MergedRow(relation[a], p, into) \in Row
      BY <2>1 DEF MergedRow, Row, PlayersTypeOK
    <3> QED BY <2>2, <2>6, <3>1 DEF MergeInto
  <2>7. ASSUME NEW a \in Account, NEW p \in Player, AnswerYes(a, p)
        PROVE  SelfPlayers(b)' # {}
    <3> DEFINE own == SelfPlayers(a) \ {p}
               Row2 == [q \in Player |-> CASE q = p -> "self"
                                           [] q \in own -> "managed"
                                           [] OTHER -> relation[a][q]]
    <3>1. Row2 \in Row
      BY <2>1 DEF PlayersTypeOK, Row
    <3>2. \/ EnsureSelf(a, Row2)
          \/ \E s \in Player : MergeInto(a, p, s)
      BY <2>7 DEF AnswerYes, SelfPlayers
    <3> QED BY <2>2, <2>6, <3>1, <3>2
  <2>8. ASSUME NEW a \in Account, NEW p \in Player, NEW leaves \in {"managed", "none"},
               AnswerNo(a, p, leaves)
        PROVE  SelfPlayers(b)' # {}
    <3>1. [relation[a] EXCEPT ![p] = leaves] \in Row
      BY <2>1 DEF PlayersTypeOK, Row
    <3> QED BY <2>2, <2>8, <3>1 DEF AnswerNo
  <2>9. ASSUME NEW guest \in Account, NEW into \in Account, AdoptGuest(guest, into)
        PROVE  SelfPlayers(b)' # {}
    <3>1. b # guest
      BY <1>1, <2>1, <2>9 DEF AdoptGuest, PlayersTypeOK
    <3> QED BY <1>1, <2>9, <3>1, AdoptionLeavesOne
  <2>10. CASE UNCHANGED playerVars
    BY <2>3, <2>10 DEF playerVars
  <2>11. ASSUME NEW a \in Account, NEW p \in Player, NEW target \in Player,
                AnswerSameAs(a, p, target)
         PROVE  SelfPlayers(b)' # {}
    BY <2>6, <2>11 DEF AnswerSameAs
  <2> QED BY <1>1, <2>3, <2>4, <2>5, <2>7, <2>8, <2>9, <2>10, <2>11
          DEF PlayersNext, AccountStep, CreateStep, CreateAccount, VerifyInPlace,
              BeginCreate, FinishCreate, FirstResult
<1>2. IInv /\ [PlayersNext]_playerVars
        => [\A a \in Account :
              SelfPlayers(a) # {} /\ kind'[a] # "adopted" => SelfPlayers(a)' # {}]_playerVars
  BY <1>1
<1> QED BY <1>2, Invariance, PTL DEF PlayersSpec, KeepsASelfPlayer


-----------------------------------------------------------------------------
(* "Is this you?" (PlayerReview).                                          *)

\* What the API listed of the account at some time: its own player, and questions
\* about players that it has.
ListOK(l) ==
  /\ l \in PlayerList /\ l.open \subseteq Listable
  /\ \A p \in l.open : l.rows[p] # "none"
  /\ \E own \in Player : SelfIn(l) = {own}

\* The list has every open question, and no question that the tab's list hasn't.
Between(l) ==
  /\ ListOK(l) /\ asked[me] \subseteq l.open
  /\ list # NoList => l.open \subseteq list.open

\* The account, of which only its own answers change the questions.
AccountInv == IInv /\ asked[me] \subseteq Listable /\ SelfPlayers(me) # {}

\* What the tab shows.
ShownInv ==
  /\ list # NoList => ListOK(list) /\ asked[me] \subseteq list.open
                      /\ list.open \subseteq shown /\ self \in SelfIn(list)
  /\ shown \subseteq Listable /\ self \in Player /\ last \in Player \cup {None}
  /\ at \in [player : Player \cup {None}, step : {"recognize", "relationship", "choose"}]
  /\ others \in 0 .. MaxOthers /\ reviewScene \in ReviewScenes
  /\ notice \in {"none", "answered", "already", "refused", "gone", "failed"}

\* A fetch's list isn't older than the tab's, as no fetch is on its way with an
\* answer.
LoadInv ==
  /\ load \in [step : {"none", "sent", "read"}, list : PlayerList \cup {NoList}]
  /\ load.step = "read" => Between(load.list)

\* An answer on its way has no fetch beside it, and comes back with a list between
\* the API's and the tab's.
SaveInv ==
  /\ save \in [step : {"none", "sent", "served", "checking"}, player : Player \cup {None},
               reply : Replies \cup {Plain("none")},
               outcome : {"none", "answered", "already", "notFound", "closed", "played"},
               list : PlayerList \cup {NoList}]
  /\ save.step # "none" => list # NoList /\ save.player \in Player /\ save.reply \in Replies
  /\ save.step \in {"sent", "served"} => load.step = "none"
  /\ save.step = "served" => save.outcome # "none" /\ Between(save.list)
  /\ save.step = "checking" =>
       load.step # "none" /\ save.outcome \in {"notFound", "closed", "played"}

\* A tab that is alone and loses nothing has the API's list but while its answer
\* is on its way back, and the API takes what it sends.
AloneInv ==
  reviewScene \cap {"anotherTab", "lost"} = {} =>
    /\ list # NoList /\ save.step # "served" => list = Listed
    /\ load.step = "read" => load.list = Listed
    /\ save.step = "sent" => Says(save.player, save.reply) = "answered"
    /\ save.step = "served" => save.outcome = "answered" /\ save.list = Listed
    /\ save.step # "checking" /\ notice \in {"none", "answered"}

\* The inductive invariant, unless a focus fetches beside an answer: there
\* a list from before the answer may come after it.
ReviewInv ==
  "focusWhileSaving" \notin reviewScene =>
    AccountInv /\ ShownInv /\ LoadInv /\ SaveInv /\ AloneInv
-----------------------------------------------------------------------------
\* A set of numbers has a least one.
LEMMA LeastNat ==
  ASSUME NEW T, T \subseteq Nat, T # {}
  PROVE  \E x \in T : \A y \in T : x <= y
<1> DEFINE R == {ss \in Nat \X Nat : ss[1] < ss[2]}
<1>1. R = OpToRel(<, Nat)
  BY DEF OpToRel
<1>2. IsWellFoundedOn(R, Nat)
  BY <1>1, NatLessThanWellFounded
<1>3. PICK x \in T : \A y \in T : <<y, x>> \notin R
  <2> HIDE DEF R
  <2> QED BY <1>2, WFMin
<1>4. \A y \in T : ~(y < x)
  BY <1>3
<1> QED BY <1>4

\* The queue has a first question: the own player's, or the earliest of the others,
\* unless only the one asked last is left.
LEMMA CurrentIsOpen ==
  ASSUME list.open \subseteq Player, list.open # {}
  PROVE  currentPlayer \in list.open
<1> DEFINE Queue == list.open
           First(p) == \A q \in Queue \ {p} : Before(p, q)
           Rest == Queue \ {last}
           Own == {p \in Rest : list.rows[p] = "self"}
           Chosen == IF Own # {} THEN Own ELSE Rest
<1>1. CASE Rest = {}
  <2>1. Queue = {last}
    BY <1>1
  <2>2. First(last) /\ last \in Queue
    BY <2>1
  <2> QED BY <2>2 DEF currentPlayer
<1>2. CASE Rest # {}
  <2>1. Chosen \subseteq Nat /\ Chosen # {} /\ Chosen \subseteq Queue
    BY <1>2, PlayersAssumption
  <2>2. PICK p \in Chosen : \A q \in Chosen : p <= q
    <3> HIDE DEF Chosen
    <3> QED BY <2>1, LeastNat
  <2>3. ASSUME NEW q \in Queue \ {p} PROVE Before(p, q)
    <3>1. p # last /\ p \in Nat /\ q \in Nat
      BY <2>1, <2>3, PlayersAssumption
    <3>2. CASE q = last
      BY <3>1, <3>2 DEF Before
    <3>3. CASE q # last /\ (list.rows[p] = "self") # (list.rows[q] = "self")
      <4>1. q \in Rest
        BY <3>3
      <4>2. list.rows[p] = "self"
        BY <3>3, <4>1
      <4> QED BY <3>1, <3>3, <4>2 DEF Before
    <3>4. CASE q # last /\ (list.rows[p] = "self") = (list.rows[q] = "self")
      <4>1. q \in Chosen
        BY <3>4
      <4>2. p < q
        BY <2>2, <2>3, <3>1, <4>1
      <4> QED BY <3>1, <3>4, <4>2 DEF Before
    <3> QED BY <3>2, <3>3, <3>4
  <2>4. First(p) /\ p \in Queue
    BY <2>1, <2>3
  <2> QED BY <2>4 DEF currentPlayer
<1> QED BY <1>1, <1>2

\* Who played whom is the same from either side.
LEMMA OpponentsMutual ==
  ASSUME NEW p \in Player, NEW q \in Player, merged[p] = None, merged[q] = None,
         q \in Opponents(p)
  PROVE  p \in Opponents(q)
<1>1. PICK r \in Player, s \in Player :
        q = Survivor(r) /\ (s = p \/ merged[s] = p) /\ Opposed(s, r)
  BY DEF Opponents
<1>2. Opposed(r, s)
  BY <1>1 DEF Opposed
<1>3. r = q \/ merged[r] = q
  BY <1>1 DEF Survivor
<1>4. Survivor(s) = p
  BY <1>1, PlayersAssumption DEF Survivor
<1> QED BY <1>2, <1>3, <1>4 DEF Opponents

\* The API tells two players apart by either's opponents.
LEMMA PlayedIsMutual ==
  ASSUME NEW p \in Player, NEW q \in Player, merged[p] = None, merged[q] = None
  PROVE  PlayedEachOther(p, q) <=> q \in Opponents(p)
BY OpponentsMutual DEF PlayedEachOther, Copy, Original

\* What the API lists of the account.
LEMMA ListedFacts ==
  AccountInv => /\ ListOK(Listed) /\ Listed.open = asked[me]
                /\ SelfIn(Listed) = SelfPlayers(me)
                /\ \A p \in Player : Listed.rows[p] =
                    IF merged[p] = None THEN relation[me][p] ELSE "none"
<1> SUFFICES ASSUME AccountInv
             PROVE  /\ ListOK(Listed) /\ Listed.open = asked[me]
                    /\ SelfIn(Listed) = SelfPlayers(me)
                    /\ \A p \in Player : Listed.rows[p] =
                        IF merged[p] = None THEN relation[me][p] ELSE "none"
  OBVIOUS
<1> USE ReviewAssumption
<1>1. /\ relation[me] \in [Player -> {"none", "self", "managed"}] /\ asked[me] \subseteq Player
      /\ \A p \in asked[me] : relation[me][p] # "none" /\ merged[p] = None
      /\ \A p \in SelfPlayers(me) : merged[p] = None
      /\ \A p, q \in SelfPlayers(me) : p = q
  BY DEF AccountInv, IInv, PlayersTypeOK, QuestionsAnswerable, OneManager
<1> DEFINE rows == [p \in Player |-> IF merged[p] = None THEN relation[me][p] ELSE "none"]
           open == {p \in asked[me] : rows[p] # "none"}
           played == {pair \in Player \X Player :
                       /\ rows[pair[1]] # "none" /\ rows[pair[2]] # "none"
                       /\ pair[2] \in Opponents(pair[1])}
<1>2. Listed = [rows |-> rows, open |-> open, played |-> played]
  BY DEF Listed
<1>3. rows \in [Player -> {"none", "self", "managed"}] /\ open = asked[me]
  BY <1>1
<1>4. played \subseteq Player \X Player
  OBVIOUS
<1> HIDE DEF played
<1>5. Listed \in PlayerList
  BY <1>1, <1>2, <1>3, <1>4 DEF PlayerList
<1>6. {p \in Player : rows[p] = "self"} = SelfPlayers(me)
  BY <1>1 DEF SelfPlayers
<1>7. SelfIn(Listed) = SelfPlayers(me)
  BY <1>2, <1>6 DEF SelfIn
<1>8. \E own \in Player : SelfPlayers(me) = {own}
  BY <1>1 DEF AccountInv, SelfPlayers
<1>9. \A p \in Listed.open : Listed.rows[p] # "none"
  BY <1>1, <1>2, <1>3
<1> QED BY <1>2, <1>3, <1>5, <1>7, <1>8, <1>9 DEF ListOK, AccountInv

\* The same after a step.
LEMMA ListedAfter == ASSUME AccountInv' PROVE ListOK(Listed)' /\ Listed.open' = asked'[me]
<1>1. (AccountInv => /\ ListOK(Listed) /\ Listed.open = asked[me]
                     /\ SelfIn(Listed) = SelfPlayers(me)
                     /\ \A p \in Player : Listed.rows[p] =
                         IF merged[p] = None THEN relation[me][p] ELSE "none")'
  BY ListedFacts, PTL
<1> QED BY <1>1

\* The tab offers what the API takes, when the tab's list is the API's.
LEMMA OffersTaken ==
  ASSUME AccountInv, list = Listed, Asks
  PROVE  /\ currentPlayer \in Player /\ currentPlayer \in list.open
         /\ \A reply \in Offers : Says(currentPlayer, reply) = "answered"
         /\ confirmed = SelfPlayers(me) \ ({currentPlayer} \cup asked[me])
<1>1. /\ ListOK(Listed) /\ list.open = asked[me] /\ SelfIn(list) = SelfPlayers(me)
      /\ \A p \in Player : list.rows[p] =
          IF merged[p] = None THEN relation[me][p] ELSE "none"
  BY ListedFacts
<1>2. asked[me] \subseteq Player
  BY <1>1 DEF ListOK, PlayerList
<1>3. currentPlayer \in list.open
  BY <1>1, <1>2, CurrentIsOpen DEF Asks
<1>4. confirmed = SelfPlayers(me) \ ({currentPlayer} \cup asked[me])
  BY <1>1 DEF confirmed
<1>5. currentPlayer \in Player /\ merged[currentPlayer] = None /\ list.rows[currentPlayer] # "none"
  BY <1>1, <1>2, <1>3 DEF ListOK
<1>6. ASSUME NEW q \in Player, list.rows[q] # "none", <<currentPlayer, q>> \notin list.played
      PROVE  ~PlayedEachOther(currentPlayer, q)
  <2>1. merged[q] = None
    BY <1>1, <1>6
  <2>2. q \notin Opponents(currentPlayer)
    BY <1>5, <1>6 DEF Listed
  <2> QED BY <1>5, <2>1, <2>2, PlayedIsMutual
<1>7. ASSUME NEW reply \in Offers PROVE Says(currentPlayer, reply) = "answered"
  <2>1. /\ reply.answer = "same_as" =>
             /\ reply.target \in Player /\ list.rows[reply.target] = "managed"
             /\ reply.target \notin asked[me] /\ <<currentPlayer, reply.target>> \notin list.played
        /\ reply.answer = "yes" => ~playedOwn
    <3>1. CASE reply \in {SameAs(q) : q \in targets}
      <4>1. PICK q \in targets : reply = SameAs(q)
        BY <3>1
      <4>2. q \in Player \ ({currentPlayer} \cup list.open) /\ list.rows[q] = "managed"
            /\ <<currentPlayer, q>> \notin list.played
        BY DEF targets
      <4> QED BY <1>1, <4>1, <4>2 DEF SameAs
    <3>2. CASE reply \notin {SameAs(q) : q \in targets}
      <4>1. reply \in {Plain(answer) : answer \in {"yes", "no", "not_mine"}}
            /\ (reply = Plain("yes") => ~playedOwn)
        BY <1>7, <3>2 DEF Offers, Plain
      <4> QED BY <4>1 DEF Plain
    <3> QED BY <3>1, <3>2
  <2>2. reply.answer = "same_as" => ~PlayedEachOther(currentPlayer, reply.target)
    BY <1>6, <2>1
  <2>3. reply.answer = "yes" =>
          ~\E own \in SelfPlayers(me) \ ({currentPlayer} \cup asked[me]) : PlayedEachOther(currentPlayer, own)
    <3>1. \A own \in SelfPlayers(me) : own \in Player /\ list.rows[own] # "none"
      BY <1>1 DEF SelfIn
    <3> QED BY <1>4, <1>6, <2>1, <3>1 DEF playedOwn
  <2> QED BY <1>1, <1>3, <1>5, <2>1, <2>2, <2>3 DEF Says
<1> QED BY <1>3, <1>4, <1>5, <1>7

\* An answer closes questions and opens none, and leaves the account a player of its own.
LEMMA AnswerStep ==
  ASSUME AccountInv, NEW p \in Player, NEW reply \in Replies, AnswerQuestion(p, reply)
  PROVE  AccountInv' /\ asked'[me] \subseteq asked[me]
<1> USE ReviewAssumption
<1>1. \/ \E target \in Player : AnswerSameAs(me, p, target)
      \/ AnswerYes(me, p)
      \/ \E leaves \in {"managed", "none"} : AnswerNo(me, p, leaves)
  BY DEF AnswerQuestion, Replies, Plain, SameAs
<1>2. IInv'
  BY <1>1, AnswersKeepIInv DEF AccountInv
<1>3. PlayersTypeOK
  BY DEF AccountInv, IInv
<1>4. relation[me] \in Row
  BY <1>3 DEF PlayersTypeOK, Row
<1>5. /\ \E row \in Row : EnsureSelf(me, row)
      /\ \E S : Close(me, S)
  <2>1. ASSUME NEW into \in Player, MergeInto(me, p, into)
        PROVE  (\E row \in Row : EnsureSelf(me, row)) /\ \E S : Close(me, S)
    <3>1. MergedRow(relation[me], p, into) \in Row
      BY <1>4 DEF MergedRow, Row
    <3> QED BY <2>1, <3>1 DEF MergeInto
  <2>2. CASE AnswerYes(me, p)
    <3> DEFINE own == SelfPlayers(me) \ {p}
               row == [q \in Player |-> CASE q = p -> "self"
                                          [] q \in own -> "managed"
                                          [] OTHER -> relation[me][q]]
    <3>1. row \in Row
      BY <1>4 DEF Row
    <3>2. \/ EnsureSelf(me, row) /\ Close(me, {p})
          \/ \E s \in Player : MergeInto(me, p, s)
      BY <2>2 DEF AnswerYes, SelfPlayers
    <3> QED BY <2>1, <3>1, <3>2
  <2>3. ASSUME NEW leaves \in {"managed", "none"}, AnswerNo(me, p, leaves)
        PROVE  (\E row \in Row : EnsureSelf(me, row)) /\ \E S : Close(me, S)
    <3>1. [relation[me] EXCEPT ![p] = leaves] \in Row
      BY <1>4 DEF Row
    <3> QED BY <2>3, <3>1 DEF AnswerNo
  <2> QED BY <1>1, <2>1, <2>2, <2>3 DEF AnswerSameAs
<1>6. SelfPlayers(me)' # {}
  BY <1>3, <1>5, EnsureSelfLeavesOne
<1>7. asked'[me] \subseteq asked[me]
  BY <1>3, <1>5 DEF Close, PlayersTypeOK
<1> QED BY <1>2, <1>6, <1>7 DEF AccountInv

\* What the account's steps in this tab and others keep.
LEMMA AccountNext ==
  ASSUME AccountInv, SaveInv, [ReviewNext]_<<playerVars, reviewVars>>
  PROVE  AccountInv' /\ asked'[me] \subseteq asked[me]
<1>1. CASE UNCHANGED playerVars
  <2>1. /\ kind' = kind /\ made' = made /\ merged' = merged /\ relation' = relation
        /\ asked' = asked /\ details' = details /\ creating' = creating /\ scored' = scored
    BY <1>1 DEF playerVars
  <2>2. IInv' <=> IInv
    BY <2>1
    DEF IInv, PlayersTypeOK, OnlyMade, OneStepToSurvivor, OneManager, SelfPlayers,
        QuestionsAnswerable, GuestsOwnOnePlayer, Managed, MatchesMadeOnce, SidesApart,
        OnePlayer, Survivor
  <2>3. SelfPlayers(me)' = SelfPlayers(me)
    BY <2>1 DEF SelfPlayers
  <2> QED BY <2>1, <2>2, <2>3 DEF AccountInv
<1>2. CASE ServeAnswer
  <2>1. save.player \in Player /\ save.reply \in Replies
    BY <1>2 DEF ServeAnswer, SaveInv
  <2>2. AnswerQuestion(save.player, save.reply) \/ UNCHANGED playerVars
    BY <1>2 DEF ServeAnswer
  <2> QED BY <1>1, <2>1, <2>2, AnswerStep
<1>3. ASSUME NEW p \in Player, NEW reply \in Replies, AnotherTab(p, reply)
      PROVE  AccountInv' /\ asked'[me] \subseteq asked[me]
  BY <1>3, AnswerStep DEF AnotherTab
<1>4. UNCHANGED playerVars \/ ServeAnswer
      \/ \E p \in Player, reply \in Replies : AnotherTab(p, reply)
  BY DEF ReviewNext, Fetch, ServeList, ListArrives, ListLost, go, PressAnswer, AnswerArrives,
         AnswerRefused, Checked, CheckLost, AnswerLost
<1> QED BY <1>1, <1>2, <1>3, <1>4

\* What the API would list and say changes with its rows only.
LEMMA SameListed ==
  ASSUME UNCHANGED playerVars
  PROVE  /\ Listed' = Listed
         /\ \A p, reply : Says(p, reply)' = Says(p, reply)
<1>1. /\ merged' = merged /\ relation' = relation /\ asked' = asked /\ details' = details
      /\ scored' = scored
  BY DEF playerVars
<1>2. \A p : Opponents(p)' = Opponents(p)
  BY <1>1 DEF Opponents, Survivor, Opposed
<1>3. Listed' = Listed
  BY <1>1, <1>2 DEF Listed
<1>4. SelfPlayers(me)' = SelfPlayers(me) /\ \A p, q : PlayedEachOther(p, q)' = PlayedEachOther(p, q)
  BY <1>1, <1>2 DEF SelfPlayers, PlayedEachOther
<1> QED BY <1>1, <1>3, <1>4 DEF Says

-----------------------------------------------------------------------------
\* A list of the account's players stays between the API's and the tab's while
\* the account answers.
LEMMA StaysBetween ==
  ASSUME NEW l, Between(l), list' = list, asked'[me] \subseteq asked[me]
  PROVE  Between(l)'
BY DEF Between, ListOK, SelfIn

\* What the tab shows stays true while the account answers elsewhere.
LEMMA ShownStays ==
  ASSUME ShownInv, asked'[me] \subseteq asked[me],
         UNCHANGED <<reviewScene, list, self, shown, last>>,
         at' \in [player : Player \cup {None}, step : {"recognize", "relationship", "choose"}],
         others' \in 0 .. MaxOthers,
         notice' \in {"none", "answered", "already", "refused", "gone", "failed"}
  PROVE  ShownInv'
<1>1. list # NoList => (ListOK(list) /\ asked[me] \subseteq list.open
                      /\ list.open \subseteq shown /\ self \in SelfIn(list))'
  BY DEF ShownInv, ListOK, SelfIn
<1> QED BY <1>1 DEF ShownInv

\* A list that arrives replaces the tab's, and the session's player with its own.
LEMMA TakesStep ==
  ASSUME AccountInv, ShownInv, NEW l, Between(l), Takes(l),
         UNCHANGED <<playerVars, reviewScene, at, others>>,
         notice' \in {"none", "answered", "already", "refused", "gone", "failed"}
  PROVE  /\ ShownInv' /\ list' = l /\ l # NoList
         /\ list # NoList => list'.open \subseteq list.open /\ shown' = shown
<1> USE ReviewAssumption
<1>1. /\ list' = l /\ shown' = shown \cup l.open /\ asked' = asked
      /\ ListOK(l) /\ asked[me] \subseteq l.open /\ (list # NoList => l.open \subseteq list.open)
  BY DEF Takes, Between, playerVars
<1>2. PICK own \in Player : SelfIn(l) = {own}
  BY <1>1 DEF ListOK
<1>3. self' = own /\ last' \in Player \cup {None}
  BY <1>2 DEF Takes, takeSelfPlayer, ShownInv
<1>4. l # NoList /\ l.open \subseteq Listable
  BY <1>1 DEF ListOK
<1>5. ListOK(list)' /\ SelfIn(list)' = {own}
  BY <1>1, <1>2 DEF ListOK, SelfIn
<1>6. ShownInv'
  BY <1>1, <1>3, <1>4, <1>5 DEF ShownInv
<1> QED BY <1>1, <1>4, <1>6 DEF ShownInv

\* A step of the page that asks, presses or serves nothing new keeps what a tab
\* that is alone knows.
LEMMA AloneStays ==
  ASSUME AloneInv, UNCHANGED <<playerVars, reviewScene, list, notice>>,
         load' = load \/ load'.step # "read" \/ load'.list = Listed,
         save' = save
  PROVE  AloneInv'
<1>1. Listed' = Listed /\ Says(save.player, save.reply)' = Says(save.player, save.reply)
  BY SameListed
<1> QED BY <1>1 DEF AloneInv

\* Requests of the players query.
LEMMA FetchKeeps ==
  ASSUME AccountInv, ShownInv, LoadInv, SaveInv, AloneInv,
         "focusWhileSaving" \notin reviewScene, Fetch
  PROVE  ShownInv' /\ LoadInv' /\ SaveInv' /\ AloneInv'
<1>1. /\ save.step = "none" /\ load'.step = "sent" /\ load'.list = load.list
      /\ load' \in [step : {"none", "sent", "read"}, list : PlayerList \cup {NoList}]
  BY DEF Fetch, SaveInv, LoadInv
<1>2. ShownInv'
  BY ShownStays DEF Fetch, shownVars, playerVars, ShownInv
<1>3. LoadInv'
  BY <1>1 DEF LoadInv
<1>4. SaveInv'
  BY <1>1 DEF Fetch, SaveInv
<1>5. AloneInv'
  BY <1>1, AloneStays DEF Fetch, shownVars
<1> QED BY <1>2, <1>3, <1>4, <1>5

\* The API's list has every open question, and none that the tab's list hasn't.
LEMMA ServeListKeeps ==
  ASSUME AccountInv, ShownInv, LoadInv, SaveInv, AloneInv, ServeList
  PROVE  ShownInv' /\ LoadInv' /\ SaveInv' /\ AloneInv'
<1>1. /\ load.step = "sent" /\ load'.step = "read" /\ load'.list = Listed
      /\ UNCHANGED <<playerVars, list, self, shown, last, reviewScene, save, at, others, notice>>
      /\ load' = [step |-> "read", list |-> Listed]
  BY DEF ServeList, shownVars
<1>2. ShownInv'
  BY <1>1, ShownStays DEF playerVars, ShownInv
<1>3. Between(Listed) /\ Listed \in PlayerList
  BY ListedFacts DEF ShownInv, Between, ListOK
<1>4. Between(load.list)'
  <2>1. Between(Listed)' => Between(load.list)'
    BY <1>1, SameListed
  <2>2. ASSUME NEW l, Between(l) PROVE Between(l)'
    BY <1>1, <2>2, StaysBetween DEF playerVars
  <2>3. \A l : l = Listed => (Between(l)' => Between(load.list)')
    BY <1>1 DEF Between, ListOK, SelfIn
  <2> QED BY <1>3, <2>2, <2>3
<1>5. LoadInv'
  BY <1>1, <1>3, <1>4 DEF LoadInv
<1>6. SaveInv'
  <2>1. save.step # "served"
    BY <1>1 DEF SaveInv
  <2> QED BY <1>1, <2>1 DEF SaveInv
<1>7. AloneInv'
  BY <1>1, AloneStays
<1> QED BY <1>2, <1>5, <1>6, <1>7

\* It arrives while no answer is on its way.
LEMMA ListArrivesKeeps ==
  ASSUME AccountInv, ShownInv, LoadInv, SaveInv, AloneInv, ListArrives
  PROVE  ShownInv' /\ LoadInv' /\ SaveInv' /\ AloneInv'
<1>1. /\ load.step = "read" /\ save.step = "none" /\ load' = NoLoad /\ Between(load.list)
      /\ UNCHANGED <<playerVars, reviewScene, save, at, others, notice>> /\ Takes(load.list)
  BY DEF ListArrives, SaveInv, LoadInv
<1>2. ShownInv' /\ list' = load.list /\ list' # NoList
  BY <1>1, TakesStep DEF ShownInv
<1>3. LoadInv'
  BY <1>1 DEF LoadInv, NoLoad
<1>4. SaveInv'
  BY <1>1 DEF SaveInv
<1>5. AloneInv'
  BY <1>1, <1>2, SameListed DEF AloneInv, NoLoad
<1> QED BY <1>2, <1>3, <1>4, <1>5

\* A fetch that is lost leaves the list.
LEMMA ListLostKeeps ==
  ASSUME AccountInv, ShownInv, LoadInv, SaveInv, AloneInv, ListLost
  PROVE  ShownInv' /\ LoadInv' /\ SaveInv' /\ AloneInv'
<1>1. /\ load.step # "none" /\ save.step # "checking" /\ load' = NoLoad /\ "lost" \in reviewScene'
      /\ UNCHANGED <<playerVars, list, self, shown, last, reviewScene, save, at, others, notice>>
  BY DEF ListLost, shownVars
<1>2. ShownInv'
  BY <1>1, ShownStays DEF playerVars, ShownInv
<1>3. LoadInv'
  BY <1>1 DEF LoadInv, NoLoad
<1>4. SaveInv'
  BY <1>1 DEF SaveInv, NoLoad
<1>5. AloneInv'
  BY <1>1 DEF AloneInv
<1> QED BY <1>2, <1>3, <1>4, <1>5

\* The buttons of a question.
LEMMA goKeeps ==
  ASSUME AccountInv, ShownInv, LoadInv, SaveInv, AloneInv,
         NEW next \in {"recognize", "relationship", "choose"}, go(next)
  PROVE  ShownInv' /\ LoadInv' /\ SaveInv' /\ AloneInv'
<1> USE ReviewAssumption
<1>1. /\ at' = [player |-> currentPlayer, step |-> next]
      /\ UNCHANGED <<playerVars, list, self, shown, last, reviewScene, load, save, others, notice>>
  BY DEF go, shownVars
<1>2. currentPlayer \in Player
  <2>1. list.open \subseteq Player /\ list.open # {}
    BY DEF go, Asks, ShownInv, ListOK
  <2> QED BY <2>1, CurrentIsOpen
<1>3. ShownInv'
  BY <1>1, <1>2, ShownStays DEF playerVars, ShownInv
<1>4. LoadInv' /\ SaveInv'
  <2>1. Between(load.list) => Between(load.list)'
    BY <1>1 DEF Between, ListOK, SelfIn, playerVars
  <2>2. Between(save.list) => Between(save.list)'
    BY <1>1 DEF Between, ListOK, SelfIn, playerVars
  <2> QED BY <1>1, <2>1, <2>2 DEF LoadInv, SaveInv
<1>5. AloneInv'
  BY <1>1, AloneStays
<1> QED BY <1>3, <1>4, <1>5

\* An answer takes the place of a fetch, and the API takes it if nobody else
\* answers.
LEMMA PressAnswerKeeps ==
  ASSUME AccountInv, ShownInv, LoadInv, SaveInv, AloneInv, NEW reply \in Replies, PressAnswer(reply)
  PROVE  ShownInv' /\ LoadInv' /\ SaveInv' /\ AloneInv'
<1> USE ReviewAssumption
<1>1. /\ Asks /\ reply \in Offers /\ save.step = "none" /\ load' = NoLoad /\ notice' = "none"
      /\ save' = [step |-> "sent", player |-> currentPlayer, reply |-> reply,
                  outcome |-> "none", list |-> NoList]
      /\ UNCHANGED <<playerVars, list, self, shown, last, reviewScene, at, others>>
  BY DEF PressAnswer, Sends, cancelQueries, NoSave, shownVars
<1>2. currentPlayer \in Player /\ list # NoList
  <2>1. list.open \subseteq Player /\ list.open # {}
    BY <1>1 DEF Asks, ShownInv, ListOK
  <2> QED BY <1>1, <2>1, CurrentIsOpen DEF Asks
<1>3. ShownInv'
  BY <1>1, ShownStays DEF playerVars, ShownInv
<1>4. LoadInv'
  BY <1>1 DEF LoadInv, NoLoad
<1>5. SaveInv'
  BY <1>1, <1>2 DEF SaveInv, NoLoad
<1>6. AloneInv'
  <2>1. SUFFICES ASSUME reviewScene \cap {"anotherTab", "lost"} = {} PROVE AloneInv'
    BY <1>1 DEF AloneInv
  <2>2. list = Listed
    BY <1>1, <1>2, <2>1 DEF AloneInv
  <2>3. Says(currentPlayer, reply) = "answered"
    BY <1>1, <2>2, OffersTaken
  <2>4. Says(save.player, save.reply)' = Says(currentPlayer, reply)
    <3>1. \A p, r : Says(p, r)' = Says(p, r)
      BY <1>1, SameListed
    <3>2. \A p, r : p = currentPlayer /\ r = reply => Says(save.player, save.reply)' = Says(p, r)'
      BY <1>1 DEF Says
    <3> QED BY <3>1, <3>2
  <2> QED BY <1>1, <2>2, <2>3, <2>4, SameListed DEF AloneInv, NoLoad
<1> QED BY <1>3, <1>4, <1>5, <1>6

\* An answer's way to the API and back.
LEMMA ServeAnswerKeeps ==
  ASSUME AccountInv, ShownInv, LoadInv, SaveInv, AloneInv, ServeAnswer,
         AccountInv', asked'[me] \subseteq asked[me]
  PROVE  ShownInv' /\ LoadInv' /\ SaveInv' /\ AloneInv'
<1> DEFINE said == Says(save.player, save.reply)
<1>1. /\ save.step = "sent" /\ list # NoList /\ load.step = "none"
      /\ save.player \in Player /\ save.reply \in Replies
      /\ UNCHANGED <<list, self, shown, last, reviewScene, load, at, others, notice>>
      /\ save' = [save EXCEPT !.step = "served", !.outcome = said, !.list = Listed']
  BY DEF ServeAnswer, SaveInv, shownVars
<1>2. said \in {"answered", "already", "notFound", "closed", "played"}
  BY DEF Says
<1> HIDE DEF said
<1>3. ListOK(Listed)' /\ Listed.open' = asked'[me]
  BY ListedAfter
<1>4. Listed' \in PlayerList /\ save'.list = Listed'
  BY <1>1, <1>3 DEF ListOK, SaveInv
<1>5. ShownInv'
  BY <1>1, ShownStays DEF ShownInv
<1>6. LoadInv'
  BY <1>1 DEF LoadInv
<1>7. Between(save.list)'
  <2>1. ListOK(save.list)' /\ save.list.open' = asked'[me]
    BY <1>3, <1>4 DEF ListOK, SelfIn
  <2>2. asked'[me] \subseteq list'.open
    BY <1>1 DEF ShownInv
  <2> QED BY <2>1, <2>2 DEF Between
<1>8. SaveInv'
  BY <1>1, <1>2, <1>4, <1>7 DEF SaveInv
<1>9. AloneInv'
  BY <1>1, <1>4 DEF AloneInv, SaveInv, said
<1> QED BY <1>5, <1>6, <1>8, <1>9

\* The answer's list has no question that the tab's list hasn't.
LEMMA AnswerArrivesKeeps ==
  ASSUME AccountInv, ShownInv, LoadInv, SaveInv, AloneInv, AnswerArrives
  PROVE  ShownInv' /\ LoadInv' /\ SaveInv' /\ AloneInv'
<1>1. /\ save.step = "served" /\ load.step = "none" /\ Between(save.list) /\ save' = NoSave
      /\ notice' = save.outcome /\ notice' \in {"answered", "already"} /\ Takes(save.list)
      /\ UNCHANGED <<playerVars, reviewScene, load, at, others>>
  BY DEF AnswerArrives, SaveInv
<1>2. ShownInv' /\ list' = save.list
  BY <1>1, TakesStep
<1>3. LoadInv'
  BY <1>1 DEF LoadInv
<1>4. SaveInv'
  BY <1>1 DEF SaveInv, NoSave
<1>5. AloneInv'
  BY <1>1, <1>2, SameListed DEF AloneInv, NoSave
<1> QED BY <1>2, <1>3, <1>4, <1>5

\* A refusal fetches anew, and a tab that is alone has none.
LEMMA AnswerRefusedKeeps ==
  ASSUME AccountInv, ShownInv, LoadInv, SaveInv, AloneInv, AnswerRefused
  PROVE  ShownInv' /\ LoadInv' /\ SaveInv' /\ AloneInv'
<1>1. /\ save.step = "served" /\ save.outcome \in {"notFound", "closed", "played"}
      /\ save' = [save EXCEPT !.step = "checking"] /\ load' = [step |-> "sent", list |-> NoList]
      /\ UNCHANGED <<playerVars, list, self, shown, last, reviewScene, at, others, notice>>
  BY DEF AnswerRefused, shownVars
<1>2. ShownInv'
  BY <1>1, ShownStays DEF playerVars, ShownInv
<1>3. LoadInv'
  BY <1>1 DEF LoadInv
<1>4. SaveInv'
  BY <1>1 DEF SaveInv
<1>5. AloneInv'
  BY <1>1 DEF AloneInv
<1> QED BY <1>2, <1>3, <1>4, <1>5

\* What the page says of a refusal is one of its notices.
LEMMA Verdicts ==
  ASSUME NEW l
  PROVE  Verdict(l) \in {"none", "answered", "already", "refused", "gone", "failed"}
BY DEF Verdict

\* The list fetched after a refusal is like any other.
LEMMA CheckedKeeps ==
  ASSUME AccountInv, ShownInv, LoadInv, SaveInv, AloneInv, Checked
  PROVE  ShownInv' /\ LoadInv' /\ SaveInv' /\ AloneInv'
<1>1. /\ save.step = "checking" /\ Between(load.list) /\ save' = NoSave /\ load' = NoLoad
      /\ notice' = Verdict(load.list) /\ Takes(load.list)
      /\ UNCHANGED <<playerVars, reviewScene, at, others>>
  BY DEF Checked, LoadInv
<1>2. ShownInv'
  BY <1>1, TakesStep, Verdicts
<1>3. LoadInv'
  BY <1>1 DEF LoadInv, NoLoad
<1>4. SaveInv'
  BY <1>1 DEF SaveInv, NoSave
<1>5. AloneInv'
  BY <1>1 DEF AloneInv
<1> QED BY <1>2, <1>3, <1>4, <1>5

\* The answer or the look at the players after it is lost.
LEMMA LostKeeps ==
  ASSUME AccountInv, ShownInv, LoadInv, SaveInv, AloneInv, CheckLost \/ AnswerLost
  PROVE  ShownInv' /\ LoadInv' /\ SaveInv' /\ AloneInv'
<1>1. /\ "lost" \in reviewScene' /\ save' = NoSave
      /\ load' = NoLoad \/ (load' = load /\ load.step = "none")
      /\ notice' = "failed" \/ notice' = Verdict(list)
      /\ UNCHANGED <<playerVars, list, self, shown, last, reviewScene, at, others>>
  BY DEF CheckLost, AnswerLost, SaveInv, shownVars
<1>2. ShownInv'
  BY <1>1, ShownStays, Verdicts DEF playerVars, ShownInv
<1>3. LoadInv'
  BY <1>1 DEF LoadInv, NoLoad
<1>4. SaveInv'
  BY <1>1 DEF SaveInv, NoSave
<1>5. AloneInv'
  BY <1>1 DEF AloneInv
<1> QED BY <1>2, <1>3, <1>4, <1>5

\* An answer from elsewhere.
LEMMA AnotherTabKeeps ==
  ASSUME AccountInv, ShownInv, LoadInv, SaveInv, AloneInv, asked'[me] \subseteq asked[me],
         NEW p \in Player, NEW reply \in Replies, AnotherTab(p, reply)
  PROVE  ShownInv' /\ LoadInv' /\ SaveInv' /\ AloneInv'
<1>1. /\ "anotherTab" \in reviewScene' /\ others < MaxOthers /\ others' = others + 1
      /\ UNCHANGED <<list, self, shown, last, reviewScene, load, save, at, notice>>
  BY DEF AnotherTab, shownVars
<1>2. others' \in 0 .. MaxOthers
  <2>1. others \in 0 .. MaxOthers
    BY DEF ShownInv
  <2> QED BY <1>1, <2>1, ReviewAssumption
<1>3. ShownInv'
  BY <1>1, <1>2, ShownStays DEF ShownInv
<1>4. LoadInv'
  <2>1. Between(load.list) => Between(load.list)'
    BY <1>1 DEF Between, ListOK, SelfIn
  <2> QED BY <1>1, <2>1 DEF LoadInv
<1>5. SaveInv'
  <2>1. Between(save.list) => Between(save.list)'
    BY <1>1 DEF Between, ListOK, SelfIn
  <2> QED BY <1>1, <2>1 DEF SaveInv
<1>6. AloneInv'
  BY <1>1 DEF AloneInv
<1> QED BY <1>3, <1>4, <1>5, <1>6

-----------------------------------------------------------------------------
\* The page starts with no list, and an account as sign-ins leave it.
LEMMA ReviewInitInv == ReviewInit => ReviewInv
<1> SUFFICES ASSUME ReviewInit PROVE ReviewInv
  OBVIOUS
<1> USE ReviewAssumption, PlayersAssumption
<1>1. PICK own \in Listable :
        relation = [a \in Account |-> [p \in Player |->
          IF a # me \/ p \notin made THEN "none" ELSE IF p = own THEN "self" ELSE "managed"]]
  BY DEF ReviewInit
<1>2. PICK Q \in SUBSET Listable : asked = [a \in Account |-> IF a = me THEN Q ELSE {}]
  BY DEF ReviewInit
<1>3. PICK pair \in Listable \X Listable, terms \in Terms :
        /\ scored = {} \/ pair[1] < pair[2]
        /\ details = [m \in Match |->
            IF m \in scored THEN [players |-> pair, terms |-> terms] ELSE None]
  BY DEF ReviewInit
<1>4. /\ kind = [a \in Account |-> IF a = me THEN "verified" ELSE "absent"]
      /\ merged = [p \in Player |-> None] /\ creating = [m \in Match |-> None]
      /\ made = Listable /\ scored \subseteq Match
  BY DEF ReviewInit
<1>5. [players |-> pair, terms |-> terms] \in Details /\ None \notin Details
  BY DEF Details
<1>6. PlayersTypeOK
  BY <1>1, <1>2, <1>3, <1>4, <1>5 DEF PlayersTypeOK
<1>7. OnlyMade /\ OneStepToSurvivor /\ OneManager
  BY <1>1, <1>4 DEF OnlyMade, OneStepToSurvivor, OneManager, SelfPlayers
<1>8. QuestionsAnswerable
  BY <1>1, <1>2, <1>4 DEF QuestionsAnswerable
<1>9. GuestsOwnOnePlayer
  BY <1>1, <1>2, <1>4 DEF GuestsOwnOnePlayer, Managed
<1>10. MatchesMadeOnce
  BY <1>3, <1>4, <1>5 DEF MatchesMadeOnce
<1>11. SidesApart
  <2>1. ASSUME NEW m \in scored PROVE details[m].players = pair /\ pair[1] # pair[2]
    <3>1. pair[1] \in Nat /\ pair[2] \in Nat /\ pair[1] < pair[2]
      BY <1>3, <2>1
    <3> QED BY <1>3, <1>4, <2>1, <3>1
  <2>2. \A p \in Player : Survivor(p) = p
    BY <1>4 DEF Survivor
  <2> QED BY <2>1, <2>2 DEF SidesApart, OnePlayer
<1>12. SelfPlayers(me) = {own}
  BY <1>1, <1>4 DEF SelfPlayers
<1>13. AccountInv
  BY <1>2, <1>6, <1>7, <1>8, <1>9, <1>10, <1>11, <1>12 DEF AccountInv, IInv
<1>14. ShownInv
  <2>1. self \in Player
    BY DEF ReviewInit, SelfIn
  <2> QED BY <2>1 DEF ReviewInit, ShownInv
<1>15. LoadInv /\ SaveInv
  BY DEF ReviewInit, LoadInv, SaveInv, NoLoad, NoSave
<1>16. AloneInv
  BY DEF ReviewInit, AloneInv, NoLoad, NoSave
<1> QED BY <1>13, <1>14, <1>15, <1>16 DEF ReviewInv

\* Each step keeps the invariant.
LEMMA ReviewNextInv == ReviewInv /\ [ReviewNext]_<<playerVars, reviewVars>> => ReviewInv'
<1> SUFFICES ASSUME ReviewInv, [ReviewNext]_<<playerVars, reviewVars>>,
                    "focusWhileSaving" \notin reviewScene'
             PROVE  (AccountInv /\ ShownInv /\ LoadInv /\ SaveInv /\ AloneInv)'
  BY DEF ReviewInv
<1>1. reviewScene' = reviewScene
  BY DEF ReviewNext, Fetch, ServeList, ListArrives, ListLost, go, PressAnswer, ServeAnswer,
         AnswerArrives, AnswerRefused, Checked, CheckLost, AnswerLost, AnotherTab, reviewVars
<1>2. /\ AccountInv /\ ShownInv /\ LoadInv /\ SaveInv /\ AloneInv
      /\ "focusWhileSaving" \notin reviewScene
  BY <1>1 DEF ReviewInv
<1>3. AccountInv' /\ asked'[me] \subseteq asked[me]
  BY <1>2, AccountNext
<1>4. CASE UNCHANGED <<playerVars, reviewVars>>
  <2>1. /\ UNCHANGED <<playerVars, reviewScene, list, load, self, shown, last>>
        /\ UNCHANGED <<at, save, others, notice>>
    BY <1>4 DEF reviewVars
  <2>2. ShownInv'
    BY <1>2, <1>3, <2>1, ShownStays DEF ShownInv
  <2>3. Between(load.list) => Between(load.list)'
    BY <1>3, <2>1 DEF Between, ListOK, SelfIn
  <2>4. Between(save.list) => Between(save.list)'
    BY <1>3, <2>1 DEF Between, ListOK, SelfIn
  <2>5. LoadInv' /\ SaveInv'
    BY <1>2, <2>1, <2>3, <2>4 DEF LoadInv, SaveInv
  <2>6. AloneInv'
    BY <1>2, <2>1, AloneStays
  <2> QED BY <1>3, <2>2, <2>5, <2>6
<1>5. CASE Fetch \/ ServeList \/ ListArrives \/ ListLost
  BY <1>2, <1>3, <1>5, FetchKeeps, ServeListKeeps, ListArrivesKeeps, ListLostKeeps
<1>6. CASE (\E next \in {"recognize", "relationship", "choose"} : go(next))
           \/ \E reply \in Replies : PressAnswer(reply)
  BY <1>2, <1>3, <1>6, goKeeps, PressAnswerKeeps
<1>7. CASE ServeAnswer \/ AnswerArrives \/ AnswerRefused \/ Checked \/ CheckLost \/ AnswerLost
  BY <1>2, <1>3, <1>7, ServeAnswerKeeps, AnswerArrivesKeeps, AnswerRefusedKeeps,
      CheckedKeeps, LostKeeps
<1>8. CASE \E p \in Player, reply \in Replies : AnotherTab(p, reply)
  BY <1>2, <1>3, <1>8, AnotherTabKeeps
<1> QED BY <1>4, <1>5, <1>6, <1>7, <1>8 DEF ReviewNext

\* The inductive invariant holds for any account, players, matches and answers.
THEOREM ReviewIInv == ReviewSpec => []ReviewInv
<1> QED BY ReviewInitInv, ReviewNextInv, PTL DEF ReviewSpec

\* What the page shows follows from the invariant.
LEMMA ReviewInvSafe ==
  ReviewInv /\ "focusWhileSaving" \notin reviewScene =>
    ReviewTypeOK /\ OffersAreTaken /\ NoFalseAlarm /\ SelfIsTheLists
<1> SUFFICES ASSUME AccountInv, ShownInv, LoadInv, SaveInv, AloneInv
             PROVE  ReviewTypeOK /\ OffersAreTaken /\ NoFalseAlarm /\ SelfIsTheLists
  BY DEF ReviewInv
<1>1. ReviewTypeOK
  <2>1. list = NoList \/ (list.open \subseteq {p \in Player : list.rows[p] # "none"}
                           /\ SelfIn(list) # {})
    BY ReviewAssumption DEF ShownInv, ListOK
  <2>2. PlayersTypeOK
    BY DEF AccountInv, IInv
  <2> QED BY <2>1, <2>2, ReviewAssumption DEF ReviewTypeOK, ShownInv, LoadInv, SaveInv
<1>2. OffersAreTaken
  BY OffersTaken DEF OffersAreTaken
<1>3. NoFalseAlarm
  BY DEF NoFalseAlarm, AloneInv
<1>4. SelfIsTheLists
  BY DEF SelfIsTheLists, ShownInv
<1> QED BY <1>1, <1>2, <1>3, <1>4

\* A step replaces the tab's list with one between the API's and its own.
LEMMA ProgressOnly ==
  ASSUME ReviewInv, "focusWhileSaving" \notin reviewScene,
         [ReviewNext]_<<playerVars, reviewVars>>, list # NoList
  PROVE  list'.open \subseteq list.open /\ Counter' >= Counter
<1> USE ReviewAssumption
<1>1. AccountInv /\ ShownInv /\ LoadInv /\ SaveInv
  BY DEF ReviewInv
<1>2. \/ UNCHANGED <<list, shown>>
      \/ \E l : Between(l) /\ Takes(l)
  BY <1>1 DEF ReviewNext, Fetch, ServeList, ListArrives, ListLost, go, PressAnswer, ServeAnswer,
              AnswerArrives, AnswerRefused, Checked, CheckLost, AnswerLost, AnotherTab, reviewVars,
              shownVars, LoadInv, SaveInv
<1>3. list'.open \subseteq list.open /\ shown' = shown /\ list.open \subseteq shown
      /\ shown \subseteq Listable
  BY <1>1, <1>2 DEF Takes, Between, ShownInv
<1>4. /\ IsFiniteSet(shown) /\ IsFiniteSet(list.open)
      /\ Cardinality(list'.open) <= Cardinality(list.open)
      /\ Cardinality(list'.open) \in Nat
  BY <1>3, FS_Subset, FS_CardinalityType
<1>5. Cardinality(shown) \in Nat /\ Cardinality(list.open) \in Nat
  BY <1>4, FS_CardinalityType
<1>6. Cardinality(shown) - Cardinality(list'.open) + 1
        >= Cardinality(shown) - Cardinality(list.open) + 1
  BY <1>4, <1>5
<1> QED BY <1>3, <1>6 DEF Counter

\* For any account, players and answers: the page offers what the API takes, never
\* says without reason that someone answered first, and a question that it saw
\* answered stays answered, unless it looks again while an answer saves.
THEOREM ReviewIsSafe == ReviewSpec /\ "focusWhileSaving" \notin reviewScene => ReviewSafe
<1>1. [ReviewNext]_<<playerVars, reviewVars>> => reviewScene' = reviewScene
  BY DEF ReviewNext, Fetch, ServeList, ListArrives, ListLost, go, PressAnswer, ServeAnswer,
         AnswerArrives, AnswerRefused, Checked, CheckLost, AnswerLost, AnotherTab, reviewVars
<1> DEFINE Allowed == "focusWhileSaving" \notin reviewScene
<1>2. Allowed /\ [ReviewNext]_<<playerVars, reviewVars>> => Allowed'
  BY <1>1
<1>3. ReviewInv /\ Allowed /\ [ReviewNext]_<<playerVars, reviewVars>> =>
        [list # NoList => list'.open \subseteq list.open /\ Counter' >= Counter]_reviewVars
  BY ProgressOnly
<1>4. ReviewInv /\ Allowed => ReviewTypeOK /\ OffersAreTaken /\ NoFalseAlarm /\ SelfIsTheLists
  BY ReviewInvSafe
<1> HIDE DEF Allowed
<1>5. ReviewSpec /\ Allowed => [](ReviewInv /\ Allowed)
  BY <1>2, ReviewIInv, PTL DEF ReviewSpec
<1>6. ReviewSpec /\ Allowed => AnsweredStaysAnswered
  BY <1>3, <1>5, PTL DEF ReviewSpec, AnsweredStaysAnswered
<1>7. ReviewSpec /\ Allowed => [](ReviewTypeOK /\ OffersAreTaken /\ NoFalseAlarm /\ SelfIsTheLists)
  BY <1>4, <1>5, PTL
<1> QED BY <1>6, <1>7, PTL DEF ReviewSafe, Allowed
=============================================================================
