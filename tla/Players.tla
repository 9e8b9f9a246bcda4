------------------------------ MODULE Players ------------------------------
(***************************************************************************)
(* Accounts, the players they manage, and player merges:                   *)
(* services/players.py, adoption.py, player_merge.py, with the parts of    *)
(* sessions.py, sign_in.py and matches.py that give an account a player or *)
(* put a player in a match.                                                *)
(*                                                                         *)
(* One action is one committed transaction, except that making a match     *)
(* takes two: create_match() reads its players without locking them, so a  *)
(* merge may commit before the match does.                                 *)
(***************************************************************************)
EXTENDS Naturals, FiniteSets

CONSTANTS Account,  \* account ids
          Player,   \* players, numbered in the order of (created_at, id)
          Match,    \* match ids, made on the devices
          Terms,    \* best_of and rated, which a match is made with
          None      \* SQL's NULL, or a row that isn't there

\* What a match is made with, and a request that makes one.
Details == [players : Player \X Player, terms : Terms]
Creation == [by : Account, details : Details]

ASSUME PlayersAssumption ==
  /\ Player \subseteq Nat
  /\ None \notin Account \cup Player \cup Match \cup Terms \cup Details \cup Creation

VARIABLES
  kind,      \* accounts: absent, guest, verified, or adopted (adopted_into is set)
  made,      \* the players that exist
  merged,    \* players.merged_into
  relation,  \* player_managers.relationship of each row, "none" for no row
  asked,     \* the rows whose adopted_from is set: the open questions
  details,   \* each match's players and terms, None before it is made
  creating,  \* create_match() calls between their reads and their inserts
  scored     \* the matches with a result

playerVars == <<kind, made, merged, relation, asked, details, creating, scored>>

-----------------------------------------------------------------------------
PlayersTypeOK ==
  /\ kind \in [Account -> {"absent", "guest", "verified", "adopted"}]
  /\ made \subseteq Player
  /\ merged \in [Player -> Player \cup {None}]
  /\ relation \in [Account -> [Player -> {"none", "self", "managed"}]]
  /\ asked \in [Account -> SUBSET Player]
  /\ details \in [Match -> Details \cup {None}]
  /\ creating \in [Match -> Creation \cup {None}]
  /\ scored \subseteq Match

\* coalesce(merged_into, id): one step, because a merge points every earlier
\* merge at its survivor.
Survivor(p) == IF merged[p] = None THEN p ELSE merged[p]

Managed(a) == {p \in Player : relation[a][p] # "none"}
SelfPlayers(a) == {p \in Player : relation[a][p] = "self"}

SidesIn(d) == {d.players[1], d.players[2]}

\* The details as the players survive, which is how two of them compare.
Resolved(d) == [d EXCEPT !.players = <<Survivor(d.players[1]), Survivor(d.players[2])>>]

\* Both sides of the match became one player.
OnePlayer(m) == Survivor(details[m].players[1]) = Survivor(details[m].players[2])

\* A player has played once it, or a player merged into it, is in a match.
HasPlayed(p) ==
  \E m \in Match : details[m] # None /\ \E q \in SidesIn(details[m]) : q = p \/ merged[q] = p

Opposed(q, r) == \E m \in scored : details[m].players \in {<<q, r>>, <<r, q>>}

\* Mutant of Opponents: forgets what the players merged into p played.
OpponentsOfOwnRow(p) == {Survivor(r) : r \in {r \in Player : Opposed(p, r)}}

\* Whom p played in a match with a result, each named by its survivor.
Opponents(p) ==
  {Survivor(r) : r \in
     {r \in Player : \E q \in Player : (q = p \/ merged[q] = p) /\ Opposed(q, r)}}

\* create_match() holds its account FOR SHARE until it commits, so what takes
\* the account FOR UPDATE waits.
Free(a) == \A m \in Match : creating[m] # None => creating[m].by # a

-----------------------------------------------------------------------------
\* Of two players the one created first survives a merge, under its id.
Original(p, q) == IF p < q THEN p ELSE q
Copy(p, q) == IF p < q THEN q ELSE p

PlayedEachOther(p, q) == Copy(p, q) \in Opponents(Original(p, q))

\* Mutant of Repointed: leaves earlier merges where they pointed.
RepointedCopyOnly(p, q) == [merged EXCEPT ![Copy(p, q)] = Original(p, q)]

\* merge_players(): merged_into afterwards, and the account's rows. The
\* survivor's row takes the relationship of `into`.
Repointed(p, q) ==
  [r \in Player |-> IF r = Copy(p, q) \/ merged[r] = Copy(p, q)
                      THEN Original(p, q) ELSE merged[r]]

MergedRow(row, p, into) ==
  [row EXCEPT ![Copy(p, into)] = "managed", ![Original(p, into)] = row[into]]

\* Mutant of EnsureSelf: the self player isn't made again.
KeepRow(a, row) == relation' = [relation EXCEPT ![a] = row] /\ UNCHANGED made

\* ensure_self_player() after an account's rows became `row`: an account with
\* no self player gets a new one.
EnsureSelf(a, row) ==
  \/ /\ \E p \in Player : row[p] = "self"
     /\ relation' = [relation EXCEPT ![a] = row]
     /\ UNCHANGED made
  \/ /\ \A p \in Player : row[p] # "self"
     /\ \E p \in Player \ made :
          /\ made' = made \cup {p}
          /\ relation' = [relation EXCEPT ![a] = [row EXCEPT ![p] = "self"]]

\* Mutant of Close: the rows keep their adopted_from.
KeepOpen(a, S) == UNCHANGED asked

\* The questions about S are answered: adopted_from becomes NULL.
Close(a, S) == asked' = [asked EXCEPT ![a] = @ \ S]

-----------------------------------------------------------------------------
\* start_session() for a visitor with no valid session.
StartGuest(a, p) ==
  /\ kind[a] = "absent" /\ p \notin made
  /\ kind' = [kind EXCEPT ![a] = "guest"]
  /\ made' = made \cup {p}
  /\ relation' = [relation EXCEPT ![a][p] = "self"]
  /\ UNCHANGED <<merged, asked, details, creating, scored>>

\* start_session() for a valid session, which finds or makes a self player.
ResumeSession(a) ==
  /\ kind[a] \in {"guest", "verified"} /\ Free(a)
  /\ EnsureSelf(a, relation[a])
  /\ UNCHANGED <<kind, merged, asked, details, creating, scored>>

\* _sign_in(), CreateAccount: a verified account with no player yet.
CreateAccount(a) ==
  /\ kind[a] = "absent"
  /\ kind' = [kind EXCEPT ![a] = "verified"]
  /\ UNCHANGED <<made, merged, relation, asked, details, creating, scored>>

\* _sign_in(), VerifyInPlace: the guest keeps its rows, and those of players
\* that played ask "Is this you?".
VerifyInPlace(a) ==
  /\ kind[a] = "guest" /\ Free(a)
  /\ kind' = [kind EXCEPT ![a] = "verified"]
  /\ asked' = [asked EXCEPT ![a] = @ \cup {p \in Managed(a) : HasPlayed(p)}]
  /\ UNCHANGED <<made, merged, relation, details, creating, scored>>

\* hand_over_players() for the guest's row p and the account's own row. The
\* loop over the guest's rows runs once: see GuestsOwnOnePlayer.
HandOver(guest, into, p) ==
  LET own == SelfPlayers(into)
      Moved(row) == relation' = [relation EXCEPT ![into] = row,
                                   ![guest] = [@ EXCEPT ![p] = "none"]]
      Row(as) == [relation[into] EXCEPT ![p] = as]
      Ask == asked' = [asked EXCEPT ![into] = @ \cup {p}]
  IN \/ /\ HasPlayed(p)
        /\ Moved(Row("managed")) /\ Ask
        /\ UNCHANGED merged
     \/ /\ ~HasPlayed(p) /\ own \subseteq asked[into]
        /\ Moved([q \in Player |-> IF q \in own THEN "managed" ELSE Row("self")[q]])
        /\ UNCHANGED <<merged, asked>>
     \/ \E s \in own \ asked[into] :
          /\ ~HasPlayed(p)
          /\ IF PlayedEachOther(p, s)
               THEN Moved(Row("managed")) /\ Ask /\ UNCHANGED merged
               ELSE /\ Moved(MergedRow(Row("managed"), p, s))
                    /\ merged' = Repointed(p, s)
                    /\ Close(into, {p, s})

\* _sign_in(), AdoptGuest.
AdoptGuest(guest, into) ==
  /\ kind[guest] = "guest" /\ kind[into] = "verified"
  /\ Free(guest) /\ Free(into)
  /\ \E p \in Managed(guest) : HandOver(guest, into, p)
  /\ kind' = [kind EXCEPT ![guest] = "adopted"]
  /\ UNCHANGED <<made, details, creating, scored>>

-----------------------------------------------------------------------------
\* answer_question() gets past its refusals and finds the question open. Any
\* other call changes nothing.
Answerable(a, p) ==
  /\ kind[a] \in {"guest", "verified"} /\ Free(a)
  /\ relation[a][p] # "none" /\ merged[p] = None
  /\ p \in asked[a]

MergeInto(a, p, into) ==
  /\ ~PlayedEachOther(p, into)
  /\ merged' = Repointed(p, into)
  /\ Close(a, {p, into})
  /\ EnsureSelf(a, MergedRow(relation[a], p, into))

AnswerSameAs(a, p, target) ==
  /\ Answerable(a, p)
  /\ target # p /\ relation[a][target] = "managed"
  /\ merged[target] = None /\ target \notin asked[a]
  /\ MergeInto(a, p, target)
  /\ UNCHANGED <<kind, details, creating, scored>>

\* "Yes" merges with the confirmed self player, or takes the place of one
\* whose own question is open.
AnswerYes(a, p) ==
  LET own == SelfPlayers(a) \ {p}
  IN /\ Answerable(a, p)
     /\ \/ \E s \in own \ asked[a] : MergeInto(a, p, s)
        \/ /\ own \subseteq asked[a]
           /\ EnsureSelf(a, [q \in Player |-> CASE q = p -> "self"
                                               [] q \in own -> "managed"
                                               [] OTHER -> relation[a][q]])
           /\ Close(a, {p})
           /\ UNCHANGED merged
     /\ UNCHANGED <<kind, details, creating, scored>>

\* "No" and "Not mine" differ in the row they leave.
AnswerNo(a, p, leaves) ==
  /\ Answerable(a, p)
  /\ leaves \in {"managed", "none"}
  /\ EnsureSelf(a, [relation[a] EXCEPT ![p] = leaves])
  /\ Close(a, {p})
  /\ UNCHANGED <<kind, merged, details, creating, scored>>

-----------------------------------------------------------------------------
\* create_match() up to its reads of the players, which it doesn't lock. The
\* advisory lock keeps a second create of the id out until this one ends.
BeginCreate(a, m, d) ==
  /\ kind[a] = "verified"
  /\ details[m] = None /\ creating[m] = None
  /\ SidesIn(d) \subseteq made
  /\ \A p \in SidesIn(d) : Survivor(p) = p
  /\ d.players[1] # d.players[2]
  /\ creating' = [creating EXCEPT ![m] = [by |-> a, details |-> d]]
  /\ UNCHANGED <<kind, made, merged, relation, asked, details, scored>>

\* Its inserts, which wait for a merge of the players but don't see it.
FinishCreate(m) ==
  /\ creating[m] # None
  /\ details' = [details EXCEPT ![m] = creating[m].details]
  /\ creating' = [creating EXCEPT ![m] = None]
  /\ UNCHANGED <<kind, made, merged, relation, asked, scored>>

\* What a match's first result asks of its players. record_result() and
\* override_result() hold the side players while they check it.
FirstResult(m) ==
  /\ details[m] # None /\ m \notin scored
  /\ ~OnePlayer(m)
  /\ scored' = scored \cup {m}
  /\ UNCHANGED <<kind, made, merged, relation, asked, details, creating>>

-----------------------------------------------------------------------------
PlayersInit ==
  /\ kind = [a \in Account |-> "absent"]
  /\ made = {}
  /\ merged = [p \in Player |-> None]
  /\ relation = [a \in Account |-> [p \in Player |-> "none"]]
  /\ asked = [a \in Account |-> {}]
  /\ details = [m \in Match |-> None]
  /\ creating = [m \in Match |-> None]
  /\ scored = {}

\* The steps of one account and its players.
AccountStep ==
  \E a \in Account :
    \/ \E p \in Player : StartGuest(a, p)
    \/ ResumeSession(a)
    \/ CreateAccount(a)
    \/ VerifyInPlace(a)
    \/ \E p, target \in Player : AnswerSameAs(a, p, target)
    \/ \E p \in Player : AnswerYes(a, p)
    \/ \E p \in Player, leaves \in {"managed", "none"} : AnswerNo(a, p, leaves)

\* The steps that make matches.
CreateStep ==
  \E m \in Match :
    \/ \E a \in Account, d \in Details : BeginCreate(a, m, d)
    \/ FinishCreate(m)

PlayersNext ==
  \/ AccountStep
  \/ \E guest, into \in Account : AdoptGuest(guest, into)
  \/ CreateStep
  \/ \E m \in Match : FirstResult(m)

PlayersSpec == PlayersInit /\ [][PlayersNext]_playerVars

-----------------------------------------------------------------------------
\* Two players who played each other are two people: no match with a result
\* ever has both its sides merge into one player.
SidesApart == \A m \in scored : ~OnePlayer(m)

\* merged_into always names a player that isn't merged, and that was made
\* before every player merged into it, through any chain of merges.
OneStepToSurvivor ==
  \A p \in Player : merged[p] # None =>
    merged[p] \in made /\ merged[merged[p]] = None /\ merged[p] < p

\* A player has at most one manager, so the account locks are enough to make
\* merges of one player take turns, and a player that stands for a person (a
\* self player) is never one that a merge replaced.
OneManager ==
  /\ \A p \in Player, a, b \in Account :
       relation[a][p] # "none" /\ relation[b][p] # "none" => a = b
  /\ \A a \in Account :
       /\ \A p, q \in SelfPlayers(a) : p = q
       /\ \A p \in SelfPlayers(a) : merged[p] = None

\* Every open question can still be answered: it is about a player the account
\* manages and that no merge replaced.
QuestionsAnswerable ==
  \A a \in Account : \A p \in asked[a] : relation[a][p] # "none" /\ merged[p] = None

\* A guest owns exactly its self player, with no question, and an adopted
\* guest owns nothing.
GuestsOwnOnePlayer ==
  \A a \in Account :
    /\ kind[a] = "guest" =>
         asked[a] = {} /\ \E p \in Player : Managed(a) = {p} /\ SelfPlayers(a) = {p}
    /\ kind[a] \in {"absent", "adopted"} => asked[a] = {} /\ Managed(a) = {}

\* An account that has a self player keeps one, whatever it answers and
\* whomever it adopts, until it is adopted itself.
KeepsASelfPlayer ==
  [][\A a \in Account :
       SelfPlayers(a) # {} /\ kind'[a] # "adopted" => SelfPlayers(a)' # {}]_playerVars

\* A match that is made names two different players that no merge replaced, as
\* create_match() and docs/matches-api.md say. The code doesn't hold them, so a
\* merge can commit between its check and its inserts: see README.md.
NewMatchNamesSurvivors ==
  [][\A m \in Match : details[m] = None /\ details'[m] # None =>
       \A p \in SidesIn(details'[m]) : merged'[p] = None]_playerVars

\* Two players that became one stay one, as the retry of a result sent before
\* the merge relies on.
StaysOnePlayer ==
  [][\A p, q \in Player : Survivor(p) = Survivor(q) => (Survivor(p) = Survivor(q))']_playerVars

\* What the types can't say of who manages whom: one account for a player, and
\* questions that can be answered, also of a guest's one player.
PlayersInv ==
  /\ PlayersTypeOK /\ OneManager /\ QuestionsAnswerable /\ GuestsOwnOnePlayer
=============================================================================
