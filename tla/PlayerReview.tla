---------------------------- MODULE PlayerReview ----------------------------
(***************************************************************************)
(* The web client's page "Is this you?" (PlayerReview.tsx) in one tab,     *)
(* over the players query (queries.ts) and Players' answers.  The tab      *)
(* shows its copy of the account's players, which its answers and fetches  *)
(* replace.  A request is a step of the API and later its arrival, and     *)
(* either may be lost.  Another tab may answer meanwhile.                  *)
(***************************************************************************)
EXTENDS Players

CONSTANTS
  me,           \* the account
  Listable,     \* the players that the account starts with
  NoList,       \* a players query without data
  MaxOthers,    \* bounds the answers of other tabs
  ReviewScenes  \* what else happens in one behaviour: a set of sets of
                \* "anotherTab", "lost", "focus", "focusWhileSaving"

\* The account's players as the API lists them, and who of them played whom.
PlayerList ==
  [rows : [Player -> {"none", "self", "managed"}],
   open : SUBSET Player,
   played : SUBSET (Player \X Player)]

ASSUME ReviewAssumption ==
  /\ me \in Account /\ Listable \subseteq Player /\ Listable # {} /\ IsFiniteSet(Listable)
  /\ NoList \notin PlayerList /\ MaxOthers \in Nat

VARIABLES
  reviewScene,
  list,    \* the tab's players query
  load,    \* its GET /v1/account/players: step, and the list it read
  self,    \* the player of its session's account
  shown,   \* the players it has queued
  last,    \* the account's own player, which it asks about last
  at,      \* the step of one player's question
  save,    \* its answer: step, player, reply, and what the API said
  others,  \* how many answers another tab has sent
  notice   \* what the page says of the last answer

reviewVars == <<reviewScene, list, load, self, shown, last, at, save, others, notice>>
shownVars == <<list, self, shown, last>>

Plain(answer) == [answer |-> answer, target |-> None]
SameAs(p) == [answer |-> "same_as", target |-> p]
NoSave == [step |-> "none", player |-> None, reply |-> Plain("none"), outcome |-> "none", list |-> NoList]
NoLoad == [step |-> "none", list |-> NoList]

\* What GET /v1/account/players and an answer list (_players()).
Listed ==
  LET rows == [p \in Player |-> IF merged[p] = None THEN relation[me][p] ELSE "none"] IN
  [rows |-> rows,
   open |-> {p \in asked[me] : rows[p] # "none"},
   played |-> {pair \in Player \X Player :
                 /\ rows[pair[1]] # "none" /\ rows[pair[2]] # "none"
                 /\ pair[2] \in Opponents(pair[1])}]

SelfIn(l) == {p \in Player : l.rows[p] = "self"}

\* The account has players with questions, as sign-ins leave them, and at most
\* one match between two players.
ReviewInit ==
  /\ reviewScene \in ReviewScenes
  /\ kind = [a \in Account |-> IF a = me THEN "verified" ELSE "absent"]
  /\ merged = [p \in Player |-> None] /\ creating = [m \in Match |-> None]
  /\ made = Listable
  /\ \E own \in made :
       relation = [a \in Account |-> [p \in Player |->
         IF a # me \/ p \notin made THEN "none" ELSE IF p = own THEN "self" ELSE "managed"]]
  /\ \E Q \in SUBSET made : asked = [a \in Account |-> IF a = me THEN Q ELSE {}]
  /\ scored \in SUBSET Match
  /\ \E pair \in made \X made, terms \in Terms :
       /\ scored = {} \/ pair[1] < pair[2]
       /\ details = [m \in Match |-> IF m \in scored THEN [players |-> pair, terms |-> terms] ELSE None]
  /\ list = NoList /\ load = NoLoad
  /\ self \in SelfIn(Listed)
  /\ shown = {} /\ last = None
  /\ at = [player |-> None, step |-> "recognize"]
  /\ save = NoSave /\ notice = "none" /\ others = 0
-----------------------------------------------------------------------------
(* What a tab shows. *)

Asks == list # NoList /\ list.open # {}
Leaves == list # NoList /\ list.open = {}

\* The queue's order: the own player last, then as the API lists them.
Before(p, q) ==
  LET l == list IN
  IF (p = last) # (q = last) THEN q = last
  ELSE IF (l.rows[p] = "self") # (l.rows[q] = "self") THEN l.rows[p] = "self" ELSE p < q
currentPlayer == CHOOSE p \in list.open : \A q \in list.open \ {p} : Before(p, q)

step == IF at.player = currentPlayer THEN at.step ELSE "recognize"

\* The account's own player, if a "Yes" merges with it.
confirmed == SelfIn(list) \ ({currentPlayer} \cup list.open)
playedOwn == \E own \in confirmed : <<currentPlayer, own>> \in list.played

\* The players that "I manage this player" can merge the player into.
targets ==
  {p \in Player \ ({currentPlayer} \cup list.open) :
     list.rows[p] = "managed" /\ <<currentPlayer, p>> \notin list.played}

\* The answers that the step's buttons send.
Offers ==
  CASE step = "recognize" -> IF playedOwn THEN {} ELSE {Plain("yes")}
    [] step = "relationship" ->
         {Plain("not_mine")} \cup IF targets = {} THEN {Plain("no")} ELSE {}
    [] OTHER -> {SameAs(p) : p \in targets} \cup {Plain("no")}

\* "Player n of total".
Counter == Cardinality(shown) - Cardinality(list.open) + 1
-----------------------------------------------------------------------------
(* The players query. *)

\* The session's account takes the list's self player.
takeSelfPlayer(l) ==
  self' = IF SelfIn(l) = {} THEN self ELSE CHOOSE p \in SelfIn(l) : TRUE

\* The query takes a list, and the page renders it.
Takes(l) ==
  /\ takeSelfPlayer(l)
  /\ list' = l
  /\ shown' = shown \cup l.open
  /\ last' = IF last = None /\ l.open \cap SelfIn(l) # {}
             THEN CHOOSE p \in SelfIn(l) : TRUE ELSE last

\* The page mounts, or the browser's focus comes back to it.
Fetch ==
  /\ load.step = "none" /\ ~Leaves
  /\ \/ list = NoList
     \/ "focus" \in reviewScene /\ save.step = "none"
     \/ "focusWhileSaving" \in reviewScene
  /\ load' = [load EXCEPT !.step = "sent"]
  /\ UNCHANGED <<playerVars, reviewScene, shownVars, at, save, others, notice>>

ServeList ==
  /\ load.step = "sent"
  /\ load' = [step |-> "read", list |-> Listed]
  /\ UNCHANGED <<playerVars, reviewScene, shownVars, at, save, others, notice>>

ListArrives ==
  /\ load.step = "read" /\ save.step # "checking"
  /\ Takes(load.list)
  /\ load' = NoLoad
  /\ UNCHANGED <<playerVars, reviewScene, at, save, others, notice>>

\* The query keeps the list it had.
ListLost ==
  /\ "lost" \in reviewScene /\ load.step # "none" /\ save.step # "checking"
  /\ load' = NoLoad
  /\ UNCHANGED <<playerVars, reviewScene, shownVars, at, save, others, notice>>
-----------------------------------------------------------------------------
(* The question. *)

\* The buttons between the steps wait for an answer that saves, but not for
\* the refetch after a refusal.
go(next) ==
  /\ Asks /\ save.step \in {"none", "checking"}
  /\ \/ step = "recognize" /\ next = "relationship"
     \/ step = "relationship" /\ next = "recognize"
     \/ step = "relationship" /\ next = "choose" /\ targets # {}
     \/ step = "choose" /\ next = "relationship"
  /\ at' = [player |-> currentPlayer, step |-> next]
  /\ UNCHANGED <<playerVars, reviewScene, shownVars, load, save, others, notice>>

\* `sending`: one answer at a time, until the refetch after it.
Sends == save.step = "none"

\* Mutant of cancelQueries: the answer leaves a fetch on its way.
cancelNothing == UNCHANGED load

\* onMutate: a list read before the answer doesn't arrive after it.
cancelQueries == load' = NoLoad

PressAnswer(reply) ==
  /\ Asks /\ reply \in Offers /\ Sends
  /\ cancelQueries
  /\ save' = [NoSave EXCEPT !.step = "sent", !.player = currentPlayer, !.reply = reply]
  /\ notice' = "none"
  /\ UNCHANGED <<playerVars, reviewScene, shownVars, others, at>>

\* What answer_question() says of a reply that it refuses or has no use for,
\* in its order, or "answered".
Says(p, reply) ==
  LET rows == Listed.rows IN
  IF rows[p] = "none" THEN "notFound"
  ELSE IF reply.answer = "same_as" /\ (rows[reply.target] # "managed" \/ reply.target \in asked[me])
       THEN "notFound"
  ELSE IF p \notin asked[me] THEN IF reply.answer = "not_mine" THEN "closed" ELSE "already"
  ELSE IF \/ reply.answer = "same_as" /\ PlayedEachOther(p, reply.target)
          \/ /\ reply.answer = "yes"
             /\ \E own \in SelfPlayers(me) \ ({p} \cup asked[me]) : PlayedEachOther(p, own)
       THEN "played" ELSE "answered"

AnswerQuestion(p, reply) ==
  CASE reply.answer = "yes" -> AnswerYes(me, p)
    [] reply.answer = "no" -> AnswerNo(me, p, "managed")
    [] reply.answer = "not_mine" -> AnswerNo(me, p, "none")
    [] OTHER -> AnswerSameAs(me, p, reply.target)

ServeAnswer ==
  LET p == save.player
      reply == save.reply
  IN /\ save.step = "sent"
     /\ IF Says(p, reply) = "answered" THEN AnswerQuestion(p, reply) ELSE UNCHANGED playerVars
     /\ save' = [save EXCEPT !.step = "served", !.outcome = Says(p, reply), !.list = Listed']
     /\ UNCHANGED <<reviewScene, shownVars, load, at, others, notice>>

\* The answer saved: the query takes its list, and finish() says what it did.
AnswerArrives ==
  /\ save.step = "served" /\ save.outcome \in {"answered", "already"}
  /\ Takes(save.list)
  /\ notice' = save.outcome
  /\ save' = NoSave
  /\ UNCHANGED <<playerVars, reviewScene, load, others, at>>

\* refusedMerge() and answeredElsewhere() refetch the players, in place of a
\* fetch on its way, before they look at them.
AnswerRefused ==
  /\ save.step = "served" /\ save.outcome \in {"notFound", "closed", "played"}
  /\ save' = [save EXCEPT !.step = "checking"]
  /\ load' = [step |-> "sent", list |-> NoList]
  /\ UNCHANGED <<playerVars, reviewScene, shownVars, at, others, notice>>

\* What the page then says, of the players it now has.
Verdict(now) ==
  LET p == save.player
      reply == save.reply
  IN IF \/ save.outcome = "played"
        \/ save.outcome = "closed" /\ reply.answer # "not_mine" THEN "refused"
     ELSE IF save.outcome = "notFound" /\ p \in now.open
          THEN IF reply.answer = "same_as" /\ now.rows[reply.target] = "none" THEN "gone" ELSE "failed"
     ELSE "already"

Checked ==
  /\ save.step = "checking" /\ load.step = "read"
  /\ Takes(load.list)
  /\ notice' = Verdict(load.list)
  /\ load' = NoLoad /\ save' = NoSave
  /\ UNCHANGED <<playerVars, reviewScene, others, at>>

\* refetchQueries() doesn't throw, and getQueryData() has the old list.
CheckLost ==
  /\ "lost" \in reviewScene /\ save.step = "checking"
  /\ notice' = Verdict(list)
  /\ load' = NoLoad /\ save' = NoSave
  /\ UNCHANGED <<playerVars, reviewScene, shownVars, others, at>>

\* No response came, before or after the API's step.
AnswerLost ==
  /\ "lost" \in reviewScene /\ save.step \in {"sent", "served"}
  /\ notice' = "failed" /\ save' = NoSave
  /\ UNCHANGED <<playerVars, reviewScene, shownVars, load, others, at>>
-----------------------------------------------------------------------------
\* The person answers in another tab, or the one session of the account does
\* on another device.
AnotherTab(p, reply) ==
  /\ "anotherTab" \in reviewScene /\ ~Leaves
  /\ others < MaxOthers /\ others' = others + 1
  /\ Says(p, reply) = "answered" /\ AnswerQuestion(p, reply)
  /\ UNCHANGED <<reviewScene, shownVars, load, at, save, notice>>

Replies == {Plain(answer) : answer \in {"yes", "no", "not_mine"}} \cup {SameAs(p) : p \in Player}

ReviewNext ==
  \/ Fetch \/ ServeList \/ ListArrives \/ ListLost
  \/ \E next \in {"recognize", "relationship", "choose"} : go(next)
  \/ \E reply \in Replies : PressAnswer(reply)
  \/ ServeAnswer \/ AnswerArrives \/ AnswerRefused \/ Checked \/ CheckLost \/ AnswerLost
  \/ \E p \in Player, reply \in Replies : AnotherTab(p, reply)

ReviewSpec == ReviewInit /\ [][ReviewNext]_<<playerVars, reviewVars>>
-----------------------------------------------------------------------------
ReviewTypeOK ==
  /\ PlayersTypeOK /\ reviewScene \in ReviewScenes /\ others \in 0 .. MaxOthers
  /\ list = NoList \/ (list.open \subseteq {p \in Player : list.rows[p] # "none"} /\ SelfIn(list) # {})
  /\ load.step \in {"none", "sent", "read"} /\ self \in Player
  /\ shown \subseteq Player /\ last \in Player \cup {None}
  /\ at.step \in {"recognize", "relationship", "choose"}
  /\ save.step \in {"none", "sent", "served", "checking"}
  /\ notice \in {"none", "answered", "already", "refused", "gone", "failed"}

(* The page and answer_question() hold the same rules in two languages: a  *)
(* tab whose list is what the API has offers no answer that the API        *)
(* refuses, and says that a "Yes" merges exactly when it does.             *)
OffersAreTaken ==
  list = Listed /\ Asks =>
    /\ \A reply \in Offers : Says(currentPlayer, reply) = "answered"
    /\ confirmed = SelfPlayers(me) \ ({currentPlayer} \cup asked[me])

(* A page that is alone and loses no answer never says that another tab    *)
(* answered first, whatever the person presses in whatever order.          *)
NoFalseAlarm ==
  reviewScene \cap {"anotherTab", "lost"} = {} => notice \in {"none", "answered"}

(* The topbar and New match use the account's own player as the page last  *)
(* listed it, though only the first of them asks for the session.          *)
SelfIsTheLists == list # NoList => self \in SelfIn(list)

(* A question that the page saw answered never comes back, and "Player n   *)
(* of total" never counts down.                                            *)
AnsweredStaysAnswered ==
  [][list # NoList => list'.open \subseteq list.open /\ Counter' >= Counter]_reviewVars

\* The review's questions, offers and notices agree with the API, and its
\* progress only goes on.
ReviewSafe ==
  /\ [](ReviewTypeOK /\ OffersAreTaken /\ NoFalseAlarm /\ SelfIsTheLists)
  /\ AnsweredStaysAnswered
=============================================================================
