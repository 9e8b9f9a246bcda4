------------------------------ MODULE MCScores -----------------------------
(***************************************************************************)
(* A match as it is played, and the pages that score it, one of the two at *)
(* a time.                                                                 *)
(***************************************************************************)
EXTENDS PlayedMatch, ScorePages

VARIABLE part

Scene(bestOf, who, opens, checks, typed, signs, entries, may) ==
  [bestOf |-> bestOf, rated |-> "unrated" \notin may, who |-> who, opens |-> opens,
   checks |-> checks, typed |-> typed,
   results |-> signs, past |-> entries, may |-> may \ {"unrated"}]

Win == <<11, 9>>
Loss == <<10, 12>>
Entries == {Win, Loss, <<11, 10>>, <<Blank, Blank>>, <<Garbled, Blank>>, <<Blank, 5>>}

\* One pad; a link edited and approved; a check that reloads; one that nobody
\* takes for a day; two without signal; a pad that works on while it signs.
Scenes == {
  Scene(3, {1}, {1}, {}, Entries, 1, 3, {"strip", "failure"}),
  Scene(1, {1, 2}, {1}, {1}, {Win}, 2, 1, {}),
  Scene(1, {1, 2}, {1}, {1, 2}, {Win}, 1, 1, {"reload"}),
  Scene(1, {1, 2}, {1}, {1, 2}, {Win}, 1, 0, {"unrated", "day"}),
  Scene(1, {1, 3}, {1, 3}, {}, {Win, Loss}, 2, 1, {"unrated", "offline"}),
  Scene(1, {1}, {1}, {}, Entries, 2, 2, {"workOn", "reload", "failure"})}

CarriedGames == {<<11, 9>>, <<10, 12>>, <<0, 11>>}

ScoresInit ==
  /\ part \in {"play", "score"}
  /\ PlayInit /\ PagesInit
  /\ part # "play" => best = 1
  /\ part # "score" => padScene = CHOOSE s \in Scenes : TRUE

ScoresNext ==
  /\ UNCHANGED part
  /\ \/ part = "play" /\ PlayNext /\ UNCHANGED pageVars
     \/ part = "score" /\ PagesNext /\ UNCHANGED playVars

ScoresSpec == ScoresInit /\ [][ScoresNext]_<<part, playVars, pageVars>>
=============================================================================
