----------------------------- MODULE PlayedMatch -----------------------------
(***************************************************************************)
(* A match as the players play it, point by point, by the laws of table    *)
(* tennis: the reference for ScoreRules.  A game goes to the first side    *)
(* with 11 points or more that leads by 2, and a match to the first side   *)
(* with more than half of its games.                                       *)
(***************************************************************************)
EXTENDS ScoreRules

CONSTANTS
  BestOfs,    \* the lengths of the matches played
  MaxPoints,  \* bounds one side's points in a game
  Carried     \* bounds the games that another game follows

ASSUME PlayAssumption == BestOfs \subseteq {1, 3, 5, 7} /\ MaxPoints \in Nat

VARIABLES
  best,    \* the match's best of
  played,  \* its games that are over, but for the last
  rally    \* the points of the game on the table

playVars == <<best, played, rally>>

Over(points) == High(points) >= 11 /\ High(points) - Low(points) >= 2

Wins(games, side) == Cardinality({n \in 1..Len(games) : winnerOf(games[n]) = side})
Decided(games) == \E side \in {1, 2} : 2 * Wins(games, side) > best

PlayInit == best \in BestOfs /\ played = <<>> /\ rally = <<0, 0>>

Point(side) ==
  /\ ~Over(rally)
  /\ rally[side] < MaxPoints
  /\ rally' = [rally EXCEPT ![side] = @ + 1]
  /\ UNCHANGED <<best, played>>

NextGame ==
  /\ Over(rally) /\ rally \in Carried
  /\ ~Decided(Append(played, rally))
  /\ played' = Append(played, rally) /\ rally' = <<0, 0>>
  /\ UNCHANGED best

PlayNext == NextGame \/ \E side \in {1, 2} : Point(side)

PlaySpec == PlayInit /\ [][PlayNext]_playVars
-----------------------------------------------------------------------------
\* Every score that play reaches is either final or can go on, and the web
\* client and the API both tell which: checkGame(), _final_winner() and
\* _unfinished().
ScoresReadAlike ==
  /\ checkGame(rally) <=> Over(rally)
  /\ final(rally) <=> Over(rally)
  /\ unfinished(rally) <=> ~Over(rally)

\* The pad calls a match decided exactly when its last game decides it, and
\* check_ending() takes exactly those games as a completed match.
EndsAlike ==
  LET games == IF Over(rally) THEN Append(played, rally) ELSE played
      review == reviewBoard(slotsOf(games, best), best)
  IN /\ review.kind = (IF Decided(games) THEN "decided" ELSE "undecided")
     /\ Decided(games) => review.games = games
     /\ check_ending(games, best) <=> Decided(games)
=============================================================================
