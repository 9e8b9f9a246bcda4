----------------------------- MODULE ScoreRules -----------------------------
(***************************************************************************)
(* The rules of a match's games, which the code holds twice: for the web   *)
(* client's pad in scoring/board.ts and scoring/planPress.ts, and for the  *)
(* API in services/match_results.py.  Sides are 1 and 2 for the code's 0   *)
(* and 1.                                                                  *)
(***************************************************************************)
EXTENDS Integers, Sequences, FiniteSets

CONSTANTS
  Blank,    \* an empty score input
  Garbled,  \* one that holds no number of at most two digits
  NoGame    \* an empty slot of a board

ASSUME NoGameAssumption == NoGame \notin Nat \X Nat

Other(side) == 3 - side

High(points) == IF points[1] >= points[2] THEN points[1] ELSE points[2]
Low(points) == IF points[1] >= points[2] THEN points[2] ELSE points[1]
-----------------------------------------------------------------------------
(* The web client. *)

\* Mutant of checkGame: 11 points are enough at deuce.
checkGameAtEleven(points) ==
  /\ points[1] # points[2]
  /\ High(points) >= 11
  /\ ~(High(points) > 11 /\ (Low(points) < 10 \/ High(points) - Low(points) # 2))

\* checkGame(), TRUE for a legal final score: each line is one of its refusals.
checkGame(points) ==
  /\ points[1] # points[2]
  /\ High(points) >= 11
  /\ ~(High(points) = 11 /\ Low(points) = 10)
  /\ ~(High(points) > 11 /\ Low(points) < 10)
  /\ ~(High(points) > 11 /\ High(points) - Low(points) # 2)

winnerOf(points) == IF points[1] > points[2] THEN 1 ELSE 2

parseGameScore(typed) ==
  CASE typed = <<Blank, Blank>> -> "empty"
    [] Garbled \in {typed[1], typed[2]} -> "malformed"
    [] Blank \in {typed[1], typed[2]} /\ Garbled \notin {typed[1], typed[2]}
         /\ typed # <<Blank, Blank>> -> "partial"
    [] OTHER -> IF checkGame(typed) THEN "legal" ELSE "illegal"

slotsOf(games, bestOf) ==
  [n \in 1..bestOf |-> IF n <= Len(games) THEN games[n] ELSE NoGame]

\* tally() of a board's first games.
WonBy(side, slots, upTo) ==
  Cardinality({n \in 1..upTo : slots[n] # NoGame /\ winnerOf(slots[n]) = side})

\* Mutant of Needed: one win too few.
NeededLess(bestOf) == (bestOf - 1) \div 2

Needed(bestOf) == (bestOf + 1) \div 2

\* The games after which some side has won enough.
Deciding(slots, bestOf) ==
  {n \in 1..bestOf : \E side \in {1, 2} : WonBy(side, slots, n) >= Needed(bestOf)}

\* The games of a board's slots, without the empty ones between them.
filled(slots) ==
  LET kept[n \in 0..Len(slots)] ==
        IF n = 0 THEN <<>>
        ELSE IF slots[n] = NoGame THEN kept[n - 1] ELSE Append(kept[n - 1], slots[n])
  IN kept[Len(slots)]

reviewBoard(slots, bestOf) ==
  LET deciding == Deciding(slots, bestOf)
      decider == CHOOSE n \in deciding : \A other \in deciding : n <= other
  IN CASE deciding = {} -> [kind |-> "undecided", games |-> <<>>]
       [] deciding # {} /\ \E n \in (decider + 1)..bestOf : slots[n] # NoGame ->
            [kind |-> "overrun", games |-> <<>>]
       [] OTHER ->
            [kind |-> "decided",
             games |-> filled(SubSeq(slots, 1, decider))]

\* What the pad's button does: next is 0 to stay on the game.
planPress(games, plays, game, typed, bestOf) ==
  LET legal == parseGameScore(typed) = "legal"
      slots == [n \in 1..bestOf |-> IF legal /\ n = game THEN typed ELSE slotsOf(games, bestOf)[n]]
      review == reviewBoard(slots, bestOf)
      later == {n \in (game + 1)..bestOf : slots[n] = NoGame}
  IN IF plays /\ review.kind = "decided" /\ (legal \/ parseGameScore(typed) = "empty")
       THEN [does |-> "submit", games |-> review.games]
     ELSE IF ~legal THEN [does |-> "disabled"]
     ELSE [does |-> "save",
           next |-> IF review.kind = "undecided" /\ later # {}
                      THEN CHOOSE n \in later : \A other \in later : n <= other ELSE 0]
-----------------------------------------------------------------------------
(* The API. *)

\* _final_winner() finds a winner.
final(points) ==
  \/ High(points) = 11 /\ Low(points) <= 9
  \/ High(points) > 11 /\ High(points) - Low(points) = 2

\* _unfinished()
unfinished(points) ==
  \/ High(points) < 11
  \/ Low(points) >= 10 /\ High(points) - Low(points) < 2

\* check_ending() of a completed match.
check_ending(games, bestOf) ==
  LET won(side, upTo) == Cardinality({n \in 1..upTo : winnerOf(games[n]) = side}) IN
  /\ \A n \in 1..Len(games) : games[n] # NoGame /\ final(games[n])
  /\ \A n \in 1..Len(games) - 1, side \in {1, 2} : won(side, n) < Needed(bestOf)
  /\ \E side \in {1, 2} : won(side, Len(games)) >= Needed(bestOf)
=============================================================================
