------------------------------- MODULE ScoringProofs -------------------------------
(***************************************************************************)
(* The rules of a game's final score, held in two languages, agree on      *)
(* every score, and agree with play on every score that play reaches and   *)
(* on when a match of any length is decided.  What the scoring pages       *)
(* promise of any players, spectators and scenes: a pad submits endings    *)
(* only, keeps them and corrects what it signed; a link is signed once by  *)
(* a side, comes with what it replaces, and is waited for while it waits.  *)
(* And the row locks of a result being recorded do what they are for, for  *)
(* any players and any number of requests and accounts: a match with a     *)
(* result keeps two sides, and the sides that a request checked stay until *)
(* it commits.                                                             *)
(***************************************************************************)
EXTENDS PlayedMatch, ScorePages, MergeLocks, FiniteSetTheorems, SequenceTheorems,
        WellFoundedInduction, TLAPS

\* The web client's checkGame() and the API's _final_winner() take the same
\* final scores, whatever the points.
THEOREM FinalScoresAgree ==
  ASSUME NEW a \in Nat, NEW b \in Nat
  PROVE  checkGame(<<a, b>>) <=> final(<<a, b>>)
BY DEF checkGame, final, High, Low

\* A final score is one at which play ends: the game is over, and wasn't one
\* point of the winner earlier.
THEOREM FinalScoresArePlayed ==
  ASSUME NEW a \in Nat, NEW b \in Nat
  PROVE  /\ a > b => (final(<<a, b>>) <=> (Over(<<a, b>>) /\ ~Over(<<a - 1, b>>)))
         /\ b > a => (final(<<a, b>>) <=> (Over(<<a, b>>) /\ ~Over(<<a, b - 1>>)))
         /\ a = b => ~final(<<a, b>>)
BY DEF Over, final, High, Low

\* What play reaches: a game ends at once, so a lead of more than 2 is one at 11.
EndsAtOnce ==
  /\ rally \in Nat \X Nat
  /\ High(rally) > 11 => High(rally) - Low(rally) <= 2

LEMMA EndsAtOnceInit == PlayInit => EndsAtOnce
BY DEF PlayInit, EndsAtOnce, High, Low

LEMMA EndsAtOnceNext == EndsAtOnce /\ [PlayNext]_playVars => EndsAtOnce'
<1> SUFFICES ASSUME EndsAtOnce, [PlayNext]_playVars PROVE EndsAtOnce'
  OBVIOUS
<1> PICK a \in Nat, b \in Nat : rally = <<a, b>>
  BY DEF EndsAtOnce
<1>1. CASE Point(1)
  <2>1. rally' = <<a + 1, b>>
    BY <1>1 DEF Point
  <2>2. ~Over(<<a, b>>)
    BY <1>1 DEF Point
  <2> QED
    BY <2>1, <2>2 DEF EndsAtOnce, Over, High, Low
<1>2. CASE Point(2)
  <2>1. rally' = <<a, b + 1>>
    BY <1>2 DEF Point
  <2>2. ~Over(<<a, b>>)
    BY <1>2 DEF Point
  <2> QED
    BY <2>1, <2>2 DEF EndsAtOnce, Over, High, Low
<1>3. CASE NextGame
  <2>1. rally' = <<0, 0>>
    BY <1>3 DEF NextGame
  <2> QED
    BY <2>1 DEF EndsAtOnce, High, Low
<1>4. CASE UNCHANGED playVars
  BY <1>4 DEF EndsAtOnce, playVars, High, Low
<1> QED
  BY <1>1, <1>2, <1>3, <1>4 DEF PlayNext

\* In every match, of any length, the pad and the API tell at each point
\* whether the game is over, as the players do.
THEOREM PlayReadsAlike == PlaySpec => []ScoresReadAlike
<1>1. EndsAtOnce => ScoresReadAlike
  <2> SUFFICES ASSUME EndsAtOnce PROVE ScoresReadAlike
    OBVIOUS
  <2> PICK a \in Nat, b \in Nat : rally = <<a, b>>
    BY DEF EndsAtOnce
  <2> QED
    BY DEF EndsAtOnce, ScoresReadAlike, checkGame, final, unfinished, Over, High, Low
<1> QED
  BY EndsAtOnceInit, EndsAtOnceNext, <1>1, PTL DEF PlaySpec
-----------------------------------------------------------------------------
(* The end of a match. *)
Points == Nat \X Nat

\* The games of games[1 .. n] that a side won, and how many.
WonIn(games, side, n) == {i \in 1..n : winnerOf(games[i]) = side}
Won(games, side, n) == Cardinality(WonIn(games, side, n))

\* A set of numbers has a least one.
LEMMA LeastNat ==
  ASSUME NEW T, T \subseteq Nat, T # {}
  PROVE  \E x \in T : \A y \in T : x <= y
<1> DEFINE R == {ss \in Nat \X Nat : ss[1] < ss[2]}
<1>1. R = OpToRel(<, Nat)
  BY DEF OpToRel
<1>2. IsWellFoundedOn(R, Nat)
  BY <1>1, NatLessThanWellFounded
<1>3. PICK x \in T : \A y \in T : <<y, x>> \notin R
  <2> HIDE DEF R
  <2> QED BY <1>2, WFMin
<1>4. \A y \in T : ~(y < x)
  BY <1>3
<1> QED BY <1>4

\* A side's wins are a number, which more games only raise.
LEMMA WonGrows ==
  ASSUME NEW games, NEW side, NEW n \in Nat, NEW m \in 0..n
  PROVE  /\ Won(games, side, n) \in Nat
         /\ Won(games, side, m) \in Nat
         /\ Won(games, side, m) <= Won(games, side, n)
<1>1. IsFiniteSet(1..n)
  BY FS_Interval
<1>2. WonIn(games, side, n) \in SUBSET (1..n) /\ WonIn(games, side, m) \in SUBSET WonIn(games, side, n)
  BY DEF WonIn
<1>3. IsFiniteSet(WonIn(games, side, n))
  BY <1>1, <1>2, FS_Subset
<1>4. IsFiniteSet(WonIn(games, side, m))
  BY <1>2, <1>3, FS_Subset
<1> QED BY <1>2, <1>3, <1>4, FS_Subset, FS_CardinalityType DEF Won

\* Each game has one winner, so the two sides' wins are all the games.
LEMMA WonByEither ==
  ASSUME NEW games, NEW n \in Nat
  PROVE  Won(games, 1, n) + Won(games, 2, n) = n
<1> DEFINE A == WonIn(games, 1, n)
           B == WonIn(games, 2, n)
<1>1. IsFiniteSet(1..n) /\ Cardinality(1..n) = n
  BY FS_Interval
<1>2. A \in SUBSET (1..n) /\ B \in SUBSET (1..n)
  BY DEF WonIn
<1>3. IsFiniteSet(A) /\ IsFiniteSet(B)
  BY <1>1, <1>2, FS_Subset
<1>4. A \cup B = 1..n /\ A \cap B = {}
  BY DEF WonIn, winnerOf
<1>5. Cardinality(A \cup B) = Cardinality(A) + Cardinality(B) - Cardinality(A \cap B)
  BY <1>3, FS_Union
<1>6. Cardinality(A \cup B) = n
  BY <1>1, <1>4, Zenon
<1>7. Cardinality(A \cap B) = 0
  BY <1>4, FS_EmptySet, Zenon
<1>8. Cardinality(A) \in Nat /\ Cardinality(B) \in Nat
  BY <1>3, FS_CardinalityType
<1> HIDE DEF A, B
<1>9. Cardinality(A) + Cardinality(B) = n
  BY <1>5, <1>6, <1>7, <1>8
<1> QED BY <1>9 DEF Won, A, B

\* Games that agree have the same wins.
LEMMA WonAlike ==
  ASSUME NEW games, NEW others, NEW side, NEW n \in Nat,
         \A i \in 1..n : games[i] = others[i]
  PROVE  Won(games, side, n) = Won(others, side, n)
<1>1. WonIn(games, side, n) = WonIn(others, side, n)
  BY DEF WonIn
<1> QED BY <1>1, Zenon DEF Won

\* A board that has no empty slots keeps all its games.
LEMMA FilledWhole ==
  ASSUME NEW S, NEW slots \in Seq(S), NoGame \notin S
  PROVE  filled(slots) = slots
<1> DEFINE len == Len(slots)
           Kept(g) == [n \in 0..len |->
                         IF n = 0 THEN <<>>
                         ELSE IF slots[n] = NoGame THEN g[n - 1] ELSE Append(g[n - 1], slots[n])]
           kept == CHOOSE g : g = Kept(g)
           first == [n \in 0..len |-> SubSeq(slots, 1, n)]
<1>1. len \in Nat /\ \A n \in 1..len : slots[n] \in S /\ slots[n] # NoGame
  OBVIOUS
<1>2. filled(slots) = kept[len]
  BY Zenon DEF filled
<1>3. first = Kept(first)
  <2>1. ASSUME NEW n \in 0..len
        PROVE  first[n] = IF n = 0 THEN <<>>
                          ELSE IF slots[n] = NoGame THEN first[n - 1]
                          ELSE Append(first[n - 1], slots[n])
    <3>1. CASE n = 0
      BY <3>1, <1>1
    <3>2. CASE n # 0
      <4>1. n \in 1..len /\ n - 1 \in 0..len
        BY <3>2
      <4>2. SubSeq(slots, 1, n) = Append(SubSeq(slots, 1, n - 1), slots[n])
        BY <4>1, <1>1
      <4> QED BY <4>1, <4>2, <1>1, <3>2
    <3> QED BY <3>1, <3>2
  <2> QED BY <2>1
<1>4. kept = Kept(kept)
  <2> HIDE DEF Kept, first
  <2> QED BY <1>3
<1>5. ASSUME NEW n \in 0..len
      PROVE  kept[n] = IF n = 0 THEN <<>>
                       ELSE IF slots[n] = NoGame THEN kept[n - 1]
                       ELSE Append(kept[n - 1], slots[n])
  <2> HIDE DEF kept
  <2> QED BY <1>4, Zenon
<1> HIDE DEF kept
<1>6. \A n \in 0..len : kept[n] = first[n]
  <2> DEFINE T == {n \in 0..len : kept[n] # first[n]}
  <2>1. SUFFICES ASSUME T # {} PROVE FALSE
    OBVIOUS
  <2>2. PICK x \in T : \A y \in T : x <= y
    <3>1. T \subseteq Nat
      OBVIOUS
    <3> HIDE DEF T
    <3> QED BY <2>1, <3>1, LeastNat
  <2>3. x \in 0..len /\ x \in Nat /\ kept[x] # first[x]
    BY <2>2, <1>1
  <2>4. x # 0
    <3>1. 0 \in 0..len
      BY <1>1
    <3>2. kept[0] = <<>>
      BY <3>1, <1>5
    <3>3. first[0] = <<>>
      BY <3>1, <1>1
    <3> QED BY <2>3, <3>2, <3>3
  <2>5. x - 1 \in 0..len /\ x \in 1..len /\ ~(x <= x - 1)
    BY <2>3, <2>4, <1>1
  <2>6. kept[x - 1] = first[x - 1]
    BY <2>2, <2>5
  <2>7. kept[x] = Append(kept[x - 1], slots[x])
    BY <2>3, <2>4, <2>5, <1>5, <1>1
  <2>8. first[x] = Append(first[x - 1], slots[x])
    BY <2>5, <1>1
  <2> QED BY <2>3, <2>6, <2>7, <2>8
<1>7. first[len] = slots
  BY <1>1
<1> QED BY <1>2, <1>6, <1>7, <1>1

\* The inductive invariant of a match: its games are played out and leave it
\* undecided.
MatchInv ==
  /\ EndsAtOnce
  /\ best \in {1, 3, 5, 7}
  /\ played \in Seq(Points)
  /\ \A n \in 1..Len(played) : final(played[n])
  /\ ~Decided(played)

\* A side decides a match when it has won as many games as the pad and the API
\* need, for a best of an odd number.
LEMMA DecidedByWins ==
  ASSUME best \in {1, 3, 5, 7}, NEW games \in Seq(Points)
  PROVE  /\ Needed(best) \in Nat /\ 2 * Needed(best) = best + 1
         /\ Decided(games) <=> \E side \in {1, 2} : Won(games, side, Len(games)) >= Needed(best)
<1>1. Needed(best) \in Nat /\ 2 * Needed(best) = best + 1
  BY DEF Needed
<1>2. \A side \in {1, 2} : Won(games, side, Len(games)) \in Nat
  BY WonGrows
<1>3. \A side \in {1, 2} : Wins(games, side) = Won(games, side, Len(games))
  BY Zenon DEF Wins, Won, WonIn
<1>4. ASSUME NEW side \in {1, 2}
      PROVE  2 * Wins(games, side) > best <=> Won(games, side, Len(games)) >= Needed(best)
  BY <1>1, <1>2, <1>3
<1> QED BY <1>1, <1>4 DEF Decided

\* It holds at first.
LEMMA MatchInvInit == PlayInit => MatchInv
<1> SUFFICES ASSUME PlayInit PROVE MatchInv
  OBVIOUS
<1>1. best \in {1, 3, 5, 7} /\ played = <<>> /\ played \in Seq(Points) /\ Len(played) = 0
  BY PlayAssumption DEF PlayInit
<1>2. \A side \in {1, 2} : Wins(played, side) = 0
  <2>1. \A side \in {1, 2} : {n \in 1..Len(played) : winnerOf(played[n]) = side} = {}
    BY <1>1
  <2> QED BY <2>1, FS_EmptySet, Zenon DEF Wins
<1>3. ~Decided(played)
  BY <1>1, <1>2 DEF Decided
<1> QED BY <1>1, <1>3, EndsAtOnceInit DEF MatchInv

\* A game that is over is a final score.
LEMMA OverIsFinal ==
  ASSUME EndsAtOnce, Over(rally)
  PROVE  final(rally) /\ rally \in Points
<1> PICK a \in Nat, b \in Nat : rally = <<a, b>>
  BY DEF EndsAtOnce
<1> QED BY DEF EndsAtOnce, Over, final, High, Low, Points

\* A step keeps it: a game follows only if it left the match undecided.
LEMMA MatchInvNext == MatchInv /\ [PlayNext]_playVars => MatchInv'
<1> SUFFICES ASSUME MatchInv, [PlayNext]_playVars PROVE MatchInv'
  OBVIOUS
<1>1. EndsAtOnce'
  BY EndsAtOnceNext DEF MatchInv
<1>2. CASE NextGame
  <2>1. /\ rally \in Points /\ final(rally) /\ played' = Append(played, rally) /\ best' = best
        /\ ~Decided(Append(played, rally))
    BY <1>2, OverIsFinal DEF NextGame, MatchInv
  <2>2. played' \in Seq(Points) /\ \A n \in 1..Len(played') : final(played'[n])
    <3>1. Len(played') = Len(played) + 1 /\ Len(played) \in Nat /\ played' \in Seq(Points)
      BY <2>1 DEF MatchInv
    <3>2. ASSUME NEW n \in 1..Len(played') PROVE final(played'[n])
      <4>1. CASE n <= Len(played)
        BY <4>1, <3>1, <2>1 DEF MatchInv
      <4>2. CASE ~(n <= Len(played))
        <5>1. played'[n] = rally
          BY <4>2, <3>1, <2>1 DEF MatchInv
        <5> QED BY <5>1, <2>1
      <4> QED BY <4>1, <4>2
    <3> QED BY <3>1, <3>2
  <2>3. ~Decided(played)'
    BY <2>1 DEF Decided, Wins
  <2> QED BY <1>1, <2>1, <2>2, <2>3 DEF MatchInv
<1>3. CASE UNCHANGED <<best, played>>
  BY <1>1, <1>3 DEF MatchInv, Decided, Wins
<1> QED BY <1>2, <1>3 DEF PlayNext, Point, playVars

\* The games that play has finished, with the one on the table if it's over.
Finished == IF Over(rally) THEN Append(played, rally) ELSE played

\* All are final scores. Only the last can decide the match, and no match has
\* more games than slots.
LEMMA FinishedFacts ==
  ASSUME MatchInv
  PROVE  /\ Finished \in Seq(Points)
         /\ Len(Finished) \in {Len(played), Len(played) + 1}
         /\ \A n \in 1..Len(Finished) : final(Finished[n])
         /\ \A side \in {1, 2}, n \in 0..Len(played) : Won(Finished, side, n) < Needed(best)
         /\ Len(Finished) <= best
         /\ Decided(Finished) => Len(Finished) = Len(played) + 1
<1>1. /\ played \in Seq(Points) /\ best \in {1, 3, 5, 7} /\ ~Decided(played)
      /\ \A n \in 1..Len(played) : final(played[n])
  BY DEF MatchInv
<1>2. Over(rally) => final(rally) /\ rally \in Points
  BY OverIsFinal DEF MatchInv
<1>3. /\ Finished \in Seq(Points)
      /\ Len(Finished) = IF Over(rally) THEN Len(played) + 1 ELSE Len(played)
      /\ \A n \in 1..Len(played) : Finished[n] = played[n]
      /\ Over(rally) => Finished[Len(played) + 1] = rally
  BY <1>1, <1>2 DEF Finished
<1>4. Len(played) \in Nat
  BY <1>1
<1>5. ASSUME NEW n \in 1..Len(Finished) PROVE final(Finished[n])
  <2>1. CASE n <= Len(played)
    <3>1. Finished[n] = played[n] /\ final(played[n])
      BY <1>1, <1>3, <1>4, <2>1
    <3> QED BY <3>1
  <2>2. CASE ~(n <= Len(played))
    <3>1. Over(rally) /\ n = Len(played) + 1
      BY <1>3, <1>4, <2>2
    <3> QED BY <3>1, <1>2, <1>3
  <2> QED BY <2>1, <2>2
<1>6. ASSUME NEW side \in {1, 2}, NEW n \in 0..Len(played)
      PROVE  Won(Finished, side, n) < Needed(best)
  <2>1. Won(Finished, side, n) = Won(played, side, n)
    <3>1. \A i \in 1..n : Finished[i] = played[i]
      BY <1>3, <1>4
    <3> QED BY <3>1, WonAlike
  <2>2. Won(played, side, n) \in Nat /\ Won(played, side, Len(played)) \in Nat
        /\ Won(played, side, n) <= Won(played, side, Len(played))
    BY <1>4, WonGrows
  <2>3. ~(Won(played, side, Len(played)) >= Needed(best)) /\ Needed(best) \in Nat
    BY <1>1, DecidedByWins
  <2> QED BY <2>1, <2>2, <2>3
<1>7. Len(Finished) <= best
  <2>1. Won(Finished, 1, Len(played)) + Won(Finished, 2, Len(played)) = Len(played)
    BY <1>4, WonByEither
  <2>2. Won(Finished, 1, Len(played)) \in Nat /\ Won(Finished, 2, Len(played)) \in Nat
    BY <1>4, WonGrows
  <2>3. Won(Finished, 1, Len(played)) < Needed(best) /\ Won(Finished, 2, Len(played)) < Needed(best)
    BY <1>4, <1>6
  <2>4. Needed(best) \in Nat /\ 2 * Needed(best) = best + 1 /\ best \in Nat
    BY <1>1, DecidedByWins
  <2> QED BY <2>1, <2>2, <2>3, <2>4, <1>3, <1>4
<1>8. ASSUME Decided(Finished) PROVE Len(Finished) = Len(played) + 1
  BY <1>1, <1>3, <1>8 DEF Finished
<1> QED BY <1>3, <1>4, <1>5, <1>6, <1>7, <1>8

\* A board's slots hold its games first, and then none.
LEMMA SlotsFacts ==
  ASSUME NEW games \in Seq(Points), NEW bestOf \in Nat, Len(games) <= bestOf
  PROVE  /\ slotsOf(games, bestOf) \in Seq(Points \cup {NoGame})
         /\ Len(slotsOf(games, bestOf)) = bestOf
         /\ SubSeq(slotsOf(games, bestOf), 1, Len(games)) = games
         /\ \A n \in Len(games) + 1..bestOf : slotsOf(games, bestOf)[n] = NoGame
         /\ \A side \in {1, 2}, n \in 1..bestOf : WonBy(side, slotsOf(games, bestOf), n) =
              Won(games, side, IF n <= Len(games) THEN n ELSE Len(games))
<1> DEFINE slots == slotsOf(games, bestOf)
<1>0. Len(games) \in Nat /\ NoGame \notin Points /\ \A n \in 1..Len(games) : games[n] \in Points
  BY NoGameAssumption DEF Points
<1>1. slots = [n \in 1..bestOf |-> IF n <= Len(games) THEN games[n] ELSE NoGame]
  BY Zenon DEF slotsOf
<1>2. /\ \A n \in 1..Len(games) : slots[n] = games[n] /\ slots[n] # NoGame
      /\ \A n \in Len(games) + 1..bestOf : slots[n] = NoGame
      /\ \A n \in 1..bestOf : slots[n] \in Points \cup {NoGame}
  BY <1>0, <1>1
<1>3. slots \in Seq(Points \cup {NoGame}) /\ Len(slots) = bestOf
  BY <1>1, <1>2
<1> HIDE DEF slots
<1>4. SubSeq(slots, 1, Len(games)) = games
  BY <1>0, <1>2, <1>3
<1>5. ASSUME NEW side \in {1, 2}, NEW n \in 1..bestOf
      PROVE  WonBy(side, slots, n) = Won(games, side, IF n <= Len(games) THEN n ELSE Len(games))
  <2> DEFINE m == IF n <= Len(games) THEN n ELSE Len(games)
  <2>1. \A i \in 1..n : (slots[i] # NoGame <=> i \in 1..m) /\ (i \in 1..m => slots[i] = games[i])
    BY <1>0, <1>2
  <2>2. 1..m \subseteq 1..n
    BY <1>0
  <2> HIDE DEF m
  <2>3. {i \in 1..n : slots[i] # NoGame /\ winnerOf(slots[i]) = side} = WonIn(games, side, m)
    BY <2>1, <2>2 DEF WonIn
  <2>4. WonBy(side, slots, n) = Won(games, side, m)
    BY <2>3, Zenon DEF WonBy, Won
  <2> QED BY <2>4 DEF m
<1>6. slots = slotsOf(games, bestOf)
  BY DEF slots
<1> QED BY <1>2, <1>3, <1>4, <1>5, <1>6, Zenon

\* In every match, of any length, the pad calls it decided exactly when play has
\* decided it, with exactly the games played, and the API takes exactly those
\* games as completed (board.ts: reviewBoard(); match_results.py: check_ending()).
THEOREM MatchesEndAlike == PlaySpec => []EndsAlike
<1>1. ASSUME MatchInv PROVE EndsAlike
  <2> DEFINE games == Finished
             slots == slotsOf(games, best)
             deciding == Deciding(slots, best)
             decider == CHOOSE n \in deciding : \A other \in deciding : n <= other
             won(side, upTo) == Cardinality({n \in 1..upTo : winnerOf(games[n]) = side})
  <2>1. /\ games \in Seq(Points) /\ Len(games) \in {Len(played), Len(played) + 1}
        /\ \A n \in 1..Len(games) : final(games[n])
        /\ \A side \in {1, 2}, n \in 0..Len(played) : Won(games, side, n) < Needed(best)
        /\ Len(games) <= best
        /\ Decided(games) => Len(games) = Len(played) + 1
    BY <1>1, FinishedFacts
  <2>2. best \in {1, 3, 5, 7} /\ best \in Nat /\ Len(played) \in Nat /\ Len(games) \in Nat
    BY <1>1, <2>1 DEF MatchInv
  <2>3. /\ Needed(best) \in Nat
        /\ Decided(games) <=> \E side \in {1, 2} : Won(games, side, Len(games)) >= Needed(best)
    BY <2>1, <2>2, DecidedByWins
  <2>4. /\ slots \in Seq(Points \cup {NoGame}) /\ Len(slots) = best
        /\ SubSeq(slots, 1, Len(games)) = games
        /\ \A n \in Len(games) + 1..best : slots[n] = NoGame
        /\ \A side \in {1, 2}, n \in 1..best : WonBy(side, slots, n) =
             Won(games, side, IF n <= Len(games) THEN n ELSE Len(games))
    BY <2>1, <2>2, SlotsFacts
  <2>5. \A side \in {1, 2}, n \in 0..Len(games) : Won(games, side, n) \in Nat
    BY <2>2, WonGrows
  <2>6. won(1, Len(games)) = Won(games, 1, Len(games)) /\ won(2, Len(games)) = Won(games, 2, Len(games))
        /\ \A side, n : won(side, n) = Won(games, side, n)
    BY Zenon DEF Won, WonIn
  <2>7. NoGame \notin Points
    BY NoGameAssumption DEF Points
  <2>8. check_ending(games, best) <=>
          /\ \A n \in 1..Len(games) : games[n] # NoGame /\ final(games[n])
          /\ \A n \in 1..Len(games) - 1, side \in {1, 2} : won(side, n) < Needed(best)
          /\ \E side \in {1, 2} : won(side, Len(games)) >= Needed(best)
    BY Zenon DEF check_ending
  <2>9. deciding = {n \in 1..best : \E side \in {1, 2} : WonBy(side, slots, n) >= Needed(best)}
    BY Zenon DEF Deciding
  <2>10. reviewBoard(slots, best) =
           CASE deciding = {} -> [kind |-> "undecided", games |-> <<>>]
             [] deciding # {} /\ \E n \in (decider + 1)..best : slots[n] # NoGame ->
                  [kind |-> "overrun", games |-> <<>>]
             [] OTHER -> [kind |-> "decided", games |-> filled(SubSeq(slots, 1, decider))]
    BY Zenon DEF reviewBoard
  <2> DEFINE review == reviewBoard(slots, best)
  <2>11. EndsAlike <=> /\ review.kind = (IF Decided(games) THEN "decided" ELSE "undecided")
                       /\ Decided(games) => review.games = games
                       /\ check_ending(games, best) <=> Decided(games)
    BY Zenon DEF EndsAlike, Finished
  <2> HIDE DEF games, slots, deciding, decider, won, review
  <2>12. check_ending(games, best) <=> Decided(games)
    <3>1. \A n \in 1..Len(games) : games[n] # NoGame
      BY <2>1, <2>7
    <3>2. ASSUME Decided(games), NEW n \in 1..Len(games) - 1, NEW side \in {1, 2}
          PROVE  won(side, n) < Needed(best)
      BY <2>1, <2>2, <2>6, <3>2
    <3> QED BY <2>1, <2>3, <2>6, <2>8, <3>1, <3>2
  <2>13. CASE ~Decided(games)
    <3>1. deciding = {}
      <4>1. ASSUME NEW n \in 1..best, NEW side \in {1, 2}
            PROVE  ~(WonBy(side, slots, n) >= Needed(best))
        <5> DEFINE m == IF n <= Len(games) THEN n ELSE Len(games)
        <5>1. m \in 0..Len(games) /\ WonBy(side, slots, n) = Won(games, side, m)
          BY <2>2, <2>4
        <5> HIDE DEF m
        <5>2. Won(games, side, m) <= Won(games, side, Len(games))
          BY <5>1, <2>2, WonGrows
        <5>3. ~(Won(games, side, Len(games)) >= Needed(best))
          BY <2>3, <2>13
        <5>4. Won(games, side, m) \in Nat /\ Won(games, side, Len(games)) \in Nat
          BY <5>1, <2>2, <2>5
        <5> QED BY <5>1, <5>2, <5>3, <5>4, <2>3
      <4> QED BY <4>1, <2>9
    <3>2. review = [kind |-> "undecided", games |-> <<>>]
      BY <3>1, <2>10 DEF review
    <3> QED BY <3>2, <2>11, <2>12, <2>13
  <2>14. CASE Decided(games)
    <3>1. Len(games) \in 1..best /\ Len(games) = Len(played) + 1
      BY <2>1, <2>2, <2>14
    <3>2. Len(games) \in deciding
      <4>1. PICK side \in {1, 2} : Won(games, side, Len(games)) >= Needed(best)
        BY <2>3, <2>14
      <4>2. WonBy(side, slots, Len(games)) = Won(games, side, Len(games))
        BY <2>4, <3>1
      <4> QED BY <4>1, <4>2, <3>1, <2>9
    <3>3. ASSUME NEW n \in deciding PROVE n \in Nat /\ Len(games) <= n
      <4>1. n \in 1..best /\ \E side \in {1, 2} : WonBy(side, slots, n) >= Needed(best)
        BY <2>9
      <4>2. SUFFICES ASSUME n <= Len(played) PROVE FALSE
        BY <4>1, <3>1, <2>2
      <4>3. \A side \in {1, 2} : WonBy(side, slots, n) = Won(games, side, n)
        BY <4>1, <4>2, <2>4, <3>1, <2>2
      <4>4. \A side \in {1, 2} : Won(games, side, n) < Needed(best) /\ Won(games, side, n) \in Nat
        BY <4>1, <4>2, <2>1, <2>5, <3>1, <2>2
      <4> QED BY <4>1, <4>3, <4>4, <2>3
    <3>4. decider = Len(games)
      <4>1. \E n \in deciding : \A other \in deciding : n <= other
        BY <3>2, <3>3
      <4>2. decider \in deciding /\ \A other \in deciding : decider <= other
        BY <4>1 DEF decider
      <4> QED BY <4>2, <3>2, <3>3, <2>2
    <3>5. ~\E n \in (decider + 1)..best : slots[n] # NoGame
      BY <3>4, <2>4
    <3>6. filled(SubSeq(slots, 1, decider)) = games
      <4>1. SubSeq(slots, 1, decider) = games
        BY <3>4, <2>4
      <4>2. filled(games) = games
        BY <2>1, <2>7, FilledWhole
      <4> QED BY <4>1, <4>2
    <3>7. review = [kind |-> "decided", games |-> games]
      BY <3>2, <3>5, <3>6, <2>10 DEF review
    <3> QED BY <3>7, <2>11, <2>12, <2>14
  <2> QED BY <2>13, <2>14
<1> QED BY MatchInvInit, MatchInvNext, <1>1, PTL DEF PlaySpec
-----------------------------------------------------------------------------
(* The pages that score a match. *)

\* Boards that play may reach: no gaps, only final scores, no more than bestOf.
LegalBoards(bestOf) ==
  {games \in Seq(Points) : /\ Len(games) <= bestOf
                           /\ \A n \in 1..Len(games) : checkGame(games[n])}

\* A game that the pad of a board may open.
Opens(games, bestOf) == {n \in 1..bestOf : n <= Len(games) + 1}

OnceSigned(fragment) ==
  IsFiniteSet(SidesOf(fragment)) /\ Cardinality(SidesOf(fragment)) = Len(fragment.by)

\* Fragments and envelopes, of the first k results.
Fragments(bestOf, k) ==
  {f \in [games : LegalBoards(bestOf), replaces : 0..k, result : 0..k, by : Seq(Device)] :
     OnceSigned(f)}
Envelopes(bestOf, k) == {f \in Fragments(bestOf, k) : f.result # 0}

Pages(bestOf, k) ==
  {e \in [route : {"match", "pad", "submission", "approval"}, game : Nat,
          fragment : Fragments(bestOf, k)] :
     /\ e.route = "pad" => e.game \in Opens(e.fragment.games, bestOf)
     /\ e.route \in {"submission", "approval"} => e.fragment.result # 0}

Submits(bestOf, k) ==
  {job \in [does : {"submit"}, games : LegalBoards(bestOf), replaces : 0..k, game : Nat,
            touched : BOOLEAN] :
     /\ check_ending(job.games, bestOf)
     /\ job.game \in Opens(job.games, bestOf)}
Jobs(bestOf, k) == {NoJob} \cup [does : {"approve"}] \cup Submits(bestOf, k)

Found(bestOf, k) == [games : LegalBoards(bestOf), replaces : 0..k, final : BOOLEAN]

Checks(bestOf, k) ==
  {c \in [envelope : Fragments(bestOf, k), listens : BOOLEAN,
          said : {"none", "loading", "taken", "stale", "accepted", "waiting", "refused"}] :
     c.said # "none" => c.envelope.result # 0}

\* Back from a submission finds the signed result, wherever it is in the history.
Holds(under, e) == under.route = "pad" /\ replacesOf(under.fragment) = e.fragment.result
HistoryInv(e, below) ==
  /\ e.route = "submission" => Len(below) > 0 /\ Holds(below[Len(below)], e)
  /\ \A n \in 1..Len(below) :
       below[n].route = "submission" => n > 1 /\ Holds(below[n - 1], below[n])

\* What a mutation in flight works on is still there.
JobInv(p, e, job) ==
  /\ job.does = "approve" => e.route = "approval" /\ p \in Playing /\ p \notin SidesOf(e.fragment)
  /\ job.does = "submit" /\ ~job.touched => e.fragment = Draft(job.games, job.replaces)

WaitInv(c, queue) ==
  c.said = "waiting" /\ c.listens => \E n \in 1..Len(queue) : queue[n] = c.envelope

DeviceTypes(p, bestOf, k) ==
  /\ page[p] \in Pages(bestOf, k) /\ past[p] \in Seq(Pages(bestOf, k))
  /\ doing[p] \in Jobs(bestOf, k) /\ outbox[p] \in Seq(Envelopes(bestOf, k))
  /\ known[p] \in Found(bestOf, k) /\ check[p] \in Checks(bestOf, k)
DeviceInv(p) ==
  /\ HistoryInv(page[p], past[p]) /\ JobInv(p, page[p], doing[p]) /\ WaitInv(check[p], outbox[p])

\* Every variable of the devices has a value for each.
EachDevice ==
  /\ DOMAIN page = Device /\ DOMAIN past = Device /\ DOMAIN doing = Device
  /\ DOMAIN outbox = Device /\ DOMAIN known = Device /\ DOMAIN check = Device

ResultsOf(bestOf) == [games : LegalBoards(bestOf), replaces : Nat]
ServiceInv ==
  /\ padScene \in PadScenes
  /\ results \in Seq(ResultsOf(padScene.bestOf))
  /\ \A r \in 1..Len(results) :
       results[r].replaces < r /\ check_ending(results[r].games, padScene.bestOf)
  /\ board \in LegalBoards(padScene.bestOf)
  /\ DOMAIN signers \subseteq 1..Len(results)

\* The inductive invariant of the pages.  Beyond what the runs check: every
\* entry of a history, not the page only, has a legal fragment and game, and every
\* submission in it lies on the pad that holds it; what a mutation works on is on
\* its page; every fragment in a queue and a check is of a signed result.
PagesInv ==
  /\ ServiceInv /\ EachDevice
  /\ \A p \in Device : DeviceTypes(p, padScene.bestOf, Len(results)) /\ DeviceInv(p)
  /\ NothingOrphaned

\* A scene has an odd number of games.
LEMMA SceneFacts ==
  ASSUME padScene \in PadScenes
  PROVE  /\ padScene.bestOf \in {1, 3, 5, 7} /\ padScene.typed \subseteq Input \X Input
         /\ padScene.who \subseteq Device
BY PagesAssumption

\* An empty board, and a change of any fragment, are fragments.
LEMMA DraftFacts ==
  ASSUME NEW b \in Nat, NEW k \in Nat, NEW games \in LegalBoards(b), NEW r \in 0..k
  PROVE  /\ Draft(games, r) \in Fragments(b, k)
         /\ Draft(games, r).games = games /\ Draft(games, r).replaces = r /\ Draft(games, r).result = 0
<1> DEFINE d == Draft(games, r)
<1>1. /\ d \in [games : LegalBoards(b), replaces : 0..k, result : 0..k, by : Seq(Device)]
      /\ d.games = games /\ d.replaces = r /\ d.result = 0 /\ d.by = <<>> /\ Len(d.by) = 0
  BY DEF Draft
<1> HIDE DEF d
<1>2. SidesOf(d) = {}
  BY <1>1 DEF SidesOf
<1>3. OnceSigned(d)
  BY <1>1, <1>2, FS_EmptySet DEF OnceSigned
<1>4. d \in Fragments(b, k)
  BY <1>1, <1>3, Zenon DEF Fragments
<1> QED BY <1>1, <1>4 DEF d

\* A board of no games.
LEMMA NoGamesYet ==
  ASSUME NEW b \in Nat PROVE <<>> \in LegalBoards(b)
BY DEF LegalBoards

\* A fragment's parts, and what its change replaces.
LEMMA FragmentFacts ==
  ASSUME NEW b \in Nat, NEW k \in Nat, NEW f \in Fragments(b, k)
  PROVE  /\ f.games \in LegalBoards(b) /\ f.games \in Seq(Points) /\ Len(f.games) \in 0..b
         /\ f.result \in 0..k /\ f.by \in Seq(Device)
         /\ replacesOf(f) \in 0..k
         /\ OnceSigned(f)
<1>1. f \in [games : LegalBoards(b), replaces : 0..k, result : 0..k, by : Seq(Device)] /\ OnceSigned(f)
  BY DEF Fragments
<1> QED BY <1>1 DEF LegalBoards, replacesOf

\* More results leave everything in its set.
LEMMA MoreResults ==
  ASSUME NEW b \in Nat, NEW k \in Nat
  PROVE  /\ Fragments(b, k) \subseteq Fragments(b, k + 1)
         /\ Envelopes(b, k) \subseteq Envelopes(b, k + 1)
         /\ Pages(b, k) \subseteq Pages(b, k + 1)
         /\ Jobs(b, k) \subseteq Jobs(b, k + 1)
         /\ Found(b, k) \subseteq Found(b, k + 1)
         /\ Checks(b, k) \subseteq Checks(b, k + 1)
<1>0. 0..k \subseteq 0..k + 1
  OBVIOUS
<1>1. Fragments(b, k) \subseteq Fragments(b, k + 1)
  BY <1>0 DEF Fragments
<1>2. Envelopes(b, k) \subseteq Envelopes(b, k + 1)
  BY <1>1 DEF Envelopes
<1>3. Pages(b, k) \subseteq Pages(b, k + 1)
  BY <1>1 DEF Pages
<1>4. Jobs(b, k) \subseteq Jobs(b, k + 1)
  BY <1>0 DEF Jobs, Submits
<1>5. Found(b, k) \subseteq Found(b, k + 1)
  BY <1>0 DEF Found
<1>6. Checks(b, k) \subseteq Checks(b, k + 1)
  BY <1>1 DEF Checks
<1> QED BY <1>1, <1>2, <1>3, <1>4, <1>5, <1>6

\* A score that the pad takes is a legal pair of numbers.
LEMMA LegalScores ==
  ASSUME NEW typed \in Input \X Input, parseGameScore(typed) = "legal"
  PROVE  typed \in Points /\ checkGame(typed)
<1>1. PICK x \in Input, y \in Input : typed = <<x, y>>
  OBVIOUS
<1>2. checkGame(typed) /\ x \notin {Blank, Garbled} /\ y \notin {Blank, Garbled}
  BY <1>1 DEF parseGameScore
<1>3. x \in Nat /\ y \in Nat
  BY <1>2 DEF Input
<1> QED BY <1>1, <1>2, <1>3 DEF Points

\* What the review of a board without gaps calls decided is the whole board, and
\* one that the API takes.
LEMMA ReviewFacts ==
  ASSUME NEW b \in {1, 3, 5, 7}, NEW games \in LegalBoards(b),
         reviewBoard(slotsOf(games, b), b).kind = "decided"
  PROVE  reviewBoard(slotsOf(games, b), b).games = games /\ check_ending(games, b)
<1> DEFINE slots == slotsOf(games, b)
           deciding == Deciding(slots, b)
           decider == CHOOSE n \in deciding : \A other \in deciding : n <= other
           won(side, upTo) == Cardinality({n \in 1..upTo : winnerOf(games[n]) = side})
           review == reviewBoard(slots, b)
<1>1. /\ games \in Seq(Points) /\ Len(games) \in Nat /\ Len(games) <= b
      /\ \A n \in 1..Len(games) : checkGame(games[n]) /\ games[n] \in Points
  BY DEF LegalBoards
<1>2. /\ slots \in Seq(Points \cup {NoGame}) /\ Len(slots) = b
      /\ SubSeq(slots, 1, Len(games)) = games
      /\ \A n \in Len(games) + 1..b : slots[n] = NoGame
      /\ \A side \in {1, 2}, n \in 1..b : WonBy(side, slots, n) =
           Won(games, side, IF n <= Len(games) THEN n ELSE Len(games))
  BY <1>1, SlotsFacts
<1>3. /\ \A n \in 1..Len(games) : final(games[n]) /\ games[n] # NoGame
  <2> SUFFICES ASSUME NEW n \in 1..Len(games) PROVE final(games[n]) /\ games[n] # NoGame
    OBVIOUS
  <2>1. PICK x \in Nat, y \in Nat : games[n] = <<x, y>>
    BY <1>1 DEF Points
  <2>2. checkGame(<<x, y>>) <=> final(<<x, y>>)
    BY FinalScoresAgree
  <2> QED BY <1>1, <2>1, <2>2, NoGameAssumption DEF Points
<1>4. deciding = {n \in 1..b : \E side \in {1, 2} : WonBy(side, slots, n) >= Needed(b)}
  BY Zenon DEF Deciding
<1>5. review =
        CASE deciding = {} -> [kind |-> "undecided", games |-> <<>>]
          [] deciding # {} /\ \E n \in (decider + 1)..b : slots[n] # NoGame ->
               [kind |-> "overrun", games |-> <<>>]
          [] OTHER -> [kind |-> "decided", games |-> filled(SubSeq(slots, 1, decider))]
  BY Zenon DEF reviewBoard
<1>6. check_ending(games, b) <=>
        /\ \A n \in 1..Len(games) : games[n] # NoGame /\ final(games[n])
        /\ \A n \in 1..Len(games) - 1, side \in {1, 2} : won(side, n) < Needed(b)
        /\ \E side \in {1, 2} : won(side, Len(games)) >= Needed(b)
  BY Zenon DEF check_ending
<1>7. \A side, n : won(side, n) = Won(games, side, n)
  BY Zenon DEF Won, WonIn
<1>8. Needed(b) \in Nat \ {0}
  BY DEF Needed
<1>9. \A side \in {1, 2}, n \in Nat : Won(games, side, n) \in Nat
  BY WonGrows
<1> HIDE DEF slots, deciding, decider, won, review
<1>10. SUFFICES ASSUME review.kind = "decided" PROVE review.games = games /\ check_ending(games, b)
  BY DEF review, slots
<1>11. deciding # {} /\ review = [kind |-> "decided", games |-> filled(SubSeq(slots, 1, decider))]
       /\ ~\E n \in (decider + 1)..b : slots[n] # NoGame
  <2>1. deciding # {}
    BY <1>5, <1>10
  <2>2. ~\E n \in (decider + 1)..b : slots[n] # NoGame
    BY <1>5, <1>10, <2>1
  <2> QED BY <1>5, <2>1, <2>2
<1>12. decider \in deciding /\ decider \in 1..b /\ \A other \in deciding : decider <= other
  <2>1. deciding \subseteq Nat /\ deciding \subseteq 1..b
    BY <1>4
  <2>2. PICK x \in deciding : \A y \in deciding : x <= y
    BY <1>11, <2>1, LeastNat
  <2> QED BY <2>1, <2>2 DEF decider
<1>13. PICK side \in {1, 2} : WonBy(side, slots, decider) >= Needed(b)
  BY <1>4, <1>12
<1>14. decider = Len(games)
  <2>1. ASSUME decider < Len(games) PROVE FALSE
    <3>1. Len(games) \in (decider + 1)..b
      BY <1>1, <1>12, <2>1
    <3>2. slots[Len(games)] = games[Len(games)]
      BY <1>1, <1>2, <3>1, <1>12
    <3> QED BY <3>1, <3>2, <1>3, <1>11, <1>1, <1>12
  <2>2. ASSUME decider > Len(games) PROVE FALSE
    <3>1. Won(games, side, Len(games)) >= Needed(b)
      BY <1>2, <1>12, <1>13, <2>2, <1>1
    <3>2. Len(games) # 0
      <4>1. Won(games, side, 0) = 0
        <5>1. WonIn(games, side, 0) = {}
          BY DEF WonIn
        <5> QED BY <5>1, FS_EmptySet, Zenon DEF Won
      <4> QED BY <4>1, <3>1, <1>8
    <3>3. Len(games) \in 1..b /\ WonBy(side, slots, Len(games)) = Won(games, side, Len(games))
      BY <1>1, <1>2, <3>2
    <3>4. Len(games) \in deciding
      BY <1>4, <3>1, <3>3
    <3> QED BY <3>4, <1>12, <2>2, <1>1
  <2> QED BY <2>1, <2>2, <1>1, <1>12
<1>15. review.games = games
  <2>1. filled(games) = games
    BY <1>1, FilledWhole, NoGameAssumption DEF Points
  <2>2. SubSeq(slots, 1, decider) = games
    BY <1>2, <1>14
  <2> QED BY <2>1, <2>2, <1>11
<1>16. check_ending(games, b)
  <2>1. ASSUME NEW n \in 1..Len(games) - 1, NEW s \in {1, 2} PROVE won(s, n) < Needed(b)
    <3>1. n \in 1..b /\ n \notin deciding
      BY <1>1, <1>12, <1>14
    <3>2. WonBy(s, slots, n) = Won(games, s, n)
      BY <3>1, <1>2, <1>1
    <3>3. ~(WonBy(s, slots, n) >= Needed(b))
      BY <3>1, <1>4
    <3>4. n \in Nat
      BY <1>1
    <3>7. Won(games, s, n) \in Nat
      BY <3>4, <1>9
    <3>5. Won(games, s, n) < Needed(b)
      BY <3>2, <3>3, <3>7, <1>8
    <3>6. won(s, n) = Won(games, s, n)
      BY <1>7
    <3> QED BY <3>5, <3>6
  <2>2. won(side, Len(games)) >= Needed(b)
    BY <1>2, <1>7, <1>12, <1>13, <1>14, <1>1
  <2> QED BY <1>3, <1>6, <2>1, <2>2
<1> QED BY <1>15, <1>16

\* The games once a score is entered at a game that may open.
Entered(games, game, typed) ==
  [n \in 1..(IF game > Len(games) THEN game ELSE Len(games)) |->
     IF n = game THEN typed ELSE IF n <= Len(games) THEN games[n] ELSE NoGame]

\* A legal score leaves a board without gaps.
LEMMA EnteredFacts ==
  ASSUME NEW b \in Nat, NEW games \in LegalBoards(b), NEW game \in Opens(games, b),
         NEW typed \in Points, checkGame(typed)
  PROVE  /\ Entered(games, game, typed) \in LegalBoards(b)
         /\ Len(Entered(games, game, typed)) = IF game > Len(games) THEN game ELSE Len(games)
         /\ slotsOf(Entered(games, game, typed), b) =
              [n \in 1..b |-> IF n = game THEN typed ELSE slotsOf(games, b)[n]]
<1> DEFINE new == Entered(games, game, typed)
           len == IF game > Len(games) THEN game ELSE Len(games)
<1>1. /\ games \in Seq(Points) /\ Len(games) \in Nat /\ Len(games) <= b
      /\ \A n \in 1..Len(games) : checkGame(games[n]) /\ games[n] \in Points
  BY DEF LegalBoards
<1>2. game \in 1..b /\ game <= Len(games) + 1 /\ len \in 0..b /\ len \in Nat
  BY <1>1 DEF Opens
<1>3. new = [n \in 1..len |-> IF n = game THEN typed ELSE IF n <= Len(games) THEN games[n] ELSE NoGame]
  BY Zenon DEF Entered
<1>4. \A n \in 1..len : n = game \/ n \in 1..Len(games)
  BY <1>1, <1>2
<1>5. game \in 1..len /\ 1..Len(games) \subseteq 1..len
  BY <1>1, <1>2
<1> HIDE DEF new
<1>6. \A n \in 1..len : /\ new[n] = IF n = game THEN typed ELSE games[n]
                        /\ new[n] \in Points /\ checkGame(new[n])
  BY <1>1, <1>3, <1>4
<1>7. new \in Seq(Points) /\ Len(new) = len
  BY <1>2, <1>3, <1>6
<1>8. new \in LegalBoards(b)
  BY <1>2, <1>6, <1>7 DEF LegalBoards
<1>9. slotsOf(new, b) = [n \in 1..b |-> IF n = game THEN typed ELSE slotsOf(games, b)[n]]
  <2>1. slotsOf(new, b) = [n \in 1..b |-> IF n <= len THEN new[n] ELSE NoGame]
    BY <1>7, Zenon DEF slotsOf
  <2>2. slotsOf(games, b) = [n \in 1..b |-> IF n <= Len(games) THEN games[n] ELSE NoGame]
    BY Zenon DEF slotsOf
  <2>3. \A n \in 1..b : (IF n <= len THEN new[n] ELSE NoGame) =
                         (IF n = game THEN typed ELSE slotsOf(games, b)[n])
    BY <2>2, <1>1, <1>2, <1>4, <1>5, <1>6
  <2> QED BY <2>1, <2>3
<1> QED BY <1>7, <1>8, <1>9 DEF new

\* What a press of the pad's button does to a board without gaps: it submits an
\* ending, or saves a board without gaps and stays or goes to its next game.
LEMMA PressFacts ==
  ASSUME NEW b \in {1, 3, 5, 7}, NEW games \in LegalBoards(b), NEW game \in Opens(games, b),
         NEW typed \in Input \X Input, NEW plays
  PROVE  LET press == planPress(games, plays, game, typed, b)
             new == Entered(games, game, typed)
         IN /\ press.does = "submit" =>
                 /\ press.games \in LegalBoards(b) /\ check_ending(press.games, b)
                 /\ game \in Opens(press.games, b)
            /\ press.does = "save" =>
                 /\ new \in LegalBoards(b)
                 /\ (IF press.next = 0 THEN game ELSE press.next) \in Opens(new, b)
<1> DEFINE legal == parseGameScore(typed) = "legal"
           slots == [n \in 1..b |-> IF legal /\ n = game THEN typed ELSE slotsOf(games, b)[n]]
           review == reviewBoard(slots, b)
           later == {n \in (game + 1)..b : slots[n] = NoGame}
           next == CHOOSE n \in later : \A other \in later : n <= other
           press == planPress(games, plays, game, typed, b)
           new == Entered(games, game, typed)
           reviewed == IF legal THEN new ELSE games
<1>1. press = IF plays /\ review.kind = "decided" /\ (legal \/ parseGameScore(typed) = "empty")
                THEN [does |-> "submit", games |-> review.games]
              ELSE IF ~legal THEN [does |-> "disabled"]
              ELSE [does |-> "save",
                    next |-> IF review.kind = "undecided" /\ later # {} THEN next ELSE 0]
  BY Zenon DEF planPress
<1>2. /\ games \in Seq(Points) /\ Len(games) \in Nat /\ Len(games) <= b
      /\ game \in 1..b /\ game <= Len(games) + 1
  BY DEF LegalBoards, Opens
<1>3. legal => typed \in Points /\ checkGame(typed)
  BY LegalScores
<1>4. legal => /\ new \in LegalBoards(b)
               /\ Len(new) = IF game > Len(games) THEN game ELSE Len(games)
               /\ slots = slotsOf(new, b)
  <2> SUFFICES ASSUME legal
               PROVE  /\ new \in LegalBoards(b)
                      /\ Len(new) = IF game > Len(games) THEN game ELSE Len(games)
                      /\ slots = slotsOf(new, b)
    OBVIOUS
  <2>1. slots = [n \in 1..b |-> IF n = game THEN typed ELSE slotsOf(games, b)[n]]
    OBVIOUS
  <2> HIDE DEF slots, legal
  <2>2. typed \in Points /\ checkGame(typed) /\ b \in Nat
    BY <1>3
  <2> QED BY <2>1, <2>2, EnteredFacts
<1>5. ~legal => slots = slotsOf(games, b)
  <2> SUFFICES ASSUME ~legal PROVE slots = slotsOf(games, b)
    OBVIOUS
  <2>1. slots = [n \in 1..b |-> slotsOf(games, b)[n]]
    OBVIOUS
  <2>2. slotsOf(games, b) = [n \in 1..b |-> IF n <= Len(games) THEN games[n] ELSE NoGame]
    BY Zenon DEF slotsOf
  <2> HIDE DEF slots
  <2> QED BY <2>1, <2>2
<1> HIDE DEF legal, slots, later, next, press, new
<1>6. /\ reviewed \in LegalBoards(b) /\ slots = slotsOf(reviewed, b) /\ Len(reviewed) \in Nat
      /\ game <= Len(reviewed) + 1
  BY <1>2, <1>4, <1>5
<1> HIDE DEF reviewed
<1>7. ASSUME press.does = "submit"
      PROVE  /\ press.games \in LegalBoards(b) /\ check_ending(press.games, b)
             /\ game \in Opens(press.games, b)
  <2>1. review.kind = "decided" /\ press.games = review.games
    BY <1>1, <1>7
  <2>2. review.games = reviewed /\ check_ending(reviewed, b)
    BY <2>1, <1>6, ReviewFacts
  <2> QED BY <1>2, <1>6, <2>1, <2>2 DEF Opens
<1>8. ASSUME press.does = "save"
      PROVE  /\ new \in LegalBoards(b)
             /\ (IF press.next = 0 THEN game ELSE press.next) \in Opens(new, b)
  <2>1. legal /\ press.next = IF review.kind = "undecided" /\ later # {} THEN next ELSE 0
    BY <1>1, <1>8
  <2>2. game \in Opens(new, b) /\ Len(new) \in Nat /\ game <= Len(new)
    BY <1>2, <1>4, <2>1 DEF Opens
  <2>3. CASE press.next = 0
    BY <2>1, <2>2, <2>3, <1>4
  <2>4. CASE press.next # 0
    <3>1. later # {} /\ press.next = next
      BY <2>1, <2>4
    <3>2. /\ \A n \in 1..b : slots[n] = IF n <= Len(new) THEN new[n] ELSE NoGame
          /\ \A n \in 1..Len(new) : new[n] # NoGame
      <4>1. slotsOf(new, b) = [n \in 1..b |-> IF n <= Len(new) THEN new[n] ELSE NoGame]
        BY Zenon DEF slotsOf
      <4>2. \A n \in 1..Len(new) : new[n] \in Points
        BY <1>4, <2>1 DEF LegalBoards
      <4> QED BY <4>1, <4>2, <1>4, <2>1, NoGameAssumption DEF Points
    <3>3. later = {n \in (game + 1)..b : slots[n] = NoGame}
      BY DEF later
    <3>4. ASSUME NEW n \in later PROVE n \in 1..b /\ n >= Len(new) + 1
      <4>1. n \in (game + 1)..b /\ slots[n] = NoGame
        BY <3>3
      <4>2. n \in 1..b
        BY <4>1, <1>2, <2>2
      <4>3. ~(n <= Len(new))
        BY <4>1, <4>2, <3>2, <2>2
      <4> QED BY <4>2, <4>3, <2>2
    <3>5. Len(new) + 1 \in later
      <4>1. PICK n \in later : TRUE
        BY <3>1
      <4>2. Len(new) + 1 \in (game + 1)..b
        BY <4>1, <3>4, <1>2, <2>2
      <4> QED BY <4>2, <3>2, <3>3, <1>2, <2>2
    <3>6. next \in later /\ \A other \in later : next <= other
      <4>1. \E n \in later : \A other \in later : n <= other
        BY <3>4, <3>5
      <4> QED BY <4>1 DEF next
    <3>7. next = Len(new) + 1 /\ next \in 1..b
      BY <3>4, <3>5, <3>6, <2>2
    <3> QED BY <3>1, <3>7, <2>1, <2>4, <1>4 DEF Opens
  <2> QED BY <2>3, <2>4
<1> QED BY <1>7, <1>8 DEF press, new

-----------------------------------------------------------------------------
\* A history that a page other than a submission is pushed on.
LEMMA PushedHistory ==
  ASSUME NEW S, NEW below \in Seq(S), NEW e \in S, HistoryInv(e, below),
         NEW new, new.route # "submission"
  PROVE  HistoryInv(new, Append(below, e)) /\ Append(below, e) \in Seq(S)
<1> DEFINE more == Append(below, e)
<1>1. /\ Len(more) = Len(below) + 1 /\ Len(below) \in Nat /\ more[Len(below) + 1] = e
      /\ \A n \in 1..Len(below) : more[n] = below[n]
      /\ more \in Seq(S)
  OBVIOUS
<1> HIDE DEF more
<1>2. ASSUME NEW n \in 1..Len(more), more[n].route = "submission"
      PROVE  n > 1 /\ Holds(more[n - 1], more[n])
  <2>1. CASE n <= Len(below)
    <3>1. n \in 1..Len(below) /\ more[n] = below[n]
      BY <1>1, <2>1
    <3>2. n > 1 /\ Holds(below[n - 1], below[n])
      BY <3>1, <1>2 DEF HistoryInv
    <3>3. n - 1 \in 1..Len(below)
      BY <3>1, <3>2
    <3> QED BY <1>1, <3>1, <3>2, <3>3
  <2>2. CASE ~(n <= Len(below))
    <3>1. n = Len(below) + 1 /\ more[n] = e
      BY <1>1, <2>2
    <3>2. Len(below) > 0 /\ Holds(below[Len(below)], e)
      BY <3>1, <1>2 DEF HistoryInv
    <3>3. n > 1 /\ n - 1 = Len(below) /\ more[n - 1] = below[Len(below)]
      BY <1>1, <3>1, <3>2
    <3> QED BY <3>1, <3>2, <3>3
  <2> QED BY <2>1, <2>2
<1> QED BY <1>1, <1>2 DEF HistoryInv, more

\* One that goes back to its top.
LEMMA PoppedHistory ==
  ASSUME NEW S, NEW below \in Seq(S), Len(below) > 0, NEW e, HistoryInv(e, below)
  PROVE  /\ HistoryInv(below[Len(below)], SubSeq(below, 1, Len(below) - 1))
         /\ SubSeq(below, 1, Len(below) - 1) \in Seq(S) /\ below[Len(below)] \in S
<1> DEFINE less == SubSeq(below, 1, Len(below) - 1)
<1>0. Len(below) \in Nat /\ below[Len(below)] \in S /\ \A n \in 1..Len(below) : below[n] \in S
  OBVIOUS
<1>1. /\ less \in Seq(S) /\ Len(below) \in Nat /\ Len(less) = Len(below) - 1
      /\ \A n \in 1..Len(below) - 1 : less[n] = below[n]
      /\ below[Len(below)] \in S
  <2> DEFINE m == Len(below) - 1
  <2>1. m \in Nat /\ m <= Len(below)
    BY <1>0
  <2>2. \A n \in 1..m : below[n] \in S
    BY <1>0, <2>1
  <2> HIDE DEF m
  <2>3. /\ SubSeq(below, 1, m) \in Seq(S) /\ Len(SubSeq(below, 1, m)) = m
        /\ \A n \in 1..m : SubSeq(below, 1, m)[n] = below[n]
    BY <2>1, <2>2
  <2> QED BY <1>0, <2>3 DEF m
<1> HIDE DEF less
<1>2. ASSUME below[Len(below)].route = "submission"
      PROVE  Len(less) > 0 /\ Holds(less[Len(less)], below[Len(below)])
  <2>1. Len(below) > 1 /\ Holds(below[Len(below) - 1], below[Len(below)])
    BY <1>1, <1>2 DEF HistoryInv
  <2>2. Len(less) > 0 /\ less[Len(less)] = below[Len(below) - 1]
    BY <1>1, <2>1
  <2> QED BY <2>1, <2>2
<1>3. ASSUME NEW n \in 1..Len(less), less[n].route = "submission"
      PROVE  n > 1 /\ Holds(less[n - 1], less[n])
  <2>1. n \in 1..Len(below) /\ less[n] = below[n]
    BY <1>1
  <2>2. n > 1 /\ Holds(below[n - 1], below[n])
    BY <2>1, <1>3 DEF HistoryInv
  <2>3. less[n - 1] = below[n - 1]
    BY <1>1, <2>1, <2>2
  <2> QED BY <2>1, <2>2, <2>3
<1> QED BY <1>1, <1>2, <1>3 DEF HistoryInv, less

-----------------------------------------------------------------------------
\* A step of one device leaves the others' variables alone.
OthersStay(p) ==
  \A q \in Device \ {p} :
    /\ page'[q] = page[q] /\ past'[q] = past[q] /\ doing'[q] = doing[q]
    /\ outbox'[q] = outbox[q] /\ known'[q] = known[q] /\ check'[q] = check[q]

\* What such a step must show when it signs nothing.
LEMMA DeviceStep ==
  ASSUME PagesInv, NEW p \in Device, padScene' = padScene, results' = results, EachDevice',
         OthersStay(p), DeviceTypes(p, padScene.bestOf, Len(results))', DeviceInv(p)',
         board' \in LegalBoards(padScene.bestOf), DOMAIN signers' \subseteq 1..Len(results),
         NothingOrphaned'
  PROVE  PagesInv'
<1>1. ServiceInv'
  BY DEF PagesInv, ServiceInv
<1>2. ASSUME NEW q \in Device
      PROVE  DeviceTypes(q, padScene.bestOf, Len(results))' /\ DeviceInv(q)'
  <2>1. CASE q = p
    BY <2>1
  <2>2. CASE q # p
    <3>1. DeviceTypes(q, padScene.bestOf, Len(results)) /\ DeviceInv(q)
      BY DEF PagesInv
    <3> QED BY <3>1, <2>2 DEF OthersStay, DeviceTypes, DeviceInv
  <2> QED BY <2>1, <2>2
<1> QED BY <1>1, <1>2 DEF PagesInv

\* No result is orphaned while the API keeps what it took, and what leaves an
\* outbox was taken.
LEMMA OrphansStay ==
  ASSUME PagesInv, NEW p \in Device, padScene' = padScene, results' = results,
         \A q \in Device \ {p} : outbox'[q] = outbox[q],
         DOMAIN signers \subseteq DOMAIN signers',
         \A n \in 1..Len(outbox[p]) :
           \/ "day" \in padScene.may \/ outbox[p][n].result \in DOMAIN signers'
           \/ \E m \in 1..Len(outbox'[p]) : outbox'[p][m] = outbox[p][n]
  PROVE  NothingOrphaned'
<1> SUFFICES ASSUME "day" \notin padScene.may, NEW r \in 1..Len(results)
             PROVE  r \in DOMAIN signers'
                    \/ \E q \in Device : \E n \in 1..Len(outbox'[q]) : outbox'[q][n].result = r
  BY DEF NothingOrphaned, Results, Taken
<1>1. r \in DOMAIN signers \/ \E q \in Device : \E n \in 1..Len(outbox[q]) : outbox[q][n].result = r
  BY DEF PagesInv, NothingOrphaned, Results, Taken
<1>2. CASE r \in DOMAIN signers
  BY <1>2
<1>3. ASSUME NEW q \in Device, NEW n \in 1..Len(outbox[q]), outbox[q][n].result = r
      PROVE  r \in DOMAIN signers'
             \/ \E o \in Device : \E m \in 1..Len(outbox'[o]) : outbox'[o][m].result = r
  <2>1. CASE q # p
    BY <1>3, <2>1
  <2>2. CASE q = p
    BY <1>3, <2>2
  <2> QED BY <2>1, <2>2
<1> QED BY <1>1, <1>2, <1>3

\* What a step must show that leaves the outboxes and the API's results alone.
LEMMA MoveStep ==
  ASSUME PagesInv, NEW p \in Device, padScene' = padScene, results' = results,
         outbox' = outbox, signers' = signers, EachDevice', OthersStay(p),
         page'[p] \in Pages(padScene.bestOf, Len(results)),
         past'[p] \in Seq(Pages(padScene.bestOf, Len(results))),
         doing'[p] \in Jobs(padScene.bestOf, Len(results)),
         known'[p] \in Found(padScene.bestOf, Len(results)),
         check'[p] \in Checks(padScene.bestOf, Len(results)),
         HistoryInv(page'[p], past'[p]), JobInv(p, page'[p], doing'[p]),
         WaitInv(check'[p], outbox[p]), board' \in LegalBoards(padScene.bestOf)
  PROVE  PagesInv'
<1>1. DeviceTypes(p, padScene.bestOf, Len(results)) /\ DOMAIN signers \subseteq 1..Len(results)
  BY DEF PagesInv, ServiceInv
<1>2. DeviceTypes(p, padScene.bestOf, Len(results))' /\ DeviceInv(p)'
  BY <1>1 DEF DeviceTypes, DeviceInv
<1>3. NothingOrphaned'
  BY OrphansStay
<1> QED BY <1>1, <1>2, <1>3, DeviceStep

\* What the invariant says of a device.
LEMMA OfDevice ==
  ASSUME PagesInv, NEW p \in Device
  PROVE  /\ padScene \in PadScenes /\ padScene.bestOf \in {1, 3, 5, 7} /\ padScene.bestOf \in Nat
         /\ padScene.typed \subseteq Input \X Input /\ Len(results) \in Nat
         /\ page[p] \in Pages(padScene.bestOf, Len(results))
         /\ page[p].fragment \in Fragments(padScene.bestOf, Len(results))
         /\ page[p].route = "pad" => page[p].game \in Opens(page[p].fragment.games, padScene.bestOf)
         /\ page[p].route \in {"submission", "approval"} => page[p].fragment.result # 0
         /\ page[p].game \in Nat
         /\ past[p] \in Seq(Pages(padScene.bestOf, Len(results)))
         /\ doing[p] \in Jobs(padScene.bestOf, Len(results))
         /\ outbox[p] \in Seq(Envelopes(padScene.bestOf, Len(results)))
         /\ known[p] \in Found(padScene.bestOf, Len(results))
         /\ check[p] \in Checks(padScene.bestOf, Len(results))
         /\ HistoryInv(page[p], past[p]) /\ JobInv(p, page[p], doing[p])
         /\ WaitInv(check[p], outbox[p])
         /\ board \in LegalBoards(padScene.bestOf)
<1>1. /\ ServiceInv /\ DeviceTypes(p, padScene.bestOf, Len(results)) /\ DeviceInv(p)
  BY DEF PagesInv
<1>2. padScene \in PadScenes /\ padScene.bestOf \in {1, 3, 5, 7} /\ padScene.bestOf \in Nat
      /\ padScene.typed \subseteq Input \X Input /\ Len(results) \in Nat
  BY <1>1, SceneFacts DEF ServiceInv
<1>3. page[p] \in Pages(padScene.bestOf, Len(results))
  BY <1>1 DEF DeviceTypes
<1>4. /\ page[p].fragment \in Fragments(padScene.bestOf, Len(results)) /\ page[p].game \in Nat
      /\ page[p].route = "pad" => page[p].game \in Opens(page[p].fragment.games, padScene.bestOf)
      /\ page[p].route \in {"submission", "approval"} => page[p].fragment.result # 0
  BY <1>3 DEF Pages
<1> QED BY <1>1, <1>2, <1>3, <1>4 DEF DeviceTypes, DeviceInv, ServiceInv

\* A person's step on the page leaves no approval in flight, and marks a submit.
LEMMA TouchedFacts ==
  ASSUME NEW p \in Device, NEW b, NEW k, doing[p] \in Jobs(b, k), DOMAIN doing = Device,
         MayAct(p), Touched(p)
  PROVE  /\ doing'[p] \in Jobs(b, k) /\ DOMAIN doing' = Device
         /\ \A q \in Device \ {p} : doing'[q] = doing[q]
         /\ \A e : JobInv(p, e, doing'[p])
<1>1. /\ DOMAIN doing' = Device /\ \A q \in Device \ {p} : doing'[q] = doing[q]
      /\ doing'[p] = IF doing[p] = NoJob THEN doing[p] ELSE [doing[p] EXCEPT !.touched = TRUE]
  BY DEF Touched
<1>2. CASE doing[p] = NoJob
  BY <1>1, <1>2 DEF JobInv, NoJob
<1>3. CASE doing[p] # NoJob
  <2>1. doing[p].does = "submit"
    BY <1>3 DEF MayAct
  <2>2. doing[p] \in Submits(b, k)
    BY <2>1, <1>3 DEF Jobs
  <2>3. /\ [doing[p] EXCEPT !.touched = TRUE] \in Submits(b, k)
        /\ [doing[p] EXCEPT !.touched = TRUE].does = "submit"
        /\ [doing[p] EXCEPT !.touched = TRUE].touched
    BY <2>1, <2>2 DEF Submits
  <2>4. doing'[p] \in Submits(b, k) /\ doing'[p].does = "submit" /\ doing'[p].touched
    BY <1>1, <1>3, <2>3
  <2> QED BY <1>1, <2>4 DEF Jobs, JobInv
<1> QED BY <1>2, <1>3

\* A page that opens listens no more, and an approved one starts a check.
LEMMA CheckingFacts ==
  ASSUME NEW p \in Device, NEW b, NEW k, check[p] \in Checks(b, k), DOMAIN check = Device,
         NEW new \in Pages(b, k), Checking(p, new)
  PROVE  /\ check'[p] \in Checks(b, k) /\ DOMAIN check' = Device
         /\ \A q \in Device \ {p} : check'[q] = check[q]
         /\ \A queue : WaitInv(check'[p], queue)
<1>1. /\ DOMAIN check' = Device /\ \A q \in Device \ {p} : check'[q] = check[q]
      /\ check'[p] = IF /\ new.route = "approval" /\ BothSigned(new.fragment)
                         /\ check[p].envelope # new.fragment
                       THEN [envelope |-> new.fragment, said |-> "loading", listens |-> FALSE]
                       ELSE [check[p] EXCEPT !.listens = FALSE]
  BY DEF Checking
<1>2. new.fragment \in Fragments(b, k) /\ new.route = "approval" => new.fragment.result # 0
  BY DEF Pages
<1>3. CASE check'[p] = [check[p] EXCEPT !.listens = FALSE]
  BY <1>1, <1>3 DEF Checks, WaitInv
<1>4. CASE /\ new.route = "approval"
           /\ check'[p] = [envelope |-> new.fragment, said |-> "loading", listens |-> FALSE]
  <2>1. new.fragment \in Fragments(b, k) /\ new.fragment.result # 0
    BY <1>4 DEF Pages
  <2> DEFINE c == [envelope |-> new.fragment, said |-> "loading", listens |-> FALSE]
  <2>2. c.envelope = new.fragment /\ c.said = "loading" /\ c.listens = FALSE
    OBVIOUS
  <2>3. c \in Checks(b, k)
    BY <2>1 DEF Checks
  <2>4. check'[p] = c
    BY <1>4
  <2> HIDE DEF c
  <2>5. \A queue : WaitInv(check'[p], queue)
    BY <2>2, <2>4 DEF WaitInv
  <2> QED BY <1>1, <2>3, <2>4, <2>5
<1> QED BY <1>1, <1>3, <1>4

-----------------------------------------------------------------------------
\* The newest result that the API took, if any, is one that nothing replaces.
LEMMA NewestFacts ==
  ASSUME ServiceInv
  PROVE  Newest \in 0..Len(results) /\ (Newest # 0 => Newest \in Taken)
<1>1. Taken \subseteq 1..Len(results) /\ Len(results) \in Nat
      /\ \A r \in 1..Len(results) : results[r].replaces < r /\ results[r].replaces \in Nat
  <2>1. results \in Seq(ResultsOf(padScene.bestOf))
    BY DEF ServiceInv
  <2>2. \A r \in 1..Len(results) : results[r] \in ResultsOf(padScene.bestOf)
    BY <2>1
  <2> QED BY <2>1, <2>2 DEF ServiceInv, Taken, ResultsOf
<1>2. CASE Taken = {}
  BY <1>1, <1>2 DEF Newest
<1>3. CASE Taken # {}
  <2> DEFINE T == {Len(results) - r : r \in Taken}
  <2>1. T \subseteq Nat /\ T # {}
    BY <1>1, <1>3
  <2>2. PICK x \in T : \A y \in T : x <= y
    <3> HIDE DEF T
    <3> QED BY <2>1, LeastNat
  <2>3. PICK r \in Taken : x = Len(results) - r
    OBVIOUS
  <2>4. ASSUME NEW q \in Taken PROVE results[q].replaces # r
    <3>1. Len(results) - r <= Len(results) - q
      BY <2>2, <2>3
    <3>2. q <= r /\ results[q].replaces < q /\ results[q].replaces \in Nat
      BY <1>1, <3>1
    <3> QED BY <3>2, <1>1
  <2>5. \E o \in Taken : \A q \in Taken : results[q].replaces # o
    BY <2>4
  <2>6. Newest = CHOOSE o \in Taken : \A q \in Taken : results[q].replaces # o
    BY <1>3, Zenon DEF Newest
  <2>7. Newest \in Taken
    BY <2>5, <2>6, Zenon
  <2> QED BY <2>7, <1>1
<1> QED BY <1>2, <1>3

\* A read of the match finds a board without gaps, and what corrects it.
LEMMA ReadFacts ==
  ASSUME ServiceInv
  PROVE  Read \in Found(padScene.bestOf, Len(results))
<1>1. Newest \in 0..Len(results)
  BY NewestFacts
<1>2. board \in LegalBoards(padScene.bestOf) /\ results \in Seq(ResultsOf(padScene.bestOf))
  BY DEF ServiceInv
<1>3. Newest # 0 => results[Newest].games \in LegalBoards(padScene.bestOf)
  <2> SUFFICES ASSUME Newest # 0 PROVE results[Newest].games \in LegalBoards(padScene.bestOf)
    OBVIOUS
  <2>1. Newest \in 1..Len(results)
    BY <1>1, <1>2
  <2>2. results[Newest] \in ResultsOf(padScene.bestOf)
    BY <2>1, <1>2
  <2> QED BY <2>2 DEF ResultsOf
<1>4. Final \in BOOLEAN
  BY DEF Final
<1> QED BY <1>1, <1>2, <1>3, <1>4 DEF Read, Found

\* A pad's entry.
LEMMA PadFacts ==
  ASSUME NEW b \in Nat, NEW k \in Nat, NEW f \in Fragments(b, k), NEW game \in Opens(f.games, b)
  PROVE  /\ Pad(game, f) \in Pages(b, k) /\ Pad(game, f).route = "pad"
         /\ Pad(game, f).fragment = f /\ Pad(game, f).game = game
BY DEF Pad, Pages, Opens

\* The games that a pad opens at: one past the last, or the first.
LEMMA OpensFacts ==
  ASSUME PagesInv, NEW games \in LegalBoards(padScene.bestOf)
  PROVE  /\ LastGame(games) \in Opens(games, padScene.bestOf)
         /\ 1 \in Opens(games, padScene.bestOf)
         /\ 1..LastGame(games) = Opens(games, padScene.bestOf)
<1>1. padScene.bestOf \in {1, 3, 5, 7}
  BY SceneFacts DEF PagesInv, ServiceInv
<1>2. Len(games) \in Nat /\ Len(games) <= padScene.bestOf
  BY DEF LegalBoards
<1> QED BY <1>1, <1>2 DEF LastGame, Opens

\* What a push leaves.
LEMMA PushFacts ==
  ASSUME PagesInv, NEW p \in Device, NEW new \in Pages(padScene.bestOf, Len(results)),
         new.route # "submission", Push(p, new)
  PROVE  /\ page'[p] = new /\ past'[p] \in Seq(Pages(padScene.bestOf, Len(results)))
         /\ HistoryInv(new, past'[p])
         /\ DOMAIN page' = Device /\ DOMAIN past' = Device
         /\ \A q \in Device \ {p} : page'[q] = page[q] /\ past'[q] = past[q]
<1>1. /\ page'[p] = new /\ past'[p] = Append(past[p], page[p])
      /\ DOMAIN page' = Device /\ DOMAIN past' = Device
      /\ \A q \in Device \ {p} : page'[q] = page[q] /\ past'[q] = past[q]
  BY DEF Push, Under, PagesInv, EachDevice
<1>2. /\ past[p] \in Seq(Pages(padScene.bestOf, Len(results)))
      /\ page[p] \in Pages(padScene.bestOf, Len(results)) /\ HistoryInv(page[p], past[p])
  BY OfDevice
<1>3. HistoryInv(new, Append(past[p], page[p]))
      /\ Append(past[p], page[p]) \in Seq(Pages(padScene.bestOf, Len(results)))
  BY <1>2, PushedHistory
<1> QED BY <1>1, <1>3

\* What a replacement leaves.
LEMMA ReplaceFacts ==
  ASSUME PagesInv, NEW p \in Device, NEW new, new.route # "submission", Replace(p, new)
  PROVE  /\ page'[p] = new /\ past'[p] \in Seq(Pages(padScene.bestOf, Len(results)))
         /\ HistoryInv(new, past'[p])
         /\ DOMAIN page' = Device /\ DOMAIN past' = Device
         /\ \A q \in Device \ {p} : page'[q] = page[q] /\ past'[q] = past[q]
<1>1. /\ page'[p] = new /\ past' = past
      /\ DOMAIN page' = Device /\ DOMAIN past' = Device
      /\ \A q \in Device \ {p} : page'[q] = page[q]
  BY DEF Replace, PagesInv, EachDevice
<1>2. past[p] \in Seq(Pages(padScene.bestOf, Len(results))) /\ HistoryInv(page[p], past[p])
  BY OfDevice
<1>3. HistoryInv(new, past[p])
  BY <1>2 DEF HistoryInv
<1> QED BY <1>1, <1>2, <1>3

\* Keep score.
LEMMA KeepScoreStep ==
  ASSUME PagesInv, NEW p \in Device, KeepScore(p)
  PROVE  PagesInv'
<1> DEFINE b == padScene.bestOf
           k == Len(results)
<1>0. ServiceInv /\ EachDevice /\ b \in Nat /\ k \in Nat /\ doing[p] \in Jobs(b, k)
      /\ known[p] \in Found(b, k) /\ check[p] \in Checks(b, k) /\ WaitInv(check[p], outbox[p])
      /\ board \in LegalBoards(b)
  BY OfDevice DEF PagesInv
<1>1. PICK opened \in Opened(p) :
        /\ known' = IF Offline THEN [known EXCEPT ![p] = opened] ELSE known
        /\ Push(p, keepScoreTarget(opened))
  BY DEF KeepScore
<1>2. /\ MayAct(p) /\ Touched(p)
      /\ padScene' = padScene /\ results' = results /\ outbox' = outbox /\ check' = check
      /\ board' = board /\ signers' = signers
  BY DEF KeepScore, apiVars
<1>3. opened \in Found(b, k)
  BY <1>0, <1>1, ReadFacts DEF Opened
<1> DEFINE new == keepScoreTarget(opened)
<1>4. opened.games \in LegalBoards(b) /\ opened.replaces \in 0..k
  BY <1>3 DEF Found
<1>5. new \in Pages(b, k) /\ new.route = "pad"
  <2>1. LastGame(opened.games) \in Opens(opened.games, b)
    BY <1>4, OpensFacts
  <2>2. Draft(opened.games, opened.replaces) \in Fragments(b, k)
        /\ Draft(opened.games, opened.replaces).games = opened.games
    BY <1>0, <1>4, DraftFacts
  <2> QED BY <1>0, <2>1, <2>2, PadFacts DEF keepScoreTarget
<1> HIDE DEF new
<1>6. /\ page'[p] = new /\ past'[p] \in Seq(Pages(b, k)) /\ HistoryInv(new, past'[p])
      /\ DOMAIN page' = Device /\ DOMAIN past' = Device
      /\ \A q \in Device \ {p} : page'[q] = page[q] /\ past'[q] = past[q]
  BY <1>1, <1>5, PushFacts DEF new
<1>7. /\ doing'[p] \in Jobs(b, k) /\ DOMAIN doing' = Device
      /\ \A q \in Device \ {p} : doing'[q] = doing[q]
      /\ JobInv(p, page'[p], doing'[p])
  BY <1>0, <1>2, TouchedFacts DEF EachDevice
<1>8. known'[p] \in Found(b, k) /\ DOMAIN known' = Device /\ \A q \in Device \ {p} : known'[q] = known[q]
  BY <1>0, <1>1, <1>3 DEF EachDevice
<1>9. EachDevice' /\ OthersStay(p)
  BY <1>0, <1>2, <1>6, <1>7, <1>8 DEF EachDevice, OthersStay
<1> QED BY <1>0, <1>2, <1>5, <1>6, <1>7, <1>8, <1>9, MoveStep
-----------------------------------------------------------------------------
\* A board that reaches the API, or doesn't, has no gaps.
LEMMA BoardFacts ==
  ASSUME PagesInv, NEW games \in LegalBoards(padScene.bestOf), SaveBoard(games)
  PROVE  board' \in LegalBoards(padScene.bestOf)
BY DEF PagesInv, ServiceInv, SaveBoard

\* A person's step that opens a page of the pad, or takes its place.
LEMMA OpensPad ==
  ASSUME PagesInv, NEW p \in Device, NEW new \in Pages(padScene.bestOf, Len(results)),
         new.route # "submission", Push(p, new) \/ Replace(p, new), MayAct(p), Touched(p),
         padScene' = padScene, results' = results, known' = known, outbox' = outbox,
         signers' = signers, check' = check \/ Checking(p, new),
         board' \in LegalBoards(padScene.bestOf)
  PROVE  PagesInv'
<1> DEFINE b == padScene.bestOf
           k == Len(results)
<1>0. EachDevice /\ b \in Nat /\ k \in Nat /\ doing[p] \in Jobs(b, k) /\ known[p] \in Found(b, k)
      /\ check[p] \in Checks(b, k) /\ WaitInv(check[p], outbox[p])
  BY OfDevice DEF PagesInv
<1>1. /\ page'[p] = new /\ past'[p] \in Seq(Pages(b, k)) /\ HistoryInv(new, past'[p])
      /\ DOMAIN page' = Device /\ DOMAIN past' = Device
      /\ \A q \in Device \ {p} : page'[q] = page[q] /\ past'[q] = past[q]
  <2>1. CASE Push(p, new)
    BY <2>1, PushFacts
  <2>2. CASE Replace(p, new)
    BY <2>2, ReplaceFacts
  <2> QED BY <2>1, <2>2
<1>2. /\ doing'[p] \in Jobs(b, k) /\ DOMAIN doing' = Device
      /\ \A q \in Device \ {p} : doing'[q] = doing[q]
      /\ JobInv(p, page'[p], doing'[p])
  BY <1>0, TouchedFacts DEF EachDevice
<1>3. /\ check'[p] \in Checks(b, k) /\ DOMAIN check' = Device
      /\ \A q \in Device \ {p} : check'[q] = check[q]
      /\ WaitInv(check'[p], outbox[p])
  <2>1. CASE check' = check
    BY <2>1, <1>0 DEF EachDevice
  <2>2. CASE Checking(p, new)
    BY <2>2, <1>0, CheckingFacts DEF EachDevice
  <2> QED BY <2>1, <2>2
<1>4. EachDevice' /\ OthersStay(p)
  BY <1>0, <1>1, <1>2, <1>3 DEF EachDevice, OthersStay
<1> QED BY <1>0, <1>1, <1>2, <1>3, <1>4, MoveStep

\* What a change of the page's games makes of them.
LEMMA ShowStep ==
  ASSUME PagesInv, NEW p \in Device, MayAct(p), NEW games \in LegalBoards(padScene.bestOf),
         NEW game \in Opens(games, padScene.bestOf), Show(p, games, game)
  PROVE  PagesInv'
<1> DEFINE b == padScene.bestOf
           k == Len(results)
           draft == Draft(games, replacesOf(page[p].fragment))
           new == Pad(game, draft)
<1>1. /\ Replace(p, new) \/ Push(p, new)
      /\ SaveBoard(games) /\ Touched(p)
      /\ padScene' = padScene /\ results' = results /\ known' = known /\ outbox' = outbox
      /\ check' = check /\ signers' = signers
  BY Zenon DEF Show
<1>2. b \in Nat /\ k \in Nat /\ replacesOf(page[p].fragment) \in 0..k
  BY OfDevice, FragmentFacts
<1>3. draft \in Fragments(b, k) /\ draft.games = games
  BY <1>2, DraftFacts
<1> HIDE DEF draft
<1>4. new \in Pages(b, k) /\ new.route = "pad"
  BY <1>2, <1>3, PadFacts
<1> HIDE DEF new
<1>5. board' \in LegalBoards(b)
  BY <1>1, BoardFacts
<1> QED BY <1>1, <1>4, <1>5, OpensPad

\* Save: the score makes a board without gaps, and its next game may open.
LEMMA SaveStep ==
  ASSUME PagesInv, NEW p \in Device, Save(p)
  PROVE  PagesInv'
<1> DEFINE b == padScene.bestOf
           games == page[p].fragment.games
           game == page[p].game
<1>1. /\ MayAct(p) /\ page[p].route = "pad"
      /\ \E typed \in padScene.typed :
           LET press == planPress(games, p \in Playing, game, typed, b) IN
           /\ press.does = "save"
           /\ Show(p, Entered(games, game, typed), IF press.next = 0 THEN game ELSE press.next)
  BY Zenon DEF Save, Entered
<1>2. PICK typed \in padScene.typed :
        LET press == planPress(games, p \in Playing, game, typed, b) IN
        /\ press.does = "save"
        /\ Show(p, Entered(games, game, typed), IF press.next = 0 THEN game ELSE press.next)
  BY <1>1, Zenon
<1>3. b \in {1, 3, 5, 7} /\ games \in LegalBoards(b) /\ game \in Opens(games, b)
      /\ typed \in Input \X Input
  BY <1>1, OfDevice, FragmentFacts
<1> DEFINE press == planPress(games, p \in Playing, game, typed, b)
           next == IF press.next = 0 THEN game ELSE press.next
<1>4. press.does = "save" /\ Show(p, Entered(games, game, typed), next)
  BY <1>2, Zenon
<1>5. Entered(games, game, typed) \in LegalBoards(b) /\ next \in Opens(Entered(games, game, typed), b)
  BY <1>3, <1>4, PressFacts, Zenon
<1> HIDE DEF next
<1> QED BY <1>1, <1>4, <1>5, ShowStep

\* Clear: without its last game, the board has no gap either.
LEMMA ClearStep ==
  ASSUME PagesInv, NEW p \in Device, Clear(p)
  PROVE  PagesInv'
<1> DEFINE b == padScene.bestOf
           games == page[p].fragment.games
           game == page[p].game
           m == Len(games) - 1
<1>1. MayAct(p) /\ page[p].route = "pad" /\ game = Len(games) /\ Show(p, SubSeq(games, 1, m), game)
  BY Zenon DEF Clear
<1>2. b \in Nat /\ games \in LegalBoards(b) /\ game \in Opens(games, b)
  BY <1>1, OfDevice, FragmentFacts
<1> HIDE DEF game, games
<1>3. /\ games \in Seq(Points) /\ Len(games) \in 1..b
      /\ \A n \in 1..Len(games) : checkGame(games[n]) /\ games[n] \in Points
  <2>1. /\ games \in Seq(Points) /\ Len(games) <= b
        /\ \A n \in 1..Len(games) : checkGame(games[n])
    BY <1>2 DEF LegalBoards
  <2>2. game \in 1..b
    BY <1>2 DEF Opens
  <2>3. \A n \in 1..Len(games) : games[n] \in Points
    BY <2>1
  <2> QED BY <1>1, <2>1, <2>2, <2>3
<1>4. m \in Nat /\ m <= Len(games) /\ m <= b /\ Len(games) = m + 1
  BY <1>2, <1>3
<1> DEFINE less == SubSeq(games, 1, m)
<1> HIDE DEF m
<1>5. less \in Seq(Points) /\ Len(less) = m /\ \A n \in 1..m : less[n] = games[n]
  BY <1>3, <1>4
<1>6. \A n \in 1..m : n \in 1..Len(games)
  BY <1>4
<1> HIDE DEF less
<1>7. less \in LegalBoards(b)
  BY <1>3, <1>4, <1>5, <1>6 DEF LegalBoards
<1>8. game \in Opens(less, b)
  BY <1>1, <1>3, <1>4, <1>5 DEF Opens
<1> QED BY <1>1, <1>7, <1>8, ShowStep DEF m, less, game, games

\* The strip, Back to scores and Edit scores open a game of the page's own fragment.
LEMMA FragmentOpens ==
  ASSUME PagesInv, NEW p \in Device, NEW game \in Opens(page[p].fragment.games, padScene.bestOf)
  PROVE  /\ Pad(game, page[p].fragment) \in Pages(padScene.bestOf, Len(results))
         /\ Pad(game, page[p].fragment).route = "pad"
<1>1. /\ padScene.bestOf \in Nat /\ Len(results) \in Nat
      /\ page[p].fragment \in Fragments(padScene.bestOf, Len(results))
  BY OfDevice
<1> QED BY <1>1, PadFacts

\* A step that leaves the API's variables alone.
LEMMA BoardStays ==
  ASSUME PagesInv, UNCHANGED apiVars
  PROVE  board' \in LegalBoards(padScene.bestOf) /\ board' = board /\ signers' = signers
BY DEF PagesInv, ServiceInv, apiVars

\* The strip opens any game up to one past the last.
LEMMA StripStep ==
  ASSUME PagesInv, NEW p \in Device, Strip(p)
  PROVE  PagesInv'
<1>1. PICK game \in 1..LastGame(page[p].fragment.games) : Push(p, Pad(game, page[p].fragment))
  BY DEF Strip
<1>2. game \in Opens(page[p].fragment.games, padScene.bestOf)
  BY <1>1, OfDevice, FragmentFacts, OpensFacts
<1>3. /\ MayAct(p) /\ Touched(p) /\ padScene' = padScene /\ results' = results /\ known' = known
      /\ outbox' = outbox /\ check' = check /\ UNCHANGED apiVars
  BY DEF Strip
<1> DEFINE new == Pad(game, page[p].fragment)
<1>4. new \in Pages(padScene.bestOf, Len(results)) /\ new.route = "pad"
  BY <1>2, FragmentOpens
<1> HIDE DEF new
<1> QED BY <1>1, <1>3, <1>4, BoardStays, OpensPad DEF new

\* Back to scores opens the first game of the signed result.
LEMMA BackToScoresStep ==
  ASSUME PagesInv, NEW p \in Device, BackToScores(p)
  PROVE  PagesInv'
<1> DEFINE new == Pad(1, page[p].fragment)
<1>1. /\ MayAct(p) /\ Touched(p) /\ padScene' = padScene /\ results' = results /\ known' = known
      /\ outbox' = outbox /\ check' = check /\ UNCHANGED apiVars /\ Push(p, new)
  BY DEF BackToScores
<1>2. 1 \in Opens(page[p].fragment.games, padScene.bestOf)
  BY OfDevice, FragmentFacts, OpensFacts
<1>3. new \in Pages(padScene.bestOf, Len(results)) /\ new.route = "pad"
  BY <1>2, FragmentOpens
<1> HIDE DEF new
<1> QED BY <1>1, <1>3, BoardStays, OpensPad

\* Edit scores opens the first game of the linked result.
LEMMA EditScoresStep ==
  ASSUME PagesInv, NEW p \in Device, EditScores(p)
  PROVE  PagesInv'
<1> DEFINE new == Pad(1, page[p].fragment)
<1>1. /\ MayAct(p) /\ Touched(p) /\ padScene' = padScene /\ results' = results /\ known' = known
      /\ outbox' = outbox /\ Checking(p, new) /\ UNCHANGED apiVars /\ Push(p, new)
  BY DEF EditScores
<1>2. 1 \in Opens(page[p].fragment.games, padScene.bestOf)
  BY OfDevice, FragmentFacts, OpensFacts
<1>3. new \in Pages(padScene.bestOf, Len(results)) /\ new.route = "pad"
  BY <1>2, FragmentOpens
<1> HIDE DEF new
<1> QED BY <1>1, <1>3, BoardStays, OpensPad

-----------------------------------------------------------------------------
\* Back: what was under the page has its own history.
LEMMA BackStep ==
  ASSUME PagesInv, NEW p \in Device, Back(p)
  PROVE  PagesInv'
<1> DEFINE b == padScene.bestOf
           k == Len(results)
           below == past[p]
           top == below[Len(below)]
           less == SubSeq(below, 1, Len(below) - 1)
<1>0. EachDevice /\ b \in Nat /\ k \in Nat /\ doing[p] \in Jobs(b, k) /\ known[p] \in Found(b, k)
      /\ check[p] \in Checks(b, k) /\ below \in Seq(Pages(b, k)) /\ HistoryInv(page[p], below)
  BY OfDevice DEF PagesInv
<1>1. /\ MayAct(p) /\ Touched(p) /\ Len(below) > 0 /\ Checking(p, top)
      /\ page' = [page EXCEPT ![p] = top] /\ past' = [past EXCEPT ![p] = less]
      /\ padScene' = padScene /\ results' = results /\ known' = known
      /\ outbox' = outbox /\ UNCHANGED apiVars
  BY Zenon DEF Back, Top, Under
<1>2. HistoryInv(top, less) /\ less \in Seq(Pages(b, k)) /\ top \in Pages(b, k)
  BY <1>0, <1>1, PoppedHistory
<1> HIDE DEF below, top, less
<1>3. /\ page'[p] = top /\ past'[p] = less /\ DOMAIN page' = Device /\ DOMAIN past' = Device
      /\ \A q \in Device \ {p} : page'[q] = page[q] /\ past'[q] = past[q]
  BY <1>0, <1>1 DEF EachDevice
<1>4. /\ doing'[p] \in Jobs(b, k) /\ DOMAIN doing' = Device
      /\ \A q \in Device \ {p} : doing'[q] = doing[q]
      /\ JobInv(p, page'[p], doing'[p])
  BY <1>0, <1>1, TouchedFacts DEF EachDevice
<1>5. /\ check'[p] \in Checks(b, k) /\ DOMAIN check' = Device
      /\ \A q \in Device \ {p} : check'[q] = check[q]
      /\ WaitInv(check'[p], outbox[p])
  BY <1>0, <1>1, <1>2, CheckingFacts DEF EachDevice
<1>6. EachDevice' /\ OthersStay(p)
  BY <1>0, <1>1, <1>3, <1>4, <1>5 DEF EachDevice, OthersStay
<1> QED BY <1>0, <1>1, <1>2, <1>3, <1>4, <1>5, <1>6, BoardStays, MoveStep

\* Submit: the games that it signs are an ending, and are in the URL.
LEMMA SubmitStep ==
  ASSUME PagesInv, NEW p \in Device, Submit(p)
  PROVE  PagesInv'
<1> DEFINE b == padScene.bestOf
           k == Len(results)
           f == page[p].fragment
           game == page[p].game
           r == replacesOf(f)
<1>0. /\ EachDevice /\ b \in {1, 3, 5, 7} /\ b \in Nat /\ k \in Nat /\ known[p] \in Found(b, k)
      /\ check[p] \in Checks(b, k) /\ WaitInv(check[p], outbox[p])
      /\ past[p] \in Seq(Pages(b, k)) /\ HistoryInv(page[p], past[p])
      /\ f \in Fragments(b, k) /\ game \in Nat
  BY OfDevice DEF PagesInv
<1>1. PICK typed \in padScene.typed :
        LET press == planPress(f.games, p \in Playing, game, typed, b) IN
        /\ press.does = "submit"
        /\ Drafted(p, Pad(game, Draft(press.games, r)))
        /\ SaveBoard(press.games)
        /\ doing' = [doing EXCEPT ![p] =
             [does |-> "submit", games |-> press.games, replaces |-> r,
              game |-> game, touched |-> FALSE]]
  BY Zenon DEF Submit
<1>2. /\ page[p].route = "pad" /\ padScene' = padScene /\ results' = results /\ past' = past
      /\ known' = known /\ outbox' = outbox /\ check' = check /\ signers' = signers
  BY DEF Submit
<1>3. f.games \in LegalBoards(b) /\ game \in Opens(f.games, b) /\ typed \in Input \X Input
      /\ r \in 0..k
  BY <1>2, OfDevice, FragmentFacts
<1> DEFINE games == planPress(f.games, p \in Playing, game, typed, b).games
<1>4. games \in LegalBoards(b) /\ check_ending(games, b) /\ game \in Opens(games, b)
  BY <1>0, <1>1, <1>3, PressFacts, Zenon
<1> DEFINE draft == Draft(games, r)
           new == Pad(game, draft)
           job == [does |-> "submit", games |-> games, replaces |-> r, game |-> game, touched |-> FALSE]
<1>5. /\ page' = [page EXCEPT ![p] = new] /\ SaveBoard(games) /\ doing' = [doing EXCEPT ![p] = job]
  BY <1>1, Zenon DEF Drafted
<1> HIDE DEF games, r, f, game
<1>6. draft \in Fragments(b, k) /\ draft.games = games
  BY <1>0, <1>3, <1>4, DraftFacts
<1>7. job \in Jobs(b, k) /\ job.does = "submit" /\ job.games = games /\ job.replaces = r
  BY <1>0, <1>3, <1>4 DEF Jobs, Submits
<1> HIDE DEF job
<1>8. JobInv(p, new, job)
  BY <1>7 DEF JobInv, Pad
<1> HIDE DEF draft
<1>9. new \in Pages(b, k) /\ new.route = "pad"
  BY <1>0, <1>4, <1>6, PadFacts
<1> HIDE DEF new
<1>10. HistoryInv(new, past[p])
  BY <1>0, <1>9 DEF HistoryInv
<1>11. board' \in LegalBoards(b)
  BY <1>4, <1>5, BoardFacts
<1>12. /\ page'[p] = new /\ DOMAIN page' = Device /\ \A q \in Device \ {p} : page'[q] = page[q]
       /\ doing'[p] = job /\ DOMAIN doing' = Device /\ \A q \in Device \ {p} : doing'[q] = doing[q]
  BY <1>0, <1>5 DEF EachDevice
<1>13. EachDevice' /\ OthersStay(p)
  BY <1>0, <1>2, <1>12 DEF EachDevice, OthersStay
<1> QED BY <1>0, <1>2, <1>7, <1>8, <1>9, <1>10, <1>11, <1>12, <1>13, MoveStep

\* What a step must show that leaves the pages alone.
LEMMA StillStep ==
  ASSUME PagesInv, NEW p \in Device, padScene' = padScene, results' = results,
         outbox' = outbox, signers' = signers, page' = page, past' = past, known' = known,
         board' = board, DOMAIN doing' = Device, DOMAIN check' = Device,
         \A q \in Device \ {p} : doing'[q] = doing[q] /\ check'[q] = check[q],
         doing'[p] \in Jobs(padScene.bestOf, Len(results)), JobInv(p, page[p], doing'[p]),
         check'[p] \in Checks(padScene.bestOf, Len(results)), WaitInv(check'[p], outbox[p])
  PROVE  PagesInv'
<1>1. EachDevice
  BY DEF PagesInv
<1>2. EachDevice' /\ OthersStay(p)
  BY <1>1 DEF EachDevice, OthersStay
<1> QED BY <1>2, OfDevice, MoveStep

\* No mutation is in flight on any page.
LEMMA NoJobFacts ==
  ASSUME NEW p, NEW e, NEW b, NEW k PROVE NoJob \in Jobs(b, k) /\ JobInv(p, e, NoJob)
BY DEF NoJob, Jobs, JobInv

\* A signing that fails leaves the page as it was.
LEMMA SigningFailsStep ==
  ASSUME PagesInv, NEW p \in Device, SigningFails(p)
  PROVE  PagesInv'
<1>1. /\ doing' = [doing EXCEPT ![p] = NoJob] /\ UNCHANGED apiVars
      /\ padScene' = padScene /\ results' = results /\ page' = page /\ past' = past
      /\ known' = known /\ outbox' = outbox /\ check' = check
  BY DEF SigningFails
<1>2. EachDevice
  BY DEF PagesInv
<1>3. /\ DOMAIN doing' = Device /\ DOMAIN check' = Device /\ doing'[p] = NoJob
      /\ \A q \in Device \ {p} : doing'[q] = doing[q] /\ check'[q] = check[q]
  BY <1>1, <1>2 DEF EachDevice
<1> QED BY <1>1, <1>3, NoJobFacts, OfDevice, BoardStays, StillStep

\* Approve is for a player whose signature isn't there yet.
LEMMA ApproveStep ==
  ASSUME PagesInv, NEW p \in Device, Approve(p)
  PROVE  PagesInv'
<1> DEFINE job == [does |-> "approve"]
<1>1. /\ doing' = [doing EXCEPT ![p] = job] /\ UNCHANGED apiVars
      /\ page[p].route = "approval" /\ \E counts \in PageReads : "approve" \in Offers(p, counts)
      /\ padScene' = padScene /\ results' = results /\ page' = page /\ past' = past
      /\ known' = known /\ outbox' = outbox /\ check' = check
  BY DEF Approve
<1>2. EachDevice
  BY DEF PagesInv
<1>3. /\ DOMAIN doing' = Device /\ DOMAIN check' = Device /\ doing'[p] = job
      /\ \A q \in Device \ {p} : doing'[q] = doing[q] /\ check'[q] = check[q]
  BY <1>1, <1>2 DEF EachDevice
<1>4. job \in Jobs(padScene.bestOf, Len(results)) /\ job.does = "approve"
  BY DEF Jobs
<1>5. p \in Playing /\ p \notin SidesOf(page[p].fragment)
  BY <1>1 DEF Offers, approvalFor
<1> HIDE DEF job
<1>6. JobInv(p, page[p], job)
  BY <1>1, <1>4, <1>5 DEF JobInv
<1> QED BY <1>1, <1>3, <1>4, <1>6, OfDevice, BoardStays, StillStep

\* A check's parts change one by one.
LEMMA ReloadStep ==
  ASSUME PagesInv, NEW p \in Device, Reload(p)
  PROVE  PagesInv'
<1> DEFINE b == padScene.bestOf
           k == Len(results)
           c == IF Shows(p) THEN [check[p] EXCEPT !.said = "loading", !.listens = FALSE] ELSE NoCheck
<1>1. /\ doing' = [doing EXCEPT ![p] = NoJob] /\ check' = [check EXCEPT ![p] = c] /\ UNCHANGED apiVars
      /\ padScene' = padScene /\ results' = results /\ page' = page /\ past' = past
      /\ known' = known /\ outbox' = outbox
  BY DEF Reload
<1>2. /\ EachDevice /\ b \in Nat /\ k \in Nat /\ check[p] \in Checks(b, k)
      /\ page[p].route = "approval" => page[p].fragment.result # 0
  BY OfDevice DEF PagesInv
<1> HIDE DEF c
<1>3. /\ DOMAIN doing' = Device /\ DOMAIN check' = Device /\ doing'[p] = NoJob /\ check'[p] = c
      /\ \A q \in Device \ {p} : doing'[q] = doing[q] /\ check'[q] = check[q]
  BY <1>1, <1>2 DEF EachDevice
<1>4. c \in Checks(b, k) /\ c.said # "waiting"
  <2>1. CASE Shows(p)
    <3>1. c = [check[p] EXCEPT !.said = "loading", !.listens = FALSE]
      BY <2>1 DEF c
    <3>2. page[p].route = "approval" /\ page[p].fragment = check[p].envelope
      BY <2>1 DEF Shows
    <3>3. check[p].envelope.result # 0
      BY <1>2, <3>2
    <3> QED BY <1>2, <3>1, <3>3 DEF Checks
  <2>2. CASE ~Shows(p)
    <3>1. c = NoCheck
      BY <2>2 DEF c
    <3>2. Draft(<<>>, 0) \in Fragments(b, k)
      BY <1>2, NoGamesYet, DraftFacts
    <3> QED BY <3>1, <3>2 DEF NoCheck, Checks
  <2> QED BY <2>1, <2>2
<1>5. WaitInv(c, outbox[p])
  BY <1>4 DEF WaitInv
<1> QED BY <1>1, <1>3, <1>4, <1>5, NoJobFacts, BoardStays, StillStep

\* approvalCheckQuery() answers, and doesn't listen yet.
LEMMA VerdictStep ==
  ASSUME PagesInv, NEW p \in Device, Verdict(p)
  PROVE  PagesInv'
<1> DEFINE b == padScene.bestOf
           k == Len(results)
           said == CASE check[p].said = "taken" -> "accepted"
                     [] check[p].said = "stale" /\ Waits(p, check[p].envelope) -> "waiting"
                     [] OTHER -> "refused"
           c == [check[p] EXCEPT !.said = said, !.listens = FALSE]
<1>1. /\ check[p].said \in {"taken", "stale"} /\ UNCHANGED apiVars
      /\ padScene' = padScene /\ results' = results /\ page' = page /\ past' = past
      /\ known' = known /\ outbox' = outbox /\ doing' = doing
  BY DEF Verdict, deviceVars
<1>2. EachDevice /\ b \in Nat /\ k \in Nat /\ check[p] \in Checks(b, k)
  BY OfDevice DEF PagesInv
<1>3. /\ DOMAIN doing' = Device /\ DOMAIN check' = Device
      /\ check'[p].said = said /\ check'[p].listens = FALSE /\ check'[p] = c
      /\ \A q \in Device \ {p} : doing'[q] = doing[q] /\ check'[q] = check[q]
  BY <1>1, <1>2 DEF EachDevice, Verdict, Checks
<1>4. said \in {"accepted", "waiting", "refused"}
  OBVIOUS
<1> HIDE DEF said
<1>5. c \in Checks(b, k)
  BY <1>1, <1>2, <1>4 DEF Checks
<1>6. WaitInv(check'[p], outbox[p])
  BY <1>3 DEF WaitInv
<1> QED BY <1>1, <1>3, <1>5, <1>6, OfDevice, BoardStays, StillStep

\* The page looks whether the envelope waits as it begins to listen.
LEMMA WatchStep ==
  ASSUME PagesInv, NEW p \in Device, Watch(p)
  PROVE  PagesInv'
<1> DEFINE b == padScene.bestOf
           k == Len(results)
           c == Recheck(p, ~Waits(p, check[p].envelope))
<1>1. /\ check[p].said = "waiting" /\ check' = [check EXCEPT ![p] = c] /\ UNCHANGED apiVars
      /\ padScene' = padScene /\ results' = results /\ page' = page /\ past' = past
      /\ known' = known /\ outbox' = outbox /\ doing' = doing
  BY DEF Watch, deviceVars
<1>2. EachDevice /\ b \in Nat /\ k \in Nat /\ check[p] \in Checks(b, k)
  BY OfDevice DEF PagesInv
<1>3. /\ c \in Checks(b, k)
      /\ c.said = "waiting" => Waits(p, c.envelope)
  <2>1. CASE Waits(p, check[p].envelope)
    <3>1. c = [check[p] EXCEPT !.listens = TRUE]
      BY <2>1 DEF Recheck
    <3>2. c \in Checks(b, k) /\ c.envelope = check[p].envelope
      BY <1>2, <3>1 DEF Checks
    <3> QED BY <2>1, <3>2
  <2>2. CASE ~Waits(p, check[p].envelope)
    <3>1. c = [check[p] EXCEPT !.listens = TRUE, !.said = "loading"]
      BY <2>2 DEF Recheck
    <3>2. c \in Checks(b, k) /\ c.said = "loading"
      BY <1>1, <1>2, <3>1 DEF Checks
    <3> QED BY <3>2
  <2> QED BY <2>1, <2>2
<1> HIDE DEF c
<1>4. /\ DOMAIN doing' = Device /\ DOMAIN check' = Device /\ check'[p] = c
      /\ \A q \in Device \ {p} : doing'[q] = doing[q] /\ check'[q] = check[q]
  BY <1>1, <1>2 DEF EachDevice
<1>5. WaitInv(c, outbox[p])
  BY <1>3 DEF WaitInv, Waits
<1> QED BY <1>1, <1>3, <1>4, <1>5, OfDevice, BoardStays, StillStep

-----------------------------------------------------------------------------
\* The API's record of what it took.
LEMMA RecordFacts ==
  ASSUME NEW envelope, Record(envelope)
  PROVE  DOMAIN signers' = DOMAIN signers \cup {envelope.result}
BY DEF Record, Taken

\* A check's answer, and what it took, are of a result.
LEMMA SendCheckStep ==
  ASSUME PagesInv, NEW p \in Device, SendCheck(p)
  PROVE  PagesInv'
<1> DEFINE b == padScene.bestOf
           k == Len(results)
           envelope == check[p].envelope
           said == IF Takes(envelope) THEN "taken" ELSE "stale"
           c == [check[p] EXCEPT !.said = said]
<1>1. /\ check[p].said = "loading" /\ board' = board
      /\ padScene' = padScene /\ results' = results /\ page' = page /\ past' = past
      /\ known' = known /\ outbox' = outbox /\ doing' = doing
      /\ check' = [check EXCEPT ![p] = c]
      /\ Record(envelope) \/ signers' = signers
  BY DEF SendCheck, deviceVars
<1>2. /\ EachDevice /\ b \in Nat /\ k \in Nat /\ check[p] \in Checks(b, k)
      /\ DOMAIN signers \subseteq 1..k
  BY OfDevice DEF PagesInv, ServiceInv
<1>3. envelope.result \in 1..k
  BY <1>1, <1>2, FragmentFacts DEF Checks
<1>4. DOMAIN signers \subseteq DOMAIN signers' /\ DOMAIN signers' \subseteq 1..k
  BY <1>1, <1>2, <1>3, RecordFacts
<1>5. said \in {"taken", "stale"}
  OBVIOUS
<1> HIDE DEF said
<1>6. c \in Checks(b, k) /\ c.said # "waiting"
  BY <1>1, <1>2, <1>5 DEF Checks
<1> HIDE DEF c
<1>7. /\ DOMAIN check' = Device /\ check'[p] = c
      /\ \A q \in Device \ {p} : check'[q] = check[q]
  BY <1>1, <1>2 DEF EachDevice
<1>8. EachDevice' /\ OthersStay(p)
  BY <1>1, <1>2, <1>7 DEF EachDevice, OthersStay
<1>9. DeviceTypes(p, b, k) /\ DeviceInv(p) /\ board \in LegalBoards(b)
  BY DEF PagesInv, ServiceInv
<1>10. DeviceTypes(p, b, k)' /\ DeviceInv(p)'
  BY <1>1, <1>6, <1>7, <1>9 DEF DeviceTypes, DeviceInv, WaitInv
<1>11. NothingOrphaned'
  BY <1>1, <1>4, OrphansStay
<1> QED BY <1>1, <1>4, <1>8, <1>9, <1>10, <1>11, DeviceStep

\* How many of a sequence come after one.
LEMMA HowManyAfter ==
  ASSUME NEW m \in Nat, NEW n \in 1..m
  PROVE  (IF n + 1 <= m THEN m - (n + 1) + 1 ELSE 0) = m - n
<1>1. CASE n + 1 <= m
  BY <1>1
<1>2. CASE ~(n + 1 <= m)
  <2>1. n = m
    BY <1>2
  <2> QED BY <2>1
<1> QED BY <1>1, <1>2

\* A queue without its nth envelope.
LEMMA RemovedFacts ==
  ASSUME NEW S, NEW queue \in Seq(S), NEW n \in 1..Len(queue)
  PROVE  LET rest == SubSeq(queue, 1, n - 1) \o SubSeq(queue, n + 1, Len(queue)) IN
         /\ rest \in Seq(S)
         /\ \A m \in 1..Len(queue) : m # n => \E o \in 1..Len(rest) : rest[o] = queue[m]
<1> DEFINE first == SubSeq(queue, 1, n - 1)
           last == SubSeq(queue, n + 1, Len(queue))
           k == n - 1
           l == Len(queue) - n
<1>1. /\ Len(queue) \in Nat /\ n \in Nat /\ k \in Nat /\ l \in Nat /\ Len(queue) = n + l /\ n = k + 1
      /\ \A m \in 1..Len(queue) : queue[m] \in S
  OBVIOUS
<1>2. first \in Seq(S) /\ Len(first) = k /\ \A m \in 1..k : first[m] = queue[m]
  <2>1. \A m \in 1..k : queue[m] \in S
    BY <1>1
  <2> HIDE DEF k
  <2>2. /\ SubSeq(queue, 1, k) \in Seq(S) /\ Len(SubSeq(queue, 1, k)) = k
        /\ \A m \in 1..k : SubSeq(queue, 1, k)[m] = queue[m]
    BY <1>1, <2>1
  <2> QED BY <2>2 DEF k
<1>3. last \in Seq(S) /\ Len(last) = l /\ \A m \in 1..l : last[m] = queue[n + m]
  <2>1. /\ SubSeq(queue, n + 1, Len(queue)) =
             [i \in 1..(IF n + 1 <= Len(queue) THEN Len(queue) - (n + 1) + 1 ELSE 0) |->
                queue[(n + 1) + i - 1]]
    BY <1>1
  <2>2. (IF n + 1 <= Len(queue) THEN Len(queue) - (n + 1) + 1 ELSE 0) = l
    BY <1>1, HowManyAfter
  <2>3. \A i \in 1..l : (n + 1) + i - 1 = n + i /\ n + i \in 1..Len(queue)
    BY <1>1
  <2>4. last = [i \in 1..l |-> queue[n + i]]
    BY <2>1, <2>2, <2>3
  <2>5. \A i \in 1..l : queue[n + i] \in S
    BY <1>1, <2>3
  <2> HIDE DEF last, l
  <2> QED BY <1>1, <2>4, <2>5
<1> HIDE DEF first, last, k, l
<1> DEFINE rest == first \o last
<1>4. rest \in Seq(S) /\ Len(rest) = k + l
  <2>1. rest \in Seq(S)
    BY <1>2, <1>3
  <2>2. Len(rest) = Len(first) + Len(last)
    BY <1>2, <1>3, ConcatProperties
  <2> QED BY <2>1, <2>2, <1>2, <1>3
<1>5. /\ \A m \in 1..k : rest[m] = first[m]
      /\ \A m \in 1..l : rest[k + m] = last[m]
  BY <1>1, <1>2, <1>3
<1> HIDE DEF rest
<1>6. ASSUME NEW m \in 1..Len(queue), m # n
      PROVE  \E o \in 1..Len(rest) : rest[o] = queue[m]
  <2>1. CASE m < n
    <3>1. m \in 1..k /\ m \in 1..Len(rest)
      BY <1>1, <1>4, <2>1
    <3>2. rest[m] = queue[m]
      BY <3>1, <1>2, <1>5
    <3> QED BY <3>1, <3>2
  <2>2. CASE m > n
    <3>1. m - n \in 1..l /\ n + (m - n) = m /\ k + (m - n) \in 1..Len(rest)
      BY <1>1, <1>4, <2>2
    <3>2. rest[k + (m - n)] = last[m - n] /\ last[m - n] = queue[n + (m - n)]
      BY <3>1, <1>3, <1>5
    <3>3. queue[n + (m - n)] = queue[m]
      BY <3>1
    <3> QED BY <3>1, <3>2, <3>3
  <2> QED BY <2>1, <2>2, <1>6, <1>1
<1> QED BY <1>4, <1>6 DEF rest, first, last

\* An envelope leaves an outbox when the API took it or, after a day, refused it.
LEMMA SettleStep ==
  ASSUME PagesInv, NEW p \in Device, NEW n \in 1..Len(outbox[p]), Settle(p, n),
         padScene' = padScene, results' = results, UNCHANGED deviceVars, board' = board,
         DOMAIN signers \subseteq DOMAIN signers', DOMAIN signers' \subseteq 1..Len(results),
         "day" \in padScene.may \/ outbox[p][n].result \in DOMAIN signers'
  PROVE  PagesInv'
<1> DEFINE b == padScene.bestOf
           k == Len(results)
           queue == outbox[p]
           rest == SubSeq(queue, 1, n - 1) \o SubSeq(queue, n + 1, Len(queue))
           heard == check[p].said = "waiting" /\ check[p].listens /\ check[p].envelope = queue[n]
           c == IF heard THEN [check[p] EXCEPT !.said = "loading"] ELSE check[p]
<1>1. /\ EachDevice /\ queue \in Seq(Envelopes(b, k)) /\ check[p] \in Checks(b, k)
      /\ WaitInv(check[p], queue)
  BY OfDevice DEF PagesInv
<1>2. outbox' = [outbox EXCEPT ![p] = rest] /\ check' = [check EXCEPT ![p] = c]
  BY DEF Settle
<1>3. /\ rest \in Seq(Envelopes(b, k))
      /\ \A m \in 1..Len(queue) : m # n => \E o \in 1..Len(rest) : rest[o] = queue[m]
  BY <1>1, RemovedFacts
<1>4. c \in Checks(b, k) /\ (c.said = "waiting" => c = check[p] /\ ~heard)
  <2>1. CASE heard
    <3>1. c = [check[p] EXCEPT !.said = "loading"] /\ check[p].said = "waiting"
      BY <2>1
    <3> HIDE DEF c
    <3> QED BY <1>1, <3>1 DEF Checks
  <2>2. CASE ~heard
    <3>1. c = check[p]
      BY <2>2
    <3> HIDE DEF c, heard
    <3> QED BY <1>1, <2>2, <3>1
  <2> QED BY <2>1, <2>2
<1>5. WaitInv(c, rest)
  <2> SUFFICES ASSUME c.said = "waiting", c.listens
               PROVE  \E o \in 1..Len(rest) : rest[o] = c.envelope
    BY DEF WaitInv
  <2>1. c = check[p] /\ ~heard
    BY <1>4
  <2> HIDE DEF c, rest
  <2>2. PICK m \in 1..Len(queue) : queue[m] = c.envelope
    BY <1>1, <2>1 DEF WaitInv
  <2>3. m # n
    BY <2>1, <2>2
  <2> QED BY <1>3, <2>2, <2>3
<1> HIDE DEF c, rest
<1>6. /\ DOMAIN outbox' = Device /\ outbox'[p] = rest /\ DOMAIN check' = Device /\ check'[p] = c
      /\ \A q \in Device \ {p} : outbox'[q] = outbox[q] /\ check'[q] = check[q]
  BY <1>1, <1>2 DEF EachDevice
<1>7. page' = page /\ past' = past /\ doing' = doing /\ known' = known
  BY DEF deviceVars
<1>8. EachDevice' /\ OthersStay(p)
  BY <1>1, <1>6, <1>7 DEF EachDevice, OthersStay
<1>9. DeviceTypes(p, b, k) /\ DeviceInv(p) /\ board \in LegalBoards(b)
  BY DEF PagesInv, ServiceInv
<1>10. DeviceTypes(p, b, k)' /\ DeviceInv(p)'
  BY <1>3, <1>4, <1>5, <1>6, <1>7, <1>9 DEF DeviceTypes, DeviceInv
<1>11. NothingOrphaned'
  <2>1. \A m \in 1..Len(outbox[p]) :
          \/ "day" \in padScene.may \/ outbox[p][m].result \in DOMAIN signers'
          \/ \E o \in 1..Len(outbox'[p]) : outbox'[p][o] = outbox[p][m]
    BY <1>3, <1>6
  <2> QED BY <1>6, <2>1, OrphansStay
<1> QED BY <1>8, <1>9, <1>10, <1>11, DeviceStep

\* A pass sends the oldest result that isn't stale.
LEMMA SendStep ==
  ASSUME PagesInv, NEW p \in Device, Send(p)
  PROVE  PagesInv'
<1>1. PICK n \in 1..Len(outbox[p]) : Record(outbox[p][n]) /\ Settle(p, n)
  BY DEF Send
<1>2. padScene' = padScene /\ results' = results /\ UNCHANGED deviceVars /\ board' = board
  BY DEF Send
<1>3. outbox[p][n] \in Envelopes(padScene.bestOf, Len(results)) /\ Len(results) \in Nat
      /\ padScene.bestOf \in Nat /\ DOMAIN signers \subseteq 1..Len(results)
  BY OfDevice DEF PagesInv, ServiceInv
<1>4. outbox[p][n].result \in 1..Len(results)
  BY <1>3, FragmentFacts DEF Envelopes
<1>5. DOMAIN signers' = DOMAIN signers \cup {outbox[p][n].result}
  BY <1>1, RecordFacts
<1> QED BY <1>1, <1>2, <1>3, <1>4, <1>5, SettleStep

\* A result that is stale for a day leaves its outbox.
LEMMA GiveUpStep ==
  ASSUME PagesInv, NEW p \in Device, GiveUp(p)
  PROVE  PagesInv'
<1>1. PICK n \in 1..Len(outbox[p]) : Settle(p, n)
  BY DEF GiveUp
<1>2. /\ padScene' = padScene /\ results' = results /\ UNCHANGED deviceVars
      /\ board' = board /\ signers' = signers /\ "day" \in padScene.may
  BY DEF GiveUp, apiVars
<1>3. DOMAIN signers \subseteq 1..Len(results)
  BY DEF PagesInv, ServiceInv
<1> QED BY <1>1, <1>2, <1>3, SettleStep

\* A link that a device opens is another's page.
LEMMA OpenLinkStep ==
  ASSUME PagesInv, NEW p \in Device, OpenLink(p)
  PROVE  PagesInv'
<1> DEFINE b == padScene.bestOf
           k == Len(results)
<1>1. PICK q \in Device : /\ page[q].route \in {"submission", "approval"}
                          /\ page' = [page EXCEPT ![p] = Approval(page[q].fragment)]
                          /\ Checking(p, Approval(page[q].fragment))
  BY DEF OpenLink
<1> DEFINE new == Approval(page[q].fragment)
<1>2. /\ doing[p] = NoJob /\ past' = [past EXCEPT ![p] = <<>>] /\ UNCHANGED apiVars
      /\ padScene' = padScene /\ results' = results /\ doing' = doing
      /\ known' = known /\ outbox' = outbox
  BY DEF OpenLink
<1>3. /\ EachDevice /\ b \in Nat /\ k \in Nat /\ known[p] \in Found(b, k)
      /\ check[p] \in Checks(b, k) /\ doing[p] \in Jobs(b, k)
  BY OfDevice DEF PagesInv
<1>4. new \in Pages(b, k) /\ new.route = "approval"
  <2>1. page[q].fragment \in Fragments(b, k) /\ page[q].fragment.result # 0
    BY <1>1, OfDevice
  <2> QED BY <2>1 DEF Approval, Pages
<1> HIDE DEF new
<1>5. /\ page'[p] = new /\ past'[p] = <<>> /\ DOMAIN page' = Device /\ DOMAIN past' = Device
      /\ \A o \in Device \ {p} : page'[o] = page[o] /\ past'[o] = past[o]
  BY <1>1, <1>2, <1>3 DEF EachDevice, new
<1>6. HistoryInv(new, <<>>) /\ <<>> \in Seq(Pages(b, k))
  BY <1>4 DEF HistoryInv
<1>7. /\ check'[p] \in Checks(b, k) /\ DOMAIN check' = Device
      /\ \A o \in Device \ {p} : check'[o] = check[o]
      /\ WaitInv(check'[p], outbox[p])
  BY <1>1, <1>3, <1>4, CheckingFacts DEF EachDevice, new
<1>8. JobInv(p, new, doing'[p])
  BY <1>2, NoJobFacts
<1>9. EachDevice' /\ OthersStay(p)
  BY <1>2, <1>3, <1>5, <1>7 DEF EachDevice, OthersStay
<1> QED BY <1>2, <1>3, <1>4, <1>5, <1>6, <1>7, <1>8, <1>9, BoardStays, MoveStep

-----------------------------------------------------------------------------
\* An envelope that is queued waits, and so does everything that waited.
LEMMA QueuedFacts ==
  ASSUME NEW S, NEW queue \in Seq(S), NEW e \in S
  PROVE  /\ Queued(queue, e) \in Seq(S)
         /\ \A n \in 1..Len(queue) : \E m \in 1..Len(Queued(queue, e)) : Queued(queue, e)[m] = queue[n]
         /\ \E m \in 1..Len(Queued(queue, e)) : Queued(queue, e)[m] = e
<1>1. CASE \E n \in 1..Len(queue) : queue[n] = e
  <2>1. Queued(queue, e) = queue
    BY <1>1 DEF Queued
  <2> QED BY <1>1, <2>1
<1>2. CASE ~\E n \in 1..Len(queue) : queue[n] = e
  <2> DEFINE more == Append(queue, e)
  <2>1. Queued(queue, e) = more
    BY <1>2 DEF Queued
  <2>2. /\ more \in Seq(S) /\ Len(queue) \in Nat /\ Len(more) = Len(queue) + 1
        /\ more[Len(queue) + 1] = e /\ \A n \in 1..Len(queue) : more[n] = queue[n]
    OBVIOUS
  <2> HIDE DEF more
  <2>3. Len(queue) + 1 \in 1..Len(more) /\ \A n \in 1..Len(queue) : n \in 1..Len(more)
    BY <2>2
  <2> QED BY <2>1, <2>2, <2>3
<1> QED BY <1>1, <1>2

\* An envelope with a signature of a side that hadn't signed it.
LEMMA SignedFacts ==
  ASSUME NEW b \in Nat, NEW k \in Nat, NEW f \in Fragments(b, k), NEW p \in Device,
         p \notin SidesOf(f)
  PROVE  /\ [f EXCEPT !.by = Append(f.by, p)] \in Fragments(b, k)
         /\ [f EXCEPT !.by = Append(f.by, p)].result = f.result
<1> DEFINE new == [f EXCEPT !.by = Append(f.by, p)]
<1>1. f \in [games : LegalBoards(b), replaces : 0..k, result : 0..k, by : Seq(Device)] /\ OnceSigned(f)
  BY DEF Fragments
<1>2. /\ new \in [games : LegalBoards(b), replaces : 0..k, result : 0..k, by : Seq(Device)]
      /\ new.by = Append(f.by, p) /\ new.result = f.result /\ f.by \in Seq(Device)
  <2>1. f.by \in Seq(Device)
    BY <1>1
  <2> DEFINE more == Append(f.by, p)
  <2>2. more \in Seq(Device)
    BY <2>1
  <2> HIDE DEF more
  <2>3. /\ [f EXCEPT !.by = more] \in
             [games : LegalBoards(b), replaces : 0..k, result : 0..k, by : Seq(Device)]
        /\ [f EXCEPT !.by = more].by = more /\ [f EXCEPT !.by = more].result = f.result
    BY <1>1, <2>2
  <2> QED BY <2>1, <2>3 DEF more
<1> HIDE DEF new
<1> DEFINE more == Append(f.by, p)
<1>3. /\ Len(f.by) \in Nat /\ Len(more) = Len(f.by) + 1
      /\ \A n \in 1..Len(f.by) : more[n] = f.by[n] /\ more[Len(f.by) + 1] = p
  BY <1>2
<1>31. more[Len(f.by) + 1] = p
  BY <1>2
<1>4. new.by = more
  BY <1>2
<1> HIDE DEF more
<1>5. SidesOf(new) = SidesOf(f) \cup {p}
  <2>1. \A x : x \in SidesOf(new) <=> \E n \in 1..Len(more) : x = more[n]
    BY <1>4 DEF SidesOf
  <2>2. \A x : x \in SidesOf(f) <=> \E n \in 1..Len(f.by) : x = f.by[n]
    BY DEF SidesOf
  <2>3. ASSUME NEW x, x \in SidesOf(new) PROVE x \in SidesOf(f) \cup {p}
    <3>1. PICK n \in 1..Len(more) : x = more[n]
      BY <2>1, <2>3
    <3>2. CASE n \in 1..Len(f.by)
      BY <1>3, <2>2, <3>1, <3>2
    <3>3. CASE n \notin 1..Len(f.by)
      <4>1. n = Len(f.by) + 1
        BY <1>3, <3>3
      <4> QED BY <1>31, <3>1, <4>1
    <3> QED BY <3>2, <3>3
  <2>4. ASSUME NEW x, x \in SidesOf(f) \cup {p} PROVE x \in SidesOf(new)
    <3>1. CASE x \in SidesOf(f)
      <4>1. PICK n \in 1..Len(f.by) : x = f.by[n]
        BY <2>2, <3>1
      <4>2. n \in 1..Len(more) /\ more[n] = x
        BY <1>3, <4>1
      <4> QED BY <2>1, <4>2
    <3>2. CASE x = p
      <4>1. Len(f.by) + 1 \in 1..Len(more)
        BY <1>3
      <4> QED BY <1>31, <2>1, <3>2, <4>1
    <3> QED BY <2>4, <3>1, <3>2
  <2> QED BY <2>3, <2>4
<1>6. IsFiniteSet(SidesOf(f)) /\ Cardinality(SidesOf(f)) = Len(f.by)
  BY <1>1 DEF OnceSigned
<1>7. IsFiniteSet(SidesOf(new)) /\ Cardinality(SidesOf(new)) = Cardinality(SidesOf(f)) + 1
  BY <1>5, <1>6, FS_AddElement, Zenon
<1>8. OnceSigned(new)
  BY <1>3, <1>4, <1>6, <1>7 DEF OnceSigned
<1>9. new \in Fragments(b, k)
  BY <1>2, <1>8, Zenon DEF Fragments
<1> QED BY <1>2, <1>9 DEF new

\* The approval's signature is there.
LEMMA ApprovedStep ==
  ASSUME PagesInv, NEW p \in Device, Approved(p)
  PROVE  PagesInv'
<1> DEFINE b == padScene.bestOf
           k == Len(results)
           link == page[p].fragment
           approved == [link EXCEPT !.by = Append(link.by, p)]
           new == Approval(approved)
           first == Queued(outbox[p], link)
           queue == Queued(first, approved)
<1>1. /\ doing[p].does = "approve" /\ doing' = [doing EXCEPT ![p] = NoJob]
      /\ outbox' = [outbox EXCEPT ![p] = queue]
      /\ Replace(p, new) /\ Checking(p, new) /\ UNCHANGED apiVars
      /\ padScene' = padScene /\ results' = results /\ known' = known
  BY DEF Approved
<1>2. /\ EachDevice /\ b \in Nat /\ k \in Nat /\ known[p] \in Found(b, k)
      /\ check[p] \in Checks(b, k) /\ link \in Fragments(b, k)
      /\ outbox[p] \in Seq(Envelopes(b, k)) /\ JobInv(p, page[p], doing[p])
  BY OfDevice DEF PagesInv
<1>3. page[p].route = "approval" /\ p \notin SidesOf(link)
  BY <1>1, <1>2 DEF JobInv
<1>4. link.result # 0
  BY <1>3, OfDevice
<1> HIDE DEF link, b, k
<1>5. approved \in Fragments(b, k) /\ approved.result = link.result
  <2>1. approved \in Fragments(b, k)
    BY <1>2, <1>3, SignedFacts
  <2>2. approved.result = link.result
    BY <1>2, <1>3, SignedFacts
  <2> QED BY <2>1, <2>2
<1> HIDE DEF approved
<1>6. new \in Pages(b, k) /\ new.route = "approval"
  BY <1>4, <1>5 DEF Approval, Pages
<1> HIDE DEF new
<1> USE DEF b, k
<1>7. link \in Envelopes(b, k) /\ approved \in Envelopes(b, k)
  BY <1>2, <1>4, <1>5 DEF Envelopes
<1>8. /\ first \in Seq(Envelopes(b, k))
      /\ \A n \in 1..Len(outbox[p]) : \E m \in 1..Len(first) : first[m] = outbox[p][n]
  <2> DEFINE S == Envelopes(b, k)
             old == outbox[p]
  <2>1. old \in Seq(S) /\ link \in S
    BY <1>2, <1>7
  <2> HIDE DEF S, old
  <2>2. /\ Queued(old, link) \in Seq(S)
        /\ \A n \in 1..Len(old) :
             \E m \in 1..Len(Queued(old, link)) : Queued(old, link)[m] = old[n]
    <3>1. Queued(old, link) \in Seq(S)
      BY <2>1, QueuedFacts
    <3>2. \A n \in 1..Len(old) :
             \E m \in 1..Len(Queued(old, link)) : Queued(old, link)[m] = old[n]
      BY <2>1, QueuedFacts
    <3> QED BY <3>1, <3>2
  <2> QED BY <2>2 DEF S, old
<1> HIDE DEF first
<1>9. /\ queue \in Seq(Envelopes(b, k))
      /\ \A n \in 1..Len(first) : \E m \in 1..Len(queue) : queue[m] = first[n]
  BY <1>7, <1>8, QueuedFacts
<1> HIDE DEF queue
<1>10. /\ page'[p] = new /\ past'[p] \in Seq(Pages(b, k)) /\ HistoryInv(new, past'[p])
       /\ DOMAIN page' = Device /\ DOMAIN past' = Device
       /\ \A q \in Device \ {p} : page'[q] = page[q] /\ past'[q] = past[q]
  BY <1>1, <1>6, ReplaceFacts
<1>11. /\ check'[p] \in Checks(b, k) /\ DOMAIN check' = Device
       /\ \A q \in Device \ {p} : check'[q] = check[q]
       /\ WaitInv(check'[p], queue)
  BY <1>1, <1>2, <1>6, CheckingFacts DEF EachDevice
<1>12. /\ doing'[p] = NoJob /\ DOMAIN doing' = Device /\ outbox'[p] = queue /\ DOMAIN outbox' = Device
       /\ \A q \in Device \ {p} : doing'[q] = doing[q] /\ outbox'[q] = outbox[q]
  BY <1>1, <1>2 DEF EachDevice
<1>13. EachDevice' /\ OthersStay(p)
  BY <1>1, <1>2, <1>10, <1>11, <1>12 DEF EachDevice, OthersStay
<1>14. DeviceTypes(p, b, k)'
  BY <1>1, <1>2, <1>6, <1>9, <1>10, <1>11, <1>12, NoJobFacts DEF DeviceTypes
<1>15. DeviceInv(p)'
  BY <1>10, <1>11, <1>12, NoJobFacts DEF DeviceInv
<1>16. NothingOrphaned'
  <2>1. ASSUME NEW n \in 1..Len(outbox[p])
        PROVE  \E m \in 1..Len(outbox'[p]) : outbox'[p][m] = outbox[p][n]
    <3>1. PICK i \in 1..Len(first) : first[i] = outbox[p][n]
      BY <1>8
    <3>2. PICK m \in 1..Len(queue) : queue[m] = first[i]
      BY <1>9
    <3> QED BY <3>1, <3>2, <1>12
  <2>2. signers' = signers
    BY <1>1, BoardStays
  <2> QED BY <1>1, <1>12, <2>1, <2>2, OrphansStay
<1>17. DOMAIN signers \subseteq 1..k /\ board \in LegalBoards(b)
  BY DEF PagesInv, ServiceInv
<1> QED BY <1>1, <1>13, <1>14, <1>15, <1>16, <1>17, BoardStays, DeviceStep

\* A new result leaves what other devices have in its set.
LEMMA StaysTyped ==
  ASSUME NEW q \in Device, NEW b \in Nat, NEW k \in Nat, DeviceTypes(q, b, k)
  PROVE  DeviceTypes(q, b, k + 1)
<1>1. /\ page[q] \in Pages(b, k) /\ past[q] \in Seq(Pages(b, k))
      /\ doing[q] \in Jobs(b, k) /\ outbox[q] \in Seq(Envelopes(b, k))
      /\ known[q] \in Found(b, k) /\ check[q] \in Checks(b, k)
  BY DEF DeviceTypes
<1>2. /\ Envelopes(b, k) \subseteq Envelopes(b, k + 1)
      /\ Pages(b, k) \subseteq Pages(b, k + 1)
      /\ Jobs(b, k) \subseteq Jobs(b, k + 1)
      /\ Found(b, k) \subseteq Found(b, k + 1)
      /\ Checks(b, k) \subseteq Checks(b, k + 1)
  BY MoreResults
<1>3. ASSUME NEW S, NEW T, S \subseteq T, NEW s \in Seq(S) PROVE s \in Seq(T)
  <2>1. Len(s) \in Nat /\ s = [n \in 1..Len(s) |-> s[n]] /\ \A n \in 1..Len(s) : s[n] \in T
    BY <1>3
  <2> QED BY <2>1
<1>4. past[q] \in Seq(Pages(b, k + 1))
  BY <1>1, <1>2, <1>3
<1>5. outbox[q] \in Seq(Envelopes(b, k + 1))
  BY <1>1, <1>2, <1>3
<1> QED BY <1>1, <1>2, <1>4, <1>5 DEF DeviceTypes

\* The envelope that one side signed first.
LEMMA FirstSigned ==
  ASSUME NEW b \in Nat, NEW k \in Nat, NEW job \in Submits(b, k), NEW p \in Device
  PROVE  LET envelope == [games |-> job.games, replaces |-> job.replaces, result |-> k + 1, by |-> <<p>>]
         IN /\ envelope \in Envelopes(b, k + 1) /\ envelope \in Fragments(b, k + 1)
            /\ envelope.result = k + 1 /\ envelope.games = job.games
<1> DEFINE envelope == [games |-> job.games, replaces |-> job.replaces, result |-> k + 1, by |-> <<p>>]
<1>1. job.games \in LegalBoards(b) /\ job.replaces \in 0..k + 1
  BY DEF Submits
<1>2. /\ envelope \in [games : LegalBoards(b), replaces : 0..k + 1, result : 0..k + 1, by : Seq(Device)]
      /\ envelope.by = <<p>> /\ envelope.result = k + 1 /\ envelope.games = job.games
  BY <1>1
<1> HIDE DEF envelope
<1>3. SidesOf(envelope) = {p} /\ Len(envelope.by) = 1
  BY <1>2 DEF SidesOf
<1>4. IsFiniteSet({p}) /\ Cardinality({p}) = 1
  BY FS_Singleton
<1>5. OnceSigned(envelope)
  BY <1>3, <1>4 DEF OnceSigned
<1>6. envelope \in Fragments(b, k + 1)
  BY <1>2, <1>5, Zenon DEF Fragments
<1>7. envelope \in Envelopes(b, k + 1)
  BY <1>2, <1>6 DEF Envelopes
<1> QED BY <1>2, <1>6, <1>7 DEF envelope

\* A submission is pushed on the pad that holds it.
LEMMA PushedSubmission ==
  ASSUME NEW S, NEW below \in Seq(S), NEW e, HistoryInv(e, below), NEW pad \in S,
         pad.route = "pad", NEW new, Holds(pad, new)
  PROVE  HistoryInv(new, Append(below, pad)) /\ Append(below, pad) \in Seq(S)
<1>1. HistoryInv(pad, below)
  BY DEF HistoryInv
<1>2. HistoryInv(pad, Append(below, pad)) /\ Append(below, pad) \in Seq(S)
  BY <1>1, PushedHistory
<1>3. Len(Append(below, pad)) > 0 /\ Append(below, pad)[Len(Append(below, pad))] = pad
  OBVIOUS
<1> QED BY <1>2, <1>3 DEF HistoryInv

\* Sign: one more result, on a page above the pad that holds it, in the outbox.
LEMMA SignStep ==
  ASSUME PagesInv, NEW p \in Device, Sign(p)
  PROVE  PagesInv'
<1> DEFINE b == padScene.bestOf
           k == Len(results)
           job == doing[p]
           envelope == [games |-> job.games, replaces |-> job.replaces, result |-> k + 1, by |-> <<p>>]
           new == Submission(envelope)
           pad == Pad(job.game, envelope)
           signed == [games |-> job.games, replaces |-> job.replaces]
           queue == Queued(outbox[p], envelope)
<1>1. /\ job.does = "submit" /\ results' = Append(results, signed)
      /\ page' = [page EXCEPT ![p] = new] /\ past' = [past EXCEPT ![p] = Append(past[p], pad)]
      /\ outbox' = [outbox EXCEPT ![p] = queue]
      /\ Checking(p, new) /\ SaveBoard(job.games) /\ doing' = [doing EXCEPT ![p] = NoJob]
      /\ padScene' = padScene /\ known' = known /\ signers' = signers
  BY DEF Sign, AfterSigning, QueueSigned, Under
<1>2. /\ ServiceInv /\ EachDevice /\ b \in Nat /\ k \in Nat /\ job \in Jobs(b, k)
      /\ HistoryInv(page[p], past[p])
  BY OfDevice DEF PagesInv
<1>3. \A q \in Device : DeviceTypes(q, b, k + 1) /\ DeviceInv(q)
  BY <1>2, StaysTyped DEF PagesInv
<1>4. job \in Submits(b, k)
  BY <1>1, <1>2 DEF Jobs, NoJob
<1>5. /\ job.games \in LegalBoards(b) /\ job.replaces \in 0..k
      /\ check_ending(job.games, b) /\ job.game \in Opens(job.games, b)
  BY <1>4 DEF Submits
<1>6. /\ envelope \in Envelopes(b, k + 1) /\ envelope \in Fragments(b, k + 1)
      /\ envelope.result = k + 1 /\ envelope.games = job.games
  BY <1>2, <1>4, FirstSigned
<1>7. signed \in ResultsOf(b) /\ signed.replaces = job.replaces /\ signed.games = job.games
  BY <1>2, <1>5 DEF ResultsOf
<1> HIDE DEF envelope, signed, b, k
<1>8. new \in Pages(b, k + 1) /\ new.route = "submission" /\ new.fragment = envelope
  BY <1>2, <1>6 DEF Submission, Pages
<1>9. pad \in Pages(b, k + 1) /\ pad.route = "pad" /\ pad.fragment = envelope
  BY <1>2, <1>5, <1>6, PadFacts
<1> HIDE DEF new, pad, job
<1>10. Holds(pad, new)
  BY <1>2, <1>6, <1>8, <1>9 DEF Holds, replacesOf
<1>11. /\ past[p] \in Seq(Pages(b, k + 1)) /\ outbox[p] \in Seq(Envelopes(b, k + 1))
       /\ check[p] \in Checks(b, k + 1) /\ known[p] \in Found(b, k + 1)
  BY <1>3 DEF DeviceTypes
<1>12. HistoryInv(new, Append(past[p], pad)) /\ Append(past[p], pad) \in Seq(Pages(b, k + 1))
  BY <1>2, <1>9, <1>10, <1>11, PushedSubmission
<1>13. /\ queue \in Seq(Envelopes(b, k + 1))
       /\ \A n \in 1..Len(outbox[p]) : \E m \in 1..Len(queue) : queue[m] = outbox[p][n]
       /\ \E m \in 1..Len(queue) : queue[m] = envelope
  <2> DEFINE S == Envelopes(b, k + 1)
             old == outbox[p]
  <2>1. old \in Seq(S) /\ envelope \in S
    BY <1>6, <1>11
  <2> HIDE DEF S, old
  <2>2. Queued(old, envelope) \in Seq(S)
    BY <2>1, QueuedFacts
  <2>3. \A n \in 1..Len(old) :
          \E m \in 1..Len(Queued(old, envelope)) : Queued(old, envelope)[m] = old[n]
    BY <2>1, QueuedFacts
  <2>4. \E m \in 1..Len(Queued(old, envelope)) : Queued(old, envelope)[m] = envelope
    BY <2>1, QueuedFacts
  <2> QED BY <2>2, <2>3, <2>4 DEF S, old
<1> HIDE DEF queue
<1>14. /\ check'[p] \in Checks(b, k + 1) /\ DOMAIN check' = Device
       /\ \A q \in Device \ {p} : check'[q] = check[q]
       /\ WaitInv(check'[p], queue)
  BY <1>1, <1>2, <1>8, <1>11, CheckingFacts DEF EachDevice
<1>15. /\ page'[p] = new /\ past'[p] = Append(past[p], pad) /\ outbox'[p] = queue /\ doing'[p] = NoJob
       /\ known'[p] = known[p]
       /\ DOMAIN page' = Device /\ DOMAIN past' = Device /\ DOMAIN outbox' = Device
       /\ DOMAIN doing' = Device /\ DOMAIN known' = Device
       /\ \A q \in Device \ {p} : /\ page'[q] = page[q] /\ past'[q] = past[q] /\ outbox'[q] = outbox[q]
                                  /\ doing'[q] = doing[q] /\ known'[q] = known[q]
  BY <1>1, <1>2 DEF EachDevice
<1>16. EachDevice' /\ OthersStay(p)
  BY <1>14, <1>15 DEF EachDevice, OthersStay
<1>17. /\ Len(results') = k + 1 /\ results' \in Seq(ResultsOf(b)) /\ results'[k + 1] = signed
       /\ \A r \in 1..k : results'[r] = results[r]
  <2>1. results \in Seq(ResultsOf(b))
    BY <1>2 DEF ServiceInv, b
  <2> QED BY <1>1, <1>7, <2>1 DEF k
<1>18. padScene'.bestOf = b /\ Len(results') = k + 1
  BY <1>1, <1>17 DEF b
<1>19. ASSUME NEW q \in Device
       PROVE  /\ page'[q] \in Pages(b, k + 1) /\ past'[q] \in Seq(Pages(b, k + 1))
              /\ doing'[q] \in Jobs(b, k + 1) /\ outbox'[q] \in Seq(Envelopes(b, k + 1))
              /\ known'[q] \in Found(b, k + 1) /\ check'[q] \in Checks(b, k + 1)
              /\ HistoryInv(page'[q], past'[q]) /\ JobInv(q, page'[q], doing'[q])
              /\ WaitInv(check'[q], outbox'[q])
  <2>1. CASE q # p
    BY <1>3, <2>1, <1>16 DEF OthersStay, DeviceTypes, DeviceInv
  <2>2. CASE q = p
    BY <2>2, <1>8, <1>11, <1>12, <1>13, <1>14, <1>15, NoJobFacts
  <2> QED BY <2>1, <2>2
<1>20. \A q \in Device : DeviceTypes(q, padScene.bestOf, Len(results))' /\ DeviceInv(q)'
  BY <1>18, <1>19 DEF DeviceTypes, DeviceInv
<1>21. ServiceInv'
  <2>1. padScene' \in PadScenes
    BY <1>1, <1>2 DEF ServiceInv
  <2>2. ASSUME NEW r \in 1..k + 1
        PROVE  results'[r].replaces < r /\ check_ending(results'[r].games, b)
    <3>1. CASE r \in 1..k
      BY <3>1, <1>2, <1>17 DEF ServiceInv, b, k
    <3>2. CASE r = k + 1
      BY <3>2, <1>2, <1>5, <1>7, <1>17
    <3> QED BY <3>1, <3>2, <1>2
  <2>3. board' \in LegalBoards(b)
    BY <1>1, <1>5, BoardFacts DEF b
  <2>4. DOMAIN signers' \subseteq 1..k + 1
    BY <1>1, <1>2 DEF ServiceInv, k
  <2> QED BY <1>17, <1>18, <2>1, <2>2, <2>3, <2>4 DEF ServiceInv
<1>22. NothingOrphaned'
  <2> SUFFICES ASSUME "day" \notin padScene.may, NEW r \in 1..k + 1
               PROVE  r \in DOMAIN signers
                      \/ \E q \in Device : \E n \in 1..Len(outbox'[q]) : outbox'[q][n].result = r
    BY <1>1, <1>17 DEF NothingOrphaned, Results, Taken
  <2>1. CASE r = k + 1
    BY <2>1, <1>6, <1>13, <1>15
  <2>2. CASE r \in 1..k
    <3>1. r \in DOMAIN signers \/ \E q \in Device : \E n \in 1..Len(outbox[q]) : outbox[q][n].result = r
      BY <2>2 DEF PagesInv, NothingOrphaned, Results, Taken, k
    <3>2. ASSUME NEW q \in Device, NEW n \in 1..Len(outbox[q]), outbox[q][n].result = r
          PROVE  \E m \in 1..Len(outbox'[q]) : outbox'[q][m].result = r
      <4>1. CASE q = p
        BY <3>2, <4>1, <1>13, <1>15
      <4>2. CASE q # p
        BY <3>2, <4>2, <1>15
      <4> QED BY <4>1, <4>2
    <3> QED BY <3>1, <3>2
  <2> QED BY <2>1, <2>2, <1>2
<1> QED BY <1>16, <1>20, <1>21, <1>22 DEF PagesInv

-----------------------------------------------------------------------------
\* Every page starts at the match, with nothing signed.
LEMMA PagesStart ==
  ASSUME PagesInit PROVE PagesInv
<1> DEFINE b == padScene.bestOf
<1>1. /\ padScene \in PadScenes /\ results = <<>> /\ board = <<>> /\ signers = <<>>
      /\ page = [p \in Device |-> MatchPage] /\ past = [p \in Device |-> <<>>]
      /\ doing = [p \in Device |-> NoJob] /\ outbox = [p \in Device |-> <<>>]
      /\ known = [p \in Device |-> [games |-> <<>>, replaces |-> 0, final |-> FALSE]]
      /\ check = [p \in Device |-> NoCheck]
  BY DEF PagesInit
<1>2. b \in Nat /\ Len(results) = 0 /\ 0 \in Nat
  BY <1>1, SceneFacts
<1>3. <<>> \in LegalBoards(b) /\ Draft(<<>>, 0) \in Fragments(b, 0)
  BY <1>2, NoGamesYet, DraftFacts
<1>4. ServiceInv
  BY <1>1, <1>3 DEF ServiceInv
<1>5. EachDevice
  BY <1>1 DEF EachDevice
<1> HIDE DEF b
<1>6. MatchPage \in Pages(b, 0) /\ MatchPage.route = "match"
  BY <1>3 DEF MatchPage, Pages
<1>7. [games |-> <<>>, replaces |-> 0, final |-> FALSE] \in Found(b, 0)
  BY <1>3 DEF Found
<1>8. NoCheck \in Checks(b, 0) /\ NoCheck.said = "none"
  BY <1>3 DEF NoCheck, Checks
<1>9. ASSUME NEW p \in Device PROVE DeviceTypes(p, b, 0) /\ DeviceInv(p)
  <2>1. DeviceTypes(p, b, 0)
    <3>1. <<>> \in Seq(Pages(b, 0)) /\ <<>> \in Seq(Envelopes(b, 0)) /\ NoJob \in Jobs(b, 0)
      BY NoJobFacts
    <3> QED BY <1>1, <1>6, <1>7, <1>8, <3>1 DEF DeviceTypes
  <2>2. HistoryInv(MatchPage, <<>>)
    BY <1>6 DEF HistoryInv
  <2>3. WaitInv(NoCheck, <<>>)
    BY <1>8 DEF WaitInv
  <2> QED BY <1>1, <2>1, <2>2, <2>3, NoJobFacts DEF DeviceInv
<1>10. NothingOrphaned
  BY <1>2 DEF NothingOrphaned, Results
<1> QED BY <1>2, <1>4, <1>5, <1>9, <1>10 DEF PagesInv, b

\* Every step keeps the invariant of the pages.
LEMMA PagesStep ==
  ASSUME PagesInv, [PagesNext]_pageVars PROVE PagesInv'
<1>1. ASSUME NEW p \in Device,
             \/ KeepScore(p) \/ Save(p) \/ Clear(p) \/ Strip(p) \/ Back(p)
             \/ Submit(p) \/ Sign(p) \/ SigningFails(p) \/ Reload(p) \/ BackToScores(p)
             \/ OpenLink(p) \/ Approve(p) \/ Approved(p) \/ EditScores(p)
             \/ SendCheck(p) \/ Verdict(p) \/ Watch(p) \/ Send(p) \/ GiveUp(p)
      PROVE  PagesInv'
  BY <1>1, KeepScoreStep, SaveStep, ClearStep, StripStep, BackStep, SubmitStep, SignStep,
     SigningFailsStep, ReloadStep, BackToScoresStep, OpenLinkStep, ApproveStep, ApprovedStep,
     EditScoresStep, SendCheckStep, VerdictStep, WatchStep, SendStep, GiveUpStep
<1>2. CASE UNCHANGED pageVars
  <2>1. /\ padScene' = padScene /\ results' = results /\ page' = page /\ past' = past
        /\ doing' = doing /\ outbox' = outbox /\ known' = known /\ check' = check
        /\ board' = board /\ signers' = signers
    BY <1>2 DEF pageVars, deviceVars, apiVars
  <2>2. ServiceInv' /\ EachDevice' /\ NothingOrphaned'
    BY <2>1 DEF PagesInv, ServiceInv, EachDevice, NothingOrphaned, Results, Taken
  <2>3. ASSUME NEW p \in Device
        PROVE  DeviceTypes(p, padScene.bestOf, Len(results))' /\ DeviceInv(p)'
    BY <2>1 DEF PagesInv, DeviceTypes, DeviceInv
  <2> QED BY <2>2, <2>3 DEF PagesInv
<1> QED BY <1>1, <1>2 DEF PagesNext

\* The boards that pages, results and the API hold have no gaps.
LEMMA BoardsAreLegal ==
  ASSUME PagesInv PROVE Boards \subseteq LegalBoards(padScene.bestOf)
<1>1. ASSUME NEW p \in Device PROVE page[p].fragment.games \in LegalBoards(padScene.bestOf)
  BY OfDevice, FragmentFacts
<1>2. board \in LegalBoards(padScene.bestOf) /\ results \in Seq(ResultsOf(padScene.bestOf))
  BY DEF PagesInv, ServiceInv
<1>3. ASSUME NEW r \in Results PROVE results[r].games \in LegalBoards(padScene.bestOf)
  <2>1. results[r] \in ResultsOf(padScene.bestOf)
    BY <1>2 DEF Results
  <2> QED BY <2>1 DEF ResultsOf
<1> QED BY <1>1, <1>2, <1>3 DEF Boards

\* The invariant of the pages says what the runs check.
LEMMA PagesInvSafe ==
  ASSUME PagesInv PROVE PadInv /\ LinksInv
<1> DEFINE b == padScene.bestOf
           k == Len(results)
<1>1. PagesTypeOK
  <2>1. ASSUME NEW p \in Device
        PROVE  /\ page[p].route \in {"match", "pad", "submission", "approval"}
               /\ page[p].route = "pad" => page[p].game \in 1..LastGame(page[p].fragment.games)
               /\ doing[p].does \in {"nothing", "submit", "approve"}
               /\ check[p].said \in {"none", "loading", "taken", "stale", "accepted", "waiting",
                                    "refused"}
    <3>1. /\ page[p] \in Pages(b, k) /\ doing[p] \in Jobs(b, k) /\ check[p] \in Checks(b, k)
          /\ page[p].fragment.games \in LegalBoards(b)
          /\ page[p].route = "pad" => page[p].game \in Opens(page[p].fragment.games, b)
      BY OfDevice, FragmentFacts
    <3>2. page[p].route \in {"match", "pad", "submission", "approval"}
      BY <3>1 DEF Pages
    <3>3. page[p].route = "pad" => page[p].game \in 1..LastGame(page[p].fragment.games)
      BY <3>1, OpensFacts
    <3>4. doing[p].does \in {"nothing", "submit", "approve"}
      BY <3>1 DEF Jobs, NoJob, Submits
    <3>5. check[p].said \in {"none", "loading", "taken", "stale", "accepted", "waiting", "refused"}
      BY <3>1 DEF Checks
    <3> QED BY <3>2, <3>3, <3>4, <3>5
  <2>2. ASSUME NEW games \in Boards
        PROVE  Len(games) <= b /\ \A n \in 1..Len(games) : games[n] # NoGame /\ checkGame(games[n])
    <3>1. games \in LegalBoards(b)
      BY BoardsAreLegal
    <3> QED BY <3>1, NoGameAssumption DEF LegalBoards, Points
  <2>3. padScene \in PadScenes /\ Taken \subseteq Results
    BY DEF PagesInv, ServiceInv, Taken, Results
  <2> QED BY <2>1, <2>2, <2>3 DEF PagesTypeOK
<1>2. SubmitsEndings
  BY DEF SubmitsEndings, Results, PagesInv, ServiceInv
<1>3. BackHoldsTheSigned
  <2>1. \A r \in Results : results[r].replaces < r
    BY DEF Results, PagesInv, ServiceInv
  <2>2. ASSUME NEW p \in Device, page[p].route = "submission"
        PROVE  /\ Len(past[p]) > 0 /\ Top(p).route = "pad"
               /\ replacesOf(Top(p).fragment) = page[p].fragment.result
    BY <2>2, OfDevice DEF HistoryInv, Holds, Top
  <2> QED BY <2>1, <2>2 DEF BackHoldsTheSigned
<1>4. DecidingScoreKept
  BY OfDevice DEF DecidingScoreKept, JobInv
<1>5. SignsOnce
  <2> SUFFICES ASSUME NEW p \in Device,
                      NEW envelope \in {page[p].fragment} \cup {outbox[p][n] : n \in 1..Len(outbox[p])}
               PROVE  Cardinality(SidesOf(envelope)) = Len(envelope.by)
    BY Zenon DEF SignsOnce
  <2>1. /\ page[p].fragment \in Fragments(b, k) /\ outbox[p] \in Seq(Envelopes(b, k))
        /\ b \in Nat /\ k \in Nat
    BY OfDevice
  <2>2. envelope \in Fragments(b, k)
    BY <2>1 DEF Envelopes
  <2> QED BY <2>1, <2>2, FragmentFacts DEF OnceSigned
<1>6. WaitingIsQueued
  BY OfDevice DEF WaitingIsQueued, WaitInv, Waits
<1> QED BY <1>1, <1>2, <1>3, <1>4, <1>5, <1>6 DEF PadInv, LinksInv, PagesInv

\* The inductive invariant of the pages holds.
THEOREM PagesIInv == PagesSpec => []PagesInv
<1> QED BY PagesStart, PagesStep, PTL DEF PagesSpec

\* What a pad submits is an ending that the API takes, survives a failed
\* signing in the page's URL, and is what a change made after Back corrects.
THEOREM PadsAreSafe == PagesSpec => []PadInv
<1>1. PagesInv => PadInv
  BY PagesInvSafe
<1> QED BY <1>1, PagesIInv, PTL

\* No envelope has a side's signature twice, every result that was signed is at
\* FortyMM or queued until it waited for a day, and a page that waits for its
\* approval has it in the outbox.
THEOREM LinksAreSafe == PagesSpec => []LinksInv
<1>1. PagesInv => LinksInv
  BY PagesInvSafe
<1> QED BY <1>1, PagesIInv, PTL

-----------------------------------------------------------------------------
\* The row locks of a result being recorded (MergeLocks).

\* No row is locked by two transactions whose locks conflict.
LocksExclude ==
  \A t, u \in Transaction : Conflicts(t, u) => held[t] \cap held[u] = {}

\* A row that a statement found is locked, or will be before it is done.
WillHold(t) ==
  \A p \in found[t] : p \in held[t] \/ \E i \in 1..Len(plan[t]) : plan[t][i] = p

HoldsFound ==
  \A t \in Transaction :
    /\ at[t] \in {"survivors", "pair"} => WillHold(t)
    /\ at[t] \in {"sides", "copies"} => found[t] \subseteq held[t]

\* What a request found is what its sides resolve to, until one of it is merged.
FindsSurvivors ==
  \A r \in Request :
    at[r] = "survivors" /\ (\A p \in found[r] : merged[p] = None)
      => SurvivorsOf(r) = found[r]

\* What an account merges is two of its players, neither merged.
IsPair(a, p, q) ==
  /\ p # q /\ found[a] = {p, q}
  /\ Manager[p] = a /\ Manager[q] = a
  /\ merged[p] = None /\ merged[q] = None

MergesPairs ==
  \A a \in Account : at[a] # "idle" => \E p, q \in Player : IsPair(a, p, q)

\* The inductive invariant.
LInv ==
  /\ LocksInv /\ LocksExclude /\ HoldsFound
  /\ FindsSurvivors /\ MergesPairs

-----------------------------------------------------------------------------
LEMMA OrdersAreSequences ==
  ASSUME MergeLocksAssumption, NEW S \in SUBSET Player, NEW order \in SetToSeqs(S)
  PROVE  order \in Seq(Player)
<1>1. IsFiniteSet(S)
  BY FS_Subset DEF MergeLocksAssumption
<1>2. Cardinality(S) \in Nat
  BY <1>1, FS_CardinalityType
<1>3. order \in [1..Cardinality(S) -> S]
  BY DEF SetToSeqs
<1>4. order \in [1..Cardinality(S) -> Player]
  BY <1>3
<1> QED BY <1>2, <1>4, SeqDef

\* What a statement finds in order, it locks all of.
LEMMA InOrderFacts ==
  ASSUME NEW p \in Player, NEW q \in Player
  PROVE  /\ InOrder(p, q) \in Seq(Player)
         /\ \A x \in {p, q} : \E i \in 1..Len(InOrder(p, q)) : InOrder(p, q)[i] = x
<1>1. CASE p = q
  BY <1>1 DEF InOrder
<1>2. CASE p # q /\ p < q
  BY <1>2 DEF InOrder
<1>3. CASE p # q /\ ~(p < q)
  BY <1>3 DEF InOrder
<1> QED BY <1>1, <1>2, <1>3

LEMMA SurvivorsArePlayers ==
  ASSUME MergeLocksAssumption, TypeOK, NEW r \in Request
  PROVE  /\ Sides[r][1] \in Player /\ Sides[r][2] \in Player
         /\ Survivor(Sides[r][1]) \in Player /\ Survivor(Sides[r][2]) \in Player
         /\ SurvivorsOf(r) = {Survivor(Sides[r][1]), Survivor(Sides[r][2])}
<1>1. Sides[r][1] \in Player /\ Sides[r][2] \in Player
  BY DEF MergeLocksAssumption
<1>2. \A p \in Player : Survivor(p) \in Player
  BY DEF TypeOK, Survivor
<1> QED BY <1>1, <1>2 DEF SurvivorsOf, SidePlayers

\* The first statement of sides_are_one_player(), on any pass.
LEMMA FirstStatement ==
  ASSUME MergeLocksAssumption, LInv, NEW r \in Request, at[r] \in {"idle", "survivors", "sides"},
         SelectSurvivors(r), UNCHANGED <<merged, scored, held>>
  PROVE  LInv'
<1> DEFINE order == InOrder(Survivor(Sides[r][1]), Survivor(Sides[r][2]))
<1>1. /\ SurvivorsOf(r) \subseteq Player
      /\ order \in Seq(Player)
      /\ \A x \in SurvivorsOf(r) : \E i \in 1..Len(order) : order[i] = x
  <2>1. TypeOK
    BY DEF LInv, LocksInv
  <2>2. /\ Survivor(Sides[r][1]) \in Player /\ Survivor(Sides[r][2]) \in Player
        /\ SurvivorsOf(r) = {Survivor(Sides[r][1]), Survivor(Sides[r][2])}
    BY <2>1, SurvivorsArePlayers
  <2> HIDE DEF order
  <2>3. /\ order \in Seq(Player)
        /\ \A x \in {Survivor(Sides[r][1]), Survivor(Sides[r][2])} :
             \E i \in 1..Len(order) : order[i] = x
    BY <2>2, InOrderFacts, ZenonT(60) DEF order
  <2> QED BY <2>2, <2>3
<1> HIDE DEF order
<1>2. /\ at' = [at EXCEPT ![r] = "survivors"]
      /\ found' = [found EXCEPT ![r] = SurvivorsOf(r)]
      /\ plan' = [plan EXCEPT ![r] = order]
  BY DEF SelectSurvivors, Select, order
<1>3. r \in Transaction /\ r \notin Account
  BY DEF MergeLocksAssumption, Transaction
<1>4. TypeOK'
  BY <1>1, <1>2, <1>3 DEF LInv, LocksInv, TypeOK
<1>5. \A t \in Transaction \ {r} : at'[t] = at[t] /\ found'[t] = found[t] /\ plan'[t] = plan[t]
  BY <1>2 DEF LInv, LocksInv, TypeOK
<1>6. at'[r] = "survivors" /\ found'[r] = SurvivorsOf(r) /\ plan'[r] = order
  BY <1>2, <1>3 DEF LInv, LocksInv, TypeOK
<1>7. \A x \in Request : SurvivorsOf(x)' = SurvivorsOf(x)
  BY DEF SurvivorsOf, SidePlayers, Survivor
<1>8. ScoredSidesApart' /\ LocksExclude'
  BY <1>7 DEF LInv, LocksInv, TypeOK, ScoredSidesApart, LocksExclude, Conflicts
<1>9. HeldSurvivorsAreTheSides'
  BY <1>5, <1>6, <1>7 DEF LInv, LocksInv, HeldSurvivorsAreTheSides, Transaction
<1>10. HoldsFound'
  <2>1. WillHold(r)'
    BY <1>1, <1>6 DEF WillHold
  <2> QED BY <2>1, <1>5, <1>6 DEF LInv, HoldsFound, WillHold
<1>11. FindsSurvivors'
  BY <1>5, <1>6, <1>7 DEF LInv, FindsSurvivors, Transaction
<1>12. MergesPairs'
  BY <1>3, <1>5 DEF LInv, MergesPairs, IsPair, Transaction
<1> QED BY <1>4, <1>8, <1>9, <1>10, <1>11, <1>12 DEF LInv, LocksInv

\* One more row locked.
LEMMA LockRowKeeps ==
  ASSUME MergeLocksAssumption, LInv, NEW t \in Transaction, LockRow(t)
  PROVE  LInv'
<1>1. /\ plan[t] # <<>> /\ plan[t] \in Seq(Player)
      /\ held' = [held EXCEPT ![t] = @ \cup {Head(plan[t])}]
      /\ plan' = [plan EXCEPT ![t] = Tail(@)]
      /\ merged' = merged /\ scored' = scored /\ at' = at /\ found' = found
  BY DEF LockRow, LInv, LocksInv, TypeOK
<1>2. Head(plan[t]) \in Player /\ Tail(plan[t]) \in Seq(Player)
  BY <1>1
<1>3. TypeOK'
  BY <1>1, <1>2 DEF LInv, LocksInv, TypeOK
<1>4. /\ held'[t] = held[t] \cup {Head(plan[t])} /\ plan'[t] = Tail(plan[t])
      /\ \A u \in Transaction \ {t} : held'[u] = held[u] /\ plan'[u] = plan[u]
  BY <1>1 DEF LInv, LocksInv, TypeOK
<1>5. ScoredSidesApart' /\ HeldSurvivorsAreTheSides' /\ FindsSurvivors' /\ MergesPairs'
  <2>1. \A r \in Request : SurvivorsOf(r)' = SurvivorsOf(r)
    BY <1>1 DEF SurvivorsOf, SidePlayers, Survivor
  <2>2. ScoredSidesApart'
    <3> SUFFICES ASSUME NEW r \in scored PROVE Cardinality(SurvivorsOf(r)') = 2
      BY <1>1 DEF ScoredSidesApart
    <3>1. SurvivorsOf(r)' = SurvivorsOf(r)
      BY <2>1 DEF LInv, LocksInv, TypeOK
    <3> QED BY <3>1 DEF LInv, LocksInv, ScoredSidesApart
  <2>3. HeldSurvivorsAreTheSides'
    BY <1>1, <2>1 DEF LInv, LocksInv, HeldSurvivorsAreTheSides
  <2>4. FindsSurvivors'
    BY <1>1, <2>1 DEF LInv, FindsSurvivors
  <2>5. MergesPairs'
    BY <1>1 DEF LInv, MergesPairs, IsPair
  <2> QED BY <2>2, <2>3, <2>4, <2>5
<1>6. \A u \in Transaction : Conflicts(t, u) => Head(plan[t]) \notin held[u]
  BY DEF LockRow, WaitsFor
<1>7. LocksExclude'
  BY <1>4, <1>6 DEF LInv, LocksExclude, Conflicts
<1>8. HoldsFound'
  <2>1. ASSUME WillHold(t)
        PROVE  WillHold(t)'
    <3>1. ASSUME NEW p \in found[t], NEW i \in 1..Len(plan[t]), plan[t][i] = p, p \notin held'[t]
          PROVE  \E j \in 1..Len(plan'[t]) : plan'[t][j] = p
      <4>1. i # 1
        BY <1>1, <1>4, <3>1
      <4>2. /\ i - 1 \in 1..Len(Tail(plan[t]))
            /\ Tail(plan[t])[i - 1] = plan[t][i]
        BY <1>1, <4>1
      <4> QED BY <1>4, <3>1, <4>2
    <3> QED BY <1>1, <1>4, <2>1, <3>1 DEF WillHold
  <2>2. ASSUME NEW u \in Transaction
        PROVE  /\ at'[u] \in {"survivors", "pair"} => WillHold(u)'
               /\ at'[u] \in {"sides", "copies"} => found'[u] \subseteq held'[u]
    <3>1. CASE u = t
      BY <1>1, <1>4, <2>1, <3>1 DEF LInv, HoldsFound
    <3>2. CASE u # t
      BY <1>1, <1>4, <3>2 DEF LInv, HoldsFound, WillHold
    <3> QED BY <3>1, <3>2
  <2> QED BY <2>2 DEF HoldsFound
<1> QED BY <1>3, <1>5, <1>7, <1>8 DEF LInv, LocksInv

\* A transaction that ends without a merge. One that ends with a result has
\* checked that its sides are two.
LEMMA EndKeeps ==
  ASSUME LInv, NEW t \in Transaction,
         NEW label, t \in Request => label \in {"recorded", "refused", "aborted"},
         t \in Account => label = "idle",
         End(t, label), merged' = merged, scored' \subseteq Request,
         \A r \in scored' \ scored : Cardinality(SurvivorsOf(r)) = 2
  PROVE  LInv'
<1>1. TypeOK'
  <2>1. /\ DOMAIN at' = Transaction
        /\ \A u \in Transaction : at'[u] = IF u = t THEN label ELSE at[u]
    BY DEF End, LInv, LocksInv, TypeOK
  <2>2. /\ plan' \in [Transaction -> Seq(Player)]
        /\ held' \in [Transaction -> SUBSET Player]
        /\ found' \in [Transaction -> SUBSET Player]
    BY DEF End, LInv, LocksInv, TypeOK
  <2> QED BY <2>1, <2>2 DEF LInv, LocksInv, TypeOK, Transaction
<1>2. /\ at'[t] = label /\ held'[t] = {}
      /\ \A u \in Transaction \ {t} :
           at'[u] = at[u] /\ held'[u] = held[u] /\ plan'[u] = plan[u] /\ found'[u] = found[u]
  BY DEF End, LInv, LocksInv, TypeOK
<1>3. \A r \in Request : SurvivorsOf(r)' = SurvivorsOf(r)
  BY DEF SurvivorsOf, SidePlayers, Survivor
<1>4. ScoredSidesApart'
  BY <1>3 DEF LInv, LocksInv, ScoredSidesApart
<1>5. LocksExclude'
  BY <1>2 DEF LInv, LocksExclude, Conflicts
<1>6. label \notin {"survivors", "sides", "pair", "copies"}
  BY DEF Transaction
<1>7. HeldSurvivorsAreTheSides' /\ FindsSurvivors'
  BY <1>2, <1>3, <1>6 DEF LInv, LocksInv, HeldSurvivorsAreTheSides, FindsSurvivors, Transaction
<1>8. HoldsFound'
  BY <1>2, <1>6 DEF LInv, HoldsFound, WillHold
<1>9. MergesPairs'
  BY <1>2 DEF LInv, MergesPairs, IsPair, Transaction
<1> QED BY <1>1, <1>4, <1>5, <1>7, <1>8, <1>9 DEF LInv, LocksInv

\* Its second, once it holds survivors that nobody merged meanwhile.
LEMMA SecondStatement ==
  ASSUME MergeLocksAssumption, LInv, NEW r \in Request, Done(r, "survivors"),
         \A p \in found[r] : merged[p] = None,
         Select(r, "sides", found[r], InOrder(Sides[r][1], Sides[r][2])),
         UNCHANGED <<merged, scored, held>>
  PROVE  LInv'
<1> DEFINE order == InOrder(Sides[r][1], Sides[r][2])
<1>1. order \in Seq(Player)
  <2>1. Sides[r][1] \in Player /\ Sides[r][2] \in Player
    BY DEF MergeLocksAssumption
  <2> QED BY <2>1, InOrderFacts
<1> HIDE DEF order
<1>2. /\ at' = [at EXCEPT ![r] = "sides"]
      /\ found' = found /\ plan' = [plan EXCEPT ![r] = order]
  BY DEF Select, LInv, LocksInv, TypeOK, order
<1>3. r \in Transaction /\ r \notin Account
  BY DEF MergeLocksAssumption, Transaction
<1>4. TypeOK'
  BY <1>1, <1>2, <1>3 DEF LInv, LocksInv, TypeOK
<1>5. /\ at'[r] = "sides"
      /\ \A t \in Transaction \ {r} : at'[t] = at[t] /\ plan'[t] = plan[t]
  BY <1>2, <1>3 DEF LInv, LocksInv, TypeOK
<1>6. \A x \in Request : SurvivorsOf(x)' = SurvivorsOf(x)
  BY DEF SurvivorsOf, SidePlayers, Survivor
<1>7. found[r] \subseteq held[r] /\ SurvivorsOf(r) = found[r]
  BY <1>3 DEF LInv, HoldsFound, WillHold, FindsSurvivors, Done
<1>8. ScoredSidesApart' /\ LocksExclude'
  BY <1>6 DEF LInv, LocksInv, TypeOK, ScoredSidesApart, LocksExclude, Conflicts
<1>9. HeldSurvivorsAreTheSides' /\ FindsSurvivors'
  BY <1>2, <1>5, <1>6, <1>7
     DEF LInv, LocksInv, HeldSurvivorsAreTheSides, FindsSurvivors, Transaction
<1>10. HoldsFound'
  BY <1>2, <1>5, <1>7 DEF LInv, HoldsFound, WillHold
<1>11. MergesPairs'
  BY <1>2, <1>3, <1>5 DEF LInv, MergesPairs, IsPair, Transaction
<1> QED BY <1>4, <1>8, <1>9, <1>10, <1>11 DEF LInv, LocksInv

\* An account's statement: the two it merges, then those merged into them.
LEMMA MergeStatement ==
  ASSUME MergeLocksAssumption, LInv, NEW a \in Account, NEW label \in {"pair", "copies"},
         NEW order \in Seq(Player), NEW p \in Player, NEW q \in Player,
         at' = [at EXCEPT ![a] = label], found' = [found EXCEPT ![a] = {p, q}],
         plan' = [plan EXCEPT ![a] = order], UNCHANGED <<merged, scored, held>>,
         IsPair(a, p, q)', IF label = "pair" THEN WillHold(a)' ELSE {p, q} \subseteq held[a]
  PROVE  LInv'
<1>1. a \in Transaction /\ a \notin Request
  BY DEF MergeLocksAssumption, Transaction
<1>2. TypeOK'
  BY <1>1 DEF LInv, LocksInv, TypeOK
<1>3. /\ at'[a] = label /\ found'[a] = {p, q}
      /\ \A t \in Transaction \ {a} : at'[t] = at[t] /\ found'[t] = found[t] /\ plan'[t] = plan[t]
  BY <1>1 DEF LInv, LocksInv, TypeOK
<1>4. \A x \in Request : SurvivorsOf(x)' = SurvivorsOf(x)
  BY DEF SurvivorsOf, SidePlayers, Survivor
<1>5. ScoredSidesApart' /\ LocksExclude'
  BY <1>4 DEF LInv, LocksInv, TypeOK, ScoredSidesApart, LocksExclude, Conflicts
<1>6. HeldSurvivorsAreTheSides' /\ FindsSurvivors'
  BY <1>1, <1>3, <1>4
     DEF LInv, LocksInv, HeldSurvivorsAreTheSides, FindsSurvivors, Transaction
<1>7. HoldsFound'
  BY <1>3 DEF LInv, HoldsFound, WillHold
<1>8. ASSUME NEW b \in Account, at'[b] # "idle"
      PROVE  \E x, y \in Player : IsPair(b, x, y)'
  <2>1. CASE b = a
    BY <2>1
  <2>2. CASE b # a
    <3>1. at[b] # "idle" /\ found'[b] = found[b]
      BY <1>3, <1>8, <2>2 DEF Transaction
    <3>2. PICK x \in Player, y \in Player : IsPair(b, x, y)
      BY <3>1 DEF LInv, MergesPairs
    <3>3. IsPair(b, x, y)'
      BY <3>1, <3>2 DEF IsPair
    <3> QED BY <3>3
  <2> QED BY <2>1, <2>2
<1>9. MergesPairs'
  BY <1>8 DEF MergesPairs
<1> QED BY <1>2, <1>5, <1>6, <1>7, <1>9 DEF LInv, LocksInv

LEMMA OriginalAndCopy ==
  ASSUME MergeLocksAssumption, LInv, NEW a \in Account, at[a] = "copies"
  PROVE  /\ IsPair(a, Original(a), Copy(a))
         /\ Original(a) \in Player /\ Copy(a) \in Player
<1>1. PICK p \in Player, q \in Player : IsPair(a, p, q)
  BY DEF LInv, MergesPairs
<1>2. p \in Nat /\ q \in Nat /\ found[a] = {p, q} /\ p # q
  BY <1>1 DEF MergeLocksAssumption, IsPair
<1>3. \E x \in found[a] : \A y \in found[a] : x <= y
  BY <1>2
<1>4. Original(a) \in found[a]
  BY <1>3 DEF Original
<1>5. \E y \in found[a] : y # Original(a)
  BY <1>2
<1>6. Copy(a) \in found[a] /\ Copy(a) # Original(a)
  BY <1>5 DEF Copy
<1> QED BY <1>1, <1>2, <1>4, <1>6 DEF IsPair

\* A merge takes its copy's place by its original, and moves nobody else.
LEMMA MergeMovesTheCopy ==
  ASSUME MergeLocksAssumption, LInv, NEW a \in Account, Merge(a)
  PROVE  /\ \A p \in Player :
              /\ Survivor(p)' = IF Survivor(p) = Copy(a) THEN Original(a) ELSE Survivor(p)
              /\ merged'[p] = None <=> merged[p] = None /\ p # Copy(a)
         /\ merged' \in [Player -> Player \cup {None}]
<1> DEFINE o == Original(a)
           c == Copy(a)
<1>1. /\ o \in Player /\ c \in Player /\ o # None /\ c # None
      /\ merged[c] = None /\ o # c
  BY OriginalAndCopy DEF Merge, Done, IsPair, MergeLocksAssumption
<1>2. merged' = [p \in Player |-> IF p = c \/ merged[p] = c THEN o ELSE merged[p]]
  BY DEF Merge, Original, Copy
<1> HIDE DEF o, c
<1>3. merged \in [Player -> Player \cup {None}] /\ None \notin Player
  BY DEF LInv, LocksInv, TypeOK, MergeLocksAssumption
<1>4. ASSUME NEW p \in Player
      PROVE  /\ Survivor(p)' = IF Survivor(p) = c THEN o ELSE Survivor(p)
             /\ merged'[p] = None <=> merged[p] = None /\ p # c
  <2>1. merged'[p] = IF p = c \/ merged[p] = c THEN o ELSE merged[p]
    BY <1>2
  <2>2. Survivor(p)' = IF merged'[p] = None THEN p ELSE merged'[p]
    BY DEF Survivor
  <2>3. CASE p = c
    BY <1>1, <2>1, <2>2, <2>3 DEF Survivor
  <2>4. CASE p # c /\ merged[p] = c
    BY <1>1, <2>1, <2>2, <2>4 DEF Survivor
  <2>5. CASE p # c /\ merged[p] # c
    BY <1>1, <2>1, <2>2, <2>5 DEF Survivor
  <2> QED BY <2>3, <2>4, <2>5
<1>5. merged' \in [Player -> Player \cup {None}]
  BY <1>1, <1>2, <1>3
<1> QED BY <1>4, <1>5 DEF o, c

LEMMA PairCardinality ==
  \A x, y : Cardinality({x, y}) = 2 <=> x # y
<1> SUFFICES ASSUME NEW x, NEW y
             PROVE  Cardinality({x, y}) = 2 <=> x # y
  OBVIOUS
<1>1. IsFiniteSet({x}) /\ Cardinality({x}) = 1
  BY FS_Singleton
<1>2. Cardinality({x} \cup {y}) = IF y \in {x} THEN 1 ELSE 1 + 1
  BY <1>1, FS_AddElement
<1>3. {x} \cup {y} = {x, y}
  OBVIOUS
<1> QED BY <1>2, <1>3

\* A match's survivors are as they were, unless the copy was one of them.
LEMMA MergeMovesSides ==
  ASSUME MergeLocksAssumption, LInv, NEW a \in Account, Merge(a), NEW r \in Request
  PROVE  /\ Copy(a) \notin SurvivorsOf(r) => SurvivorsOf(r)' = SurvivorsOf(r)
         /\ Cardinality(SurvivorsOf(r)) = 2 /\ SurvivorsOf(r) # found[a]
              => Cardinality(SurvivorsOf(r)') = 2
<1> DEFINE s == Survivor(Sides[r][1])
           t == Survivor(Sides[r][2])
           o == Original(a)
           c == Copy(a)
<1>1. /\ SurvivorsOf(r) = {s, t}
      /\ Sides[r][1] \in Player /\ Sides[r][2] \in Player
  BY SurvivorsArePlayers DEF LInv, LocksInv
<1>2. SurvivorsOf(r)' = {s', t'}
  BY DEF SurvivorsOf, SidePlayers, Survivor
<1>3. s' = (IF s = c THEN o ELSE s) /\ t' = (IF t = c THEN o ELSE t)
  BY <1>1, MergeMovesTheCopy
<1>4. found[a] = {o, c}
  BY OriginalAndCopy DEF Merge, Done, IsPair
<1> HIDE DEF s, t, o, c
<1>5. Cardinality({s, t}) = 2 => s # t
  BY PairCardinality
<1>6. ASSUME s # t, {s, t} # {o, c}
      PROVE  s' # t'
  BY <1>3, <1>6
<1>7. s' # t' => Cardinality({s', t'}) = 2
  BY PairCardinality
<1>8. c \notin {s, t} => {s', t'} = {s, t}
  BY <1>3
<1> QED BY <1>1, <1>2, <1>4, <1>5, <1>6, <1>7, <1>8 DEF c

\* A request's sides are locked, so no merge can have their survivor as its copy.
LEMMA CheckedSidesAreNoCopy ==
  ASSUME MergeLocksAssumption, LInv, NEW a \in Account, Merge(a),
         NEW r \in Request, at[r] = "sides"
  PROVE  Copy(a) \notin SurvivorsOf(r)
<1>1. a \in Transaction /\ r \in Transaction /\ Conflicts(a, r)
  BY DEF MergeLocksAssumption, Transaction, Conflicts
<1>2. held[a] \cap held[r] = {}
  BY <1>1 DEF LInv, LocksExclude
<1>3. at[a] = "copies" /\ Copy(a) \in found[a]
  BY OriginalAndCopy DEF Merge, Done, IsPair
<1>4. Copy(a) \in held[a]
  BY <1>1, <1>3 DEF LInv, HoldsFound
<1>5. SurvivorsOf(r) \subseteq held[r]
  BY <1>1 DEF LInv, LocksInv, HeldSurvivorsAreTheSides, HoldsFound
<1> QED BY <1>2, <1>4, <1>5

\* A merge commits.
LEMMA MergeKeeps ==
  ASSUME MergeLocksAssumption, LInv, NEW a \in Account, Merge(a)
  PROVE  LInv'
<1>1. /\ \A p \in Player : merged'[p] = None <=> merged[p] = None /\ p # Copy(a)
      /\ merged' \in [Player -> Player \cup {None}]
  BY MergeMovesTheCopy
<1>2. /\ a \in Transaction /\ a \notin Request
      /\ End(a, "idle") /\ scored' = scored /\ at[a] = "copies"
  BY DEF MergeLocksAssumption, Transaction, Merge, Done
<1>3. /\ at'[a] = "idle" /\ held'[a] = {}
      /\ \A u \in Transaction \ {a} :
           at'[u] = at[u] /\ held'[u] = held[u] /\ plan'[u] = plan[u] /\ found'[u] = found[u]
  BY <1>2 DEF End, LInv, LocksInv, TypeOK
<1>4. TypeOK'
  BY <1>1, <1>2 DEF End, LInv, LocksInv, TypeOK
<1>5. ScoredSidesApart'
  <2>1. ASSUME NEW r \in scored
        PROVE  Cardinality(SurvivorsOf(r)') = 2
    <3>1. r \in Request /\ Cardinality(SurvivorsOf(r)) = 2
      BY DEF LInv, LocksInv, TypeOK, ScoredSidesApart
    <3>2. SurvivorsOf(r) # found[a]
      BY DEF Merge, PlayedEachOther
    <3> QED BY <3>1, <3>2, MergeMovesSides
  <2> QED BY <1>2, <2>1 DEF ScoredSidesApart
<1>6. LocksExclude'
  BY <1>3 DEF LInv, LocksExclude, Conflicts
<1>7. HeldSurvivorsAreTheSides'
  <2>1. ASSUME NEW r \in Request, at'[r] = "sides"
        PROVE  SurvivorsOf(r)' = found'[r]
    <3>1. at[r] = "sides" /\ found'[r] = found[r]
      BY <1>2, <1>3, <2>1 DEF Transaction
    <3>2. SurvivorsOf(r)' = SurvivorsOf(r)
      BY <3>1, CheckedSidesAreNoCopy, MergeMovesSides
    <3> QED BY <3>1, <3>2 DEF LInv, LocksInv, HeldSurvivorsAreTheSides
  <2> QED BY <2>1 DEF HeldSurvivorsAreTheSides
<1>8. HoldsFound'
  BY <1>3 DEF LInv, HoldsFound, WillHold
<1>9. FindsSurvivors'
  <2>1. ASSUME NEW r \in Request, at'[r] = "survivors", \A p \in found'[r] : merged'[p] = None
        PROVE  SurvivorsOf(r)' = found'[r]
    <3>1. at[r] = "survivors" /\ found'[r] = found[r] /\ found[r] \subseteq Player
      BY <1>2, <1>3, <2>1 DEF Transaction, LInv, LocksInv, TypeOK
    <3>2. \A p \in found[r] : merged[p] = None /\ p # Copy(a)
      BY <1>1, <2>1, <3>1
    <3>3. SurvivorsOf(r) = found[r]
      BY <3>1, <3>2 DEF LInv, FindsSurvivors
    <3>4. Copy(a) \notin SurvivorsOf(r)
      BY <3>2, <3>3
    <3> QED BY <3>1, <3>3, <3>4, MergeMovesSides
  <2> QED BY <2>1 DEF FindsSurvivors
<1>10. MergesPairs'
  <2>1. ASSUME NEW b \in Account, at'[b] # "idle"
        PROVE  \E x, y \in Player : IsPair(b, x, y)'
    <3>1. b # a /\ at[b] # "idle" /\ found'[b] = found[b]
      BY <1>3, <2>1 DEF Transaction
    <3>2. PICK x \in Player, y \in Player : IsPair(b, x, y)
      BY <3>1 DEF LInv, MergesPairs
    <3>3. Manager[Copy(a)] = a
      BY <1>2, OriginalAndCopy DEF IsPair
    <3>4. IsPair(b, x, y)'
      BY <1>1, <3>1, <3>2, <3>3 DEF IsPair
    <3> QED BY <3>4
  <2> QED BY <2>1 DEF MergesPairs
<1> QED BY <1>4, <1>5, <1>6, <1>7, <1>8, <1>9, <1>10 DEF LInv, LocksInv

-----------------------------------------------------------------------------
LEMMA InitHolds == ASSUME MergeLocksAssumption, Init PROVE LInv
<1>1. TypeOK
  BY DEF Init, TypeOK, Transaction
<1>2. ScoredSidesApart /\ HeldSurvivorsAreTheSides /\ FindsSurvivors
  BY DEF Init, ScoredSidesApart, HeldSurvivorsAreTheSides, FindsSurvivors, Transaction
<1>3. LocksExclude /\ HoldsFound /\ MergesPairs
  BY DEF Init, LocksExclude, HoldsFound, MergesPairs, Transaction
<1> QED BY <1>1, <1>2, <1>3 DEF LInv, LocksInv

LEMMA RequestKeeps ==
  ASSUME MergeLocksAssumption, LInv, NEW r \in Request, BeginRequest(r) \/ RequestStep(r)
  PROVE  LInv'
<1>1. CASE BeginRequest(r)
  BY <1>1, FirstStatement DEF BeginRequest
<1>2. CASE HoldSides(r)
  <2>1. CASE \E p \in found[r] : merged[p] # None
    BY <1>2, <2>1, FirstStatement DEF HoldSides, Done
  <2>2. CASE ~\E p \in found[r] : merged[p] # None
    BY <1>2, <2>2, SecondStatement DEF HoldSides
  <2> QED BY <2>1, <2>2
<1>3. CASE CheckSides(r)
  <2>1. /\ SurvivorsOf(r) \subseteq found[r]
        /\ r \in Transaction /\ r \notin Account /\ scored \subseteq Request
    BY <1>3 DEF CheckSides, Done, LInv, LocksInv, HeldSurvivorsAreTheSides, TypeOK,
       MergeLocksAssumption, Transaction
  <2>2. CASE Cardinality(SurvivorsOf(r)) = 1
    <3>1. End(r, "refused") /\ scored' = scored /\ merged' = merged
      BY <1>3, <2>1, <2>2 DEF CheckSides
    <3> QED BY <2>1, <3>1, EndKeeps
  <2>3. CASE Cardinality(SurvivorsOf(r)) # 1
    <3>1. End(r, "recorded") /\ scored' = scored \cup {r} /\ merged' = merged
      BY <1>3, <2>1, <2>3 DEF CheckSides
    <3>2. Cardinality(SurvivorsOf(r)) = 2
      <4>1. PICK s, t : SurvivorsOf(r) = {s, t}
        BY SurvivorsArePlayers DEF LInv, LocksInv
      <4>2. s = t => SurvivorsOf(r) = {s}
        BY <4>1
      <4>3. s # t
        BY <2>3, <4>2, FS_Singleton
      <4> QED BY <4>1, <4>3, PairCardinality
    <3>3. /\ scored' \subseteq Request
          /\ \A x \in scored' \ scored : Cardinality(SurvivorsOf(x)) = 2
      BY <2>1, <3>1, <3>2
    <3> QED BY <2>1, <3>1, <3>3, EndKeeps
  <2> QED BY <2>2, <2>3
<1> QED BY <1>1, <1>2, <1>3 DEF RequestStep

LEMMA AccountKeeps ==
  ASSUME MergeLocksAssumption, LInv, NEW a \in Account,
         MergeStep(a) \/ \E p, q \in Player : BeginMerge(a, p, q)
  PROVE  LInv'
<1>0. TypeOK /\ a \in Transaction /\ a \notin Request
  BY DEF LInv, LocksInv, Transaction, MergeLocksAssumption
<1>1. CASE \E p, q \in Player : BeginMerge(a, p, q)
  <2>1. PICK p \in Player, q \in Player : BeginMerge(a, p, q)
    BY <1>1
  <2> DEFINE order == InOrder(p, q)
  <2>2. /\ order \in Seq(Player)
        /\ \A x \in {p, q} : \E i \in 1..Len(order) : order[i] = x
    BY InOrderFacts
  <2> HIDE DEF order
  <2>3. /\ at' = [at EXCEPT ![a] = "pair"] /\ found' = [found EXCEPT ![a] = {p, q}]
        /\ plan' = [plan EXCEPT ![a] = order] /\ UNCHANGED <<merged, scored, held>>
        /\ p # q /\ Manager[p] = a /\ Manager[q] = a /\ merged[p] = None /\ merged[q] = None
    BY <2>1 DEF BeginMerge, Select, order
  <2>4. found'[a] = {p, q} /\ plan'[a] = order
    BY <1>0, <2>3 DEF TypeOK
  <2>5. IsPair(a, p, q)' /\ WillHold(a)'
    BY <2>2, <2>3, <2>4 DEF IsPair, WillHold
  <2> QED BY <2>2, <2>3, <2>5, MergeStatement
<1>2. CASE HoldCopies(a)
  <2>1. PICK order \in SetToSeqs({p \in Player : merged[p] \in found[a]}) :
          plan' = [plan EXCEPT ![a] = order]
    BY <1>2 DEF HoldCopies
  <2>2. order \in Seq(Player)
    BY OrdersAreSequences
  <2>3. /\ at[a] = "pair" /\ plan[a] = <<>> /\ at' = [at EXCEPT ![a] = "copies"]
        /\ UNCHANGED <<merged, scored, held, found>>
    BY <1>2 DEF HoldCopies, Done
  <2>4. PICK p \in Player, q \in Player : IsPair(a, p, q)
    BY <2>3 DEF LInv, MergesPairs
  <2>5. {p, q} \subseteq held[a]
    BY <1>0, <2>3, <2>4 DEF LInv, HoldsFound, WillHold, IsPair
  <2>6. IsPair(a, p, q)' /\ found' = [found EXCEPT ![a] = {p, q}]
    BY <1>0, <2>3, <2>4 DEF IsPair, TypeOK
  <2> QED BY <2>1, <2>2, <2>3, <2>5, <2>6, MergeStatement
<1>3. CASE Merge(a)
  BY <1>3, MergeKeeps
<1>4. CASE RefuseMerge(a)
  <2>1. End(a, "idle") /\ merged' = merged /\ scored' = scored
    BY <1>4 DEF RefuseMerge
  <2> QED BY <1>0, <2>1, EndKeeps DEF TypeOK
<1> QED BY <1>1, <1>2, <1>3, <1>4 DEF MergeStep

LEMMA AbortKeeps ==
  ASSUME MergeLocksAssumption, LInv, NEW t \in Transaction, Abort(t)
  PROVE  LInv'
<1> DEFINE label == IF t \in Request THEN "aborted" ELSE "idle"
<1>1. End(t, label) /\ merged' = merged /\ scored' = scored
  BY DEF Abort
<1>2. /\ t \in Request => label \in {"recorded", "refused", "aborted"}
      /\ t \in Account => label = "idle"
      /\ scored \subseteq Request
  BY DEF MergeLocksAssumption, LInv, LocksInv, TypeOK
<1> HIDE DEF label
<1> QED BY <1>1, <1>2, EndKeeps

LEMMA NextKeeps ==
  ASSUME MergeLocksAssumption, LInv, [Next]_vars
  PROVE  LInv'
<1>1. CASE UNCHANGED vars
  <2>1. TypeOK'
    BY <1>1 DEF vars, LInv, LocksInv, TypeOK
  <2>2. \A r \in Request : SurvivorsOf(r)' = SurvivorsOf(r)
    BY <1>1 DEF vars, SurvivorsOf, SidePlayers, Survivor
  <2>3. ScoredSidesApart' /\ HeldSurvivorsAreTheSides' /\ FindsSurvivors'
    BY <1>1, <2>2 DEF vars, LInv, LocksInv, TypeOK, ScoredSidesApart,
       HeldSurvivorsAreTheSides, FindsSurvivors
  <2>4. LocksExclude' /\ HoldsFound' /\ MergesPairs'
    BY <1>1 DEF vars, LInv, LocksExclude, Conflicts, HoldsFound, WillHold, MergesPairs, IsPair
  <2> QED BY <2>1, <2>3, <2>4 DEF LInv, LocksInv
<1>2. CASE Next
  BY <1>2, LockRowKeeps, AbortKeeps, RequestKeeps, AccountKeeps DEF Next
<1> QED BY <1>1, <1>2

LEMMA LInvAlways == Spec => []LInv
<1>1. Init => LInv
  BY InitHolds, MergeLocksAssumption
<1>2. LInv /\ [Next]_vars => LInv'
  BY NextKeeps, MergeLocksAssumption
<1> QED BY <1>1, <1>2, PTL DEF Spec

\* Whichever of a match's first result and a merge of its sides comes first,
\* a match with a result keeps two sides: the locks of sides_are_one_player()
\* and merge_players() suffice, in whatever order a statement finds its rows.
THEOREM LocksKeepSidesApart == Spec => []LocksInv
<1>1. LInv => LocksInv
  BY DEF LInv
<1> QED BY <1>1, LInvAlways, PTL

\* While a request holds its sides, no step of anyone changes what they resolve
\* to, which is what lets MatchResults check and record in one step.
THEOREM CheckedSidesAreHeld == Spec => CheckedSidesStay
<1>1. ASSUME LInv, [Next]_vars
      PROVE  \A r \in Request : at[r] = "sides" => SurvivorsOf(r)' = SurvivorsOf(r)
  <2>1. CASE merged' = merged
    BY <2>1 DEF SurvivorsOf, SidePlayers, Survivor
  <2>2. CASE \E a \in Account : Merge(a)
    BY <1>1, <2>2, CheckedSidesAreNoCopy, MergeMovesSides, MergeLocksAssumption
  <2>3. merged' = merged \/ \E a \in Account : Merge(a)
    BY <1>1 DEF Next, vars, LockRow, Abort, BeginRequest, RequestStep, HoldSides, CheckSides,
       MergeStep, HoldCopies, RefuseMerge, BeginMerge
  <2> QED BY <2>1, <2>2, <2>3
<1> QED BY <1>1, LInvAlways, PTL DEF Spec, CheckedSidesStay
=============================================================================
