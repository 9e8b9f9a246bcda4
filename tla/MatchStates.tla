---------------------------- MODULE MatchStates ----------------------------
(***************************************************************************)
(* What a match shows, and how it may move from one state to the next: the *)
(* promise of match_state() in services/match_reads.py and its MatchState  *)
(* union, without chains, keys or signatures. MatchResults implements it.  *)
(***************************************************************************)
CONSTANTS Match, Side

VARIABLES
  shown,    \* what each match shows
  settled   \* the matches that were final once

vars == <<shown, settled>>

NotStarted == [state |-> "not_started"]
Live == [state |-> "live"]
Final == [state |-> "final"]
Awaiting(side) == [state |-> "awaiting", signer |-> side]
Disputed(side) == [state |-> "disputed", signer |-> side]

States == {NotStarted, Live, Final}
            \cup {Awaiting(side) : side \in Side} \cup {Disputed(side) : side \in Side}

TypeOK == shown \in [Match -> States] /\ settled \subseteq Match

\* A match begins with no score, or is being played when we begin to watch.
Init == shown \in [Match -> {NotStarted, Live}] /\ settled = {}

\* A board shows only before the first result.
KeepScore(m) ==
  /\ shown[m] = NotStarted
  /\ shown' = [shown EXCEPT ![m] = Live]
  /\ UNCHANGED settled

\* One side signs scores of its own. It waits for the other side, and disputes
\* scores that the other side is waiting with.
Propose(m, side) ==
  /\ shown' = [shown EXCEPT ![m] =
       IF \E other \in Side \ {side} : @ \in {Awaiting(other), Disputed(other)}
         THEN Disputed(side) ELSE Awaiting(side)]
  /\ UNCHANGED settled

\* The last approval a result needs, or an administrator's override.
Settle(m) ==
  /\ shown' = [shown EXCEPT ![m] = Final]
  /\ settled' = settled \cup {m}

Next ==
  \E m \in Match : KeepScore(m) \/ Settle(m) \/ \E side \in Side : Propose(m, side)

Spec == Init /\ [][Next]_vars
=============================================================================
