--------------------------- MODULE MCMatchResults ---------------------------
(* Model checking of MatchResults: see README.md for the bounds. *)
EXTENDS MatchResults, TLC

CONSTANTS a1, a2, g, k1, k2, m1, m2, rated, casual

\* A payload, written in few words: what it replaces, the player it names on
\* the first side, its terms and whether its ending is legal.
Says(replaces, player, terms, legal) ==
  [match |-> m1, replaces |-> replaces,
   details |-> [players |-> <<player, 2>>, terms |-> terms], legal |-> legal]

\* Rated scores to begin with, for each of the two players the account may
\* play as, and counters of each. The same for an unrated match, and scores
\* that aren't an ending.
Table == <<
  Says(None, 1, rated, TRUE), Says(None, 3, rated, TRUE),
  Says(1, 1, rated, TRUE),    Says(2, 1, rated, TRUE),
  Says(None, 1, casual, TRUE),
  Says(5, 1, casual, TRUE),   Says(6, 1, casual, TRUE),
  Says(None, 1, rated, FALSE) >>

MCPayload == DOMAIN Table
MCRank == [p \in MCPayload |-> p]

\* What a device sends: one signature or both sides', and one that is bad or
\* made again. k2 only signs for the second side.
Sign(k, side, bytes) == [key |-> k, side |-> side, bytes |-> bytes]
MCEnvelope ==
  LET ours == Sign(k1, 1, "first")
      theirs == {Sign(k1, 2, "first"), Sign(k2, 2, "first")}
  IN {{ours}} \cup {{s} : s \in theirs} \cup {{ours, s} : s \in theirs}
       \cup {{Sign(k1, 1, bytes)} : bytes \in {"second", "bad"}}

Between(p, q, t) == [players |-> <<p, q>>, terms |-> t]

\* Reachable states to start from. The account a1 adopted the guest a2 with
\* player 3, which is in the match m2, and was asked about it. One of its
\* players is about to meet the player of g, another guest in the first and an
\* account in the others, whose device has registered its key or not.
Meets(p, terms, account, k2Of, open) ==
  [details |-> [players |-> <<p, 2>>, terms |-> terms], g |-> account, k2 |-> k2Of,
   open |-> open]
Meetings == {Meets(1, rated, "guest", g, {}), Meets(3, rated, "verified", None, {3}),
             Meets(1, casual, "verified", g, {})}

ResultsInit ==
  /\ merged = [p \in Player |-> None]
  /\ made = Player
  /\ relation = (a1 :> <<"self", "none", "managed">> @@ a2 :> <<"none", "none", "none">>
                   @@ g :> <<"none", "self", "none">>)
  /\ details = (m1 :> None @@ m2 :> [players |-> <<3, 2>>, terms |-> rated])
  /\ \E meeting \in Meetings :
       /\ kind = (a1 :> "verified" @@ a2 :> "adopted" @@ g :> meeting.g)
       /\ creating = (m1 :> [by |-> a1, details |-> meeting.details] @@ m2 :> None)
       /\ asked = (a1 :> meeting.open @@ a2 :> {} @@ g :> {})
       /\ owner = (k1 :> a1 @@ k2 :> meeting.k2)
  /\ scored = {}
  /\ revoked = {}
  /\ results = {} /\ overrides = {} /\ accepted = {}
  /\ current = [m \in Match |-> None]
  /\ approvals = [p \in Payload |-> {}]
  /\ boards = {m2}

MCSpec == ResultsInit /\ [][Next]_vars
=============================================================================
