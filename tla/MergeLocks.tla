----------------------------- MODULE MergeLocks -----------------------------
(***************************************************************************)
(* The row locks that make a match's first result and a merge of its sides *)
(* take turns: sides_are_one_player() in services/matches.py against       *)
(* merge_players() in services/player_merge.py, one row lock at a time.    *)
(* Players and MatchResults take each as one step, which this module       *)
(* justifies.                                                              *)
(*                                                                         *)
(* A SELECT ... FOR SHARE or FOR UPDATE finds its rows in the committed    *)
(* state, then locks them one by one. A row another transaction holds      *)
(* makes it wait, and it sees the row as the other left it. Locks last     *)
(* until the transaction ends.                                             *)
(***************************************************************************)
EXTENDS Naturals, SequencesExt

CONSTANTS Player,   \* players, numbered in the order of (created_at, id)
          Request,  \* record_result() calls, each with a match of its own
          Account,  \* accounts that answer their questions, one at a time
          Sides,    \* the two side players of each request's match
          Manager,  \* the account that manages each player
          None

ASSUME MergeLocksAssumption ==
  /\ Player \subseteq Nat /\ IsFiniteSet(Player) /\ None \notin Player
  /\ Sides \in [Request -> Player \X Player]
  /\ Manager \in [Player -> Account]
  /\ Request \cap Account = {}

Transaction == Request \cup Account

VARIABLES
  merged,  \* players.merged_into, as committed
  scored,  \* the requests whose match has its first result
  at,      \* where each transaction is
  plan,    \* the rows its statement has still to lock, in order
  held,    \* the rows it has locked, FOR SHARE by a request, FOR UPDATE by a merge
  found    \* the rows its statement found: survivors, or the two that merge

vars == <<merged, scored, at, plan, held, found>>

TypeOK ==
  /\ merged \in [Player -> Player \cup {None}]
  /\ scored \subseteq Request
  /\ DOMAIN at = Transaction
  /\ \A r \in Request :
       at[r] \in {"idle", "survivors", "sides", "recorded", "refused", "aborted"}
  /\ \A a \in Account : at[a] \in {"idle", "pair", "copies"}
  /\ plan \in [Transaction -> Seq(Player)]
  /\ held \in [Transaction -> SUBSET Player]
  /\ found \in [Transaction -> SUBSET Player]

-----------------------------------------------------------------------------
Survivor(p) == IF merged[p] = None THEN p ELSE merged[p]
SidePlayers(r) == {Sides[r][1], Sides[r][2]}

SurvivorsOf(r) == {Survivor(p) : p \in SidePlayers(r)}

\* ORDER BY created_at, id.
InOrder(p, q) == IF p = q THEN <<p>> ELSE IF p < q THEN <<p, q>> ELSE <<q, p>>

\* FOR SHARE lets others share. FOR UPDATE lets nobody in.
Conflicts(t, u) == t # u /\ (t \in Account \/ u \in Account)

WaitsFor(t, u) ==
  plan[t] # <<>> /\ Conflicts(t, u) /\ Head(plan[t]) \in held[u]

\* The transaction waits, through others, for itself: it is in every set that
\* has all those it and the set's members wait for.
Deadlocked(t) ==
  \A S \in SUBSET Transaction :
    (\A u \in S \cup {t}, v \in Transaction : WaitsFor(u, v) => v \in S) => t \in S

\* A statement begins: it found rows and locks them in some order.
Select(t, label, rows, order) ==
  /\ at' = [at EXCEPT ![t] = label]
  /\ found' = [found EXCEPT ![t] = rows]
  /\ plan' = [plan EXCEPT ![t] = order]

\* The transaction commits or aborts, which gives up its locks.
End(t, label) ==
  /\ at' = [at EXCEPT ![t] = label]
  /\ held' = [held EXCEPT ![t] = {}]
  /\ plan' = [plan EXCEPT ![t] = <<>>]
  /\ found' = [found EXCEPT ![t] = {}]

\* One more row of a statement.
LockRow(t) ==
  /\ plan[t] # <<>>
  /\ \A u \in Transaction : ~WaitsFor(t, u)
  /\ held' = [held EXCEPT ![t] = @ \cup {Head(plan[t])}]
  /\ plan' = [plan EXCEPT ![t] = Tail(@)]
  /\ UNCHANGED <<merged, scored, at, found>>

\* Every row of the statement `label` is locked.
Done(t, label) == at[t] = label /\ plan[t] = <<>>

-----------------------------------------------------------------------------
SelectSurvivors(r) ==
  Select(r, "survivors", SurvivorsOf(r), InOrder(Survivor(Sides[r][1]), Survivor(Sides[r][2])))

\* sides_are_one_player(): the survivors first.
BeginRequest(r) ==
  /\ at[r] = "idle"
  /\ SelectSurvivors(r)
  /\ UNCHANGED <<merged, scored, held>>

\* Mutant of HoldSides: finds the survivors once and for all.
HoldSidesFoundFirst(r) ==
  /\ Done(r, "survivors")
  /\ IF \E p \in found[r] : merged[p] # None
       THEN Select(r, "survivors", found[r], <<>>)
       ELSE Select(r, "sides", found[r], InOrder(Sides[r][1], Sides[r][2]))
  /\ UNCHANGED <<merged, scored, held>>

\* Then the side players, unless a merge moved a survivor while it waited. Each
\* pass keeps the locks of the one before.
HoldSides(r) ==
  /\ Done(r, "survivors")
  /\ IF \E p \in found[r] : merged[p] # None
       THEN SelectSurvivors(r)
       ELSE Select(r, "sides", found[r], InOrder(Sides[r][1], Sides[r][2]))
  /\ UNCHANGED <<merged, scored, held>>

\* The sides resolve to survivors the request holds: it records its result or
\* refuses it, and commits. If they don't, it starts again.
CheckSides(r) ==
  /\ Done(r, "sides")
  /\ IF ~(SurvivorsOf(r) \subseteq found[r])
       THEN SelectSurvivors(r) /\ UNCHANGED <<scored, held>>
     ELSE IF Cardinality(SurvivorsOf(r)) = 1
       THEN End(r, "refused") /\ UNCHANGED scored
     ELSE End(r, "recorded") /\ scored' = scored \cup {r}
  /\ UNCHANGED merged

-----------------------------------------------------------------------------
\* Mutant of BeginMerge: reads the two players without locking them.
BeginMergeUnlocked(a, p, q) ==
  /\ at[a] = "idle"
  /\ p # q /\ Manager[p] = a /\ Manager[q] = a
  /\ merged[p] = None /\ merged[q] = None
  /\ Select(a, "pair", {p, q}, <<>>)
  /\ UNCHANGED <<merged, scored, held>>

\* merge_players() for two players of the account, which holds their
\* player_managers rows, so its own merges take turns.
BeginMerge(a, p, q) ==
  /\ at[a] = "idle"
  /\ p # q /\ Manager[p] = a /\ Manager[q] = a
  /\ merged[p] = None /\ merged[q] = None
  /\ Select(a, "pair", {p, q}, InOrder(p, q))
  /\ UNCHANGED <<merged, scored, held>>

\* Then the players already merged into them, in any order.
HoldCopies(a) ==
  /\ Done(a, "pair")
  /\ \E order \in SetToSeqs({p \in Player : merged[p] \in found[a]}) :
       plan' = [plan EXCEPT ![a] = order]
  /\ at' = [at EXCEPT ![a] = "copies"]
  /\ UNCHANGED <<merged, scored, held, found>>

\* Mutant of PlayedEachOther: compares the side players as they were made.
PlayedUnmerged(a) == \E r \in scored : SidePlayers(r) = found[a]

\* opponents(): the pair played each other, as their survivors stand.
PlayedEachOther(a) == \E r \in scored : SurvivorsOf(r) = found[a]

\* The older of the pair is the original, the other the copy.
Original(a) == CHOOSE p \in found[a] : \A q \in found[a] : p <= q
Copy(a) == CHOOSE q \in found[a] : q # Original(a)

Merge(a) ==
  /\ Done(a, "copies") /\ ~PlayedEachOther(a)
  /\ merged' = [p \in Player |->
                  IF p = Copy(a) \/ merged[p] = Copy(a) THEN Original(a) ELSE merged[p]]
  /\ End(a, "idle")
  /\ UNCHANGED scored

RefuseMerge(a) ==
  /\ Done(a, "copies") /\ PlayedEachOther(a)
  /\ End(a, "idle")
  /\ UNCHANGED <<merged, scored>>

-----------------------------------------------------------------------------
\* Postgres finds a wait cycle and aborts a transaction on it.  One that only
\* waits for the cycle goes on waiting.
Abort(t) ==
  /\ Deadlocked(t)
  /\ End(t, IF t \in Request THEN "aborted" ELSE "idle")
  /\ UNCHANGED <<merged, scored>>

Init ==
  /\ merged = [p \in Player |-> None]
  /\ scored = {}
  /\ at = [t \in Transaction |-> "idle"]
  /\ plan = [t \in Transaction |-> <<>>]
  /\ held = [t \in Transaction |-> {}]
  /\ found = [t \in Transaction |-> {}]

RequestStep(r) == HoldSides(r) \/ CheckSides(r)
MergeStep(a) == HoldCopies(a) \/ Merge(a) \/ RefuseMerge(a)

Next ==
  \/ \E t \in Transaction : LockRow(t) \/ Abort(t)
  \/ \E r \in Request : BeginRequest(r) \/ RequestStep(r)
  \/ \E a \in Account : MergeStep(a) \/ \E p, q \in Player : BeginMerge(a, p, q)

Spec == Init /\ [][Next]_vars

\* A started transaction runs on, and Postgres ends every wait cycle. A row's
\* waiters queue, so one that waits gets the row in the end: strong fairness.
\* Nobody has to send a request or answer a question.
FairSpec ==
  /\ Spec
  /\ WF_vars(\E t \in Transaction : Abort(t))
  /\ \A t \in Transaction : SF_vars(LockRow(t))
  /\ \A r \in Request : WF_vars(RequestStep(r))
  /\ \A a \in Account : WF_vars(MergeStep(a))

-----------------------------------------------------------------------------
\* The point of the locks: a match with a result keeps two sides, whichever of
\* its result and a merge comes first.
ScoredSidesApart == \A r \in scored : Cardinality(SurvivorsOf(r)) = 2

\* From the moment a request holds its survivors until it commits, no merge
\* moves its sides. So checking and recording are one step to every merge.
CheckedSidesStay ==
  [][\A r \in Request : at[r] = "sides" => SurvivorsOf(r)' = SurvivorsOf(r)]_vars

\* The last check of the loop never sends it round again: what it held in the
\* first statement is what its sides resolve to in the second.
HeldSurvivorsAreTheSides ==
  \A r \in Request : at[r] = "sides" => SurvivorsOf(r) = found[r]

\* sides_are_one_player() says that its order of locks keeps it and a merge
\* from waiting for each other. See README.md for how they still do.
NoDeadlock == \A t \in Transaction : ~Deadlocked(t)

\* Every request that begins ends, with a result, a refusal or an abort,
\* however often merges make it start again.
RequestsEnd ==
  \A r \in Request : at[r] # "idle" ~> at[r] \in {"recorded", "refused", "aborted"}

\* A result and a merge of its sides never both pass: what is held is what the
\* sides resolve to.
LocksInv == TypeOK /\ ScoredSidesApart /\ HeldSurvivorsAreTheSides
=============================================================================
