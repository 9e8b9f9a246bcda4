---------------------------- MODULE MCMatchSync ----------------------------
(* Model checking of MatchSync: see README.md for the bounds. *)
EXTENDS MatchSync, TLC

CONSTANTS t1, t2, draft, first, correction, approved, theirs

Signed(payload, replaces, signers) ==
  [payload |-> payload, replaces |-> replaces, signers |-> signers]

\* This device's first result, its correction of it, the opponent's own first
\* result, and the first result with the opponent's approval.
MCContent ==
  [e \in Envelope |->
     CASE e = first      -> Signed("p", None, {1})
       [] e = correction -> Signed("q", "p", {1})
       [] e = approved   -> Signed("p", None, Side)
       [] e = theirs     -> Signed("r", None, {2})]

Scene(open, illegal, trouble, s, r, f) ==
  [tabs |-> open, illegal |-> illegal, trouble |-> trouble,
   saves |-> s, reloads |-> r, fails |-> f]

\* One tab with boards, with every answer and a reload, or with the scoring
\* page. Two tabs that share the outbox, whose locks may be slow, or while
\* sessions come and go.
Working == {Scene({t1}, {correction}, {"busy", "permission"}, 1, 1, 0),
            Scene({t1}, {correction}, {"page"}, 1, 0, 0),
            Scene({t1, t2}, {}, {"slowLock"}, 0, 0, 0),
            Scene({t1, t2}, {}, {"session"}, 0, 0, 0)}

\* One tab that is offline at times, whose requests get lost, for days.
Waiting == {Scene({t1}, {}, {"days", "lost", "offline"}, 0, 0, 0)}

\* Two tabs and nothing that goes wrong, or one failed write to localStorage.
Quiet == {Scene({t1, t2}, {}, {}, 0, 0, 0)}
StorageFull == {Scene({t1, t2}, {}, {}, 0, 0, 1)}

\* Tabs only differ in what they did.
TabSymmetry == Permutations(Tab)
=============================================================================
