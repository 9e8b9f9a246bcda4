----------------------------- MODULE MCPlayers -----------------------------
(* Model checking of Players: see README.md for the bounds. *)
EXTENDS Players, TLC

AccountSymmetry == Permutations(Account) \cup Permutations(Match)
============================================================================
