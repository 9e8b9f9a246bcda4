---------------------------- MODULE MCMergeLocks ----------------------------
(* Model checking of MergeLocks: see README.md for the bounds. *)
EXTENDS MergeLocks, TLC

CONSTANTS r1, r2, a1, a2

\* Two matches that share player 3.  The sides of the first are one account's,
\* which also manages an older player, and each account has two to merge.
MCSides == r1 :> <<2, 3>> @@ r2 :> <<3, 5>>
MCManager == <<a1, a1, a1, a2, a2>>
=============================================================================
