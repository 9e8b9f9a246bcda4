------------------------------ MODULE MCSignIn ------------------------------
(* Model checking of SignIn: see README.md for the bounds. *)
EXTENDS SignIn, TLC

CONSTANTS phone, laptop, ann, annToo, bob, annMail, bobMail, r1, r2, r3, r4

MCMail == [s \in Sub |-> IF s = bob THEN bobMail ELSE annMail]

\* The phone is a guest's, and two of its tabs began to sign in.
TabsInit ==
  /\ kind = [a \in Account |-> IF a = 1 THEN "guest" ELSE "absent"]
  /\ email = [a \in Account |-> None]
  /\ selves = [a \in Account |-> IF a = 1 THEN 1 ELSE 0] /\ owners = {}
  /\ sessionOf = [s \in Session |-> IF s = 1 THEN 1 ELSE None]
  /\ attempts = [a \in Attempt |-> IF a <= 2 THEN [session |-> 1, withSession |-> TRUE]
                                   ELSE None]
  /\ identity = [s \in Sub |-> None]
  /\ req = [r \in Request |-> NoRequest]
  /\ waits = [r \in Request |-> {}] /\ held = [r \in Request |-> {}]
  /\ jar = [b \in Browser |-> [session |-> IF b = phone THEN 1 ELSE None, login |-> None]]
  /\ born = [s \in Session |-> IF s = 1 THEN "guest" ELSE None]
  /\ began = [a \in Attempt |-> IF a <= 2 THEN phone ELSE None]
  /\ signedIn = {}

\* Ann's account is signed in on the laptop. The phone is a guest's. Each began
\* to sign in.
AdoptInit ==
  /\ kind = [a \in Account |-> CASE a = 1 -> "guest" [] a = 2 -> "verified" [] OTHER -> "absent"]
  /\ email = [a \in Account |-> IF a = 2 THEN annMail ELSE None]
  /\ selves \in [Account -> {0, 1}]
  /\ selves[1] = 1 /\ \A a \in Account \ {1, 2} : selves[a] = 0
  /\ owners = {}
  /\ sessionOf = [s \in Session |-> IF s <= 2 THEN s ELSE None]
  /\ attempts = [a \in Attempt |-> IF a <= 2 THEN [session |-> a, withSession |-> TRUE] ELSE None]
  /\ identity = [s \in Sub |-> IF s = ann THEN 2 ELSE None]
  /\ req = [r \in Request |-> NoRequest]
  /\ waits = [r \in Request |-> {}] /\ held = [r \in Request |-> {}]
  /\ jar = [b \in Browser |-> [session |-> IF b = phone THEN 1 ELSE 2, login |-> None]]
  /\ born = [s \in Session |-> CASE s = 1 -> "guest" [] s = 2 -> "verified" [] OTHER -> None]
  /\ began = [a \in Attempt |-> CASE a = 1 -> phone [] a = 2 -> laptop [] OTHER -> None]
  /\ signedIn = {}

TabsSpec == TabsInit /\ [][Next]_vars
FairTabsSpec == TabsSpec /\ Fairness
MCSpec == (Init \/ TabsInit \/ AdoptInit) /\ [][Next]_vars

RequestSymmetry == Permutations(Request)
=============================================================================
