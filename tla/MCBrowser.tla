----------------------------- MODULE MCBrowser -----------------------------
(***************************************************************************)
(* The browser's device key and the account that its tabs show, one of the *)
(* two at a time.                                                          *)
(***************************************************************************)
EXTENDS DeviceKeys, ClientSession, TLC

CONSTANTS k1, k2, k3, o1, ann, r1, r2, s1, s2, t1, t2

VARIABLE part

BrowserInit ==
  /\ part \in {"keys", "session"}
  /\ KeysInit /\ SessionInit
  /\ part # "keys" => keyScene = CHOOSE x \in KeyScenes : TRUE
  /\ part # "session" => sessionScene = (CHOOSE x \in SessionScenes : TRUE) /\ saved = Nobody

BrowserNext ==
  /\ UNCHANGED part
  /\ \/ part = "keys" /\ KeysNext /\ UNCHANGED sessionVars
     \/ part = "session" /\ SessionNext /\ UNCHANGED keyVars

BrowserSpec == BrowserInit /\ [][BrowserNext]_<<part, keyVars, sessionVars>>

BrowserSymmetry == Permutations(Kid) \cup Permutations(Registration)
=============================================================================
