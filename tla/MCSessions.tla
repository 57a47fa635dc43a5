----------------------------- MODULE MCSessions ------------------------------
(***************************************************************************)
(* Small instances of Sessions for TLC: one browser whose earlier sign-in  *)
(* is still good, with several tabs.                                       *)
(***************************************************************************)
EXTENDS Sessions, TLC

CONSTANTS q1, q2, q3, ann, bob, chrome, s0

Ask(op) == [op |-> op, browser |-> chrome]

AllOps == {Ask("login"), Ask("callback"), Ask("logout"), Ask("me")}
SignIns == {Ask("login"), Ask("callback")}

AnnWasHere == [e \in Earlier |-> ann]
JarOfAnn == [b \in Browsers |-> s0]
EmptyJar == [b \in Browsers |-> NoId]

ReqSymmetry == Permutations(Reqs)
=============================================================================
