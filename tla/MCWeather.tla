------------------------------ MODULE MCWeather ------------------------------
(***************************************************************************)
(* Small instances of Weather for TLC: three searches on two processes.    *)
(***************************************************************************)
EXTENDS Weather, TLC

CONSTANTS c1, c2, c3, a, b

TwoOnA == c1 :> a @@ c2 :> a @@ c3 :> b
AllOnA == [c \in Callers |-> a]
=============================================================================
