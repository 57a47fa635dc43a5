---------------------------- MODULE MCOpeningHours ----------------------------
(***************************************************************************)
(* A small instance of OpeningHours for TLC: rows of every tier, with      *)
(* ordinary, overnight, empty and missing hours, open and closed bounds.   *)
(***************************************************************************)
EXTENDS OpeningHours

R(day, open, close, from, until, shut) ==
    [day |-> day, open |-> open, close |-> close, from |-> from, until |-> until,
     shut |-> shut]

\* Weekday 2 is that of date 2.
AllRows ==
    {R(day, hour[1], hour[2], date[1], date[2], FALSE) :
        day \in {2, Null}, hour \in {<<0, 1>>, <<2, 0>>, <<1, 1>>, <<1, Null>>},
        date \in {<<Null, Null>>, <<2, 2>>, <<Null, 2>>}}
    \cup {R(day, Null, Null, date[1], date[2], TRUE) :
        day \in {2, Null}, date \in {<<Null, Null>>, <<2, 3>>, <<3, Null>>}}
=============================================================================
