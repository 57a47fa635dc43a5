------------------------------- MODULE MCPlaces ------------------------------
(***************************************************************************)
(* A small instance of Places for TLC.                                     *)
(***************************************************************************)
EXTENDS Places

SixPlaces == 1..6
SixTypes == <<"district", "district", "area", "area", "poi", "cafe">>

Pairs(areas, points) == [surface |-> areas \cup points, whole |-> points]

\* All in its place; areas that leave their districts
Tidy == [surface |-> {<<3, 1>>, <<4, 2>>, <<5, 1>>, <<5, 3>>, <<6, 1>>, <<6, 3>>},
         whole |-> {<<3, 1>>, <<5, 1>>, <<5, 3>>, <<6, 1>>, <<6, 3>>}]
\* Districts and areas that overlap
Overlaps == Pairs({<<3, 1>>, <<3, 2>>, <<4, 1>>, <<4, 2>>, <<2, 1>>},
                  {5, 6} \X {1, 2, 3, 4})
\* An area without a district, and a poi in another district than its area
Astray == Pairs({<<4, 2>>}, {<<5, 1>>, <<5, 4>>, <<6, 3>>})
\* Points outside of all areas, or of all
Outskirts == Pairs({<<4, 1>>}, {<<5, 1>>})

FourMaps == {Tidy, Overlaps, Astray, Outskirts}
=============================================================================
