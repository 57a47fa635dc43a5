---------------------------- MODULE MCCafeSearch ----------------------------
(***************************************************************************)
(* A small instance of CafeSearch for TLC: a map of three cafes, and       *)
(* queries for every mode, filter, sort and error.                         *)
(***************************************************************************)
EXTENDS CafeSearch

CONSTANTS spot, park, dago

V(status, featured, image, updated, price, wifi, tags, weather, open) ==
    [status |-> status, featured |-> featured, image |-> image, updated |-> updated,
     min |-> price[1], max |-> price[2], overall |-> wifi, score |-> [wifi |-> wifi],
     tags |-> tags, weather |-> weather, open |-> open]

Cozy == V("active", FALSE, TRUE, 1, <<2, 4>>, 334, {"wifi"}, {"rain"}, TRUE)
Plain == V("active", TRUE, FALSE, 2, <<Null, Null>>, Null, {}, {"cloudy"}, FALSE)
Gone == V("closed", FALSE, TRUE, 1, <<1, Null>>, 167, {}, {}, FALSE)
AllVersions == {Cozy, Plain, Gone}

\* Cafe 3 has no coordinates, and cafe 1 is 2 km from the park and 3.0005 km
\* from the spot.
Map == (1 :> (spot :> 6001 @@ park :> 4000 @@ dago :> 10 @@ 1 :> 0 @@ 2 :> 5999 @@ 3 :> Null))
       @@ (2 :> (spot :> 100 @@ park :> 4001 @@ dago :> 20 @@ 1 :> 5999 @@ 2 :> 0 @@ 3 :> Null))
       @@ (3 :> (spot :> Null @@ park :> Null @@ dago :> Null
                 @@ 1 :> Null @@ 2 :> Null @@ 3 :> Null))
AllKinds == park :> "poi" @@ dago :> "area"
AllInside == park :> {} @@ dago :> {1, 2}
Buckets == 1 :> [type |-> "wifi", lower |-> 0, upper |-> 167]
           @@ 2 :> [type |-> "wifi", lower |-> 334, upper |-> 500]

Q == [id |-> Null, type |-> Null, coords |-> Null, radius |-> Null, ratings |-> {},
      tags |-> {}, open |-> Null, min |-> Null, max |-> Null, featured |-> Null,
      weather |-> {}, status |-> Null, sort |-> Null, order |-> Null, page |-> Null,
      size |-> 2]

Near(id, type) == [Q EXCEPT !.id = id, !.type = type]

Sorted == {[Q EXCEPT !.sort = sort, !.order = order, !.size = 1] :
               sort \in {"updated_at", "rating", "price_range"}, order \in {"asc", "desc"}}

\* One for each check
Refused ==
    {Near(1, "other"), Near(1, Null), Near(Null, "poi"), [Near(1, "cafe") EXCEPT !.coords = spot],
     [Q EXCEPT !.open = Bad], [Q EXCEPT !.min = 4, !.max = 3], [Q EXCEPT !.weather = {"other"}],
     [Q EXCEPT !.weather = {"rain", "current"}], [Q EXCEPT !.status = "deleted"],
     [Q EXCEPT !.sort = "other"], [Q EXCEPT !.order = "other"], [Q EXCEPT !.sort = "distance"],
     [Q EXCEPT !.page = Bad]}

AllQueries ==
    {Q, [Q EXCEPT !.size = Null], [Q EXCEPT !.size = 60], [Q EXCEPT !.status = "closed"],
     Near(dago, "area"), Near(park, "poi"), Near(1, "cafe"), Near(3, "cafe"),
     Near(dago, "district"), [Q EXCEPT !.coords = spot],
     [Q EXCEPT !.coords = spot, !.radius = 40, !.sort = "distance"],
     [Near(park, "poi") EXCEPT !.radius = 2001, !.sort = "distance", !.order = "desc"],
     [Q EXCEPT !.ratings = {2}], [Q EXCEPT !.ratings = {1, 2}], [Q EXCEPT !.ratings = {3}],
     [Q EXCEPT !.tags = {"wifi", "unknown"}], [Q EXCEPT !.open = "now"],
     [Q EXCEPT !.min = 3], [Q EXCEPT !.max = 1], [Q EXCEPT !.featured = TRUE],
     [Q EXCEPT !.weather = {"current"}], [Q EXCEPT !.weather = {"rain", "clear"}],
     [Q EXCEPT !.page = 200, !.size = 3], [Q EXCEPT !.page = 343, !.size = 3]}
    \cup Sorted \cup Refused
=============================================================================
