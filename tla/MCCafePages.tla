----------------------------- MODULE MCCafePages -----------------------------
(***************************************************************************)
(* A small instance of CafePages for TLC.  The buckets of noise and of     *)
(* price-rank are those of migrations/003_data_seeder.sql.                 *)
(***************************************************************************)
EXTENDS CafePages

CONSTANTS ana, ben, noise

TwoCafes == {1, 2}
\* Of Ana and a partnership on one cafe, of Ben on the other
ThreeReviews == 1..3
ThreeCafes == <<1, 1, 2>>
ThreeAuthors == <<ana, None, ben>>

Quiet == [kind |-> noise, lower |-> 0, upper |-> 167, slug |-> TRUE]
ModerateNoise == [kind |-> noise, lower |-> 168, upper |-> 333, slug |-> FALSE]
Loud == [kind |-> noise, lower |-> 334, upper |-> 500, slug |-> FALSE]
Bandung == [kind |-> PriceKind, lower |-> 0, upper |-> 2500000, slug |-> TRUE]
Riau == [kind |-> PriceKind, lower |-> 2500100, upper |-> 4500000, slug |-> FALSE]
Jakarta == [kind |-> PriceKind, lower |-> 4500100, upper |-> 99999900, slug |-> FALSE]
SeededTiers == <<Bandung, Riau, Jakarta>>
SeededBuckets == {Quiet, ModerateNoise, Loud, Bandung, Riau, Jakarta}

Scored(overall, loudness, rank) ==
    [overall |-> overall,
     scores |-> [k \in {noise, PriceKind} |-> IF k = noise THEN loudness ELSE rank]]

\* Scores that are stored on the bound of a bucket or between two, and average
\* between two; no overall score; more than 5, as the overall score and as one of noise
FewForms == {Scored(4335, 1675, 25000500), Scored(5000, 1674, 30000000),
             Scored(None, 5000, None),
             Scored(5001, 3335, None), Scored(5000, 6000, None)}

Priced(a, b) == [min |-> a, max |-> b]
\* The middle of the tiers, of two of them, and of none; only one price
FewPrices == {Priced(20000, 30000), Priced(20001, 30000), Priced(45001, 80000),
              Priced(30000, None)}

By(buckets, min, max, order) == [buckets |-> buckets, min |-> min, max |-> max,
                                 order |-> order]
FewQueries ==
    {By(buckets, None, None, "desc") : buckets \in
        {{Quiet}, {ModerateNoise}, {Riau}, {Loud, Riau}, {Quiet, Loud}}}
    \cup {By({}, None, None, "asc")}
    \cup {By({}, 0, 25000, "desc"), By({}, 25001, 45000, "desc"), By({}, 45001, None, "desc")}
=============================================================================
