--------------------------- MODULE MCReviewListing ---------------------------
(***************************************************************************)
(* A small instance of ReviewListing for TLC: a pinned partnership review, *)
(* reviews of two users, two of them of one microsecond.                   *)
(***************************************************************************)
EXTENDS ReviewListing, TLC

CONSTANTS ann, bob

R(status, user, pinned, updated) ==
    [status |-> status, user |-> user, pinned |-> pinned, updated |-> updated]

Absent == R("absent", NoUser, FALSE, 0)

At(reviews, anns, bobs) ==
    [review |-> reviews, started |-> ann :> anns @@ bob :> bobs, clock |-> 2]

\* Ann has a PUT under way that began before the one that her review is from,
\* Bob a POST.
Tables ==
    {At(<<R("approved", NoUser, TRUE, 1), R("approved", ann, FALSE, 2),
          R("approved", bob, FALSE, 2), Absent>>, {1}, {}),
     At(<<R("approved", NoUser, FALSE, 1), R("approved", ann, FALSE, 1),
          R("approved", NoUser, FALSE, 2), Absent>>, {0}, {1})}

\* Two that are sound, one that a review deleted since had and one of the
\* future, and some that are not
Cursors == {<<0, 1, 3>>, <<1, 0, 9>>, <<2, 1, 1>>, <<0, Bad, 1>>, <<0, 1, 0>>, <<0, 1>>}
=============================================================================
