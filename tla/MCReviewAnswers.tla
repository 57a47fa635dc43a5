--------------------------- MODULE MCReviewAnswers ---------------------------
(***************************************************************************)
(* The instance of MCReviews with the history of ReviewAnswers.            *)
(***************************************************************************)
EXTENDS MCReviews, ReviewAnswers
=============================================================================
