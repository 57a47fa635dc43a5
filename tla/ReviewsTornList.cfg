\* What a public list shows of a review that is being edited
SPECIFICATION Spec
CONSTANTS
    q1 = q1
    q2 = q2
    q3 = q3
    ann = ann
    bob = bob
    cafe = cafe
    vibe = vibe
    wifi = wifi
    old = old
    NoId = NoId
    NoUser = NoUser
    Reqs = {q1, q2, q3}
    Users = {ann, bob}
    Cafes = {cafe}
    Types = {vibe}
    Seeds = {old}
    CleanedUp = TRUE
    Outside = {"moderation"}
    Calls <- EditAndList
    SeedCafe <- SeedAtCafe
SYMMETRY ReqSymmetry
INVARIANTS ListedRatingsWereModerated
\* The system stops when every request is answered; that each one is answered
\* is checked by ReviewsOldKey.cfg.
CHECK_DEADLOCK FALSE
