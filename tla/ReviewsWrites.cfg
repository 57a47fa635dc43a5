\* Three concurrent writes of two users, or two beside a reader, after 012
SPECIFICATION HSpec
CONSTANTS
    q1 = q1
    q2 = q2
    q3 = q3
    ann = ann
    bob = bob
    cafe = cafe
    vibe = vibe
    wifi = wifi
    old = old
    NoId = NoId
    NoUser = NoUser
    Reqs = {q1, q2, q3}
    Users = {ann, bob}
    Cafes = {cafe}
    Types = {vibe}
    Seeds = {}
    CleanedUp = TRUE
    Outside = {"moderation", "accounts", "locations", "faults"}
    Calls <- Everything
    SeedCafe <- SeedAtCafe
CONSTRAINT SmallRaces
ACTION_CONSTRAINT OneRace
SYMMETRY ReqSymmetry
INVARIANTS TypeOK OneLiveReview RatingsMatchText RatingsNeverCollide
PROPERTIES DeletedIsFinal AnswerIsOwnOrLater ImplementsBook
\* The system stops when every request is answered; that each one is answered
\* is checked by ReviewsOldKey.cfg.
CHECK_DEADLOCK FALSE
