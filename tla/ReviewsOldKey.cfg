\* Writes under the unique key (cafe, type) that 012 drops, and the liveness of
\* requests whose transactions can deadlock, of a reader beside them too
SPECIFICATION Spec
CONSTANTS
    q1 = q1
    q2 = q2
    q3 = q3
    ann = ann
    bob = bob
    cafe = cafe
    vibe = vibe
    wifi = wifi
    old = old
    NoId = NoId
    NoUser = NoUser
    Reqs = {q1, q2, q3}
    Users = {ann, bob}
    Cafes = {cafe}
    Types = {vibe, wifi}
    Seeds = {}
    CleanedUp = FALSE
    Outside = {"moderation", "accounts", "locations", "faults"}
    Calls <- RatersAndList
    SeedCafe <- SeedAtCafe
CONSTRAINT ListIsThird
ACTION_CONSTRAINT CalmWithoutList
PROPERTIES EveryRequestAnswered
\* The system stops when every request is answered.
CHECK_DEADLOCK FALSE
