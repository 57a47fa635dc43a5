\* Four reviews in pages of one, three changes or failures meanwhile
SPECIFICATION Spec
CONSTANTS
    Null = Null
    Bad = Bad
    NoUser = NoUser
    ann = ann
    bob = bob
    Ids = {1, 2, 3, 4}
    Users = {ann, bob}
    PageSize = 1
    Start <- Tables
    Sent <- Cursors
    MaxClock = 2
    MaxEdits = 3
INVARIANTS TypeOK
PROPERTIES SteadyListedOnce TwiceOnlyIfLowered CalmWalkIsExact WalkEnds
