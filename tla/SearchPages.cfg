\* Three cafes in every version, one change outside, walks of three pages
SPECIFICATION Spec
CONSTANTS
    Null = Null
    Bad = Bad
    Cafes = {1, 2, 3}
    Versions <- AllVersions
    spot = spot
    park = park
    dago = dago
    Places = {park, dago}
    Kind <- AllKinds
    Spots = {spot}
    Uncharted = {3}
    Distance <- Map
    Inside <- AllInside
    RatingCategory <- Buckets
    Tags = {"wifi"}
    Queries <- AllQueries
    Half = 512
    MaxEdits = 1
    MaxPages = 3
INVARIANTS TypeOK PagesPartition
PROPERTIES BannerMatchesCafes NearbyMeansNearby
