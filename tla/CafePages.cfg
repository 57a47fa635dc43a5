\* Every pair of requests about two cafes, with an edit
SPECIFICATION Spec
CONSTANTS
    ana = ana
    ben = ben
    noise = noise
    PriceKind = PriceKind
    None = None
    Cafes <- TwoCafes
    Reviews <- ThreeReviews
    CafeOf <- ThreeCafes
    AuthorOf <- ThreeAuthors
    Users = {ana, ben}
    Kinds = {noise, PriceKind}
    Buckets <- SeededBuckets
    Tiers <- SeededTiers
    Forms <- FewForms
    Prices <- FewPrices
    Queries <- FewQueries
    MaxEdits = 1
INVARIANTS TypeOK OneBucketHolds ShownScoreIsFound RankIsItsTier RatingOrderIsShown
