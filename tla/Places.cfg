\* Every pair of requests about six places, with a change
SPECIFICATION Spec
CONSTANTS
    Locs <- SixPlaces
    TypeOf <- SixTypes
    Maps <- FourMaps
    MaxEdits = 1
INVARIANTS TypeOK OneAddress ParentListsChild NamedAreaHasCafe SlugHasPages
