CONSTANTS
    MaxComponent = 9
    Star = "*"
    NoId = NoId
    Unparsable = Unparsable
    Malformed = Malformed
    NotFound = NotFound
    Unavailable = Unavailable
    None = None
    Inputs <- MCInputs
    Listings <- MCListings
    Blobs <- MCBlobs
SPECIFICATION FairSpec
INVARIANTS
    AsksThePoolInOrder
    EverySourceAnsweredFirst
    SelectsTheHighest
PROPERTIES
    AlwaysEnds
CHECK_DEADLOCK FALSE
