CONSTANTS
    MaxComponent = 9
    Star = "*"
    NoId = NoId
    Unparsable = Unparsable
    Malformed = Malformed
    NotFound = NotFound
    Unavailable = Unavailable
    None = None
    Inputs <- MCInputs
    Listings <- MCListings
    Blobs <- MCBlobs
SPECIFICATION Spec
INVARIANTS
    PoolOrderDecidesNothing
CHECK_DEADLOCK FALSE
