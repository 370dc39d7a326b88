CONSTANTS
    MaxComponent = 9
    Star = "*"
    NoId = NoId
    Unset = Unset
    Unparsable = Unparsable
    Malformed = Malformed
    NotFound = NotFound
    Unavailable = Unavailable
    None = None
    Inputs <- MCInputs
    Listings <- MCListings
    Blobs <- MCBlobs
    RegistrySets <- MCRegistrySets
    Built <- MCBuilt
    Project = Project
    Catalogues <- MCCatalogues
    Anybody = Anybody
    Down = Down
SPECIFICATION ServedFairSpec
INVARIANTS
    TypeOK
    EveryRequestIsAuthorised
    OnlyPinnedBytesAreOpened
    RecordTellsHowFar
    LinesAgree
    VerdictMeansWhatItSays
    ValidatedScenariosFailOnlyOnAnswers
    CheckedScenariosDeliver
PROPERTIES
    KeepsPromise
CHECK_DEADLOCK FALSE
