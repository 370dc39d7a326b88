CONSTANTS
    Star = "*"
    NoId = NoId
    DependencyNames <- MCNames
    MaxSources = 3
    MaxMappings = 2
    Schema <- MCSchema
    Malformed = NoDocument
    Absent = Absent
    MaxEntry = 2
    MaxArchive = 4
    Keys = {"a", "b"}
    MaxDepth = 2
    MaxTokens = 9
SPECIFICATION SpecDocuments
INVARIANTS
    OrderNeverDecides
    AcceptsExactlyTheBuilt
    RepeatsAreRefused
    DeepMembersAreRefused
PROPERTIES
    AddingNeverRebinds
    FirstFaultDecides
CHECK_DEADLOCK FALSE
