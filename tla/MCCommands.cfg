CONSTANTS
    Defaults <- MCDefaults
    Guarded <- MCGuarded
    Data <- MCData
    Impact = "shadow"
    HalfFixes <- MCHalfFixes
    Controls <- MCControls
    Reviewed = "safe"
    MaxCommands = 2
    MaxChanges = 2
    NoFile = NoFile
    Partial = Partial
    None = None
SPECIFICATION Spec
INVARIANTS
    PassedMeansExpected
    FailedMeansDisturbed
    PassedMeansDueRegistries
    CompareIsFromFreshState
PROPERTIES
    NothingVulnerableUnacknowledged
CHECK_DEADLOCK FALSE
