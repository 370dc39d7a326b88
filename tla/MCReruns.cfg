CONSTANTS
    Defaults <- MCDefaults
    Guarded <- MCGuarded
    Data <- MCData
    Impact = "shadow"
    HalfFixes <- MCHalfFixes
    Controls <- MCControls
    Reviewed = "safe"
    MaxCommands = 2
    MaxChanges = 0
    NoFile = NoFile
    Partial = Partial
    None = None
SPECIFICATION Spec
INVARIANTS
    RerunsAreIdentical
CHECK_DEADLOCK FALSE
