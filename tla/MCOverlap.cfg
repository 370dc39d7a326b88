CONSTANTS
    c1 = c1
    c2 = c2
    NoFile = NoFile
    Partial = Partial
    None = None
    Packages <- MCPackages
    Failures <- MCFailures
    KnownUnsafe = {c2}
    Overlap = TRUE
    Scenarios <- MCScenarios
    Runs = {1, 2}
SPECIFICATION Spec
INVARIANTS
    LedgerIsWhole
    ReleasedOnce
CHECK_DEADLOCK FALSE
