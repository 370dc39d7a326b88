CONSTANTS
    c1 = c1
    c2 = c2
    NoFile = NoFile
    Partial = Partial
    None = None
    Packages <- MCPackages
    Failures <- MCFailures
    KnownUnsafe = {c2}
    Overlap = FALSE
    Scenarios <- MCHistory
    Runs = {1}
SPECIFICATION Spec
INVARIANTS
    NoPolicyWasRead
CHECK_DEADLOCK FALSE
