CONSTANTS
    c1 = c1
    c2 = c2
    NoFile = NoFile
    Partial = Partial
    None = None
    Packages <- MCPackages
    Failures <- MCFailures
    KnownUnsafe = {c2}
    Overlap = FALSE
    Scenarios <- MCHistory
    Runs = {1, 2, 3}
SPECIFICATION Spec
INVARIANTS
    TypeOK
    AuditMatchesLedger
    ReadIsCompleteOrFails
    OutcomeIsTrue
    EveryOutcomeIsAudited
    PassesAreTrue
    FailuresAreDisagreements
PROPERTIES
    OnlyApprovalsChangeTheLedger
    KeepsLedger
CHECK_DEADLOCK FALSE
