CONSTANTS
    Registries <- MCRegistries
    VulnerableSets = {"shadow"}
    Plans <- MCPlans
    Carried <- MCCarried
    Runs = {1}
    MisKeyed = {"public"}
    MaxFaults = 0
SPECIFICATION Spec
INVARIANTS
    AcceptedReceiptsAreVerified
CHECK_DEADLOCK FALSE
