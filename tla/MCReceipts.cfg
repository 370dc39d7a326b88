CONSTANTS
    Registries <- TwoRegistries
    VulnerableSets = {"shadow"}
    Plans <- ShortPlans
    Carried <- MCCarried
    Runs = {1, 2}
    MisKeyed = {}
    MaxFaults = 1
SPECIFICATION FairSpec
INVARIANTS
    ReceiptsListOnlyTheRunsQuestions
    AnsweredQuestionsAreReported
    TranscriptsAskEveryRegistry
PROPERTIES
    EveryRunEnds
CHECK_DEADLOCK FALSE
