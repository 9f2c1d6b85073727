CONSTANTS
    MaxGeneration = 3
    Redelivers = TRUE
SPECIFICATION FairActorsSpec
INVARIANTS
    TokensFence
    EvidenceIsFresh
    FirstSubmittedFirst
    InOrderOnce
    HeldInputsKept
    NewestFactCounts
    OneEnd
    PhasesInOrder
    TablesAreExact
    InterpretedInOrder
    BlockedOnlyByFailure
    SettlementsReachSource
PROPERTIES
    SilenceIsReal
    LeavesInOrder
    TimeLeadsOn
CHECK_DEADLOCK FALSE
