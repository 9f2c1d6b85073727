CONSTANT MaxAttempts = 3
SPECIFICATION FairSpec
CHECK_DEADLOCK FALSE
INVARIANTS
    TypeOK
    OneIncarnation
    ReadyIsExact
    OperationsSettled
PROPERTIES
    ShutdownAskedOnce
    ClosingIsFinal
    KeepsContract
    StartsSettle
    ShutdownSettles
