SPECIFICATION Spec
CONSTANTS
    Roles = {1, 2, 3}
    StartupLimit = 1
    Limit <- MCLimit
    MaxTickets = 2
    MaxFaults = 2
    MaxDuration = 100
    FactorBits = 2
    Configs <- MCConfigs
CHECK_DEADLOCK FALSE
INVARIANTS ServiceIsExact StartsAccounted ReportsInOrder SettlesWhenQuiet
