SPECIFICATION Spec
CONSTANTS
    NRoles = 2
    NJobs = 2
    NKeys = 2
    BindingCapacity = 1
    MaxGenerations = 2
    BacklogCapacity = 1
    StartupLimit = 1
    RestartLimit <- MCLimit
    Configs <- MCConfigs
    MaxJobs = 2
    MaxAssignments = 2
    MaxShutdowns = 2
    MaxCreations = 1
    MaxTimers = 1
    MaxDuration = 3
    FactorBits = 2
CHECK_DEADLOCK FALSE
INVARIANT KeyedNeverStuck
