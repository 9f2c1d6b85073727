SPECIFICATION Spec
CONSTANTS
    NRoles = 2
    NJobs = 2
    BacklogCapacity = 1
    StartupLimit = 1
    RestartLimit <- MCLimit
    Configs <- MCConfigs
    MaxJobs = 2
    MaxAssignments = 3
    MaxShutdowns = 2
    MaxCreations = 2
    MaxTimers = 1
    MaxDuration = 3
    FactorBits = 2
CHECK_DEADLOCK FALSE
INVARIANTS JobsAccounted PoolCustody NobodyWaits
PROPERTIES AdmissionOrder
