SPECIFICATION Spec
CONSTANTS
    Keys = {k1, k2}
    EntryLimit = 2
    StartupLimit = 1
    MaxGenerations = 2
    MaxOperations = 3
    MaxCreations = 2
    MaxFaults = 1
CHECK_DEADLOCK FALSE
INVARIANT DrainOwnsEveryEntry
