CONSTANTS
    Workers = {0, 1, 2}
    Kinds = {"markers", "retired"}
    Handled = {"markers"}
    UniqueKinds = {}
    Targets = {1}
    Priorities = {0}
    MaxAttempts = 1
    MaxJobs = 2
    MaxRequeues = 0
    MaxCrashes = 1
    MaxLostWrites = 0
    Sizes = {0, 1, 2}
    Caps = {1}
    InitialSize = 2
    InitialCap = 1
    MaxResizes = 2
    MaxScans = 1
    MaxPollErrors = 1
    MaxTurns = 2
SPECIFICATION PoolFairSpec
INVARIANTS OneLateClaim NothingLeaks
PROPERTIES PoolIsAQueue PoolSettlesJobs
CHECK_DEADLOCK FALSE
