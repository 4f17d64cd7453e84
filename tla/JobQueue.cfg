CONSTANTS
    Workers = {w1, w2}
    Kinds = {"markers", "retired"}
    Handled = {"markers"}
    UniqueKinds = {"markers"}
    Targets = {1}
    Priorities = {0, 10}
    MaxAttempts = 2
    MaxJobs = 2
    MaxRequeues = 1
    MaxCrashes = 1
    MaxLostWrites = 1
SPECIFICATION FairSpec
INVARIANTS RowsKept OwnersKept DuplicateOnlyByRevival NoSilentDeath
PROPERTIES KeepsContract EveryJobSettles
CHECK_DEADLOCK FALSE
