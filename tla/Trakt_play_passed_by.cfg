CONSTANTS
    Callers = {a}
    MaxPairs = 1
    MaxPlays = 1
    MaxJobs = 1
    MaxScans = 0
    MaxFaults = 0
    MaxMoves = 3
SPECIFICATION Spec
INVARIANTS NoPlayPassedBy
CHECK_DEADLOCK FALSE
