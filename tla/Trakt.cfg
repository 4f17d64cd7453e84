CONSTANTS
    Callers = {a, b}
    MaxPairs = 3
    MaxPlays = 1
    MaxJobs = 2
    MaxScans = 2
    MaxFaults = 1
    MaxMoves = 5
SPECIFICATION FairSpec
INVARIANTS TokensCurrent
PROPERTIES CursorKeepsPlays MirrorReachesLibrary
CHECK_DEADLOCK FALSE
