CONSTANTS
    Roots = {A, B}
    Names = {n}
    ChannelCap = 1
    MaxScans = 2
    MaxMishaps = 2
SPECIFICATION FairSpec
INVARIANT AnnouncedOnce
PROPERTY ReconcileSpares
PROPERTY EveryFileAnalysed
CHECK_DEADLOCK FALSE
