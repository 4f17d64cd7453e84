CONSTANTS
    Users = {u1}
    Tabs = {a, b}
    Titles = {t1}
    Mismatched = {}
    MaxSessions = 2
    MaxConcurrent = 1
    MaxCpu = 2
    RemoteCap = 1
SPECIFICATION FairSpec
INVARIANTS OneStopPerSession FlagTellsStopped
PROPERTIES KeepsContract EncodersReleased CallsReturn
CHECK_DEADLOCK FALSE
