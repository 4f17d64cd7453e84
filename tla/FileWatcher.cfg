CONSTANTS
    Libraries = {movies, shows}
    Slots = {s1, s2}
    Origins = {"scheduler", "watcher"}
    Faults = {}
    MaxStarts = 1
    MaxLate = 1
    ChannelCap = 1
    Endless = {}
    MaxTouches = 3
    MaxToggles = 2
SPECIFICATION WatchFairSpec
INVARIANTS ChangesKept
PROPERTIES EveryChangeScanned
CHECK_DEADLOCK FALSE
