CONSTANTS
    Libraries = {movies, shows}
    Slots = {s1, s2, s3}
    Origins = {"api", "scheduler"}
    Faults = {"db", "cancel", "panic"}
    MaxStarts = 4
    MaxLate = 2
SPECIFICATION FairSpec
INVARIANTS LocksKept GateIsTrue
PROPERTIES GateComesDown ScheduledLocksReturn
CHECK_DEADLOCK FALSE
