CONSTANTS
    Tasks = {scan, backup}
    Manual = {backup}
    Requests = {r1}
    ClaimLimit = 1
    Outcomes = {"success", "failed", "panic"}
    MaxEdits = 1
    MaxRunNow = 1
    MaxSwitches = 1
    MaxCrashes = 1
    MaxLostWrites = 1
SPECIFICATION FairSpec
INVARIANTS RunsAddUp WedgedOnlyByLostWrite
PROPERTIES RunsEnd TasksKeepRunning
CHECK_DEADLOCK FALSE
