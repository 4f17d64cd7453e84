SPECIFICATION FairSpec
CONSTANTS
    Hooks = {h1}
    Events = {e1}
    BusCap = 1
    MaxAttempts = 3
    MaxDrivers = 2
    MaxFaults = 1
    MaxCrashes = 1
    MaxEdits = 1
INVARIANTS LogIsTrue NoExtraPosts NoDeliveryForgotten
PROPERTIES EveryDeliverySettles
CHECK_DEADLOCK FALSE
