CONSTANTS
    Clients = {c1, c2, c3, c4}
    Threshold = 2
    MaxFailures = 6
SPECIFICATION BreakerSpec
INVARIANTS TripsCounted OneProbe
CHECK_DEADLOCK FALSE
