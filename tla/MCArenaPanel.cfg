SPECIFICATION MCSpec
CONSTANTS
    o1 = o1
    o2 = o2
    f1 = f1
    f2 = f2
    Ops <- MCOps
    Flights <- MCFlights
    MaxKeys = 2
    MaxProcs = 3
    MaxRuns = 2
INVARIANTS NoOrphanUnlessOverlapped KeyInForceUnlessChat PollingStops
PROPERTIES EndIsShownUnlessCrossed
CHECK_DEADLOCK FALSE
