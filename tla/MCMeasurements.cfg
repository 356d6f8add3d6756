SPECIFICATION Spec
CONSTANTS
    m1 = m1
    m2 = m2
    c1 = c1
    c2 = c2
    Models <- MCModels
    Ops <- MCOps
    MaxKeys = 2
    MaxProviders = 2
    MaxVerifies = 1
    MaxStarts = 2
    None = None
INVARIANTS KeyInForceUnlessOvertaken
PROPERTIES DiskKeepsUnlessCrossed ProbedOnce MeasuringEnds
CHECK_DEADLOCK FALSE
