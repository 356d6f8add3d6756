\* Four events, three connections.
SPECIFICATION StreamFairSpec
CONSTANTS
  MaxEvents = 4
  MaxConnections = 3
INVARIANTS NoGapNoDuplicate
PROPERTIES EndReachesClient
CHECK_DEADLOCK FALSE
