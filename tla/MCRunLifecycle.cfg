\* Two seeds, two refinement rounds, two cancel requests.
SPECIFICATION FairSpec
CONSTANTS
  seedA = seedA  seedB = seedB
  refined1 = refined1  refined2 = refined2
  Seeds <- MCSeeds
  Neighbours <- MCNeighbours
  Rounds = 2
  None = None
  MaxJudgeCalls = 2
  MaxCancels = 2
INVARIANTS SettledBeforeJudged ResultNeverWorse
PROPERTIES RunEnds
CHECK_DEADLOCK FALSE
