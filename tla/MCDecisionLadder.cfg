\* Three answers, three pairs, every rung, one parse retry, one budget.
SPECIFICATION FairSpec
CONSTANTS
  draftA = draftA  draftB = draftB  draftC = draftC
  Subjects <- MCThree
  Pairs <- MCAllPairs
  Scores = {0, 1}
  NoScore = NoScore  None = None  Tie = Tie
  MaxParseRetries = 1
  SelfConsistencyRounds = 3
  Ensemble = 2
  Probe = TRUE
  MaxJudgeCalls = 14
  AgreementPercent = 67
INVARIANTS OverrunIsOneRung PositionNeverWins
CHECK_DEADLOCK FALSE
