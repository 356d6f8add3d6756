\* Two candidates, a build and a test, one retry, one rejection; the worktree of
\* one candidate may resist its removal, the process may restart.
SPECIFICATION MCSpec
CONSTANTS
  candA = candA  candB = candB
  Candidates <- MCCandidates
  Commands <- MCCommands
  Hard = {"build", "test"}
  Regression = {"build"}
  MaxRetries = 1
  Sticky = {candA}
  Restarts = TRUE
  None = None
  MaxRejects = 1
INVARIANTS SurvivorsEarnedIt NoTreeForgottenUnlessHurried
PROPERTIES RunEnds
CHECK_DEADLOCK FALSE
