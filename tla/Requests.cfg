SPECIFICATION Spec
CONSTANTS
  r1 = r1
  r2 = r2
  w1 = w1
  w2 = w2
  w3 = w3
  w4 = w4
  ReadKeys = {"list", "preview", "job-get"}
  LatestKeys = {"preview"}
  Askers = {r1, r2, w1, w2, w3, w4}
  Change <- MCChange
  ReadMax = 1
  WaitMax = 1
  WriteMax = 2
  Crowds <- MCCrowds
  Budget <- MCBudget
INVARIANT HeldOnce
INVARIANT ReadsFresh
INVARIANT LanesBounded
INVARIANT ArmFollowsSave
INVARIANT ChangesShown
PROPERTY EveryAskAnswered
CHECK_DEADLOCK FALSE
