SPECIFICATION Spec
CONSTANTS
  Kinds <- MCKinds
  MaxLines = 3
  Margin = 1
  Lead = 1
  FiveHours = 3
  GraceTime = 0
  GraceReset = 1
  Horizon = 6
  Extra = 1
  Backoff = 1
  MaxDefers = 1
  MaxLimitRetries = 1
  MaxTransient = 1
  MaxBusyDefers = 1
  Ahead = {1, 3}
  SameReset = 0
  Conditions = {"fresh"}
  MaxTime = 5
PROPERTIES NeverSentAgain WaitsForReset
CHECK_DEADLOCK FALSE
