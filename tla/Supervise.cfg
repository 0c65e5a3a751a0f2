SPECIFICATION Spec
CONSTANTS
  Deadline = 4
  FirstLine = 2
  TermGrace = 2
  DrainGrace = 1
  StragglerGrace = 1
  MaxLines = 2
INVARIANT ReturnsInTime
INVARIANT StopLineReported
INVARIANT OutputRead
PROPERTY KillAfterGrace
PROPERTY FirstReasonStands
PROPERTY RunAgentReturns
PROPERTY NothingLeft
CHECK_DEADLOCK FALSE
