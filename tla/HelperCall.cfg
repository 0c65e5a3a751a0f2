SPECIFICATION Spec
CONSTANTS
  Caps <- MCCaps
  Deadline = 3
  MaxWritten = 3
INVARIANT SettlesInTime
INVARIANT CompleteAnswer
PROPERTY AnsweredOnce
CHECK_DEADLOCK FALSE
