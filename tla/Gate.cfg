SPECIFICATION Spec
CONSTANTS
  Jobs <- MCJobs
  Depth = 5
  WalkMax = 3
  Ttl = 1
  Fresh = 1
  MaxTime = 2
  MaxDetects = 2
  MaxChanges = 2
INVARIANTS NeverSpends NoProjectCode PreviewAgrees
