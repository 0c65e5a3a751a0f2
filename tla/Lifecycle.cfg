SPECIFICATION Spec
CONSTANTS
  j1 = j1
  j2 = j2
  c1 = c1
  c2 = c2
  s1 = s1
  s2 = s2
  t0 = t0
  t1 = t1
  JobIds = {j1}
  Cmds = {c2}
  Times = {t0, t1}
  OwnTime = t0
  Sessions = {s1, s2}
  Clients = {"p1"}
  Repertoire = {"arm", "disarm", "run-now", "reschedule"}
  Ops = 2
  Faults = 1
  Toggles = 0
  Budgets <- MCBudgets
  Cap <- MCCap
  FreshSession <- MCFresh
  SessionOf <- MCSessionOf
INVARIANT TypeOK
INVARIANT UnitsBehindStore
INVARIANT ClaimIsCurrent
INVARIANT RetriesWithinCap
INVARIANT LaunchesCounted
INVARIANT ArmedHasNoRecord
INVARIANT StopsOnlyStale
PROPERTY FreshGeneration
PROPERTY ClosingErasesPrompt
PROPERTY PassSettles
CHECK_DEADLOCK FALSE
