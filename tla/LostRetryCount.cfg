SPECIFICATION Spec
CONSTANTS
  j1 = j1
  j2 = j2
  c1 = c1
  c2 = c2
  s1 = s1
  s2 = s2
  t0 = t0
  t1 = t1
  JobIds = {j1}
  Cmds = {c1}
  Times = {t0}
  OwnTime = t0
  Sessions = {s1, s2}
  Clients = {"p1"}
  Repertoire = {"arm"}
  Ops = 1
  Faults = 1
  Toggles = 2
  Budgets <- MCBudgets
  Cap <- MCCap
  FreshSession <- MCFresh
  SessionOf <- MCSessionOf
INVARIANT RetryCapHolds

CHECK_DEADLOCK FALSE
