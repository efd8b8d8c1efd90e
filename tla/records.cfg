SPECIFICATION IndexSpec
CONSTANTS
  run1 = run1
  c1 = c1
  c2 = c2
  d1 = d1
  d2 = d2
  x = x
  y = y
  Runs = {run1}
  Sigs = {x, y}
  Clerks = {c1, c2}
  Builders = {d1, d2}
  Budgets <- MCBudgets
SYMMETRY Symmetry
INVARIANTS
  NothingLost
  VerifiedHasEvidence
  AuditedIsGrouped
  FreshIsCurrent
  RanksAreCurrent
CHECK_DEADLOCK FALSE
