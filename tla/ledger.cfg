SPECIFICATION LedgerSpec
CONSTANTS
  hunt = hunt
  plan = plan
  w1 = w1
  w2 = w2
  g1 = g1
  g2 = g2
  NoJob = NoJob
  NoGen = NoGen
  PlanGen = g1
  Job <- MCJob
  TypeOf <- MCTypeOf
  Rank <- MCRank
  PlanDay <- MCPlanDay
  Gen = {g1}
  Worker = {w1, w2}
  Syncer = {s1}
  MaxAttempts = 2
  MaxOpenPerType = 1
  MaxNewPerSync = 1
  LastDay = 2
  MaxCharges = 2
SYMMETRY Symmetry
INVARIANT StuckMeansAbandoned
INVARIANT OnlyFailuresConsumeAttempts
