SPECIFICATION Spec
CONSTANTS
  job1 = job1
  job2 = job2
  plan = plan
  main = main
  g1 = g1
  NoJob = NoJob
  NoGen = NoGen
  PlanGen = g1
  Job = {job1, job2, plan}
  TypeOf <- OneType
  Rank <- MCRank
  PlanDay <- MCPlanDay
  Gen = {g1}
  Worker = {job1, job2, plan}
  Spender = {job1, job2, plan}
  Main = main
  Syncer = {main}
  MaxAttempts = 2
  MaxOpenPerType = 1
  MaxNewPerSync = 2
  LastDay = 2
  MaxCharges = 2
  NoBill = NoBill
  Bill <- MCBill
  Empty = Empty
  Garbled = Garbled
  Missing = Missing
  BuildHeavy = {}
  MaxUsd <- MCMaxUsd
  DailyCap = 3
  MaxWorkers = 2
  MaxBuild = 1
  MaxWaves = 2
  Twice = {}
  MaxFaults = 1
INVARIANT BrakeHolds
PROPERTY KeepsLifecycle
