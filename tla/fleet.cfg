SPECIFICATION Spec
CONSTANTS
  job1 = job1
  job2 = job2
  plan = plan
  main = main
  g1 = g1
  NoJob = NoJob
  NoGen = NoGen
  PlanGen = g1
  Job <- TwoJobs
  TypeOf <- TwoTypes
  Rank <- MCRank
  PlanDay <- MCPlanDay
  Gen = {g1}
  Worker <- TwoJobs
  Spender <- TwoJobs
  Main = main
  Syncer = {main}
  MaxAttempts = 2
  MaxOpenPerType = 1
  MaxNewPerSync = 2
  LastDay = 1
  MaxCharges = 1
  NoBill = NoBill
  Bill <- MCBill
  Empty = Empty
  Garbled = Garbled
  Missing = Missing
  BuildHeavy = {job1}
  MaxUsd <- MCMaxUsd
  DailyCap = 3
  MaxWorkers = 2
  MaxBuild = 1
  MaxWaves = 2
  Twice = {job2}
  MaxFaults = 0
INVARIANT ExactUnlessOverlapped
PROPERTY DispatchTerminates
