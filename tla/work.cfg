SPECIFICATION WorkSpec
CONSTANTS
  h1 = h1
  h2 = h2
  u1 = u1
  u2 = u2
  u3 = u3
  f1 = f1
  f2 = f2
  f3 = f3
  Hyp = {h1, h2}
  Campaign = Campaign
  MaxAttempts = 2
  LastTime = 3
  AttemptLimit = 12
  Size = 4
  Units = {u1, u2, u3}
  Features = {1, 2, 3}
  Covers <- MCCovers
  Authored = {u1}
  Linked = {u3}
  MinFiles = 1
  MaxCrashes = 1
  MaxPatches = 2
  MaxTail = 2
  MaxBlob = 3
  MaxSolutions = 1
  Blobs <- MCBlobs
  Sinks <- MCSinks
  Ladder <- MCLadder
  Top = 2
  Days = 2
  Changes = 3
  Leads = {1, 2}
  Fixtures <- MCFixtures
  Fuzzed = f3
  Worlds <- MCWorlds
  Halted = {"reachability", "dedupe", "export"}
  MaxStarts = 2
  MaxSessions = 1
VIEW WorkView
INVARIANTS
  CreditIsFresh
  ReducedIsMinimal
  CoverageKept
  SkippedOnlyByCrash
  SolutionTransfers
  PassedStaysClosed
PROPERTY
  ClosesWhenEarned
CHECK_DEADLOCK FALSE
