SPECIFICATION RoundsSpec
CONSTANTS
  campA = campA
  campB = campB
  sigA = sigA
  sigB = sigB
  Campaigns = {campA, campB}
  Sigs = {sigA, sigB}
  Features = {2}
  Sizes = {1}
  FlatRounds = 1
  Earlier <- MCEarlier
  MaxRounds = 3
  MaxInterrupts = 1
  Orders = {"dead"}
  MaxOrders = 1
  loop = loop
  s1 = s1
  Sinks = {1, 2}
  Sessions = {s1}
  Loop = loop
  Floor = 1
  Frontier = 2
  Agent = 3
  Decay = 2
  Budget = 2
  Cap = 1
  Rounds = 1
SYMMETRY Symmetry
INVARIANTS
  SuppressedWasFound
  FoundIsKnown
  FoundIsConfirmed
  ConfirmedStays
  FoldsMeanWhatTheySay
  OneActive
  FrontierWithinCap
PROPERTIES
  RotatesAfterTick
  ClosedUnlessOverlapped
CHECK_DEADLOCK FALSE
