SPECIFICATION RoundSpec
CONSTANTS
  campA = campA
  campB = campB
  sigA = sigA
  sigB = sigB
  Campaigns = {campA}
  Sigs = {sigA}
  Features = {4}
  Sizes = {1, 2, 3}
  FlatRounds = 2
  Earlier <- MCNew
  MaxRounds = 4
  MaxInterrupts = 0
  Orders = {"dead"}
  MaxOrders = 0
INVARIANT GrowthIsNotPlateau
CHECK_DEADLOCK FALSE
