SPECIFICATION PovSpec
CONSTANTS
  h1 = h1
  h2 = h2
  Hyp = {h1, h2}
  Campaign = Campaign
  MaxAttempts = 2
  LastTime = 4
PROPERTY OwnFindingIsCredited
