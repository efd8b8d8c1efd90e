SPECIFICATION JobsSpec
CONSTANTS
  Sinks <- TwinSinks
  Ladder <- MCLadder
  Top = 2
  Days = 2
  Changes = 1
  Leads = {1}
PROPERTY ReopensOnlyOnChange
