SPECIFICATION TapeLiveSpec
CONSTANTS
  Channels = 1
  Registers = {2, 96}
  Values = {1}
  Periods <- MCPeriods
  MaxWords = 7
  Captures <- MCCaptures
INVARIANTS ReplayComplete
