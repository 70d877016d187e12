SPECIFICATION TapeLiveSpec
CONSTANTS
  Channels = 1
  Registers = {96}
  Values = {1}
  Periods <- MCPeriods
  MaxWords = 7
  Captures <- MCCaptures
INVARIANTS ReplayFaithful ReplayComplete
PROPERTIES EveryPassTheSame RawEndIsSticky ReplayEnds
