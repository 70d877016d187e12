CONSTANTS
  Extensions <- AllExtensions
  Players <- AllPlayers
SPECIFICATION Spec
INVARIANTS LeftClean GivenOnce RewoundIfValid
PROPERTY FactoryReturns
CHECK_DEADLOCK FALSE
