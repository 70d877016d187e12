CONSTANTS
  Unset = Unset
  Chosen = {"rad"}
  Kept <- MCKept
  HscOrders = 3
  S3mOrders = 5
  Songs <- SpeedSongs
  MaxPlays = 3
  MaxTicks = 600
  Overrun <- MCOverrun
  Rows = 2
  LdsPositions = 2
  LdsRows = 2
  PatternRows = 2
  WmTicks = 12
  AdlVoices = {0, 6, 9}
  AdlBytes = 4
  Voices = 2
  MidiVoices = {0, 6, 7}
  HeradVoices = 2
  U6mVoices = {0, 1}
  A2mOrders = 4
  RixVoices = {0, 6, 7, 8}
  XmiVoices = {0, 3, 6}
  XmiSlots = {1, 2, 3, 4}
  XmiNotes = {1, 2, 3}
  ComposerVoices = {0, 6, 7, 8, 9}
SPECIFICATION Spec
PROPERTY KeepsContract
CHECK_DEADLOCK FALSE
