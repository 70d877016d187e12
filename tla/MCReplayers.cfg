CONSTANTS
  Unset = Unset
  Chosen = {"hyp","psi","flash","rat","hybrid","bmf","hsc","s3m","fmk","sng","imf","got","dro","dro2","vgm","msc","xsm","ksm","bam","jbm","mkj","d00","lds","plx","sop","cmfmcsop","pis","wm","adl","rad","cmf","mid","herad","rol","mus","mdi","coktel","u6m","rix","xmi","a2m"}
  Kept <- MCKept
  HscOrders = 3
  S3mOrders = 5
  Songs <- MCSongs
  MaxPlays = 3
  MaxTicks = 600
  Overrun <- MCOverrun
  Rows = 2
  LdsPositions = 2
  LdsRows = 2
  PatternRows = 2
  WmTicks = 12
  AdlVoices = {0, 6, 9}
  AdlBytes = 4
  Voices = 2
  MidiVoices = {0, 6, 7}
  HeradVoices = 2
  U6mVoices = {0, 1}
  A2mOrders = 4
  RixVoices = {0, 6, 7, 8}
  XmiVoices = {0, 3, 6}
  XmiSlots = {1, 2, 3, 4}
  XmiNotes = {1, 2, 3}
  ComposerVoices = {0, 6, 7, 8, 9}
SPECIFICATION Spec
INVARIANT RepeatsAreReported
PROPERTY RewindRestores
PROPERTY KeepsContract
PROPERTY UpdateReturns
PROPERTY EndReported
CHECK_DEADLOCK FALSE
