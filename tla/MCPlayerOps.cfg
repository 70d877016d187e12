SPECIFICATION PlayerLiveSpec
CONSTANTS
  Songs <- OpsSongs
  VoicesPerChip = 1
  Limit = 200
  SeekTargets = {0, 60, 61, 1000}
  MaxMeasures = 2
INVARIANTS LengthIsTheSongs SoundFollows
PROPERTIES MeasuresInSilence SeekMeetsLength WritesReachTheirChip OperationsReturn
