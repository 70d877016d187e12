SPECIFICATION ModSpec
CONSTANTS
  Songs <- MCSongs
  VoicesPerChip = 1
INVARIANTS ModTypeOK PitchSounds ReleaseSounds LevelsSound
