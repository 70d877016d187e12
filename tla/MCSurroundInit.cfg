SPECIFICATION SurroundSpec
CONSTANTS
  Voices = {0}
  Others = {189}
  Lows <- MCLows
  Highs <- MCHighs
  Values = {32}
  Offsets = {64, 128}
INVARIANTS HarmonicAlways
