SPECIFICATION DbSpec
CONSTANTS
  a = a
  b = b
  c = c
  Keys = {a, b, c}
  Unknown = Unknown
  hash_radix = 3
  Hash <- MCHash
  Files <- MCFiles
  MaxAllocs = 4
  MaxMine = 1
PROPERTIES WipeRemovesThatRecord
