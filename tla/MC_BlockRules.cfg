SPECIFICATION Spec
CONSTANTS
  TimestampWindow = 2
  FutureLimit = 0
  DifficultyWindow = 4
  DifficultyLag = 1
  DifficultyCut = 1
  DifficultyTarget = 6
  WordValues = 8
  HashWords = {0, 2, 5}
  Times <- MCTimes
  MaxHeight = 6
  MaxAlt = 2
INVARIANTS
  AltDifficultyRight
  OldBlocksReturn
  WorkGrows
  HashTestRight
