SPECIFICATION RoundsSpec
CONSTANTS
  Second = 4
  Tick = 2
  Wrap = 8
  MinTime <- MCMinTime
  MaxTime = 40
  ReadError = ReadError
  Settings <- MCSettings
  MaxFiles = 5
  BatchSizes = {0, 1, 2, 3}
  FileSets <- MCFileSets
INVARIANTS
  RoundsDoNotShow
PROPERTY
  RoundsShrink
