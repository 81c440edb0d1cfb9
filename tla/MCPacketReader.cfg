SPECIFICATION Spec
CONSTANTS
  Second = 4
  MinTime <- MCMinTime
  MaxTime = 15
  ReadError = ReadError
  NoTime = NoTime
  FileStamps <- MCStamps
  MaxLength = 3
  Starts <- MCStarts
  Repeats = {1, 2}
  Intervals = {0, 3}
  Jitters <- MCJitters
  Settings <- MCSettings
INVARIANTS
  FollowsTimeline
  BoundIfSpaced
