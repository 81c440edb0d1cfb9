SPECIFICATION HeapSpec
CONSTANTS
  ReaderCount = 2
  Second = 4
  MinTime <- MCMinTime
  MaxTime = 40
  ReadError = ReadError
  Files <- MCFiles
  Starts <- MCStarts
  Repeats = {1, 2}
  Jitters <- MCJitters
  ShortStamps = {1, 2, 40}
  Inputs <- MCInputs
  NoEntry = NoEntry
INVARIANTS
  InFlightExact
  OutputSorted
  NothingLeftBehind
  HeapFaithful
PROPERTIES
  ImplementsSortedMerge
  Terminates
