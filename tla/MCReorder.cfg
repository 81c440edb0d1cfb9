SPECIFICATION FairReorderSpec
CONSTANTS
  Captures <- MCCaptures
  MaxTime = 9
  None = None
  MaxBlocks = 4
INVARIANTS
  EveryByteOnce
  ReadBackTheSame
  OutputOrdered
  ReportsDisorder
PROPERTY Terminates
