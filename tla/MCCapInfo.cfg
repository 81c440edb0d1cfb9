SPECIFICATION FairSpec
CONSTANTS
  Captures <- MCCaptures
  MaxTime = 5
  Width = 2
  NoTime = NoTime
  MaxBlocks = 3
INVARIANTS
  BothReadTheSame
  OwnInterfaceInOneSection
  ReportAgrees
  IntervalsPartition
PROPERTY AnalysisEnds
