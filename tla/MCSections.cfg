SPECIFICATION Spec
CONSTANTS
  Captures <- MCSections
  MaxTime = 40
  Width = 2
  NoTime = NoTime
  MaxBlocks = 2
INVARIANT OwnInterface
