SPECIFICATION SplitSpec
CONSTANTS
  Frames <- MCFrames
  Granularities <- MCGranularities
  Numbers = {0, 1}
  MaxPackets = 3
  MaxGrowth = 1
INVARIANTS SameFileIffSameConversation FilesAreFlows FailureLeavesPrefix
CHECK_DEADLOCK FALSE
