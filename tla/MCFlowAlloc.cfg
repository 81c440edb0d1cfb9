SPECIFICATION Spec
CONSTANTS
  Addr <- MCAddr
  CatchAll = CatchAll
  NoFragment = NoFragment
  NoSession = NoSession
  Unchanged = Unchanged
  NoPacket = NoPacket
  Configs <- MCConfigs
  Packets <- MCPackets
  Files = {f1, f2}
  GroupCount = 2
  HashIndex <- MCHashIndex
  MaxReads = 3
SYMMETRY FileSymmetry
CHECK_DEADLOCK FALSE
INVARIANTS
  UniqueUntilExhausted
  OnePairPerConnection
  FragmentsTogether
  MostSpecificWins
