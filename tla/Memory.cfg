CONSTANTS
  UMax = 8
  FixedBase <- MCFixedBase
  FixedSize <- MCFixedSize
  StackTop = 8
  Alignment = 1
  TotalLimit = 8
  RandomRange <- MCRandom
  Mix <- MCMix
  ByteBase = 2
  MaxChanges = 2
  Widths = {1, 2}
  Policies <- MCPolicies
  Configs <- MCConfigs
  Contents = {1, 2}
  Loads <- MCLoads
SPECIFICATION Spec
INVARIANTS RegionsDisjoint RecorderTellsTheTruth WritesReadBack
PROPERTY OnlyLoadersChangeProtectedBytes
