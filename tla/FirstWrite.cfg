CONSTANTS
  UMax = 63
  FixedBase <- MCFixedBase
  FixedSize <- MCFixedSize
  StackTop = 48
  Alignment = 1
  TotalLimit = 63
  RandomRange <- MCRandom
  Mix <- MCMix
  MapCapacity = 4
  ByteBase = 16
  MaxChanges = 8
  Widths = {1, 2}
  Slot = 2
  MaxAccesses = 4
  MaxReports = 2
  MaxMarks = 2
  Token = 77
  FrameCapacity = 2
  Limit = 3
  Settings <- MCSettings
  Layouts <- MCLayouts
  Sources <- MCSources
  EntryLocals <- MCEntryLocals
  HelperLocals <- MCHelperLocals
  Instructions <- MCInstructions
SPECIFICATION Spec
CHECK_DEADLOCK FALSE
PROPERTY FirstWriteCounts
