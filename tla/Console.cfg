CONSTANTS
  SizeMax = 5
  InitialCapacity = 2
  DefaultBytes = 4
  DefaultLines = 2
  Spans <- MCSpans
  Limits <- MCLimits
  WordSize = 16
  Decimal = 3
  Nibble = 4
  Minus = 14
  LineFeed = 13
  Accumulators = {0, 8, 13}
  Memory <- MCMemory
  Addresses = {1, 4, 8, 9, 15}
  ScanLimit = 4
SPECIFICATION IrvineSpec
INVARIANTS TypeOK OutputWithinLimits RejectionStaysTrue PrintedTextIsExact WarningsMatchOutput
PROPERTY FailureChangesNoOutput
