CONSTANTS
  General <- MCGeneral
  StackBase = 10
  StackLimit = 19
  DataWords = {1}
  TokenBase = 1000
  FrameCapacity = 2
  DescriptorCapacity = 3
  ArgumentCapacity = 3
  InstructionLimit = 10
  Images <- CrossingImages
  Settings <- CrossingSettings
  StartRegisters <- MCStart
SPECIFICATION FairSpec
INVARIANTS TypeOK EligibleMeansInEntry
PROPERTIES CrossingIsReported EventuallyStops
