CONSTANTS
  General <- MCGeneral
  StackBase = 10
  StackLimit = 19
  DataWords = {1}
  TokenBase = 1000
  FrameCapacity = 2
  DescriptorCapacity = 3
  ArgumentCapacity = 3
  InstructionLimit = 14
  Images <- WildImages
  Settings <- WildSettings
  StartRegisters <- MCStart
SPECIFICATION Spec
INVARIANTS CallDepthWithinLimit RootStreamOnlyWithoutHelpers FrameArraysWithinCapacity DescriptorsMatchFrames LocalFramesInsideStack
PROPERTY RefusedStepChangesNothing
