CONSTANTS
  General <- MCGeneral
  StackBase = 10
  StackLimit = 24
  DataWords = {1}
  TokenBase = 1000
  FrameCapacity = 3
  DescriptorCapacity = 5
  ArgumentCapacity = 3
  InstructionLimit = 40
  Images <- DisciplinedImages
  Settings <- DisciplinedSettings
  StartRegisters <- MCStart
SPECIFICATION HSpec
INVARIANT FramesMirrorCalls
PROPERTY ImplementsActivations
