SPECIFICATION Spec
CONSTANTS
    Byte <- MCByte
    Word <- MCWord
    Dword <- MCDword
    SignBit <- MCSignBit
    Starts <- MCStarts
    Menu <- MCMenu
    Policies <- MCPolicies
    Writable <- MCWritable
    NoBase <- MCNoBase
    MaxSteps = 2
INVARIANTS BranchesDecideOrder UndefinedFlagsDoNotLeak UnwrittenKeepsStartup
PROPERTIES ResultsAreExact PredictionIsHonest
