CONSTANTS
  UMax = 63
  FixedBase <- MCFixedBase
  FixedSize <- MCFixedSize
  StackTop = 48
  Alignment = 2
  TotalLimit = 60
  RandomRange <- MCRandom
  Mix <- MCMix
  BasePolicies <- MCBases
  Programs <- MCPrograms
  Seeds = {1, 2}
  NextSeed <- MCNextSeed
  SeedForZero = 6
SPECIFICATION LayoutSpec
INVARIANTS BuiltLayoutsKeepTheirPromise RefusalsAreHonest
