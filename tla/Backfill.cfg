SPECIFICATION FairSpec
CONSTANTS
  History = 4
  Batch = 2
  MaxStalls = 2
  MaxSlow = 2
  MaxResets = 1
  Skipped = {2,3}
  MaxMissed = 1
  MaxImports = 1
INVARIANTS
  TypeOK
  SlowRoundSurvived
  NoPileUp
PROPERTY
  WalkEnds
