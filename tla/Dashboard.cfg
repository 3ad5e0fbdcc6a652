SPECIFICATION FairSpec
CONSTANTS
  p1 = p1
  p2 = p2
  Phone = {p1}
  AtFirst = {p1}
  MaxActs = 3
  MaxFaults = 1
INVARIANT
  TypeOK
PROPERTIES
  ReadYourWrites
  OldRowHarmless
  ShownConverges
