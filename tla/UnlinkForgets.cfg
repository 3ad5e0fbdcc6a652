SPECIFICATION Spec
CONSTANTS
  p1 = p1
  p2 = p2
  l1 = l1
  NoPerson = NoPerson
  Person <- TwoPersons
  Lid <- OneLid
  Time <- Times
  Name <- Names
  Order <- TheOrder
  MaxCandidates = 1
  MaxLinks = 1
  MaxTold = 3
  MaxFaults = 0
INVARIANT
  UnlinkForgets
