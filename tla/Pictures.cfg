SPECIFICATION FairSpec
CONSTANTS
  p1 = p1
  p2 = p2
  Phone <- TwoPhones
  Slot <- TwoSlots
  Refused <- SecondPictures
  MaxKept = 1
  MaxSocks = 2
  MaxChanges = 1
  MaxFaults = 1
INVARIANTS
  TypeOK
  OnePass
PROPERTIES
  ShownSoon
