SPECIFICATION Spec
CONSTANTS
  a = a
  b = b
  c = c
  n = n
  Message <- MCMessage
  Notice = {n}
  Blank = {}
  Stamp <- MCStamp
  Gap = 1
  Day <- MCDay
  SortedExport = TRUE
  Importing = TRUE
  MaxDeleted = 1
  NoSession = NoSession
SYMMETRY PeopleSymmetry
CHECK_DEADLOCK FALSE
INVARIANTS
  TypeOK
  SessionsSound
  CountedOnce
  NeverOverMerged
  InOrderMatchesRecompute
  RecomputesRuns
  RecomputeOnlySplits
