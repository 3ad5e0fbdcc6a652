SPECIFICATION Spec
CONSTANTS
  t1 = t1
  t2 = t2
  m1 = m1
  m2 = m2
  NoText = NoText
  DeletedNote = DeletedNote
  MediaNote = MediaNote
  NoEmoji = NoEmoji
  NoHash = NoHash
  Unsent = Unsent
  Text <- MCText
  ExportUnit = 1
  WaId <- Ids
  Emoji = {e1}
  Sendable <- OneText
  Lossy = TRUE
  Exporting = FALSE
  MaxInFlight = 2
SYMMETRY IdSymmetry
CHECK_DEADLOCK FALSE
INVARIANTS
  UniqueRows
  LiveRowsFaithful
  IndependentEventsCommute
