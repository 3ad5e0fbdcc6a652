SPECIFICATION Spec
CONSTANTS
  t1 = t1
  t2 = t2
  m1 = m1
  m2 = m2
  NoText = NoText
  DeletedNote = DeletedNote
  MediaNote = MediaNote
  NoEmoji = NoEmoji
  NoHash = NoHash
  Unsent = Unsent
  Text <- MCText
  ExportUnit = 1
  WaId = {m1}
  Emoji = {e1}
  Sendable <- Mixed
  Lossy = FALSE
  Exporting = FALSE
  MaxInFlight = 1
CHECK_DEADLOCK FALSE
INVARIANT
  ViewOnceNotStored
