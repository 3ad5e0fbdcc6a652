SPECIFICATION Spec
CONSTANTS
  p1 = p1
  p2 = p2
  plain = plain
  lid = lid
  group = group
  m1 = m1
  m2 = m2
  m3 = m3
  NoPhone = NoPhone
  Phone = {p1, p2}
  Chat = {plain, lid}
  Owner <- TwoOwners
  ByLid = {lid}
  Message = {m1, m2}
  ChatOf <- TwoChatOf
  Attempts = 1
  Faults = FALSE
  MaxInFlight = 1
PROPERTY
  DeletionMarks
