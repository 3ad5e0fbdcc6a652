SPECIFICATION FairSpec
CONSTANTS
  p1 = p1
  p2 = p2
  plain = plain
  lid = lid
  group = group
  m1 = m1
  m2 = m2
  m3 = m3
  NoPhone = NoPhone
  Phone = {p1}
  Chat = {plain, lid, group}
  Owner <- OneOwner
  ByLid = {lid}
  Message = {m1, m2, m3}
  ChatOf <- MCChatOf
  Attempts = 1
  Faults = TRUE
  MaxInFlight = 2
INVARIANT
  TypeOK
PROPERTIES
  QuietAfterWithdrawal
  ImplementsConsent
  AllowlistConverges
