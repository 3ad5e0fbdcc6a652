SPECIFICATION FairSpec
CONSTANTS
  s1 = s1
  s2 = s2
  s3 = s3
  Socket = {s1, s2, s3}
  NoSocket = NoSocket
  MaxLoginFailures = 3
  Attempts = 1
  MaxRequests = 2
  MaxLinks = 1
  Faults = TRUE
INVARIANTS
  TypeOK
  NeverStranded
  OnePerRequest
PROPERTIES
  NoSilentLoop
  LogoutRemedies
