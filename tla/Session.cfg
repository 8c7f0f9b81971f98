SPECIFICATION Spec
CONSTANTS
  Users = {u1, u2}
  MaxLogins = 2
  MaxLaunches = 2
  MaxFaults = 1
INVARIANTS
  TypeOK
  LogoutSticks
  KeptIsUsed
  OwnKeys
  PublishedIsUsed
PROPERTIES
  SessionIsKept
  ComesBack
CHECK_DEADLOCK FALSE
