SPECIFICATION FairSpec
CONSTANTS
  Loops = {a, b}
  Rooms = {r}
  MaxEvents = 1
  MaxWelcomes = 2
  MaxFaults = 1
INVARIANTS
  TypeOK
  AckedIsDurable
PROPERTIES
  ChangesAnnounced
  WelcomesJoined
CHECK_DEADLOCK FALSE
