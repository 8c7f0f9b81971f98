SPECIFICATION FairSpec
CONSTANTS
  Loops = {a}
  Rooms = {r}
  MaxEvents = 1
  MaxWelcomes = 2
  MaxFaults = 2
INVARIANT WelcomeNeverLost
CHECK_DEADLOCK FALSE
