SPECIFICATION FairSpec
CONSTANTS
  Openers = {opener}
  SyncTask = sync
  FetchLimit = 2
  MaxEvents = 3
  MaxFaults = 1
INVARIANTS
  TypeOK
  UnreadableHasCause
  StuckHasCause
  CachedIsSpent
PROPERTY Settles
