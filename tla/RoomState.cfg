SPECIFICATION FairSpec
CONSTANTS
  Keys = {name, topic}
  NoKey = message
  MaxEvents = 3
  MaxCrashes = 1
  SyncLimit = 2
  FetchLimit = 2
INVARIANTS
  TypeOK
  LatestState
  AckedIsStored
PROPERTY EverythingArrives
