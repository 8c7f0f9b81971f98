SPECIFICATION Spec
CONSTANTS
  Openers = {opener}
  SyncTask = sync
  FetchLimit = 3
  MaxEvents = 3
  MaxFaults = 0
PROPERTY CommitsFirst
