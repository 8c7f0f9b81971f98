SPECIFICATION Spec
CONSTANTS
  Msgs = {m1}
  Rooms = {plainRoom}
  EncRooms = {}
  Senders = {ui}
  SyncTask = sync
  NoTask = nobody
  Stamps = {1}
  MaxFaults = 1
INVARIANT FailedMeansUnsent
