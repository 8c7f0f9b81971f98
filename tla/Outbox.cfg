SPECIFICATION FairSpec
CONSTANTS
  Msgs = {m1, m2}
  Rooms = {plainRoom, encRoom}
  EncRooms = {encRoom}
  Senders = {ui}
  SyncTask = sync
  NoTask = nobody
  Stamps = {1, 2}
  MaxFaults = 2
INVARIANTS
  TypeOK
  OneReadableCopy
  OwnTextSurvives
  NoOverlappingSend
  NoDowngrade
PROPERTIES
  PlainRoomsInOrder
  Drains
  KeepsPromise
