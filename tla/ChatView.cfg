SPECIFICATION Spec
CONSTANTS
  PageSize = 1
  Tasks = {t1, t2}
  MaxEvents = 1
  MaxSends = 2
  MaxFaults = 1
INVARIANTS
  TypeOK
  ConfirmedStays
  
  PagesCover
PROPERTY Shows
CHECK_DEADLOCK FALSE
