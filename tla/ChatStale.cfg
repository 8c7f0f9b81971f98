SPECIFICATION Spec
CONSTANTS
  PageSize = 2
  Tasks = {t1}
  MaxEvents = 2
  MaxSends = 1
  MaxFaults = 0
INVARIANT ShowsVerdict
CHECK_DEADLOCK FALSE
