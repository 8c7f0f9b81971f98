SPECIFICATION Spec
CONSTANTS
  MaxCalls = 2
  Devices = {d1, d2}
  MaxAdds = 3
  MaxMessages = 1
  MaxFaults = 1
INVARIANT TypeOK
INVARIANT NoFork
INVARIANT StrandedOnlyByGap
INVARIANT UnreadOnlyAhead
INVARIANT OkMeansAdded
PROPERTY CatchUp
CHECK_DEADLOCK FALSE
