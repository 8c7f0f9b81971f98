SPECIFICATION Spec
CONSTANTS
  Sends = {text1, text2, commit1, commit2}
  Queued = {text1, text2}
  NoId = noId
  Dedup = TRUE
  MaxMillis = 2
  MaxTries = 2
INVARIANT ExactlyOnce
CHECK_DEADLOCK FALSE
