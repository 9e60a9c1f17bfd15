CONSTANTS
  Requests = {r1, r2}
  Timeout = 2
  MaxSessions = 2
  MaxFrames = 2
SPECIFICATION FairSpec
PROPERTY MalformedIsReported
CHECK_DEADLOCK FALSE
