CONSTANTS
  Requests = {r1, r2}
  Timeout = 2
  MaxSessions = 2
  MaxFrames = 2
SPECIFICATION FairSpec
INVARIANTS NextFrameServed NoListenerLeak FrameInTimeIsServed
PROPERTY EveryRequestIsAnswered
CHECK_DEADLOCK FALSE
