CONSTANTS
  d1 = d1
  c1 = c1
  c2 = c2
  c3 = c3
  Devs = {d1}
  Clients = {c3}
  Watches <- OneListener
  QueueSize <- SmallQueues
  CamerasEntries = {"map"}
  MaxSessions = 2
  MaxFrames <- TwoChunks
SPECIFICATION Spec
INVARIANTS StreamingClientIsFed
CHECK_DEADLOCK FALSE
