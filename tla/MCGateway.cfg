CONSTANTS
  d1 = d1
  c1 = c1
  c2 = c2
  c3 = c3
  Devs = {d1}
  Clients = {c1, c2}
  Watches <- TwoViewers
  QueueSize <- SmallQueues
  CamerasEntries = {"map", "null"}
  MaxSessions = 2
  MaxFrames <- TwoFramesOneChunk
SPECIFICATION Spec
SYMMETRY ViewerSymmetry
INVARIANTS TypeOK QueuesAreCurrent StreamsAreFaithful RegisteredIsConnected SecondSessionNeedsEarlyClose
CHECK_DEADLOCK FALSE
PROPERTIES SessionsLiveAsTold FailedBlocksCamera
