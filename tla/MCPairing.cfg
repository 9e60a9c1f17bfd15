CONSTANTS
  Tickets = {1}
  NoTicket = 0
  LoginCommands <- PairLogin
  ListWifiReplies <- PairReplies
  CloseLengths = {4, 8}
  IdMod = 3
  SessPeriod = 1
  ResendPeriod = 1
  AliveAfter = 1
  TimeoutMs = 2
  RetryAfter = 0
  Lag = 0
  MaxMsgs = 3
  MaxIds = 3
  MaxSessions = 2
  NetworkCounts = {0, 1, 2}
SPECIFICATION FairPairSpec
INVARIANTS CredentialsOnce PairingIsLive
PROPERTIES SilentCameraIsDropped PendingIsRetried
CHECK_DEADLOCK FALSE
