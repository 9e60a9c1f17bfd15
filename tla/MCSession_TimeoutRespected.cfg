CONSTANTS
  t1 = t1
  Tickets = {t1}
  NoTicket = NoTicket
  LoginCommands <- PairLogin
  ListWifiReplies <- PairReplies
  CloseLengths = {4, 8}
  IdMod = 65536
  SessPeriod = 4
  ResendPeriod = 5
  AliveAfter = 6
  TimeoutMs = 50
  RetryAfter = 1
  Lag = 1
  MaxMsgs = 2
  MaxIds = 3
SPECIFICATION Spec
PROPERTY TimeoutRespected
CHECK_DEADLOCK FALSE
