CONSTANTS
  t1 = t1
  Tickets = {t1, NoTicket}
  NoTicket = NoTicket
  LoginCommands <- VideoLogin
  ListWifiReplies <- NoReply
  CloseLengths = {4, 8}
  IdMod = 4
  SessPeriod = 1
  ResendPeriod = 1
  AliveAfter = 0
  TimeoutMs = 1
  RetryAfter = 0
  Lag = 0
  MaxMsgs = 4
  MaxIds = 4
SPECIFICATION Spec
INVARIANTS TypeOK NoSilentLoss AcksUnambiguous TicketDiscipline
CHECK_DEADLOCK FALSE
PROPERTIES ImplementsDelivery ClosedIsSilent ProbedBeforeDrop LivesAsTold
