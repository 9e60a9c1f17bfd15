CONSTANTS
  Stream <- FourFrames
  FirstId = 1
  IdMod = 6
  Window = 4
  Unshowable <- NoneUnshowable
SPECIFICATION Spec
PROPERTY OnlyRetransmitsIgnored
CHECK_DEADLOCK FALSE
