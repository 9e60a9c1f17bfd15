CONSTANTS
  Stream <- FourKinds
  FirstId = 0
  IdMod = 11
  Window = 3
  Unshowable <- SecondUnshowable
SPECIFICATION Spec
INVARIANTS TypeOK NoHiddenHole ShownIsOneFrame
PROPERTY MissesNothing
CHECK_DEADLOCK FALSE
