SPECIFICATION FairSpec
CONSTANTS
  Tasks <- LoopSlots
  KindOf <- LoopKinds
  Modes = {"direct", "gsocket", "sealed"}
  InitStatus = "online"
  Threshold = 2
  FailCap = 2
  Hosts = {"up", "noport", "down", "stalled"}
  MaxRestarts = 0
  DbMayFail = FALSE
PROPERTIES
  OutageSettles
  RecoverySettles
  NoVerdictWithoutSecret
