SPECIFICATION FairSpec
CONSTANTS
  Tasks <- UserSlots
  KindOf <- UserKinds
  Modes = {"direct", "gsocket", "sealed"}
  InitStatus = "absent"
  Threshold = 2
  FailCap = 2
  Hosts = {"up", "noauth", "down", "stalled"}
  MaxRestarts = 1
  DbMayFail = FALSE
PROPERTIES
  LoginLossNoticed
  RemovalDrains
  PendingOnlyByUser
