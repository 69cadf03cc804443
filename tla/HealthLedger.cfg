SPECIFICATION LSpec
CONSTANTS
  Tasks <- LedgerSlots
  KindOf <- LedgerKinds
  Modes = {"direct", "gsocket", "sealed"}
  InitStatus = "absent"
  Threshold = 2
  FailCap = 2
  Hosts = {"up", "down"}
  MaxRestarts = 1
  DbMayFail = TRUE
INVARIANTS
  CounterSound
PROPERTIES
  AlarmIsDeserved
