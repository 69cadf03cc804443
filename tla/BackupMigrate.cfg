SPECIFICATION Spec
CONSTANTS
  Sites <- OldAndNew
  MasterKey <- OwnKeys
  Passwords <- RightWrong
  Names = {"web"}
  ByHand = TRUE
  MaxRows = 2
INVARIANT SshKeysUsable
PROPERTY ImportRestores
