SPECIFICATION Spec
CONSTANTS
  MaxRec = 2
  MaxHour = 1
  Configs <- ForwardOnly
  MaxRestarts = 0
  StorageMayFail = FALSE
  SendMayFail = FALSE
  DiskMayFill = FALSE
PROPERTIES
  DroppedAtItsEnd
