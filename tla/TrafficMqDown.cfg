SPECIFICATION Spec
CONSTANTS
  MaxRec = 1
  MaxHour = 1
  Configs <- ForwardOnly
  MaxRestarts = 0
  StorageMayFail = FALSE
  SendMayFail = FALSE
  DiskMayFill = FALSE
PROPERTIES
  NotDeletedBeforeInfo
