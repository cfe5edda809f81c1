SPECIFICATION FairSpec
CONSTANTS
  MaxRec = 1
  MaxHour = 1
  Configs <- Archive
  MaxRestarts = 0
  StorageMayFail = FALSE
  SendMayFail = FALSE
  DiskMayFill = TRUE
PROPERTIES
  ClrEnds
