SPECIFICATION Spec
CONSTANTS
  MaxRec = 2
  MaxHour = 1
  Configs <- ArchiveSwitched
  MaxRestarts = 0
  StorageMayFail = TRUE
  SendMayFail = TRUE
  DiskMayFill = FALSE
PROPERTIES
  HistoryKept
