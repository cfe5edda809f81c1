SPECIFICATION FairSpec
CONSTANTS
  MaxRec = 2
  MaxHour = 2
  Configs <- ForwardOnly
  MaxRestarts = 1
  StorageMayFail = FALSE
  SendMayFail = FALSE
  DiskMayFill = TRUE
INVARIANTS
  TypeOK
  InfoAfterPicture
  InfoOncePerRun
PROPERTIES
  Drains
