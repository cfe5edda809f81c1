SPECIFICATION FairSpec
CONSTANTS
  MaxRec = 2
  MaxControl = 2
  QueueMax = 2
INVARIANTS
  TypeOK
  FullAccounted
PROPERTIES
  ControlHandled
