SPECIFICATION FairSpec
CONSTANTS
  Kinds = {"ftp"}
  Watched = "ftp"
  MaxRec = 4
  MaxLimit = 2
  NameCap = 1
  BackoffLen = 2
  MaxRestarts = 1
  HalfOpen = FALSE
  DbMayFail = FALSE
  FsMayFail = FALSE
INVARIANT TypeOK
INVARIANT TableBounded
INVARIANT RowsMatchFiles
INVARIANT NewestKept
PROPERTY Drained
PROPERTY IsOutbox
