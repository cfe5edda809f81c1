SPECIFICATION Spec
CONSTANTS
  Kinds = {"http", "mq"}
  Watched = "http"
  MaxRec = 2
  MaxLimit = 2
  NameCap = 1
  BackoffLen = 2
  MaxRestarts = 0
  HalfOpen = TRUE
  DbMayFail = TRUE
  FsMayFail = TRUE
INVARIANT HttpAtMostOnce
INVARIANT RightPicture
