SPECIFICATION FairSpec
CONSTANTS
  MaxCmd = 2
  MaxCloses = 1
  BeatLimit = 0
  QueueMax = 1
INVARIANT TypeOK
INVARIANT FramesWhole
INVARIANT RepliesInOrder
PROPERTY RepliesLeave
PROPERTY GateActs
