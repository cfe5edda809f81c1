SPECIFICATION FairSpec
CONSTANTS
  MaxRec = 2
  QueueMax = 1
  ZqMax = 1
  Tries = 2
  NumPics = 2
  Rotate = 2
  AnswerLost = TRUE
  MaxRestarts = 1
INVARIANTS
  TypeOK NoMessageLost PicturesBounded PictureOfItsRecord BufferAnnounced
PROPERTIES
  MessagesInOrder PictureLeaves MessagesDrain
