SPECIFICATION FairSpec
CONSTANTS
  MaxRec = 5
  NumSlots = 3
INVARIANTS
  TypeOK
  MqOnce
PROPERTIES
  MqTextHandled
