SPECIFICATION Spec
CONSTANTS
  Lights <- MCLights
  VdLights <- MCVdLights
  QueueMax = 2
INVARIANTS TypeOK Settled LightRestored
CHECK_DEADLOCK FALSE
