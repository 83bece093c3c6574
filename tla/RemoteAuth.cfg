SPECIFICATION Spec
CONSTANTS
  MaxFaults = 1
  MaxExtra = 1
INVARIANTS NoStaleListener
PROPERTIES LossIsReported EverythingReleased
CHECK_DEADLOCK FALSE
