SPECIFICATION Spec
CONSTANTS
  pin = pin
  face = face
  Types = {pin, face}
  Sessions <- TwoTypesOnce
  Attempts = 1
  MaxReloads = 0
INVARIANT ComplexityIsFailure
CHECK_DEADLOCK FALSE
