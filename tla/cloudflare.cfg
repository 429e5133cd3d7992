SPECIFICATION Spec
CONSTANTS
  MaxBuf = 3
  MaxBytes = 4
PROPERTIES Contract
CHECK_DEADLOCK FALSE
