SPECIFICATION LiveSpec
CONSTANTS
  Vectors = {v1, f1}
  Filters = {f1}
  Spurious = spurious
CHECK_DEADLOCK FALSE
INVARIANTS
  EnabledNotMasked
  StormBounded
PROPERTIES
  DeviceServiced
