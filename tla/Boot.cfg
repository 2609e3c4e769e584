SPECIFICATION BootSpec
CONSTANTS
  MaxFailures = 1
INVARIANTS
  
  FreedAfterFailure
  CallsWhole
PROPERTIES
  StartsEnd
CHECK_DEADLOCK FALSE
