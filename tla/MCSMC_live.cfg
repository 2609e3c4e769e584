SPECIFICATION LiveSpec
CONSTANTS
  Readers = {r1, r2}
  Secondary = secondary
  Client = client
  Filter = filter
  Nobody = nobody
  MaxIn = 1
  MaxTime = 2
  CanTimeout = FALSE
  Spurious = FALSE
CHECK_DEADLOCK FALSE
INVARIANTS
  SyncersReleased
PROPERTIES
  PressAnswered
  PressReboots
  RtcReturns
